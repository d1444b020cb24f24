------------------------------- MODULE Writev -------------------------------
(***************************************************************************)
(* IO::do_writev (), the loop over do_write () that every class inherits,  *)
(* run by several tasks on one device.  Between two buffers the device is  *)
(* anybody's.  do_write () belongs to the driver: it takes a buffer whole, *)
(* or only its beginning, or reports an error and takes nothing.           *)
(***************************************************************************)
EXTENDS Integers, Sequences, FiniteSets

CONSTANTS Tasks,
          Vectors   \* what is written: sequences of buffer lengths

\* writev () refuses an empty vector before it comes here.
ASSUME WritevAssumption == Vectors \subseteq Seq(Nat) \ {<<>>}

VARIABLES shortWrites,  \* the driver may take only the beginning of a buffer
          iov,    \* task -> the vector it is writing, or <<>>
          i,      \* task -> the buffer it is at
          total,  \* task -> its local variable
          ret,    \* task -> result of its last call
          out     \* what the device took: each byte as its task, buffer and place

writevVars == <<shortWrites, iov, i, total, ret, out>>

WritevInit == /\ shortWrites \in BOOLEAN
              /\ iov = [t \in Tasks |-> <<>>]
              /\ i = [t \in Tasks |-> 1]
              /\ total = [t \in Tasks |-> 0]
              /\ ret = [t \in Tasks |-> 0]
              /\ out = <<>>

Bytes(t, buffer, n) == [place \in 1 .. n |-> <<t, buffer, place>>]

\* One call per task: the device's output is compared with it.
Call(t, vector) == /\ iov[t] = <<>>
                   /\ iov' = [iov EXCEPT ![t] = vector]
                   /\ UNCHANGED <<shortWrites, i, total, ret, out>>

IsWriting(t) == iov[t] # <<>> /\ i[t] <= Len(iov[t])

\* Mutation: the length asked for is added, not the result.
Count_Asked(t, n) == total' = [total EXCEPT ![t] = @ + iov[t][i[t]]]

Count(t, n) == total' = [total EXCEPT ![t] = @ + n]

\* What is returned after the last buffer.
Finish(t) == ret' = IF i[t] = Len(iov[t]) THEN [ret EXCEPT ![t] = total'[t]] ELSE ret

\* do_write () of the next buffer returned n.  A short count does not end the
\* loop: the next buffer follows.
WriteBuffer(t) ==
  /\ IsWriting(t)
  /\ \E n \in IF shortWrites THEN 0 .. iov[t][i[t]] ELSE {iov[t][i[t]]} :
       /\ out' = out \o Bytes(t, i[t], n)
       /\ Count(t, n)
  /\ Finish(t)
  /\ i' = [i EXCEPT ![t] = @ + 1]
  /\ UNCHANGED <<shortWrites, iov>>

\* Mutation: an error of do_write () does not end the loop.
Abandon_Not(t) == i' = [i EXCEPT ![t] = @ + 1]

Abandon(t) == i' = [i EXCEPT ![t] = Len(iov[t]) + 1]

\* The count of the buffers before is forgotten.
WriteError(t) == /\ IsWriting(t)
                 /\ ret' = [ret EXCEPT ![t] = -1]
                 /\ Abandon(t)
                 /\ UNCHANGED <<shortWrites, iov, total, out>>

WritevNext == \E t \in Tasks : \/ \E vector \in Vectors : Call(t, vector)
                         \/ WriteBuffer(t)
                         \/ WriteError(t)

WritevSpec == WritevInit /\ [][WritevNext]_writevVars

-----------------------------------------------------------------------------
(* Properties *)

\* Where in its output the device has bytes of a task.
Taken(t) == {k \in DOMAIN out : out[k][1] = t}

Returned(t) == iov[t] # <<>> /\ i[t] = Len(iov[t]) + 1

\* A result that is not an error is the number of bytes the device took from
\* this call, whatever other tasks wrote in between.
CountIsWhatWasTaken ==
  \A t \in Tasks : Returned(t) /\ ret[t] >= 0 => ret[t] = Cardinality(Taken(t))

\* The bytes a task asked to be written, and their order.
Asked(t) == UNION {{<<t, b, place>> : place \in 1 .. iov[t][b]} : b \in DOMAIN iov[t]}

Precedes(x, y) == x[2] < y[2] \/ (x[2] = y[2] /\ x[3] < y[3])

\* With a driver that takes buffers whole, the device has at every moment a
\* beginning of what the task asked for, also after an error: nothing is
\* taken out of order or twice, nothing is skipped.
TakenIsAPrefix ==
  ~shortWrites =>
    \A t \in Tasks : \A k \in Taken(t) :
      /\ out[k] \in Asked(t)
      /\ \A later \in Taken(t) : k < later => Precedes(out[k], out[later])
      /\ \A x \in Asked(t) : Precedes(x, out[k]) => \E sooner \in Taken(t) : out[sooner] = x
=============================================================================
