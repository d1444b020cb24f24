------------------------ MODULE DescriptorCallsProofs ------------------------
(***************************************************************************)
(* The calls on open descriptors.  First their outcomes, for any array of  *)
(* descriptors and any objects: which implementation function a call may   *)
(* enter, and whose errno it leaves.  Then the loop of do_writev () for    *)
(* any number of tasks and any vectors: the tasks' buffers interleave on   *)
(* the device, their bytes and counts do not.                              *)
(***************************************************************************)
EXTENDS DescriptorCalls, Writev, FiniteSetTheorems, SequenceTheorems, TLAPS

\* The values errno has after a failure, and the names of the calls.
Failures == {"EBADF", "EFAULT", "EINVAL", "EIO", "ENOTTY", "ESPIPE", "ENOSYS", "EIMPL"}

Operations == {"init", "rebind", "look", "unavailable", "read", "write", "writev", "fcntl",
               "fstat", "isatty", "ioctl", "lseek", "ftruncate", "fsync", "socket_call"}

\* The types of the variables.
CallsTypeOK ==
  /\ sfDescriptorsArray \in [Descriptors -> IOs \cup {nullptr}]
  /\ errno \in Failures \cup {"0", "old"}
  /\ last \in [op : Operations, fd : Int, ret : Int, entered : IOs \cup {nullptr}]

\* What every call keeps, whatever the array and errno were before it.
CallsInv == /\ CallsTypeOK
            /\ ErrnoIsOfThisCall
            /\ CastsAreRight

-----------------------------------------------------------------------------
(* How calls end *)

\* The operations whose method is reached by a cast to a class.
CastsTo(op) == IF op \in {"lseek", "ftruncate", "fsync"} THEN Files
               ELSE IF op = "ioctl" THEN Devices
               ELSE IF op = "socket_call" THEN Sockets
               ELSE IOs

\* An outcome that CallsInv allows: result and errno agree, and the object
\* entered, if any, is of the class cast to.
Outcome(op, fd, result, object, e) ==
  /\ errno' = e
  /\ last' = [op |-> op, fd |-> fd, ret |-> result, entered |-> object]
  /\ UNCHANGED sfDescriptorsArray
  /\ result \in Int /\ fd \in Int /\ op \in Operations
  /\ object \in CastsTo(op) \cup {nullptr}
  /\ e \in Failures \cup {"0", "old"}
  /\ result = -1 => e \in Failures
  /\ object # nullptr /\ result = -1 => e \in {"ENOSYS", "EIMPL"}
  /\ object # nullptr /\ result >= 0 => e = "0" \/ (op = "isatty" /\ result = 0)

\* An outcome of that kind keeps the invariant.
LEMMA OutcomeKeeps ==
  ASSUME CallsInv, NEW op, NEW fd, NEW result, NEW object, NEW e,
         Outcome(op, fd, result, object, e)
  PROVE  CallsInv'
<1>1. CastsTo(op) \subseteq IOs
  BY DEF CastsTo, IOs
<1>2. CallsTypeOK'
  BY <1>1 DEF Outcome, CallsInv, CallsTypeOK
<1>3. ErrnoIsOfThisCall'
  BY DEF Outcome, ErrnoIsOfThisCall, Failures
<1>4. CastsAreRight'
  BY DEF Outcome, CastsAreRight, CastsTo
<1> QED BY <1>2, <1>3, <1>4 DEF CallsInv

\* A call that is refused has set errno.
LEMMA RefusesKeeps ==
  ASSUME CallsInv, NEW op \in Operations, NEW fd \in Int, NEW e \in Failures, Refuses(op, fd, e)
  PROVE  CallsInv'
<1>1. Outcome(op, fd, -1, nullptr, e)
  BY DEF Outcome, Refuses, Ends
<1> QED BY <1>1, OutcomeKeeps

\* A call that succeeds without an implementation function may leave errno.
LEMMA EndsKeeps ==
  ASSUME CallsInv, NEW op \in Operations, NEW fd \in Int, NEW result \in Nat,
         NEW e \in {"0", errno}, Ends(op, fd, result, e)
  PROVE  CallsInv'
<1>1. Outcome(op, fd, result, nullptr, e)
  BY DEF Outcome, Ends, CallsInv, CallsTypeOK
<1> QED BY <1>1, OutcomeKeeps

\* A driver's function or a base class's, on an object of the right class.
LEMMA RunsKeeps ==
  ASSUME CallsInv, NEW op \in Operations, NEW fd \in Int, NEW object \in CastsTo(op),
         NEW results \in SUBSET Nat, Runs(op, fd, object, results)
  PROVE  CallsInv'
<1>1. CASE \E result \in results : Enters(op, fd, object, result, Cleared)
  <2>1. PICK result \in results : Enters(op, fd, object, result, Cleared)
    BY <1>1
  <2>2. Outcome(op, fd, result, object, "0")
    BY <2>1 DEF Outcome, Enters, Cleared
  <2> QED BY <2>2, OutcomeKeeps
<1>2. CASE \E e \in {"EIMPL", "ENOSYS"} : Enters(op, fd, object, -1, e)
  <2>1. PICK e \in {"EIMPL", "ENOSYS"} : Enters(op, fd, object, -1, e)
    BY <1>2
  <2>2. Outcome(op, fd, -1, object, e)
    BY <2>1 DEF Outcome, Enters, Failures
  <2> QED BY <2>2, OutcomeKeeps
<1>3. CASE op = "isatty" /\ Enters(op, fd, object, 0, "ENOTTY")
  <2>1. Outcome(op, fd, 0, object, "ENOTTY")
    BY <1>3 DEF Outcome, Enters, Failures
  <2> QED BY <2>1, OutcomeKeeps
<1>4. CASE op = "isatty" /\ Enters(op, fd, object, 1, Cleared)
  <2>1. Outcome(op, fd, 1, object, "0")
    BY <1>4 DEF Outcome, Enters, Cleared
  <2> QED BY <2>1, OutcomeKeeps
<1> QED BY <1>1, <1>2, <1>3, <1>4
        DEF Runs, Overridden, NotImplemented, IODefault, CharDeviceDefault, FileDefault,
            SocketDefault

\* The same after the object was asked for its state.
LEMMA RunsIfReadyKeeps ==
  ASSUME CallsInv, NEW op \in Operations, NEW fd \in Int, NEW object \in CastsTo(op), NEW state,
         NEW results \in SUBSET Nat, RunsIfReady(op, fd, object, state, results)
  PROVE  CallsInv'
  BY RunsKeeps, RefusesKeeps DEF RunsIfReady, Failures

\* What a descriptor leads to is an object, if it is not nullptr.
LEMMA GetIoType ==
  ASSUME CallsInv, NEW fd
  PROVE  GetIo(fd) \in IOs \cup {nullptr}
  BY DEF CallsInv, CallsTypeOK, GetIo

-----------------------------------------------------------------------------
(* The calls *)

\* Without an object a call is refused, or is about a standard descriptor.
LEMMA AnyDescriptorKeeps ==
  ASSUME CallsInv, NEW fd \in Int, NEW buf, NEW nbyte \in {0, 1}, NEW state,
         \/ Read(fd, buf, state) \/ Write(fd, buf, nbyte, state)
         \/ Writev(fd, buf, nbyte, state) \/ Fcntl(fd, state) \/ Fstat(fd, buf, state)
         \/ Isatty(fd)
  PROVE  CallsInv'
<1> DEFINE object == GetIo(fd)
<1>1. object # nullptr => object \in IOs
  BY GetIoType
<1> HIDE DEF object
<1>2. object \in IOs =>
         /\ \A op \in {"read", "write", "writev", "fcntl", "fstat", "isatty"} :
               object \in CastsTo(op)
  BY DEF CastsTo
<1> USE DEF Failures, Operations
<1>3. CASE Read(fd, buf, state)
  BY <1>1, <1>2, <1>3, EndsKeeps, RefusesKeeps, RunsIfReadyKeeps DEF Read, object
<1>4. CASE Write(fd, buf, nbyte, state)
  BY <1>1, <1>2, <1>4, EndsKeeps, RefusesKeeps, RunsIfReadyKeeps DEF Write, object
<1>5. CASE Writev(fd, buf, nbyte, state)
  BY <1>1, <1>2, <1>5, EndsKeeps, RefusesKeeps, RunsIfReadyKeeps DEF Writev, object
<1>6. CASE Fcntl(fd, state)
  BY <1>1, <1>2, <1>6, EndsKeeps, RefusesKeeps, RunsIfReadyKeeps DEF Fcntl, object
<1>7. CASE Fstat(fd, buf, state)
  BY <1>1, <1>2, <1>7, EndsKeeps, RefusesKeeps, RunsIfReadyKeeps DEF Fstat, object
<1>8. CASE Isatty(fd)
  BY <1>1, <1>2, <1>8, EndsKeeps, RefusesKeeps, RunsKeeps DEF Isatty, object
<1> QED BY <1>3, <1>4, <1>5, <1>6, <1>7, <1>8

\* The type was tested before the cast.
LEMMA OneTypeKeeps ==
  ASSUME CallsInv, NEW fd \in Int, NEW length \in Int, NEW state,
         \/ Ioctl(fd, state) \/ Lseek(fd, state) \/ Ftruncate(fd, length, state)
         \/ Fsync(fd, state) \/ SocketCall(fd, state)
  PROVE  CallsInv'
<1> DEFINE object == GetIo(fd)
<1>1. /\ object \in Devices => object \in CastsTo("ioctl")
      /\ object \in Files => /\ object \in CastsTo("lseek") /\ object \in CastsTo("ftruncate")
                             /\ object \in CastsTo("fsync")
      /\ object \in Sockets => object \in CastsTo("socket_call")
  BY DEF CastsTo
<1> USE DEF Failures, Operations, OfType
<1>2. CASE Ioctl(fd, state)
  BY <1>1, <1>2, RefusesKeeps, RunsKeeps DEF Ioctl
<1>3. CASE Lseek(fd, state)
  BY <1>1, <1>3, RefusesKeeps, RunsKeeps DEF Lseek
<1>4. CASE Ftruncate(fd, length, state)
  BY <1>1, <1>4, RefusesKeeps, RunsKeeps DEF Ftruncate
<1>5. CASE Fsync(fd, state)
  BY <1>1, <1>5, RefusesKeeps, RunsKeeps DEF Fsync
<1>6. CASE SocketCall(fd, state)
  BY <1>1, <1>6, RefusesKeeps, RunsKeeps DEF SocketCall
<1> QED BY <1>2, <1>3, <1>4, <1>5, <1>6

\* The array changes, or the program looks at errno: no call is under way.
LEMMA OthersKeep ==
  ASSUME CallsInv,
         \/ \E fd \in Descriptors, object \in IOs \cup {nullptr} : Rebind(fd, object)
         \/ Look
  PROVE  CallsInv'
<1>1. PICK op \in {"rebind", "look"} : Others(op)
  BY DEF Rebind, Look
<1> USE DEF Operations
<1>2. /\ last' \in [op : Operations, fd : Int, ret : Int, entered : IOs \cup {nullptr}]
      /\ last'.op = op /\ last'.ret = 0 /\ last'.entered = nullptr
  <2>1. last' = [op |-> op, fd |-> last.fd, ret |-> 0, entered |-> nullptr]
    BY <1>1 DEF CallsInv, CallsTypeOK, Others
  <2> QED BY <2>1 DEF CallsInv, CallsTypeOK
<1>3. CallsTypeOK'
  BY <1>2 DEF CallsInv, CallsTypeOK, Rebind, Look
<1>4. ErrnoIsOfThisCall' /\ CastsAreRight'
  BY <1>2 DEF ErrnoIsOfThisCall, CastsAreRight
<1> QED BY <1>3, <1>4 DEF CallsInv

\* Nothing was called yet.
LEMMA InitCallsInv == Init => CallsInv
<1> SUFFICES ASSUME Init PROVE CallsInv
  OBVIOUS
<1>1. CallsTypeOK
  BY DEF Init, CallsTypeOK, Operations
<1>2. ErrnoIsOfThisCall /\ CastsAreRight
  BY DEF Init, ErrnoIsOfThisCall, CastsAreRight
<1> QED BY <1>1, <1>2 DEF CallsInv

\* One step for each kind of call.
LEMMA NextCallsInv == CallsInv /\ [Next]_vars => CallsInv'
<1> SUFFICES ASSUME CallsInv, [Next]_vars PROVE CallsInv'
  OBVIOUS
<1>1. -1 .. sfSize \subseteq Int
  BY DescriptorCallsAssumption
<1>2. CASE UNCHANGED vars
  BY <1>2 DEF vars, CallsInv, CallsTypeOK, ErrnoIsOfThisCall, CastsAreRight
<1>3. CASE Unavailable
  BY <1>3, RefusesKeeps DEF Unavailable, Failures, Operations
<1>4. ASSUME NEW fd \in -1 .. sfSize, NEW state \in States, NEW length \in {-1, 0},
             \/ Ioctl(fd, state) \/ Lseek(fd, state) \/ Ftruncate(fd, length, state)
             \/ Fsync(fd, state) \/ SocketCall(fd, state)
      PROVE  CallsInv'
  BY <1>1, <1>4, OneTypeKeeps
<1>5. ASSUME NEW fd \in -1 .. sfSize, NEW buf, NEW nbyte \in {0, 1}, NEW state,
             \/ Read(fd, buf, state) \/ Write(fd, buf, nbyte, state)
             \/ Writev(fd, buf, nbyte, state) \/ Fcntl(fd, state) \/ Fstat(fd, buf, state)
             \/ Isatty(fd)
      PROVE  CallsInv'
  BY <1>1, <1>5, AnyDescriptorKeeps
<1> QED BY <1>2, <1>3, <1>4, <1>5, OthersKeep DEF Next

\* Whatever is called, in whatever order, the invariant stays.
THEOREM CallsSafety == Spec => []CallsInv
  BY InitCallsInv, NextCallsInv, PTL DEF Spec

\* A program that tests errno after a call learns of that call: a failure has
\* set it, whatever it held, that of an implementation function to ENOSYS or to
\* the driver's reason, and a driver's success has cleared it.
THEOREM ErrnoAlwaysOfThisCall == Spec => []ErrnoIsOfThisCall
<1>1. CallsInv => ErrnoIsOfThisCall
  BY DEF CallsInv
<1> QED BY <1>1, CallsSafety, PTL

\* No static_cast in the calls is applied to an object of another class.
THEOREM CastsAlwaysRight == Spec => []CastsAreRight
<1>1. CallsInv => CastsAreRight
  BY DEF CallsInv
<1> QED BY <1>1, CallsSafety, PTL

-----------------------------------------------------------------------------
(* The loop of do_writev () *)

\* A byte: its task, buffer and place.
Byte == Tasks \X Nat \X Nat

\* The types of the variables.
WritevTypeOK ==
  /\ shortWrites \in BOOLEAN
  /\ iov \in [Tasks -> Vectors \cup {<<>>}]
  /\ i \in [Tasks -> Nat]
  /\ total \in [Tasks -> Nat]
  /\ ret \in [Tasks -> Int]
  /\ out \in Seq(Byte)

\* The index stays in the vector, or just behind it.
InVector == \A t \in Tasks : i[t] \in 1 .. Len(iov[t]) + 1

\* The local variable counts what the device took, and is what is returned.
Counted ==
  \A t \in Tasks : /\ IsFiniteSet(Taken(t)) /\ total[t] = Cardinality(Taken(t))
                   /\ Returned(t) /\ ret[t] >= 0 => ret[t] = total[t]

\* The device took only bytes of the buffers before the index, in order.
InOrder ==
  \A t \in Tasks : \A k \in Taken(t) :
    /\ out[k] \in Asked(t) /\ out[k][2] < i[t]
    /\ \A later \in Taken(t) : k < later => Precedes(out[k], out[later])

\* It took the first n buffers whole.
TookWhole(t, n) == \A x \in Asked(t) : x[2] <= n <=> \E k \in Taken(t) : out[k] = x

\* While the task writes, all buffers before the index; after an error those
\* before the error.
Complete ==
  ~shortWrites => \A t \in Tasks : \E n \in Nat :
     TookWhole(t, n) /\ (i[t] <= Len(iov[t]) \/ iov[t] = <<>> => n = i[t] - 1)

\* What every step of every task keeps.
WritevInv == /\ WritevTypeOK
             /\ InVector
             /\ Counted
             /\ InOrder
             /\ Complete

-----------------------------------------------------------------------------
(* One buffer *)

\* A vector is a sequence of lengths.
LEMMA VectorTypes ==
  ASSUME WritevTypeOK, NEW t \in Tasks
  PROVE  /\ iov[t] \in Seq(Nat) /\ Len(iov[t]) \in Nat
         /\ iov[t] # <<>> <=> Len(iov[t]) > 0
         /\ \A b \in DOMAIN iov[t] : b \in Nat /\ iov[t][b] \in Nat
<1>1. iov[t] \in Seq(Nat)
  BY WritevAssumption, EmptySeq DEF WritevTypeOK
<1>2. iov[t] # <<>> <=> Len(iov[t]) > 0
  BY <1>1, EmptySeq, LenProperties
<1>3. \A b \in DOMAIN iov[t] : b \in Nat /\ iov[t][b] \in Nat
  BY <1>1, ElementOfSeq, LenProperties
<1> QED BY <1>1, <1>2, <1>3

\* What is asked, byte by byte.
LEMMA AskedBytes ==
  ASSUME WritevTypeOK, NEW t \in Tasks, NEW x
  PROVE  x \in Asked(t) <=> \E b \in DOMAIN iov[t] : \E place \in 1 .. iov[t][b] :
                               x = <<t, b, place>>
  BY DEF Asked

\* The device's output grows by the bytes of one buffer of one task.
LEMMA OutputGrows ==
  ASSUME WritevTypeOK, NEW t \in Tasks, NEW b \in Nat, NEW n \in Nat,
         out' = out \o Bytes(t, b, n)
  PROVE  /\ out' \in Seq(Byte)
         /\ Taken(t)' = Taken(t) \cup (Len(out) + 1 .. Len(out) + n)
         /\ \A u \in Tasks : u # t => Taken(u)' = Taken(u)
         /\ \A k \in DOMAIN out : out'[k] = out[k]
         /\ \A k \in Len(out) + 1 .. Len(out) + n : out'[k] = <<t, b, k - Len(out)>>
<1>1. /\ Bytes(t, b, n) \in Seq(Byte) /\ Len(Bytes(t, b, n)) = n
      /\ \A place \in 1 .. n : Bytes(t, b, n)[place] = <<t, b, place>>
  <2>1. \A place \in 1 .. n : <<t, b, place>> \in Byte
    BY DEF Byte
  <2> QED BY <2>1 DEF Bytes
<1>2. out \in Seq(Byte) /\ Len(out) \in Nat /\ DOMAIN out = 1 .. Len(out)
  BY DEF WritevTypeOK
<1>3. /\ out' \in Seq(Byte) /\ Len(out') = Len(out) + n
      /\ DOMAIN out' = 1 .. (Len(out) + n)
      /\ \A k \in 1 .. (Len(out) + n) :
            out'[k] = IF k <= Len(out) THEN out[k] ELSE Bytes(t, b, n)[k - Len(out)]
  <2>1. /\ out' \in Seq(Byte) /\ Len(out') = Len(out) + Len(Bytes(t, b, n))
        /\ \A k \in 1 .. (Len(out) + Len(Bytes(t, b, n))) :
              out'[k] = IF k <= Len(out) THEN out[k] ELSE Bytes(t, b, n)[k - Len(out)]
    BY <1>1, <1>2, ConcatProperties
  <2>2. DOMAIN out' = 1 .. Len(out')
    BY <2>1, LenProperties
  <2> QED BY <1>1, <2>1, <2>2
<1>4. \A k \in DOMAIN out : out'[k] = out[k]
  BY <1>2, <1>3
<1>5. \A k \in Len(out) + 1 .. Len(out) + n : out'[k] = <<t, b, k - Len(out)>>
  BY <1>1, <1>2, <1>3
<1>6. DOMAIN out' = DOMAIN out \cup (Len(out) + 1 .. Len(out) + n)
  BY <1>2, <1>3
<1>7. ASSUME NEW k \in Len(out) + 1 .. Len(out) + n PROVE out'[k][1] = t
  <2>1. out'[k] = <<t, b, k - Len(out)>>
    BY <1>5
  <2> QED BY <2>1
<1>8. Taken(t)' = Taken(t) \cup (Len(out) + 1 .. Len(out) + n)
  BY <1>4, <1>6, <1>7 DEF Taken
<1>9. ASSUME NEW u \in Tasks, u # t PROVE Taken(u)' = Taken(u)
  BY <1>4, <1>6, <1>7, <1>9 DEF Taken
<1> QED BY <1>3, <1>4, <1>5, <1>8, <1>9

-----------------------------------------------------------------------------
(* What the steps keep *)

\* Nothing is written at first.
LEMMA InitWritevInv == WritevInit => WritevInv
<1> SUFFICES ASSUME WritevInit PROVE WritevInv
  OBVIOUS
<1>1. WritevTypeOK
  BY EmptySeq DEF WritevInit, WritevTypeOK
<1>2. \A t \in Tasks : Taken(t) = {} /\ Asked(t) = {} /\ Len(iov[t]) = 0
  BY DEF WritevInit, Taken, Asked
<1>3. InVector
  BY <1>2 DEF WritevInit, InVector
<1>4. Counted
  BY <1>2, FS_EmptySet DEF WritevInit, Counted, Returned
<1>5. InOrder
  BY <1>2 DEF InOrder
<1>6. Complete
  BY <1>2 DEF WritevInit, Complete, TookWhole
<1> QED BY <1>1, <1>3, <1>4, <1>5, <1>6 DEF WritevInv

\* A task that has not called yet has written nothing.
LEMMA CallKeeps ==
  ASSUME WritevInv, NEW t \in Tasks, NEW vector \in Vectors, Call(t, vector)
  PROVE  WritevInv'
<1>1. WritevTypeOK'
  BY DEF WritevInv, WritevTypeOK, Call
<1>2. /\ iov[t] = <<>> /\ iov'[t] = vector /\ \A u \in Tasks \ {t} : iov'[u] = iov[u]
      /\ UNCHANGED <<shortWrites, i, total, ret, out>>
  BY DEF WritevInv, WritevTypeOK, Call
<1>3. /\ i[t] = 1 /\ Len(vector) \in Nat \ {0} /\ DOMAIN vector = 1 .. Len(vector)
      /\ vector # <<>>
  BY <1>2, WritevAssumption, EmptySeq, LenProperties DEF WritevInv, InVector
<1>4. Asked(t) = {} /\ Taken(t) = {}
  BY <1>2 DEF Asked, WritevInv, InOrder
<1>5. \A u \in Tasks : Taken(u)' = Taken(u)
  BY <1>2 DEF Taken
<1>6. \A u \in Tasks \ {t} : Asked(u)' = Asked(u)
  BY <1>2 DEF Asked
<1>7. InVector'
  BY <1>2, <1>3 DEF WritevInv, InVector
<1>8. Counted'
  BY <1>2, <1>3, <1>5 DEF WritevInv, Counted, Returned
<1>9. InOrder'
  BY <1>2, <1>4, <1>5, <1>6 DEF WritevInv, InOrder
<1>10. Complete'
  <2> SUFFICES ASSUME ~shortWrites, NEW u \in Tasks
               PROVE  \E n \in Nat : /\ TookWhole(u, n)'
                                     /\ i'[u] <= Len(iov'[u]) \/ iov'[u] = <<>> => n = i'[u] - 1
    BY <1>2 DEF Complete
  <2>1. CASE u # t
    BY <1>2, <1>5, <1>6, <2>1 DEF WritevInv, Complete, TookWhole
  <2>2. CASE u = t
    <3>1. TookWhole(t, 0)'
      <4> SUFFICES ASSUME NEW x \in Asked(t)' PROVE ~(x[2] <= 0)
        BY <1>4, <1>5 DEF TookWhole
      <4>1. PICK b \in DOMAIN iov'[t] : x[2] = b
        BY DEF Asked
      <4> QED BY <1>2, <1>3, <4>1
    <3> QED BY <1>2, <1>3, <2>2, <3>1
  <2> QED BY <2>1, <2>2
<1> QED BY <1>1, <1>7, <1>8, <1>9, <1>10 DEF WritevInv

\* The bytes of the buffer follow what the task has written, and are the next
\* of what it asked for.
LEMMA WriteBufferKeeps ==
  ASSUME WritevInv, NEW t \in Tasks, WriteBuffer(t)
  PROVE  WritevInv'
<1>0. PICK b \in Nat, top \in Nat : b = i[t] /\ top = Len(out)
  BY DEF WritevInv, WritevTypeOK
<1>1. PICK n \in Nat :
         /\ n <= iov[t][b]
         /\ ~shortWrites => n = iov[t][b]
         /\ out' = out \o Bytes(t, b, n)
         /\ total' = [total EXCEPT ![t] = @ + n]
  <2>1. iov[t][b] \in Nat
    BY <1>0, VectorTypes DEF WritevInv, WritevTypeOK, InVector, WriteBuffer, IsWriting
  <2>2. PICK n \in IF shortWrites THEN 0 .. iov[t][b] ELSE {iov[t][b]} :
           /\ out' = out \o Bytes(t, b, n)
           /\ total' = [total EXCEPT ![t] = @ + n]
    BY <1>0 DEF WriteBuffer, Count
  <2>3. n \in Nat /\ n <= iov[t][b]
    BY <2>1, <2>2
  <2>4. ~shortWrites => n = iov[t][b]
    BY <2>2
  <2> QED BY <2>2, <2>3, <2>4
<1>2. /\ WritevTypeOK /\ b \in Nat /\ top \in Nat /\ DOMAIN out = 1 .. top
      /\ Len(iov[t]) \in Nat /\ b \in DOMAIN iov[t] /\ b <= Len(iov[t]) /\ iov[t] # <<>>
      /\ iov[t][b] \in Nat /\ total[t] \in Nat
  BY <1>0, VectorTypes, LenProperties
     DEF WritevInv, WritevTypeOK, InVector, WriteBuffer, IsWriting
<1>3. /\ i' = [i EXCEPT ![t] = b + 1] /\ UNCHANGED <<shortWrites, iov>>
      /\ ret' = IF b = Len(iov[t]) THEN [ret EXCEPT ![t] = total'[t]] ELSE ret
  BY <1>0 DEF WriteBuffer, Finish
<1>4. /\ out' \in Seq(Byte)
      /\ Taken(t)' = Taken(t) \cup (top + 1 .. top + n)
      /\ \A u \in Tasks : u # t => Taken(u)' = Taken(u)
      /\ \A k \in DOMAIN out : out'[k] = out[k]
      /\ \A k \in top + 1 .. top + n : out'[k] = <<t, b, k - top>>
  BY <1>0, <1>1, <1>2, OutputGrows
<1>5. \A u \in Tasks : Asked(u)' = Asked(u)
  BY <1>3 DEF Asked
<1>6. \A u \in Tasks : Taken(u) \subseteq 1 .. top
  BY <1>2 DEF Taken
<1>7. \A u \in Tasks : i'[u] = IF u = t THEN b + 1 ELSE i[u]
  BY <1>2, <1>3 DEF WritevTypeOK
<1>9. WritevTypeOK'
  BY <1>1, <1>2, <1>3, <1>4 DEF WritevTypeOK
<1>10. InVector'
  BY <1>0, <1>2, <1>3, <1>7 DEF WritevInv, InVector
<1>11. Counted'
  <2> SUFFICES ASSUME NEW u \in Tasks
               PROVE  /\ IsFiniteSet(Taken(u)') /\ total'[u] = Cardinality(Taken(u)')
                      /\ Returned(u)' /\ ret'[u] >= 0 => ret'[u] = total'[u]
    BY DEF Counted
  <2>1. CASE u # t
    BY <1>1, <1>2, <1>3, <1>4, <1>7, <2>1 DEF WritevInv, Counted, Returned, WritevTypeOK
  <2>2. CASE u = t
    <3> DEFINE from == top + 1
               to == top + n
               New == from .. to
    <3>1. IsFiniteSet(New) /\ Cardinality(New) = n
      <4>1. from \in Int /\ to \in Int /\ (IF from > to THEN 0 ELSE to - from + 1) = n
        OBVIOUS
      <4> HIDE DEF from, to
      <4> QED BY <4>1, FS_Interval
    <3>2. Taken(t) \cap New = {} /\ Taken(t)' = Taken(t) \cup New
      BY <1>4, <1>6
    <3> HIDE DEF New
    <3>3. IsFiniteSet(Taken(t)) /\ total[t] = Cardinality(Taken(t))
      BY DEF WritevInv, Counted
    <3>4. /\ IsFiniteSet(Taken(t)')
          /\ Cardinality(Taken(t)') = total[t] + n - Cardinality({})
      <4>1. /\ IsFiniteSet(Taken(t) \cup New)
            /\ Cardinality(Taken(t) \cup New)
                 = Cardinality(Taken(t)) + Cardinality(New) - Cardinality(Taken(t) \cap New)
        BY <3>1, <3>3, FS_Union
      <4> QED BY <3>1, <3>2, <3>3, <4>1
    <3>5. Cardinality(Taken(t)') = total[t] + n
      BY <1>1, <1>2, <3>4, FS_EmptySet
    <3>6. total'[t] = total[t] + n
      BY <1>1, <1>2 DEF WritevTypeOK
    <3>7. Returned(t)' => ret'[t] = total'[t]
      BY <1>2, <1>3, <1>7 DEF Returned, WritevTypeOK
    <3> QED BY <2>2, <3>4, <3>5, <3>6, <3>7
  <2> QED BY <2>1, <2>2
<1>12. ASSUME NEW k \in top + 1 .. top + n
       PROVE  /\ out'[k] \in Asked(t) /\ out'[k][2] = b /\ out'[k][3] = k - top /\ k > top
  <2>1. out'[k] = <<t, b, k - top>>
    BY <1>4, <1>12
  <2>2. k - top \in 1 .. iov[t][b] /\ k > top
    BY <1>1, <1>2, <1>12
  <2>3. out'[k] \in Asked(t)
    BY <1>2, <2>1, <2>2, AskedBytes
  <2> QED BY <2>1, <2>2, <2>3
<1>13. ASSUME NEW u \in Tasks, NEW k \in Taken(u)
       PROVE  /\ out'[k] = out[k] /\ k \in 1 .. top
              /\ out'[k] \in Asked(u) /\ out'[k][2] < i[u]
              /\ \A later \in Taken(u) : k < later => Precedes(out'[k], out'[later])
  BY <1>2, <1>4, <1>6, <1>13 DEF WritevInv, InOrder
<1>14. InOrder'
  <2> SUFFICES ASSUME NEW u \in Tasks, NEW k \in Taken(u)'
               PROVE  /\ out'[k] \in Asked(u) /\ out'[k][2] < i'[u]
                      /\ \A later \in Taken(u)' : k < later => Precedes(out'[k], out'[later])
    BY <1>5 DEF InOrder, Precedes
  <2>1. CASE u # t
    BY <1>4, <1>7, <1>13, <2>1
  <2>2. CASE u = t /\ k \in Taken(t)
    <3>1. ASSUME NEW later \in top + 1 .. top + n PROVE Precedes(out'[k], out'[later])
      BY <1>0, <1>12, <1>13, <2>2, <3>1 DEF Precedes
    <3>2. out'[k][2] < b + 1
      <4>1. out'[k] \in Asked(t) /\ out'[k][2] < b
        BY <1>0, <1>13, <2>2
      <4>2. out'[k][2] \in Nat
        BY <1>2, <4>1, AskedBytes, VectorTypes
      <4> QED BY <1>2, <4>1, <4>2
    <3> QED BY <1>4, <1>7, <1>13, <2>2, <3>1, <3>2
  <2>3. CASE u = t /\ k \in top + 1 .. top + n
    <3>1. ASSUME NEW later \in Taken(t)', k < later PROVE Precedes(out'[k], out'[later])
      <4>1. later \in top + 1 .. top + n
        BY <1>1, <1>2, <1>4, <1>6, <2>3, <3>1
      <4>2. /\ out'[k][2] = b /\ out'[k][3] = k - top
            /\ out'[later][2] = b /\ out'[later][3] = later - top
        BY <1>12, <2>3, <4>1
      <4>3. k - top < later - top
        BY <2>3, <3>1, <4>1
      <4> QED BY <4>2, <4>3 DEF Precedes
    <3> QED BY <1>2, <1>7, <1>12, <2>3, <3>1
  <2> QED BY <1>4, <2>1, <2>2, <2>3
<1>15. Complete'
  <2> SUFFICES ASSUME ~shortWrites, NEW u \in Tasks
               PROVE  \E m \in Nat : /\ TookWhole(u, m)'
                                     /\ i'[u] <= Len(iov[u]) \/ iov[u] = <<>> => m = i'[u] - 1
    BY <1>3 DEF Complete
  <2>1. CASE u # t
    <3>1. PICK m \in Nat : /\ TookWhole(u, m)
                           /\ i[u] <= Len(iov[u]) \/ iov[u] = <<>> => m = i[u] - 1
      BY DEF WritevInv, Complete
    <3>2. TookWhole(u, m)'
      BY <1>4, <1>5, <1>13, <2>1, <3>1 DEF TookWhole
    <3> QED BY <1>7, <2>1, <3>1, <3>2
  <2>2. CASE u = t
    <3>1. TookWhole(t, b - 1) /\ n = iov[t][b]
      BY <1>0, <1>1, <1>2 DEF WritevInv, Complete
    <3>2. ASSUME NEW x \in Asked(t)
          PROVE  x[2] <= b <=> \E k \in Taken(t)' : out'[k] = x
      <4>1. PICK c \in DOMAIN iov[t] : \E place \in 1 .. iov[t][c] : x = <<t, c, place>>
        BY <1>2, AskedBytes
      <4>2. PICK place \in 1 .. iov[t][c] : x = <<t, c, place>>
        BY <4>1
      <4>3. x[2] = c /\ c \in Nat
        BY <1>2, <4>2, VectorTypes
      <4>4. CASE c <= b - 1
        <5>1. PICK k \in Taken(t) : out[k] = x
          BY <3>1, <4>3, <4>4 DEF TookWhole
        <5> QED BY <1>2, <1>4, <1>13, <4>3, <4>4, <5>1
      <4>5. CASE c = b
        <5>1. /\ top + place \in top + 1 .. top + n
              /\ (top + place) - top = place
          BY <1>2, <3>1, <4>5
        <5>2. out'[top + place] = x
          BY <1>4, <4>2, <4>5, <5>1
        <5>3. top + place \in Taken(t)'
          BY <1>4, <5>1
        <5>4. x[2] <= b
          BY <4>3, <4>5
        <5> QED BY <5>2, <5>3, <5>4
      <4>6. CASE c > b
        <5>1. ASSUME NEW k \in Taken(t)' PROVE out'[k][2] < b + 1
          BY <1>7, <1>14 DEF InOrder
        <5> QED BY <1>2, <4>3, <4>6, <5>1
      <4> QED BY <1>2, <4>3, <4>4, <4>5, <4>6
    <3>3. TookWhole(t, b)'
      BY <1>5, <3>2 DEF TookWhole
    <3>4. i'[t] - 1 = b
      BY <1>2, <1>7
    <3> QED BY <1>2, <2>2, <3>3, <3>4
  <2> QED BY <2>1, <2>2
<1> QED BY <1>9, <1>10, <1>11, <1>14, <1>15 DEF WritevInv

\* An error ends the call where it is: the output has what it had.
LEMMA WriteErrorKeeps ==
  ASSUME WritevInv, NEW t \in Tasks, WriteError(t)
  PROVE  WritevInv'
<1>1. /\ IsWriting(t) /\ UNCHANGED <<shortWrites, iov, total, out>>
      /\ i' = [i EXCEPT ![t] = Len(iov[t]) + 1] /\ ret' = [ret EXCEPT ![t] = -1]
  BY DEF WriteError, Abandon
<1>2. /\ Len(iov[t]) \in Nat /\ iov[t] # <<>> /\ i[t] <= Len(iov[t]) /\ i[t] \in Nat
  BY <1>1, VectorTypes DEF WritevInv, WritevTypeOK, IsWriting
<1>3. /\ \A u \in Tasks \ {t} : i'[u] = i[u] /\ ret'[u] = ret[u]
      /\ i'[t] = Len(iov[t]) + 1 /\ ret'[t] = -1
  BY <1>1 DEF WritevInv, WritevTypeOK
<1>4. \A u \in Tasks : Taken(u)' = Taken(u) /\ Asked(u)' = Asked(u)
  BY <1>1 DEF Taken, Asked
<1>5. WritevTypeOK'
  BY <1>1, <1>2 DEF WritevInv, WritevTypeOK
<1>6. InVector'
  BY <1>1, <1>2, <1>3 DEF WritevInv, InVector
<1>7. Counted'
  BY <1>1, <1>3, <1>4 DEF WritevInv, Counted, Returned
<1>8. InOrder'
  <2> SUFFICES ASSUME NEW u \in Tasks, NEW k \in Taken(u) PROVE out[k][2] < i'[u]
    BY <1>1, <1>4 DEF WritevInv, InOrder, Precedes
  <2>1. out[k] \in Asked(u) /\ out[k][2] < i[u]
    BY DEF WritevInv, InOrder
  <2>2. out[k][2] \in Nat
    BY <2>1, AskedBytes, VectorTypes DEF WritevInv
  <2> QED BY <1>2, <1>3, <2>1, <2>2
<1>9. Complete'
  <2> SUFFICES ASSUME ~shortWrites, NEW u \in Tasks
               PROVE  \E n \in Nat : /\ TookWhole(u, n)
                                     /\ i'[u] <= Len(iov[u]) \/ iov[u] = <<>> => n = i'[u] - 1
    BY <1>1, <1>4 DEF Complete, TookWhole
  <2> QED BY <1>2, <1>3 DEF WritevInv, Complete
<1> QED BY <1>5, <1>6, <1>7, <1>8, <1>9 DEF WritevInv

\* One step for each action of a task.
LEMMA NextWritevInv == WritevInv /\ [WritevNext]_writevVars => WritevInv'
<1> SUFFICES ASSUME WritevInv, [WritevNext]_writevVars PROVE WritevInv'
  OBVIOUS
<1>1. CASE UNCHANGED writevVars
  <2>1. \A t \in Tasks : Taken(t)' = Taken(t) /\ Asked(t)' = Asked(t) /\ Returned(t)' = Returned(t)
    BY <1>1 DEF writevVars, Taken, Asked, Returned
  <2>2. WritevTypeOK' /\ InVector'
    BY <1>1 DEF writevVars, WritevInv, WritevTypeOK, InVector
  <2>3. Counted' /\ InOrder' /\ Complete'
    BY <1>1, <2>1 DEF writevVars, WritevInv, Counted, InOrder, Complete, TookWhole, Precedes
  <2> QED BY <2>2, <2>3 DEF WritevInv
<1>2. CASE WritevNext
  BY <1>2, CallKeeps, WriteBufferKeeps, WriteErrorKeeps DEF WritevNext
<1> QED BY <1>1, <1>2

-----------------------------------------------------------------------------
(* The theorems *)

\* However the tasks' buffers interleave, the invariant stays.
THEOREM WritevSafety == WritevSpec => []WritevInv
  BY InitWritevInv, NextWritevInv, PTL DEF WritevSpec

\* What writev () returns is what the device took from it, from no other task
\* and none of it uncounted.
THEOREM CountIsAlwaysWhatWasTaken == WritevSpec => []CountIsWhatWasTaken
<1>1. WritevInv => CountIsWhatWasTaken
  BY DEF WritevInv, Counted, CountIsWhatWasTaken
<1> QED BY <1>1, WritevSafety, PTL

\* A device that takes buffers whole has a beginning of what each task asked.
THEOREM TakenIsAlwaysAPrefix == WritevSpec => []TakenIsAPrefix
<1>1. ASSUME WritevInv PROVE TakenIsAPrefix
  <2> SUFFICES ASSUME ~shortWrites, NEW t \in Tasks, NEW k \in Taken(t),
                      NEW x \in Asked(t), Precedes(x, out[k])
               PROVE  \E sooner \in Taken(t) : out[sooner] = x
    BY <1>1 DEF WritevInv, InOrder, TakenIsAPrefix
  <2>1. PICK n \in Nat : TookWhole(t, n)
    BY <1>1 DEF WritevInv, Complete
  <2>2. out[k] \in Asked(t) /\ out[k][2] <= n
    BY <1>1, <2>1 DEF WritevInv, InOrder, TookWhole
  <2>3. x[2] \in Nat /\ out[k][2] \in Nat
    BY <1>1, <2>2, AskedBytes, VectorTypes DEF WritevInv
  <2>4. x[2] <= n
    BY <2>1, <2>2, <2>3 DEF Precedes
  <2> QED BY <2>1, <2>4 DEF TookWhole
<1> QED BY <1>1, WritevSafety, PTL
=============================================================================
