----------------------- MODULE SharedDescriptorTable -----------------------
(***************************************************************************)
(* What is left of DescriptorTable's promise when calls of several callers *)
(* overlap.  A call takes effect at one moment between its start and its   *)
(* return.  The entry open () takes need not be the lowest unused one at   *)
(* that moment, but is no higher than the lowest when it looked; it fails  *)
(* only if there was none when it looked.  A descriptor that was returned  *)
(* leads to its object until close () is called with it.                   *)
(***************************************************************************)
EXTENDS Integers

CONSTANTS Callers, Objects, none, Size

VARIABLES table,     \* descriptor -> what it leads to, or none
          returned,  \* caller -> the descriptors it was given and that were not
                     \* closed since, each with its object
          call       \* caller -> what its call has done

Descriptors == 0 .. (Size - 1)

Standard == 0 .. 2

\* No call, or one that has not looked, or has nothing left to do here.
Outside == [did |-> "nothing"]

\* open () found that fd is the first unused entry; Size if there is none.
Looked(fd) == [did |-> "look", fd |-> fd]

Took(fd, object) == [did |-> "take", fd |-> fd, object |-> object]

Failed == [did |-> "fail"]

Closes(fd, object) == [did |-> "close", fd |-> fd, object |-> object]

Init == /\ table = [fd \in Descriptors |-> none]
        /\ returned = [c \in Callers |-> {}]
        /\ call = [c \in Callers |-> Outside]

Did(c, what) == call[c].did = what

Does(c, what) == call' = [call EXCEPT ![c] = what]

Unused(fd) == fd \in Descriptors \ Standard /\ table[fd] = none

Look(c) ==
  /\ Did(c, "nothing")
  /\ \E fd \in 0 .. Size : /\ fd < Size => Unused(fd)
                           /\ \A other \in Descriptors : Unused(other) => fd <= other
                           /\ Does(c, Looked(fd))
  /\ UNCHANGED <<table, returned>>

Take(c) ==
  /\ Did(c, "look")
  /\ \E fd \in Descriptors, object \in Objects :
       /\ Unused(fd) /\ fd <= call[c].fd
       /\ \A other \in Descriptors : table[other] # object
       /\ table' = [table EXCEPT ![fd] = object]
       /\ Does(c, Took(fd, object))
  /\ UNCHANGED returned

Return(c) ==
  /\ Did(c, "take")
  /\ returned' = [returned EXCEPT ![c] = @ \cup {<<call[c].fd, call[c].object>>}]
  /\ Does(c, Outside)
  /\ UNCHANGED table

Fail(c) ==
  /\ \/ Did(c, "look") /\ call[c].fd = Size /\ Does(c, Failed)
     \/ Did(c, "fail") /\ Does(c, Outside)
  /\ UNCHANGED <<table, returned>>

\* close () of a descriptor that a caller, not always this one, was given.
Close(c) ==
  /\ Did(c, "nothing")
  /\ \E owner \in Callers : \E pair \in returned[owner] :
       /\ returned' = [returned EXCEPT ![owner] = @ \ {pair}]
       /\ Does(c, Closes(pair[1], pair[2]))
  /\ UNCHANGED table

Clear(c) ==
  /\ Did(c, "close")
  /\ table[call[c].fd] = call[c].object
  /\ table' = [table EXCEPT ![call[c].fd] = none]
  /\ Does(c, Outside)
  /\ UNCHANGED returned

Next == \E c \in Callers :
          Look(c) \/ Take(c) \/ Return(c) \/ Fail(c) \/ Close(c) \/ Clear(c)

Spec == Init /\ [][Next]_<<table, returned, call>>
=============================================================================
