-------------------------- MODULE DescriptorTable --------------------------
(***************************************************************************)
(* What the API promises about descriptors (include/posix-io/types.h and   *)
(* the POSIX text it quotes): a successful call returns the lowest unused  *)
(* descriptor above the standard ones, for an object no other descriptor   *)
(* leads to; close () makes its descriptor unused even when it reports an  *)
(* error; a call that fails otherwise changes nothing.                     *)
(***************************************************************************)
EXTENDS Integers

CONSTANTS Objects, none, Size

VARIABLES table,  \* descriptor -> what it leads to, or none
          last    \* the last call: its name, descriptor argument, result

Descriptors == 0 .. (Size - 1)

Standard == 0 .. 2

Opening == {"open", "socket", "accept"}

Returned(ops, args, rets) ==
  last' \in [op : ops, arg : args, ret : rets]

Init == /\ table = [fd \in Descriptors |-> none]
        /\ last = [op |-> "init", arg |-> -1, ret |-> 0]

Open(fd, object) ==
  /\ table[fd] = none
  /\ fd \notin Standard
  /\ \A i \in Descriptors \ Standard : table[i] = none => fd <= i
  /\ \A i \in Descriptors : table[i] # object
  /\ table' = [table EXCEPT ![fd] = object]
  /\ Returned(Opening, {-1}, {fd})

Close(fd) ==
  /\ table[fd] # none
  /\ table' = [table EXCEPT ![fd] = none]
  /\ Returned({"close"}, {fd}, {0, -1})

\* Out of range, or in range and unused.
Unused(fd) == fd \in Descriptors => table[fd] = none

CloseUnused(fd) ==
  /\ Unused(fd)
  /\ Returned({"close"}, {fd}, {-1})
  /\ UNCHANGED table

OpenFails ==
  /\ Returned(Opening, {-1}, {-1})
  /\ UNCHANGED table

\* Any other call on a descriptor.
Use(fd) ==
  /\ Returned({"use"}, {fd}, IF Unused(fd) THEN {-1} ELSE {0, -1})
  /\ UNCHANGED table

Next == \/ \E fd \in Descriptors :
             Close(fd) \/ \E object \in Objects : Open(fd, object)
        \/ \E fd \in -1 .. Size : CloseUnused(fd) \/ Use(fd)
        \/ OpenFails

Spec == Init /\ [][Next]_<<table, last>>
=============================================================================
