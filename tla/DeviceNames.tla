---------------------------- MODULE DeviceNames ----------------------------
(***************************************************************************)
(* What registering devices promises: the path of a name leads to a device *)
(* registered under that name, as long as there is one, and to none        *)
(* otherwise.  Registrations count: a device registered twice stays until  *)
(* it was removed twice.  Where they are kept is not seen.                 *)
(***************************************************************************)
EXTENDS Naturals

CONSTANTS Things,   \* the devices
          NameOf,   \* device -> its name
          Paths,    \* a path: whether it has the prefix, and the rest of it
          none

VARIABLES registrations,  \* device -> how often it is registered
          answer          \* the path last looked up, and what it led to

Init == /\ registrations = [thing \in Things |-> 0]
        /\ answer = [path |-> none, device |-> none]

Register(thing) ==
  /\ registrations' = [registrations EXCEPT ![thing] = @ + 1]
  /\ UNCHANGED answer

Remove(thing) ==
  /\ registrations[thing] > 0
  /\ registrations' = [registrations EXCEPT ![thing] = @ - 1]
  /\ UNCHANGED answer

Named(path) == {thing \in Things : /\ registrations[thing] > 0
                                   /\ path.prefix /\ path.rest = NameOf[thing]}

LookUp(path) ==
  /\ \E device \in IF Named(path) = {} THEN {none} ELSE Named(path) :
        answer' = [path |-> path, device |-> device]
  /\ UNCHANGED registrations

Next == \/ \E thing \in Things : Register(thing) \/ Remove(thing)
        \/ \E path \in Paths : LookUp(path)

Spec == Init /\ [][Next]_<<registrations, answer>>
=============================================================================
