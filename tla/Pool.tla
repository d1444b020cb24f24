-------------------------------- MODULE Pool --------------------------------
(***************************************************************************)
(* os::posix::Pool, the fixed array of preconstructed objects from which   *)
(* files, directories and sockets are taken.  TPool's constructor fills    *)
(* every slot with an object of its own, so the flags fInUse[i] and the    *)
(* set of objects whose flag is up hold the same information; the state    *)
(* kept here is that set.  One call is one step: PoolScan models the scan. *)
(***************************************************************************)
EXTENDS Naturals

CONSTANTS fSize,    \* number of slots
          fArray    \* fArray[i], the object constructed in slot i

VARIABLE inUse      \* the objects whose slot has fInUse[i] = true

Slots == 0 .. (fSize - 1)

Objects == {fArray[i] : i \in Slots}

\* Every slot holds an object of its own (TPool runs `new T' for each).
IsPool == /\ fSize \in Nat
          /\ \A i, j \in Slots : fArray[i] = fArray[j] => i = j

TypeOK == inUse \subseteq Objects

Init == inUse = {}

-----------------------------------------------------------------------------

\* aquire () would return obj: it sits in the first slot that is not in use.
FirstFree(obj) ==
  \E i \in Slots : /\ fArray[i] = obj
                   /\ obj \notin inUse
                   /\ \A j \in 0 .. (i - 1) : fArray[j] \in inUse

\* aquire () would return nullptr.
AllInUse == Objects \subseteq inUse

Aquire(obj) == /\ FirstFree(obj)
               /\ inUse' = inUse \cup {obj}

AquireFails == /\ AllInUse
               /\ UNCHANGED inUse

\* release (obj) returns true exactly when obj was in use; anything else it
\* is given (nullptr, an object released before) changes nothing.
Release(obj) == inUse' = inUse \ {obj}

Next == \/ \E obj \in Objects : Aquire(obj) \/ Release(obj)
        \/ AquireFails

Spec == Init /\ [][Next]_inUse
=============================================================================
