----------------------------- MODULE MountTable -----------------------------
(***************************************************************************)
(* What mounting promises: a set of mount points, each with the file       *)
(* system last mounted there, a root, and every path reaching the file     *)
(* system of a mount point it begins with, or else the root.               *)
(* In which slots of which arrays mount points are kept is not seen.       *)
(***************************************************************************)
EXTENDS SequencesExt

CONSTANTS Points,    \* the possible mount points, as sequences of characters
          Names,     \* the paths files are asked for by; none asks for nothing
          Volumes,   \* the file systems
          none,      \* no file system
          Capacity   \* how many mount points there is room for

VARIABLES mounts,  \* mount point -> file system, for those in use
          root,
          answer   \* the path the last call looked up (none if it looked up
                   \* nothing) and the file system it found

Answers(path, volume) == answer' = [path |-> path, reached |-> volume]

Init == /\ mounts = <<>>
        /\ root = none
        /\ answer = [path |-> none, reached |-> none]

Mount(point, volume) ==
  /\ point \notin DOMAIN mounts
  /\ Cardinality(DOMAIN mounts) < Capacity
  /\ mounts' = [p \in DOMAIN mounts \cup {point} |-> IF p = point THEN volume ELSE mounts[p]]
  /\ Answers(point, volume)
  /\ UNCHANGED root

MountRefused(point) ==
  /\ point \in DOMAIN mounts \/ Cardinality(DOMAIN mounts) = Capacity
  /\ Answers(point, none)
  /\ UNCHANGED <<mounts, root>>

Umount(point) ==
  /\ mounts' = [p \in DOMAIN mounts \ {point} |-> mounts[p]]
  /\ Answers(point, IF point \in DOMAIN mounts THEN mounts[point] ELSE none)
  /\ UNCHANGED root

SetRoot(volume) == /\ root' = volume
                   /\ Answers(none, volume)
                   /\ UNCHANGED mounts

PointsOf(path) == {point \in DOMAIN mounts : IsPrefix(point, path)}

VolumesOf(path) == IF PointsOf(path) = {} THEN {root} ELSE {mounts[p] : p \in PointsOf(path)}

\* When mount points lie within others, which one counts is left open.
Resolve(path) == /\ \/ path = none /\ Answers(path, none)
                    \/ path # none /\ \E volume \in VolumesOf(path) : Answers(path, volume)
                 /\ UNCHANGED <<mounts, root>>

Next == \/ \E point \in Points :
             \/ \E volume \in Volumes : Mount(point, volume)
             \/ MountRefused(point)
             \/ Umount(point)
        \/ \E volume \in Volumes : SetRoot(volume)
        \/ \E path \in Names : Resolve(path)

Spec == Init /\ [][Next]_<<mounts, root, answer>>
=============================================================================
