--------------------------- MODULE MCMountManager ---------------------------
(* Three file systems and two slots for three mount points, one of which   *)
(* lies within another.  Paths are one beneath these two, one of the root  *)
(* that is a mount point but for its slash, and the two that every call    *)
(* refuses.                                                                *)
EXTENDS MountManager, TLC

CONSTANTS fs1, fs2, fs3

A == <<"/", "a", "/">>
B == <<"/", "b", "/">>
AB == <<"/", "a", "/", "b", "/">>

MCMountPaths == {A, B, AB}

MCPaths == {AB \o <<"x">>, <<"/", "a">>, <<>>, nullptr}

Symmetric == Permutations(FileSystems)
=============================================================================
