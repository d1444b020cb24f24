------------------------- MODULE MCDirectoryStreams -------------------------
(* Two programs with two file systems, which share a pool of three         *)
(* directories.                                                            *)
EXTENDS DirectoryStreams, TLC

CONSTANTS dir1, dir2, dir3, fs1, fs2, p1, p2

MCDirsArray == 0 :> dir1 @@ 1 :> dir2 @@ 2 :> dir3

Symmetric == Permutations(FileSystems) \cup Permutations(Programs)
=============================================================================
