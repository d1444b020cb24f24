--------------------- MODULE MCFileDescriptorsManager ---------------------
(* FileDescriptorsManager alone, the size of the repository's own test (5) *)
(* and one object more than alloc () has entries for.                      *)
EXTENDS FileDescriptorsManager, TLC

CONSTANTS io1, io2, io3

MCIOs == {io1, io2, io3}

MCSymmetry == Permutations(MCIOs)
=============================================================================
