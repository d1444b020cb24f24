----------------------------- MODULE MCPosixIO -----------------------------
(* PosixIO on a small board: one or two devices, two file objects, two     *)
(* sockets, one or two file systems.                                       *)
EXTENDS PosixIOClaims, TLC

CONSTANTS d1, d2, f1, f2, s1, s2, fs1, fs2

MCFilesArray == 0 :> f1 @@ 1 :> f2

MCSocketsArray == 0 :> s1 @@ 1 :> s2

MCIOs == Devices \cup {f1, f2, s1, s2}

\* The disciplined runs are within the limits Careful states.
ASSUME MCAssumption == Disciplined => Careful
=============================================================================
