--------------------------- MODULE PosixIOClaims ---------------------------
(***************************************************************************)
(* What a test of the library says of close (), where the code does        *)
(* something else once a device is shared.                                 *)
(***************************************************************************)
EXTENDS PosixIO

\* tests/device/main.cpp:236-242, after a close () that returned 0: `Check if
\* descriptor freed', getIo (fd) == nullptr.
ClosedDescriptorIsFree ==
  last.op = "close" /\ last.ret = 0 => GetIo(last.arg) = nullptr
=============================================================================
