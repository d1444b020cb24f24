----------------------------- MODULE MCPoolScan -----------------------------
(* Three tasks and three slots, so that a scan can be overtaken on either  *)
(* side of where it is.                                                    *)
EXTENDS PoolScan

CONSTANTS opener, closer1, closer2
=============================================================================
