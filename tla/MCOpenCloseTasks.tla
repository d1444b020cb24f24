--------------------------- MODULE MCOpenCloseTasks ---------------------------
(* One task that opens and closes and one or two that close; two files, a     *)
(* device, two or three entries past the standard ones.                        *)
EXTENDS OpenCloseTasks, TLC

CONSTANTS opener, closer1, closer2, file1, file2, device

MCFilesArray == 0 :> file1 @@ 1 :> file2
===============================================================================
