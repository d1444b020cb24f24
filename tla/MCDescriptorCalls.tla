-------------------------- MODULE MCDescriptorCalls --------------------------
(* One object of each type; the array has one entry past the standard ones. *)
EXTENDS DescriptorCalls

CONSTANTS device, file, socket
==============================================================================
