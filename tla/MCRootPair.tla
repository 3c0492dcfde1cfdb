----------------------------- MODULE MCRootPair -----------------------------
(* One or two kiry processes on a machine with its two roots. *)
EXTENDS RootPair

CONSTANTS Nobody, Never   \* values of NoProc and NoUuid
=============================================================================
