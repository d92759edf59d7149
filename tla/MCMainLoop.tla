----------------------------- MODULE MCMainLoop -----------------------------
(* Small instances of MainLoop. *)
EXTENDS MainLoop

CONSTANTS set1, del1, del2
=============================================================================
