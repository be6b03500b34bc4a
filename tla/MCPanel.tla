------------------------------- MODULE MCPanel --------------------------------
(* Instance of Panel for TLC. *)
EXTENDS Panel
=============================================================================
