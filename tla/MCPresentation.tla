---------------------------- MODULE MCPresentation ----------------------------
(* Instance of Presentation for TLC. *)
EXTENDS Presentation
=============================================================================
