----------------------------- MODULE MCFramePairs ---------------------------
(* FramePairs for TLC: the bounds are given by each configuration.          *)
EXTENDS FramePairs
=============================================================================
