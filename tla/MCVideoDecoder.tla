---------------------------- MODULE MCVideoDecoder --------------------------
(* VideoDecoder for TLC: the bounds are given by each configuration.        *)
EXTENDS VideoDecoder
=============================================================================
