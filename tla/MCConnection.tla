---------------------------- MODULE MCConnection ----------------------------
(* Instances of Connection for TLC. *)
EXTENDS Connection, TLC

CONSTANTS ui, render, j1, j2, j3
MCSymmetry == Permutations({j1, j2, j3} \cap Joiners)
=============================================================================
