------------------------------- MODULE MCSignals -------------------------------
(* Small instances of MagusSignals for TLC. *)
EXTENDS MagusSignals, TLC

Symmetry == Permutations(Kids)
=============================================================================
