----------------------------- MODULE MCThinPool -----------------------------
(* Instances of ThinPool for TLC.                                          *)
EXTENDS ThinPool, TLC

MCSymmetry == Permutations(Sandbox) \cup Permutations(Minor)
=============================================================================
