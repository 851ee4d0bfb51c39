------------------------- MODULE MCSandboxLifecycle -------------------------
(* Instances of SandboxLifecycle for TLC.                                  *)
EXTENDS SandboxLifecycle, TLC

MCSymmetry == Permutations(Sandbox)
=============================================================================
