-------------------------- MODULE MCSandboxManager --------------------------
(* Instances of SandboxManager for TLC.                                    *)
EXTENDS SandboxManager, TLC

MCSymmetry == Permutations(Sandbox) \cup Permutations(Call) \cup Permutations(Service)
=============================================================================
