------------------------------ MODULE MCVMShim ------------------------------
(* Instances of VMShim for TLC.                                            *)
EXTENDS VMShim
=============================================================================
