--------------------------- MODULE MCWorkerFencing ---------------------------
(* Instances of WorkerFencing for TLC.                                     *)
EXTENDS WorkerFencing
=============================================================================
