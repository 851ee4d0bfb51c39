---------------------------- MODULE SandboxHost ----------------------------
(***************************************************************************)
(* What one sandbox has on its host, and the only ways it may change: the  *)
(* contract between the Manager, which decides when, and the directory,    *)
(* the thin volume and the shim, which do it.  SandboxManager uses it for  *)
(* each of its sandboxes; VMShim implements it.                            *)
(***************************************************************************)
VARIABLES
    dir,     \* the sandbox has its directory
    volume,  \* it has its thin volume
    vm       \* its VM: none, or one that holds the volume

vars == <<dir, volume, vm>>

Init ==
    /\ dir = FALSE
    /\ volume = FALSE
    /\ vm = "none"

(* The directory is created before the volume and removed after it.        *)
MakeDir ==
    /\ dir' = TRUE
    /\ UNCHANGED <<volume, vm>>

RemoveDir ==
    /\ ~volume
    /\ dir' = FALSE
    /\ UNCHANGED <<volume, vm>>

CreateVolume ==
    /\ dir
    /\ volume' = TRUE
    /\ UNCHANGED <<dir, vm>>

(* The kernel keeps the volume of a VM.                                    *)
RemoveVolume ==
    /\ vm = "none"
    /\ volume' = FALSE
    /\ UNCHANGED <<dir, vm>>

StartVM ==
    /\ volume
    /\ vm = "none"
    /\ vm' = "booting"
    /\ UNCHANGED <<dir, volume>>

VMRuns ==
    /\ vm = "booting"
    /\ vm' = "running"
    /\ UNCHANGED <<dir, volume>>

VMEnds ==
    /\ vm' = "none"
    /\ UNCHANGED <<dir, volume>>

Next ==
    \/ MakeDir
    \/ RemoveDir
    \/ CreateVolume
    \/ RemoveVolume
    \/ StartVM
    \/ VMRuns
    \/ VMEnds

Spec == Init /\ [][Next]_vars
=============================================================================
