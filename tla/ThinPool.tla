------------------------------ MODULE ThinPool ------------------------------
(***************************************************************************)
(* The dm-thin pool of one worker: the volumes its sandboxes are given and *)
(* give back, each in a goroutine of its own, while an import replaces the *)
(* base volume they are snapshots of, and the worker, the import or the    *)
(* host may stop between any two calls of the kernel.                      *)
(*                                                                         *)
(* One action is one ioctl or one change of a file.  The kernel's device   *)
(* mapper, its nodes and udev are external: what the code relies on.       *)
(***************************************************************************)
EXTENDS Integers, FiniteSets

CONSTANTS
    Sandbox,
    FirstSandboxID,  \* base volumes sit below it
    MaxThinID,
    Minor,           \* device numbers
    NoMinor,
    CallsFail        \* whether any call of the kernel may fail

ASSUME PoolAssumption ==
    /\ FirstSandboxID \in Nat /\ FirstSandboxID > 2
    /\ MaxThinID \in Nat /\ MaxThinID >= FirstSandboxID
    /\ NoMinor \notin Minor
    /\ CallsFail \in BOOLEAN

BaseID == 1..(FirstSandboxID - 1)
SandboxID == FirstSandboxID..MaxThinID
NoID == 0
ThinID == BaseID \cup SandboxID

VARIABLES
    ids,       \* the thin IDs in the pool's metadata
    complete,  \* those that hold a whole image
    base,      \* BASE_THIN_ID in base.env
    dev,       \* the device of each sandbox, by name: its number and live table
    node,      \* the device each path under /dev/mapper leads to
    op,        \* the call of CreateVolume or RemoveVolume for each sandbox
    import,    \* fire2-thinpool-import-base
    leaked     \* sandbox IDs nobody will delete before the next boot

poolVars == <<ids, complete, base>>
vars == <<poolVars, dev, node, op, import, leaked>>

-----------------------------------------------------------------------------
(* A device without a live table has no thin ID.                           *)
NoDevice == [minor |-> NoMinor, id |-> NoID]
Device == [minor : Minor, id : SandboxID \cup {NoID}]

(* "ready": the VM may be given the path.                                  *)
OpPC == {"idle", "snap", "create", "activate", "node", "unmake", "undo", "ready",
         "rmdev", "rmnode", "delete"}
Result == {"none", "created", "removed", "failed", "refused"}

(* base, id, minor: what the call has read or drawn so far.                *)
Op == [pc : OpPC, base : BaseID \cup {NoID}, id : SandboxID \cup {NoID},
       minor : Minor \cup {NoMinor}, result : Result]
Returned(r) == [pc |-> "idle", base |-> NoID, id |-> NoID, minor |-> NoMinor, result |-> r]

ImportPC == {"idle", "clear", "thin", "write", "record", "drop"}
NoImport == [pc |-> "idle", id |-> NoID, old |-> NoID]

Init ==
    /\ ids = {}
    /\ complete = {}
    /\ base = NoID
    /\ dev = [s \in Sandbox |-> NoDevice]
    /\ node = [s \in Sandbox |-> NoMinor]
    /\ op = [s \in Sandbox |-> Returned("none")]
    /\ import = NoImport
    /\ leaked = {}

Becomes(s, call) == op' = [op EXCEPT ![s] = call]
Returns(s, r) == Becomes(s, Returned(r))
Goto(s, pc) == Becomes(s, [op[s] EXCEPT !.pc = pc])

(* The kernel does not delete the ID of a device.                          *)
Active(i) == \E s \in Sandbox : dev[s].id = i

Forget(i) ==
    /\ ids' = ids \ {i}
    /\ complete' = complete \ {i}

-----------------------------------------------------------------------------
(* CreateVolume.                                                           *)

LoadBase(s) ==
    /\ op[s].pc = "idle"
    /\ base # NoID
    /\ Becomes(s, [Returned("none") EXCEPT !.pc = "snap", !.base = base])
    /\ UNCHANGED <<poolVars, dev, node, import, leaked>>

(* Faulty: the IDs are taken from the whole range.                         *)
CreateAnySnapshot(s) ==
    /\ op[s].pc = "snap"
    /\ \/ \E i \in SandboxID :
              /\ op[s].base \in ids
              /\ ids' = ids \cup {i}
              /\ complete' = IF op[s].base \in complete THEN complete \cup {i} ELSE complete
              /\ Becomes(s, [op[s] EXCEPT !.pc = "create", !.id = i])
       \/ Returns(s, "failed") /\ UNCHANGED <<ids, complete>>
    /\ UNCHANGED <<base, dev, node, import, leaked>>

(* createSnapshot draws IDs that may all be taken; the base it has read    *)
(* may be gone.  A snapshot holds what its origin holds.                   *)
CreateSnapshot(s) ==
    /\ op[s].pc = "snap"
    /\ \/ \E i \in SandboxID \ ids :
              /\ op[s].base \in ids
              /\ ids' = ids \cup {i}
              /\ complete' = IF op[s].base \in complete THEN complete \cup {i} ELSE complete
              /\ Becomes(s, [op[s] EXCEPT !.pc = "create", !.id = i])
       \/ Returns(s, "failed") /\ UNCHANGED <<ids, complete>>
    /\ UNCHANGED <<base, dev, node, import, leaked>>

FreeMinor == Minor \ {dev[t].minor : t \in Sandbox}

(* createDevice: the device is there, without a table; or it was before.   *)
CreateDevice(s) ==
    /\ op[s].pc = "create"
    /\ \/ \E m \in FreeMinor :
              /\ dev[s] = NoDevice
              /\ dev' = [dev EXCEPT ![s].minor = m]
              /\ Becomes(s, [op[s] EXCEPT !.pc = "activate", !.minor = m])
       \/ /\ CallsFail \/ dev[s] # NoDevice
          /\ Goto(s, "undo")
          /\ UNCHANGED dev
    /\ UNCHANGED <<poolVars, node, import, leaked>>

(* The table is loaded and made live.                                      *)
Activate(s) ==
    /\ op[s].pc = "activate"
    /\ \/ dev' = [dev EXCEPT ![s].id = op[s].id] /\ Goto(s, "node")
       \/ CallsFail /\ UNCHANGED dev /\ Goto(s, "unmake")
    /\ UNCHANGED <<poolVars, node, import, leaked>>

(* createDevice's deferred removeDevice.                                   *)
Unmake(s) ==
    /\ op[s].pc = "unmake"
    /\ Goto(s, "undo")
    /\ dev' = [dev EXCEPT ![s] = NoDevice] \/ (CallsFail /\ UNCHANGED dev)
    /\ UNCHANGED <<poolVars, node, import, leaked>>

(* "delete id", after a create or a remove.                                *)
DeleteID(s, r) ==
    \/ /\ ~Active(op[s].id)
       /\ Forget(op[s].id)
       /\ Returns(s, r)
       /\ UNCHANGED leaked
    \/ /\ CallsFail \/ Active(op[s].id)
       /\ leaked' = leaked \cup {op[s].id}
       /\ Returns(s, "failed")
       /\ UNCHANGED <<ids, complete>>

(* Faulty: the snapshot stays.                                             *)
KeepSnapshot(s) ==
    /\ op[s].pc = "undo"
    /\ Returns(s, "failed")
    /\ UNCHANGED <<poolVars, dev, node, import, leaked>>

Undo(s) ==
    /\ op[s].pc = "undo"
    /\ DeleteID(s, "failed")
    /\ UNCHANGED <<base, dev, node, import>>

(* Faulty: a node that is there is taken for the device's.                 *)
TrustNode(s) ==
    /\ op[s].pc = "node"
    /\ node' = [node EXCEPT ![s] = IF @ = NoMinor THEN op[s].minor ELSE @]
    /\ Becomes(s, [op[s] EXCEPT !.pc = "ready", !.result = "created"])
    /\ UNCHANGED <<poolVars, dev, import, leaked>>

(* ensureNode: a node that leads elsewhere is replaced.  On a failure, the *)
(* volume is removed again.                                                *)
EnsureNode(s) ==
    /\ op[s].pc = "node"
    /\ \/ /\ node' = [node EXCEPT ![s] = op[s].minor]
          /\ Becomes(s, [op[s] EXCEPT !.pc = "ready", !.result = "created"])
       \/ /\ CallsFail
          /\ node[s] # op[s].minor
          /\ node' \in {node, [node EXCEPT ![s] = NoMinor]}
          /\ Goto(s, "rmdev")
    /\ UNCHANGED <<poolVars, dev, import, leaked>>

(* udev makes the node of a device too, when it gets to it.                *)
UdevMakesNode(s) ==
    /\ dev[s].id # NoID
    /\ node' = [node EXCEPT ![s] = dev[s].minor]
    /\ UNCHANGED <<poolVars, dev, op, import, leaked>>

-----------------------------------------------------------------------------
(* RemoveVolume.                                                           *)

(* Faulty: without a device, nothing is left to remove.                    *)
ReadTableOnly(s) ==
    /\ op[s].pc \in {"idle", "ready"}
    /\ IF dev[s].id \in SandboxID
       THEN Becomes(s, [Returned("none") EXCEPT !.pc = "rmdev", !.id = dev[s].id])
       ELSE Returns(s, IF dev[s] = NoDevice THEN "removed" ELSE "refused")
    /\ UNCHANGED <<poolVars, dev, node, import, leaked>>

(* The table tells the thin ID.  Without a device only the node is left to *)
(* remove; a table that is not a sandbox's is refused.                     *)
ReadTable(s) ==
    /\ op[s].pc \in {"idle", "ready"}
    /\ IF dev[s] = NoDevice
       THEN \/ Returns(s, "removed") /\ node' = [node EXCEPT ![s] = NoMinor]
            \/ CallsFail /\ Returns(s, "failed") /\ UNCHANGED node
       ELSE /\ IF dev[s].id \in SandboxID
               THEN Becomes(s, [Returned("none") EXCEPT !.pc = "rmdev", !.id = dev[s].id])
               ELSE Returns(s, "refused")
            /\ UNCHANGED node
    /\ UNCHANGED <<poolVars, dev, import, leaked>>

(* removeDevice fails if the device stays in use.                          *)
RemoveDevice(s) ==
    /\ op[s].pc = "rmdev"
    /\ \/ dev' = [dev EXCEPT ![s] = NoDevice] /\ Goto(s, "rmnode")
       \/ CallsFail /\ UNCHANGED dev /\ Returns(s, "failed")
    /\ UNCHANGED <<poolVars, node, import, leaked>>

(* Without the node gone, the ID is not deleted either.                    *)
RemoveNode(s) ==
    /\ op[s].pc = "rmnode"
    /\ \/ /\ node' = [node EXCEPT ![s] = NoMinor]
          /\ Goto(s, "delete")
          /\ UNCHANGED leaked
       \/ /\ CallsFail
          /\ leaked' = leaked \cup {op[s].id}
          /\ Returns(s, "failed")
          /\ UNCHANGED node
    /\ UNCHANGED <<poolVars, dev, import>>

Delete(s) ==
    /\ op[s].pc = "delete"
    /\ DeleteID(s, "removed")
    /\ UNCHANGED <<base, dev, node, import>>

-----------------------------------------------------------------------------
(* fire2-thinpool-import-base.                                             *)

(* Faulty: the new image replaces the old in place.                        *)
SameID(b) == IF b = NoID THEN 1 ELSE b

(* Base IDs cycle.                                                         *)
NewID(b) == (b % (FirstSandboxID - 1)) + 1

(* No create takes as long as the imports that lead back to its base.      *)
StartImport ==
    /\ import = NoImport
    /\ \A s \in Sandbox : op[s].pc = "snap" => op[s].base # NewID(base)
    /\ import' = [pc |-> "clear", id |-> NewID(base), old |-> base]
    /\ UNCHANGED <<poolVars, dev, node, op, leaked>>

(* What an interrupted run left.                                           *)
ClearLeftover ==
    /\ import.pc = "clear"
    /\ Forget(import.id) \/ (CallsFail /\ UNCHANGED <<ids, complete>>)
    /\ import' = [import EXCEPT !.pc = "thin"]
    /\ UNCHANGED <<base, dev, node, op, leaked>>

CreateThin ==
    /\ import.pc = "thin"
    /\ \/ /\ import.id \notin ids
          /\ ids' = ids \cup {import.id}
          /\ import' = [import EXCEPT !.pc = "write"]
       \/ /\ CallsFail
          /\ UNCHANGED ids
          /\ import' = NoImport
    /\ UNCHANGED <<complete, base, dev, node, op, leaked>>

WriteImage ==
    /\ import.pc = "write"
    /\ complete' = complete \cup {import.id}
    /\ import' = [import EXCEPT !.pc = "record"]
    /\ UNCHANGED <<ids, base, dev, node, op, leaked>>

RecordBase ==
    /\ import.pc = "record"
    /\ base' = import.id
    /\ import' = [import EXCEPT !.pc = "drop"]
    /\ UNCHANGED <<ids, complete, dev, node, op, leaked>>

DropOldBase ==
    /\ import.pc = "drop"
    /\ Forget(import.old) \/ (CallsFail /\ UNCHANGED <<ids, complete>>)
    /\ import' = NoImport
    /\ UNCHANGED <<base, dev, node, op, leaked>>

-----------------------------------------------------------------------------
(* What stops half way.                                                    *)

ImportDies ==
    /\ import' = NoImport
    /\ UNCHANGED <<poolVars, dev, node, op, leaked>>

(* IDs that calls have drawn and that no device leads to.                  *)
Drawn == {op[s].id : s \in Sandbox} \ ({NoID} \cup {dev[s].id : s \in Sandbox})

WorkerDies ==
    /\ op' = [s \in Sandbox |-> Returned("none")]
    /\ leaked' = leaked \cup Drawn
    /\ UNCHANGED <<poolVars, dev, node, import>>

(* Devices and nodes do not survive a boot; fire2-thinpool-up deletes the  *)
(* sandbox IDs it finds, if it is not interrupted itself.                  *)
Boot ==
    /\ \E kept \in SUBSET (ids \cap SandboxID) :
           /\ ids' = (ids \cap BaseID) \cup kept
           /\ leaked' = kept
    /\ complete' = complete \cap ids'
    /\ dev' = [s \in Sandbox |-> NoDevice]
    /\ node' = [s \in Sandbox |-> NoMinor]
    /\ op' = [s \in Sandbox |-> Returned("none")]
    /\ import' = NoImport
    /\ UNCHANGED base

-----------------------------------------------------------------------------
VolumeStep(s) ==
    \/ LoadBase(s)
    \/ CreateSnapshot(s)
    \/ CreateDevice(s)
    \/ Activate(s)
    \/ Unmake(s)
    \/ Undo(s)
    \/ EnsureNode(s)
    \/ UdevMakesNode(s)
    \/ ReadTable(s)
    \/ RemoveDevice(s)
    \/ RemoveNode(s)
    \/ Delete(s)

ImportStep ==
    \/ StartImport
    \/ ClearLeftover
    \/ CreateThin
    \/ WriteImage
    \/ RecordBase
    \/ DropOldBase
    \/ ImportDies

Next ==
    \/ \E s \in Sandbox : VolumeStep(s)
    \/ ImportStep
    \/ WorkerDies
    \/ Boot

Spec == Init /\ [][Next]_vars

-----------------------------------------------------------------------------
(* Properties.                                                             *)

(* Devices lead to sandbox volumes only, the base is recorded among the    *)
(* base IDs, and calls are in the states of CreateVolume and RemoveVolume. *)
TypeOK ==
    /\ complete \subseteq ids
    /\ ids \subseteq ThinID
    /\ base \in BaseID \cup {NoID}
    /\ dev \in [Sandbox -> Device \cup {NoDevice}]
    /\ node \in [Sandbox -> Minor \cup {NoMinor}]
    /\ op \in [Sandbox -> Op]
    /\ import \in [pc : ImportPC, id : BaseID \cup {NoID}, old : BaseID \cup {NoID}]
    /\ leaked \subseteq SandboxID

(* The thin IDs a sandbox's device or call has.                            *)
Uses(s) == {op[s].id, dev[s].id} \ {NoID}

(* No two sandboxes have the same thin ID: a collision of the random draws *)
(* is noticed (createSnapshot), and an ID is deleted, and may be drawn     *)
(* again, only when nothing of its sandbox refers to it.                   *)
OwnIDs == \A s, t \in Sandbox : s # t => Uses(s) \cap Uses(t) = {}

(* Every sandbox ID in the pool is some sandbox's, or was given up by a    *)
(* process that died or a call that failed: CreateVolume takes back what   *)
(* it cannot expose, and "everything at or above" FirstSandboxID "is       *)
(* disposable".                                                            *)
IDsAccounted == ids \cap SandboxID = leaked \cup UNION {Uses(s) : s \in Sandbox}

(* The recorded base is whole and in the pool, wherever imports are        *)
(* interrupted: "the current base stays intact (and snapshottable) until   *)
(* the new one is complete".                                               *)
BaseIntact == base # NoID => base \in complete

(* The path CreateVolume returns leads to the sandbox's own device, and    *)
(* that holds a whole image: not to a device that had its number or name   *)
(* before, nor to a snapshot of a base being written.                      *)
ReadyIsOwnImage ==
    \A s \in Sandbox : op[s].pc = "ready" =>
        /\ node[s] = dev[s].minor
        /\ dev[s].id \in complete

(* RemoveVolume answers without an error only if neither device nor node   *)
(* is left, wherever an earlier removal was interrupted.                   *)
RemovedIsGone ==
    \A s \in Sandbox : op[s].result = "removed" => dev[s] = NoDevice /\ node[s] = NoMinor

=============================================================================
