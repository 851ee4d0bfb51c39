-------------------------- MODULE SandboxLifecycle --------------------------
(***************************************************************************)
(* The life of a sandbox as the orchestrator sees it: the sandboxes table  *)
(* and the River jobs that move its rows.  A create_sandbox job drives a   *)
(* row from pending to running; a DELETE, the reapers and a worker's       *)
(* inventory claim rows for cleanup; cleanup_sandbox jobs end them.        *)
(*                                                                         *)
(* One action is one statement (or one transaction) on the database, so    *)
(* the actions interleave as the statements of concurrent jobs, HTTP       *)
(* handlers and gRPC handlers do.  A local variable that a job keeps       *)
(* between two statements is a field of its job record.  What a worker     *)
(* answers to a call is left open here; SandboxHosting says where the      *)
(* answers come from.                                                      *)
(***************************************************************************)
EXTENDS Integers, FiniteSets

CONSTANTS
    Sandbox,      \* sandbox IDs
    Worker,       \* worker IDs with a row in the worker table
    NoWorker,     \* worker_id NULL
    Capacities,   \* the capacities a worker may report
    MaxAttempts,  \* river.Config.MaxAttempts
    Faults        \* whether database calls fail and the orchestrator crashes

ASSUME ConstantsAssumption ==
    /\ IsFiniteSet(Sandbox)
    /\ NoWorker \notin Worker
    /\ Capacities \subseteq Nat
    /\ MaxAttempts \in Nat \ {0}
    /\ Faults \in BOOLEAN

VARIABLES
    status,    \* sandboxes.status, "absent" before the row is inserted
    workerId,  \* sandboxes.worker_id
    create,    \* the create_sandbox job of each sandbox
    cleanup,   \* the cleanup_sandbox jobs of each sandbox, by origin
    capacity   \* worker.capacity

rows == <<status, workerId, create, cleanup>>
vars == <<rows, capacity>>

-----------------------------------------------------------------------------
(* Statuses and job records.                                               *)

Terminal == {"failed", "stopped", "cleaned_up"}
OnWorker == {"assigned", "starting", "running"}
Active == {"pending", "scheduling"} \cup OnWorker
Ended == {"cleanup_pending"} \cup Terminal
Status == {"absent"} \cup Active \cup Ended

(* A job waiting for River is "ready"; the last three are River's final    *)
(* states; the others are the statement the attempt is about to execute.   *)
CreatePC == {"none", "ready", "schedule", "pick", "assign", "call", "starting",
             "ack", "confirm", "moved", "giveup",
             "completed", "cancelled", "discarded"}
CleanupPC == {"none", "ready", "call", "clear", "finish", "completed", "discarded"}

(* A cleanup job comes from the one statement that moved the row out of    *)
(* Active (a claim), or from a create job that gave up on the sandbox.     *)
Origin == {"claim", "give_up"}

CreateJob == [pc : CreatePC, attempt : 0..MaxAttempts,
              worker : Worker \cup {NoWorker},
              candidates : SUBSET Worker, droppedFull : BOOLEAN]

CleanupJob == [pc : CleanupPC, attempt : 0..MaxAttempts,
               target : {"failed", "stopped"},
               worker : Worker \cup {NoWorker},
               removal : {"none", "confirmed", "gave_up"}]

NoCreateJob == [pc |-> "none", attempt |-> 0, worker |-> NoWorker,
                candidates |-> {}, droppedFull |-> FALSE]

NoCleanupJob == [pc |-> "none", attempt |-> 0, target |-> "failed",
                 worker |-> NoWorker, removal |-> "none"]

CreateRunning == CreatePC \ {"none", "ready", "completed", "cancelled", "discarded"}
CleanupRunning == {"call", "clear", "finish"}

Init ==
    /\ status = [s \in Sandbox |-> "absent"]
    /\ workerId = [s \in Sandbox |-> NoWorker]
    /\ create = [s \in Sandbox |-> NoCreateJob]
    /\ cleanup = [s \in Sandbox |-> [o \in Origin |-> NoCleanupJob]]
    /\ capacity \in [Worker -> Capacities]

-----------------------------------------------------------------------------
(* What an attempt leaves behind when it returns an error.                 *)

(* River retries a failed attempt, and discards the job after the last.    *)
RiverError(job) == IF job.attempt >= MaxAttempts THEN "discarded" ELSE "ready"

(* maybeCleanup: only the final attempt goes on to give the sandbox up.    *)
MaybeCleanup(job) == IF job.attempt >= MaxAttempts THEN "giveup" ELSE "ready"

(* Where a job goes after a statement that took effect: on to next, or to  *)
(* onError when the reply was lost.                                        *)
Replies(next, onError) == {next} \cup (IF Faults THEN {onError} ELSE {})

(* settled: the create job has nothing left to do for a sandbox read as st *)
Settled(st) == st \in {"running"} \cup Ended
SettledPC(st) == IF st = "running" THEN "completed" ELSE "cancelled"

UpdateStatus(s, to, from) ==
    status' = [status EXCEPT ![s] = IF @ \in from THEN to ELSE @]

CreateBecomes(s, job) == create' = [create EXCEPT ![s] = job]
CleanupBecomes(s, o, job) == cleanup' = [cleanup EXCEPT ![s][o] = job]

(* The candidate list is a local of stepAssign, gone once it is left.      *)
CreateGoto(s, pc) ==
    CreateBecomes(s, [create[s] EXCEPT !.pc = pc, !.candidates = {}, !.droppedFull = FALSE])
CleanupGoto(s, o, pc) == CleanupBecomes(s, o, [cleanup[s][o] EXCEPT !.pc = pc])

Enqueued(target) == [NoCleanupJob EXCEPT !.pc = "ready", !.target = target]

(* The sandboxes the database counts against a worker's capacity.          *)
Counted(w) ==
    {s \in Sandbox : workerId[s] = w /\ status[s] \in OnWorker \cup {"cleanup_pending"}}

Occupancy(w) == Cardinality(Counted(w))

(* Faulty: off by one.                                                     *)
HasRoomForOneMore(w) == Occupancy(w) <= capacity[w]

HasRoom(w) == Occupancy(w) < capacity[w]

-----------------------------------------------------------------------------
(* HTTP API.                                                               *)

(* POST: the row and its job are inserted in one transaction.              *)
CreateSandbox(s) ==
    /\ status[s] = "absent"
    /\ status' = [status EXCEPT ![s] = "pending"]
    /\ CreateGoto(s, "ready")
    /\ UNCHANGED <<workerId, cleanup>>

(* What the waiting POST answers once River reports on the job.            *)
Answer(s) ==
    IF create[s].pc = "completed" THEN "201"
    ELSE IF create[s].pc \in {"cancelled", "discarded"} THEN "error"
    ELSE "waiting"

(* Faulty: a second DELETE enqueues a second cleanup.                      *)
DeleteSandboxAgain(s) ==
    /\ status[s] \in Active \cup {"cleanup_pending"}
    /\ UpdateStatus(s, "cleanup_pending", Active)
    /\ CleanupBecomes(s, "claim", Enqueued("stopped"))
    /\ UNCHANGED <<workerId, create>>

(* DELETE: one transaction claims the row and enqueues its cleanup.        *)
DeleteSandbox(s) ==
    /\ status[s] \in Active
    /\ UpdateStatus(s, "cleanup_pending", Active)
    /\ CleanupBecomes(s, "claim", Enqueued("stopped"))
    /\ UNCHANGED <<workerId, create>>

-----------------------------------------------------------------------------
(* The create_sandbox job.                                                 *)

(* The step for a row read with status st and worker w.                    *)
StepFor(st, w, job) ==
    IF Settled(st) THEN SettledPC(st)
    ELSE IF st = "pending" THEN "schedule"
    ELSE IF st = "scheduling" /\ w = NoWorker THEN "pick"
    ELSE IF st \in {"scheduling", "assigned"}
         THEN IF w = NoWorker THEN MaybeCleanup(job) ELSE "call"
    ELSE "ack"

(* River starts an attempt, which reads the row and picks its step.  The   *)
(* job's worker is the one its CreateSandbox calls go to.                  *)
WorkCreate(s) ==
    /\ create[s].pc = "ready"
    /\ LET job == [create[s] EXCEPT
                      !.attempt = @ + 1,
                      !.worker = IF workerId[s] = NoWorker THEN @ ELSE workerId[s]]
       IN  CreateBecomes(s, [job EXCEPT !.pc = StepFor(status[s], workerId[s], job)])
    /\ UNCHANGED <<status, workerId, cleanup>>

(* pending -> scheduling; the row read back has no worker.                 *)
StepScheduling(s) ==
    /\ create[s].pc = "schedule"
    /\ UpdateStatus(s, "scheduling", {"pending"})
    /\ \E pc \in Replies(IF status[s] = "pending" THEN "pick" ELSE "moved",
                         MaybeCleanup(create[s])) : CreateGoto(s, pc)
    /\ UNCHANGED <<workerId, cleanup>>

(* The workers that have a fresh heartbeat and answer GetWorkerInfo.       *)
BuildCandidates(s) ==
    /\ create[s].pc = "pick"
    /\ \E c \in SUBSET Worker :
           CreateBecomes(s, [create[s] EXCEPT !.pc = "assign", !.candidates = c,
                                              !.droppedFull = FALSE])
    /\ UNCHANGED <<status, workerId, cleanup>>

(* The scheduler has no worker to offer.  A fleet without budget left, or  *)
(* whose every candidate was dropped for being full, is final at once.     *)
NoWorkerChosen(s) ==
    /\ create[s].pc = "assign"
    /\ CreateGoto(s, IF create[s].candidates # {} \/ create[s].droppedFull
                     THEN "giveup" ELSE MaybeCleanup(create[s]))
    /\ UNCHANGED <<status, workerId, cleanup>>

(* scheduling -> assigned if w has room; a full w is dropped and the       *)
(* scheduler chooses again.                                                *)
AssignWorker(s, w) ==
    /\ create[s].pc = "assign"
    /\ w \in create[s].candidates
    /\ \/ /\ status[s] = "scheduling"
          /\ HasRoom(w)
          /\ status' = [status EXCEPT ![s] = "assigned"]
          /\ workerId' = [workerId EXCEPT ![s] = w]
          /\ \E pc \in Replies("call", MaybeCleanup(create[s])) :
                 CreateBecomes(s, [create[s] EXCEPT !.pc = pc, !.candidates = {},
                                                    !.droppedFull = FALSE, !.worker = w])
       \/ /\ status[s] = "scheduling"
          /\ ~HasRoom(w)
          /\ CreateBecomes(s, [create[s] EXCEPT !.candidates = @ \ {w},
                                                !.droppedFull = TRUE])
          /\ UNCHANGED <<status, workerId>>
       \/ /\ status[s] # "scheduling"
          /\ CreateGoto(s, "moved")
          /\ UNCHANGED <<status, workerId>>
    /\ UNCHANGED cleanup

(* Faulty: a failed call sends the sandbox back to the scheduler.          *)
CreateCallReschedules(s, ok) ==
    /\ create[s].pc = "call"
    /\ CreateGoto(s, IF ok THEN "starting" ELSE MaybeCleanup(create[s]))
    /\ UpdateStatus(s, IF ok THEN "assigned" ELSE "scheduling", {"assigned"})
    /\ workerId' = [workerId EXCEPT ![s] = IF ok THEN @ ELSE NoWorker]
    /\ UNCHANGED cleanup

(* The worker's answer to CreateSandbox, or the call's timeout.            *)
CreateCallReturns(s, ok) ==
    /\ create[s].pc = "call"
    /\ CreateGoto(s, IF ok THEN "starting" ELSE MaybeCleanup(create[s]))
    /\ UNCHANGED <<status, workerId, cleanup>>

(* assigned -> starting; a rejected guard is only logged.                  *)
StepStarting(s) ==
    /\ create[s].pc = "starting"
    /\ UpdateStatus(s, "starting", {"assigned"})
    /\ \E pc \in Replies("ack", MaybeCleanup(create[s])) : CreateGoto(s, pc)
    /\ UNCHANGED <<workerId, cleanup>>

(* stepAcknowledge reads the row before it writes it.                      *)
ReadAcknowledge(s) ==
    /\ create[s].pc = "ack"
    /\ CreateGoto(s, IF Settled(status[s]) THEN SettledPC(status[s]) ELSE "confirm")
    /\ UNCHANGED <<status, workerId, cleanup>>

(* Faulty: the update has no guard on the previous status.                 *)
StepAcknowledgeUnguarded(s) ==
    /\ create[s].pc = "confirm"
    /\ UpdateStatus(s, "running", Status)
    /\ CreateGoto(s, "completed")
    /\ UNCHANGED <<workerId, cleanup>>

(* Faulty: the rows affected by the guarded update are not looked at.      *)
StepAcknowledgeUnchecked(s) ==
    /\ create[s].pc = "confirm"
    /\ UpdateStatus(s, "running", {"starting"})
    /\ CreateGoto(s, "completed")
    /\ UNCHANGED <<workerId, cleanup>>

(* starting -> running, and the job is completed.                          *)
StepAcknowledge(s) ==
    /\ create[s].pc = "confirm"
    /\ UpdateStatus(s, "running", {"starting"})
    /\ \E pc \in Replies(IF status[s] = "starting" THEN "completed" ELSE "moved",
                         MaybeCleanup(create[s])) : CreateGoto(s, pc)
    /\ UNCHANGED <<workerId, cleanup>>

(* A guarded update changed nothing: the row is read again.                *)
MovedUnder(s) ==
    /\ create[s].pc = "moved"
    /\ CreateGoto(s, IF Settled(status[s]) THEN SettledPC(status[s])
                     ELSE MaybeCleanup(create[s]))
    /\ UNCHANGED <<status, workerId, cleanup>>

(* Faulty: the job is cancelled without a claim and without a cleanup.     *)
GiveUpSilently(s) ==
    /\ create[s].pc = "giveup"
    /\ CreateGoto(s, "cancelled")
    /\ UNCHANGED <<status, workerId, cleanup>>

(* maybeCleanup's transaction on the final attempt.  Its update may change *)
(* nothing (the row was claimed meanwhile); the cleanup job is inserted    *)
(* all the same.                                                           *)
GiveUp(s) ==
    /\ create[s].pc = "giveup"
    /\ UpdateStatus(s, "cleanup_pending", Active)
    /\ CleanupBecomes(s, "give_up", Enqueued("failed"))
    /\ \E pc \in Replies("cancelled", RiverError(create[s])) : CreateGoto(s, pc)
    /\ UNCHANGED workerId

(* A statement fails without effect, or the orchestrator dies: the attempt *)
(* ends through maybeCleanup, or without it.                               *)
CreateFails(s) ==
    /\ Faults
    /\ create[s].pc \in CreateRunning
    /\ \E pc \in {RiverError(create[s])} \cup
                 (IF create[s].pc = "giveup" THEN {} ELSE {MaybeCleanup(create[s])}) :
           CreateGoto(s, pc)
    /\ UNCHANGED <<status, workerId, cleanup>>

(* The attempt cannot even read the row: no maybeCleanup on this path.     *)
CreateReadFails(s) ==
    /\ Faults
    /\ create[s].pc = "ready"
    /\ LET job == [create[s] EXCEPT !.attempt = @ + 1]
       IN  CreateBecomes(s, [job EXCEPT !.pc = RiverError(job)])
    /\ UNCHANGED <<status, workerId, cleanup>>

-----------------------------------------------------------------------------
(* The cleanup_sandbox job.                                                *)

(* An attempt reads the row; a sandbox on a worker is removed there first. *)
(* The job's worker is the one its RemoveSandbox calls go to.              *)
WorkCleanup(s, o) ==
    /\ cleanup[s][o].pc = "ready"
    /\ CleanupBecomes(s, o, [cleanup[s][o] EXCEPT
           !.attempt = @ + 1,
           !.worker = IF workerId[s] = NoWorker THEN @ ELSE workerId[s],
           !.pc = IF status[s] \in Terminal THEN "completed"
                  ELSE IF workerId[s] = NoWorker THEN "finish"
                  ELSE "call"])
    /\ UNCHANGED <<status, workerId, create>>

(* Faulty: the link to the worker is kept.                                 *)
RemoveCallKeepsLink(s, o, ok) ==
    /\ cleanup[s][o].pc = "call"
    /\ CleanupGoto(s, o, IF ok THEN "finish" ELSE RiverError(cleanup[s][o]))
    /\ UNCHANGED <<status, workerId, create>>

(* Faulty: the final attempt fails like the others.                        *)
RemoveCallOnlyFails(s, o, ok) ==
    /\ cleanup[s][o].pc = "call"
    /\ CleanupGoto(s, o, IF ok THEN "clear" ELSE RiverError(cleanup[s][o]))
    /\ UNCHANGED <<status, workerId, create>>

(* Faulty: a removal that is given up ends the job with nothing written.   *)
RemoveCallEndsJob(s, o, ok) ==
    /\ cleanup[s][o].pc = "call"
    /\ CleanupGoto(s, o, IF ok THEN "clear"
                         ELSE IF cleanup[s][o].attempt < MaxAttempts THEN "ready"
                         ELSE "completed")
    /\ UNCHANGED <<status, workerId, create>>

(* RemoveSandbox succeeds (or the worker does not know the sandbox), or    *)
(* fails: retried, and on the final attempt given up.                      *)
RemoveCallReturns(s, o, ok) ==
    /\ cleanup[s][o].pc = "call"
    /\ \/ /\ ok
          /\ CleanupBecomes(s, o, [cleanup[s][o] EXCEPT !.pc = "clear", !.removal = "confirmed"])
       \/ /\ ~ok
          /\ cleanup[s][o].attempt < MaxAttempts
          /\ CleanupGoto(s, o, "ready")
       \/ /\ ~ok
          /\ cleanup[s][o].attempt >= MaxAttempts
          /\ CleanupBecomes(s, o, [cleanup[s][o] EXCEPT !.pc = "clear", !.removal = "gave_up"])
    /\ UNCHANGED <<status, workerId, create>>

ClearWorker(s, o) ==
    /\ cleanup[s][o].pc = "clear"
    /\ workerId' = [workerId EXCEPT
                        ![s] = IF status[s] = "cleanup_pending" THEN NoWorker ELSE @]
    /\ \E pc \in Replies("finish", RiverError(cleanup[s][o])) : CleanupGoto(s, o, pc)
    /\ UNCHANGED <<status, create>>

(* The terminal status: the requested one, failed if removal was given up. *)
FinishCleanup(s, o) ==
    /\ cleanup[s][o].pc = "finish"
    /\ UpdateStatus(s, IF cleanup[s][o].removal = "gave_up" THEN "failed"
                       ELSE cleanup[s][o].target,
                    Active \cup {"cleanup_pending"})
    /\ \E pc \in Replies("completed", RiverError(cleanup[s][o])) : CleanupGoto(s, o, pc)
    /\ UNCHANGED <<workerId, create>>

(* A statement fails without effect, or the orchestrator dies.             *)
CleanupFails(s, o) ==
    /\ Faults
    /\ cleanup[s][o].pc \in CleanupRunning
    /\ CleanupGoto(s, o, RiverError(cleanup[s][o]))
    /\ UNCHANGED <<status, workerId, create>>

CleanupReadFails(s, o) ==
    /\ Faults
    /\ cleanup[s][o].pc = "ready"
    /\ LET job == [cleanup[s][o] EXCEPT !.attempt = @ + 1]
       IN  CleanupBecomes(s, o, [job EXCEPT !.pc = RiverError(job)])
    /\ UNCHANGED <<status, workerId, create>>

-----------------------------------------------------------------------------
(* Claims by the sandbox reaper and by a worker's inventory.               *)

Claimed(stopped, failed) ==
    /\ status' = [s \in Sandbox |-> IF s \in stopped \cup failed
                                    THEN "cleanup_pending" ELSE status[s]]
    /\ cleanup' = [s \in Sandbox |->
           IF s \in stopped THEN [cleanup[s] EXCEPT !["claim"] = Enqueued("stopped")]
           ELSE IF s \in failed THEN [cleanup[s] EXCEPT !["claim"] = Enqueued("failed")]
           ELSE cleanup[s]]

(* One sweep of the reaper, one transaction: the sandboxes past their TTL, *)
(* those their worker no longer vouches for, those stalled in creation.    *)
ReapSandboxes(expired, dead, stalled) ==
    /\ expired \cup dead \cup stalled # {}
    /\ \A s \in expired : status[s] \in Active
    /\ \A s \in dead : status[s] \in OnWorker /\ workerId[s] # NoWorker
    /\ \A s \in stalled : status[s] \in {"pending", "scheduling"}
    /\ expired \cap (dead \cup stalled) = {}
    /\ Claimed(expired, dead \cup stalled)
    /\ UNCHANGED <<workerId, create>>

(* What w's inventory changes in the rows, one transaction: those it finds *)
(* lost or dead are claimed, those it reports running leave starting.      *)
ReconcileInventory(w, gone, up) ==
    /\ gone \cap up = {}
    /\ \A s \in gone : workerId[s] = w /\ status[s] \in OnWorker
    /\ \A s \in up : workerId[s] = w /\ status[s] = "starting"
    /\ status' = [s \in Sandbox |-> IF s \in gone THEN "cleanup_pending"
                                    ELSE IF s \in up THEN "running"
                                    ELSE status[s]]
    /\ cleanup' = [s \in Sandbox |->
           IF s \in gone THEN [cleanup[s] EXCEPT !["claim"] = Enqueued("failed")]
           ELSE cleanup[s]]
    /\ UNCHANGED <<workerId, create>>

(* A RUNNING event of the worker that hosts the sandbox.                   *)
IngestSandboxEvent(s) ==
    /\ workerId[s] # NoWorker
    /\ status[s] \in {"starting", "running"}
    /\ UpdateStatus(s, "running", {"starting", "running"})
    /\ UNCHANGED <<workerId, create, cleanup>>

(* A worker reports its capacity anew with each heartbeat and each         *)
(* registration (computeCapacity): it may fall below what it hosts.        *)
SetCapacity(w) == \E c \in Capacities : capacity' = [capacity EXCEPT ![w] = c]

(* A heartbeat: one transaction updates the worker row and reconciles.     *)
ReportWorkerHeartbeat(w, gone, up) ==
    /\ SetCapacity(w)
    /\ ReconcileInventory(w, gone, up)

(* A registration of the worker, or a heartbeat without an inventory.      *)
UpdateWorker(w) ==
    /\ SetCapacity(w)
    /\ UNCHANGED rows

-----------------------------------------------------------------------------
(* What a job does when nothing fails, the steps River's scheduling keeps  *)
(* going.                                                                  *)
CreateStep(s) ==
    \/ WorkCreate(s)
    \/ StepScheduling(s)
    \/ BuildCandidates(s)
    \/ NoWorkerChosen(s)
    \/ \E w \in Worker : AssignWorker(s, w)
    \/ \E ok \in BOOLEAN : CreateCallReturns(s, ok)
    \/ StepStarting(s)
    \/ ReadAcknowledge(s)
    \/ StepAcknowledge(s)
    \/ MovedUnder(s)
    \/ GiveUp(s)

CleanupStep(s, o) ==
    \/ WorkCleanup(s, o)
    \/ \E ok \in BOOLEAN : RemoveCallReturns(s, o, ok)
    \/ ClearWorker(s, o)
    \/ FinishCleanup(s, o)

Reap ==
    \E expired, dead, stalled \in SUBSET Sandbox : ReapSandboxes(expired, dead, stalled)

(* The steps that leave the worker table alone.                            *)
SandboxStep ==
    \/ \E s \in Sandbox :
           \/ CreateSandbox(s)
           \/ DeleteSandbox(s)
           \/ CreateStep(s)
           \/ CreateFails(s)
           \/ CreateReadFails(s)
           \/ IngestSandboxEvent(s)
           \/ \E o \in Origin :
                  \/ CleanupStep(s, o)
                  \/ CleanupFails(s, o)
                  \/ CleanupReadFails(s, o)
    \/ Reap

WorkerReports ==
    \E w \in Worker :
        \/ UpdateWorker(w)
        \/ \E gone, up \in SUBSET Sandbox : ReportWorkerHeartbeat(w, gone, up)

Next ==
    \/ SandboxStep /\ UNCHANGED capacity
    \/ WorkerReports

Spec == Init /\ [][Next]_vars

(* River keeps running the jobs it holds.                                  *)
JobFairness ==
    \A s \in Sandbox :
        /\ WF_rows(CreateStep(s))
        /\ \A o \in Origin : WF_rows(CleanupStep(s, o))

FairSpec == Spec /\ JobFairness

-----------------------------------------------------------------------------
(* Properties.                                                             *)

(* Every row has a status of the model's vocabulary and every job a record *)
(* of its kind; no job is at an attempt above MaxAttempts (River's         *)
(* retries, maybeCleanup on the final attempt).                            *)
TypeOK ==
    /\ status \in [Sandbox -> Status]
    /\ workerId \in [Sandbox -> Worker \cup {NoWorker}]
    /\ create \in [Sandbox -> CreateJob]
    /\ cleanup \in [Sandbox -> [Origin -> CleanupJob]]
    /\ capacity \in [Worker -> Capacities]

(* A sandbox on a worker names that worker, and one that ended for good    *)
(* names none: worker_id is set with assigned and cleared before the       *)
(* terminal status, whichever jobs race (AssignWorker, ClearWorker).       *)
LinkMatchesStatus ==
    \A s \in Sandbox :
        /\ status[s] \in OnWorker => workerId[s] # NoWorker
        /\ status[s] \in Terminal => workerId[s] = NoWorker

(* AssignWorker's count is authoritative: a sandbox is placed on a worker  *)
(* only within the capacity the worker reported last, those in cleanup     *)
(* counted, whatever snapshot the scheduler chose from and however many    *)
(* jobs assign at once.  A capacity that falls leaves the rows alone.      *)
AssignedWithinCapacity ==
    [][\A w \in Worker :
           ~(Counted(w)' \subseteq Counted(w)) => Cardinality(Counted(w)') <= capacity'[w]]_vars

(* A cleanup job exists only for a sandbox that was claimed, so the        *)
(* removal it asks for never hits a sandbox in use.                        *)
CleanupOnlyClaimed ==
    \A s \in Sandbox, o \in Origin :
        cleanup[s][o].pc # "none" => status[s] \in Ended

(* A claimed sandbox always has a cleanup job that will still run, unless  *)
(* it is already at its end: nothing else looks at cleanup_pending rows.   *)
NeverStranded ==
    \A s \in Sandbox :
        status[s] = "cleanup_pending" =>
            \E o \in Origin : cleanup[s][o].pc \in {"ready"} \cup CleanupRunning

Rank == [st \in Status |->
    CASE st = "absent" -> 0
      [] st = "pending" -> 1
      [] st = "scheduling" -> 2
      [] st = "assigned" -> 3
      [] st = "starting" -> 4
      [] st = "running" -> 5
      [] st = "cleanup_pending" -> 6
      [] OTHER -> 7]

(* "A retried or duplicated job cannot move a sandbox backwards", and a    *)
(* terminal status is never rewritten.                                     *)
NeverBackwards ==
    [][\A s \in Sandbox : \/ status'[s] = status[s]
                          \/ Rank[status[s]] < Rank[status'[s]]]_vars

(* CreateSandbox and RemoveSandbox go to one and the same worker for the   *)
(* whole life of a sandbox, whatever was retried or read stale: the worker *)
(* a create job calls is chosen once, and the row and the cleanup jobs     *)
(* never name another.                                                     *)
OneWorkerPerSandbox ==
    [][\A s \in Sandbox :
           /\ create[s].worker \in {NoWorker, create'[s].worker}
           /\ workerId'[s] \in {NoWorker, create'[s].worker}
           /\ \A o \in Origin : cleanup'[s][o].worker \in {NoWorker, create'[s].worker}]_vars

(* The POST answers 201 only for a sandbox that is running when its job    *)
(* completes, never for one that ended under the job.                      *)
CreatedOnlyIfRunning ==
    [][\A s \in Sandbox :
           Answer(s)' = "201" /\ Answer(s) # "201" => status'[s] = "running"]_vars

(* A sandbox is claimed once and given up once: no cleanup job is enqueued *)
(* over an earlier one (its attempts would start again).                   *)
EnqueuedOnce ==
    [][\A s \in Sandbox, o \in Origin :
           cleanup[s][o].attempt <= cleanup'[s][o].attempt]_vars

(* The create job alone settles every sandbox, whatever the workers answer *)
(* and whatever fails, unless its last attempt is lost to a failure: no    *)
(* retry loop, no step after which the row and the job wait for each other *)
(* (the switch of Work, maybeCleanup).                                     *)
CreationSettles ==
    \A s \in Sandbox :
        status[s] \in Active \ {"running"}
            ~> status[s] \in {"running"} \cup Ended \/ create[s].pc = "discarded"

(* Every claimed sandbox reaches its terminal status, even when its worker *)
(* never confirms the removal, unless failures cost all its cleanup jobs   *)
(* their last attempt (nothing else looks at cleanup_pending rows).        *)
CleanupEnds ==
    \A s \in Sandbox :
        status[s] = "cleanup_pending"
            ~> \/ status[s] \in Terminal
               \/ \A o \in Origin : cleanup[s][o].pc \in {"none", "discarded"}

(* "The sandbox ends up failed, whatever the requested target, since its   *)
(* removal was never confirmed": stopped is not reached when a cleanup job *)
(* gave the removal up and none had it confirmed.                          *)
StoppedIsConfirmed ==
    \A s \in Sandbox :
        status[s] = "stopped" /\ (\E o \in Origin : cleanup[s][o].removal = "gave_up")
            => \E o \in Origin : cleanup[s][o].removal = "confirmed"

=============================================================================
