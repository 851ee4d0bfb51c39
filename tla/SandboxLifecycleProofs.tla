----------------------- MODULE SandboxLifecycleProofs -----------------------
(***************************************************************************)
(* Proofs about SandboxLifecycle, for any finite set of sandboxes, any     *)
(* workers and capacities, any number of attempts, with or without faults: *)
(* its invariants, then what a step may do, namely whom it links to a      *)
(* worker, where it moves a status, what it does to a cleanup job and when *)
(* it completes a create job.                                              *)
(***************************************************************************)
EXTENDS SandboxLifecycle, FiniteSetTheorems, TLAPS

(***************************************************************************)
(* The inductive invariant.  It speaks of each sandbox on its own: no      *)
(* statement reads the row of one sandbox and writes that of another, the  *)
(* count in AssignWorker aside.                                            *)
(***************************************************************************)

(* The create job exists with the row, and has an attempt left while it    *)
(* waits for River.                                                        *)
CreateInv(s) ==
    /\ create[s].pc = "none" <=> status[s] = "absent"
    /\ create[s].pc = "none" => create[s].attempt = 0
    /\ create[s].pc = "ready" => create[s].attempt < MaxAttempts

(* The link to the worker follows the status, and names the worker the     *)
(* create job chose; it has chosen none while the row is still to be       *)
(* assigned.                                                               *)
LinkInv(s) ==
    /\ status[s] \in {"absent", "pending", "scheduling"} \cup Terminal => workerId[s] = NoWorker
    /\ status[s] \in OnWorker => workerId[s] # NoWorker
    /\ workerId[s] \in {NoWorker, create[s].worker}
    /\ status[s] \in {"absent", "pending", "scheduling"} => create[s].worker = NoWorker

(* A cleanup job exists only for a claimed sandbox; it is about to finish  *)
(* only once the link is gone, and completed only once the row ended.      *)
CleanupInv(s, o) ==
    /\ cleanup[s][o].pc = "none" => cleanup[s][o].attempt = 0 /\ cleanup[s][o].worker = NoWorker
    /\ cleanup[s][o].pc # "none" => status[s] \in Ended
    /\ cleanup[s][o].pc = "ready" => cleanup[s][o].attempt < MaxAttempts
    /\ cleanup[s][o].pc = "finish" => workerId[s] = NoWorker
    /\ cleanup[s][o].pc = "completed" => status[s] \in Terminal
    /\ cleanup[s][o].pc = "discarded" => Faults
    /\ cleanup[s][o].worker \in {NoWorker, create[s].worker}

(* A claimed sandbox has a cleanup job; a create job that gave the sandbox *)
(* up does nothing more to it.                                             *)
ClaimInv(s) ==
    /\ status[s] = "cleanup_pending" => \E o \in Origin : cleanup[s][o].pc # "none"
    /\ cleanup[s]["give_up"].pc # "none" => create[s].pc \in {"ready", "cancelled", "discarded"}

SandboxInv(s) ==
    /\ CreateInv(s)
    /\ LinkInv(s)
    /\ \A o \in Origin : CleanupInv(s, o)
    /\ ClaimInv(s)

RowTypes ==
    /\ status \in [Sandbox -> Status]
    /\ workerId \in [Sandbox -> Worker \cup {NoWorker}]
    /\ create \in [Sandbox -> CreateJob]
    /\ cleanup \in [Sandbox -> [Origin -> CleanupJob]]

Inv == RowTypes /\ \A s \in Sandbox : SandboxInv(s)

(* What a step does to the rows and the jobs.                              *)
Reconcile == \E w \in Worker, gone, up \in SUBSET Sandbox : ReconcileInventory(w, gone, up)
RowNext == SandboxStep \/ Reconcile

LEMMA RowsMove == [Next]_vars => [RowNext]_rows
BY DEF Next, RowNext, Reconcile, WorkerReports, UpdateWorker, ReportWorkerHeartbeat, vars, rows

LEMMA InvInit == Init => Inv
BY ConstantsAssumption
   DEF Init, Inv, RowTypes, SandboxInv, CreateInv, LinkInv, CleanupInv, ClaimInv,
       NoCreateJob, NoCleanupJob, CreateJob, CleanupJob, CreatePC, CleanupPC, Origin,
       Status, Active, OnWorker, Ended, Terminal

-----------------------------------------------------------------------------
(* What the updates of a job record leave.                                 *)

LEMMA CreateFields ==
    ASSUME NEW j \in CreateJob, NEW pc \in CreatePC, NEW c \in SUBSET Worker, NEW d \in BOOLEAN
    PROVE  LET k == [j EXCEPT !.pc = pc, !.candidates = c, !.droppedFull = d]
           IN  k \in CreateJob /\ k.pc = pc /\ k.attempt = j.attempt /\ k.worker = j.worker
<1> DEFINE k1 == [j EXCEPT !.pc = pc]
           k2 == [k1 EXCEPT !.candidates = c]
           k3 == [k2 EXCEPT !.droppedFull = d]
<1>1. k1 \in CreateJob /\ k1.pc = pc /\ k1.attempt = j.attempt /\ k1.worker = j.worker
    BY DEF CreateJob
<1>2. k2 \in CreateJob /\ k2.pc = pc /\ k2.attempt = j.attempt /\ k2.worker = j.worker
  <2> HIDE DEF k1
  <2> QED
    BY <1>1 DEF CreateJob
<1>3. k3 \in CreateJob /\ k3.pc = pc /\ k3.attempt = j.attempt /\ k3.worker = j.worker
  <2> HIDE DEF k2
  <2> QED
    BY <1>2 DEF CreateJob
<1> QED
    BY <1>3

LEMMA GotoFields ==
    ASSUME NEW j \in CreateJob, NEW pc \in CreatePC
    PROVE  LET k == [j EXCEPT !.pc = pc, !.candidates = {}, !.droppedFull = FALSE]
           IN  k \in CreateJob /\ k.pc = pc /\ k.attempt = j.attempt /\ k.worker = j.worker
<1> DEFINE k1 == [j EXCEPT !.pc = pc]
           k2 == [k1 EXCEPT !.candidates = {}]
           k3 == [k2 EXCEPT !.droppedFull = FALSE]
<1>1. k1 \in CreateJob /\ k1.pc = pc /\ k1.attempt = j.attempt /\ k1.worker = j.worker
    BY DEF CreateJob
<1>2. k2 \in CreateJob /\ k2.pc = pc /\ k2.attempt = j.attempt /\ k2.worker = j.worker
  <2> HIDE DEF k1
  <2> QED
    BY <1>1 DEF CreateJob
<1>3. k3 \in CreateJob /\ k3.pc = pc /\ k3.attempt = j.attempt /\ k3.worker = j.worker
  <2> HIDE DEF k2
  <2> QED
    BY <1>2, Zenon DEF CreateJob
<1> QED
    BY <1>3

LEMMA CreateWorkerField ==
    ASSUME NEW j \in CreateJob, NEW w \in Worker \cup {NoWorker}
    PROVE  LET k == [j EXCEPT !.worker = w]
           IN  k \in CreateJob /\ k.pc = j.pc /\ k.attempt = j.attempt /\ k.worker = w
BY DEF CreateJob

LEMMA CreatePCField ==
    ASSUME NEW j \in CreateJob, NEW pc \in CreatePC
    PROVE  LET k == [j EXCEPT !.pc = pc]
           IN  k \in CreateJob /\ k.pc = pc /\ k.attempt = j.attempt /\ k.worker = j.worker
BY DEF CreateJob

LEMMA CreateAttemptField ==
    ASSUME NEW j \in CreateJob, j.attempt < MaxAttempts
    PROVE  LET k == [j EXCEPT !.attempt = @ + 1]
           IN  k \in CreateJob /\ k.pc = j.pc /\ k.attempt = j.attempt + 1 /\ k.worker = j.worker
BY ConstantsAssumption DEF CreateJob

LEMMA CleanupPCField ==
    ASSUME NEW j \in CleanupJob, NEW pc \in CleanupPC
    PROVE  LET k == [j EXCEPT !.pc = pc]
           IN  k \in CleanupJob /\ k.pc = pc /\ k.attempt = j.attempt /\ k.worker = j.worker
BY DEF CleanupJob

LEMMA CleanupAttemptField ==
    ASSUME NEW j \in CleanupJob, j.attempt < MaxAttempts
    PROVE  LET k == [j EXCEPT !.attempt = @ + 1]
           IN  k \in CleanupJob /\ k.pc = j.pc /\ k.attempt = j.attempt + 1 /\ k.worker = j.worker
BY ConstantsAssumption DEF CleanupJob

LEMMA CleanupWorkerField ==
    ASSUME NEW j \in CleanupJob, NEW w \in Worker \cup {NoWorker}
    PROVE  LET k == [j EXCEPT !.worker = w]
           IN  k \in CleanupJob /\ k.pc = j.pc /\ k.attempt = j.attempt /\ k.worker = w
BY DEF CleanupJob

LEMMA CleanupRemovalField ==
    ASSUME NEW j \in CleanupJob, NEW r \in {"confirmed", "gave_up"}
    PROVE  LET k == [j EXCEPT !.removal = r]
           IN  k \in CleanupJob /\ k.pc = j.pc /\ k.attempt = j.attempt /\ k.worker = j.worker
BY DEF CleanupJob

LEMMA EnqueuedFields ==
    ASSUME NEW target \in {"failed", "stopped"}
    PROVE  /\ Enqueued(target) \in CleanupJob
           /\ Enqueued(target).pc = "ready"
           /\ Enqueued(target).attempt = 0
           /\ Enqueued(target).worker = NoWorker
<1> DEFINE k1 == [NoCleanupJob EXCEPT !.pc = "ready"]
           k2 == [k1 EXCEPT !.target = target]
<1>0. NoCleanupJob \in CleanupJob /\ NoCleanupJob.attempt = 0 /\ NoCleanupJob.worker = NoWorker
    BY ConstantsAssumption DEF NoCleanupJob, CleanupJob, CleanupPC
<1>1. k1 \in CleanupJob /\ k1.pc = "ready" /\ k1.attempt = 0 /\ k1.worker = NoWorker
    BY <1>0, CleanupPCField, Zenon DEF CleanupPC
<1>2. k2 \in CleanupJob /\ k2.pc = "ready" /\ k2.attempt = 0 /\ k2.worker = NoWorker
  <2> HIDE DEF k1
  <2> QED
    BY <1>1 DEF CleanupJob
<1> QED
    BY <1>2 DEF Enqueued

LEMMA CreateBecomesFacts ==
    ASSUME RowTypes, NEW s \in Sandbox, NEW job \in CreateJob, CreateBecomes(s, job)
    PROVE  /\ create' \in [Sandbox -> CreateJob]
           /\ create'[s] = job
           /\ \A t \in Sandbox \ {s} : create'[t] = create[t]
BY DEF RowTypes, CreateBecomes

LEMMA CleanupBecomesFacts ==
    ASSUME RowTypes, NEW s \in Sandbox, NEW o \in Origin, NEW job \in CleanupJob,
           CleanupBecomes(s, o, job)
    PROVE  /\ cleanup' \in [Sandbox -> [Origin -> CleanupJob]]
           /\ cleanup'[s][o] = job
           /\ \A q \in Origin \ {o} : cleanup'[s][q] = cleanup[s][q]
           /\ \A t \in Sandbox \ {s} : cleanup'[t] = cleanup[t]
BY DEF RowTypes, CleanupBecomes

(* Where a failed attempt leaves its job.                                  *)
LEMMA ErrorPC ==
    /\ \A j \in CreateJob :
           /\ RiverError(j) \in {"ready", "discarded"}
           /\ RiverError(j) = "ready" => j.attempt < MaxAttempts
           /\ MaybeCleanup(j) \in {"ready", "giveup"}
           /\ MaybeCleanup(j) = "ready" => j.attempt < MaxAttempts
    /\ \A j \in CleanupJob :
           /\ RiverError(j) \in {"ready", "discarded"}
           /\ RiverError(j) = "ready" => j.attempt < MaxAttempts
BY ConstantsAssumption DEF CreateJob, CleanupJob, RiverError, MaybeCleanup

-----------------------------------------------------------------------------
(* Preservation, by the shape of the steps.                                *)

SameSandbox(t) ==
    /\ status'[t] = status[t]
    /\ workerId'[t] = workerId[t]
    /\ create'[t] = create[t]
    /\ cleanup'[t] = cleanup[t]

LEMMA SameKeepsInv ==
    ASSUME NEW t \in Sandbox, SandboxInv(t), SameSandbox(t)
    PROVE  SandboxInv(t)'
BY DEF SandboxInv, CreateInv, LinkInv, CleanupInv, ClaimInv, SameSandbox

LEMMA OneSandbox ==
    ASSUME Inv, NEW s \in Sandbox, RowTypes', SandboxInv(s)',
           \A t \in Sandbox \ {s} : SameSandbox(t)
    PROVE  Inv'
<1>1. \A t \in Sandbox \ {s} : SandboxInv(t)'
    BY SameKeepsInv DEF Inv
<1> QED
    BY <1>1 DEF Inv

(* The statuses a create job moves a row through, one after the other.     *)
Forward == {<<"pending", "scheduling">>, <<"assigned", "starting">>, <<"starting", "running">>}

(* A step of the create job that leaves the link and the cleanup jobs.     *)
LEMMA CreateMove ==
    ASSUME Inv, NEW s \in Sandbox, NEW st \in Status, NEW job \in CreateJob,
           status' = [status EXCEPT ![s] = st],
           st = status[s] \/ <<status[s], st>> \in Forward,
           CreateBecomes(s, job),
           create[s].pc # "none", job.pc # "none",
           job.worker = create[s].worker,
           job.pc = "ready" => job.attempt < MaxAttempts,
           cleanup[s]["give_up"].pc = "none" \/ job.pc \in {"ready", "cancelled", "discarded"},
           UNCHANGED <<workerId, cleanup>>
    PROVE  Inv'
<1>1. /\ create' \in [Sandbox -> CreateJob]
      /\ create'[s] = job
      /\ \A t \in Sandbox \ {s} : create'[t] = create[t]
    BY CreateBecomesFacts DEF Inv
<1>2. status' \in [Sandbox -> Status] /\ status'[s] = st
      /\ \A t \in Sandbox \ {s} : status'[t] = status[t]
    BY DEF Inv, RowTypes
<1>3. RowTypes'
    BY <1>1, <1>2 DEF Inv, RowTypes
<1>4. \A t \in Sandbox \ {s} : SameSandbox(t)
    BY <1>1, <1>2 DEF SameSandbox
<1>5. SandboxInv(s)
    BY DEF Inv
<1>6. CreateInv(s)'
    BY <1>1, <1>2, <1>5 DEF SandboxInv, CreateInv, Forward
<1>7. LinkInv(s)'
    BY <1>1, <1>2, <1>5 DEF SandboxInv, LinkInv, Forward, OnWorker, Terminal
<1>8. \A o \in Origin : CleanupInv(s, o)'
    BY <1>1, <1>2, <1>5 DEF SandboxInv, CleanupInv, Forward, Ended, Terminal
<1>9. ClaimInv(s)'
    BY <1>1, <1>2, <1>5 DEF SandboxInv, ClaimInv, Forward
<1> QED
    BY <1>3, <1>4, <1>6, <1>7, <1>8, <1>9, OneSandbox DEF SandboxInv

(* The same for a job that goes on to pc from the middle of an attempt.    *)
LEMMA CreateGotoMove ==
    ASSUME Inv, NEW s \in Sandbox, NEW to \in Status, NEW from, NEW pc \in CreatePC \ {"none"},
           create[s].pc \in CreateRunning,
           UpdateStatus(s, to, from),
           \A st \in from : <<st, to>> \in Forward,
           CreateGoto(s, pc),
           pc = "ready" => create[s].attempt < MaxAttempts,
           UNCHANGED <<workerId, cleanup>>
    PROVE  Inv'
<1> DEFINE job == [create[s] EXCEPT !.pc = pc, !.candidates = {}, !.droppedFull = FALSE]
           st == IF status[s] \in from THEN to ELSE status[s]
<1>1. create[s] \in CreateJob /\ pc \in CreatePC
    BY DEF Inv, RowTypes
<1>2. job \in CreateJob /\ job.pc = pc /\ job.attempt = create[s].attempt
      /\ job.worker = create[s].worker
    BY <1>1, GotoFields, Zenon
<1>3. CreateBecomes(s, job)
    BY DEF CreateGoto
<1>4. st \in Status /\ status' = [status EXCEPT ![s] = st]
    BY DEF Inv, RowTypes, UpdateStatus
<1>5. st = status[s] \/ <<status[s], st>> \in Forward
    OBVIOUS
<1>6. cleanup[s]["give_up"].pc = "none" /\ create[s].pc # "none"
    BY DEF Inv, SandboxInv, ClaimInv, CreateRunning
<1> HIDE DEF job, st
<1> QED
    BY <1>2, <1>3, <1>4, <1>5, <1>6, CreateMove, Zenon

(* The same for a job that only reads.                                     *)
LEMMA CreateGotoOnly ==
    ASSUME Inv, NEW s \in Sandbox, NEW pc \in CreatePC \ {"none"},
           create[s].pc \in CreateRunning,
           CreateGoto(s, pc),
           pc = "ready" => create[s].attempt < MaxAttempts,
           UNCHANGED <<status, workerId, cleanup>>
    PROVE  Inv'
<1>1. UpdateStatus(s, "running", {})
    BY DEF Inv, RowTypes, UpdateStatus
<1> QED
    BY <1>1, CreateGotoMove DEF Status, Active, OnWorker

LEMMA StepSchedulingInv ==
    ASSUME Inv, NEW s \in Sandbox, StepScheduling(s)
    PROVE  Inv'
<1>0. create[s] \in CreateJob
    BY DEF Inv, RowTypes
<1>1. PICK pc \in Replies(IF status[s] = "pending" THEN "pick" ELSE "moved",
                          MaybeCleanup(create[s])) : CreateGoto(s, pc)
    BY DEF StepScheduling
<1>2. pc \in CreatePC \ {"none"} /\ (pc = "ready" => create[s].attempt < MaxAttempts)
    BY <1>0, <1>1, ErrorPC DEF Replies, CreatePC
<1> QED
    BY <1>1, <1>2, CreateGotoMove
    DEF StepScheduling, CreateRunning, CreatePC, Forward, Status, Active

LEMMA StepStartingInv ==
    ASSUME Inv, NEW s \in Sandbox, StepStarting(s)
    PROVE  Inv'
<1>0. create[s] \in CreateJob
    BY DEF Inv, RowTypes
<1>1. PICK pc \in Replies("ack", MaybeCleanup(create[s])) : CreateGoto(s, pc)
    BY DEF StepStarting
<1>2. pc \in CreatePC \ {"none"} /\ (pc = "ready" => create[s].attempt < MaxAttempts)
    BY <1>0, <1>1, ErrorPC DEF Replies, CreatePC
<1> QED
    BY <1>1, <1>2, CreateGotoMove
    DEF StepStarting, CreateRunning, CreatePC, Forward, Status, Active, OnWorker

LEMMA StepAcknowledgeInv ==
    ASSUME Inv, NEW s \in Sandbox, StepAcknowledge(s)
    PROVE  Inv'
<1>0. create[s] \in CreateJob
    BY DEF Inv, RowTypes
<1>1. PICK pc \in Replies(IF status[s] = "starting" THEN "completed" ELSE "moved",
                          MaybeCleanup(create[s])) : CreateGoto(s, pc)
    BY DEF StepAcknowledge
<1>2. pc \in CreatePC \ {"none"} /\ (pc = "ready" => create[s].attempt < MaxAttempts)
    BY <1>0, <1>1, ErrorPC DEF Replies, CreatePC
<1> QED
    BY <1>1, <1>2, CreateGotoMove
    DEF StepAcknowledge, CreateRunning, CreatePC, Forward, Status, Active, OnWorker

LEMMA CreateReadsInv ==
    ASSUME Inv, NEW s \in Sandbox,
           \/ NoWorkerChosen(s)
           \/ \E ok \in BOOLEAN : CreateCallReturns(s, ok)
           \/ ReadAcknowledge(s)
           \/ MovedUnder(s)
           \/ CreateFails(s)
    PROVE  Inv'
<1>0. create[s] \in CreateJob
    BY DEF Inv, RowTypes
<1>1. create[s].pc \in CreateRunning /\ UNCHANGED <<status, workerId, cleanup>>
    BY DEF NoWorkerChosen, CreateCallReturns, ReadAcknowledge, MovedUnder, CreateFails,
           CreateRunning, CreatePC
<1>2. PICK pc \in {"starting", "confirm", "completed", "cancelled", "giveup",
                   RiverError(create[s]), MaybeCleanup(create[s])} : CreateGoto(s, pc)
    BY DEF NoWorkerChosen, CreateCallReturns, ReadAcknowledge, MovedUnder, CreateFails, SettledPC
<1>3. pc \in CreatePC \ {"none"} /\ (pc = "ready" => create[s].attempt < MaxAttempts)
    BY <1>0, <1>2, ErrorPC DEF CreatePC
<1> QED
    BY <1>1, <1>2, <1>3, CreateGotoOnly

(* River starts an attempt of the create job, which then is past ready.    *)
LEMMA CreateAttemptInv ==
    ASSUME Inv, NEW s \in Sandbox, WorkCreate(s) \/ CreateReadFails(s)
    PROVE  Inv'
<1>0. create[s] \in CreateJob /\ create[s].pc = "ready" /\ create[s].attempt < MaxAttempts
      /\ SandboxInv(s)
    BY DEF Inv, RowTypes, SandboxInv, CreateInv, WorkCreate, CreateReadFails
<1> DEFINE j1 == [create[s] EXCEPT !.attempt = @ + 1]
           w == IF workerId[s] = NoWorker THEN j1.worker ELSE workerId[s]
           j2 == [j1 EXCEPT !.worker = w]
<1>1. j1 \in CreateJob /\ j1.worker = create[s].worker
    BY <1>0, CreateAttemptField, Zenon
<1>2. w = create[s].worker /\ w \in Worker \cup {NoWorker}
    BY <1>0, <1>1 DEF SandboxInv, LinkInv, CreateJob
<1>3. j2 \in CreateJob /\ j2.worker = create[s].worker
    BY <1>1, <1>2, CreateWorkerField, Zenon
<1>4. status' = [status EXCEPT ![s] = status[s]] /\ status[s] \in Status
      /\ UNCHANGED <<workerId, cleanup>>
    BY DEF Inv, RowTypes, WorkCreate, CreateReadFails
<1>5. CASE WorkCreate(s)
  <2> DEFINE pc == StepFor(status[s], workerId[s], j2)
             job == [j2 EXCEPT !.pc = pc]
  <2>1. CreateBecomes(s, job)
    BY <1>5 DEF WorkCreate
  <2>2. pc \in CreatePC \ {"none"} /\ (pc = "ready" => j2.attempt < MaxAttempts)
    BY <1>3, ErrorPC, Zenon DEF StepFor, SettledPC, CreatePC
  <2>3. cleanup[s]["give_up"].pc = "none" \/ pc = "cancelled"
    BY <1>0 DEF SandboxInv, CleanupInv, StepFor, Settled, SettledPC, Origin, Ended, Terminal
  <2> HIDE DEF j2, pc
  <2>4. job \in CreateJob /\ job.pc = pc /\ job.attempt = j2.attempt /\ job.worker = j2.worker
    BY <1>3, <2>2, CreatePCField
  <2> HIDE DEF job
  <2> QED
    BY <1>0, <1>3, <1>4, <2>1, <2>2, <2>3, <2>4, CreateMove, Zenon
<1>6. CASE CreateReadFails(s)
  <2> DEFINE pc == RiverError(j1)
             job == [j1 EXCEPT !.pc = pc]
  <2>1. CreateBecomes(s, job)
    BY <1>6 DEF CreateReadFails
  <2>2. pc \in CreatePC \ {"none"} /\ (pc = "ready" => j1.attempt < MaxAttempts)
        /\ pc \in {"ready", "discarded"}
    BY <1>1, ErrorPC, Zenon DEF CreatePC
  <2> HIDE DEF j1, pc
  <2>3. job \in CreateJob /\ job.pc = pc /\ job.attempt = j1.attempt /\ job.worker = j1.worker
    BY <1>1, <2>2, CreatePCField
  <2> HIDE DEF job
  <2> QED
    BY <1>0, <1>1, <1>4, <2>1, <2>2, <2>3, CreateMove, Zenon
<1> QED
    BY <1>5, <1>6

LEMMA BuildCandidatesInv ==
    ASSUME Inv, NEW s \in Sandbox, BuildCandidates(s)
    PROVE  Inv'
<1>0. create[s] \in CreateJob /\ create[s].pc = "pick" /\ SandboxInv(s)
    BY DEF Inv, RowTypes, BuildCandidates
<1>1. PICK c \in SUBSET Worker :
          CreateBecomes(s, [create[s] EXCEPT !.pc = "assign", !.candidates = c,
                                             !.droppedFull = FALSE])
    BY Zenon DEF BuildCandidates
<1> DEFINE job == [create[s] EXCEPT !.pc = "assign", !.candidates = c, !.droppedFull = FALSE]
<1>2. "assign" \in CreatePC /\ FALSE \in BOOLEAN
    BY DEF CreatePC
<1>3. job \in CreateJob /\ job.pc = "assign" /\ job.worker = create[s].worker
    BY <1>0, <1>2, CreateFields, Zenon
<1>4. cleanup[s]["give_up"].pc = "none"
    BY <1>0 DEF SandboxInv, ClaimInv
<1>5. status' = [status EXCEPT ![s] = status[s]] /\ status[s] \in Status
      /\ UNCHANGED <<workerId, cleanup>>
    BY DEF Inv, RowTypes, BuildCandidates
<1>6. CreateBecomes(s, job)
    BY <1>1
<1> HIDE DEF job
<1> QED
    BY <1>0, <1>3, <1>4, <1>5, <1>6, CreateMove, Zenon

(* An event moves the row forward and leaves the job.                      *)
LEMMA IngestSandboxEventInv ==
    ASSUME Inv, NEW s \in Sandbox, IngestSandboxEvent(s)
    PROVE  Inv'
<1>1. SandboxInv(s) /\ create[s] \in CreateJob
    BY DEF Inv, RowTypes
<1>2. status' = [status EXCEPT ![s] = "running"] /\ status[s] \in {"starting", "running"}
      /\ UNCHANGED <<workerId, create, cleanup>>
    BY DEF Inv, RowTypes, IngestSandboxEvent, UpdateStatus
<1>3. CreateBecomes(s, create[s])
    BY <1>2 DEF Inv, RowTypes, CreateBecomes
<1>4. create[s].pc # "none" /\ (create[s].pc = "ready" => create[s].attempt < MaxAttempts)
    BY <1>1, <1>2 DEF SandboxInv, CreateInv
<1>5. cleanup[s]["give_up"].pc = "none"
    BY <1>1, <1>2 DEF SandboxInv, CleanupInv, Origin, Ended, Terminal
<1> QED
    BY <1>1, <1>2, <1>3, <1>4, <1>5, CreateMove, Zenon DEF Forward, Status, Active, OnWorker

LEMMA CreateSandboxInv ==
    ASSUME Inv, NEW s \in Sandbox, CreateSandbox(s)
    PROVE  Inv'
<1> DEFINE job == [create[s] EXCEPT !.pc = "ready", !.candidates = {}, !.droppedFull = FALSE]
<1>1. SandboxInv(s) /\ create[s] \in CreateJob /\ "ready" \in CreatePC
    BY DEF Inv, RowTypes, CreatePC
<1>2. job \in CreateJob /\ job.pc = "ready" /\ job.attempt = create[s].attempt
      /\ job.worker = create[s].worker
    BY <1>1, GotoFields, Zenon
<1>3. CreateBecomes(s, job)
    BY DEF CreateSandbox, CreateGoto
<1> HIDE DEF job
<1>4. /\ create' \in [Sandbox -> CreateJob]
      /\ create'[s] = job
      /\ \A t \in Sandbox \ {s} : create'[t] = create[t]
    BY <1>2, <1>3, CreateBecomesFacts DEF Inv
<1>5. /\ status[s] = "absent"
      /\ status' \in [Sandbox -> Status] /\ status'[s] = "pending"
      /\ \A t \in Sandbox \ {s} : status'[t] = status[t]
      /\ UNCHANGED <<workerId, cleanup>>
    BY DEF Inv, RowTypes, CreateSandbox, Status, Active
<1>6. RowTypes'
    BY <1>4, <1>5 DEF Inv, RowTypes
<1>7. CreateInv(s)'
    BY <1>1, <1>2, <1>4, <1>5, ConstantsAssumption DEF SandboxInv, CreateInv
<1>8. LinkInv(s)'
    BY <1>1, <1>2, <1>4, <1>5 DEF SandboxInv, LinkInv, OnWorker, Terminal
<1>9. (\A o \in Origin : CleanupInv(s, o)') /\ ClaimInv(s)'
  <2>1. \A o \in Origin : cleanup[s][o].pc = "none"
    BY <1>1, <1>5 DEF SandboxInv, CleanupInv, Ended, Terminal
  <2> QED
    BY <1>1, <1>2, <1>4, <1>5, <2>1 DEF SandboxInv, CleanupInv, ClaimInv, Origin
<1>10. \A t \in Sandbox \ {s} : SameSandbox(t)
    BY <1>4, <1>5 DEF SameSandbox
<1> QED
    BY <1>6, <1>7, <1>8, <1>9, <1>10, OneSandbox DEF SandboxInv

(* The assignment of a worker: the row is unclaimed, so no cleanup job     *)
(* knows of an earlier worker.                                             *)
LEMMA AssignedInv ==
    ASSUME Inv, NEW s \in Sandbox, NEW w \in Worker, NEW job \in CreateJob,
           create[s].pc = "assign",
           status[s] = "scheduling",
           status' = [status EXCEPT ![s] = "assigned"],
           workerId' = [workerId EXCEPT ![s] = w],
           CreateBecomes(s, job),
           job.pc # "none", job.worker = w, job.pc = "ready" => job.attempt < MaxAttempts,
           UNCHANGED cleanup
    PROVE  Inv'
<1>1. SandboxInv(s)
    BY DEF Inv
<1>2. /\ create' \in [Sandbox -> CreateJob]
      /\ create'[s] = job
      /\ \A t \in Sandbox \ {s} : create'[t] = create[t]
    BY CreateBecomesFacts DEF Inv
<1>3. /\ status' \in [Sandbox -> Status] /\ status'[s] = "assigned"
      /\ workerId' \in [Sandbox -> Worker \cup {NoWorker}] /\ workerId'[s] = w
      /\ \A t \in Sandbox \ {s} : status'[t] = status[t] /\ workerId'[t] = workerId[t]
    BY DEF Inv, RowTypes, Status, Active, OnWorker
<1>4. RowTypes'
    BY <1>2, <1>3 DEF Inv, RowTypes
<1>5. \A o \in Origin : cleanup[s][o].pc = "none" /\ cleanup[s][o].worker = NoWorker
    BY <1>1 DEF SandboxInv, CleanupInv, Ended, Terminal
<1>6. CreateInv(s)' /\ LinkInv(s)'
    BY <1>2, <1>3, ConstantsAssumption DEF CreateInv, LinkInv, OnWorker, Terminal
<1>7. (\A o \in Origin : CleanupInv(s, o)') /\ ClaimInv(s)'
    BY <1>1, <1>2, <1>3, <1>5 DEF SandboxInv, CleanupInv, ClaimInv, Origin
<1>8. \A t \in Sandbox \ {s} : SameSandbox(t)
    BY <1>2, <1>3 DEF SameSandbox
<1> QED
    BY <1>4, <1>6, <1>7, <1>8, OneSandbox DEF SandboxInv

LEMMA AssignWorkerInv ==
    ASSUME Inv, NEW s \in Sandbox, NEW w \in Worker, AssignWorker(s, w)
    PROVE  Inv'
<1>0. create[s] \in CreateJob /\ create[s].pc = "assign" /\ SandboxInv(s) /\ UNCHANGED cleanup
    BY Zenon DEF Inv, RowTypes, AssignWorker
<1>1. CASE status[s] = "scheduling" /\ HasRoom(w)
  <2>1. PICK pc \in Replies("call", MaybeCleanup(create[s])) :
            CreateBecomes(s, [create[s] EXCEPT !.pc = pc, !.candidates = {},
                                               !.droppedFull = FALSE, !.worker = w])
    BY <1>1, Zenon DEF AssignWorker
  <2>2. pc \in CreatePC /\ pc # "none" /\ (pc = "ready" => create[s].attempt < MaxAttempts)
    BY <1>0, ErrorPC DEF Replies, CreatePC
  <2> DEFINE j1 == [create[s] EXCEPT !.pc = pc, !.candidates = {}, !.droppedFull = FALSE]
             job == [j1 EXCEPT !.worker = w]
  <2>3. j1 \in CreateJob /\ j1.pc = pc /\ j1.attempt = create[s].attempt
    BY <1>0, <2>2, GotoFields, Zenon
  <2>4. CreateBecomes(s, job)
    BY <2>1
  <2> HIDE DEF j1
  <2>5. job \in CreateJob /\ job.pc = pc /\ job.attempt = create[s].attempt /\ job.worker = w
    BY <2>3, CreateWorkerField
  <2>6. /\ status' = [status EXCEPT ![s] = "assigned"]
        /\ workerId' = [workerId EXCEPT ![s] = w]
    BY <1>1, Zenon DEF AssignWorker
  <2> HIDE DEF job
  <2> QED
    BY <1>0, <1>1, <2>2, <2>4, <2>5, <2>6, AssignedInv, Zenon
<1>2. CASE status[s] = "scheduling" /\ ~HasRoom(w)
  <2> DEFINE c == create[s].candidates \ {w}
             j1 == [create[s] EXCEPT !.candidates = c]
             job == [j1 EXCEPT !.droppedFull = TRUE]
  <2>1. CreateBecomes(s, job)
    BY <1>2, Zenon DEF AssignWorker
  <2>2. j1 \in CreateJob /\ j1.pc = "assign" /\ j1.worker = create[s].worker
    BY <1>0 DEF CreateJob
  <2> HIDE DEF j1
  <2>3. job \in CreateJob /\ job.pc = "assign" /\ job.worker = create[s].worker
    BY <2>2, Zenon DEF CreateJob
  <2>4. cleanup[s]["give_up"].pc = "none"
    BY <1>0 DEF SandboxInv, ClaimInv
  <2>5. status' = [status EXCEPT ![s] = status[s]] /\ status[s] \in Status /\ UNCHANGED workerId
    BY <1>2, Zenon DEF Inv, RowTypes, AssignWorker
  <2> HIDE DEF job
  <2> QED
    BY <1>0, <2>1, <2>3, <2>4, <2>5, CreateMove, Zenon
<1>3. CASE status[s] # "scheduling"
    BY <1>0, <1>3, CreateGotoOnly, Zenon DEF AssignWorker, CreateRunning, CreatePC
<1> QED
    BY <1>1, <1>2, <1>3, Zenon DEF AssignWorker

(* A claim: the row was active, so it has no cleanup job yet.              *)
LEMMA ClaimedSandbox ==
    ASSUME Inv, NEW s \in Sandbox, NEW o \in Origin, NEW target \in {"failed", "stopped"},
           status[s] \in Active, status'[s] = "cleanup_pending",
           workerId'[s] = workerId[s],
           create'[s] = create[s],
           cleanup'[s] = [cleanup[s] EXCEPT ![o] = Enqueued(target)],
           o = "give_up" => create[s].pc \in {"ready", "cancelled", "discarded"}
    PROVE  SandboxInv(s)' /\ cleanup'[s] \in [Origin -> CleanupJob]
<1>1. SandboxInv(s)
    BY DEF Inv
<1>2. /\ cleanup'[s] \in [Origin -> CleanupJob]
      /\ cleanup'[s][o].pc = "ready" /\ cleanup'[s][o].attempt = 0
      /\ cleanup'[s][o].worker = NoWorker
      /\ \A q \in Origin \ {o} : cleanup'[s][q] = cleanup[s][q]
    BY EnqueuedFields DEF Inv, RowTypes
<1>3. \A q \in Origin : cleanup[s][q].pc = "none"
    BY <1>1 DEF SandboxInv, CleanupInv, Active, OnWorker, Ended, Terminal
<1>4. CreateInv(s)'
    BY <1>1 DEF SandboxInv, CreateInv, Active, OnWorker
<1>5. LinkInv(s)'
    BY <1>1 DEF SandboxInv, LinkInv, OnWorker, Terminal
<1>6. \A q \in Origin : CleanupInv(s, q)'
    BY <1>1, <1>2, <1>3, ConstantsAssumption DEF SandboxInv, CleanupInv, Ended
<1>7. ClaimInv(s)'
    BY <1>1, <1>2, <1>3 DEF SandboxInv, ClaimInv, Origin
<1> QED
    BY <1>2, <1>4, <1>5, <1>6, <1>7 DEF SandboxInv

LEMMA DeleteSandboxInv ==
    ASSUME Inv, NEW s \in Sandbox, DeleteSandbox(s)
    PROVE  Inv'
<1>1. /\ status[s] \in Active /\ status'[s] = "cleanup_pending"
      /\ status' \in [Sandbox -> Status]
      /\ \A t \in Sandbox \ {s} : status'[t] = status[t]
      /\ UNCHANGED <<workerId, create>>
    BY DEF Inv, RowTypes, DeleteSandbox, UpdateStatus, Status, Ended
<1>2. CleanupBecomes(s, "claim", Enqueued("stopped"))
    BY DEF DeleteSandbox
<1>3. /\ cleanup'[s] = [cleanup[s] EXCEPT !["claim"] = Enqueued("stopped")]
      /\ \A t \in Sandbox \ {s} : cleanup'[t] = cleanup[t]
    BY <1>2 DEF CleanupBecomes, Inv, RowTypes
<1>4. SandboxInv(s)'
    BY <1>1, <1>3, ClaimedSandbox, Zenon DEF Origin
<1>5. cleanup' \in [Sandbox -> [Origin -> CleanupJob]]
    BY <1>2, EnqueuedFields, CleanupBecomesFacts DEF Inv, Origin
<1>6. RowTypes'
    BY <1>1, <1>5 DEF Inv, RowTypes
<1>7. \A t \in Sandbox \ {s} : SameSandbox(t)
    BY <1>1, <1>3 DEF SameSandbox
<1> QED
    BY <1>4, <1>6, <1>7, OneSandbox

(* The reaper and an inventory claim several rows in one transaction.      *)
LEMMA ReapSandboxesInv ==
    ASSUME Inv, NEW expired \in SUBSET Sandbox, NEW dead \in SUBSET Sandbox,
           NEW stalled \in SUBSET Sandbox, ReapSandboxes(expired, dead, stalled)
    PROVE  Inv'
<1> DEFINE failed == dead \cup stalled
<1>1. UNCHANGED <<workerId, create>> /\ Claimed(expired, failed)
      /\ \A s \in expired \cup failed : status[s] \in Active
    BY DEF ReapSandboxes, Active
<1>2. /\ \A s \in expired : /\ status'[s] = "cleanup_pending"
                            /\ cleanup'[s] = [cleanup[s] EXCEPT !["claim"] = Enqueued("stopped")]
      /\ \A s \in failed \ expired : /\ status'[s] = "cleanup_pending"
                           /\ cleanup'[s] = [cleanup[s] EXCEPT !["claim"] = Enqueued("failed")]
      /\ \A s \in Sandbox \ (expired \cup failed) : SameSandbox(s)
    BY <1>1, Zenon DEF Claimed, SameSandbox
<1>3. \A s \in expired \cup failed : SandboxInv(s)' /\ cleanup'[s] \in [Origin -> CleanupJob]
  <2>1. \A s \in expired : SandboxInv(s)' /\ cleanup'[s] \in [Origin -> CleanupJob]
    BY <1>1, <1>2, ClaimedSandbox, Zenon DEF Origin
  <2>2. \A s \in failed \ expired : SandboxInv(s)' /\ cleanup'[s] \in [Origin -> CleanupJob]
    BY <1>1, <1>2, ClaimedSandbox, Zenon DEF Origin
  <2> QED
    BY <2>1, <2>2
<1>4. \A s \in Sandbox \ (expired \cup failed) :
          SandboxInv(s)' /\ cleanup'[s] \in [Origin -> CleanupJob]
  <2> SUFFICES ASSUME NEW s \in Sandbox \ (expired \cup failed)
               PROVE  SandboxInv(s)' /\ cleanup'[s] \in [Origin -> CleanupJob]
    OBVIOUS
  <2>1. SandboxInv(s)'
    BY <1>2, SameKeepsInv DEF Inv
  <2> QED
    BY <1>2, <2>1 DEF Inv, RowTypes, SameSandbox
<1>5. status' \in [Sandbox -> Status]
    BY <1>1 DEF Claimed, Inv, RowTypes, Status, Ended
<1>6. cleanup' \in [Sandbox -> [Origin -> CleanupJob]]
  <2>1. cleanup' = [s \in Sandbox |-> cleanup'[s]]
    BY <1>1 DEF Claimed
  <2> QED
    BY <1>3, <1>4, <2>1
<1> QED
    BY <1>1, <1>3, <1>4, <1>5, <1>6 DEF Inv, RowTypes

LEMMA ReconcileInventoryInv ==
    ASSUME Inv, NEW w \in Worker, NEW gone \in SUBSET Sandbox, NEW up \in SUBSET Sandbox,
           ReconcileInventory(w, gone, up)
    PROVE  Inv'
<1>1. /\ \A s \in gone : status[s] \in Active
      /\ \A s \in up : status[s] = "starting"
      /\ UNCHANGED <<workerId, create>>
    BY DEF ReconcileInventory, Active
<1>2. /\ \A s \in gone : /\ status'[s] = "cleanup_pending"
                         /\ cleanup'[s] = [cleanup[s] EXCEPT !["claim"] = Enqueued("failed")]
      /\ \A s \in up : status'[s] = "running" /\ cleanup'[s] = cleanup[s]
      /\ \A s \in Sandbox \ (gone \cup up) : SameSandbox(s)
  <2>1. gone \cap up = {}
    BY DEF ReconcileInventory
  <2> QED
    BY <1>1, <2>1, Zenon DEF ReconcileInventory, SameSandbox
<1>3. \A s \in gone : SandboxInv(s)' /\ cleanup'[s] \in [Origin -> CleanupJob]
    BY <1>1, <1>2, ClaimedSandbox, Zenon DEF Origin
<1>4. \A s \in up : SandboxInv(s)'
  <2> SUFFICES ASSUME NEW s \in up PROVE SandboxInv(s)'
    OBVIOUS
  <2>1. SandboxInv(s) /\ s \in Sandbox
    BY DEF Inv
  <2>2. CreateInv(s)' /\ LinkInv(s)' /\ ClaimInv(s)'
    BY <1>1, <1>2, <2>1 DEF SandboxInv, CreateInv, LinkInv, ClaimInv, OnWorker, Terminal
  <2>3. \A o \in Origin : CleanupInv(s, o)'
    BY <1>1, <1>2, <2>1 DEF SandboxInv, CleanupInv, Ended, Terminal
  <2> QED
    BY <2>2, <2>3 DEF SandboxInv
<1>5. \A s \in Sandbox \ (gone \cup up) : SandboxInv(s)'
    BY <1>2, SameKeepsInv DEF Inv
<1>6. status' \in [Sandbox -> Status]
    BY DEF ReconcileInventory, Inv, RowTypes, Status, Ended, Active, OnWorker
<1>7. cleanup' \in [Sandbox -> [Origin -> CleanupJob]]
  <2>1. cleanup' = [s \in Sandbox |-> cleanup'[s]]
    BY DEF ReconcileInventory
  <2>2. \A s \in Sandbox \ gone : cleanup'[s] \in [Origin -> CleanupJob]
    BY <1>2 DEF Inv, RowTypes, SameSandbox
  <2> QED
    BY <1>3, <2>1, <2>2
<1> QED
    BY <1>1, <1>3, <1>4, <1>5, <1>6, <1>7 DEF Inv, RowTypes

(* Giving up: the create job leaves the sandbox in the same transaction    *)
(* that inserts its one cleanup job of this origin.                        *)
LEMMA GiveUpInv ==
    ASSUME Inv, NEW s \in Sandbox, GiveUp(s)
    PROVE  Inv'
<1>1. SandboxInv(s) /\ create[s] \in CreateJob /\ create[s].pc = "giveup" /\ UNCHANGED workerId
    BY DEF Inv, RowTypes, GiveUp
<1>2. PICK pc \in Replies("cancelled", RiverError(create[s])) : CreateGoto(s, pc)
    BY DEF GiveUp
<1>3. pc \in CreatePC /\ pc \in {"ready", "cancelled", "discarded"}
      /\ (pc = "ready" => create[s].attempt < MaxAttempts)
    BY <1>1, <1>2, ErrorPC DEF Replies, CreatePC
<1> DEFINE job == [create[s] EXCEPT !.pc = pc, !.candidates = {}, !.droppedFull = FALSE]
<1>4. job \in CreateJob /\ job.pc = pc /\ job.attempt = create[s].attempt
      /\ job.worker = create[s].worker
    BY <1>1, <1>3, GotoFields, Zenon
<1>5. CreateBecomes(s, job)
    BY <1>2 DEF CreateGoto
<1> HIDE DEF job
<1>6. /\ create' \in [Sandbox -> CreateJob]
      /\ create'[s] = job
      /\ \A t \in Sandbox \ {s} : create'[t] = create[t]
    BY <1>4, <1>5, CreateBecomesFacts DEF Inv
<1>7. status[s] # "absent"
    BY <1>1 DEF SandboxInv, CreateInv
<1>8. /\ status' \in [Sandbox -> Status]
      /\ status'[s] = IF status[s] \in Active THEN "cleanup_pending" ELSE status[s]
      /\ \A t \in Sandbox \ {s} : status'[t] = status[t]
    BY DEF Inv, RowTypes, GiveUp, UpdateStatus, Status, Ended
<1>9. status'[s] \in Ended
    BY <1>7, <1>8 DEF Inv, RowTypes, Status, Ended
<1>10. /\ cleanup' \in [Sandbox -> [Origin -> CleanupJob]]
       /\ cleanup'[s]["give_up"].pc = "ready" /\ cleanup'[s]["give_up"].attempt = 0
       /\ cleanup'[s]["give_up"].worker = NoWorker
       /\ \A q \in Origin \ {"give_up"} : cleanup'[s][q] = cleanup[s][q]
       /\ \A t \in Sandbox \ {s} : cleanup'[t] = cleanup[t]
  <2>1. CleanupBecomes(s, "give_up", Enqueued("failed"))
    BY DEF GiveUp
  <2> QED
    BY <2>1, EnqueuedFields, CleanupBecomesFacts DEF Inv, Origin
<1>11. RowTypes'
    BY <1>1, <1>6, <1>8, <1>10 DEF Inv, RowTypes
<1>12. CreateInv(s)'
    BY <1>3, <1>4, <1>6, <1>9 DEF CreateInv, Ended, Terminal
<1>13. LinkInv(s)'
    BY <1>1, <1>4, <1>6, <1>8, <1>9 DEF SandboxInv, LinkInv, Active, OnWorker, Ended, Terminal
<1>14. \A o \in Origin : CleanupInv(s, o)'
  <2>1. CleanupInv(s, "give_up")'
    BY <1>9, <1>10, ConstantsAssumption DEF CleanupInv
  <2>2. \A o \in Origin \ {"give_up"} : CleanupInv(s, o)'
    BY <1>1, <1>4, <1>6, <1>8, <1>9, <1>10
       DEF SandboxInv, CleanupInv, Active, OnWorker, Terminal
  <2> QED
    BY <2>1, <2>2
<1>15. ClaimInv(s)'
    BY <1>3, <1>4, <1>6, <1>10 DEF ClaimInv, Origin
<1>16. \A t \in Sandbox \ {s} : SameSandbox(t)
    BY <1>1, <1>6, <1>8, <1>10 DEF SameSandbox
<1> QED
    BY <1>11, <1>12, <1>13, <1>14, <1>15, <1>16, OneSandbox DEF SandboxInv

-----------------------------------------------------------------------------
(* The cleanup job.                                                        *)

LEMMA CleanupMove ==
    ASSUME Inv, NEW s \in Sandbox, NEW o \in Origin, NEW job \in CleanupJob,
           NEW st \in Ended, NEW w \in {workerId[s], NoWorker},
           cleanup[s][o].pc # "none",
           status' = [status EXCEPT ![s] = st],
           status[s] \in Terminal => st = status[s],
           workerId' = [workerId EXCEPT ![s] = w],
           st \in Terminal => w = NoWorker,
           CleanupBecomes(s, o, job),
           job.pc # "none",
           job.pc = "ready" => job.attempt < MaxAttempts,
           job.pc = "finish" => w = NoWorker,
           job.pc = "completed" => st \in Terminal,
           job.pc = "discarded" => Faults,
           job.worker \in {NoWorker, create[s].worker},
           UNCHANGED create
    PROVE  Inv'
<1>1. SandboxInv(s) /\ status[s] \in Ended
    BY DEF Inv, SandboxInv, CleanupInv
<1>2. /\ cleanup' \in [Sandbox -> [Origin -> CleanupJob]]
      /\ cleanup'[s][o] = job
      /\ \A q \in Origin \ {o} : cleanup'[s][q] = cleanup[s][q]
      /\ \A t \in Sandbox \ {s} : cleanup'[t] = cleanup[t]
    BY CleanupBecomesFacts DEF Inv
<1>3. /\ status' \in [Sandbox -> Status] /\ status'[s] = st
      /\ workerId' \in [Sandbox -> Worker \cup {NoWorker}] /\ workerId'[s] = w
      /\ \A t \in Sandbox \ {s} : status'[t] = status[t] /\ workerId'[t] = workerId[t]
    BY DEF Inv, RowTypes, Status
<1>4. RowTypes'
    BY <1>2, <1>3 DEF Inv, RowTypes
<1>5. CreateInv(s)'
    BY <1>1, <1>3 DEF SandboxInv, CreateInv, Ended, Terminal
<1>6. LinkInv(s)'
    BY <1>1, <1>3 DEF SandboxInv, LinkInv, Ended, OnWorker, Terminal
<1>7. \A q \in Origin : CleanupInv(s, q)'
  <2>1. CleanupInv(s, o)'
    BY <1>2, <1>3 DEF CleanupInv
  <2>2. \A q \in Origin \ {o} : CleanupInv(s, q)'
    BY <1>1, <1>2, <1>3 DEF SandboxInv, CleanupInv
  <2> QED
    BY <2>1, <2>2
<1>8. ClaimInv(s)'
    BY <1>1, <1>2, <1>3 DEF SandboxInv, ClaimInv, Origin
<1>9. \A t \in Sandbox \ {s} : SameSandbox(t)
    BY <1>2, <1>3 DEF SameSandbox
<1> QED
    BY <1>4, <1>5, <1>6, <1>7, <1>8, <1>9, OneSandbox DEF SandboxInv

(* The same for a job that only goes on to pc.                             *)
LEMMA CleanupGotoMove ==
    ASSUME Inv, NEW s \in Sandbox, NEW o \in Origin, NEW pc \in CleanupPC \ {"none"},
           NEW st \in Ended, NEW w \in {workerId[s], NoWorker},
           cleanup[s][o].pc # "none",
           status' = [status EXCEPT ![s] = st],
           status[s] \in Terminal => st = status[s],
           workerId' = [workerId EXCEPT ![s] = w],
           st \in Terminal => w = NoWorker,
           CleanupGoto(s, o, pc),
           pc = "ready" => cleanup[s][o].attempt < MaxAttempts,
           pc = "finish" => w = NoWorker,
           pc = "completed" => st \in Terminal,
           pc = "discarded" => Faults,
           UNCHANGED create
    PROVE  Inv'
<1> DEFINE job == [cleanup[s][o] EXCEPT !.pc = pc]
<1>1. cleanup[s][o] \in CleanupJob /\ cleanup[s][o].worker \in {NoWorker, create[s].worker}
    BY DEF Inv, RowTypes, SandboxInv, CleanupInv
<1>2. job \in CleanupJob /\ job.pc = pc /\ job.attempt = cleanup[s][o].attempt
      /\ job.worker = cleanup[s][o].worker
    BY <1>1, CleanupPCField
<1>3. CleanupBecomes(s, o, job)
    BY DEF CleanupGoto
<1> HIDE DEF job
<1> QED
    BY <1>1, <1>2, <1>3, CleanupMove, Zenon

(* River starts an attempt of the cleanup job.                             *)
LEMMA CleanupAttemptInv ==
    ASSUME Inv, NEW s \in Sandbox, NEW o \in Origin, WorkCleanup(s, o) \/ CleanupReadFails(s, o)
    PROVE  Inv'
<1>0. /\ cleanup[s][o] \in CleanupJob /\ cleanup[s][o].pc = "ready"
      /\ cleanup[s][o].attempt < MaxAttempts
      /\ SandboxInv(s)
    BY DEF Inv, RowTypes, SandboxInv, CleanupInv, WorkCleanup, CleanupReadFails
<1>1. status[s] \in Ended /\ (status[s] \in Terminal => workerId[s] = NoWorker)
    BY <1>0 DEF SandboxInv, CleanupInv, LinkInv
<1>2. /\ status' = [status EXCEPT ![s] = status[s]]
      /\ workerId' = [workerId EXCEPT ![s] = workerId[s]]
      /\ UNCHANGED create
    BY DEF Inv, RowTypes, WorkCleanup, CleanupReadFails
<1> DEFINE j1 == [cleanup[s][o] EXCEPT !.attempt = @ + 1]
           w == IF workerId[s] = NoWorker THEN cleanup[s][o].worker ELSE workerId[s]
           j2 == [j1 EXCEPT !.worker = w]
<1>3. j1 \in CleanupJob /\ j1.worker = cleanup[s][o].worker
    BY <1>0, CleanupAttemptField, Zenon
<1>4. w \in {NoWorker, create[s].worker} /\ w \in Worker \cup {NoWorker}
    BY <1>0 DEF Inv, RowTypes, SandboxInv, CleanupInv, LinkInv, CreateJob
<1>5. j2 \in CleanupJob /\ j2.worker = w
    BY <1>3, <1>4, CleanupWorkerField, Zenon
<1>6. CASE WorkCleanup(s, o)
  <2> DEFINE pc == IF status[s] \in Terminal THEN "completed"
                   ELSE IF workerId[s] = NoWorker THEN "finish" ELSE "call"
             job == [j2 EXCEPT !.pc = pc]
  <2>1. CleanupBecomes(s, o, job)
    BY <1>3, <1>6 DEF WorkCleanup
  <2>2. /\ pc \in CleanupPC /\ pc \in {"completed", "finish", "call"}
        /\ pc = "finish" => workerId[s] = NoWorker
        /\ pc = "completed" => status[s] \in Terminal
    BY DEF CleanupPC
  <2> HIDE DEF j2, pc, w
  <2>3. job \in CleanupJob /\ job.pc = pc /\ job.worker = w
    BY <1>5, <2>2, CleanupPCField
  <2> HIDE DEF job
  <2> QED
    BY <1>0, <1>1, <1>2, <1>4, <2>1, <2>2, <2>3, CleanupMove, Zenon
<1>7. CASE CleanupReadFails(s, o)
  <2> DEFINE pc == RiverError(j1)
             job == [j1 EXCEPT !.pc = pc]
  <2>1. CleanupBecomes(s, o, job) /\ Faults
    BY <1>7 DEF CleanupReadFails
  <2>2. pc \in CleanupPC /\ pc \in {"ready", "discarded"}
        /\ (pc = "ready" => j1.attempt < MaxAttempts)
    BY <1>3, ErrorPC, Zenon DEF CleanupPC
  <2> HIDE DEF j1, pc
  <2>3. job \in CleanupJob /\ job.pc = pc /\ job.attempt = j1.attempt /\ job.worker = j1.worker
    BY <1>3, <2>2, CleanupPCField
  <2>4. j1.worker \in {NoWorker, create[s].worker}
    BY <1>0, <1>3 DEF SandboxInv, CleanupInv
  <2> HIDE DEF job
  <2> QED
    BY <1>0, <1>1, <1>2, <2>1, <2>2, <2>3, <2>4, CleanupMove, Zenon
<1> QED
    BY <1>6, <1>7

LEMMA RemoveCallReturnsInv ==
    ASSUME Inv, NEW s \in Sandbox, NEW o \in Origin, NEW ok \in BOOLEAN,
           RemoveCallReturns(s, o, ok)
    PROVE  Inv'
<1>0. cleanup[s][o] \in CleanupJob /\ cleanup[s][o].pc = "call" /\ SandboxInv(s)
    BY DEF Inv, RowTypes, RemoveCallReturns
<1>1. /\ status[s] \in Ended /\ (status[s] \in Terminal => workerId[s] = NoWorker)
      /\ cleanup[s][o].worker \in {NoWorker, create[s].worker}
    BY <1>0 DEF SandboxInv, CleanupInv, LinkInv
<1>2. /\ status' = [status EXCEPT ![s] = status[s]]
      /\ workerId' = [workerId EXCEPT ![s] = workerId[s]]
      /\ UNCHANGED create
    BY DEF Inv, RowTypes, RemoveCallReturns
<1>3. CASE \E r \in {"confirmed", "gave_up"} :
             CleanupBecomes(s, o, [cleanup[s][o] EXCEPT !.pc = "clear", !.removal = r])
  <2>1. PICK r \in {"confirmed", "gave_up"} :
             CleanupBecomes(s, o, [cleanup[s][o] EXCEPT !.pc = "clear", !.removal = r])
    BY <1>3, Zenon
  <2> DEFINE j1 == [cleanup[s][o] EXCEPT !.pc = "clear"]
             job == [j1 EXCEPT !.removal = r]
  <2>2. CleanupBecomes(s, o, job)
    BY <2>1
  <2>3. j1 \in CleanupJob /\ j1.pc = "clear" /\ j1.worker = cleanup[s][o].worker
    BY <1>0, CleanupPCField, Zenon DEF CleanupPC
  <2> HIDE DEF j1
  <2>4. job \in CleanupJob /\ job.pc = "clear" /\ job.worker = cleanup[s][o].worker
    BY <2>3, CleanupRemovalField, Zenon
  <2> HIDE DEF job
  <2> QED
    BY <1>0, <1>1, <1>2, <2>2, <2>3, <2>4, CleanupMove, Zenon
<1>4. CASE cleanup[s][o].attempt < MaxAttempts /\ CleanupGoto(s, o, "ready")
    BY <1>0, <1>1, <1>2, <1>4, CleanupGotoMove, Zenon DEF CleanupPC
<1> QED
    BY <1>3, <1>4 DEF RemoveCallReturns

(* The link is cleared while the row is claimed; a row that ended has none *)
LEMMA ClearWorkerInv ==
    ASSUME Inv, NEW s \in Sandbox, NEW o \in Origin, ClearWorker(s, o)
    PROVE  Inv'
<1>0. cleanup[s][o] \in CleanupJob /\ cleanup[s][o].pc = "clear" /\ SandboxInv(s)
      /\ UNCHANGED create
    BY DEF Inv, RowTypes, ClearWorker
<1>1. status[s] \in Ended /\ (status[s] \in Terminal => workerId[s] = NoWorker)
    BY <1>0 DEF SandboxInv, CleanupInv, LinkInv
<1>2. /\ status' = [status EXCEPT ![s] = status[s]]
      /\ workerId' = [workerId EXCEPT ![s] = NoWorker]
    BY <1>1, Zenon DEF Inv, RowTypes, ClearWorker, Ended
<1>3. PICK pc \in Replies("finish", RiverError(cleanup[s][o])) : CleanupGoto(s, o, pc)
    BY DEF ClearWorker
<1>4. /\ pc \in CleanupPC \ {"none"} /\ pc # "completed"
      /\ pc = "ready" => cleanup[s][o].attempt < MaxAttempts
      /\ pc = "discarded" => Faults
    BY <1>0, <1>3, ErrorPC DEF Replies, CleanupPC
<1> QED
    BY <1>0, <1>1, <1>2, <1>3, <1>4, CleanupGotoMove, Zenon

LEMMA FinishCleanupInv ==
    ASSUME Inv, NEW s \in Sandbox, NEW o \in Origin, FinishCleanup(s, o)
    PROVE  Inv'
<1>0. cleanup[s][o] \in CleanupJob /\ cleanup[s][o].pc = "finish" /\ SandboxInv(s)
      /\ UNCHANGED create
    BY DEF Inv, RowTypes, FinishCleanup
<1>1. status[s] \in Ended /\ workerId[s] = NoWorker
    BY <1>0 DEF SandboxInv, CleanupInv
<1> DEFINE to == IF cleanup[s][o].removal = "gave_up" THEN "failed" ELSE cleanup[s][o].target
           st == IF status[s] = "cleanup_pending" THEN to ELSE status[s]
<1>2. to \in Terminal
    BY <1>0 DEF CleanupJob, Terminal
<1>3. st \in Terminal /\ (status[s] \in Terminal => st = status[s])
    BY <1>1, <1>2 DEF Ended, Terminal
<1>4. /\ status' = [status EXCEPT ![s] = st]
      /\ workerId' = [workerId EXCEPT ![s] = NoWorker]
    BY <1>1, Zenon DEF Inv, RowTypes, FinishCleanup, UpdateStatus, Ended, Terminal, Active, OnWorker
<1>5. PICK pc \in Replies("completed", RiverError(cleanup[s][o])) : CleanupGoto(s, o, pc)
    BY DEF FinishCleanup
<1>6. /\ pc \in CleanupPC \ {"none"}
      /\ pc = "ready" => cleanup[s][o].attempt < MaxAttempts
      /\ pc = "discarded" => Faults
    BY <1>0, <1>5, ErrorPC DEF Replies, CleanupPC
<1> HIDE DEF st
<1> QED
    BY <1>0, <1>3, <1>4, <1>5, <1>6, CleanupGotoMove, Zenon DEF Ended

LEMMA CleanupFailsInv ==
    ASSUME Inv, NEW s \in Sandbox, NEW o \in Origin, CleanupFails(s, o)
    PROVE  Inv'
<1>0. cleanup[s][o] \in CleanupJob /\ cleanup[s][o].pc # "none" /\ SandboxInv(s)
      /\ UNCHANGED create /\ Faults
    BY DEF Inv, RowTypes, CleanupFails, CleanupRunning
<1>1. status[s] \in Ended /\ (status[s] \in Terminal => workerId[s] = NoWorker)
    BY <1>0 DEF SandboxInv, CleanupInv, LinkInv
<1>2. /\ status' = [status EXCEPT ![s] = status[s]]
      /\ workerId' = [workerId EXCEPT ![s] = workerId[s]]
    BY DEF Inv, RowTypes, CleanupFails
<1> DEFINE pc == RiverError(cleanup[s][o])
<1>3. CleanupGoto(s, o, pc)
    BY DEF CleanupFails
<1>4. /\ pc \in CleanupPC \ {"none"} /\ pc \notin {"completed", "finish"}
      /\ pc = "ready" => cleanup[s][o].attempt < MaxAttempts
    BY <1>0, ErrorPC DEF CleanupPC
<1> HIDE DEF pc
<1> QED
    BY <1>0, <1>1, <1>2, <1>3, <1>4, CleanupGotoMove, Zenon

-----------------------------------------------------------------------------
(* The invariant.                                                          *)

LEMMA InvNext == Inv /\ [RowNext]_rows => Inv'
<1> SUFFICES ASSUME Inv, [RowNext]_rows PROVE Inv'
    OBVIOUS
<1>1. CASE UNCHANGED rows
    BY <1>1 DEF rows, Inv, RowTypes, SandboxInv, CreateInv, LinkInv, CleanupInv, ClaimInv
<1>2. CASE Reap
    BY <1>2, ReapSandboxesInv DEF Reap
<1>3. CASE Reconcile
    BY <1>3, ReconcileInventoryInv DEF Reconcile
<1>4. ASSUME NEW s \in Sandbox,
             \/ CreateSandbox(s)
             \/ DeleteSandbox(s)
             \/ CreateFails(s)
             \/ CreateReadFails(s)
             \/ IngestSandboxEvent(s)
      PROVE  Inv'
    BY <1>4, CreateSandboxInv, DeleteSandboxInv, CreateReadsInv, CreateAttemptInv,
       IngestSandboxEventInv
<1>5. ASSUME NEW s \in Sandbox, CreateStep(s) PROVE Inv'
    BY <1>5, CreateAttemptInv, StepSchedulingInv, BuildCandidatesInv, CreateReadsInv,
       AssignWorkerInv, StepStartingInv, StepAcknowledgeInv, GiveUpInv DEF CreateStep
<1>6. ASSUME NEW s \in Sandbox, NEW o \in Origin,
             CleanupStep(s, o) \/ CleanupFails(s, o) \/ CleanupReadFails(s, o)
      PROVE  Inv'
    BY <1>6, CleanupAttemptInv, RemoveCallReturnsInv, ClearWorkerInv, FinishCleanupInv,
       CleanupFailsInv DEF CleanupStep
<1> QED
    BY <1>1, <1>2, <1>3, <1>4, <1>5, <1>6 DEF RowNext, SandboxStep

LEMMA Invariant == Spec => []Inv
BY InvInit, InvNext, RowsMove, PTL DEF Spec

LEMMA TypeNext == Inv' /\ TypeOK /\ [Next]_vars => TypeOK'
BY DEF Inv, RowTypes, TypeOK, Next, WorkerReports, UpdateWorker, ReportWorkerHeartbeat,
   SetCapacity, vars

(* Rows and jobs keep their types: in particular no job ever counts more   *)
(* attempts than MaxAttempts.                                              *)
THEOREM TypeCorrect == Spec => []TypeOK
<1>1. Init => TypeOK
    BY InvInit DEF Init, Inv, RowTypes, TypeOK
<1> QED
    BY <1>1, TypeNext, Invariant, PTL DEF Spec

(* worker_id follows the status, whichever jobs, handlers, reapers and     *)
(* failures interleave (AssignWorker, ClearWorker, UpdateStatus).          *)
THEOREM LinkCorrect == Spec => []LinkMatchesStatus
<1>1. Inv => LinkMatchesStatus
    BY DEF Inv, SandboxInv, LinkInv, LinkMatchesStatus
<1> QED
    BY <1>1, Invariant, PTL

(* A cleanup job only ever exists for a sandbox out of use.                *)
THEOREM CleanupClaimed == Spec => []CleanupOnlyClaimed
<1>1. Inv => CleanupOnlyClaimed
    BY DEF Inv, SandboxInv, CleanupInv, CleanupOnlyClaimed
<1> QED
    BY <1>1, Invariant, PTL

(* While the database answers and the orchestrator does not die, a claimed *)
(* sandbox has a cleanup job that will still run.                          *)
THEOREM NotStranded == ASSUME ~Faults PROVE Spec => []NeverStranded
<1>1. Inv => NeverStranded
  <2> SUFFICES ASSUME Inv, NEW s \in Sandbox, status[s] = "cleanup_pending"
               PROVE  \E o \in Origin : cleanup[s][o].pc \in {"ready"} \cup CleanupRunning
    BY DEF NeverStranded
  <2>1. PICK o \in Origin : cleanup[s][o].pc # "none"
    BY DEF Inv, SandboxInv, ClaimInv
  <2>2. cleanup[s][o].pc \in CleanupPC
    BY DEF Inv, RowTypes, CleanupJob
  <2>3. cleanup[s][o].pc \notin {"completed", "discarded"}
    BY DEF Inv, SandboxInv, CleanupInv, Terminal
  <2> QED
    BY <2>1, <2>2, <2>3 DEF CleanupPC, CleanupRunning
<1> QED
    BY <1>1, Invariant, PTL

-----------------------------------------------------------------------------
(* Capacity.                                                               *)

Linked(w) == {s \in Sandbox : workerId[s] = w}

(* The rows the database counts on a worker are those linked to it.        *)
LEMMA CountedIsLinked == Inv => \A w \in Worker : Counted(w) = Linked(w)
<1> SUFFICES ASSUME Inv, NEW w \in Worker PROVE Counted(w) = Linked(w)
    OBVIOUS
<1>1. \A s \in Sandbox : workerId[s] = w => status[s] \in OnWorker \cup {"cleanup_pending"}
    BY ConstantsAssumption
       DEF Inv, RowTypes, SandboxInv, LinkInv, Status, Active, OnWorker, Ended, Terminal
<1> QED
    BY <1>1 DEF Linked, Counted

(* Only AssignWorker links a row to a worker, one that has room.           *)
LEMMA LinkStep ==
    ASSUME Inv, [RowNext]_rows
    PROVE  \/ \A s \in Sandbox : workerId'[s] \in {workerId[s], NoWorker}
           \/ \E s \in Sandbox, w \in Worker :
                  HasRoom(w) /\ workerId' = [workerId EXCEPT ![s] = w]
<1>1. CASE UNCHANGED workerId
    BY <1>1
<1>2. ASSUME NEW s \in Sandbox, NEW w \in Worker, AssignWorker(s, w)
      PROVE  UNCHANGED workerId \/ (HasRoom(w) /\ workerId' = [workerId EXCEPT ![s] = w])
    BY <1>2, Zenon DEF AssignWorker
<1>3. ASSUME NEW s \in Sandbox, NEW o \in Origin, ClearWorker(s, o)
      PROVE  \A t \in Sandbox : workerId'[t] \in {workerId[t], NoWorker}
    BY <1>3 DEF ClearWorker, Inv, RowTypes
<1>4. ASSUME NEW s \in Sandbox, CreateStep(s)
      PROVE  UNCHANGED workerId \/ \E w \in Worker : AssignWorker(s, w)
    BY <1>4, Zenon DEF CreateStep, WorkCreate, StepScheduling, BuildCandidates, NoWorkerChosen,
       CreateCallReturns, StepStarting, ReadAcknowledge, StepAcknowledge, MovedUnder, GiveUp
<1>5. ASSUME NEW s \in Sandbox, NEW o \in Origin, CleanupStep(s, o)
      PROVE  UNCHANGED workerId \/ ClearWorker(s, o)
    BY <1>5 DEF CleanupStep, WorkCleanup, RemoveCallReturns, FinishCleanup
<1>6. ASSUME \/ UNCHANGED rows
             \/ \E s \in Sandbox : \/ CreateSandbox(s) \/ DeleteSandbox(s) \/ CreateFails(s)
                                   \/ CreateReadFails(s) \/ IngestSandboxEvent(s)
                                   \/ \E o \in Origin : CleanupFails(s, o) \/ CleanupReadFails(s, o)
             \/ Reap \/ Reconcile
      PROVE  UNCHANGED workerId
    BY <1>6, Zenon DEF rows, CreateSandbox, DeleteSandbox, CreateFails, CreateReadFails,
       IngestSandboxEvent, CleanupFails, CleanupReadFails, Reap, ReapSandboxes,
       Reconcile, ReconcileInventory
<1> QED
    BY <1>1, <1>2, <1>3, <1>4, <1>5, <1>6 DEF RowNext, SandboxStep

(* A worker's report leaves every link.                                    *)
LEMMA ReportStep == [Next]_vars => UNCHANGED capacity \/ UNCHANGED workerId
BY DEF Next, WorkerReports, UpdateWorker, ReportWorkerHeartbeat, ReconcileInventory, vars, rows

Placed(w) == ~(Counted(w)' \subseteq Counted(w)) => Cardinality(Counted(w)') <= capacity'[w]

LEMMA CapacityNext ==
    ASSUME Inv, TypeOK, [Next]_vars, NEW v \in Worker
    PROVE  Placed(v)
<1> SUFFICES ASSUME ~(Counted(v)' \subseteq Counted(v))
             PROVE  Cardinality(Counted(v)') <= capacity'[v]
    BY DEF Placed
<1>1. Counted(v) = Linked(v) /\ Counted(v)' = Linked(v)'
  <2>1. (\A w \in Worker : Counted(w) = Linked(w))'
    BY RowsMove, InvNext, CountedIsLinked, PTL
  <2> QED
    BY <2>1, CountedIsLinked
<1>2. PICK s \in Sandbox, w \in Worker :
          HasRoom(w) /\ workerId' = [workerId EXCEPT ![s] = w]
  <2>1. ~\A s \in Sandbox : workerId'[s] \in {workerId[s], NoWorker}
    BY <1>1, ConstantsAssumption DEF Linked
  <2> QED
    BY <2>1, RowsMove, LinkStep
<1>3. w = v /\ Linked(v)' \subseteq Linked(v) \cup {s}
    BY <1>1, <1>2 DEF Linked, Inv, RowTypes
<1>4. UNCHANGED capacity
    BY <1>1, ReportStep DEF Linked
<1>5. IsFiniteSet(Linked(v)) /\ Cardinality(Linked(v)) \in Nat
    BY ConstantsAssumption, FS_Subset, FS_CardinalityType DEF Linked
<1>6. Cardinality(Linked(v)) < capacity[v] /\ capacity[v] \in Nat
    BY <1>1, <1>2, <1>3, ConstantsAssumption DEF HasRoom, Occupancy, TypeOK
<1>7. /\ IsFiniteSet(Linked(v) \cup {s})
      /\ Cardinality(Linked(v) \cup {s}) =
             IF s \in Linked(v) THEN Cardinality(Linked(v)) ELSE Cardinality(Linked(v)) + 1
    BY <1>5, FS_AddElement, Zenon
<1>8. Cardinality(Linked(v)') <= Cardinality(Linked(v) \cup {s}) /\ Cardinality(Linked(v)') \in Nat
    BY <1>3, <1>7, FS_Subset, FS_CardinalityType
<1> QED
    BY <1>1, <1>4, <1>5, <1>6, <1>7, <1>8

(* The count AssignWorker takes under the worker's lock is authoritative:  *)
(* no row is placed on a worker beyond the capacity it reported last,      *)
(* whatever it reported before.                                            *)
THEOREM CapacityRespected == Spec => AssignedWithinCapacity
<1>1. Inv /\ TypeOK /\ [Next]_vars =>
          [\A w \in Worker :
               ~(Counted(w)' \subseteq Counted(w)) => Cardinality(Counted(w)') <= capacity'[w]]_vars
    BY CapacityNext DEF Placed
<1> QED
    BY <1>1, Invariant, TypeCorrect, PTL DEF Spec, AssignedWithinCapacity

-----------------------------------------------------------------------------
(* What a step does to the status of a row.                                *)

Moves == {<<"absent", "pending">>, <<"scheduling", "assigned">>} \cup Forward
         \cup (Active \X {"cleanup_pending"}) \cup ({"cleanup_pending"} \X Terminal)

StatusMoves == \A s \in Sandbox : status'[s] = status[s] \/ <<status[s], status'[s]>> \in Moves

LEMMA RankMoves == \A m \in Moves : Rank[m[1]] < Rank[m[2]]
<1>1. /\ Rank["absent"] = 0 /\ Rank["pending"] = 1 /\ Rank["scheduling"] = 2
      /\ Rank["assigned"] = 3 /\ Rank["starting"] = 4 /\ Rank["running"] = 5
      /\ Rank["cleanup_pending"] = 6
      /\ \A st \in Terminal : Rank[st] = 7
    BY DEF Rank, Status, Active, OnWorker, Ended, Terminal
<1>2. \A st \in Active : Rank[st] < 6
    BY <1>1 DEF Active, OnWorker
<1> QED
    BY <1>1, <1>2 DEF Moves, Forward

LEMMA UpdateMoves ==
    ASSUME Inv, NEW s \in Sandbox, NEW to, NEW from, UpdateStatus(s, to, from),
           status[s] \in from => status[s] = to \/ <<status[s], to>> \in Moves
    PROVE  StatusMoves
BY Zenon DEF Inv, RowTypes, UpdateStatus, StatusMoves

LEMMA CreateStepMoves ==
    ASSUME Inv, NEW s \in Sandbox, CreateStep(s)
    PROVE  StatusMoves
<1>1. CASE UNCHANGED status
    BY <1>1 DEF StatusMoves
<1>2. CASE StepScheduling(s)
    BY <1>2, UpdateMoves, Zenon DEF StepScheduling, Moves, Forward
<1>3. CASE StepStarting(s)
    BY <1>3, UpdateMoves, Zenon DEF StepStarting, Moves, Forward
<1>4. CASE StepAcknowledge(s)
    BY <1>4, UpdateMoves, Zenon DEF StepAcknowledge, Moves, Forward
<1>5. CASE GiveUp(s)
    BY <1>5, UpdateMoves, Zenon DEF GiveUp, Moves
<1>6. ASSUME NEW w \in Worker, AssignWorker(s, w) PROVE StatusMoves
    BY <1>6, Zenon DEF AssignWorker, StatusMoves, Moves, Inv, RowTypes
<1> QED
    BY <1>1, <1>2, <1>3, <1>4, <1>5, <1>6, Zenon
       DEF CreateStep, WorkCreate, BuildCandidates, NoWorkerChosen, CreateCallReturns,
           ReadAcknowledge, MovedUnder

LEMMA CleanupStepMoves ==
    ASSUME Inv, NEW s \in Sandbox, NEW o \in Origin, CleanupStep(s, o)
    PROVE  StatusMoves
<1>1. CASE UNCHANGED status
    BY <1>1 DEF StatusMoves
<1>2. CASE FinishCleanup(s, o)
  <2>1. cleanup[s][o].pc = "finish" /\ cleanup[s][o] \in CleanupJob
    BY <1>2 DEF FinishCleanup, Inv, RowTypes
  <2>2. status[s] \in Ended
    BY <2>1 DEF Inv, SandboxInv, CleanupInv
  <2> DEFINE to == IF cleanup[s][o].removal = "gave_up" THEN "failed" ELSE cleanup[s][o].target
  <2>3. to \in Terminal
    BY <2>1 DEF CleanupJob, Terminal
  <2>4. UpdateStatus(s, to, Active \cup {"cleanup_pending"})
    BY <1>2 DEF FinishCleanup
  <2>5. status[s] \in Active \cup {"cleanup_pending"} => <<status[s], to>> \in Moves
    BY <2>2, <2>3 DEF Ended, Active, OnWorker, Terminal, Moves
  <2> HIDE DEF to
  <2> QED
    BY <2>4, <2>5, UpdateMoves
<1> QED
    BY <1>1, <1>2 DEF CleanupStep, WorkCleanup, RemoveCallReturns, ClearWorker

LEMMA StatusStep ==
    ASSUME Inv, [RowNext]_rows
    PROVE  StatusMoves
<1>1. CASE UNCHANGED status
    BY <1>1 DEF StatusMoves
<1>2. ASSUME NEW s \in Sandbox, CreateSandbox(s) PROVE StatusMoves
    BY <1>2 DEF CreateSandbox, StatusMoves, Moves, Inv, RowTypes
<1>3. ASSUME NEW s \in Sandbox, DeleteSandbox(s) PROVE StatusMoves
    BY <1>3, UpdateMoves, Zenon DEF DeleteSandbox, Moves
<1>4. ASSUME NEW s \in Sandbox, IngestSandboxEvent(s) PROVE StatusMoves
    BY <1>4, UpdateMoves, Zenon DEF IngestSandboxEvent, Moves, Forward
<1>5. CASE Reap
    BY <1>5 DEF Reap, ReapSandboxes, Claimed, StatusMoves, Moves, Active
<1>6. CASE Reconcile
    BY <1>6 DEF Reconcile, ReconcileInventory, StatusMoves, Moves, Forward, Active
<1>7. ASSUME NEW s \in Sandbox,
             \/ CreateFails(s) \/ CreateReadFails(s)
             \/ \E o \in Origin : CleanupFails(s, o) \/ CleanupReadFails(s, o)
      PROVE  UNCHANGED status
    BY <1>7, Zenon DEF CreateFails, CreateReadFails, CleanupFails, CleanupReadFails
<1>8. CASE UNCHANGED rows
    BY <1>1, <1>8 DEF rows
<1> QED
    BY <1>1, <1>2, <1>3, <1>4, <1>5, <1>6, <1>7, <1>8, CreateStepMoves, CleanupStepMoves DEF RowNext, SandboxStep

(* "A retried or duplicated job cannot move a sandbox backwards", and a    *)
(* terminal status stays.                                                  *)
THEOREM Forwards == Spec => NeverBackwards
<1>1. Inv /\ [RowNext]_rows =>
          [\A s \in Sandbox : \/ status'[s] = status[s]
                              \/ Rank[status[s]] < Rank[status'[s]]]_vars
  <2> SUFFICES ASSUME Inv, [RowNext]_rows, NEW s \in Sandbox
               PROVE  status'[s] = status[s] \/ Rank[status[s]] < Rank[status'[s]]
    OBVIOUS
  <2>1. status'[s] = status[s] \/ <<status[s], status'[s]>> \in Moves
    BY StatusStep DEF StatusMoves
  <2> QED
    BY <2>1, RankMoves
<1> QED
    BY <1>1, Invariant, RowsMove, PTL DEF Spec, NeverBackwards

-----------------------------------------------------------------------------
(* What a step does to the cleanup jobs.                                   *)

AttemptsGrow ==
    \A s \in Sandbox, o \in Origin : cleanup[s][o].attempt <= cleanup'[s][o].attempt

LEMMA SameCleanup ==
    ASSUME Inv, UNCHANGED cleanup
    PROVE  AttemptsGrow
BY ConstantsAssumption DEF Inv, RowTypes, CleanupJob, AttemptsGrow

(* A job is inserted where there was none, or goes on from where it was.   *)
LEMMA CleanupBecomesGrows ==
    ASSUME Inv, NEW s \in Sandbox, NEW o \in Origin, NEW job \in CleanupJob,
           CleanupBecomes(s, o, job), cleanup[s][o].attempt <= job.attempt
    PROVE  AttemptsGrow
<1>1. /\ cleanup'[s][o] = job
      /\ \A q \in Origin \ {o} : cleanup'[s][q] = cleanup[s][q]
      /\ \A t \in Sandbox \ {s} : cleanup'[t] = cleanup[t]
    BY CleanupBecomesFacts DEF Inv
<1>2. \A t \in Sandbox, q \in Origin : cleanup[t][q].attempt <= cleanup[t][q].attempt
    BY ConstantsAssumption DEF Inv, RowTypes, CleanupJob
<1> QED
    BY <1>1, <1>2 DEF AttemptsGrow

LEMMA CleanupGotoGrows ==
    ASSUME Inv, NEW s \in Sandbox, NEW o \in Origin, NEW pc \in CleanupPC, CleanupGoto(s, o, pc)
    PROVE  AttemptsGrow
<1> DEFINE job == [cleanup[s][o] EXCEPT !.pc = pc]
<1>1. cleanup[s][o] \in CleanupJob
    BY DEF Inv, RowTypes
<1>2. job \in CleanupJob /\ job.attempt = cleanup[s][o].attempt
    BY <1>1, CleanupPCField
<1>3. CleanupBecomes(s, o, job)
    BY DEF CleanupGoto
<1>4. cleanup[s][o].attempt <= job.attempt
    BY <1>1, <1>2, ConstantsAssumption DEF CleanupJob
<1> HIDE DEF job
<1> QED
    BY <1>2, <1>3, <1>4, CleanupBecomesGrows

(* An active row has no cleanup job to overwrite.                          *)
LEMMA ActiveHasNone ==
    ASSUME Inv, NEW s \in Sandbox, status[s] \in Active
    PROVE  \A o \in Origin : cleanup[s][o].attempt = 0
BY DEF Inv, SandboxInv, CleanupInv, Active, OnWorker, Ended, Terminal

LEMMA EnqueueGrows ==
    ASSUME Inv, NEW s \in Sandbox, DeleteSandbox(s) \/ GiveUp(s)
    PROVE  AttemptsGrow
<1>1. CASE DeleteSandbox(s)
    BY <1>1, ActiveHasNone, EnqueuedFields, CleanupBecomesGrows DEF DeleteSandbox, Origin
<1>2. CASE GiveUp(s)
  <2>1. cleanup[s]["give_up"].attempt = 0
    BY <1>2 DEF GiveUp, Inv, SandboxInv, ClaimInv, CleanupInv, Origin
  <2> QED
    BY <1>2, <2>1, EnqueuedFields, CleanupBecomesGrows DEF GiveUp, Origin
<1> QED
    BY <1>1, <1>2

(* Claims of several rows at once.                                         *)
LEMMA ClaimsGrow ==
    ASSUME Inv, NEW claimed \in SUBSET Sandbox,
           \A s \in claimed : status[s] \in Active,
           \A s \in claimed : \E target \in {"failed", "stopped"} :
               cleanup'[s] = [cleanup[s] EXCEPT !["claim"] = Enqueued(target)],
           \A s \in Sandbox \ claimed : cleanup'[s] = cleanup[s]
    PROVE  AttemptsGrow
<1>1. \A t \in Sandbox, q \in Origin : cleanup[t][q].attempt <= cleanup[t][q].attempt
    BY ConstantsAssumption DEF Inv, RowTypes, CleanupJob
<1>2. ASSUME NEW s \in claimed, NEW o \in Origin
      PROVE  cleanup[s][o].attempt <= cleanup'[s][o].attempt
  <2>1. PICK target \in {"failed", "stopped"} :
            cleanup'[s] = [cleanup[s] EXCEPT !["claim"] = Enqueued(target)]
    BY <1>2
  <2>2. cleanup[s] \in [Origin -> CleanupJob] /\ cleanup[s][o].attempt = 0
    BY ActiveHasNone DEF Inv, RowTypes
  <2>3. Enqueued(target).attempt = 0
    BY EnqueuedFields
  <2> HIDE DEF Enqueued
  <2>4. CASE o = "claim"
    BY <2>1, <2>2, <2>3, <2>4
  <2>5. CASE o # "claim"
    BY <1>1, <2>1, <2>2, <2>5
  <2> QED
    BY <2>4, <2>5
<1> QED
    BY <1>1, <1>2 DEF AttemptsGrow

LEMMA AttemptGrows ==
    ASSUME Inv, NEW s \in Sandbox, NEW o \in Origin, WorkCleanup(s, o) \/ CleanupReadFails(s, o)
    PROVE  AttemptsGrow
<1>1. cleanup[s][o] \in CleanupJob /\ cleanup[s][o].attempt < MaxAttempts
    BY DEF Inv, RowTypes, SandboxInv, CleanupInv, WorkCleanup, CleanupReadFails
<1> DEFINE j1 == [cleanup[s][o] EXCEPT !.attempt = @ + 1]
           w == IF workerId[s] = NoWorker THEN cleanup[s][o].worker ELSE workerId[s]
           j2 == [j1 EXCEPT !.worker = w]
<1>2. j1 \in CleanupJob /\ j1.attempt = cleanup[s][o].attempt + 1
      /\ j1.worker = cleanup[s][o].worker
    BY <1>1, CleanupAttemptField, Zenon
<1>3. cleanup[s][o].attempt <= j1.attempt
  <2>1. cleanup[s][o].attempt \in Nat
    BY <1>1, ConstantsAssumption DEF CleanupJob
  <2> HIDE DEF j1
  <2> QED
    BY <1>2, <2>1
<1>4. CASE WorkCleanup(s, o)
  <2> DEFINE pc == IF status[s] \in Terminal THEN "completed"
                   ELSE IF workerId[s] = NoWorker THEN "finish" ELSE "call"
             job == [j2 EXCEPT !.pc = pc]
  <2>1. CleanupBecomes(s, o, job)
    BY <1>2, <1>4 DEF WorkCleanup
  <2>2. pc \in CleanupPC
    BY DEF CleanupPC
  <2>3. w \in Worker \cup {NoWorker}
    BY <1>1 DEF Inv, RowTypes, CleanupJob
  <2> HIDE DEF j1, pc, w
  <2>4. j2 \in CleanupJob /\ j2.attempt = j1.attempt
    BY <1>2, <2>3, CleanupWorkerField
  <2> HIDE DEF j2
  <2>5. job \in CleanupJob /\ job.attempt = j1.attempt
    BY <2>2, <2>4, CleanupPCField
  <2> HIDE DEF job
  <2> QED
    BY <1>3, <2>1, <2>5, CleanupBecomesGrows
<1>5. CASE CleanupReadFails(s, o)
  <2> DEFINE pc == RiverError(j1)
             job == [j1 EXCEPT !.pc = pc]
  <2>1. CleanupBecomes(s, o, job)
    BY <1>5 DEF CleanupReadFails
  <2>2. pc \in CleanupPC
    BY <1>2, ErrorPC DEF CleanupPC
  <2> HIDE DEF j1, pc
  <2>3. job \in CleanupJob /\ job.attempt = j1.attempt
    BY <1>2, <2>2, CleanupPCField
  <2> HIDE DEF job
  <2> QED
    BY <1>3, <2>1, <2>3, CleanupBecomesGrows
<1> QED
    BY <1>4, <1>5

LEMMA RemoveCallGrows ==
    ASSUME Inv, NEW s \in Sandbox, NEW o \in Origin, NEW ok \in BOOLEAN,
           RemoveCallReturns(s, o, ok)
    PROVE  AttemptsGrow
<1>1. cleanup[s][o] \in CleanupJob
    BY DEF Inv, RowTypes
<1>2. CASE CleanupGoto(s, o, "ready")
    BY <1>2, CleanupGotoGrows DEF CleanupPC
<1>3. ASSUME NEW r \in {"confirmed", "gave_up"},
             CleanupBecomes(s, o, [cleanup[s][o] EXCEPT !.pc = "clear", !.removal = r])
      PROVE  AttemptsGrow
  <2> DEFINE j1 == [cleanup[s][o] EXCEPT !.pc = "clear"]
             job == [j1 EXCEPT !.removal = r]
  <2>1. CleanupBecomes(s, o, job)
    BY <1>3
  <2>2. j1 \in CleanupJob /\ j1.attempt = cleanup[s][o].attempt
    BY <1>1, CleanupPCField, Zenon DEF CleanupPC
  <2> HIDE DEF j1
  <2>3. job \in CleanupJob /\ job.attempt = cleanup[s][o].attempt
    BY <2>2, CleanupRemovalField, Zenon
  <2>4. cleanup[s][o].attempt <= cleanup[s][o].attempt
    BY <1>1, ConstantsAssumption DEF CleanupJob
  <2> HIDE DEF job
  <2> QED
    BY <2>1, <2>3, <2>4, CleanupBecomesGrows
<1> QED
    BY <1>2, <1>3 DEF RemoveCallReturns

LEMMA CleanupJobsStep ==
    ASSUME Inv, [RowNext]_rows
    PROVE  AttemptsGrow
<1>1. CASE UNCHANGED cleanup
    BY <1>1, SameCleanup
<1>2. ASSUME NEW s \in Sandbox, CreateStep(s) PROVE UNCHANGED cleanup \/ GiveUp(s)
    BY <1>2, Zenon DEF CreateStep, WorkCreate, StepScheduling, BuildCandidates, NoWorkerChosen,
       AssignWorker, CreateCallReturns, StepStarting, ReadAcknowledge, StepAcknowledge, MovedUnder
<1>3. ASSUME NEW s \in Sandbox,
             CreateSandbox(s) \/ CreateFails(s) \/ CreateReadFails(s) \/ IngestSandboxEvent(s)
      PROVE  UNCHANGED cleanup
    BY <1>3 DEF CreateSandbox, CreateFails, CreateReadFails, IngestSandboxEvent
<1>4. ASSUME NEW s \in Sandbox, NEW o \in Origin,
             ClearWorker(s, o) \/ FinishCleanup(s, o) \/ CleanupFails(s, o)
      PROVE  AttemptsGrow
  <2>1. cleanup[s][o] \in CleanupJob
    BY DEF Inv, RowTypes
  <2>2. \E pc \in {"finish", "completed", RiverError(cleanup[s][o])} : CleanupGoto(s, o, pc)
    BY <1>4 DEF ClearWorker, FinishCleanup, CleanupFails, Replies
  <2> QED
    BY <2>1, <2>2, ErrorPC, CleanupGotoGrows DEF CleanupPC
<1>5. ASSUME NEW s \in Sandbox, NEW o \in Origin,
             CleanupStep(s, o) \/ CleanupFails(s, o) \/ CleanupReadFails(s, o)
      PROVE  AttemptsGrow
    BY <1>4, <1>5, AttemptGrows, RemoveCallGrows DEF CleanupStep
<1>6. CASE Reap
  <2>1. PICK expired \in SUBSET Sandbox, dead \in SUBSET Sandbox, stalled \in SUBSET Sandbox :
            ReapSandboxes(expired, dead, stalled)
    BY <1>6 DEF Reap
  <2> DEFINE claimed == expired \cup dead \cup stalled
  <2>2. \A s \in claimed : status[s] \in Active
    BY <2>1 DEF ReapSandboxes, Active
  <2>3. Claimed(expired, dead \cup stalled)
    BY <2>1 DEF ReapSandboxes
  <2>4. \A s \in claimed : \E target \in {"failed", "stopped"} :
            cleanup'[s] = [cleanup[s] EXCEPT !["claim"] = Enqueued(target)]
    BY <2>3 DEF Claimed
  <2>5. \A s \in Sandbox \ claimed : cleanup'[s] = cleanup[s]
    BY <2>3 DEF Claimed
  <2> HIDE DEF claimed
  <2> QED
    <3>1. claimed \in SUBSET Sandbox
      BY DEF claimed
    <3> QED
      BY <2>2, <2>4, <2>5, <3>1, ClaimsGrow
<1>7. CASE Reconcile
  <2>1. PICK w \in Worker, gone \in SUBSET Sandbox, up \in SUBSET Sandbox :
            ReconcileInventory(w, gone, up)
    BY <1>7 DEF Reconcile
  <2>2. \A s \in gone : status[s] \in Active
    BY <2>1 DEF ReconcileInventory, Active
  <2>3. /\ \A s \in gone : cleanup'[s] = [cleanup[s] EXCEPT !["claim"] = Enqueued("failed")]
        /\ \A s \in Sandbox \ gone : cleanup'[s] = cleanup[s]
    BY <2>1 DEF ReconcileInventory
  <2> QED
    BY <2>2, <2>3, ClaimsGrow
<1>8. CASE UNCHANGED rows
    BY <1>1, <1>8 DEF rows
<1> QED
    BY <1>1, <1>2, <1>3, <1>5, <1>6, <1>7, <1>8, EnqueueGrows DEF RowNext, SandboxStep

(* A sandbox is claimed once and given up once: no cleanup job is inserted *)
(* over an earlier one, with or without faults.                            *)
THEOREM CleanupOnce == Spec => EnqueuedOnce
<1>1. Inv /\ [RowNext]_rows =>
          [\A s \in Sandbox, o \in Origin :
               cleanup[s][o].attempt <= cleanup'[s][o].attempt]_vars
    BY CleanupJobsStep DEF AttemptsGrow
<1> QED
    BY <1>1, Invariant, RowsMove, PTL DEF Spec, EnqueuedOnce

-----------------------------------------------------------------------------
(* What the waiting POST is told.                                          *)

CompletedRunning ==
    \A s \in Sandbox : create'[s].pc = "completed" /\ create[s].pc # "completed"
                           => status'[s] = "running"

LEMMA BecomesCompleted ==
    ASSUME Inv, NEW s \in Sandbox, NEW job \in CreateJob, CreateBecomes(s, job),
           job.pc = "completed" => status'[s] = "running"
    PROVE  CompletedRunning
BY CreateBecomesFacts DEF Inv, CompletedRunning

LEMMA GotoCompleted ==
    ASSUME Inv, NEW s \in Sandbox, NEW pc \in CreatePC, CreateGoto(s, pc),
           pc = "completed" => status'[s] = "running"
    PROVE  CompletedRunning
<1> DEFINE job == [create[s] EXCEPT !.pc = pc, !.candidates = {}, !.droppedFull = FALSE]
<1>1. create[s] \in CreateJob
    BY DEF Inv, RowTypes
<1>2. job \in CreateJob /\ job.pc = pc
    BY <1>1, GotoFields, Zenon
<1>3. CreateBecomes(s, job)
    BY DEF CreateGoto
<1> HIDE DEF job
<1> QED
    BY <1>2, <1>3, BecomesCompleted

LEMMA ReadsCompleted ==
    ASSUME Inv, NEW s \in Sandbox,
           \/ NoWorkerChosen(s)
           \/ \E ok \in BOOLEAN : CreateCallReturns(s, ok)
           \/ ReadAcknowledge(s)
           \/ MovedUnder(s)
           \/ CreateFails(s)
    PROVE  CompletedRunning
<1>1. create[s] \in CreateJob
    BY DEF Inv, RowTypes
<1>2. PICK pc \in {"starting", "confirm", "completed", "cancelled", "giveup",
                   RiverError(create[s]), MaybeCleanup(create[s])} :
          CreateGoto(s, pc) /\ (pc = "completed" => status[s] = "running")
    BY <1>1, ErrorPC DEF NoWorkerChosen, CreateCallReturns, ReadAcknowledge, MovedUnder, CreateFails,
           SettledPC
<1>3. pc \in CreatePC
    BY <1>1, <1>2, ErrorPC DEF CreatePC
<1>4. UNCHANGED status
    BY DEF NoWorkerChosen, CreateCallReturns, ReadAcknowledge, MovedUnder, CreateFails
<1> QED
    BY <1>2, <1>3, <1>4, GotoCompleted

LEMMA WritesCompleted ==
    ASSUME Inv, NEW s \in Sandbox,
           StepScheduling(s) \/ StepStarting(s) \/ StepAcknowledge(s) \/ GiveUp(s) \/ CreateSandbox(s)
    PROVE  CompletedRunning
<1>1. create[s] \in CreateJob /\ status \in [Sandbox -> Status]
    BY DEF Inv, RowTypes
<1>2. CASE StepAcknowledge(s)
  <2>1. PICK pc \in {"completed", "moved", MaybeCleanup(create[s])} :
            CreateGoto(s, pc) /\ (pc = "completed" => status[s] = "starting")
    BY <1>1, <1>2, ErrorPC DEF StepAcknowledge, Replies
  <2>2. pc \in CreatePC
    BY <1>1, <2>1, ErrorPC DEF CreatePC
  <2>3. status[s] = "starting" => status'[s] = "running"
    BY <1>1, <1>2 DEF StepAcknowledge, UpdateStatus
  <2> QED
    BY <2>1, <2>2, <2>3, GotoCompleted
<1>3. CASE StepScheduling(s) \/ StepStarting(s) \/ GiveUp(s) \/ CreateSandbox(s)
  <2>1. PICK pc \in {"pick", "moved", "ack", "cancelled", "ready", RiverError(create[s]),
                     MaybeCleanup(create[s])} : CreateGoto(s, pc)
    BY <1>3 DEF StepScheduling, StepStarting, GiveUp, CreateSandbox, Replies
  <2>2. pc \in CreatePC /\ pc # "completed"
    BY <1>1, <2>1, ErrorPC DEF CreatePC
  <2> QED
    BY <2>1, <2>2, GotoCompleted
<1> QED
    BY <1>2, <1>3

LEMMA AttemptCompleted ==
    ASSUME Inv, NEW s \in Sandbox, WorkCreate(s) \/ CreateReadFails(s)
    PROVE  CompletedRunning
<1>0. create[s] \in CreateJob /\ create[s].attempt < MaxAttempts
      /\ workerId[s] \in Worker \cup {NoWorker} /\ UNCHANGED status
    BY DEF Inv, RowTypes, SandboxInv, CreateInv, WorkCreate, CreateReadFails
<1> DEFINE j1 == [create[s] EXCEPT !.attempt = @ + 1]
           w == IF workerId[s] = NoWorker THEN j1.worker ELSE workerId[s]
           j2 == [j1 EXCEPT !.worker = w]
<1>1. j1 \in CreateJob /\ j1.worker = create[s].worker
    BY <1>0, CreateAttemptField, Zenon
<1>2. w \in Worker \cup {NoWorker}
    BY <1>0, <1>1 DEF CreateJob
<1>3. j2 \in CreateJob
    BY <1>1, <1>2, CreateWorkerField, Zenon
<1>4. CASE WorkCreate(s)
  <2> DEFINE pc == StepFor(status[s], workerId[s], j2)
             job == [j2 EXCEPT !.pc = pc]
  <2>1. CreateBecomes(s, job)
    BY <1>4 DEF WorkCreate
  <2>2. pc \in CreatePC /\ (pc = "completed" => status[s] = "running")
    BY <1>3, ErrorPC DEF StepFor, SettledPC, CreatePC
  <2> HIDE DEF j2, pc
  <2>3. job \in CreateJob /\ job.pc = pc
    BY <1>3, <2>2, CreatePCField
  <2> HIDE DEF job
  <2> QED
    BY <1>0, <2>1, <2>2, <2>3, BecomesCompleted
<1>5. CASE CreateReadFails(s)
  <2> DEFINE pc == RiverError(j1)
             job == [j1 EXCEPT !.pc = pc]
  <2>1. CreateBecomes(s, job)
    BY <1>5 DEF CreateReadFails
  <2>2. pc \in CreatePC /\ pc # "completed"
    BY <1>1, ErrorPC DEF CreatePC
  <2> HIDE DEF j1, pc
  <2>3. job \in CreateJob /\ job.pc = pc
    BY <1>1, <2>2, CreatePCField
  <2> HIDE DEF job
  <2> QED
    BY <2>1, <2>2, <2>3, BecomesCompleted
<1> QED
    BY <1>4, <1>5

LEMMA AssignCompleted ==
    ASSUME Inv, NEW s \in Sandbox, BuildCandidates(s) \/ \E w \in Worker : AssignWorker(s, w)
    PROVE  CompletedRunning
<1>0. create[s] \in CreateJob
    BY DEF Inv, RowTypes
<1>1. CASE BuildCandidates(s)
  <2>1. PICK c \in SUBSET Worker :
            CreateBecomes(s, [create[s] EXCEPT !.pc = "assign", !.candidates = c,
                                               !.droppedFull = FALSE])
    BY <1>1, Zenon DEF BuildCandidates
  <2> DEFINE job == [create[s] EXCEPT !.pc = "assign", !.candidates = c, !.droppedFull = FALSE]
  <2>2. "assign" \in CreatePC /\ FALSE \in BOOLEAN
    BY DEF CreatePC
  <2>3. job \in CreateJob /\ job.pc = "assign"
    BY <1>0, <2>2, CreateFields, Zenon
  <2>4. CreateBecomes(s, job)
    BY <2>1
  <2> HIDE DEF job
  <2> QED
    BY <2>3, <2>4, BecomesCompleted
<1>2. ASSUME NEW w \in Worker, AssignWorker(s, w)
      PROVE  CompletedRunning
  <2>0. create[s].pc = "assign"
    BY <1>2, Zenon DEF AssignWorker
  <2>1. CASE CreateGoto(s, "moved")
    BY <2>1, GotoCompleted DEF CreatePC
  <2>2. ASSUME NEW pc \in {"call", MaybeCleanup(create[s])},
               CreateBecomes(s, [create[s] EXCEPT !.pc = pc, !.candidates = {},
                                                  !.droppedFull = FALSE, !.worker = w])
        PROVE  CompletedRunning
    <3>1. pc \in CreatePC /\ pc # "completed"
      BY <1>0, ErrorPC DEF CreatePC
    <3> DEFINE j1 == [create[s] EXCEPT !.pc = pc, !.candidates = {}, !.droppedFull = FALSE]
               job == [j1 EXCEPT !.worker = w]
    <3>2. j1 \in CreateJob /\ j1.pc = pc
      BY <1>0, <3>1, GotoFields, Zenon
    <3>3. CreateBecomes(s, job)
      BY <2>2
    <3> HIDE DEF j1
    <3>4. job \in CreateJob /\ job.pc = pc
      BY <3>2, CreateWorkerField
    <3> HIDE DEF job
    <3> QED
      BY <3>1, <3>3, <3>4, BecomesCompleted
  <2>3. CASE CreateBecomes(s, [create[s] EXCEPT !.candidates = @ \ {w}, !.droppedFull = TRUE])
    <3> DEFINE c == create[s].candidates \ {w}
               j1 == [create[s] EXCEPT !.candidates = c]
               job == [j1 EXCEPT !.droppedFull = TRUE]
    <3>1. CreateBecomes(s, job)
      BY <2>3
    <3>2. j1 \in CreateJob /\ j1.pc = "assign"
      BY <1>0, <2>0 DEF CreateJob
    <3> HIDE DEF j1
    <3>3. job \in CreateJob /\ job.pc = "assign"
      BY <3>2, Zenon DEF CreateJob
    <3> HIDE DEF job
    <3> QED
      BY <3>1, <3>3, BecomesCompleted
  <2> QED
    BY <1>2, <2>1, <2>2, <2>3, Zenon DEF AssignWorker, Replies
<1> QED
    BY <1>1, <1>2

(* The POST answers 201 only for a sandbox that is running at that moment: *)
(* River reports completed only on the path where the job saw running or   *)
(* wrote it, never when a guarded update changed nothing.                  *)
THEOREM AnswerIsTrue == Spec => CreatedOnlyIfRunning
<1>1. ASSUME Inv, [RowNext]_rows PROVE CompletedRunning
  <2>1. CASE UNCHANGED create
    BY <2>1 DEF CompletedRunning
  <2>2. ASSUME NEW s \in Sandbox,
               \/ CreateSandbox(s) \/ CreateStep(s) \/ CreateFails(s) \/ CreateReadFails(s)
        PROVE  CompletedRunning
    BY <1>1, <2>2, ReadsCompleted, WritesCompleted, AttemptCompleted, AssignCompleted DEF CreateStep
  <2>3. ASSUME NEW s \in Sandbox,
               \/ DeleteSandbox(s) \/ IngestSandboxEvent(s)
               \/ \E o \in Origin :
                      CleanupStep(s, o) \/ CleanupFails(s, o) \/ CleanupReadFails(s, o)
        PROVE  UNCHANGED create
    BY <2>3, Zenon DEF DeleteSandbox, IngestSandboxEvent, CleanupStep, WorkCleanup, RemoveCallReturns,
       ClearWorker, FinishCleanup, CleanupFails, CleanupReadFails
  <2>4. CASE Reap \/ Reconcile \/ UNCHANGED rows
    BY <2>1, <2>4, Zenon DEF Reap, ReapSandboxes, Reconcile, ReconcileInventory, rows
  <2> QED
    BY <1>1, <2>1, <2>2, <2>3, <2>4 DEF RowNext, SandboxStep
<1>2. Inv /\ [RowNext]_rows =>
          [\A s \in Sandbox : Answer(s)' = "201" /\ Answer(s) # "201"
                                  => status'[s] = "running"]_vars
    BY <1>1 DEF CompletedRunning, Answer
<1> QED
    BY <1>2, Invariant, RowsMove, PTL DEF Spec, CreatedOnlyIfRunning

-----------------------------------------------------------------------------
(* Which worker the calls go to.                                           *)

WorkerStays == \A s \in Sandbox : create[s].worker \in {NoWorker, create'[s].worker}

LEMMA BecomesStays ==
    ASSUME Inv, NEW s \in Sandbox, NEW job \in CreateJob, CreateBecomes(s, job),
           create[s].worker \in {NoWorker, job.worker}
    PROVE  WorkerStays
BY CreateBecomesFacts DEF Inv, WorkerStays

(* Moving on, waiting and ending leave the worker of the job alone.        *)
LEMMA GotoStays ==
    ASSUME Inv, NEW s \in Sandbox,
           \/ CreateSandbox(s) \/ StepScheduling(s) \/ NoWorkerChosen(s)
           \/ \E ok \in BOOLEAN : CreateCallReturns(s, ok)
           \/ StepStarting(s) \/ ReadAcknowledge(s) \/ StepAcknowledge(s)
           \/ MovedUnder(s) \/ GiveUp(s) \/ CreateFails(s)
    PROVE  WorkerStays
<1>1. create[s] \in CreateJob
    BY DEF Inv, RowTypes
<1>2. PICK pc \in {"ready", "pick", "moved", "giveup", "starting", "ack", "confirm", "completed",
                   "cancelled", RiverError(create[s]), MaybeCleanup(create[s])} : CreateGoto(s, pc)
    BY Zenon DEF CreateSandbox, StepScheduling, NoWorkerChosen, CreateCallReturns, StepStarting,
           ReadAcknowledge, StepAcknowledge, MovedUnder, GiveUp, CreateFails, SettledPC, Replies
<1>3. pc \in CreatePC
    BY <1>1, <1>2, ErrorPC, Zenon DEF CreatePC
<1> DEFINE job == [create[s] EXCEPT !.pc = pc, !.candidates = {}, !.droppedFull = FALSE]
<1>4. job \in CreateJob /\ job.worker = create[s].worker
    BY <1>1, <1>3, GotoFields, Zenon
<1>5. CreateBecomes(s, job)
    BY <1>2 DEF CreateGoto
<1> HIDE DEF job
<1> QED
    BY <1>4, <1>5, BecomesStays

(* The row names the job's worker or none, so that reading it changes      *)
(* nothing.                                                                *)
LEMMA AttemptStays ==
    ASSUME Inv, NEW s \in Sandbox, WorkCreate(s) \/ CreateReadFails(s)
    PROVE  WorkerStays
<1>0. create[s] \in CreateJob /\ create[s].attempt < MaxAttempts
      /\ workerId[s] \in Worker \cup {NoWorker} /\ workerId[s] \in {NoWorker, create[s].worker}
    BY DEF Inv, RowTypes, SandboxInv, CreateInv, LinkInv, WorkCreate, CreateReadFails
<1> DEFINE j1 == [create[s] EXCEPT !.attempt = @ + 1]
           w == IF workerId[s] = NoWorker THEN j1.worker ELSE workerId[s]
           j2 == [j1 EXCEPT !.worker = w]
<1>1. j1 \in CreateJob /\ j1.worker = create[s].worker
    BY <1>0, CreateAttemptField, Zenon
<1>2. w \in Worker \cup {NoWorker} /\ w = create[s].worker
    BY <1>0, <1>1 DEF CreateJob
<1>3. j2 \in CreateJob /\ j2.worker = w
    BY <1>1, <1>2, CreateWorkerField, Zenon
<1>4. CASE WorkCreate(s)
  <2> DEFINE pc == StepFor(status[s], workerId[s], j2)
             job == [j2 EXCEPT !.pc = pc]
  <2>1. CreateBecomes(s, job)
    BY <1>4 DEF WorkCreate
  <2>2. pc \in CreatePC
    BY <1>3, ErrorPC DEF StepFor, SettledPC, CreatePC
  <2> HIDE DEF j2, pc
  <2>3. job \in CreateJob /\ job.worker = j2.worker
    BY <1>3, <2>2, CreatePCField
  <2> HIDE DEF job
  <2> QED
    BY <1>2, <1>3, <2>1, <2>3, BecomesStays
<1>5. CASE CreateReadFails(s)
  <2> DEFINE pc == RiverError(j1)
             job == [j1 EXCEPT !.pc = pc]
  <2>1. CreateBecomes(s, job)
    BY <1>5 DEF CreateReadFails
  <2>2. pc \in CreatePC
    BY <1>1, ErrorPC DEF CreatePC
  <2> HIDE DEF j1, pc
  <2>3. job \in CreateJob /\ job.worker = j1.worker
    BY <1>1, <2>2, CreatePCField
  <2> HIDE DEF job
  <2> QED
    BY <1>1, <2>1, <2>3, BecomesStays
<1> QED
    BY <1>4, <1>5

(* What BuildCandidates leaves of the job record.                          *)
LEMMA BuildFields ==
    ASSUME NEW j \in CreateJob, NEW c \in SUBSET Worker
    PROVE  LET k == [j EXCEPT !.pc = "assign", !.candidates = c, !.droppedFull = FALSE]
           IN  k \in CreateJob /\ k.pc = "assign" /\ k.worker = j.worker
<1> DEFINE k1 == [j EXCEPT !.pc = "assign"]
           k2 == [k1 EXCEPT !.candidates = c]
           k3 == [k2 EXCEPT !.droppedFull = FALSE]
<1>1. k1 \in CreateJob /\ k1.pc = "assign" /\ k1.worker = j.worker
    BY DEF CreateJob, CreatePC
<1>2. k2 \in CreateJob /\ k2.pc = "assign" /\ k2.worker = j.worker
  <2> HIDE DEF k1
  <2> QED
    BY <1>1 DEF CreateJob
<1>3. k3 \in CreateJob /\ k3.pc = "assign" /\ k3.worker = j.worker
  <2> HIDE DEF k2
  <2> QED
    BY <1>2, Zenon DEF CreateJob
<1> QED
    BY <1>3

LEMMA BuildStays ==
    ASSUME Inv, NEW s \in Sandbox, BuildCandidates(s)
    PROVE  WorkerStays
<1>0. create[s] \in CreateJob
    BY DEF Inv, RowTypes
<1>1. PICK c \in SUBSET Worker :
          CreateBecomes(s, [create[s] EXCEPT !.pc = "assign", !.candidates = c,
                                             !.droppedFull = FALSE])
    BY Zenon DEF BuildCandidates
<1> DEFINE job == [create[s] EXCEPT !.pc = "assign", !.candidates = c, !.droppedFull = FALSE]
<1>2. job \in CreateJob /\ job.worker = create[s].worker
    BY <1>0, BuildFields, Zenon
<1>3. CreateBecomes(s, job)
    BY <1>1
<1> HIDE DEF job
<1> QED
    BY <1>2, <1>3, BecomesStays

(* A row still to be assigned has a job that has chosen no worker.         *)
LEMMA AssignStays ==
    ASSUME Inv, NEW s \in Sandbox, NEW w \in Worker, AssignWorker(s, w)
    PROVE  WorkerStays
<1>0. create[s] \in CreateJob
    BY DEF Inv, RowTypes
<1>1. CASE CreateGoto(s, "moved")
  <2> DEFINE job == [create[s] EXCEPT !.pc = "moved", !.candidates = {}, !.droppedFull = FALSE]
  <2>1. "moved" \in CreatePC
    BY DEF CreatePC
  <2>2. job \in CreateJob /\ job.worker = create[s].worker
    BY <1>0, <2>1, GotoFields, Zenon
  <2>3. CreateBecomes(s, job)
    BY <1>1 DEF CreateGoto
  <2> HIDE DEF job
  <2> QED
    BY <2>2, <2>3, BecomesStays
<1>2. ASSUME NEW pc \in {"call", MaybeCleanup(create[s])}, status[s] = "scheduling",
             CreateBecomes(s, [create[s] EXCEPT !.pc = pc, !.candidates = {},
                                                !.droppedFull = FALSE, !.worker = w])
      PROVE  WorkerStays
  <2>1. pc \in CreatePC
    BY <1>0, ErrorPC DEF CreatePC
  <2> DEFINE j1 == [create[s] EXCEPT !.pc = pc, !.candidates = {}, !.droppedFull = FALSE]
             job == [j1 EXCEPT !.worker = w]
  <2>2. j1 \in CreateJob
    BY <1>0, <2>1, GotoFields, Zenon
  <2>3. CreateBecomes(s, job)
    BY <1>2
  <2> HIDE DEF j1
  <2>4. job \in CreateJob
    BY <2>2, CreateWorkerField
  <2>5. create[s].worker = NoWorker
    BY <1>2 DEF Inv, SandboxInv, LinkInv
  <2> HIDE DEF job
  <2> QED
    BY <2>3, <2>4, <2>5, BecomesStays
<1>3. CASE CreateBecomes(s, [create[s] EXCEPT !.candidates = @ \ {w}, !.droppedFull = TRUE])
  <2> DEFINE c == create[s].candidates \ {w}
             j1 == [create[s] EXCEPT !.candidates = c]
             job == [j1 EXCEPT !.droppedFull = TRUE]
  <2>1. CreateBecomes(s, job)
    BY <1>3
  <2>2. j1 \in CreateJob /\ j1.worker = create[s].worker
    BY <1>0 DEF CreateJob
  <2> HIDE DEF j1
  <2>3. job \in CreateJob /\ job.worker = create[s].worker
    BY <2>2, Zenon DEF CreateJob
  <2> HIDE DEF job
  <2> QED
    BY <2>1, <2>3, BecomesStays
<1> QED
    BY <1>1, <1>2, <1>3, Zenon DEF AssignWorker, Replies

(* No step gives a create job another worker than it has.                  *)
LEMMA WorkerKept ==
    ASSUME Inv, [RowNext]_rows
    PROVE  WorkerStays
<1>1. CASE UNCHANGED create
    BY <1>1 DEF WorkerStays
<1>2. ASSUME NEW s \in Sandbox,
             \/ CreateSandbox(s) \/ CreateStep(s) \/ CreateFails(s) \/ CreateReadFails(s)
      PROVE  WorkerStays
    BY <1>2, GotoStays, AttemptStays, BuildStays, AssignStays DEF CreateStep
<1>3. ASSUME NEW s \in Sandbox,
             \/ DeleteSandbox(s) \/ IngestSandboxEvent(s)
             \/ \E o \in Origin :
                    CleanupStep(s, o) \/ CleanupFails(s, o) \/ CleanupReadFails(s, o)
      PROVE  UNCHANGED create
    BY <1>3, Zenon DEF DeleteSandbox, IngestSandboxEvent, CleanupStep, WorkCleanup, RemoveCallReturns,
       ClearWorker, FinishCleanup, CleanupFails, CleanupReadFails
<1>4. CASE Reap \/ Reconcile \/ UNCHANGED rows
    BY <1>1, <1>4, Zenon DEF Reap, ReapSandboxes, Reconcile, ReconcileInventory, rows
<1> QED
    BY <1>1, <1>2, <1>3, <1>4 DEF RowNext, SandboxStep

(* All the calls made for a sandbox, by its create job and by every        *)
(* cleanup job, go to one worker: it is chosen once, and retries, stale    *)
(* reads and lost replies lead back to it.                                 *)
THEOREM OneWorker == Spec => OneWorkerPerSandbox
<1>1. Inv /\ [RowNext]_rows => WorkerStays
    BY WorkerKept
<1>2. Inv /\ [RowNext]_rows => Inv'
    BY InvNext
<1>3. Inv' => \A s \in Sandbox :
                 /\ workerId'[s] \in {NoWorker, create'[s].worker}
                 /\ \A o \in Origin : cleanup'[s][o].worker \in {NoWorker, create'[s].worker}
    BY DEF Inv, SandboxInv, LinkInv, CleanupInv
<1>4. Inv /\ [RowNext]_rows =>
          [\A s \in Sandbox :
               /\ create[s].worker \in {NoWorker, create'[s].worker}
               /\ workerId'[s] \in {NoWorker, create'[s].worker}
               /\ \A o \in Origin :
                      cleanup'[s][o].worker \in {NoWorker, create'[s].worker}]_vars
    BY <1>1, <1>2, <1>3 DEF WorkerStays
<1> QED
    BY <1>4, Invariant, RowsMove, PTL DEF Spec, OneWorkerPerSandbox

=============================================================================
