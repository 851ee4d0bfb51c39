--------------------------- MODULE SandboxHosting ---------------------------
(***************************************************************************)
(* The orchestrator of SandboxLifecycle together with the workers: the     *)
(* sandboxes each worker's Manager tracks, the CreateSandbox and           *)
(* RemoveSandbox calls on their way, the heartbeats that carry a worker's  *)
(* inventory, RUNNING events, worker restarts, and the removal of orphans. *)
(*                                                                         *)
(* Calls are late, lost, or answered to nobody: a caller that times out    *)
(* does not stop what the worker is doing.  Every step on the rows and the *)
(* jobs is the SandboxLifecycle action of the same name.                   *)
(***************************************************************************)
EXTENDS SandboxLifecycle

CONSTANTS
    MaxLosses  \* bound on the VMs that die or fail to boot and the restarts
               \* of worker processes

ASSUME HostingAssumption == MaxLosses \in Nat

VARIABLES
    host,            \* Manager.services and .deleting of each worker
    createCall,      \* the CreateSandbox call the create job waits for
    lateCall,        \* an abandoned CreateSandbox call still on its way
    removeCall,      \* the RemoveSandbox call of each cleanup job
    orphan,          \* the remove_orphan_sandbox job of each listed orphan
    heartbeat,       \* the heartbeat on its way from each worker
    token,           \* worker.fencing_token
    inventoryToken,  \* worker.inventory_token
    procToken,       \* the token the worker process holds, 0 before it registers
    lastSeen,        \* what last_seen_at says, see below
    losses           \* deaths, failed boots and restarts so far

hostVars == <<host, createCall, lateCall, removeCall>>
tokens == <<token, inventoryToken, procToken>>
fenceVars == <<tokens, lastSeen>>
hvars == <<vars, hostVars, orphan, heartbeat, fenceVars, losses>>

(* "removing" is an ID in Manager.deleting; the others are tracked.        *)
Tracked == {"starting", "running", "dead"}
HostState == {"none", "removing"} \cup Tracked

(* "handled": the worker is executing the call.                            *)
CallState == {"none", "sent", "handled", "ok", "failed"}

Report == {"absent", "live", "running", "unknown", "dead"}
NoHeartbeat == [token |-> 0, report |-> [s \in Sandbox |-> "absent"]]

(* Time enters the reapers' and the inventory's queries only as a          *)
(* comparison of last_seen_at with the worker's registration and           *)
(* heartbeats: "before", seen before the registration; "fresh", seen since *)
(* with no heartbeat that left it out; "missed", left out by one since.    *)
Seen == {"before", "fresh", "missed"}

(* A job that completed or was discarded is gone: the next heartbeat that  *)
(* lists the orphan enqueues it again.  So its attempts are not counted.   *)
OrphanJob == [pc : {"none", "ready", "call"}, call : CallState]
NoOrphanJob == [pc |-> "none", call |-> "none"]
OrphanBecomes(w, s, pc, call) == orphan' = [orphan EXCEPT ![w][s] = [pc |-> pc, call |-> call]]

HostingInit ==
    /\ Init
    /\ host = [w \in Worker |-> [s \in Sandbox |-> "none"]]
    /\ createCall = [s \in Sandbox |-> "none"]
    /\ lateCall = [s \in Sandbox |-> FALSE]
    /\ removeCall = [s \in Sandbox |-> [o \in Origin |-> "none"]]
    /\ orphan = [w \in Worker |-> [s \in Sandbox |-> NoOrphanJob]]
    /\ heartbeat = [w \in Worker |-> NoHeartbeat]
    /\ token = [w \in Worker |-> 1]
    /\ inventoryToken = [w \in Worker |-> 0]
    /\ procToken = [w \in Worker |-> 1]
    /\ lastSeen = [s \in Sandbox |-> "fresh"]
    /\ losses = 0

-----------------------------------------------------------------------------
(* The orchestrator's steps, with what they send.                          *)

(* last_seen_at means something while the sandbox is on its worker.        *)
SeenFollowsRow ==
    lastSeen' = [s \in Sandbox |-> IF status'[s] \in OnWorker THEN lastSeen[s] ELSE "fresh"]

(* The create job enters its call: the request leaves for the worker.  It  *)
(* leaves the call: a request not yet received may still arrive.           *)
CallFollowsJob(s) ==
    /\ createCall' = [createCall EXCEPT
           ![s] = IF create'[s].pc # "call" THEN "none"
                  ELSE IF create[s].pc # "call" THEN "sent"
                  ELSE @]
    /\ lateCall' = [lateCall EXCEPT
           ![s] = @ \/ (create[s].pc = "call" /\ create'[s].pc # "call" /\ createCall[s] = "sent")]

(* A cleanup job sends RemoveSandbox with each attempt.  An earlier        *)
(* request still on its way, or still executing, stands for the new one:   *)
(* the new one would find the ID being removed, or gone.                   *)
RemoveFollowsJob(s, o) ==
    removeCall' = [removeCall EXCEPT
        ![s][o] = IF cleanup'[s][o].pc = "call"
                  THEN IF cleanup[s][o].pc # "call" /\ @ = "none" THEN "sent" ELSE @
                  ELSE IF @ \in {"ok", "failed"} THEN "none" ELSE @]

(* The steps of a create job, its call's answer aside.                     *)
HostedCreateStep(s) ==
    /\ \/ WorkCreate(s)
       \/ StepScheduling(s)
       \/ BuildCandidates(s)
       \/ NoWorkerChosen(s)
       \/ StepStarting(s)
       \/ ReadAcknowledge(s)
       \/ StepAcknowledge(s)
       \/ MovedUnder(s)
       \/ GiveUp(s)
       \/ CreateFails(s)
       \/ CreateReadFails(s)
    /\ CallFollowsJob(s)
    /\ SeenFollowsRow
    /\ UNCHANGED <<capacity, host, removeCall, orphan, heartbeat, tokens, losses>>

(* AssignWorker also writes last_seen_at.                                  *)
HostedAssign(s, w) ==
    /\ AssignWorker(s, w)
    /\ CallFollowsJob(s)
    /\ lastSeen' = [lastSeen EXCEPT ![s] = IF workerId'[s] # workerId[s] THEN "fresh" ELSE @]
    /\ UNCHANGED <<capacity, host, removeCall, orphan, heartbeat, tokens, losses>>

(* Faulty: a call that timed out counts as done.                           *)
HostedCreateTimesOutWell(s, ok) ==
    /\ CreateCallReturns(s, ok)
    /\ CallFollowsJob(s)
    /\ UNCHANGED <<capacity, host, removeCall, orphan, heartbeat, fenceVars, losses>>

(* The answer reaches the job, or the call fails on its way or times out.  *)
HostedCreateReturns(s, ok) ==
    /\ ok => createCall[s] = "ok"
    /\ CreateCallReturns(s, ok)
    /\ CallFollowsJob(s)
    /\ UNCHANGED <<capacity, host, removeCall, orphan, heartbeat, fenceVars, losses>>

HostedCleanupStep(s, o) ==
    /\ \/ WorkCleanup(s, o)
       \/ ClearWorker(s, o)
       \/ FinishCleanup(s, o)
       \/ CleanupFails(s, o)
       \/ CleanupReadFails(s, o)
    /\ RemoveFollowsJob(s, o)
    /\ UNCHANGED <<capacity, host, createCall, lateCall, orphan, heartbeat, fenceVars, losses>>

HostedRemoveReturns(s, o, ok) ==
    /\ ok => removeCall[s][o] = "ok"
    /\ RemoveCallReturns(s, o, ok)
    /\ RemoveFollowsJob(s, o)
    /\ UNCHANGED <<capacity, host, createCall, lateCall, orphan, heartbeat, fenceVars, losses>>

HostedRequest(s) ==
    /\ CreateSandbox(s) \/ DeleteSandbox(s)
    /\ SeenFollowsRow
    /\ UNCHANGED <<capacity, hostVars, orphan, heartbeat, tokens, losses>>

(* MarkStaleInactive: nothing is heard of the worker, for as long as it    *)
(* takes.                                                                  *)
Silent(w) == heartbeat[w] = NoHeartbeat \/ heartbeat[w].token # token[w]

(* ClaimLivenessExpired: the worker heartbeats without listing the         *)
(* sandbox, or has been inactive for too long.                             *)
LivenessExpired(s) ==
    /\ status[s] \in OnWorker
    /\ lastSeen[s] = "missed" \/ Silent(workerId[s])

HostedReap(expired, dead, stalled) ==
    /\ \A s \in dead : LivenessExpired(s)
    /\ ReapSandboxes(expired, dead, stalled)
    /\ SeenFollowsRow
    /\ UNCHANGED <<capacity, hostVars, orphan, heartbeat, tokens, losses>>

-----------------------------------------------------------------------------
(* The worker's side of the calls.                                         *)

(* Manager.Create: what it answers at once, and whether it starts a boot.  *)
(* A Manager that hosts something else may be at its limit, and refuse: it *)
(* knows none after a start, and each heartbeat may change it.             *)
ManagerCreate(w, s, answer, boots) ==
    /\ boots => host[w][s] = "none"
    /\ host[w][s] = "none" /\ ~boots => \E t \in Sandbox \ {s} : host[w][t] # "none"
    /\ answer = IF boots THEN "handled"
                ELSE IF host[w][s] \in Tracked THEN "ok" ELSE "failed"
    /\ host' = IF boots THEN [host EXCEPT ![w][s] = "starting"] ELSE host

DeliverCreate(s) ==
    /\ createCall[s] = "sent"
    /\ \E answer \in CallState, boots \in BOOLEAN :
           /\ ManagerCreate(create[s].worker, s, answer, boots)
           /\ createCall' = [createCall EXCEPT ![s] = answer]
    /\ UNCHANGED <<vars, lateCall, removeCall, orphan, heartbeat, fenceVars, losses>>

(* An abandoned request arrives after all; its answer goes nowhere.        *)
DeliverLateCreate(s) ==
    /\ lateCall[s]
    /\ lateCall' = [lateCall EXCEPT ![s] = FALSE]
    /\ \E answer \in CallState, boots \in BOOLEAN :
           ManagerCreate(create[s].worker, s, answer, boots)
    /\ UNCHANGED <<vars, createCall, removeCall, orphan, heartbeat, fenceVars, losses>>

Answered(s, answer) ==
    createCall' = [createCall EXCEPT ![s] = IF @ = "handled" THEN answer ELSE @]

(* The VM is up: Create answers.                                           *)
BootDone(w, s) ==
    /\ host[w][s] = "starting"
    /\ host' = [host EXCEPT ![w][s] = "running"]
    /\ Answered(s, "ok")
    /\ UNCHANGED <<vars, lateCall, removeCall, orphan, heartbeat, fenceVars, losses>>

(* The boot fails: the Service cleans up and the ID is dropped.            *)
BootFails(w, s) ==
    /\ host[w][s] = "starting"
    /\ losses < MaxLosses
    /\ host' = [host EXCEPT ![w][s] = "none"]
    /\ Answered(s, "failed")
    /\ losses' = losses + 1
    /\ UNCHANGED <<vars, lateCall, removeCall, orphan, heartbeat, fenceVars>>

(* The VM's process exits.                                                 *)
VMDies(w, s) ==
    /\ host[w][s] = "running"
    /\ losses < MaxLosses
    /\ host' = [host EXCEPT ![w][s] = "dead"]
    /\ losses' = losses + 1
    /\ UNCHANGED <<vars, createCall, lateCall, removeCall, orphan, heartbeat, fenceVars>>

(* Manager.Remove: the ID moves to deleting, or is answered at once.  A    *)
(* boot under way ends first, whatever its outcome.                        *)
ManagerRemove(w, s, answer) ==
    /\ answer = IF host[w][s] \in Tracked THEN "handled"
                ELSE IF host[w][s] = "none" THEN "ok" ELSE "failed"
    /\ host' = IF host[w][s] \in Tracked THEN [host EXCEPT ![w][s] = "removing"] ELSE host
    /\ IF host[w][s] = "starting"
       THEN \E a \in {"ok", "failed"} : Answered(s, a)
       ELSE UNCHANGED createCall

DeliverRemove(s, o) ==
    /\ removeCall[s][o] = "sent"
    /\ \E answer \in CallState :
           /\ ManagerRemove(cleanup[s][o].worker, s, answer)
           /\ removeCall' = [removeCall EXCEPT
                  ![s][o] = IF cleanup[s][o].pc = "call" \/ answer = "handled"
                            THEN answer ELSE "none"]
    /\ UNCHANGED <<vars, lateCall, orphan, heartbeat, fenceVars, losses>>

DeliverOrphanRemove(w, s) ==
    /\ orphan[w][s].call = "sent"
    /\ \E answer \in CallState :
           /\ ManagerRemove(w, s, answer)
           /\ OrphanBecomes(w, s, orphan[w][s].pc,
                  IF orphan[w][s].pc = "call" \/ answer = "handled" THEN answer ELSE "none")
    /\ UNCHANGED <<vars, lateCall, removeCall, heartbeat, fenceVars, losses>>

(* Remove is done: the ID is forgotten even when the removal failed, and   *)
(* whoever still waits is answered.                                        *)
RemoveDone(w, s) ==
    /\ host[w][s] = "removing"
    /\ host' = [host EXCEPT ![w][s] = "none"]
    /\ \E a \in {"ok", "failed"} :
           /\ removeCall' = [removeCall EXCEPT ![s] = [o \in Origin |->
                  IF @[o] # "handled" \/ cleanup[s][o].worker # w THEN @[o]
                  ELSE IF cleanup[s][o].pc = "call" THEN a ELSE "none"]]
           /\ OrphanBecomes(w, s, orphan[w][s].pc,
                  IF orphan[w][s].call # "handled" THEN orphan[w][s].call
                  ELSE IF orphan[w][s].pc = "call" THEN a ELSE "none")
    /\ UNCHANGED <<vars, createCall, lateCall, heartbeat, fenceVars, losses>>

-----------------------------------------------------------------------------
(* Registration, heartbeats, events, and the jobs a heartbeat enqueues.    *)

(* The worker process dies and a new one takes over its sandboxes          *)
(* (Manager.Recover): a VM whose shim survived is adopted, anything else,  *)
(* an exited VM included, is reaped.                                       *)
WorkerRestarts(w) ==
    /\ procToken[w] # 0
    /\ losses < MaxLosses
    /\ losses' = losses + 1
    /\ \E adopted \in SUBSET {s \in Sandbox : host[w][s] \notin {"none", "dead"}} :
           host' = [host EXCEPT ![w] =
                       [s \in Sandbox |-> IF s \in adopted THEN "running" ELSE "none"]]
    /\ procToken' = [procToken EXCEPT ![w] = 0]
    /\ createCall' = [s \in Sandbox |->
           IF createCall[s] = "handled" /\ create[s].worker = w THEN "failed" ELSE createCall[s]]
    /\ removeCall' = [s \in Sandbox |-> [o \in Origin |->
           IF removeCall[s][o] = "handled" /\ cleanup[s][o].worker = w
           THEN IF cleanup[s][o].pc = "call" THEN "failed" ELSE "none"
           ELSE removeCall[s][o]]]
    /\ orphan' = [orphan EXCEPT ![w] = [s \in Sandbox |->
           IF @[s].call = "handled"
           THEN [@[s] EXCEPT !.call = IF orphan[w][s].pc = "call" THEN "failed" ELSE "none"]
           ELSE @[s]]]
    /\ UNCHANGED <<vars, lateCall, heartbeat, token, inventoryToken, lastSeen>>

RegisterWorker(w) ==
    /\ procToken[w] = 0
    /\ UpdateWorker(w)
    /\ token' = [token EXCEPT ![w] = @ + 1]
    /\ procToken' = [procToken EXCEPT ![w] = token[w] + 1]
    /\ lastSeen' = [s \in Sandbox |->
           IF workerId[s] = w /\ status[s] \in OnWorker THEN "before" ELSE lastSeen[s]]
    /\ UNCHANGED <<hostVars, orphan, heartbeat, inventoryToken, losses>>

(* Faulty: the exit of a VM goes unnoticed.                                *)
ReportsUnwatched(st) ==
    CASE st = "starting" -> {"live"}
      [] st \in {"running", "dead"} -> {"running"}
      [] OTHER -> {"absent"}

(* What Snapshot may list for a sandbox: a state query that failed shows   *)
(* as unknown, an ID being removed is left out.                            *)
Reports(st) ==
    CASE st = "starting" -> {"live"}
      [] st = "running" -> {"running", "unknown"}
      [] st = "dead" -> {"dead"}
      [] OTHER -> {"absent"}

SendHeartbeat(w) ==
    /\ procToken[w] # 0
    /\ heartbeat[w] = NoHeartbeat
    /\ \E r \in [Sandbox -> Report] :
           /\ \A s \in Sandbox : r[s] \in Reports(host[w][s])
           /\ heartbeat' = [heartbeat EXCEPT ![w] = [token |-> procToken[w], report |-> r]]
    /\ UNCHANGED <<vars, hostVars, orphan, fenceVars, losses>>

LoseHeartbeat(w) ==
    /\ heartbeat[w] # NoHeartbeat
    /\ heartbeat' = [heartbeat EXCEPT ![w] = NoHeartbeat]
    /\ UNCHANGED <<vars, hostVars, orphan, fenceVars, losses>>

(* Sandboxes of a process before the current one that its first inventory  *)
(* does not list.                                                          *)
Lost(w, r) ==
    IF inventoryToken[w] = token[w] THEN {}
    ELSE {s \in Sandbox : /\ workerId[s] = w
                          /\ status[s] \in OnWorker
                          /\ r[s] = "absent"
                          /\ lastSeen[s] = "before"}

Dead(w, r) ==
    {s \in Sandbox : workerId[s] = w /\ status[s] \in OnWorker /\ r[s] = "dead"}

Confirmed(w, r) ==
    {s \in Sandbox : workerId[s] = w /\ status[s] = "starting" /\ r[s] = "running"}

Refreshed(w, r) ==
    {s \in Sandbox : workerId[s] = w /\ status[s] \in OnWorker /\ r[s] \in {"live", "running"}}

(* Faulty: only running sandboxes are the worker's; terminal ones are.     *)
OrphansUnlessRunning(w, r) ==
    {s \in Sandbox : r[s] # "absent" /\ ~(workerId[s] = w /\ status[s] = "running")}
OrphansUnlessTerminal(w, r) ==
    {s \in Sandbox : r[s] # "absent" /\ workerId[s] # w /\ status[s] \notin Terminal}

(* Listed sandboxes the database does not attribute to the worker.         *)
Orphans(w, r) ==
    {s \in Sandbox : r[s] # "absent" /\ ~(workerId[s] = w /\ status[s] \notin Terminal)}

(* A heartbeat with the current token, one transaction: it refreshes the   *)
(* worker row, claims the first inventory and reconciles.  An orphan gets  *)
(* a removal job unless one is still alive.                                *)
DeliverHeartbeat(w) ==
    LET r == heartbeat[w].report IN
    /\ heartbeat[w] # NoHeartbeat
    /\ heartbeat[w].token = token[w]
    /\ heartbeat' = [heartbeat EXCEPT ![w] = NoHeartbeat]
    /\ inventoryToken' = [inventoryToken EXCEPT ![w] = token[w]]
    /\ ReportWorkerHeartbeat(w, Lost(w, r) \cup Dead(w, r), Confirmed(w, r))
    /\ lastSeen' = [s \in Sandbox |->
           IF s \in Refreshed(w, r) \/ status'[s] \notin OnWorker THEN "fresh"
           ELSE IF workerId[s] = w THEN "missed"
           ELSE lastSeen[s]]
    /\ orphan' = [orphan EXCEPT ![w] = [s \in Sandbox |->
           IF s \in Orphans(w, r) /\ @[s].pc = "none"
           THEN [@[s] EXCEPT !.pc = "ready"] ELSE @[s]]]
    /\ UNCHANGED <<hostVars, token, procToken, losses>>

(* A heartbeat of a process that was replaced changes nothing.             *)
RefuseHeartbeat(w) ==
    /\ heartbeat[w].token # token[w]
    /\ LoseHeartbeat(w)

(* A RUNNING event arrives, any time after the VM came up.  It counts only *)
(* from a process whose token is still current: the one that hosts the     *)
(* sandbox, or the one before it until the new one registers.              *)
DeliverEvent(w, s) ==
    /\ workerId[s] = w
    /\ \/ procToken[w] = 0
       \/ procToken[w] = token[w] /\ host[w][s] \in {"running", "dead", "removing"}
    /\ IngestSandboxEvent(s)
    /\ UNCHANGED <<capacity, hostVars, orphan, heartbeat, fenceVars, losses>>

(* The remove_orphan_sandbox job: one RemoveSandbox call per attempt.      *)
WorkOrphan(w, s) ==
    /\ orphan[w][s].pc = "ready"
    /\ OrphanBecomes(w, s, "call", IF orphan[w][s].call = "handled" THEN "handled" ELSE "sent")
    /\ UNCHANGED <<vars, hostVars, heartbeat, fenceVars, losses>>

OrphanReturns(w, s, ok) ==
    /\ orphan[w][s].pc = "call"
    /\ ok => orphan[w][s].call = "ok"
    /\ \E pc \in IF ok THEN {"none"} ELSE {"ready", "none"} :
           OrphanBecomes(w, s, pc, IF orphan[w][s].call \in {"ok", "failed"} THEN "none"
                                   ELSE orphan[w][s].call)
    /\ UNCHANGED <<vars, hostVars, heartbeat, fenceVars, losses>>

-----------------------------------------------------------------------------
WorkerStep(w, s) ==
    \/ DeliverEvent(w, s)
    \/ BootDone(w, s)
    \/ BootFails(w, s)
    \/ VMDies(w, s)
    \/ RemoveDone(w, s)
    \/ DeliverOrphanRemove(w, s)
    \/ WorkOrphan(w, s)
    \/ \E ok \in BOOLEAN : OrphanReturns(w, s, ok)

HeartbeatStep(w) ==
    \/ WorkerRestarts(w)
    \/ RegisterWorker(w)
    \/ SendHeartbeat(w)
    \/ LoseHeartbeat(w)
    \/ DeliverHeartbeat(w)
    \/ RefuseHeartbeat(w)

HostingNext ==
    \/ \E s \in Sandbox :
           \/ HostedRequest(s)
           \/ HostedCreateStep(s)
           \/ \E w \in Worker : HostedAssign(s, w) \/ WorkerStep(w, s)
           \/ \E ok \in BOOLEAN : HostedCreateReturns(s, ok)
           \/ DeliverCreate(s)
           \/ DeliverLateCreate(s)
           \/ \E o \in Origin :
                  \/ HostedCleanupStep(s, o)
                  \/ \E ok \in BOOLEAN : HostedRemoveReturns(s, o, ok)
                  \/ DeliverRemove(s, o)
    \/ \E w \in Worker : HeartbeatStep(w)
    \/ \E expired, dead, stalled \in SUBSET Sandbox : HostedReap(expired, dead, stalled)

HostingSpec == HostingInit /\ [][HostingNext]_hvars

(* The worker keeps heartbeating (RunHeartbeat), River keeps running jobs, *)
(* an actor finishes what it began.  Of heartbeats and of removal requests *)
(* sent again and again, some get through.                                 *)
HostingFairness ==
    /\ WF_hvars(HostedReap({}, {s \in Sandbox : status[s] \in OnWorker /\ lastSeen[s] = "missed"}, {}))
    /\ \A w \in Worker :
           /\ WF_hvars(RegisterWorker(w) \/ SendHeartbeat(w) \/ RefuseHeartbeat(w))
           /\ SF_hvars(DeliverHeartbeat(w))
           /\ \A s \in Sandbox :
                  /\ WF_hvars(BootDone(w, s) \/ RemoveDone(w, s))
                  /\ WF_hvars(WorkOrphan(w, s) \/ \E ok \in BOOLEAN : OrphanReturns(w, s, ok))
                  /\ SF_hvars(DeliverOrphanRemove(w, s) /\ orphan[w][s].pc = "call")

FairHostingSpec == HostingSpec /\ HostingFairness

-----------------------------------------------------------------------------
(* Properties.                                                             *)

(* The same for the orchestrator with its workers: calls and jobs are in   *)
(* their states, tokens are numbers, and no more is lost than MaxLosses.   *)
HostingTypeOK ==
    /\ TypeOK
    /\ host \in [Worker -> [Sandbox -> HostState]]
    /\ createCall \in [Sandbox -> CallState]
    /\ lateCall \in [Sandbox -> BOOLEAN]
    /\ removeCall \in [Sandbox -> [Origin -> CallState]]
    /\ orphan \in [Worker -> [Sandbox -> OrphanJob]]
    /\ heartbeat \in [Worker -> [token : Nat, report : [Sandbox -> Report]]]
    /\ token \in [Worker -> Nat]
    /\ inventoryToken \in [Worker -> Nat]
    /\ procToken \in [Worker -> Nat]
    /\ lastSeen \in [Sandbox -> Seen]
    /\ losses \in 0..MaxLosses

(* No healthy VM is removed: whatever a stale inventory, a late call or a  *)
(* restart led to, a removal under way, by a cleanup job or as an orphan,  *)
(* is of a sandbox that was claimed.                                       *)
RemovalOnlyOfEnded ==
    \A s \in Sandbox :
        \/ \E o \in Origin : removeCall[s][o] # "none"
        \/ \E w \in Worker : orphan[w][s].pc # "none" \/ host[w][s] = "removing"
        => status[s] \in Ended

(* A sandbox has a VM on at most one worker, whatever calls are repeated   *)
(* or late, also once its row ended; until then the row names that worker. *)
HostedWhereAssigned ==
    \A w \in Worker, s \in Sandbox :
        host[w][s] # "none" =>
            /\ workerId[s] = w \/ status[s] \in Ended
            /\ \A v \in Worker : host[v][s] # "none" => v = w

(* A VM that outlived its row (a late CreateSandbox, a removal given up)   *)
(* does not stay for ever: the inventory lists it as an orphan, and the    *)
(* orphan's job removes it.                                                *)
OrphansGo ==
    \A w \in Worker, s \in Sandbox :
        status[s] \in Terminal /\ host[w][s] # "none" ~> host[w][s] = "none"

(* The row says starting or running only of a sandbox its worker tracks,   *)
(* as long as no VM died and the worker was not restarted: a removal, a    *)
(* stale answer or a duplicate request never leaves a row without its VM.  *)
RowsHaveVMs ==
    \A s \in Sandbox :
        LET w == workerId[s] IN
        /\ status[s] \in {"starting", "running"}
        /\ losses = 0
        => host[w][s] \in Tracked

(* A VM that is gone is noticed: its row leaves starting and running, by   *)
(* the inventory that reports it dead or lost, or by liveness expiry.  The *)
(* one exception is a CreateSandbox call that an earlier attempt gave up,  *)
(* and that arrives only now: the worker boots the sandbox anew.           *)
LossNoticed ==
    \A w \in Worker, s \in Sandbox :
        /\ workerId[s] = w
        /\ status[s] \in {"starting", "running"}
        /\ host[w][s] \in {"none", "dead"}
        ~> status[s] \in Ended \/ host[w][s] \in {"starting", "running"}

=============================================================================
