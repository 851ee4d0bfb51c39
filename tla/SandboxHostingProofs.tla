------------------------ MODULE SandboxHostingProofs ------------------------
(***************************************************************************)
(* Proofs about SandboxHosting, for any number of workers, sandboxes,      *)
(* attempts and losses: it is an instance of SandboxLifecycle, VMs are     *)
(* where their rows say, only sandboxes out of use are removed, and, while *)
(* no VM is lost, every row in use has its VM.                             *)
(***************************************************************************)
EXTENDS SandboxHosting, SandboxLifecycleProofs

(* What a worker hosts, or reports in a heartbeat however old, was sent to *)
(* it by the create job, which has only ever had this worker.              *)
PlaceInv(s) ==
    \A w \in Worker :
        /\ host[w][s] # "none" => create[s].worker = w
        /\ heartbeat[w].report[s] # "absent" => create[s].worker = w

(* Whatever is on its way to remove a sandbox was sent for one that ended, *)
(* and no status leaves Ended.                                             *)
EndInv(s) ==
    /\ \A o \in Origin : removeCall[s][o] # "none" => status[s] \in Ended
    /\ \A w \in Worker :
           /\ orphan[w][s] # NoOrphanJob => status[s] \in Ended
           /\ host[w][s] = "removing" => status[s] \in Ended

(* A call has a worker it goes to.  The worker tracks a sandbox from the   *)
(* answer on that lets the job go on, until the sandbox is out of use.     *)
Vouched(s) ==
    createCall[s] = "ok" \/ create[s].pc = "starting" \/ status[s] \in {"starting", "running"}
VMInv(s) ==
    /\ createCall[s] # "none" => create[s].pc = "call"
    /\ create[s].pc \in {"call", "starting"} => create[s].worker \in Worker
    /\ losses = 0 /\ status[s] \notin Ended /\ Vouched(s) => host[create[s].worker][s] \in Tracked

HostingInv ==
    /\ Inv
    /\ HostingTypeOK
    /\ \A s \in Sandbox : PlaceInv(s) /\ EndInv(s) /\ VMInv(s)

-----------------------------------------------------------------------------
(* Every step is one of SandboxLifecycle, or leaves rows and jobs alone.   *)

LEMMA StepRefines == [HostingNext]_hvars => [Next]_vars
<1> SUFFICES ASSUME [HostingNext]_hvars PROVE [Next]_vars
    OBVIOUS
<1>1. ASSUME NEW s \in Sandbox,
             \/ HostedRequest(s) \/ HostedCreateStep(s)
             \/ \E w \in Worker : HostedAssign(s, w)
             \/ \E ok \in BOOLEAN : HostedCreateReturns(s, ok)
      PROVE  Next
    BY <1>1 DEF HostedRequest, HostedCreateStep, HostedAssign, HostedCreateReturns, Next, SandboxStep, CreateStep
<1>2. ASSUME NEW s \in Sandbox, NEW o \in Origin,
             HostedCleanupStep(s, o) \/ \E ok \in BOOLEAN : HostedRemoveReturns(s, o, ok)
      PROVE  Next
    BY <1>2 DEF HostedCleanupStep, HostedRemoveReturns, Next, SandboxStep, CleanupStep
<1>3. ASSUME NEW w \in Worker, NEW s \in Sandbox, WorkerStep(w, s)
      PROVE  [Next]_vars
    BY <1>3 DEF WorkerStep, DeliverEvent, BootDone, BootFails, VMDies, RemoveDone,
       DeliverOrphanRemove, WorkOrphan, OrphanReturns, Next, SandboxStep
<1>4. ASSUME NEW s \in Sandbox,
             DeliverCreate(s) \/ DeliverLateCreate(s) \/ \E o \in Origin : DeliverRemove(s, o)
      PROVE  UNCHANGED vars
    BY <1>4 DEF DeliverCreate, DeliverLateCreate, DeliverRemove
<1>5. ASSUME NEW w \in Worker, HeartbeatStep(w)
      PROVE  [Next]_vars
  <2>1. CASE DeliverHeartbeat(w)
    <3> DEFINE r == heartbeat[w].report
    <3>1. ReportWorkerHeartbeat(w, Lost(w, r) \cup Dead(w, r), Confirmed(w, r))
      BY <2>1 DEF DeliverHeartbeat
    <3>2. Lost(w, r) \cup Dead(w, r) \in SUBSET Sandbox /\ Confirmed(w, r) \in SUBSET Sandbox
      BY DEF Lost, Dead, Confirmed
    <3> HIDE DEF r
    <3> QED
      BY <3>1, <3>2 DEF Next, WorkerReports
  <2> QED
    BY <1>5, <2>1 DEF HeartbeatStep, WorkerRestarts, RegisterWorker, SendHeartbeat, LoseHeartbeat,
       RefuseHeartbeat, Next, WorkerReports
<1>6. ASSUME NEW expired \in SUBSET Sandbox, NEW dead \in SUBSET Sandbox,
             NEW stalled \in SUBSET Sandbox, HostedReap(expired, dead, stalled)
      PROVE  Next
    BY <1>6 DEF HostedReap, Next, SandboxStep, Reap
<1>7. CASE UNCHANGED hvars
    BY <1>7 DEF hvars, vars, rows
<1> QED
    BY <1>1, <1>2, <1>3, <1>4, <1>5, <1>6, <1>7 DEF HostingNext

LEMMA RowsRefine == [HostingNext]_hvars => [RowNext]_rows
BY StepRefines, RowsMove

(* The orchestrator among its workers does nothing that SandboxLifecycle   *)
(* does not allow, so that all that is proved of that holds here.          *)
THEOREM Refines == HostingSpec => Spec
<1>1. HostingInit => Init
    BY DEF HostingInit
<1> QED
    BY <1>1, StepRefines, PTL DEF HostingSpec, Spec

-----------------------------------------------------------------------------
(* Type correctness.                                                       *)

HostedTypes ==
    /\ host \in [Worker -> [Sandbox -> HostState]]
    /\ createCall \in [Sandbox -> CallState]
    /\ lateCall \in [Sandbox -> BOOLEAN]
    /\ removeCall \in [Sandbox -> [Origin -> CallState]]
    /\ orphan \in [Worker -> [Sandbox -> OrphanJob]]
BeatTypes ==
    /\ heartbeat \in [Worker -> [token : Nat, report : [Sandbox -> Report]]]
    /\ token \in [Worker -> Nat]
    /\ inventoryToken \in [Worker -> Nat]
    /\ procToken \in [Worker -> Nat]
    /\ lastSeen \in [Sandbox -> Seen]
    /\ losses \in 0..MaxLosses

LEMMA SplitTypes == HostingTypeOK <=> TypeOK /\ HostedTypes /\ BeatTypes
BY DEF HostingTypeOK, HostedTypes, BeatTypes

LEMMA InitTypes == HostingInit => HostedTypes /\ BeatTypes
BY HostingAssumption
   DEF HostingInit, HostedTypes, BeatTypes, HostState, CallState, OrphanJob, NoOrphanJob,
       NoHeartbeat, Report, Seen

(* Calls, whoever makes them.                                              *)
LEMMA CallTypes ==
    ASSUME HostedTypes, NEW s \in Sandbox, NEW o \in Origin
    PROVE  /\ CallFollowsJob(s) => createCall' \in [Sandbox -> CallState]
                                   /\ lateCall' \in [Sandbox -> BOOLEAN]
           /\ RemoveFollowsJob(s, o) => removeCall' \in [Sandbox -> [Origin -> CallState]]
           /\ \A a \in CallState : Answered(s, a) => createCall' \in [Sandbox -> CallState]
<1>1. CallFollowsJob(s) => createCall' \in [Sandbox -> CallState]
    BY DEF HostedTypes, CallFollowsJob, CallState
<1>2. CallFollowsJob(s) => lateCall' \in [Sandbox -> BOOLEAN]
    BY DEF HostedTypes, CallFollowsJob
<1>3. RemoveFollowsJob(s, o) => removeCall' \in [Sandbox -> [Origin -> CallState]]
    BY DEF HostedTypes, RemoveFollowsJob, CallState
<1>4. \A a \in CallState : Answered(s, a) => createCall' \in [Sandbox -> CallState]
    BY DEF HostedTypes, Answered
<1> QED
    BY <1>1, <1>2, <1>3, <1>4

LEMMA SeenTypes ==
    ASSUME BeatTypes, SeenFollowsRow
    PROVE  lastSeen' \in [Sandbox -> Seen]
BY DEF BeatTypes, SeenFollowsRow, Seen

LEMMA OrchestratorTypes ==
    ASSUME HostedTypes, BeatTypes, NEW s \in Sandbox,
           \/ HostedRequest(s) \/ HostedCreateStep(s)
           \/ \E w \in Worker : HostedAssign(s, w)
           \/ \E ok \in BOOLEAN : HostedCreateReturns(s, ok)
           \/ \E o \in Origin : \/ HostedCleanupStep(s, o)
                                \/ \E ok \in BOOLEAN : HostedRemoveReturns(s, o, ok)
           \/ \E expired, dead, stalled \in SUBSET Sandbox : HostedReap(expired, dead, stalled)
    PROVE  HostedTypes' /\ BeatTypes'
<1>1. ASSUME HostedRequest(s) \/ \E expired, dead, stalled \in SUBSET Sandbox :
                                     HostedReap(expired, dead, stalled)
      PROVE  HostedTypes' /\ BeatTypes'
  <2>1. SeenFollowsRow /\ UNCHANGED <<hostVars, orphan, heartbeat, tokens, losses>>
    BY <1>1 DEF HostedRequest, HostedReap
  <2> QED
    BY <2>1, SeenTypes DEF HostedTypes, BeatTypes, hostVars, tokens
<1>2. CASE HostedCreateStep(s)
  <2>1. /\ CallFollowsJob(s) /\ SeenFollowsRow
        /\ UNCHANGED <<host, removeCall, orphan, heartbeat, tokens, losses>>
    BY <1>2 DEF HostedCreateStep
  <2> QED
    BY <2>1, SeenTypes, CallTypes DEF HostedTypes, BeatTypes, tokens, Origin
<1>3. ASSUME NEW w \in Worker, HostedAssign(s, w) PROVE HostedTypes' /\ BeatTypes'
  <2>1. lastSeen' \in [Sandbox -> Seen]
    BY <1>3 DEF HostedAssign, BeatTypes, Seen
  <2>2. CallFollowsJob(s) /\ UNCHANGED <<host, removeCall, orphan, heartbeat, tokens, losses>>
    BY <1>3 DEF HostedAssign
  <2> QED
    BY <2>1, <2>2, CallTypes DEF HostedTypes, BeatTypes, tokens, Origin
<1>4. ASSUME NEW ok \in BOOLEAN, HostedCreateReturns(s, ok) PROVE HostedTypes' /\ BeatTypes'
  <2>1. CallFollowsJob(s) /\ UNCHANGED <<host, removeCall, orphan, heartbeat, fenceVars, losses>>
    BY <1>4 DEF HostedCreateReturns
  <2> QED
    BY <2>1, CallTypes DEF HostedTypes, BeatTypes, fenceVars, tokens, Origin
<1>5. ASSUME NEW o \in Origin,
             HostedCleanupStep(s, o) \/ \E ok \in BOOLEAN : HostedRemoveReturns(s, o, ok)
      PROVE  HostedTypes' /\ BeatTypes'
  <2>1. /\ RemoveFollowsJob(s, o)
        /\ UNCHANGED <<host, createCall, lateCall, orphan, heartbeat, fenceVars, losses>>
    BY <1>5 DEF HostedCleanupStep, HostedRemoveReturns
  <2> QED
    BY <2>1, CallTypes DEF HostedTypes, BeatTypes, fenceVars, tokens
<1> QED
    BY <1>1, <1>2, <1>3, <1>4, <1>5

(* What a change of one orphan's job leaves.                               *)
LEMMA OrphanFacts ==
    ASSUME HostedTypes, NEW w \in Worker, NEW s \in Sandbox,
           NEW pc \in {"none", "ready", "call"}, NEW c \in CallState, OrphanBecomes(w, s, pc, c)
    PROVE  /\ orphan' \in [Worker -> [Sandbox -> OrphanJob]]
           /\ orphan'[w][s] = [pc |-> pc, call |-> c]
           /\ \A v \in Worker, t \in Sandbox : v # w \/ t # s => orphan'[v][t] = orphan[v][t]
<1>1. [pc |-> pc, call |-> c] \in OrphanJob
    BY DEF OrphanJob
<1> QED
    BY <1>1 DEF HostedTypes, OrphanBecomes

(* Where the steps on an orphan's job lead; none makes one of nothing.     *)
LEMMA OrphanMoves ==
    ASSUME HostedTypes, NEW w \in Worker, NEW s \in Sandbox,
           \/ DeliverOrphanRemove(w, s) \/ RemoveDone(w, s) \/ WorkOrphan(w, s)
           \/ \E ok \in BOOLEAN : OrphanReturns(w, s, ok)
    PROVE  /\ orphan' \in [Worker -> [Sandbox -> OrphanJob]]
           /\ \A v \in Worker, t \in Sandbox :
                  orphan[v][t] = NoOrphanJob => orphan'[v][t] = NoOrphanJob
<1> DEFINE job == orphan[w][s]
<1>0. job \in OrphanJob
    BY DEF HostedTypes
<1>1. /\ job.pc \in {"none", "ready", "call"} /\ job.call \in CallState
      /\ job = [pc |-> job.pc, call |-> job.call]
    BY <1>0 DEF OrphanJob
<1>2. PICK pc \in {"none", "ready", "call"}, c \in CallState :
          /\ OrphanBecomes(w, s, pc, c)
          /\ job = NoOrphanJob => pc = job.pc /\ c = job.call
  <2> HIDE DEF job
  <2>1. job = NoOrphanJob => job.pc = "none" /\ job.call = "none"
    BY DEF NoOrphanJob
  <2> USE DEF job
  <2>2. CASE DeliverOrphanRemove(w, s)
    BY <1>1, <2>1, <2>2, SMTT(20) DEF DeliverOrphanRemove, CallState
  <2>3. CASE RemoveDone(w, s)
    BY <1>1, <2>1, <2>3, Zenon DEF RemoveDone, CallState
  <2>4. CASE WorkOrphan(w, s)
    BY <1>1, <2>1, <2>4 DEF WorkOrphan, CallState
  <2>5. ASSUME NEW ok \in BOOLEAN, OrphanReturns(w, s, ok)
        PROVE  \E pc \in {"none", "ready", "call"}, c \in CallState :
                   /\ OrphanBecomes(w, s, pc, c)
                   /\ job = NoOrphanJob => pc = job.pc /\ c = job.call
    BY <1>1, <2>1, <2>5 DEF OrphanReturns, CallState
  <2> QED
    BY <2>2, <2>3, <2>4, <2>5
<1>3. /\ orphan' \in [Worker -> [Sandbox -> OrphanJob]]
      /\ orphan'[w][s] = [pc |-> pc, call |-> c]
      /\ \A v \in Worker, t \in Sandbox : v # w \/ t # s => orphan'[v][t] = orphan[v][t]
    BY <1>2, OrphanFacts
<1> QED
    BY <1>1, <1>2, <1>3

LEMMA ManagerTypes ==
    ASSUME HostedTypes, NEW w, NEW s \in Sandbox, NEW answer
    PROVE  /\ \A boots \in BOOLEAN : ManagerCreate(w, s, answer, boots) =>
                  host' \in [Worker -> [Sandbox -> HostState]] /\ answer \in CallState
           /\ ManagerRemove(w, s, answer) =>
                  /\ host' \in [Worker -> [Sandbox -> HostState]]
                  /\ answer \in CallState
                  /\ createCall' \in [Sandbox -> CallState]
<1>1. ASSUME NEW st \in HostState PROVE [host EXCEPT ![w][s] = st] \in [Worker -> [Sandbox -> HostState]]
    BY Zenon DEF HostedTypes
<1>2. {"starting", "removing"} \subseteq HostState
    BY DEF HostState, Tracked
<1>3. \A boots \in BOOLEAN : ManagerCreate(w, s, answer, boots) =>
          host' \in [Worker -> [Sandbox -> HostState]] /\ answer \in CallState
    BY <1>1, <1>2 DEF ManagerCreate, CallState, HostedTypes
<1>4. ManagerRemove(w, s, answer) =>
          host' \in [Worker -> [Sandbox -> HostState]] /\ answer \in CallState
    BY <1>1, <1>2 DEF ManagerRemove, CallState, HostedTypes
<1>5. ManagerRemove(w, s, answer) => createCall' \in [Sandbox -> CallState]
  <2>1. \A a \in {"ok", "failed"} : Answered(s, a) => createCall' \in [Sandbox -> CallState]
    BY DEF Answered, HostedTypes, CallState
  <2> QED
    BY <2>1 DEF ManagerRemove, HostedTypes
<1> QED
    BY <1>3, <1>4, <1>5

LEMMA DeliveryTypes ==
    ASSUME HostedTypes, BeatTypes, NEW s \in Sandbox,
           DeliverCreate(s) \/ DeliverLateCreate(s) \/ \E o \in Origin : DeliverRemove(s, o)
    PROVE  HostedTypes' /\ BeatTypes'
<1>1. CASE DeliverCreate(s)
  <2>1. PICK answer \in CallState, boots \in BOOLEAN :
            /\ ManagerCreate(create[s].worker, s, answer, boots)
            /\ createCall' = [createCall EXCEPT ![s] = answer]
    BY <1>1, Zenon DEF DeliverCreate
  <2>2. host' \in [Worker -> [Sandbox -> HostState]]
    BY <2>1, ManagerTypes
  <2> QED
    BY <1>1, <2>1, <2>2 DEF DeliverCreate, HostedTypes, BeatTypes, fenceVars, tokens
<1>2. CASE DeliverLateCreate(s)
  <2>1. PICK answer \in CallState, boots \in BOOLEAN :
            ManagerCreate(create[s].worker, s, answer, boots)
    BY <1>2 DEF DeliverLateCreate
  <2>2. host' \in [Worker -> [Sandbox -> HostState]]
    BY <2>1, ManagerTypes
  <2> QED
    BY <1>2, <2>1, <2>2 DEF DeliverLateCreate, HostedTypes, BeatTypes, fenceVars, tokens
<1>3. ASSUME NEW o \in Origin, DeliverRemove(s, o) PROVE HostedTypes' /\ BeatTypes'
  <2>1. PICK answer \in CallState :
            /\ ManagerRemove(cleanup[s][o].worker, s, answer)
            /\ removeCall' = [removeCall EXCEPT
                   ![s][o] = IF cleanup[s][o].pc = "call" \/ answer = "handled"
                             THEN answer ELSE "none"]
    BY <1>3, Zenon DEF DeliverRemove
  <2>2. removeCall' \in [Sandbox -> [Origin -> CallState]]
    BY <2>1 DEF HostedTypes, CallState
  <2> QED
    BY <1>3, <2>1, <2>2, ManagerTypes, Zenon DEF DeliverRemove, HostedTypes, BeatTypes, fenceVars, tokens
<1> QED
    BY <1>1, <1>2, <1>3

LEMMA WorkerTypes ==
    ASSUME RowTypes, HostedTypes, BeatTypes, NEW w \in Worker, NEW s \in Sandbox, WorkerStep(w, s)
    PROVE  HostedTypes' /\ BeatTypes'
<1>0. {"ok", "failed"} \subseteq CallState
    BY DEF CallState
<1>1. CASE DeliverEvent(w, s)
    BY <1>1 DEF DeliverEvent, HostedTypes, BeatTypes, hostVars, fenceVars, tokens
<1>2. CASE BootDone(w, s)
  <2>1. host' \in [Worker -> [Sandbox -> HostState]]
    BY <1>2 DEF BootDone, HostedTypes, HostState, Tracked
  <2> QED
    BY <1>0, <1>2, <2>1, CallTypes DEF BootDone, HostedTypes, BeatTypes, fenceVars, tokens, Origin
<1>3. CASE BootFails(w, s)
  <2>1. host' \in [Worker -> [Sandbox -> HostState]]
    BY <1>3 DEF BootFails, HostedTypes, HostState
  <2>2. losses' \in 0..MaxLosses
    BY <1>3, HostingAssumption DEF BootFails, BeatTypes
  <2> QED
    BY <1>0, <1>3, <2>1, <2>2, CallTypes
       DEF BootFails, HostedTypes, BeatTypes, fenceVars, tokens, Origin
<1>4. CASE VMDies(w, s)
  <2>1. host' \in [Worker -> [Sandbox -> HostState]]
    BY <1>4 DEF VMDies, HostedTypes, HostState, Tracked
  <2>2. losses' \in 0..MaxLosses
    BY <1>4, HostingAssumption DEF VMDies, BeatTypes
  <2> QED
    BY <1>4, <2>1, <2>2 DEF VMDies, HostedTypes, BeatTypes, fenceVars, tokens
<1>5. CASE RemoveDone(w, s)
  <2>1. host' \in [Worker -> [Sandbox -> HostState]]
    BY <1>5 DEF RemoveDone, HostedTypes, HostState
  <2>2. PICK a \in {"ok", "failed"} :
            removeCall' = [removeCall EXCEPT ![s] = [o \in Origin |->
                IF @[o] # "handled" \/ cleanup[s][o].worker # w THEN @[o]
                ELSE IF cleanup[s][o].pc = "call" THEN a ELSE "none"]]
    BY <1>5, Zenon DEF RemoveDone
  <2>3. removeCall' \in [Sandbox -> [Origin -> CallState]]
    BY <2>2 DEF HostedTypes, CallState
  <2> QED
    BY <1>5, <2>1, <2>3, OrphanMoves, Zenon DEF RemoveDone, HostedTypes, BeatTypes, fenceVars, tokens
<1>6. CASE DeliverOrphanRemove(w, s)
  <2>1. PICK answer \in CallState : ManagerRemove(w, s, answer)
    BY <1>6 DEF DeliverOrphanRemove
  <2> QED
    BY <1>6, <2>1, ManagerTypes, OrphanMoves, Zenon
       DEF DeliverOrphanRemove, HostedTypes, BeatTypes, fenceVars, tokens
<1>7. ASSUME WorkOrphan(w, s) \/ \E ok \in BOOLEAN : OrphanReturns(w, s, ok)
      PROVE  HostedTypes' /\ BeatTypes'
  <2>1. UNCHANGED <<vars, hostVars, heartbeat, fenceVars, losses>>
    BY <1>7 DEF WorkOrphan, OrphanReturns
  <2> QED
    BY <1>7, <2>1, OrphanMoves DEF HostedTypes, BeatTypes, hostVars, fenceVars, tokens
<1> QED
    BY <1>1, <1>2, <1>3, <1>4, <1>5, <1>6, <1>7 DEF WorkerStep

LEMMA OrphanFields ==
    ASSUME NEW j \in OrphanJob
    PROVE  /\ [j EXCEPT !.pc = "ready"] \in OrphanJob
           /\ \A c \in CallState : [j EXCEPT !.call = c] \in OrphanJob
BY DEF OrphanJob

LEMMA HeartbeatTypes ==
    ASSUME RowTypes, HostedTypes, BeatTypes, NEW w \in Worker, HeartbeatStep(w)
    PROVE  HostedTypes' /\ BeatTypes'
<1>1. CASE WorkerRestarts(w)
  <2>1. host' \in [Worker -> [Sandbox -> HostState]]
    BY <1>1 DEF WorkerRestarts, HostedTypes, HostState, Tracked
  <2>2. createCall' \in [Sandbox -> CallState]
    BY <1>1 DEF WorkerRestarts, HostedTypes, CallState
  <2>3. removeCall' \in [Sandbox -> [Origin -> CallState]]
    BY <1>1 DEF WorkerRestarts, HostedTypes, CallState
  <2>4. orphan' \in [Worker -> [Sandbox -> OrphanJob]]
    <3> DEFINE c(s) == IF orphan[w][s].pc = "call" THEN "failed" ELSE "none"
               f == [s \in Sandbox |-> IF orphan[w][s].call = "handled"
                                       THEN [orphan[w][s] EXCEPT !.call = c(s)]
                                       ELSE orphan[w][s]]
    <3>1. \A s \in Sandbox : orphan[w][s] \in OrphanJob /\ c(s) \in CallState
      BY DEF HostedTypes, CallState
    <3>2. f \in [Sandbox -> OrphanJob]
      <4> HIDE DEF c
      <4> QED
        BY <3>1, OrphanFields, Zenon
    <3>3. orphan' = [orphan EXCEPT ![w] = f]
      BY <1>1 DEF WorkerRestarts
    <3> HIDE DEF f
    <3> QED
      BY <3>2, <3>3 DEF HostedTypes
  <2>5. losses' \in 0..MaxLosses /\ procToken' \in [Worker -> Nat]
    BY <1>1, HostingAssumption DEF WorkerRestarts, BeatTypes
  <2> QED
    BY <1>1, <2>1, <2>2, <2>3, <2>4, <2>5 DEF WorkerRestarts, HostedTypes, BeatTypes
<1>2. CASE RegisterWorker(w)
  <2>1. token' \in [Worker -> Nat] /\ procToken' \in [Worker -> Nat]
    BY <1>2 DEF RegisterWorker, BeatTypes
  <2>2. lastSeen' \in [Sandbox -> Seen]
    BY <1>2 DEF RegisterWorker, BeatTypes, Seen
  <2> QED
    BY <1>2, <2>1, <2>2 DEF RegisterWorker, HostedTypes, BeatTypes, hostVars
<1>3. ASSUME SendHeartbeat(w) \/ LoseHeartbeat(w) \/ RefuseHeartbeat(w)
      PROVE  HostedTypes' /\ BeatTypes'
  <2>1. NoHeartbeat \in [token : Nat, report : [Sandbox -> Report]]
    BY DEF NoHeartbeat, Report
  <2>2. heartbeat' \in [Worker -> [token : Nat, report : [Sandbox -> Report]]]
    BY <1>3, <2>1 DEF SendHeartbeat, LoseHeartbeat, RefuseHeartbeat, BeatTypes
  <2> QED
    BY <1>3, <2>2
       DEF SendHeartbeat, LoseHeartbeat, RefuseHeartbeat, HostedTypes, BeatTypes, hostVars,
           fenceVars, tokens
<1>4. CASE DeliverHeartbeat(w)
  <2>1. NoHeartbeat \in [token : Nat, report : [Sandbox -> Report]]
    BY DEF NoHeartbeat, Report
  <2>2. heartbeat' \in [Worker -> [token : Nat, report : [Sandbox -> Report]]]
    BY <1>4, <2>1 DEF DeliverHeartbeat, BeatTypes
  <2>3. inventoryToken' \in [Worker -> Nat]
    BY <1>4 DEF DeliverHeartbeat, BeatTypes
  <2>4. lastSeen' \in [Sandbox -> Seen]
    BY <1>4 DEF DeliverHeartbeat, BeatTypes, Seen
  <2>5. orphan' \in [Worker -> [Sandbox -> OrphanJob]]
    <3> DEFINE f == [s \in Sandbox |->
                       IF s \in Orphans(w, heartbeat[w].report) /\ orphan[w][s].pc = "none"
                       THEN [orphan[w][s] EXCEPT !.pc = "ready"] ELSE orphan[w][s]]
    <3>1. \A s \in Sandbox : orphan[w][s] \in OrphanJob
      BY DEF HostedTypes
    <3>2. f \in [Sandbox -> OrphanJob]
      BY <3>1, OrphanFields
    <3>3. orphan' = [orphan EXCEPT ![w] = f]
      BY <1>4 DEF DeliverHeartbeat
    <3> HIDE DEF f
    <3> QED
      BY <3>2, <3>3 DEF HostedTypes
  <2> QED
    BY <1>4, <2>2, <2>3, <2>4, <2>5 DEF DeliverHeartbeat, HostedTypes, BeatTypes, hostVars
<1> QED
    BY <1>1, <1>2, <1>3, <1>4 DEF HeartbeatStep

LEMMA TypesNext == RowTypes /\ HostedTypes /\ BeatTypes /\ [HostingNext]_hvars => HostedTypes' /\ BeatTypes'
<1>1. UNCHANGED hvars /\ HostedTypes /\ BeatTypes => HostedTypes' /\ BeatTypes'
    BY DEF hvars, hostVars, fenceVars, tokens, HostedTypes, BeatTypes
<1>2. ASSUME RowTypes, HostedTypes, BeatTypes, NEW expired \in SUBSET Sandbox, NEW dead \in SUBSET Sandbox,
             NEW stalled \in SUBSET Sandbox, HostedReap(expired, dead, stalled)
      PROVE  HostedTypes' /\ BeatTypes'
  <2>1. SeenFollowsRow /\ UNCHANGED <<hostVars, orphan, heartbeat, tokens, losses>>
    BY <1>2 DEF HostedReap
  <2> QED
    BY <1>2, <2>1, SeenTypes DEF HostedTypes, BeatTypes, hostVars, tokens
<1> QED
    BY <1>1, <1>2, OrchestratorTypes, DeliveryTypes, WorkerTypes, HeartbeatTypes DEF HostingNext

(* The states of calls, jobs and heartbeats, with the orchestrator's.      *)
THEOREM HostingTypeCorrect == HostingSpec => []HostingTypeOK
<1>1. Inv /\ HostedTypes /\ BeatTypes /\ [HostingNext]_hvars => (Inv /\ HostedTypes /\ BeatTypes)'
    BY RowsRefine, InvNext, TypesNext DEF Inv
<1>2. HostingInit => Inv /\ HostedTypes /\ BeatTypes
    BY InvInit, InitTypes DEF HostingInit
<1>3. TypeOK /\ HostedTypes /\ BeatTypes => HostingTypeOK
    BY SplitTypes
<1> QED
    BY <1>1, <1>2, <1>3, Refines, TypeCorrect, PTL DEF HostingSpec

-----------------------------------------------------------------------------
(* What every step leaves of a row: its worker, if it has one, and its     *)
(* end, if it has come to it.                                              *)

RowKept(s) ==
    /\ create[s].worker \in {NoWorker, create'[s].worker}
    /\ status[s] \in Ended => status'[s] \in Ended

LEMMA RowsKept ==
    ASSUME Inv, [HostingNext]_hvars
    PROVE  \A s \in Sandbox : RowKept(s)
<1>1. WorkerStays /\ StatusMoves
    BY RowsRefine, WorkerKept, StatusStep
<1>2. \A st \in Ended : \A to : <<st, to>> \in Moves => to \in Ended
    BY DEF Moves, Forward, Active, OnWorker, Ended, Terminal
<1> QED
    BY <1>1, <1>2, Zenon DEF WorkerStays, StatusMoves, RowKept

LEMMA PlaceKept ==
    ASSUME NEW s \in Sandbox, PlaceInv(s), RowKept(s),
           \A w \in Worker :
               /\ host'[w][s] # "none" => host[w][s] # "none"
               /\ heartbeat'[w].report[s] # "absent" =>
                      heartbeat[w].report[s] # "absent" \/ host[w][s] # "none"
    PROVE  PlaceInv(s)'
BY ConstantsAssumption DEF PlaceInv, RowKept

(* Nothing new is hosted or reported, of any sandbox anywhere.             *)
NothingNew ==
    \A s \in Sandbox, w \in Worker :
        /\ host'[w][s] # "none" => host[w][s] # "none"
        /\ heartbeat'[w].report[s] # "absent" =>
               heartbeat[w].report[s] # "absent" \/ host[w][s] # "none"

LEMMA ManagerRemoves ==
    ASSUME HostedTypes, NEW w, NEW s \in Sandbox, NEW answer, ManagerRemove(w, s, answer)
    PROVE  \A v \in Worker, t \in Sandbox :
               \/ host'[v][t] = host[v][t]
               \/ v = w /\ t = s /\ host[v][t] \in Tracked /\ host'[v][t] = "removing"
BY DEF HostedTypes, ManagerRemove

LEMMA WorkersBringNothing ==
    ASSUME HostedTypes, BeatTypes, NEW w \in Worker, NEW s \in Sandbox, WorkerStep(w, s)
    PROVE  NothingNew
<1>1. CASE UNCHANGED <<host, heartbeat>>
    BY <1>1 DEF NothingNew
<1>2. CASE DeliverEvent(w, s) \/ WorkOrphan(w, s) \/ \E ok \in BOOLEAN : OrphanReturns(w, s, ok)
    BY <1>1, <1>2 DEF DeliverEvent, WorkOrphan, OrphanReturns, hostVars
<1>3. CASE BootDone(w, s) \/ BootFails(w, s) \/ VMDies(w, s) \/ RemoveDone(w, s)
  <2>1. PICK st : host' = [host EXCEPT ![w][s] = st]
    BY <1>3 DEF BootDone, BootFails, VMDies, RemoveDone
  <2>2. host[w][s] # "none" /\ heartbeat' = heartbeat
    BY <1>3 DEF BootDone, BootFails, VMDies, RemoveDone
  <2> QED
    BY <2>1, <2>2 DEF HostedTypes, NothingNew
<1>4. CASE DeliverOrphanRemove(w, s)
    BY <1>4, ManagerRemoves DEF DeliverOrphanRemove, NothingNew, Tracked
<1> QED
    BY <1>2, <1>3, <1>4 DEF WorkerStep

LEMMA HeartbeatsBringNothing ==
    ASSUME HostedTypes, BeatTypes, NEW w \in Worker, HeartbeatStep(w)
    PROVE  NothingNew
<1>1. CASE WorkerRestarts(w)
    BY <1>1 DEF WorkerRestarts, HostedTypes, NothingNew
<1>2. CASE RegisterWorker(w)
    BY <1>2 DEF RegisterWorker, hostVars, NothingNew
<1>3. CASE SendHeartbeat(w)
  <2>1. PICK r \in [Sandbox -> Report] :
            /\ \A s \in Sandbox : r[s] \in Reports(host[w][s])
            /\ heartbeat' = [heartbeat EXCEPT ![w] = [token |-> procToken[w], report |-> r]]
    BY <1>3, Zenon DEF SendHeartbeat
  <2>2. \A s \in Sandbox : r[s] # "absent" => host[w][s] # "none"
    BY <2>1 DEF Reports
  <2>3. host' = host
    BY <1>3 DEF SendHeartbeat, hostVars
  <2> QED
    BY <2>1, <2>2, <2>3 DEF BeatTypes, NothingNew
<1>4. CASE LoseHeartbeat(w) \/ RefuseHeartbeat(w) \/ DeliverHeartbeat(w)
  <2>1. heartbeat' = [heartbeat EXCEPT ![w] = NoHeartbeat] /\ host' = host
    BY <1>4 DEF LoseHeartbeat, RefuseHeartbeat, DeliverHeartbeat, hostVars
  <2>2. \A s \in Sandbox : NoHeartbeat.report[s] = "absent"
    BY DEF NoHeartbeat
  <2> QED
    BY <2>1, <2>2 DEF BeatTypes, NothingNew
<1> QED
    BY <1>1, <1>2, <1>3, <1>4 DEF HeartbeatStep

(* A boot starts only at the worker the create job has.                    *)
LEMMA CreatesInPlace ==
    ASSUME HostedTypes, NEW s \in Sandbox, DeliverCreate(s) \/ DeliverLateCreate(s)
    PROVE  /\ \A v \in Worker, t \in Sandbox :
                  \/ host'[v][t] = host[v][t]
                  \/ v = create[s].worker /\ t = s /\ host[v][t] = "none" /\ host'[v][t] = "starting"
           /\ UNCHANGED <<vars, removeCall, orphan, heartbeat, losses>>
<1>1. PICK answer \in CallState, boots \in BOOLEAN :
          ManagerCreate(create[s].worker, s, answer, boots)
    BY DEF DeliverCreate, DeliverLateCreate
<1>2. \A v \in Worker, t \in Sandbox :
          \/ host'[v][t] = host[v][t]
          \/ v = create[s].worker /\ t = s /\ host[v][t] = "none" /\ host'[v][t] = "starting"
    BY <1>1, Zenon DEF ManagerCreate, HostedTypes
<1> QED
    BY <1>2 DEF DeliverCreate, DeliverLateCreate

LEMMA PlaceNext ==
    ASSUME Inv, HostedTypes, BeatTypes, [HostingNext]_hvars, \A s \in Sandbox : PlaceInv(s)
    PROVE  \A s \in Sandbox : PlaceInv(s)'
<1>0. \A s \in Sandbox : RowKept(s)
    BY RowsKept
<1>1. CASE NothingNew
    BY <1>0, <1>1, PlaceKept DEF NothingNew
<1>2. CASE UNCHANGED <<host, heartbeat>>
    BY <1>1, <1>2 DEF NothingNew
<1>3. ASSUME NEW s \in Sandbox, DeliverCreate(s) \/ DeliverLateCreate(s)
      PROVE  \A t \in Sandbox : PlaceInv(t)'
    BY <1>3, CreatesInPlace DEF PlaceInv, vars, rows
<1>4. ASSUME NEW s \in Sandbox, NEW o \in Origin, DeliverRemove(s, o)
      PROVE  NothingNew
    BY <1>4, ManagerRemoves DEF DeliverRemove, NothingNew, Tracked
<1>5. ASSUME NEW s \in Sandbox,
             \/ HostedRequest(s) \/ HostedCreateStep(s)
             \/ \E w \in Worker : HostedAssign(s, w)
             \/ \E ok \in BOOLEAN : HostedCreateReturns(s, ok)
             \/ \E o \in Origin : \/ HostedCleanupStep(s, o)
                                  \/ \E ok \in BOOLEAN : HostedRemoveReturns(s, o, ok)
      PROVE  UNCHANGED <<host, heartbeat>>
    BY <1>5, Zenon DEF HostedRequest, HostedCreateStep, HostedAssign, HostedCreateReturns,
       HostedCleanupStep, HostedRemoveReturns, hostVars
<1>6. ASSUME NEW expired, NEW dead, NEW stalled, HostedReap(expired, dead, stalled)
      PROVE  UNCHANGED <<host, heartbeat>>
    BY <1>6 DEF HostedReap, hostVars
<1>7. CASE UNCHANGED hvars
    BY <1>2, <1>7 DEF hvars, hostVars
<1> QED
    BY <1>1, <1>2, <1>3, <1>4, <1>5, <1>6, <1>7, WorkersBringNothing, HeartbeatsBringNothing
       DEF HostingNext

-----------------------------------------------------------------------------
(* Removals.                                                               *)

(* No removal under way is of a sandbox that had none under way, unless    *)
(* that sandbox has ended.                                                 *)
RemovalsOfEnded ==
    \A s \in Sandbox :
        /\ \A o \in Origin :
               removeCall'[s][o] # "none" => removeCall[s][o] # "none" \/ status'[s] \in Ended
        /\ \A w \in Worker :
               /\ orphan'[w][s] # NoOrphanJob =>
                      orphan[w][s] # NoOrphanJob \/ status'[s] \in Ended
               /\ host'[w][s] = "removing" => host[w][s] = "removing" \/ status'[s] \in Ended

LEMMA EndKept ==
    ASSUME RemovalsOfEnded, \A s \in Sandbox : EndInv(s) /\ RowKept(s)
    PROVE  \A s \in Sandbox : EndInv(s)'
BY DEF EndInv, RowKept, RemovalsOfEnded

(* A cleanup job calls only for a sandbox that was claimed.                *)
LEMMA CleanupRemovals ==
    ASSUME Inv, HostedTypes, Inv', NEW s \in Sandbox, NEW o \in Origin,
           HostedCleanupStep(s, o) \/ \E ok \in BOOLEAN : HostedRemoveReturns(s, o, ok)
    PROVE  RemovalsOfEnded
<1>1. RemoveFollowsJob(s, o) /\ UNCHANGED <<host, orphan>>
    BY Zenon DEF HostedCleanupStep, HostedRemoveReturns
<1>2. cleanup'[s][o].pc = "call" => status'[s] \in Ended
    BY DEF Inv, SandboxInv, CleanupInv
<1>3. \A t \in Sandbox, q \in Origin :
          removeCall'[t][q] # "none" =>
              removeCall[t][q] # "none" \/ (t = s /\ q = o /\ cleanup'[s][o].pc = "call")
    BY <1>1 DEF RemoveFollowsJob, HostedTypes
<1> QED
    BY <1>1, <1>2, <1>3 DEF RemovalsOfEnded

LEMMA DeliveredRemovals ==
    ASSUME HostedTypes, NEW s \in Sandbox, EndInv(s), NEW o \in Origin, DeliverRemove(s, o)
    PROVE  RemovalsOfEnded
<1>1. PICK answer \in CallState :
          /\ ManagerRemove(cleanup[s][o].worker, s, answer)
          /\ removeCall' = [removeCall EXCEPT
                 ![s][o] = IF cleanup[s][o].pc = "call" \/ answer = "handled"
                           THEN answer ELSE "none"]
    BY Zenon DEF DeliverRemove
<1>2. status'[s] \in Ended /\ orphan' = orphan
    BY DEF DeliverRemove, EndInv, vars, rows
<1>3. \A t \in Sandbox, q \in Origin : t # s => removeCall'[t][q] = removeCall[t][q]
    BY <1>1 DEF HostedTypes
<1>4. \A w \in Worker, t \in Sandbox : t # s => host'[w][t] = host[w][t]
    BY <1>1, ManagerRemoves
<1> QED
    BY <1>2, <1>3, <1>4 DEF RemovalsOfEnded

LEMMA SentIsJob ==
    ASSUME NEW job, job.call = "sent"
    PROVE  job # NoOrphanJob
<1>1. NoOrphanJob.call = "none"
    BY DEF NoOrphanJob
<1> QED
    BY <1>1

LEMMA WorkerRemovals ==
    ASSUME HostedTypes, NEW w \in Worker, NEW s \in Sandbox, EndInv(s), WorkerStep(w, s)
    PROVE  RemovalsOfEnded
<1>1. CASE DeliverEvent(w, s)
    BY <1>1 DEF DeliverEvent, hostVars, RemovalsOfEnded
<1>2. CASE BootDone(w, s) \/ BootFails(w, s) \/ VMDies(w, s)
  <2>1. PICK st \in {"running", "none", "dead"} : host' = [host EXCEPT ![w][s] = st]
    BY <1>2 DEF BootDone, BootFails, VMDies
  <2>2. UNCHANGED <<removeCall, orphan>>
    BY <1>2 DEF BootDone, BootFails, VMDies
  <2> QED
    BY <2>1, <2>2 DEF HostedTypes, RemovalsOfEnded
<1>3. CASE RemoveDone(w, s)
  <2>1. status'[s] \in Ended
    BY <1>3 DEF RemoveDone, EndInv, vars, rows
  <2>2. \A v \in Worker, t \in Sandbox : t # s => host'[v][t] = host[v][t]
    BY <1>3 DEF RemoveDone, HostedTypes
  <2>3. \A t \in Sandbox, q \in Origin : t # s => removeCall'[t][q] = removeCall[t][q]
    BY <1>3 DEF RemoveDone, HostedTypes
  <2> QED
    BY <1>3, <2>1, <2>2, <2>3, OrphanMoves DEF RemovalsOfEnded
<1>4. CASE DeliverOrphanRemove(w, s)
  <2>0. orphan[w][s] # NoOrphanJob /\ status' = status /\ removeCall' = removeCall
    BY <1>4, SentIsJob, Zenon DEF DeliverOrphanRemove, vars, rows
  <2>1. status'[s] \in Ended /\ removeCall' = removeCall
    BY <2>0 DEF EndInv
  <2>2. \A v \in Worker, t \in Sandbox : t # s => host'[v][t] = host[v][t]
    BY <1>4, ManagerRemoves DEF DeliverOrphanRemove
  <2> QED
    BY <1>4, <2>1, <2>2, OrphanMoves DEF RemovalsOfEnded
<1>5. CASE WorkOrphan(w, s) \/ \E ok \in BOOLEAN : OrphanReturns(w, s, ok)
  <2>1. UNCHANGED hostVars
    BY <1>5 DEF WorkOrphan, OrphanReturns
  <2> QED
    BY <1>5, <2>1, OrphanMoves DEF RemovalsOfEnded, hostVars
<1> QED
    BY <1>1, <1>2, <1>3, <1>4, <1>5 DEF WorkerStep

(* A reported sandbox is the worker's unless its row has ended, so that no *)
(* sandbox in use is taken for an orphan.                                  *)
LEMMA OrphansEnded ==
    ASSUME Inv, NEW w \in Worker, NEW s \in Sandbox, PlaceInv(s), s \in Orphans(w, heartbeat[w].report)
    PROVE  status[s] \in Ended
<1>1. create[s].worker = w /\ w # NoWorker
    BY ConstantsAssumption DEF Orphans, PlaceInv
<1>2. status[s] \in Status /\ LinkInv(s)
    BY DEF Inv, RowTypes, SandboxInv
<1>3. status[s] \notin {"absent", "pending", "scheduling"}
    BY <1>1, <1>2 DEF LinkInv
<1>4. status[s] \notin OnWorker
    BY <1>1, <1>2 DEF LinkInv, Orphans, OnWorker, Terminal
<1> QED
    BY <1>2, <1>3, <1>4 DEF Status, Active

LEMMA HeartbeatRemovals ==
    ASSUME Inv, HostedTypes, BeatTypes, NEW w \in Worker, HeartbeatStep(w),
           \A s \in Sandbox : PlaceInv(s) /\ EndInv(s) /\ RowKept(s)
    PROVE  RemovalsOfEnded
<1>1. CASE WorkerRestarts(w)
  <2>1. \A v \in Worker, t \in Sandbox : host'[v][t] = "removing" => host[v][t] = "removing"
    BY <1>1 DEF WorkerRestarts, HostedTypes
  <2>2. \A t \in Sandbox, q \in Origin : removeCall'[t][q] # "none" => removeCall[t][q] # "none"
    BY <1>1 DEF WorkerRestarts, HostedTypes
  <2>3. \A v \in Worker, t \in Sandbox : orphan[v][t] = NoOrphanJob => orphan'[v][t] = NoOrphanJob
    BY <1>1 DEF WorkerRestarts, HostedTypes, NoOrphanJob
  <2> QED
    BY <2>1, <2>2, <2>3 DEF RemovalsOfEnded
<1>2. CASE DeliverHeartbeat(w)
  <2>1. \A t \in Sandbox : t \in Orphans(w, heartbeat[w].report) => status'[t] \in Ended
    BY OrphansEnded DEF RowKept
  <2>2. \A v \in Worker, t \in Sandbox :
            orphan'[v][t] = orphan[v][t] \/ t \in Orphans(w, heartbeat[w].report)
    BY <1>2 DEF DeliverHeartbeat, HostedTypes
  <2>3. UNCHANGED hostVars
    BY <1>2 DEF DeliverHeartbeat
  <2> QED
    BY <2>1, <2>2, <2>3 DEF RemovalsOfEnded, hostVars
<1>3. CASE RegisterWorker(w) \/ SendHeartbeat(w) \/ LoseHeartbeat(w) \/ RefuseHeartbeat(w)
    BY <1>3, Zenon DEF RegisterWorker, SendHeartbeat, LoseHeartbeat, RefuseHeartbeat, hostVars,
       RemovalsOfEnded
<1> QED
    BY <1>1, <1>2, <1>3 DEF HeartbeatStep

LEMMA EndNext ==
    ASSUME Inv, HostedTypes, BeatTypes, [HostingNext]_hvars,
           \A s \in Sandbox : PlaceInv(s) /\ EndInv(s)
    PROVE  \A s \in Sandbox : EndInv(s)'
<1>0. Inv' /\ \A s \in Sandbox : RowKept(s)
    BY RowsKept, RowsRefine, InvNext
<1>1. CASE UNCHANGED <<host, removeCall, orphan>>
    BY <1>0, <1>1, EndKept DEF RemovalsOfEnded
<1>2. ASSUME NEW s \in Sandbox,
             \/ HostedRequest(s) \/ HostedCreateStep(s)
             \/ \E w \in Worker : HostedAssign(s, w)
             \/ \E ok \in BOOLEAN : HostedCreateReturns(s, ok)
      PROVE  UNCHANGED <<host, removeCall, orphan>>
    BY <1>2, Zenon DEF HostedRequest, HostedCreateStep, HostedAssign, HostedCreateReturns, hostVars
<1>3. ASSUME NEW expired, NEW dead, NEW stalled, HostedReap(expired, dead, stalled)
      PROVE  UNCHANGED <<host, removeCall, orphan>>
    BY <1>3 DEF HostedReap, hostVars
<1>4. CASE UNCHANGED hvars
    BY <1>1, <1>4 DEF hvars, hostVars
<1>5. ASSUME NEW s \in Sandbox, DeliverCreate(s) \/ DeliverLateCreate(s)
      PROVE  RemovalsOfEnded
    BY <1>5, CreatesInPlace DEF RemovalsOfEnded
<1>6. CASE RemovalsOfEnded
    BY <1>0, <1>6, EndKept
<1> QED
    BY <1>0, <1>1, <1>2, <1>3, <1>4, <1>5, <1>6, CleanupRemovals, DeliveredRemovals,
       WorkerRemovals, HeartbeatRemovals DEF HostingNext

-----------------------------------------------------------------------------
(* The VM of a row in use.                                                 *)

(* A step that leaves the create job, takes no VM of a sandbox in use, and *)
(* answers ok only of one that is tracked.                                 *)
Spared(s) ==
    /\ create'[s] = create[s]
    /\ createCall'[s] # "none" => createCall[s] # "none"
    /\ losses' = 0 /\ status'[s] \notin Ended =>
           /\ losses = 0
           /\ createCall'[s] = "ok" =>
                  createCall[s] = "ok" \/ host'[create[s].worker][s] \in Tracked
           /\ status'[s] \in {"starting", "running"} => status[s] \in {"starting", "running"}
           /\ \A w \in Worker : host[w][s] \in Tracked => host'[w][s] \in Tracked

LEMMA CountedPlaced ==
    ASSUME Inv, NEW s \in Sandbox, VMInv(s), Vouched(s)
    PROVE  create[s].worker \in Worker
<1>1. workerId[s] \in Worker \cup {NoWorker} /\ LinkInv(s)
    BY DEF Inv, RowTypes, SandboxInv
<1> QED
    BY <1>1, ConstantsAssumption DEF VMInv, Vouched, LinkInv, OnWorker

LEMMA SparedKeeps ==
    ASSUME Inv, NEW s \in Sandbox, VMInv(s), RowKept(s), Spared(s)
    PROVE  VMInv(s)'
<1>1. Vouched(s) => create[s].worker \in Worker
    BY CountedPlaced
<1>2. createCall'[s] # "none" => create'[s].pc = "call"
    BY DEF VMInv, Spared
<1>3. create'[s].pc \in {"call", "starting"} => create'[s].worker \in Worker
    BY DEF VMInv, Spared
<1>4. ASSUME losses' = 0, status'[s] \notin Ended, Vouched(s)'
      PROVE  host'[create'[s].worker][s] \in Tracked
  <2>1. CASE Vouched(s)
    BY <1>1, <1>4, <2>1 DEF VMInv, Spared, RowKept
  <2>2. CASE ~Vouched(s)
    BY <1>4, <2>2 DEF Vouched, Spared
  <2> QED
    BY <2>1, <2>2
<1> QED
    BY <1>2, <1>3, <1>4 DEF VMInv

(* A create job moves from statement to statement.                         *)
JobMoves(s) ==
    /\ \A t \in Sandbox \ {s} : create'[t] = create[t] /\ status'[t] = status[t]
    /\ create'[s].pc = "call" => create'[s].worker \in Worker
    /\ create'[s].pc # "starting"
    /\ status'[s] \in {"starting", "running"} =>
           status[s] \in {"starting", "running"} \/ create[s].pc = "starting"

LEMMA GotoPC ==
    ASSUME Inv, NEW s \in Sandbox, NEW pc \in CreatePC, CreateGoto(s, pc)
    PROVE  /\ create'[s].pc = pc
           /\ create'[s].worker = create[s].worker
           /\ \A t \in Sandbox \ {s} : create'[t] = create[t]
<1> DEFINE job == [create[s] EXCEPT !.pc = pc, !.candidates = {}, !.droppedFull = FALSE]
<1>1. create[s] \in CreateJob
    BY DEF Inv, RowTypes
<1>2. job \in CreateJob /\ job.pc = pc /\ job.worker = create[s].worker
    BY <1>1, GotoFields, Zenon
<1>3. CreateBecomes(s, job)
    BY DEF CreateGoto
<1> HIDE DEF job
<1> QED
    BY <1>2, <1>3, CreateBecomesFacts DEF Inv

(* The steps that go on, wait or end.                                      *)
LEMMA GotoMoves ==
    ASSUME Inv, NEW s \in Sandbox,
           \/ CreateSandbox(s) \/ StepScheduling(s) \/ NoWorkerChosen(s) \/ StepStarting(s)
           \/ ReadAcknowledge(s) \/ StepAcknowledge(s) \/ MovedUnder(s) \/ GiveUp(s)
           \/ CreateFails(s)
    PROVE  JobMoves(s)
<1>1. create[s] \in CreateJob
    BY DEF Inv, RowTypes
<1>2. PICK pc \in {"ready", "pick", "moved", "giveup", "ack", "confirm", "completed",
                   "cancelled", RiverError(create[s]), MaybeCleanup(create[s])} : CreateGoto(s, pc)
    BY Zenon DEF CreateSandbox, StepScheduling, NoWorkerChosen, StepStarting, ReadAcknowledge,
           StepAcknowledge, MovedUnder, GiveUp, CreateFails, SettledPC, Replies
<1>3. pc \in CreatePC /\ pc \notin {"call", "starting"}
    BY <1>1, <1>2, ErrorPC, Zenon DEF CreatePC
<1>4. /\ \A t \in Sandbox \ {s} : status'[t] = status[t]
      /\ status'[s] \in {"starting", "running"} =>
             status[s] \in {"starting", "running"} \/ create[s].pc = "starting"
    BY Zenon DEF CreateSandbox, StepScheduling, NoWorkerChosen, StepStarting, ReadAcknowledge,
           StepAcknowledge, MovedUnder, GiveUp, CreateFails, UpdateStatus, Inv, RowTypes
<1> QED
    BY <1>2, <1>3, <1>4, GotoPC DEF JobMoves

(* An attempt goes straight to its call only for a row that names a worker *)
LEMMA AttemptMoves ==
    ASSUME Inv, NEW s \in Sandbox, WorkCreate(s) \/ CreateReadFails(s)
    PROVE  JobMoves(s)
<1>0. create[s] \in CreateJob /\ create[s].attempt < MaxAttempts
      /\ workerId[s] \in Worker \cup {NoWorker} /\ UNCHANGED status
    BY DEF Inv, RowTypes, SandboxInv, CreateInv, WorkCreate, CreateReadFails
<1> DEFINE j1 == [create[s] EXCEPT !.attempt = @ + 1]
           w == IF workerId[s] = NoWorker THEN j1.worker ELSE workerId[s]
           j2 == [j1 EXCEPT !.worker = w]
<1>1. j1 \in CreateJob
    BY <1>0, CreateAttemptField, Zenon
<1>2. w \in Worker \cup {NoWorker}
    BY <1>0, <1>1 DEF CreateJob
<1>3. j2 \in CreateJob /\ j2.worker = w
    BY <1>1, <1>2, CreateWorkerField, Zenon
<1>4. CASE WorkCreate(s)
  <2> DEFINE pc == StepFor(status[s], workerId[s], j2)
             job == [j2 EXCEPT !.pc = pc]
  <2>1. CreateBecomes(s, job)
    BY <1>4 DEF WorkCreate
  <2>2. pc \in CreatePC /\ pc # "starting" /\ (pc = "call" => workerId[s] # NoWorker)
    BY <1>3, ErrorPC DEF StepFor, SettledPC, CreatePC
  <2>3. pc = "call" => w \in Worker
    BY <1>0, <2>2
  <2> HIDE DEF j2, pc, w
  <2>4. job \in CreateJob /\ job.worker = w /\ job.pc = pc
    BY <1>3, <2>2, CreatePCField
  <2> HIDE DEF job
  <2> QED
    BY <1>0, <2>1, <2>2, <2>3, <2>4, CreateBecomesFacts, Zenon DEF Inv, JobMoves
<1>5. CASE CreateReadFails(s)
  <2> DEFINE pc == RiverError(j1)
             job == [j1 EXCEPT !.pc = pc]
  <2>1. CreateBecomes(s, job)
    BY <1>5 DEF CreateReadFails
  <2>2. pc \in CreatePC /\ pc \notin {"call", "starting"}
    BY <1>1, ErrorPC DEF CreatePC
  <2> HIDE DEF j1, pc
  <2>3. job \in CreateJob /\ job.pc = pc
    BY <1>1, <2>2, CreatePCField
  <2> HIDE DEF job
  <2> QED
    BY <1>0, <2>1, <2>2, <2>3, CreateBecomesFacts DEF Inv, JobMoves
<1> QED
    BY <1>4, <1>5

LEMMA BuildMoves ==
    ASSUME Inv, NEW s \in Sandbox, BuildCandidates(s)
    PROVE  JobMoves(s)
<1>0. create[s] \in CreateJob /\ UNCHANGED status
    BY DEF Inv, RowTypes, BuildCandidates
<1>1. PICK c \in SUBSET Worker :
          CreateBecomes(s, [create[s] EXCEPT !.pc = "assign", !.candidates = c,
                                             !.droppedFull = FALSE])
    BY Zenon DEF BuildCandidates
<1> DEFINE job == [create[s] EXCEPT !.pc = "assign", !.candidates = c, !.droppedFull = FALSE]
<1>2. job \in CreateJob /\ job.pc = "assign"
    BY <1>0, BuildFields, Zenon
<1>3. CreateBecomes(s, job)
    BY <1>1
<1> HIDE DEF job
<1> QED
    BY <1>0, <1>2, <1>3, CreateBecomesFacts DEF Inv, JobMoves

LEMMA AssignMoves ==
    ASSUME Inv, NEW s \in Sandbox, NEW w \in Worker, AssignWorker(s, w)
    PROVE  JobMoves(s)
<1>0. create[s] \in CreateJob /\ status \in [Sandbox -> Status] /\ create[s].pc = "assign"
    BY Zenon DEF Inv, RowTypes, AssignWorker
<1>1. /\ \A t \in Sandbox \ {s} : status'[t] = status[t]
      /\ status'[s] \in {status[s], "assigned"}
    BY <1>0, Zenon DEF AssignWorker
<1>2. CASE CreateGoto(s, "moved")
  <2>1. "moved" \in CreatePC
    BY DEF CreatePC
  <2> QED
    BY <1>1, <1>2, <2>1, GotoPC DEF JobMoves
<1>3. ASSUME NEW pc \in {"call", MaybeCleanup(create[s])},
             CreateBecomes(s, [create[s] EXCEPT !.pc = pc, !.candidates = {},
                                                !.droppedFull = FALSE, !.worker = w])
      PROVE  JobMoves(s)
  <2>1. pc \in CreatePC /\ pc # "starting"
    BY <1>0, ErrorPC DEF CreatePC
  <2> DEFINE j1 == [create[s] EXCEPT !.pc = pc, !.candidates = {}, !.droppedFull = FALSE]
             job == [j1 EXCEPT !.worker = w]
  <2>2. j1 \in CreateJob /\ j1.pc = pc
    BY <1>0, <2>1, GotoFields, Zenon
  <2>3. CreateBecomes(s, job)
    BY <1>3
  <2> HIDE DEF j1
  <2>4. job \in CreateJob /\ job.pc = pc /\ job.worker = w
    BY <2>2, CreateWorkerField
  <2> HIDE DEF job
  <2> QED
    BY <1>1, <2>1, <2>3, <2>4, CreateBecomesFacts DEF Inv, JobMoves
<1>4. CASE CreateBecomes(s, [create[s] EXCEPT !.candidates = @ \ {w}, !.droppedFull = TRUE])
  <2> DEFINE c == create[s].candidates \ {w}
             j1 == [create[s] EXCEPT !.candidates = c]
             job == [j1 EXCEPT !.droppedFull = TRUE]
  <2>1. CreateBecomes(s, job)
    BY <1>4
  <2>2. j1 \in CreateJob /\ j1.pc = create[s].pc
    BY <1>0 DEF CreateJob
  <2> HIDE DEF j1
  <2>3. job \in CreateJob /\ job.pc = create[s].pc
    BY <2>2, Zenon DEF CreateJob
  <2> HIDE DEF job
  <2> QED
    BY <1>0, <1>1, <2>1, <2>3, CreateBecomesFacts DEF Inv, JobMoves
<1> QED
    BY <1>2, <1>3, <1>4, Zenon DEF AssignWorker, Replies

(* The job goes on to its next statement, in place of an answer with none. *)
LEMMA MovesKeep ==
    ASSUME Inv, HostedTypes, NEW s \in Sandbox, JobMoves(s), CallFollowsJob(s),
           UNCHANGED <<host, losses>>, \A t \in Sandbox : VMInv(t) /\ RowKept(t)
    PROVE  \A t \in Sandbox : VMInv(t)'
<1>1. \A t \in Sandbox \ {s} : createCall'[t] = createCall[t]
    BY DEF CallFollowsJob, HostedTypes
<1>2. \A t \in Sandbox \ {s} : Spared(t)
    BY <1>1 DEF JobMoves, Spared
<1>3. createCall'[s] = IF create'[s].pc # "call" THEN "none"
                       ELSE IF create[s].pc # "call" THEN "sent" ELSE createCall[s]
    BY DEF CallFollowsJob, HostedTypes
<1>4. /\ createCall'[s] # "none" => create'[s].pc = "call"
      /\ create'[s].pc \in {"call", "starting"} => create'[s].worker \in Worker
    BY <1>3 DEF JobMoves
<1>5. ASSUME losses' = 0, status'[s] \notin Ended, Vouched(s)'
      PROVE  host'[create'[s].worker][s] \in Tracked
  <2>1. Vouched(s)
    BY <1>3, <1>5 DEF Vouched, JobMoves
  <2>2. create'[s].worker = create[s].worker
    BY <2>1, CountedPlaced, ConstantsAssumption DEF RowKept
  <2> QED
    BY <1>5, <2>1, <2>2, Zenon DEF VMInv, RowKept
<1> QED
    BY <1>2, <1>4, <1>5, SparedKeeps, SMTT(20) DEF VMInv

(* The answer ok, after which the job says starting, is one of a worker    *)
(* that tracks the sandbox.                                                *)
LEMMA ReturnKeeps ==
    ASSUME Inv, HostedTypes, NEW s \in Sandbox, NEW ok \in BOOLEAN, HostedCreateReturns(s, ok),
           \A t \in Sandbox : VMInv(t) /\ RowKept(t)
    PROVE  \A t \in Sandbox : VMInv(t)'
<1>0. /\ ok => createCall[s] = "ok"
      /\ create[s].pc = "call"
      /\ CreateGoto(s, IF ok THEN "starting" ELSE MaybeCleanup(create[s]))
      /\ CallFollowsJob(s)
      /\ UNCHANGED <<status, host, losses>>
    BY DEF HostedCreateReturns, CreateCallReturns
<1> DEFINE pc == IF ok THEN "starting" ELSE MaybeCleanup(create[s])
<1>1. pc \in CreatePC /\ pc # "call" /\ (pc = "starting" => ok)
  <2>1. create[s] \in CreateJob
    BY DEF Inv, RowTypes
  <2> QED
    BY <2>1, ErrorPC DEF CreatePC
<1>2. CreateGoto(s, pc)
    BY <1>0
<1> HIDE DEF pc
<1>3. /\ create'[s].pc = pc
      /\ create'[s].worker = create[s].worker
      /\ \A t \in Sandbox \ {s} : create'[t] = create[t]
    BY <1>1, <1>2, GotoPC
<1>4. /\ createCall'[s] = "none"
      /\ \A t \in Sandbox \ {s} : createCall'[t] = createCall[t]
    BY <1>0, <1>1, <1>3, SMTT(20) DEF CallFollowsJob, HostedTypes
<1>5. \A t \in Sandbox \ {s} : Spared(t)
    BY <1>0, <1>3, <1>4 DEF Spared
<1>6. VMInv(s)'
  <2>1. create[s].worker \in Worker
    BY <1>0 DEF VMInv
  <2>2. Vouched(s)' => Vouched(s)
    BY <1>0, <1>1, <1>3, <1>4, Zenon DEF Vouched
  <2> QED
    BY <1>0, <1>3, <1>4, <2>1, <2>2, Zenon DEF VMInv
<1> QED
    BY <1>5, <1>6, SparedKeeps

(* Claims, cleanups and reports leave the create jobs and the hosts, and   *)
(* none says starting of a row that was not.                               *)
LEMMA RowsSpare ==
    ASSUME Inv, UNCHANGED <<create, createCall, host, losses>>,
           \/ \E s \in Sandbox :
                  \/ DeleteSandbox(s) \/ IngestSandboxEvent(s)
                  \/ \E o \in Origin :
                         CleanupStep(s, o) \/ CleanupFails(s, o) \/ CleanupReadFails(s, o)
           \/ Reap \/ Reconcile \/ UNCHANGED status
    PROVE  \A s \in Sandbox : Spared(s)
<1>1. \A s \in Sandbox : status'[s] \in {"starting", "running"} => status[s] \in {"starting", "running"}
  <2>0. status \in [Sandbox -> Status] /\ cleanup \in [Sandbox -> [Origin -> CleanupJob]]
    BY DEF Inv, RowTypes
  <2>1. CASE UNCHANGED status
    BY <2>1
  <2>2. ASSUME NEW s \in Sandbox, DeleteSandbox(s) \/ IngestSandboxEvent(s)
        PROVE  \A t \in Sandbox :
                   status'[t] \in {"starting", "running"} => status[t] \in {"starting", "running"}
    BY <2>0, <2>2 DEF DeleteSandbox, IngestSandboxEvent, UpdateStatus
  <2>3. ASSUME NEW s \in Sandbox, NEW o \in Origin, FinishCleanup(s, o)
        PROVE  \A t \in Sandbox :
                   status'[t] \in {"starting", "running"} => status[t] \in {"starting", "running"}
    <3>1. PICK to \in {"failed", "stopped"} : UpdateStatus(s, to, Active \cup {"cleanup_pending"})
      BY <2>0, <2>3 DEF FinishCleanup, CleanupJob
    <3> QED
      BY <2>0, <3>1 DEF UpdateStatus
  <2>4. ASSUME NEW s \in Sandbox, NEW o \in Origin,
               CleanupStep(s, o) \/ CleanupFails(s, o) \/ CleanupReadFails(s, o)
        PROVE  UNCHANGED status \/ FinishCleanup(s, o)
    BY <2>4, Zenon DEF CleanupStep, WorkCleanup, RemoveCallReturns, ClearWorker, CleanupFails,
       CleanupReadFails
  <2>5. CASE Reap
    BY <2>5, Zenon DEF Reap, ReapSandboxes, Claimed
  <2>6. CASE Reconcile
    BY <2>6, Zenon DEF Reconcile, ReconcileInventory
  <2> QED
    BY <2>1, <2>2, <2>3, <2>4, <2>5, <2>6
<1> QED
    BY <1>1, Zenon DEF Spared

LEMMA RequestKeeps ==
    ASSUME Inv, NEW s \in Sandbox, HostedRequest(s), \A t \in Sandbox : VMInv(t) /\ RowKept(t)
    PROVE  \A t \in Sandbox : VMInv(t)'
<1>0. UNCHANGED <<createCall, host, losses>>
    BY DEF HostedRequest, hostVars
<1>1. CASE DeleteSandbox(s)
  <2>1. UNCHANGED create
    BY <1>1 DEF DeleteSandbox
  <2> QED
    BY <1>0, <1>1, <2>1, RowsSpare, SparedKeeps
<1>2. CASE CreateSandbox(s)
  <2>1. /\ create'[s].pc = "ready"
        /\ \A t \in Sandbox \ {s} : create'[t] = create[t]
    <3>1. CreateGoto(s, "ready") /\ "ready" \in CreatePC
      BY <1>2 DEF CreateSandbox, CreatePC
    <3> QED
      BY <3>1, GotoPC
  <2>2. status'[s] = "pending" /\ \A t \in Sandbox \ {s} : status'[t] = status[t]
    BY <1>2 DEF CreateSandbox, Inv, RowTypes
  <2>3. createCall[s] = "none"
    BY <1>2, SMTT(20) DEF CreateSandbox, Inv, SandboxInv, CreateInv, VMInv
  <2>4. \A t \in Sandbox \ {s} : Spared(t)
    BY <1>0, <2>1, <2>2 DEF Spared
  <2>5. VMInv(s)'
    BY <1>0, <2>1, <2>2, <2>3 DEF VMInv, Vouched
  <2> QED
    BY <2>4, <2>5, SparedKeeps
<1> QED
    BY <1>1, <1>2 DEF HostedRequest

(* The worker's answer to a create is ok if it has the VM.                 *)
LEMMA CreatesSpare ==
    ASSUME HostedTypes, NEW s \in Sandbox, VMInv(s), DeliverCreate(s) \/ DeliverLateCreate(s)
    PROVE  \A t \in Sandbox : Spared(t)
<1>1. /\ UNCHANGED <<vars, losses>>
      /\ \A v \in Worker, t \in Sandbox :
             host'[v][t] = host[v][t] \/ (host[v][t] = "none" /\ host'[v][t] = "starting")
    BY CreatesInPlace
<1>2. \A v \in Worker, t \in Sandbox : host[v][t] \in Tracked => host'[v][t] \in Tracked
    BY <1>1, Zenon DEF Tracked
<1>3. CASE DeliverLateCreate(s)
  <2>1. UNCHANGED createCall
    BY <1>3 DEF DeliverLateCreate
  <2> QED
    BY <1>1, <1>2, <2>1 DEF Spared, vars, rows
<1>4. CASE DeliverCreate(s)
  <2>1. PICK answer \in CallState, boots \in BOOLEAN :
            /\ ManagerCreate(create[s].worker, s, answer, boots)
            /\ createCall' = [createCall EXCEPT ![s] = answer]
    BY <1>4, Zenon DEF DeliverCreate
  <2>2. createCall[s] = "sent" /\ create[s].worker \in Worker
    BY <1>4 DEF DeliverCreate, VMInv
  <2>3. answer = "ok" => host'[create[s].worker][s] \in Tracked
    BY <2>1 DEF ManagerCreate
  <2>4. createCall'[s] = answer /\ \A t \in Sandbox \ {s} : createCall'[t] = createCall[t]
    BY <2>1 DEF HostedTypes
  <2> QED
    BY <1>1, <1>2, <2>2, <2>3, <2>4 DEF Spared, vars, rows
<1> QED
    BY <1>3, <1>4

(* A removal is of a sandbox out of use, and ends only a boot under way.   *)
LEMMA RemovesSpare ==
    ASSUME HostedTypes, NEW w, NEW s \in Sandbox, NEW answer, ManagerRemove(w, s, answer),
           UNCHANGED <<vars, losses>>, status[s] \in Ended
    PROVE  \A t \in Sandbox : Spared(t)
<1>1. \A v \in Worker, t \in Sandbox \ {s} : host'[v][t] = host[v][t]
    BY ManagerRemoves
<1>2. /\ \A t \in Sandbox \ {s} : createCall'[t] = createCall[t]
      /\ createCall'[s] # "none" => createCall[s] # "none"
    BY DEF ManagerRemove, Answered, HostedTypes
<1> QED
    BY <1>1, <1>2, Zenon DEF Spared, vars, rows

LEMMA WorkersSpare ==
    ASSUME Inv, HostedTypes, BeatTypes, NEW w \in Worker, NEW s \in Sandbox, WorkerStep(w, s),
           PlaceInv(s), EndInv(s), VMInv(s)
    PROVE  \A t \in Sandbox : Spared(t)
<1>1. CASE BootDone(w, s)
  <2>1. create[s].worker = w
    BY <1>1 DEF BootDone, PlaceInv
  <2>2. /\ host'[w][s] = "running"
        /\ \A v \in Worker, t \in Sandbox : host'[v][t] = host[v][t] \/ (v = w /\ t = s)
    BY <1>1 DEF BootDone, HostedTypes
  <2>3. /\ createCall'[s] # "none" => createCall[s] # "none"
        /\ \A t \in Sandbox \ {s} : createCall'[t] = createCall[t]
    BY <1>1 DEF BootDone, Answered, HostedTypes
  <2>4. UNCHANGED <<vars, losses>>
    BY <1>1 DEF BootDone
  <2> QED
    BY <2>1, <2>2, <2>3, <2>4, Zenon DEF Spared, vars, rows, Tracked
<1>2. CASE BootFails(w, s) \/ VMDies(w, s)
  <2>1. losses' # 0 /\ UNCHANGED vars
    BY <1>2, HostingAssumption DEF BootFails, VMDies, BeatTypes
  <2>2. \A t \in Sandbox : createCall'[t] # "none" => createCall[t] # "none"
    BY <1>2 DEF BootFails, VMDies, Answered, HostedTypes
  <2> QED
    BY <2>1, <2>2, Zenon DEF Spared, vars, rows
<1>3. CASE RemoveDone(w, s)
  <2>1. status[s] \in Ended
    BY <1>3 DEF RemoveDone, EndInv
  <2>2. \A v \in Worker, t \in Sandbox \ {s} : host'[v][t] = host[v][t]
    BY <1>3, Zenon DEF RemoveDone, HostedTypes
  <2>3. UNCHANGED <<vars, createCall, losses>>
    BY <1>3 DEF RemoveDone
  <2> QED
    BY <2>1, <2>2, <2>3, Zenon DEF Spared, vars, rows
<1>4. CASE DeliverOrphanRemove(w, s)
  <2>0. orphan[w][s] # NoOrphanJob /\ UNCHANGED <<vars, losses>>
    BY <1>4, SentIsJob, Zenon DEF DeliverOrphanRemove
  <2>1. status[s] \in Ended
    BY <2>0 DEF EndInv
  <2>2. PICK answer \in CallState : ManagerRemove(w, s, answer)
    BY <1>4 DEF DeliverOrphanRemove
  <2> QED
    BY <2>0, <2>1, <2>2, RemovesSpare
<1>5. CASE WorkOrphan(w, s) \/ \E ok \in BOOLEAN : OrphanReturns(w, s, ok)
    BY <1>5, RowsSpare, Zenon DEF WorkOrphan, OrphanReturns, hostVars, vars, rows
<1>6. CASE DeliverEvent(w, s)
  <2>1. IngestSandboxEvent(s) /\ UNCHANGED <<create, createCall, host, losses>>
    BY <1>6, Zenon DEF DeliverEvent, IngestSandboxEvent, hostVars
  <2> QED
    BY <2>1, RowsSpare
<1> QED
    BY <1>1, <1>2, <1>3, <1>4, <1>5, <1>6 DEF WorkerStep

LEMMA HeartbeatsSpare ==
    ASSUME Inv, HostedTypes, BeatTypes, NEW w \in Worker, HeartbeatStep(w)
    PROVE  \A t \in Sandbox : Spared(t)
<1>1. CASE WorkerRestarts(w)
  <2>1. losses' # 0 /\ UNCHANGED vars
    BY <1>1, HostingAssumption DEF WorkerRestarts, BeatTypes
  <2>2. \A t \in Sandbox : createCall'[t] # "none" => createCall[t] # "none"
    BY <1>1 DEF WorkerRestarts
  <2> QED
    BY <2>1, <2>2, Zenon DEF Spared, vars, rows
<1>2. CASE DeliverHeartbeat(w)
  <2> DEFINE r == heartbeat[w].report
             gone == Lost(w, r) \cup Dead(w, r)
             up == Confirmed(w, r)
  <2>1. ReportWorkerHeartbeat(w, gone, up) /\ UNCHANGED <<createCall, host, losses>>
    BY <1>2 DEF DeliverHeartbeat, hostVars
  <2>2. gone \in SUBSET Sandbox /\ up \in SUBSET Sandbox
    BY DEF Lost, Dead, Confirmed
  <2> HIDE DEF gone, up
  <2>3. Reconcile /\ UNCHANGED create
    BY <2>1, <2>2 DEF Reconcile, ReportWorkerHeartbeat, ReconcileInventory
  <2> QED
    BY <2>1, <2>3, RowsSpare
<1>3. CASE RegisterWorker(w) \/ SendHeartbeat(w) \/ LoseHeartbeat(w) \/ RefuseHeartbeat(w)
  <2>1. UNCHANGED <<rows, createCall, host, losses>>
    BY <1>3, Zenon DEF RegisterWorker, UpdateWorker, SendHeartbeat, LoseHeartbeat, RefuseHeartbeat,
       hostVars, vars
  <2> QED
    BY <2>1, RowsSpare DEF rows
<1> QED
    BY <1>1, <1>2, <1>3 DEF HeartbeatStep

LEMMA VMNext ==
    ASSUME Inv, HostedTypes, BeatTypes, [HostingNext]_hvars,
           \A s \in Sandbox : PlaceInv(s) /\ EndInv(s) /\ VMInv(s)
    PROVE  \A s \in Sandbox : VMInv(s)'
<1>0. \A s \in Sandbox : RowKept(s)
    BY RowsKept
<1>1. CASE \A s \in Sandbox : Spared(s)
    BY <1>0, <1>1, SparedKeeps
<1>2. ASSUME NEW s \in Sandbox, HostedCreateStep(s) \/ \E w \in Worker : HostedAssign(s, w)
      PROVE  \A t \in Sandbox : VMInv(t)'
  <2>1. JobMoves(s)
    BY <1>2, GotoMoves, AttemptMoves, BuildMoves, AssignMoves, Zenon DEF HostedCreateStep, HostedAssign
  <2>2. CallFollowsJob(s) /\ UNCHANGED <<host, losses>>
    BY <1>2, Zenon DEF HostedCreateStep, HostedAssign
  <2> QED
    BY <1>0, <2>1, <2>2, MovesKeep
<1>3. ASSUME NEW s \in Sandbox, NEW o \in Origin,
             HostedCleanupStep(s, o) \/ \E ok \in BOOLEAN : HostedRemoveReturns(s, o, ok)
      PROVE  \A t \in Sandbox : Spared(t)
  <2>1. /\ CleanupStep(s, o) \/ CleanupFails(s, o) \/ CleanupReadFails(s, o)
        /\ UNCHANGED <<createCall, host, losses>>
    BY <1>3, Zenon DEF HostedCleanupStep, HostedRemoveReturns, CleanupStep
  <2>2. UNCHANGED create
    BY <2>1 DEF CleanupStep, WorkCleanup, RemoveCallReturns, ClearWorker, FinishCleanup,
       CleanupFails, CleanupReadFails
  <2> QED
    BY <2>1, <2>2, RowsSpare
<1>4. ASSUME NEW s \in Sandbox, NEW o \in Origin, DeliverRemove(s, o)
      PROVE  \A t \in Sandbox : Spared(t)
  <2>1. status[s] \in Ended /\ UNCHANGED <<vars, losses>>
    BY <1>4 DEF DeliverRemove, EndInv
  <2>2. PICK answer \in CallState : ManagerRemove(cleanup[s][o].worker, s, answer)
    BY <1>4 DEF DeliverRemove
  <2> QED
    BY <2>1, <2>2, RemovesSpare, Zenon
<1>5. ASSUME NEW expired \in SUBSET Sandbox, NEW dead \in SUBSET Sandbox,
             NEW stalled \in SUBSET Sandbox, HostedReap(expired, dead, stalled)
      PROVE  \A t \in Sandbox : Spared(t)
  <2>1. Reap /\ UNCHANGED <<create, createCall, host, losses>>
    BY <1>5, Zenon DEF HostedReap, Reap, ReapSandboxes, hostVars
  <2> QED
    BY <2>1, RowsSpare
<1>6. CASE UNCHANGED hvars
    BY <1>1, <1>6, RowsSpare DEF hvars, hostVars, vars, rows
<1> QED
    BY <1>0, <1>1, <1>2, <1>3, <1>4, <1>5, <1>6, RequestKeeps, ReturnKeeps, CreatesSpare,
       WorkersSpare, HeartbeatsSpare DEF HostingNext

-----------------------------------------------------------------------------
(* The theorems.                                                           *)

LEMMA HostingInvInit == HostingInit => HostingInv
<1> SUFFICES ASSUME HostingInit PROVE HostingInv
    OBVIOUS
<1>1. Inv /\ HostingTypeOK
    BY InvInit, InitTypes, SplitTypes DEF HostingInit, Init, Inv, RowTypes, TypeOK
<1>2. \A s \in Sandbox : PlaceInv(s) /\ EndInv(s)
    BY DEF HostingInit, PlaceInv, EndInv, NoHeartbeat
<1>3. \A s \in Sandbox : VMInv(s)
    BY DEF HostingInit, Init, VMInv, Vouched, NoCreateJob
<1> QED
    BY <1>1, <1>2, <1>3 DEF HostingInv

LEMMA HostingInvNext == HostingInv /\ [HostingNext]_hvars => HostingInv'
<1> SUFFICES ASSUME HostingInv, [HostingNext]_hvars PROVE HostingInv'
    OBVIOUS
<1>1. Inv /\ TypeOK /\ HostedTypes /\ BeatTypes
    BY SplitTypes DEF HostingInv
<1>2. Inv' /\ HostedTypes' /\ BeatTypes'
    BY <1>1, RowsRefine, InvNext, TypesNext DEF Inv
<1>3. \A s \in Sandbox : PlaceInv(s)' /\ EndInv(s)' /\ VMInv(s)'
    BY <1>1, PlaceNext, EndNext, VMNext DEF HostingInv
<1>4. HostingTypeOK'
  <2>1. TypeOK'
    BY <1>1, <1>2, StepRefines, TypeNext
  <2> QED
    BY <1>2, <2>1 DEF HostingTypeOK, HostedTypes, BeatTypes
<1> QED
    BY <1>2, <1>3, <1>4 DEF HostingInv

LEMMA HostingInvariant == HostingSpec => []HostingInv
BY HostingInvInit, HostingInvNext, PTL DEF HostingSpec

(* A sandbox has its VM on one worker at a time, the one its row names     *)
(* until the row is claimed: late, duplicated and retried calls all go to  *)
(* one worker, whatever restarts and stale inventories do in between.      *)
THEOREM HostedRight == HostingSpec => []HostedWhereAssigned
<1>1. HostingInv => HostedWhereAssigned
  <2> SUFFICES ASSUME HostingInv, NEW w \in Worker, NEW s \in Sandbox, host[w][s] # "none"
               PROVE  /\ workerId[s] = w \/ status[s] \in Ended
                      /\ \A v \in Worker : host[v][s] # "none" => v = w
    BY DEF HostedWhereAssigned
  <2>1. create[s].worker = w /\ w # NoWorker
    BY ConstantsAssumption DEF HostingInv, PlaceInv
  <2>2. status[s] \in Status /\ LinkInv(s)
    BY DEF HostingInv, Inv, RowTypes, SandboxInv
  <2>3. workerId[s] = w \/ status[s] \in Ended
    BY <2>1, <2>2 DEF LinkInv, Status, Active
  <2>4. \A v \in Worker : host[v][s] # "none" => v = w
    BY <2>1 DEF HostingInv, PlaceInv
  <2> QED
    BY <2>3, <2>4
<1> QED
    BY <1>1, HostingInvariant, PTL

(* Every RemoveSandbox call and every orphan's removal is of a sandbox     *)
(* whose row was claimed, at whatever age of the inventory and with any    *)
(* number of calls late.                                                   *)
THEOREM RemovalsRight == HostingSpec => []RemovalOnlyOfEnded
<1>1. HostingInv => RemovalOnlyOfEnded
    BY SMTT(20) DEF HostingInv, EndInv, NoOrphanJob, RemovalOnlyOfEnded
<1> QED
    BY <1>1, HostingInvariant, PTL

(* Before the first VM is lost, a row that says starting or running has    *)
(* its VM on the worker it names.                                          *)
THEOREM VMsThere == HostingSpec => []RowsHaveVMs
<1>1. HostingInv => RowsHaveVMs
  <2> SUFFICES ASSUME HostingInv, NEW s \in Sandbox, status[s] \in {"starting", "running"},
                      losses = 0
               PROVE  host[workerId[s]][s] \in Tracked
    BY DEF RowsHaveVMs
  <2>1. workerId[s] = create[s].worker
    BY DEF HostingInv, Inv, SandboxInv, LinkInv, OnWorker
  <2> QED
    BY <2>1, Zenon DEF HostingInv, VMInv, Vouched, Ended, Terminal
<1> QED
    BY <1>1, HostingInvariant, PTL

=============================================================================
