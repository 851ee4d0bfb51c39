# Verification of fire2

fire2 runs Firecracker micro-VMs ("sandboxes") on a fleet of workers. This
directory models how a sandbox is created, hosted, watched and removed, and
checks that the orchestrator's database and the workers' hosts stay together
while jobs, calls, heartbeats, crashes and restarts interleave.

Paths below are relative to the repository; `orchestrator/`, `sandbox/`,
`worker/`, `sandboxmgr/`, `runtime/`, `shim/` and `thin/` are directories of
`internal/packages/`.

## 1. The system

| Part | State | Operations | Meets |
|---|---|---|---|
| Sandboxes table (`sandbox/`) | `status`, `worker_id`, `last_seen_at` | guarded updates, `AssignWorker`, `ClearWorker`, claims, `ReconcileInventory` | every job and handler |
| HTTP API (`orchestrator/http.go`) | none of its own | POST inserts the row and its job, then waits; DELETE claims and enqueues | table, River |
| create_sandbox job | River's attempt, locals of `Work` | schedule, assign, call the worker, acknowledge, give up | table, scheduler, worker |
| cleanup_sandbox job | attempt, target | remove on the worker, clear the link, terminal status | table, worker |
| Sandbox reaper | none | claims by TTL, by liveness, by stalled creation | table, River |
| Worker reaper | none | `MarkStaleInactive` | worker table |
| Orphan job | attempt | one `RemoveSandbox` call | worker |
| gRPC receiver (`event_grpc.go`) | worker table: `fencing_token`, `inventory_token`, `status`, times | register, heartbeat with inventory, event | worker process, table |
| Scheduler | none | chooses among candidates by load | create job |
| Worker process (`worker/`) | token, `needsRegister` | heartbeat loop, event reporter, gRPC server | receiver, Manager |
| Sandbox manager (`sandboxmgr/`) | map of IDs, IDs being removed, one actor per sandbox | Create, Stop, Remove, Snapshot, audit, Recover | host |
| VM of a sandbox (`runtime/`, `shim/`) | directory with `shim.pid`, `shim.exit`, `shim.sock`; shim and Firecracker processes | create, attach, stop, remove, reap | actors, audit, thin pool |
| Thin pool (`thin/`, the ansible role's scripts) | thin IDs, devices, nodes, `base.env` | `CreateVolume`, `RemoveVolume`, import of a base, boot | `runtime/` |
| Authentication (`auth/`) | users, sessions | log in, validate | HTTP API |

What makes it hard:

* every job is a sequence of separate statements, and other jobs, handlers and
  River's retries run between any two of them;
* a call that times out goes on at the worker, and may even arrive later;
* a statement may take effect although its reply is lost;
* inventories are snapshots: what they say may be old when they are executed;
* worker processes are replaced, and an old one may still be talking;
* VMs outlive the worker that started them;
* on the worker, requests, actors, the audit and the VM itself run concurrently,
  and each teardown step may fail;
* a sandbox's VM is in processes of its own, known only by files, and any of them
  may end between two system calls.

What should hold, part by part: a row never goes backwards, names its worker
exactly while it is on one, and always has a job that will end it; a sandbox is
placed on a worker, and admitted by it, only within the capacity the worker last
computed; removals hit only sandboxes that were claimed; a VM without a row goes
and a row without a VM ends; only the last process to register is listened to; on
a host one party at a time works on a sandbox, nothing is left that no listing
finds, and every request is answered; two VMs never share a drive, an exit that is
reported is this VM's, and a volume is one sandbox's and holds a whole image.

## 2. The modules

| Module | What it is |
|---|---|
| `SandboxLifecycle` | table, HTTP API and jobs; worker answers are open |
| `SandboxHosting` | extends it with the workers, calls, heartbeats, inventories and orphan jobs |
| `WorkerFencing` | tokens, registrations and heartbeats of the processes of one worker ID |
| `SandboxManager` | the Manager, its actors, the audit and recovery of one worker |
| `HostedSandboxes` | what a worker promises of its sandboxes; `SandboxManager` implements it |
| `SandboxHost` | how directory, volume and VM of a sandbox may change; `SandboxManager` keeps to it, `VMShim` implements it |
| `VMShim` | the worker's steps on one sandbox, its shims, Firecracker and the files they share |
| `ThinPool` | thin IDs, devices and nodes of the volumes, and the import of their base |
| `SandboxLifecycleProofs`, `SandboxHostingProofs`, `WorkerFencingProofs`, `SandboxManagerProofs`, `SandboxManagerPromiseProofs`, `SandboxManagerCapacityProofs`, `VMShimProofs`, `ThinPoolProofs` | theorems |
| `MC...` | instances for TLC |

The modules are stacked: what one leaves open, the one below settles.
`SandboxLifecycle` lets a worker answer anything; `SandboxHosting` puts the
workers there, with a sandbox that boots, runs or is removed; `SandboxManager`
shows what such a worker does inside, and that seen from outside it is a
`HostedSandboxes`; it takes directory, volume and VM as things that exist or not,
in the way `SandboxHost` says; and `VMShim` and `ThinPool` are how they come and
go, system call by system call.

### SandboxLifecycle

`status` and `workerId` are the columns. `create[s]` is the create job of a
sandbox: where it is (`pc`), its attempt, and the locals that survive from one
statement to the next. `cleanup[s]` holds the cleanup jobs, by origin: a sandbox
is claimed by at most one of DELETE, the reaper and an inventory (`"claim"`),
and given up by at most one create job (`"give_up"`); `EnqueuedOnce` checks
that this bookkeeping loses no job. `capacity` is the column of the worker table.
A worker computes its capacity anew for each registration and each heartbeat
(`computeCapacity`), so it may fall below what is hosted (case E2 of
`docs/state-divergence.md`); rows that are there stay, and only placements are
bounded (`AssignedWithinCapacity`).

One action is one statement or one transaction. `WorkCreate` is the read at the
start of an attempt and the switch on the status; `StepScheduling`,
`BuildCandidates`, `AssignWorker`, `CreateCallReturns`, `StepStarting`,
`ReadAcknowledge`, `StepAcknowledge` and `MovedUnder` follow the functions of
those names; `GiveUp` is `maybeCleanup`'s transaction. The cleanup job is
`WorkCleanup`, `RemoveCallReturns`, `ClearWorker`, `FinishCleanup`.
`ReportWorkerHeartbeat` is the transaction of a heartbeat, capacity and inventory,
`UpdateWorker` a registration or a heartbeat without an inventory. With
`Faults`, any statement may fail without effect, take effect with its reply lost
(`Replies`), or be cut by a crash.

Abstractions: the scheduler offers any candidate or none, and `BuildCandidates`
any set of workers, which is what a stale snapshot can amount to. TTLs and
delays are not counted: a reaper may claim any row in the statuses its query
names. IDs are never reused, as they are UUIDs.

### SandboxHosting

Every step on rows and jobs is the action of `SandboxLifecycle`; here it also
sends what it sends. `host[w][s]` is what worker `w`'s Manager knows of a
sandbox. A create call may be on its way, handled, or answered; an abandoned one
is kept in `lateCall` and may still arrive. Removal calls are kept per job.
`heartbeat[w]` is a heartbeat on its way, with the snapshot it was taken from.
`lastSeen` holds the comparisons that the queries make between `last_seen_at`,
the registration and the heartbeats, in place of times. It means something only
while the sandbox is on its worker (`SeenFollowsRow`). That a worker was marked
inactive by `MarkStaleInactive` matters to the liveness claim alone, which may
take effect whenever nothing is heard of the worker (`Silent`).

`ManagerCreate` boots what the worker does not host, answers `ok` for what it
tracks, and may refuse when it hosts something else: its own limit is unknown
after a start and changes with each heartbeat, so it need not be the one in the
worker table.

A call that timed out may arrive after the VM of a later attempt is gone, and boot
the sandbox anew. `LossNoticed` allows for it: the row then has a VM again.

Abstractions: one heartbeat per worker is on its way at a time. A boot that a
removal meets is over in the same step. What a failed removal leaves on the host
is the business of `SandboxManager`: here the ID is gone, as it is for the
orchestrator, and a restart does not bring it back.

### WorkerFencing

`token` and `inventoryToken` are columns of the worker row (0 when there is no
row); `pc`, `held`, `needsRegister` and `reply` belong to each process that runs
under the worker ID. `UpdateWorker` is a tick of the heartbeat loop,
`RegisterWorker` the statement at the database, `Registered` its reply,
`ReportWorkerHeartbeat` the heartbeat with the three answers it may get. A
registration may be lost, may lose its reply, or may be executed after its
process gave up on it (`late`, `LateRegister`). `LoseToken` is a restored backup
or a deleted row. `owner` is a history variable: who registered last.

### SandboxManager

`services`, `state` and `deleting` are the Manager's map; each of its critical
sections is one step. `svc[v]` is a Service object: `run`'s loop, and inside a
command the steps that touch the host, one by one. `call[c]` is a request with
the two waits of `do`. `reap[r]` is a `ReapSandbox` under way, in a request or
in the goroutine of recovery and audit, whose position is `audit`; it ends with
the answer that a Remove passes on. `capacity` is 0, for no limit, until the first
heartbeat sets it. `dir`, `volume` and `vm` are what exists on the host. A VM in
`dying` has lost its shim, and the kernel is about to kill it: that a stop has
returned, or that an exit was reported, may mean no more than this. A volume in
`stuck` is a device that never got a live table, because the process ended, the
actor panicked or the undoing failed inside `CreateVolume`: `RemoveVolume` refuses
it. `"panic"` in `Faults` lets an actor panic anywhere; `"teardown"` lets stops,
removals and listings fail, that of `Recover` included, after which the worker
serves with nothing recovered. Boots fail and VMs exit at any time in every run.
`WorkerRestarts` drops everything but the host.

Requests that the Manager answers at once change nothing and have no action. A
Service identity is used again once nothing refers to it, so a finite set of
them stands for all. A directory that vanishes behind the worker's back, and two
workers on one host (the lock of `lock.go` excludes them), are left out.

### HostedSandboxes

The worker as the orchestrator may think of it: which state an ID may go to from
which. DEAD is final, an ID being removed is not hosted again before it is gone,
and a restarted worker takes over VMs only before it serves. An ID leaves by a
removal; the one exception is a sandbox whose `Create` has not been answered
(`creating`): if it fails, the entry goes with the answer, STARTING or DEAD.
`KeepsPromise` is the refinement: `host` is `"removing"` for an ID in `deleting`,
else the entry's state, else `"none"`.

### SandboxHost, and VMShim below it

`SandboxHost` has the three things the audit and the next process rely on: the
directory is there before the volume and goes after it, the volume is not removed
under a VM, and a VM starts on a volume that has none. `HostContract` says in
`SandboxManager` that all its actors, reapers and restarts together do no more
than that, and in `VMShim` that the system calls do no more than that.

`VMShim` is one sandbox. `shim[h]` is a shim process: `serve`'s position, its
Firecracker, the worker's connection to it. `worker` is the goroutine that works
on the sandbox, with its `Handle`: the shim it signals (`pid`), the one it is
connected to (`peer`), and what `Wait` returns (`result`). `pidFile`, `exitFile`
and `sock` are the files of the directory. `stuck` says that the volume is a
device without a live table, which no removal removes. One action is one system call that
another process can see: `Listen` to `CloseListener` follow `serve`, `Create` to
`WaitRunning` follow `newFirecrackerVM` and `Spawn`, `Read` is `Handle.read`,
`Terminate` to `KillEnds` are `Handle.Stop`, `RemoveVolume` and `RemoveDir` the
removal, `ReapOrphan` to `TermFirecracker` are `ReapSandbox`, and `Attach` to
`AttachConnects` the take-over by a restarted worker. Shims are killed, VMs exit
and workers restart in any state; with `DiskFails` files and volumes fail.

Abstractions: the worker is one sequence of steps, as `OneOwner` of
`SandboxManager` allows one party at a time on a sandbox. PIDs are not reused
(the code compares the command line). The exit code is the identity of the shim
it came from, so that one VM's exit can be told from another's. An identity is
used again when no process and no file has it.

One timing assumption, `OldShimsEnded`, a guard of `Create` that is in no line of
the worker: when an ID is created again, the shims it had before have ended, unless
a VM of theirs still holds the old volume (then `CreateVolume` fails). It is about
two kinds of shim: one that was started but had not yet written its pid file when
the worker died, which `KillStale` misses and which ends by itself, as its
directory or drive is gone; and one that has told its exit and is about to close
its listener. Both need milliseconds. An ID is created again by River's retry,
seconds later, or by a request that the network delayed until just then.
`HandleIsTrue`, `AttachFindsShim` and `ExitReported` rest on the assumption: without
it TLC finds each of them violated. `OneVMPerVolume`, `HostContract` and `AllReaped`
hold in TLC without it too.

### ThinPool

`ids` and `complete` are the pool's metadata, `base` is `BASE_THIN_ID`, `dev` and
`node` the devices and the paths under `/dev/mapper`. `op[s]` is the call for
sandbox `s`, with what it has read and drawn: `LoadBase` to `EnsureNode` are
`CreateVolume` with its undoing, `ReadTable` to `Delete` are `RemoveVolume`.
`import` is the base import script; `Boot` is a restart of the host followed by
`fire2-thinpool-up`, complete or cut short. `leaked` is a history variable: the
sandbox IDs that a dead process or a failed call gave up, which are in the pool
until the next boot. Device mapper, nodes and udev are external: modelled by
what the code relies on. With `CallsFail`, any call may fail.

One timing assumption, in `StartImport`: imports do not go round the whole cycle
of base IDs, back to the one a create has read, between two ioctls of that
create. The code's cycle has 999 of them.

## 3. The runs

| Run | Bounds | Shows |
|---|---|---|
| `lifecycle_two` | 2 sandboxes, 1 worker whose capacity goes between 1 and 2, 2 attempts | no placement beyond the capacity last reported; no claimed row is left without a job |
| `lifecycle_faults` | 1 sandbox, 2 workers with capacity 0 or 1, 3 attempts, faults | links, order of statuses, answers and claims under failures and crashes; one worker per sandbox; creations settle, cleanups end |
| `lifecycle_stopped` | 1 sandbox, 1 worker, 2 attempts | a disagreement, see below |
| `hosting_live` | 1 sandbox, 1 worker, 1 attempt, 1 loss: a VM dies or does not boot, or the worker restarts; also begun at a second attempt with a late call | no sandbox in use is removed, orphans go, losses are noticed |
| `hosting_retry` | 1 sandbox, 2 workers that are up, 2 attempts, faults | rows in use have their VM, a sandbox is on one worker and where its row says, with late calls, retries and crashes |
| `fencing` | 2 processes, 2 late or unanswered registrations, 1 loss | unique tokens, old processes refused, inventories claimed once, a forgotten worker is readmitted |
| `fencing_loss` | 2 processes, 1 loss | a disagreement, see below |
| `manager_race` | 1 sandbox, 2 requests, 3 Services, all faults, 1 restart | one owner; the abstract worker and the host's contract are kept |
| `manager_two` | 2 sandboxes, capacity unknown or 1, 2 requests, 1 restart | nothing left, nothing admitted beyond the capacity, DEAD means over |
| `manager_live` | 1 sandbox, 2 requests, all faults, 1 restart | leftovers go, deaths are noticed, every request returns |
| `vm_shim` | 2 shims, failing files, any number of restarts and deaths | what the Handle says is so, one VM per drive, a VM that runs is found again, exits are reported, everything is reaped; the host's contract |
| `thin_pool` | 2 sandboxes, 2 base IDs, 3 sandbox IDs, 2 device numbers, failing calls, any number of deaths and boots | one volume per sandbox, none unaccounted for, a base that is always whole, paths that lead to the sandbox's own image |

Why the bounds are enough to be interesting: sandboxes share nothing but a
worker's slots, and two of them on one slot is where they meet; with capacities
that change, two of them fit, or one too many is there. One sandbox already has
three jobs of its own, a waiting POST, a DELETE, two reapers and inventories. One
attempt is at once first and final; two separate an attempt that is retried from
the final one; three put one between. One restart gives an old and a new process.
On a host, two requests and the audit are the smallest number of parties of which
two can get in each other's way while the third is at work; three Services let a
failed one, a removed one and a new one coexist. The hosting runs have at most one
loss. The one with liveness has one worker, as a sandbox never changes its worker
(`OneWorkerPerSandbox`), and one attempt, as a second adds only a late call to the
states it ends in: those are what `SecondAttempt` begins with. `hosting_retry` has
two workers, and begins when they have delivered their first inventories. The
safety properties of hosting are proved from the start, for any number of workers
and losses. Two shims are a VM left behind and the next one; that there are never
more than one at a time is what is proved. In the pool, three sandbox IDs let two
sandboxes hold one each while a third is leaked or free, and fewer device numbers
than IDs make numbers and names be used again.

All types are proved, so most runs do not repeat them.

`CHECK_DEADLOCK FALSE` is used for the fencing runs only: there every process
may have ended.

### Fairness

* `lifecycle_faults`: River keeps running jobs (`WF` on the steps of each job,
  the failing ones included). Neither the workers' answers nor the statements are
  assumed to succeed: attempts run out, and the properties name the one case that
  leaves a row where it is, a failure in the last attempt. Reapers are not assumed.
* `hosting_live`: the worker heartbeats, River runs orphan jobs, actors finish,
  the reaper sweeps (`WF`); of heartbeats and of removal requests that are sent
  again and again some arrive (`SF`). Without the latter a network that is down
  for ever would refute anything.
* `fencing`: the heartbeat loop ticks; of the calls repeated for ever some are
  answered.
* `manager_live`: goroutines go on and an actor's steps end (boots within
  `bootTimeout`, stops within their grace period); Go serves the senders of a
  channel in order, hence `SF` on `Take`; the audit ticks, `select` takes each
  ready case some time, and a teardown that is tried again and again succeeds
  some time, unless the device is stuck; the kernel kills a VM whose shim is gone
  (`Pdeathsig`).
* `vm_shim`: goroutines and shims go on; a Firecracker that was signalled, whose
  shim is gone or that has no drive ends (`WF`); a removal tried again and again
  by the audit succeeds some time (`SF`). `AllReaped` is about a worker that does
  not restart for ever.

### Where the code and its comments disagree

In two runs TLC finds the stated behaviour violated.

* `lifecycle_stopped`: `cleanup_sandbox_worker.go` says that a removal that was
  given up ends in `failed`. With two cleanup jobs (DELETE, and a create job that
  gave up), one gives up and drops the link; the other finds no worker, skips the
  removal, and writes `stopped`.
* `fencing_loss`: after the database lost its token, a fresh process may be given
  the token that an older live process holds; the comment on `Register` rules it
  out. `TokensUnique` is therefore stated for a database that keeps its token.

The statements of other properties leave room for what the code does:

* `CleanupEnds`: if a database call of the final cleanup attempt fails, the job is
  discarded, and the row stays in `cleanup_pending`, holding a slot, with nothing
  left to look at it.
* `Readmitted`: a process can be refused as fenced, until it is restarted, because
  of its own earlier registration executed late.
* `LossNoticed`: a `CreateSandbox` call of an attempt that was given up, arriving
  after the VM was lost, boots a fresh VM under a row that stays `running`.
* `AssignedWithinCapacity` and `AdmittedWithinCapacity` are about placements and
  admissions. A capacity that falls leaves a worker with more than it says it can
  host, and a restarted worker admits without a limit until its first heartbeat. A
  capacity computed as 0 is no limit to the Manager either (`manager.go:30`), while
  the database then places nothing.
* `KeepsPromise`: "It is the only path that drops a tracked sandbox, DEAD ones
  included" is said of `Remove` (`sandboxmgr/manager.go:191`, likewise
  `audit.go:34`). A failed `Create` drops its entry too, and after a panic that
  entry is DEAD. `HostedSandboxes` allows it while the creation is unanswered.
* `NotFoundIsGone` is checked without failing teardowns: after a removal that
  failed, `ErrSandboxNotFound` is answered for a sandbox that is still on the
  host, until the audit reaps it (`LeftoversGo`).
* The first inventory of a new process also fails a sandbox whose create call
  arrives between the snapshot and the heartbeat's execution; its cleanup then
  removes the VM.
* A device whose table never became live stays until the next boot: `sandboxThinID`
  refuses a table it does not know, so every removal of the sandbox fails, the
  audit's included. The comment of `ReapSandbox` (`runtime/reconcile.go:61`) means
  partially created sandboxes too, and that of `createDevice` (`thin/dm.go:191`)
  says that on failure nothing is left behind. `NotFoundIsGone`, `RemoveReleases`,
  `LeftoversGo` and `AllReaped` leave such devices out, and `AdmittedWithinCapacity`
  does not count them, as the Manager does not; `RemovedIsGone` holds of them
  because their removal fails.
* `IDsAccounted` counts the leaked IDs: a volume whose removal is cut short after
  the device is gone keeps its thin ID until the next boot.

## 4. The theorems

Checked by TLAPS for any number of sandboxes, workers, processes, attempts,
requests, Services, shims, thin IDs and device numbers, and any capacities; the
constants are only assumed to be of their kinds (`ConstantsAssumption`,
`HostingAssumption`, `FencingAssumption`, `ManagerAssumption`, `ShimAssumption`),
and the base IDs to be at least two, below those of the sandboxes
(`PoolAssumption`). Where a theorem needs more, its statement says so.

`SandboxLifecycleProofs` proves by induction

* `TypeCorrect`, `LinkCorrect`, `CleanupClaimed`, with or without faults;
* `NotStranded`, without faults (see `CleanupEnds` above for what they do).

None of these is inductive alone. That the link is gone when a row ends, for one,
needs that a job about to finish found the link cleared, that this stays so, and
that a job exists only for a claimed row. The inductive invariant `Inv` is the
types of rows and jobs (`RowTypes`) and, for each sandbox: the create job exists
exactly when the row does, and a job waiting for River has attempts left
(`CreateInv`); the link follows the status and names the worker the create job
chose, which is none before the row is assigned (`LinkInv`); a cleanup job exists
only for a claimed row, finishes only once the link is gone, is complete only when
the row is terminal, and is discarded only with faults (`CleanupInv`); a claimed
row has a cleanup job, and a create job that gave up does nothing more
(`ClaimInv`). The proof has one lemma per action. `Inv` says nothing of
capacities, so that a heartbeat or a registration preserves it as the inventory it
carries does.

The same module proves from `Inv` what single steps may do:

* `Forwards`: no status goes backwards, terminal ones stay;
* `OneWorker`: the worker that calls go to is chosen once, and neither the row nor
  a cleanup job names another;
* `CleanupOnce`: no cleanup job is inserted over an earlier one;
* `AnswerIsTrue`: a POST is answered 201 only for a running sandbox;
* `CapacityRespected`: the sandboxes counted against a worker only grow by the one
  `AssignWorker` adds after counting, a step that leaves the capacity alone; a
  heartbeat that changes the capacity adds none.

`SandboxHostingProofs` builds on it. `Refines` says that `SandboxHosting`
implements `SandboxLifecycle`: each of its steps is one of that module or leaves
rows and jobs alone. So `Inv` and the theorems above hold with the workers there.
`HostingTypeCorrect` is about types. The other three follow from `HostingInv`,
which is `Inv`, the types and, for each sandbox, three conjuncts that need each
other:

* `PlaceInv`: what a worker hosts, or lists in a heartbeat however old, belongs to
  a create job that has this worker. A job never changes its worker
  (`OneWorker`), so late and repeated calls cannot break it. `HostedRight`
  (`HostedWhereAssigned`) follows with `LinkInv`.
* `EndInv`: a removal that is on its way or under way is of a sandbox that ended,
  and no status leaves `Ended`. For cleanup jobs this is `CleanupInv`. For orphans
  it needs `PlaceInv`: a sandbox that is listed belongs to the worker that lists
  it, so if its row does not say so, the row has ended. This is `RemovalsRight`
  (`RemovalOnlyOfEnded`).
* `VMInv`: an answer is waited for only by a job at its call. While nothing is
  lost, the worker tracks the sandbox from the answer `ok` on, through the job's
  next statement, to the row that says `starting` or `running`, until the row is
  claimed. It needs `EndInv`, as only a removal takes a VM that was not lost. This
  is `VMsThere` (`RowsHaveVMs`).

`WorkerFencingProofs` proves `TypeCorrect`, `UniqueTokens`, `OldRefused` and
`InventoryOnce`, the last three for as long as the database has not lost its
token. The invariant adds to them that no token held, in a reply or presented by
a late request is above the persisted one, that replies are as distinct as the
tokens held, and that whoever holds or is about to receive the persisted token is
the one that registered last.

`SandboxManagerProofs` proves, with any faults,

* `ManagerTypeCorrect` (`TypeOK`) and `OwnersAlone` (`OneOwner`). The invariant is
  `OwnerInv`: an ID is in the map or in `deleting`, never both (`MapInv`); a live
  actor is the one in the map or the one a Remove of its ID waits for, and a busy
  one works for a request that waits for it (`ActorInv`); a Remove holds its ID in
  `deleting`, and alone, and a create that failed has no actor any more (`CallInv`);
  what the audit has to reap is in `deleting` and no Remove's, and what recovery has
  to reap is not in the map (`MainInv`). `OneOwner` says nothing of who may start next: an
  actor that is idle, a Remove that is still sending and an ID on the audit's list
  own nothing yet, so it is not inductive.
* `HostKeepsContract` (`HostContract`), that each step on the host is one of
  `SandboxHost`. `HostInv` says what whoever works on a sandbox finds: a directory
  for its volume, a volume without a VM for its VM, no volume when the directory
  goes. Each of these is what the same party left a step before, and stays so
  because by `OwnerInv` nobody else works on the sandbox.

`SandboxManagerPromiseProofs` proves, with any faults, `ManagerKeepsPromise`
(`KeepsPromise`), that `SandboxManager` implements `HostedSandboxes`. Most steps leave
the inventory alone; the others need `PromiseInv`. A Service in the map or in a request
keeps its ID (`RefInv`). Until a create has succeeded, its actor either has not begun
or works for it, and its entry is STARTING, or DEAD once the actor is gone; no two
creates share an actor (`MakeInv`). An entry that says RUNNING has no VM that still
boots (`RunInv`).

It then proves, for `Faults = {}` (teardowns work and no actor panics),
`UntrackedIsGone` (`NotFoundIsGone`), `RemoveLeavesNothing` (`RemoveReleases`) and
`DeadAreOver` (`DeadIsOver`). With failing teardowns they do not hold, which is
what the audit is for (`LeftoversGo`), and the run that checks them has no faults
either. Boots fail and VMs exit all the same. Their common invariant is `GoneInv`,
about the directories but those of stuck devices (`Left`): every one is answered
for by the map, a removal or the recovery (`Kept`); an actor that has not begun
has none, and one that cleans up has no VM but a dying one (`ActorGone`, `Over`);
an actor that ended, a Remove that was answered without an error and a reaper that
is done left none (`CallGone`, `ReapGone`), and what the audit claims has none. A
stuck device is a volume that no VM was started on (`StuckInv`).

`SandboxManagerCapacityProofs` proves `AdmissionRespectsCapacity`
(`AdmittedWithinCapacity`) from it, for `Faults = {}` and a finite set of IDs, without
which there is no counting. Of a serving worker's steps only `Create` adds an entry
(`OnlyCreateAdds`), and it counts the map and `deleting`. By `GoneInv` every volume has
a directory, and every directory that can be removed is in one of the two: so what
there is, tracked or with a volume, is among what was counted.

`VMShimProofs` proves `TypeCorrect`, `OneDrive` (`OneVMPerVolume`),
`Implements`, that `VMShim` implements `SandboxHost`, `HandleSaysTrue`
(`HandleIsTrue`) and `AttachRight` (`AttachFindsShim`). The first invariant is `OneShim`:
at most one shim or Firecracker is there, a drive that is held exists, and from
the moment the worker has got a new volume until it starts a shim there is none.
It is stronger than `OneVMPerVolume`, which says nothing of shims whose VM has
not opened its drive yet, and which these steps would therefore not preserve.
The step that carries the argument is `CreateVolume`: it succeeds only if the
old volume is gone, and the kernel keeps the volume of a VM that outlives its
shim. The proof that every step is one of `SandboxHost` or a stutter maps `vm`
by means of `OneShim`: with at most one shim, what the existential in the mapping
says is what that shim's Firecracker does.

What a Handle says rests on a second invariant, `TrueInv`, beside `OneShim`. A shim
sends the exit line and writes `shim.exit` only when its VM is gone, and drops a
connection only when it is gone itself (`ProcessInv`); what is in the file is the exit
of a VM that is gone, and the Handle's shim is past recording only with its exit there or
lost (`FileInv`). While there is a Handle, no shim but its own is there, so it is its own
that answers on the socket; the file holds no other VM's exit, once `Attach` has looked;
and if its shim is gone after it was connected to, it was killed, lost a file or recorded
its exit (`HandleInv`, `OwnInv`). `HandleIsTrue` alone speaks only of a result that is
already there. A live shim's pid file and socket are there as long as the volume is, and no
other VM's exit is (`FoundInv`), because files are removed only after the volume. That is
why an `Attach` that gives up has not missed a running VM.

`ThinPoolProofs` proves `TypeCorrect`, `OwnVolumes` (`OwnIDs`), `AllAccounted`
(`IDsAccounted`), `BaseStays` (`BaseIntact`), `OwnImage` (`ReadyIsOwnImage`) and
`RemovedGone` (`RemovedIsGone`), from one invariant, `PoolInv`: for each call,
what its position says of the device, the node and the ID it has drawn
(`CallInv`); IDs used, leaked and in the pool add up, and are disjoint
(`IDsInv`); the import works on an ID that is not the base's until it is whole
and recorded (`ImportInv`); what a snapshot is about to be taken of is whole or
gone, and not where the import writes (`ImageInv`). The actions fall into a few
kinds (they draw an ID, give one back, give one up, or keep the IDs), and the lemmas
on IDs are stated for these kinds.

Only model-checked: the liveness properties, which the prover cannot handle
(`CreationSettles`, `CleanupEnds`, `OrphansGo`, `LossNoticed`, `Readmitted`,
`LeftoversGo`, `DeathNoticed`, `CallsReturn`, `AllReaped`, `ExitReported`). Every
invariant, action property and refinement that a passing run checks is proved.

## 5. Not modelled

* Authentication: users and sessions meet the sandboxes nowhere but in the
  middleware of the HTTP API.
* The scheduler's weights: any candidate may be chosen, and the properties hold
  whichever is. Preference for active workers and for lighter load is a question
  of quality, not of these properties.
* Delays, periods, timeouts and the back-off of refused heartbeats as numbers.
  Everything that waits may end its wait at any time; the two places where the
  models rely on one thing being faster than another are named above.
* Two heartbeats of one process on their way: one that timed out may be executed
  after the next.
* Request validation and listings, which change nothing; the lock on the base
  dir; metrics, configuration, logging and generated code.
* The writing of the image inside the import, and the pool's own set-up: one
  step, whole or cut short.

`PROJECT.json` lists the hazards that no property covers, with the reasons.

## 6. Plan

What could follow, in this order:

1. an abstract life of a sandbox that `SandboxLifecycle` refines, and
   `SandboxHosting` using `HostedSandboxes` for its workers, leftovers of failed
   removals included;
2. what is left of `NotFoundIsGone` and `AdmittedWithinCapacity` when teardowns fail,
   stated and proved;
3. the scheduler as operators over bounded inputs: preference for active
   workers, capacity, weights;
4. the clocks: liveness, inactivity and creation delays as numbers, and the
   back-off of refused heartbeats; two heartbeats of one process on their way;
5. sessions of the authentication service.
