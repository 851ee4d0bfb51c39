--------------------------- MODULE SandboxManager ---------------------------
(***************************************************************************)
(* The sandboxes of one worker: the Manager's map of IDs, the Service      *)
(* actor of each sandbox, the requests that go through them, the audit,    *)
(* the recovery of a restarted worker, and what they leave on the host,    *)
(* that is, a sandbox's directory, its thin volume and its VM.             *)
(*                                                                         *)
(* The mutex of the Manager makes each of its critical sections one step.  *)
(* Everything between two of them, and every operation on the host, is a   *)
(* step of its own.  A request that the Manager answers at once (already   *)
(* tracked, busy, at capacity, not found) changes nothing and has no       *)
(* action: the guards of the other requests are those conditions negated.  *)
(***************************************************************************)
EXTENDS Integers, FiniteSets

CONSTANTS
    Sandbox,      \* sandbox IDs
    Call,         \* requests the worker handles at the same time
    Service,      \* identities for Service objects
    NoService,
    NoCall,
    Main,         \* the goroutine of Recover and of the audit loop
    Capacities,   \* what computeCapacity may give, 0 for no limit
    Faults,       \* what may go wrong beyond boots that fail and VMs that die
    MaxRestarts   \* bound on the restarts of the worker process

ASSUME ManagerAssumption ==
    /\ NoService \notin Service
    /\ NoCall \notin Call
    /\ Main \notin Call
    /\ Capacities \subseteq Nat
    /\ Faults \subseteq {"panic", "teardown"}
    /\ MaxRestarts \in Nat

VARIABLES
    services,  \* Manager.services: the Service of each tracked ID
    state,     \* entry.state
    deleting,  \* Manager.deleting
    capacity,  \* Manager.capacity, 0 for no limit
    svc,       \* the Service actors
    call,      \* the requests under way
    reap,      \* the ReapSandbox under way in each goroutine that may run one
    audit,     \* Main: recovering, or where it is in audit
    dir,       \* IDs with a directory in the base dir
    volume,    \* IDs with a thin volume
    stuck,     \* those of them whose device never got a live table
    vm,        \* the VM of each ID
    dying,     \* IDs of VMs whose shim is gone, which the kernel is about to kill
    restarts

mapVars == <<services, state, deleting>>
volumeVars == <<volume, stuck>>
vmVars == <<vm, dying>>
hostVars == <<dir, volumeVars, vmVars>>
procVars == <<capacity, restarts>>
vars == <<mapVars, svc, call, reap, audit, hostVars, procVars>>

-----------------------------------------------------------------------------
Off == [pc |-> "off"]
Idle == [pc |-> "idle"]
NoReap == [pc |-> "none"]

State == {"starting", "running", "unknown", "dead"}
VM == {"none", "booting", "running"}

(* What an actor is doing: waiting in run's select, one of the steps of    *)
(* create and remove, or a stop; "exited" once done is closed.             *)
Busy == {"newVM", "volume", "spawn", "boot", "stop", "cleanup", "rmdir", "halt"}

(* vm: Service.vm is set.  failed: the error the command will return.      *)
Actor == [pc : {"idle", "exited"} \cup Busy, id : Sandbox, vm : BOOLEAN,
          failed : BOOLEAN, caller : Call \cup {NoCall}]

(* "send" and "wait" are the two selects of Service.do.                    *)
Request == [pc : {"send", "wait", "replied", "reap"}, kind : {"create", "stop", "remove"},
            id : Sandbox, svc : Service, reply : {"none", "ok", "failed", "exited"}]

Reaping == [pc : {"kill", "volume", "rmdir", "over", "failed"}, id : Sandbox]
Reaper == Call \cup {Main}

AuditPC == {"recover", "idle", "list", "claim", "reap"}

Init ==
    /\ services = [s \in Sandbox |-> NoService]
    /\ state = [s \in Sandbox |-> "starting"]
    /\ deleting = {}
    /\ capacity = 0
    /\ svc = [v \in Service |-> Off]
    /\ call = [c \in Call |-> Idle]
    /\ reap = [r \in Reaper |-> NoReap]
    /\ audit = [pc |-> "idle", ids |-> {}]
    /\ dir = {}
    /\ volume = {}
    /\ stuck = {}
    /\ vm = [s \in Sandbox |-> "none"]
    /\ dying = {}
    /\ restarts = 0

-----------------------------------------------------------------------------
(* The Manager's side of a request.                                        *)

Serving == audit.pc # "recover"
Tracked == {s \in Sandbox : services[s] # NoService}

(* Faulty: sandboxes being removed do not count.                           *)
HasRoomForTracked == capacity = 0 \/ Cardinality(Tracked) < capacity

(* Sandboxes being removed still hold their volume: they count too.        *)
HasRoom == capacity = 0 \/ Cardinality(Tracked) + Cardinality(deleting) < capacity

(* Each heartbeat of a serving worker; the limit may fall below what is    *)
(* hosted.                                                                 *)
SetCapacity(n) ==
    /\ Serving
    /\ capacity' = n
    /\ UNCHANGED <<mapVars, svc, call, reap, audit, hostVars, restarts>>

(* A Service object nothing refers to any more.                            *)
Free(v) ==
    /\ svc[v].pc \in {"off", "exited"}
    /\ \A s \in Sandbox : services[s] # v
    /\ \A c \in Call : call[c] # Idle => call[c].svc # v

Sends(kind, s, v) == [pc |-> "send", kind |-> kind, id |-> s, svc |-> v, reply |-> "none"]

(* The ID is registered before anything exists on disk.                    *)
Create(c, s) ==
    /\ Serving
    /\ call[c] = Idle
    /\ s \notin Tracked \cup deleting
    /\ HasRoom
    /\ \E v \in Service :
           /\ Free(v)
           /\ services' = [services EXCEPT ![s] = v]
           /\ svc' = [svc EXCEPT ![v] = [pc |-> "idle", id |-> s, vm |-> FALSE,
                                         failed |-> FALSE, caller |-> NoCall]]
           /\ call' = [call EXCEPT ![c] = Sends("create", s, v)]
    /\ state' = [state EXCEPT ![s] = "starting"]
    /\ UNCHANGED <<deleting, reap, audit, hostVars, procVars>>

Stop(c, s) ==
    /\ Serving
    /\ call[c] = Idle
    /\ s \in Tracked
    /\ call' = [call EXCEPT ![c] = Sends("stop", s, services[s])]
    /\ UNCHANGED <<mapVars, svc, reap, audit, hostVars, procVars>>

Remove(c, s) ==
    /\ Serving
    /\ call[c] = Idle
    /\ s \in Tracked \ deleting
    /\ services' = [services EXCEPT ![s] = NoService]
    /\ deleting' = deleting \cup {s}
    /\ call' = [call EXCEPT ![c] = Sends("remove", s, services[s])]
    /\ UNCHANGED <<state, svc, reap, audit, hostVars, procVars>>

(* Faulty: only a reply ends the wait, not the end of the actor.           *)
ServiceGoneUnseen(c) ==
    /\ call[c].pc = "wait"
    /\ svc[call[c].svc].pc = "exited"
    /\ call' = [call EXCEPT ![c].pc = "replied", ![c].reply = "exited"]
    /\ UNCHANGED <<mapVars, svc, reap, audit, hostVars, procVars>>

(* do finds the actor gone, before it took the command or (a panic) before *)
(* it replied.                                                             *)
ServiceGone(c) ==
    /\ call[c].pc \in {"send", "wait"}
    /\ svc[call[c].svc].pc = "exited"
    /\ call' = [call EXCEPT ![c].pc = "replied", ![c].reply = "exited"]
    /\ UNCHANGED <<mapVars, svc, reap, audit, hostVars, procVars>>

(* Faulty: a failed create drops whatever entry the ID has by now.         *)
CreateReturnsAnyEntry(c) ==
    /\ call[c].pc = "replied"
    /\ call[c].kind = "create"
    /\ services' = [services EXCEPT ![call[c].id] = IF call[c].reply = "ok" THEN @ ELSE NoService]
    /\ call' = [call EXCEPT ![c] = Idle]
    /\ UNCHANGED <<state, deleting, svc, reap, audit, hostVars, procVars>>

(* A failed create drops its entry, if the entry is still its own.         *)
CreateReturns(c) ==
    /\ call[c].pc = "replied"
    /\ call[c].kind = "create"
    /\ services' = [services EXCEPT ![call[c].id] =
           IF call[c].reply # "ok" /\ @ = call[c].svc THEN NoService ELSE @]
    /\ call' = [call EXCEPT ![c] = Idle]
    /\ UNCHANGED <<state, deleting, svc, reap, audit, hostVars, procVars>>

StopReturns(c) ==
    /\ call[c].pc = "replied"
    /\ call[c].kind = "stop"
    /\ call' = [call EXCEPT ![c] = Idle]
    /\ UNCHANGED <<mapVars, svc, reap, audit, hostVars, procVars>>

(* The ID leaves deleting, removed or not; after an actor that is gone, it *)
(* is first reaped from disk.                                              *)
RemoveReturns(c) ==
    /\ call[c].pc = "replied"
    /\ call[c].kind = "remove"
    /\ IF call[c].reply = "exited"
       THEN /\ call' = [call EXCEPT ![c].pc = "reap"]
            /\ reap' = [reap EXCEPT ![c] = [pc |-> "kill", id |-> call[c].id]]
            /\ UNCHANGED deleting
       ELSE /\ call' = [call EXCEPT ![c] = Idle]
            /\ deleting' = deleting \ {call[c].id}
            /\ UNCHANGED reap
    /\ UNCHANGED <<services, state, svc, audit, hostVars, procVars>>

-----------------------------------------------------------------------------
(* The actor.                                                              *)

Goto(v, pc) ==
    /\ svc' = [svc EXCEPT ![v].pc = pc]
    /\ UNCHANGED call

Fails(v, pc) ==
    /\ svc' = [svc EXCEPT ![v].pc = pc, ![v].failed = TRUE]
    /\ UNCHANGED call

(* The command ends with an answer; the actor goes on, or exits.           *)
Replies(v, pc, reply) ==
    /\ svc' = [svc EXCEPT ![v].pc = pc, ![v].failed = FALSE, ![v].caller = NoCall]
    /\ call' = [call EXCEPT ![svc[v].caller].pc = "replied", ![svc[v].caller].reply = reply]

Begins(kind) ==
    CASE kind = "create" -> "newVM"
      [] kind = "stop" -> "halt"
      [] kind = "remove" -> "stop"

(* run receives a command.  A stop or a remove that comes before the       *)
(* create has nothing to do; after a remove the actor exits.               *)
Take(c) ==
    LET v == call[c].svc IN
    /\ call[c].pc = "send"
    /\ svc[v].pc = "idle"
    /\ IF call[c].kind = "create" \/ svc[v].vm
       THEN /\ svc' = [svc EXCEPT ![v].pc = Begins(call[c].kind), ![v].caller = c]
            /\ call' = [call EXCEPT ![c].pc = "wait"]
       ELSE /\ svc' = [svc EXCEPT ![v].pc = IF call[c].kind = "remove" THEN "exited" ELSE @]
            /\ call' = [call EXCEPT ![c].pc = "replied", ![c].reply = "ok"]
    /\ UNCHANGED <<mapVars, reap, audit, hostVars, procVars>>

(* newFirecrackerVM creates the directory.                                 *)
NewVM(v) ==
    /\ svc[v].pc = "newVM"
    /\ \/ /\ dir' = dir \cup {svc[v].id}
          /\ svc' = [svc EXCEPT ![v].pc = "volume", ![v].vm = TRUE]
          /\ UNCHANGED call
       \/ /\ Replies(v, "exited", "failed")
          /\ UNCHANGED dir
    /\ UNCHANGED <<mapVars, reap, audit, volumeVars, vmVars, procVars>>

(* What ends inside CreateVolume, between the creation of the device and   *)
(* its resume, leaves a device without a live table.                       *)
LeavesDevices(ids) ==
    \E left \in SUBSET (ids \ volume) :
        /\ volume' = volume \cup left
        /\ stuck' = stuck \cup left

(* It fails, among others, if the volume exists.  A failure is undone by   *)
(* removing the device, which may fail too.                                *)
CreateVolume(v) ==
    /\ svc[v].pc = "volume"
    /\ \/ /\ svc[v].id \notin volume
          /\ volume' = volume \cup {svc[v].id}
          /\ UNCHANGED stuck
          /\ Goto(v, "spawn")
       \/ /\ UNCHANGED volumeVars
          /\ Fails(v, "cleanup")
       \/ /\ "teardown" \in Faults
          /\ \/ LeavesDevices({svc[v].id})
             \/ volume' = volume \cup {svc[v].id} /\ UNCHANGED stuck
          /\ Fails(v, "cleanup")
    /\ UNCHANGED <<mapVars, reap, audit, dir, vmVars, procVars>>

(* The VM of s ends, or loses its shim: its end is then only a matter of   *)
(* the signal the kernel sends it (Pdeathsig).                             *)
EndsVM(s) ==
    \/ /\ vm' = [vm EXCEPT ![s] = "none"]
       /\ dying' = dying \ {s}
    \/ /\ vm[s] # "none"
       /\ dying' = dying \cup {s}
       /\ UNCHANGED vm

(* A shim that does not answer in time is killed.                          *)
Spawn(v) ==
    /\ svc[v].pc = "spawn"
    /\ \/ /\ vm' = [vm EXCEPT ![svc[v].id] = "booting"]
          /\ UNCHANGED dying
          /\ Goto(v, "boot")
       \/ /\ UNCHANGED vmVars
          /\ Fails(v, "cleanup")
       \/ /\ vm' = [vm EXCEPT ![svc[v].id] = "booting"]
          /\ dying' = dying \cup {svc[v].id}
          /\ Fails(v, "cleanup")
    /\ UNCHANGED <<mapVars, reap, audit, dir, volumeVars, procVars>>

(* Faulty: a state query that fails says the VM is dead.                   *)
SampledDead(s) ==
    CASE vm[s] = "none" -> {"dead"}
      [] vm[s] = "booting" -> {"starting", "dead"}
      [] vm[s] = "running" -> {"running", "dead"}

(* Faulty: the VM's own state is passed on as it is.                       *)
SampledRaw(s) == {vm[s]}

(* What a query of the VM's state gives; "unknown" for one that fails.     *)
Sampled(s) ==
    CASE vm[s] = "none" -> {"unknown"}
      [] vm[s] = "booting" -> {"starting", "unknown"}
      [] vm[s] = "running" -> {"running", "unknown"}

(* setState and report: only the Service of the entry changes its state.   *)
Reports(v, st) ==
    state' = [state EXCEPT ![svc[v].id] = IF services[svc[v].id] = v THEN st ELSE @]

(* waitRunning: the VM runs, and create polls it once; or it has exited,   *)
(* or is not running after bootTimeout.                                    *)
WaitRunning(v) ==
    /\ svc[v].pc = "boot"
    /\ \/ /\ vm[svc[v].id] = "running"
          /\ \E st \in Sampled(svc[v].id) : Reports(v, st)
          /\ Replies(v, "idle", "ok")
       \/ /\ UNCHANGED state
          /\ Fails(v, "stop")
    /\ UNCHANGED <<services, deleting, reap, audit, hostVars, procVars>>

(* remove: stop, then clean up even if the stop failed.                    *)
StopVM(v) ==
    /\ svc[v].pc = "stop"
    /\ \/ /\ EndsVM(svc[v].id)
          /\ Goto(v, "cleanup")
       \/ /\ "teardown" \in Faults
          /\ UNCHANGED vmVars
          /\ Fails(v, "cleanup")
    /\ UNCHANGED <<mapVars, reap, audit, dir, volumeVars, procVars>>

(* RemoveVolume's outcomes.  The kernel refuses to remove the device of a  *)
(* VM; removeDevice tries again until one that is dying has let go of it.  *)
(* A device without a live table is refused before anything is removed.  A *)
(* failure may come before or after the device is gone.                    *)
VolumeRemoved(s) ==
    /\ vm[s] = "none"
    /\ s \notin stuck
    /\ volume' = volume \ {s}
    /\ UNCHANGED stuck

VolumeNotRemoved(s) ==
    \/ /\ "teardown" \in Faults \/ s \in stuck \/ (vm[s] # "none" /\ s \notin dying)
       /\ UNCHANGED volumeVars
    \/ /\ "teardown" \in Faults
       /\ VolumeRemoved(s)

(* Faulty: the directory goes even if the volume could not be removed; the *)
(* rollback of a failed create is skipped; the directory is forgotten.     *)
RemoveVolumeRegardless(v) ==
    /\ svc[v].pc = "cleanup"
    /\ VolumeRemoved(svc[v].id) \/ VolumeNotRemoved(svc[v].id)
    /\ Goto(v, "rmdir")
    /\ UNCHANGED <<mapVars, reap, audit, dir, vmVars, procVars>>
RemoveVolumeUnlessFailed(v) ==
    /\ svc[v].pc = "cleanup"
    /\ IF svc[v].failed
       THEN UNCHANGED volumeVars /\ Replies(v, "exited", "failed")
       ELSE VolumeRemoved(svc[v].id) /\ Goto(v, "rmdir")
    /\ UNCHANGED <<mapVars, reap, audit, dir, vmVars, procVars>>

RemoveVolumeOnly(v) ==
    /\ svc[v].pc = "cleanup"
    /\ VolumeRemoved(svc[v].id)
    /\ IF svc[v].failed THEN Goto(v, "rmdir") ELSE Replies(v, "exited", "ok")
    /\ UNCHANGED <<mapVars, reap, audit, dir, vmVars, procVars>>

(* Cleanup: the volume, then the directory.                                *)
RemoveVolume(v) ==
    /\ svc[v].pc = "cleanup"
    /\ \/ VolumeRemoved(svc[v].id) /\ Goto(v, "rmdir")
       \/ VolumeNotRemoved(svc[v].id) /\ Replies(v, "exited", "failed")
    /\ UNCHANGED <<mapVars, reap, audit, dir, vmVars, procVars>>

RemoveDir(v) ==
    /\ svc[v].pc = "rmdir"
    /\ \/ /\ dir' = dir \ {svc[v].id}
          /\ Replies(v, "exited", IF svc[v].failed THEN "failed" ELSE "ok")
       \/ /\ "teardown" \in Faults
          /\ UNCHANGED dir
          /\ Replies(v, "exited", "failed")
    /\ UNCHANGED <<mapVars, reap, audit, volumeVars, vmVars, procVars>>

(* The stop command.                                                       *)
Halt(v) ==
    /\ svc[v].pc = "halt"
    /\ \/ EndsVM(svc[v].id) /\ Replies(v, "idle", "ok")
       \/ "teardown" \in Faults /\ UNCHANGED vmVars /\ Replies(v, "idle", "failed")
    /\ UNCHANGED <<mapVars, reap, audit, dir, volumeVars, procVars>>

(* Watching its VM: states of a Service that has left the map go nowhere.  *)
Watches(v) ==
    /\ svc[v].pc = "idle"
    /\ svc[v].vm
    /\ services[svc[v].id] = v

(* Faulty: the poll goes on after DEAD.                                    *)
PollAlways(v) ==
    /\ Watches(v)
    /\ \E st \in Sampled(svc[v].id) : Reports(v, st)
    /\ UNCHANGED <<services, deleting, svc, call, reap, audit, hostVars, procVars>>

Poll(v) ==
    /\ Watches(v)
    /\ state[svc[v].id] # "dead"
    /\ \E st \in Sampled(svc[v].id) : Reports(v, st)
    /\ UNCHANGED <<services, deleting, svc, call, reap, audit, hostVars, procVars>>

(* Wait returns: Firecracker exited, or its shim is gone.                  *)
VMExited(v) ==
    /\ Watches(v)
    /\ vm[svc[v].id] = "none" \/ svc[v].id \in dying
    /\ Reports(v, "dead")
    /\ UNCHANGED <<services, deleting, svc, call, reap, audit, hostVars, procVars>>

(* IDs whose actor is inside CreateVolume.                                 *)
CreatingVolume == {svc[v].id : v \in {w \in Service : svc[w].pc = "volume"}}

(* run recovers, reports DEAD and exits without a reply.                   *)
Panic(v) ==
    /\ "panic" \in Faults
    /\ svc[v].pc \notin {"off", "exited"}
    /\ Reports(v, "dead")
    /\ svc' = [svc EXCEPT ![v].pc = "exited", ![v].failed = FALSE, ![v].caller = NoCall]
    /\ LeavesDevices({svc[v].id} \cap CreatingVolume)
    /\ UNCHANGED <<services, deleting, call, reap, audit, dir, vmVars, procVars>>

-----------------------------------------------------------------------------
(* ReapSandbox: kill the VM, remove the volume, then the directory.        *)

ReapGoto(r, pc) == reap' = [reap EXCEPT ![r].pc = pc]

ReapKill(r) ==
    /\ reap[r].pc = "kill"
    /\ \/ EndsVM(reap[r].id) /\ ReapGoto(r, "volume")
       \/ /\ "teardown" \in Faults
          /\ vm[reap[r].id] # "none"
          /\ UNCHANGED vmVars
          /\ ReapGoto(r, "volume") \/ ReapGoto(r, "failed")
    /\ UNCHANGED <<mapVars, svc, call, audit, dir, volumeVars, procVars>>

ReapVolume(r) ==
    /\ reap[r].pc = "volume"
    /\ \/ VolumeRemoved(reap[r].id) /\ ReapGoto(r, "rmdir")
       \/ VolumeNotRemoved(reap[r].id) /\ ReapGoto(r, "failed")
    /\ UNCHANGED <<mapVars, svc, call, audit, dir, vmVars, procVars>>

ReapDir(r) ==
    /\ reap[r].pc = "rmdir"
    /\ \/ dir' = dir \ {reap[r].id} /\ ReapGoto(r, "over")
       \/ "teardown" \in Faults /\ UNCHANGED dir /\ ReapGoto(r, "failed")
    /\ UNCHANGED <<mapVars, svc, call, audit, volumeVars, vmVars, procVars>>

(* Faulty: the ID stays claimed.                                           *)
ReapedKeepsClaim(r) ==
    /\ reap[r].pc \in {"over", "failed"}
    /\ reap' = [reap EXCEPT ![r] = NoReap]
    /\ call' = [c \in Call |-> IF c = r THEN [call[c] EXCEPT !.pc = "replied", !.reply = "ok"]
                               ELSE call[c]]
    /\ UNCHANGED <<mapVars, svc, audit, hostVars, procVars>>

(* The audit takes the ID out of deleting; a Remove answers what its reap  *)
(* returned.                                                               *)
Reaped(r) ==
    /\ reap[r].pc \in {"over", "failed"}
    /\ reap' = [reap EXCEPT ![r] = NoReap]
    /\ IF r = Main
       THEN /\ deleting' = deleting \ {reap[r].id}
            /\ UNCHANGED call
       ELSE /\ call' = [call EXCEPT ![r].pc = "replied",
                                    ![r].reply = IF reap[r].pc = "over" THEN "ok" ELSE "failed"]
            /\ UNCHANGED deleting
    /\ UNCHANGED <<services, state, svc, audit, hostVars, procVars>>

(* Main goes on to the next of its IDs.                                    *)
ReapNext(s) ==
    /\ reap' = [reap EXCEPT ![Main] = [pc |-> "kill", id |-> s]]
    /\ audit' = [audit EXCEPT !.ids = @ \ {s}]

-----------------------------------------------------------------------------
(* The audit.                                                              *)

CheckLiveness ==
    /\ audit.pc = "idle"
    /\ state' = [s \in Sandbox |->
           IF s \in Tracked /\ svc[services[s]].pc = "exited" THEN "dead" ELSE state[s]]
    /\ audit' = [audit EXCEPT !.pc = "list"]
    /\ UNCHANGED <<services, deleting, svc, call, reap, hostVars, procVars>>

(* The disk is listed before the Manager is locked; it may fail.           *)
ListDisk ==
    /\ audit.pc = "list"
    /\ \/ audit' = [pc |-> "claim", ids |-> dir]
       \/ "teardown" \in Faults /\ audit' = [audit EXCEPT !.pc = "idle"]
    /\ UNCHANGED <<mapVars, svc, call, reap, hostVars, procVars>>

(* What was on disk and nobody owns, now that the Manager is locked.       *)
Orphans == audit.ids \ (Tracked \cup deleting)

(* The audit claims the orphans; a Create for one of them is now refused.  *)
ClaimOrphans ==
    /\ audit.pc = "claim"
    /\ deleting' = deleting \cup Orphans
    /\ audit' = [pc |-> "reap", ids |-> Orphans]
    /\ UNCHANGED <<services, state, svc, call, reap, hostVars, procVars>>

ReapOrphan(s) ==
    /\ audit.pc = "reap"
    /\ reap[Main] = NoReap
    /\ s \in audit.ids
    /\ ReapNext(s)
    /\ UNCHANGED <<mapVars, svc, call, hostVars, procVars>>

AuditEnds ==
    /\ audit.pc \in {"recover", "reap"}
    /\ reap[Main] = NoReap
    /\ audit.ids = {}
    /\ audit' = [audit EXCEPT !.pc = "idle"]
    /\ UNCHANGED <<mapVars, svc, call, reap, hostVars, procVars>>

-----------------------------------------------------------------------------
(* The host, and restarts.                                                 *)

VMBoots(s) ==
    /\ vm[s] = "booting"
    /\ vm' = [vm EXCEPT ![s] = "running"]
    /\ UNCHANGED <<mapVars, svc, call, reap, audit, dir, volumeVars, dying, procVars>>

VMDies(s) ==
    /\ vm[s] # "none"
    /\ EndsVM(s)
    /\ UNCHANGED <<mapVars, svc, call, reap, audit, dir, volumeVars, procVars>>

(* The process ends, at any point; the shims and their VMs live on.  The   *)
(* next one lists the disk and recovers before it serves; if the listing   *)
(* fails, it serves with nothing recovered.                                *)
WorkerRestarts ==
    /\ restarts < MaxRestarts
    /\ restarts' = restarts + 1
    /\ capacity' = 0
    /\ services' = [s \in Sandbox |-> NoService]
    /\ state' = [s \in Sandbox |-> "starting"]
    /\ deleting' = {}
    /\ svc' = [v \in Service |-> Off]
    /\ call' = [c \in Call |-> Idle]
    /\ reap' = [r \in Reaper |-> NoReap]
    /\ \/ audit' = [pc |-> "recover", ids |-> dir]
       \/ "teardown" \in Faults /\ audit' = [pc |-> "recover", ids |-> {}]
    /\ LeavesDevices(CreatingVolume)
    /\ UNCHANGED <<dir, vmVars>>

(* Faulty: nobody waits for the exit of an adopted VM.                     *)
RecoverUnwatched(s) ==
    /\ audit.pc = "recover"
    /\ reap[Main] = NoReap
    /\ s \in audit.ids
    /\ IF vm[s] # "none" /\ s \notin dying
       THEN /\ \E v \in Service :
                   /\ Free(v)
                   /\ services' = [services EXCEPT ![s] = v]
                   /\ svc' = [svc EXCEPT ![v] = [pc |-> "idle", id |-> s, vm |-> FALSE,
                                                 failed |-> FALSE, caller |-> NoCall]]
            /\ \E st \in Sampled(s) : state' = [state EXCEPT ![s] = st]
            /\ audit' = [audit EXCEPT !.ids = @ \ {s}]
            /\ UNCHANGED reap
       ELSE /\ ReapNext(s)
            /\ UNCHANGED <<services, state, svc>>
    /\ UNCHANGED <<deleting, call, hostVars, procVars>>

(* A sandbox with a live shim is adopted, in the state its VM is found in. *)
(* Anything else is reaped.                                                *)
Recover(s) ==
    /\ audit.pc = "recover"
    /\ reap[Main] = NoReap
    /\ s \in audit.ids
    /\ IF vm[s] # "none" /\ s \notin dying
       THEN /\ \E v \in Service :
                   /\ Free(v)
                   /\ services' = [services EXCEPT ![s] = v]
                   /\ svc' = [svc EXCEPT ![v] = [pc |-> "idle", id |-> s, vm |-> TRUE,
                                                 failed |-> FALSE, caller |-> NoCall]]
            /\ \E st \in Sampled(s) : state' = [state EXCEPT ![s] = st]
            /\ audit' = [audit EXCEPT !.ids = @ \ {s}]
            /\ UNCHANGED reap
       ELSE /\ ReapNext(s)
            /\ UNCHANGED <<services, state, svc>>
    /\ UNCHANGED <<deleting, call, hostVars, procVars>>

-----------------------------------------------------------------------------
ActorStep(v) ==
    \/ NewVM(v)
    \/ CreateVolume(v)
    \/ Spawn(v)
    \/ WaitRunning(v)
    \/ StopVM(v)
    \/ RemoveVolume(v)
    \/ RemoveDir(v)
    \/ Halt(v)

CallReturns(c) ==
    \/ CreateReturns(c)
    \/ StopReturns(c)
    \/ RemoveReturns(c)

ReapStep(r) ==
    \/ ReapKill(r)
    \/ ReapVolume(r)
    \/ ReapDir(r)
    \/ Reaped(r)

MainStep ==
    \/ CheckLiveness
    \/ ListDisk
    \/ ClaimOrphans
    \/ AuditEnds
    \/ \E s \in Sandbox : ReapOrphan(s) \/ Recover(s)

Next ==
    \/ \E c \in Call :
           \/ \E s \in Sandbox : Create(c, s) \/ Stop(c, s) \/ Remove(c, s)
           \/ Take(c)
           \/ ServiceGone(c)
           \/ CallReturns(c)
    \/ \E v \in Service : ActorStep(v) \/ Poll(v) \/ VMExited(v) \/ Panic(v)
    \/ \E r \in Reaper : ReapStep(r)
    \/ MainStep
    \/ \E n \in Capacities : SetCapacity(n)
    \/ \E s \in Sandbox : VMBoots(s) \/ VMDies(s)
    \/ WorkerRestarts

Spec == Init /\ [][Next]_vars

(* Every goroutine goes on: an actor's steps end, a boot within            *)
(* bootTimeout.  Go queues the senders of a channel.  The kernel kills a   *)
(* VM whose shim is gone.                                                  *)
CallFairness ==
    /\ \A s \in Sandbox : WF_vars(VMDies(s) /\ s \in dying)
    /\ \A c \in Call :
           /\ SF_vars(Take(c))
           /\ WF_vars(ServiceGone(c) \/ CallReturns(c) \/ ReapStep(c))
    /\ \A v \in Service : WF_vars(ActorStep(v))

CallSpec == Spec /\ CallFairness

(* The audit runs at every tick, and a select takes each ready case some   *)
(* time.  A teardown tried again and again succeeds some time.             *)
AuditFairness ==
    /\ \A v \in Service : SF_vars(VMExited(v))
    /\ WF_vars(MainStep \/ ReapStep(Main))
    /\ SF_vars(ListDisk /\ audit'.pc = "claim")
    /\ SF_vars(ReapKill(Main) /\ vmVars' # vmVars)
    /\ SF_vars(ReapVolume(Main) /\ reap'[Main].pc = "rmdir")
    /\ SF_vars(ReapDir(Main) /\ dir' # dir)

FairSpec == CallSpec /\ AuditFairness

-----------------------------------------------------------------------------
(* Properties.                                                             *)

(* The map holds Services, their commands and the requests are in the      *)
(* states of run and do, and an entry's state is one of the vocabulary the *)
(* inventory reports (a query of the VM is translated, setState).          *)
TypeOK ==
    /\ services \in [Sandbox -> Service \cup {NoService}]
    /\ state \in [Sandbox -> State]
    /\ deleting \subseteq Sandbox
    /\ capacity \in Capacities \cup {0}
    /\ svc \in [Service -> {Off} \cup Actor]
    /\ call \in [Call -> {Idle} \cup Request]
    /\ reap \in [Reaper -> {NoReap} \cup Reaping]
    /\ audit \in [pc : AuditPC, ids : SUBSET Sandbox]
    /\ dir \subseteq Sandbox
    /\ volume \subseteq Sandbox
    /\ stuck \subseteq Sandbox
    /\ vm \in [Sandbox -> VM]
    /\ dying \subseteq Sandbox
    /\ restarts \in 0..MaxRestarts

(* Who works on a sandbox's directory, volume and VM, or holds its VM.     *)
Owners(s) ==
    {v \in Service : svc[v].pc \in Busy \cup {"idle"} /\ svc[v].id = s
                        /\ (svc[v].vm \/ svc[v].pc = "newVM")}
    \cup {r \in Reaper : reap[r].pc \notin {"none", "over", "failed"} /\ reap[r].id = s}

(* The ownership rule: at any time one actor, one Remove or the audit      *)
(* works on what a sandbox has on the host, never two of them, whatever    *)
(* order concurrent requests, failures, panics and the audit come in.      *)
OneOwner == \A s \in Sandbox : \A x, y \in Owners(s) : x = y

(* What SandboxHost says of one sandbox's directory, volume and VM.        *)
Host(s) == INSTANCE SandboxHost WITH
    dir <- s \in dir, volume <- s \in volume, vm <- vm[s]

(* "The directory is the ownership marker: it is created before the volume *)
(* and removed after it"; a volume is never removed under a VM, and a VM   *)
(* started only on a volume that has none: so the audit and the next       *)
(* process find all there is by listing the base dir, whatever actors,     *)
(* reapers and processes were cut short.                                   *)
HostContract ==
    /\ \A s \in Sandbox : Host(s)!Init
    /\ [][\A s \in Sandbox : Host(s)!Next \/ UNCHANGED Host(s)!vars]_hostVars

(* The Create that made the entry of s has not returned.                   *)
BeingCreated(s) ==
    \E c \in Call :
        call[c] # Idle /\ call[c].kind = "create" /\ call[c].svc = services[s]

(* The Manager as the abstract worker of HostedSandboxes.                  *)
Promise == INSTANCE HostedSandboxes WITH
    host <- [s \in Sandbox |->
                IF s \in deleting THEN "removing"
                ELSE IF s \in Tracked THEN state[s]
                ELSE "none"],
    creating <- {s \in Tracked : BeingCreated(s)},
    serving <- Serving

(* The inventory changes only as HostedSandboxes allows: a DEAD sandbox    *)
(* stays DEAD until it is removed or its own Create fails, a sandbox once  *)
(* created leaves only by a removal, and no ID comes back while it is      *)
(* being removed.                                                          *)
KeepsPromise == Promise!Spec

(* ErrSandboxNotFound: a sandbox the serving Manager does not track was    *)
(* "never created here, or already removed"; or its device is one that no  *)
(* removal can remove.                                                     *)
NotFoundIsGone == Serving => dir \ stuck \subseteq Tracked \cup deleting

(* Remove answers without an error only when nothing of the sandbox is     *)
(* left, whatever it was overtaken by, and whether an actor or, after its  *)
(* end, ReapSandbox removed it.                                            *)
RemoveReleases ==
    \A c \in Call :
        call[c].pc = "replied" /\ call[c].kind = "remove" /\ call[c].reply = "ok"
            => \/ call[c].id \notin dir \cup volume /\ vm[call[c].id] = "none"
               \/ call[c].id \in stuck

(* "Sandboxes being removed still hold their volume: they count too": at a *)
(* known capacity, a Create is admitted only if the volumes there are on   *)
(* the host (those that no removal can remove aside) and the sandboxes yet *)
(* to get theirs leave room for one more, however low the capacity has     *)
(* become since they were admitted.                                        *)
AdmittedWithinCapacity ==
    [][\A s \in Sandbox :
           Serving /\ capacity > 0 /\ s \notin Tracked /\ services'[s] # NoService
               => Cardinality((volume \ stuck) \cup Tracked) < capacity]_vars

(* A sandbox the inventory lists as DEAD, which the orchestrator fails at  *)
(* once, has no VM, or one that is being killed since its shim is gone.    *)
DeadIsOver == \A s \in Tracked : state[s] = "dead" => vm[s] = "none" \/ s \in dying

(* Every request is answered: none waits for an actor that has exited.     *)
CallsReturn == \A c \in Call : call[c] # Idle ~> call[c] = Idle

(* What a failed removal, a failed rollback or a panic left on the host is *)
(* found by the audit and goes, unless its ID is created again, or its     *)
(* device never got a live table.                                          *)
LeftoversGo ==
    \A s \in Sandbox : s \in dir \ Tracked ~> s \notin dir \/ s \in Tracked \cup stuck

(* A tracked sandbox whose VM is gone is listed as DEAD, if not dropped.   *)
DeathNoticed ==
    \A s \in Sandbox :
        s \in Tracked /\ vm[s] = "none" ~> s \notin Tracked \/ state[s] = "dead" \/ vm[s] # "none"

=============================================================================
