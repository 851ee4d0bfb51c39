-------------------------- MODULE MCSandboxHosting --------------------------
(* Instances of SandboxHosting for TLC.                                    *)
EXTENDS SandboxHosting, TLC

MCSymmetry == Permutations(Worker)

(* Registered workers that delivered their first inventory, with nothing   *)
(* on its way.                                                             *)
WorkersUp ==
    /\ capacity \in [Worker -> Capacities]
    /\ createCall = [s \in Sandbox |-> "none"]
    /\ removeCall = [s \in Sandbox |-> [o \in Origin |-> "none"]]
    /\ orphan = [w \in Worker |-> [s \in Sandbox |-> NoOrphanJob]]
    /\ heartbeat = [w \in Worker |-> NoHeartbeat]
    /\ token = [w \in Worker |-> 1]
    /\ inventoryToken = token
    /\ procToken = token
    /\ lastSeen = [s \in Sandbox |-> "fresh"]
    /\ losses = 0

(* Where a second attempt leads: its call was answered while the call of   *)
(* the first, which timed out, is still on its way.                        *)
SecondAttempt(s, w) ==
    /\ status = [[t \in Sandbox |-> "absent"] EXCEPT ![s] = "starting"]
    /\ workerId = [[t \in Sandbox |-> NoWorker] EXCEPT ![s] = w]
    /\ create = [[t \in Sandbox |-> NoCreateJob] EXCEPT
           ![s] = [NoCreateJob EXCEPT !.pc = "ack", !.attempt = MaxAttempts, !.worker = w]]
    /\ cleanup = [t \in Sandbox |-> [o \in Origin |-> NoCleanupJob]]
    /\ host = [[v \in Worker |-> [t \in Sandbox |-> "none"]] EXCEPT ![w][s] = "running"]
    /\ lateCall = [[t \in Sandbox |-> FALSE] EXCEPT ![s] = TRUE]

(* Begun at the start, or at a second attempt.                             *)
LiveInit ==
    \/ HostingInit
    \/ WorkersUp /\ \E s \in Sandbox, w \in Worker : SecondAttempt(s, w)
MCLiveSpec == LiveInit /\ [][HostingNext]_hvars /\ HostingFairness

(* Begun with no sandbox, on workers that are up.                          *)
RetryInit ==
    /\ Init
    /\ WorkersUp
    /\ host = [w \in Worker |-> [s \in Sandbox |-> "none"]]
    /\ lateCall = [s \in Sandbox |-> FALSE]
MCRetrySpec == RetryInit /\ [][HostingNext]_hvars

=============================================================================
