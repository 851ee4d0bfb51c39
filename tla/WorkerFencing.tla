---------------------------- MODULE WorkerFencing ----------------------------
(***************************************************************************)
(* The fencing of worker processes.  Every process that runs under one     *)
(* worker ID registers for a fencing token, above the persisted one and    *)
(* above the last one the process held, and sends it with each heartbeat.  *)
(* A heartbeat counts only with the persisted token; another is refused,   *)
(* as fenced or as unknown, and an unknown process registers again.        *)
(*                                                                         *)
(* Requests and replies get lost, a registration may reach the database    *)
(* after its process has given up on it, and the database may be restored  *)
(* from an older backup or lose the row.                                   *)
(***************************************************************************)
EXTENDS Integers

CONSTANTS
    Process,      \* the processes that ever run under the worker ID
    NoProcess,
    MaxFailures,  \* bound on the registrations executed late or for nobody
    MaxLosses     \* bound on the times the database loses its token

ASSUME FencingAssumption ==
    /\ NoProcess \notin Process
    /\ MaxFailures \in Nat
    /\ MaxLosses \in Nat

VARIABLES
    token,           \* worker.fencing_token, 0 when there is no row
    inventoryToken,  \* worker.inventory_token
    pc,              \* where each process is in UpdateWorker
    held,            \* the token in the process's WorkerService
    needsRegister,   \* WorkerService.needsRegister
    reply,           \* the token in a registration's reply
    late,            \* the token presented by a request its process gave up on
    failures,        \* how many registrations failed in the bounded ways
    losses,          \* how often the database lost its token
    owner            \* history: the process that registered last

dbVars == <<token, inventoryToken, losses, owner>>
procVars == <<pc, held, needsRegister, reply>>
vars == <<dbVars, procVars, late, failures>>

PC == {"off", "idle", "register", "registered", "report", "gone"}
NoLate == -1

Init ==
    /\ token = 0
    /\ inventoryToken = 0
    /\ pc = [p \in Process |-> "off"]
    /\ held = [p \in Process |-> 0]
    /\ needsRegister = [p \in Process |-> TRUE]
    /\ reply = [p \in Process |-> 0]
    /\ late = [p \in Process |-> NoLate]
    /\ failures = 0
    /\ losses = 0
    /\ owner = NoProcess

-----------------------------------------------------------------------------
Greatest(a, b) == IF a >= b THEN a ELSE b

(* Faulty: the persisted token is ignored.                                 *)
NewTokenIgnoringRow(presented) == presented + 1

(* The token Register hands out to a process that presents one.            *)
NewToken(presented) == Greatest(token, presented) + 1

(* NewWorkerService: a new process holds no token.                         *)
Start(p) ==
    /\ pc[p] = "off"
    /\ pc' = [pc EXCEPT ![p] = "idle"]
    /\ UNCHANGED <<dbVars, held, needsRegister, reply, late, failures>>

Stop(p) ==
    /\ pc[p] \notin {"off", "gone"}
    /\ pc' = [pc EXCEPT ![p] = "gone"]
    /\ UNCHANGED <<dbVars, held, needsRegister, reply, late, failures>>

(* The heartbeat timer fires: UpdateWorker registers first if it must.     *)
UpdateWorker(p) ==
    /\ pc[p] = "idle"
    /\ pc' = [pc EXCEPT ![p] = IF needsRegister[p] THEN "register" ELSE "report"]
    /\ UNCHANGED <<dbVars, held, needsRegister, reply, late, failures>>

(* Register's statement, for a request that presents the given token.      *)
Register(p, presented) ==
    /\ token' = NewToken(presented)
    /\ owner' = p
    /\ UNCHANGED <<inventoryToken, losses>>

RegisterWorker(p) ==
    /\ pc[p] = "register"
    /\ Register(p, held[p])
    /\ pc' = [pc EXCEPT ![p] = "registered"]
    /\ reply' = [reply EXCEPT ![p] = token']
    /\ UNCHANGED <<held, needsRegister, late, failures>>

(* The reply arrives, and the heartbeat follows at once.                   *)
Registered(p) ==
    /\ pc[p] = "registered"
    /\ held' = [held EXCEPT ![p] = reply[p]]
    /\ needsRegister' = [needsRegister EXCEPT ![p] = FALSE]
    /\ pc' = [pc EXCEPT ![p] = "report"]
    /\ UNCHANGED <<dbVars, reply, late, failures>>

(* The call fails or times out: the request was lost, or will still be     *)
(* executed, or was executed and its reply is lost.                        *)
RegisterFails(p) ==
    /\ \/ /\ pc[p] = "register"
          /\ UNCHANGED <<late, failures>>
       \/ /\ pc[p] = "register"
          /\ late[p] = NoLate
          /\ failures < MaxFailures
          /\ late' = [late EXCEPT ![p] = held[p]]
          /\ failures' = failures + 1
       \/ /\ pc[p] = "registered"
          /\ failures < MaxFailures
          /\ failures' = failures + 1
          /\ UNCHANGED late
    /\ pc' = [pc EXCEPT ![p] = "idle"]
    /\ UNCHANGED <<dbVars, held, needsRegister, reply>>

LateRegister(p) ==
    /\ late[p] # NoLate
    /\ Register(p, late[p])
    /\ late' = [late EXCEPT ![p] = NoLate]
    /\ UNCHANGED <<procVars, failures>>

(* Faulty: any token handed out so far is good.                            *)
AcceptedIfKnown(presented) == presented <= token

(* What Update answers to a heartbeat that presents a token.               *)
Accepted(presented) == presented = token
Unknown(presented) == token < presented

(* Faulty: ClaimInventory does not check the fencing token.                *)
ReportUnfenced(p, answered) ==
    /\ pc[p] = "report"
    /\ pc' = [pc EXCEPT ![p] = "idle"]
    /\ inventoryToken' = held[p]
    /\ needsRegister' = [needsRegister EXCEPT ![p] = answered /\ Unknown(held[p])]
    /\ UNCHANGED <<token, losses, owner, held, reply, late, failures>>

(* Faulty: an unknown process does not register again.                     *)
ReportFinal(p, answered) ==
    /\ pc[p] = "report"
    /\ pc' = [pc EXCEPT ![p] = "idle"]
    /\ inventoryToken' = IF Accepted(held[p]) THEN held[p] ELSE inventoryToken
    /\ UNCHANGED <<token, losses, owner, held, needsRegister, reply, late, failures>>

(* The heartbeat: accepted, it claims the inventory of its token; refused  *)
(* as unknown, the process will register again; refused as fenced, the     *)
(* process goes on as before.  The answer may be lost.                     *)
ReportWorkerHeartbeat(p, answered) ==
    /\ pc[p] = "report"
    /\ pc' = [pc EXCEPT ![p] = "idle"]
    /\ inventoryToken' = IF Accepted(held[p]) THEN held[p] ELSE inventoryToken
    /\ needsRegister' = [needsRegister EXCEPT ![p] = answered /\ Unknown(held[p])]
    /\ UNCHANGED <<token, losses, owner, held, reply, late, failures>>

(* The heartbeat never arrives.                                            *)
LoseHeartbeat(p) ==
    /\ pc[p] = "report"
    /\ pc' = [pc EXCEPT ![p] = "idle"]
    /\ UNCHANGED <<dbVars, held, needsRegister, reply, late, failures>>

(* The row is deleted, or restored as it was under an earlier token.       *)
LoseToken ==
    /\ losses < MaxLosses
    /\ \E t \in 0..(token - 1), i \in 0..inventoryToken :
           /\ i <= t
           /\ token' = t
           /\ inventoryToken' = i
    /\ losses' = losses + 1
    /\ UNCHANGED <<owner, procVars, late, failures>>

-----------------------------------------------------------------------------
Step(p) ==
    \/ UpdateWorker(p)
    \/ RegisterWorker(p)
    \/ Registered(p)
    \/ ReportWorkerHeartbeat(p, TRUE)

Next ==
    \/ \E p \in Process :
           \/ Start(p)
           \/ Stop(p)
           \/ Step(p)
           \/ ReportWorkerHeartbeat(p, FALSE)
           \/ LoseHeartbeat(p)
           \/ RegisterFails(p)
           \/ LateRegister(p)
    \/ LoseToken

Spec == Init /\ [][Next]_vars

(* RunHeartbeat goes on for as long as the process lives, and of the calls *)
(* it makes again and again some are answered.                             *)
Fairness ==
    \A p \in Process :
        /\ WF_vars(UpdateWorker(p))
        /\ SF_vars(RegisterWorker(p))
        /\ SF_vars(Registered(p))
        /\ SF_vars(ReportWorkerHeartbeat(p, TRUE))

FairSpec == Spec /\ Fairness

-----------------------------------------------------------------------------
(* Properties.                                                             *)

(* Tokens are natural numbers, as Register hands them out and the worker   *)
(* requires of them, and the bounds on failures and losses are kept.       *)
TypeOK ==
    /\ token \in Nat
    /\ inventoryToken \in Nat
    /\ pc \in [Process -> PC]
    /\ held \in [Process -> Nat]
    /\ needsRegister \in [Process -> BOOLEAN]
    /\ reply \in [Process -> Nat]
    /\ late \in [Process -> {NoLate} \cup Nat]
    /\ failures \in 0..MaxFailures
    /\ losses \in 0..MaxLosses
    /\ owner \in Process \cup {NoProcess}

(* No two processes hold the same token while the database keeps the one   *)
(* it persisted, so at most one of them is accepted at a time (Register's  *)
(* GREATEST(...) + 1).                                                     *)
TokensUnique ==
    losses = 0 =>
        \A p, q \in Process : held[p] = held[q] /\ held[p] # 0 => p = q

(* "A database that lost its token cannot hand out one that this worker,   *)
(* or an older process of it, ever held": tokens stay unique when the row  *)
(* is lost or restored, too.                                               *)
TokensNeverReused ==
    \A p, q \in Process : held[p] = held[q] /\ held[p] # 0 => p = q

(* Once another process has registered, a process is refused for good,     *)
(* whatever registrations were lost or late: while the database keeps its  *)
(* token, only the process that registered last can be accepted.           *)
OldProcessRefused ==
    losses = 0 => \A p \in Process : held[p] # 0 /\ Accepted(held[p]) => owner = p

(* The first inventory of a registration is noticed once: no heartbeat of  *)
(* an older process sets inventory_token back, after which the sandboxes   *)
(* the current process has not listed yet would count as lost again.  Only *)
(* the database itself can take it back.                                   *)
InventoryClaimedOnce ==
    [][losses' = 0 => inventoryToken' >= inventoryToken]_vars

(* A process whose token the database lost gets back in, unless it ends or *)
(* another one registers: it is told it is unknown, registers again, and   *)
(* is accepted.  A registration of its own that is executed late may still *)
(* take the row from it.                                                   *)
Readmitted ==
    \A p \in Process :
        pc[p] = "report" /\ Unknown(held[p])
            ~> \/ held[p] # 0 /\ Accepted(held[p])
               \/ pc[p] = "gone"
               \/ owner # p
               \/ failures > 0

=============================================================================
