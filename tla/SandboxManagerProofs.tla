------------------------ MODULE SandboxManagerProofs ------------------------
(***************************************************************************)
(* Proofs about SandboxManager, for any number of sandboxes, requests,     *)
(* Services and restarts, with any of its faults: one party at a time      *)
(* works on a sandbox, and what it does on the host is what SandboxHost    *)
(* allows.                                                                 *)
(***************************************************************************)
EXTENDS SandboxManager, TLAPS

Live(v) == svc[v].pc \notin {"off", "exited"}

(* Request c is a Remove of s that has not returned.                       *)
Removes(c, s) == call[c] # Idle /\ call[c].kind = "remove" /\ call[c].id = s

(* An ID is tracked or being removed, not both.                            *)
MapInv == \A s \in Sandbox : services[s] # NoService => s \notin deleting

(* Which commands lead an actor to a step.                                 *)
Commands(pc) ==
    IF pc \in {"newVM", "volume", "spawn", "boot"} THEN {"create"}
    ELSE IF pc = "halt" THEN {"stop"}
    ELSE {"create", "remove"}

(* A live actor is the one in the map, or the one its ID's Remove waits    *)
(* for; while it is busy, the request it works for waits.                  *)
ActorInv(v) ==
    Live(v) =>
        /\ \/ services[svc[v].id] = v
           \/ \E c \in Call : /\ Removes(c, svc[v].id)
                              /\ call[c].pc \in {"send", "wait"}
                              /\ call[c].svc = v
        /\ svc[v].pc # "idle" =>
               /\ svc[v].caller \in Call
               /\ call[svc[v].caller] # Idle
               /\ call[svc[v].caller].pc = "wait"
               /\ call[svc[v].caller].svc = v
               /\ call[svc[v].caller].kind \in Commands(svc[v].pc)

(* A Remove holds its ID, alone; a create that failed has lost its actor;  *)
(* only a Remove reaps; and nothing is served before recovery is over.     *)
CallInv(c) ==
    /\ call[c] # Idle =>
           /\ call[c].kind = "remove" => call[c].id \in deleting
           /\ call[c].kind = "create" /\ call[c].pc = "replied" /\ call[c].reply # "ok" =>
                  svc[call[c].svc].pc = "exited"
           /\ call[c].pc = "reap" => call[c].kind = "remove"
           /\ audit.pc # "recover"
    /\ \A d \in Call, s \in Sandbox : Removes(c, s) /\ Removes(d, s) => c = d
    /\ reap[c] # NoReap => call[c] # Idle /\ call[c].pc = "reap" /\ call[c].id = reap[c].id

(* What recovery or the audit has to reap, or is reaping.                  *)
MainClaims(s) == s \in audit.ids \/ (reap[Main] # NoReap /\ reap[Main].id = s)

MainInv ==
    /\ reap[Main] # NoReap => audit.pc \in {"recover", "reap"} /\ reap[Main].id \notin audit.ids
    /\ audit.pc = "reap" =>
           \A s \in Sandbox : MainClaims(s) => s \in deleting /\ \A c \in Call : ~Removes(c, s)
    /\ audit.pc = "recover" =>
           deleting = {} /\ \A s \in Sandbox : MainClaims(s) => services[s] = NoService

(* The types of what decides who works on a sandbox.                       *)
OwnerType ==
    /\ services \in [Sandbox -> Service \cup {NoService}]
    /\ deleting \subseteq Sandbox
    /\ svc \in [Service -> {Off} \cup Actor]
    /\ call \in [Call -> {Idle} \cup Request]
    /\ reap \in [Reaper -> {NoReap} \cup Reaping]
    /\ audit \in [pc : AuditPC, ids : SUBSET Sandbox]

OwnerInv ==
    /\ OwnerType
    /\ MapInv
    /\ MainInv
    /\ \A v \in Service : ActorInv(v)
    /\ \A c \in Call : CallInv(c)

-----------------------------------------------------------------------------
(* The fields of actors, requests and reapers.                             *)

LEMMA ActorFields ==
    ASSUME OwnerType, NEW v \in Service
    PROVE  /\ svc[v].pc \in {"off", "exited", "idle"} \cup Busy
           /\ Live(v) => /\ svc[v] \in Actor
                         /\ svc[v].id \in Sandbox
                         /\ svc[v].caller \in Call \cup {NoCall}
  BY DEF OwnerType, Actor, Off, Live

LEMMA CallFields ==
    ASSUME OwnerType, NEW c \in Call
    PROVE  /\ call[c] # Idle <=> call[c].pc # "idle"
           /\ call[c] # Idle =>
                  /\ call[c] \in Request
                  /\ call[c].pc \in {"send", "wait", "replied", "reap"}
                  /\ call[c].kind \in {"create", "stop", "remove"}
                  /\ call[c].id \in Sandbox
                  /\ call[c].svc \in Service
                  /\ call[c].reply \in {"none", "ok", "failed", "exited"}
  BY DEF OwnerType, Request, Idle

LEMMA ReapFields ==
    ASSUME OwnerType, NEW r \in Reaper
    PROVE  /\ reap[r] # NoReap <=> reap[r].pc # "none"
           /\ reap[r] # NoReap => /\ reap[r] \in Reaping
                                  /\ reap[r].pc \in {"kill", "volume", "rmdir", "over", "failed"}
                                  /\ reap[r].id \in Sandbox
  BY DEF OwnerType, Reaping, NoReap

(* Two that work on one sandbox are the same: the map, the claims in       *)
(* deleting and the wait of a Remove for its actor exclude each other.     *)
LEMMA Exclusive ==
    ASSUME OwnerInv
    PROVE  /\ \A v, w \in Service : Live(v) /\ Live(w) /\ svc[v].id = svc[w].id => v = w
           /\ \A v \in Service, r \in Reaper :
                  Live(v) /\ reap[r] # NoReap => svc[v].id # reap[r].id
           /\ \A q, r \in Reaper :
                  reap[q] # NoReap /\ reap[r] # NoReap /\ reap[q].id = reap[r].id => q = r
<1>1. \A v \in Service, c \in Call : Live(v) /\ Removes(c, svc[v].id) =>
          call[c].pc \in {"send", "wait"} /\ call[c].svc = v
  BY ActorFields, CallFields, ManagerAssumption
     DEF OwnerInv, ActorInv, CallInv, MapInv, Removes
<1>2. \A c \in Call : reap[c] # NoReap => Removes(c, reap[c].id) /\ call[c].pc = "reap"
  BY Zenon DEF OwnerInv, CallInv, Removes
<1>3. \A s \in Sandbox : reap[Main] # NoReap /\ reap[Main].id = s =>
          (\A c \in Call : ~Removes(c, s)) /\ services[s] \notin Service
  BY ManagerAssumption DEF OwnerInv, OwnerType, MainInv, MainClaims, MapInv, CallInv, Removes
<1>4. ASSUME NEW v \in Service, NEW w \in Service, Live(v), Live(w), svc[v].id = svc[w].id
      PROVE  v = w
  BY <1>1, <1>4 DEF OwnerInv, ActorInv
<1>5. ASSUME NEW v \in Service, NEW r \in Reaper, Live(v), reap[r] # NoReap,
             svc[v].id = reap[r].id
      PROVE  FALSE
  <2>1. CASE r \in Call
    BY <1>1, <1>2, <1>5, <2>1, Zenon
  <2>2. CASE r = Main
    BY <1>3, <1>5, <2>2, ActorFields DEF OwnerInv, ActorInv
  <2> QED BY <2>1, <2>2, Zenon DEF Reaper
<1>6. ASSUME NEW q \in Reaper, NEW r \in Reaper, reap[q] # NoReap, reap[r] # NoReap,
             reap[q].id = reap[r].id
      PROVE  q = r
  <2>1. reap[q].id \in Sandbox
    BY <1>6, ReapFields, Zenon DEF OwnerInv
  <2> QED BY <1>2, <1>3, <1>6, <2>1 DEF Reaper, OwnerInv, CallInv
<1> QED BY <1>4, <1>5, <1>6, Zenon

(* One owner: two elements of Owners(s) are the same.                      *)
-----------------------------------------------------------------------------
(* A step of an actor, as far as ownership goes: it works on, or it        *)
(* answers its request and goes back to its select or exits.               *)

AtWork(v) == Live(v) /\ svc[v].pc # "idle"

Works(v) ==
    \E a \in Actor :
        /\ a.id = svc[v].id
        /\ a.caller = svc[v].caller
        /\ a.pc \in Busy
        /\ Commands(svc[v].pc) \subseteq Commands(a.pc)
        /\ svc' = [svc EXCEPT ![v] = a]
        /\ UNCHANGED call

Answers(v) ==
    LET c == svc[v].caller IN
    \E a \in Actor, q \in Request :
        /\ a.id = svc[v].id
        /\ a.pc \in {"idle", "exited"}
        /\ q.pc = "replied"
        /\ q.kind = call[c].kind
        /\ q.id = call[c].id
        /\ q.svc = call[c].svc
        /\ a.pc = "idle" => q.kind # "remove" /\ (q.kind = "create" => q.reply = "ok")
        /\ svc' = [svc EXCEPT ![v] = a]
        /\ call' = [call EXCEPT ![c] = q]

LEMMA GotoWorks ==
    ASSUME OwnerType, NEW v \in Service, AtWork(v), NEW p \in Busy,
           Goto(v, p) \/ Fails(v, p), Commands(svc[v].pc) \subseteq Commands(p)
    PROVE  Works(v)
<1> DEFINE a == [svc[v] EXCEPT !.pc = p]
           b == [svc[v] EXCEPT !.pc = p, !.failed = TRUE]
<1>1. svc[v] \in Actor /\ svc \in [Service -> {Off} \cup Actor]
  BY ActorFields, Zenon DEF AtWork, OwnerType
<1>2. /\ a \in Actor /\ a.id = svc[v].id /\ a.caller = svc[v].caller /\ a.pc = p
      /\ b \in Actor /\ b.id = svc[v].id /\ b.caller = svc[v].caller /\ b.pc = p
  BY <1>1, Zenon DEF Actor
<1>3. svc' = [svc EXCEPT ![v] = a] \/ svc' = [svc EXCEPT ![v] = b]
  BY <1>1, Zenon DEF Goto, Fails
<1>4. UNCHANGED call
  BY Zenon DEF Goto, Fails
<1> HIDE DEF a, b
<1> QED BY <1>2, <1>3, <1>4, Zenon DEF Works

LEMMA RepliesAnswers ==
    ASSUME OwnerInv, NEW v \in Service, AtWork(v), NEW p \in {"idle", "exited"},
           NEW reply \in {"ok", "failed"}, Replies(v, p, reply),
           p = "idle" => \/ Commands(svc[v].pc) = {"stop"}
                         \/ Commands(svc[v].pc) = {"create"} /\ reply = "ok"
    PROVE  Answers(v)
<1> DEFINE c == svc[v].caller
           a == [svc[v] EXCEPT !.pc = p, !.failed = FALSE, !.caller = NoCall]
           q == [call[c] EXCEPT !.pc = "replied", !.reply = reply]
<1>1. svc[v] \in Actor /\ svc \in [Service -> {Off} \cup Actor] /\ call \in [Call -> {Idle} \cup Request]
  BY ActorFields, Zenon DEF AtWork, OwnerInv, OwnerType
<1>2. c \in Call /\ call[c] \in Request /\ call[c].kind \in Commands(svc[v].pc)
  BY CallFields, Zenon DEF AtWork, OwnerInv, ActorInv
<1>3. a \in Actor /\ a.id = svc[v].id /\ a.pc = p
  BY <1>1, Zenon DEF Actor
<1>4. /\ q \in Request /\ q.pc = "replied" /\ q.kind = call[c].kind /\ q.id = call[c].id
      /\ q.svc = call[c].svc /\ q.reply = reply
  BY <1>2, Zenon DEF Request
<1>5. svc' = [svc EXCEPT ![v] = a]
  BY <1>1, Zenon DEF Replies
<1>6. call' = [call EXCEPT ![c] = q]
  BY <1>1, <1>2, Zenon DEF Replies
<1> HIDE DEF a, q
<1>7. p = "idle" => q.kind # "remove" /\ (q.kind = "create" => q.reply = "ok")
  BY <1>2, <1>4, Zenon
<1> QED BY <1>3, <1>4, <1>5, <1>6, <1>7, Zenon DEF Answers

LEMMA ActorMoves ==
    ASSUME OwnerInv, NEW v \in Service, ActorStep(v)
    PROVE  /\ AtWork(v)
           /\ Works(v) \/ Answers(v)
           /\ UNCHANGED <<services, deleting, reap, audit>>
<1> USE DEF Busy, Commands
<1>0. OwnerType
  BY Zenon DEF OwnerInv
<1>1. CASE NewVM(v)
  <2>1. AtWork(v)
    BY <1>1, Zenon DEF NewVM, AtWork, Live
  <2>2. CASE Replies(v, "exited", "failed")
    BY <1>1, <2>1, <2>2, RepliesAnswers, Zenon DEF NewVM, mapVars
  <2>3. CASE svc' = [svc EXCEPT ![v].pc = "volume", ![v].vm = TRUE] /\ UNCHANGED call
    <3> DEFINE a == [svc[v] EXCEPT !.pc = "volume", !.vm = TRUE]
    <3>1. svc[v] \in Actor
      BY <1>0, <2>1, ActorFields, Zenon DEF AtWork
    <3>2. a \in Actor /\ a.id = svc[v].id /\ a.caller = svc[v].caller /\ a.pc = "volume"
      BY <3>1, Zenon DEF Actor
    <3>3. svc' = [svc EXCEPT ![v] = a]
      BY <1>0, <2>3, Zenon DEF OwnerType
    <3>4. svc[v].pc = "newVM"
      BY <1>1, Zenon DEF NewVM
    <3> HIDE DEF a
    <3>5. Works(v)
      BY <2>3, <3>2, <3>3, <3>4, Zenon DEF Works
    <3> QED BY <1>1, <2>1, <3>5, Zenon DEF NewVM, mapVars
  <2> QED BY <1>1, <2>2, <2>3, Zenon DEF NewVM
<1>2. CASE CreateVolume(v)
  BY <1>0, <1>2, GotoWorks, Zenon DEF CreateVolume, AtWork, Live, mapVars
<1>3. CASE Spawn(v)
  BY <1>0, <1>3, GotoWorks, Zenon DEF Spawn, AtWork, Live, mapVars
<1>4. CASE WaitRunning(v)
  BY <1>0, <1>4, GotoWorks, RepliesAnswers, Zenon DEF WaitRunning, AtWork, Live, mapVars
<1>5. CASE StopVM(v)
  BY <1>0, <1>5, GotoWorks, Zenon DEF StopVM, AtWork, Live, mapVars
<1>6. CASE RemoveVolume(v)
  BY <1>0, <1>6, GotoWorks, RepliesAnswers, Zenon DEF RemoveVolume, AtWork, Live, mapVars
<1>7. CASE RemoveDir(v)
  BY <1>7, RepliesAnswers, Zenon DEF RemoveDir, AtWork, Live, mapVars
<1>8. CASE Halt(v)
  BY <1>8, RepliesAnswers, Zenon DEF Halt, AtWork, Live, mapVars
<1> QED BY <1>1, <1>2, <1>3, <1>4, <1>5, <1>6, <1>7, <1>8 DEF ActorStep

-----------------------------------------------------------------------------
(* Every step keeps OwnerInv.                                              *)

(* The start of a worker, the first or a later one.                        *)
LEMMA FreshOwnerInv ==
    ASSUME services = [s \in Sandbox |-> NoService], deleting = {},
           svc = [v \in Service |-> Off], call = [c \in Call |-> Idle],
           reap = [r \in Reaper |-> NoReap],
           audit \in [pc : AuditPC, ids : SUBSET Sandbox],
           audit.pc \in {"idle", "recover"}
    PROVE  OwnerInv
<1>1. /\ \A c \in Call : call[c] = Idle
      /\ \A v \in Service : ~Live(v)
      /\ \A r \in Reaper : reap[r] = NoReap
      /\ \A s \in Sandbox : services[s] = NoService
  BY Zenon DEF Live, Off
<1>2. OwnerType
  BY Zenon DEF OwnerType
<1> QED BY <1>1, <1>2, Zenon
        DEF OwnerInv, MapInv, MainInv, MainClaims, ActorInv, CallInv, Removes, Reaper

LEMMA InitOwner ==
    ASSUME Init
    PROVE  OwnerInv
<1>1. audit \in [pc : AuditPC, ids : SUBSET Sandbox] /\ audit.pc = "idle"
  BY Zenon DEF Init, AuditPC
<1> QED BY <1>1, FreshOwnerInv, Zenon DEF Init

-----------------------------------------------------------------------------
(* Types, and the ownership rule.                                          *)

HostType ==
    /\ state \in [Sandbox -> State]
    /\ dir \subseteq Sandbox
    /\ volume \subseteq Sandbox
    /\ stuck \subseteq Sandbox
    /\ vm \in [Sandbox -> VM]
    /\ dying \subseteq Sandbox
    /\ capacity \in Capacities \cup {0}
    /\ restarts \in 0..MaxRestarts

LEMMA SampledIsState ==
    ASSUME HostType, NEW s \in Sandbox
    PROVE  Sampled(s) \subseteq State
  BY Zenon DEF HostType, Sampled, State, VM

LEMMA OwnerStep ==
    ASSUME OwnerInv, HostType, [Next]_vars
    PROVE  OwnerInv' /\ HostType'
<1>Works. ASSUME NEW v \in Service, AtWork(v), Works(v),
                 UNCHANGED <<services, deleting, reap, audit>>
          PROVE  OwnerInv'
  <2>1. PICK a \in Actor :
            /\ a.id = svc[v].id /\ a.caller = svc[v].caller /\ a.pc \in Busy
            /\ Commands(svc[v].pc) \subseteq Commands(a.pc)
            /\ svc' = [svc EXCEPT ![v] = a] /\ call' = call
    BY <1>Works, Zenon DEF Works
  <2>2. OwnerType /\ OwnerType'
    BY <1>Works, <2>1, Zenon DEF OwnerInv, OwnerType
  <2>3. svc'[v] = a /\ \A w \in Service \ {v} : svc'[w] = svc[w]
    BY <1>Works, <2>1, <2>2, Zenon DEF OwnerType
  <2>4. MapInv' /\ MainInv'
    BY <1>Works, <2>1, Zenon DEF OwnerInv, MapInv, MainInv, MainClaims, Removes
  <2>5. ASSUME NEW w \in Service
        PROVE  ActorInv(w)'
    <3>1. CASE w = v
      BY <1>Works, <2>1, <2>3, <3>1 DEF OwnerInv, ActorInv, AtWork, Removes
    <3>2. CASE w # v
      BY <1>Works, <2>1, <2>3, <3>2 DEF OwnerInv, ActorInv, Live, Removes
    <3> QED BY <1>Works, <3>1, <3>2, Zenon
  <2>6. ASSUME NEW c \in Call
        PROVE  CallInv(c)'
    <3>1. call[c] # Idle => call[c].svc \in Service
      BY <1>Works, <2>2, CallFields, Zenon
    <3> QED BY <1>Works, <2>1, <2>3, <3>1 DEF OwnerInv, CallInv, Removes, AtWork, Live
  <2> QED BY <1>Works, <2>2, <2>4, <2>5, <2>6, Zenon DEF OwnerInv
<1>Answers. ASSUME NEW v \in Service, AtWork(v), Answers(v),
                   UNCHANGED <<services, deleting, reap, audit>>
            PROVE  OwnerInv'
  <2> DEFINE c == svc[v].caller
  <2>1. PICK a \in Actor, q \in Request :
            /\ a.id = svc[v].id /\ a.pc \in {"idle", "exited"}
            /\ q.pc = "replied" /\ q.kind = call[c].kind /\ q.id = call[c].id /\ q.svc = call[c].svc
            /\ a.pc = "idle" => q.kind # "remove" /\ (q.kind = "create" => q.reply = "ok")
            /\ svc' = [svc EXCEPT ![v] = a] /\ call' = [call EXCEPT ![c] = q]
    BY <1>Answers, Zenon DEF Answers
  <2>2. c \in Call /\ call[c] # Idle /\ call[c].pc = "wait" /\ call[c].svc = v
    BY <1>Answers, Zenon DEF OwnerInv, ActorInv, AtWork
  <2> HIDE DEF c
  <2>3. OwnerType /\ OwnerType'
    BY <1>Answers, <2>1, <2>2, Zenon DEF OwnerInv, OwnerType
  <2>4. svc'[v] = a /\ \A w \in Service \ {v} : svc'[w] = svc[w]
    BY <1>Answers, <2>1, <2>3, Zenon DEF OwnerType
  <2>5. call'[c] = q /\ q # Idle /\ \A d \in Call \ {c} : call'[d] = call[d]
    BY <1>Answers, <2>1, <2>2, <2>3 DEF OwnerType, Request, Idle
  <2>6. \A d \in Call, s \in Sandbox : Removes(d, s)' <=> Removes(d, s)
    BY <1>Answers, <2>1, <2>2, <2>5 DEF Removes
  <2>7. MapInv' /\ MainInv'
    BY <1>Answers, <2>6, Zenon DEF OwnerInv, MapInv, MainInv, MainClaims
  <2>8. ASSUME NEW w \in Service
        PROVE  ActorInv(w)'
    <3>0. Live(w) => svc[w].id \in Sandbox
      BY <1>Answers, <2>3, ActorFields, Zenon
    <3>1. CASE w = v
      <4> SUFFICES ASSUME Live(v)'
                   PROVE  ActorInv(v)'
        BY <1>Answers, <3>1, Zenon DEF ActorInv
      <4>1. a.pc = "idle" /\ call[c].kind # "remove"
        BY <1>Answers, <2>1, <2>4, Zenon DEF Live
      <4>2. CASE services[svc[v].id] = v
        BY <1>Answers, <2>1, <2>4, <4>1, <4>2, Zenon DEF ActorInv
      <4>3. CASE services[svc[v].id] # v
        <5>1. PICK d \in Call : Removes(d, svc[v].id) /\ call[d].pc \in {"send", "wait"} /\ call[d].svc = v
          BY <1>Answers, <4>3, Zenon DEF OwnerInv, ActorInv, AtWork
        <5>2. d # c
          BY <1>Answers, <4>1, <5>1, Zenon DEF Removes
        <5> QED BY <1>Answers, <2>1, <2>4, <2>5, <4>1, <5>1, <5>2 DEF ActorInv, Removes
      <4> QED BY <1>Answers, <4>2, <4>3, Zenon
    <3>2. CASE w # v
      <4>1. svc'[w] = svc[w]
        BY <1>Answers, <2>4, <3>2, Zenon
      <4>2. \A d \in Call : call[d].svc = w => d # c /\ call'[d] = call[d]
        BY <1>Answers, <2>2, <2>5, <3>2, Zenon
      <4> QED BY <1>Answers, <3>0, <4>1, <4>2 DEF OwnerInv, ActorInv, Live, Removes
    <3> QED BY <1>Answers, <3>1, <3>2, Zenon
  <2>9. ASSUME NEW d \in Call
        PROVE  CallInv(d)'
    <3>1. call[d] # Idle => call[d].svc \in Service /\ call[d].id \in Sandbox
      BY <1>Answers, <2>3, CallFields, Zenon
    <3>2. CallInv(d)
      BY <1>Answers, Zenon DEF OwnerInv
    <3>3. \A e \in Call, s \in Sandbox : Removes(d, s)' /\ Removes(e, s)' => d = e
      BY <1>Answers, <2>6, <3>2, Zenon DEF CallInv
    <3>4. CASE d = c
      BY <1>Answers, <2>1, <2>2, <2>4, <2>5, <3>2, <3>3, <3>4 DEF CallInv
    <3>5. CASE d # c
      BY <1>Answers, <2>1, <2>2, <2>4, <2>5, <3>1, <3>2, <3>3, <3>5 DEF CallInv, AtWork, Live
    <3> QED BY <1>Answers, <3>4, <3>5, Zenon
  <2> QED BY <1>Answers, <2>3, <2>7, <2>8, <2>9, Zenon DEF OwnerInv
<1>Panic. ASSUME NEW v \in Service, Panic(v)
          PROVE  OwnerInv'
  <2> DEFINE a == [svc[v] EXCEPT !.pc = "exited", !.failed = FALSE, !.caller = NoCall]
  <2>1. UNCHANGED <<services, deleting, call, reap, audit>> /\ Live(v)
    BY <1>Panic, Zenon DEF Panic, Live
  <2>2. OwnerType
    BY <1>Panic, Zenon DEF OwnerInv
  <2>3. a \in Actor /\ a.pc = "exited"
    BY <1>Panic, <2>1, <2>2, ActorFields, Zenon DEF Actor
  <2>4. svc' = [svc EXCEPT ![v] = a]
    BY <1>Panic, <2>2, Zenon DEF Panic, OwnerType
  <2> HIDE DEF a
  <2>5. OwnerType'
    BY <1>Panic, <2>1, <2>2, <2>3, <2>4, Zenon DEF OwnerType
  <2>6. svc'[v].pc = "exited" /\ \A w \in Service \ {v} : svc'[w] = svc[w]
    BY <1>Panic, <2>2, <2>3, <2>4, Zenon DEF OwnerType
  <2>7. MapInv' /\ MainInv'
    BY <1>Panic, <2>1, Zenon DEF OwnerInv, MapInv, MainInv, MainClaims, Removes
  <2>8. ASSUME NEW w \in Service
        PROVE  ActorInv(w)'
    BY <1>Panic, <2>1, <2>6 DEF OwnerInv, ActorInv, Live, Removes
  <2>9. ASSUME NEW c \in Call
        PROVE  CallInv(c)'
    <3>1. call[c] # Idle => call[c].svc \in Service
      BY <1>Panic, <2>2, CallFields, Zenon
    <3> QED BY <1>Panic, <2>1, <2>6, <3>1 DEF OwnerInv, CallInv, Removes
  <2> QED BY <1>Panic, <2>5, <2>7, <2>8, <2>9, Zenon DEF OwnerInv
<1>Create. ASSUME NEW c \in Call, NEW s \in Sandbox, Create(c, s)
           PROVE  OwnerInv'
  <2> DEFINE q(v) == Sends("create", s, v)
             a == [pc |-> "idle", id |-> s, vm |-> FALSE, failed |-> FALSE, caller |-> NoCall]
  <2>1. /\ Serving /\ call[c] = Idle /\ services[s] = NoService /\ s \notin deleting
        /\ UNCHANGED <<deleting, reap, audit>>
    BY <1>Create, Zenon DEF Create, Tracked
  <2>2. PICK v \in Service :
            /\ Free(v)
            /\ services' = [services EXCEPT ![s] = v]
            /\ svc' = [svc EXCEPT ![v] = a]
            /\ call' = [call EXCEPT ![c] = q(v)]
    BY <1>Create, Zenon DEF Create
  <2>3. a \in Actor /\ a.pc = "idle" /\ a.id = s
    BY <1>Create, Zenon DEF Actor
  <2>4. q(v) \in Request /\ q(v) # Idle /\ q(v).pc = "send" /\ q(v).kind = "create" /\ q(v).svc = v
    BY <1>Create, Zenon DEF Sends, Request, Idle
  <2> HIDE DEF a, q
  <2>5. OwnerType /\ OwnerType'
    BY <1>Create, <2>1, <2>2, <2>3, <2>4, Zenon DEF OwnerInv, OwnerType
  <2>6. /\ services'[s] = v /\ \A t \in Sandbox \ {s} : services'[t] = services[t]
        /\ svc'[v] = a /\ \A w \in Service \ {v} : svc'[w] = svc[w]
        /\ call'[c] = q(v) /\ \A d \in Call \ {c} : call'[d] = call[d]
    BY <1>Create, <2>2, <2>5, Zenon DEF OwnerType
  <2>7. \A d \in Call, t \in Sandbox : Removes(d, t)' <=> Removes(d, t)
    BY <1>Create, <2>1, <2>4, <2>6, Zenon DEF Removes
  <2>8. MapInv'
    BY <1>Create, <2>1, <2>6, Zenon DEF OwnerInv, MapInv
  <2>9. MainInv'
    BY <1>Create, <2>1, <2>7, Zenon DEF OwnerInv, MainInv, MainClaims, Serving
  <2>10. ASSUME NEW w \in Service
         PROVE  ActorInv(w)'
    <3>1. CASE w = v
      BY <1>Create, <2>3, <2>6, <3>1, Zenon DEF ActorInv
    <3>2. CASE w # v
      <4> SUFFICES ASSUME Live(w)
                   PROVE  ActorInv(w)'
        BY <1>Create, <2>6, <3>2, Zenon DEF ActorInv, Live
      <4>1. svc'[w] = svc[w] /\ svc[w].id \in Sandbox /\ ActorInv(w)
        BY <1>Create, <2>5, <2>6, <3>2, ActorFields, Zenon DEF OwnerInv
      <4>2. \A d \in Call : call[d] # Idle => call'[d] = call[d]
        BY <1>Create, <2>1, <2>6, Zenon
      <4>3. services[svc[w].id] = w => services'[svc[w].id] = w
        BY <1>Create, <2>1, <2>6, <4>1, ManagerAssumption, Zenon
      <4> QED BY <1>Create, <4>1, <4>2, <4>3, Zenon DEF ActorInv, Removes
    <3> QED BY <1>Create, <3>1, <3>2, Zenon
  <2>11. ASSUME NEW d \in Call
         PROVE  CallInv(d)'
    <3>1. CallInv(d) /\ (call[d] # Idle => call[d].svc \in Service \ {v})
      BY <1>Create, <2>2, <2>5, CallFields, Zenon DEF OwnerInv, Free
    <3>2. \A e \in Call, t \in Sandbox : Removes(d, t)' /\ Removes(e, t)' => d = e
      BY <1>Create, <2>7, <3>1, Zenon DEF CallInv
    <3>3. CASE d = c
      BY <1>Create, <2>1, <2>4, <2>6, <3>1, <3>2, <3>3 DEF CallInv, Serving
    <3>4. CASE d # c
      BY <1>Create, <2>1, <2>6, <3>1, <3>2, <3>4, Zenon DEF CallInv
    <3> QED BY <1>Create, <3>3, <3>4, Zenon
  <2> QED BY <1>Create, <2>5, <2>8, <2>9, <2>10, <2>11, Zenon DEF OwnerInv
<1>Stop. ASSUME NEW c \in Call, NEW s \in Sandbox, Stop(c, s)
         PROVE  OwnerInv'
  <2> DEFINE q == Sends("stop", s, services[s])
  <2>1. /\ Serving /\ call[c] = Idle /\ services[s] # NoService
        /\ call' = [call EXCEPT ![c] = q]
        /\ UNCHANGED <<services, deleting, svc, reap, audit>>
    BY <1>Stop, Zenon DEF Stop, Tracked, mapVars
  <2>2. OwnerType
    BY <1>Stop, Zenon DEF OwnerInv
  <2>3. q \in Request /\ q # Idle /\ q.pc = "send" /\ q.kind = "stop"
    BY <1>Stop, <2>1, <2>2, Zenon DEF OwnerType, Sends, Request, Idle
  <2> HIDE DEF q
  <2>4. OwnerType'
    BY <1>Stop, <2>1, <2>2, <2>3, Zenon DEF OwnerType
  <2>5. call'[c] = q /\ \A d \in Call \ {c} : call'[d] = call[d]
    BY <1>Stop, <2>1, <2>2, Zenon DEF OwnerType
  <2>6. \A d \in Call, t \in Sandbox : Removes(d, t)' <=> Removes(d, t)
    BY <1>Stop, <2>1, <2>3, <2>5, Zenon DEF Removes
  <2>7. MapInv' /\ MainInv'
    BY <1>Stop, <2>1, <2>6, Zenon DEF OwnerInv, MapInv, MainInv, MainClaims
  <2>8. ASSUME NEW w \in Service
        PROVE  ActorInv(w)'
    <3>1. \A d \in Call : call[d] # Idle => call'[d] = call[d]
      BY <1>Stop, <2>1, <2>5, Zenon
    <3> QED BY <1>Stop, <2>1, <3>1 DEF OwnerInv, ActorInv, Live, Removes
  <2>9. ASSUME NEW d \in Call
        PROVE  CallInv(d)'
    <3>1. CallInv(d)
      BY <1>Stop, Zenon DEF OwnerInv
    <3>2. \A e \in Call, t \in Sandbox : Removes(d, t)' /\ Removes(e, t)' => d = e
      BY <1>Stop, <2>6, <3>1, Zenon DEF CallInv
    <3> QED BY <1>Stop, <2>1, <2>3, <2>5, <3>1, <3>2 DEF CallInv, Serving
  <2> QED BY <1>Stop, <2>4, <2>7, <2>8, <2>9, Zenon DEF OwnerInv
<1>Remove. ASSUME NEW c \in Call, NEW s \in Sandbox, Remove(c, s)
           PROVE  OwnerInv'
  <2> DEFINE q == Sends("remove", s, services[s])
  <2>1. /\ Serving /\ call[c] = Idle /\ services[s] # NoService /\ s \notin deleting
        /\ services' = [services EXCEPT ![s] = NoService]
        /\ deleting' = deleting \cup {s}
        /\ call' = [call EXCEPT ![c] = q]
        /\ UNCHANGED <<svc, reap, audit>>
    BY <1>Remove, Zenon DEF Remove, Tracked
  <2>2. OwnerType
    BY <1>Remove, Zenon DEF OwnerInv
  <2>3. /\ q \in Request /\ q # Idle /\ q.pc = "send" /\ q.kind = "remove" /\ q.id = s
        /\ q.svc = services[s]
    BY <1>Remove, <2>1, <2>2, Zenon DEF OwnerType, Sends, Request, Idle
  <2> HIDE DEF q
  <2>4. OwnerType'
    BY <1>Remove, <2>1, <2>2, <2>3, Zenon DEF OwnerType
  <2>5. /\ call'[c] = q /\ \A d \in Call \ {c} : call'[d] = call[d]
        /\ services'[s] = NoService /\ \A t \in Sandbox \ {s} : services'[t] = services[t]
    BY <1>Remove, <2>1, <2>2, Zenon DEF OwnerType
  <2>6. \A d \in Call : ~Removes(d, s)
    BY <1>Remove, <2>1 DEF OwnerInv, CallInv, Removes
  <2>7. \A d \in Call, t \in Sandbox : Removes(d, t)' <=> Removes(d, t) \/ (d = c /\ t = s)
    BY <1>Remove, <2>1, <2>3, <2>5 DEF Removes
  <2>8. MapInv'
    BY <1>Remove, <2>1, <2>5, Zenon DEF OwnerInv, MapInv
  <2>9. MainInv'
    <3>1. audit.pc = "reap" => ~MainClaims(s)
      BY <1>Remove, <2>1, Zenon DEF OwnerInv, MainInv
    <3> QED BY <1>Remove, <2>1, <2>7, <3>1, Zenon DEF OwnerInv, MainInv, MainClaims, Serving
  <2>10. ASSUME NEW w \in Service
         PROVE  ActorInv(w)'
    <3> SUFFICES ASSUME Live(w)
                 PROVE  ActorInv(w)'
      BY <1>Remove, <2>1, Zenon DEF ActorInv, Live
    <3>1. \A d \in Call : call[d] # Idle => call'[d] = call[d]
      BY <1>Remove, <2>1, <2>5, Zenon
    <3>2. svc[w].id \in Sandbox /\ ActorInv(w)
      BY <1>Remove, <2>2, ActorFields, Zenon DEF OwnerInv
    <3>3. CASE services[svc[w].id] = w /\ svc[w].id = s
      BY <1>Remove, <2>1, <2>3, <2>5, <3>1, <3>2, <3>3 DEF ActorInv, Removes
    <3>4. CASE services[svc[w].id] = w /\ svc[w].id # s
      BY <1>Remove, <2>1, <2>5, <3>1, <3>2, <3>4 DEF ActorInv
    <3>5. CASE services[svc[w].id] # w
      BY <1>Remove, <2>1, <3>1, <3>2, <3>5 DEF ActorInv, Removes
    <3> QED BY <1>Remove, <3>3, <3>4, <3>5, Zenon
  <2>11. ASSUME NEW d \in Call
         PROVE  CallInv(d)'
    <3>1. CallInv(d)
      BY <1>Remove, Zenon DEF OwnerInv
    <3>2. \A e \in Call, t \in Sandbox : Removes(d, t)' /\ Removes(e, t)' => d = e
      BY <1>Remove, <2>6, <2>7, <3>1, Zenon DEF CallInv
    <3> QED BY <1>Remove, <2>1, <2>3, <2>5, <3>1, <3>2 DEF CallInv, Serving
  <2> QED BY <1>Remove, <2>4, <2>8, <2>9, <2>10, <2>11, Zenon DEF OwnerInv
<1>Take. ASSUME NEW c \in Call, Take(c)
         PROVE  OwnerInv'
  <2> DEFINE v == call[c].svc
             q == [call[c] EXCEPT !.pc = "wait"]
             a == [svc[v] EXCEPT !.pc = Begins(call[c].kind), !.caller = c]
             r == [call[c] EXCEPT !.pc = "replied", !.reply = "ok"]
             b == [svc[v] EXCEPT !.pc = IF call[c].kind = "remove" THEN "exited" ELSE @]
  <2>1. /\ call[c].pc = "send" /\ svc[v].pc = "idle"
        /\ UNCHANGED <<services, deleting, reap, audit>>
    BY <1>Take, Zenon DEF Take, mapVars
  <2>2. OwnerType
    BY <1>Take, Zenon DEF OwnerInv
  <2>3. call[c] \in Request /\ call[c] # Idle /\ v \in Service
    BY <1>Take, <2>1, <2>2, CallFields, Zenon
  <2>4. svc[v] \in Actor /\ Live(v)
    BY <1>Take, <2>1, <2>2, <2>3, ActorFields, Zenon DEF Live
  <2>5. /\ q \in Request /\ q.kind = call[c].kind /\ q.id = call[c].id /\ q.svc = v /\ q.pc = "wait"
        /\ r \in Request /\ r.kind = call[c].kind /\ r.id = call[c].id /\ r.svc = v /\ r.pc = "replied"
        /\ r.reply = "ok" /\ q # Idle /\ r # Idle
    BY <1>Take, <2>3, Zenon DEF Request, Idle
  <2>6. /\ a \in Actor /\ a.id = svc[v].id /\ a.caller = c /\ a.pc = Begins(call[c].kind)
        /\ a.pc \in Busy /\ call[c].kind \in Commands(a.pc)
    BY <1>Take, <2>3, <2>4, Zenon DEF Actor, Request, Busy, Begins, Commands
  <2>7. /\ b \in Actor /\ b.id = svc[v].id
        /\ b.pc = IF call[c].kind = "remove" THEN "exited" ELSE "idle"
    BY <1>Take, <2>1, <2>3, <2>4, Zenon DEF Actor
  <2>8. \/ svc' = [svc EXCEPT ![v] = a] /\ call' = [call EXCEPT ![c] = q]
        \/ /\ svc' = [svc EXCEPT ![v] = b] /\ call' = [call EXCEPT ![c] = r]
           /\ call[c].kind # "create"
    BY <1>Take, <2>2, <2>3, Zenon DEF Take, OwnerType
  <2> HIDE DEF a, b, q, r, v
  <2>9. OwnerType'
    BY <1>Take, <2>1, <2>2, <2>3, <2>5, <2>6, <2>7, <2>8 DEF OwnerType
  <2>10. /\ \/ svc'[v] = a /\ call'[c] = q
            \/ svc'[v] = b /\ call'[c] = r /\ call[c].kind # "create"
         /\ \A w \in Service \ {v} : svc'[w] = svc[w]
         /\ \A d \in Call \ {c} : call'[d] = call[d]
    BY <1>Take, <2>2, <2>3, <2>8, Zenon DEF OwnerType
  <2>11. \A d \in Call, t \in Sandbox : Removes(d, t)' <=> Removes(d, t)
    BY <1>Take, <2>3, <2>5, <2>10 DEF Removes
  <2>12. MapInv' /\ MainInv'
    BY <1>Take, <2>1, <2>11, Zenon DEF OwnerInv, MapInv, MainInv, MainClaims
  <2>13. ASSUME NEW w \in Service
         PROVE  ActorInv(w)'
    <3>1. Live(w) => svc[w].id \in Sandbox /\ ActorInv(w)
      BY <1>Take, <2>2, ActorFields, Zenon DEF OwnerInv
    <3>2. CASE w # v
      <4>1. \A d \in Call : call[d].svc = w => call'[d] = call[d]
        BY <1>Take, <2>10, <3>2, Zenon DEF v
      <4> QED BY <1>Take, <2>1, <2>10, <3>1, <3>2, <4>1 DEF ActorInv, Live, Removes
    <3>3. CASE w = v /\ svc'[v] = a /\ call'[c] = q
      <4>1. \A d \in Call : call[d].pc \in {"send", "wait"} =>
                call'[d].pc \in {"send", "wait"} /\ call'[d].svc = call[d].svc
        BY <1>Take, <2>5, <2>10, <3>3, Zenon DEF v
      <4>2. \/ services'[svc[w].id] = w
            \/ \E d \in Call : /\ Removes(d, svc[w].id)
                                /\ call'[d].pc \in {"send", "wait"}
                                /\ call'[d].svc = w
        BY <1>Take, <2>1, <2>4, <3>1, <3>3, <4>1 DEF ActorInv
      <4>3. svc'[w].id = svc[w].id /\ svc[w].id \in Sandbox
        BY <1>Take, <2>4, <2>6, <3>1, <3>3, Zenon
      <4>4. /\ svc'[w].caller = c /\ call'[c] # Idle /\ call'[c].pc = "wait" /\ call'[c].svc = w
            /\ call'[c].kind \in Commands(svc'[w].pc)
        BY <1>Take, <2>5, <2>6, <3>3, Zenon
      <4> QED BY <1>Take, <2>11, <4>2, <4>3, <4>4 DEF ActorInv, Removes
    <3>4. CASE w = v /\ svc'[v] = b /\ call'[c] = r
      <4> SUFFICES ASSUME call[c].kind # "remove"
                   PROVE  ActorInv(w)'
        BY <1>Take, <2>7, <3>4, Zenon DEF ActorInv, Live
      <4> QED BY <1>Take, <2>1, <2>4, <2>7, <2>10, <3>1, <3>4 DEF ActorInv, Removes
    <3> QED BY <1>Take, <2>10, <3>2, <3>3, <3>4, Zenon
  <2>14. ASSUME NEW d \in Call
         PROVE  CallInv(d)'
    <3>1. CallInv(d) /\ (call[d] # Idle => call[d].svc \in Service)
      BY <1>Take, <2>2, CallFields, Zenon DEF OwnerInv
    <3>2. \A e \in Call, t \in Sandbox : Removes(d, t)' /\ Removes(e, t)' => d = e
      BY <1>Take, <2>11, <3>1, Zenon DEF CallInv
    <3>3. CASE d = c
      BY <1>Take, <2>1, <2>3, <2>5, <2>10, <3>1, <3>2, <3>3 DEF CallInv
    <3>4. CASE d # c
      BY <1>Take, <2>1, <2>4, <2>10, <3>1, <3>2, <3>4, Zenon DEF CallInv, Live
    <3> QED BY <1>Take, <3>3, <3>4, Zenon
  <2> QED BY <1>Take, <2>9, <2>12, <2>13, <2>14, Zenon DEF OwnerInv
<1>ServiceGone. ASSUME NEW c \in Call, ServiceGone(c)
                PROVE  OwnerInv'
  <2> DEFINE q == [call[c] EXCEPT !.pc = "replied", !.reply = "exited"]
  <2>1. /\ call[c].pc \in {"send", "wait"} /\ svc[call[c].svc].pc = "exited"
        /\ UNCHANGED <<services, deleting, svc, reap, audit>>
    BY <1>ServiceGone, Zenon DEF ServiceGone, mapVars
  <2>2. OwnerType
    BY <1>ServiceGone, Zenon DEF OwnerInv
  <2>3. call[c] \in Request /\ call[c] # Idle /\ call[c].svc \in Service
    BY <1>ServiceGone, <2>1, <2>2, CallFields, Zenon
  <2>4. /\ q \in Request /\ q.kind = call[c].kind /\ q.id = call[c].id /\ q.svc = call[c].svc
        /\ q.pc = "replied" /\ q # Idle
    BY <1>ServiceGone, <2>3, Zenon DEF Request, Idle
  <2>5. call' = [call EXCEPT ![c] = q]
    BY <1>ServiceGone, <2>2, Zenon DEF ServiceGone, OwnerType
  <2> HIDE DEF q
  <2>6. OwnerType'
    BY <1>ServiceGone, <2>1, <2>2, <2>4, <2>5, Zenon DEF OwnerType
  <2>7. call'[c] = q /\ \A d \in Call \ {c} : call'[d] = call[d]
    BY <1>ServiceGone, <2>2, <2>5, Zenon DEF OwnerType
  <2>8. \A d \in Call, t \in Sandbox : Removes(d, t)' <=> Removes(d, t)
    BY <1>ServiceGone, <2>3, <2>4, <2>7 DEF Removes
  <2>9. MapInv' /\ MainInv'
    BY <1>ServiceGone, <2>1, <2>8, Zenon DEF OwnerInv, MapInv, MainInv, MainClaims
  <2>10. ASSUME NEW w \in Service
         PROVE  ActorInv(w)'
    <3> SUFFICES ASSUME Live(w)
                 PROVE  ActorInv(w)'
      BY <1>ServiceGone, <2>1, Zenon DEF ActorInv, Live
    <3>1. \A d \in Call : call[d].svc = w => call'[d] = call[d]
      BY <1>ServiceGone, <2>1, <2>7, Zenon DEF Live
    <3> QED BY <1>ServiceGone, <2>1, <3>1 DEF OwnerInv, ActorInv, Removes
  <2>11. ASSUME NEW d \in Call
         PROVE  CallInv(d)'
    <3>1. CallInv(d)
      BY <1>ServiceGone, Zenon DEF OwnerInv
    <3>2. \A e \in Call, t \in Sandbox : Removes(d, t)' /\ Removes(e, t)' => d = e
      BY <1>ServiceGone, <2>8, <3>1, Zenon DEF CallInv
    <3> QED BY <1>ServiceGone, <2>1, <2>3, <2>4, <2>7, <3>1, <3>2 DEF CallInv
  <2> QED BY <1>ServiceGone, <2>6, <2>9, <2>10, <2>11, Zenon DEF OwnerInv
(* A create or a stop returns.                                             *)
<1>Return. ASSUME NEW c \in Call, CreateReturns(c) \/ StopReturns(c)
           PROVE  OwnerInv'
  <2>1. /\ call[c].pc = "replied" /\ call[c].kind # "remove"
        /\ call' = [call EXCEPT ![c] = Idle]
        /\ UNCHANGED <<deleting, svc, reap, audit>>
    BY <1>Return, Zenon DEF CreateReturns, StopReturns, mapVars
  <2>2. OwnerType
    BY <1>Return, Zenon DEF OwnerInv
  <2>3. call[c] # Idle /\ call[c].id \in Sandbox
    BY <1>Return, <2>1, <2>2, CallFields, Zenon
  <2>4. /\ services' \in [Sandbox -> Service \cup {NoService}]
        /\ \A s \in Sandbox :
              \/ services'[s] = services[s]
              \/ /\ services'[s] = NoService /\ services[s] = call[c].svc
                 /\ call[c].kind = "create" /\ call[c].reply # "ok"
    BY <1>Return, <2>2, <2>3 DEF CreateReturns, StopReturns, OwnerType, mapVars
  <2>5. OwnerType'
    BY <1>Return, <2>1, <2>2, <2>4, Zenon DEF OwnerType
  <2>6. call'[c] = Idle /\ \A d \in Call \ {c} : call'[d] = call[d]
    BY <1>Return, <2>1, <2>2, Zenon DEF OwnerType
  <2>7. \A d \in Call, t \in Sandbox : Removes(d, t)' <=> Removes(d, t)
    BY <1>Return, <2>1, <2>6, Zenon DEF Removes
  <2>8. MapInv' /\ MainInv'
    BY <1>Return, <2>1, <2>4, <2>7, Zenon DEF OwnerInv, MapInv, MainInv, MainClaims
  <2>9. ASSUME NEW w \in Service
        PROVE  ActorInv(w)'
    <3> SUFFICES ASSUME Live(w)
                 PROVE  ActorInv(w)'
      BY <1>Return, <2>1, Zenon DEF ActorInv, Live
    <3>1. svc[w].id \in Sandbox /\ ActorInv(w)
      BY <1>Return, <2>2, ActorFields, Zenon DEF OwnerInv
    <3>2. services[svc[w].id] = w => services'[svc[w].id] = w
      BY <1>Return, <2>1, <2>3, <2>4, <3>1 DEF OwnerInv, CallInv, Live
    <3>3. \A d \in Call : call[d].pc \in {"send", "wait"} => call'[d] = call[d]
      BY <1>Return, <2>1, <2>6, Zenon
    <3> QED BY <1>Return, <2>1, <3>1, <3>2, <3>3 DEF ActorInv, Removes
  <2>10. ASSUME NEW d \in Call
         PROVE  CallInv(d)'
    <3>1. CallInv(d)
      BY <1>Return, Zenon DEF OwnerInv
    <3>2. \A e \in Call, t \in Sandbox : Removes(d, t)' /\ Removes(e, t)' => d = e
      BY <1>Return, <2>7, <3>1, Zenon DEF CallInv
    <3> QED BY <1>Return, <2>1, <2>6, <3>1, <3>2 DEF CallInv
  <2> QED BY <1>Return, <2>5, <2>8, <2>9, <2>10, Zenon DEF OwnerInv
(* A Remove whose actor is gone goes on to reap.                           *)
<1>RemoveReaps. ASSUME NEW c \in Call, RemoveReturns(c), call[c].reply = "exited"
                PROVE  OwnerInv'
  <2> DEFINE q == [call[c] EXCEPT !.pc = "reap"]
             k == [pc |-> "kill", id |-> call[c].id]
  <2>1. /\ call[c].pc = "replied" /\ call[c].kind = "remove"
        /\ reap' = [reap EXCEPT ![c] = k]
        /\ UNCHANGED <<services, deleting, svc, audit>>
    BY <1>RemoveReaps, Zenon DEF RemoveReturns
  <2>2. OwnerType
    BY <1>RemoveReaps, Zenon DEF OwnerInv
  <2>3. call[c] \in Request /\ call[c] # Idle /\ call[c].id \in Sandbox
    BY <1>RemoveReaps, <2>1, <2>2, CallFields, Zenon
  <2>4. /\ q \in Request /\ q.kind = "remove" /\ q.id = call[c].id /\ q.pc = "reap" /\ q # Idle
        /\ k \in Reaping /\ k # NoReap /\ k.id = call[c].id
    BY <1>RemoveReaps, <2>1, <2>3, Zenon DEF Request, Idle, Reaping, NoReap
  <2>5. call' = [call EXCEPT ![c] = q]
    BY <1>RemoveReaps, <2>2, Zenon DEF RemoveReturns, OwnerType
  <2> HIDE DEF q, k
  <2>6. OwnerType'
    BY <1>RemoveReaps, <2>1, <2>2, <2>4, <2>5, Zenon DEF OwnerType, Reaper
  <2>7. /\ call'[c] = q /\ \A d \in Call \ {c} : call'[d] = call[d]
        /\ reap'[c] = k /\ \A r \in Reaper \ {c} : reap'[r] = reap[r]
    BY <1>RemoveReaps, <2>1, <2>2, <2>5, Zenon DEF OwnerType, Reaper
  <2>8. \A d \in Call, t \in Sandbox : Removes(d, t)' <=> Removes(d, t)
    BY <1>RemoveReaps, <2>1, <2>3, <2>4, <2>7 DEF Removes
  <2>9. reap'[Main] = reap[Main]
    BY <1>RemoveReaps, <2>7, ManagerAssumption, Zenon DEF Reaper
  <2>10. MapInv' /\ MainInv'
    BY <1>RemoveReaps, <2>1, <2>8, <2>9, Zenon DEF OwnerInv, MapInv, MainInv, MainClaims
  <2>11. ASSUME NEW w \in Service
         PROVE  ActorInv(w)'
    <3>1. \A d \in Call : call[d].pc \in {"send", "wait"} => call'[d] = call[d]
      BY <1>RemoveReaps, <2>1, <2>7, Zenon
    <3> QED BY <1>RemoveReaps, <2>1, <3>1 DEF OwnerInv, ActorInv, Live, Removes
  <2>12. ASSUME NEW d \in Call
         PROVE  CallInv(d)'
    <3>1. CallInv(d)
      BY <1>RemoveReaps, Zenon DEF OwnerInv
    <3>2. \A e \in Call, t \in Sandbox : Removes(d, t)' /\ Removes(e, t)' => d = e
      BY <1>RemoveReaps, <2>8, <3>1, Zenon DEF CallInv
    <3> QED BY <1>RemoveReaps, <2>1, <2>3, <2>4, <2>7, <3>1, <3>2 DEF CallInv, Reaper
  <2> QED BY <1>RemoveReaps, <2>6, <2>10, <2>11, <2>12, Zenon DEF OwnerInv
(* A Remove ends, and drops its claim.                                     *)
<1>RemoveEnds. ASSUME NEW c \in Call,
                      call[c] # Idle, call[c].kind = "remove", call[c].pc = "replied",
                      deleting' = deleting \ {call[c].id},
                      call' = [call EXCEPT ![c] = Idle],
                      reap' = [reap EXCEPT ![c] = NoReap],
                      UNCHANGED <<services, svc, audit>>
               PROVE  OwnerInv'
  <2>1. OwnerType /\ call[c].id \in Sandbox
    BY <1>RemoveEnds, CallFields, Zenon DEF OwnerInv
  <2>2. OwnerType'
    BY <1>RemoveEnds, <2>1, Zenon DEF OwnerType, Reaper
  <2>3. /\ call'[c] = Idle /\ \A d \in Call \ {c} : call'[d] = call[d]
        /\ reap'[c] = NoReap /\ \A r \in Reaper \ {c} : reap'[r] = reap[r]
    BY <1>RemoveEnds, <2>1, Zenon DEF OwnerType, Reaper
  <2>4. reap'[Main] = reap[Main]
    BY <1>RemoveEnds, <2>3, ManagerAssumption, Zenon DEF Reaper
  <2>5. \A d \in Call, t \in Sandbox : Removes(d, t)' <=> d # c /\ Removes(d, t)
    BY <1>RemoveEnds, <2>3, Zenon DEF Removes
  <2>6. Removes(c, call[c].id)
    BY <1>RemoveEnds, Zenon DEF Removes
  <2>7. MapInv'
    BY <1>RemoveEnds, Zenon DEF OwnerInv, MapInv
  <2>8. MainInv'
    <3>1. audit.pc = "reap" => ~MainClaims(call[c].id)
      BY <1>RemoveEnds, <2>1, <2>6, Zenon DEF OwnerInv, MainInv
    <3> QED BY <1>RemoveEnds, <2>4, <2>5, <3>1, Zenon DEF OwnerInv, MainInv, MainClaims
  <2>9. ASSUME NEW w \in Service
        PROVE  ActorInv(w)'
    <3>1. \A d \in Call : call[d].pc \in {"send", "wait"} => call'[d] = call[d]
      BY <1>RemoveEnds, <2>3, Zenon
    <3> QED BY <1>RemoveEnds, <3>1 DEF OwnerInv, ActorInv, Live, Removes
  <2>10. ASSUME NEW d \in Call
         PROVE  CallInv(d)'
    <3>1. CallInv(d) /\ CallInv(c)
      BY <1>RemoveEnds, Zenon DEF OwnerInv
    <3>2. \A e \in Call, t \in Sandbox : Removes(d, t)' /\ Removes(e, t)' => d = e
      BY <1>RemoveEnds, <2>5, <3>1, Zenon DEF CallInv
    <3>3. CASE d = c
      BY <1>RemoveEnds, <2>3, <3>2, <3>3, Zenon DEF CallInv
    <3>4. CASE d # c
      <4>1. call'[d] = call[d] /\ reap'[d] = reap[d]
        BY <1>RemoveEnds, <2>3, <3>4, Zenon DEF Reaper
      <4>2. call[d] # Idle /\ call[d].kind = "remove" => call[d].id # call[c].id
        BY <1>RemoveEnds, <2>1, <2>6, <3>1, <3>4, Zenon DEF CallInv, Removes
      <4> QED BY <1>RemoveEnds, <3>1, <3>2, <4>1, <4>2 DEF CallInv
    <3> QED BY <1>RemoveEnds, <3>3, <3>4, Zenon
  <2> QED BY <1>RemoveEnds, <2>2, <2>7, <2>8, <2>9, <2>10 DEF OwnerInv
<1>RemoveReturns. ASSUME NEW c \in Call, RemoveReturns(c)
                  PROVE  OwnerInv'
  <2>1. CASE call[c].reply = "exited"
    BY <1>RemoveReturns, <2>1, <1>RemoveReaps, Zenon
  <2>2. CASE call[c].reply # "exited"
    <3>1. /\ call[c].pc = "replied" /\ call[c].kind = "remove"
          /\ call' = [call EXCEPT ![c] = Idle]
          /\ deleting' = deleting \ {call[c].id}
          /\ UNCHANGED <<services, svc, reap, audit>>
      BY <1>RemoveReturns, <2>2, Zenon DEF RemoveReturns
    <3>2. call[c] # Idle
      BY <1>RemoveReturns, <3>1, CallFields, Zenon DEF OwnerInv
    <3>3. reap[c] = NoReap
      BY <1>RemoveReturns, <3>1, Zenon DEF OwnerInv, CallInv
    <3>4. reap' = [reap EXCEPT ![c] = NoReap]
      BY <1>RemoveReturns, <3>1, <3>3, Zenon DEF OwnerInv, OwnerType
    <3> QED BY <1>RemoveReturns, <3>1, <3>2, <3>4, <1>RemoveEnds, Zenon
  <2> QED BY <1>RemoveReturns, <2>1, <2>2, Zenon
(* ReapSandbox goes on to its next step.                                   *)
<1>ReapMoves. ASSUME NEW r \in Reaper, ReapKill(r) \/ ReapVolume(r) \/ ReapDir(r)
              PROVE  OwnerInv'
  <2>1. /\ reap[r].pc \in {"kill", "volume", "rmdir"}
        /\ \E p \in {"volume", "rmdir", "over", "failed"} : ReapGoto(r, p)
        /\ UNCHANGED <<services, deleting, svc, call, audit>>
    BY <1>ReapMoves, Zenon DEF ReapKill, ReapVolume, ReapDir, mapVars
  <2>2. PICK p \in {"volume", "rmdir", "over", "failed"} : reap' = [reap EXCEPT ![r].pc = p]
    BY <1>ReapMoves, <2>1, Zenon DEF ReapGoto
  <2>3. OwnerType /\ reap[r] \in Reaping /\ reap[r] # NoReap
    BY <1>ReapMoves, <2>1, ReapFields, Zenon DEF OwnerInv
  <2>4. /\ reap' \in [Reaper -> {NoReap} \cup Reaping]
        /\ reap'[r] # NoReap /\ reap'[r].id = reap[r].id
        /\ \A q \in Reaper \ {r} : reap'[q] = reap[q]
    BY <1>ReapMoves, <2>2, <2>3, Zenon DEF OwnerType, Reaping, NoReap
  <2>5. \A q \in Reaper :
            (reap'[q] # NoReap <=> reap[q] # NoReap) /\ (reap[q] # NoReap => reap'[q].id = reap[q].id)
    BY <1>ReapMoves, <2>3, <2>4, Zenon
  <2>6. OwnerType'
    BY <1>ReapMoves, <2>1, <2>3, <2>4, Zenon DEF OwnerType
  <2>7. MapInv' /\ MainInv'
    BY <1>ReapMoves, <2>1, <2>5, Zenon DEF OwnerInv, MapInv, MainInv, MainClaims, Removes, Reaper
  <2>8. ASSUME NEW w \in Service
        PROVE  ActorInv(w)'
    BY <1>ReapMoves, <2>1 DEF OwnerInv, ActorInv, Live, Removes
  <2>9. ASSUME NEW c \in Call
        PROVE  CallInv(c)'
    BY <1>ReapMoves, <2>1, <2>5 DEF OwnerInv, CallInv, Removes, Reaper
  <2> QED BY <1>ReapMoves, <2>6, <2>7, <2>8, <2>9 DEF OwnerInv
(* A Remove that has reaped answers.                                       *)
<1>ReapAnswers. ASSUME NEW c \in Call, Reaped(c)
                PROVE  OwnerInv'
  <2> DEFINE q == [call[c] EXCEPT !.pc = "replied",
                                  !.reply = IF reap[c].pc = "over" THEN "ok" ELSE "failed"]
  <2>1. /\ reap[c].pc \in {"over", "failed"}
        /\ reap' = [reap EXCEPT ![c] = NoReap]
        /\ UNCHANGED <<services, deleting, svc, audit>>
    BY <1>ReapAnswers, ManagerAssumption, Zenon DEF Reaped
  <2>2. OwnerType /\ reap[c] # NoReap
    BY <1>ReapAnswers, <2>1, ReapFields, Zenon DEF OwnerInv, Reaper
  <2>3. /\ call[c] \in Request /\ call[c] # Idle /\ call[c].pc = "reap"
        /\ call[c].kind = "remove"
    BY <1>ReapAnswers, <2>2, CallFields, Zenon DEF OwnerInv, CallInv
  <2>4. q \in Request /\ q.kind = "remove" /\ q.id = call[c].id /\ q.pc = "replied" /\ q # Idle
    BY <1>ReapAnswers, <2>3, Zenon DEF Request, Idle
  <2>5. call' = [call EXCEPT ![c] = q]
    BY <1>ReapAnswers, <2>2, ManagerAssumption, Zenon DEF Reaped, OwnerType
  <2> HIDE DEF q
  <2>6. OwnerType'
    BY <1>ReapAnswers, <2>1, <2>2, <2>4, <2>5, Zenon DEF OwnerType, Reaper
  <2>7. /\ call'[c] = q /\ \A d \in Call \ {c} : call'[d] = call[d]
        /\ reap'[c] = NoReap /\ \A r \in Reaper \ {c} : reap'[r] = reap[r]
    BY <1>ReapAnswers, <2>1, <2>2, <2>5, Zenon DEF OwnerType, Reaper
  <2>8. \A d \in Call, t \in Sandbox : Removes(d, t)' <=> Removes(d, t)
    BY <1>ReapAnswers, <2>3, <2>4, <2>7 DEF Removes
  <2>9. reap'[Main] = reap[Main]
    BY <1>ReapAnswers, <2>7, ManagerAssumption, Zenon DEF Reaper
  <2>10. MapInv' /\ MainInv'
    BY <1>ReapAnswers, <2>1, <2>8, <2>9, Zenon DEF OwnerInv, MapInv, MainInv, MainClaims
  <2>11. ASSUME NEW w \in Service
         PROVE  ActorInv(w)'
    <3>1. \A d \in Call : call[d].pc \in {"send", "wait"} => call'[d] = call[d]
      BY <1>ReapAnswers, <2>3, <2>7, Zenon
    <3> QED BY <1>ReapAnswers, <2>1, <3>1 DEF OwnerInv, ActorInv, Live, Removes
  <2>12. ASSUME NEW d \in Call
         PROVE  CallInv(d)'
    <3>1. CallInv(d)
      BY <1>ReapAnswers, Zenon DEF OwnerInv
    <3>2. \A e \in Call, t \in Sandbox : Removes(d, t)' /\ Removes(e, t)' => d = e
      BY <1>ReapAnswers, <2>8, <3>1, Zenon DEF CallInv
    <3> QED BY <1>ReapAnswers, <2>1, <2>3, <2>4, <2>7, <3>1, <3>2 DEF CallInv, Reaper
  <2> QED BY <1>ReapAnswers, <2>6, <2>10, <2>11, <2>12, Zenon DEF OwnerInv
<1>Reaped. ASSUME NEW r \in Reaper, Reaped(r)
           PROVE  OwnerInv'
  <2>2. OwnerType /\ reap[r] # NoReap /\ reap[r].id \in Sandbox
    BY <1>Reaped, ReapFields, Zenon DEF OwnerInv, Reaped
  <2>3. CASE r \in Call
    BY <1>Reaped, <2>3, <1>ReapAnswers, Zenon
  <2>4. CASE r = Main
    <3>0. /\ deleting' = deleting \ {reap[r].id}
          /\ reap' = [reap EXCEPT ![r] = NoReap]
          /\ UNCHANGED <<services, svc, call, audit>>
      BY <1>Reaped, <2>4, Zenon DEF Reaped
    <3>2. reap'[Main] = NoReap /\ \A c \in Call : reap'[c] = reap[c]
      BY <1>Reaped, <3>0, <2>2, <2>4, ManagerAssumption, Zenon DEF OwnerType, Reaper
    <3>3. OwnerType'
      BY <1>Reaped, <3>0, <2>2, Zenon DEF OwnerType
    <3>4. /\ \A c \in Call : ~Removes(c, reap[r].id)
          /\ reap[r].id \notin audit.ids
      BY <1>Reaped, <2>2, <2>4, Zenon DEF OwnerInv, MainInv, MainClaims, CallInv, Removes
    <3>5. MapInv'
      BY <1>Reaped, <3>0, Zenon DEF OwnerInv, MapInv
    <3>6. MainInv'
      BY <1>Reaped, <3>0, <3>2, <3>4 DEF OwnerInv, MainInv, MainClaims, Removes
    <3>7. ASSUME NEW w \in Service
          PROVE  ActorInv(w)'
      BY <1>Reaped, <3>0 DEF OwnerInv, ActorInv, Live, Removes
    <3>8. ASSUME NEW c \in Call
          PROVE  CallInv(c)'
      BY <1>Reaped, <3>0, <3>2, <3>4 DEF OwnerInv, CallInv, Removes
    <3> QED BY <1>Reaped, <3>3, <3>5, <3>6, <3>7, <3>8, Zenon DEF OwnerInv
  <2> QED BY <1>Reaped, <2>3, <2>4, Zenon DEF Reaper
(* The audit between two claims.                                           *)
<1>AuditMoves. ASSUME dir \subseteq Sandbox, CheckLiveness \/ ListDisk \/ AuditEnds
               PROVE  OwnerInv'
  <2>1. UNCHANGED <<services, deleting, svc, call, reap>>
    BY <1>AuditMoves, Zenon DEF CheckLiveness, ListDisk, AuditEnds, mapVars
  <2>2. /\ audit' \in [pc : AuditPC, ids : SUBSET Sandbox]
        /\ audit'.pc \notin {"recover", "reap"}
    BY <1>AuditMoves DEF OwnerInv, OwnerType, CheckLiveness, ListDisk, AuditEnds, AuditPC
  <2>3. reap[Main] = NoReap
    BY <1>AuditMoves, Zenon DEF OwnerInv, MainInv, CheckLiveness, ListDisk, AuditEnds
  <2>4. OwnerType'
    BY <1>AuditMoves, <2>1, <2>2, Zenon DEF OwnerInv, OwnerType
  <2>5. MapInv' /\ MainInv'
    BY <1>AuditMoves, <2>1, <2>2, <2>3, Zenon DEF OwnerInv, MapInv, MainInv
  <2>6. ASSUME NEW w \in Service
        PROVE  ActorInv(w)'
    BY <1>AuditMoves, <2>1 DEF OwnerInv, ActorInv, Live, Removes
  <2>7. ASSUME NEW c \in Call
        PROVE  CallInv(c)'
    BY <1>AuditMoves, <2>1, <2>2, Zenon DEF OwnerInv, CallInv, Removes
  <2> QED BY <1>AuditMoves, <2>4, <2>5, <2>6, <2>7, Zenon DEF OwnerInv
<1>ClaimOrphans. ASSUME ClaimOrphans
                 PROVE  OwnerInv'
  <2>1. /\ audit.pc = "claim"
        /\ deleting' = deleting \cup Orphans
        /\ audit' = [pc |-> "reap", ids |-> Orphans]
        /\ UNCHANGED <<services, svc, call, reap>>
    BY <1>ClaimOrphans, Zenon DEF ClaimOrphans
  <2>2. Orphans \subseteq Sandbox /\ \A s \in Orphans : services[s] = NoService /\ s \notin deleting
    BY <1>ClaimOrphans, Zenon DEF OwnerInv, OwnerType, Orphans, Tracked
  <2>3. reap[Main] = NoReap
    BY <1>ClaimOrphans, <2>1, Zenon DEF OwnerInv, MainInv
  <2>4. OwnerType'
    BY <1>ClaimOrphans, <2>1, <2>2, Zenon DEF OwnerInv, OwnerType, AuditPC
  <2>5. audit'.pc = "reap" /\ audit'.ids = Orphans
    BY <1>ClaimOrphans, <2>1, Zenon
  <2>6. MapInv'
    BY <1>ClaimOrphans, <2>1, <2>2, Zenon DEF OwnerInv, MapInv
  <2>7. MainInv'
    BY <1>ClaimOrphans, <2>1, <2>2, <2>3, <2>5 DEF OwnerInv, MainInv, MainClaims, CallInv, Removes
  <2>8. ASSUME NEW w \in Service
        PROVE  ActorInv(w)'
    BY <1>ClaimOrphans, <2>1, Zenon DEF OwnerInv, ActorInv, Live, Removes
  <2>9. ASSUME NEW c \in Call
        PROVE  CallInv(c)'
    BY <1>ClaimOrphans, <2>1, <2>5, Zenon DEF OwnerInv, CallInv, Removes
  <2> QED BY <1>ClaimOrphans, <2>4, <2>6, <2>7, <2>8, <2>9, Zenon DEF OwnerInv
(* Recovery or the audit goes on to reap the next of its IDs.              *)
<1>ReapNext. ASSUME NEW s \in Sandbox, s \in audit.ids, reap[Main] = NoReap,
                    audit.pc \in {"recover", "reap"}, ReapNext(s),
                    UNCHANGED <<services, deleting, svc, call>>
             PROVE  OwnerInv'
  <2> DEFINE k == [pc |-> "kill", id |-> s]
  <2>1. OwnerType /\ reap' = [reap EXCEPT ![Main] = k]
    BY <1>ReapNext, Zenon DEF OwnerInv, ReapNext
  <2>2. k \in Reaping /\ k.id = s
    BY <1>ReapNext, Zenon DEF Reaping
  <2>3. /\ audit' \in [pc : AuditPC, ids : SUBSET Sandbox]
        /\ audit'.pc = audit.pc /\ audit'.ids = audit.ids \ {s}
    BY <1>ReapNext, <2>1, Zenon DEF OwnerType, ReapNext
  <2> HIDE DEF k
  <2>4. reap'[Main] = k /\ \A c \in Call : reap'[c] = reap[c]
    BY <1>ReapNext, <2>1, ManagerAssumption, Zenon DEF OwnerType, Reaper
  <2>5. OwnerType'
    BY <1>ReapNext, <2>1, <2>2, <2>3, Zenon DEF OwnerType, Reaper
  <2>6. MapInv'
    BY <1>ReapNext, Zenon DEF OwnerInv, MapInv
  <2>7. MainInv'
    <3>1. \A t \in Sandbox : MainClaims(t)' => MainClaims(t)
      BY <1>ReapNext, <2>2, <2>3, <2>4, Zenon DEF MainClaims
    <3> QED BY <1>ReapNext, <2>2, <2>3, <2>4, <3>1, Zenon DEF OwnerInv, MainInv, Removes
  <2>8. ASSUME NEW w \in Service
        PROVE  ActorInv(w)'
    BY <1>ReapNext, Zenon DEF OwnerInv, ActorInv, Live, Removes
  <2>9. ASSUME NEW c \in Call
        PROVE  CallInv(c)'
    BY <1>ReapNext, <2>3, <2>4 DEF OwnerInv, CallInv, Removes
  <2> QED BY <1>ReapNext, <2>5, <2>6, <2>7, <2>8, <2>9, Zenon DEF OwnerInv
<1>Recover. ASSUME NEW s \in Sandbox, Recover(s)
            PROVE  OwnerInv'
  <2> DEFINE a == [pc |-> "idle", id |-> s, vm |-> TRUE, failed |-> FALSE, caller |-> NoCall]
  <2>1. /\ audit.pc = "recover" /\ reap[Main] = NoReap /\ s \in audit.ids
        /\ UNCHANGED <<deleting, call>>
    BY <1>Recover, Zenon DEF Recover
  <2>2. CASE ~(vm[s] # "none" /\ s \notin dying)
    BY <1>Recover, <2>1, <2>2, <1>ReapNext, Zenon DEF Recover
  <2>3. CASE vm[s] # "none" /\ s \notin dying
    <3>1. PICK v \in Service :
              /\ Free(v)
              /\ services' = [services EXCEPT ![s] = v]
              /\ svc' = [svc EXCEPT ![v] = a]
      BY <1>Recover, <2>3, Zenon DEF Recover
    <3>2. audit' = [audit EXCEPT !.ids = @ \ {s}] /\ UNCHANGED reap
      BY <1>Recover, <2>3, Zenon DEF Recover
    <3>3. a \in Actor /\ a.pc = "idle" /\ a.id = s
      BY <1>Recover, Zenon DEF Actor
    <3>4. OwnerType
      BY <1>Recover, Zenon DEF OwnerInv
    <3>5. /\ audit' \in [pc : AuditPC, ids : SUBSET Sandbox]
          /\ audit'.pc = "recover" /\ audit'.ids = audit.ids \ {s}
      BY <1>Recover, <2>1, <3>2, <3>4, Zenon DEF OwnerType
    <3> HIDE DEF a
    <3>6. OwnerType'
      BY <1>Recover, <2>1, <3>1, <3>2, <3>3, <3>4, <3>5, Zenon DEF OwnerType
    <3>7. /\ services'[s] = v /\ \A t \in Sandbox \ {s} : services'[t] = services[t]
          /\ svc'[v] = a /\ \A w \in Service \ {v} : svc'[w] = svc[w]
      BY <1>Recover, <3>1, <3>4, Zenon DEF OwnerType
    <3>8. /\ deleting = {} /\ services[s] = NoService
          /\ \A t \in Sandbox : MainClaims(t) => services[t] = NoService
          /\ \A c \in Call : call[c] = Idle
      BY <1>Recover, <2>1, Zenon DEF OwnerInv, MainInv, MainClaims, CallInv
    <3>9. MapInv'
      BY <1>Recover, <2>1, <3>8, Zenon DEF MapInv
    <3>10. MainInv'
      BY <1>Recover, <2>1, <3>2, <3>5, <3>7, <3>8 DEF MainInv, MainClaims
    <3>11. ASSUME NEW w \in Service
           PROVE  ActorInv(w)'
      <4>1. CASE w = v
        BY <1>Recover, <3>3, <3>7, <4>1, Zenon DEF ActorInv
      <4>2. CASE w # v
        <5> SUFFICES ASSUME Live(w)
                     PROVE  ActorInv(w)'
          BY <1>Recover, <3>7, <4>2, Zenon DEF ActorInv, Live
        <5>1. svc'[w] = svc[w] /\ svc[w].id \in Sandbox /\ ActorInv(w)
          BY <1>Recover, <3>4, <3>7, <4>2, ActorFields, Zenon DEF OwnerInv
        <5>2. services[svc[w].id] = w /\ svc[w].pc = "idle"
          BY <1>Recover, <3>8, <5>1, Zenon DEF ActorInv, Removes
        <5>3. svc[w].id # s
          BY <1>Recover, <3>8, <5>2, ManagerAssumption, Zenon
        <5> QED BY <1>Recover, <3>7, <5>1, <5>2, <5>3, Zenon DEF ActorInv
      <4> QED BY <1>Recover, <4>1, <4>2, Zenon
    <3>12. ASSUME NEW c \in Call
           PROVE  CallInv(c)'
      <4>1. reap[c] = NoReap
        BY <1>Recover, <3>8, Zenon DEF OwnerInv, CallInv
      <4> QED BY <1>Recover, <2>1, <3>2, <3>8, <4>1, Zenon DEF CallInv, Removes
    <3> QED BY <1>Recover, <3>6, <3>9, <3>10, <3>11, <3>12, Zenon DEF OwnerInv
  <2> QED BY <1>Recover, <2>2, <2>3, Zenon
<1>Restart. ASSUME dir \subseteq Sandbox, WorkerRestarts
            PROVE  OwnerInv'
  <2>1. /\ \A c \in Call : call'[c] = Idle
        /\ \A v \in Service : ~Live(v)'
        /\ \A r \in Reaper : reap'[r] = NoReap
        /\ \A s \in Sandbox : services'[s] = NoService
        /\ deleting' = {}
    BY <1>Restart, Zenon DEF WorkerRestarts, Live, Off
  <2>2. audit' \in [pc : AuditPC, ids : SUBSET Sandbox] /\ audit'.pc = "recover"
    <3>1. audit' = [pc |-> "recover", ids |-> dir] \/ audit' = [pc |-> "recover", ids |-> {}]
      BY <1>Restart, Zenon DEF WorkerRestarts
    <3> QED BY <1>Restart, <3>1 DEF AuditPC
  <2>3. OwnerType'
    BY <1>Restart, <2>2, Zenon DEF OwnerType, WorkerRestarts
  <2> QED BY <1>Restart, <2>1, <2>2, <2>3, Zenon
          DEF OwnerInv, MapInv, MainInv, MainClaims, ActorInv, CallInv, Removes, Reaper
<1>OwnerStutter. ASSUME UNCHANGED <<services, deleting, svc, call, reap, audit>>
                 PROVE  OwnerInv'
  BY <1>OwnerStutter DEF OwnerInv, OwnerType, MapInv, MainInv, MainClaims, ActorInv, CallInv, Live, Removes
<1>ActorHostType. ASSUME OwnerType, NEW v \in Service, ActorStep(v)
                  PROVE  HostType'
  <2> USE DEF HostType, VM, volumeVars, vmVars, procVars
  <2>1. svc[v].id \in Sandbox
    BY <1>ActorHostType, ActorFields, Zenon DEF ActorStep, Live, NewVM, CreateVolume, Spawn, WaitRunning, StopVM,
       RemoveVolume, RemoveDir, Halt
  <2>2. CASE NewVM(v)
    BY <1>ActorHostType, <2>1, <2>2, Zenon DEF NewVM, mapVars
  <2>3. CASE CreateVolume(v)
    BY <1>ActorHostType, <2>1, <2>3 DEF CreateVolume, LeavesDevices, mapVars
  <2>4. CASE Spawn(v)
    BY <1>ActorHostType, <2>1, <2>4, Zenon DEF Spawn, mapVars
  <2>5. CASE WaitRunning(v)
    BY <1>ActorHostType, <2>1, <2>5, SampledIsState, Zenon DEF WaitRunning, Reports, hostVars
  <2>6. CASE StopVM(v)
    BY <1>ActorHostType, <2>1, <2>6, Zenon DEF StopVM, EndsVM, mapVars
  <2>7. CASE RemoveVolume(v)
    BY <1>ActorHostType, <2>1, <2>7, Zenon DEF RemoveVolume, VolumeRemoved, VolumeNotRemoved, mapVars
  <2>8. CASE RemoveDir(v)
    BY <1>ActorHostType, <2>1, <2>8, Zenon DEF RemoveDir, mapVars
  <2>9. CASE Halt(v)
    BY <1>ActorHostType, <2>1, <2>9, Zenon DEF Halt, EndsVM, mapVars
  <2> QED BY <1>ActorHostType, <2>2, <2>3, <2>4, <2>5, <2>6, <2>7, <2>8, <2>9 DEF ActorStep
<1>WatchHostType. ASSUME OwnerType, NEW v \in Service, Poll(v) \/ VMExited(v) \/ Panic(v)
                  PROVE  HostType'
  <2>1. svc[v].id \in Sandbox
    BY <1>WatchHostType, ActorFields, Zenon DEF Live, Poll, VMExited, Panic, Watches
  <2>2. UNCHANGED <<dir, vmVars, procVars>> /\ volume' \subseteq Sandbox /\ stuck' \subseteq Sandbox
    BY <1>WatchHostType, <2>1 DEF HostType, Poll, VMExited, Panic, LeavesDevices, hostVars, volumeVars
  <2>3. \E st \in State : Reports(v, st)
    BY <1>WatchHostType, <2>1, SampledIsState, Zenon DEF Poll, VMExited, Panic, State
  <2> QED BY <1>WatchHostType, <2>1, <2>2, <2>3 DEF HostType, Reports, vmVars, procVars
<1>ReapHostType. ASSUME OwnerType, NEW r \in Reaper, ReapStep(r)
                 PROVE  HostType'
  <2>1. reap[r].id \in Sandbox
    BY <1>ReapHostType, ReapFields, Zenon DEF ReapStep, ReapKill, ReapVolume, ReapDir, Reaped
  <2> USE DEF HostType, VM, mapVars, hostVars, volumeVars, vmVars, procVars
  <2>2. CASE ReapKill(r)
    BY <1>ReapHostType, <2>1, <2>2, Zenon DEF ReapKill, EndsVM
  <2>3. CASE ReapVolume(r)
    BY <1>ReapHostType, <2>1, <2>3, Zenon DEF ReapVolume, VolumeRemoved, VolumeNotRemoved
  <2>4. CASE ReapDir(r)
    BY <1>ReapHostType, <2>1, <2>4, Zenon DEF ReapDir
  <2>5. CASE Reaped(r)
    BY <1>ReapHostType, <2>5, Zenon DEF Reaped
  <2> QED BY <1>ReapHostType, <2>2, <2>3, <2>4, <2>5, Zenon DEF ReapStep
<1>0. OwnerType /\ dir \subseteq Sandbox
  BY Zenon DEF OwnerInv, HostType
<1>1. ASSUME NEW c \in Call, NEW s \in Sandbox, Create(c, s) \/ Stop(c, s) \/ Remove(c, s)
      PROVE  OwnerInv' /\ HostType'
  <2>1. HostType'
    BY <1>1, Zenon DEF HostType, Create, Stop, Remove, State, mapVars, hostVars, volumeVars, vmVars, procVars
  <2> QED BY <1>1, <2>1, <1>Create, <1>Stop, <1>Remove, Zenon
<1>2. ASSUME NEW c \in Call, Take(c) \/ ServiceGone(c) \/ CallReturns(c)
      PROVE  OwnerInv' /\ HostType'
  <2>1. UNCHANGED <<state, hostVars, procVars>>
    BY <1>2, Zenon DEF Take, ServiceGone, CallReturns, CreateReturns, StopReturns, RemoveReturns, mapVars
  <2>2. HostType'
    BY <2>1, Zenon DEF HostType, hostVars, volumeVars, vmVars, procVars
  <2> QED BY <1>2, <2>2, <1>Take, <1>ServiceGone, <1>Return, <1>RemoveReturns, Zenon DEF CallReturns
<1>3. ASSUME NEW v \in Service, ActorStep(v)
      PROVE  OwnerInv' /\ HostType'
  BY <1>0, <1>3, ActorMoves, <1>Works, <1>Answers, <1>ActorHostType, Zenon
<1>4. ASSUME NEW v \in Service, Poll(v) \/ VMExited(v) \/ Panic(v)
      PROVE  OwnerInv' /\ HostType'
  <2>1. CASE Panic(v)
    BY <1>0, <2>1, <1>Panic, <1>WatchHostType, Zenon
  <2>2. CASE Poll(v) \/ VMExited(v)
    BY <1>0, <2>2, <1>OwnerStutter, <1>WatchHostType, Zenon DEF Poll, VMExited
  <2> QED BY <1>4, <2>1, <2>2, Zenon
<1>5. ASSUME NEW r \in Reaper, ReapStep(r)
      PROVE  OwnerInv' /\ HostType'
  BY <1>0, <1>5, <1>ReapMoves, <1>Reaped, <1>ReapHostType, Zenon DEF ReapStep
<1>6. CASE CheckLiveness \/ ListDisk \/ ClaimOrphans \/ AuditEnds
  <2>1. HostType'
    BY <1>6, Zenon
       DEF HostType, CheckLiveness, ListDisk, ClaimOrphans, AuditEnds, State, mapVars, hostVars, volumeVars, vmVars, procVars
  <2> QED BY <1>0, <1>6, <2>1, <1>AuditMoves, <1>ClaimOrphans, Zenon
<1>7. ASSUME NEW s \in Sandbox, ReapOrphan(s)
      PROVE  OwnerInv' /\ HostType'
  <2>1. HostType'
    BY <1>7, Zenon DEF HostType, ReapOrphan, mapVars, hostVars, volumeVars, vmVars, procVars
  <2> QED BY <1>7, <2>1, <1>ReapNext, Zenon DEF ReapOrphan, mapVars
<1>8. ASSUME NEW s \in Sandbox, Recover(s)
      PROVE  OwnerInv' /\ HostType'
  <2>1. HostType'
    BY <1>8, SampledIsState, Zenon DEF HostType, Recover, hostVars, volumeVars, vmVars, procVars
  <2> QED BY <1>8, <2>1, <1>Recover, Zenon
<1>9. ASSUME NEW s \in Sandbox, VMBoots(s) \/ VMDies(s)
      PROVE  OwnerInv' /\ HostType'
  <2>1. HostType'
    BY <1>9, Zenon DEF HostType, VMBoots, VMDies, EndsVM, VM, mapVars, volumeVars, vmVars, procVars
  <2> QED BY <1>9, <2>1, <1>OwnerStutter, Zenon DEF VMBoots, VMDies, mapVars
<1>10. CASE WorkerRestarts
  <2>1. HostType'
    <3>1. restarts' \in 0..MaxRestarts
      BY <1>10, ManagerAssumption DEF HostType, WorkerRestarts
    <3>2. \A v \in Service : svc[v].pc = "volume" => svc[v].id \in Sandbox
      BY <1>0, ActorFields, Zenon DEF Live
    <3>3. volume' \subseteq Sandbox /\ stuck' \subseteq Sandbox
      BY <1>10, <3>2 DEF HostType, WorkerRestarts, LeavesDevices, CreatingVolume
    <3> QED BY <1>10, <3>1, <3>3, Zenon DEF HostType, WorkerRestarts, State, vmVars
  <2> QED BY <1>0, <1>10, <2>1, <1>Restart, Zenon
<1>11. CASE UNCHANGED vars
  BY <1>11, <1>OwnerStutter, Zenon DEF HostType, vars, mapVars, hostVars, volumeVars, vmVars, procVars
<1>12. ASSUME NEW n \in Capacities, SetCapacity(n)
       PROVE  OwnerInv' /\ HostType'
  BY <1>12, <1>OwnerStutter, Zenon DEF HostType, SetCapacity, mapVars, hostVars, volumeVars, vmVars
<1> QED BY <1>1, <1>2, <1>3, <1>4, <1>5, <1>6, <1>7, <1>8, <1>9, <1>10, <1>11, <1>12 DEF Next, MainStep

LEMMA OwnerInvariant == Spec => [](OwnerInv /\ HostType)
<1>1. Init => OwnerInv /\ HostType
  <2> SUFFICES ASSUME Init
               PROVE  OwnerInv /\ HostType
    OBVIOUS
  <2> QED BY InitOwner, ManagerAssumption DEF Init, HostType, State, VM
<1>2. OwnerInv /\ HostType /\ [Next]_vars => (OwnerInv /\ HostType)'
  BY OwnerStep, Zenon
<1> QED BY <1>1, <1>2, PTL DEF Spec

(* What the map, the actors and the requests hold keeps its types, and an  *)
(* entry's state the vocabulary of the inventory, whatever fails.          *)
THEOREM ManagerTypeCorrect == Spec => []TypeOK
<1>1. OwnerInv /\ HostType => TypeOK
  BY Zenon DEF OwnerInv, OwnerType, HostType, TypeOK
<1> QED BY <1>1, OwnerInvariant, PTL

(* The ownership rule: whatever requests, failures, panics, audits and     *)
(* restarts come, at most one actor, Remove or audit works on a sandbox.   *)
THEOREM OwnersAlone == Spec => []OneOwner
<1>1. ASSUME OwnerInv, NEW s \in Sandbox
      PROVE  \A x, y \in Owners(s) : x = y
  <2>1. \A x \in Owners(s) :
            \/ x \in Service /\ Live(x) /\ svc[x].id = s
            \/ x \in Reaper /\ reap[x] # NoReap /\ reap[x].id = s
    BY DEF Owners, Live, Busy, NoReap
  <2> QED BY <1>1, <2>1, Exclusive
<1>2. OwnerInv => OneOwner
  BY <1>1, Zenon DEF OneOwner
<1> QED BY <1>2, OwnerInvariant, PTL

-----------------------------------------------------------------------------
(* What is on the host when the party that works on a sandbox gets to a    *)
(* step: a directory for the volume, a volume without a VM for the VM, no  *)
(* volume when the directory goes.                                         *)
StepInv(v) ==
    /\ svc[v].pc = "volume" => svc[v].id \in dir
    /\ svc[v].pc = "spawn" => svc[v].id \in volume /\ vm[svc[v].id] = "none"
    /\ svc[v].pc = "rmdir" => svc[v].id \notin volume
HostInv ==
    /\ \A s \in Sandbox : vm[s] # "none" => s \in volume
    /\ \A v \in Service : StepInv(v)
    /\ \A r \in Reaper : reap[r].pc = "rmdir" => reap[r].id \notin volume

-----------------------------------------------------------------------------
(* The host: whoever works on a sandbox finds what the step before left,   *)
(* because nobody else works on it.                                        *)

HostStep == \A s \in Sandbox : Host(s)!Next \/ UNCHANGED Host(s)!vars

LEMMA ActorHostAlone ==
    ASSUME OwnerInv, NEW v \in Service, Live(v)
    PROVE  /\ \A w \in Service \ {v} :
                  svc[w].pc \in {"volume", "spawn", "rmdir"} => svc[w].id # svc[v].id
           /\ \A r \in Reaper : reap[r].pc = "rmdir" => reap[r].id # svc[v].id
<1>1. \A w \in Service : svc[w].pc \in {"volume", "spawn", "rmdir"} => Live(w)
  BY Zenon DEF Live
<1>2. \A r \in Reaper : reap[r].pc = "rmdir" => reap[r] # NoReap
  BY DEF NoReap
<1> QED BY <1>1, <1>2, Exclusive, Zenon

LEMMA ReaperHostAlone ==
    ASSUME OwnerInv, NEW r \in Reaper, reap[r].pc # "none"
    PROVE  /\ \A w \in Service :
                  svc[w].pc \in {"volume", "spawn", "rmdir"} => svc[w].id # reap[r].id
           /\ \A q \in Reaper \ {r} : reap[q].pc = "rmdir" => reap[q].id # reap[r].id
<1>1. \A w \in Service : svc[w].pc \in {"volume", "spawn", "rmdir"} => Live(w)
  BY Zenon DEF Live
<1>2. reap[r] # NoReap /\ \A q \in Reaper : reap[q].pc = "rmdir" => reap[q] # NoReap
  BY DEF NoReap
<1> QED BY <1>1, <1>2, Exclusive, Zenon

LEMMA ActorEffect ==
    ASSUME OwnerType, NEW v \in Service, Live(v), NEW p, NEW reply,
           Goto(v, p) \/ Fails(v, p) \/ Replies(v, p, reply)
    PROVE  /\ svc'[v].pc = p
           /\ svc'[v].id = svc[v].id
           /\ svc'[v].vm = svc[v].vm
           /\ \A w \in Service \ {v} : svc'[w] = svc[w]
<1>1. svc[v] \in Actor /\ svc \in [Service -> {Off} \cup Actor]
  BY ActorFields, Zenon DEF OwnerType
<1> QED BY <1>1 DEF Goto, Fails, Replies, Actor

(* Nothing on the host changes, and nobody gets to a step that needs       *)
(* something there.                                                        *)
LEMMA HostAlike ==
    ASSUME HostInv, UNCHANGED <<dir, volume, vm>>,
           \A v \in Service : svc'[v] = svc[v] \/ svc'[v].pc \notin {"volume", "spawn", "rmdir"},
           \A r \in Reaper : reap'[r] = reap[r] \/ reap'[r].pc # "rmdir"
    PROVE  HostInv' /\ HostStep
  BY Zenon DEF HostInv, StepInv, HostStep, Host!vars

LEMMA HostSame ==
    ASSUME HostInv, UNCHANGED hostVars,
           \A v \in Service : svc'[v] = svc[v] \/ svc'[v].pc \notin {"volume", "spawn", "rmdir"},
           \A r \in Reaper : reap'[r] = reap[r] \/ reap'[r].pc # "rmdir"
    PROVE  HostInv' /\ HostStep
  BY HostAlike, Zenon DEF hostVars, volumeVars, vmVars

(* Actors end inside CreateVolume, and may leave their devices.            *)
LEMMA HostDevices ==
    ASSUME HostInv, NEW ids, ids \subseteq dir, LeavesDevices(ids), UNCHANGED <<dir, vm>>,
           \A v \in Service : svc'[v] = svc[v] \/ svc'[v].pc \notin {"volume", "spawn", "rmdir"},
           \A r \in Reaper : reap'[r] = reap[r] \/ reap'[r].pc # "rmdir",
           \A v \in Service : svc'[v].pc = "rmdir" => svc'[v].id \notin ids,
           \A r \in Reaper : reap'[r].pc = "rmdir" => reap'[r].id \notin ids
    PROVE  HostInv' /\ HostStep
<1>1. volume \subseteq volume' /\ volume' \subseteq volume \cup ids
  BY DEF LeavesDevices
<1>2. HostInv'
  BY <1>1 DEF HostInv, StepInv
<1>3. HostStep
  BY <1>1 DEF HostStep, Host!Next, Host!CreateVolume, Host!vars
<1> QED BY <1>2, <1>3, Zenon

(* The VM of a sandbox ends, whoever ended it.                             *)
LEMMA HostVMEnds ==
    ASSUME HostInv, HostType, NEW s \in Sandbox,
           vm' = [vm EXCEPT ![s] = "none"], UNCHANGED <<dir, volume>>,
           \A v \in Service : svc'[v] = svc[v] \/ svc'[v].pc \notin {"volume", "spawn", "rmdir"},
           \A r \in Reaper : reap'[r] = reap[r] \/ reap'[r].pc # "rmdir",
           OwnerType
    PROVE  HostInv' /\ HostStep
<1>1. vm'[s] = "none" /\ \A t \in Sandbox \ {s} : vm'[t] = vm[t]
  BY Zenon DEF HostType
<1>2. \A v \in Service : svc[v].pc = "spawn" => svc[v].id \in Sandbox
  BY ActorFields, Zenon DEF Live
<1>3. HostInv'
  BY <1>1, <1>2 DEF HostInv, StepInv
<1>4. HostStep
  BY <1>1, Zenon DEF HostStep, Host!Next, Host!VMEnds, Host!vars
<1> QED BY <1>3, <1>4, Zenon

(* The volume of a sandbox that nobody else works on goes.                 *)
LEMMA VolumeGoes ==
    ASSUME HostInv, NEW s \in Sandbox, VolumeRemoved(s), UNCHANGED <<dir, vm>>
    PROVE  /\ \A t \in Sandbox : vm'[t] # "none" => t \in volume'
           /\ s \notin volume'
           /\ \A t \in Sandbox \ {s} : t \in volume' <=> t \in volume
           /\ HostStep
  BY DEF HostInv, VolumeRemoved, HostStep, Host!Next, Host!RemoveVolume, Host!vars

LEMMA HostKept ==
    ASSUME OwnerInv, HostType, HostInv, [Next]_vars
    PROVE  HostInv' /\ HostStep
<1>NewVM. ASSUME NEW v \in Service, NewVM(v)
          PROVE  HostInv' /\ HostStep
  <2>1. OwnerType /\ Live(v) /\ svc[v].id \in Sandbox /\ UNCHANGED <<reap, volume, vm>>
    BY <1>NewVM, ActorFields, Zenon DEF OwnerInv, NewVM, Live, volumeVars, vmVars
  <2>2. CASE Replies(v, "exited", "failed") /\ UNCHANGED dir
    <3>1. svc'[v].pc = "exited" /\ \A w \in Service \ {v} : svc'[w] = svc[w]
      BY <1>NewVM, <2>1, <2>2, ActorEffect, Zenon
    <3> QED BY <1>NewVM, <2>1, <2>2, <3>1, HostAlike
  <2>3. CASE /\ dir' = dir \cup {svc[v].id}
             /\ svc' = [svc EXCEPT ![v].pc = "volume", ![v].vm = TRUE]
    <3>1. svc[v] \in Actor /\ svc \in [Service -> {Off} \cup Actor]
      BY <1>NewVM, <2>1, ActorFields, Zenon DEF OwnerType
    <3>2. /\ svc'[v].pc = "volume" /\ svc'[v].id = svc[v].id
          /\ \A w \in Service \ {v} : svc'[w] = svc[w]
      BY <1>NewVM, <2>3, <3>1, Zenon DEF Actor
    <3>3. HostInv'
      <4>1. ASSUME NEW w \in Service
            PROVE  StepInv(w)'
        <5>1. CASE w = v
          BY <1>NewVM, <2>3, <3>2, <5>1 DEF StepInv
        <5>2. CASE w # v
          <6>1. StepInv(w) /\ svc'[w] = svc[w] /\ volume' = volume /\ vm' = vm
            BY <1>NewVM, <2>1, <3>2, <5>2, Zenon DEF HostInv
          <6>2. dir \subseteq dir'
            BY <1>NewVM, <2>3, Zenon
          <6> QED BY <1>NewVM, <6>1, <6>2, Zenon DEF StepInv
        <5> QED BY <1>NewVM, <5>1, <5>2, Zenon
      <4> QED BY <1>NewVM, <2>1, <4>1, Zenon DEF HostInv
    <3>4. HostStep
      BY <1>NewVM, <2>1, <2>3 DEF HostStep, Host!Next, Host!MakeDir, Host!vars
    <3> QED BY <1>NewVM, <3>3, <3>4, Zenon
  <2> QED BY <1>NewVM, <2>2, <2>3, Zenon DEF NewVM
<1>CreateVolume. ASSUME NEW v \in Service, CreateVolume(v)
                 PROVE  HostInv' /\ HostStep
  <2>1. /\ OwnerType /\ Live(v) /\ svc[v].id \in Sandbox /\ svc[v].pc = "volume"
        /\ UNCHANGED <<reap, dir, vm>>
    BY <1>CreateVolume, ActorFields, Zenon DEF OwnerInv, CreateVolume, Live, vmVars
  <2>2. svc[v].id \in dir
    BY <1>CreateVolume, <2>1, Zenon DEF HostInv, StepInv
  <2>3. /\ svc'[v].id = svc[v].id /\ \A w \in Service \ {v} : svc'[w] = svc[w]
        /\ \/ svc'[v].pc = "spawn" /\ svc[v].id \notin volume /\ volume' = volume \cup {svc[v].id}
           \/ svc'[v].pc = "cleanup" /\ volume' \in {volume, volume \cup {svc[v].id}}
    <3>1. LeavesDevices({svc[v].id}) => volume' \in {volume, volume \cup {svc[v].id}}
      BY <1>CreateVolume DEF LeavesDevices
    <3> QED BY <1>CreateVolume, <2>1, <3>1, ActorEffect, Zenon DEF CreateVolume, volumeVars
  <2>4. HostInv'
    <3>1. svc[v].id \notin volume => vm[svc[v].id] = "none"
      BY <1>CreateVolume, <2>1, Zenon DEF HostInv
    <3>2. ASSUME NEW w \in Service
          PROVE  StepInv(w)'
      BY <1>CreateVolume, <2>1, <2>3, <3>1, ActorHostAlone DEF HostInv, StepInv
    <3> QED BY <1>CreateVolume, <2>1, <2>3, <3>2, ActorHostAlone, Zenon DEF HostInv
  <2>5. HostStep
    BY <1>CreateVolume, <2>1, <2>2, <2>3 DEF HostStep, Host!Next, Host!CreateVolume, Host!vars
  <2> QED BY <1>CreateVolume, <2>4, <2>5, Zenon
<1>Spawn. ASSUME NEW v \in Service, Spawn(v)
          PROVE  HostInv' /\ HostStep
  <2>1. /\ OwnerType /\ Live(v) /\ svc[v].id \in Sandbox /\ svc[v].pc = "spawn"
        /\ UNCHANGED <<reap, dir, volume>>
    BY <1>Spawn, ActorFields, Zenon DEF OwnerInv, Spawn, Live, volumeVars
  <2>2. svc[v].id \in volume /\ vm[svc[v].id] = "none"
    BY <1>Spawn, <2>1, Zenon DEF HostInv, StepInv
  <2>3. \A w \in Service \ {v} : svc'[w] = svc[w]
    BY <1>Spawn, <2>1, ActorEffect, Zenon DEF Spawn
  <2>4. CASE Fails(v, "cleanup") /\ UNCHANGED vm
    <3>1. svc'[v].pc = "cleanup"
      BY <1>Spawn, <2>1, <2>4, ActorEffect, Zenon
    <3> QED BY <1>Spawn, <2>1, <2>3, <2>4, <3>1, HostAlike, Zenon
  <2>5. CASE /\ Goto(v, "boot") \/ Fails(v, "cleanup")
             /\ vm' = [vm EXCEPT ![svc[v].id] = "booting"]
    <3>1. svc'[v].pc \in {"boot", "cleanup"}
      BY <1>Spawn, <2>1, <2>5, ActorEffect, Zenon
    <3>2. vm'[svc[v].id] = "booting" /\ \A t \in Sandbox \ {svc[v].id} : vm'[t] = vm[t]
      BY <1>Spawn, <2>1, <2>5, Zenon DEF HostType
    <3>3. ASSUME NEW w \in Service
          PROVE  StepInv(w)'
      <4>1. svc[w].pc \in {"volume", "spawn", "rmdir"} => svc[w].id \in Sandbox
        BY <1>Spawn, <2>1, ActorFields, Zenon DEF Live
      <4> QED BY <1>Spawn, <2>1, <2>3, <3>1, <3>2, <4>1, ActorHostAlone DEF HostInv, StepInv
    <3>4. HostInv'
      BY <1>Spawn, <2>1, <2>2, <3>2, <3>3, Zenon DEF HostInv
    <3>5. HostStep
      BY <1>Spawn, <2>1, <2>2, <3>2, Zenon DEF HostStep, Host!Next, Host!StartVM, Host!vars
    <3> QED BY <1>Spawn, <3>4, <3>5, Zenon
  <2> QED BY <1>Spawn, <2>4, <2>5, Zenon DEF Spawn, vmVars
<1>RemoveVolume. ASSUME NEW v \in Service, RemoveVolume(v)
                 PROVE  HostInv' /\ HostStep
  <2>1. OwnerType /\ Live(v) /\ svc[v].id \in Sandbox /\ UNCHANGED <<reap, dir, vm>>
    BY <1>RemoveVolume, ActorFields, Zenon DEF OwnerInv, RemoveVolume, Live, vmVars
  <2>2. /\ svc'[v].id = svc[v].id /\ \A w \in Service \ {v} : svc'[w] = svc[w]
        /\ \/ svc'[v].pc = "rmdir" /\ VolumeRemoved(svc[v].id)
           \/ svc'[v].pc = "exited" /\ (UNCHANGED volume \/ VolumeRemoved(svc[v].id))
    BY <1>RemoveVolume, <2>1, ActorEffect, Zenon DEF RemoveVolume, VolumeNotRemoved, volumeVars
  <2>3. CASE VolumeRemoved(svc[v].id)
    <3>1. ASSUME NEW w \in Service
          PROVE  StepInv(w)'
      <4>1. svc[w].pc \in {"volume", "spawn", "rmdir"} => svc[w].id \in Sandbox
        BY <1>RemoveVolume, <2>1, ActorFields, Zenon DEF Live
      <4> QED BY <1>RemoveVolume, <2>1, <2>2, <2>3, <4>1, VolumeGoes, ActorHostAlone DEF HostInv, StepInv
    <3>2. \A r \in Reaper : reap'[r].pc = "rmdir" => reap'[r].id \notin volume'
      BY <1>RemoveVolume, <2>1, <2>3, Zenon DEF HostInv, VolumeRemoved
    <3> QED BY <1>RemoveVolume, <2>1, <2>3, <3>1, <3>2, VolumeGoes, Zenon DEF HostInv
  <2>4. CASE UNCHANGED volume /\ svc'[v].pc = "exited"
    BY <1>RemoveVolume, <2>1, <2>2, <2>4, HostAlike, Zenon
  <2> QED BY <1>RemoveVolume, <2>2, <2>3, <2>4, Zenon
<1>RemoveDir. ASSUME NEW v \in Service, RemoveDir(v)
              PROVE  HostInv' /\ HostStep
  <2>1. /\ OwnerType /\ Live(v) /\ svc[v].id \in Sandbox /\ svc[v].pc = "rmdir"
        /\ UNCHANGED <<reap, volume, vm>>
    BY <1>RemoveDir, ActorFields, Zenon DEF OwnerInv, RemoveDir, Live, volumeVars, vmVars
  <2>2. svc[v].id \notin volume
    BY <1>RemoveDir, <2>1, Zenon DEF HostInv, StepInv
  <2>3. /\ svc'[v].pc = "exited" /\ \A w \in Service \ {v} : svc'[w] = svc[w]
        /\ dir' = dir \ {svc[v].id} \/ UNCHANGED dir
    BY <1>RemoveDir, <2>1, ActorEffect, Zenon DEF RemoveDir
  <2>4. ASSUME NEW w \in Service
        PROVE  StepInv(w)'
    BY <1>RemoveDir, <2>1, <2>3, ActorHostAlone DEF HostInv, StepInv
  <2>5. HostInv'
    BY <1>RemoveDir, <2>1, <2>4, Zenon DEF HostInv
  <2>6. HostStep
    BY <1>RemoveDir, <2>1, <2>2, <2>3 DEF HostStep, Host!Next, Host!RemoveDir, Host!vars
  <2> QED BY <1>RemoveDir, <2>5, <2>6, Zenon
<1>Actor. ASSUME NEW v \in Service, ActorStep(v)
          PROVE  HostInv' /\ HostStep
  <2>0. OwnerType
    BY <1>Actor, Zenon DEF OwnerInv
  <2>1. CASE WaitRunning(v)
    <3>1. Live(v) /\ UNCHANGED <<reap, hostVars>>
      BY <1>Actor, <2>1, Zenon DEF WaitRunning, Live
    <3>2. svc'[v].pc \in {"idle", "stop"} /\ \A w \in Service \ {v} : svc'[w] = svc[w]
      BY <1>Actor, <2>0, <2>1, <3>1, ActorEffect, Zenon DEF WaitRunning
    <3> QED BY <1>Actor, <3>1, <3>2, HostSame, Zenon
  <2>2. CASE StopVM(v) \/ Halt(v)
    <3>1. Live(v) /\ svc[v].id \in Sandbox /\ UNCHANGED <<reap, dir, volume>>
      BY <1>Actor, <2>0, <2>2, ActorFields, Zenon DEF StopVM, Halt, Live, volumeVars
    <3>2. svc'[v].pc \in {"cleanup", "idle"} /\ \A w \in Service \ {v} : svc'[w] = svc[w]
      BY <1>Actor, <2>0, <2>2, <3>1, ActorEffect, Zenon DEF StopVM, Halt
    <3>3. vm' = [vm EXCEPT ![svc[v].id] = "none"] \/ UNCHANGED vm
      BY <1>Actor, <2>2, Zenon DEF StopVM, Halt, EndsVM, vmVars
    <3> QED BY <1>Actor, <2>0, <3>1, <3>2, <3>3, HostAlike, HostVMEnds
  <2> QED BY <1>Actor, <2>1, <2>2, <1>NewVM, <1>CreateVolume, <1>Spawn, <1>RemoveVolume, <1>RemoveDir
          DEF ActorStep
<1>Reap. ASSUME NEW r \in Reaper, ReapStep(r)
         PROVE  HostInv' /\ HostStep
  <2>1. OwnerType /\ UNCHANGED svc
    BY <1>Reap, Zenon DEF OwnerInv, ReapStep, ReapKill, ReapVolume, ReapDir, Reaped
  <2>2. reap[r].pc # "none" /\ reap[r] \in Reaping /\ reap[r].id \in Sandbox
    BY <1>Reap, <2>1, ReapFields, Zenon DEF ReapStep, ReapKill, ReapVolume, ReapDir, Reaped
  <2>3. ASSUME NEW p, ReapGoto(r, p)
        PROVE  /\ reap'[r].pc = p /\ reap'[r].id = reap[r].id
               /\ \A q \in Reaper \ {r} : reap'[q] = reap[q]
    BY <1>Reap, <2>1, <2>2, <2>3, Zenon DEF ReapGoto, OwnerType, Reaping
  <2>4. CASE ReapKill(r)
    <3>1. reap'[r].pc \in {"volume", "failed"} /\ \A q \in Reaper \ {r} : reap'[q] = reap[q]
      BY <1>Reap, <2>3, <2>4, Zenon DEF ReapKill
    <3>2. /\ vm' = [vm EXCEPT ![reap[r].id] = "none"] \/ UNCHANGED vm
          /\ UNCHANGED <<dir, volume>>
      BY <1>Reap, <2>4, Zenon DEF ReapKill, EndsVM, volumeVars, vmVars
    <3> QED BY <1>Reap, <2>1, <2>2, <3>1, <3>2, HostAlike, HostVMEnds, Zenon
  <2>5. CASE ReapVolume(r)
    <3>1. /\ reap'[r].id = reap[r].id /\ \A q \in Reaper \ {r} : reap'[q] = reap[q]
          /\ \/ reap'[r].pc = "rmdir" /\ VolumeRemoved(reap[r].id)
             \/ reap'[r].pc = "failed" /\ (UNCHANGED volume \/ VolumeRemoved(reap[r].id))
          /\ UNCHANGED <<dir, vm>>
      BY <1>Reap, <2>3, <2>5, Zenon DEF ReapVolume, VolumeNotRemoved, volumeVars, vmVars
    <3>2. CASE VolumeRemoved(reap[r].id)
      <4>1. ASSUME NEW w \in Service
            PROVE  StepInv(w)'
        <5>1. svc[w].pc \in {"volume", "spawn", "rmdir"} => svc[w].id \in Sandbox
          BY <1>Reap, <2>1, ActorFields, Zenon DEF Live
        <5> QED BY <1>Reap, <2>1, <2>2, <3>1, <3>2, <5>1, VolumeGoes, ReaperHostAlone DEF HostInv, StepInv
      <4>2. \A q \in Reaper : reap'[q].pc = "rmdir" => reap'[q].id \notin volume'
        BY <1>Reap, <3>1, <3>2, Zenon DEF HostInv, VolumeRemoved
      <4> QED BY <1>Reap, <2>2, <3>1, <3>2, <4>1, <4>2, VolumeGoes DEF HostInv
    <3>3. CASE UNCHANGED volume /\ reap'[r].pc = "failed"
      BY <1>Reap, <2>1, <3>1, <3>3, HostAlike, Zenon
    <3> QED BY <1>Reap, <3>1, <3>2, <3>3, Zenon
  <2>6. CASE ReapDir(r)
    <3>1. /\ reap'[r].pc \in {"over", "failed"} /\ \A q \in Reaper \ {r} : reap'[q] = reap[q]
          /\ dir' = dir \ {reap[r].id} \/ UNCHANGED dir
          /\ UNCHANGED <<volume, vm>>
      BY <1>Reap, <2>3, <2>6, Zenon DEF ReapDir, volumeVars, vmVars
    <3>2. reap[r].id \notin volume
      BY <1>Reap, <2>6, Zenon DEF HostInv, ReapDir
    <3>3. ASSUME NEW w \in Service
          PROVE  StepInv(w)'
      BY <1>Reap, <2>1, <2>2, <3>1, ReaperHostAlone DEF HostInv, StepInv
    <3>4. HostInv'
      BY <1>Reap, <3>1, <3>3, Zenon DEF HostInv
    <3>5. HostStep
      BY <1>Reap, <3>1, <3>2 DEF HostStep, Host!Next, Host!RemoveDir, Host!vars
    <3> QED BY <1>Reap, <3>4, <3>5, Zenon
  <2>7. CASE Reaped(r)
    <3>1. \A q \in Reaper : reap'[q] = reap[q] \/ reap'[q].pc # "rmdir"
      BY <1>Reap, <2>1, <2>7, Zenon DEF Reaped, OwnerType, NoReap
    <3> QED BY <1>Reap, <2>1, <2>7, <3>1, HostSame, Zenon DEF Reaped
  <2> QED BY <1>Reap, <2>4, <2>5, <2>6, <2>7, Zenon DEF ReapStep
(* Requests, watching and the audit's bookkeeping leave the host alone.    *)
<1>Request. ASSUME NEW c \in Call, NEW s \in Sandbox,
                   Create(c, s) \/ Stop(c, s) \/ Remove(c, s)
            PROVE  HostInv' /\ HostStep
  <2>1. UNCHANGED <<hostVars, reap>>
    BY <1>Request, Zenon DEF Create, Stop, Remove
  <2>2. \A v \in Service : svc'[v] = svc[v] \/ svc'[v].pc \notin {"volume", "spawn", "rmdir"}
    BY <1>Request DEF Create, Stop, Remove, OwnerInv, OwnerType
  <2> QED BY <1>Request, <2>1, <2>2, HostSame
<1>Take. ASSUME NEW c \in Call, Take(c)
         PROVE  HostInv' /\ HostStep
  <2> DEFINE v == call[c].svc
  <2>0. OwnerType /\ svc \in [Service -> {Off} \cup Actor]
    BY <1>Take, Zenon DEF OwnerInv, OwnerType
  <2>1. UNCHANGED <<hostVars, reap>> /\ call[c].pc = "send" /\ svc[v].pc = "idle"
    BY <1>Take, Zenon DEF Take
  <2>2. v \in Service /\ Begins(call[c].kind) \in {"newVM", "halt", "stop"}
    BY <1>Take, <2>0, <2>1, CallFields, Zenon DEF Begins
  <2>3. svc[v] \in Actor
    BY <1>Take, <2>0, <2>1, <2>2, ActorFields, Zenon DEF Live
  <2>4. \/ svc' = [svc EXCEPT ![v].pc = Begins(call[c].kind), ![v].caller = c]
        \/ svc' = [svc EXCEPT ![v].pc = IF call[c].kind = "remove" THEN "exited" ELSE @]
    BY <1>Take, Zenon DEF Take
  <2> HIDE DEF v
  <2>5. \A w \in Service : w # v => svc'[w] = svc[w]
    BY <1>Take, <2>0, <2>2, <2>4, Zenon
  <2>6. svc'[v].pc \in {"newVM", "halt", "stop", "exited", "idle"}
    BY <1>Take, <2>0, <2>1, <2>2, <2>3, <2>4 DEF Actor
  <2> QED BY <1>Take, <2>1, <2>5, <2>6, HostSame, Zenon
<1>Return. ASSUME NEW c \in Call, ServiceGone(c) \/ CallReturns(c)
           PROVE  HostInv' /\ HostStep
  <2>1. UNCHANGED <<hostVars, svc>>
    BY <1>Return, Zenon DEF ServiceGone, CallReturns, CreateReturns, StopReturns, RemoveReturns
  <2>2. UNCHANGED reap \/ reap' = [reap EXCEPT ![c] = [pc |-> "kill", id |-> call[c].id]]
    BY <1>Return, Zenon DEF ServiceGone, CallReturns, CreateReturns, StopReturns, RemoveReturns
  <2>3. \A r \in Reaper : reap'[r] = reap[r] \/ reap'[r].pc # "rmdir"
    BY <1>Return, <2>2 DEF OwnerInv, OwnerType
  <2> QED BY <1>Return, <2>1, <2>3, HostSame, Zenon
<1>Watch. ASSUME NEW v \in Service, Poll(v) \/ VMExited(v) \/ Panic(v)
          PROVE  HostInv' /\ HostStep
  <2>1. CASE Panic(v)
    <3> DEFINE ids == {svc[v].id} \cap CreatingVolume
    <3>1. svc[v] \in Actor /\ svc \in [Service -> {Off} \cup Actor] /\ Live(v)
      BY <1>Watch, <2>1, ActorFields, Zenon DEF Panic, Live, OwnerInv, OwnerType
    <3>2. /\ svc' = [svc EXCEPT ![v].pc = "exited", ![v].failed = FALSE, ![v].caller = NoCall]
          /\ LeavesDevices(ids) /\ UNCHANGED <<reap, dir, vm>>
      BY <1>Watch, <2>1, Zenon DEF Panic, vmVars
    <3>3. svc'[v].pc = "exited" /\ \A w \in Service : w # v => svc'[w] = svc[w]
      BY <1>Watch, <3>1, <3>2, Zenon DEF Actor
    <3>4. ids \subseteq dir /\ ids \subseteq {svc[v].id}
      BY <1>Watch DEF CreatingVolume, HostInv, StepInv
    <3> HIDE DEF ids
    <3>5. \A w \in Service : svc'[w].pc = "rmdir" => svc'[w].id \notin ids
      BY <1>Watch, <3>1, <3>3, <3>4, ActorHostAlone
    <3>6. \A r \in Reaper : reap'[r].pc = "rmdir" => reap'[r].id \notin ids
      BY <1>Watch, <3>1, <3>2, <3>4, ActorHostAlone
    <3> QED BY <1>Watch, <3>2, <3>3, <3>4, <3>5, <3>6, HostDevices, Zenon
  <2>2. CASE Poll(v) \/ VMExited(v)
    BY <1>Watch, <2>2, HostSame, Zenon DEF Poll, VMExited
  <2> QED BY <1>Watch, <2>1, <2>2, Zenon
<1>Main. ASSUME MainStep
         PROVE  HostInv' /\ HostStep
  <2>1. CASE CheckLiveness \/ ListDisk \/ ClaimOrphans \/ AuditEnds
    BY <1>Main, <2>1, HostSame, Zenon DEF CheckLiveness, ListDisk, ClaimOrphans, AuditEnds
  <2>2. ASSUME NEW s \in Sandbox, ReapOrphan(s) \/ Recover(s)
        PROVE  HostInv' /\ HostStep
    <3>1. UNCHANGED hostVars
      BY <1>Main, <2>2, Zenon DEF ReapOrphan, Recover
    <3>2. UNCHANGED reap \/ reap' = [reap EXCEPT ![Main] = [pc |-> "kill", id |-> s]]
      BY <1>Main, <2>2, Zenon DEF ReapOrphan, Recover, ReapNext
    <3>3. \A r \in Reaper : reap'[r] = reap[r] \/ reap'[r].pc # "rmdir"
      BY <1>Main, <3>2 DEF OwnerInv, OwnerType
    <3>4. \/ UNCHANGED svc
          \/ \E v \in Service : svc' = [svc EXCEPT ![v] = [pc |-> "idle", id |-> s, vm |-> TRUE,
                                                         failed |-> FALSE, caller |-> NoCall]]
      BY <1>Main, <2>2, Zenon DEF ReapOrphan, Recover
    <3>5. \A v \in Service : svc'[v] = svc[v] \/ svc'[v].pc \notin {"volume", "spawn", "rmdir"}
      BY <1>Main, <3>4 DEF OwnerInv, OwnerType
    <3> QED BY <1>Main, <3>1, <3>3, <3>5, HostSame, Zenon
  <2> QED BY <1>Main, <2>1, <2>2, Zenon DEF MainStep
<1>Restart. ASSUME WorkerRestarts
            PROVE  HostInv' /\ HostStep
  <2>1. LeavesDevices(CreatingVolume) /\ UNCHANGED <<dir, vm>>
    BY <1>Restart, Zenon DEF WorkerRestarts, vmVars
  <2>2. CreatingVolume \subseteq dir
    BY <1>Restart, Zenon DEF CreatingVolume, HostInv, StepInv
  <2>3. \A v \in Service : svc'[v].pc = "off"
    BY <1>Restart DEF WorkerRestarts, Off
  <2>4. \A r \in Reaper : reap'[r].pc = "none"
    BY <1>Restart DEF WorkerRestarts, NoReap
  <2> QED BY <1>Restart, <2>1, <2>2, <2>3, <2>4, HostDevices
<1>Same. ASSUME UNCHANGED vars \/ \E n \in Capacities : SetCapacity(n)
         PROVE  HostInv' /\ HostStep
  BY <1>Same, HostSame, Zenon DEF SetCapacity, vars
<1>VM. ASSUME NEW s \in Sandbox, VMBoots(s) \/ VMDies(s)
       PROVE  HostInv' /\ HostStep
  <2>1. OwnerType /\ UNCHANGED <<svc, reap, dir, volume>>
    BY <1>VM, Zenon DEF OwnerInv, VMBoots, VMDies, volumeVars
  <2>2. CASE VMDies(s)
    BY <1>VM, <2>1, <2>2, HostAlike, HostVMEnds, Zenon DEF VMDies, EndsVM
  <2>3. CASE VMBoots(s)
    <3>1. vm[s] = "booting" /\ vm'[s] = "running" /\ \A t \in Sandbox \ {s} : vm'[t] = vm[t]
      BY <1>VM, <2>3, Zenon DEF VMBoots, HostType
    <3>2. ASSUME NEW w \in Service
          PROVE  StepInv(w)'
      <4>1. svc[w].pc = "spawn" => svc[w].id \in Sandbox
        BY <1>VM, <2>1, ActorFields, Zenon DEF Live
      <4> QED BY <1>VM, <2>1, <3>1, <4>1 DEF HostInv, StepInv
    <3>3. HostInv'
      BY <1>VM, <2>1, <3>1, <3>2, Zenon DEF HostInv
    <3>4. HostStep
      BY <1>VM, <2>1, <3>1, Zenon DEF HostStep, Host!Next, Host!VMRuns, Host!vars
    <3> QED BY <1>VM, <3>3, <3>4, Zenon
  <2> QED BY <1>VM, <2>2, <2>3, Zenon
<1> QED BY <1>Actor, <1>Reap, <1>Request, <1>Take, <1>Return, <1>Watch, <1>Main, <1>Restart, <1>Same, <1>VM
     DEF Next

LEMMA HostInvariant == Spec => []HostInv
<1>1. Init => HostInv
  BY DEF Init, HostInv, StepInv, Off, NoReap
<1>2. OwnerInv /\ HostType /\ HostInv /\ [Next]_vars => HostInv'
  BY HostKept, Zenon
<1> QED BY <1>1, <1>2, OwnerInvariant, PTL DEF Spec

(* The directory is created before the volume and removed after it, a      *)
(* volume is never removed under a VM, and a VM started only on a volume   *)
(* without one: every step of actors, reapers, audit and restarts is a     *)
(* step of SandboxHost, or leaves the sandbox's part of the host alone.    *)
THEOREM HostKeepsContract == Spec => HostContract
<1>1. Init => \A s \in Sandbox : Host(s)!Init
  BY DEF Init, Host!Init
<1>2. OwnerInv /\ HostType /\ HostInv /\ [Next]_vars
          => [\A s \in Sandbox : Host(s)!Next \/ UNCHANGED Host(s)!vars]_hostVars
  BY HostKept, Zenon DEF HostStep
<1> QED BY <1>1, <1>2, OwnerInvariant, HostInvariant, PTL DEF Spec, HostContract

=============================================================================
