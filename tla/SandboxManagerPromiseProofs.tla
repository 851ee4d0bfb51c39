-------------------- MODULE SandboxManagerPromiseProofs ---------------------
(***************************************************************************)
(* From the ownership rule and the host's contract of SandboxManagerProofs,*)
(* what the worker promises: its inventory changes only as HostedSandboxes *)
(* allows, with any of its faults; and when teardowns work and no actor    *)
(* panics, nothing is left behind that no listing finds or after a Remove, *)
(* and a DEAD sandbox has no VM.                                           *)
(***************************************************************************)
EXTENDS SandboxManagerProofs

(* What a Service is to the map and to the requests: theirs keeps its ID.  *)
RefInv ==
    /\ \A s \in Sandbox : services[s] # NoService =>
           svc[services[s]].pc # "off" /\ svc[services[s]].id = s
    /\ \A c \in Call : call[c] # Idle =>
           svc[call[c].svc].pc # "off" /\ svc[call[c].svc].id = call[c].id

Creates(c) == call[c] # Idle /\ call[c].kind = "create"
Pending(c) == Creates(c) /\ ~(call[c].pc = "replied" /\ call[c].reply = "ok")

(* Until a create has succeeded, its actor has no VM to watch or works for *)
(* it, and its entry is STARTING, or DEAD once the actor is gone.          *)
CreateInv(c) ==
    Pending(c) =>
        LET v == call[c].svc  s == call[c].id IN
        /\ call[c].pc = "send" /\ Live(v) => svc[v].pc = "idle" /\ ~svc[v].vm
        /\ call[c].pc = "wait" /\ Live(v) => svc[v].pc # "idle" /\ svc[v].caller = c
        /\ services[s] = v =>
               state[s] \in {"starting", "dead"} /\ (Live(v) => state[s] = "starting")

MakeInv ==
    /\ RefInv
    /\ \A c \in Call : CreateInv(c)
    /\ \A c, d \in Call : Creates(c) /\ Creates(d) /\ call[c].svc = call[d].svc => c = d

(* An entry that says RUNNING has no VM that still boots.                  *)
RunInv == \A s \in Sandbox : services[s] # NoService /\ state[s] = "running" => vm[s] # "booting"

PromiseInv == MakeInv /\ RunInv

(* The inventory of HostedSandboxes, and what it may do in a step.         *)
Entry(s) ==
    IF s \in deleting THEN "removing"
    ELSE IF s \in Tracked THEN state[s]
    ELSE "none"
Creating == {s \in Tracked : BeingCreated(s)}
PromiseStep == Promise!Next \/ UNCHANGED <<[s \in Sandbox |-> Entry(s)], Creating, Serving>>

(* No create begins.                                                       *)
LEMMA CreatingShrinks ==
    ASSUME \A s \in Sandbox : services'[s] \in {services[s], NoService},
           \A c \in Call : Creates(c)' => Creates(c) /\ call'[c].svc = call[c].svc
    PROVE  Creating' \subseteq Creating
  BY DEF Creating, Tracked, BeingCreated, Creates

LEMMA EntryMoves ==
    ASSUME Serving, Serving',
           \A s \in Sandbox : Entry(s)' # Entry(s) =>
               \/ <<Entry(s), Entry(s)'>> \in Promise!Changes
               \/ Entry(s) = "none" /\ Entry(s)' = "starting" /\ s \in Creating'
               \/ s \in Creating \ Creating' /\ Entry(s) \in {"starting", "dead"} /\ Entry(s)' = "none",
           \A s \in Creating' \ Creating : s \in Sandbox /\ Entry(s) = "none" /\ Entry(s)' = "starting"
    PROVE  PromiseStep
<1> DEFINE inv == [s \in Sandbox |-> Entry(s)]
<1>1. inv' = [s \in Sandbox |-> inv'[s]] /\ \A s \in Sandbox : inv[s] = Entry(s) /\ inv'[s] = Entry(s)'
  OBVIOUS
<1>2. Serving' = Serving
  BY Zenon DEF Serving
<1>3. \A s \in Sandbox : inv'[s] # inv[s] =>
          \/ <<inv[s], inv'[s]>> \in Promise!Changes
          \/ inv[s] = "none" /\ inv'[s] = "starting" /\ s \in Creating'
          \/ s \in Creating \ Creating' /\ inv[s] \in {"starting", "dead"} /\ inv'[s] = "none"
  BY <1>1, Zenon
<1>4. Creating' \subseteq
          Creating \cup {s \in Sandbox : inv[s] = "none" /\ inv'[s] = "starting" /\ s \in Creating'}
  BY <1>1, Zenon
<1>5. Promise!Serve
  BY <1>1, <1>2, <1>3, <1>4, Zenon DEF Promise!Serve, Promise!Begins, Promise!Fails, Entry, Creating
<1> QED BY <1>5, Zenon DEF PromiseStep, Promise!Next

LEMMA EntryServes ==
    ASSUME Serving, Serving',
           \A s \in Sandbox : Entry(s)' # Entry(s) => <<Entry(s), Entry(s)'>> \in Promise!Changes,
           \A s \in Sandbox : services'[s] \in {services[s], NoService},
           \A c \in Call : Creates(c)' => Creates(c) /\ call'[c].svc = call[c].svc
    PROVE  PromiseStep
<1>1. Creating' \subseteq Creating
  BY CreatingShrinks, Zenon
<1> QED BY <1>1, EntryMoves, Zenon

(* A request goes on, or is answered, and the map stays as it is.          *)
LEMMA EntryAnswers ==
    ASSUME OwnerInv, UNCHANGED mapVars, Serving' <=> Serving,
           \A c \in Call : Creates(c)' => Creates(c) /\ call'[c].svc = call[c].svc
    PROVE  PromiseStep
<1>1. \A s \in Sandbox : Entry(s)' = Entry(s) /\ services'[s] = services[s]
  BY Zenon DEF Entry, Tracked, mapVars
<1>2. CASE Serving
  BY <1>1, <1>2, EntryServes, Zenon
<1>3. CASE ~Serving
  <2>1. \A c \in Call : ~Creates(c)
    BY <1>3, Zenon DEF OwnerInv, CallInv, Creates, Serving
  <2>2. Creating = {} /\ Creating' = {}
    BY <2>1, Zenon DEF Creating, BeingCreated, Creates
  <2>3. UNCHANGED <<[s \in Sandbox |-> Entry(s)], Creating>>
    BY <1>1, <2>2, Zenon
  <2>4. UNCHANGED Serving
    BY Zenon DEF Serving
  <2> QED BY <2>3, <2>4, Zenon DEF PromiseStep
<1> QED BY <1>2, <1>3, Zenon

LEMMA EntrySame ==
    ASSUME UNCHANGED <<mapVars, call>>, Serving' <=> Serving
    PROVE  PromiseStep
  BY Zenon DEF PromiseStep, Entry, Creating, BeingCreated, Tracked, mapVars

LEMMA EntryRecovers ==
    ASSUME OwnerInv, ~Serving, ~Serving', UNCHANGED call,
           \A s \in Sandbox : Entry(s)' # Entry(s) =>
               <<Entry(s), Entry(s)'>> \in ({"none"} \X Promise!Live)
                                           \cup (Promise!Live \X (Promise!Live \cup {"dead"}))
    PROVE  PromiseStep
<1> DEFINE inv == [s \in Sandbox |-> Entry(s)]
<1>1. inv' = [s \in Sandbox |-> inv'[s]] /\ \A s \in Sandbox : inv[s] = Entry(s) /\ inv'[s] = Entry(s)'
  OBVIOUS
<1>2. Serving' = Serving
  BY Zenon DEF Serving
<1>3. \A c \in Call : call[c] = Idle
  BY Zenon DEF OwnerInv, CallInv, Serving
<1>4. Creating' = Creating
  BY <1>3, Zenon DEF Creating, BeingCreated
<1> DEFINE A == ({"none"} \X Promise!Live) \cup (Promise!Live \X (Promise!Live \cup {"dead"}))
<1>5. \A s \in Sandbox : inv'[s] # inv[s] => <<inv[s], inv'[s]>> \in A
  BY <1>1, Zenon
<1>6. Promise!Recover
  BY <1>1, <1>2, <1>4, <1>5, Zenon DEF Promise!Recover, Entry, Creating
<1> QED BY <1>6, Zenon DEF PromiseStep, Promise!Next

-----------------------------------------------------------------------------
(* Nothing new is referred to, and no state changes.                       *)
LEMMA MakeShrinks ==
    ASSUME OwnerType, MakeInv, UNCHANGED <<svc, state>>,
           \A s \in Sandbox : services'[s] \in {services[s], NoService},
           \A c \in Call : \/ call'[c] \in {call[c], Idle}
                           \/ /\ call[c] # Idle /\ call'[c] # Idle
                              /\ call'[c].kind # "create" /\ call'[c].id = call[c].id
                              /\ call'[c].svc = call[c].svc
    PROVE  MakeInv'
<1>1. RefInv'
  BY DEF MakeInv, RefInv
<1>2. \A c \in Call : Creates(c)' => Creates(c) /\ call'[c] = call[c]
  BY Zenon DEF Creates
<1>3. ASSUME NEW c \in Call
      PROVE  CreateInv(c)'
  <2> SUFFICES ASSUME Pending(c)'
               PROVE  CreateInv(c)'
    BY Zenon DEF CreateInv
  <2>1. Pending(c) /\ call'[c] = call[c] /\ CreateInv(c)
    BY <1>2, Zenon DEF Pending, MakeInv
  <2>2. call[c].id \in Sandbox /\ call[c].svc \in Service
    BY <2>1, CallFields, Zenon DEF Pending, Creates
  <2>3. services'[call[c].id] = call[c].svc => services[call[c].id] = call[c].svc
    BY <2>2, ManagerAssumption, Zenon
  <2> QED BY <2>1, <2>3, Zenon DEF CreateInv, Live
<1> QED BY <1>1, <1>2, <1>3, Zenon DEF MakeInv

(* A create that is not over waits for the one actor it was made with.     *)
LEMMA PendingActor ==
    ASSUME OwnerInv, MakeInv, NEW c \in Call, Pending(c)
    PROVE  /\ call[c].svc \in Service /\ call[c].id \in Sandbox
           /\ call[c].pc \in {"send", "wait", "replied"}
           /\ Live(call[c].svc) =>
                  \/ call[c].pc = "send" /\ svc[call[c].svc].pc = "idle" /\ ~svc[call[c].svc].vm
                  \/ call[c].pc = "wait" /\ AtWork(call[c].svc) /\ svc[call[c].svc].caller = c
<1>1. call[c] # Idle /\ call[c].kind = "create" /\ CallInv(c) /\ CreateInv(c) /\ OwnerType
  BY Zenon DEF OwnerInv, MakeInv, Pending, Creates
<1>2. /\ call[c].svc \in Service /\ call[c].id \in Sandbox
      /\ call[c].pc \in {"send", "wait", "replied", "reap"}
  BY <1>1, CallFields, Zenon
<1>3. call[c].pc \in {"send", "wait", "replied"}
  BY <1>1, <1>2, Zenon DEF CallInv
<1>4. call[c].pc = "replied" => ~Live(call[c].svc)
  BY <1>1, Zenon DEF CallInv, Pending, Live
<1> QED BY <1>1, <1>2, <1>3, <1>4, Zenon DEF CreateInv, AtWork

LEMMA WorksMake ==
    ASSUME OwnerInv, MakeInv, NEW v \in Service, AtWork(v), Works(v), UNCHANGED <<services, state>>
    PROVE  MakeInv'
<1>1. PICK a \in Actor :
          /\ a.id = svc[v].id /\ a.caller = svc[v].caller /\ a.pc \in Busy
          /\ svc' = [svc EXCEPT ![v] = a] /\ call' = call
  BY Zenon DEF Works
<1>2. OwnerType
  BY Zenon DEF OwnerInv
<1>3. svc'[v] = a /\ \A w \in Service \ {v} : svc'[w] = svc[w]
  BY <1>1, <1>2, Zenon DEF OwnerType
<1>4. a.pc \notin {"off", "idle", "exited"}
  BY <1>1, Zenon DEF Busy
<1>5. RefInv'
  <2>1. \A s \in Sandbox : services[s] # NoService => services[s] \in Service
    BY <1>2, Zenon DEF OwnerType
  <2>2. \A c \in Call : call[c] # Idle => call[c].svc \in Service
    BY <1>2, CallFields, Zenon
  <2> QED BY <1>1, <1>3, <1>4, <2>1, <2>2 DEF MakeInv, RefInv
<1>6. ASSUME NEW c \in Call
      PROVE  CreateInv(c)'
  <2> SUFFICES ASSUME Pending(c)
               PROVE  CreateInv(c)'
    BY <1>1, Zenon DEF CreateInv, Pending, Creates
  <2>1. CreateInv(c)
    BY Zenon DEF MakeInv
  <2>2. CASE call[c].svc = v
    <3>1. call[c].pc = "wait" /\ svc[v].caller = c
      BY <2>2, PendingActor, Zenon DEF AtWork
    <3> QED BY <1>1, <1>3, <1>4, <2>1, <2>2, <3>1 DEF CreateInv, AtWork
  <2>3. CASE call[c].svc # v
    <3>1. svc'[call[c].svc] = svc[call[c].svc]
      BY <1>3, <2>3, PendingActor, Zenon
    <3> QED BY <1>1, <2>1, <3>1, Zenon DEF CreateInv, Live
  <2> QED BY <2>2, <2>3, Zenon
<1> QED BY <1>1, <1>5, <1>6, Zenon DEF MakeInv, Creates

LEMMA AnswersMake ==
    ASSUME OwnerInv, HostType, MakeInv, NEW v \in Service, AtWork(v), Answers(v), UNCHANGED services,
           \/ UNCHANGED state
           \/ \E st : Reports(v, st) /\ call'[svc[v].caller].reply = "ok"
    PROVE  MakeInv'
<1> DEFINE c == svc[v].caller
<1>1. PICK a \in Actor, q \in Request :
          /\ a.id = svc[v].id /\ a.pc \in {"idle", "exited"}
          /\ q.pc = "replied" /\ q.kind = call[c].kind /\ q.id = call[c].id /\ q.svc = call[c].svc
          /\ a.pc = "idle" => q.kind # "remove" /\ (q.kind = "create" => q.reply = "ok")
          /\ svc' = [svc EXCEPT ![v] = a] /\ call' = [call EXCEPT ![c] = q]
  BY Zenon DEF Answers
<1>2. c \in Call /\ call[c] # Idle /\ call[c].pc = "wait" /\ call[c].svc = v
  BY Zenon DEF OwnerInv, ActorInv, AtWork
<1>3. state' # state => \E st : Reports(v, st) /\ call'[c].reply = "ok"
  BY Zenon
<1> HIDE DEF c
<1>4. OwnerType /\ svc[v].id \in Sandbox
  BY ActorFields, Zenon DEF OwnerInv, AtWork
<1>5. svc'[v] = a /\ \A w \in Service \ {v} : svc'[w] = svc[w]
  BY <1>1, <1>4, Zenon DEF OwnerType
<1>6. call'[c] = q /\ q # Idle /\ \A d \in Call \ {c} : call'[d] = call[d]
  BY <1>1, <1>2, <1>4 DEF OwnerType, Request, Idle
<1>7. RefInv'
  <2>1. \A s \in Sandbox : services[s] # NoService => services[s] \in Service
    BY <1>4, Zenon DEF OwnerType
  <2>2. \A d \in Call : call[d] # Idle => call[d].svc \in Service
    BY <1>4, CallFields, Zenon
  <2>3. \A s \in Sandbox : services[s] # NoService =>
            svc'[services[s]].pc # "off" /\ svc'[services[s]].id = s
    BY <1>1, <1>5, <2>1 DEF MakeInv, RefInv
  <2>4. \A d \in Call : call'[d] # Idle =>
            svc'[call'[d].svc].pc # "off" /\ svc'[call'[d].svc].id = call'[d].id
    BY <1>1, <1>2, <1>5, <1>6, <2>2 DEF MakeInv, RefInv
  <2> QED BY <2>3, <2>4, Zenon DEF RefInv
<1>8. \A d \in Call : Creates(d)' => Creates(d) /\ call'[d].svc = call[d].svc
  BY <1>1, <1>2, <1>6, Zenon DEF Creates
<1>9. ASSUME NEW d \in Call
      PROVE  CreateInv(d)'
  <2> SUFFICES ASSUME Pending(d)'
               PROVE  CreateInv(d)'
    BY Zenon DEF CreateInv
  <2>1. CASE d = c
    <3>1. Pending(c) /\ q.reply # "ok" /\ call[c].svc = v
      BY <1>1, <1>2, <1>6, <2>1, Zenon DEF Pending, Creates
    <3>2. CreateInv(c) /\ state' = state /\ a.pc # "idle"
      BY <1>1, <1>3, <1>6, <2>1, <3>1, Zenon DEF MakeInv, Pending, Creates
    <3> QED BY <1>1, <1>2, <1>5, <1>6, <2>1, <3>1, <3>2 DEF CreateInv, Live
  <2>2. CASE d # c
    <3>1. call'[d] = call[d] /\ Pending(d) /\ CreateInv(d)
      BY <1>6, <2>2, Zenon DEF MakeInv, Pending, Creates
    <3>2. call[d].svc # v /\ call[d].svc \in Service /\ call[d].id \in Sandbox
      BY <1>2, <2>2, <3>1, PendingActor, Zenon DEF AtWork, c
    <3>3. services[call[d].id] = call[d].svc => state'[call[d].id] = state[call[d].id]
      BY <1>3, <1>4, <3>2, Zenon DEF Reports, HostType
    <3> QED BY <1>5, <3>1, <3>2, <3>3 DEF CreateInv, Live
  <2> QED BY <2>1, <2>2, Zenon
<1> QED BY <1>7, <1>8, <1>9, Zenon DEF MakeInv

(* An actor answers requests, and makes none.                              *)
LEMMA ActorCalls ==
    ASSUME OwnerInv, NEW v \in Service, AtWork(v), Works(v) \/ Answers(v)
    PROVE  \A c \in Call : Creates(c)' => Creates(c) /\ call'[c].svc = call[c].svc
<1>1. CASE Works(v)
  BY <1>1, Zenon DEF Works, Creates
<1>2. CASE Answers(v)
  <2>1. svc[v].caller \in Call /\ call[svc[v].caller] # Idle /\ OwnerType
    BY Zenon DEF OwnerInv, ActorInv, AtWork
  <2>2. \E q \in Request : /\ q.kind = call[svc[v].caller].kind
                           /\ q.svc = call[svc[v].caller].svc
                           /\ call' = [call EXCEPT ![svc[v].caller] = q]
    BY <1>2, Zenon DEF Answers
  <2> QED BY <2>1, <2>2 DEF OwnerType, Creates
<1> QED BY <1>1, <1>2, Zenon

(* What an actor's steps do to the map's states: nothing, but for the poll *)
(* at the end of a create.                                                 *)
LEMMA ActorReports ==
    ASSUME OwnerInv, HostType, NEW v \in Service, ActorStep(v)
    PROVE  \/ UNCHANGED state
           \/ /\ svc[v].pc = "boot"
              /\ vm[svc[v].id] = "running"
              /\ \E st \in {"running", "unknown"} : Reports(v, st)
              /\ Replies(v, "idle", "ok")
              /\ call'[svc[v].caller].reply = "ok"
              /\ UNCHANGED vm
<1>1. CASE WaitRunning(v)
  <2>1. svc[v].pc = "boot" /\ UNCHANGED vm
    BY <1>1, Zenon DEF WaitRunning, hostVars, volumeVars, vmVars
  <2>2. CASE vm[svc[v].id] = "running" /\ (\E st \in Sampled(svc[v].id) : Reports(v, st))
             /\ Replies(v, "idle", "ok")
    <3>1. Sampled(svc[v].id) = {"running", "unknown"}
      BY <2>2, Zenon DEF Sampled
    <3>2. svc[v].caller \in Call /\ call[svc[v].caller] \in Request /\ OwnerType
      BY <2>1, CallFields, Zenon DEF OwnerInv, ActorInv, Live
    <3>3. call'[svc[v].caller].reply = "ok"
      BY <2>2, <3>2, Zenon DEF Replies, OwnerType, Request
    <3> QED BY <2>1, <2>2, <3>1, <3>3, Zenon
  <2> QED BY <1>1, <2>1, <2>2, Zenon DEF WaitRunning
<1>2. CASE ~WaitRunning(v)
  BY <1>2, Zenon DEF ActorStep, NewVM, CreateVolume, Spawn, StopVM, RemoveVolume, RemoveDir, Halt, mapVars
<1> QED BY <1>1, <1>2, Zenon

(* The entry of an actor that has not finished its create is STARTING.     *)
LEMMA MakingStarts ==
    ASSUME OwnerInv, MakeInv, NEW v \in Service, svc[v].pc \in {"newVM", "volume", "spawn", "boot"}
    PROVE  /\ services[svc[v].id] = v => state[svc[v].id] = "starting"
           /\ services[svc[v].id] # v => services[svc[v].id] = NoService
           /\ Serving
<1>1. AtWork(v) /\ Commands(svc[v].pc) = {"create"}
  BY Zenon DEF AtWork, Live, Commands
<1> DEFINE c == svc[v].caller
<1>2. /\ c \in Call /\ call[c] # Idle /\ call[c].pc = "wait" /\ call[c].svc = v
      /\ call[c].kind = "create"
  BY <1>1, Zenon DEF OwnerInv, ActorInv, AtWork
<1>3. Pending(c) /\ CreateInv(c) /\ call[c].id = svc[v].id
  BY <1>2, Zenon DEF Pending, Creates, MakeInv, RefInv
<1>4. services[svc[v].id] = v => state[svc[v].id] = "starting"
  BY <1>1, <1>2, <1>3, Zenon DEF CreateInv, AtWork
<1>5. services[svc[v].id] # v => svc[v].id \in deleting
  <2> SUFFICES ASSUME services[svc[v].id] # v
               PROVE  svc[v].id \in deleting
    OBVIOUS
  <2>1. \E d \in Call : Removes(d, svc[v].id)
    BY <1>1, Zenon DEF OwnerInv, ActorInv, AtWork
  <2> QED BY <2>1, Zenon DEF OwnerInv, CallInv, Removes
<1>6. svc[v].id \in Sandbox
  BY <1>1, ActorFields, Zenon DEF OwnerInv, AtWork
<1>7. Serving
  BY <1>2, Zenon DEF OwnerInv, CallInv, Serving
<1> QED BY <1>4, <1>5, <1>6, <1>7, Zenon DEF OwnerInv, MapInv

-----------------------------------------------------------------------------
(* What the requests do, entry by entry.                                   *)

LEMMA CreateEffect ==
    ASSUME OwnerInv, NEW c \in Call, NEW s \in Sandbox, Create(c, s)
    PROVE  \E v \in Service :
               /\ Free(v) /\ Serving /\ call[c] = Idle /\ services[s] = NoService /\ s \notin deleting
               /\ services'[s] = v /\ \A t \in Sandbox : t # s => services'[t] = services[t]
               /\ svc'[v].pc = "idle" /\ svc'[v].id = s /\ ~svc'[v].vm
               /\ \A w \in Service : w # v => svc'[w] = svc[w]
               /\ call'[c] # Idle /\ call'[c].pc = "send" /\ call'[c].kind = "create"
               /\ call'[c].id = s /\ call'[c].svc = v
               /\ \A d \in Call : d # c => call'[d] = call[d]
               /\ state' = [state EXCEPT ![s] = "starting"]
               /\ UNCHANGED <<deleting, reap, audit, dir, volume, stuck, vm, dying>>
<1>1. OwnerType
  BY Zenon DEF OwnerInv
<1>2. PICK v \in Service :
          /\ Free(v)
          /\ services' = [services EXCEPT ![s] = v]
          /\ svc' = [svc EXCEPT ![v] = [pc |-> "idle", id |-> s, vm |-> FALSE,
                                        failed |-> FALSE, caller |-> NoCall]]
          /\ call' = [call EXCEPT ![c] = Sends("create", s, v)]
  BY Zenon DEF Create
<1>3. services'[s] = v /\ \A t \in Sandbox : t # s => services'[t] = services[t]
  BY <1>1, <1>2, Zenon DEF OwnerType
<1>4. /\ svc'[v].pc = "idle" /\ svc'[v].id = s /\ ~svc'[v].vm
      /\ \A w \in Service : w # v => svc'[w] = svc[w]
  BY <1>1, <1>2, Zenon DEF OwnerType
<1>5. /\ call'[c].pc = "send" /\ call'[c].kind = "create" /\ call'[c].id = s /\ call'[c].svc = v
      /\ \A d \in Call : d # c => call'[d] = call[d]
  BY <1>1, <1>2, Zenon DEF OwnerType, Sends
<1>6. call'[c] # Idle
  BY <1>5 DEF Idle
<1> QED BY <1>2, <1>3, <1>4, <1>5, <1>6, Zenon DEF Create, Tracked, hostVars, volumeVars, vmVars

LEMMA AskEffect ==
    ASSUME OwnerInv, NEW c \in Call, NEW s \in Sandbox, Stop(c, s) \/ Remove(c, s)
    PROVE  /\ Serving /\ call[c] = Idle /\ services[s] \in Service
           /\ call'[c] # Idle /\ call'[c].pc = "send" /\ call'[c].kind \in {"stop", "remove"}
           /\ call'[c].id = s /\ call'[c].svc = services[s]
           /\ \A d \in Call : d # c => call'[d] = call[d]
           /\ call'[c].kind = "stop" => UNCHANGED <<services, deleting>>
           /\ call'[c].kind = "remove" =>
                  /\ s \notin deleting /\ deleting' = deleting \cup {s}
                  /\ services'[s] = NoService
                  /\ \A t \in Sandbox : t # s => services'[t] = services[t]
           /\ UNCHANGED <<state, svc, reap, audit, dir, volume, stuck, vm, dying>>
<1>1. OwnerType
  BY Zenon DEF OwnerInv
<1>2. Serving /\ call[c] = Idle /\ UNCHANGED <<state, svc, reap, audit, dir, volume, stuck, vm, dying>>
  BY Zenon DEF Stop, Remove, mapVars, hostVars, volumeVars, vmVars
<1>3. services[s] \in Service
  BY <1>1, Zenon DEF Stop, Remove, Tracked, OwnerType
<1>4. CASE Stop(c, s)
  <2>1. call' = [call EXCEPT ![c] = Sends("stop", s, services[s])] /\ UNCHANGED <<services, deleting>>
    BY <1>4, Zenon DEF Stop, mapVars
  <2>2. /\ call'[c].pc = "send" /\ call'[c].kind = "stop" /\ call'[c].id = s /\ call'[c].svc = services[s]
        /\ \A d \in Call : d # c => call'[d] = call[d]
    BY <1>1, <2>1, Zenon DEF OwnerType, Sends
  <2>3. call'[c] # Idle
    BY <2>2 DEF Idle
  <2> QED BY <1>2, <1>3, <2>1, <2>2, <2>3
<1>5. CASE Remove(c, s)
  <2>1. /\ call' = [call EXCEPT ![c] = Sends("remove", s, services[s])]
        /\ services' = [services EXCEPT ![s] = NoService]
        /\ s \notin deleting /\ deleting' = deleting \cup {s}
    BY <1>5, Zenon DEF Remove
  <2>2. /\ call'[c].pc = "send" /\ call'[c].kind = "remove" /\ call'[c].id = s /\ call'[c].svc = services[s]
        /\ \A d \in Call : d # c => call'[d] = call[d]
        /\ services'[s] = NoService
        /\ \A t \in Sandbox : t # s => services'[t] = services[t]
    BY <1>1, <2>1, Zenon DEF OwnerType, Sends
  <2>3. call'[c] # Idle
    BY <2>2 DEF Idle
  <2> QED BY <1>2, <1>3, <2>1, <2>2, <2>3, Zenon
<1> QED BY <1>4, <1>5, Zenon

LEMMA TakeEffect ==
    ASSUME OwnerInv, NEW c \in Call, Take(c)
    PROVE  LET v == call[c].svc IN
           /\ call[c] # Idle /\ v \in Service /\ Live(v) /\ svc[v].pc = "idle" /\ call[c].pc = "send"
           /\ svc'[v].id = svc[v].id /\ svc'[v].vm = svc[v].vm
           /\ \A w \in Service : w # v => svc'[w] = svc[w]
           /\ call'[c] # Idle /\ call'[c].kind = call[c].kind /\ call'[c].id = call[c].id
           /\ call'[c].svc = v
           /\ \A d \in Call : d # c => call'[d] = call[d]
           /\ \/ /\ call'[c].pc = "wait" /\ svc'[v].caller = c
                 /\ svc'[v].pc = Begins(call[c].kind)
                 /\ call[c].kind = "create" \/ svc[v].vm
              \/ /\ call'[c].pc = "replied" /\ call'[c].reply = "ok"
                 /\ svc'[v].pc = IF call[c].kind = "remove" THEN "exited" ELSE "idle"
                 /\ call[c].kind # "create" /\ ~svc[v].vm
           /\ UNCHANGED <<services, deleting, state, reap, audit, dir, volume, stuck, vm, dying>>
<1> DEFINE v == call[c].svc
           k == call[c].kind
<1>0. OwnerType /\ svc \in [Service -> {Off} \cup Actor] /\ call \in [Call -> {Idle} \cup Request]
  BY Zenon DEF OwnerInv, OwnerType
<1>1. /\ call[c].pc = "send" /\ svc[v].pc = "idle"
      /\ UNCHANGED <<services, deleting, state, reap, audit, dir, volume, stuck, vm, dying>>
  BY Zenon DEF Take, mapVars, hostVars, volumeVars, vmVars
<1>2. call[c] # Idle /\ call[c] \in Request /\ v \in Service
  BY <1>0, <1>1, CallFields, Zenon
<1>3. svc[v] \in Actor /\ Live(v)
  BY <1>0, <1>1, <1>2, ActorFields, Zenon DEF Live
<1>4. \/ /\ svc' = [svc EXCEPT ![v].pc = Begins(k), ![v].caller = c]
         /\ call' = [call EXCEPT ![c].pc = "wait"]
         /\ k = "create" \/ svc[v].vm
      \/ /\ svc' = [svc EXCEPT ![v].pc = IF k = "remove" THEN "exited" ELSE @]
         /\ call' = [call EXCEPT ![c].pc = "replied", ![c].reply = "ok"]
         /\ k # "create" /\ ~svc[v].vm
  BY Zenon DEF Take
<1> HIDE DEF v, k
<1>5. /\ \A w \in Service : w # v => svc'[w] = svc[w]
      /\ \A d \in Call : d # c => call'[d] = call[d]
  BY <1>0, <1>2, <1>4, Zenon
<1>6. /\ svc'[v].id = svc[v].id /\ svc'[v].vm = svc[v].vm
      /\ call'[c].kind = call[c].kind /\ call'[c].id = call[c].id /\ call'[c].svc = call[c].svc
      /\ call'[c].pc \in {"wait", "replied"}
  BY <1>0, <1>2, <1>3, <1>4 DEF Actor, Request
<1>7. \/ /\ call'[c].pc = "wait" /\ svc'[v].caller = c /\ svc'[v].pc = Begins(k)
         /\ k = "create" \/ svc[v].vm
      \/ /\ call'[c].pc = "replied" /\ call'[c].reply = "ok"
         /\ svc'[v].pc = IF k = "remove" THEN "exited" ELSE "idle"
         /\ k # "create" /\ ~svc[v].vm
  <2>1. CASE /\ svc' = [svc EXCEPT ![v].pc = Begins(k), ![v].caller = c]
             /\ call' = [call EXCEPT ![c].pc = "wait"]
             /\ k = "create" \/ svc[v].vm
    BY <1>0, <1>2, <1>3, <2>1, Zenon DEF Actor, Request
  <2>2. CASE /\ svc' = [svc EXCEPT ![v].pc = IF k = "remove" THEN "exited" ELSE @]
             /\ call' = [call EXCEPT ![c].pc = "replied", ![c].reply = "ok"]
             /\ k # "create" /\ ~svc[v].vm
    BY <1>0, <1>1, <1>2, <1>3, <2>2 DEF Actor, Request
  <2> QED BY <1>4, <2>1, <2>2, Zenon
<1>8. call'[c] # Idle
  BY <1>6 DEF Idle
<1> QED BY <1>1, <1>2, <1>3, <1>5, <1>6, <1>7, <1>8, Zenon DEF v, k

LEMMA GoneEffect ==
    ASSUME OwnerInv, NEW c \in Call, ServiceGone(c)
    PROVE  /\ call[c] # Idle /\ svc[call[c].svc].pc = "exited" /\ call[c].pc \in {"send", "wait"}
           /\ call'[c] # Idle /\ call'[c].pc = "replied" /\ call'[c].reply = "exited"
           /\ call'[c].kind = call[c].kind /\ call'[c].id = call[c].id /\ call'[c].svc = call[c].svc
           /\ \A d \in Call : d # c => call'[d] = call[d]
           /\ UNCHANGED <<services, deleting, state, svc, reap, audit, dir, volume, stuck, vm, dying>>
<1>1. OwnerType /\ call[c].pc \in {"send", "wait"}
  BY Zenon DEF OwnerInv, ServiceGone
<1>2. call[c] # Idle /\ call[c] \in Request
  BY <1>1, CallFields
<1>3. call' = [call EXCEPT ![c].pc = "replied", ![c].reply = "exited"]
  BY Zenon DEF ServiceGone
<1>4. /\ call'[c].pc = "replied" /\ call'[c].reply = "exited"
      /\ call'[c].kind = call[c].kind /\ call'[c].id = call[c].id /\ call'[c].svc = call[c].svc
      /\ \A d \in Call : d # c => call'[d] = call[d]
  BY <1>1, <1>2, <1>3, Zenon DEF OwnerType, Request
<1>5. call'[c] # Idle
  BY <1>4 DEF Idle
<1> QED BY <1>1, <1>2, <1>4, <1>5, Zenon DEF ServiceGone, mapVars, hostVars, volumeVars, vmVars

LEMMA ReturnEffect ==
    ASSUME OwnerInv, NEW c \in Call, CallReturns(c)
    PROVE  /\ call[c] # Idle /\ call[c].pc = "replied"
           /\ \A d \in Call : d # c => call'[d] = call[d]
           /\ \A r \in Reaper : r # c => reap'[r] = reap[r]
           /\ UNCHANGED <<state, svc, audit, dir, volume, stuck, vm, dying>>
           /\ \/ /\ call'[c] = Idle /\ UNCHANGED <<services, deleting, reap>> /\ call[c].kind # "remove"
              \/ /\ call[c].kind = "create" /\ call[c].reply # "ok"
                 /\ services[call[c].id] = call[c].svc
                 /\ call'[c] = Idle /\ UNCHANGED <<deleting, reap>>
                 /\ services'[call[c].id] = NoService
                 /\ \A t \in Sandbox : t # call[c].id => services'[t] = services[t]
              \/ /\ call[c].kind = "remove" /\ UNCHANGED <<services, reap>>
                 /\ call'[c] = Idle /\ deleting' = deleting \ {call[c].id}
              \/ /\ call[c].kind = "remove" /\ UNCHANGED <<services, deleting>>
                 /\ call'[c] # Idle /\ call'[c].pc = "reap" /\ call'[c].kind = "remove"
                 /\ call'[c].id = call[c].id /\ call'[c].svc = call[c].svc
                 /\ reap'[c] = [pc |-> "kill", id |-> call[c].id]
<1>1. OwnerType /\ call[c].pc = "replied" /\ UNCHANGED <<state, svc, audit, dir, volume, stuck, vm, dying>>
  BY Zenon DEF OwnerInv, CallReturns, CreateReturns, StopReturns, RemoveReturns, mapVars, hostVars, volumeVars, vmVars
<1>2. call[c] # Idle /\ call[c] \in Request /\ call[c].id \in Sandbox /\ c \in Reaper
  BY <1>1, CallFields, Zenon DEF Reaper
<1>3. ASSUME call' = [call EXCEPT ![c] = Idle]
      PROVE  call'[c] = Idle /\ \A d \in Call : d # c => call'[d] = call[d]
  BY <1>1, <1>3, Zenon DEF OwnerType
<1>4. CASE CreateReturns(c)
  <2>1. /\ call' = [call EXCEPT ![c] = Idle] /\ UNCHANGED <<deleting, reap>> /\ call[c].kind = "create"
        /\ services' = [services EXCEPT ![call[c].id] =
               IF call[c].reply # "ok" /\ @ = call[c].svc THEN NoService ELSE @]
    BY <1>4, Zenon DEF CreateReturns
  <2>2. CASE call[c].reply # "ok" /\ services[call[c].id] = call[c].svc
    <3>1. /\ services'[call[c].id] = NoService
          /\ \A t \in Sandbox : t # call[c].id => services'[t] = services[t]
      BY <1>1, <1>2, <2>1, <2>2, Zenon DEF OwnerType
    <3> QED BY <1>1, <1>2, <1>3, <2>1, <2>2, <3>1, Zenon
  <2>3. CASE ~(call[c].reply # "ok" /\ services[call[c].id] = call[c].svc)
    <3>1. services' = services
      BY <1>1, <1>2, <2>1, <2>3 DEF OwnerType
    <3> QED BY <1>1, <1>2, <1>3, <2>1, <3>1
  <2> QED BY <2>2, <2>3, Zenon
<1>5. CASE StopReturns(c)
  <2>1. /\ call' = [call EXCEPT ![c] = Idle] /\ UNCHANGED <<services, deleting, reap>>
        /\ call[c].kind = "stop"
    BY <1>5, Zenon DEF StopReturns, mapVars
  <2> QED BY <1>1, <1>2, <1>3, <2>1
<1>6. CASE RemoveReturns(c)
  <2>1. call[c].kind = "remove" /\ UNCHANGED services
    BY <1>6, Zenon DEF RemoveReturns
  <2>2. CASE call' = [call EXCEPT ![c] = Idle] /\ deleting' = deleting \ {call[c].id} /\ UNCHANGED reap
    BY <1>1, <1>2, <1>3, <2>1, <2>2, Zenon
  <2>3. CASE /\ call' = [call EXCEPT ![c].pc = "reap"]
             /\ reap' = [reap EXCEPT ![c] = [pc |-> "kill", id |-> call[c].id]]
             /\ UNCHANGED deleting
    <3>1. /\ call'[c].pc = "reap" /\ call'[c].kind = call[c].kind
          /\ call'[c].id = call[c].id /\ call'[c].svc = call[c].svc
          /\ \A d \in Call : d # c => call'[d] = call[d]
      BY <1>1, <1>2, <2>3, Zenon DEF OwnerType, Request
    <3>2. /\ reap'[c] = [pc |-> "kill", id |-> call[c].id]
          /\ \A r \in Reaper : r # c => reap'[r] = reap[r]
      BY <1>1, <1>2, <2>3, Zenon DEF OwnerType
    <3>3. call'[c] # Idle
      BY <3>1 DEF Idle
    <3> QED BY <1>1, <1>2, <2>1, <2>3, <3>1, <3>2, <3>3, Zenon
  <2> QED BY <1>6, <2>2, <2>3, Zenon DEF RemoveReturns
<1> QED BY <1>4, <1>5, <1>6, Zenon DEF CallReturns

(* A Remove that has reaped takes over the outcome.                        *)
LEMMA ReapedEffect ==
    ASSUME OwnerInv, NEW c \in Call, Reaped(c)
    PROVE  /\ reap[c].pc \in {"over", "failed"} /\ reap[c].id = call[c].id
           /\ call[c] # Idle /\ call[c].pc = "reap" /\ call[c].kind = "remove"
           /\ call'[c] # Idle /\ call'[c].pc = "replied" /\ call'[c].kind = "remove"
           /\ call'[c].id = call[c].id /\ call'[c].svc = call[c].svc
           /\ call'[c].reply = IF reap[c].pc = "over" THEN "ok" ELSE "failed"
           /\ \A d \in Call : d # c => call'[d] = call[d]
           /\ reap'[c] = NoReap
           /\ \A r \in Reaper : r # c => reap'[r] = reap[r]
           /\ UNCHANGED <<services, deleting, state, svc, audit, dir, volume, stuck, vm, dying>>
<1>1. /\ OwnerType /\ reap[c].pc \in {"over", "failed"} /\ reap' = [reap EXCEPT ![c] = NoReap]
      /\ call' = [call EXCEPT ![c].pc = "replied",
                             ![c].reply = IF reap[c].pc = "over" THEN "ok" ELSE "failed"]
      /\ UNCHANGED <<services, deleting, state, svc, audit, dir, volume, stuck, vm, dying>>
  BY ManagerAssumption, Zenon DEF OwnerInv, Reaped, hostVars, volumeVars, vmVars
<1>2. c \in Reaper /\ reap[c] # NoReap
  BY <1>1, ReapFields, Zenon DEF Reaper
<1>3. /\ call[c] # Idle /\ call[c].pc = "reap" /\ call[c].kind = "remove"
      /\ reap[c].id = call[c].id
  BY <1>2, Zenon DEF OwnerInv, CallInv
<1>4. call[c] \in Request
  BY <1>1, <1>3, CallFields, Zenon
<1>5. /\ call'[c].pc = "replied" /\ call'[c].kind = call[c].kind /\ call'[c].id = call[c].id
      /\ call'[c].svc = call[c].svc
      /\ call'[c].reply = IF reap[c].pc = "over" THEN "ok" ELSE "failed"
      /\ \A d \in Call : d # c => call'[d] = call[d]
  BY <1>1, <1>4, Zenon DEF OwnerType, Request
<1>6. reap'[c] = NoReap /\ \A r \in Reaper : r # c => reap'[r] = reap[r]
  BY <1>1, <1>2, Zenon DEF OwnerType
<1>7. call'[c] # Idle
  BY <1>5 DEF Idle
<1> QED BY <1>1, <1>3, <1>5, <1>6, <1>7, Zenon

LEMMA RecoverEffect ==
    ASSUME OwnerInv, NEW s \in Sandbox, Recover(s)
    PROVE  /\ audit.pc = "recover" /\ reap[Main] = NoReap /\ s \in audit.ids
           /\ audit'.pc = "recover" /\ audit'.ids = audit.ids \ {s}
           /\ services[s] = NoService /\ deleting = {} /\ \A c \in Call : call[c] = Idle
           /\ UNCHANGED <<deleting, call, dir, volume, stuck, vm, dying>>
           /\ \/ /\ vm[s] = "none" \/ s \in dying
                 /\ UNCHANGED <<services, state, svc>>
                 /\ reap' = [reap EXCEPT ![Main] = [pc |-> "kill", id |-> s]]
              \/ /\ vm[s] # "none" /\ s \notin dying /\ UNCHANGED reap
                 /\ \E v \in Service :
                        /\ Free(v)
                        /\ services'[s] = v /\ \A t \in Sandbox : t # s => services'[t] = services[t]
                        /\ svc'[v].pc = "idle" /\ svc'[v].id = s /\ svc'[v].vm
                        /\ \A w \in Service : w # v => svc'[w] = svc[w]
                 /\ \E st \in Sampled(s) : state' = [state EXCEPT ![s] = st]
<1>1. /\ OwnerType /\ audit.pc = "recover" /\ reap[Main] = NoReap /\ s \in audit.ids
      /\ UNCHANGED <<deleting, call, dir, volume, stuck, vm, dying>>
  BY Zenon DEF OwnerInv, Recover, hostVars, volumeVars, vmVars
<1>2. services[s] = NoService /\ deleting = {} /\ \A c \in Call : call[c] = Idle
  BY <1>1, Zenon DEF OwnerInv, MainInv, MainClaims, CallInv
<1>3. audit' = [audit EXCEPT !.ids = @ \ {s}]
  BY Zenon DEF Recover, ReapNext
<1>4. audit'.pc = "recover" /\ audit'.ids = audit.ids \ {s}
  BY <1>1, <1>3, Zenon DEF OwnerType
<1>5. CASE vm[s] = "none" \/ s \in dying
  BY <1>1, <1>2, <1>4, <1>5 DEF Recover, ReapNext
<1>6. CASE vm[s] # "none" /\ s \notin dying
  <2>1. PICK v \in Service :
            /\ Free(v)
            /\ services' = [services EXCEPT ![s] = v]
            /\ svc' = [svc EXCEPT ![v] = [pc |-> "idle", id |-> s, vm |-> TRUE,
                                          failed |-> FALSE, caller |-> NoCall]]
    BY <1>6, Zenon DEF Recover
  <2>2. /\ services'[s] = v /\ \A t \in Sandbox : t # s => services'[t] = services[t]
        /\ svc'[v].pc = "idle" /\ svc'[v].id = s /\ svc'[v].vm
        /\ \A w \in Service : w # v => svc'[w] = svc[w]
    BY <1>1, <2>1, Zenon DEF OwnerType
  <2>3. (\E st \in Sampled(s) : state' = [state EXCEPT ![s] = st]) /\ UNCHANGED reap
    BY <1>6, Zenon DEF Recover
  <2> QED BY <1>1, <1>2, <1>4, <1>6, <2>1, <2>2, <2>3, Zenon
<1> QED BY <1>5, <1>6, Zenon

LEMMA PromiseKept ==
    ASSUME OwnerInv, HostType, PromiseInv, [Next]_vars
    PROVE  PromiseInv' /\ PromiseStep
<1>Actor. ASSUME NEW v \in Service, ActorStep(v)
          PROVE  PromiseInv' /\ PromiseStep
  <2>1. AtWork(v) /\ (Works(v) \/ Answers(v)) /\ UNCHANGED <<services, deleting, reap, audit>>
    BY <1>Actor, ActorMoves, Zenon
  <2>2. svc[v].id \in Sandbox /\ OwnerType /\ MakeInv
    BY <1>Actor, <2>1, ActorFields, Zenon DEF OwnerInv, AtWork, PromiseInv
  <2>3. Serving' = Serving
    BY <1>Actor, <2>1, Zenon DEF Serving
  <2>6. \A c \in Call : Creates(c)' => Creates(c) /\ call'[c].svc = call[c].svc
    BY <1>Actor, <2>1, <2>2, ActorCalls, Zenon
  <2>4. CASE UNCHANGED state
    <3>1. MakeInv'
      BY <1>Actor, <2>1, <2>2, <2>4, WorksMake, AnswersMake, Zenon
    <3>2. RunInv'
      <4>1. CASE Spawn(v)
        <5>1. \A s \in Sandbox : vm'[s] = "booting" => vm[s] = "booting" \/ s = svc[v].id
          BY <1>Actor, <2>2, <4>1, Zenon DEF Spawn, vmVars, HostType
        <5>2. services[svc[v].id] = NoService \/ state[svc[v].id] = "starting"
          BY <1>Actor, <2>2, <4>1, MakingStarts, Zenon DEF Spawn
        <5> QED BY <1>Actor, <2>1, <2>4, <5>1, <5>2, Zenon DEF PromiseInv, RunInv
      <4>2. CASE ~Spawn(v)
        <5>1. \A s \in Sandbox : vm'[s] = "booting" => vm[s] = "booting"
          BY <1>Actor, <2>2, <4>2, Zenon DEF ActorStep, NewVM, CreateVolume, WaitRunning, StopVM, RemoveVolume, RemoveDir,
             Halt, EndsVM, HostType, hostVars, volumeVars, vmVars
        <5> QED BY <1>Actor, <2>1, <2>4, <5>1, Zenon DEF PromiseInv, RunInv
      <4> QED BY <1>Actor, <4>1, <4>2, Zenon
    <3>3. PromiseStep
      BY <1>Actor, <2>1, <2>3, <2>4, <2>6, EntryAnswers, Zenon DEF mapVars
    <3> QED BY <1>Actor, <3>1, <3>2, <3>3, Zenon DEF PromiseInv
  <2>5. CASE state' # state
    <3>1. /\ svc[v].pc = "boot" /\ vm[svc[v].id] = "running" /\ vm' = vm
          /\ call'[svc[v].caller].reply = "ok"
      BY <1>Actor, <2>5, ActorReports, Zenon
    <3>2. PICK st \in {"running", "unknown"} : Reports(v, st)
      BY <1>Actor, <2>5, ActorReports, Zenon
    <3>3. Answers(v)
      BY <1>Actor, <2>1, <2>5, <3>1, ActorReports, RepliesAnswers, Zenon DEF Commands
    <3>4. MakeInv'
      BY <1>Actor, <2>1, <2>2, <3>1, <3>2, <3>3, AnswersMake, Zenon
    <3>5. /\ services[svc[v].id] = v => state[svc[v].id] = "starting" /\ state'[svc[v].id] = st
          /\ services[svc[v].id] # v => services[svc[v].id] = NoService
          /\ \A s \in Sandbox : s # svc[v].id => state'[s] = state[s]
          /\ Serving
      BY <1>Actor, <2>2, <3>1, <3>2, MakingStarts DEF Reports, HostType
    <3>6. RunInv'
      BY <1>Actor, <2>1, <3>1, <3>5 DEF PromiseInv, RunInv
    <3>7. \A s \in Sandbox : Entry(s)' # Entry(s) => <<Entry(s), Entry(s)'>> \in Promise!Changes
      BY <1>Actor, <2>1, <3>5, Zenon DEF Entry, Tracked, Promise!Changes
    <3> QED BY <1>Actor, <2>1, <2>3, <2>6, <3>4, <3>5, <3>6, <3>7, EntryServes, Zenon DEF PromiseInv
  <2> QED BY <1>Actor, <2>4, <2>5, Zenon
(* An actor that polls, sees its VM end, or panics reports for its entry.  *)
<1>Watch. ASSUME NEW v \in Service, Poll(v) \/ VMExited(v) \/ Panic(v)
          PROVE  PromiseInv' /\ PromiseStep
  <2> DEFINE s == svc[v].id
  <2>1. /\ OwnerType /\ MakeInv /\ Live(v) /\ s \in Sandbox
        /\ UNCHANGED <<services, deleting, call, reap, audit, vm>>
    BY <1>Watch, ActorFields, Zenon
       DEF OwnerInv, PromiseInv, Poll, VMExited, Panic, Watches, Live, hostVars, volumeVars, vmVars
  <2>2. PICK st \in State :
            /\ state' = [state EXCEPT ![s] = IF services[s] = v THEN st ELSE @]
            /\ st # "dead" => st \in Sampled(s) /\ state[s] # "dead"
            /\ svc' # svc => st = "dead"
            /\ svc' = svc => svc[v].pc = "idle" /\ svc[v].vm
    <3>1. CASE Panic(v)
      <4>1. svc' # svc
        <5>1. svc[v] \in Actor /\ svc \in [Service -> {Off} \cup Actor]
          BY <1>Watch, <2>1, ActorFields, Zenon DEF OwnerType
        <5>2. svc'[v].pc = "exited"
          BY <1>Watch, <3>1, <5>1, Zenon DEF Panic, Actor
        <5> QED BY <1>Watch, <2>1, <5>2, Zenon DEF Live
      <4> QED BY <1>Watch, <3>1, <4>1, Zenon DEF Panic, Reports, State
    <3>2. CASE Poll(v) \/ VMExited(v)
      BY <1>Watch, <2>1, <3>2, SampledIsState, Zenon DEF Poll, VMExited, Watches, Reports, State
    <3> QED BY <1>Watch, <3>1, <3>2, Zenon
  <2>3. /\ svc' # svc => svc'[v].pc = "exited" /\ svc'[v].id = s
        /\ \A w \in Service \ {v} : svc'[w] = svc[w]
    <3>1. svc[v] \in Actor /\ svc \in [Service -> {Off} \cup Actor]
      BY <1>Watch, <2>1, ActorFields, Zenon DEF OwnerType
    <3>2. CASE svc' = svc
      BY <1>Watch, <3>2, Zenon
    <3>3. CASE svc' = [svc EXCEPT ![v].pc = "exited", ![v].failed = FALSE, ![v].caller = NoCall]
      BY <1>Watch, <3>1, <3>3, Zenon DEF Actor
    <3> QED BY <1>Watch, <3>2, <3>3, Zenon DEF Poll, VMExited, Panic
  <2> HIDE DEF s
  <2>4. /\ services[s] = v => state'[s] = st
        /\ \A t \in Sandbox : t # s \/ services[t] # v => state'[t] = state[t]
    BY <1>Watch, <2>1, <2>2, Zenon DEF HostType
  <2>5. RefInv'
    <3>1. \A t \in Sandbox : services[t] # NoService => services[t] \in Service
      BY <1>Watch, <2>1, Zenon DEF OwnerType
    <3>2. \A c \in Call : call[c] # Idle => call[c].svc \in Service
      BY <1>Watch, <2>1, CallFields, Zenon
    <3>3. \A w \in Service : svc'[w].id = svc[w].id /\ (svc[w].pc # "off" => svc'[w].pc # "off")
      BY <1>Watch, <2>3, Zenon DEF s
    <3> QED BY <1>Watch, <2>1, <3>1, <3>2, <3>3, Zenon DEF MakeInv, RefInv
  <2>6. ASSUME NEW c \in Call
        PROVE  CreateInv(c)'
    <3> SUFFICES ASSUME Pending(c)
                 PROVE  CreateInv(c)'
      BY <1>Watch, <2>1, Zenon DEF CreateInv, Pending, Creates
    <3>1. CreateInv(c) /\ call[c].svc \in Service /\ call[c].id \in Sandbox
      BY <1>Watch, <2>1, PendingActor, Zenon DEF MakeInv
    <3>2. CASE call[c].svc = v
      <4>1. svc' # svc
        BY <1>Watch, <2>1, <2>2, <3>2, PendingActor, Zenon DEF AtWork
      <4> QED BY <1>Watch, <2>1, <2>2, <2>3, <2>4, <3>1, <3>2, <4>1 DEF CreateInv, Live
    <3>3. CASE call[c].svc # v
      BY <1>Watch, <2>1, <2>3, <2>4, <3>1, <3>3 DEF CreateInv, Live
    <3> QED BY <1>Watch, <3>2, <3>3, Zenon
  <2>7. MakeInv'
    BY <1>Watch, <2>1, <2>5, <2>6, Zenon DEF MakeInv, Creates
  <2>8. vm[s] = "booting" => "running" \notin Sampled(s)
    BY <1>Watch, Zenon DEF Sampled
  <2>9. RunInv'
    BY <1>Watch, <2>1, <2>2, <2>4, <2>8 DEF PromiseInv, RunInv
  <2>10. Serving' = Serving
    BY <1>Watch, <2>1, Zenon DEF Serving
  <2>11. ASSUME NEW t \in Sandbox, Entry(t)' # Entry(t)
         PROVE  /\ t = s /\ services[s] = v /\ s \notin deleting
                /\ Entry(t) = state[s] /\ Entry(t)' = st /\ st # state[s]
    BY <1>Watch, <2>1, <2>4, <2>11, ManagerAssumption DEF Entry, Tracked
  <2>12. services[s] = v => (state[s] = "running" => vm[s] # "booting")
    BY <1>Watch, <2>1, ManagerAssumption DEF PromiseInv, RunInv
  <2>13. state[s] \in State /\ (st # "dead" => st = "unknown" \/ (st = "starting" /\ vm[s] = "booting")
                                               \/ (st = "running" /\ vm[s] = "running"))
    BY <1>Watch, <2>1, <2>2 DEF HostType, Sampled, VM
  <2>14. ASSUME NEW t \in Sandbox, Entry(t)' # Entry(t), state[s] # "dead"
         PROVE  /\ <<Entry(t), Entry(t)'>> \in Promise!Changes
                /\ <<Entry(t), Entry(t)'>> \in Promise!Live \X (Promise!Live \cup {"dead"})
    BY <1>Watch, <2>11, <2>12, <2>13, <2>14 DEF State, Promise!Changes, Promise!Live
  <2>15. ASSUME NEW t \in Sandbox, Entry(t)' # Entry(t)
         PROVE  state[s] # "dead"
    BY <1>Watch, <2>2, <2>11, <2>15, Zenon
  <2>16. PromiseStep
    <3>1. CASE Serving
      BY <1>Watch, <2>1, <2>10, <2>14, <2>15, <3>1, EntryServes, Zenon DEF Creates
    <3>2. CASE ~Serving
      BY <1>Watch, <2>1, <2>10, <2>14, <2>15, <3>2, EntryRecovers
    <3> QED BY <1>Watch, <3>1, <3>2, Zenon
  <2> QED BY <1>Watch, <2>7, <2>9, <2>16, Zenon DEF PromiseInv
<1>Create. ASSUME NEW c \in Call, NEW s \in Sandbox, Create(c, s)
           PROVE  PromiseInv' /\ PromiseStep
  <2>1. PICK v \in Service :
            /\ Free(v) /\ Serving /\ call[c] = Idle /\ services[s] = NoService /\ s \notin deleting
            /\ services'[s] = v /\ \A t \in Sandbox : t # s => services'[t] = services[t]
            /\ svc'[v].pc = "idle" /\ svc'[v].id = s /\ ~svc'[v].vm
            /\ \A w \in Service : w # v => svc'[w] = svc[w]
            /\ call'[c] # Idle /\ call'[c].pc = "send" /\ call'[c].kind = "create"
            /\ call'[c].id = s /\ call'[c].svc = v
            /\ \A d \in Call : d # c => call'[d] = call[d]
            /\ state' = [state EXCEPT ![s] = "starting"]
            /\ UNCHANGED <<deleting, reap, audit, dir, volume, stuck, vm, dying>>
    BY <1>Create, CreateEffect, Zenon
  <2>2. /\ state'[s] = "starting" /\ \A t \in Sandbox : t # s => state'[t] = state[t]
        /\ OwnerType /\ MakeInv
    BY <1>Create, <2>1, Zenon DEF HostType, OwnerInv, PromiseInv
  <2>3. \A t \in Sandbox : services[t] # v /\ (services[t] # NoService => services[t] \in Service)
    BY <1>Create, <2>1, <2>2, Zenon DEF Free, OwnerType
  <2>4. \A d \in Call : call[d] # Idle => call[d].svc # v /\ call[d].svc \in Service /\ call[d].id \in Sandbox
    BY <1>Create, <2>1, <2>2, CallFields, Zenon DEF Free
  <2>5. RefInv'
    <3>1. \A t \in Sandbox : services'[t] # NoService =>
              svc'[services'[t]].pc # "off" /\ svc'[services'[t]].id = t
      BY <1>Create, <2>1, <2>2, <2>3 DEF MakeInv, RefInv
    <3>2. \A d \in Call : call'[d] # Idle =>
              svc'[call'[d].svc].pc # "off" /\ svc'[call'[d].svc].id = call'[d].id
      BY <1>Create, <2>1, <2>2, <2>4 DEF MakeInv, RefInv
    <3> QED BY <1>Create, <3>1, <3>2, Zenon DEF RefInv
  <2>6. ASSUME NEW d \in Call
        PROVE  CreateInv(d)'
    <3>1. CASE d = c
      BY <1>Create, <2>1, <2>2, <3>1 DEF CreateInv
    <3>2. CASE d # c
      <4> SUFFICES ASSUME Pending(d)'
                   PROVE  CreateInv(d)'
        BY <1>Create, Zenon DEF CreateInv
      <4>1. call'[d] = call[d] /\ Pending(d) /\ CreateInv(d) /\ call[d] # Idle
        BY <1>Create, <2>1, <2>2, <3>2, Zenon DEF Pending, Creates, MakeInv
      <4>2. svc'[call[d].svc] = svc[call[d].svc]
        BY <1>Create, <2>1, <2>4, <4>1, Zenon
      <4>3. services'[call[d].id] = call[d].svc =>
                services[call[d].id] = call[d].svc /\ state'[call[d].id] = state[call[d].id]
        BY <1>Create, <2>1, <2>2, <2>4, <4>1
      <4> QED BY <1>Create, <4>1, <4>2, <4>3 DEF CreateInv, Live
    <3> QED BY <1>Create, <3>1, <3>2, Zenon
  <2>7. ASSUME NEW d \in Call, NEW e \in Call, Creates(d)', Creates(e)', call'[d].svc = call'[e].svc
        PROVE  d = e
    BY <1>Create, <2>1, <2>2, <2>4, <2>7 DEF Creates, MakeInv
  <2>8. MakeInv'
    BY <1>Create, <2>5, <2>6, <2>7, Zenon DEF MakeInv
  <2>9. RunInv'
    BY <1>Create, <2>1, <2>2 DEF PromiseInv, RunInv
  <2>10. \A t \in Sandbox : Entry(t)' # Entry(t) =>
             t = s /\ Entry(t) = "none" /\ Entry(t)' = "starting" /\ t \in Creating'
    BY <1>Create, <2>1, <2>2, ManagerAssumption DEF Entry, Tracked, Creating, BeingCreated
  <2>11. Serving' = Serving
    BY <1>Create, <2>1, Zenon DEF Serving
  <2>12. Entry(s) = "none" /\ Entry(s)' = "starting"
    BY <1>Create, <2>1, <2>2, ManagerAssumption DEF Entry, Tracked
  <2>13. ASSUME NEW t \in Creating'
         PROVE  t = s \/ t \in Creating
    BY <1>Create, <2>1, <2>3, <2>13 DEF Creating, Tracked, BeingCreated
  <2> QED BY <1>Create, <2>1, <2>8, <2>9, <2>10, <2>11, <2>12, <2>13, EntryMoves, Zenon DEF PromiseInv
<1>Ask. ASSUME NEW c \in Call, NEW s \in Sandbox, Stop(c, s) \/ Remove(c, s)
        PROVE  PromiseInv' /\ PromiseStep
  <2>1. /\ Serving /\ call[c] = Idle /\ services[s] \in Service
        /\ call'[c] # Idle /\ call'[c].kind \in {"stop", "remove"}
        /\ call'[c].id = s /\ call'[c].svc = services[s]
        /\ \A d \in Call : d # c => call'[d] = call[d]
        /\ UNCHANGED <<state, svc, audit, vm>>
    BY <1>Ask, AskEffect, Zenon
  <2>2. \A t \in Sandbox : services'[t] = services[t] \/ (t = s /\ services'[t] = NoService)
    BY <1>Ask, <2>1, AskEffect, Zenon
  <2>3. OwnerType /\ MakeInv
    BY <1>Ask, Zenon DEF OwnerInv, PromiseInv
  <2>4. RefInv'
    <3>1. svc[services[s]].pc # "off" /\ svc[services[s]].id = s
      BY <1>Ask, <2>1, <2>3, ManagerAssumption DEF MakeInv, RefInv
    <3> QED BY <1>Ask, <2>1, <2>2, <2>3, <3>1 DEF MakeInv, RefInv
  <2>5. \A d \in Call : Creates(d)' => Creates(d) /\ call'[d] = call[d]
    BY <1>Ask, <2>1, Zenon DEF Creates
  <2>6. ASSUME NEW d \in Call
        PROVE  CreateInv(d)'
    <3> SUFFICES ASSUME Pending(d)'
                 PROVE  CreateInv(d)'
      BY <1>Ask, Zenon DEF CreateInv
    <3>1. call'[d] = call[d] /\ Pending(d) /\ CreateInv(d)
      BY <1>Ask, <2>3, <2>5, Zenon DEF Pending, MakeInv
    <3>2. services'[call[d].id] = call[d].svc => services[call[d].id] = call[d].svc
      BY <1>Ask, <2>2, <2>3, <3>1, PendingActor, ManagerAssumption, Zenon
    <3> QED BY <1>Ask, <2>1, <3>1, <3>2, Zenon DEF CreateInv, Live
  <2>7. MakeInv'
    BY <1>Ask, <2>3, <2>4, <2>5, <2>6, Zenon DEF MakeInv
  <2>8. RunInv'
    BY <1>Ask, <2>1, <2>2, Zenon DEF PromiseInv, RunInv
  <2>9. \A t \in Sandbox : Entry(t)' # Entry(t) =>
            t = s /\ s \in deleting' /\ s \notin deleting /\ services[s] # NoService
    <3>1. CASE call'[c].kind = "stop"
      BY <1>Ask, <2>1, <3>1, AskEffect, Zenon DEF Entry, Tracked
    <3>2. CASE call'[c].kind = "remove"
      <4>1. /\ s \notin deleting /\ deleting' = deleting \cup {s}
            /\ \A t \in Sandbox : t # s => services'[t] = services[t]
        BY <1>Ask, <3>2, AskEffect
      <4> QED BY <1>Ask, <2>1, <4>1, ManagerAssumption DEF Entry, Tracked
    <3> QED BY <1>Ask, <2>1, <3>1, <3>2, Zenon
  <2>10. ASSUME NEW t \in Sandbox, Entry(t)' # Entry(t)
         PROVE  <<Entry(t), Entry(t)'>> \in Promise!Changes
    <3>1. Entry(t) \in State /\ Entry(t)' = "removing"
      BY <1>Ask, <2>9, <2>10, Zenon DEF Entry, Tracked, HostType
    <3> QED BY <1>Ask, <3>1, Zenon DEF State, Promise!Changes, Promise!Live
  <2>11. Serving' = Serving
    BY <1>Ask, <2>1, Zenon DEF Serving
  <2> QED BY <1>Ask, <2>1, <2>2, <2>5, <2>7, <2>8, <2>10, <2>11, EntryServes, Zenon DEF PromiseInv
<1>Take. ASSUME NEW c \in Call, Take(c)
         PROVE  PromiseInv' /\ PromiseStep
  <2> DEFINE v == call[c].svc
             k == call[c].kind
  <2>1. /\ call[c] # Idle /\ v \in Service /\ Live(v) /\ svc[v].pc = "idle" /\ call[c].pc = "send"
        /\ svc'[v].id = svc[v].id /\ svc'[v].vm = svc[v].vm
        /\ \A w \in Service : w # v => svc'[w] = svc[w]
        /\ call'[c] # Idle /\ call'[c].kind = k /\ call'[c].id = call[c].id
        /\ call'[c].svc = v
        /\ \A d \in Call : d # c => call'[d] = call[d]
        /\ UNCHANGED <<services, deleting, state, audit, vm>>
    BY <1>Take, TakeEffect, Zenon
  <2>2. \/ /\ call'[c].pc = "wait" /\ svc'[v].caller = c /\ svc'[v].pc = Begins(k)
           /\ k = "create" \/ svc[v].vm
        \/ /\ call'[c].pc = "replied" /\ call'[c].reply = "ok"
           /\ svc'[v].pc = IF k = "remove" THEN "exited" ELSE "idle"
           /\ k # "create" /\ ~svc[v].vm
    BY <1>Take, TakeEffect, Zenon
  <2>3. OwnerType /\ MakeInv /\ call[c].svc = v /\ call[c].kind = k /\ k \in {"create", "stop", "remove"}
    BY <1>Take, <2>1, CallFields, Zenon DEF OwnerInv, PromiseInv
  <2> HIDE DEF v, k
  <2>4. Begins(k) \in {"newVM", "halt", "stop"} /\ svc'[v].pc \in {"newVM", "halt", "stop", "exited", "idle"}
    BY <1>Take, <2>2, <2>3, Zenon DEF Begins
  <2>5. RefInv'
    <3>1. \A s \in Sandbox : services[s] # NoService => services[s] \in Service
      BY <1>Take, <2>3, Zenon DEF OwnerType
    <3>2. \A d \in Call : call[d] # Idle => call[d].svc \in Service
      BY <1>Take, <2>3, CallFields, Zenon
    <3>3. \A w \in Service : svc'[w].id = svc[w].id /\ (svc[w].pc # "off" => svc'[w].pc # "off")
      BY <1>Take, <2>1, <2>4
    <3>4. \A d \in Call : call'[d] # Idle =>
              call[d] # Idle /\ call'[d].svc = call[d].svc /\ call'[d].id = call[d].id
      BY <1>Take, <2>1, <2>3, Zenon
    <3> QED BY <1>Take, <2>1, <2>3, <3>1, <3>2, <3>3, <3>4 DEF MakeInv, RefInv
  <2>6. \A d \in Call : Creates(d)' => Creates(d) /\ call'[d].svc = call[d].svc
    BY <1>Take, <2>1, <2>3, Zenon DEF Creates
  <2>7. ASSUME NEW d \in Call
        PROVE  CreateInv(d)'
    <3> SUFFICES ASSUME Pending(d)'
                 PROVE  CreateInv(d)'
      BY <1>Take, Zenon DEF CreateInv
    <3>1. CASE d = c
      <4>1. Pending(c) /\ CreateInv(c)
        BY <1>Take, <2>1, <2>3, <2>6, <3>1, Zenon DEF Pending, MakeInv
      <4>2. k = "create" /\ call'[c].pc = "wait" /\ svc'[v].caller = c /\ svc'[v].pc = "newVM"
        BY <1>Take, <2>2, <2>3, <4>1 DEF Pending, Creates, Begins
      <4> QED BY <1>Take, <2>1, <2>3, <3>1, <4>1, <4>2 DEF CreateInv
    <3>2. CASE d # c /\ call[d].svc = v
      <4>1. call'[d] = call[d] /\ Pending(d) /\ CreateInv(d)
        BY <1>Take, <2>1, <2>3, <3>2, Zenon DEF Pending, Creates, MakeInv
      <4>2. k # "create"
        BY <1>Take, <2>1, <2>3, <3>2, <4>1, Zenon DEF MakeInv, Pending, Creates
      <4>3. call[d].pc = "send" /\ ~svc[v].vm
        BY <1>Take, <2>1, <2>3, <3>2, <4>1, PendingActor, Zenon DEF AtWork
      <4> QED BY <1>Take, <2>1, <2>2, <3>2, <4>1, <4>2, <4>3 DEF CreateInv, Live
    <3>3. CASE d # c /\ call[d].svc # v
      <4>1. call'[d] = call[d] /\ Pending(d) /\ CreateInv(d)
        BY <1>Take, <2>1, <2>3, <3>3, Zenon DEF Pending, Creates, MakeInv
      <4>2. svc'[call[d].svc] = svc[call[d].svc]
        BY <1>Take, <2>1, <2>3, <3>3, <4>1, PendingActor, Zenon
      <4> QED BY <1>Take, <2>1, <4>1, <4>2 DEF CreateInv, Live
    <3> QED BY <1>Take, <3>1, <3>2, <3>3, Zenon
  <2>8. MakeInv'
    BY <1>Take, <2>3, <2>5, <2>6, <2>7, Zenon DEF MakeInv
  <2>9. RunInv'
    BY <1>Take, <2>1, Zenon DEF PromiseInv, RunInv
  <2>10. Serving' = Serving
    BY <1>Take, <2>1, Zenon DEF Serving
  <2> QED BY <1>Take, <2>1, <2>6, <2>8, <2>9, <2>10, EntryAnswers, Zenon DEF PromiseInv, mapVars
<1>Gone. ASSUME NEW c \in Call, ServiceGone(c)
         PROVE  PromiseInv' /\ PromiseStep
  <2>1. /\ call[c] # Idle /\ svc[call[c].svc].pc = "exited" /\ call[c].pc \in {"send", "wait"}
        /\ call'[c] # Idle /\ call'[c].pc = "replied" /\ call'[c].reply = "exited"
        /\ call'[c].kind = call[c].kind /\ call'[c].id = call[c].id /\ call'[c].svc = call[c].svc
        /\ \A d \in Call : d # c => call'[d] = call[d]
        /\ UNCHANGED <<services, deleting, state, svc, audit, vm>>
    BY <1>Gone, GoneEffect, Zenon
  <2>2. MakeInv
    BY <1>Gone, Zenon DEF PromiseInv
  <2>3. RefInv'
    BY <1>Gone, <2>1, <2>2 DEF MakeInv, RefInv
  <2>4. \A d \in Call : Creates(d)' => Creates(d) /\ call'[d].svc = call[d].svc
    BY <1>Gone, <2>1, Zenon DEF Creates
  <2>5. ASSUME NEW d \in Call
        PROVE  CreateInv(d)'
    <3> SUFFICES ASSUME Pending(d)'
                 PROVE  CreateInv(d)'
      BY <1>Gone, Zenon DEF CreateInv
    <3>1. Pending(d) /\ CreateInv(d)
      BY <1>Gone, <2>1, <2>2 DEF Pending, Creates, MakeInv
    <3> QED BY <1>Gone, <2>1, <3>1 DEF CreateInv, Live
  <2>6. Serving' = Serving
    BY <1>Gone, <2>1, Zenon DEF Serving
  <2>7. MakeInv' /\ RunInv'
    BY <1>Gone, <2>1, <2>2, <2>3, <2>4, <2>5, Zenon DEF MakeInv, PromiseInv, RunInv
  <2> QED BY <1>Gone, <2>1, <2>4, <2>6, <2>7, EntryAnswers, Zenon DEF PromiseInv, mapVars
<1>Return. ASSUME NEW c \in Call, CallReturns(c)
           PROVE  PromiseInv' /\ PromiseStep
  <2>1. /\ call[c] # Idle /\ call[c].pc = "replied"
        /\ \A d \in Call : d # c => call'[d] = call[d]
        /\ UNCHANGED <<state, svc, audit, vm>>
        /\ \/ call'[c] = Idle
           \/ /\ call'[c] # Idle /\ call'[c].kind = "remove" /\ call'[c].id = call[c].id
              /\ call'[c].svc = call[c].svc
    BY <1>Return, ReturnEffect, Zenon
  <2>2. \A t \in Sandbox : services'[t] \in {services[t], NoService}
    BY <1>Return, ReturnEffect, Zenon
  <2>3. OwnerType /\ MakeInv
    BY <1>Return, Zenon DEF OwnerInv, PromiseInv
  <2>4. MakeInv'
    BY <1>Return, <2>1, <2>2, <2>3, MakeShrinks
  <2>5. RunInv'
    BY <1>Return, <2>1, <2>2, Zenon DEF PromiseInv, RunInv
  <2>6. ASSUME NEW t \in Sandbox, Entry(t)' # Entry(t)
        PROVE  \/ <<Entry(t), Entry(t)'>> \in Promise!Changes
               \/ t \in Creating \ Creating' /\ Entry(t) \in {"starting", "dead"} /\ Entry(t)' = "none"
    <3>1. \/ /\ call[c].kind = "create" /\ call[c].reply # "ok" /\ services[call[c].id] = call[c].svc
             /\ deleting' = deleting /\ services'[call[c].id] = NoService
             /\ t = call[c].id
          \/ /\ call[c].kind = "remove" /\ services' = services /\ deleting' = deleting \ {call[c].id}
             /\ t = call[c].id
      <4>1. \/ services' = services /\ deleting' = deleting
            \/ /\ call[c].kind = "create" /\ call[c].reply # "ok" /\ services[call[c].id] = call[c].svc
               /\ deleting' = deleting /\ services'[call[c].id] = NoService
               /\ \A u \in Sandbox : u # call[c].id => services'[u] = services[u]
            \/ /\ call[c].kind = "remove" /\ services' = services /\ deleting' = deleting \ {call[c].id}
        BY <1>Return, ReturnEffect, Zenon
      <4> QED BY <1>Return, <2>1, <2>6, <4>1 DEF Entry, Tracked
    <3>2. CASE /\ call[c].kind = "create" /\ call[c].reply # "ok" /\ services[call[c].id] = call[c].svc
               /\ deleting' = deleting /\ services'[call[c].id] = NoService
               /\ t = call[c].id
      <4>1. Pending(c) /\ CreateInv(c) /\ call[c].svc \in Service
        BY <1>Return, <2>1, <2>3, <3>2, CallFields DEF Pending, Creates, MakeInv
      <4>2. state[t] \in {"starting", "dead"} /\ services[t] # NoService /\ t \notin deleting
        BY <1>Return, <3>2, <4>1, ManagerAssumption, Zenon DEF CreateInv, OwnerInv, MapInv
      <4>3. t \in Creating \ Creating'
        BY <1>Return, <2>1, <3>2, <4>2, Zenon DEF Creating, Tracked, BeingCreated
      <4> QED BY <1>Return, <3>2, <4>2, <4>3, <2>1, Zenon DEF Entry, Tracked
    <3>3. CASE /\ call[c].kind = "remove" /\ services' = services /\ deleting' = deleting \ {call[c].id}
               /\ t = call[c].id
      <4>1. t \in deleting /\ services[t] = NoService
        BY <1>Return, <2>1, <3>3, Zenon DEF OwnerInv, CallInv, MapInv
      <4> QED BY <1>Return, <3>3, <4>1 DEF Entry, Tracked, Promise!Changes
    <3> QED BY <1>Return, <3>1, <3>2, <3>3, Zenon
  <2>7. Serving /\ Serving'
    BY <1>Return, <2>1, Zenon DEF OwnerInv, CallInv, Serving
  <2>8. \A d \in Call : Creates(d)' => Creates(d) /\ call'[d].svc = call[d].svc
    BY <1>Return, <2>1, Zenon DEF Creates
  <2>9. Creating' \subseteq Creating
    BY <1>Return, <2>2, <2>8, CreatingShrinks, Zenon
  <2> QED BY <1>Return, <2>4, <2>5, <2>6, <2>7, <2>9, EntryMoves, Zenon DEF PromiseInv
<1>Reap. ASSUME NEW r \in Reaper, ReapStep(r)
         PROVE  PromiseInv' /\ PromiseStep
  <2>1. OwnerType /\ MakeInv /\ UNCHANGED <<services, state, svc, audit>> /\ reap[r].pc # "none"
    BY <1>Reap, Zenon DEF OwnerInv, PromiseInv, ReapStep, ReapKill, ReapVolume, ReapDir, Reaped, mapVars
  <2>2. reap[r] # NoReap /\ reap[r].id \in Sandbox
    BY <1>Reap, <2>1, ReapFields, Zenon
  <2>3. \A c \in Call : \/ call'[c] = call[c]
                        \/ /\ call[c] # Idle /\ call'[c] # Idle
                           /\ call'[c].kind # "create" /\ call'[c].id = call[c].id
                           /\ call'[c].svc = call[c].svc
    <3>1. CASE ~Reaped(r) \/ r = Main
      BY <1>Reap, <3>1, Zenon DEF ReapStep, ReapKill, ReapVolume, ReapDir, Reaped
    <3>2. CASE Reaped(r) /\ r \in Call
      BY <1>Reap, <2>1, <3>2, ReapedEffect, Zenon
    <3> QED BY <1>Reap, <3>1, <3>2, Zenon DEF Reaper
  <2>10. \A c \in Call : Creates(c)' => Creates(c) /\ call'[c].svc = call[c].svc
    BY <1>Reap, <2>3, Zenon DEF Creates
  <2>4. MakeInv'
    BY <1>Reap, <2>1, <2>3, MakeShrinks
  <2>5. \A t \in Sandbox : vm'[t] = "booting" => vm[t] = "booting"
    BY <1>Reap, <2>2 DEF ReapStep, ReapKill, ReapVolume, ReapDir, Reaped, EndsVM, HostType, hostVars, volumeVars, vmVars
  <2>6. RunInv'
    BY <1>Reap, <2>1, <2>5, Zenon DEF PromiseInv, RunInv
  <2>7. Serving' = Serving
    BY <1>Reap, <2>1, Zenon DEF Serving
  <2>8. CASE UNCHANGED deleting
    BY <1>Reap, <2>1, <2>4, <2>6, <2>7, <2>8, <2>10, EntryAnswers, Zenon DEF PromiseInv, mapVars
  <2>9. CASE deleting' # deleting
    <3>1. deleting' = deleting \ {reap[r].id} /\ reap[r].id \in deleting
      BY <1>Reap, <2>9 DEF ReapStep, ReapKill, ReapVolume, ReapDir, Reaped, mapVars
    <3>2. Serving
      BY <1>Reap, <3>1, Zenon DEF OwnerInv, MainInv, Serving
    <3>3. services[reap[r].id] = NoService
      BY <1>Reap, <2>2, <3>1, Zenon DEF OwnerInv, MapInv
    <3>4. ASSUME NEW t \in Sandbox, Entry(t)' # Entry(t)
          PROVE  <<Entry(t), Entry(t)'>> \in Promise!Changes
      <4>1. t = reap[r].id
        BY <1>Reap, <2>1, <3>1, <3>4, Zenon DEF Entry, Tracked
      <4> QED BY <1>Reap, <2>1, <3>1, <3>3, <4>1 DEF Entry, Tracked, Promise!Changes
    <3> QED BY <1>Reap, <2>1, <2>4, <2>6, <2>7, <2>10, <3>2, <3>4, EntryServes, Zenon DEF PromiseInv
  <2> QED BY <1>Reap, <2>8, <2>9, Zenon
<1>Liveness. ASSUME CheckLiveness
             PROVE  PromiseInv' /\ PromiseStep
  <2>1. /\ OwnerType /\ MakeInv /\ UNCHANGED <<services, deleting, svc, call, vm>>
        /\ audit.pc = "idle" /\ audit' = [audit EXCEPT !.pc = "list"]
    BY <1>Liveness, Zenon DEF OwnerInv, PromiseInv, CheckLiveness, hostVars, volumeVars, vmVars
  <2>2. Serving /\ Serving'
    BY <1>Liveness, <2>1, Zenon DEF Serving, OwnerType
  <2>3. \A s \in Sandbox :
            \/ state'[s] = state[s]
            \/ state'[s] = "dead" /\ services[s] # NoService /\ svc[services[s]].pc = "exited"
    BY <1>Liveness, Zenon DEF CheckLiveness, Tracked
  <2>4. ASSUME NEW c \in Call
        PROVE  CreateInv(c)'
    <3> SUFFICES ASSUME Pending(c)
                 PROVE  CreateInv(c)'
      BY <1>Liveness, <2>1, Zenon DEF CreateInv, Pending, Creates
    <3>1. CreateInv(c) /\ call[c].id \in Sandbox
      BY <1>Liveness, <2>1, PendingActor, Zenon DEF MakeInv
    <3> QED BY <1>Liveness, <2>1, <2>3, <3>1 DEF CreateInv, Live
  <2>5. MakeInv'
    BY <1>Liveness, <2>1, <2>4, Zenon DEF MakeInv, RefInv, Creates
  <2>6. RunInv'
    BY <1>Liveness, <2>1, <2>3, Zenon DEF PromiseInv, RunInv
  <2>7. ASSUME NEW s \in Sandbox, Entry(s)' # Entry(s)
        PROVE  <<Entry(s), Entry(s)'>> \in Promise!Changes
    <3>1. s \notin deleting /\ services[s] # NoService /\ state'[s] # state[s] /\ state[s] \in State
      BY <1>Liveness, <2>1, <2>7, Zenon DEF Entry, Tracked, HostType
    <3> QED BY <1>Liveness, <2>1, <2>3, <3>1 DEF Entry, Tracked, State, Promise!Changes, Promise!Live
  <2> QED BY <1>Liveness, <2>1, <2>2, <2>5, <2>6, <2>7, EntryServes, Zenon DEF PromiseInv, Creates
(* Listing, claiming and reaping: the entries that the audit claims were   *)
(* nobody's.                                                               *)
<1>Audit. ASSUME ListDisk \/ ClaimOrphans \/ AuditEnds \/ \E s \in Sandbox : ReapOrphan(s)
          PROVE  PromiseInv' /\ PromiseStep
  <2>1. OwnerType /\ MakeInv /\ UNCHANGED <<services, state, svc, call, vm>>
    BY <1>Audit, Zenon
       DEF OwnerInv, PromiseInv, ListDisk, ClaimOrphans, AuditEnds, ReapOrphan, mapVars, hostVars, volumeVars, vmVars
  <2>2. MakeInv' /\ RunInv'
    BY <1>Audit, <2>1, MakeShrinks, Zenon DEF PromiseInv, RunInv
  <2>3. CASE ClaimOrphans
    <3>1. Serving /\ Serving' /\ deleting' = deleting \cup Orphans
      BY <1>Audit, <2>3, Zenon DEF ClaimOrphans, Serving
    <3>2. ASSUME NEW s \in Sandbox, Entry(s)' # Entry(s)
          PROVE  <<Entry(s), Entry(s)'>> \in Promise!Changes
      <4>1. s \notin deleting /\ s \in deleting' /\ s \notin Tracked
        BY <1>Audit, <2>1, <3>1, <3>2 DEF Entry, Tracked, Orphans
      <4> QED BY <1>Audit, <4>1, Zenon DEF Entry, Promise!Changes
    <3> QED BY <1>Audit, <2>1, <2>2, <3>1, <3>2, EntryServes, Zenon DEF PromiseInv, Creates
  <2>4. CASE ListDisk \/ \E s \in Sandbox : ReapOrphan(s)
    <3>1. Serving /\ Serving' /\ UNCHANGED deleting
      BY <1>Audit, <2>1, <2>4 DEF ListDisk, ReapOrphan, ReapNext, Serving, OwnerType, mapVars
    <3> QED BY <1>Audit, <2>1, <2>2, <3>1, EntrySame, Zenon DEF PromiseInv, mapVars
  <2>5. CASE AuditEnds
    <3>1. Serving' /\ UNCHANGED deleting
      BY <1>Audit, <2>1, <2>5, Zenon DEF AuditEnds, Serving, OwnerType, mapVars
    <3>2. CASE Serving
      BY <1>Audit, <2>1, <2>2, <3>1, <3>2, EntrySame, Zenon DEF PromiseInv, mapVars
    <3>3. CASE ~Serving
      <4>1. UNCHANGED [s \in Sandbox |-> Entry(s)]
        BY <1>Audit, <2>1, <3>1, Zenon DEF Entry, Tracked
      <4>2. Serving' = TRUE
        BY <1>Audit, <3>1 DEF Serving
      <4>3. UNCHANGED Creating
        BY <1>Audit, <2>1, Zenon DEF Creating, BeingCreated, Tracked
      <4>4. Promise!Ready
        BY <1>Audit, <3>3, <4>1, <4>2, <4>3, Zenon DEF Promise!Ready, Entry, Creating
      <4> QED BY <1>Audit, <2>2, <4>4, Zenon DEF PromiseStep, Promise!Next, PromiseInv
    <3> QED BY <1>Audit, <3>2, <3>3, Zenon
  <2> QED BY <1>Audit, <2>3, <2>4, <2>5, Zenon
<1>Recover. ASSUME NEW s \in Sandbox, Recover(s)
            PROVE  PromiseInv' /\ PromiseStep
  <2>1. /\ audit.pc = "recover" /\ audit'.pc = "recover" /\ services[s] = NoService /\ deleting = {}
        /\ (\A c \in Call : call[c] = Idle) /\ UNCHANGED <<deleting, call, vm>>
    BY <1>Recover, RecoverEffect, Zenon
  <2>2. OwnerType /\ MakeInv /\ ~Serving /\ ~Serving'
    BY <1>Recover, <2>1, Zenon DEF OwnerInv, PromiseInv, Serving
  <2>3. CASE UNCHANGED <<services, state, svc>>
    <3>1. MakeInv' /\ RunInv'
      BY <1>Recover, <2>1, <2>2, <2>3, MakeShrinks, Zenon DEF PromiseInv, RunInv
    <3> QED BY <1>Recover, <2>1, <2>2, <2>3, <3>1, EntrySame, Zenon DEF PromiseInv, mapVars
  <2>4. CASE ~UNCHANGED <<services, state, svc>>
    <3>1. PICK v \in Service :
              /\ Free(v)
              /\ services'[s] = v /\ \A t \in Sandbox : t # s => services'[t] = services[t]
              /\ svc'[v].pc = "idle" /\ svc'[v].id = s /\ svc'[v].vm
              /\ \A w \in Service : w # v => svc'[w] = svc[w]
      BY <1>Recover, <2>4, RecoverEffect, Zenon
    <3>2. PICK st \in Sampled(s) : state' = [state EXCEPT ![s] = st]
      BY <1>Recover, <2>4, RecoverEffect, Zenon
    <3>3. vm[s] # "none"
      BY <1>Recover, <2>4, RecoverEffect, Zenon
    <3>4. /\ state'[s] = st /\ \A t \in Sandbox : t # s => state'[t] = state[t]
          /\ st \in Promise!Live /\ (st = "running" => vm[s] # "booting")
      BY <1>Recover, <3>2, <3>3 DEF HostType, Sampled, VM, Promise!Live
    <3>5. \A t \in Sandbox : services[t] # v /\ (services[t] # NoService => services[t] \in Service)
      BY <1>Recover, <2>2, <3>1, Zenon DEF Free, OwnerType
    <3>6. RefInv'
      BY <1>Recover, <2>1, <2>2, <3>1, <3>5 DEF MakeInv, RefInv
    <3>7. MakeInv'
      BY <1>Recover, <2>1, <3>6, Zenon DEF MakeInv, CreateInv, Pending, Creates
    <3>8. RunInv'
      BY <1>Recover, <2>1, <3>1, <3>4 DEF PromiseInv, RunInv
    <3>9. \A t \in Sandbox : Entry(t)' # Entry(t) => t = s
      BY <1>Recover, <2>1, <3>1, <3>4, Zenon DEF Entry, Tracked
    <3>10. Entry(s) = "none" /\ Entry(s)' = st
      BY <1>Recover, <2>1, <3>1, <3>4, ManagerAssumption DEF Entry, Tracked
    <3>11. \A t \in Sandbox : Entry(t)' # Entry(t) =>
               <<Entry(t), Entry(t)'>> \in ({"none"} \X Promise!Live)
                                           \cup (Promise!Live \X (Promise!Live \cup {"dead"}))
      BY <1>Recover, <3>4, <3>9, <3>10, Zenon
    <3> QED BY <1>Recover, <2>1, <2>2, <3>7, <3>8, <3>11, EntryRecovers, Zenon DEF PromiseInv
  <2> QED BY <1>Recover, <2>3, <2>4, Zenon
<1>Restart. ASSUME WorkerRestarts
            PROVE  PromiseInv' /\ PromiseStep
  <2>1. /\ \A c \in Call : call'[c] = Idle
        /\ \A s \in Sandbox : services'[s] = NoService
        /\ deleting' = {} /\ audit'.pc = "recover"
    BY <1>Restart DEF WorkerRestarts
  <2>2. PromiseInv'
    BY <1>Restart, <2>1, Zenon DEF PromiseInv, MakeInv, RefInv, RunInv, CreateInv, Pending, Creates
  <2>3. [s \in Sandbox |-> Entry(s)]' = [s \in Sandbox |-> "none"]
    BY <1>Restart, <2>1, Zenon DEF Entry, Tracked
  <2>4. Serving' = FALSE
    BY <1>Restart, <2>1, Zenon DEF Serving
  <2>5. Creating' = {}
    BY <1>Restart, <2>1, Zenon DEF Creating, Tracked
  <2> QED BY <1>Restart, <2>2, <2>3, <2>4, <2>5, Zenon
          DEF PromiseStep, Promise!Next, Promise!Restart, Entry, Creating
<1>1. ASSUME NEW s \in Sandbox, VMBoots(s) \/ VMDies(s)
      PROVE  PromiseInv' /\ PromiseStep
  <2>1. OwnerType /\ MakeInv /\ UNCHANGED <<services, deleting, state, svc, call, audit>>
    BY <1>1, Zenon DEF OwnerInv, PromiseInv, VMBoots, VMDies, mapVars
  <2>2. \A t \in Sandbox : vm'[t] = "booting" => vm[t] = "booting"
    BY <1>1 DEF VMBoots, VMDies, EndsVM, HostType
  <2>3. MakeInv' /\ RunInv'
    BY <2>1, <2>2, MakeShrinks, Zenon DEF PromiseInv, RunInv
  <2>4. Serving' = Serving
    BY <2>1 DEF Serving
  <2> QED BY <2>1, <2>3, <2>4, EntrySame, Zenon DEF PromiseInv, mapVars
<1>2. CASE UNCHANGED vars \/ \E n \in Capacities : SetCapacity(n)
  <2>1. OwnerType /\ MakeInv /\ UNCHANGED <<services, deleting, state, svc, call, audit, vm>>
    BY <1>2, Zenon DEF OwnerInv, PromiseInv, SetCapacity, vars, mapVars, hostVars, volumeVars, vmVars
  <2>2. MakeInv' /\ RunInv'
    BY <2>1, MakeShrinks, Zenon DEF PromiseInv, RunInv
  <2>3. Serving' = Serving
    BY <2>1, Zenon DEF Serving
  <2> QED BY <2>1, <2>2, <2>3, EntrySame, Zenon DEF PromiseInv, mapVars
<1> QED BY <1>1, <1>2, <1>Actor, <1>Watch, <1>Create, <1>Ask, <1>Take, <1>Gone,
           <1>Return, <1>Reap, <1>Liveness, <1>Audit, <1>Recover, <1>Restart
        DEF Next, MainStep

LEMMA PromiseInvariant == Spec => []PromiseInv
<1>1. Init => PromiseInv
  BY DEF Init, PromiseInv, MakeInv, RefInv, RunInv, CreateInv, Pending, Creates
<1>2. OwnerInv /\ HostType /\ PromiseInv /\ [Next]_vars => PromiseInv'
  BY PromiseKept, Zenon
<1> QED BY <1>1, <1>2, OwnerInvariant, PTL DEF Spec

(* The worker keeps its promise: whatever requests, failures, panics,      *)
(* audits and restarts come, the inventory changes only as HostedSandboxes *)
(* allows.                                                                 *)
THEOREM ManagerKeepsPromise == Spec => KeepsPromise
<1>1. Init => Promise!Init
  BY DEF Init, Promise!Init, Tracked, Serving, BeingCreated
<1>2. OwnerInv /\ HostType /\ PromiseInv /\ [Next]_vars
          => [Promise!Next]_(Promise!vars)
  BY PromiseKept, Zenon DEF PromiseStep, Promise!vars, Entry, Creating
<1> QED BY <1>1, <1>2, OwnerInvariant, PromiseInvariant, PTL DEF Spec, KeepsPromise, Promise!Spec

-----------------------------------------------------------------------------
(* Nothing is left behind, when teardowns work and no actor panics.        *)

(* The directories of sandboxes whose device can be removed.               *)
Left == dir \ stuck

(* The VM is gone, or going.                                               *)
Over(s) == vm[s] = "none" \/ s \in dying

(* Who answers for a directory: the map, a removal, or the recovery.       *)
Kept(s) == services[s] # NoService \/ s \in deleting \/ (audit.pc = "recover" /\ MainClaims(s))

(* What an actor has yet to create, and what it has torn down.             *)
ActorGone(v) ==
    /\ svc[v].pc = "newVM" \/ (svc[v].pc = "idle" /\ ~svc[v].vm) => svc[v].id \notin Left
    /\ svc[v].pc = "volume" => svc[v].id \notin volume \ stuck
    /\ svc[v].pc = "spawn" => svc[v].id \notin stuck
    /\ svc[v].pc = "cleanup" => Over(svc[v].id)
    /\ svc[v].pc \in Busy \ {"newVM"} => svc[v].vm

(* A Remove that was answered, or whose actor is gone.                     *)
Removed(c) ==
    /\ call[c] # Idle
    /\ call[c].kind = "remove"
    /\ call[c].pc \in {"replied", "reap"} \/ svc[call[c].svc].pc = "exited"
CallGone(c) == Removed(c) => call[c].id \notin Left

ReapGone(r) ==
    /\ reap[r].pc = "volume" => Over(reap[r].id)
    /\ reap[r].pc \in {"over", "failed"} => reap[r].id \notin Left

(* A device without a live table is in nobody's use.                       *)
StuckInv == \A s \in stuck : s \in volume /\ vm[s] = "none"

GoneInv ==
    /\ volume \subseteq dir
    /\ StuckInv
    /\ \A s \in Left : Kept(s)
    /\ \A v \in Service : ActorGone(v)
    /\ \A s \in Sandbox : services[s] # NoService /\ svc[services[s]].pc = "exited" => s \notin Left
    /\ \A c \in Call : CallGone(c)
    /\ \A r \in Reaper : ReapGone(r)
    /\ audit.pc = "reap" => \A s \in Sandbox : MainClaims(s) => s \notin Left
    /\ DeadIsOver

(* What the proofs below start from.                                       *)
Calm ==
    /\ Faults = {}
    /\ OwnerInv /\ OwnerInv'
    /\ HostType /\ HostType'
    /\ HostInv
    /\ PromiseInv /\ PromiseInv'
    /\ GoneInv

(* A step that adds nothing to the host keeps GoneInv, if whoever moves on *)
(* has left what it should.                                                *)
LEMMA GoneFrame ==
    ASSUME Calm, dir' \subseteq dir, volume' \subseteq volume, volume' \subseteq dir',
           \A s \in Sandbox : (vm'[s] # "none" => vm[s] # "none") /\ (Over(s) => Over(s)'), stuck' = stuck, stuck \subseteq volume',
           \A s \in Left' : Kept(s)',
           \A v \in Service : \/ svc'[v] = svc[v]
                              \/ ActorGone(v)' /\ (svc'[v].pc = "exited" => svc'[v].id \notin Left'),
           \A s \in Sandbox : \/ services'[s] \in {services[s], NoService}
                              \/ svc'[services'[s]].pc # "exited",
           \A c \in Call : call'[c] \in {call[c], Idle} \/ CallGone(c)',
           \A r \in Reaper : reap'[r] \in {reap[r], NoReap} \/ ReapGone(r)',
           audit'.pc = "reap" =>
               \A s \in Sandbox : MainClaims(s)' => s \notin Left' \/ (audit.pc = "reap" /\ MainClaims(s)),
           \A s \in Sandbox : services'[s] # NoService /\ state'[s] = "dead" =>
               Over(s)' \/ (services[s] # NoService /\ state[s] = "dead")
    PROVE  GoneInv'
<1>0. OwnerType /\ OwnerType' /\ RefInv' /\ GoneInv /\ HostType
  BY Zenon DEF Calm, OwnerInv, PromiseInv, MakeInv
<1>Left. Left' \subseteq Left /\ StuckInv'
  BY <1>0 DEF Left, StuckInv, GoneInv, HostType
<1>1. ASSUME NEW v \in Service
      PROVE  ActorGone(v)'
  <2>1. CASE svc'[v] = svc[v]
    <3>1. ActorGone(v) /\ (svc[v].pc = "cleanup" => svc[v].id \in Sandbox)
      BY <1>0, ActorFields, Zenon DEF GoneInv, Live
    <3>2. svc[v].pc = "cleanup" => vm'[svc[v].id] = "none" \/ svc[v].id \in dying'
      BY <3>1, Zenon DEF ActorGone, Over
    <3> QED BY <1>Left, <2>1, <3>1, <3>2 DEF ActorGone, Over
  <2> QED BY <2>1, Zenon
<1>2. ASSUME NEW v \in Service, svc'[v].pc = "exited"
      PROVE  svc[v].pc = "exited" \/ svc'[v].id \notin Left'
  BY <1>2, Zenon
<1>3. ASSUME NEW s \in Sandbox, services'[s] # NoService, svc'[services'[s]].pc = "exited"
      PROVE  s \notin Left'
  <2>1. services'[s] = services[s] /\ services[s] \in Service /\ svc'[services[s]].id = s
    BY <1>0, <1>3 DEF OwnerType, RefInv
  <2>2. svc[services[s]].pc = "exited" => s \notin Left
    BY <1>0, <1>3, <2>1, Zenon DEF GoneInv
  <2> QED BY <1>Left, <1>2, <1>3, <2>1, <2>2, Zenon
<1>4. ASSUME NEW c \in Call
      PROVE  CallGone(c)'
  <2>1. CASE call'[c] = call[c] /\ call[c] # Idle
    <3>1. CallGone(c) /\ call[c].svc \in Service /\ svc'[call[c].svc].id = call[c].id
      BY <1>0, <2>1, CallFields, Zenon DEF GoneInv, RefInv
    <3>2. svc'[call[c].svc].pc = "exited" => svc[call[c].svc].pc = "exited" \/ call[c].id \notin Left'
      BY <1>2, <3>1, Zenon
    <3> QED BY <1>Left, <2>1, <3>1, <3>2 DEF CallGone, Removed
  <2>2. CASE call'[c] = Idle
    BY <2>2, Zenon DEF CallGone, Removed
  <2> QED BY <2>1, <2>2
<1>5. ASSUME NEW r \in Reaper
      PROVE  ReapGone(r)'
  <2>1. CASE reap'[r] = reap[r] /\ reap[r] # NoReap
    <3>1. ReapGone(r) /\ reap[r].id \in Sandbox
      BY <1>0, <2>1, ReapFields, Zenon DEF GoneInv
    <3>2. reap[r].pc = "volume" => vm'[reap[r].id] = "none" \/ reap[r].id \in dying'
      BY <3>1, Zenon DEF ReapGone, Over
    <3> QED BY <1>Left, <2>1, <3>1, <3>2 DEF ReapGone, Over
  <2>2. CASE reap'[r] = NoReap
    BY <2>2 DEF ReapGone, NoReap
  <2> QED BY <2>1, <2>2
<1>6. audit'.pc = "reap" => \A s \in Sandbox : MainClaims(s)' => s \notin Left'
  BY <1>0, <1>Left, Zenon DEF GoneInv
<1>7. DeadIsOver'
  BY <1>0 DEF GoneInv, DeadIsOver, Tracked, Over
<1> QED BY <1>Left, <1>1, <1>3, <1>4, <1>5, <1>6, <1>7, Zenon DEF GoneInv

(* What that asks of the host, when it does not change, and when a VM ends. *)
LEMMA HostStays ==
    ASSUME Calm, UNCHANGED <<dir, volume, stuck, vm, dying>>
    PROVE  /\ dir' \subseteq dir /\ volume' \subseteq volume /\ volume' \subseteq dir' /\ Left' = Left
           /\ \A s \in Sandbox : (vm'[s] # "none" => vm[s] # "none") /\ (Over(s) => Over(s)')
           /\ stuck' = stuck /\ stuck \subseteq volume'
  BY DEF Calm, GoneInv, StuckInv, Left, Over

LEMMA OverStays ==
    ASSUME HostType, NEW s \in Sandbox, EndsVM(s)
    PROVE  /\ Over(s)'
           /\ \A t \in Sandbox : (vm'[t] # "none" => vm[t] # "none") /\ (Over(t) => Over(t)')
  BY DEF HostType, EndsVM, Over

(* A live actor is alone with its sandbox.                                 *)
LEMMA GoneAlone ==
    ASSUME OwnerInv, NEW v \in Service, Live(v)
    PROVE  LET s == svc[v].id IN
           /\ s \in Sandbox /\ Kept(s)
           /\ \A w \in Service : w # v /\ Live(w) => svc[w].id # s
           /\ services[s] \in {v, NoService}
           /\ \A c \in Call : Removes(c, s) => call[c].pc \in {"send", "wait"} /\ call[c].svc = v
           /\ \A r \in Reaper : reap[r] # NoReap => reap[r].id # s
           /\ ~(audit.pc = "reap" /\ MainClaims(s))
<1> DEFINE s == svc[v].id
<1>1. s \in Sandbox /\ ActorInv(v) /\ OwnerType
  BY ActorFields, Zenon DEF OwnerInv
<1>2. /\ \A w \in Service : w # v /\ Live(w) => svc[w].id # s
      /\ \A r \in Reaper : reap[r] # NoReap => reap[r].id # s
  BY Exclusive, Zenon
<1>3. services[s] # v =>
          /\ s \in deleting
          /\ \E c \in Call : Removes(c, s) /\ call[c].pc \in {"send", "wait"} /\ call[c].svc = v
  BY <1>1 DEF ActorInv, OwnerInv, CallInv, Removes
<1>4. services[s] = v => s \notin deleting
  BY <1>1, ManagerAssumption, Zenon DEF OwnerInv, MapInv
<1>5. \A c \in Call : Removes(c, s) => s \in deleting
  BY Zenon DEF OwnerInv, CallInv, Removes
<1>6. services[s] \in {v, NoService}
  BY <1>1, <1>3, Zenon DEF OwnerInv, MapInv
<1>7. \A c \in Call : Removes(c, s) => call[c].pc \in {"send", "wait"} /\ call[c].svc = v
  BY <1>1, <1>3, <1>4, <1>5, Zenon DEF OwnerInv, CallInv
<1>8. ~(audit.pc = "reap" /\ MainClaims(s))
  BY <1>1, <1>3, <1>4, Zenon DEF OwnerInv, MainInv
<1>9. Kept(s)
  BY <1>1, <1>3, ManagerAssumption, Zenon DEF Kept
<1> QED BY <1>1, <1>2, <1>6, <1>7, <1>8, <1>9, Zenon

(* The request an actor works for, and its answer.                         *)
LEMMA ActorRequest ==
    ASSUME OwnerInv, PromiseInv, NEW v \in Service, AtWork(v)
    PROVE  /\ svc[v].caller \in Call
           /\ call[svc[v].caller] \in Request /\ call[svc[v].caller] # Idle
           /\ call[svc[v].caller].kind \in Commands(svc[v].pc)
           /\ call[svc[v].caller].id = svc[v].id
<1> DEFINE c == svc[v].caller
<1>1. c \in Call /\ call[c] # Idle /\ call[c].svc = v /\ call[c].kind \in Commands(svc[v].pc)
  BY Zenon DEF OwnerInv, ActorInv, AtWork
<1>2. call[c] \in Request
  BY <1>1, CallFields, Zenon DEF OwnerInv
<1>3. call[c].id = svc[v].id
  BY <1>1, Zenon DEF PromiseInv, MakeInv, RefInv
<1> QED BY <1>1, <1>2, <1>3, Zenon

LEMMA ReplyGone ==
    ASSUME OwnerInv, PromiseInv, NEW v \in Service, AtWork(v), NEW p, NEW reply, Replies(v, p, reply),
           Commands(svc[v].pc) = {"create", "remove"} => svc[v].id \notin Left'
    PROVE  \A c \in Call : call'[c] \in {call[c], Idle} \/ CallGone(c)'
<1>1. PICK c \in Call : /\ c = svc[v].caller /\ call[c] \in Request /\ call[c].id = svc[v].id
                        /\ call[c].kind \in Commands(svc[v].pc)
  BY ActorRequest, Zenon
<1>2. call' = [call EXCEPT ![c].pc = "replied", ![c].reply = reply] /\ OwnerType
  BY <1>1, Zenon DEF Replies, OwnerInv
<1>3. /\ call'[c].kind = call[c].kind /\ call'[c].id = call[c].id
      /\ \A d \in Call : d # c => call'[d] = call[d]
  BY <1>1, <1>2, Zenon DEF OwnerType, Request
<1>4. call[c].kind = "remove" => Commands(svc[v].pc) = {"create", "remove"}
  BY <1>1 DEF Commands
<1>5. CallGone(c)'
  BY <1>1, <1>3, <1>4, Zenon DEF CallGone, Removed
<1> QED BY <1>3, <1>5, Zenon

(* The steps of an actor that add nothing to the host.                     *)
LEMMA ActorGoneFrame ==
    ASSUME Calm, NEW v \in Service, ActorStep(v),
           dir' \subseteq dir, volume' \subseteq volume, volume' \subseteq dir',
           \A s \in Sandbox : (vm'[s] # "none" => vm[s] # "none") /\ (Over(s) => Over(s)'), stuck' = stuck, stuck \subseteq volume',
           \A w \in Service : w # v => svc'[w] = svc[w],
           ActorGone(v)', svc'[v].pc = "exited" => svc'[v].id \notin Left',
           \A c \in Call : call'[c] \in {call[c], Idle} \/ CallGone(c)'
    PROVE  GoneInv'
<1>1. AtWork(v) /\ UNCHANGED <<services, deleting, reap, audit>>
  BY ActorMoves, Zenon DEF Calm
<1>2. \A s \in Left' : Kept(s)'
  BY <1>1, Zenon DEF Calm, GoneInv, Kept, MainClaims, Left
<1>3. svc[v].id \in Sandbox
  BY <1>1, ActorFields, Zenon DEF Calm, OwnerInv, AtWork
<1>4. \A s \in Sandbox : state'[s] = "dead" => state[s] = "dead"
  <2>1. CASE UNCHANGED state
    BY <2>1, Zenon
  <2>2. CASE \E st \in {"running", "unknown"} : Reports(v, st)
    BY <1>3, <2>2 DEF Reports, Calm, HostType
  <2> QED BY <2>1, <2>2, ActorReports, Zenon DEF Calm
<1>5. \A w \in Service : \/ svc'[w] = svc[w]
                         \/ ActorGone(w)' /\ (svc'[w].pc = "exited" => svc'[w].id \notin Left')
  BY Zenon
<1>6. \A s \in Sandbox : services'[s] = services[s]
  BY <1>1, Zenon
<1>7. \A r \in Reaper : reap'[r] = reap[r]
  BY <1>1, Zenon
<1>8. audit'.pc = "reap" => \A s \in Sandbox : MainClaims(s)' => audit.pc = "reap" /\ MainClaims(s)
  BY <1>1, Zenon DEF MainClaims
<1> QED BY <1>2, <1>4, <1>5, <1>6, <1>7, <1>8, GoneFrame

(* What an actor finds, by the step it is at.                              *)
LEMMA ActorFinds ==
    ASSUME Calm, NEW v \in Service, AtWork(v)
    PROVE  /\ svc[v].id \in Sandbox
           /\ svc[v].pc = "newVM" => svc[v].id \notin Left
           /\ svc[v].pc = "volume" => svc[v].id \in dir /\ vm[svc[v].id] = "none"
           /\ svc[v].pc = "spawn" => /\ svc[v].id \in volume /\ vm[svc[v].id] = "none"
                                     /\ svc[v].id \notin stuck
           /\ svc[v].pc = "cleanup" => Over(svc[v].id)
           /\ svc[v].pc = "rmdir" => svc[v].id \notin volume
           /\ svc[v].pc # "newVM" => svc[v].vm
           /\ volume \subseteq dir /\ stuck \subseteq volume
           /\ \A s \in Sandbox : vm[s] # "none" => s \in volume \ stuck
<1>1. svc[v].id \in Sandbox /\ svc[v].pc \in Busy
  BY ActorFields, Zenon DEF Calm, OwnerInv, AtWork, Live
<1>2. ActorGone(v) /\ StepInv(v) /\ volume \subseteq dir /\ StuckInv
  BY Zenon DEF Calm, GoneInv, HostInv
<1>3. \A s \in Sandbox : vm[s] # "none" => s \in volume \ stuck
  BY <1>2 DEF Calm, HostInv, StuckInv
<1> QED BY <1>1, <1>2, <1>3 DEF ActorGone, StepInv, StuckInv

(* A reaper goes on to another step, with its ID.                          *)
LEMMA ReapGotoEffect ==
    ASSUME OwnerType, NEW r \in Reaper, reap[r].pc # "none", NEW p, ReapGoto(r, p)
    PROVE  /\ reap'[r].pc = p /\ reap'[r].id = reap[r].id /\ reap[r].id \in Sandbox
           /\ \A q \in Reaper : q # r => reap'[q] = reap[q]
           /\ (p # "none" => \A s \in Sandbox : reap'[Main] # NoReap /\ reap'[Main].id = s <=>
                                                reap[Main] # NoReap /\ reap[Main].id = s)
<1>1. reap[r] # NoReap /\ reap[r] \in Reaping /\ reap[r].id \in Sandbox
  BY ReapFields, Zenon DEF NoReap
<1>2. /\ reap'[r].pc = p /\ reap'[r].id = reap[r].id
      /\ \A q \in Reaper : q # r => reap'[q] = reap[q]
  BY <1>1 DEF ReapGoto, OwnerType, Reaping
<1>3. Main \in Reaper
  BY Zenon DEF Reaper
<1>4. p # "none" => reap'[r] # NoReap
  BY <1>2 DEF NoReap
<1> QED BY <1>1, <1>2, <1>3, <1>4, Zenon

LEMMA GoneKept ==
    ASSUME Calm, [Next]_vars
    PROVE  GoneInv'
<1>NewVM. ASSUME NEW v \in Service, NewVM(v)
          PROVE  GoneInv'
  <2>0. /\ AtWork(v) /\ svc[v].pc = "newVM" /\ OwnerType /\ Live(v) /\ OwnerInv /\ PromiseInv
        /\ UNCHANGED <<services, deleting, state, reap, audit, volume, stuck, vm, dying>>
    BY <1>NewVM, Zenon DEF NewVM, AtWork, Live, Calm, OwnerInv, mapVars, volumeVars, vmVars
  <2>1. /\ svc[v].id \in Sandbox /\ svc[v].id \notin Left /\ volume \subseteq dir
    BY <1>NewVM, <2>0, ActorFinds, Zenon
  <2>2. CASE Replies(v, "exited", "failed") /\ UNCHANGED dir
    <3>1. /\ svc'[v].pc = "exited" /\ svc'[v].id = svc[v].id
          /\ \A w \in Service : w # v => svc'[w] = svc[w]
      BY <1>NewVM, <2>0, <2>2, ActorEffect, Zenon
    <3>2. ActorGone(v)'
      BY <1>NewVM, <3>1 DEF ActorGone, Busy
    <3>0. /\ dir' \subseteq dir /\ volume' \subseteq volume /\ volume' \subseteq dir' /\ Left' = Left
          /\ \A s \in Sandbox : (vm'[s] # "none" => vm[s] # "none") /\ (Over(s) => Over(s)')
          /\ stuck' = stuck /\ stuck \subseteq volume'
      BY <1>NewVM, <2>0, <2>2, HostStays, Zenon
    <3>3. \A c \in Call : call'[c] \in {call[c], Idle} \/ CallGone(c)'
      BY <1>NewVM, <2>0, <2>1, <2>2, <3>0, ReplyGone, Zenon
    <3>4. ActorStep(v)
      BY <1>NewVM, Zenon DEF ActorStep
    <3> QED BY <1>NewVM, <2>0, <2>1, <2>2, <3>0, <3>1, <3>2, <3>3, <3>4, ActorGoneFrame, Zenon
  <2>3. CASE /\ dir' = dir \cup {svc[v].id}
             /\ svc' = [svc EXCEPT ![v].pc = "volume", ![v].vm = TRUE]
             /\ UNCHANGED call
    <3>1. svc[v] \in Actor /\ svc \in [Service -> {Off} \cup Actor]
      BY <1>NewVM, <2>0, ActorFields, Zenon DEF OwnerType
    <3>2. /\ svc'[v].pc = "volume" /\ svc'[v].id = svc[v].id /\ svc'[v].vm
          /\ \A w \in Service : w # v => svc'[w] = svc[w]
      BY <1>NewVM, <2>3, <3>1, Zenon DEF Actor
    <3> DEFINE s == svc[v].id
    <3>3. /\ Kept(s)
          /\ \A w \in Service : w # v /\ Live(w) => svc[w].id # s
          /\ services[s] \in {v, NoService}
          /\ \A c \in Call : Removes(c, s) => call[c].pc \in {"send", "wait"} /\ call[c].svc = v
          /\ \A r \in Reaper : reap[r] # NoReap => reap[r].id # s
          /\ ~(audit.pc = "reap" /\ MainClaims(s))
      BY <1>NewVM, <2>0, GoneAlone, Zenon
    <3> HIDE DEF s
    <3>4. GoneInv /\ dir' = dir \cup {s} /\ Left' \subseteq Left \cup {s}
      BY <1>NewVM, <2>0, <2>3 DEF Calm, s, Left
    <3>5. \A t \in Left' : Kept(t)'
      BY <1>NewVM, <2>0, <3>3, <3>4 DEF GoneInv, Kept, MainClaims
    <3>6. ASSUME NEW w \in Service
          PROVE  ActorGone(w)'
      <4>1. CASE w = v
        BY <1>NewVM, <2>0, <2>1, <3>2, <4>1 DEF ActorGone, Left
      <4>2. CASE w # v
        <5>1. svc'[w] = svc[w] /\ ActorGone(w)
          BY <1>NewVM, <3>2, <3>4, <4>2, Zenon DEF GoneInv
        <5>2. svc[w].pc \in {"newVM", "idle"} => svc[w].id # s
          BY <1>NewVM, <3>3, <4>2, Zenon DEF Live
        <5> QED BY <1>NewVM, <2>0, <3>4, <5>1, <5>2 DEF ActorGone, Over
      <4> QED BY <1>NewVM, <4>1, <4>2, Zenon
    <3>7. ASSUME NEW t \in Sandbox, services'[t] # NoService, svc'[services'[t]].pc = "exited"
          PROVE  t \notin Left'
      <4>1. services[t] \in Service /\ services[t] # v
        BY <1>NewVM, <2>0, <3>2, <3>7 DEF OwnerType
      <4>2. t \notin Left
        BY <1>NewVM, <2>0, <3>2, <3>4, <3>7, <4>1 DEF GoneInv
      <4> QED BY <1>NewVM, <2>0, <3>3, <3>4, <3>7, <4>1, <4>2, Zenon
    <3>8. ASSUME NEW c \in Call
          PROVE  CallGone(c)'
      <4> SUFFICES ASSUME Removed(c)'
                   PROVE  call[c].id \notin Left'
        BY <1>NewVM, <2>3, Zenon DEF CallGone
      <4>0. call[c] # Idle /\ call[c].svc \in Service /\ call[c].kind = "remove"
        BY <1>NewVM, <2>0, <2>3, CallFields, Zenon DEF Removed
      <4>1. Removed(c)
        BY <1>NewVM, <2>0, <2>3, <3>2, <4>0, Zenon DEF Removed
      <4>2. call[c].id \notin Left
        BY <1>NewVM, <3>4, <4>1, Zenon DEF GoneInv, CallGone
      <4>3. call[c].id # s
        BY <1>NewVM, <2>0, <3>3, <4>0, <4>1 DEF Removed, Removes, Live
      <4> QED BY <1>NewVM, <3>4, <4>2, <4>3, Zenon
    <3>9. ASSUME NEW r \in Reaper
          PROVE  ReapGone(r)'
      <4>1. reap[r].pc \in {"over", "failed"} => reap[r].id # s
        BY <1>NewVM, <2>0, <3>3, ReapFields DEF NoReap
      <4> QED BY <1>NewVM, <2>0, <3>4, <4>1 DEF GoneInv, ReapGone, Over
    <3>10. audit'.pc = "reap" => \A t \in Sandbox : MainClaims(t)' => t \notin Left'
      BY <1>NewVM, <2>0, <3>3, <3>4 DEF GoneInv, MainClaims
    <3>11. volume' \subseteq dir' /\ StuckInv' /\ DeadIsOver'
      BY <1>NewVM, <2>0, <2>1, <3>4 DEF GoneInv, StuckInv, DeadIsOver, Tracked
    <3> QED BY <1>NewVM, <3>5, <3>6, <3>7, <3>8, <3>9, <3>10, <3>11, Zenon DEF GoneInv
  <2> QED BY <1>NewVM, <2>2, <2>3, Zenon DEF NewVM
<1>CreateVolume. ASSUME NEW v \in Service, CreateVolume(v)
                 PROVE  GoneInv'
  <2>0. /\ AtWork(v) /\ svc[v].pc = "volume" /\ OwnerType /\ Live(v) /\ OwnerInv /\ Faults = {}
        /\ UNCHANGED <<services, deleting, state, call, reap, audit, dir, vm, dying>>
    BY <1>CreateVolume, Zenon DEF CreateVolume, AtWork, Live, Calm, OwnerInv, Goto, Fails, mapVars, vmVars
  <2>1. /\ svc[v].id \in Sandbox /\ svc[v].id \in dir /\ vm[svc[v].id] = "none"
        /\ svc[v].vm /\ volume \subseteq dir /\ stuck \subseteq volume
    BY <1>CreateVolume, <2>0, ActorFinds
  <2>2. /\ svc'[v].id = svc[v].id /\ svc'[v].vm
        /\ \A w \in Service : w # v => svc'[w] = svc[w]
        /\ stuck' = stuck
        /\ \/ /\ svc'[v].pc = "spawn" /\ volume' = volume \cup {svc[v].id}
              /\ svc[v].id \notin volume
           \/ svc'[v].pc = "cleanup" /\ volume' = volume
    <3>1. ASSUME NEW p, Goto(v, p) \/ Fails(v, p)
          PROVE  /\ svc'[v].pc = p /\ svc'[v].id = svc[v].id /\ svc'[v].vm
                 /\ \A w \in Service : w # v => svc'[w] = svc[w]
      BY <1>CreateVolume, <2>0, <2>1, <3>1, ActorEffect, Zenon
    <3>2. CASE /\ svc[v].id \notin volume /\ volume' = volume \cup {svc[v].id} /\ UNCHANGED stuck
               /\ Goto(v, "spawn")
      BY <1>CreateVolume, <3>1, <3>2, Zenon
    <3>3. CASE UNCHANGED volumeVars /\ Fails(v, "cleanup")
      BY <1>CreateVolume, <3>1, <3>3, Zenon DEF volumeVars
    <3> QED BY <1>CreateVolume, <2>0, <3>2, <3>3 DEF CreateVolume
  <2>3. CASE svc'[v].pc = "cleanup" /\ volume' = volume
    <3>1. ActorGone(v)'
      BY <1>CreateVolume, <2>0, <2>1, <2>2, <2>3 DEF ActorGone, Over
    <3>0. \A s \in Sandbox : (vm'[s] # "none" => vm[s] # "none") /\ (Over(s) => Over(s)')
      BY <1>CreateVolume, <2>0 DEF Over
    <3>2. ActorStep(v)
      BY <1>CreateVolume, Zenon DEF ActorStep
    <3>3. \A c \in Call : call'[c] \in {call[c], Idle}
      BY <1>CreateVolume, <2>0, Zenon
    <3> QED BY <1>CreateVolume, <2>0, <2>1, <2>2, <2>3, <3>0, <3>1, <3>2, <3>3, ActorGoneFrame
  <2>4. CASE svc'[v].pc = "spawn" /\ volume' = volume \cup {svc[v].id} /\ svc[v].id \notin volume
    <3>0. GoneInv /\ Left' = Left
      BY <1>CreateVolume, <2>0, <2>2, Zenon DEF Calm, Left
    <3>1. \A w \in Service : w # v /\ Live(w) => svc[w].id # svc[v].id
      BY <1>CreateVolume, <2>0, GoneAlone, Zenon
    <3>2. ASSUME NEW w \in Service
          PROVE  ActorGone(w)'
      <4>1. CASE w = v
        BY <1>CreateVolume, <2>0, <2>1, <2>2, <2>4, <4>1 DEF ActorGone
      <4>2. CASE w # v
        <5>1. svc'[w] = svc[w] /\ ActorGone(w)
          BY <1>CreateVolume, <2>2, <3>0, <4>2, Zenon DEF GoneInv
        <5>2. svc[w].pc = "volume" => svc[w].id # svc[v].id
          BY <1>CreateVolume, <3>1, <4>2, Zenon DEF Live
        <5> QED BY <1>CreateVolume, <2>0, <2>2, <2>4, <3>0, <5>1, <5>2 DEF ActorGone, Over
      <4> QED BY <1>CreateVolume, <4>1, <4>2, Zenon
    <3>3. \A w \in Service : svc'[w].pc = "exited" => svc[w].pc = "exited"
      BY <1>CreateVolume, <2>2, <2>4
    <3>4. /\ \A s \in Sandbox : services[s] # NoService => services[s] \in Service
          /\ \A c \in Call : call[c] # Idle => call[c].svc \in Service
      BY <1>CreateVolume, <2>0, CallFields, Zenon DEF OwnerType
    <3>5. volume' \subseteq dir' /\ StuckInv' /\ \A s \in Left' : Kept(s)'
      BY <1>CreateVolume, <2>0, <2>1, <2>2, <2>4, <3>0 DEF GoneInv, StuckInv, Kept, MainClaims
    <3>6. \A s \in Sandbox : services'[s] # NoService /\ svc'[services'[s]].pc = "exited" => s \notin Left'
      BY <1>CreateVolume, <2>0, <3>0, <3>3, <3>4, Zenon DEF GoneInv
    <3>7. \A c \in Call : CallGone(c)'
      BY <1>CreateVolume, <2>0, <3>0, <3>3, <3>4, Zenon DEF GoneInv, CallGone, Removed
    <3>8. /\ \A r \in Reaper : ReapGone(r)'
          /\ audit'.pc = "reap" => \A s \in Sandbox : MainClaims(s)' => s \notin Left'
          /\ DeadIsOver'
      BY <1>CreateVolume, <2>0, <3>0, Zenon DEF GoneInv, ReapGone, MainClaims, DeadIsOver, Tracked, Over
    <3> QED BY <1>CreateVolume, <3>2, <3>5, <3>6, <3>7, <3>8, Zenon DEF GoneInv
  <2> QED BY <1>CreateVolume, <2>2, <2>3, <2>4, Zenon
<1>Spawn. ASSUME NEW v \in Service, Spawn(v)
          PROVE  GoneInv'
  <2>0. /\ AtWork(v) /\ svc[v].pc = "spawn" /\ OwnerType /\ Live(v) /\ OwnerInv /\ MakeInv
        /\ UNCHANGED <<services, deleting, state, call, reap, audit, dir, volume, stuck>>
    BY <1>Spawn, Zenon DEF Spawn, AtWork, Live, Calm, OwnerInv, PromiseInv, Goto, Fails, mapVars, volumeVars
  <2>1. /\ svc[v].id \in Sandbox /\ vm[svc[v].id] = "none" /\ svc[v].vm
        /\ volume \subseteq dir /\ stuck \subseteq volume /\ svc[v].id \notin stuck
    BY <1>Spawn, <2>0, ActorFinds
  <2>2. ASSUME NEW p, Goto(v, p) \/ Fails(v, p)
        PROVE  /\ svc'[v].pc = p /\ svc'[v].id = svc[v].id /\ svc'[v].vm
               /\ \A w \in Service : w # v => svc'[w] = svc[w]
    BY <1>Spawn, <2>0, <2>1, <2>2, ActorEffect, Zenon
  <2>3. CASE UNCHANGED <<vm, dying>> /\ Fails(v, "cleanup")
    <3>1. ActorGone(v)' /\ svc'[v].pc = "cleanup"
      BY <1>Spawn, <2>0, <2>1, <2>2, <2>3 DEF ActorGone, Over
    <3>0. \A s \in Sandbox : (vm'[s] # "none" => vm[s] # "none") /\ (Over(s) => Over(s)')
      BY <1>Spawn, <2>3 DEF Over
    <3>2. ActorStep(v)
      BY <1>Spawn, Zenon DEF ActorStep
    <3>3. \A c \in Call : call'[c] \in {call[c], Idle}
      BY <1>Spawn, <2>0, Zenon
    <3>4. \A w \in Service : w # v => svc'[w] = svc[w]
      BY <1>Spawn, <2>2, <2>3, Zenon
    <3> QED BY <1>Spawn, <2>0, <2>1, <2>3, <3>0, <3>1, <3>2, <3>3, <3>4, ActorGoneFrame
  <2>4. CASE /\ vm' = [vm EXCEPT ![svc[v].id] = "booting"]
             /\ \/ UNCHANGED dying /\ Goto(v, "boot")
                \/ dying' = dying \cup {svc[v].id} /\ Fails(v, "cleanup")
    <3>0. GoneInv /\ HostType /\ Left' = Left
      BY <1>Spawn, <2>0, Zenon DEF Calm, Left
    <3>1. /\ svc'[v].pc \in {"boot", "cleanup"} /\ svc'[v].id = svc[v].id /\ svc'[v].vm
          /\ svc'[v].pc = "cleanup" => svc[v].id \in dying'
          /\ \A w \in Service : w # v => svc'[w] = svc[w]
      <4>1. CASE UNCHANGED dying /\ Goto(v, "boot")
        BY <1>Spawn, <2>2, <4>1
      <4>2. CASE dying' = dying \cup {svc[v].id} /\ Fails(v, "cleanup")
        BY <1>Spawn, <2>2, <4>2
      <4> QED BY <1>Spawn, <2>4, <4>1, <4>2, Zenon
    <3>2. \A s \in Sandbox : s # svc[v].id => vm'[s] = vm[s] /\ (Over(s) => Over(s)')
      BY <1>Spawn, <2>1, <2>4, <3>0 DEF HostType, Over
    <3>3. /\ \A w \in Service : w # v /\ Live(w) => svc[w].id # svc[v].id
          /\ \A r \in Reaper : reap[r] # NoReap => reap[r].id # svc[v].id
      BY <1>Spawn, <2>0, GoneAlone, Zenon
    <3>4. ASSUME NEW w \in Service
          PROVE  ActorGone(w)'
      <4>1. CASE w = v
        BY <1>Spawn, <2>0, <3>1, <4>1 DEF ActorGone, Over
      <4>2. CASE w # v
        <5>1. svc'[w] = svc[w] /\ ActorGone(w)
          BY <1>Spawn, <3>0, <3>1, <4>2, Zenon DEF GoneInv
        <5>2. svc[w].pc = "cleanup" => svc[w].id # svc[v].id /\ svc[w].id \in Sandbox
          BY <1>Spawn, <2>0, <3>3, <4>2, ActorFields, Zenon DEF Live
        <5>3. svc[w].pc = "cleanup" => vm'[svc[w].id] = "none" \/ svc[w].id \in dying'
          BY <1>Spawn, <3>2, <5>1, <5>2, Zenon DEF ActorGone, Over
        <5> QED BY <1>Spawn, <2>0, <3>0, <5>1, <5>3 DEF ActorGone, Over
      <4> QED BY <1>Spawn, <4>1, <4>2, Zenon
    <3>5. ASSUME NEW r \in Reaper
          PROVE  ReapGone(r)'
      <4>1. reap[r].pc = "volume" => reap[r].id # svc[v].id /\ reap[r].id \in Sandbox
        BY <1>Spawn, <2>0, <3>3, ReapFields DEF NoReap
      <4>2. ReapGone(r)
        BY <1>Spawn, <3>0, Zenon DEF GoneInv
      <4>3. reap[r].pc = "volume" => vm'[reap[r].id] = "none" \/ reap[r].id \in dying'
        BY <1>Spawn, <3>2, <4>1, <4>2, Zenon DEF ReapGone, Over
      <4> QED BY <1>Spawn, <2>0, <3>0, <4>2, <4>3 DEF ReapGone, Over
    <3>6. \A w \in Service : svc'[w].pc = "exited" => svc[w].pc = "exited"
      BY <1>Spawn, <3>1
    <3>7. /\ \A s \in Sandbox : services[s] # NoService => services[s] \in Service
          /\ \A c \in Call : call[c] # Idle => call[c].svc \in Service
      BY <1>Spawn, <2>0, CallFields, Zenon DEF OwnerType
    <3>8. volume' \subseteq dir' /\ \A s \in Left' : Kept(s)'
      BY <1>Spawn, <2>0, <3>0, Zenon DEF GoneInv, Kept, MainClaims
    <3>13. StuckInv'
      BY <1>Spawn, <2>0, <2>1, <3>0, <3>2 DEF GoneInv, StuckInv, HostType
    <3>9. \A s \in Sandbox : services'[s] # NoService /\ svc'[services'[s]].pc = "exited" => s \notin Left'
      BY <1>Spawn, <2>0, <3>0, <3>6, <3>7, Zenon DEF GoneInv
    <3>10. \A c \in Call : CallGone(c)'
      BY <1>Spawn, <2>0, <3>0, <3>6, <3>7, Zenon DEF GoneInv, CallGone, Removed
    <3>11. audit'.pc = "reap" => \A s \in Sandbox : MainClaims(s)' => s \notin Left'
      BY <1>Spawn, <2>0, <3>0, Zenon DEF GoneInv, MainClaims
    <3>12. DeadIsOver'
      <4>1. services[svc[v].id] # NoService => state[svc[v].id] = "starting"
        BY <1>Spawn, <2>0, MakingStarts, Zenon
      <4> QED BY <1>Spawn, <2>0, <3>0, <3>2, <4>1 DEF GoneInv, DeadIsOver, Tracked, Over
    <3> QED BY <1>Spawn, <3>4, <3>5, <3>8, <3>9, <3>10, <3>11, <3>12, <3>13, Zenon DEF GoneInv
  <2> QED BY <1>Spawn, <2>3, <2>4, Zenon DEF Spawn, vmVars
(* The other steps of an actor take from the host.                         *)
<1>Teardown. ASSUME NEW v \in Service,
                    WaitRunning(v) \/ StopVM(v) \/ RemoveVolume(v) \/ RemoveDir(v) \/ Halt(v)
             PROVE  GoneInv'
  <2>0. /\ AtWork(v) /\ OwnerType /\ Live(v) /\ OwnerInv /\ PromiseInv /\ HostType /\ Faults = {}
        /\ svc[v].pc \in {"boot", "stop", "cleanup", "rmdir", "halt"} /\ ActorStep(v)
    BY <1>Teardown, Zenon DEF WaitRunning, StopVM, RemoveVolume, RemoveDir, Halt, AtWork, Live, Calm, OwnerInv, ActorStep
  <2>1. svc[v].id \in Sandbox /\ svc[v].vm /\ volume \subseteq dir /\ stuck \subseteq volume
    BY <1>Teardown, <2>0, ActorFinds
  <2>2. ASSUME NEW p, NEW reply, Goto(v, p) \/ Fails(v, p) \/ Replies(v, p, reply)
        PROVE  /\ svc'[v].pc = p /\ svc'[v].id = svc[v].id /\ svc'[v].vm
               /\ \A w \in Service : w # v => svc'[w] = svc[w]
    BY <1>Teardown, <2>0, <2>1, <2>2, ActorEffect, Zenon
  <2>3. ASSUME NEW p, Goto(v, p) \/ Fails(v, p)
        PROVE  \A c \in Call : call'[c] \in {call[c], Idle} \/ CallGone(c)'
    BY <1>Teardown, <2>3, Zenon DEF Goto, Fails
  <2>4. ASSUME NEW p, NEW reply, Replies(v, p, reply), svc[v].pc \in {"boot", "halt"} \/ svc[v].id \notin Left'
        PROVE  \A c \in Call : call'[c] \in {call[c], Idle} \/ CallGone(c)'
    <3>1. Commands(svc[v].pc) = {"create", "remove"} => svc[v].id \notin Left'
      BY <1>Teardown, <2>4 DEF Commands
    <3> QED BY <1>Teardown, <2>0, <2>4, <3>1, ReplyGone, Zenon
  <2>5. CASE WaitRunning(v)
    <3>1. svc[v].pc = "boot" /\ UNCHANGED <<dir, volume, stuck, vm, dying>>
      BY <1>Teardown, <2>5, Zenon DEF WaitRunning, hostVars, volumeVars, vmVars
    <3>2. /\ svc'[v].pc \in {"idle", "stop"} /\ svc'[v].vm /\ \A w \in Service : w # v => svc'[w] = svc[w]
          /\ \A c \in Call : call'[c] \in {call[c], Idle} \/ CallGone(c)'
      <4>1. CASE Replies(v, "idle", "ok")
        BY <1>Teardown, <2>2, <2>4, <3>1, <4>1
      <4>2. CASE Fails(v, "stop")
        BY <1>Teardown, <2>2, <2>3, <4>2, Zenon
      <4> QED BY <1>Teardown, <2>5, <4>1, <4>2, Zenon DEF WaitRunning
    <3>3. ActorGone(v)'
      BY <1>Teardown, <3>2 DEF ActorGone
    <3> QED BY <1>Teardown, <2>0, <3>1, <3>2, <3>3, HostStays, ActorGoneFrame
  <2>6. CASE StopVM(v)
    <3>1. EndsVM(svc[v].id) /\ Goto(v, "cleanup") /\ UNCHANGED <<dir, volume, stuck>>
      BY <1>Teardown, <2>0, <2>6 DEF StopVM, volumeVars
    <3>2. /\ vm'[svc[v].id] = "none" \/ svc[v].id \in dying'
          /\ \A s \in Sandbox : (vm'[s] # "none" => vm[s] # "none") /\ (Over(s) => Over(s)')
      <4> DEFINE t == svc[v].id
      <4>1. t \in Sandbox /\ EndsVM(t)
        BY <1>Teardown, <2>1, <3>1, Zenon
      <4> HIDE DEF t
      <4>2. vm'[t] = "none" \/ t \in dying'
        BY <1>Teardown, <2>0, <4>1 DEF HostType, EndsVM
      <4>3. \A s \in Sandbox : (vm'[s] # "none" => vm[s] # "none") /\ (Over(s) => Over(s)')
        BY <1>Teardown, <2>0, <4>1 DEF HostType, EndsVM, Over
      <4> QED BY <1>Teardown, <4>2, <4>3, Zenon DEF t
    <3>3. /\ svc'[v].pc = "cleanup" /\ svc'[v].vm /\ svc'[v].id = svc[v].id
          /\ \A w \in Service : w # v => svc'[w] = svc[w]
          /\ \A c \in Call : call'[c] \in {call[c], Idle} \/ CallGone(c)'
      BY <1>Teardown, <2>2, <2>3, <3>1, Zenon
    <3>4. ActorGone(v)'
      BY <1>Teardown, <3>2, <3>3 DEF ActorGone, Over
    <3> QED BY <1>Teardown, <2>0, <2>1, <3>1, <3>2, <3>3, <3>4, ActorGoneFrame
  <2>7. CASE RemoveVolume(v)
    <3>0. svc[v].pc = "cleanup" /\ UNCHANGED <<dir, vm, dying>>
      BY <1>Teardown, <2>7, Zenon DEF RemoveVolume, vmVars
    <3>1. Over(svc[v].id)
      BY <1>Teardown, <2>0, <3>0, ActorFinds, Zenon
    <3>2. \/ volume' = volume \ {svc[v].id} /\ svc[v].id \notin stuck /\ Goto(v, "rmdir")
          \/ volume' = volume /\ svc[v].id \in stuck /\ Replies(v, "exited", "failed")
      BY <1>Teardown, <2>0, <2>7, <3>1 DEF RemoveVolume, VolumeRemoved, VolumeNotRemoved, Over, volumeVars
    <3>3. /\ stuck' = stuck /\ stuck \subseteq volume' /\ volume' \subseteq volume /\ volume' \subseteq dir'
          /\ Left' = Left
          /\ \A s \in Sandbox : (vm'[s] # "none" => vm[s] # "none") /\ (Over(s) => Over(s)')
      <4>1. stuck' = stuck
        BY <1>Teardown, <2>0, <2>7 DEF RemoveVolume, VolumeRemoved, VolumeNotRemoved, volumeVars
      <4> QED BY <1>Teardown, <2>1, <3>0, <3>2, <4>1 DEF Left, Over
    <3>4. CASE volume' = volume \ {svc[v].id} /\ Goto(v, "rmdir")
      <4>1. /\ svc'[v].pc = "rmdir" /\ svc'[v].vm /\ \A w \in Service : w # v => svc'[w] = svc[w]
            /\ \A c \in Call : call'[c] \in {call[c], Idle} \/ CallGone(c)'
        BY <1>Teardown, <2>2, <2>3, <3>4, Zenon
      <4>2. ActorGone(v)'
        BY <1>Teardown, <4>1 DEF ActorGone
      <4> QED BY <1>Teardown, <2>0, <3>0, <3>3, <4>1, <4>2, ActorGoneFrame
    <3>5. CASE svc[v].id \in stuck /\ Replies(v, "exited", "failed")
      <4>0. svc[v].id \notin Left /\ svc[v].id \notin Left'
        BY <1>Teardown, <3>3, <3>5 DEF Left
      <4>1. /\ svc'[v].pc = "exited" /\ svc'[v].id = svc[v].id
            /\ \A w \in Service : w # v => svc'[w] = svc[w]
        BY <1>Teardown, <2>2, <3>5, Zenon
      <4>2. \A c \in Call : call'[c] \in {call[c], Idle} \/ CallGone(c)'
        BY <1>Teardown, <2>4, <3>5, <4>0
      <4>3. ActorGone(v)'
        BY <1>Teardown, <4>1 DEF ActorGone, Busy
      <4> QED BY <1>Teardown, <2>0, <3>0, <3>3, <4>0, <4>1, <4>2, <4>3, ActorGoneFrame
    <3> QED BY <1>Teardown, <3>2, <3>4, <3>5, Zenon
  <2>8. CASE RemoveDir(v)
    <3>0. svc[v].pc = "rmdir" /\ UNCHANGED <<volume, stuck, vm, dying>>
      BY <1>Teardown, <2>8, Zenon DEF RemoveDir, volumeVars, vmVars
    <3>1. svc[v].id \notin volume
      BY <1>Teardown, <2>0, <3>0, ActorFinds, Zenon
    <3>2. /\ dir' = dir \ {svc[v].id}
          /\ Replies(v, "exited", IF svc[v].failed THEN "failed" ELSE "ok")
      BY <1>Teardown, <2>0, <2>8 DEF RemoveDir
    <3>3. /\ svc'[v].pc = "exited" /\ svc'[v].id = svc[v].id
          /\ \A w \in Service : w # v => svc'[w] = svc[w]
      BY <1>Teardown, <2>2, <3>2, Zenon
    <3>6. /\ svc[v].id \notin Left'
          /\ \A s \in Sandbox : (vm'[s] # "none" => vm[s] # "none") /\ (Over(s) => Over(s)')
      BY <1>Teardown, <3>0, <3>2 DEF Left, Over
    <3>4. \A c \in Call : call'[c] \in {call[c], Idle} \/ CallGone(c)'
      BY <1>Teardown, <2>4, <3>2, <3>6
    <3>5. ActorGone(v)'
      BY <1>Teardown, <3>3 DEF ActorGone, Busy
    <3> QED BY <1>Teardown, <2>0, <2>1, <3>0, <3>1, <3>2, <3>3, <3>4, <3>5, <3>6, ActorGoneFrame
  <2>9. CASE Halt(v)
    <3>1. /\ EndsVM(svc[v].id) /\ Replies(v, "idle", "ok") /\ UNCHANGED <<dir, volume, stuck>>
          /\ svc[v].pc = "halt"
      BY <1>Teardown, <2>0, <2>9 DEF Halt, volumeVars
    <3>2. \A s \in Sandbox : (vm'[s] # "none" => vm[s] # "none") /\ (Over(s) => Over(s)')
      <4> DEFINE t == svc[v].id
      <4>1. t \in Sandbox /\ EndsVM(t)
        BY <1>Teardown, <2>1, <3>1, Zenon
      <4> HIDE DEF t
      <4> QED BY <1>Teardown, <2>0, <4>1 DEF HostType, EndsVM, Over
    <3>3. /\ svc'[v].pc = "idle" /\ svc'[v].vm /\ \A w \in Service : w # v => svc'[w] = svc[w]
          /\ \A c \in Call : call'[c] \in {call[c], Idle} \/ CallGone(c)'
      BY <1>Teardown, <2>2, <2>4, <3>1
    <3>4. ActorGone(v)'
      BY <1>Teardown, <3>3, Zenon DEF ActorGone, Busy
    <3> QED BY <1>Teardown, <2>0, <2>1, <3>1, <3>2, <3>3, <3>4, ActorGoneFrame
  <2> QED BY <1>Teardown, <2>5, <2>6, <2>7, <2>8, <2>9, Zenon
<1>Watch. ASSUME NEW v \in Service, Poll(v) \/ VMExited(v) \/ Panic(v)
          PROVE  GoneInv'
  <2>0. GoneInv /\ OwnerType /\ HostType /\ Faults = {}
    BY <1>Watch, Zenon DEF Calm, OwnerInv
  <2>1. Poll(v) \/ VMExited(v)
    BY <1>Watch, <2>0 DEF Panic
  <2>2. Watches(v) /\ UNCHANGED <<services, deleting, svc, call, reap, audit, dir, volume, stuck, vm, dying>>
    BY <1>Watch, <2>1, Zenon DEF Poll, VMExited, hostVars, volumeVars, vmVars
  <2>3. svc[v].id \in Sandbox
    BY <1>Watch, <2>0, <2>2, ActorFields, Zenon DEF Watches, Live
  <2>4. ASSUME NEW s \in Sandbox, state'[s] = "dead"
        PROVE  Over(s)' \/ state[s] = "dead"
    <3>1. CASE VMExited(v)
      BY <1>Watch, <2>0, <2>2, <2>3, <2>4, <3>1 DEF VMExited, Reports, HostType, Over
    <3>2. CASE Poll(v)
      <4>1. \A st \in Sampled(svc[v].id) : st # "dead"
        BY <1>Watch, <2>0, <2>3 DEF Sampled, HostType, VM
      <4> QED BY <1>Watch, <2>0, <2>3, <2>4, <3>2, <4>1 DEF Poll, Reports, HostType
    <3> QED BY <1>Watch, <2>1, <3>1, <3>2, Zenon
  <2>5. \A s \in Left' : Kept(s)'
    BY <1>Watch, <2>0, <2>2, HostStays, Zenon DEF GoneInv, Kept, MainClaims
  <2>6. \A s \in Sandbox : services'[s] # NoService /\ state'[s] = "dead" =>
            Over(s)' \/ (services[s] # NoService /\ state[s] = "dead")
    BY <1>Watch, <2>2, <2>4, Zenon
  <2>7. audit'.pc = "reap" =>
            \A s \in Sandbox : MainClaims(s)' => s \notin Left' \/ (audit.pc = "reap" /\ MainClaims(s))
    BY <1>Watch, <2>2, Zenon DEF MainClaims
  <2> QED BY <1>Watch, <2>2, <2>5, <2>6, <2>7, HostStays, GoneFrame
<1>Create. ASSUME NEW c \in Call, NEW s \in Sandbox, Create(c, s)
           PROVE  GoneInv'
  <2>0. GoneInv /\ OwnerType /\ HostType /\ OwnerInv
    BY <1>Create, Zenon DEF Calm, OwnerInv
  <2>1. PICK v \in Service :
            /\ Free(v) /\ Serving /\ call[c] = Idle /\ services[s] = NoService /\ s \notin deleting
            /\ services'[s] = v /\ \A t \in Sandbox : t # s => services'[t] = services[t]
            /\ svc'[v].pc = "idle" /\ svc'[v].id = s /\ ~svc'[v].vm
            /\ \A w \in Service : w # v => svc'[w] = svc[w]
            /\ call'[c] # Idle /\ call'[c].pc = "send" /\ call'[c].kind = "create"
            /\ call'[c].id = s /\ call'[c].svc = v
            /\ \A d \in Call : d # c => call'[d] = call[d]
            /\ state' = [state EXCEPT ![s] = "starting"]
            /\ UNCHANGED <<deleting, reap, audit, dir, volume, stuck, vm, dying>>
    BY <1>Create, CreateEffect, Zenon DEF Calm
  <2>2. s \notin Left /\ Left \subseteq Sandbox /\ Left' = Left
    BY <1>Create, <2>0, <2>1 DEF GoneInv, Kept, Serving, HostType, Left
  <2>3. \A t \in Left' : Kept(t)'
    BY <1>Create, <2>0, <2>1, <2>2, Zenon DEF GoneInv, Kept, Serving
  <2>4. \A w \in Service : \/ svc'[w] = svc[w]
                           \/ ActorGone(w)' /\ (svc'[w].pc = "exited" => svc'[w].id \notin Left')
    BY <1>Create, <2>1, <2>2, Zenon DEF ActorGone, Busy
  <2>5. \A d \in Call : call'[d] \in {call[d], Idle} \/ CallGone(d)'
    BY <1>Create, <2>1 DEF CallGone, Removed
  <2>6. \A t \in Sandbox : \/ services'[t] \in {services[t], NoService}
                           \/ svc'[services'[t]].pc # "exited"
    BY <1>Create, <2>1
  <2>7. \A t \in Sandbox : services'[t] # NoService /\ state'[t] = "dead" =>
            services[t] # NoService /\ state[t] = "dead"
    BY <1>Create, <2>0, <2>1 DEF HostType
  <2>8. audit'.pc = "reap" =>
            \A t \in Sandbox : MainClaims(t)' => t \notin Left' \/ (audit.pc = "reap" /\ MainClaims(t))
    BY <1>Create, <2>1, Zenon DEF MainClaims
  <2> QED BY <1>Create, <2>1, <2>3, <2>4, <2>5, <2>6, <2>7, <2>8, HostStays, GoneFrame, Zenon
<1>Ask. ASSUME NEW c \in Call, NEW s \in Sandbox, Stop(c, s) \/ Remove(c, s)
        PROVE  GoneInv'
  <2>0. GoneInv /\ OwnerType /\ HostType /\ OwnerInv
    BY <1>Ask, Zenon DEF Calm, OwnerInv
  <2>1. /\ Serving /\ call[c] = Idle /\ services[s] \in Service
        /\ call'[c] # Idle /\ call'[c].pc = "send" /\ call'[c].kind \in {"stop", "remove"}
        /\ call'[c].id = s /\ call'[c].svc = services[s]
        /\ \A d \in Call : d # c => call'[d] = call[d]
        /\ call'[c].kind = "stop" => UNCHANGED <<services, deleting>>
        /\ call'[c].kind = "remove" =>
               /\ s \notin deleting /\ deleting' = deleting \cup {s}
               /\ services'[s] = NoService
               /\ \A t \in Sandbox : t # s => services'[t] = services[t]
        /\ UNCHANGED <<state, svc, reap, audit, dir, volume, stuck, vm, dying>>
    BY <1>Ask, AskEffect, Zenon DEF Calm
  <2>2. \A t \in Left' : Kept(t)'
    <3>1. Left' = Left /\ \A t \in Left : t \in Sandbox /\ (services[t] # NoService \/ t \in deleting)
      BY <1>Ask, <2>0, <2>1 DEF GoneInv, Kept, Serving, HostType, Left
    <3> QED BY <1>Ask, <2>1, <3>1 DEF Kept
  <2>3. CallGone(c)'
    <3>1. services[s] # NoService
      BY <1>Ask, <2>1, ManagerAssumption
    <3>2. svc[services[s]].pc = "exited" => s \notin Left
      BY <1>Ask, <2>0, <3>1, Zenon DEF GoneInv
    <3> QED BY <1>Ask, <2>1, <3>2 DEF CallGone, Removed, Left
  <2>4. \A d \in Call : call'[d] \in {call[d], Idle} \/ CallGone(d)'
    BY <1>Ask, <2>1, <2>3, Zenon
  <2>5. \A t \in Sandbox : services'[t] \in {services[t], NoService}
    BY <1>Ask, <2>1
  <2>6. \A t \in Sandbox : services'[t] # NoService /\ state'[t] = "dead" =>
            services[t] # NoService /\ state[t] = "dead"
    BY <1>Ask, <2>1, <2>5, Zenon
  <2>7. audit'.pc = "reap" =>
            \A t \in Sandbox : MainClaims(t)' => t \notin Left' \/ (audit.pc = "reap" /\ MainClaims(t))
    BY <1>Ask, <2>1, Zenon DEF MainClaims
  <2> QED BY <1>Ask, <2>1, <2>2, <2>4, <2>5, <2>6, <2>7, HostStays, GoneFrame
<1>Take. ASSUME NEW c \in Call, Take(c)
         PROVE  GoneInv'
  <2>0. GoneInv /\ OwnerType /\ HostType /\ OwnerInv /\ MakeInv /\ RefInv
    BY <1>Take, Zenon DEF Calm, OwnerInv, PromiseInv, MakeInv
  <2>1. PICK v \in Service : v = call[c].svc
    BY <1>Take, <2>0, TakeEffect, Zenon
  <2>2. /\ call[c] # Idle /\ Live(v) /\ svc[v].pc = "idle" /\ call[c].pc = "send"
        /\ svc'[v].id = svc[v].id /\ svc'[v].vm = svc[v].vm
        /\ \A w \in Service : w # v => svc'[w] = svc[w]
        /\ call'[c].kind = call[c].kind /\ call'[c].id = call[c].id /\ call'[c].svc = v
        /\ \A d \in Call : d # c => call'[d] = call[d]
        /\ UNCHANGED <<services, deleting, state, reap, audit, dir, volume, stuck, vm, dying>>
    BY <1>Take, <2>0, <2>1, TakeEffect
  <2>3. \/ /\ call'[c].pc = "wait" /\ svc'[v].pc = Begins(call[c].kind)
           /\ call[c].kind = "create" \/ svc[v].vm
        \/ /\ svc'[v].pc = IF call[c].kind = "remove" THEN "exited" ELSE "idle"
           /\ call[c].kind # "create" /\ ~svc[v].vm
    BY <1>Take, <2>0, <2>1, TakeEffect, Zenon
  <2>4. call[c].kind = "create" => ~svc[v].vm
    <3>1. call[c].kind = "create" => Pending(c)
      BY <1>Take, <2>1, <2>2, <2>3 DEF Pending, Creates
    <3> QED BY <1>Take, <2>0, <2>1, <2>2, <2>3, <3>1, Zenon DEF MakeInv, CreateInv
  <2>5. ~svc[v].vm => svc[v].id \notin Left
    BY <1>Take, <2>0, <2>1, <2>2, <2>3, Zenon DEF GoneInv, ActorGone
  <2>6. call[c].kind \in {"create", "stop", "remove"} /\ call[c].id = svc[v].id
    BY <1>Take, <2>0, <2>1, <2>2, <2>3, CallFields, Zenon DEF RefInv
  <2>Left. Left' = Left
    BY <1>Take, <2>2, HostStays, Zenon
  <2>7. ActorGone(v)' /\ (svc'[v].pc = "exited" => svc'[v].id \notin Left')
    BY <1>Take, <2>1, <2>2, <2>3, <2>4, <2>5, <2>6, <2>Left DEF ActorGone, Begins, Busy
  <2>8. CallGone(c)'
    BY <1>Take, <2>1, <2>2, <2>3, <2>4, <2>5, <2>6, <2>Left DEF CallGone, Removed, Begins
  <2>9. /\ \A w \in Service : \/ svc'[w] = svc[w]
                              \/ ActorGone(w)' /\ (svc'[w].pc = "exited" => svc'[w].id \notin Left')
        /\ \A d \in Call : call'[d] \in {call[d], Idle} \/ CallGone(d)'
    BY <1>Take, <2>1, <2>2, <2>3, <2>7, <2>8, Zenon
  <2>10. \A s \in Left' : Kept(s)'
    BY <1>Take, <2>0, <2>1, <2>2, <2>3, <2>Left, Zenon DEF GoneInv, Kept, MainClaims
  <2>11. audit'.pc = "reap" =>
            \A t \in Sandbox : MainClaims(t)' => t \notin Left' \/ (audit.pc = "reap" /\ MainClaims(t))
    BY <1>Take, <2>1, <2>2, <2>3, Zenon DEF MainClaims
  <2> QED BY <1>Take, <2>2, <2>9, <2>10, <2>11, HostStays, GoneFrame, Zenon
<1>ServiceGone. ASSUME NEW c \in Call, ServiceGone(c)
                PROVE  GoneInv'
  <2>0. GoneInv /\ OwnerInv
    BY <1>ServiceGone, Zenon DEF Calm
  <2>1. /\ call[c] # Idle /\ svc[call[c].svc].pc = "exited"
        /\ call'[c].kind = call[c].kind /\ call'[c].id = call[c].id
        /\ \A d \in Call : d # c => call'[d] = call[d]
        /\ UNCHANGED <<services, deleting, state, svc, reap, audit, dir, volume, stuck, vm, dying>>
    BY <1>ServiceGone, <2>0, GoneEffect, Zenon
  <2>Left. Left' = Left
    BY <1>ServiceGone, <2>1, HostStays, Zenon
  <2>2. CallGone(c)'
    BY <1>ServiceGone, <2>0, <2>1, <2>Left, Zenon DEF GoneInv, CallGone, Removed
  <2>3. \A d \in Call : call'[d] \in {call[d], Idle} \/ CallGone(d)'
    BY <1>ServiceGone, <2>1, <2>2, Zenon
  <2>4. \A s \in Left' : Kept(s)'
    BY <1>ServiceGone, <2>0, <2>1, <2>Left, Zenon DEF GoneInv, Kept, MainClaims
  <2>5. audit'.pc = "reap" =>
            \A t \in Sandbox : MainClaims(t)' => t \notin Left' \/ (audit.pc = "reap" /\ MainClaims(t))
    BY <1>ServiceGone, <2>1, Zenon DEF MainClaims
  <2> QED BY <1>ServiceGone, <2>1, <2>3, <2>4, <2>5, HostStays, GoneFrame, Zenon
<1>Return. ASSUME NEW c \in Call, CallReturns(c)
           PROVE  GoneInv'
  <2>0. GoneInv /\ OwnerType /\ HostType /\ OwnerInv /\ CallInv(c)
    BY <1>Return, Zenon DEF Calm, OwnerInv
  <2>1. /\ call[c] # Idle /\ call[c].pc = "replied"
        /\ \A d \in Call : d # c => call'[d] = call[d]
        /\ \A r \in Reaper : r # c => reap'[r] = reap[r]
        /\ UNCHANGED <<state, svc, audit, dir, volume, stuck, vm, dying>>
    BY <1>Return, <2>0, ReturnEffect, Zenon
  <2>2. /\ \A t \in Sandbox : services'[t] # services[t] =>
               /\ t = call[c].id /\ services'[t] = NoService
               /\ services[t] = call[c].svc
               /\ call[c].kind = "create" /\ call[c].reply # "ok"
        /\ \A t \in Sandbox : t \in deleting => t \in deleting' \/ (t = call[c].id /\ call[c].kind = "remove")
        /\ \/ call'[c] = Idle /\ UNCHANGED reap
           \/ /\ call'[c].kind = "remove" /\ call'[c].id = call[c].id /\ call[c].kind = "remove"
              /\ reap'[c] = [pc |-> "kill", id |-> call[c].id]
    BY <1>Return, <2>0, ReturnEffect, Zenon
  <2>Left. Left' = Left /\ Left \subseteq Sandbox
    BY <1>Return, <2>0, <2>1, HostStays, Zenon DEF Left, HostType
  <2>3. call[c].kind = "remove" => call[c].id \notin Left
    BY <1>Return, <2>0, <2>1, Zenon DEF GoneInv, CallGone, Removed
  <2>4. \A t \in Sandbox : services'[t] # services[t] => t \notin Left
    <3>1. SUFFICES ASSUME NEW t \in Sandbox, services'[t] # services[t]
                   PROVE  t \notin Left
      BY <1>Return, Zenon
    <3>2. call[c].svc \in Service /\ svc[call[c].svc].pc = "exited" /\ services[t] = call[c].svc
      BY <1>Return, <2>0, <2>1, <2>2, <3>1, CallFields, Zenon DEF CallInv
    <3> QED BY <1>Return, <2>0, <3>2, ManagerAssumption, Zenon DEF GoneInv
  <2>5. Main # c /\ c \in Reaper
    BY <1>Return, ManagerAssumption DEF Reaper
  <2>6. reap'[Main] = reap[Main]
    BY <1>Return, <2>1, <2>5 DEF Reaper
  <2>7. \A t \in Left' : Kept(t)'
    <3>1. SUFFICES ASSUME NEW t \in Left
                   PROVE  Kept(t)'
      BY <1>Return, <2>Left, Zenon
    <3>2. t \in Sandbox /\ Kept(t) /\ services'[t] = services[t]
      BY <1>Return, <2>0, <2>4, <2>Left, Zenon DEF GoneInv
    <3>3. t \in deleting => t \in deleting'
      BY <1>Return, <2>2, <2>3, <3>2, Zenon
    <3> QED BY <1>Return, <2>1, <2>6, <3>2, <3>3, Zenon DEF Kept, MainClaims
  <2>8. \A d \in Call : call'[d] \in {call[d], Idle} \/ CallGone(d)'
    BY <1>Return, <2>1, <2>2, <2>3, <2>Left DEF CallGone
  <2>9. \A r \in Reaper : reap'[r] \in {reap[r], NoReap} \/ ReapGone(r)'
    BY <1>Return, <2>1, <2>2 DEF ReapGone
  <2>10. audit'.pc = "reap" =>
            \A t \in Sandbox : MainClaims(t)' => t \notin Left' \/ (audit.pc = "reap" /\ MainClaims(t))
    BY <1>Return, <2>1, <2>6, Zenon DEF MainClaims
  <2>11. \A t \in Sandbox : services'[t] \in {services[t], NoService}
    BY <1>Return, <2>2
  <2>12. \A t \in Sandbox : services'[t] # NoService /\ state'[t] = "dead" =>
             services[t] # NoService /\ state[t] = "dead"
    BY <1>Return, <2>0, <2>1, <2>11, Zenon DEF GoneInv
  <2> QED BY <1>Return, <2>1, <2>7, <2>8, <2>9, <2>10, <2>11, <2>12, HostStays, GoneFrame, Zenon
<1>ReapMoves. ASSUME NEW r \in Reaper, ReapKill(r) \/ ReapVolume(r) \/ ReapDir(r)
              PROVE  GoneInv'
  <2>0. GoneInv /\ OwnerType /\ HostType /\ OwnerInv /\ Faults = {} /\ ReapGone(r)
        /\ UNCHANGED <<services, deleting, state, svc, call, audit>> /\ reap[r].pc # "none"
    BY <1>ReapMoves, Zenon DEF Calm, OwnerInv, GoneInv, ReapKill, ReapVolume, ReapDir, mapVars
  <2>1. /\ dir' \subseteq dir /\ volume' \subseteq volume /\ volume' \subseteq dir'
        /\ stuck' = stuck /\ stuck \subseteq volume'
        /\ \A s \in Sandbox : (vm'[s] # "none" => vm[s] # "none") /\ (Over(s) => Over(s)')
        /\ \E p \in {"volume", "rmdir", "over", "failed"} :
               /\ ReapGoto(r, p)
               /\ p = "volume" => vm'[reap[r].id] = "none" \/ reap[r].id \in dying'
               /\ p \in {"over", "failed"} => reap[r].id \notin Left'
    <3>0. reap[r].id \in Sandbox /\ volume \subseteq dir /\ stuck \subseteq volume
      BY <1>ReapMoves, <2>0, ReapFields DEF NoReap, GoneInv, StuckInv
    <3>1. CASE ReapKill(r)
      <4>1. EndsVM(reap[r].id) /\ ReapGoto(r, "volume") /\ UNCHANGED <<dir, volume, stuck>>
        BY <1>ReapMoves, <2>0, <3>1 DEF ReapKill, volumeVars
      <4>2. /\ vm'[reap[r].id] = "none" \/ reap[r].id \in dying'
            /\ \A s \in Sandbox : (vm'[s] # "none" => vm[s] # "none") /\ (Over(s) => Over(s)')
        <5> DEFINE t == reap[r].id
        <5>1. t \in Sandbox /\ EndsVM(t)
          BY <1>ReapMoves, <3>0, <4>1, Zenon
        <5> HIDE DEF t
        <5>2. vm'[t] = "none" \/ t \in dying'
          BY <1>ReapMoves, <2>0, <5>1 DEF HostType, EndsVM
        <5>3. \A s \in Sandbox : (vm'[s] # "none" => vm[s] # "none") /\ (Over(s) => Over(s)')
          BY <1>ReapMoves, <2>0, <5>1 DEF HostType, EndsVM, Over
        <5> QED BY <1>ReapMoves, <5>2, <5>3, Zenon DEF t
      <4> QED BY <1>ReapMoves, <3>0, <4>1, <4>2
    <3>2. CASE ReapVolume(r)
      <4>0. Over(reap[r].id) /\ UNCHANGED <<dir, vm, dying>>
        BY <1>ReapMoves, <2>0, <3>2, Zenon DEF ReapVolume, ReapGone, vmVars
      <4>1. /\ stuck' = stuck
            /\ \/ volume' = volume \ {reap[r].id} /\ reap[r].id \notin stuck /\ ReapGoto(r, "rmdir")
               \/ volume' = volume /\ reap[r].id \in stuck /\ ReapGoto(r, "failed")
        BY <1>ReapMoves, <2>0, <3>2, <4>0 DEF ReapVolume, VolumeRemoved, VolumeNotRemoved, Over, volumeVars
      <4>2. \A s \in Sandbox : (vm'[s] # "none" => vm[s] # "none") /\ (Over(s) => Over(s)')
        BY <1>ReapMoves, <4>0 DEF Over
      <4> QED BY <1>ReapMoves, <3>0, <4>0, <4>1, <4>2 DEF Left
    <3>3. CASE ReapDir(r)
      <4>0. UNCHANGED <<volume, stuck, vm, dying>> /\ reap[r].id \notin volume
        BY <1>ReapMoves, <3>3, Zenon DEF ReapDir, Calm, HostInv, volumeVars, vmVars
      <4>1. dir' = dir \ {reap[r].id} /\ ReapGoto(r, "over")
        BY <1>ReapMoves, <2>0, <3>3 DEF ReapDir
      <4>2. \A s \in Sandbox : (vm'[s] # "none" => vm[s] # "none") /\ (Over(s) => Over(s)')
        BY <1>ReapMoves, <4>0 DEF Over
      <4> QED BY <1>ReapMoves, <3>0, <4>0, <4>1, <4>2 DEF Left
    <3> QED BY <1>ReapMoves, <3>1, <3>2, <3>3, Zenon
  <2>6. /\ ReapGone(r)'
        /\ \A q \in Reaper : q # r => reap'[q] = reap[q]
        /\ \A s \in Sandbox : reap'[Main] # NoReap /\ reap'[Main].id = s <=>
                              reap[Main] # NoReap /\ reap[Main].id = s
    <3>1. PICK p \in {"volume", "rmdir", "over", "failed"} :
              /\ ReapGoto(r, p)
              /\ p = "volume" => vm'[reap[r].id] = "none" \/ reap[r].id \in dying'
              /\ p \in {"over", "failed"} => reap[r].id \notin Left'
      BY <1>ReapMoves, <2>1, Zenon
    <3>2. /\ reap'[r].pc = p /\ reap'[r].id = reap[r].id
          /\ \A q \in Reaper : q # r => reap'[q] = reap[q]
          /\ \A s \in Sandbox : reap'[Main] # NoReap /\ reap'[Main].id = s <=>
                                reap[Main] # NoReap /\ reap[Main].id = s
      BY <1>ReapMoves, <2>0, <3>1, ReapGotoEffect
    <3>3. ReapGone(r)'
      BY <1>ReapMoves, <3>1, <3>2 DEF ReapGone, Over
    <3> QED BY <1>ReapMoves, <3>2, <3>3, Zenon
  <2>2. \A s \in Sandbox : MainClaims(s)' <=> MainClaims(s)
    BY <1>ReapMoves, <2>0, <2>6, Zenon DEF MainClaims
  <2>3. \A s \in Left' : Kept(s)'
    <3>1. Left' \subseteq Left /\ Left \subseteq Sandbox
      BY <1>ReapMoves, <2>0, <2>1 DEF Left, HostType
    <3> QED BY <1>ReapMoves, <2>0, <2>2, <3>1, Zenon DEF GoneInv, Kept
  <2>4. \A q \in Reaper : reap'[q] \in {reap[q], NoReap} \/ ReapGone(q)'
    BY <1>ReapMoves, <2>6, Zenon
  <2>5. audit'.pc = "reap" =>
            \A s \in Sandbox : MainClaims(s)' => s \notin Left' \/ (audit.pc = "reap" /\ MainClaims(s))
    BY <1>ReapMoves, <2>0, <2>2, Zenon
  <2> QED BY <1>ReapMoves, <2>0, <2>1, <2>3, <2>4, <2>5, GoneFrame, Zenon
<1>Reaped. ASSUME NEW r \in Reaper, Reaped(r)
           PROVE  GoneInv'
  <2>0. /\ GoneInv /\ OwnerType /\ HostType /\ OwnerInv /\ reap[r].pc \in {"over", "failed"}
        /\ UNCHANGED <<services, state, svc, audit, dir, volume, stuck, vm, dying>>
        /\ reap' = [reap EXCEPT ![r] = NoReap]
    BY <1>Reaped, Zenon DEF Calm, OwnerInv, Reaped, hostVars, volumeVars, vmVars
  <2>1. reap[r].id \notin Left /\ Left' = Left
    BY <1>Reaped, <2>0, HostStays, Zenon DEF GoneInv, ReapGone
  <2>2. reap'[r] = NoReap /\ \A q \in Reaper : q # r => reap'[q] = reap[q]
    BY <1>Reaped, <2>0 DEF OwnerType
  <2>3. /\ \A c \in Call : call'[c] \in {call[c], Idle} \/ CallGone(c)'
        /\ \A s \in deleting : s # reap[r].id => s \in deleting'
    <3>1. CASE r = Main
      BY <1>Reaped, <3>1 DEF Reaped
    <3>2. CASE r # Main
      <4>1. r \in Call
        BY <1>Reaped, <3>2 DEF Reaper
      <4>2. /\ reap[r].id = call[r].id /\ call'[r].id = call[r].id
            /\ \A d \in Call : d # r => call'[d] = call[d]
            /\ UNCHANGED deleting
        BY <1>Reaped, <2>0, <4>1, ReapedEffect, Zenon
      <4>3. CallGone(r)'
        BY <1>Reaped, <2>1, <4>2, Zenon DEF CallGone
      <4> QED BY <1>Reaped, <4>2, <4>3, Zenon
    <3> QED BY <1>Reaped, <3>1, <3>2, Zenon
  <2>4. \A s \in Left' : Kept(s)'
    <3>1. SUFFICES ASSUME NEW s \in Left
                   PROVE  Kept(s)'
      BY <1>Reaped, <2>1, Zenon
    <3>2. Kept(s) /\ s # reap[r].id
      BY <1>Reaped, <2>0, <2>1, Zenon DEF GoneInv
    <3>3. MainClaims(s) => MainClaims(s)'
      BY <1>Reaped, <2>0, <2>2, <3>2, Zenon DEF MainClaims, Reaper
    <3> QED BY <1>Reaped, <2>0, <2>3, <3>2, <3>3, Zenon DEF Kept
  <2>5. audit'.pc = "reap" =>
            \A s \in Sandbox : MainClaims(s)' => s \notin Left' \/ (audit.pc = "reap" /\ MainClaims(s))
    BY <1>Reaped, <2>0, <2>2, Zenon DEF MainClaims, Reaper
  <2>6. \A q \in Reaper : reap'[q] \in {reap[q], NoReap}
    BY <1>Reaped, <2>2
  <2> QED BY <1>Reaped, <2>0, <2>3, <2>4, <2>5, <2>6, HostStays, GoneFrame
<1>Liveness. ASSUME CheckLiveness
             PROVE  GoneInv'
  <2>0. /\ GoneInv /\ OwnerType /\ HostType /\ HostInv /\ audit.pc = "idle" /\ audit'.pc = "list"
        /\ UNCHANGED <<services, deleting, svc, call, reap, dir, volume, stuck, vm, dying>>
        /\ \A s \in Sandbox : state'[s] =
               IF s \in Tracked /\ svc[services[s]].pc = "exited" THEN "dead" ELSE state[s]
    BY <1>Liveness, Zenon DEF Calm, OwnerInv, CheckLiveness, hostVars, volumeVars, vmVars, OwnerType
  <2>1. \A s \in Left' : Kept(s)'
    BY <1>Liveness, <2>0, HostStays, Zenon DEF GoneInv, Kept
  <2>2. \A s \in Sandbox : services'[s] # NoService /\ state'[s] = "dead" =>
            Over(s)' \/ (services[s] # NoService /\ state[s] = "dead")
    <3>1. \A s \in Sandbox : services[s] # NoService /\ svc[services[s]].pc = "exited" => vm[s] = "none"
      BY <1>Liveness, <2>0 DEF GoneInv, HostInv, Left, StuckInv
    <3> QED BY <1>Liveness, <2>0, <3>1 DEF Over
  <2> QED BY <1>Liveness, <2>0, <2>1, <2>2, HostStays, GoneFrame, Zenon
<1>Audit. ASSUME ListDisk \/ ClaimOrphans \/ AuditEnds \/ \E s \in Sandbox : ReapOrphan(s)
          PROVE  GoneInv'
  <2>0. GoneInv /\ OwnerType /\ HostType /\ MainInv /\ Faults = {}
        /\ UNCHANGED <<services, state, svc, call, dir, volume, stuck, vm, dying>>
    BY <1>Audit, Zenon DEF Calm, OwnerInv, ListDisk, ClaimOrphans, AuditEnds, ReapOrphan, mapVars, hostVars, volumeVars, vmVars
  <2>Left. Left' = Left /\ Left \subseteq dir
    BY <1>Audit, <2>0, HostStays DEF Left
  <2>1. CASE ListDisk
    <3>1. audit.pc = "list" /\ audit'.pc = "claim" /\ UNCHANGED <<deleting, reap>>
      BY <1>Audit, <2>0, <2>1 DEF ListDisk, mapVars
    <3>2. \A s \in Left' : Kept(s)'
      BY <1>Audit, <2>0, <2>Left, <3>1, Zenon DEF GoneInv, Kept
    <3> QED BY <1>Audit, <2>0, <3>1, <3>2, HostStays, GoneFrame, Zenon
  <2>2. CASE ClaimOrphans
    <3>1. /\ audit.pc = "claim" /\ audit'.pc = "reap" /\ audit'.ids = Orphans
          /\ deleting \subseteq deleting' /\ UNCHANGED reap
      BY <1>Audit, <2>2 DEF ClaimOrphans
    <3>2. \A s \in Left : services[s] # NoService \/ s \in deleting
      BY <1>Audit, <2>0, <3>1 DEF GoneInv, Kept
    <3>3. \A s \in Left' : Kept(s)'
      BY <1>Audit, <2>0, <2>Left, <3>1, <3>2, Zenon DEF Kept
    <3>4. \A s \in Sandbox : MainClaims(s)' => s \notin Left'
      BY <1>Audit, <2>0, <2>Left, <3>1, <3>2 DEF MainClaims, MainInv, Orphans, Tracked
    <3> QED BY <1>Audit, <2>0, <3>1, <3>3, <3>4, HostStays, GoneFrame, Zenon
  <2>3. CASE AuditEnds
    <3>1. /\ reap[Main] = NoReap /\ audit.ids = {} /\ audit'.pc = "idle"
          /\ UNCHANGED <<deleting, reap>>
      BY <1>Audit, <2>0, <2>3 DEF AuditEnds, mapVars, OwnerType
    <3>2. \A s \in Left' : Kept(s)'
      BY <1>Audit, <2>0, <2>Left, <3>1, Zenon DEF GoneInv, Kept, MainClaims
    <3> QED BY <1>Audit, <2>0, <3>1, <3>2, HostStays, GoneFrame
  <2>4. CASE \E s \in Sandbox : ReapOrphan(s)
    <3>1. PICK s \in Sandbox : ReapOrphan(s)
      BY <1>Audit, <2>4, Zenon
    <3>2. /\ audit.pc = "reap" /\ reap[Main] = NoReap /\ s \in audit.ids
          /\ audit'.pc = "reap" /\ audit'.ids = audit.ids \ {s}
          /\ reap' = [reap EXCEPT ![Main] = [pc |-> "kill", id |-> s]] /\ UNCHANGED deleting
      BY <1>Audit, <2>0, <3>1 DEF ReapOrphan, ReapNext, mapVars, OwnerType
    <3>3. /\ reap'[Main] = [pc |-> "kill", id |-> s]
          /\ \A r \in Reaper : r # Main => reap'[r] = reap[r]
      BY <1>Audit, <2>0, <3>2, Zenon DEF OwnerType, Reaper
    <3>4. \A t \in Left' : Kept(t)'
      BY <1>Audit, <2>0, <2>Left, <3>2, Zenon DEF GoneInv, Kept
    <3>5. \A r \in Reaper : reap'[r] \in {reap[r], NoReap} \/ ReapGone(r)'
      BY <1>Audit, <3>3 DEF ReapGone
    <3>6. \A t \in Sandbox : MainClaims(t)' => audit.pc = "reap" /\ MainClaims(t)
      BY <1>Audit, <3>2, <3>3 DEF MainClaims
    <3> QED BY <1>Audit, <2>0, <3>2, <3>4, <3>5, <3>6, HostStays, GoneFrame
  <2> QED BY <1>Audit, <2>1, <2>2, <2>3, <2>4, Zenon
<1>Recover. ASSUME NEW s \in Sandbox, Recover(s)
            PROVE  GoneInv'
  <2>0. GoneInv /\ OwnerType /\ HostType /\ OwnerInv
    BY <1>Recover, Zenon DEF Calm, OwnerInv
  <2>1. /\ audit.pc = "recover" /\ reap[Main] = NoReap /\ s \in audit.ids
        /\ audit'.pc = "recover" /\ audit'.ids = audit.ids \ {s}
        /\ services[s] = NoService
        /\ UNCHANGED <<deleting, call, dir, volume, stuck, vm, dying>>
    BY <1>Recover, <2>0, RecoverEffect, Zenon
  <2>2. Left' = Left /\ Left \subseteq Sandbox
    BY <1>Recover, <2>0, <2>1, HostStays DEF Left, HostType
  <2>3. CASE UNCHANGED <<services, state, svc>> /\ reap' = [reap EXCEPT ![Main] = [pc |-> "kill", id |-> s]]
    <3>1. /\ reap'[Main] = [pc |-> "kill", id |-> s]
          /\ \A r \in Reaper : r # Main => reap'[r] = reap[r]
      BY <1>Recover, <2>0, <2>3 DEF OwnerType, Reaper
    <3>2. \A t \in Sandbox : MainClaims(t) => MainClaims(t)'
      <4>1. reap'[Main] # NoReap /\ reap'[Main].id = s
        BY <1>Recover, <3>1 DEF NoReap
      <4> QED BY <1>Recover, <2>1, <4>1 DEF MainClaims
    <3>3. \A t \in Left' : Kept(t)'
      BY <1>Recover, <2>0, <2>1, <2>2, <2>3, <3>2, Zenon DEF GoneInv, Kept
    <3>4. \A r \in Reaper : reap'[r] \in {reap[r], NoReap} \/ ReapGone(r)'
      BY <1>Recover, <3>1 DEF ReapGone
    <3> QED BY <1>Recover, <2>1, <2>3, <3>3, <3>4, HostStays, GoneFrame
  <2>4. ASSUME NEW v \in Service, services'[s] = v, \A t \in Sandbox : t # s => services'[t] = services[t],
               svc'[v].pc = "idle", svc'[v].id = s, svc'[v].vm,
               \A w \in Service : w # v => svc'[w] = svc[w],
               \E st \in Sampled(s) : state' = [state EXCEPT ![s] = st],
               UNCHANGED reap
        PROVE  GoneInv'
    <3>1. \A t \in Sandbox : state'[t] = "dead" => t # s /\ state[t] = "dead"
      <4>1. \A st \in Sampled(s) : st # "dead"
        BY <1>Recover, <2>0 DEF Sampled, HostType, VM
      <4> QED BY <1>Recover, <2>0, <2>4, <4>1 DEF HostType
    <3>2. ASSUME NEW t \in Left
          PROVE  Kept(t)'
      <4>1. t \in Sandbox /\ Kept(t)
        BY <1>Recover, <2>0, <2>2, Zenon DEF GoneInv
      <4>2. CASE t = s
        BY <1>Recover, <2>4, <4>2, ManagerAssumption, Zenon DEF Kept
      <4>3. CASE t # s
        <5>1. MainClaims(t) => MainClaims(t)'
          BY <1>Recover, <2>1, <2>4, <4>3 DEF MainClaims
        <5> QED BY <1>Recover, <2>1, <2>4, <4>1, <4>3, <5>1, Zenon DEF Kept
      <4> QED BY <1>Recover, <4>2, <4>3, Zenon
    <3>3. \A w \in Service : \/ svc'[w] = svc[w]
                             \/ ActorGone(w)' /\ (svc'[w].pc = "exited" => svc'[w].id \notin Left')
      BY <1>Recover, <2>4 DEF ActorGone, Busy
    <3>4. \A t \in Sandbox : \/ services'[t] \in {services[t], NoService}
                             \/ svc'[services'[t]].pc # "exited"
      BY <1>Recover, <2>4
    <3>5. \A t \in Sandbox : services'[t] # NoService /\ state'[t] = "dead" =>
              services[t] # NoService /\ state[t] = "dead"
      BY <1>Recover, <2>4, <3>1, Zenon
    <3>6. \A t \in Left' : Kept(t)'
      BY <1>Recover, <2>2, <3>2, Zenon
    <3> QED BY <1>Recover, <2>1, <2>4, <3>3, <3>4, <3>5, <3>6, HostStays, GoneFrame
  <2> QED BY <1>Recover, <2>0, <2>3, <2>4, RecoverEffect
<1>Restart. ASSUME WorkerRestarts
            PROVE  GoneInv'
  <2>1. /\ GoneInv /\ HostInv /\ HostType /\ Faults = {} /\ UNCHANGED <<dir, vm, dying>>
        /\ LeavesDevices(CreatingVolume)
        /\ \A s \in Sandbox : services'[s] = NoService
        /\ \A v \in Service : svc'[v] = Off
        /\ \A c \in Call : call'[c] = Idle
        /\ \A r \in Reaper : reap'[r] = NoReap
    BY <1>Restart, Zenon DEF Calm, WorkerRestarts, vmVars
  <2>2. audit'.pc = "recover" /\ audit'.ids = dir
    BY <1>Restart, <2>1 DEF WorkerRestarts
  <2>3. CreatingVolume \subseteq dir \cap Sandbox
    BY <1>Restart, <2>1 DEF CreatingVolume, HostInv, StepInv, HostType
  <2>4. volume' \subseteq dir' /\ StuckInv'
    BY <1>Restart, <2>1, <2>3 DEF LeavesDevices, GoneInv, StuckInv, HostInv
  <2>5. \A s \in Left' : Kept(s)'
    BY <1>Restart, <2>1, <2>2, Zenon DEF Left, Kept, MainClaims
  <2>6. ASSUME NEW v \in Service
        PROVE  ActorGone(v)'
    <3>1. svc'[v].pc = "off"
      BY <2>1 DEF Off
    <3> QED BY <3>1 DEF ActorGone, Busy
  <2>7. \A c \in Call : CallGone(c)'
    BY <1>Restart, <2>1 DEF CallGone, Removed
  <2>8. ASSUME NEW r \in Reaper
        PROVE  ReapGone(r)'
    <3>1. reap'[r].pc = "none"
      BY <2>1 DEF NoReap
    <3> QED BY <3>1 DEF ReapGone
  <2>9. DeadIsOver'
    BY <1>Restart, <2>1 DEF DeadIsOver, Tracked
  <2>10. audit'.pc # "reap"
    BY <1>Restart, <2>2
  <2> QED BY <1>Restart, <2>1, <2>4, <2>5, <2>6, <2>7, <2>8, <2>9, <2>10, Zenon DEF GoneInv
<1>1. ASSUME \/ \E s \in Sandbox : VMBoots(s) \/ VMDies(s)
             \/ \E n \in Capacities : SetCapacity(n)
             \/ UNCHANGED vars
      PROVE  GoneInv'
  <2>0. /\ GoneInv /\ HostType
        /\ UNCHANGED <<services, deleting, state, svc, call, reap, audit, dir, volume, stuck>>
    BY <1>1, Zenon DEF Calm, VMBoots, VMDies, SetCapacity, vars, mapVars, hostVars, volumeVars, vmVars, procVars
  <2>1. \A s \in Sandbox : (vm'[s] # "none" => vm[s] # "none") /\ (Over(s) => Over(s)')
    <3>1. ASSUME NEW s \in Sandbox, VMDies(s)
          PROVE  \A t \in Sandbox : (vm'[t] # "none" => vm[t] # "none") /\ (Over(t) => Over(t)')
      BY <2>0, <3>1, OverStays, Zenon DEF VMDies
    <3>2. ASSUME NEW s \in Sandbox, VMBoots(s)
          PROVE  \A t \in Sandbox : (vm'[t] # "none" => vm[t] # "none") /\ (Over(t) => Over(t)')
      BY <2>0, <3>2 DEF VMBoots, Over, HostType
    <3>3. CASE UNCHANGED <<vm, dying>>
      BY <3>3 DEF Over
    <3> QED BY <1>1, <3>1, <3>2, <3>3, Zenon DEF SetCapacity, vars, hostVars, vmVars
  <2>2. /\ volume' \subseteq dir' /\ stuck \subseteq volume'
        /\ \A s \in Left' : Kept(s)'
    BY <2>0 DEF GoneInv, StuckInv, Kept, MainClaims, Left
  <2>3. audit'.pc = "reap" =>
            \A s \in Sandbox : MainClaims(s)' => s \notin Left' \/ (audit.pc = "reap" /\ MainClaims(s))
    BY <2>0, Zenon DEF MainClaims
  <2> QED BY <2>0, <2>1, <2>2, <2>3, GoneFrame
<1>2. ASSUME NEW c \in Call,
             \/ \E s \in Sandbox : Create(c, s) \/ Stop(c, s) \/ Remove(c, s)
             \/ Take(c) \/ ServiceGone(c) \/ CallReturns(c)
      PROVE  GoneInv'
  BY <1>2, <1>Create, <1>Ask, <1>Take, <1>ServiceGone, <1>Return, Zenon
<1>3. ASSUME NEW v \in Service, ActorStep(v) \/ Poll(v) \/ VMExited(v) \/ Panic(v)
      PROVE  GoneInv'
  BY <1>3, <1>NewVM, <1>CreateVolume, <1>Spawn, <1>Teardown, <1>Watch, Zenon DEF ActorStep
<1>4. ASSUME NEW r \in Reaper, ReapStep(r)
      PROVE  GoneInv'
  BY <1>4, <1>ReapMoves, <1>Reaped, Zenon DEF ReapStep
<1>5. ASSUME MainStep
      PROVE  GoneInv'
  BY <1>5, <1>Liveness, <1>Audit, <1>Recover, Zenon DEF MainStep
<1> QED BY <1>1, <1>2, <1>3, <1>4, <1>5, <1>Restart, Zenon DEF Next

LEMMA GoneInvariant == Faults = {} => (Spec => []GoneInv)
<1> SUFFICES ASSUME Faults = {}
             PROVE  Spec => []GoneInv
  OBVIOUS
<1>1. ASSUME Init
      PROVE  GoneInv
  <2>1. volume \subseteq dir /\ StuckInv /\ Left = {} /\ audit.pc # "reap" /\ DeadIsOver
    BY <1>1 DEF Init, StuckInv, Left, DeadIsOver, Tracked
  <2>2. \A v \in Service : ActorGone(v)
    BY <1>1 DEF Init, ActorGone, Off, Busy
  <2>3. \A c \in Call : CallGone(c)
    BY <1>1 DEF Init, CallGone, Removed
  <2>4. \A r \in Reaper : ReapGone(r)
    BY <1>1 DEF Init, ReapGone, NoReap
  <2> QED BY <2>1, <2>2, <2>3, <2>4, Zenon DEF GoneInv
<1>2. ASSUME OwnerInv, HostType, OwnerInv', HostType', HostInv, PromiseInv, PromiseInv', GoneInv,
             [Next]_vars
      PROVE  GoneInv'
  <2>1. Calm
    BY <1>2, Zenon DEF Calm
  <2> QED BY <1>2, <2>1, GoneKept, Zenon
<1> QED BY <1>1, <1>2, OwnerInvariant, HostInvariant, PromiseInvariant, PTL DEF Spec

(* ErrSandboxNotFound means gone: if teardowns work and no actor panics,   *)
(* every directory on the host of a serving worker is of a sandbox the     *)
(* Manager tracks or is removing, or one whose device no removal can       *)
(* remove, whatever order the requests, the audit and restarts come in.    *)
(* (A teardown that failed leaves its directory to the next audit.)        *)
THEOREM UntrackedIsGone == Faults = {} => (Spec => []NotFoundIsGone)
<1> SUFFICES ASSUME Faults = {}
             PROVE  Spec => []NotFoundIsGone
  OBVIOUS
<1>1. OwnerInv /\ HostType /\ GoneInv => NotFoundIsGone
  BY DEF GoneInv, Kept, NotFoundIsGone, Serving, Tracked, HostType, Left
<1> QED BY <1>1, OwnerInvariant, GoneInvariant, PTL

(* Remove answers without an error only when nothing of the sandbox is     *)
(* left on the host, also when it overtook the Create of its sandbox or    *)
(* found the actor gone; if teardowns work and no actor panics.  Only what *)
(* a restart left of an earlier sandbox with this ID, a device no removal  *)
(* can remove, may still be there.                                         *)
THEOREM RemoveLeavesNothing == Faults = {} => (Spec => []RemoveReleases)
<1> SUFFICES ASSUME Faults = {}
             PROVE  Spec => []RemoveReleases
  OBVIOUS
<1>1. ASSUME OwnerInv, HostType, HostInv, GoneInv
      PROVE  RemoveReleases
  <2> SUFFICES ASSUME NEW c \in Call, call[c].pc = "replied", call[c].kind = "remove",
                      call[c].id \notin stuck
               PROVE  call[c].id \notin dir \cup volume /\ vm[call[c].id] = "none"
    BY Zenon DEF RemoveReleases
  <2>1. call[c] # Idle /\ call[c].id \in Sandbox
    BY <1>1, CallFields DEF OwnerInv
  <2>2. call[c].id \notin Left /\ volume \subseteq dir
    BY <1>1, <2>1, Zenon DEF GoneInv, CallGone, Removed
  <2> QED BY <1>1, <2>1, <2>2 DEF HostInv, Left
<1> QED BY <1>1, OwnerInvariant, HostInvariant, GoneInvariant, PTL

(* A sandbox the inventory lists as DEAD has no VM, or one whose shim is   *)
(* gone and which the kernel is killing, whichever of its actor, the audit *)
(* and the recovery said so; if teardowns work and no actor panics.        *)
THEOREM DeadAreOver == Faults = {} => (Spec => []DeadIsOver)
<1> SUFFICES ASSUME Faults = {}
             PROVE  Spec => []DeadIsOver
  OBVIOUS
<1>1. GoneInv => DeadIsOver
  BY Zenon DEF GoneInv
<1> QED BY <1>1, GoneInvariant, PTL

=============================================================================
