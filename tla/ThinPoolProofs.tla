--------------------------- MODULE ThinPoolProofs ---------------------------
(***************************************************************************)
(* Proofs about ThinPool, for any number of sandboxes, thin IDs and device *)
(* numbers, any failures of the kernel's calls, and any deaths of worker,  *)
(* import and host.                                                        *)
(***************************************************************************)
EXTENDS ThinPool, TLAPS

(* Where a call stands, what it has drawn, and what its device leads to.   *)
CallInv(s) ==
    /\ op[s].pc \in {"idle", "snap"} => op[s].id = NoID
    /\ op[s].pc \notin {"idle", "snap"} => op[s].id \in SandboxID
    /\ op[s].pc \in {"create", "undo"} => dev[s].id # op[s].id
    /\ op[s].pc \in {"activate", "unmake"} => dev[s].id = NoID
    /\ op[s].pc \in {"node", "ready", "rmdev"} => dev[s].id = op[s].id
    /\ op[s].pc \in {"activate", "node", "ready"} => dev[s].minor = op[s].minor
    /\ op[s].pc \in {"activate", "node", "ready"} => op[s].minor # NoMinor
    /\ op[s].pc = "ready" => node[s] = op[s].minor
    /\ op[s].pc \in {"rmnode", "delete"} => dev[s] = NoDevice
    /\ op[s].pc = "delete" => node[s] = NoMinor
    /\ op[s].pc # "idle" => op[s].result # "removed"
    /\ op[s].result = "removed" => dev[s] = NoDevice /\ node[s] = NoMinor

(* What a snapshot is taken of is whole, or gone: the import does not      *)
(* write where a create has looked.                                        *)
ImageInv(s) ==
    /\ op[s].pc = "snap" => op[s].base \in complete \/ op[s].base \notin ids
    /\ op[s].pc = "snap" /\ import.pc \in {"clear", "thin", "write", "record"} => op[s].base # import.id
    /\ op[s].pc \in {"create", "activate", "node", "ready"} => op[s].id \in complete

(* The import works on an ID that is not the base's until it is recorded.  *)
ImportInv ==
    /\ import.pc \in {"clear", "thin", "write", "record"} =>
           import.id \in BaseID /\ import.id # base /\ import.old = base
    /\ import.pc \in {"write", "record"} => import.id \in ids
    /\ import.pc = "record" => import.id \in complete
    /\ import.pc = "drop" => import.id = base /\ import.old # base

(* What was given up is nobody's any more.                                 *)
LeakedInv == \A s \in Sandbox : leaked \cap Uses(s) = {}

IDsInv == OwnIDs /\ IDsAccounted /\ LeakedInv

PoolInv ==
    /\ TypeOK
    /\ \A s \in Sandbox : CallInv(s)
    /\ IDsInv
    /\ ImportInv
    /\ BaseIntact
    /\ \A s \in Sandbox : ImageInv(s)

-----------------------------------------------------------------------------
(* Facts about IDs and records.                                            *)

LEMMA IDSets ==
    /\ NoID \notin BaseID
    /\ NoID \notin SandboxID
    /\ \A i \in BaseID : i \notin SandboxID
BY PoolAssumption DEF NoID, BaseID, SandboxID

(* The cycle of base IDs stays in it and moves on.                         *)
LEMMA NewIDMoves ==
    ASSUME NEW b \in BaseID \cup {NoID}
    PROVE  NewID(b) \in BaseID /\ NewID(b) # b
BY PoolAssumption DEF NewID, BaseID, NoID

LEMMA CallRecords ==
    ASSUME NEW c \in Op, NEW pc \in OpPC
    PROVE  /\ [c EXCEPT !.pc = pc] \in Op
           /\ [c EXCEPT !.pc = pc].pc = pc
           /\ [c EXCEPT !.pc = pc].base = c.base
           /\ [c EXCEPT !.pc = pc].id = c.id
           /\ [c EXCEPT !.pc = pc].minor = c.minor
           /\ [c EXCEPT !.pc = pc].result = c.result
BY DEF Op

LEMMA CreatedRecord ==
    ASSUME NEW c \in Op, NEW i \in SandboxID
    PROVE  LET d == [c EXCEPT !.pc = "create", !.id = i] IN
           d \in Op /\ d.pc = "create" /\ d.id = i /\ d.result = c.result
BY Zenon DEF Op, OpPC

LEMMA DeviceRecord ==
    ASSUME NEW c \in Op, NEW m \in Minor
    PROVE  LET d == [c EXCEPT !.pc = "activate", !.minor = m] IN
           d \in Op /\ d.pc = "activate" /\ d.id = c.id /\ d.minor = m /\ d.result = c.result
BY Zenon DEF Op, OpPC

LEMMA ReadyRecord ==
    ASSUME NEW c \in Op
    PROVE  LET d == [c EXCEPT !.pc = "ready", !.result = "created"] IN
           d \in Op /\ d.pc = "ready" /\ d.id = c.id /\ d.minor = c.minor /\ d.result = "created"
BY Zenon DEF Op, OpPC, Result

LEMMA ReturnedRecord ==
    ASSUME NEW r \in Result
    PROVE  /\ Returned(r) \in Op
           /\ Returned(r).pc = "idle" /\ Returned(r).id = NoID /\ Returned(r).result = r
BY DEF Returned, Op, OpPC

LEMMA StartedRecords ==
    /\ \A b \in BaseID :
           LET c == [Returned("none") EXCEPT !.pc = "snap", !.base = b] IN
           c \in Op /\ c.pc = "snap" /\ c.base = b /\ c.id = NoID /\ c.result = "none"
    /\ \A i \in SandboxID :
           LET c == [Returned("none") EXCEPT !.pc = "rmdev", !.id = i] IN
           c \in Op /\ c.pc = "rmdev" /\ c.id = i /\ c.result = "none"
BY Zenon DEF Returned, Op, OpPC, Result

LEMMA DeviceRecords ==
    /\ NoDevice.id = NoID /\ NoDevice.minor = NoMinor
    /\ \A m \in Minor :
           LET d == [NoDevice EXCEPT !.minor = m] IN d \in Device /\ d.minor = m /\ d.id = NoID
    /\ \A d \in Device, i \in SandboxID :
           LET e == [d EXCEPT !.id = i] IN e \in Device /\ e.minor = d.minor /\ e.id = i
    /\ \A d \in Device \cup {NoDevice} :
           /\ d.minor # NoMinor => d \in Device
           /\ d # NoDevice => d.minor \in Minor
           /\ d.id \in SandboxID \cup {NoID}
BY PoolAssumption DEF NoDevice, Device

-----------------------------------------------------------------------------
(* The step of one sandbox's call.                                         *)

LEMMA GotoFields ==
    ASSUME TypeOK, NEW s \in Sandbox, NEW pc \in OpPC, Goto(s, pc)
    PROVE  /\ op' \in [Sandbox -> Op]
           /\ op'[s].pc = pc /\ op'[s].id = op[s].id /\ op'[s].minor = op[s].minor
           /\ op'[s].result = op[s].result
           /\ \A t \in Sandbox \ {s} : op'[t] = op[t]
<1> DEFINE c == [op[s] EXCEPT !.pc = pc]
<1>1. c \in Op /\ c.pc = pc /\ c.id = op[s].id /\ c.minor = op[s].minor /\ c.result = op[s].result
  BY CallRecords DEF TypeOK
<1>2. op' = [op EXCEPT ![s] = c]
  BY DEF Goto, Becomes
<1> HIDE DEF c
<1> QED
  BY <1>1, <1>2 DEF TypeOK

LEMMA ReturnsFields ==
    ASSUME TypeOK, NEW s \in Sandbox, NEW r \in Result, Returns(s, r)
    PROVE  /\ op' \in [Sandbox -> Op]
           /\ op'[s].pc = "idle" /\ op'[s].id = NoID /\ op'[s].result = r
           /\ \A t \in Sandbox \ {s} : op'[t] = op[t]
BY ReturnedRecord DEF Returns, Becomes, TypeOK

(* The types of calls, devices and nodes, and CallInv, need no other       *)
(* sandbox.                                                                *)
Local(s) ==
    /\ op' \in [Sandbox -> Op]
    /\ dev' \in [Sandbox -> Device \cup {NoDevice}]
    /\ node' \in [Sandbox -> Minor \cup {NoMinor}]
    /\ \A t \in Sandbox \ {s} : op'[t] = op[t] /\ dev'[t] = dev[t] /\ node'[t] = node[t]
    /\ CallInv(s)'

LEMMA LocalStep ==
    ASSUME TypeOK, NEW s \in Sandbox, CallInv(s), Uses(s) \subseteq ids, VolumeStep(s)
    PROVE  Local(s)
<1>t. /\ op \in [Sandbox -> Op] /\ op[s] \in Op
      /\ dev \in [Sandbox -> Device \cup {NoDevice}] /\ dev[s] \in Device \cup {NoDevice}
      /\ node \in [Sandbox -> Minor \cup {NoMinor}]
      /\ base \in BaseID \cup {NoID}
  BY DEF TypeOK
<1>b. \A c : Becomes(s, c) /\ c \in Op =>
          /\ op' \in [Sandbox -> Op]
          /\ op'[s] = c
          /\ \A t \in Sandbox \ {s} : op'[t] = op[t]
  BY <1>t DEF Becomes
<1>g. \A pc \in OpPC : Goto(s, pc) =>
          /\ op' \in [Sandbox -> Op]
          /\ op'[s].pc = pc /\ op'[s].id = op[s].id /\ op'[s].minor = op[s].minor
          /\ op'[s].result = op[s].result
          /\ \A t \in Sandbox \ {s} : op'[t] = op[t]
  BY GotoFields
<1>f. \A r \in Result : Returns(s, r) =>
          /\ op' \in [Sandbox -> Op]
          /\ op'[s].pc = "idle" /\ op'[s].id = NoID /\ op'[s].result = r
          /\ \A t \in Sandbox \ {s} : op'[t] = op[t]
  BY ReturnsFields
<1> USE DEF Local, CallInv
<1>1. CASE LoadBase(s)
  <2> DEFINE c == [Returned("none") EXCEPT !.pc = "snap", !.base = base]
  <2>1. c \in Op /\ c.pc = "snap" /\ c.id = NoID /\ c.result = "none"
    BY <1>1, <1>t, StartedRecords, Zenon DEF LoadBase
  <2>2. Becomes(s, c) /\ dev' = dev /\ node' = node
    BY <1>1 DEF LoadBase
  <2> HIDE DEF c
  <2> QED
    BY <1>t, <1>b, <2>1, <2>2
<1>2. CASE CreateSnapshot(s)
  <2>1. op[s].pc = "snap" /\ dev' = dev /\ node' = node
    BY <1>2, Zenon DEF CreateSnapshot
  <2>2. CASE Returns(s, "failed")
    BY <1>t, <1>f, <2>1, <2>2 DEF Result
  <2>3. ASSUME NEW i \in SandboxID \ ids, Becomes(s, [op[s] EXCEPT !.pc = "create", !.id = i])
        PROVE  Local(s)
    <3> DEFINE c == [op[s] EXCEPT !.pc = "create", !.id = i]
    <3>1. c \in Op /\ c.pc = "create" /\ c.id = i /\ c.result = op[s].result
      BY <1>t, CreatedRecord, Zenon
    <3>2. dev[s].id # i
      BY IDSets DEF Uses
    <3>3. Becomes(s, c)
      BY <2>3
    <3> HIDE DEF c
    <3> QED
      BY <1>t, <1>b, <2>1, <2>3, <3>1, <3>2, <3>3
  <2> QED
    BY <1>2, <2>2, <2>3, Zenon DEF CreateSnapshot
<1>3. CASE CreateDevice(s)
  <2>1. op[s].pc = "create" /\ node' = node
    BY <1>3, Zenon DEF CreateDevice
  <2>2. CASE Goto(s, "undo") /\ dev' = dev
    BY <1>t, <1>g, <2>1, <2>2 DEF OpPC
  <2>3. ASSUME NEW m \in FreeMinor, dev[s] = NoDevice, dev' = [dev EXCEPT ![s].minor = m],
               Becomes(s, [op[s] EXCEPT !.pc = "activate", !.minor = m])
        PROVE  Local(s)
    <3> DEFINE c == [op[s] EXCEPT !.pc = "activate", !.minor = m]
               d == [NoDevice EXCEPT !.minor = m]
    <3>1. m \in Minor /\ m # NoMinor
      BY PoolAssumption DEF FreeMinor
    <3>2. c \in Op /\ c.pc = "activate" /\ c.id = op[s].id /\ c.minor = m /\ c.result = op[s].result
      BY <1>t, <3>1, DeviceRecord, Zenon
    <3>3. d \in Device /\ d.minor = m /\ d.id = NoID
      BY <3>1, DeviceRecords
    <3>4. dev' = [dev EXCEPT ![s] = d]
      BY <2>3
    <3>5. Becomes(s, c)
      BY <2>3
    <3> HIDE DEF c, d
    <3> QED
      BY <1>t, <1>b, <2>1, <3>1, <3>2, <3>3, <3>4, <3>5
  <2> QED
    BY <1>3, <2>2, <2>3, Zenon DEF CreateDevice
<1>4. CASE Activate(s)
  <2>1. op[s].pc = "activate" /\ node' = node
    BY <1>4 DEF Activate
  <2>2. CASE Goto(s, "unmake") /\ dev' = dev
    BY <1>t, <1>g, <2>1, <2>2 DEF OpPC
  <2>3. CASE dev' = [dev EXCEPT ![s].id = op[s].id] /\ Goto(s, "node")
    <3> DEFINE d == [dev[s] EXCEPT !.id = op[s].id]
    <3>1. dev[s] \in Device /\ op[s].id \in SandboxID
      BY <1>t, <2>1, DeviceRecords
    <3>2. d \in Device /\ d.minor = dev[s].minor /\ d.id = op[s].id
      BY <3>1, DeviceRecords
    <3>3. dev' = [dev EXCEPT ![s] = d]
      BY <2>3
    <3> HIDE DEF d
    <3> QED
      BY <1>t, <1>g, <2>1, <2>3, <3>1, <3>2, <3>3 DEF OpPC
  <2> QED
    BY <1>4, <2>2, <2>3 DEF Activate
<1>5. CASE Unmake(s)
  <2>1. op[s].pc = "unmake" /\ node' = node /\ Goto(s, "undo")
    BY <1>5 DEF Unmake
  <2>2. dev' \in [Sandbox -> Device \cup {NoDevice}] /\ \A t \in Sandbox \ {s} : dev'[t] = dev[t]
    BY <1>5, <1>t DEF Unmake
  <2>3. dev'[s].id = NoID
    BY <1>5, <1>t, <2>1, DeviceRecords DEF Unmake
  <2> QED
    BY <1>t, <1>g, <2>1, <2>2, <2>3, IDSets DEF OpPC
<1>6. CASE Undo(s)
  BY <1>6, <1>t, <1>f DEF Undo, DeleteID, Result
<1>7. CASE EnsureNode(s)
  <2>1. op[s].pc = "node" /\ dev' = dev
    BY <1>7 DEF EnsureNode
  <2>2. CASE node' \in {node, [node EXCEPT ![s] = NoMinor]} /\ Goto(s, "rmdev")
    BY <1>t, <1>g, <2>1, <2>2 DEF OpPC
  <2>3. CASE /\ node' = [node EXCEPT ![s] = op[s].minor]
             /\ Becomes(s, [op[s] EXCEPT !.pc = "ready", !.result = "created"])
    <3> DEFINE c == [op[s] EXCEPT !.pc = "ready", !.result = "created"]
    <3>1. c \in Op /\ c.pc = "ready" /\ c.id = op[s].id /\ c.minor = op[s].minor /\ c.result = "created"
      BY <1>t, ReadyRecord, Zenon
    <3>2. op[s].minor \in Minor \cup {NoMinor}
      BY <1>t DEF Op
    <3>3. Becomes(s, c)
      BY <2>3
    <3> HIDE DEF c
    <3> QED
      BY <1>t, <1>b, <2>1, <2>3, <3>1, <3>2, <3>3
  <2> QED
    BY <1>7, <2>2, <2>3 DEF EnsureNode
<1>8. CASE UdevMakesNode(s)
  <2>1. dev[s].id # NoID /\ op' = op /\ dev' = dev /\ node' = [node EXCEPT ![s] = dev[s].minor]
    BY <1>8 DEF UdevMakesNode
  <2>2. dev[s] # NoDevice /\ dev[s].minor \in Minor
    BY <1>t, <2>1, DeviceRecords
  <2> QED
    BY <1>t, <2>1, <2>2
<1>9. CASE ReadTable(s)
  <2>1. op[s].pc \in {"idle", "ready"} /\ dev' = dev
    BY <1>9 DEF ReadTable
  <2>2. CASE dev[s] = NoDevice
    BY <1>9, <1>t, <1>f, <2>1, <2>2 DEF ReadTable, Result
  <2>3. CASE dev[s] # NoDevice /\ dev[s].id \notin SandboxID
    BY <1>9, <1>t, <1>f, <2>1, <2>3 DEF ReadTable, Result
  <2>4. CASE dev[s] # NoDevice /\ dev[s].id \in SandboxID
    <3> DEFINE c == [Returned("none") EXCEPT !.pc = "rmdev", !.id = dev[s].id]
    <3>1. c \in Op /\ c.pc = "rmdev" /\ c.id = dev[s].id /\ c.result = "none"
      BY <2>4, StartedRecords, Zenon
    <3>2. Becomes(s, c) /\ node' = node
      BY <1>9, <2>4 DEF ReadTable
    <3> HIDE DEF c
    <3> QED
      BY <1>t, <1>b, <2>1, <2>4, <3>1, <3>2
  <2> QED
    BY <2>2, <2>3, <2>4
<1>10. CASE RemoveDevice(s)
  <2>1. op[s].pc = "rmdev" /\ node' = node
    BY <1>10 DEF RemoveDevice
  <2>2. CASE dev' = [dev EXCEPT ![s] = NoDevice] /\ Goto(s, "rmnode")
    BY <1>t, <1>g, <2>1, <2>2 DEF OpPC
  <2>3. CASE dev' = dev /\ Returns(s, "failed")
    BY <1>t, <1>f, <2>1, <2>3 DEF Result
  <2> QED
    BY <1>10, <2>2, <2>3 DEF RemoveDevice
<1>11. CASE RemoveNode(s)
  <2>1. op[s].pc = "rmnode" /\ dev' = dev
    BY <1>11 DEF RemoveNode
  <2>2. CASE node' = [node EXCEPT ![s] = NoMinor] /\ Goto(s, "delete")
    BY <1>t, <1>g, <2>1, <2>2 DEF OpPC
  <2>3. CASE node' = node /\ Returns(s, "failed")
    BY <1>t, <1>f, <2>1, <2>3 DEF Result
  <2> QED
    BY <1>11, <2>2, <2>3 DEF RemoveNode
<1>12. CASE Delete(s)
  BY <1>12, <1>t, <1>f DEF Delete, DeleteID, Result
<1> QED
  BY <1>1, <1>2, <1>3, <1>4, <1>5, <1>6, <1>7, <1>8, <1>9, <1>10, <1>11, <1>12, Zenon DEF VolumeStep

-----------------------------------------------------------------------------
(* What a call does to the thin IDs: nothing, or it draws one, gives one   *)
(* back, or gives one up.                                                  *)

KeepsIDs(s) ==
    ids' = ids /\ complete' = complete /\ leaked' = leaked /\ Uses(s)' = Uses(s)

Draws(s, i) ==
    /\ i \in SandboxID \ ids
    /\ op[s].pc = "snap" /\ op[s].base \in ids
    /\ ids' = ids \cup {i} /\ leaked' = leaked /\ Uses(s)' = Uses(s) \cup {i}
    /\ complete' = IF op[s].base \in complete THEN complete \cup {i} ELSE complete

GivesBack(s, i) ==
    /\ i \in SandboxID /\ i \in Uses(s)
    /\ ids' = ids \ {i} /\ complete' = complete \ {i}
    /\ leaked' = leaked /\ Uses(s)' = Uses(s) \ {i}

GivesUp(s, i) ==
    /\ i \in SandboxID /\ i \in Uses(s)
    /\ ids' = ids /\ complete' = complete
    /\ leaked' = leaked \cup {i} /\ Uses(s)' = Uses(s) \ {i}

LEMMA IDSteps ==
    ASSUME TypeOK, NEW s \in Sandbox, CallInv(s), VolumeStep(s)
    PROVE  /\ base' = base /\ import' = import
           /\ KeepsIDs(s) \/ \E i \in SandboxID : Draws(s, i) \/ GivesBack(s, i) \/ GivesUp(s, i)
<1>t. /\ op \in [Sandbox -> Op] /\ op[s] \in Op
      /\ dev \in [Sandbox -> Device \cup {NoDevice}] /\ dev[s] \in Device \cup {NoDevice}
      /\ base \in BaseID \cup {NoID}
  BY DEF TypeOK
<1>b. \A c : Becomes(s, c) => op'[s] = c
  BY <1>t DEF Becomes
<1>g. \A pc \in OpPC : Goto(s, pc) => op'[s].id = op[s].id
  BY GotoFields
<1>f. \A r \in Result : Returns(s, r) => op'[s].id = NoID
  BY ReturnsFields
<1>k. /\ op'[s].id = op[s].id
      /\ dev'[s].id = dev[s].id
      /\ ids' = ids /\ complete' = complete /\ leaked' = leaked
      => KeepsIDs(s)
  BY DEF KeepsIDs, Uses
<1> USE DEF poolVars
<1>1. CASE LoadBase(s)
  <2>1. base \in BaseID /\ op[s].id = NoID
    BY <1>1, <1>t DEF LoadBase, CallInv
  <2>2. op'[s].id = NoID
    <3> DEFINE c == [Returned("none") EXCEPT !.pc = "snap", !.base = base]
    <3>1. c.id = NoID
      BY <2>1, StartedRecords, Zenon
    <3>2. op'[s] = c
      BY <1>1, <1>b DEF LoadBase
    <3> HIDE DEF c
    <3> QED
      BY <3>1, <3>2
  <2> QED
    BY <1>1, <1>k, <2>1, <2>2 DEF LoadBase
<1>2. CASE CreateSnapshot(s)
  <2>1. op[s].pc = "snap" /\ op[s].id = NoID /\ dev' = dev /\ base' = base /\ import' = import /\ leaked' = leaked
    BY <1>2, Zenon DEF CreateSnapshot, CallInv
  <2>2. CASE Returns(s, "failed") /\ ids' = ids /\ complete' = complete
    BY <1>f, <1>k, <2>1, <2>2 DEF Result
  <2>3. ASSUME NEW i \in SandboxID \ ids, op[s].base \in ids, ids' = ids \cup {i},
               complete' = IF op[s].base \in complete THEN complete \cup {i} ELSE complete,
               Becomes(s, [op[s] EXCEPT !.pc = "create", !.id = i])
        PROVE  Draws(s, i)
    <3>1. op'[s].id = i
      <4> DEFINE c == [op[s] EXCEPT !.pc = "create", !.id = i]
      <4>1. c.id = i
        BY <1>t, CreatedRecord, Zenon
      <4>2. op'[s] = c
        BY <1>b, <2>3
      <4> HIDE DEF c
      <4> QED
        BY <4>1, <4>2
    <3>2. Uses(s)' = Uses(s) \cup {i}
      BY <2>1, <3>1, IDSets DEF Uses
    <3> QED
      BY <2>1, <2>3, <3>2 DEF Draws
  <2> QED
    BY <1>2, <2>1, <2>2, <2>3, Zenon DEF CreateSnapshot
<1>3. CASE CreateDevice(s)
  <2>1. op'[s].id = op[s].id
    <3>1. CASE Goto(s, "undo")
      BY <1>g, <3>1 DEF OpPC
    <3>2. ASSUME NEW m \in Minor, Becomes(s, [op[s] EXCEPT !.pc = "activate", !.minor = m])
          PROVE  op'[s].id = op[s].id
      <4> DEFINE c == [op[s] EXCEPT !.pc = "activate", !.minor = m]
      <4>1. c.id = op[s].id
        BY <1>t, DeviceRecord, Zenon
      <4>2. op'[s] = c
        BY <1>b, <3>2
      <4> HIDE DEF c
      <4> QED
        BY <4>1, <4>2
    <3> QED
      BY <1>3, <3>1, <3>2, Zenon DEF CreateDevice, FreeMinor
  <2>2. dev'[s].id = dev[s].id
    <3>1. CASE dev' = dev
      BY <3>1
    <3>2. ASSUME NEW m \in Minor, dev[s] = NoDevice, dev' = [dev EXCEPT ![s].minor = m]
          PROVE  dev'[s].id = dev[s].id
      BY <1>t, <3>2 DEF NoDevice
    <3> QED
      BY <1>3, <3>1, <3>2, Zenon DEF CreateDevice, FreeMinor
  <2> QED
    BY <1>3, <1>k, <2>1, <2>2, Zenon DEF CreateDevice
<1>4. CASE Activate(s)
  <2>1. op'[s].id = op[s].id /\ dev[s].id = NoID
    BY <1>4, <1>g DEF Activate, CallInv, OpPC
  <2>2. dev'[s].id \in {dev[s].id, op[s].id}
    BY <1>4, <1>t DEF Activate, Device, NoDevice
  <2>3. Uses(s)' = Uses(s)
    BY <2>1, <2>2 DEF Uses
  <2> QED
    BY <1>4, <2>3 DEF Activate, KeepsIDs
<1>5. CASE Unmake(s)
  <2>1. op'[s].id = op[s].id /\ dev[s].id = NoID
    BY <1>5, <1>g DEF Unmake, CallInv, OpPC
  <2>2. dev'[s].id = NoID
    BY <1>5, <1>t, <2>1, DeviceRecords DEF Unmake
  <2> QED
    BY <1>5, <1>k, <2>1, <2>2 DEF Unmake
<1>6. ASSUME NEW r \in Result, DeleteID(s, r), op[s].pc \in {"undo", "delete"},
             base' = base, import' = import, dev' = dev
      PROVE  GivesBack(s, op[s].id) \/ GivesUp(s, op[s].id)
  <2>1. op[s].id \in SandboxID /\ dev[s].id # op[s].id
    BY <1>6, DeviceRecords, IDSets DEF CallInv
  <2>2. op'[s].id = NoID
    BY <1>6, <1>f DEF DeleteID, Result
  <2>3. op[s].id \in Uses(s) /\ Uses(s)' = Uses(s) \ {op[s].id}
    BY <1>6, <2>1, <2>2, IDSets DEF Uses
  <2> QED
    BY <1>6, <2>1, <2>3 DEF DeleteID, Forget, GivesBack, GivesUp
<1>7. CASE Undo(s) \/ Delete(s)
  <2>1. /\ op[s].pc \in {"undo", "delete"} /\ op[s].id \in SandboxID
        /\ base' = base /\ import' = import /\ dev' = dev
    BY <1>7 DEF Undo, Delete, CallInv
  <2>2. \E r \in Result : DeleteID(s, r)
    BY <1>7 DEF Undo, Delete, Result
  <2> QED
    BY <1>6, <2>1, <2>2
<1>8. CASE EnsureNode(s)
  <2>1. op'[s].id = op[s].id
    <3>1. CASE Goto(s, "rmdev")
      BY <1>g, <3>1 DEF OpPC
    <3>2. CASE Becomes(s, [op[s] EXCEPT !.pc = "ready", !.result = "created"])
      BY <1>t, <1>b, <3>2, ReadyRecord, Zenon
    <3> QED
      BY <1>8, <3>1, <3>2 DEF EnsureNode
  <2> QED
    BY <1>8, <1>k, <2>1 DEF EnsureNode
<1>9. CASE UdevMakesNode(s)
  BY <1>9, <1>k DEF UdevMakesNode
<1>10. CASE ReadTable(s)
  <2>1. op[s].id = dev[s].id \/ op[s].id = NoID
    BY <1>10 DEF ReadTable, CallInv
  <2>2. op'[s].id = dev[s].id \/ (op'[s].id = NoID /\ op[s].id = NoID)
    <3>1. CASE dev[s].id \in SandboxID
      <4> DEFINE c == [Returned("none") EXCEPT !.pc = "rmdev", !.id = dev[s].id]
      <4>1. c.id = dev[s].id
        BY <3>1, StartedRecords, Zenon
      <4>2. dev[s] # NoDevice
        BY <3>1, DeviceRecords, IDSets
      <4>3. op'[s] = c
        BY <1>10, <1>b, <3>1, <4>2 DEF ReadTable
      <4> HIDE DEF c
      <4> QED
        BY <4>1, <4>3
    <3>2. CASE dev[s].id \notin SandboxID
      <4>1. dev[s].id = NoID
        BY <1>t, <3>2, DeviceRecords
      <4>2. op'[s].id = NoID
        BY <1>10, <1>f, <3>2 DEF ReadTable, Result
      <4> QED
        BY <4>1, <4>2
    <3> QED
      BY <3>1, <3>2
  <2>3. dev' = dev /\ Uses(s)' = Uses(s)
    BY <1>10, <2>1, <2>2 DEF ReadTable, Uses
  <2> QED
    BY <1>10, <2>3 DEF ReadTable, KeepsIDs
<1>11. CASE RemoveDevice(s)
  <2>1. op[s].id = dev[s].id
    BY <1>11 DEF RemoveDevice, CallInv
  <2>2. \/ op'[s].id = op[s].id /\ dev'[s] = NoDevice
        \/ op'[s].id = NoID /\ dev'[s] = dev[s]
    BY <1>11, <1>t, <1>g, <1>f DEF RemoveDevice, OpPC, Result
  <2>3. Uses(s)' = Uses(s)
    BY <2>1, <2>2, DeviceRecords DEF Uses
  <2> QED
    BY <1>11, <2>3 DEF RemoveDevice, KeepsIDs
<1>12. CASE RemoveNode(s)
  <2>1. dev[s].id = NoID /\ op[s].id \in SandboxID /\ dev' = dev
    BY <1>12, DeviceRecords DEF RemoveNode, CallInv
  <2>2. CASE Goto(s, "delete") /\ leaked' = leaked
    BY <1>12, <1>g, <1>k, <2>1, <2>2 DEF RemoveNode, OpPC
  <2>3. CASE Returns(s, "failed") /\ leaked' = leaked \cup {op[s].id}
    <3>1. op'[s].id = NoID
      BY <1>f, <2>3 DEF Result
    <3>2. op[s].id \in Uses(s) /\ Uses(s)' = Uses(s) \ {op[s].id}
      BY <2>1, <3>1, IDSets DEF Uses
    <3>3. GivesUp(s, op[s].id)
      BY <1>12, <2>1, <2>3, <3>2 DEF RemoveNode, GivesUp
    <3> QED
      BY <1>12, <2>1, <3>3 DEF RemoveNode
  <2> QED
    BY <1>12, <2>2, <2>3 DEF RemoveNode
<1> QED
  BY <1>1, <1>2, <1>3, <1>4, <1>5, <1>7, <1>8, <1>9, <1>10, <1>11, <1>12 DEF VolumeStep

(* Images: a create that is under way has a whole one, or will fail.       *)
LEMMA ImageStep ==
    ASSUME PoolInv, NEW s \in Sandbox, VolumeStep(s)
    PROVE  ImageInv(s)'
<1>t. /\ op \in [Sandbox -> Op] /\ op[s] \in Op
      /\ base \in BaseID \cup {NoID}
      /\ CallInv(s) /\ ImageInv(s) /\ TypeOK
  BY DEF PoolInv, TypeOK
<1>b. \A c : Becomes(s, c) => op'[s] = c
  BY <1>t DEF Becomes
<1>g. \A pc \in OpPC : Goto(s, pc) => op'[s].id = op[s].id /\ op'[s].pc = pc
  BY <1>t, GotoFields
<1>f. \A r \in Result : Returns(s, r) => op'[s].pc = "idle"
  BY <1>t, ReturnsFields
<1>i. op'[s].pc \notin {"snap", "create", "activate", "node", "ready"} => ImageInv(s)'
  BY DEF ImageInv
<1>k. /\ op[s].pc \in {"create", "activate", "node", "ready"}
      /\ op'[s].pc \in {"create", "activate", "node", "ready"}
      /\ op'[s].id = op[s].id
      /\ complete' = complete
      => ImageInv(s)'
  BY <1>t DEF ImageInv
<1> USE DEF poolVars
<1>1. CASE LoadBase(s)
  <2> DEFINE c == [Returned("none") EXCEPT !.pc = "snap", !.base = base]
  <2>1. base \in BaseID /\ base \in complete
    BY <1>1, <1>t DEF LoadBase, PoolInv, BaseIntact
  <2>2. c.pc = "snap" /\ c.base = base
    BY <2>1, StartedRecords, Zenon
  <2>3. op'[s] = c /\ complete' = complete /\ ids' = ids /\ import' = import
    BY <1>1, <1>b DEF LoadBase
  <2>4. import.pc \in {"clear", "thin", "write", "record"} => base # import.id
    BY DEF PoolInv, ImportInv
  <2> HIDE DEF c
  <2> QED
    BY <2>1, <2>2, <2>3, <2>4 DEF ImageInv
<1>2. CASE CreateSnapshot(s)
  <2>1. CASE Returns(s, "failed")
    BY <1>f, <1>i, <2>1 DEF Result
  <2>2. ASSUME NEW i \in SandboxID \ ids, op[s].base \in ids,
               complete' = IF op[s].base \in complete THEN complete \cup {i} ELSE complete,
               Becomes(s, [op[s] EXCEPT !.pc = "create", !.id = i])
        PROVE  ImageInv(s)'
    <3> DEFINE c == [op[s] EXCEPT !.pc = "create", !.id = i]
    <3>1. c.pc = "create" /\ c.id = i
      BY <1>t, CreatedRecord, Zenon
    <3>2. op'[s] = c
      BY <1>b, <2>2
    <3>3. i \in complete'
      BY <1>2, <1>t, <2>2, Zenon DEF CreateSnapshot, ImageInv
    <3> HIDE DEF c
    <3> QED
      BY <3>1, <3>2, <3>3 DEF ImageInv
  <2> QED
    BY <1>2, <2>1, <2>2, Zenon DEF CreateSnapshot
<1>3. CASE CreateDevice(s)
  <2>1. CASE Goto(s, "undo")
    BY <1>g, <1>i, <2>1 DEF OpPC
  <2>2. ASSUME NEW m \in Minor, Becomes(s, [op[s] EXCEPT !.pc = "activate", !.minor = m])
        PROVE  ImageInv(s)'
    <3> DEFINE c == [op[s] EXCEPT !.pc = "activate", !.minor = m]
    <3>1. c.pc = "activate" /\ c.id = op[s].id
      BY <1>t, DeviceRecord, Zenon
    <3>2. op'[s] = c /\ op[s].pc = "create" /\ complete' = complete
      BY <1>3, <1>b, <2>2, Zenon DEF CreateDevice
    <3> HIDE DEF c
    <3> QED
      BY <1>k, <3>1, <3>2
  <2> QED
    BY <1>3, <2>1, <2>2, Zenon DEF CreateDevice, FreeMinor
<1>4. CASE Activate(s) BY <1>4, <1>g, <1>i, <1>k DEF Activate, OpPC
<1>5. CASE Unmake(s) BY <1>5, <1>g, <1>i DEF Unmake, OpPC
<1>6. CASE Undo(s) \/ Delete(s) BY <1>6, <1>f, <1>i DEF Undo, Delete, DeleteID, Result
<1>7. CASE EnsureNode(s)
  <2>1. CASE Goto(s, "rmdev")
    BY <1>g, <1>i, <2>1 DEF OpPC
  <2>2. CASE Becomes(s, [op[s] EXCEPT !.pc = "ready", !.result = "created"])
    <3> DEFINE c == [op[s] EXCEPT !.pc = "ready", !.result = "created"]
    <3>1. c.pc = "ready" /\ c.id = op[s].id
      BY <1>t, ReadyRecord, Zenon
    <3>2. op'[s] = c /\ op[s].pc = "node" /\ complete' = complete
      BY <1>7, <1>b, <2>2 DEF EnsureNode
    <3> HIDE DEF c
    <3> QED
      BY <1>k, <3>1, <3>2
  <2> QED
    BY <1>7, <2>1, <2>2 DEF EnsureNode
<1>8. CASE UdevMakesNode(s) BY <1>8, <1>t DEF UdevMakesNode, ImageInv
<1>9. CASE ReadTable(s)
  <2>1. CASE \E r \in Result : Returns(s, r)
    BY <1>f, <1>i, <2>1
  <2>2. CASE dev[s] # NoDevice /\ dev[s].id \in SandboxID
    <3> DEFINE c == [Returned("none") EXCEPT !.pc = "rmdev", !.id = dev[s].id]
    <3>1. c.pc = "rmdev"
      BY <2>2, StartedRecords, Zenon
    <3>2. op'[s] = c
      BY <1>9, <1>b, <2>2 DEF ReadTable
    <3> HIDE DEF c
    <3> QED
      BY <1>i, <3>1, <3>2
  <2> QED
    BY <1>9, <2>1, <2>2 DEF ReadTable, Result
<1>10. CASE RemoveDevice(s) BY <1>10, <1>f, <1>g, <1>i DEF RemoveDevice, OpPC, Result
<1>11. CASE RemoveNode(s) BY <1>11, <1>f, <1>g, <1>i DEF RemoveNode, OpPC, Result
<1> QED
  BY <1>1, <1>2, <1>3, <1>4, <1>5, <1>6, <1>7, <1>8, <1>9, <1>10, <1>11 DEF VolumeStep

LEMMA VolumeKeepsIDs ==
    ASSUME PoolInv, NEW s \in Sandbox, VolumeStep(s)
    PROVE  IDsInv'
<1>1. /\ TypeOK /\ CallInv(s)
      /\ \A t, u \in Sandbox : t # u => Uses(t) \cap Uses(u) = {}
      /\ \A t \in Sandbox : leaked \cap Uses(t) = {}
      /\ \A i : i \in ids /\ i \in SandboxID <=> i \in leaked \/ \E t \in Sandbox : i \in Uses(t)
  BY DEF PoolInv, IDsInv, OwnIDs, LeakedInv, IDsAccounted
<1>2. Uses(s) \subseteq ids
  BY <1>1
<1>3. \A t \in Sandbox \ {s} : op'[t] = op[t] /\ dev'[t] = dev[t]
  BY <1>1, <1>2, LocalStep DEF Local
<1>4. \A t \in Sandbox \ {s} : Uses(t)' = Uses(t)
  BY <1>3 DEF Uses
<1>5. SUFFICES /\ \A t, u \in Sandbox : t # u => Uses(t)' \cap Uses(u)' = {}
               /\ \A t \in Sandbox : leaked' \cap Uses(t)' = {}
               /\ \A i : i \in ids' /\ i \in SandboxID <=> i \in leaked' \/ \E t \in Sandbox : i \in Uses(t)'
  <2>1. OwnIDs' /\ LeakedInv'
    BY <1>5 DEF OwnIDs, LeakedInv
  <2>2. IDsAccounted'
    BY <1>5 DEF IDsAccounted
  <2> QED
    BY <2>1, <2>2 DEF IDsInv
<1>6. CASE KeepsIDs(s)
  <2>1. \A t \in Sandbox : Uses(t)' = Uses(t)
    BY <1>4, <1>6 DEF KeepsIDs
  <2> QED
    BY <1>1, <1>6, <2>1 DEF KeepsIDs
<1>7. ASSUME NEW i \in SandboxID, Draws(s, i)
      PROVE  /\ \A t, u \in Sandbox : t # u => Uses(t)' \cap Uses(u)' = {}
             /\ \A t \in Sandbox : leaked' \cap Uses(t)' = {}
             /\ \A j : j \in ids' /\ j \in SandboxID <=> j \in leaked' \/ \E t \in Sandbox : j \in Uses(t)'
  <2>1. i \notin leaked /\ \A t \in Sandbox : i \notin Uses(t)
    BY <1>1, <1>7 DEF Draws
  <2>2. ids' = ids \cup {i} /\ leaked' = leaked /\ Uses(s)' = Uses(s) \cup {i}
    BY <1>7 DEF Draws
  <2> QED
    BY <1>1, <1>4, <2>1, <2>2
<1>8. ASSUME NEW i \in SandboxID, GivesBack(s, i) \/ GivesUp(s, i)
      PROVE  /\ \A t, u \in Sandbox : t # u => Uses(t)' \cap Uses(u)' = {}
             /\ \A t \in Sandbox : leaked' \cap Uses(t)' = {}
             /\ \A j : j \in ids' /\ j \in SandboxID <=> j \in leaked' \/ \E t \in Sandbox : j \in Uses(t)'
  <2>1. i \in Uses(s) /\ Uses(s)' = Uses(s) \ {i} /\ i \in ids
    BY <1>2, <1>8 DEF GivesBack, GivesUp
  <2>2. i \notin leaked /\ \A t \in Sandbox \ {s} : i \notin Uses(t)
    BY <1>1, <2>1
  <2>3. \/ ids' = ids \ {i} /\ leaked' = leaked
        \/ ids' = ids /\ leaked' = leaked \cup {i}
    BY <1>8 DEF GivesBack, GivesUp
  <2> QED
    BY <1>1, <1>4, <2>1, <2>2, <2>3
<1> QED
  BY <1>1, <1>6, <1>7, <1>8, IDSteps

LEMMA VolumeKeeps ==
    ASSUME PoolInv, NEW s \in Sandbox, VolumeStep(s)
    PROVE  PoolInv'
<1>1. /\ TypeOK /\ IDsInv /\ ImportInv /\ BaseIntact
      /\ \A t \in Sandbox : CallInv(t) /\ ImageInv(t)
      /\ \A i : i \in ids /\ i \in SandboxID <=> i \in leaked \/ \E t \in Sandbox : i \in Uses(t)
  BY DEF PoolInv, IDsInv, IDsAccounted
<1>2. Uses(s) \subseteq ids
  BY <1>1
<1>3. Local(s)
  BY <1>1, <1>2, LocalStep
<1>4. /\ base' = base /\ import' = import
      /\ KeepsIDs(s) \/ \E i \in SandboxID : Draws(s, i) \/ GivesBack(s, i) \/ GivesUp(s, i)
  BY <1>1, IDSteps
<1>5. complete' \subseteq ids' /\ ids' \subseteq ThinID /\ leaked' \subseteq SandboxID
  BY <1>1, <1>4 DEF TypeOK, KeepsIDs, Draws, GivesBack, GivesUp, ThinID
<1>6. \A b \in BaseID \cup {NoID} : (b \in ids' <=> b \in ids) /\ (b \in complete' <=> b \in complete)
  BY <1>4, IDSets DEF KeepsIDs, Draws, GivesBack, GivesUp
<1>7. TypeOK'
  BY <1>1, <1>3, <1>4, <1>5 DEF TypeOK, Local
<1>8. \A t \in Sandbox : CallInv(t)'
  BY <1>1, <1>3 DEF Local, CallInv
<1>9. ImportInv' /\ BaseIntact'
  BY <1>1, <1>4, <1>6 DEF TypeOK, ImportInv, BaseIntact
<1>10. ASSUME NEW t \in Sandbox \ {s}
       PROVE  ImageInv(t)'
  <2>1. op'[t] = op[t] /\ op[t].base \in BaseID \cup {NoID}
    BY <1>1, <1>3 DEF Local, TypeOK, Op
  <2>2. op[t].id \in complete /\ op[t].id # NoID => op[t].id \in complete'
    <3>1. Uses(s) \cap Uses(t) = {}
      BY <1>1 DEF IDsInv, OwnIDs
    <3>2. op[t].id # NoID => op[t].id \in Uses(t)
      BY DEF Uses
    <3> QED
      BY <1>4, <3>1, <3>2 DEF KeepsIDs, Draws, GivesBack, GivesUp
  <2>3. op[t].pc \notin {"idle", "snap"} => op[t].id # NoID
    BY <1>1, IDSets DEF CallInv
  <2> QED
    BY <1>1, <1>4, <1>6, <2>1, <2>2, <2>3, Zenon DEF ImageInv
<1> QED
  BY <1>7, <1>8, <1>9, <1>10, ImageStep, VolumeKeepsIDs DEF PoolInv

-----------------------------------------------------------------------------
(* The import.                                                             *)

LEMMA ImportRecords ==
    ASSUME TypeOK, NEW pc \in ImportPC
    PROVE  LET i == [import EXCEPT !.pc = pc] IN
           /\ i \in [pc : ImportPC, id : BaseID \cup {NoID}, old : BaseID \cup {NoID}]
           /\ i.pc = pc /\ i.id = import.id /\ i.old = import.old
BY DEF TypeOK

LEMMA NoImportRecord ==
    /\ NoImport \in [pc : ImportPC, id : BaseID \cup {NoID}, old : BaseID \cup {NoID}]
    /\ NoImport.pc = "idle"
BY DEF NoImport, ImportPC

(* The import changes base IDs only, and not the one that calls and later  *)
(* imports rely on.                                                        *)
ImportMoves ==
    /\ complete' \subseteq ids' /\ ids' \subseteq ThinID
    /\ base' \in BaseID \cup {NoID}
    /\ import' \in [pc : ImportPC, id : BaseID \cup {NoID}, old : BaseID \cup {NoID}]
    /\ dev' = dev /\ node' = node /\ op' = op /\ leaked' = leaked
    /\ ids' \cap SandboxID = ids \cap SandboxID
    /\ complete' \cap SandboxID = complete \cap SandboxID
    /\ ImportInv' /\ BaseIntact'
    /\ \A s \in Sandbox : op[s].pc = "snap" =>
           /\ op[s].base \in complete' \/ op[s].base \notin ids'
           /\ import'.pc \in {"clear", "thin", "write", "record"} => op[s].base # import'.id

LEMMA ImportStepMoves ==
    ASSUME PoolInv, ImportStep
    PROVE  ImportMoves
<1>1. /\ TypeOK /\ ImportInv /\ BaseIntact
      /\ complete \subseteq ids /\ ids \subseteq ThinID
      /\ base \in BaseID \cup {NoID}
      /\ import \in [pc : ImportPC, id : BaseID \cup {NoID}, old : BaseID \cup {NoID}]
      /\ import.id \in BaseID \cup {NoID} /\ import.old \in BaseID \cup {NoID}
  BY DEF PoolInv, TypeOK
<1>2. \A s \in Sandbox : op[s].pc = "snap" =>
          /\ op[s].base \in complete \/ op[s].base \notin ids
          /\ import.pc \in {"clear", "thin", "write", "record"} => op[s].base # import.id
  BY DEF PoolInv, ImageInv
<1>3. \A pc \in ImportPC : LET i == [import EXCEPT !.pc = pc] IN
          /\ i \in [pc : ImportPC, id : BaseID \cup {NoID}, old : BaseID \cup {NoID}]
          /\ i.pc = pc /\ i.id = import.id /\ i.old = import.old
  BY <1>1, ImportRecords
<1> USE DEF ImportMoves, poolVars
<1>4. CASE StartImport
  <2> DEFINE i == [pc |-> "clear", id |-> NewID(base), old |-> base]
  <2>1. NewID(base) \in BaseID /\ NewID(base) # base
    BY <1>1, NewIDMoves
  <2>2. /\ i \in [pc : ImportPC, id : BaseID \cup {NoID}, old : BaseID \cup {NoID}]
        /\ i.pc = "clear" /\ i.id = NewID(base) /\ i.old = base
    BY <1>1, <2>1 DEF ImportPC
  <2>3. import' = i
    BY <1>4 DEF StartImport
  <2>4. ids' = ids /\ complete' = complete /\ base' = base
        /\ dev' = dev /\ node' = node /\ op' = op /\ leaked' = leaked
        /\ \A s \in Sandbox : op[s].pc = "snap" => op[s].base # NewID(base)
    BY <1>4 DEF StartImport
  <2> HIDE DEF i
  <2>5. ImportInv' /\ BaseIntact'
    BY <1>1, <2>1, <2>2, <2>3, <2>4 DEF ImportInv, BaseIntact
  <2> QED
    BY <1>1, <1>2, <2>1, <2>2, <2>3, <2>4, <2>5
<1>5. CASE ClearLeftover
  <2> DEFINE i == [import EXCEPT !.pc = "thin"]
  <2>1. /\ i \in [pc : ImportPC, id : BaseID \cup {NoID}, old : BaseID \cup {NoID}]
        /\ i.pc = "thin" /\ i.id = import.id /\ i.old = import.old
    BY <1>3 DEF ImportPC
  <2>2. import' = i /\ import.pc = "clear"
    BY <1>5 DEF ClearLeftover
  <2>3. /\ \/ ids' = ids \ {import.id} /\ complete' = complete \ {import.id}
           \/ ids' = ids /\ complete' = complete
        /\ base' = base /\ dev' = dev /\ node' = node /\ op' = op /\ leaked' = leaked
    BY <1>5 DEF ClearLeftover, Forget
  <2>4. import.id \in BaseID /\ import.id \notin SandboxID /\ import.id # base /\ import.old = base
    BY <1>1, <2>2, IDSets DEF ImportInv
  <2> HIDE DEF i
  <2>5. ImportInv' /\ BaseIntact'
    BY <1>1, <2>1, <2>2, <2>3, <2>4 DEF ImportInv, BaseIntact
  <2> QED
    BY <1>1, <1>2, <2>1, <2>2, <2>3, <2>4, <2>5
<1>6. CASE CreateThin
  <2>1. /\ import.pc = "thin" /\ complete' = complete /\ base' = base
        /\ dev' = dev /\ node' = node /\ op' = op /\ leaked' = leaked
    BY <1>6 DEF CreateThin
  <2>2. import.id \in BaseID /\ import.id \notin SandboxID /\ import.id # base /\ import.old = base
    BY <1>1, <2>1, IDSets DEF ImportInv
  <2>3. CASE ids' = ids \cup {import.id} /\ import' = [import EXCEPT !.pc = "write"]
    <3> DEFINE i == [import EXCEPT !.pc = "write"]
    <3>1. /\ i \in [pc : ImportPC, id : BaseID \cup {NoID}, old : BaseID \cup {NoID}]
          /\ i.pc = "write" /\ i.id = import.id /\ i.old = import.old
      BY <1>3 DEF ImportPC
    <3>2. import' = i
      BY <2>3
    <3> HIDE DEF i
    <3>3. ImportInv' /\ BaseIntact'
      BY <1>1, <2>1, <2>2, <2>3, <3>1, <3>2 DEF ImportInv, BaseIntact
    <3> QED
      BY <1>1, <1>2, <2>1, <2>2, <2>3, <3>1, <3>2, <3>3 DEF ThinID
  <2>4. CASE ids' = ids /\ import' = NoImport
    BY <1>1, <1>2, <2>1, <2>4, NoImportRecord DEF ImportInv, BaseIntact
  <2> QED
    BY <1>6, <2>3, <2>4 DEF CreateThin
<1>7. CASE WriteImage
  <2> DEFINE i == [import EXCEPT !.pc = "record"]
  <2>1. /\ i \in [pc : ImportPC, id : BaseID \cup {NoID}, old : BaseID \cup {NoID}]
        /\ i.pc = "record" /\ i.id = import.id /\ i.old = import.old
    BY <1>3 DEF ImportPC
  <2>2. /\ import' = i /\ import.pc = "write" /\ complete' = complete \cup {import.id}
        /\ ids' = ids /\ base' = base /\ dev' = dev /\ node' = node /\ op' = op /\ leaked' = leaked
    BY <1>7 DEF WriteImage
  <2>3. /\ import.id \in BaseID /\ import.id \notin SandboxID /\ import.id \in ids
        /\ import.id # base /\ import.old = base
    BY <1>1, <2>2, IDSets DEF ImportInv
  <2> HIDE DEF i
  <2>4. ImportInv' /\ BaseIntact'
    BY <1>1, <2>1, <2>2, <2>3 DEF ImportInv, BaseIntact
  <2> QED
    BY <1>1, <1>2, <2>1, <2>2, <2>3, <2>4
<1>8. CASE RecordBase
  <2> DEFINE i == [import EXCEPT !.pc = "drop"]
  <2>1. /\ i \in [pc : ImportPC, id : BaseID \cup {NoID}, old : BaseID \cup {NoID}]
        /\ i.pc = "drop" /\ i.id = import.id /\ i.old = import.old
    BY <1>3 DEF ImportPC
  <2>2. /\ import' = i /\ import.pc = "record" /\ base' = import.id
        /\ complete' = complete /\ ids' = ids
        /\ dev' = dev /\ node' = node /\ op' = op /\ leaked' = leaked
    BY <1>8 DEF RecordBase
  <2>3. import.id \in BaseID /\ import.id \in complete /\ import.id # base /\ import.old = base
    BY <1>1, <2>2 DEF ImportInv
  <2> HIDE DEF i
  <2>4. ImportInv' /\ BaseIntact'
    BY <1>1, <2>1, <2>2, <2>3 DEF ImportInv, BaseIntact
  <2> QED
    BY <1>1, <1>2, <2>1, <2>2, <2>3, <2>4
<1>9. CASE DropOldBase
  <2>1. /\ import' = NoImport /\ import.pc = "drop"
        /\ \/ ids' = ids \ {import.old} /\ complete' = complete \ {import.old}
           \/ ids' = ids /\ complete' = complete
        /\ base' = base /\ dev' = dev /\ node' = node /\ op' = op /\ leaked' = leaked
    BY <1>9 DEF DropOldBase, Forget
  <2>2. import.old \notin SandboxID /\ import.old # base
    BY <1>1, <2>1, IDSets DEF ImportInv
  <2>3. ImportInv' /\ BaseIntact'
    BY <1>1, <2>1, <2>2, NoImportRecord DEF ImportInv, BaseIntact
  <2> QED
    BY <1>1, <1>2, <2>1, <2>2, <2>3, NoImportRecord
<1>10. CASE ImportDies
  BY <1>1, <1>2, <1>10, NoImportRecord DEF ImportDies, ImportInv, BaseIntact
<1> QED
  BY <1>4, <1>5, <1>6, <1>7, <1>8, <1>9, <1>10 DEF ImportStep

LEMMA ImportKeeps ==
    ASSUME PoolInv, ImportStep
    PROVE  PoolInv'
<1>1. ImportMoves
  BY ImportStepMoves
<1>2. TypeOK'
  BY <1>1 DEF PoolInv, TypeOK, ImportMoves
<1>3. \A s \in Sandbox : CallInv(s)'
  BY <1>1, Zenon DEF PoolInv, CallInv, ImportMoves
<1>4. \A s \in Sandbox : Uses(s)' = Uses(s)
  BY <1>1, Zenon DEF Uses, ImportMoves
<1>5. OwnIDs' /\ LeakedInv'
  BY <1>1, <1>4 DEF PoolInv, IDsInv, OwnIDs, LeakedInv, ImportMoves
<1>6. IDsAccounted'
  BY <1>1, <1>4 DEF PoolInv, IDsInv, IDsAccounted, ImportMoves
<1>7. \A s \in Sandbox : ImageInv(s)'
  BY <1>1, IDSets DEF PoolInv, ImageInv, CallInv, ImportMoves
<1> QED
  BY <1>1, <1>2, <1>3, <1>5, <1>6, <1>7, Zenon DEF PoolInv, IDsInv, ImportMoves

-----------------------------------------------------------------------------
(* Deaths.                                                                 *)

(* No call is under way.                                                   *)
LEMMA NoCalls ==
    ASSUME op' = [s \in Sandbox |-> Returned("none")]
    PROVE  /\ op' \in [Sandbox -> Op]
           /\ \A s \in Sandbox :
                  op'[s].pc = "idle" /\ op'[s].id = NoID /\ op'[s].result = "none"
           /\ \A s \in Sandbox : CallInv(s)' /\ ImageInv(s)'
<1>1. Returned("none") \in Op
  BY ReturnedRecord DEF Result
<1>2. \A s \in Sandbox : op'[s].pc = "idle" /\ op'[s].id = NoID /\ op'[s].result = "none"
  BY ReturnedRecord DEF Result
<1> QED
  BY <1>1, <1>2 DEF CallInv, ImageInv

LEMMA WorkerDiesKeeps ==
    ASSUME PoolInv, WorkerDies
    PROVE  PoolInv'
<1>1. /\ op' = [s \in Sandbox |-> Returned("none")] /\ leaked' = leaked \cup Drawn
      /\ ids' = ids /\ complete' = complete /\ base' = base
      /\ dev' = dev /\ node' = node /\ import' = import
  BY DEF WorkerDies, poolVars
<1>2. /\ TypeOK /\ ImportInv /\ BaseIntact
      /\ \A t, u \in Sandbox : t # u => Uses(t) \cap Uses(u) = {}
      /\ \A t \in Sandbox : leaked \cap Uses(t) = {}
      /\ \A i : i \in ids /\ i \in SandboxID <=> i \in leaked \/ \E t \in Sandbox : i \in Uses(t)
  BY DEF PoolInv, IDsInv, OwnIDs, LeakedInv, IDsAccounted
<1>3. \A s \in Sandbox : Uses(s) = {op[s].id, dev[s].id} \ {NoID}
  BY DEF Uses
<1>4. \A s \in Sandbox : Uses(s)' = {dev[s].id} \ {NoID}
  BY <1>1, NoCalls, Zenon DEF Uses
<1>5. \A i : i \in Drawn <=> /\ i # NoID
                             /\ \E s \in Sandbox : i = op[s].id
                             /\ \A s \in Sandbox : i # dev[s].id
  BY DEF Drawn
<1>6. Drawn \subseteq SandboxID
  BY <1>2, <1>5 DEF TypeOK, Op
<1>7. TypeOK'
  BY <1>1, <1>2, <1>6, NoCalls DEF TypeOK
<1>8. OwnIDs'
  BY <1>2, <1>3, <1>4 DEF OwnIDs
<1>9. LeakedInv'
  BY <1>1, <1>2, <1>3, <1>4, <1>5 DEF LeakedInv
<1>10. \A i : i \in ids' /\ i \in SandboxID <=> i \in leaked' \/ \E t \in Sandbox : i \in Uses(t)'
  <2>1. ASSUME NEW i
        PROVE  (\E t \in Sandbox : i \in Uses(t)) <=> i \in Drawn \/ \E t \in Sandbox : i \in Uses(t)'
    BY <1>3, <1>4, <1>5
  <2> QED
    BY <1>1, <1>2, <2>1
<1>11. IDsAccounted'
  BY <1>10 DEF IDsAccounted
<1>12. ImportInv' /\ BaseIntact'
  BY <1>1, <1>2 DEF ImportInv, BaseIntact
<1> QED
  BY <1>1, <1>7, <1>8, <1>9, <1>11, <1>12, NoCalls DEF PoolInv, IDsInv

LEMMA BootKeeps ==
    ASSUME PoolInv, Boot
    PROVE  PoolInv'
<1>1. PICK kept \in SUBSET (ids \cap SandboxID) :
          ids' = (ids \cap BaseID) \cup kept /\ leaked' = kept
  BY DEF Boot
<1>2. /\ complete' = complete \cap ids' /\ base' = base /\ import' = NoImport
      /\ dev' = [s \in Sandbox |-> NoDevice] /\ node' = [s \in Sandbox |-> NoMinor]
      /\ op' = [s \in Sandbox |-> Returned("none")]
  BY DEF Boot
<1>3. TypeOK /\ BaseIntact
  BY DEF PoolInv
<1>4. TypeOK'
  BY <1>1, <1>2, <1>3, NoCalls, NoImportRecord DEF TypeOK
<1>5. \A s \in Sandbox : Uses(s)' = {}
  BY <1>2, NoCalls, DeviceRecords DEF Uses
<1>6. OwnIDs' /\ LeakedInv'
  BY <1>5 DEF OwnIDs, LeakedInv
<1>7. \A i : i \in ids' /\ i \in SandboxID <=> i \in leaked' \/ \E t \in Sandbox : i \in Uses(t)'
  BY <1>1, <1>5, IDSets
<1>8. IDsAccounted'
  BY <1>7 DEF IDsAccounted
<1>9. ImportInv'
  BY <1>2, NoImportRecord DEF ImportInv
<1>10. BaseIntact'
  BY <1>1, <1>2, <1>3 DEF BaseIntact, TypeOK
<1> QED
  BY <1>2, <1>4, <1>6, <1>8, <1>9, <1>10, NoCalls DEF PoolInv, IDsInv

-----------------------------------------------------------------------------
(* The invariant.                                                          *)

LEMMA InitPool == Init => PoolInv
<1> SUFFICES ASSUME Init PROVE PoolInv
  OBVIOUS
<1> USE DEF Init
<1>1. /\ \A s \in Sandbox : op[s] \in Op /\ op[s].pc = "idle" /\ op[s].id = NoID /\ op[s].result = "none"
      /\ \A s \in Sandbox : dev[s].id = NoID
  BY ReturnedRecord, DeviceRecords DEF Result
<1>2. TypeOK
  BY <1>1, NoImportRecord DEF TypeOK
<1>3. \A s \in Sandbox : CallInv(s) /\ ImageInv(s)
  BY <1>1 DEF CallInv, ImageInv
<1>4. \A s \in Sandbox : Uses(s) = {}
  BY <1>1 DEF Uses
<1>5. IDsInv
  BY <1>4 DEF IDsInv, OwnIDs, LeakedInv, IDsAccounted
<1>6. ImportInv /\ BaseIntact
  BY NoImportRecord DEF ImportInv, BaseIntact
<1> QED
  BY <1>2, <1>3, <1>5, <1>6 DEF PoolInv

LEMMA StutterKeeps ==
    ASSUME PoolInv, UNCHANGED vars
    PROVE  PoolInv'
<1>1. /\ ids' = ids /\ complete' = complete /\ base' = base /\ dev' = dev /\ node' = node
      /\ op' = op /\ import' = import /\ leaked' = leaked
  BY DEF vars, poolVars
<1>2. TypeOK' /\ ImportInv' /\ BaseIntact'
  BY <1>1 DEF PoolInv, TypeOK, ImportInv, BaseIntact
<1>3. \A s \in Sandbox : CallInv(s)' /\ ImageInv(s)'
  BY <1>1, Zenon DEF PoolInv, CallInv, ImageInv
<1>4. \A s \in Sandbox : Uses(s)' = Uses(s)
  BY <1>1 DEF Uses
<1>5. OwnIDs' /\ LeakedInv'
  BY <1>1, <1>4 DEF PoolInv, IDsInv, OwnIDs, LeakedInv
<1>6. IDsAccounted'
  BY <1>1, <1>4 DEF PoolInv, IDsInv, IDsAccounted
<1> QED
  BY <1>2, <1>3, <1>5, <1>6 DEF PoolInv, IDsInv

LEMMA Inductive == PoolInv /\ [Next]_vars => PoolInv'
BY VolumeKeeps, ImportKeeps, WorkerDiesKeeps, BootKeeps, StutterKeeps DEF Next

LEMMA Invariant == Spec => []PoolInv
BY InitPool, Inductive, PTL DEF Spec

(* Whatever fails or dies, the pool, its devices and the calls on them     *)
(* have their types: in particular the import's IDs stay below those of    *)
(* sandboxes (new_id).                                                     *)
THEOREM TypeCorrect == Spec => []TypeOK
<1>1. PoolInv => TypeOK
  BY DEF PoolInv
<1> QED
  BY <1>1, Invariant, PTL

(* No two sandboxes ever have the same thin ID (createSnapshot,            *)
(* RemoveVolume).                                                          *)
THEOREM OwnVolumes == Spec => []OwnIDs
<1>1. PoolInv => OwnIDs
  BY DEF PoolInv, IDsInv
<1> QED
  BY <1>1, Invariant, PTL

(* No sandbox ID is lost track of: each is some sandbox's or was given up  *)
(* by a failed call or a dead process (CreateVolume, RemoveVolume).        *)
THEOREM AllAccounted == Spec => []IDsAccounted
<1>1. PoolInv => IDsAccounted
  BY DEF PoolInv, IDsInv
<1> QED
  BY <1>1, Invariant, PTL

(* The recorded base is whole at every moment of every import, finished or *)
(* not (fire2-thinpool-import-base).                                       *)
THEOREM BaseStays == Spec => []BaseIntact
<1>1. PoolInv => BaseIntact
  BY DEF PoolInv
<1> QED
  BY <1>1, Invariant, PTL

(* The path CreateVolume returns leads to the sandbox's own device and a   *)
(* whole image (ensureNode, createSnapshot).                               *)
THEOREM OwnImage == Spec => []ReadyIsOwnImage
<1>1. PoolInv => ReadyIsOwnImage
  BY DEF PoolInv, CallInv, ImageInv, ReadyIsOwnImage
<1> QED
  BY <1>1, Invariant, PTL

(* A RemoveVolume that answered without an error has left no device and no *)
(* node, until the sandbox is created again.                               *)
THEOREM RemovedGone == Spec => []RemovedIsGone
<1>1. PoolInv => RemovedIsGone
  BY DEF PoolInv, CallInv, RemovedIsGone
<1> QED
  BY <1>1, Invariant, PTL

=============================================================================
