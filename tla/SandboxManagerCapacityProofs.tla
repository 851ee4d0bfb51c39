-------------------- MODULE SandboxManagerCapacityProofs --------------------
(***************************************************************************)
(* Proof that a Create is admitted only within the capacity                *)
(* (AdmittedWithinCapacity), if teardowns work and no actor panics: by     *)
(* SandboxManagerPromiseProofs every volume on the host of a serving       *)
(* worker belongs to a sandbox it tracks or is removing, and those are     *)
(* what Create counts.                                                     *)
(***************************************************************************)
EXTENDS SandboxManagerPromiseProofs, FiniteSetTheorems

(* Only Create adds an entry to the map of a serving Manager.              *)
LEMMA OnlyCreateAdds ==
    ASSUME OwnerInv, Serving, NEW s \in Sandbox, services[s] = NoService, services'[s] # NoService,
           [Next]_vars
    PROVE  HasRoom
<1>0. OwnerType
  BY Zenon DEF OwnerInv
<1>1. ASSUME NEW c \in Call, NEW t \in Sandbox, Create(c, t)
      PROVE  HasRoom
  BY <1>1, Zenon DEF Create
<1>2. ASSUME NEW c \in Call, NEW t \in Sandbox, Remove(c, t)
      PROVE  FALSE
  BY <1>0, <1>2 DEF Remove, OwnerType
<1>3. ASSUME NEW c \in Call, CreateReturns(c)
      PROVE  FALSE
  BY <1>0, <1>3 DEF CreateReturns, OwnerType
<1>4. ASSUME NEW t \in Sandbox, Recover(t)
      PROVE  FALSE
  BY <1>4, Zenon DEF Recover, Serving
<1>5. ASSUME WorkerRestarts
      PROVE  FALSE
  BY <1>5, Zenon DEF WorkerRestarts
<1>6. CASE UNCHANGED services
  BY <1>6, Zenon
<1>7. ASSUME NEW v \in Service, ActorStep(v) \/ Poll(v) \/ VMExited(v) \/ Panic(v)
      PROVE  UNCHANGED services
  BY <1>7, Zenon DEF ActorStep, NewVM, CreateVolume, Spawn, WaitRunning, StopVM, RemoveVolume, RemoveDir,
      Halt, Poll, VMExited, Panic, mapVars
<1>8. ASSUME NEW r \in Reaper, ReapStep(r)
      PROVE  UNCHANGED services
  BY <1>8, Zenon DEF ReapStep, ReapKill, ReapVolume, ReapDir, Reaped, mapVars
<1>9. ASSUME MainStep
      PROVE  UNCHANGED services
  BY <1>4, <1>9, Zenon DEF MainStep, CheckLiveness, ListDisk, ClaimOrphans, AuditEnds, ReapOrphan, mapVars
<1>10. ASSUME NEW c \in Call,
              (\E t \in Sandbox : Stop(c, t)) \/ Take(c) \/ ServiceGone(c) \/ StopReturns(c) \/ RemoveReturns(c)
       PROVE  UNCHANGED services
  BY <1>10, Zenon DEF Stop, Take, ServiceGone, StopReturns, RemoveReturns, mapVars
<1>11. ASSUME \/ \E n \in Capacities : SetCapacity(n)
              \/ \E t \in Sandbox : VMBoots(t) \/ VMDies(t)
              \/ UNCHANGED vars
       PROVE  UNCHANGED services
  BY <1>11, Zenon DEF SetCapacity, VMBoots, VMDies, vars, mapVars
<1> QED BY <1>1, <1>2, <1>3, <1>5, <1>6, <1>7, <1>8, <1>9, <1>10, <1>11, Zenon DEF Next, CallReturns

(* "Sandboxes being removed still hold their volume: they count too": at a *)
(* known capacity, a Create is admitted only if the volumes on the host    *)
(* (those that no removal can remove aside) and the sandboxes yet to get   *)
(* theirs leave room for one more, whatever the capacity was when those    *)
(* were admitted; if teardowns work and no actor panics.                   *)
THEOREM AdmissionRespectsCapacity ==
    Faults = {} /\ IsFiniteSet(Sandbox) => (Spec => AdmittedWithinCapacity)
<1> SUFFICES ASSUME Faults = {}, IsFiniteSet(Sandbox)
             PROVE  Spec => AdmittedWithinCapacity
  OBVIOUS
<1> DEFINE Within ==
               \A s \in Sandbox :
                   Serving /\ capacity > 0 /\ s \notin Tracked /\ services'[s] # NoService
                       => Cardinality((volume \ stuck) \cup Tracked) < capacity
<1>1. ASSUME OwnerInv, HostType, GoneInv, [Next]_vars
      PROVE  Within
  <2> SUFFICES ASSUME NEW s \in Sandbox, Serving, capacity > 0, s \notin Tracked, services'[s] # NoService
               PROVE  Cardinality((volume \ stuck) \cup Tracked) < capacity
    BY Zenon
  <2> DEFINE Counted == Tracked \cup deleting
             Held == (volume \ stuck) \cup Tracked
  <2>1. HasRoom
    BY <1>1, OnlyCreateAdds DEF Tracked
  <2>2. Held \subseteq Counted
    BY <1>1 DEF GoneInv, Kept, Left, Serving, Tracked, HostType
  <2>3. IsFiniteSet(Tracked) /\ IsFiniteSet(deleting)
    <3>1. Tracked \subseteq Sandbox /\ deleting \subseteq Sandbox
      BY <1>1 DEF Tracked, OwnerInv, OwnerType
    <3> QED BY <3>1, FS_Subset, Zenon
  <2>4. /\ Cardinality(Tracked) \in Nat /\ Cardinality(deleting) \in Nat
        /\ Cardinality(Tracked \cap deleting) \in Nat
        /\ IsFiniteSet(Counted)
        /\ Cardinality(Counted) = Cardinality(Tracked) + Cardinality(deleting) - Cardinality(Tracked \cap deleting)
    <3>1. IsFiniteSet(Tracked \cap deleting)
      BY <2>3, FS_Intersection, Zenon
    <3> QED BY <2>3, <3>1, FS_Union, FS_CardinalityType
  <2> HIDE DEF Counted, Held
  <2>5. Cardinality(Held) \in Nat /\ Cardinality(Counted) \in Nat /\ Cardinality(Held) <= Cardinality(Counted)
    BY <2>2, <2>4, FS_Subset, FS_CardinalityType
  <2>6. capacity \in Nat
    BY <1>1, ManagerAssumption DEF HostType
  <2>7. Cardinality(Held) < capacity
    BY <2>1, <2>4, <2>5, <2>6 DEF HasRoom
  <2> QED BY <2>7 DEF Held
<1> QED BY <1>1, OwnerInvariant, HostInvariant, GoneInvariant, PTL DEF Spec, AdmittedWithinCapacity

=============================================================================
