------------------------- MODULE WorkerFencingProofs -------------------------
(***************************************************************************)
(* Proofs about WorkerFencing, for any number of processes and any number  *)
(* of lost and late registrations.  The types hold whatever the database   *)
(* loses; the guarantees of the fencing hold while it keeps its token.     *)
(***************************************************************************)
EXTENDS WorkerFencing, TLAPS

LEMMA TypeInit == Init => TypeOK
BY FencingAssumption DEF Init, TypeOK, PC, NoLate

LEMMA NewTokenIsNat ==
    ASSUME TypeOK, NEW presented \in {NoLate} \cup Nat
    PROVE  NewToken(presented) \in Nat /\ token < NewToken(presented)
                                       /\ presented < NewToken(presented)
BY DEF TypeOK, NewToken, Greatest, NoLate

LEMMA TypeNext == TypeOK /\ [Next]_vars => TypeOK'
<1> SUFFICES ASSUME TypeOK, [Next]_vars PROVE TypeOK'
    OBVIOUS
<1> USE FencingAssumption
<1>1. CASE UNCHANGED vars
    BY <1>1 DEF TypeOK, vars, dbVars, procVars
<1>2. CASE LoseToken
    BY <1>2 DEF TypeOK, LoseToken, procVars
<1>3. ASSUME NEW p \in Process, Start(p) \/ Stop(p) \/ UpdateWorker(p) \/ LoseHeartbeat(p)
      PROVE  TypeOK'
    BY <1>3 DEF TypeOK, Start, Stop, UpdateWorker, LoseHeartbeat, dbVars, PC
<1>4. ASSUME NEW p \in Process, RegisterWorker(p) PROVE TypeOK'
  <2>1. held[p] \in {NoLate} \cup Nat
    BY DEF TypeOK
  <2>2. token' \in Nat
    BY <1>4, <2>1, NewTokenIsNat DEF RegisterWorker, Register
  <2> QED
    BY <1>4, <2>2 DEF TypeOK, RegisterWorker, Register, PC
<1>5. ASSUME NEW p \in Process, Registered(p) PROVE TypeOK'
    BY <1>5 DEF TypeOK, Registered, dbVars, PC
<1>6. ASSUME NEW p \in Process, RegisterFails(p) PROVE TypeOK'
    BY <1>6 DEF TypeOK, RegisterFails, dbVars, PC
<1>7. ASSUME NEW p \in Process, LateRegister(p) PROVE TypeOK'
  <2>1. token' \in Nat
    BY <1>7, NewTokenIsNat DEF TypeOK, LateRegister, Register
  <2> QED
    BY <1>7, <2>1 DEF TypeOK, LateRegister, Register, procVars
<1>8. ASSUME NEW p \in Process, NEW answered \in BOOLEAN, ReportWorkerHeartbeat(p, answered)
      PROVE  TypeOK'
  <2>1. (answered /\ Unknown(held[p])) \in BOOLEAN
    BY DEF Unknown
  <2> QED
    BY <1>8, <2>1 DEF TypeOK, ReportWorkerHeartbeat, PC
<1> QED
    BY <1>1, <1>2, <1>3, <1>4, <1>5, <1>6, <1>7, <1>8 DEF Next, Step

(* Every variable keeps its type, also when the database loses its token.  *)
THEOREM TypeCorrect == Spec => []TypeOK
BY TypeInit, TypeNext, PTL DEF Spec

-----------------------------------------------------------------------------
(* TokensUnique and OldProcessRefused say nothing of the tokens still in a *)
(* reply or in a late request, and are not inductive.  FencingInv says the *)
(* same of them too: no token is ahead of the persisted one, no two        *)
(* processes hold or are about to receive the same, and the persisted one  *)
(* can only be with the process that registered last; all this until the   *)
(* database loses its token.                                               *)
NotAhead ==
    /\ inventoryToken <= token
    /\ \A p \in Process : held[p] <= token /\ reply[p] <= token /\ late[p] <= token

Distinct ==
    \A p, q \in Process :
        p # q => /\ held[p] # 0 => held[p] # held[q] /\ held[p] # reply[q]
                 /\ reply[p] # 0 => reply[p] # reply[q]

LastRegistered ==
    \A p \in Process :
        /\ held[p] # 0 /\ held[p] = token => owner = p
        /\ reply[p] # 0 /\ reply[p] = token => owner = p

Fenced == NotAhead /\ Distinct /\ LastRegistered

FencingInv == TypeOK /\ (losses = 0 => Fenced)

LEMMA FencingInit == Init => FencingInv
BY TypeInit DEF Init, FencingInv, Fenced, NotAhead, Distinct, LastRegistered, NoLate

(* Every step but the loss itself leaves the count of losses alone.        *)
LEMMA LossesStay ==
    ASSUME TypeOK, [Next]_vars, losses' = 0
    PROVE  losses = 0 /\ ~LoseToken
BY DEF TypeOK, Next, Step, Start, Stop, UpdateWorker, LoseHeartbeat, RegisterWorker,
       Registered, RegisterFails, LateRegister, Register, ReportWorkerHeartbeat, LoseToken,
       vars, dbVars

(* The inductive step: a new token is above every token there is, so it    *)
(* stays distinct from them and the one who gets it registered last.       *)
LEMMA FencingNext == FencingInv /\ [Next]_vars => FencingInv'
<1> SUFFICES ASSUME FencingInv, [Next]_vars, losses' = 0 PROVE Fenced'
    BY TypeNext DEF FencingInv
<1>0. TypeOK /\ Fenced /\ ~LoseToken
    BY LossesStay DEF FencingInv
<1> USE <1>0 DEF TypeOK, Fenced
<1>1. CASE UNCHANGED vars
    BY <1>1 DEF vars, dbVars, procVars, NotAhead, Distinct, LastRegistered
<1>2. ASSUME NEW p \in Process, Start(p) \/ Stop(p) \/ UpdateWorker(p) \/ LoseHeartbeat(p)
      PROVE  Fenced'
    BY <1>2 DEF Start, Stop, UpdateWorker, LoseHeartbeat, dbVars,
                NotAhead, Distinct, LastRegistered
<1>3. ASSUME NEW p \in Process, RegisterWorker(p) PROVE Fenced'
  <2>1. token' \in Nat /\ token < token' /\ reply' = [reply EXCEPT ![p] = token'] /\ owner' = p
    BY <1>3, NewTokenIsNat DEF RegisterWorker, Register
  <2>2. UNCHANGED <<held, late, inventoryToken>>
    BY <1>3 DEF RegisterWorker, Register
  <2>3. NotAhead'
    BY <2>1, <2>2 DEF NotAhead, NoLate
  <2>4. Distinct'
    BY <2>1, <2>2 DEF NotAhead, Distinct
  <2>5. LastRegistered'
    BY <2>1, <2>2 DEF NotAhead, LastRegistered
  <2> QED
    BY <2>3, <2>4, <2>5
<1>4. ASSUME NEW p \in Process, Registered(p) PROVE Fenced'
  <2>1. NotAhead'
    BY <1>4 DEF Registered, dbVars, NotAhead
  <2>2. Distinct'
    BY <1>4 DEF Registered, dbVars, Distinct
  <2>3. LastRegistered'
    BY <1>4 DEF Registered, dbVars, LastRegistered
  <2> QED
    BY <2>1, <2>2, <2>3
<1>5. ASSUME NEW p \in Process, RegisterFails(p) PROVE Fenced'
    BY <1>5 DEF RegisterFails, dbVars, NotAhead, Distinct, LastRegistered
<1>6. ASSUME NEW p \in Process, LateRegister(p) PROVE Fenced'
  <2>1. token' \in Nat /\ token < token' /\ late' = [late EXCEPT ![p] = NoLate]
    BY <1>6, NewTokenIsNat DEF LateRegister, Register
  <2>2. UNCHANGED <<held, reply, inventoryToken>>
    BY <1>6 DEF LateRegister, Register, procVars
  <2>3. NotAhead'
    BY <2>1, <2>2 DEF NotAhead, NoLate
  <2>4. Distinct'
    BY <2>2 DEF Distinct
  <2>5. LastRegistered'
    BY <2>1, <2>2 DEF NotAhead, LastRegistered
  <2> QED
    BY <2>3, <2>4, <2>5
<1>7. ASSUME NEW p \in Process, NEW answered \in BOOLEAN, ReportWorkerHeartbeat(p, answered)
      PROVE  Fenced'
    BY <1>7 DEF ReportWorkerHeartbeat, Accepted, NotAhead, Distinct, LastRegistered
<1> QED
    BY <1>1, <1>2, <1>3, <1>4, <1>5, <1>6, <1>7 DEF Next, Step

(* The invariant holds of every behaviour.                                 *)
LEMMA FencingInvariant == Spec => []FencingInv
BY FencingInit, FencingNext, PTL DEF Spec

(* While the database keeps its token, no two processes of a worker ever   *)
(* hold the same one.                                                      *)
THEOREM UniqueTokens == Spec => []TokensUnique
<1>1. FencingInv => TokensUnique
    BY DEF FencingInv, Fenced, Distinct, TokensUnique
<1> QED
    BY FencingInvariant, <1>1, PTL

(* While the database keeps its token, only the process that registered    *)
(* last has its heartbeats accepted.                                       *)
THEOREM OldRefused == Spec => []OldProcessRefused
<1>1. FencingInv => OldProcessRefused
    BY DEF FencingInv, Fenced, LastRegistered, OldProcessRefused, Accepted
<1> QED
    BY FencingInvariant, <1>1, PTL

(* While the database keeps its token, inventory_token never goes back:    *)
(* the first inventory of a registration is claimed once.                  *)
THEOREM InventoryOnce == Spec => InventoryClaimedOnce
<1>1. FencingInv /\ [Next]_vars => [losses' = 0 => inventoryToken' >= inventoryToken]_vars
  <2> SUFFICES ASSUME FencingInv, Next, losses' = 0 PROVE inventoryToken' >= inventoryToken
    OBVIOUS
  <2>0. TypeOK /\ NotAhead /\ ~LoseToken
    BY LossesStay DEF FencingInv, Fenced
  <2>1. ASSUME NEW p \in Process, NEW answered \in BOOLEAN, ReportWorkerHeartbeat(p, answered)
        PROVE  inventoryToken' >= inventoryToken
    BY <2>0, <2>1 DEF TypeOK, ReportWorkerHeartbeat, Accepted, NotAhead
  <2>2. ASSUME NEW p \in Process,
               \/ Start(p) \/ Stop(p) \/ UpdateWorker(p) \/ LoseHeartbeat(p)
               \/ RegisterWorker(p) \/ Registered(p) \/ RegisterFails(p) \/ LateRegister(p)
        PROVE  inventoryToken' >= inventoryToken
    BY <2>0, <2>2 DEF TypeOK, Start, Stop, UpdateWorker, LoseHeartbeat, RegisterWorker,
                      Registered, RegisterFails, LateRegister, Register, dbVars
  <2> QED
    BY <2>0, <2>1, <2>2 DEF Next, Step
<1> QED
    BY FencingInvariant, <1>1, PTL DEF Spec, InventoryClaimedOnce
=============================================================================
