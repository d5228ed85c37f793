------------------------ MODULE RegistryServiceProofs ------------------------
(***************************************************************************)
(* Proofs about RegistryService, for every number of calls, merchants and  *)
(* beneficiaries, every capacity and fee, and any bounds.                  *)
(***************************************************************************)
EXTENDS RegistryService, TLAPS

\* A handler in one of its sections serves a request of its kind.
SectionInv ==
  \A c \in Call :
    /\ pc[c] \in {"check", "enlist", "report"} => req[c].op = "merchant"
    /\ pc[c] \in {"verify", "admit"} => req[c].op = "beneficiary"
    /\ pc[c] \in {"poll", "fetch"} => req[c].op = "subscribe"

\* The mutexes that are held between actions are held by the call that says so.
LockInv ==
  \A c \in Call :
    /\ registryLock = c <=> pc[c] \in {"fund", "record"}
    /\ storeLock = c <=> pc[c] = "record"

\* While a finalization holds the registry, its CRS is that of all merchants, and
\* the transaction it broadcast commits to the pending set.
SealInv ==
  \A c \in Call :
    /\ pc[c] \in {"fund", "record"} => registry.crs = registry.merchants
    /\ pc[c] = "record" =>
         /\ chain # << >>
         /\ kept[c] = Len(chain)
         /\ Len(chain) \notin DOMAIN active
         /\ chain[Len(chain)].key = registry.key
         /\ chain[Len(chain)].set = registry.set
         /\ chain[Len(chain)].gen = generation

ServiceInv == TypeOK /\ SectionInv /\ LockInv /\ SealInv

-----------------------------------------------------------------------------
\* The fields of a request follow from its operation.
LEMMA MerchantRequest ==
  ASSUME NEW r \in Request, r.op = "merchant"
  PROVE  r.name \in Merchant /\ r.out \in Outpoint
  BY DEF Request

LEMMA BeneficiaryRequest ==
  ASSUME NEW r \in Request, r.op = "beneficiary"
  PROVE  r.phi \in Phi /\ r.out \in Outpoint
  BY DEF Request

LEMMA CommitmentValueNat == CommitmentValue \in Nat
  BY CapacityAssumption, FeeAssumption DEF CommitmentValue

\* A broadcast appends to the chain a transaction that commits to the pending
\* set, and the wallet can pay for it.
LEMMA BroadcastAppends ==
  ASSUME TypeOK, NEW heard \in BOOLEAN, Broadcast(heard)
  PROVE  /\ \E tx \in CommitmentTx : /\ chain' = Append(chain, tx)
                                     /\ tx.set = registry.set
                                     /\ tx.key = registry.key
                                     /\ tx.gen = generation
                                     /\ tx.heard = heard
         /\ registry.set # << >>
         /\ chain' \in Seq(CommitmentTx)
         /\ Len(chain) \in Nat /\ Len(chain') = Len(chain) + 1
         /\ \A t \in DOMAIN chain : chain'[t] = chain[t]
         /\ balance' \in Nat
<1> DEFINE tx == [key |-> registry.key, set |-> registry.set, value |-> CommitmentValue,
                  gen |-> generation, heard |-> heard]
<1>1. tx \in CommitmentTx
  BY CommitmentValueNat DEF TypeOK, Registry, CommitmentTx
<1>2. chain' = Append(chain, tx) /\ registry.set # << >>
  BY DEF Broadcast
<1>3. balance' \in Nat
  BY CommitmentValueNat DEF Broadcast, Affordable, TypeOK
<1>4. chain \in Seq(CommitmentTx)
  BY DEF TypeOK
<1>5. /\ chain' \in Seq(CommitmentTx)
      /\ Len(chain) \in Nat /\ Len(chain') = Len(chain) + 1
      /\ \A t \in DOMAIN chain : chain'[t] = chain[t]
  BY <1>1, <1>2, <1>4
<1> QED
  BY <1>1, <1>2, <1>3, <1>5

\* The initial state satisfies the invariant.
LEMMA InitInv == Init => ServiceInv
<1> SUFFICES ASSUME Init PROVE ServiceInv
  OBVIOUS
<1>1. TypeOK
  <2>1. NoRequest \in Request
    BY DEF NoRequest, Request
  <2>2. NewRegistry(1) \in Registry
    BY DEF NewRegistry, Registry
  <2>3. [merchants |-> {}, sets |-> << >>] \in Database
    BY DEF Database
  <2> QED
    BY <2>1, <2>2, <2>3 DEF Init, TypeOK, Section
<1>2. SectionInv /\ SealInv
  BY DEF Init, SectionInv, SealInv
<1>3. LockInv
  BY CallAssumption DEF Init, LockInv
<1> QED
  BY <1>1, <1>2, <1>3 DEF ServiceInv
-----------------------------------------------------------------------------
\* Returning or moving on keeps the handler's bookkeeping well typed.
LEMMA ReturnTyped ==
  ASSUME TypeOK, NEW c \in Call, Return(c)
  PROVE  pc' \in [Call -> Section] /\ req' \in [Call -> Request] /\ kept' \in [Call -> Nat]
<1>1. NoRequest \in Request
  BY DEF NoRequest, Request
<1> QED
  BY <1>1 DEF TypeOK, Return, Section

LEMMA GotoTyped ==
  ASSUME TypeOK, NEW c \in Call, NEW s \in Section, Goto(c, s)
  PROVE  pc' \in [Call -> Section] /\ req' \in [Call -> Request]
  BY DEF TypeOK, Goto

\* Every step keeps the types.
LEMMA TypeStep == ServiceInv /\ [Next]_vars => TypeOK'
<1> SUFFICES ASSUME ServiceInv, [Next]_vars PROVE TypeOK'
  OBVIOUS
<1> USE DEF ServiceInv
<1>1. ASSUME NEW o \in Outpoint, Pay(o) PROVE TypeOK'
  <2> PICK key \in 1 .. walletKey :
        /\ paidTo' = [paidTo EXCEPT ![o] = key]
        /\ balance' = IF key = walletKey THEN balance + Sats[o] ELSE balance
    BY <1>1 DEF Pay
  <2>1. Sats[o] \in Nat
    BY SatsAssumption
  <2>2. walletKey \in Nat
    BY DEF TypeOK
  <2>3. key \in Nat
    BY <2>2
  <2>4. balance' \in Nat /\ paidTo' \in [Outpoint -> Nat]
    BY <2>1, <2>3 DEF TypeOK
  <2> QED
    BY <1>1, <2>4 DEF Pay, TypeOK, storeVars, lockVars, callVars
<1>2. ASSUME NEW c \in Call, Issue(c) PROVE TypeOK'
  <2> PICK r \in Request :
        /\ r.op \in Ops
        /\ resets' = IF r.op = "reset" THEN resets + 1 ELSE resets
        /\ req' = [req EXCEPT ![c] = r]
        /\ pc' = [pc EXCEPT ![c] = FirstSection(r.op)]
    BY <1>2 DEF Issue
  <2>1. FirstSection(r.op) \in Section
    BY OpsAssumption DEF FirstSection, Section, Awaiting
  <2> QED
    BY <1>2, <2>1 DEF Issue, TypeOK, storeVars, lockVars, walletVars
<1>3. ASSUME NEW c \in Call, Leave(c) PROVE TypeOK'
  <2>1. abandoned' \subseteq Merchant
    BY <1>3, MerchantRequest DEF Leave, TypeOK, SectionInv
  <2> QED
    BY <1>3, <2>1, ReturnTyped DEF Leave, TypeOK, walletVars
<1>4. ASSUME NEW c \in Call, CheckMerchant(c) PROVE TypeOK'
  <2>1. req[c].name \in Merchant
    BY <1>4, MerchantRequest DEF CheckMerchant, SectionInv, TypeOK
  <2>2. CASE Goto(c, "enlist") /\ kept' = [kept EXCEPT ![c] = generation]
                /\ db' = [db EXCEPT !.merchants = @ \union {req[c].name}]
                /\ pool' = pool \union {req[c].name} /\ UNCHANGED abandoned
    <3>1. db' \in Database
      BY <2>1, <2>2 DEF TypeOK, Database
    <3>2. pc' \in [Call -> Section] /\ req' \in [Call -> Request]
      BY <2>2, GotoTyped DEF Section, Awaiting
    <3> QED
      BY <1>4, <2>1, <2>2, <3>1, <3>2 DEF CheckMerchant, TypeOK, lockVars, walletVars
  <2>3. CASE Return(c) /\ UNCHANGED db
    BY <1>4, <2>1, <2>3, ReturnTyped DEF CheckMerchant, TypeOK, lockVars, walletVars
  <2> QED
    BY <1>4, <2>2, <2>3 DEF CheckMerchant
<1>5. ASSUME NEW c \in Call, EnlistMerchant(c) PROVE TypeOK'
  <2>1. req[c].name \in Merchant
    BY <1>5, MerchantRequest DEF EnlistMerchant, SectionInv, TypeOK
  <2>2. [name |-> req[c].name, gen |-> kept[c]] \in Entry
    BY <2>1 DEF Entry, TypeOK
  <2> DEFINE e == [name |-> req[c].name, gen |-> kept[c]]
  <2>3. registry' \in Registry
    <3>1. Append(registry.merchants, e) \in Seq(Entry)
      BY <2>2 DEF TypeOK, Registry
    <3>2. registry' = [registry EXCEPT !.merchants = Append(registry.merchants, e)]
      BY <1>5 DEF EnlistMerchant
    <3> HIDE DEF e
    <3> QED
      BY <3>1, <3>2 DEF TypeOK, Registry
  <2>4. answers' \subseteq Answer
    BY <1>5, <2>1 DEF EnlistMerchant, Told, TypeOK, Answer, Registry, NextMerchantId
  <2>5. pc' \in [Call -> Section] /\ req' \in [Call -> Request]
    BY <1>5, GotoTyped DEF EnlistMerchant, Section, Awaiting
  <2> QED
    BY <1>5, <2>3, <2>4, <2>5 DEF EnlistMerchant, TypeOK, storeVars, lockVars, walletVars
<1>6. ASSUME NEW c \in Call, ReportMerchant(c) PROVE TypeOK'
  BY <1>6, ReturnTyped DEF ReportMerchant, TypeOK, storeVars, lockVars, walletVars
<1>7. ASSUME NEW c \in Call, VerifyFee(c) PROVE TypeOK'
  <2>1. pc' \in [Call -> Section] /\ req' \in [Call -> Request] /\ kept' \in [Call -> Nat]
    <3>1. CASE Return(c)
      BY <3>1, ReturnTyped
    <3>2. CASE Goto(c, "admit") /\ UNCHANGED kept
      BY <3>2, GotoTyped DEF Section, Awaiting, TypeOK
    <3> QED
      BY <1>7, <3>1, <3>2 DEF VerifyFee
  <2> QED
    BY <1>7, <2>1 DEF VerifyFee, TypeOK, storeVars, lockVars, walletVars
<1>8. ASSUME NEW c \in Call, AdmitBeneficiary(c) PROVE TypeOK'
  <2>1. req[c].phi \in Phi /\ req[c].out \in Outpoint
    BY <1>8, BeneficiaryRequest DEF AdmitBeneficiary, SectionInv, TypeOK
  <2> DEFINE m == [phi |-> req[c].phi, out |-> req[c].out]
  <2>2. registry' \in Registry
    <3>1. Append(registry.set, m) \in Seq(Member)
      BY <2>1 DEF TypeOK, Registry, Member
    <3>2. \/ registry' = [registry EXCEPT !.set = Append(registry.set, m)]
          \/ registry' = registry
      BY <1>8 DEF AdmitBeneficiary
    <3> HIDE DEF m
    <3> QED
      BY <3>1, <3>2 DEF TypeOK, Registry
  <2>3. answers' \subseteq Answer
    BY <1>8, <2>1 DEF AdmitBeneficiary, Told, TypeOK, Answer, Registry
  <2> QED
    BY <1>8, <2>2, <2>3, ReturnTyped DEF AdmitBeneficiary, TypeOK, storeVars, lockVars, walletVars
<1>9. ASSUME NEW c \in Call, SetupCrs(c) PROVE TypeOK'
  <2>1. registry' \in Registry
    BY <1>9 DEF SetupCrs, TypeOK, Registry
  <2>2. pc' \in [Call -> Section] /\ req' \in [Call -> Request]
    BY <1>9, GotoTyped DEF SetupCrs, Section, Awaiting
  <2> QED
    BY <1>9, <2>1, <2>2 DEF SetupCrs, GuardAfterSetup, TypeOK, storeVars, walletVars
<1>10. ASSUME NEW c \in Call, FundSet(c) PROVE TypeOK'
  <2>1. Len(chain) \in Nat
    BY DEF TypeOK
  <2>2. /\ chain' \in Seq(CommitmentTx) /\ Len(chain') \in Nat /\ Len(chain) =< Len(chain')
        /\ balance' \in Nat
    <3>1. CASE \E heard \in BOOLEAN : Broadcast(heard)
      BY <3>1, BroadcastAppends
    <3>2. CASE UNCHANGED <<chain, balance>>
      BY <3>2 DEF TypeOK
    <3> QED
      BY <1>10, <3>1, <3>2 DEF FundSet
  <2>3. CASE Goto(c, "record") /\ kept' = [kept EXCEPT ![c] = Len(chain) + 1]
                /\ storeLock' = c /\ UNCHANGED registryLock
    <3>1. pc' \in [Call -> Section] /\ req' \in [Call -> Request]
      BY <2>3, GotoTyped DEF Section, Awaiting
    <3>2. kept' \in [Call -> Nat]
      BY <2>1, <2>3 DEF TypeOK
    <3> QED
      BY <1>10, <2>1, <2>2, <2>3, <3>1, <3>2 DEF FundSet, TypeOK, storeVars
  <2>4. CASE registryLock' = Free /\ Return(c) /\ UNCHANGED storeLock
    BY <1>10, <2>1, <2>2, <2>4, ReturnTyped DEF FundSet, TypeOK, storeVars
  <2> QED
    BY <1>10, <2>3, <2>4 DEF FundSet
<1>11. ASSUME NEW c \in Call, RecordSet(c) PROVE TypeOK'
  <2>1. SealedCopy \in SealedSet
    BY DEF SealedCopy, SealedSet, TypeOK, Registry
  <2>2. kept[c] \in 1 .. Len(chain)
    BY <1>11 DEF RecordSet, SealInv, TypeOK
  <2>3. DOMAIN active' \subseteq 1 .. Len(chain) /\ active' \in [DOMAIN active' -> SealedSet]
    BY <1>11, <2>1, <2>2 DEF RecordSet, ActiveWith, TypeOK
  <2>4. db' \in Database
    <3> DEFINE sets == [s \in DOMAIN db.sets |-> s = kept[c] \/ db.sets[s]]
    <3>1. db.sets \in [DOMAIN db.sets -> BOOLEAN] /\ DOMAIN db.sets \subseteq Txid
      BY DEF TypeOK, Database
    <3>2. sets \in [DOMAIN db.sets -> BOOLEAN]
      OBVIOUS
    <3>3. sets \in UNION {[S -> BOOLEAN] : S \in SUBSET Txid}
      BY <3>1, <3>2
    <3>4. db' = [db EXCEPT !.sets = sets] \/ db' = db
      BY <1>11 DEF RecordSet, MarkSetFinalized
    <3> HIDE DEF sets
    <3> QED
      BY <3>3, <3>4 DEF TypeOK, Database
  <2> QED
    BY <1>11, <2>3, <2>4, ReturnTyped DEF RecordSet, TypeOK, walletVars
<1>12. ASSUME NEW c \in Call, ClearStore(c) PROVE TypeOK'
  <2>1. pc' \in [Call -> Section] /\ req' \in [Call -> Request]
    BY <1>12, GotoTyped DEF ClearStore, Section, Awaiting
  <2> QED
    BY <1>12, <2>1 DEF ClearStore, PoolAfterReset, TypeOK, lockVars, walletVars
<1>13. ASSUME NEW c \in Call, RenewRegistry(c) PROVE TypeOK'
  <2>1. registry' \in Registry
    BY <1>13 DEF RenewRegistry, Renewed, NewRegistry, Registry, TypeOK
  <2>2. abandoned' \subseteq Merchant
    <3>1. \A i \in DOMAIN registry.merchants : registry.merchants[i] \in Entry
      BY DEF TypeOK, Registry
    <3>2. \A i \in EntriesOf(generation) : registry.merchants[i].name \in Merchant
      BY <3>1 DEF EntriesOf, Entry
    <3> QED
      BY <1>13, <3>2 DEF RenewRegistry, TypeOK
  <2> QED
    BY <1>13, <2>1, <2>2, ReturnTyped DEF RenewRegistry, TypeOK, lockVars, walletVars
<1>14. ASSUME NEW c \in Call, PollMiss(c) PROVE TypeOK'
  BY <1>14 DEF PollMiss, GuardWhileSleeping, TypeOK, storeVars, walletVars, callVars
<1>15. ASSUME NEW c \in Call, PollHit(c) PROVE TypeOK'
  <2>1. pc' \in [Call -> Section] /\ req' \in [Call -> Request]
    BY <1>15, GotoTyped DEF PollHit, Section
  <2> QED
    BY <1>15, <2>1 DEF PollHit, TypeOK, storeVars, lockVars, walletVars
<1>16. ASSUME NEW c \in Call, FetchSet(c) PROVE TypeOK'
  BY <1>16, ReturnTyped DEF FetchSet, TypeOK, storeVars, lockVars, walletVars
<1>17. CASE Restart
  <2>1. NoRequest \in Request
    BY DEF NoRequest, Request
  <2>2. NewRegistry(registry.key + 1) \in Registry
    BY DEF NewRegistry, Registry, TypeOK
  <2> QED
    BY <1>17, <2>1, <2>2 DEF Restart, TypeOK, Section
<1>18. CASE UNCHANGED vars
  BY <1>18 DEF vars, storeVars, lockVars, walletVars, callVars, TypeOK
<1> QED
  BY <1>1, <1>2, <1>3, <1>4, <1>5, <1>6, <1>7, <1>8, <1>9, <1>10, <1>11, <1>12, <1>13,
     <1>14, <1>15, <1>16, <1>17, <1>18 DEF Next, Serve
-----------------------------------------------------------------------------
\* Every step leaves each handler in a section that fits its request.
LEMMA SectionStep == ServiceInv /\ [Next]_vars => SectionInv'
<1> SUFFICES ASSUME ServiceInv, [Next]_vars PROVE SectionInv'
  OBVIOUS
<1> USE DEF ServiceInv, SectionInv
<1>1. ASSUME NEW o \in Outpoint, Pay(o) PROVE SectionInv'
  BY <1>1 DEF Pay, callVars
<1>2. ASSUME NEW c \in Call, Issue(c) PROVE SectionInv'
  <2> PICK r \in Request :
        /\ r.op \in Ops
        /\ req' = [req EXCEPT ![c] = r]
        /\ pc' = [pc EXCEPT ![c] = FirstSection(r.op)]
    BY <1>2 DEF Issue
  <2> QED
    BY OpsAssumption DEF FirstSection, TypeOK
<1>3. ASSUME NEW c \in Call, Leave(c) \/ Serve(c) PROVE SectionInv'
  BY <1>3 DEF TypeOK, Goto, Return, callVars, Leave, Serve, CheckMerchant, EnlistMerchant,
     ReportMerchant, VerifyFee, AdmitBeneficiary, SetupCrs, FundSet, RecordSet, ClearStore,
     RenewRegistry, PollMiss, PollHit, FetchSet
<1>4. CASE Restart
  BY <1>4 DEF Restart
<1>5. CASE UNCHANGED vars
  BY <1>5 DEF vars, callVars
<1> QED
  BY <1>1, <1>2, <1>3, <1>4, <1>5 DEF Next
-----------------------------------------------------------------------------
\* A task that neither holds nor takes a mutex beyond its action disturbs nothing.
LEMMA LocksUntouched ==
  ASSUME ServiceInv, NEW c \in Call, pc[c] \notin {"fund", "record"},
         NEW s, s \notin {"fund", "record"},
         pc' = [pc EXCEPT ![c] = s], UNCHANGED lockVars
  PROVE  LockInv'
  BY DEF ServiceInv, TypeOK, LockInv, lockVars

\* The mutexes pass from one call to the next.
LEMMA LockStep == ServiceInv /\ [Next]_vars => LockInv'
<1> SUFFICES ASSUME ServiceInv, [Next]_vars PROVE LockInv'
  OBVIOUS
<1>1. ASSUME NEW o \in Outpoint, Pay(o) PROVE LockInv'
  BY <1>1 DEF Pay, ServiceInv, LockInv, lockVars, callVars
<1>2. ASSUME NEW c \in Call, Issue(c) PROVE LockInv'
  <2> PICK r \in Request : r.op \in Ops /\ pc' = [pc EXCEPT ![c] = FirstSection(r.op)]
    BY <1>2 DEF Issue
  <2>1. FirstSection(r.op) \notin {"fund", "record"}
    BY OpsAssumption DEF FirstSection
  <2> QED
    BY <1>2, <2>1, LocksUntouched DEF Issue
<1>3. ASSUME NEW c \in Call, Leave(c) PROVE LockInv'
  BY <1>3, CallAssumption
     DEF Leave, Return, Awaiting, ServiceInv, TypeOK, LockInv
<1>4. ASSUME NEW c \in Call,
             \/ CheckMerchant(c) \/ EnlistMerchant(c) \/ ReportMerchant(c) \/ VerifyFee(c)
             \/ AdmitBeneficiary(c) \/ ClearStore(c) \/ RenewRegistry(c) \/ PollHit(c)
             \/ FetchSet(c)
      PROVE  LockInv'
  <2>1. pc[c] \notin {"fund", "record"} /\ UNCHANGED lockVars
    BY <1>4 DEF CheckMerchant, EnlistMerchant, ReportMerchant, VerifyFee, AdmitBeneficiary,
       ClearStore, RenewRegistry, PollHit, FetchSet
  <2>2. \E s \in {"enlist", "report", "admit", "renew", "fetch", "idle"} :
          pc' = [pc EXCEPT ![c] = s]
    BY <1>4 DEF Goto, Return, CheckMerchant, EnlistMerchant, ReportMerchant, VerifyFee,
       AdmitBeneficiary, ClearStore, RenewRegistry, PollHit, FetchSet
  <2> QED
    BY <2>1, <2>2, LocksUntouched
<1>5. ASSUME NEW c \in Call, SetupCrs(c) PROVE LockInv'
  BY <1>5, CallAssumption
     DEF SetupCrs, GuardAfterSetup, Goto, ServiceInv, TypeOK, LockInv
<1>6. ASSUME NEW c \in Call, FundSet(c) PROVE LockInv'
  BY <1>6, CallAssumption DEF FundSet, Goto, Return, ServiceInv, TypeOK, LockInv
<1>7. ASSUME NEW c \in Call, RecordSet(c) PROVE LockInv'
  BY <1>7, CallAssumption DEF RecordSet, Return, ServiceInv, TypeOK, LockInv
<1>8. ASSUME NEW c \in Call, PollMiss(c) PROVE LockInv'
  BY <1>8 DEF PollMiss, GuardWhileSleeping, callVars, ServiceInv, LockInv
<1>9. CASE Restart
  BY <1>9, CallAssumption DEF Restart, LockInv
<1>10. CASE UNCHANGED vars
  BY <1>10 DEF vars, lockVars, callVars, ServiceInv, LockInv
<1> QED
  BY <1>1, <1>2, <1>3, <1>4, <1>5, <1>6, <1>7, <1>8, <1>9, <1>10 DEF Next, Serve
-----------------------------------------------------------------------------
\* The registry and the store stay as a finalization found them, or no call is in
\* the part of a finalization that relies on them.
LEMMA SealUntouched ==
  ASSUME ServiceInv,
         \A d \in Call : pc'[d] \in {"fund", "record"} =>
           /\ pc'[d] = pc[d]
           /\ UNCHANGED <<registry, chain>>
           /\ pc[d] = "record" => UNCHANGED <<active, generation>> /\ kept'[d] = kept[d]
  PROVE  SealInv'
  BY DEF ServiceInv, SealInv

\* Nothing disturbs a finalization between its sections.
LEMMA SealStep == ServiceInv /\ [Next]_vars => SealInv'
<1> SUFFICES ASSUME ServiceInv, [Next]_vars PROVE SealInv'
  OBVIOUS
<1>1. ASSUME NEW o \in Outpoint, Pay(o) PROVE SealInv'
  BY <1>1, SealUntouched DEF Pay, storeVars, callVars
<1>2. ASSUME NEW c \in Call, Issue(c) PROVE SealInv'
  <2> PICK r \in Request : r.op \in Ops /\ pc' = [pc EXCEPT ![c] = FirstSection(r.op)]
    BY <1>2 DEF Issue
  <2>1. FirstSection(r.op) \notin {"fund", "record"}
    BY OpsAssumption DEF FirstSection
  <2>2. pc \in [Call -> Section]
    BY DEF ServiceInv, TypeOK
  <2> QED
    BY <1>2, <2>1, <2>2, SealUntouched DEF Issue, storeVars, walletVars
<1>3. ASSUME NEW c \in Call,
             \/ Leave(c) \/ CheckMerchant(c) \/ ReportMerchant(c) \/ VerifyFee(c)
             \/ PollMiss(c) \/ PollHit(c) \/ FetchSet(c)
      PROVE  SealInv'
  <2>1. UNCHANGED <<registry, chain, active, generation>>
    BY <1>3 DEF Leave, CheckMerchant, ReportMerchant, VerifyFee, PollMiss, PollHit, FetchSet,
       storeVars, walletVars
  <2>2. \A d \in Call : pc'[d] \in {"fund", "record"} => pc'[d] = pc[d] /\ kept'[d] = kept[d]
    BY <1>3 DEF Leave, CheckMerchant, ReportMerchant, VerifyFee, PollMiss, PollHit, FetchSet,
       Goto, Return, callVars, ServiceInv, TypeOK
  <2> QED
    BY <2>1, <2>2, SealUntouched
<1>4. ASSUME NEW c \in Call, EnlistMerchant(c) \/ AdmitBeneficiary(c) \/ RenewRegistry(c)
      PROVE  SealInv'
  <2>1. registryLock = Free /\ \E s \in {"report", "idle"} : pc' = [pc EXCEPT ![c] = s]
    BY <1>4 DEF EnlistMerchant, AdmitBeneficiary, RenewRegistry, Goto, Return
  <2>2. \A d \in Call : pc'[d] \notin {"fund", "record"}
    BY <2>1, CallAssumption DEF ServiceInv, LockInv, TypeOK
  <2> QED
    BY <2>2, SealUntouched
<1>5. ASSUME NEW c \in Call, ClearStore(c) PROVE SealInv'
  <2>1. \A d \in Call : pc[d] # "record"
    BY <1>5, CallAssumption DEF ClearStore, ServiceInv, LockInv
  <2>2. \A d \in Call : pc'[d] \in {"fund", "record"} => pc'[d] = pc[d]
    BY <1>5 DEF ClearStore, Goto, ServiceInv, TypeOK
  <2> QED
    BY <1>5, <2>1, <2>2, SealUntouched DEF ClearStore, walletVars
<1>6. ASSUME NEW c \in Call, SetupCrs(c) PROVE SealInv'
  <2>1. \A d \in Call : pc[d] \notin {"fund", "record"}
    BY <1>6, CallAssumption DEF SetupCrs, ServiceInv, LockInv
  <2>2. registry'.crs = registry'.merchants
    BY <1>6 DEF SetupCrs, ServiceInv, TypeOK, Registry
  <2> QED
    BY <1>6, <2>1, <2>2 DEF SetupCrs, Goto, ServiceInv, TypeOK, SealInv
<1>7. ASSUME NEW c \in Call, FundSet(c) PROVE SealInv'
  <2>1. \A d \in Call : d # c => pc[d] \notin {"fund", "record"}
    BY <1>7 DEF FundSet, ServiceInv, LockInv
  <2>2. CASE Return(c)
    BY <2>1, <2>2, SealUntouched DEF Return, ServiceInv, TypeOK
  <2>3. CASE Broadcast(TRUE) /\ Goto(c, "record") /\ kept' = [kept EXCEPT ![c] = Len(chain) + 1]
    <3>1. PICK tx \in CommitmentTx : /\ chain' = Append(chain, tx)
                                     /\ tx.set = registry.set
                                     /\ tx.key = registry.key
                                     /\ tx.gen = generation
      BY <2>3, BroadcastAppends DEF ServiceInv
    <3>2. chain \in Seq(CommitmentTx)
      BY DEF ServiceInv, TypeOK
    <3>3. chain' # << >> /\ Len(chain') = Len(chain) + 1 /\ chain'[Len(chain')] = tx
      BY <3>1, <3>2
    <3>4. kept'[c] = Len(chain')
      BY <2>3, <3>3 DEF ServiceInv, TypeOK
    <3>5. Len(chain') \notin DOMAIN active
      BY <3>2, <3>3 DEF ServiceInv, TypeOK
    <3>6. registry.crs = registry.merchants
      BY <1>7 DEF FundSet, ServiceInv, SealInv
    <3>7. UNCHANGED <<registry, active, generation>>
      BY <1>7 DEF FundSet, storeVars
    <3>8. \A d \in Call : d # c => pc'[d] \notin {"fund", "record"}
      BY <2>1, <2>3 DEF Goto, ServiceInv, TypeOK
    <3> QED
      BY <3>1, <3>3, <3>4, <3>5, <3>6, <3>7, <3>8 DEF SealInv
  <2> QED
    BY <1>7, <2>2, <2>3 DEF FundSet
<1>8. ASSUME NEW c \in Call, RecordSet(c) PROVE SealInv'
  <2>1. \A d \in Call : d # c => pc[d] \notin {"fund", "record"}
    BY <1>8 DEF RecordSet, ServiceInv, LockInv
  <2> QED
    BY <1>8, <2>1, SealUntouched DEF RecordSet, Return, ServiceInv, TypeOK
<1>9. CASE Restart
  BY <1>9, SealUntouched DEF Restart
<1>10. CASE UNCHANGED vars
  BY <1>10, SealUntouched DEF vars, storeVars, walletVars, callVars
<1> QED
  BY <1>1, <1>2, <1>3, <1>4, <1>5, <1>6, <1>7, <1>8, <1>9, <1>10 DEF Next, Serve
-----------------------------------------------------------------------------
\* The invariant that the theorems rest on holds of every behaviour.
LEMMA ServiceCorrect == Spec => []ServiceInv
<1>1. ServiceInv /\ [Next]_vars => ServiceInv'
  BY TypeStep, SectionStep, LockStep, SealStep DEF ServiceInv
<1> QED
  BY InitInv, <1>1, PTL DEF Spec

\* Every state has the types the code gives its variables, the wallet never spends
\* more than it holds (wallet.rs: fund_and_broadcast), and every finalized set is
\* filed under a transaction that was broadcast (store.rs: create_tx).
THEOREM TypeCorrect == Spec => []TypeOK
<1>1. ServiceInv => TypeOK
  BY DEF ServiceInv
<1> QED
  BY ServiceCorrect, <1>1, PTL
-----------------------------------------------------------------------------
\* A set that stays is the set it was; every step but RecordSet leaves `active`
\* alone or empties it.
LEMMA ActiveUntouched ==
  ASSUME ServiceInv, [Next]_vars, ~ \E c \in Call : RecordSet(c)
  PROVE  active' = active \/ active' = << >>
  BY DEF Next, Serve, Pay, Issue, Leave, CheckMerchant, EnlistMerchant, ReportMerchant,
     VerifyFee, AdmitBeneficiary, SetupCrs, FundSet, ClearStore, RenewRegistry, PollMiss,
     PollHit, FetchSet, Restart, storeVars, vars

\* The chain grows at its end, by FundSet alone, and the new transaction commits
\* to the pending set.
LEMMA ChainGrows ==
  ASSUME ServiceInv, [Next]_vars
  PROVE  \/ chain' = chain
         \/ \E tx \in CommitmentTx : /\ chain' = Append(chain, tx)
                                     /\ tx.set = registry.set
                                     /\ tx.key = registry.key
                                     /\ tx.gen = generation
                                     /\ registry.set # << >>
                                     /\ UNCHANGED <<registry, storeVars>>
<1>1. ASSUME NEW c \in Call, FundSet(c), chain' # chain
      PROVE  \E tx \in CommitmentTx : /\ chain' = Append(chain, tx)
                                      /\ tx.set = registry.set
                                      /\ tx.key = registry.key
                                      /\ tx.gen = generation
                                      /\ registry.set # << >>
                                      /\ UNCHANGED <<registry, storeVars>>
  <2>1. PICK heard \in BOOLEAN : Broadcast(heard)
    BY <1>1 DEF FundSet
  <2> QED
    BY <1>1, <2>1, BroadcastAppends DEF FundSet, ServiceInv
<1>2. ASSUME ~ \E c \in Call : FundSet(c) PROVE chain' = chain
  BY <1>2 DEF Next, Serve, Pay, Issue, Leave, CheckMerchant, EnlistMerchant, ReportMerchant,
     VerifyFee, AdmitBeneficiary, SetupCrs, RecordSet, ClearStore, RenewRegistry, PollMiss,
     PollHit, FetchSet, Restart, walletVars, vars
<1> QED
  BY <1>1, <1>2

\* RecordSet files the pending set under the transaction that commits to it.
LEMMA RecordFiles ==
  ASSUME ServiceInv, NEW c \in Call, RecordSet(c)
  PROVE  /\ Len(chain) \in Nat \ {0}
         /\ Len(chain) \notin DOMAIN active
         /\ chain[Len(chain)].set = registry.set /\ chain[Len(chain)].key = registry.key
         /\ registry.crs = registry.merchants
         /\ active' = ActiveWith(Len(chain))
         /\ UNCHANGED <<registry, chain>>
  BY DEF ServiceInv, TypeOK, SealInv, RecordSet, walletVars

\* A finalized set that the service hands out is, member for member, the set that
\* the Bitcoin transaction of its id commits to, whatever other calls did between
\* the broadcast and the insertion or do later (store.rs: create_tx).
THEOREM SetsAnchored == Spec => []ActiveSetsAnchored
<1>1. Init => ActiveSetsAnchored
  BY DEF Init, ActiveSetsAnchored
<1>2. ServiceInv /\ ActiveSetsAnchored /\ [Next]_vars => ActiveSetsAnchored'
  <2> SUFFICES ASSUME ServiceInv, ActiveSetsAnchored, [Next]_vars PROVE ActiveSetsAnchored'
    OBVIOUS
  <2>1. ASSUME NEW c \in Call, RecordSet(c) PROVE ActiveSetsAnchored'
    <3>1. active' = ActiveWith(Len(chain)) /\ UNCHANGED <<registry, chain>>
      BY <2>1, RecordFiles
    <3>2. SealedCopy.key = chain[Len(chain)].key /\ SealedCopy.set = chain[Len(chain)].set
      BY <2>1, RecordFiles DEF SealedCopy
    <3> QED
      BY <3>1, <3>2 DEF ActiveWith, ActiveSetsAnchored
  <2>2. ASSUME ~ \E c \in Call : RecordSet(c) PROVE ActiveSetsAnchored'
    <3>1. active' = active \/ active' = << >>
      BY <2>2, ActiveUntouched
    <3>2. \A t \in DOMAIN active : chain'[t] = chain[t]
      BY ChainGrows DEF ServiceInv, TypeOK
    <3> QED
      BY <3>1, <3>2 DEF ActiveSetsAnchored
  <2> QED
    BY <2>1, <2>2
<1> QED
  BY ServiceCorrect, <1>1, <1>2, PTL DEF Spec
-----------------------------------------------------------------------------
\* A set of distinct commitments within the capacity.
Sound(set) ==
  /\ Len(set) =< Capacity
  /\ \A i, j \in DOMAIN set : set[i].phi = set[j].phi => i = j

\* The pending set of every step is the old one, an empty one, or the old one with
\* an admissible member at its end, for whom a call waited to be admitted.
LEMMA PendingSet ==
  ASSUME ServiceInv, [Next]_vars
  PROVE  \/ registry'.set = registry.set
         \/ registry'.set = << >>
         \/ \E m \in Member, c \in Call :
              /\ pc[c] = "admit" /\ m.out = req[c].out
              /\ Admissible(m.phi)
              /\ registry'.set = Append(registry.set, m)
<1>1. ASSUME NEW c \in Call, AdmitBeneficiary(c), registry' # registry
      PROVE  \E m \in Member : /\ pc[c] = "admit" /\ m.out = req[c].out
                              /\ Admissible(m.phi)
                              /\ registry'.set = Append(registry.set, m)
  <2> DEFINE m == [phi |-> req[c].phi, out |-> req[c].out]
  <2>1. m \in Member
    BY <1>1, BeneficiaryRequest DEF AdmitBeneficiary, ServiceInv, SectionInv, TypeOK, Member
  <2>2. /\ pc[c] = "admit" /\ m.out = req[c].out
        /\ Admissible(m.phi)
        /\ registry'.set = Append(registry.set, m)
    BY <1>1 DEF AdmitBeneficiary, ServiceInv, TypeOK, Registry
  <2> QED
    BY <2>1, <2>2
<1>2. ASSUME NEW c \in Call, EnlistMerchant(c) \/ SetupCrs(c) PROVE registry'.set = registry.set
  BY <1>2 DEF EnlistMerchant, SetupCrs, ServiceInv, TypeOK, Registry
<1>3. ASSUME NEW c \in Call, RenewRegistry(c) PROVE registry'.set = << >>
  BY <1>3 DEF RenewRegistry, Renewed, NewRegistry
<1>4. CASE Restart
  BY <1>4 DEF Restart, NewRegistry
<1>5. ASSUME ~ Restart, ~ \E c \in Call : \/ AdmitBeneficiary(c) \/ EnlistMerchant(c)
                                          \/ SetupCrs(c) \/ RenewRegistry(c)
      PROVE  registry' = registry
  BY <1>5 DEF Next, Serve, Pay, Issue, Leave, CheckMerchant, ReportMerchant, VerifyFee,
     FundSet, RecordSet, ClearStore, PollMiss, PollHit, FetchSet, vars
<1> QED
  BY <1>1, <1>2, <1>3, <1>4, <1>5

\* Adding an admissible member keeps a set sound.
LEMMA AdmissionSound ==
  ASSUME registry.set \in Seq(Member), Sound(registry.set), NEW m \in Member,
         Admissible(m.phi)
  PROVE  Sound(Append(registry.set, m))
  BY CapacityAssumption DEF Sound, Admissible

\* No set the service knows of, pending or finalized, ever has two members with
\* the same commitment or more members than the capacity, however the payment
\* checks and the admissions of beneficiaries interleave (service.rs:
\* register_beneficiary).
THEOREM MembersDistinct == Spec => []MembersUnique
<1> DEFINE AllSound == /\ Sound(registry.set)
                       /\ \A t \in DOMAIN active : Sound(active[t].set)
<1>1. Init => AllSound
  BY CapacityAssumption DEF Init, NewRegistry, Sound
<1>2. ServiceInv /\ AllSound /\ [Next]_vars => AllSound'
  <2> SUFFICES ASSUME ServiceInv, AllSound, [Next]_vars PROVE AllSound'
    OBVIOUS
  <2>1. Sound(<< >>)
    BY CapacityAssumption DEF Sound
  <2>2. registry.set \in Seq(Member)
    BY DEF ServiceInv, TypeOK, Registry
  <2>3. Sound(registry'.set)
    BY <2>1, <2>2, PendingSet, AdmissionSound
  <2>4. ASSUME NEW c \in Call, RecordSet(c), NEW t \in DOMAIN active'
        PROVE  Sound(active'[t].set)
    BY <2>4, RecordFiles DEF ActiveWith, SealedCopy
  <2>5. ASSUME ~ \E c \in Call : RecordSet(c), NEW t \in DOMAIN active'
        PROVE  Sound(active'[t].set)
    BY <2>5, ActiveUntouched
  <2> QED
    BY <2>3, <2>4, <2>5 DEF Sound
<1>3. AllSound => MembersUnique
  BY DEF Sound, MembersUnique, Sets
<1> QED
  BY ServiceCorrect, <1>1, <1>2, <1>3, PTL DEF Spec
=============================================================================
