------------------------- MODULE RegistryListsProofs -------------------------
(***************************************************************************)
(* Proofs about the lists of RegistryService: sets of one registry grow    *)
(* out of each other, with them stays true what clients were told, and the *)
(* merchants of the list are those of the pool.                            *)
(***************************************************************************)
EXTENDS RegistryServiceProofs

\* A list as it was, or with one entry at its end.
Continues(old, new) == new = old \/ \E e : new = Append(old, e)

LEMMA PrefixByElements ==
  ASSUME NEW S, NEW s \in Seq(S), NEW t \in Seq(S)
  PROVE  IsPrefix(s, t) <=> Len(s) =< Len(t) /\ \A i \in 1 .. Len(s) : s[i] = t[i]
  BY DEF IsPrefix

LEMMA PrefixGrows ==
  ASSUME NEW S, NEW s \in Seq(S), NEW t \in Seq(S), IsPrefix(s, t), NEW u \in Seq(S),
         Continues(t, u)
  PROVE  IsPrefix(s, u)
<1>1. CASE u = t
  BY <1>1
<1>2. ASSUME NEW e, u = Append(t, e) PROVE IsPrefix(s, u)
  <2> DEFINE T == S \union {e}
  <2>1. s \in Seq(T) /\ t \in Seq(T) /\ e \in T
    OBVIOUS
  <2> HIDE DEF T
  <2>2. u \in Seq(T) /\ Len(u) = Len(t) + 1 /\ \A i \in 1 .. Len(t) : u[i] = t[i]
    BY <1>2, <2>1
  <2> QED
    BY <2>1, <2>2, PrefixByElements
<1> QED
  BY <1>1, <1>2 DEF Continues

\* The pending registry either goes on or starts afresh, under a new key.
LEMMA RegistryStep ==
  ASSUME ServiceInv, [Next]_vars
  PROVE  \/ /\ registry'.key = registry.key
            /\ Continues(registry.set, registry'.set)
            /\ Continues(registry.merchants, registry'.merchants)
         \/ /\ registry'.key = registry.key + 1
            /\ registry'.set = << >> /\ registry'.merchants = << >>
<1>1. ASSUME NEW c \in Call, AdmitBeneficiary(c) \/ EnlistMerchant(c) \/ SetupCrs(c)
      PROVE  /\ registry'.key = registry.key
             /\ Continues(registry.set, registry'.set)
             /\ Continues(registry.merchants, registry'.merchants)
  BY <1>1 DEF AdmitBeneficiary, EnlistMerchant, SetupCrs, Continues, ServiceInv, TypeOK, Registry
<1>2. ASSUME NEW c \in Call, RenewRegistry(c)
      PROVE  /\ registry'.key = registry.key + 1
             /\ registry'.set = << >> /\ registry'.merchants = << >>
  BY <1>2 DEF RenewRegistry, Renewed, NewRegistry
<1>3. ASSUME Restart
      PROVE  /\ registry'.key = registry.key + 1
             /\ registry'.set = << >> /\ registry'.merchants = << >>
  BY <1>3 DEF Restart, NewRegistry
<1>4. ASSUME ~ Restart, ~ \E c \in Call : \/ AdmitBeneficiary(c) \/ EnlistMerchant(c)
                                          \/ SetupCrs(c) \/ RenewRegistry(c)
      PROVE  registry' = registry
  BY <1>4 DEF Next, Serve, Pay, Issue, Leave, CheckMerchant, ReportMerchant, VerifyFee,
     FundSet, RecordSet, ClearStore, PollMiss, PollHit, FetchSet, vars
<1> QED
  BY <1>1, <1>2, <1>3, <1>4 DEF Continues

\* No finalized set is of a registry that is still to come.
KeysPast == \A t \in DOMAIN active : active[t].key =< registry.key

LEMMA NestedStep ==
  ASSUME ServiceInv, ServiceInv', KeysPast, SealedSetsNested, [Next]_vars
  PROVE  KeysPast' /\ SealedSetsNested'
<1> USE DEF KeysPast
<1>1. /\ registry \in Registry /\ registry' \in Registry
      /\ active \in [DOMAIN active -> SealedSet] /\ active' \in [DOMAIN active' -> SealedSet]
      /\ DOMAIN active \subseteq 1 .. Len(chain) /\ chain \in Seq(CommitmentTx)
  BY DEF ServiceInv, TypeOK
<1>2. ASSUME NEW t \in DOMAIN active, active[t].key = registry'.key
      PROVE  /\ IsPrefix(active[t].set, registry'.set)
             /\ IsPrefix(active[t].crs, registry'.merchants)
  <2>1. registry'.key = registry.key
    BY <1>1, <1>2, RegistryStep DEF Registry, SealedSet
  <2>2. IsPrefix(active[t].set, registry.set) /\ IsPrefix(active[t].crs, registry.merchants)
    BY <1>2, <2>1 DEF SealedSetsNested
  <2>3. /\ Continues(registry.set, registry'.set)
        /\ Continues(registry.merchants, registry'.merchants)
    BY <1>1, <2>1, RegistryStep DEF Registry
  <2>4. /\ active[t].set \in Seq(Member) /\ active[t].crs \in Seq(Entry)
        /\ registry.set \in Seq(Member) /\ registry'.set \in Seq(Member)
        /\ registry.merchants \in Seq(Entry) /\ registry'.merchants \in Seq(Entry)
    BY <1>1 DEF Registry, SealedSet
  <2> QED
    BY <2>2, <2>3, <2>4, PrefixGrows
<1>3. registry'.key >= registry.key
  BY <1>1, RegistryStep DEF Registry
<1>4. CASE active' = active \/ active' = << >>
  <2>1. KeysPast'
    BY <1>1, <1>3, <1>4 DEF Registry, SealedSet
  <2>2. SealedSetsNested'
    BY <1>2, <1>4 DEF SealedSetsNested
  <2> QED
    BY <2>1, <2>2
<1>5. ASSUME NEW c \in Call, RecordSet(c) PROVE KeysPast' /\ SealedSetsNested'
  <2> DEFINE new == Len(chain)
  <2>1. /\ new \in Nat \ {0} /\ new \notin DOMAIN active
        /\ registry.crs = registry.merchants
        /\ active' = ActiveWith(new)
        /\ UNCHANGED registry
    BY <1>5, RecordFiles
  <2>2. /\ DOMAIN active' = DOMAIN active \union {new}
        /\ \A t \in DOMAIN active : active'[t] = active[t] /\ t < new
        /\ active'[new] = SealedCopy
    BY <1>1, <2>1 DEF ActiveWith
  <2> HIDE DEF new
  <2>3. /\ SealedCopy.key = registry.key /\ SealedCopy.set = registry.set
        /\ SealedCopy.crs = registry.merchants
    BY <2>1 DEF SealedCopy
  <2>4. KeysPast'
    BY <1>1, <2>1, <2>2, <2>3 DEF Registry
  <2>5. IsPrefix(registry.set, registry.set) /\ IsPrefix(registry.merchants, registry.merchants)
    BY <1>1 DEF Registry, IsPrefix
  <2>6. ASSUME NEW t \in DOMAIN active', active'[t].key = registry'.key
        PROVE  /\ IsPrefix(active'[t].set, registry'.set)
               /\ IsPrefix(active'[t].crs, registry'.merchants)
    BY <1>2, <2>1, <2>2, <2>3, <2>5, <2>6
  <2>7. ASSUME NEW t \in DOMAIN active', NEW u \in DOMAIN active', t < u,
               active'[t].key = active'[u].key
        PROVE  IsPrefix(active'[t].set, active'[u].set) /\ IsPrefix(active'[t].crs, active'[u].crs)
    <3>1. t \in DOMAIN active
      BY <1>1, <2>1, <2>2, <2>7
    <3>2. CASE u \in DOMAIN active
      BY <2>2, <2>7, <3>1, <3>2 DEF SealedSetsNested
    <3>3. CASE u = new
      BY <2>1, <2>2, <2>3, <2>7, <3>1, <3>3 DEF SealedSetsNested
    <3> QED
      BY <2>2, <3>2, <3>3
  <2> QED
    BY <2>4, <2>6, <2>7 DEF SealedSetsNested
<1> QED
  BY <1>4, <1>5, ActiveUntouched

\* Whatever is registered, fails, is finalized again or reset in between, sets that
\* are finalized from one registry continue each other, members and CRS alike, and
\* the pending registry continues them (service.rs: finalize_set).
THEOREM SetsNested == Spec => []SealedSetsNested
<1>1. Init => KeysPast /\ SealedSetsNested
  BY DEF Init, KeysPast, SealedSetsNested
<1>2. ServiceInv /\ ServiceInv' /\ KeysPast /\ SealedSetsNested /\ [Next]_vars
        => KeysPast' /\ SealedSetsNested'
  BY NestedStep
<1> QED
  BY ServiceCorrect, <1>1, <1>2, PTL DEF Spec
-----------------------------------------------------------------------------
\* AnswersHonoured, an answer at a time.
HasMember(set, a) == Len(set) > a.index => set[a.index + 1].phi = a.phi
HasMerchant(list, a) == Len(list) >= a.id => list[a.id].name = a.name

MemberHonoured(a) ==
  /\ a.key = registry.key => Len(registry.set) > a.index /\ HasMember(registry.set, a)
  /\ \A t \in DOMAIN active : active[t].key = a.key => HasMember(active[t].set, a)

MerchantHonoured(a) ==
  /\ a.key = registry.key =>
       Len(registry.merchants) >= a.id /\ HasMerchant(registry.merchants, a)
  /\ \A t \in DOMAIN active : active[t].key = a.key => HasMerchant(active[t].crs, a)

\* Ids count from 1, and no answer is of a registry that is still to come.
HonouredInv ==
  \A a \in answers :
    /\ a.key =< registry.key
    /\ a.op = "beneficiary" => MemberHonoured(a)
    /\ a.op = "merchant" => a.id >= 1 /\ MerchantHonoured(a)

LEMMA HonouredSuffices == HonouredInv => AnswersHonoured
  BY DEF HonouredInv, MemberHonoured, MerchantHonoured, HasMember, HasMerchant, AnswersHonoured

LEMMA AnswerTypes ==
  ASSUME NEW a \in Answer
  PROVE  /\ a.key \in Nat
         /\ a.op = "beneficiary" => a.index \in Nat
         /\ a.op = "merchant" => a.id \in Nat
  BY DEF Answer

LEMMA ContinuesKeeps ==
  ASSUME NEW S, NEW s \in Seq(S), NEW u \in Seq(S), Continues(s, u)
  PROVE  Len(u) >= Len(s) /\ \A i \in 1 .. Len(s) : u[i] = s[i]
<1>1. ASSUME NEW e, u = Append(s, e) PROVE Len(u) >= Len(s) /\ \A i \in 1 .. Len(s) : u[i] = s[i]
  <2> DEFINE T == S \union {e}
  <2>1. s \in Seq(T) /\ e \in T
    OBVIOUS
  <2> HIDE DEF T
  <2> QED
    BY <1>1, <2>1
<1> QED
  BY <1>1 DEF Continues

\* The finalized sets after a step: those from before it, or the pending registry.
LEMMA ActiveStep ==
  ASSUME ServiceInv, [Next]_vars, NEW t \in DOMAIN active'
  PROVE  \/ t \in DOMAIN active /\ active'[t] = active[t]
         \/ /\ active'[t].key = registry.key /\ active'[t].set = registry.set
            /\ active'[t].crs = registry.merchants
            /\ UNCHANGED registry
<1>1. ASSUME NEW c \in Call, RecordSet(c), t \notin DOMAIN active
      PROVE  /\ active'[t].key = registry.key /\ active'[t].set = registry.set
             /\ active'[t].crs = registry.merchants
             /\ UNCHANGED registry
  BY <1>1, RecordFiles DEF ActiveWith, SealedCopy
<1>2. ASSUME NEW c \in Call, RecordSet(c), t \in DOMAIN active PROVE active'[t] = active[t]
  BY <1>2, RecordFiles DEF ActiveWith
<1> QED
  BY <1>1, <1>2, ActiveUntouched

\* What has been told stays true.
LEMMA OldAnswers ==
  ASSUME ServiceInv, ServiceInv', HonouredInv, [Next]_vars, NEW a \in answers
  PROVE  /\ a.key =< registry'.key
         /\ a.op = "beneficiary" => MemberHonoured(a)'
         /\ a.op = "merchant" => a.id >= 1 /\ MerchantHonoured(a)'
<1>1. /\ registry \in Registry /\ registry' \in Registry /\ a \in Answer
      /\ active \in [DOMAIN active -> SealedSet]
  BY DEF ServiceInv, TypeOK
<1>2. /\ registry.key \in Nat /\ registry'.key \in Nat
      /\ registry.set \in Seq(Member) /\ registry'.set \in Seq(Member)
      /\ registry.merchants \in Seq(Entry) /\ registry'.merchants \in Seq(Entry)
  BY <1>1 DEF Registry
<1>3. a.key =< registry'.key /\ (a.key = registry'.key => registry'.key = registry.key)
  BY <1>1, <1>2, RegistryStep, AnswerTypes DEF HonouredInv
<1>4. CASE a.op = "beneficiary"
  <2>1. MemberHonoured(a) /\ a.index \in Nat
    BY <1>1, <1>4, AnswerTypes DEF HonouredInv
  <2>2. ASSUME a.key = registry'.key
        PROVE  Len(registry'.set) > a.index /\ HasMember(registry'.set, a)
    <3>1. Continues(registry.set, registry'.set) /\ a.key = registry.key
      BY <1>2, <1>3, <2>2, RegistryStep
    <3>2. Len(registry'.set) >= Len(registry.set)
          /\ \A i \in 1 .. Len(registry.set) : registry'.set[i] = registry.set[i]
      BY <1>2, <3>1, ContinuesKeeps
    <3> QED
      BY <1>2, <2>1, <3>1, <3>2 DEF MemberHonoured, HasMember
  <2>3. ASSUME NEW t \in DOMAIN active', active'[t].key = a.key
        PROVE  HasMember(active'[t].set, a)
    BY <2>1, <2>3, ActiveStep DEF MemberHonoured
  <2> QED
    BY <1>3, <1>4, <2>2, <2>3 DEF MemberHonoured
<1>5. CASE a.op = "merchant"
  <2>1. MerchantHonoured(a) /\ a.id \in Nat /\ a.id >= 1
    BY <1>1, <1>5, AnswerTypes DEF HonouredInv
  <2>2. ASSUME a.key = registry'.key
        PROVE  Len(registry'.merchants) >= a.id /\ HasMerchant(registry'.merchants, a)
    <3>1. Continues(registry.merchants, registry'.merchants) /\ a.key = registry.key
      BY <1>2, <1>3, <2>2, RegistryStep
    <3>2. Len(registry'.merchants) >= Len(registry.merchants)
          /\ \A i \in 1 .. Len(registry.merchants) :
               registry'.merchants[i] = registry.merchants[i]
      BY <1>2, <3>1, ContinuesKeeps
    <3> QED
      BY <1>2, <2>1, <3>1, <3>2 DEF MerchantHonoured, HasMerchant
  <2>3. ASSUME NEW t \in DOMAIN active', active'[t].key = a.key
        PROVE  HasMerchant(active'[t].crs, a)
    BY <2>1, <2>3, ActiveStep DEF MerchantHonoured
  <2> QED
    BY <1>3, <1>5, <2>1, <2>2, <2>3 DEF MerchantHonoured
<1> QED
  BY <1>3, <1>4, <1>5

\* What is told now is the end of the list, which no finalized set has reached.
LEMMA NewMember ==
  ASSUME ServiceInv, ServiceInv', SealedSetsNested, NEW c \in Call, AdmitBeneficiary(c),
         NEW a \in answers' \ answers
  PROVE  a.op = "beneficiary" /\ a.key =< registry'.key /\ MemberHonoured(a)'
<1>1. /\ registry \in Registry /\ active \in [DOMAIN active -> SealedSet]
  BY DEF ServiceInv, TypeOK
<1>2. /\ a.op = "beneficiary" /\ a.key = registry.key /\ a.index = Len(registry.set)
      /\ registry'.key = registry.key
      /\ registry'.set = Append(registry.set, [phi |-> a.phi, out |-> req[c].out])
      /\ UNCHANGED active
  BY <1>1 DEF AdmitBeneficiary, Told, Registry, storeVars
<1>3. /\ registry.key \in Nat /\ registry.set \in Seq(Member) /\ registry'.set \in Seq(Member)
  BY <1>1 DEF Registry, ServiceInv, TypeOK
<1>4. [phi |-> a.phi, out |-> req[c].out] \in Member
  <2>1. a.phi = req[c].phi /\ pc[c] = "admit"
    BY DEF AdmitBeneficiary, Told
  <2> QED
    BY <2>1, BeneficiaryRequest DEF ServiceInv, SectionInv, TypeOK, Member
<1>5. Len(registry'.set) = a.index + 1 /\ registry'.set[a.index + 1].phi = a.phi
  BY <1>2, <1>3, <1>4
<1>6. ASSUME NEW t \in DOMAIN active, active[t].key = a.key PROVE HasMember(active[t].set, a)
  <2>1. Len(active[t].set) =< Len(registry.set)
    BY <1>2, <1>6 DEF SealedSetsNested, IsPrefix
  <2>2. active[t].set \in Seq(Member)
    BY <1>1 DEF SealedSet
  <2> QED
    BY <1>2, <1>3, <2>1, <2>2 DEF HasMember
<1>7. Len(registry'.set) > a.index
  BY <1>2, <1>3, <1>5
<1> QED
  BY <1>2, <1>3, <1>5, <1>6, <1>7 DEF MemberHonoured, HasMember

LEMMA NewMerchant ==
  ASSUME ServiceInv, ServiceInv', SealedSetsNested, NEW c \in Call, EnlistMerchant(c),
         NEW a \in answers' \ answers
  PROVE  a.op = "merchant" /\ a.key =< registry'.key /\ a.id >= 1 /\ MerchantHonoured(a)'
<1>1. /\ registry \in Registry /\ active \in [DOMAIN active -> SealedSet]
  BY DEF ServiceInv, TypeOK
<1>2. /\ a.op = "merchant" /\ a.key = registry.key /\ a.id = Len(registry.merchants) + 1
      /\ registry'.key = registry.key
      /\ registry'.merchants = Append(registry.merchants, [name |-> a.name, gen |-> kept[c]])
      /\ UNCHANGED active
  BY <1>1 DEF EnlistMerchant, Told, NextMerchantId, Registry, storeVars
<1>3. /\ registry.key \in Nat
      /\ registry.merchants \in Seq(Entry) /\ registry'.merchants \in Seq(Entry)
  BY <1>1 DEF Registry, ServiceInv, TypeOK
<1>4. [name |-> a.name, gen |-> kept[c]] \in Entry
  <2>1. a.name = req[c].name /\ pc[c] = "enlist"
    BY DEF EnlistMerchant, Told
  <2> QED
    BY <2>1, MerchantRequest DEF ServiceInv, SectionInv, TypeOK, Entry
<1>5. Len(registry'.merchants) = a.id /\ registry'.merchants[a.id].name = a.name
  BY <1>2, <1>3, <1>4
<1>6. ASSUME NEW t \in DOMAIN active, active[t].key = a.key PROVE HasMerchant(active[t].crs, a)
  <2>1. Len(active[t].crs) =< Len(registry.merchants)
    BY <1>2, <1>6 DEF SealedSetsNested, IsPrefix
  <2>2. active[t].crs \in Seq(Entry)
    BY <1>1 DEF SealedSet
  <2> QED
    BY <1>2, <1>3, <2>1, <2>2 DEF HasMerchant
<1>7. a.id \in Nat /\ a.id >= 1
  BY <1>2, <1>3
<1> QED
  BY <1>2, <1>3, <1>5, <1>6, <1>7 DEF MerchantHonoured, HasMerchant

\* Nobody else is told an index or an id.
LEMMA ToldBy ==
  ASSUME [Next]_vars, answers' # answers
  PROVE  \E c \in Call : AdmitBeneficiary(c) \/ EnlistMerchant(c)
  BY DEF Next, Serve, Pay, Issue, Leave, CheckMerchant, ReportMerchant, VerifyFee, SetupCrs,
     FundSet, RecordSet, ClearStore, RenewRegistry, PollMiss, PollHit, FetchSet, Restart,
     callVars, vars

\* An index or an id that a client was told is its place in the pending registry and
\* in every set finalized from it, then and later (service.rs: register_beneficiary,
\* register_merchant).
THEOREM IndicesHonoured == Spec => []AnswersHonoured
<1>1. Init => HonouredInv
  BY DEF Init, HonouredInv
<1>2. ServiceInv /\ ServiceInv' /\ SealedSetsNested /\ HonouredInv /\ [Next]_vars => HonouredInv'
  <2> SUFFICES ASSUME ServiceInv, ServiceInv', SealedSetsNested, HonouredInv, [Next]_vars,
                      NEW a \in answers'
               PROVE  /\ a.key =< registry'.key
                      /\ a.op = "beneficiary" => MemberHonoured(a)'
                      /\ a.op = "merchant" => a.id >= 1 /\ MerchantHonoured(a)'
    BY DEF HonouredInv
  <2>1. CASE a \in answers
    BY <2>1, OldAnswers
  <2>2. CASE a \notin answers
    BY <2>2, ToldBy, NewMember, NewMerchant
  <2> QED
    BY <2>1, <2>2
<1> QED
  BY ServiceCorrect, SetsNested, <1>1, <1>2, HonouredSuffices, PTL DEF Spec
-----------------------------------------------------------------------------
(* Merchants.  A handler between the pool and the list has a claim to a     *)
(* name, of the generation of the pool that it was entered in.              *)

Claims == {c \in Call : pc[c] = "enlist"}

\* The handler's claim is good: the name is in the pool, if it is still the same
\* pool, and no entry of that pool and no other claim has it.
ClaimInv ==
  \A c \in Claims :
    /\ kept[c] =< generation
    /\ kept[c] = generation => req[c].name \in pool
    /\ \A i \in DOMAIN registry.merchants :
         registry.merchants[i].gen = kept[c] => registry.merchants[i].name # req[c].name
    /\ \A d \in Claims : d # c /\ kept[d] = kept[c] => req[d].name # req[c].name

\* A pool never admits one name twice.
Distinct(list) ==
  \A i, j \in DOMAIN list : list[i].name = list[j].name /\ list[i].gen = list[j].gen => i = j

ListInv ==
  /\ \A i \in DOMAIN registry.merchants :
       /\ registry.merchants[i].gen =< generation
       /\ registry.merchants[i].gen = generation => registry.merchants[i].name \in pool
  /\ Distinct(registry.merchants)
  /\ \A t \in DOMAIN active : Distinct(active[t].crs)

\* Every name of the pool is accounted for, in this generation of it.
PoolInv ==
  \A name \in pool :
    \/ name \in abandoned
    \/ \E i \in DOMAIN registry.merchants :
         registry.merchants[i].gen = generation /\ registry.merchants[i].name = name
    \/ \E c \in Claims : kept[c] = generation /\ req[c].name = name

MerchantInv == ClaimInv /\ ListInv /\ PoolInv

LEMMA MerchantsUntouched ==
  ASSUME MerchantInv,
         UNCHANGED <<pool, generation, abandoned>>,
         registry'.merchants = registry.merchants,
         active' = active \/ active' = << >>,
         \A d \in Call : /\ pc'[d] = "enlist" <=> pc[d] = "enlist"
                         /\ pc[d] = "enlist" => req'[d] = req[d] /\ kept'[d] = kept[d]
  PROVE  MerchantInv'
<1>1. Claims' = Claims /\ \A c \in Claims : req'[c] = req[c] /\ kept'[c] = kept[c]
  BY DEF Claims
<1>2. ClaimInv'
  BY <1>1 DEF MerchantInv, ClaimInv
<1>3. ListInv'
  BY DEF MerchantInv, ListInv
<1>4. PoolInv'
  BY <1>1 DEF MerchantInv, PoolInv
<1> QED
  BY <1>2, <1>3, <1>4 DEF MerchantInv

\* Most steps neither make nor end a claim, nor touch the pool or the list.
LEMMA OtherSteps ==
  ASSUME ServiceInv, MerchantInv, NEW c \in Call,
         \/ Issue(c) \/ ReportMerchant(c) \/ VerifyFee(c) \/ AdmitBeneficiary(c) \/ SetupCrs(c)
         \/ FundSet(c) \/ PollMiss(c) \/ PollHit(c) \/ FetchSet(c)
  PROVE  MerchantInv'
<1>1. UNCHANGED <<pool, generation, abandoned, active>>
  BY DEF Issue, ReportMerchant, VerifyFee, AdmitBeneficiary, SetupCrs, FundSet, PollMiss, PollHit,
     FetchSet, storeVars
<1>2. registry'.merchants = registry.merchants
  BY DEF Issue, ReportMerchant, VerifyFee, AdmitBeneficiary, SetupCrs, FundSet, PollMiss, PollHit,
     FetchSet, ServiceInv, TypeOK, Registry
<1>3. /\ pc \in [Call -> Section] /\ req \in [Call -> Request] /\ kept \in [Call -> Nat]
  BY DEF ServiceInv, TypeOK
<1>4. pc[c] # "enlist"
  BY DEF Issue, ReportMerchant, VerifyFee, AdmitBeneficiary, SetupCrs, FundSet, PollMiss, PollHit,
     FetchSet
<1>5. pc'[c] # "enlist"
  <2>1. CASE Issue(c)
    <3>1. PICK r \in Request : r.op \in Ops /\ pc' = [pc EXCEPT ![c] = FirstSection(r.op)]
      BY <2>1 DEF Issue
    <3>2. FirstSection(r.op) # "enlist"
      BY <3>1, OpsAssumption DEF FirstSection
    <3> QED
      BY <1>3, <3>1, <3>2
  <2>2. CASE ~ Issue(c)
    BY <1>3, <1>4, <2>2 DEF ReportMerchant, VerifyFee, AdmitBeneficiary, SetupCrs, FundSet,
       PollMiss, PollHit, FetchSet, Goto, Return, callVars
  <2> QED
    BY <2>1, <2>2
<1>6. \A d \in Call : d # c => pc'[d] = pc[d] /\ req'[d] = req[d] /\ kept'[d] = kept[d]
  BY <1>3 DEF Issue, ReportMerchant, VerifyFee, AdmitBeneficiary, SetupCrs, FundSet, PollMiss,
     PollHit, FetchSet, Goto, Return, callVars
<1> QED
  BY <1>1, <1>2, <1>4, <1>5, <1>6, MerchantsUntouched

\* The name enters the pool, and the handler has the claim or the name is abandoned.
LEMMA CheckKeeps ==
  ASSUME ServiceInv, MerchantInv, NEW c \in Call, CheckMerchant(c)
  PROVE  MerchantInv'
<1>1. /\ pc \in [Call -> Section] /\ req \in [Call -> Request] /\ kept \in [Call -> Nat]
      /\ generation \in Nat /\ pc[c] = "check"
      /\ UNCHANGED <<active, generation, registry>>
  BY DEF CheckMerchant, ServiceInv, TypeOK
<1>2. ASSUME req[c].name \notin pool, pool' = pool \union {req[c].name},
             kept' = [kept EXCEPT ![c] = generation], Goto(c, "enlist"), UNCHANGED abandoned
      PROVE  MerchantInv'
  <2>1. /\ Claims' = Claims \union {c} /\ c \notin Claims /\ Claims \subseteq Call
        /\ kept'[c] = generation /\ req' = req
        /\ \A d \in Claims : kept'[d] = kept[d]
    BY <1>1, <1>2 DEF Goto, Claims
  <2>2. ClaimInv'
    <3>1. ASSUME NEW d \in Claims
          PROVE  /\ kept'[d] =< generation'
                 /\ kept'[d] = generation' => req'[d].name \in pool'
                 /\ \A i \in DOMAIN registry'.merchants :
                      registry'.merchants[i].gen = kept'[d]
                        => registry'.merchants[i].name # req'[d].name
                 /\ \A e \in Claims' : e # d /\ kept'[e] = kept'[d] => req'[e].name # req'[d].name
      BY <1>1, <1>2, <2>1 DEF MerchantInv, ClaimInv
    <3>2. /\ kept'[c] =< generation' /\ req'[c].name \in pool'
          /\ \A i \in DOMAIN registry'.merchants :
               registry'.merchants[i].gen = kept'[c] => registry'.merchants[i].name # req'[c].name
          /\ \A e \in Claims : kept'[e] = kept'[c] => req'[e].name # req'[c].name
      BY <1>1, <1>2, <2>1 DEF MerchantInv, ClaimInv, ListInv
    <3> QED
      BY <2>1, <3>1, <3>2 DEF ClaimInv
  <2>3. ListInv'
    BY <1>1, <1>2 DEF MerchantInv, ListInv
  <2>4. PoolInv'
    BY <1>1, <1>2, <2>1 DEF MerchantInv, PoolInv
  <2> QED
    BY <2>2, <2>3, <2>4 DEF MerchantInv
<1>3. ASSUME pool' = pool \union {req[c].name} \/ pool' = pool,
             \/ abandoned' = abandoned \union (pool' \ pool)
             \/ abandoned' = abandoned \union {req[c].name},
             pool' = pool => abandoned \subseteq abandoned',
             Return(c)
      PROVE  MerchantInv'
  <2>1. /\ Claims' = Claims
        /\ \A d \in Claims : req'[d] = req[d] /\ kept'[d] = kept[d]
    BY <1>1, <1>3 DEF Return, Claims
  <2>2. /\ pool \subseteq pool' /\ pool' \subseteq pool \union abandoned'
        /\ abandoned \subseteq abandoned'
    BY <1>3
  <2>3. ClaimInv'
    BY <1>1, <2>1, <2>2 DEF MerchantInv, ClaimInv
  <2>4. ListInv'
    BY <1>1, <2>2 DEF MerchantInv, ListInv
  <2>5. PoolInv'
    BY <1>1, <2>1, <2>2 DEF MerchantInv, PoolInv
  <2> QED
    BY <2>3, <2>4, <2>5 DEF MerchantInv
<1> QED
  BY <1>2, <1>3 DEF CheckMerchant, NameTaken

\* The claim becomes an entry of the list.
LEMMA EnlistKeeps ==
  ASSUME ServiceInv, MerchantInv, NEW c \in Call, EnlistMerchant(c)
  PROVE  MerchantInv'
<1> DEFINE list == registry.merchants
           entry == [name |-> req[c].name, gen |-> kept[c]]
<1>1. /\ pc \in [Call -> Section] /\ c \in Claims
      /\ list \in Seq(Entry) /\ registry'.merchants = Append(list, entry)
      /\ UNCHANGED <<pool, generation, abandoned, active, req, kept>>
      /\ pc' = [pc EXCEPT ![c] = "report"]
  BY DEF EnlistMerchant, Goto, ServiceInv, TypeOK, Registry, storeVars, Claims
<1>2. entry \in Entry
  BY <1>1, MerchantRequest DEF Claims, ServiceInv, SectionInv, TypeOK, Entry
<1>3. Claims' = Claims \ {c}
  BY <1>1 DEF Claims
<1> HIDE DEF list, entry
<1>4. /\ Len(list) \in Nat /\ DOMAIN list = 1 .. Len(list)
      /\ DOMAIN registry'.merchants = 1 .. Len(list) + 1
      /\ \A i \in DOMAIN list : registry'.merchants[i] = list[i]
      /\ registry'.merchants[Len(list) + 1] = entry
  BY <1>1, <1>2
<1>5. entry.name = req[c].name /\ entry.gen = kept[c]
  BY DEF entry
<1>6. ClaimInv'
  BY <1>1, <1>3, <1>4, <1>5 DEF MerchantInv, ClaimInv, list
<1>7. ListInv'
  <2>1. Distinct(registry'.merchants)
    BY <1>1, <1>4, <1>5 DEF MerchantInv, ClaimInv, ListInv, Distinct, list
  <2>2. \A i \in DOMAIN registry'.merchants :
          /\ registry'.merchants[i].gen =< generation
          /\ registry'.merchants[i].gen = generation => registry'.merchants[i].name \in pool
    BY <1>1, <1>4, <1>5 DEF MerchantInv, ClaimInv, ListInv, list
  <2> QED
    BY <1>1, <2>1, <2>2 DEF MerchantInv, ListInv
<1>8. PoolInv'
  <2> SUFFICES ASSUME NEW name \in pool
               PROVE  \/ name \in abandoned
                      \/ \E i \in DOMAIN registry'.merchants :
                           /\ registry'.merchants[i].gen = generation
                           /\ registry'.merchants[i].name = name
                      \/ \E d \in Claims' : kept[d] = generation /\ req[d].name = name
    BY <1>1 DEF PoolInv
  <2>1. CASE name = req[c].name /\ kept[c] = generation
    BY <1>4, <1>5, <2>1
  <2>2. CASE ~ (name = req[c].name /\ kept[c] = generation)
    BY <1>3, <1>4, <2>2 DEF MerchantInv, PoolInv, list
  <2> QED
    BY <2>1, <2>2
<1> QED
  BY <1>6, <1>7, <1>8 DEF MerchantInv

LEMMA LeaveKeeps ==
  ASSUME ServiceInv, MerchantInv, NEW c \in Call, Leave(c)
  PROVE  MerchantInv'
<1>1. /\ pc \in [Call -> Section] /\ req \in [Call -> Request] /\ kept \in [Call -> Nat]
      /\ UNCHANGED <<pool, generation, active, registry>>
      /\ abandoned \subseteq abandoned'
      /\ pc[c] = "enlist" => req[c].name \in abandoned'
  BY DEF Leave, ServiceInv, TypeOK
<1>2. /\ Claims' = Claims \ {c}
      /\ \A d \in Claims' : req'[d] = req[d] /\ kept'[d] = kept[d]
  BY <1>1 DEF Leave, Return, Claims
<1>3. ClaimInv'
  BY <1>1, <1>2 DEF MerchantInv, ClaimInv
<1>4. ListInv'
  BY <1>1 DEF MerchantInv, ListInv
<1>5. PoolInv'
  BY <1>1, <1>2 DEF MerchantInv, PoolInv, Claims
<1> QED
  BY <1>3, <1>4, <1>5 DEF MerchantInv

LEMMA RecordKeeps ==
  ASSUME ServiceInv, MerchantInv, NEW c \in Call, RecordSet(c)
  PROVE  MerchantInv'
<1>1. /\ pc \in [Call -> Section] /\ req \in [Call -> Request] /\ kept \in [Call -> Nat]
      /\ UNCHANGED <<pool, generation, abandoned, registry>>
  BY DEF RecordSet, ServiceInv, TypeOK
<1>2. /\ Claims' = Claims
      /\ \A d \in Claims : req'[d] = req[d] /\ kept'[d] = kept[d]
  BY <1>1 DEF RecordSet, Return, Claims
<1>3. ClaimInv'
  BY <1>1, <1>2 DEF MerchantInv, ClaimInv
<1>4. ListInv'
  <2>1. ASSUME NEW t \in DOMAIN active' PROVE Distinct(active'[t].crs)
    <3>1. \/ t \in DOMAIN active /\ active'[t] = active[t]
          \/ active'[t].crs = registry.merchants
      BY RecordFiles DEF ActiveWith, SealedCopy
    <3> QED
      BY <3>1 DEF MerchantInv, ListInv
  <2> QED
    BY <1>1, <2>1 DEF MerchantInv, ListInv
<1>5. PoolInv'
  BY <1>1, <1>2 DEF MerchantInv, PoolInv
<1> QED
  BY <1>3, <1>4, <1>5 DEF MerchantInv

LEMMA ClearKeeps ==
  ASSUME ServiceInv, MerchantInv, NEW c \in Call, ClearStore(c)
  PROVE  MerchantInv'
<1>1. /\ pc \in [Call -> Section] /\ kept \in [Call -> Nat] /\ generation \in Nat
      /\ registry \in Registry
      /\ pool' = {} /\ active' = << >> /\ generation' = generation + 1
      /\ UNCHANGED <<registry, req, kept>>
  BY DEF ClearStore, PoolAfterReset, Goto, ServiceInv, TypeOK
<1>2. Claims' = Claims
  BY <1>1 DEF ClearStore, Goto, Claims
<1>3. ClaimInv'
  BY <1>1, <1>2 DEF MerchantInv, ClaimInv, Claims
<1>4. ListInv'
  <2>1. \A i \in DOMAIN registry.merchants :
          registry.merchants[i].gen \in Nat /\ registry.merchants[i].gen =< generation
    <3>1. \A i \in DOMAIN registry.merchants : registry.merchants[i] \in Entry
      BY <1>1 DEF Registry
    <3>2. \A e \in Entry : e.gen \in Nat
      BY DEF Entry
    <3> QED
      BY <3>1, <3>2 DEF MerchantInv, ListInv
  <2> QED
    BY <1>1, <2>1 DEF MerchantInv, ListInv
<1>5. PoolInv'
  BY <1>1 DEF PoolInv
<1> QED
  BY <1>3, <1>4, <1>5 DEF MerchantInv

LEMMA RenewKeeps ==
  ASSUME ServiceInv, MerchantInv, NEW c \in Call, RenewRegistry(c)
  PROVE  MerchantInv'
<1>1. /\ pc \in [Call -> Section] /\ req \in [Call -> Request] /\ kept \in [Call -> Nat]
      /\ registry'.merchants = << >>
      /\ UNCHANGED <<pool, active, generation>>
      /\ abandoned \subseteq abandoned'
      /\ \A i \in DOMAIN registry.merchants :
           registry.merchants[i].gen = generation => registry.merchants[i].name \in abandoned'
  BY DEF RenewRegistry, Renewed, NewRegistry, EntriesOf, ServiceInv, TypeOK
<1>2. /\ Claims' = Claims
      /\ \A d \in Claims : req'[d] = req[d] /\ kept'[d] = kept[d]
  BY <1>1 DEF RenewRegistry, Return, Claims
<1>3. ClaimInv'
  BY <1>1, <1>2 DEF MerchantInv, ClaimInv
<1>4. ListInv'
  BY <1>1 DEF MerchantInv, ListInv, Distinct
<1>5. PoolInv'
  BY <1>1, <1>2 DEF MerchantInv, PoolInv
<1> QED
  BY <1>3, <1>4, <1>5 DEF MerchantInv

LEMMA MerchantStep ==
  ASSUME ServiceInv, MerchantInv, [Next]_vars
  PROVE  MerchantInv'
<1>1. ASSUME NEW o \in Outpoint, Pay(o) PROVE MerchantInv'
  BY <1>1, MerchantsUntouched DEF Pay, storeVars, callVars
<1>2. CASE Restart
  <2>1. /\ Claims' = {} /\ pool' = {} /\ active' = << >> /\ registry'.merchants = << >>
    BY <1>2 DEF Restart, Claims, NewRegistry
  <2> QED
    BY <2>1 DEF MerchantInv, ClaimInv, ListInv, PoolInv, Distinct
<1>3. CASE UNCHANGED vars
  BY <1>3, MerchantsUntouched DEF vars, storeVars, callVars
<1> QED
  BY <1>1, <1>2, <1>3, OtherSteps, CheckKeeps, EnlistKeeps, LeaveKeeps, RecordKeeps, ClearKeeps,
     RenewKeeps DEF Next, Serve

LEMMA MerchantsCorrect == Spec => []MerchantInv
<1>1. Init => MerchantInv
  BY DEF Init, NewRegistry, MerchantInv, ClaimInv, ListInv, PoolInv, Claims, Distinct
<1>2. ServiceInv /\ MerchantInv /\ [Next]_vars => MerchantInv'
  BY MerchantStep
<1> QED
  BY ServiceCorrect, <1>1, <1>2, PTL DEF Spec

\* A merchant is in the list, or in a CRS, twice only if the pool was emptied between
\* its two registrations, though check and addition are under different mutexes
\* (service.rs: register_merchant, reset).
THEOREM RepeatsSpanReset == Spec => []RepeatedMerchantsSpanReset
<1>1. MerchantInv => RepeatedMerchantsSpanReset
  BY DEF MerchantInv, ListInv, Distinct, RepeatedMerchantsSpanReset
<1> QED
  BY MerchantsCorrect, <1>1, PTL

\* Pool and list name the same merchants, but for claims in progress, claims that
\* were given up, and entries of an earlier pool (service.rs: register_merchant, reset).
THEOREM PoolsAgree == Spec => []PoolAndListAgree
<1>1. MerchantInv => PoolAndListAgree
  BY DEF MerchantInv, ListInv, PoolInv, Claims, PoolAndListAgree, Names, EntriesOf
<1> QED
  BY MerchantsCorrect, <1>1, PTL
==============================================================================
