------------------------ MODULE RegistryPromisesProofs ------------------------
(***************************************************************************)
(* More of what RegistryService promises: who paid for a place in a set,   *)
(* what became of the transactions that were broadcast, and that the       *)
(* service implements the ledger.                                          *)
(***************************************************************************)
EXTENDS RegistryServiceProofs, SequenceTheorems

-----------------------------------------------------------------------------
\* The payment that VerifyFee has found, as long as the wallet keeps its key.
Paid(o) == PaymentVerified(o, MinSats)

\* The wallet has a key, so that a payment to it is told from no payment.  A call
\* that waits to be admitted has paid, and so has every member of every set.
PaidInv ==
  /\ walletKey # 0
  /\ \A c \in Call : pc[c] = "admit" => Paid(req[c].out)
  /\ \A i \in DOMAIN registry.set : Paid(registry.set[i].out)
  /\ \A t \in DOMAIN active : \A i \in DOMAIN active[t].set : Paid(active[t].set[i].out)

\* A payment stays where it went, and the key stays until a restart.
LEMMA PaymentStays ==
  ASSUME ServiceInv, walletKey # 0, [Next]_vars, ~ Restart, NEW o \in Outpoint, Paid(o)
  PROVE  Paid(o)' /\ walletKey' = walletKey
<1>1. ASSUME NEW p \in Outpoint, Pay(p) PROVE Paid(o)' /\ walletKey' = walletKey
  BY <1>1 DEF Pay, Paid, PaymentVerified, ServiceInv, TypeOK
<1>2. ASSUME ~ \E p \in Outpoint : Pay(p) PROVE UNCHANGED <<paidTo, walletKey>>
  BY <1>2 DEF Next, Serve, Issue, Leave, CheckMerchant, EnlistMerchant, ReportMerchant,
     VerifyFee, AdmitBeneficiary, SetupCrs, FundSet, RecordSet, ClearStore, RenewRegistry,
     PollMiss, PollHit, FetchSet, walletVars, vars
<1> QED
  BY <1>1, <1>2 DEF Paid, PaymentVerified

\* The key alone.
LEMMA KeyStays ==
  ASSUME ServiceInv, walletKey # 0, [Next]_vars
  PROVE  walletKey' # 0
<1>1. CASE Restart
  BY <1>1 DEF Restart, ServiceInv, TypeOK
<1>2. CASE ~ Restart
  BY <1>2 DEF Next, Serve, Pay, Issue, Leave, CheckMerchant, EnlistMerchant, ReportMerchant,
     VerifyFee, AdmitBeneficiary, SetupCrs, FundSet, RecordSet, ClearStore, RenewRegistry,
     PollMiss, PollHit, FetchSet, walletVars, vars
<1> QED
  BY <1>1, <1>2

\* A call that waits to be admitted after a step did so before, with the same
\* request, or its payment was verified by the step.
LEMMA AdmissionVerified ==
  ASSUME ServiceInv, [Next]_vars, NEW c \in Call, pc'[c] = "admit"
  PROVE  \/ pc[c] = "admit" /\ req'[c] = req[c]
         \/ VerifyFee(c) /\ Paid(req[c].out) /\ req'[c] = req[c] /\ UNCHANGED walletVars
<1>1. pc \in [Call -> Section] /\ req \in [Call -> Request]
  BY DEF ServiceInv, TypeOK
<1>2. ASSUME NEW o \in Outpoint, Pay(o) PROVE pc[c] = "admit" /\ req'[c] = req[c]
  BY <1>2 DEF Pay, callVars
<1>3. ASSUME NEW d \in Call, Issue(d) PROVE pc[c] = "admit" /\ req'[c] = req[c]
  <2> PICK r \in Request : /\ r.op \in Ops
                           /\ req' = [req EXCEPT ![d] = r]
                           /\ pc' = [pc EXCEPT ![d] = FirstSection(r.op)]
    BY <1>3 DEF Issue
  <2> QED
    BY <1>1, OpsAssumption DEF FirstSection
<1>4. ASSUME NEW d \in Call, VerifyFee(d)
      PROVE  \/ pc[c] = "admit" /\ req'[c] = req[c]
             \/ VerifyFee(c) /\ Paid(req[c].out) /\ req'[c] = req[c] /\ UNCHANGED walletVars
  BY <1>1, <1>4 DEF VerifyFee, Goto, Return, Paid
<1>5. ASSUME NEW d \in Call,
             \/ Leave(d) \/ CheckMerchant(d) \/ EnlistMerchant(d) \/ ReportMerchant(d)
             \/ AdmitBeneficiary(d) \/ SetupCrs(d) \/ FundSet(d) \/ RecordSet(d)
             \/ ClearStore(d) \/ RenewRegistry(d) \/ PollMiss(d) \/ PollHit(d) \/ FetchSet(d)
      PROVE  pc[c] = "admit" /\ req'[c] = req[c]
  BY <1>1, <1>5 DEF Leave, CheckMerchant, EnlistMerchant, ReportMerchant, AdmitBeneficiary,
     SetupCrs, FundSet, RecordSet, ClearStore, RenewRegistry, PollMiss, PollHit, FetchSet,
     Goto, Return, callVars
<1>6. ~ Restart
  BY DEF Restart
<1> QED
  BY <1>2, <1>3, <1>4, <1>5, <1>6 DEF Next, Serve, vars, callVars
-----------------------------------------------------------------------------
\* Each member of the pending set and of every finalized set paid at least the fee
\* to the wallet the registry has now, although the payment was checked in an
\* earlier section and the wallet is another one after each restart (service.rs:
\* register_beneficiary; wallet.rs: verify_payment).
THEOREM MembersPaid == Spec => []EveryMemberPaid
<1>1. Init => PaidInv
  BY DEF Init, PaidInv, NewRegistry
<1>2. ServiceInv /\ PaidInv /\ [Next]_vars => PaidInv'
  <2> SUFFICES ASSUME ServiceInv, PaidInv, [Next]_vars PROVE PaidInv'
    OBVIOUS
  <2>1. walletKey' # 0
    BY KeyStays DEF PaidInv
  <2>2. CASE Restart
    BY <2>1, <2>2 DEF Restart, PaidInv, NewRegistry
  <2>3. CASE ~ Restart
    <3> DEFINE AllPaid(set) == \A i \in DOMAIN set : Paid(set[i].out)
               NowPaid(o) == paidTo'[o] = walletKey' /\ Sats[o] >= MinSats
               AllNowPaid(set) == \A i \in DOMAIN set : NowPaid(set[i].out)
    <3>1. ASSUME NEW o \in Outpoint, Paid(o) PROVE NowPaid(o)
      BY <2>3, <3>1, PaymentStays DEF PaidInv, Paid, PaymentVerified
    <3>2. ASSUME NEW set \in Seq(Member), AllPaid(set) PROVE AllNowPaid(set)
      <4>1. ASSUME NEW i \in DOMAIN set PROVE set[i].out \in Outpoint
        <5>1. set[i] \in Member
          OBVIOUS
        <5> QED
          BY <5>1 DEF Member
      <4> HIDE DEF NowPaid
      <4> QED
        BY <3>1, <3>2, <4>1
    <3>3. registry.set \in Seq(Member) /\ AllPaid(registry.set)
      BY DEF ServiceInv, TypeOK, Registry, PaidInv
    <3>4. \A t \in DOMAIN active : active[t].set \in Seq(Member) /\ AllPaid(active[t].set)
      BY DEF ServiceInv, TypeOK, SealedSet, PaidInv
    <3>5. ASSUME NEW c \in Call, pc'[c] = "admit" PROVE NowPaid(req'[c].out)
      <4>1. req[c].op = "beneficiary" /\ req'[c] = req[c]
        BY <3>5, AdmissionVerified DEF VerifyFee, ServiceInv, SectionInv
      <4>2. req[c].out \in Outpoint
        BY <4>1, BeneficiaryRequest DEF ServiceInv, TypeOK
      <4>3. Paid(req[c].out)
        BY <3>5, AdmissionVerified DEF PaidInv
      <4> QED
        BY <3>1, <4>1, <4>2, <4>3
    <3>6. AllNowPaid(registry'.set)
      <4>1. CASE registry'.set = registry.set
        BY <3>2, <3>3, <4>1
      <4>2. CASE registry'.set = << >>
        BY <4>2
      <4>3. ASSUME NEW m \in Member, NEW c \in Call, pc[c] = "admit", m.out = req[c].out,
                   registry'.set = Append(registry.set, m)
            PROVE  AllNowPaid(registry'.set)
        <5>1. m.out \in Outpoint /\ Paid(m.out)
          BY <4>3 DEF PaidInv, Member
        <5>2. NowPaid(m.out) /\ AllNowPaid(registry.set)
          BY <3>1, <3>2, <3>3, <5>1
        <5> HIDE DEF NowPaid
        <5> QED
          BY <3>3, <4>3, <5>2
      <4> QED
        BY <4>1, <4>2, <4>3, PendingSet
    <3>7. ASSUME NEW t \in DOMAIN active' PROVE AllNowPaid(active'[t].set)
      <4>1. CASE \E c \in Call : RecordSet(c)
        <5>1. active' = ActiveWith(Len(chain))
          BY <4>1, RecordFiles
        <5>2. active'[t].set = registry.set \/ (t \in DOMAIN active /\ active'[t] = active[t])
          BY <5>1 DEF ActiveWith, SealedCopy
        <5> HIDE DEF AllPaid, AllNowPaid
        <5> QED
          BY <3>2, <3>3, <3>4, <5>2
      <4>2. CASE ~ \E c \in Call : RecordSet(c)
        <5>1. t \in DOMAIN active /\ active'[t] = active[t]
          BY <4>2, ActiveUntouched
        <5> HIDE DEF AllPaid, AllNowPaid
        <5> QED
          BY <3>2, <3>4, <5>1
      <4> QED
        BY <4>1, <4>2
    <3> QED
      BY <2>1, <3>5, <3>6, <3>7 DEF PaidInv, Paid, PaymentVerified
  <2> QED
    BY <2>2, <2>3
<1>3. PaidInv => EveryMemberPaid
  BY DEF PaidInv, EveryMemberPaid, Sets, Paid, PaymentVerified
<1> QED
  BY ServiceCorrect, <1>1, <1>2, <1>3, PTL DEF Spec
-----------------------------------------------------------------------------
\* No transaction is from a generation of the store that is still to come.
GenerationsPast == \A t \in DOMAIN chain : chain[t].gen =< generation

\* The store is emptied by the steps that begin a new generation, and only those.
LEMMA GenerationStep ==
  ASSUME ServiceInv, [Next]_vars
  PROVE  \/ generation' = generation /\ ~ Restart /\ ~ \E c \in Call : ClearStore(c)
         \/ generation' = generation + 1 /\ chain' = chain
<1>1. ASSUME NEW c \in Call, ClearStore(c) PROVE generation' = generation + 1 /\ chain' = chain
  BY <1>1 DEF ClearStore, walletVars
<1>2. CASE Restart
  BY <1>2 DEF Restart
<1>3. ASSUME ~ Restart, ~ \E c \in Call : ClearStore(c) PROVE generation' = generation
  BY <1>3 DEF Next, Serve, Pay, Issue, Leave, CheckMerchant, EnlistMerchant, ReportMerchant,
     VerifyFee, AdmitBeneficiary, SetupCrs, FundSet, RecordSet, RenewRegistry, PollMiss,
     PollHit, FetchSet, storeVars, vars
<1> QED
  BY <1>1, <1>2, <1>3

\* A set that is filed stays filed within a generation.
LEMMA FiledStays ==
  ASSUME ServiceInv, [Next]_vars, ~ Restart, ~ \E c \in Call : ClearStore(c),
         NEW t \in DOMAIN active
  PROVE  t \in DOMAIN active'
<1>1. ASSUME NEW c \in Call, RecordSet(c) PROVE t \in DOMAIN active'
  BY <1>1, RecordFiles DEF ActiveWith
<1>2. ASSUME ~ \E c \in Call : RecordSet(c) PROVE active' = active
  BY <1>2 DEF Next, Serve, Pay, Issue, Leave, CheckMerchant, EnlistMerchant, ReportMerchant,
     VerifyFee, AdmitBeneficiary, SetupCrs, FundSet, RenewRegistry, PollMiss, PollHit,
     FetchSet, storeVars, vars
<1> QED
  BY <1>1, <1>2

\* A call that is to file its transaction goes on waiting for that, or files it.
LEMMA RecordingStays ==
  ASSUME ServiceInv, [Next]_vars, ~ Restart, NEW c \in Call, pc[c] = "record"
  PROVE  \/ pc'[c] = "record" /\ kept'[c] = kept[c]
         \/ kept[c] \in DOMAIN active'
<1> USE DEF ServiceInv, TypeOK
<1>1. CASE RecordSet(c)
  BY <1>1 DEF RecordSet, ActiveWith
<1>2. ASSUME NEW d \in Call, d # c, Leave(d) \/ Serve(d)
      PROVE  pc'[c] = "record" /\ kept'[c] = kept[c]
  BY <1>2 DEF Goto, Return, callVars, Leave, Serve, CheckMerchant, EnlistMerchant,
     ReportMerchant, VerifyFee, AdmitBeneficiary, SetupCrs, FundSet, RecordSet, ClearStore,
     RenewRegistry, PollMiss, PollHit, FetchSet
<1>3. ~ Leave(c) /\ (Serve(c) => RecordSet(c))
  BY DEF Leave, Awaiting, Serve, CheckMerchant, EnlistMerchant, ReportMerchant, VerifyFee,
     AdmitBeneficiary, SetupCrs, FundSet, ClearStore, RenewRegistry, PollMiss, PollHit, FetchSet
<1>4. ASSUME NEW d \in Call, Issue(d) PROVE pc'[c] = "record" /\ kept'[c] = kept[c]
  BY <1>4 DEF Issue
<1>5. ASSUME NEW o \in Outpoint, Pay(o) PROVE pc'[c] = "record" /\ kept'[c] = kept[c]
  BY <1>5 DEF Pay, callVars
<1>6. CASE UNCHANGED vars
  BY <1>6 DEF vars, callVars
<1> QED
  BY <1>1, <1>2, <1>3, <1>4, <1>5, <1>6 DEF Next

\* A transaction that the node confirmed is about to be filed by the call that sent it.
LEMMA HeardIsKept ==
  ASSUME ServiceInv, [Next]_vars, chain' # chain, chain'[Len(chain) + 1].heard
  PROVE  \E c \in Call : pc'[c] = "record" /\ kept'[c] = Len(chain) + 1
<1>1. PICK c \in Call : FundSet(c)
  BY DEF Next, Serve, Pay, Issue, Leave, CheckMerchant, EnlistMerchant, ReportMerchant,
     VerifyFee, AdmitBeneficiary, SetupCrs, RecordSet, ClearStore, RenewRegistry, PollMiss,
     PollHit, FetchSet, Restart, walletVars, vars
<1>2. CASE Broadcast(FALSE)
  <2>1. PICK tx \in CommitmentTx : chain' = Append(chain, tx) /\ tx.heard = FALSE
    BY <1>2, BroadcastAppends DEF ServiceInv
  <2>2. chain'[Len(chain) + 1] = tx
    BY <2>1 DEF ServiceInv, TypeOK
  <2> QED
    BY <2>1, <2>2
<1>3. CASE Goto(c, "record") /\ kept' = [kept EXCEPT ![c] = Len(chain) + 1]
  BY <1>3 DEF Goto, ServiceInv, TypeOK
<1> QED
  BY <1>1, <1>2, <1>3 DEF FundSet

\* Each transaction whose broadcast the node confirmed, since the store was last
\* emptied, is filed or its handler is about to file it, even when the database
\* fails and the client is told an error (store.rs: create_tx).
THEOREM BroadcastsFiled == Spec => []BroadcastAccounted
<1>1. Init => BroadcastAccounted /\ GenerationsPast
  BY DEF Init, BroadcastAccounted, GenerationsPast
<1>2. ServiceInv /\ BroadcastAccounted /\ GenerationsPast /\ [Next]_vars
        => BroadcastAccounted' /\ GenerationsPast'
  <2> SUFFICES ASSUME ServiceInv, BroadcastAccounted, GenerationsPast, [Next]_vars
               PROVE  BroadcastAccounted' /\ GenerationsPast'
    OBVIOUS
  <2>1. chain \in Seq(CommitmentTx) /\ generation \in Nat
    BY DEF ServiceInv, TypeOK
  <2>2. CASE generation' = generation + 1 /\ chain' = chain
    <3>1. ASSUME NEW t \in DOMAIN chain
          PROVE  chain[t].gen \in Nat /\ chain[t].gen =< generation
      <4>1. chain[t] \in CommitmentTx
        BY <2>1
      <4> QED
        BY <4>1 DEF CommitmentTx, GenerationsPast
    <3> QED
      BY <2>1, <2>2, <3>1 DEF BroadcastAccounted, GenerationsPast
  <2>3. CASE generation' = generation /\ ~ Restart /\ ~ \E c \in Call : ClearStore(c)
    <3>1. ASSUME NEW t \in DOMAIN chain, chain[t].gen = generation, chain[t].heard
          PROVE  t \in DOMAIN active' \/ \E c \in Call : pc'[c] = "record" /\ kept'[c] = t
      <4>1. CASE t \in DOMAIN active
        BY <2>3, <4>1, FiledStays
      <4>2. CASE \E c \in Call : pc[c] = "record" /\ kept[c] = t
        BY <2>3, <4>2, RecordingStays
      <4> QED
        BY <3>1, <4>1, <4>2 DEF BroadcastAccounted
    <3>2. CASE chain' = chain
      BY <2>3, <3>1, <3>2 DEF BroadcastAccounted, GenerationsPast
    <3>3. ASSUME NEW tx \in CommitmentTx, chain' = Append(chain, tx), tx.gen = generation
          PROVE  BroadcastAccounted' /\ GenerationsPast'
      <4>1. /\ DOMAIN chain' = DOMAIN chain \union {Len(chain) + 1}
            /\ \A t \in DOMAIN chain : chain'[t] = chain[t]
            /\ chain'[Len(chain) + 1] = tx /\ chain' # chain
        BY <2>1, <3>3
      <4>2. GenerationsPast'
        BY <2>1, <2>3, <3>3, <4>1 DEF GenerationsPast
      <4>3. BroadcastAccounted'
        BY <2>3, <3>1, <4>1, HeardIsKept DEF BroadcastAccounted
      <4> QED
        BY <4>2, <4>3
    <3> QED
      BY <3>2, <3>3, ChainGrows
  <2> QED
    BY <2>2, <2>3, GenerationStep
<1> QED
  BY ServiceCorrect, <1>1, <1>2, PTL DEF Spec
-----------------------------------------------------------------------------
(***************************************************************************)
(* The service implements the ledger: every step of RegistryService is a   *)
(* step of RegistryLedger or leaves the ledger's variables alone.  Most    *)
(* stutter; the seven that do not are                                      *)
(*                                                                         *)
(*      EnlistMerchant    AdmitMerchant      ClearStore     Withdraw       *)
(*      AdmitBeneficiary  Enrol              RenewRegistry  StartAfresh    *)
(*      FundSet           Anchor             Restart        Restart        *)
(*      RecordSet         Publish                                          *)
(***************************************************************************)
\* The ledger's view of the service's state, as Ledger maps it.
NamesIn(list) == [i \in DOMAIN list |-> list[i].name]
SetsIn(txs) == [t \in DOMAIN txs |-> txs[t].set]
Publication(filed) ==
  [t \in DOMAIN filed |-> [members |-> filed[t].set, crs |-> NamesIn(filed[t].crs)]]

-----------------------------------------------------------------------------
\* Appending to a list appends to the list of its members' names.
LEMMA AppendNames ==
  ASSUME NEW list \in Seq(Entry), NEW e \in Entry
  PROVE  NamesIn(Append(list, e)) = Append(NamesIn(list), e.name)
<1> DEFINE longer == Append(list, e)
           names == NamesIn(list)
<1>1. /\ DOMAIN longer = 1 .. Len(list) + 1
      /\ longer[Len(list) + 1] = e
      /\ \A i \in 1 .. Len(list) : longer[i] = list[i]
  BY AppendProperties
<1>2. names \in [1 .. Len(list) -> Merchant]
  <2>1. DOMAIN list = 1 .. Len(list) /\ \A i \in 1 .. Len(list) : list[i] \in Entry
    OBVIOUS
  <2> QED
    BY <2>1 DEF NamesIn, Entry
<1>3. names \in Seq(Merchant) /\ Len(names) = Len(list)
  BY <1>2, SeqDef
<1>4. /\ DOMAIN Append(names, e.name) = 1 .. Len(list) + 1
      /\ Append(names, e.name)[Len(list) + 1] = e.name
      /\ \A i \in 1 .. Len(list) : Append(names, e.name)[i] = list[i].name
  BY <1>3 DEF NamesIn, Entry
<1>5. Append(names, e.name) \in Seq(Merchant)
  BY <1>3 DEF Entry
<1>6. NamesIn(longer) = [i \in 1 .. Len(list) + 1 |-> longer[i].name]
  BY <1>1 DEF NamesIn
<1>7. Append(names, e.name) = [i \in 1 .. Len(list) + 1 |-> Append(names, e.name)[i]]
  BY <1>4, <1>5
<1> HIDE DEF longer, names
<1>8. \A i \in 1 .. Len(list) + 1 : longer[i].name = Append(names, e.name)[i]
  BY <1>1, <1>4
<1> QED
  BY <1>6, <1>7, <1>8 DEF longer, names

\* The same of the chain and the sets its transactions commit to.
LEMMA AppendSets ==
  ASSUME NEW txs \in Seq(CommitmentTx), NEW tx \in CommitmentTx
  PROVE  SetsIn(Append(txs, tx)) = Append(SetsIn(txs), tx.set)
<1> DEFINE longer == Append(txs, tx)
           sets == SetsIn(txs)
<1>1. /\ DOMAIN longer = 1 .. Len(txs) + 1
      /\ longer[Len(txs) + 1] = tx
      /\ \A i \in 1 .. Len(txs) : longer[i] = txs[i]
  BY AppendProperties
<1>2. sets \in [1 .. Len(txs) -> Seq(Member)]
  <2>1. DOMAIN txs = 1 .. Len(txs) /\ \A i \in 1 .. Len(txs) : txs[i] \in CommitmentTx
    OBVIOUS
  <2> QED
    BY <2>1 DEF SetsIn, CommitmentTx
<1>3. sets \in Seq(Seq(Member)) /\ Len(sets) = Len(txs)
  BY <1>2, SeqDef
<1>4. /\ DOMAIN Append(sets, tx.set) = 1 .. Len(txs) + 1
      /\ Append(sets, tx.set)[Len(txs) + 1] = tx.set
      /\ \A i \in 1 .. Len(txs) : Append(sets, tx.set)[i] = txs[i].set
  BY <1>3 DEF SetsIn, CommitmentTx
<1>5. Append(sets, tx.set) \in Seq(Seq(Member))
  BY <1>3 DEF CommitmentTx
<1>6. SetsIn(longer) = [i \in 1 .. Len(txs) + 1 |-> longer[i].set]
  BY <1>1 DEF SetsIn
<1>7. Append(sets, tx.set) = [i \in 1 .. Len(txs) + 1 |-> Append(sets, tx.set)[i]]
  BY <1>4, <1>5
<1> HIDE DEF longer, sets
<1>8. \A i \in 1 .. Len(txs) + 1 : longer[i].set = Append(sets, tx.set)[i]
  BY <1>1, <1>4
<1> QED
  BY <1>6, <1>7, <1>8 DEF longer, sets

\* Nothing has been registered, anchored or published at first.
LEMMA InitLedger == Init => Ledger!LedgerInit
  BY DEF Init, NewRegistry, Ledger!LedgerInit

\* A step that leaves the registry's lists, the chain and the store's sets alone
\* is a stutter of the ledger.
LEMMA LedgerStutters ==
  ASSUME UNCHANGED <<registry.merchants, registry.set, chain, active>>
  PROVE  UNCHANGED Ledger!lvars
  BY DEF Ledger!lvars

\* Each step is a step of the ledger or a stutter.
LEMMA StepLedger == ServiceInv /\ [Next]_vars => [Ledger!LedgerNext]_(Ledger!lvars)
<1> SUFFICES ASSUME ServiceInv, [Next]_vars PROVE [Ledger!LedgerNext]_(Ledger!lvars)
  OBVIOUS
<1> USE DEF ServiceInv
<1>1. ASSUME NEW o \in Outpoint, Pay(o) PROVE UNCHANGED Ledger!lvars
  BY <1>1, LedgerStutters DEF Pay, storeVars
<1>2. ASSUME NEW c \in Call, Issue(c) PROVE UNCHANGED Ledger!lvars
  BY <1>2, LedgerStutters DEF Issue, storeVars, walletVars
<1>3. ASSUME NEW c \in Call,
             \/ Leave(c) \/ CheckMerchant(c) \/ ReportMerchant(c) \/ VerifyFee(c)
             \/ PollMiss(c) \/ PollHit(c) \/ FetchSet(c)
      PROVE  UNCHANGED Ledger!lvars
  <2>1. UNCHANGED <<registry, chain, active>>
    BY <1>3 DEF Leave, CheckMerchant, ReportMerchant, VerifyFee, PollMiss, PollHit, FetchSet,
       storeVars, walletVars
  <2> QED
    BY <2>1, LedgerStutters
<1>4. ASSUME NEW c \in Call, SetupCrs(c) PROVE UNCHANGED Ledger!lvars
  BY <1>4, LedgerStutters DEF SetupCrs, storeVars, walletVars, TypeOK, Registry
<1>5. ASSUME NEW c \in Call, EnlistMerchant(c) PROVE Ledger!LedgerNext
  <2> DEFINE e == [name |-> req[c].name, gen |-> kept[c]]
  <2>1. e \in Entry /\ registry.merchants \in Seq(Entry)
    BY <1>5, MerchantRequest DEF EnlistMerchant, SectionInv, TypeOK, Entry, Registry
  <2>2. /\ registry'.merchants = Append(registry.merchants, e)
        /\ registry'.set = registry.set
        /\ UNCHANGED <<chain, active>>
    BY <1>5 DEF EnlistMerchant, TypeOK, Registry, storeVars, walletVars
  <2>3. NamesIn(registry'.merchants) = Append(NamesIn(registry.merchants), e.name)
    BY <2>1, <2>2, AppendNames
  <2>4. PICK n \in Merchant : n = req[c].name
    BY <1>5, MerchantRequest DEF EnlistMerchant, SectionInv, TypeOK
  <2>5. Ledger!AdmitMerchant(n)
    BY <2>2, <2>3, <2>4 DEF Ledger!AdmitMerchant, NamesIn
  <2> QED
    BY <2>5 DEF Ledger!LedgerNext
<1>6. ASSUME NEW c \in Call, AdmitBeneficiary(c)
      PROVE  Ledger!LedgerNext \/ UNCHANGED Ledger!lvars
  <2> DEFINE m == [phi |-> req[c].phi, out |-> req[c].out]
  <2>1. m \in Member
    BY <1>6, BeneficiaryRequest DEF AdmitBeneficiary, SectionInv, TypeOK, Member
  <2>2. CASE Admissible(req[c].phi) /\ registry' = [registry EXCEPT !.set = Append(@, m)]
    <3>1. /\ registry'.set = Append(registry.set, m)
          /\ registry'.merchants = registry.merchants
          /\ UNCHANGED <<chain, active>>
      BY <1>6, <2>2 DEF AdmitBeneficiary, TypeOK, Registry, storeVars, walletVars
    <3>2. Ledger!Enrol(m)
      BY <2>2, <3>1 DEF Ledger!Enrol, Admissible
    <3> QED
      BY <2>1, <3>2 DEF Ledger!LedgerNext
  <2>3. CASE registry' = registry
    BY <1>6, <2>3, LedgerStutters DEF AdmitBeneficiary, storeVars, walletVars
  <2> QED
    BY <1>6, <2>2, <2>3 DEF AdmitBeneficiary
<1>7. ASSUME NEW c \in Call, FundSet(c) PROVE Ledger!LedgerNext \/ UNCHANGED Ledger!lvars
  <2>1. CASE chain' = chain
    BY <1>7, <2>1, LedgerStutters DEF FundSet, storeVars
  <2>2. CASE chain' # chain
    <3>1. PICK tx \in CommitmentTx : /\ chain' = Append(chain, tx)
                                     /\ tx.set = registry.set
                                     /\ registry.set # << >>
                                     /\ UNCHANGED <<registry, storeVars>>
      BY <2>2, ChainGrows
    <3>2. SetsIn(chain') = Append(SetsIn(chain), registry.set)
      BY <3>1, AppendSets DEF TypeOK
    <3>3. Ledger!Anchor
      BY <3>1, <3>2 DEF Ledger!Anchor, SetsIn, storeVars
    <3> QED
      BY <3>3 DEF Ledger!LedgerNext
  <2> QED
    BY <2>1, <2>2
<1>8. ASSUME NEW c \in Call, RecordSet(c) PROVE Ledger!LedgerNext
  <2>1. /\ Len(chain) \in Nat \ {0} /\ Len(chain) \notin DOMAIN active
        /\ chain[Len(chain)].set = registry.set
        /\ registry.crs = registry.merchants
        /\ active' = ActiveWith(Len(chain))
        /\ UNCHANGED <<registry, chain>>
    BY <1>8, RecordFiles
  <2>2. SetsIn(chain) # << >> /\ Len(SetsIn(chain)) = Len(chain)
    BY <2>1 DEF SetsIn, TypeOK
  <2>3. SetsIn(chain)[Len(chain)] = registry.set
    BY <2>1 DEF SetsIn, TypeOK
  <2>4. Publication(active') =
          [t \in DOMAIN Publication(active) \union {Len(chain)} |->
             IF t = Len(chain)
               THEN [members |-> registry.set, crs |-> NamesIn(registry.merchants)]
               ELSE Publication(active)[t]]
    BY <2>1 DEF ActiveWith, SealedCopy, Publication
  <2>5. Ledger!Publish
    BY <2>1, <2>2, <2>3, <2>4 DEF Ledger!Publish, SetsIn, NamesIn, Publication
  <2> QED
    BY <2>5 DEF Ledger!LedgerNext
<1>9. ASSUME NEW c \in Call, ClearStore(c) PROVE Ledger!LedgerNext
  <2>1. Ledger!Withdraw
    BY <1>9 DEF ClearStore, walletVars, Ledger!Withdraw
  <2> QED
    BY <2>1 DEF Ledger!LedgerNext
<1>10. ASSUME NEW c \in Call, RenewRegistry(c) PROVE Ledger!LedgerNext
  <2>1. Ledger!StartAfresh
    BY <1>10 DEF RenewRegistry, Renewed, NewRegistry, walletVars, Ledger!StartAfresh
  <2> QED
    BY <2>1 DEF Ledger!LedgerNext
<1>11. CASE Restart
  <2>1. Ledger!Restart
    BY <1>11 DEF Restart, NewRegistry, Ledger!Restart
  <2> QED
    BY <2>1 DEF Ledger!LedgerNext
<1>12. CASE UNCHANGED vars
  BY <1>12, LedgerStutters DEF vars, storeVars, walletVars
<1> QED
  BY <1>1, <1>2, <1>3, <1>4, <1>5, <1>6, <1>7, <1>8, <1>9, <1>10, <1>11, <1>12
     DEF Next, Serve

\* The gRPC service, with all its tasks, locks, failures and restarts, keeps what
\* the ledger promises: ids and indices in order of admission, a set of distinct
\* commitments within its capacity, and published sets that never change and hold
\* what their transaction commits to (service.rs: every handler).
THEOREM LedgerImplemented == Spec => ImplementsLedger
  BY ServiceCorrect, InitLedger, StepLedger, PTL DEF Spec, ImplementsLedger, Ledger!LedgerSpec
=============================================================================
