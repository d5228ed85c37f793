--------------------------- MODULE RegistryService ---------------------------
(***************************************************************************)
(* The registry's gRPC server: src/registry/service.rs over                *)
(* src/registry/store.rs, src/registry/wallet.rs and src/registry/db.rs.   *)
(*                                                                         *)
(* Every call runs as a task of its own.  Two async mutexes protect the    *)
(* state: `store` (the merchant pool, the finalized sets, the wallet and   *)
(* the database) and `registery_data` (the pending registry).  A handler   *)
(* is a sequence of critical sections, one action each; a mutex that is    *)
(* held from one action to the next is a variable.  At a lock request the  *)
(* task may be dropped by the server because its client went away.         *)
(*                                                                         *)
(* Commitments, names and outpoints are members of constant sets; keys,    *)
(* addresses and transaction ids are counted, each generated one being a   *)
(* new number.  `generation`, `abandoned`, `answers` and the `gen` field   *)
(* of a merchant record are history the properties need and no action      *)
(* reads.                                                                  *)
(***************************************************************************)
EXTENDS Integers, Sequences, FiniteSets, SequencesExt

CONSTANTS Ops,           \* the mutating calls and streams the clients use
          Call,          \* gRPC calls that may be in progress at once
          Merchant,      \* merchant names
          Phi,           \* beneficiaries' commitments
          Outpoint,      \* payments the clients may make
          Sats,          \* what each payment is worth
          Capacity,      \* Config.beneficiary_capacity
          MinSats,       \* Config.min_sats_per_user
          MerchantFee,   \* Config.merchant_registration_fee
          Free,          \* the holder of a mutex nobody holds
          ClientsLeave,  \* whether clients may go away before the answer
          MaxSeals,      \* bound on commitment transactions
          MaxResets,     \* bound on reset requests
          MaxRestarts    \* bound on restarts of the process

ASSUME OpsAssumption ==
  Ops \subseteq {"merchant", "beneficiary", "finalize", "reset", "subscribe"}
ASSUME CallAssumption == Free \notin Call
ASSUME SatsAssumption == Sats \in [Outpoint -> Nat]
ASSUME FeeAssumption == MinSats \in Nat /\ MerchantFee \in Nat
ASSUME CapacityAssumption == Capacity \in Nat
ASSUME ClientsLeaveAssumption == ClientsLeave \in BOOLEAN
ASSUME BoundAssumption ==
  MaxSeals \in Nat /\ MaxResets \in Nat /\ MaxRestarts \in Nat

VARIABLES
  pool,          \* RegistryStore.merchant_pool: the names it holds
  active,        \* RegistryStore.active_sets: transaction id -> finalized set
  generation,    \* how often the store was emptied
  abandoned,     \* names the pool holds and the registry's list will not get
  registry,      \* the pending registry, behind registery_data
  storeLock,     \* who holds `store` across actions
  registryLock,  \* who holds `registery_data` across actions
  walletKey,     \* the mnemonic of RegistryWallet
  balance,       \* what the wallet of that mnemonic can spend
  db,            \* the SQLite tables that are ever written
  chain,         \* commitment transactions the node accepted; position = txid
  paidTo,        \* the wallet key each outpoint pays; 0 before it is paid
  pc,            \* the critical section each call asks for next
  req,           \* the request each call serves
  kept,          \* the local value a handler carries to its next section
  answers,       \* the ids and indices that calls were told
  resets         \* reset requests so far

storeVars == <<pool, active, generation, abandoned>>
walletVars == <<walletKey, balance, chain, paidTo>>
lockVars == <<storeLock, registryLock>>
callVars == <<pc, req, kept, answers>>
vars == <<storeVars, registry, lockVars, walletVars, db, callVars, resets>>
-----------------------------------------------------------------------------
Txid == 1 .. MaxSeals

Member == [phi : Phi, out : Outpoint]

\* A merchant of the registry's list; gen is the generation of the pool entry.
Entry == [name : Merchant, gen : Nat]

\* The parts of core::Registry that the service reads.
Registry == [key : Nat, merchants : Seq(Entry), crs : Seq(Entry), set : Seq(Member)]

\* An ActiveSet: a clone of the registry.
SealedSet == [key : Nat, crs : Seq(Entry), set : Seq(Member)]

\* A commitment transaction; heard says whether the node's answer arrived.
CommitmentTx ==
  [key : Nat, set : Seq(Member), value : Nat, gen : Nat, heard : BOOLEAN]

\* The rows of the tables that some code path writes.
Database == [merchants : SUBSET Merchant, sets : UNION {[S -> BOOLEAN] : S \in SUBSET Txid}]

Request ==
       [op : {"merchant"}, name : Merchant, out : Outpoint]
  \union [op : {"beneficiary"}, phi : Phi, out : Outpoint]
  \union [op : {"subscribe"}, txid : Txid]
  \union [op : {"finalize", "reset", "none"}]

NoRequest == [op |-> "none"]

Answer ==
       [op : {"merchant"}, key : Nat, id : Nat, name : Merchant]
  \union [op : {"beneficiary"}, key : Nat, index : Nat, phi : Phi]

\* The section each handler starts with.
FirstSection(op) ==
  CASE op = "merchant"    -> "check"
    [] op = "beneficiary" -> "verify"
    [] op = "finalize"    -> "setup"
    [] op = "reset"       -> "clear"
    [] op = "subscribe"   -> "poll"

\* Sections a task awaits a mutex for, or sleeps before: a client that goes
\* away ends the task there.  The stream task of "fetch" is on its own.
Awaiting == {"check", "enlist", "report", "verify", "admit", "setup", "fund",
             "clear", "renew", "poll"}

Section == Awaiting \union {"idle", "record", "fetch"}
-----------------------------------------------------------------------------
Names(entries) == {entries[i].name : i \in DOMAIN entries}

NewRegistry(key) == [key |-> key, merchants |-> << >>, crs |-> << >>, set |-> << >>]

Init ==
  /\ pool = {}
  /\ active = << >>
  /\ generation = 0
  /\ abandoned = {}
  /\ registry = NewRegistry(1)
  /\ storeLock = Free
  /\ registryLock = Free
  /\ walletKey = 1
  /\ balance = 0
  /\ db = [merchants |-> {}, sets |-> << >>]
  /\ chain = << >>
  /\ paidTo = [o \in Outpoint |-> 0]
  /\ pc = [c \in Call |-> "idle"]
  /\ req = [c \in Call |-> NoRequest]
  /\ kept = [c \in Call |-> 0]
  /\ answers = {}
  /\ resets = 0

\* The call moves on to its next section.
Goto(c, section) ==
  /\ pc' = [pc EXCEPT ![c] = section]
  /\ UNCHANGED req

\* The handler returns, with an error or an answer; the slot can take a new call.
Return(c) ==
  /\ pc' = [pc EXCEPT ![c] = "idle"]
  /\ req' = [req EXCEPT ![c] = NoRequest]
  /\ kept' = [kept EXCEPT ![c] = 0]

Told(answer) == answers' = answers \union {answer}
-----------------------------------------------------------------------------
(***************************************************************************)
(* Clients.                                                                *)
(***************************************************************************)

\* A client asks for the registry's address and pays to it.  The address may be
\* from before a restart, when the wallet had another key.
Pay(o) ==
  \E key \in 1 .. walletKey :
    /\ paidTo[o] = 0
    /\ paidTo' = [paidTo EXCEPT ![o] = key]
    /\ balance' = IF key = walletKey THEN balance + Sats[o] ELSE balance
    /\ UNCHANGED <<storeVars, registry, lockVars, walletKey, chain, db, callVars, resets>>

Issue(c) ==
  /\ pc[c] = "idle"
  /\ \E r \in Request :
       /\ r.op \in Ops
       /\ r.op = "reset" => resets < MaxResets
       /\ resets' = IF r.op = "reset" THEN resets + 1 ELSE resets
       /\ req' = [req EXCEPT ![c] = r]
       /\ pc' = [pc EXCEPT ![c] = FirstSection(r.op)]
  /\ UNCHANGED <<storeVars, registry, lockVars, walletVars, db, kept, answers>>

\* The client goes away and the server drops the task where it waits; the guards
\* it holds are released.
Leave(c) ==
  /\ ClientsLeave
  /\ pc[c] \in Awaiting
  /\ Return(c)
  /\ registryLock' = IF registryLock = c THEN Free ELSE registryLock
  /\ abandoned' = IF pc[c] = "enlist" THEN abandoned \union {req[c].name} ELSE abandoned
  /\ UNCHANGED <<pool, active, generation, registry, storeLock, walletVars, db,
                 answers, resets>>
-----------------------------------------------------------------------------
(***************************************************************************)
(* register_merchant.                                                      *)
(***************************************************************************)

\* The node knows the payment, it pays the wallet's address, and enough.  A node
\* that cannot be reached fails the check as well: that outcome is always open.
\* Mutant: the address is not compared.
PaymentVerifiedAnyAddress(o, fee) == Sats[o] >= fee

PaymentVerified(o, fee) == paidTo[o] = walletKey /\ Sats[o] >= fee

\* Mutant: the pool is not asked.
NameTakenUnchecked(name) == FALSE

NameTaken(name) == name \in pool

\* RegistryStore::add_merchant.  The pool gets the name before the database
\* does, and keeps it when the database fails.
CheckMerchant(c) ==
  /\ pc[c] = "check"
  /\ storeLock = Free
  /\ LET name == req[c].name
     IN \/ /\ ~ NameTaken(name)
           /\ PaymentVerified(req[c].out, MerchantFee)
           /\ pool' = pool \union {name}
           /\ \/ /\ db' = [db EXCEPT !.merchants = @ \union {name}]
                 /\ kept' = [kept EXCEPT ![c] = generation]
                 /\ Goto(c, "enlist")
                 /\ UNCHANGED abandoned
              \/ /\ abandoned' = abandoned \union {name}
                 /\ Return(c)
                 /\ UNCHANGED db
        \/ \* taken, not paid, or the node did not answer
           /\ Return(c)
           /\ UNCHANGED <<pool, abandoned, db>>
  /\ UNCHANGED <<active, generation, registry, lockVars, walletVars, answers, resets>>

\* Mutant: ids are counted by the pool, which another task may have extended.
NextMerchantIdOfPool == Cardinality(pool)

NextMerchantId == Len(registry.merchants) + 1

\* Registry::add_merchant.
EnlistMerchant(c) ==
  /\ pc[c] = "enlist"
  /\ registryLock = Free
  /\ registry' = [registry EXCEPT !.merchants =
                    Append(@, [name |-> req[c].name, gen |-> kept[c]])]
  /\ Told([op |-> "merchant", key |-> registry.key, id |-> NextMerchantId,
           name |-> req[c].name])
  /\ Goto(c, "report")
  /\ UNCHANGED <<storeVars, lockVars, walletVars, db, kept, resets>>

\* The store is locked once more, for the log, before the answer leaves.
ReportMerchant(c) ==
  /\ pc[c] = "report"
  /\ storeLock = Free
  /\ Return(c)
  /\ UNCHANGED <<storeVars, registry, lockVars, walletVars, db, answers, resets>>
-----------------------------------------------------------------------------
(***************************************************************************)
(* register_beneficiary.                                                   *)
(***************************************************************************)

VerifyFee(c) ==
  /\ pc[c] = "verify"
  /\ storeLock = Free
  /\ \/ /\ PaymentVerified(req[c].out, MinSats)
        /\ Goto(c, "admit")
        /\ UNCHANGED kept
     \/ Return(c)
  /\ UNCHANGED <<storeVars, registry, lockVars, walletVars, db, answers, resets>>

\* Mutant: the commitments already in the set are not looked at.
AdmissibleTwice(phi) == Len(registry.set) < Capacity

Admissible(phi) ==
  /\ Len(registry.set) < Capacity
  /\ \A i \in DOMAIN registry.set : registry.set[i].phi # phi

AdmitBeneficiary(c) ==
  /\ pc[c] = "admit"
  /\ registryLock = Free
  /\ LET phi == req[c].phi
     IN \/ /\ Admissible(phi)
           /\ registry' = [registry EXCEPT !.set =
                             Append(@, [phi |-> phi, out |-> req[c].out])]
           /\ Told([op |-> "beneficiary", key |-> registry.key,
                    index |-> Len(registry.set), phi |-> phi])
        \/ /\ ~ Admissible(phi)
           /\ UNCHANGED <<registry, answers>>
  /\ Return(c)
  /\ UNCHANGED <<storeVars, lockVars, walletVars, db, resets>>
-----------------------------------------------------------------------------
(***************************************************************************)
(* finalize_set.                                                           *)
(***************************************************************************)

\* Mutant: the guard is dropped after the CRS is set up.
GuardAfterSetupDropped(c) == Free

GuardAfterSetup(c) == c

\* Registry::setup, under the lock that the handler keeps.
SetupCrs(c) ==
  /\ pc[c] = "setup"
  /\ registryLock = Free
  /\ registryLock' = GuardAfterSetup(c)
  /\ registry' = [registry EXCEPT !.crs = registry.merchants]
  /\ Goto(c, "fund")
  /\ UNCHANGED <<storeVars, storeLock, walletVars, db, kept, answers, resets>>

\* What the commitment output is worth: the capacity, not the members, counts.
CommitmentValue == Capacity * MinSats

\* Mutant: the wallet does not refuse what it cannot pay.
AffordableUnchecked == TRUE

Affordable == balance >= CommitmentValue

\* The node accepts the transaction that commits to the pending set, which must
\* have a member.  Mining fees are left out of the balance.
Broadcast(heard) ==
  /\ registry.set # << >>
  /\ Affordable
  /\ Len(chain) < MaxSeals
  /\ chain' = Append(chain, [key |-> registry.key, set |-> registry.set,
                             value |-> CommitmentValue, gen |-> generation,
                             heard |-> heard])
  /\ balance' = balance - CommitmentValue

\* The first half of RegistryStore::create_tx: the wallet builds, signs and
\* broadcasts the transaction.
FundSet(c) ==
  /\ pc[c] = "fund"
  /\ storeLock = Free
  /\ \/ /\ Broadcast(TRUE)
        /\ storeLock' = c
        /\ kept' = [kept EXCEPT ![c] = Len(chain) + 1]
        /\ Goto(c, "record")
        /\ UNCHANGED registryLock
     \/ \* nobody in the set, no funds, the node refused, or its answer was lost
        /\ Broadcast(FALSE) \/ UNCHANGED <<chain, balance>>
        /\ registryLock' = Free
        /\ Return(c)
        /\ UNCHANGED storeLock
  /\ UNCHANGED <<storeVars, registry, walletKey, paidTo, db, answers, resets>>

SealedCopy == [key |-> registry.key, crs |-> registry.crs, set |-> registry.set]

\* active_sets with the set inserted under its transaction id.
ActiveWith(t) ==
  [u \in DOMAIN active \union {t} |-> IF u = t THEN SealedCopy ELSE active[u]]

\* mark_set_finalized updates the row of the set, if there is one.
MarkSetFinalized(t) ==
  [db EXCEPT !.sets = [s \in DOMAIN @ |-> s = t \/ @[s]]]

\* Mutant: the set enters active_sets only when the database took it.
RecordSetDatabaseFirst(c) ==
  /\ pc[c] = "record"
  /\ \/ active' = ActiveWith(kept[c]) /\ db' = MarkSetFinalized(kept[c])
     \/ UNCHANGED <<active, db>>
  /\ storeLock' = Free
  /\ registryLock' = Free
  /\ Return(c)
  /\ UNCHANGED <<pool, generation, abandoned, registry, walletVars, answers, resets>>

\* The second half of create_tx, then the answer: an error when the database
\* failed, although the set is in.  Both guards are dropped.
RecordSet(c) ==
  /\ pc[c] = "record"
  /\ active' = ActiveWith(kept[c])
  /\ db' = MarkSetFinalized(kept[c]) \/ UNCHANGED db
  /\ storeLock' = Free
  /\ registryLock' = Free
  /\ Return(c)
  /\ UNCHANGED <<pool, generation, abandoned, registry, walletVars, answers, resets>>
-----------------------------------------------------------------------------
(***************************************************************************)
(* reset: the store first, the registry later.                             *)
(***************************************************************************)

\* Mutant: the pool survives a reset.
PoolAfterResetKept == pool

PoolAfterReset == {}

ClearStore(c) ==
  /\ pc[c] = "clear"
  /\ storeLock = Free
  /\ pool' = PoolAfterReset
  /\ active' = << >>
  /\ generation' = generation + 1
  /\ abandoned' = {}
  /\ Goto(c, "renew")
  /\ UNCHANGED <<registry, lockVars, walletVars, db, kept, answers, resets>>

\* Mutant: the lists are emptied and the registry keeps its key.
RenewedInPlace == NewRegistry(registry.key)

Renewed == NewRegistry(registry.key + 1)

\* The registry's merchants of one generation of the pool.
EntriesOf(gen) == {i \in DOMAIN registry.merchants : registry.merchants[i].gen = gen}

\* A merchant that another task admitted since the store was emptied goes too.
RenewRegistry(c) ==
  /\ pc[c] = "renew"
  /\ registryLock = Free
  /\ registry' = Renewed
  /\ abandoned' = abandoned \union
                    {registry.merchants[i].name : i \in EntriesOf(generation)}
  /\ Return(c)
  /\ UNCHANGED <<pool, active, generation, lockVars, walletVars, db, answers, resets>>
-----------------------------------------------------------------------------
(***************************************************************************)
(* subscribe_set_finalization.                                             *)
(***************************************************************************)

\* Mutant: the guard is kept over the sleep between two polls.
GuardWhileSleepingKept(c) == c

GuardWhileSleeping(c) == Free

\* Mutant: the poll asks the database.
SubscribableInDb(t) == t \in DOMAIN db.sets

Subscribable(t) == t \in DOMAIN active

\* One round of the poll that does not find the set.
PollMiss(c) ==
  /\ pc[c] = "poll"
  /\ storeLock = Free
  /\ ~ Subscribable(req[c].txid)
  /\ storeLock' = GuardWhileSleeping(c)
  /\ UNCHANGED <<storeVars, registry, registryLock, walletVars, db, callVars, resets>>

\* The set is there, and finalized: every set in the store is.
PollHit(c) ==
  /\ pc[c] = "poll"
  /\ storeLock = Free
  /\ Subscribable(req[c].txid)
  /\ Goto(c, "fetch")
  /\ UNCHANGED <<storeVars, registry, lockVars, walletVars, db, kept, answers, resets>>

\* The stream task sends the set, or closes the stream when a reset was faster.
FetchSet(c) ==
  /\ pc[c] = "fetch"
  /\ storeLock = Free
  /\ Return(c)
  /\ UNCHANGED <<storeVars, registry, lockVars, walletVars, db, answers, resets>>
-----------------------------------------------------------------------------
(***************************************************************************)
(* The process stops at any moment and is started again: a new store, a    *)
(* new wallet with a fresh mnemonic, a new registry.  Nothing is loaded    *)
(* from the database, which stays as it was.                               *)
(***************************************************************************)
Restart ==
  /\ walletKey =< MaxRestarts
  /\ pool' = {}
  /\ active' = << >>
  /\ generation' = generation + 1
  /\ abandoned' = {}
  /\ registry' = NewRegistry(registry.key + 1)
  /\ storeLock' = Free
  /\ registryLock' = Free
  /\ walletKey' = walletKey + 1
  /\ balance' = 0
  /\ pc' = [c \in Call |-> "idle"]
  /\ req' = [c \in Call |-> NoRequest]
  /\ kept' = [c \in Call |-> 0]
  /\ UNCHANGED <<db, chain, paidTo, answers, resets>>
-----------------------------------------------------------------------------
\* One step of the handler or stream task that serves c.
Serve(c) ==
  \/ CheckMerchant(c)
  \/ EnlistMerchant(c)
  \/ ReportMerchant(c)
  \/ VerifyFee(c)
  \/ AdmitBeneficiary(c)
  \/ SetupCrs(c)
  \/ FundSet(c)
  \/ RecordSet(c)
  \/ ClearStore(c)
  \/ RenewRegistry(c)
  \/ PollMiss(c)
  \/ PollHit(c)
  \/ FetchSet(c)

Next ==
  \/ \E o \in Outpoint : Pay(o)
  \/ \E c \in Call : Issue(c)
  \/ \E c \in Call : Leave(c)
  \/ \E c \in Call : Serve(c)
  \/ Restart

Spec == Init /\ [][Next]_vars

\* The runtime polls every task, and its mutexes serve waiters in the order they
\* came: a task that can take its lock again and again gets it.
Fairness == \A c \in Call : SF_vars(Serve(c))

FairSpec == Spec /\ Fairness
-----------------------------------------------------------------------------
(***************************************************************************)
(* What the registry keeps true.                                           *)
(***************************************************************************)

\* Every variable has the values the code's types allow; the wallet never spends
\* what it does not have, and a finalized set is filed under a transaction that
\* the node has accepted.
TypeOK ==
  /\ pool \subseteq Merchant
  /\ DOMAIN active \subseteq 1 .. Len(chain)
  /\ active \in [DOMAIN active -> SealedSet]
  /\ generation \in Nat
  /\ abandoned \subseteq Merchant
  /\ registry \in Registry
  /\ storeLock \in Call \union {Free}
  /\ registryLock \in Call \union {Free}
  /\ walletKey \in Nat
  /\ balance \in Nat
  /\ db \in Database
  /\ chain \in Seq(CommitmentTx)
  /\ paidTo \in [Outpoint -> Nat]
  /\ pc \in [Call -> Section]
  /\ req \in [Call -> Request]
  /\ kept \in [Call -> Nat]
  /\ answers \subseteq Answer
  /\ resets \in Nat

\* The anonymity sets the service knows of: the pending one and the finalized ones.
Sets == {registry.set} \union {active[t].set : t \in DOMAIN active}

\* No commitment stands in a set twice and no set has more members than the
\* capacity, although the payment is checked and the set extended in different
\* critical sections and other beneficiaries may be admitted between them
\* (service.rs: register_beneficiary).
MembersUnique ==
  \A set \in Sets :
    /\ Len(set) =< Capacity
    /\ \A i, j \in DOMAIN set : set[i].phi = set[j].phi => i = j

\* Each member of each set paid the registry's present wallet at least the fee,
\* although the check was made before the registry was locked and the wallet is
\* a new one after each restart (service.rs: register_beneficiary, wallet.rs:
\* verify_payment).
EveryMemberPaid ==
  \A set \in Sets : \A i \in DOMAIN set :
    /\ paidTo[set[i].out] = walletKey
    /\ Sats[set[i].out] >= MinSats

\* The index or id a client was told is its position in the pending registry and
\* in every set finalized from that registry, then and later: the client proves
\* its membership with that index and selects its generators with that id
\* (service.rs: register_beneficiary, register_merchant).
AnswersHonoured ==
  \A a \in answers :
    /\ a.op = "beneficiary" =>
         LET HasMember(set) == Len(set) > a.index => set[a.index + 1].phi = a.phi
         IN  /\ a.key = registry.key => Len(registry.set) > a.index /\ HasMember(registry.set)
             /\ \A t \in DOMAIN active : active[t].key = a.key => HasMember(active[t].set)
    /\ a.op = "merchant" =>
         LET HasMerchant(list) == Len(list) >= a.id => list[a.id].name = a.name
         IN  /\ a.key = registry.key =>
                  Len(registry.merchants) >= a.id /\ HasMerchant(registry.merchants)
             /\ \A t \in DOMAIN active : active[t].key = a.key => HasMerchant(active[t].crs)

\* Sets finalized from one registry grow out of each other, members and CRS
\* alike, and the pending registry continues the newest: finalizing twice, with
\* registrations, failures and half a reset between, never reorders or drops
\* anyone (service.rs: finalize_set; registry.rs: setup).
SealedSetsNested ==
  \A t \in DOMAIN active :
    /\ active[t].key = registry.key =>
         IsPrefix(active[t].set, registry.set) /\ IsPrefix(active[t].crs, registry.merchants)
    /\ \A u \in DOMAIN active :
         t < u /\ active[t].key = active[u].key =>
           IsPrefix(active[t].set, active[u].set) /\ IsPrefix(active[t].crs, active[u].crs)

\* What the service hands out for a transaction id is what that transaction
\* commits to: nobody joined between the broadcast and the insertion, or changed
\* the set since (store.rs: create_tx).
ActiveSetsAnchored ==
  \A t \in DOMAIN active :
    active[t].key = chain[t].key /\ active[t].set = chain[t].set

\* No commitment transaction whose broadcast the node confirmed is lost from the
\* store's memory: each one since the store was last emptied is filed, or its
\* handler is about to file it, even when the database fails (store.rs: create_tx).
BroadcastAccounted ==
  \A t \in DOMAIN chain :
    chain[t].gen = generation /\ chain[t].heard =>
      \/ t \in DOMAIN active
      \/ \E c \in Call : pc[c] = "record" /\ kept[c] = t

\* A merchant stands in the registry's list, or in a CRS, twice only if a reset
\* emptied the pool between its two registrations: the check of the name and the
\* addition to the list are in different critical sections under different
\* mutexes (service.rs: register_merchant, reset).
RepeatedMerchantsSpanReset ==
  \A list \in {registry.merchants} \union {active[t].crs : t \in DOMAIN active} :
    \A i, j \in DOMAIN list :
      list[i].name = list[j].name /\ list[i].gen = list[j].gen => i = j

\* The pool and the registry's list name the same merchants, but for those whose
\* handler is between the two, those left behind when it could not go on, and
\* those admitted to the list before the pool was emptied (service.rs:
\* register_merchant, reset).
PoolAndListAgree ==
  /\ pool \subseteq Names(registry.merchants) \union abandoned
                    \union {req[c].name : c \in {d \in Call : pc[d] = "enlist"}}
  /\ \A i \in EntriesOf(generation) : registry.merchants[i].name \in pool

\* The detailed service implements the ledger of RegistryLedger: its anchored and
\* published sets are chain and active, without the keys and the history.
Ledger == INSTANCE RegistryLedger WITH
  Name <- Merchant,
  merchants <- [i \in DOMAIN registry.merchants |-> registry.merchants[i].name],
  members <- registry.set,
  anchored <- [t \in DOMAIN chain |-> chain[t].set],
  published <- [t \in DOMAIN active |->
                  [members |-> active[t].set,
                   crs |-> [i \in DOMAIN active[t].crs |-> active[t].crs[i].name]]]

\* Every step of the service is a step of the ledger or changes nothing of it
\* (service.rs: the handlers against what docs/PROTOCOL.md promises).
ImplementsLedger == Ledger!LedgerSpec

\* Every call is answered or ends, but for a subscriber whose set does not exist:
\* no order of lock requests leaves a handler waiting for ever (service.rs:
\* finalize_set holds one mutex while it asks for the other).
CallsEnd ==
  \A c \in Call : (pc[c] \notin {"idle", "poll"}) ~> (pc[c] = "idle")

\* A subscriber to a finalized set stops polling, unless a reset withdraws the
\* set first (service.rs: subscribe_set_finalization).
SubscribersServed ==
  \A c \in Call :
    (pc[c] = "poll" /\ req[c].txid \in DOMAIN active)
      ~> (pc[c] = "idle" \/ active = << >>)
-----------------------------------------------------------------------------
(***************************************************************************)
(* What documents and comments say and the code does not do.               *)
(***************************************************************************)

\* db.rs, lines 3 and 4: merchants, sets and commitments are stored so that the
\* registry can be reconstructed on restart.  Every finalized set should then
\* have a row.
Reconstructable == DOMAIN active \subseteq DOMAIN db.sets

\* PROTOCOL.md, lines 101 and 102: a finalized set is sealed permanently with no
\* further additions.  The registry it was finalized from should then not admit
\* anyone.
NoAdditionsOnceFinalized ==
  \A t \in DOMAIN active :
    active[t].key = registry.key => registry.set = active[t].set
=============================================================================
