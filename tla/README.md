# Veiled: a TLA+ model from the registry to the payment identity

Veiled is an anonymous credential system anchored on Bitcoin: merchants and
beneficiaries register with a *registry* and pay it on chain, the registry
commits to the set of beneficiaries in a Taproot transaction, and a beneficiary
later proves to a merchant that it is a member of the set without saying which.
This directory models the registry, the process pool of the web application, the
wallet commands, the proofs, and the way of a beneficiary through application,
library and registry to a merchant; it checks them with TLC on small instances and
proves all its safety properties with TLAPS for every instance.

Paths below are relative to the repository root.

## 1. The system

| Component | Where | State | Operations | What is hard |
|---|---|---|---|---|
| Registry service | `src/registry/service.rs` | `registery_data` (pending registry), behind a tokio mutex | `register_merchant`, `register_beneficiary`, `finalize_set`, `reset`, `subscribe_set_finalization`, five queries | handlers are sequences of critical sections under two mutexes; tasks are dropped when the client leaves |
| Registry store | `src/registry/store.rs` | `merchant_pool`, `active_sets`, wallet, database, behind a second mutex | `add_merchant`, `create_tx`, look-ups | one step of several fails; memory and database differ |
| Registry wallet | `src/registry/wallet.rs` | mnemonic, made afresh at each start | `verify_payment`, `fund_and_broadcast` | answers of the node that are lost; payments to an old address |
| Registry database | `src/registry/db.rs` | SQLite tables | `save_*`, `mark_set_finalized`, `load_*` | most of it has no caller |
| Pending registry | `src/core/registry.rs` | merchants, CRS, anonymity set, key | `add_merchant`, `add_beneficiary`, `setup`, `create_anonymity_set` | ids and indices told to clients must stay positions |
| Server start | `src/bin/registry_grpc.rs` | – | `main` | what survives a restart |
| Process pool | `ui/lib/process-pool.ts` | child, pending entry, queue, timers | `call`, `callOnce`, line / exit / timer callbacks, `shutdown` | responses carry no number; late lines, deaths, retries |
| Daemon loops | `src/bin/veiled_core.rs`, `src/bin/veiled_wallet.rs` | stdin and stdout | one line in, one line out | die at any time |
| Wallet commands | `src/bin/veiled_wallet.rs` | state file with a checkpoint | create, sync, balance, send, faucet, ... | checkpoint without outputs; other writers of the file |
| Payment identities | `src/core/payment_identity.rs`, `verifier.rs`, `merchant.rs`, `nullifier.rs`, `request.rs`, `credential.rs`, `beneficiary.rs` | registered pseudonyms and nullifiers | prove, verify, register, request payment | freshness, two verifiers with different checks |
| CRS, trees, transactions | `src/core/crs.rs`, `tx.rs`, `registry.rs` | – | setup, encode, decode, Merkle trees | boundaries, padding |
| Web application | `ui/app/api/**`, `ui/lib/state.ts`, `grpc.ts`, `merchant-spawn.ts` | one global state object, merchant processes | one route per user action | await points, reset during a route |
| Client library | `src/client.rs` | – | wrappers of the gRPC calls | streams that close without data |
| Pages, scripts, containers | `ui/app/*/page.tsx`, `scripts/`, `Makefile` | – | – | presentation and deployment |

How they interact.  A page calls a route of the web application; the route asks
the core and the wallet binaries through two process pools (lines of JSON), and
the registry through gRPC.  The registry asks the Bitcoin node through RPC.  The
merchant binary that the web application starts, and the beneficiary binary that
the documents mention, are not in the repository.

For each component, what makes it correct:

* *Registry service*: what a client was told (id, index, transaction id) stays
  true; sets hold only distinct members that paid; what is published under a
  transaction is what that transaction commits to; no interleaving of handlers
  loses a merchant, except in the cases the properties name; every handler ends.
* *Process pool*: a call gets its own response; each call is answered or fails.
* *Wallet commands*: the balance is what the chain says, a send sees the outputs
  there are, no writer of the file undoes another.
* *Payment identities*: one registration for each member and merchant; a proof
  made for a set and a merchant verifies for those and no other.
* *CRS*: decode inverts encode and refuses what was cut short; the position of a
  merchant means the same to everybody who computes with it.
* *Web application*: no route leaves the state object half changed, or writes
  into a fresh state what belongs to the one before a reset.

`PROJECT.json` lists the hazards, each at the line where it bites.

## 2. The modules

    RegistryLedger            what the registry promises (abstract)
      ^ implemented by            ^ INSTANCE: the registry that the routes see
    RegistryService             PaymentIdentity    routes, library, acceptors
      ^ EXTENDS                   ^ EXTENDS
    MCRegistryService           MCPaymentIdentity
    RegistryServiceProofs       PaymentIdentityProofs
      ^ EXTENDS
    RegistryPromisesProofs      CrsEncoding        the CRS as bytes
    RegistryListsProofs           ^ EXTENDS
                                MembershipProof    prover and verifier
                                  ^ EXTENDS
    ProcessPool                 MCMembershipProof
      ^ EXTENDS                 MembershipProofProofs
    MCProcessPool
    ProcessPoolProofs           WalletSync         one wallet file, its writers
                                  ^ EXTENDS
                                MCWalletSync
                                WalletSyncProofs

`Induction` has the lemmas by which facts about lists, sums and folds are proved;
`ProcessPoolProofs`, `WalletSyncProofs`, `PaymentIdentityProofs` and
`MembershipProofProofs` extend it.

The modules meet in what one has found of the other: `PaymentIdentity` runs on
`RegistryLedger`, which `RegistryService` is proved to implement, and takes of a
proof what `MembershipProof` checks of it (it opens under the CRS, the set, the set
id and the service it was made for); `WalletSync` gives its calls the attempts,
time-outs and overlapping processes that `ProcessPool` shows to be possible.

### RegistryService

One action is one critical section.  `pc[c]` names the section that call `c`
asks for next, `kept[c]` is the local value its handler carries there.

| Handler | Sections | Actions |
|---|---|---|
| `register_merchant` | store; registry; store | `CheckMerchant`, `EnlistMerchant`, `ReportMerchant` |
| `register_beneficiary` | store; registry | `VerifyFee`, `AdmitBeneficiary` |
| `finalize_set` | registry, kept; store, kept; both released | `SetupCrs`, `FundSet`, `RecordSet` |
| `reset` | store; registry | `ClearStore`, `RenewRegistry` |
| `subscribe_set_finalization` | store, polled; store | `PollMiss`, `PollHit`, `FetchSet` |
| – | a client leaves at a lock request or sleep | `Leave` |
| `main` | | `Restart` |
| clients | | `Pay`, `Issue` |

`storeLock` and `registryLock` are variables because `finalize_set` keeps both
mutexes from one action to the next; a section that takes and releases a mutex
within one action only needs it free.  `FundSet` and `RecordSet` are two actions
although `create_tx` does not await, because the process may stop between the
broadcast and the insertion; no handler that needs either mutex can run there.

State and code: `pool` is `merchant_pool`; `active` is `active_sets` with the
clone of the registry as its value; `registry` is the value behind
`registery_data`; `walletKey` stands for the mnemonic and the address derived
from it, `balance` for what the node would let the wallet spend; `db` holds the
rows of the tables `merchants` and `sets`; `chain` is the sequence of commitment
transactions the node accepted, its position being the transaction id; `paidTo`
says which wallet key each outpoint pays.  `Registry.key` stands for the fresh
operator key of `Registry::new`.

History that no action reads: `answers` (what clients were told), `generation`
and the `gen` and `heard` fields (in which generation of the pool a merchant was
admitted or a transaction sent, and whether the node's answer came back),
`abandoned` (names that are in the pool and will not come to the list).

Abstractions: names, commitments, outpoints are model values; a CRS is the list
of merchants it is made of; the commitment transaction commits to a list of
members (the Merkle root and the tweak stand for that list).  Malformed requests
are refused before the first lock and change nothing; they are left out.  Mining
fees, coin selection and reorganisations are left out of the wallet.  The mode
without a node (`rpc_client` is `None`) is only used by tests.  The queries are
one read under the store's mutex: they change nothing, and the invariants speak
of all they can return.

### RegistryLedger

An append-only list of merchants, an append-only list of members, anchored lists
and published sets.  `Publish` may only publish the newest anchored list while it
still is the pending one: this is the atomicity `finalize_set` gets from its two
guards.  The refinement maps `chain` to `anchored` and `active` to `published`,
without the keys, fees, wallets, locks and history.  A step that changes several
of the ledger's variables at once is a single ledger action or it is not allowed:
in particular a reset is two steps (`Withdraw`, `StartAfresh`), since other
handlers can run between its halves, and a failed or unheard broadcast is an
`Anchor` that may never be followed by a `Publish`.

### ProcessPool

One action is one callback of the event loop together with the promise reactions
that run before the next callback: `Start` and `Retry` (`callOnce`, with
`ensureProcess`), `Line`, `Timeout`, `Exit`; and the other side: `Serve`, `Crash`.
`heard` is the set of processes whose line interface is open: `shutdown` closes
the one of the current process, the exit handler only forgets it.  A request and
its response are named by the call they belong to; the pool itself never sees that
name, which is the point of the module.  `timers` is ordered because all run
equally long.  `calm` is history: TRUE until a timer fires or an entry is
rejected.  Writes to a process that has died are lost; the `error` events of
`spawn` and of the pipe, which the file does not handle, are left out, and so are
lines that the closed line interface may have buffered.

### WalletSync

One action is what a `veiled-wallet` command does between two calls of the node or
of the file system.  The wallet library keeps nothing between commands, so a
process is a record: its command, the step it is at, the file as it read it last,
the key of the wallet it recreated, and for a payment the outputs in sight.

| Command | Steps |
|---|---|
| `create-wallet` | `LoadCreate`, then `Truncate`, `Write` if there is no wallet |
| `get-address` | `Load`, `Truncate`, `Write` |
| `get-balance`, `get-history` | `Load`, `SyncBlocks`, `Reload`, `Truncate`, `Write` |
| `get-balance-fast` | `Load`, `Reload`, `Truncate`, `Write` |
| `send` | `Load`, `SyncBlocks`, `SyncMempool`, `Reload`, `Truncate`, `Write`; if nothing is in sight the same again from genesis; `Refuse`, `Broadcast` or `Conflict`; `Verify` |
| the reset route | `Load`, `Truncate`, `Write` |
| the pool | `BeginSend` (each attempt), `TimeOut` |
| others | `Die`, `Deposit`, `Mine` |

`Truncate` and `Write` are the two halves of `fs::write`.  `coins` is every output
of the wallet's keys, `tip` the height of the chain.  History: `told` (addresses
that were given out), `pay` (how often a payment was made and how often its outcome
was lost), `calm` (no save so far overwrote what another writer had changed since
the file was read).  Left out: mining fees, coinbase maturity, reorganisations, the
balance that the file caches, `get-tx` and `ping`, which write nothing.

### CrsEncoding and MembershipProof

`CrsEncoding` is `Crs::setup`, `to_bytes` and `from_bytes` over cells: a point is a
cell, a length two of them, so that truncation and the u16 of an origin are there
with small numbers.  What the two functions promise holds for names and origins that
fit (`Fits`): `to_bytes` writes the length of a longer origin modulo 2^16 and all of
its bytes, and `from_bytes`, which does not look at what follows the last merchant,
may then read something else, or read the same of less.

`MembershipProof` is `prove_payment_identity_registration` and its verifier.  A
point is the function from generators to its coefficients, and two points are equal
when their coefficients are: nobody knows a relation between generators.  The
coefficients are integers, so what holds for them holds modulo the order of the
group; what fails for them could hold there with negligible probability, and for
check 3 not even that: for a prover that follows the code it fails by a multiple of a
power of the challenge, which is no multiple of a prime.  The
challenge is a value that is drawn anew for each different transcript, derived
secrets are constants.  The module runs the code on both sides (`FirstMessage`,
`Responses`; `BitsHold`, `IdentityHolds`, `NullifierHolds`, with the length checks
of the deserializer), and varies what the application can get wrong: the CRS was
built in another order than at enrolment, the index or the set is not that of the
credential, the proof arrives in part, the set id or the pseudonym is another one.
The prover always follows the code: `ProofsOpen` says when such a proof is accepted,
not that somebody who does not follow it cannot make one.  Of `request.rs` only the
pseudonym is there.

### PaymentIdentity

One action of a route is what it does between two awaits; `task[t]` holds what it
waits for and what it captured before.  `app` is the global state object of
`ui/lib/state.ts`.  `merchants`, `members`, `anchored` and `published` are the
variables of `RegistryLedger`, whose actions the routes and the library take;
`FinalizeSet` takes its `Anchor` and `Publish` at once, as `finalize_set` holds the
registry from one to the other, and the reset takes `Withdraw` and `StartAfresh`
apart.

| Route | Actions |
|---|---|
| `setup/init` | `CallInit`, `ListMerchants`, `StoreCrs` |
| `merchant/create` | `CreateMerchant`, `AdmitMerchant`, `AddMerchantProcess` |
| `beneficiary/credential` | `CallCredential`, `AddBeneficiary` |
| `beneficiary/register` | `CallRegister`, `Enrol`, `UpdateBeneficiary`, `FetchSet`, `StoreSet` |
| `beneficiary/finalize` | `CallFinalize`, `Finalize`, `SetSetIdBytes`, `FetchSet`, `StoreSet` |
| `beneficiary/payment-id` | `CallPaymentId`, `HandOutToken` |
| `beneficiary/payment` | `CallPayment`, `HandOutRequest` |
| `merchant/receive-registration` | `CallReceive`, `AddMerchantIdentity` |
| `reset` | `CallReset`, `Withdraw`, `StartAfresh`, `ResetState` |
| any | `Fails`, at any await |

The library makes its calls in sequence and keeps no state that two calls share, so
each function is one action: `RegisterMerchant`, `NewClient`, `RegisterBeneficiary`,
`FinalizeByClient`, `AttachSet`, `AttachToSet`, `Receive`
(`Merchant::receive_payment_registration`) and `VerifyAndRegister`
(`VerifierState::verify_and_register`).  The two acceptors differ and the module
keeps the difference: `Merchant` looks for the pseudonym and takes the service from
the proof, `VerifierState` looks for the nullifier and insists on its own id.

`calm` is history: FALSE once two routes that the application would have to keep
apart have overlapped (two credentials of one name, two initializations, anything
with a reset), or a reset failed to reach the registry.  The properties that need
it say what holds for an application that is used one page at a time, though routes
of different kinds still overlap; without it TLC shows what overlapping routes do.

Two more conditions are in the properties because without them the code breaks them.
`PhaseMatches` is about an application that has the registry to itself (`Alone`): a
beneficiary of the library may fill a set, and the finalize route, which asks the
registry only, then raises the phase of an application that has no CRS yet.
`LocalCrsMatches` and `PaymentsMeet` are about the time until the first reset, which
empties the registry and leaves the programs that hold a `MerchantState` with the ids
they were given before it.

## 3. What the runs check

| Run | Question | Bounds |
|---|---|---|
| `registry_members` | who is in a set: `MembersUnique`, `EveryMemberPaid`, `ActiveSetsAnchored`, `TypeOK` | 3 calls at once, 2 commitments, 3 payments (too small, exact, large), capacity 2, 2 broadcasts, 1 restart, clients leave |
| `registry_merchants` | what clients were told and what resets leave: `AnswersHonoured`, `SealedSetsNested`, `RepeatedMerchantsSpanReset`, `PoolAndListAgree`, `BroadcastAccounted`, `ImplementsLedger` | 2 calls, 2 merchants, 1 commitment, 2 broadcasts, 1 reset, 1 restart, clients leave |
| `registry_liveness` | `CallsEnd`, `SubscribersServed` | 2 calls, every operation, 1 reset, clients stay |
| `pool_order` | `AnsweredInOrder`, `AlignedWhileCalm`, `WaitingTracked`, `TimersFollowEntries`, `QueueBehindPending`, `TypeOK` | 3 calls with a retry each, 3 processes |
| `pool_settles` | `CallsSettle` | 2 calls with a retry each, 4 processes (all they can need) |
| `wallet_sync` | what callers are told of money and addresses: `PaidAsTold`, `RescanBeforeRefusal`, `KeysKept`, `AddressesFresh`, `TypeOK` | 2 wallet processes and the reset route, 2 at work at once, 2 mnemonics, 1 payment with 2 attempts, 2 outputs, 2 blocks, 2 addresses |
| `proof` | `ProofsOpen`, `ProofsBound`, `CrsRoundTrip`, `PrefixesRefused` | sets of 4 (M = 2), 4 lists of two or three merchants as CRS now and at enrolment, 6 layouts of the set, every index and service and one beyond, 2 choices of coins, 4 challenges, 2 set ids |
| `identity` | `AcceptedAreMembers`, `ReadyToProve`, `EnrolledKept`, `PhaseMatches`, `LocalCrsMatches`, `OncePerNullifier`, `PaymentsMeet`, `TypeOK` | 2 routes at a time, 2 merchants, 2 beneficiaries, 1 client of the library, 2 credentials, 2 finalizations, 1 reset, sets of 2 |
| `registry_restart` | finds `Reconstructable` violated | 1 finalization |
| `registry_sealed` | finds `NoAdditionsOnceFinalized` violated | 1 finalization, 2 commitments |
| `pool_answers` | finds `OwnAnswer` violated | 2 calls |
| `identity_positions` | finds `RegisteredCanPay` violated | 2 merchants, 1 finalization |

Why the bounds are enough.  Each register handler reads what at most one other
call can change between two of its sections; three calls put a third one in that
gap, two of them can race for a name or a last place, and two broadcasts of one
registry are what the comparison of finalized sets needs.  A call slot takes a
new request when the old one has returned, so behaviours are not limited to two
or three requests: calls go on, only new broadcasts, resets and restarts end with their
bounds, and additions when names and commitments are used up.  One reset and one restart in
addition reach a store, a registry and a wallet of different ages.  In the pool,
three calls make one pending and two queued entries, so that the order of the
queue matters; one retry for each call is the code's default, and the queue, the
timers and the retries then involve processes that are alive, dying and gone at
once.

In the wallet, two processes and the reset route give every overlap of two writers,
a third writer would only repeat what the second does to the first; two blocks put
an output below, at and above a checkpoint.  The constraint `MoneyOrAddresses` lets
either money move or addresses and mnemonics multiply in one behaviour, since no
step reads both; `OneAtTheTop` has one process at work at a time once the chain is
as long as it gets, by when each overlap has happened below.  Sets of four have indices of two bits, so that the order of the
bits matters, and the degree of the polynomial is larger than one; three merchants
are the first number for which leaving one generator out leaves two to be ordered.
Four challenges are more than the degree M of the polynomials in check 3, so that
no two different ones agree on all of them.  A run of
`proof` is three steps long and ends, therefore CHECK_DEADLOCK FALSE; so does
`identity`, whose bounds on credentials, finalizations and resets leave nothing to
do in the end.  In `identity` two routes are at work at a time: each reads what
another one writes at one await, and what it captured is stale after one other
route has run through; since a task takes a new route when the old one ended, a
whole sequence of routes fits into one await.  `OneSide`, `OneTurn` and `OnePayment`
bound the mixture: a behaviour uses the application or the library; in the
application it has two merchants, two finalizations or a reset, not all together
(the library has both merchants and finalizations); and payments are requested
without a reset or a second merchant.

Symmetry is used for safety only, and only over sets whose members no definition
tells apart; the liveness runs have none.

### Fairness

`registry_liveness` assumes strong fairness of the steps of each call
(`SF_vars(Serve(c))`).  Tokio polls each task that is ready, and its mutex is
fair: waiters get it in the order in which they asked.  A task whose lock is free
again and again therefore gets it, which is what strong fairness says; weak
fairness would let a polling subscriber starve a handler, which the mutex does
not.  Nothing is assumed of clients, of restarts or of the node's good will: the
node's answers are nondeterministic, but it does answer or fail.

`pool_settles` assumes that expired timers run and that a call that has slept its
100 ms goes on (weak fairness of `Timeout` and `Retry`).  Nothing is assumed of
the processes: they may be silent for ever, and calls still settle.

### What documents and comments say otherwise

Four runs show a disagreement between the code and what the repository says of
it; `PROJECT.json` quotes the lines.

* `Reconstructable`: nothing ever inserts a row for a set, and `main` loads
  nothing, while `src/registry/db.rs` and `docs/LAYOUT.md` say the registry is
  reconstructed from SQLite on restart.
* `NoAdditionsOnceFinalized`: `finalize_set` does not ask whether the set is
  full, publishes a clone and goes on admitting members to the registry it
  cloned, while `docs/PROTOCOL.md` says a finalized set is sealed with no further
  additions.  The clone itself stays as it is.
* `OwnAnswer`: after a time-out, a line of the new process settles a call that
  was sent to the old one.
* `RegisteredCanPay`: `setup/init` builds the CRS in the order in which
  `get_merchants` lists a `HashMap`, while the ids it is used with are positions in
  the registry's own list.  With two merchants an identity may be registered under
  the pseudonym for the other one's name, and the payment request is then not found.
  The library is not affected: `MerchantState::build_crs` sorts by id
  (`LocalCrsMatches`, `PaymentsMeet`).

Other differences are plain from the lines and have no run.  The comment at
`src/registry/store.rs:121` calls the commitment output the fees of this set; the
next line computes it from the capacity.  `docs/PROTOCOL.md` has the merchant check
that a nullifier is fresh; the application's `receive-payment-id` makes a new
`Merchant` for each registration (`src/bin/veiled_core.rs:347`), which knows of no
earlier one, and `PaymentIdentity` models it so: `OncePerNullifier` is about the
library only.  A send that sees some outputs, but not enough, is refused without a
rescan, even if older outputs below the checkpoint would do; `RescanBeforeRefusal`
therefore speaks of a wallet that sees none.  Two writers of one wallet file that
overlap may undo each other's index, checkpoint or mnemonic; `KeysKept` and
`AddressesFresh` hold while they do not.

## 4. What is proved

TLAPS proves, for every value of the constants: every number of calls, names,
commitments, payments, processes, routes and clients, every capacity, fee and size
of a set, and every bound on broadcasts, resets, restarts, retries and blocks:

| Theorem | States |
|---|---|
| `TypeCorrect` | `Spec => []TypeOK` |
| `MembersDistinct` | `Spec => []MembersUnique` |
| `SetsAnchored` | `Spec => []ActiveSetsAnchored` |
| `MembersPaid` | `Spec => []EveryMemberPaid` |
| `BroadcastsFiled` | `Spec => []BroadcastAccounted` |
| `LedgerImplemented` | `Spec => ImplementsLedger` |
| `SetsNested` | `Spec => []SealedSetsNested` |
| `IndicesHonoured` | `Spec => []AnswersHonoured` |
| `RepeatsSpanReset` | `Spec => []RepeatedMerchantsSpanReset` |
| `PoolsAgree` | `Spec => []PoolAndListAgree` |
| `CallsTracked` | `Spec => []WaitingTracked` |
| `QueueServed` | `Spec => []QueueBehindPending` |
| `ResponsesFindCalls` | `Spec => []AnsweredInOrder` |
| `LinesInOrder` | `Spec => []AlignedWhileCalm` |
| `TimersInOrder` | `Spec => []TimersFollowEntries` |
| `PoolTypeCorrect` | `Spec => []TypeOK` |
| `CrsReadBack` | `Spec => []CrsRoundTrip` |
| `CutRefused` | `Spec => []PrefixesRefused` |
| `ProofsStayBound` | `Spec => []ProofsBound` |
| `ProofsShow` | `Spec => []ProofsOpen` |
| `AcceptedBelong` | `Spec => []AcceptedAreMembers` |
| `HeldOnce` | `Spec => []OncePerNullifier` |
| `SecretsKept` | `Spec => []EnrolledKept` |
| `PhaseBehind` | `Spec => []PhaseMatches` |
| `MembersCanProve` | `Spec => []ReadyToProve` |
| `CrsAgrees` | `Spec => []LocalCrsMatches` |
| `PaymentsFound` | `Spec => []PaymentsMeet` |
| `PaymentsTypeCorrect` | `Spec => []TypeOK` |
| `AddressesOfTheFile` | `Spec => []KeysKept` |
| `NoAddressTwice` | `Spec => AddressesFresh` |
| `PaymentsAsTold` | `Spec => []PaidAsTold` |
| `NothingOverlooked` | `Spec => []RescanBeforeRefusal` |
| `WalletTypeCorrect` | `Spec => []TypeOK` |

They rest on named assumptions only.  `RegistryService`: the operations offered
are among the five the service has, `Free` is no call, payments, fees, the capacity
and the bounds are natural numbers, and `ClientsLeave` is a Boolean.  `ProcessPool`:
`None` is no call and no entry, the retries and the processes are counted.
`CrsEncoding` and `MembershipProof`: `Name::MAX_LEN` is below the square of the
values of a byte, as 255 is below 2^16; the merchants' names and origins are made of
bytes; a set's size is a power of two; a slot of a set holds a commitment of one of two
credentials or what is no point; secrets, blindings, hashed names and coins are
scalars, with a row of `rho` for each generator, also for names as they are read back
from a CRS; challenges are not 0, and neither is the blinding `r_b` of a prover, which
the code draws at random from the scalars.  `PaymentIdentity`: the capacity is at least 1
and at most the size of a set, `None` is no number and no list, no client of the
library has the name of a beneficiary of the application, the bounds are natural
numbers, and there are finitely many merchants and routes at work.  `WalletSync`: the
application is no wallet process, of which there are finitely many, the marks of an
absent and of a half-written file are no state of a wallet, amounts are not 0, and
the bounds are natural numbers.  TLC evaluates all of them.

### Induction

The library's induction theorems take a predicate as a parameter, which the provers
cannot instantiate.  `Induction` says the same of sets: `LeastNatural`, from the
well-foundedness of the order of the natural numbers, and `NatInduct`, that a set
with 0 and with the successor of each of its members has all of them.  The second is
used for lists (what holds for the first n elements holds for all) and to show that
the recursive functions exist by which the community modules define `SelectSeq`,
`FlattenSeq`, `FoldLeft` and sums: `KeptExists` in the pool, `FlattenExists` and
`ReadExists` for the CRS, `SumExists` for the wallet.  Without the existence of that
function nothing could be said of the operator's value.  `Iterated` gives the same for
the recursive functions of the models themselves, such as `Power` and `Polynomial`.
On sums it has what the proofs of membership compute with: a sum of zeros, of one term
(`SumSingle`), of multiples and of term-wise sums (`SumAdd`, `SumLinear`), of all terms
but the last and of terms moved up by one place (`SumLast`, `SumShift`), and that the
rows and the columns of a table have the same sum (`SumSwap`).

### The registry

The inductive invariant is `ServiceInv`, in `RegistryServiceProofs`:

    ServiceInv == TypeOK /\ SectionInv /\ LockInv /\ SealInv

`ActiveSetsAnchored` alone is not inductive: `RecordSet` files the pending set
under a transaction sent by an earlier action, and only the guards that
`finalize_set` keeps say that the pending set is still the one that was sent.
`SectionInv` ties each section to the request that is served there.  `LockInv`
says which sections hold which mutex: a call that is about to fund holds the
registry, one that is about to record holds both, and nobody else holds either.
`SealInv` says that the CRS is made of the present merchants as long as a
finalization is under way, and that between the broadcast and the insertion the
newest transaction commits to the pending set, carries its key and generation and
is not yet filed.  One lemma for each conjunct (`TypeStep`, `SectionStep`,
`LockStep`, `SealStep`) has a step for each action; `ServiceCorrect` combines
them.  `MembersDistinct` adds its own invariant, `AllSound`: no pending or filed
set repeats a commitment or exceeds the capacity.

`RegistryPromisesProofs` adds two invariants to `ServiceInv`.  `PaidInv`, for
`MembersPaid`, says that a call that waits to be admitted has paid already: the
fee is verified under the store's mutex and the member added later under the
registry's, and nothing but a restart, which ends the call and both sets, can
change the key in between.  `GenerationsPast`, for `BroadcastsFiled`, says that no
transaction is of a later generation of the store than the present one, so that
emptying the store leaves nothing to account for.

`LedgerImplemented`, in the same module, maps each action to a ledger action or to a stutter
under `ServiceInv`.  The interesting case is `RecordSet`, where `Publish` needs
that the newest anchored set is the pending one and that it is not published yet:
that is `SealInv`.

`RegistryListsProofs` adds what clients were told.  `SealedSetsNested` is inductive
together with `KeysPast`: no published set is of a later registry than the present
one, so a registry that a reset or a restart has made starts with no set to
continue.  `HonouredInv`, for `AnswersHonoured`, says of each answer that its
registry is not a later one, and that ids and indices are positions there; a new set
is a copy of the present registry, an old one a prefix of it.  `MerchantInv`, for
`RepeatedMerchantsSpanReset` and `PoolAndListAgree`, is about `register_merchant`
between its two mutexes: a handler there has a claim to the name it entered in the
pool, of the generation of the pool in which it did so, and neither an entry of the
list nor another claim has that name in that generation.  Both statements alone
would not do.  That each pool name is in the list, claimed or abandoned is not
inductive, since the second half of a reset would take away the entry that a name
of the new pool rests on; the entry or claim has to be of the present generation.

### The process pool

`TrackInv` says that a waiting call's entry is the pending one or queued, and that
nothing is queued behind nobody; its type part does not need the order of the queue.
`AlignInv` says that, while the pool is calm, what is in the output and the input of
the running process, in this order, is a prefix of the pending entry followed by
the queue, all of it if the process runs.  It is stronger than `AlignedWhileCalm` in
that last clause, without which a request written to a process that lags behind
would break the order.  Three lemmas on concatenation carry the proof: a daemon moves
a head to the end of the sequence before it, a line takes the first head, a call
appends to the end.

`TimersInv`, for `TimersFollowEntries`, says besides that each tracked entry waits for
its call with the try that the call is at, and that no two are for the same call.  The
code clears a timer by searching the list for it; since entries are told apart by call
and try, this removes one timer, and it is the first (`ClearFirst`), or all of them
(`ClearAll`, for an exit), or the one that has just fired.

### The bytes of a CRS

`AsWritten` says where in the bytes each merchant begins: `Flattened` gives the places
for any sequence of sequences, by induction on the pieces, and `MerchantCells` what is
in each cell of one merchant.  `MerchantRead` is about one round of the reader's loop,
on bytes that agree with a written merchant as far as they go: it finds the merchant
just when it is there in full, and then moves to its end and appends what was written.
`ReadBack` carries both along the list: as long as the reader has refused nothing it
is at the place where the next merchant begins, within its bytes, with the merchants
before it; and on the whole bytes it refuses nothing.  If it gets through, all the
bytes were there.  Both theorems follow, for any list of merchants.

### Proofs of membership

`OneChallenge`: the first of the verifier's equations gives `z_a = r_a + r_b x` for
the challenge `x`, and as `r_b` is not 0 no other challenge satisfies it.
`TranscriptBinds`: equal transcripts have equal set ids and pseudonyms.
`ProofsStayBound` combines them: a verifier that was given another set id or
pseudonym draws another challenge.

`ProofsShow` is completeness and its converse for a prover that follows the code: a
proof that arrives whole is accepted under every challenge if the commitment at the
index is the prover's under its CRS, and under none otherwise.  Its argument is that of
the protocol, for any number of bits, slots and merchants:

1. `FactorAdded` and `PolynomialValue`: the coefficients that the prover multiplies out
   bit by bit are those of a polynomial whose value at the challenge is the product of
   the `f_k` or `x - f_k` that the verifier computes, for each slot.
2. The coefficient of `x^M` is 1 for the slot at the index and 0 for all others (the
   second half of `PolynomialValue`), because an index is determined by its bits
   (`BitsDetermine`, from the lemmas on `ShiftedRight`).
3. `ActiveAt`, `ActiveOnce`, `ScalarsAt`: leaving the service out shifts generators and
   scalars alike, so each generator meets its own scalar; `WitnessAt`: the prover's
   commitment without the nullifier of the service is what its scalars say of them.
4. `CoefficientSums`: over all slots, the powers of x below the M-th come with the
   coefficients that the prover put into E, by exchanging the sums over slots and bits;
   what is left is the slot at the index times `x^M`.
5. `IdentityOpens`: check 3 therefore says, generator by generator, that `x^M` times
   what the slot at the index has is `x^M` times what the scalars say; as the challenge
   is not 0, the two commitments are equal.  `BitsAnswered` and `NullifierAnswered`:
   the other equations hold for any such prover.
6. `AcceptsOpens` puts them together for a proof of full length (`Received`).

The invariant is `HonestInv`: a proof that was sent is that of a prover whose index,
service, set and coins are in range (`Honest`), under the present CRS.  It needs that
`ProverRefuses` and `ProverPanics` leave out all others (`ProverHonest`), and that any
CRS that can be read has a merchant for each of its generators (`ReadMerchants`), even
one whose texts did not fit and which is read as another.

### Application and library

Three invariants.  `PublishedInv`: the set published under an id is the one anchored
under it.  `AppInv`: the set in the state object, the set a route is about to store,
the registration it is about to add and the identities of each merchant are made of
commitments of anchored sets; anchored sets never shrink, not in a reset either,
hence a route that was overtaken by one stores nothing else.  `ShopInv`: the same of
the merchants of the library, with no pseudonym twice in a list.  `LibraryKeepsApp`
and `RouteKeepsLibrary` keep the two sides apart.

`OwnersInv` says whose a credential is: the registry's members are credentials, each
once, and credentials are never lost and keep their owner and their CRS.  The other
three invariants rest on it.

`RoutesInv`, that `calm => Calm`, is for `EnrolledKept`, `PhaseMatches` and
`ReadyToProve`.  None of the three is inductive, since each speaks of the state object
and the routes write what they captured awaits ago.  `TaskCalm` says what each route
still relies on at each await (a beneficiary about to be stored has no credential yet
and its CRS is the stored one; a set about to be stored shows the members in their
places), `PairCalm` which two routes are never at work together, `AppCalm` what the
state object has, `MembersKept` the first property itself.  Lists only grow in
between, so what was a place stays one; a reset is the exception, which empties the
registry one await before the state object: between the two (not `Steady`) indices
and sets are those of the registry before it, and no member is of the application
(`Emptied`).

`PlacesInv`, for `LocalCrsMatches` and `PaymentsMeet`, says what is `Settled` while
nothing has been reset: no merchant is twice in the registry, the merchants of the
library have the places that they were told, and every CRS, be it of a published set,
of a credential or of a client's, lists the first merchants of the registry.
The step that needs thought is `MerchantState::build_crs`, which sorts the states it
was given by id: `SortedIsRegistered` shows that if this gives a CRS at all, whose
ids are positions, it is a prefix of the registry's list, because a strictly
increasing function from 1 .. n to itself is the identity (`StrictlyIncreasing`).

`TypesInv`, for `TypeOK`, needs more than the types: an index of the application's is
below the capacity since it was a place of the pending set, and the number of
credentials is bounded only together with those that the core has been asked for and
that are still under way (`Counted`).

### The wallet file

`CalmInv`: while no writer has overwritten another's change, at most one process is
between emptying the file and writing it, and its draft continues the file that it
emptied: the same mnemonic and no smaller index, so that all addresses that were told
are still of it.  `LocalInv` says what a process at each step has read.  A draft of
`get-address` has an index above all that were told, which is `AddressesFresh`.

`CoinInv`, for `RescanBeforeRefusal` and the type invariant, says that a process that
has read the chain from genesis sees every unspent output of its wallet in the part
that it read, and that what it sees are outputs there are.  Other processes may spend
and receive meanwhile, and blocks may come; `GrownKeeps` shows once for all of them
that nothing becomes unspent in the part that was read.

`PayInv`, for `PaidAsTold`, is an account of each payment: the transactions made plus
the attempts under way that nobody waits for any longer are at most the attempts
counted as lost, and one more if the payment was made with the caller waiting
(`Balance`).  A time-out turns the attempt that was waited for into one of the others
and counts it, a broadcast turns such an attempt into a transaction, a death ends it.
`StraysMove` says how their number changes when a process moves.

### What stays with TLC

`CallsEnd`, `SubscribersServed` and `CallsSettle`: liveness under fairness, which the
prover does not reach.  All other properties of the passing runs are theorems.

## 5. Plan

Written, in this order: `RegistryService` with its ledger (the part everything
else trusts), its proofs, `ProcessPool` (through which every action of the web
application passes), `WalletSync`, `CrsEncoding` and `MembershipProof`,
`PaymentIdentity` on the ledger, and the proofs about all of these.

Left, in this order:

1. Payment requests: their signature and the look-up by the merchant
   (`verify-payment`), as a continuation of `MembershipProof`.
2. The registry's Merkle tree with its padding, as a pure operator.

### Not modelled

* The group arithmetic and the hash functions: represented by what the equations
  and the transcript bind.
* `src/core/tx.rs`: nothing outside the file calls it but its tests.
* The signature of a payment request and `verify-payment`, which appends to a list
  that only pages read; name revelation, the comparison of one hash.
* The merchant binary that `ui/lib/merchant-spawn.ts` and `setup/seed-merchants`
  start is not in the repository; only pages read the status kept of it.
* Pages, components, scripts, containers and build files keep no state of the
  protocol.
* Fees in `PaymentIdentity`: `RegistryService` has them, and its ledger only
  admits who paid.

## 6. Running the checks

    tlc -workers 2 -config MCRegistryService_members.cfg MCRegistryService.tla
    tlc -workers 2 -config MCPaymentIdentity_identity.cfg MCPaymentIdentity.tla
    tlapm Induction.tla
    tlapm RegistryServiceProofs.tla
    tlapm RegistryPromisesProofs.tla
    tlapm RegistryListsProofs.tla
    tlapm ProcessPoolProofs.tla
    tlapm MembershipProofProofs.tla
    tlapm PaymentIdentityProofs.tla
    tlapm WalletSyncProofs.tla

Each `.cfg` names its bounds in a comment.  `PROJECT.json` lists the runs, for each
property a mutated definition that TLC finds to violate it, the source lines each
definition stands for, the hazards, the findings and the theorems.  Definitions
marked "Mutant" in the modules are those mutations and belong to no specification.
