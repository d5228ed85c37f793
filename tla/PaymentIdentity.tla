--------------------------- MODULE PaymentIdentity ---------------------------
(***************************************************************************)
(* Who gets a payment identity, end to end: the routes of the web          *)
(* application over its one state object (ui/lib/state.ts), the Rust       *)
(* client library with its two acceptors (client.rs, merchant.rs and       *)
(* verifier.rs), and between them the registry, which is RegistryLedger.   *)
(*                                                                         *)
(* A route is a task that runs from await to await; every other task may   *)
(* run in between.  The library calls no one between two gRPC calls, so    *)
(* each of its functions is one action.  Proofs are what MembershipProof   *)
(* finds of them: one opens under the CRS, set, set id and service it was  *)
(* made for, if the credential in the set is of that CRS.                  *)
(*                                                                         *)
(* Left out, as no decision reads them: the lists that the pages show, of  *)
(* payments among them, the fees, and the status of merchant processes.    *)
(***************************************************************************)
EXTENDS Integers, Sequences, FiniteSets, SequencesExt

CONSTANTS Merchant,       \* merchant names
          Ben,            \* beneficiaries of the application, by name
          Client,         \* beneficiaries that use the library
          Task,           \* requests that the application serves at a time
          None,
          Capacity,       \* BENEFICIARY_CAPACITY
          SetSize,        \* N: commitments in a set, with padding
          MinMerchants,   \* MIN_MERCHANTS
          MaxCredentials, MaxSeals, MaxResets, MaxTokens, MaxAccepted \* bounds

ASSUME NoneAssumption == None \notin Nat \union Seq(Merchant)
                          \union [commitments : Seq(Nat), finalized : BOOLEAN]
ASSUME OwnerAssumption == Ben \intersect Client = {}
ASSUME BoundAssumption == /\ MaxCredentials \in Nat /\ MaxSeals \in Nat
                          /\ IsFiniteSet(Merchant) /\ IsFiniteSet(Task)
ASSUME SizeAssumption == SetSize \in Nat /\ Capacity \in 1 .. SetSize /\ MinMerchants \in Nat \ {0}

VARIABLES
  merchants, members, anchored, published,  \* the registry
  credentials, \* beneficiary objects in the order of their creation, never lost
  app,         \* the state object
  task,        \* what each route waits for, and what it captured before
  tokens,      \* the registration tokens that the application has made
  shop,        \* MerchantState and VerifierState of merchants that use the library
  client,      \* Beneficiary of the library
  calm,        \* history: no two routes that exclude each other have overlapped,
               \* and every reset has reached the registry
  resets

registry == <<merchants, members, anchored, published>>
library == <<shop, client>>
vars == <<registry, credentials, app, task, tokens, library, calm, resets>>

Credential == 1 .. MaxCredentials
Fee == "fee"

Ledger == INSTANCE RegistryLedger WITH Name <- Merchant,
                                       Member <- [phi : Credential, out : {Fee}]
-----------------------------------------------------------------------------
Fresh == [phase |-> -1, crs |-> None, set |-> None, setId |-> None,
          ben |-> [b \in Ben |-> None], procs |-> [m \in Merchant |-> None]]
Idle == [at |-> "idle"]

Init ==
  /\ merchants = << >> /\ members = << >> /\ anchored = << >> /\ published = << >>
  /\ credentials = << >>
  /\ app = Fresh
  /\ task = [t \in Task |-> Idle]
  /\ tokens = {}
  /\ shop = [m \in Merchant |-> None]
  /\ client = [k \in Client |-> None]
  /\ calm = TRUE
  /\ resets = 0

At(t, place) == task[t].at = place
Go(t, next) == task' = [task EXCEPT ![t] = next]
End(t) == Go(t, Idle)
InFlight(places) == {t \in Task : task[t].at \in places}
Raised(phase) == IF phase > app.phase THEN phase ELSE app.phase
-----------------------------------------------------------------------------
\* Mutant: the pending registry is shown instead of the set with this id.
PendingSet(id) ==
  LET phis == [i \in DOMAIN members |-> members[i].phi]
  IN  IF phis = << >> THEN phis ELSE phis \o [i \in 1 .. SetSize - Len(phis) |-> Last(phis)]

\* Mutant: the set as it is, without padding.
UnpaddedSet(id) == [i \in DOMAIN published[id].members |-> published[id].members[i].phi]

\* Mutant: the newest member first.
NewestFirst(id) ==
  LET phis == [i \in DOMAIN published[id].members |-> published[id].members[i].phi]
  IN  Reverse(phis) \o [i \in 1 .. SetSize - Len(phis) |-> Last(phis)]

\* get_anonymity_set: the members in their order, the last one repeated.
AnonymitySet(id) ==
  LET phis == [i \in DOMAIN published[id].members |-> published[id].members[i].phi]
  IN  phis \o [i \in 1 .. SetSize - Len(phis) |-> Last(phis)]

\* get_merchants: the values of a HashMap, in any order.
Listings == {order \in [1 .. Len(merchants) -> ToSet(merchants)] : IsInjective(order)}

\* finalize_set, under the guard of the registry from its setup to its answer.
FinalizeSet ==
  /\ members # << >>
  /\ Len(anchored) < MaxSeals
  /\ anchored' = Append(anchored, members)
  /\ published' = [id \in DOMAIN published \union {Len(anchored')} |->
                     IF id \in DOMAIN published THEN published[id]
                                                ELSE [members |-> members, crs |-> merchants]]
  /\ UNCHANGED <<merchants, members>>

\* HKDF and g: a credential and a merchant's name give one pseudonym, and one
\* nullifier, which no other credential or name gives.
Pseudonym(c, name) == <<c, name>>

\* A proof by credential c at place index of a set, for a service of a CRS.
Proof(c, crs, set, setId, service, index) ==
  [cred |-> c, crs |-> crs, set |-> set, setId |-> setId, service |-> service, index |-> index]

\* create_payment_registration and the prover make one.
Provable(crs, service, index) == service \in DOMAIN crs /\ index < SetSize

\* verify_payment_identity_registration_proof.
Opens(p, crs, set, setId, service) ==
  /\ p.crs = crs /\ p.set = set /\ p.setId = setId /\ p.service = service
  /\ p.index + 1 \in DOMAIN set
  /\ set[p.index + 1] = p.cred
  /\ credentials[p.cred].crs = crs

\* What an acceptor keeps of it.
Identity(p) == [pseudonym |-> Pseudonym(p.cred, p.crs[p.service]), service |-> p.service,
                cred |-> p.cred]
-----------------------------------------------------------------------------
(* The routes.  Any await may end in an error, and the route with it.      *)

Fails(t) ==
  /\ task[t].at \notin {"idle", "reset", "withdrawn", "cleared"}
  /\ End(t)
  /\ UNCHANGED <<registry, credentials, app, tokens, library, calm, resets>>

\* setup/init, when there is no CRS yet and the fees have come.
Initialized == app.phase >= 0 /\ app.crs # None

CallInit(t) ==
  /\ At(t, "idle")
  /\ ~Initialized
  /\ Go(t, [at |-> "merchants"])
  /\ calm' = (calm /\ InFlight({"merchants", "crs", "reset", "withdrawn", "cleared"}) = {})
  /\ UNCHANGED <<registry, credentials, app, tokens, library, resets>>

\* The merchants have come; buildCrs is asked for a CRS of them.
ListMerchants(t) ==
  /\ At(t, "merchants")
  /\ IF Len(merchants) < MinMerchants
     THEN End(t)
     ELSE \E order \in Listings : Go(t, [at |-> "crs", crs |-> order])
  /\ UNCHANGED <<registry, credentials, app, tokens, library, calm, resets>>

StoreCrs(t) ==
  /\ At(t, "crs")
  /\ app' = [app EXCEPT !.crs = task[t].crs,
                        !.set = [commitments |-> << >>, finalized |-> FALSE],
                        !.phase = Raised(0)]
  /\ End(t)
  /\ UNCHANGED <<registry, credentials, tokens, library, calm, resets>>

\* merchant/create, up to the call of RegisterMerchant, and then its answer.
CreateMerchant(t, m) ==
  /\ At(t, "idle")
  /\ app.procs[m] = None
  /\ Go(t, [at |-> "merchant", merchant |-> m])
  /\ calm' = (calm /\ InFlight({"reset", "withdrawn", "cleared"}) = {})
  /\ UNCHANGED <<registry, credentials, app, tokens, library, resets>>

AdmitMerchant(t) ==
  LET m == task[t].merchant
  IN  /\ At(t, "merchant")
      /\ m \notin ToSet(merchants)
      /\ Ledger!AdmitMerchant(m)
      /\ Go(t, [at |-> "admitted", merchant |-> m, id |-> Len(merchants) + 1])
      /\ UNCHANGED <<credentials, app, tokens, library, calm, resets>>

AddMerchantProcess(t) ==
  /\ At(t, "admitted")
  /\ app' = [app EXCEPT !.procs[task[t].merchant] = [id |-> task[t].id, identities |-> << >>]]
  /\ End(t)
  /\ UNCHANGED <<registry, credentials, tokens, library, calm, resets>>

\* Mutant: a beneficiary that has a credential may be given another.
NewBeneficiary(b) == app.crs # None

\* beneficiary/credential: what it checks before the core is asked.
NoCredentialYet(b) == app.crs # None /\ app.ben[b] = None

CallCredential(t, b) ==
  /\ At(t, "idle")
  /\ NoCredentialYet(b)
  /\ Len(credentials) + Cardinality(InFlight({"credential"})) < MaxCredentials
  /\ Go(t, [at |-> "credential", ben |-> b, crs |-> app.crs])
  /\ calm' = (calm /\ {u \in InFlight({"credential"}) : task[u].ben = b} = {}
                   /\ InFlight({"reset", "withdrawn", "cleared"}) = {})
  /\ UNCHANGED <<registry, credentials, app, tokens, library, resets>>

AddBeneficiary(t) ==
  LET b == task[t].ben
  IN  /\ At(t, "credential")
      /\ credentials' = Append(credentials, [owner |-> b, crs |-> task[t].crs,
                                             index |-> None, registered |-> FALSE])
      /\ app' = [app EXCEPT !.ben[b] = Len(credentials'), !.phase = Raised(1)]
      /\ End(t)
      /\ UNCHANGED <<registry, tokens, library, calm, resets>>

\* beneficiary/register: the object is captured, the fee is paid and mined,
\* and the captured commitment is registered.
CallRegister(t, b) ==
  LET c == app.ben[b]
  IN  /\ At(t, "idle")
      /\ c # None
      /\ ~credentials[c].registered
      /\ Go(t, [at |-> "register", ben |-> b, cred |-> c])
      /\ calm' = (calm /\ InFlight({"reset", "withdrawn", "cleared"}) = {})
      /\ UNCHANGED <<registry, credentials, app, tokens, library, resets>>

Enrol(t) ==
  /\ At(t, "register")
  /\ Ledger!Enrol([phi |-> task[t].cred, out |-> Fee])
  /\ Go(t, [at |-> "enrolled", ben |-> task[t].ben, index |-> Len(members)])
  /\ UNCHANGED <<credentials, app, tokens, library, calm, resets>>

\* The answer goes to the object that has the name now, whichever that is.  If a
\* set id is known, its set is fetched again.
UpdateBeneficiary(t) ==
  LET c == app.ben[task[t].ben]
  IN  /\ At(t, "enrolled")
      /\ credentials' = IF c = None THEN credentials
                        ELSE [credentials EXCEPT ![c].registered = TRUE,
                                                 ![c].index = task[t].index]
      /\ Go(t, IF app.setId = None THEN Idle ELSE [at |-> "fetch", id |-> app.setId])
      /\ UNCHANGED <<registry, app, tokens, library, calm, resets>>

\* beneficiary/finalize: FinalizeSet, then its answer, then the set itself.
CallFinalize(t) ==
  /\ At(t, "idle")
  /\ Go(t, [at |-> "finalize"])
  /\ calm' = (calm /\ InFlight({"reset", "withdrawn", "cleared"}) = {})
  /\ UNCHANGED <<registry, credentials, app, tokens, library, resets>>

Finalize(t) ==
  /\ At(t, "finalize")
  /\ FinalizeSet
  /\ Go(t, [at |-> "finalized", id |-> Len(anchored')])
  /\ UNCHANGED <<credentials, app, tokens, library, calm, resets>>

SetSetIdBytes(t) ==
  /\ At(t, "finalized")
  /\ app' = [app EXCEPT !.setId = task[t].id]
  /\ Go(t, [at |-> "fetch", id |-> task[t].id])
  /\ UNCHANGED <<registry, credentials, tokens, library, calm, resets>>

\* GetAnonymitySet, for both of these routes: the registry reads, the route stores.
FetchSet(t) ==
  /\ At(t, "fetch")
  /\ task[t].id \in DOMAIN published
  /\ Go(t, [at |-> "store", set |-> [commitments |-> AnonymitySet(task[t].id),
                                     finalized |-> TRUE]])
  /\ UNCHANGED <<registry, credentials, app, tokens, library, calm, resets>>

StoreSet(t) ==
  /\ At(t, "store")
  /\ app' = [app EXCEPT !.set = task[t].set, !.phase = Raised(2)]
  /\ End(t)
  /\ UNCHANGED <<registry, credentials, tokens, library, calm, resets>>

Finalized == app.set # None /\ app.set.finalized

\* state.set_id, which is not the id of the registry.
AppSetId == 1

\* beneficiary/payment-id: a token for the merchant with this id.
CallPaymentId(t, b, id) ==
  LET c == app.ben[b]
  IN  /\ At(t, "idle")
      /\ c # None
      /\ credentials[c].index # None
      /\ Finalized
      /\ app.crs # None
      /\ Provable(app.crs, id, credentials[c].index)
      /\ Cardinality(tokens) + Cardinality(InFlight({"token"})) < MaxTokens
      /\ Go(t, [at |-> "token", token |-> Proof(c, app.crs, app.set.commitments, AppSetId,
                                                id, credentials[c].index)])
      /\ calm' = (calm /\ InFlight({"reset", "withdrawn", "cleared"}) = {})
      /\ UNCHANGED <<registry, credentials, app, tokens, library, resets>>

HandOutToken(t) ==
  /\ At(t, "token")
  /\ tokens' = tokens \union {task[t].token}
  /\ app' = [app EXCEPT !.phase = Raised(3)]
  /\ End(t)
  /\ UNCHANGED <<registry, credentials, library, calm, resets>>

\* beneficiary/payment: a request needs a credential and the CRS, no set.  A second
\* one would leave everything as it is, and is left out.
CallPayment(t, b) ==
  /\ At(t, "idle")
  /\ app.ben[b] # None
  /\ app.crs # None
  /\ app.phase < 5
  /\ Go(t, [at |-> "payment"])
  /\ calm' = (calm /\ InFlight({"reset", "withdrawn", "cleared"}) = {})
  /\ UNCHANGED <<registry, credentials, app, tokens, library, resets>>

HandOutRequest(t) ==
  /\ At(t, "payment")
  /\ app' = [app EXCEPT !.phase = Raised(5)]
  /\ End(t)
  /\ UNCHANGED <<registry, credentials, tokens, library, calm, resets>>

\* merchant/receive-registration: the core takes the service from the token and
\* builds a merchant anew, which knows of no earlier registration.
CallReceive(t, m, p) ==
  /\ At(t, "idle")
  /\ app.crs # None
  /\ Finalized
  /\ app.procs[m] # None
  /\ Len(app.procs[m].identities) + Cardinality(InFlight({"accept"})) < MaxAccepted
  /\ Opens(p, app.crs, app.set.commitments, p.setId, p.service)
  /\ Go(t, [at |-> "accept", merchant |-> m, token |-> p])
  /\ calm' = (calm /\ InFlight({"reset", "withdrawn", "cleared"}) = {})
  /\ UNCHANGED <<registry, credentials, app, tokens, library, resets>>

AddMerchantIdentity(t) ==
  LET m == task[t].merchant
  IN  /\ At(t, "accept")
      /\ app' = IF app.procs[m] = None THEN app
                ELSE [app EXCEPT !.procs[m].identities = Append(@, Identity(task[t].token))]
      /\ End(t)
      /\ UNCHANGED <<registry, credentials, tokens, library, calm, resets>>

\* reset: the registry in its two sections, unless it cannot be reached, and then
\* the state.
CallReset(t) ==
  /\ At(t, "idle")
  /\ resets < MaxResets
  /\ resets' = resets + 1
  /\ Go(t, [at |-> "reset"])
  /\ calm' = (calm /\ \A u \in Task : At(u, "idle"))
  /\ UNCHANGED <<registry, credentials, app, tokens, library>>

Withdraw(t) ==
  /\ At(t, "reset")
  /\ Ledger!Withdraw
  /\ Go(t, [at |-> "withdrawn"])
  /\ UNCHANGED <<credentials, app, tokens, library, calm, resets>>

StartAfresh(t) ==
  /\ At(t, "withdrawn")
  /\ Ledger!StartAfresh
  /\ Go(t, [at |-> "cleared"])
  /\ UNCHANGED <<credentials, app, tokens, library, calm, resets>>

\* Mutant: the phase is not among what is reset.
FreshButPhase == [Fresh EXCEPT !.phase = app.phase]

\* resetState.
Cleared == Fresh

ResetState(t) ==
  /\ task[t].at \in {"reset", "withdrawn", "cleared"}
  /\ app' = Cleared
  /\ calm' = (calm /\ At(t, "cleared"))
  /\ End(t)
  /\ UNCHANGED <<registry, credentials, tokens, library, resets>>

Route(t) ==
  \/ Fails(t)
  \/ CallInit(t) \/ ListMerchants(t) \/ StoreCrs(t)
  \/ \E m \in Merchant : CreateMerchant(t, m)
  \/ AdmitMerchant(t) \/ AddMerchantProcess(t)
  \/ \E b \in Ben : CallCredential(t, b) \/ CallRegister(t, b)
  \/ AddBeneficiary(t) \/ Enrol(t) \/ UpdateBeneficiary(t)
  \/ CallFinalize(t) \/ Finalize(t) \/ SetSetIdBytes(t) \/ FetchSet(t) \/ StoreSet(t)
  \/ \E b \in Ben : \E id \in 1 .. Cardinality(Merchant) : CallPaymentId(t, b, id)
  \/ HandOutToken(t)
  \/ (\E b \in Ben : CallPayment(t, b)) \/ HandOutRequest(t)
  \/ \E m \in Merchant : \E p \in tokens : CallReceive(t, m, p)
  \/ AddMerchantIdentity(t)
  \/ CallReset(t) \/ Withdraw(t) \/ StartAfresh(t) \/ ResetState(t)
-----------------------------------------------------------------------------
(* The library.  A merchant's state goes with the verifier state that it    *)
(* may keep instead of the identities of Merchant.                         *)

\* Mutant: the merchants as they come.
InSliceOrder(set) == SetToSeqs(set)

\* MerchantState::build_crs sorts what it is given by merchant id.
SortedById(set) ==
  {s \in SetToSeqs(set) : \A i, j \in DOMAIN s : i < j => shop[s[i]].id <= shop[s[j]].id}

Shops == {m \in Merchant : shop[m] # None}

\* client::register_merchant.
RegisterMerchant(m) ==
  /\ m \notin ToSet(merchants)
  /\ Ledger!AdmitMerchant(m)
  /\ shop' = [shop EXCEPT ![m] = [id |-> Len(merchants) + 1, attached |-> None,
                                  cached |-> {}, held |-> << >>, verified |-> << >>]]
  /\ UNCHANGED <<credentials, app, task, tokens, client, calm, resets>>

\* Beneficiary::new under a CRS built of all merchants, whose states one program has.
NewClient(k) ==
  /\ client[k] = None
  /\ Shops # {}
  /\ Shops = ToSet(merchants)
  /\ Len(credentials) + Cardinality(InFlight({"credential"})) < MaxCredentials
  /\ \E crs \in SortedById(Shops) :
       credentials' = Append(credentials, [owner |-> k, crs |-> crs,
                                           index |-> None, registered |-> FALSE])
  /\ client' = [client EXCEPT ![k] = [cred |-> Len(credentials'), attached |-> None]]
  /\ UNCHANGED <<registry, app, task, tokens, shop, calm, resets>>

\* client::register_beneficiary.
RegisterBeneficiary(k) ==
  /\ client[k] # None
  /\ Ledger!Enrol([phi |-> client[k].cred, out |-> Fee])
  /\ UNCHANGED <<credentials, app, task, tokens, library, calm, resets>>

\* client::finalize_set.
FinalizeByClient ==
  /\ Shops # {}
  /\ FinalizeSet
  /\ UNCHANGED <<credentials, app, task, tokens, library, calm, resets>>

\* client::get_crs and client::wait_for_finalization.
Fetched(id) == [id |-> id, crs |-> published[id].crs, set |-> AnonymitySet(id)]

\* MerchantState::attach_set; VerifierState::cache_set is given the same set.
AttachSet(m, id) ==
  /\ shop[m] # None
  /\ shop' = [shop EXCEPT ![m].attached = Fetched(id),
                          ![m].cached = @ \union {Fetched(id)}]
  /\ UNCHANGED <<registry, credentials, app, task, tokens, client, calm, resets>>

\* Beneficiary::register: the index is the first place of the commitment.
AttachToSet(k, id) ==
  LET places == {i \in DOMAIN AnonymitySet(id) : AnonymitySet(id)[i] = client[k].cred}
  IN  /\ client[k] # None
      /\ places # {}
      /\ client' = [client EXCEPT ![k].attached = Fetched(id)]
      /\ credentials' = [credentials EXCEPT ![client[k].cred].index =
                           (CHOOSE i \in places : \A j \in places : i <= j) - 1]
      /\ UNCHANGED <<registry, app, task, tokens, shop, calm, resets>>

\* Beneficiary::create_payment_registration.
Registration(k, service) ==
  LET c == client[k].cred
  IN  Proof(c, client[k].attached.crs, client[k].attached.set, client[k].attached.id,
            service, credentials[c].index)

\* What a merchant may be shown: a proof for its own id or, by mistake, another's.
Shown(k, service) ==
  /\ client[k] # None
  /\ client[k].attached # None
  /\ Provable(client[k].attached.crs, service, credentials[client[k].cred].index)

\* Merchant::receive_payment_registration.
Receive(m, k, service) ==
  LET p == Registration(k, service)
      known == {shop[m].held[i].pseudonym : i \in DOMAIN shop[m].held}
  IN  /\ shop[m] # None
      /\ shop[m].attached # None
      /\ Shown(k, service)
      /\ Identity(p).pseudonym \notin known
      /\ Opens(p, shop[m].attached.crs, shop[m].attached.set, p.setId, p.service)
      /\ shop' = [shop EXCEPT ![m].held = Append(@, Identity(p))]
      /\ UNCHANGED <<registry, credentials, app, task, tokens, client, calm, resets>>

\* Mutant: the nullifiers of earlier registrations are not looked at.
UsedNever(m, pseudonym) == FALSE

\* VerifierState::check_freshness: a nullifier is as good as a pseudonym here.
Used(m, pseudonym) == \E i \in DOMAIN shop[m].verified :
                         shop[m].verified[i].pseudonym = pseudonym

\* Mutant: the service is the one that the proof names.
ServiceNamed(m, p) == p.service

\* VerifierState::user_index.
ServiceExpected(m, p) == shop[m].id

\* VerifierState::verify_and_register, under the CRS that is attached.
VerifyAndRegister(m, k, service) ==
  LET p == Registration(k, service)
  IN  /\ shop[m] # None
      /\ shop[m].attached # None
      /\ Shown(k, service)
      /\ \E f \in shop[m].cached :
           /\ f.id = p.setId
           /\ Opens(p, shop[m].attached.crs, f.set, p.setId, ServiceExpected(m, p))
      /\ ~Used(m, Identity(p).pseudonym)
      /\ shop' = [shop EXCEPT ![m].verified = Append(@, Identity(p))]
      /\ UNCHANGED <<registry, credentials, app, task, tokens, client, calm, resets>>

Library ==
  \/ \E m \in Merchant : RegisterMerchant(m)
  \/ \E k \in Client : NewClient(k) \/ RegisterBeneficiary(k)
  \/ FinalizeByClient
  \/ \E id \in DOMAIN published :
       \/ \E m \in Merchant : AttachSet(m, id)
       \/ \E k \in Client : AttachToSet(k, id)
  \/ \E m \in Merchant, k \in Client : \E service \in 1 .. Cardinality(Merchant) :
       Receive(m, k, service) \/ VerifyAndRegister(m, k, service)

Next == (\E t \in Task : Route(t)) \/ Library

Spec == Init /\ [][Next]_vars
-----------------------------------------------------------------------------
TokenType == [cred : Credential, crs : Seq(Merchant), set : Seq(Credential), setId : Nat,
              service : Nat, index : 0 .. Capacity - 1]

TaskType ==
  [at : {"idle", "merchants", "finalize", "payment", "reset", "withdrawn", "cleared"}]
    \union [at : {"crs"}, crs : Seq(Merchant)]
    \union [at : {"merchant"}, merchant : Merchant]
    \union [at : {"admitted"}, merchant : Merchant, id : 1 .. Cardinality(Merchant)]
    \union [at : {"credential"}, ben : Ben, crs : Seq(Merchant)]
    \union [at : {"register"}, ben : Ben, cred : Credential]
    \union [at : {"enrolled"}, ben : Ben, index : 0 .. Capacity - 1]
    \union [at : {"finalized", "fetch"}, id : 1 .. MaxSeals]
    \union [at : {"store"}, set : [commitments : Seq(Credential), finalized : BOOLEAN]]
    \union [at : {"token"}, token : TokenType]
    \union [at : {"accept"}, merchant : Merchant, token : TokenType]

\* Types, and the bounds that the code is to keep: no index beyond the capacity,
\* no set longer than a proof can be made for, no id that is not a position.
TypeOK ==
  /\ \A c \in DOMAIN credentials :
       /\ credentials[c].owner \in Ben \union Client
       /\ credentials[c].crs \in Seq(Merchant)
       /\ credentials[c].index \in {None} \union 0 .. SetSize - 1
       /\ credentials[c].registered \in BOOLEAN
  /\ app.phase \in -1 .. 5
  /\ app.crs = None \/ app.crs \in Seq(Merchant)
  /\ app.set # None => app.set.commitments \in Seq(DOMAIN credentials)
                       /\ Len(app.set.commitments) \in {0, SetSize}
  /\ app.setId \in {None} \union DOMAIN anchored
  /\ \A b \in Ben : app.ben[b] \in {None} \union DOMAIN credentials
  /\ \A m \in Merchant : app.procs[m] # None => app.procs[m].id \in 1 .. Cardinality(Merchant)
  /\ task \in [Task -> TaskType]
  /\ \A p \in tokens : p \in TokenType /\ p.cred \in DOMAIN credentials
  /\ resets = 0 => \A m \in Shops : shop[m].id \in DOMAIN merchants
  /\ \A k \in Client : client[k] # None => client[k].cred \in DOMAIN credentials

\* The identities that merchant m holds, in the application and by the library.
IdentitiesOf(m) ==
  (IF app.procs[m] = None THEN {} ELSE ToSet(app.procs[m].identities))
    \union (IF shop[m] = None THEN {} ELSE ToSet(shop[m].held) \union ToSet(shop[m].verified))

\* Whoever a merchant accepts is a member of a set that is anchored on chain: not
\* of the pending one, nor of one that a route kept while it was reset.
AcceptedAreMembers ==
  \A m \in Merchant : \A i \in IdentitiesOf(m) :
    \E id \in DOMAIN anchored : \E j \in DOMAIN anchored[id] : anchored[id][j].phi = i.cred

\* A beneficiary that is registered, and in the set in use, can prove it to every
\* merchant: its index is its place in that set, and its credential was made under
\* the CRS in use, whatever was registered, finalized or fetched in between.
ReadyToProve ==
  calm /\ Finalized =>
    \A b \in Ben :
      LET c == app.ben[b]
      IN  c # None /\ credentials[c].registered /\ c \in ToSet(app.set.commitments) =>
            Opens(Proof(c, app.crs, app.set.commitments, AppSetId, 1, credentials[c].index),
                  app.crs, app.set.commitments, AppSetId, 1)

\* A commitment that the registry has admitted, for a fee, is the one that its
\* beneficiary still has the secrets of.
EnrolledKept ==
  calm => \A i \in DOMAIN members :
            LET c == members[i].phi
            IN  credentials[c].owner \in Ben => app.ben[credentials[c].owner] = c

\* Every credential there is belongs to a beneficiary of the application.
Alone == \A c \in DOMAIN credentials : credentials[c].owner \in Ben

\* While the application has the registry to itself, its phase does not run ahead of
\* the state: a credential or a payment needs the CRS, and the phases 2 and 3 a
\* finalized set.
PhaseMatches ==
  calm /\ Alone => (app.phase >= 1 => app.crs # None) /\ (app.phase \in {2, 3} => Finalized)

\* A CRS that the library built before the finalization lists the merchants as the
\* CRS of the set does, which may have more of them at the end.  A reset takes the
\* merchants from the registry, not from the programs that have their states.
LocalCrsMatches ==
  resets = 0 => \A k \in Client : \A id \in DOMAIN published :
    client[k] # None /\ client[k].cred \in ToSet(AnonymitySet(id)) =>
      IsPrefix(credentials[client[k].cred].crs, published[id].crs)

\* No merchant of the library holds two identities of one nullifier, whatever
\* sets it was given and however often a registration comes.
OncePerNullifier ==
  \A m \in Shops :
    \A list \in {shop[m].held, shop[m].verified} :
      \A i, j \in DOMAIN list : list[i].pseudonym = list[j].pseudonym => i = j

\* A payment request is looked up by the pseudonym of the merchant's name.  What
\* VerifierState has registered is found; what Merchant has, if the registration
\* was made for this merchant's id.
PaymentsMeet ==
  resets = 0 => \A m \in Shops :
    /\ \A i \in ToSet(shop[m].verified) : i.pseudonym = Pseudonym(i.cred, m)
    /\ \A i \in ToSet(shop[m].held) :
         i.service = shop[m].id => i.pseudonym = Pseudonym(i.cred, m)

\* The same of the application: "1-indexed position in the CRS" is what merchant.rs
\* calls the id that the registry gave.
RegisteredCanPay ==
  \A m \in Merchant : app.procs[m] # None =>
    \A i \in ToSet(app.procs[m].identities) :
      i.service = app.procs[m].id => i.pseudonym = Pseudonym(i.cred, m)
=============================================================================
