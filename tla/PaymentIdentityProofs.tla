------------------------ MODULE PaymentIdentityProofs ------------------------
(***************************************************************************)
(* Proofs about PaymentIdentity, for every number of merchants, names,     *)
(* clients and tasks, all sizes, and any bounds.                           *)
(***************************************************************************)
EXTENDS PaymentIdentity, TLAPS, SequenceTheorems, Induction

\* A sequence, of whatever it holds.
IsSeq(s) == s \in Seq(Range(s))

\* The commitments in anchored sets.
AnchoredPhi == {anchored[e[1]][e[2]].phi :
                  e \in {f \in (DOMAIN anchored) \X Nat : f[2] \in DOMAIN anchored[f[1]]}}

\* A set that holds commitments of A only.
Within(A, set) == \A i \in DOMAIN set : set[i] \in A

\* What is published was anchored, under the same number.
PublishedInv ==
  /\ IsSeq(members)
  /\ IsSeq(anchored)
  /\ \A id \in DOMAIN anchored : IsSeq(anchored[id]) /\ anchored[id] # << >>
  /\ DOMAIN published \subseteq DOMAIN anchored
  /\ \A id \in DOMAIN published : published[id].members = anchored[id]

\* The state object holds an anchored set, and members of anchored sets.
AppFields == {"phase", "crs", "set", "setId", "ben", "procs"}

SoundProc(A, p) ==
  p # None =>
    /\ p = [id |-> p.id, identities |-> p.identities]
    /\ IsSeq(p.identities)
    /\ \A i \in DOMAIN p.identities : p.identities[i].cred \in A

SoundApp(A, a) ==
  /\ a = [field \in AppFields |-> a[field]]
  /\ a.procs = [m \in Merchant |-> a.procs[m]]
  /\ a.set # None => Within(A, a.set.commitments)
  /\ \A m \in Merchant : SoundProc(A, a.procs[m])

\* So do the routes that are about to store one.
SoundTask(A, x) ==
  /\ x.at = "store" => Within(A, x.set.commitments)
  /\ x.at = "accept" => x.token.cred \in A

AppInv ==
  /\ SoundApp(AnchoredPhi, app)
  /\ task = [t \in Task |-> task[t]]
  /\ \A t \in Task : SoundTask(AnchoredPhi, task[t])

\* A list of identities of members, none of them twice.
SoundList(A, list) ==
  /\ IsSeq(list)
  /\ \A i \in DOMAIN list : list[i].cred \in A
  /\ \A i, j \in DOMAIN list : list[i].pseudonym = list[j].pseudonym => i = j

SoundShop(A, s) ==
  s # None =>
    /\ s = [id |-> s.id, attached |-> s.attached, cached |-> s.cached, held |-> s.held,
            verified |-> s.verified]
    /\ s.attached # None => Within(A, s.attached.set)
    /\ \A f \in s.cached : Within(A, f.set)
    /\ SoundList(A, s.held)
    /\ SoundList(A, s.verified)

\* So do the merchants that use the library.
ShopInv ==
  /\ shop = [m \in Merchant |-> shop[m]]
  /\ \A m \in Merchant : SoundShop(AnchoredPhi, shop[m])
-----------------------------------------------------------------------------
LEMMA AppendIsSeq ==
  ASSUME NEW s, IsSeq(s), NEW e
  PROVE  /\ IsSeq(Append(s, e))
         /\ Len(s) \in Nat
         /\ DOMAIN s = 1 .. Len(s)
         /\ DOMAIN Append(s, e) = 1 .. Len(s) + 1
         /\ Len(Append(s, e)) = Len(s) + 1
         /\ Append(s, e) # << >>
         /\ \A i \in DOMAIN s : Append(s, e)[i] = s[i]
         /\ Append(s, e)[Len(s) + 1] = e
<1> DEFINE S == Range(s) \union {e}
<1>1. s \in Seq(S)
  BY SeqMonotonic DEF IsSeq
<1> HIDE DEF S
<1>2. e \in S
  BY DEF S
<1>3. /\ Append(s, e) \in Seq(S)
      /\ Append(s, e) # << >>
      /\ Len(Append(s, e)) = Len(s) + 1
      /\ \A i \in 1 .. Len(s) : Append(s, e)[i] = s[i]
      /\ Append(s, e)[Len(s) + 1] = e
  BY <1>1, <1>2, AppendProperties
<1>4. IsSeq(Append(s, e))
  BY <1>3, SeqOfRange DEF IsSeq
<1> QED
  BY <1>1, <1>3, <1>4, LenProperties

LEMMA EmptyIsSeq == IsSeq(<< >>)
  BY DEF IsSeq

\* FinalizeSet anchors the pending set and publishes what it anchored.
LEMMA FinalizePublished ==
  ASSUME PublishedInv, FinalizeSet
  PROVE  PublishedInv' /\ AnchoredPhi \subseteq AnchoredPhi'
<1>1. /\ members' = members /\ members # << >>
      /\ anchored' = Append(anchored, members)
      /\ published' = [id \in DOMAIN published \union {Len(anchored')} |->
                         IF id \in DOMAIN published THEN published[id]
                                                    ELSE [members |-> members, crs |-> merchants]]
  BY DEF FinalizeSet
<1>2. /\ IsSeq(anchored')
      /\ Len(anchored) \in Nat /\ Len(anchored') = Len(anchored) + 1
      /\ DOMAIN anchored = 1 .. Len(anchored) /\ DOMAIN anchored' = 1 .. Len(anchored) + 1
      /\ \A i \in DOMAIN anchored : anchored'[i] = anchored[i]
      /\ anchored'[Len(anchored) + 1] = members
  BY <1>1, AppendIsSeq DEF PublishedInv
<1>3. Len(anchored') \notin DOMAIN published
  BY <1>2 DEF PublishedInv
<1>4. \A id \in DOMAIN anchored' : IsSeq(anchored'[id]) /\ anchored'[id] # << >>
  BY <1>1, <1>2 DEF PublishedInv
<1>5. DOMAIN published' \subseteq DOMAIN anchored'
  BY <1>1, <1>2 DEF PublishedInv
<1>6. ASSUME NEW id \in DOMAIN published' PROVE published'[id].members = anchored'[id]
  <2>1. CASE id \in DOMAIN published
    BY <1>1, <1>2, <2>1 DEF PublishedInv
  <2>2. CASE id \notin DOMAIN published
    BY <1>1, <1>2, <2>2
  <2> QED
    BY <2>1, <2>2
<1>7. AnchoredPhi \subseteq AnchoredPhi'
  BY <1>2 DEF AnchoredPhi
<1> QED
  BY <1>1, <1>2, <1>4, <1>5, <1>6, <1>7 DEF PublishedInv

\* A set that the registry hands out has anchored members only, its padding included.
LEMMA HandedOutAnchored ==
  ASSUME PublishedInv, NEW id \in DOMAIN published
  PROVE  Within(AnchoredPhi, AnonymitySet(id))
<1> DEFINE ms == published[id].members
           phis == [i \in DOMAIN ms |-> ms[i].phi]
           pad == [i \in 1 .. SetSize - Len(phis) |-> Last(phis)]
<1>1. ms = anchored[id] /\ id \in DOMAIN anchored /\ IsSeq(ms) /\ ms # << >>
  BY DEF PublishedInv
<1>2. Len(ms) \in Nat \ {0} /\ DOMAIN ms = 1 .. Len(ms)
  BY <1>1, EmptySeq, LenProperties DEF IsSeq
<1>3. \A i \in 1 .. Len(ms) : ms[i].phi \in AnchoredPhi
  <2> SUFFICES ASSUME NEW i \in 1 .. Len(ms) PROVE ms[i].phi \in AnchoredPhi
    OBVIOUS
  <2>1. <<id, i>> \in {f \in (DOMAIN anchored) \X Nat : f[2] \in DOMAIN anchored[f[1]]}
    BY <1>1, <1>2
  <2> QED
    BY <1>1, <2>1 DEF AnchoredPhi
<1> HIDE DEF ms
<1>4. phis \in Seq(AnchoredPhi) /\ Len(phis) = Len(ms)
  BY <1>2, <1>3
<1>5. Last(phis) \in AnchoredPhi
  BY <1>2, <1>3, <1>4 DEF Last
<1>6. pad \in Seq(AnchoredPhi)
  <2>1. SetSize - Len(phis) \in Int
    BY <1>2, <1>4, SizeAssumption
  <2>2. CASE SetSize - Len(phis) \in Nat
    BY <1>5, <2>2, IsASeq
  <2>3. CASE SetSize - Len(phis) < 0
    BY <2>1, <2>3
  <2> QED
    BY <2>1, <2>2, <2>3
<1>7. phis \o pad \in Seq(AnchoredPhi)
  BY <1>4, <1>6, ConcatProperties
<1>8. AnonymitySet(id) = phis \o pad
  BY DEF AnonymitySet, ms
<1>9. \A s \in Seq(AnchoredPhi) : Within(AnchoredPhi, s)
  BY LenProperties DEF Within
<1> QED
  BY <1>7, <1>8, <1>9

\* A proof that opens is of a member of the set it opens for.
LEMMA OpensForMember ==
  ASSUME NEW p, NEW crs, NEW set, NEW setId, NEW service,
         Opens(p, crs, set, setId, service), Within(AnchoredPhi, set)
  PROVE  p.cred \in AnchoredPhi
  BY DEF Opens, Within

\* Every step keeps what is anchored and what is published.
LEMMA PublishedStep ==
  PublishedInv /\ [Next]_vars => PublishedInv' /\ AnchoredPhi \subseteq AnchoredPhi'
<1> SUFFICES ASSUME PublishedInv, [Next]_vars
             PROVE  PublishedInv' /\ AnchoredPhi \subseteq AnchoredPhi'
  OBVIOUS
<1>1. CASE UNCHANGED <<members, anchored, published>>
  BY <1>1 DEF PublishedInv, AnchoredPhi
<1>2. CASE FinalizeSet
  BY <1>2, FinalizePublished
<1>3. ASSUME NEW m, Ledger!Enrol(m) PROVE PublishedInv' /\ AnchoredPhi \subseteq AnchoredPhi'
  BY <1>3, AppendIsSeq DEF Ledger!Enrol, PublishedInv, AnchoredPhi
<1>4. CASE Ledger!Withdraw
  BY <1>4 DEF Ledger!Withdraw, PublishedInv, AnchoredPhi
<1>5. CASE Ledger!StartAfresh
  BY <1>5, EmptyIsSeq DEF Ledger!StartAfresh, PublishedInv, AnchoredPhi
<1>6. ASSUME NEW t \in Task, Route(t) PROVE PublishedInv' /\ AnchoredPhi \subseteq AnchoredPhi'
  <2>1. CASE Fails(t) \/ CallInit(t) \/ ListMerchants(t) \/ StoreCrs(t)
             \/ AddMerchantProcess(t) \/ AddBeneficiary(t) \/ UpdateBeneficiary(t)
             \/ CallFinalize(t) \/ SetSetIdBytes(t) \/ FetchSet(t) \/ StoreSet(t)
             \/ HandOutToken(t) \/ HandOutRequest(t) \/ AddMerchantIdentity(t)
             \/ CallReset(t) \/ ResetState(t)
    BY <1>1, <2>1 DEF registry, Fails, CallInit, ListMerchants, StoreCrs, AddMerchantProcess,
         AddBeneficiary, UpdateBeneficiary, CallFinalize, SetSetIdBytes, FetchSet, StoreSet,
         HandOutToken, HandOutRequest, AddMerchantIdentity, CallReset, ResetState
  <2>2. CASE \/ \E m \in Merchant : CreateMerchant(t, m)
             \/ \E b \in Ben : CallCredential(t, b) \/ CallRegister(t, b) \/ CallPayment(t, b)
             \/ \E b \in Ben : \E id \in 1 .. Cardinality(Merchant) : CallPaymentId(t, b, id)
             \/ \E m \in Merchant : \E p \in tokens : CallReceive(t, m, p)
    BY <1>1, <2>2 DEF registry, CreateMerchant, CallCredential, CallRegister, CallPayment,
         CallPaymentId, CallReceive
  <2>3. CASE AdmitMerchant(t)
    BY <1>1, <2>3 DEF AdmitMerchant, Ledger!AdmitMerchant
  <2>4. CASE Enrol(t)
    BY <1>3, <2>4 DEF Enrol
  <2>5. CASE Finalize(t)
    BY <1>2, <2>5 DEF Finalize
  <2>6. CASE Withdraw(t)
    BY <1>4, <2>6 DEF Withdraw
  <2>7. CASE StartAfresh(t)
    BY <1>5, <2>7 DEF StartAfresh
  <2> QED
    BY <1>6, <2>1, <2>2, <2>3, <2>4, <2>5, <2>6, <2>7 DEF Route
<1>7. CASE Library
  <2>1. CASE \E m \in Merchant : RegisterMerchant(m)
    BY <1>1, <2>1 DEF RegisterMerchant, Ledger!AdmitMerchant
  <2>2. CASE \E k \in Client : RegisterBeneficiary(k)
    BY <1>3, <2>2 DEF RegisterBeneficiary
  <2>3. CASE FinalizeByClient
    BY <1>2, <2>3 DEF FinalizeByClient
  <2>4. ASSUME NEW k, NewClient(k) PROVE UNCHANGED <<members, anchored, published>>
    BY <2>4 DEF NewClient, registry
  <2>5. ASSUME NEW m, NEW id, AttachSet(m, id) PROVE UNCHANGED <<members, anchored, published>>
    BY <2>5 DEF AttachSet, registry
  <2>6. ASSUME NEW k, NEW id, AttachToSet(k, id) PROVE UNCHANGED <<members, anchored, published>>
    BY <2>6 DEF AttachToSet, registry
  <2>7. ASSUME NEW m, NEW k, NEW service, Receive(m, k, service)
        PROVE  UNCHANGED <<members, anchored, published>>
    BY <2>7 DEF Receive, registry
  <2>8. ASSUME NEW m, NEW k, NEW service, VerifyAndRegister(m, k, service)
        PROVE  UNCHANGED <<members, anchored, published>>
    BY <2>8 DEF VerifyAndRegister, registry
  <2> QED
    BY <1>1, <1>7, <2>1, <2>2, <2>3, <2>4, <2>5, <2>6, <2>7, <2>8 DEF Library
<1>8. CASE UNCHANGED vars
  BY <1>1, <1>8 DEF vars, registry
<1> QED
  BY <1>6, <1>7, <1>8 DEF Next

LEMMA SoundAppend ==
  ASSUME NEW A, NEW list, SoundList(A, list), NEW e, e.cred \in A,
         \A i \in DOMAIN list : list[i].pseudonym # e.pseudonym
  PROVE  SoundList(A, Append(list, e))
<1>1. /\ IsSeq(Append(list, e))
      /\ Len(list) \in Nat
      /\ DOMAIN list = 1 .. Len(list)
      /\ DOMAIN Append(list, e) = 1 .. Len(list) + 1
      /\ \A i \in DOMAIN list : Append(list, e)[i] = list[i]
      /\ Append(list, e)[Len(list) + 1] = e
  BY AppendIsSeq DEF SoundList
<1>2. \A i \in DOMAIN Append(list, e) : i \in DOMAIN list \/ i = Len(list) + 1
  BY <1>1
<1> HIDE DEF IsSeq
<1>3. \A i \in DOMAIN Append(list, e) : Append(list, e)[i].cred \in A
  BY <1>1, <1>2 DEF SoundList
<1>4. \A i, j \in DOMAIN Append(list, e) :
        Append(list, e)[i].pseudonym = Append(list, e)[j].pseudonym => i = j
  BY <1>1, <1>2 DEF SoundList
<1> QED
  BY <1>1, <1>3, <1>4 DEF SoundList

LEMMA SoundGrows ==
  ASSUME NEW A, NEW B, A \subseteq B, NEW s, SoundShop(A, s)
  PROVE  SoundShop(B, s)
  BY DEF SoundShop, SoundList, Within

LEMMA AttachFields ==
  ASSUME NEW s,
         s = [id |-> s.id, attached |-> s.attached, cached |-> s.cached, held |-> s.held,
              verified |-> s.verified],
         NEW f
  PROVE  [s EXCEPT !.attached = f, !.cached = @ \union {f}]
           = [id |-> s.id, attached |-> f, cached |-> s.cached \union {f}, held |-> s.held,
              verified |-> s.verified]
<1>1. PICK a, b, c, d, e : s = [id |-> a, attached |-> b, cached |-> c, held |-> d,
                                verified |-> e]
  OBVIOUS
<1> DEFINE r == [id |-> a, attached |-> f, cached |-> c, held |-> d, verified |-> e]
<1>2. [s EXCEPT !.attached = f] = r /\ s.cached = c
  BY <1>1
<1>3. [r EXCEPT !.cached = c \union {f}]
        = [id |-> a, attached |-> f, cached |-> c \union {f}, held |-> d, verified |-> e]
  OBVIOUS
<1> HIDE DEF r
<1>4. [[s EXCEPT !.attached = f] EXCEPT !.cached = c \union {f}]
        = [id |-> a, attached |-> f, cached |-> c \union {f}, held |-> d, verified |-> e]
  BY <1>2, <1>3
<1> QED
  BY <1>1, <1>2, <1>4

\* A library call leaves the merchants with members of anchored sets, each once.
LEMMA ShopKept ==
  ASSUME PublishedInv, ShopInv, Library
  PROVE  /\ shop' = [m \in Merchant |-> shop'[m]]
         /\ \A m \in Merchant : SoundShop(AnchoredPhi, shop'[m])
<1>1. ASSUME NEW m \in Merchant, RegisterMerchant(m)
      PROVE  /\ shop' = [n \in Merchant |-> shop'[n]]
             /\ \A n \in Merchant : SoundShop(AnchoredPhi, shop'[n])
  <2> DEFINE new == [id |-> Len(merchants) + 1, attached |-> None, cached |-> {},
                     held |-> << >>, verified |-> << >>]
  <2>1. shop' = [shop EXCEPT ![m] = new]
    BY <1>1 DEF RegisterMerchant
  <2>2. SoundList(AnchoredPhi, << >>)
    BY EmptyIsSeq DEF SoundList
  <2>3. SoundShop(AnchoredPhi, new)
    BY <2>2 DEF SoundShop
  <2> HIDE DEF new
  <2> QED
    BY <2>1, <2>3 DEF ShopInv
<1>2. ASSUME NEW m \in Merchant, NEW id \in DOMAIN published, AttachSet(m, id)
      PROVE  /\ shop' = [n \in Merchant |-> shop'[n]]
             /\ \A n \in Merchant : SoundShop(AnchoredPhi, shop'[n])
  <2> DEFINE new == [id |-> shop[m].id, attached |-> Fetched(id),
                     cached |-> shop[m].cached \union {Fetched(id)},
                     held |-> shop[m].held, verified |-> shop[m].verified]
  <2>1. /\ shop[m] # None
        /\ shop' = [shop EXCEPT ![m].attached = Fetched(id),
                                ![m].cached = @ \union {Fetched(id)}]
    BY <1>2 DEF AttachSet
  <2>2. SoundShop(AnchoredPhi, shop[m])
    BY DEF ShopInv
  <2>3. shop' = [shop EXCEPT ![m] = new]
    <3>1. new = [shop[m] EXCEPT !.attached = Fetched(id), !.cached = @ \union {Fetched(id)}]
      <4> HIDE DEF new
      <4> QED
        BY <2>1, <2>2, AttachFields DEF SoundShop, new
    <3>2. shop' = [shop EXCEPT ![m] = [shop[m] EXCEPT !.attached = Fetched(id),
                                                      !.cached = @ \union {Fetched(id)}]]
      <4> HIDE DEF new
      <4> QED
        BY <2>1 DEF ShopInv
    <3> QED
      BY <3>1, <3>2
  <2>4. Within(AnchoredPhi, Fetched(id).set)
    BY HandedOutAnchored DEF Fetched
  <2>5. SoundShop(AnchoredPhi, new)
    BY <2>1, <2>2, <2>4 DEF SoundShop
  <2> HIDE DEF new
  <2> QED
    BY <2>3, <2>5 DEF ShopInv
<1>3. ASSUME NEW m \in Merchant, NEW k \in Client, NEW service, Receive(m, k, service)
      PROVE  /\ shop' = [n \in Merchant |-> shop'[n]]
             /\ \A n \in Merchant : SoundShop(AnchoredPhi, shop'[n])
  <2> DEFINE p == Registration(k, service)
             list == Append(shop[m].held, Identity(p))
             new == [id |-> shop[m].id, attached |-> shop[m].attached,
                     cached |-> shop[m].cached, held |-> list, verified |-> shop[m].verified]
  <2>1. /\ shop[m] # None /\ shop[m].attached # None
        /\ Identity(p).pseudonym \notin {shop[m].held[i].pseudonym : i \in DOMAIN shop[m].held}
        /\ Opens(p, shop[m].attached.crs, shop[m].attached.set, p.setId, p.service)
        /\ shop' = [shop EXCEPT ![m].held = Append(@, Identity(p))]
    BY <1>3 DEF Receive
  <2>2. SoundShop(AnchoredPhi, shop[m])
    BY DEF ShopInv
  <2>3. Identity(p).cred \in AnchoredPhi
    <3>1. p.cred \in AnchoredPhi
      BY <2>1, <2>2, OpensForMember DEF SoundShop
    <3> QED
      BY <3>1 DEF Identity
  <2> HIDE DEF p
  <2>4. SoundList(AnchoredPhi, list)
    BY <2>1, <2>2, <2>3, SoundAppend DEF SoundShop
  <2> HIDE DEF list
  <2>5. shop' = [shop EXCEPT ![m] = new]
    <3>1. shop' = [shop EXCEPT ![m] = [shop[m] EXCEPT !.held = list]]
      BY <2>1 DEF list
    <3>2. [shop[m] EXCEPT !.held = list] = new
      BY <2>1, <2>2 DEF SoundShop
    <3> QED
      BY <3>1, <3>2
  <2>6. SoundShop(AnchoredPhi, new)
    BY <2>1, <2>2, <2>4 DEF SoundShop
  <2> HIDE DEF new
  <2> QED
    BY <2>5, <2>6 DEF ShopInv
<1>4. ASSUME NEW m \in Merchant, NEW k \in Client, NEW service, VerifyAndRegister(m, k, service)
      PROVE  /\ shop' = [n \in Merchant |-> shop'[n]]
             /\ \A n \in Merchant : SoundShop(AnchoredPhi, shop'[n])
  <2> DEFINE p == Registration(k, service)
             list == Append(shop[m].verified, Identity(p))
             new == [id |-> shop[m].id, attached |-> shop[m].attached,
                     cached |-> shop[m].cached, held |-> shop[m].held, verified |-> list]
  <2>1. /\ shop[m] # None
        /\ \E f \in shop[m].cached :
             Opens(p, shop[m].attached.crs, f.set, p.setId, ServiceExpected(m, p))
        /\ ~Used(m, Identity(p).pseudonym)
        /\ shop' = [shop EXCEPT ![m].verified = Append(@, Identity(p))]
    BY <1>4 DEF VerifyAndRegister
  <2>2. SoundShop(AnchoredPhi, shop[m])
    BY DEF ShopInv
  <2>3. Identity(p).cred \in AnchoredPhi
    <3>1. p.cred \in AnchoredPhi
      BY <2>1, <2>2, OpensForMember DEF SoundShop
    <3> QED
      BY <3>1 DEF Identity
  <2> HIDE DEF p
  <2>4. SoundList(AnchoredPhi, list)
    BY <2>1, <2>2, <2>3, SoundAppend DEF SoundShop, Used
  <2> HIDE DEF list
  <2>5. shop' = [shop EXCEPT ![m] = new]
    <3>1. shop' = [shop EXCEPT ![m] = [shop[m] EXCEPT !.verified = list]]
      BY <2>1 DEF list
    <3>2. [shop[m] EXCEPT !.verified = list] = new
      BY <2>1, <2>2 DEF SoundShop
    <3> QED
      BY <3>1, <3>2
  <2>6. SoundShop(AnchoredPhi, new)
    BY <2>1, <2>2, <2>4 DEF SoundShop
  <2> HIDE DEF new
  <2> QED
    BY <2>5, <2>6 DEF ShopInv
<1>5. CASE UNCHANGED shop
  BY <1>5 DEF ShopInv
<1>6. ASSUME NEW k, NewClient(k) \/ RegisterBeneficiary(k) PROVE UNCHANGED shop
  BY <1>6 DEF NewClient, RegisterBeneficiary, library
<1>7. FinalizeByClient => UNCHANGED shop
  BY DEF FinalizeByClient, library
<1>8. ASSUME NEW k, NEW id, AttachToSet(k, id) PROVE UNCHANGED shop
  BY <1>8 DEF AttachToSet
<1> QED
  BY <1>1, <1>2, <1>3, <1>4, <1>5, <1>6, <1>7, <1>8 DEF Library

\* A route of the application leaves the library alone.
LEMMA RouteKeepsLibrary ==
  ASSUME NEW t \in Task, Route(t)
  PROVE  UNCHANGED shop
<1>1. CASE Fails(t) \/ CallInit(t) \/ ListMerchants(t) \/ StoreCrs(t)
           \/ AddMerchantProcess(t) \/ AddBeneficiary(t) \/ UpdateBeneficiary(t)
           \/ CallFinalize(t) \/ SetSetIdBytes(t) \/ FetchSet(t) \/ StoreSet(t)
           \/ HandOutToken(t) \/ HandOutRequest(t) \/ AddMerchantIdentity(t)
           \/ CallReset(t) \/ ResetState(t)
  BY <1>1 DEF library, Fails, CallInit, ListMerchants, StoreCrs, AddMerchantProcess,
       AddBeneficiary, UpdateBeneficiary, CallFinalize, SetSetIdBytes, FetchSet, StoreSet,
       HandOutToken, HandOutRequest, AddMerchantIdentity, CallReset, ResetState
<1>2. CASE \/ \E m \in Merchant : CreateMerchant(t, m)
           \/ \E b \in Ben : CallCredential(t, b) \/ CallRegister(t, b) \/ CallPayment(t, b)
           \/ \E b \in Ben : \E id \in 1 .. Cardinality(Merchant) : CallPaymentId(t, b, id)
           \/ \E m \in Merchant : \E p \in tokens : CallReceive(t, m, p)
  BY <1>2 DEF library, CreateMerchant, CallCredential, CallRegister, CallPayment,
       CallPaymentId, CallReceive
<1>3. CASE AdmitMerchant(t) \/ Enrol(t) \/ Finalize(t) \/ Withdraw(t) \/ StartAfresh(t)
  BY <1>3 DEF library, AdmitMerchant, Enrol, Finalize, Withdraw, StartAfresh
<1> QED
  BY <1>1, <1>2, <1>3 DEF Route

LEMMA ShopStep ==
  ASSUME PublishedInv, ShopInv, [Next]_vars
  PROVE  ShopInv'
<1>1. AnchoredPhi \subseteq AnchoredPhi'
  BY PublishedStep
<1>2. /\ shop' = [m \in Merchant |-> shop'[m]]
      /\ \A m \in Merchant : SoundShop(AnchoredPhi, shop'[m])
  <2>1. UNCHANGED shop \/ Library
    BY RouteKeepsLibrary DEF Next, vars, library
  <2> QED
    BY <2>1, ShopKept DEF ShopInv
<1>3. \A m \in Merchant : SoundShop(AnchoredPhi', shop'[m])
  BY <1>1, <1>2, SoundGrows
<1> QED
  BY <1>2, <1>3 DEF ShopInv

LEMMA SoundAppGrows ==
  ASSUME NEW A, NEW B, A \subseteq B, NEW a, SoundApp(A, a)
  PROVE  SoundApp(B, a)
<1>1. \A m \in Merchant : SoundProc(B, a.procs[m])
  BY DEF SoundApp, SoundProc
<1>2. a.set # None => Within(B, a.set.commitments)
  BY DEF SoundApp, Within
<1> QED
  BY <1>1, <1>2 DEF SoundApp

\* The state object as each kind of update leaves it.
LEMMA NoSet ==
  ASSUME NEW A
  PROVE  SoundApp(A, Fresh)
  BY DEF SoundApp, SoundProc, Fresh, AppFields

LEMMA OtherFields ==
  ASSUME NEW A, NEW a, SoundApp(A, a), NEW b, NEW x, NEW y
  PROVE  /\ SoundApp(A, [a EXCEPT !.ben[b] = x, !.phase = y])
         /\ SoundApp(A, [a EXCEPT !.setId = x])
         /\ SoundApp(A, [a EXCEPT !.phase = y])
<1>1. SoundApp(A, [a EXCEPT !.ben[b] = x, !.phase = y])
  BY DEF SoundApp, AppFields
<1>2. SoundApp(A, [a EXCEPT !.setId = x])
  BY DEF SoundApp, AppFields
<1>3. SoundApp(A, [a EXCEPT !.phase = y])
  BY DEF SoundApp, AppFields
<1> QED
  BY <1>1, <1>2, <1>3

LEMMA SetStored ==
  ASSUME NEW A, NEW a, SoundApp(A, a), NEW set, Within(A, set.commitments), NEW x, NEW y
  PROVE  /\ SoundApp(A, [a EXCEPT !.crs = x, !.set = set, !.phase = y])
         /\ SoundApp(A, [a EXCEPT !.set = set, !.phase = y])
<1>1. SoundApp(A, [a EXCEPT !.crs = x, !.set = set, !.phase = y])
  BY DEF SoundApp, AppFields
<1>2. SoundApp(A, [a EXCEPT !.set = set, !.phase = y])
  BY DEF SoundApp, AppFields
<1> QED
  BY <1>1, <1>2

LEMMA ProcStored ==
  ASSUME NEW A, NEW a, SoundApp(A, a), NEW m, NEW p, SoundProc(A, p)
  PROVE  SoundApp(A, [a EXCEPT !.procs[m] = p])
<1> DEFINE b == [a EXCEPT !.procs[m] = p]
<1>1. /\ b = [field \in AppFields |-> b[field]]
      /\ b.procs = [a.procs EXCEPT ![m] = p]
      /\ b.set = a.set
  BY DEF SoundApp, AppFields
<1> HIDE DEF b
<1>2. SoundApp(A, b)
  BY <1>1 DEF SoundApp
<1> QED
  BY <1>2 DEF b

\* A route goes on to a place where it holds an anchored set, or none.
LEMMA GoesOn ==
  ASSUME AppInv, NEW t \in Task, NEW next, SoundTask(AnchoredPhi, next), Go(t, next)
  PROVE  /\ task' = [u \in Task |-> task'[u]]
         /\ \A u \in Task : SoundTask(AnchoredPhi, task'[u])
  BY DEF AppInv, Go

\* The updates of the state object itself: what each stores is sound.
LEMMA AppKept ==
  ASSUME PublishedInv, AppInv, NEW t \in Task, Route(t)
  PROVE  SoundApp(AnchoredPhi, app')
<1> USE DEF AppInv
<1>1. CASE UNCHANGED app
  BY <1>1
<1>2. CASE StoreCrs(t)
  <2>1. Within(AnchoredPhi, [commitments |-> << >>, finalized |-> FALSE].commitments)
    BY DEF Within
  <2> QED
    BY <1>2, <2>1, SetStored DEF StoreCrs
<1>3. CASE StoreSet(t)
  BY <1>3, SetStored DEF StoreSet, At, SoundTask
<1>4. CASE AddMerchantProcess(t)
  <2>1. SoundProc(AnchoredPhi, [id |-> task[t].id, identities |-> << >>])
    BY EmptyIsSeq DEF SoundProc
  <2> QED
    BY <1>4, <2>1, ProcStored DEF AddMerchantProcess
<1>5. CASE AddBeneficiary(t) \/ SetSetIdBytes(t) \/ HandOutToken(t) \/ HandOutRequest(t)
  <2>1. CASE AddBeneficiary(t)
    BY <2>1, OtherFields DEF AddBeneficiary
  <2>2. CASE SetSetIdBytes(t)
    BY <2>2, OtherFields DEF SetSetIdBytes
  <2>3. CASE HandOutToken(t)
    BY <2>3, OtherFields DEF HandOutToken
  <2>4. CASE HandOutRequest(t)
    BY <2>4, OtherFields DEF HandOutRequest
  <2> QED
    BY <1>5, <2>1, <2>2, <2>3, <2>4
<1>6. CASE AddMerchantIdentity(t)
  <2> DEFINE m == task[t].merchant
             new == Identity(task[t].token)
             p == [app.procs[m] EXCEPT !.identities = Append(@, new)]
  <2>1. At(t, "accept")
        /\ app' = IF app.procs[m] = None THEN app ELSE [app EXCEPT !.procs[m] = p]
    BY <1>6 DEF AddMerchantIdentity
  <2>2. new.cred \in AnchoredPhi
    BY <2>1 DEF Identity, At, SoundTask
  <2>3. CASE app.procs[m] # None /\ m \in Merchant
    <3>1. SoundProc(AnchoredPhi, app.procs[m])
      BY <2>3 DEF SoundApp
    <3>2. p = [id |-> app.procs[m].id, identities |-> Append(app.procs[m].identities, new)]
      BY <2>3, <3>1 DEF SoundProc
    <3> HIDE DEF new, p
    <3> DEFINE list == app.procs[m].identities
    <3>3. IsSeq(list) /\ \A i \in DOMAIN list : list[i].cred \in AnchoredPhi
      BY <2>3, <3>1 DEF SoundProc
    <3>4. p = [id |-> p.id, identities |-> p.identities] /\ p.identities = Append(list, new)
      BY <3>2
    <3> HIDE DEF list
    <3>5. IsSeq(Append(list, new))
          /\ \A i \in DOMAIN Append(list, new) : Append(list, new)[i].cred \in AnchoredPhi
      BY <2>2, <3>3, AppendIsSeq
    <3>6. SoundProc(AnchoredPhi, p)
      BY <3>4, <3>5 DEF SoundProc
    <3> QED
      BY <2>1, <2>3, <3>6, ProcStored
  <2>4. CASE app.procs[m] # None /\ m \notin Merchant
    <3>1. [app.procs EXCEPT ![m] = p] = app.procs
      BY <2>4 DEF SoundApp
    <3> HIDE DEF p
    <3>2. app' = app
      BY <2>1, <2>4, <3>1 DEF SoundApp, AppFields
    <3> QED
      BY <3>2
  <2> QED
    BY <2>1, <2>3, <2>4
<1>7. CASE ResetState(t)
  BY <1>7, NoSet DEF ResetState, Cleared
<1>8. CASE Fails(t) \/ CallInit(t) \/ ListMerchants(t) \/ AdmitMerchant(t) \/ Enrol(t)
           \/ UpdateBeneficiary(t) \/ CallFinalize(t) \/ Finalize(t) \/ FetchSet(t)
           \/ CallReset(t) \/ Withdraw(t) \/ StartAfresh(t)
  BY <1>1, <1>8 DEF Fails, CallInit, ListMerchants, AdmitMerchant, Enrol, UpdateBeneficiary,
       CallFinalize, Finalize, FetchSet, CallReset, Withdraw, StartAfresh
<1>9. CASE \/ \E m \in Merchant : CreateMerchant(t, m)
           \/ \E b \in Ben : CallCredential(t, b) \/ CallRegister(t, b) \/ CallPayment(t, b)
           \/ \E b \in Ben : \E id \in 1 .. Cardinality(Merchant) : CallPaymentId(t, b, id)
           \/ \E m \in Merchant : \E p \in tokens : CallReceive(t, m, p)
  BY <1>1, <1>9 DEF CreateMerchant, CallCredential, CallRegister, CallPayment, CallPaymentId,
       CallReceive
<1> QED
  BY <1>2, <1>3, <1>4, <1>5, <1>6, <1>7, <1>8, <1>9 DEF Route

\* What a route holds when it goes on: an anchored set after its fetch, and a member
\* after a proof that opened for the application's set.
LEMMA TasksKept ==
  ASSUME PublishedInv, AppInv, NEW t \in Task, Route(t)
  PROVE  /\ task' = [u \in Task |-> task'[u]]
         /\ \A u \in Task : SoundTask(AnchoredPhi, task'[u])
<1>1. ASSUME NEW next, next.at \notin {"store", "accept"}, Go(t, next)
      PROVE  /\ task' = [u \in Task |-> task'[u]]
             /\ \A u \in Task : SoundTask(AnchoredPhi, task'[u])
  BY <1>1, GoesOn DEF SoundTask
<1>2. CASE FetchSet(t)
  <2> DEFINE set == [commitments |-> AnonymitySet(task[t].id), finalized |-> TRUE]
  <2>1. Within(AnchoredPhi, set.commitments)
    BY <1>2, HandedOutAnchored DEF FetchSet
  <2>2. Go(t, [at |-> "store", set |-> set])
    BY <1>2 DEF FetchSet
  <2> HIDE DEF set
  <2>3. SoundTask(AnchoredPhi, [at |-> "store", set |-> set])
    BY <2>1 DEF SoundTask
  <2> QED
    BY <2>2, <2>3, GoesOn
<1>3. ASSUME NEW m \in Merchant, NEW p \in tokens, CallReceive(t, m, p)
      PROVE  /\ task' = [u \in Task |-> task'[u]]
             /\ \A u \in Task : SoundTask(AnchoredPhi, task'[u])
  <2>1. Opens(p, app.crs, app.set.commitments, p.setId, p.service) /\ app.set # None
        /\ Go(t, [at |-> "accept", merchant |-> m, token |-> p])
    BY <1>3 DEF CallReceive, Finalized
  <2>2. Within(AnchoredPhi, app.set.commitments)
    BY <2>1 DEF AppInv, SoundApp
  <2>3. p.cred \in AnchoredPhi
    BY <2>1, <2>2, OpensForMember
  <2>4. SoundTask(AnchoredPhi, [at |-> "accept", merchant |-> m, token |-> p])
    BY <2>3 DEF SoundTask
  <2> QED
    BY <2>1, <2>4, GoesOn
<1>4. CASE Fails(t) \/ StoreCrs(t) \/ AddMerchantProcess(t) \/ AddBeneficiary(t) \/ StoreSet(t)
           \/ HandOutToken(t) \/ HandOutRequest(t) \/ AddMerchantIdentity(t) \/ ResetState(t)
  <2>1. Go(t, Idle)
    BY <1>4 DEF End, Fails, StoreCrs, AddMerchantProcess, AddBeneficiary, StoreSet,
         HandOutToken, HandOutRequest, AddMerchantIdentity, ResetState
  <2> QED
    BY <2>1, <1>1 DEF Idle
<1>5. CASE CallInit(t) \/ CallFinalize(t) \/ CallReset(t) \/ Withdraw(t) \/ StartAfresh(t)
  BY <1>1, <1>5 DEF CallInit, CallFinalize, CallReset, Withdraw, StartAfresh
<1>6. CASE AdmitMerchant(t) \/ Enrol(t) \/ Finalize(t) \/ SetSetIdBytes(t)
  BY <1>1, <1>6 DEF AdmitMerchant, Enrol, Finalize, SetSetIdBytes
<1>7. CASE ListMerchants(t)
  BY <1>1, <1>7 DEF ListMerchants, End, Idle
<1>8. CASE UpdateBeneficiary(t)
  <2>1. CASE app.setId = None
    BY <1>1, <1>8, <2>1 DEF UpdateBeneficiary, Idle
  <2>2. CASE app.setId # None
    BY <1>1, <1>8, <2>2 DEF UpdateBeneficiary
  <2> QED
    BY <2>1, <2>2
<1>9. ASSUME NEW m, CreateMerchant(t, m)
      PROVE  \E next : next.at \notin {"store", "accept"} /\ Go(t, next)
  BY <1>9 DEF CreateMerchant
<1>10. ASSUME NEW b, CallCredential(t, b) \/ CallRegister(t, b) \/ CallPayment(t, b)
       PROVE  \E next : next.at \notin {"store", "accept"} /\ Go(t, next)
  BY <1>10 DEF CallCredential, CallRegister, CallPayment
<1>11. ASSUME NEW b, NEW id, CallPaymentId(t, b, id)
       PROVE  \E next : next.at \notin {"store", "accept"} /\ Go(t, next)
  BY <1>11 DEF CallPaymentId
<1> QED
  BY <1>1, <1>2, <1>3, <1>4, <1>5, <1>6, <1>7, <1>8, <1>9, <1>10, <1>11 DEF Route

\* A library call leaves the application alone.
LEMMA LibraryKeepsApp ==
  ASSUME Library
  PROVE  UNCHANGED <<app, task>>
<1>1. ASSUME NEW m, RegisterMerchant(m) PROVE UNCHANGED <<app, task>>
  BY <1>1 DEF RegisterMerchant
<1>2. ASSUME NEW k, NewClient(k) \/ RegisterBeneficiary(k) PROVE UNCHANGED <<app, task>>
  BY <1>2 DEF NewClient, RegisterBeneficiary
<1>3. FinalizeByClient => UNCHANGED <<app, task>>
  BY DEF FinalizeByClient
<1>4. ASSUME NEW m, NEW id, AttachSet(m, id) PROVE UNCHANGED <<app, task>>
  BY <1>4 DEF AttachSet
<1>5. ASSUME NEW k, NEW id, AttachToSet(k, id) PROVE UNCHANGED <<app, task>>
  BY <1>5 DEF AttachToSet
<1>6. ASSUME NEW m, NEW k, NEW service, Receive(m, k, service)
      PROVE  UNCHANGED <<app, task>>
  BY <1>6 DEF Receive
<1>7. ASSUME NEW m, NEW k, NEW service, VerifyAndRegister(m, k, service)
      PROVE  UNCHANGED <<app, task>>
  BY <1>7 DEF VerifyAndRegister
<1> QED
  BY <1>1, <1>2, <1>3, <1>4, <1>5, <1>6, <1>7 DEF Library

LEMMA AppStep ==
  ASSUME PublishedInv, AppInv, [Next]_vars
  PROVE  AppInv'
<1>1. AnchoredPhi \subseteq AnchoredPhi'
  BY PublishedStep
<1>2. /\ SoundApp(AnchoredPhi, app')
      /\ task' = [t \in Task |-> task'[t]]
      /\ \A t \in Task : SoundTask(AnchoredPhi, task'[t])
  <2>1. CASE \E t \in Task : Route(t)
    BY <2>1, AppKept, TasksKept
  <2>2. CASE Library \/ UNCHANGED vars
    <3>1. UNCHANGED <<app, task>>
      BY <2>2, LibraryKeepsApp DEF vars
    <3> QED
      BY <3>1 DEF AppInv
  <2> QED
    BY <2>1, <2>2 DEF Next
<1>3. SoundApp(AnchoredPhi', app')
  BY <1>1, <1>2, SoundAppGrows
<1>4. \A t \in Task : SoundTask(AnchoredPhi', task'[t])
  BY <1>1, <1>2 DEF SoundTask, Within
<1> QED
  BY <1>2, <1>3, <1>4 DEF AppInv
-----------------------------------------------------------------------------
LEMMA Starts == Init => PublishedInv /\ AppInv /\ ShopInv
<1> SUFFICES ASSUME Init PROVE PublishedInv /\ AppInv /\ ShopInv
  OBVIOUS
<1>1. PublishedInv
  BY EmptyIsSeq DEF Init, PublishedInv
<1>2. AppInv
  BY NoSet DEF Init, AppInv, SoundTask, Idle
<1>3. ShopInv
  BY DEF Init, ShopInv, SoundShop
<1> QED
  BY <1>1, <1>2, <1>3

LEMMA Inductive == Spec => [](PublishedInv /\ AppInv /\ ShopInv)
<1>1. PublishedInv /\ AppInv /\ ShopInv /\ [Next]_vars => (PublishedInv /\ AppInv /\ ShopInv)'
  BY PublishedStep, AppStep, ShopStep
<1> QED
  BY Starts, <1>1, PTL DEF Spec

\* What an acceptor holds was a commitment in an anchored set when it was accepted,
\* and an anchored set stays anchored.  This is so for both acceptors of the library
\* and for the receive-registration route of the application.
THEOREM AcceptedBelong == Spec => []AcceptedAreMembers
<1>1. AppInv /\ ShopInv => AcceptedAreMembers
  <2> SUFFICES ASSUME AppInv, ShopInv, NEW m \in Merchant, NEW i \in IdentitiesOf(m)
               PROVE  \E id \in DOMAIN anchored : \E j \in DOMAIN anchored[id] :
                        anchored[id][j].phi = i.cred
    BY DEF AcceptedAreMembers
  <2>1. i.cred \in AnchoredPhi
    <3>1. CASE app.procs[m] # None /\ i \in ToSet(app.procs[m].identities)
      BY <3>1 DEF AppInv, SoundApp, SoundProc, ToSet
    <3>2. CASE shop[m] # None /\ i \in ToSet(shop[m].held) \union ToSet(shop[m].verified)
      BY <3>2 DEF ShopInv, SoundShop, SoundList, ToSet
    <3> QED
      BY <3>1, <3>2 DEF IdentitiesOf
  <2> QED
    BY <2>1 DEF AnchoredPhi
<1> QED
  BY <1>1, Inductive, PTL

\* receive_payment_registration and verify_and_register refuse what they have
\* already, whatever sets, CRSs and service ids it comes with.
THEOREM HeldOnce == Spec => []OncePerNullifier
<1>1. ShopInv => OncePerNullifier
  <2> SUFFICES ASSUME ShopInv, NEW m \in Shops, NEW list \in {shop[m].held, shop[m].verified},
                      NEW i \in DOMAIN list, NEW j \in DOMAIN list,
                      list[i].pseudonym = list[j].pseudonym
               PROVE  i = j
    BY DEF OncePerNullifier
  <2>1. m \in Merchant /\ shop[m] # None
    BY DEF Shops
  <2>2. SoundList(AnchoredPhi, list)
    BY <2>1 DEF ShopInv, SoundShop
  <2> QED
    BY <2>2 DEF SoundList
<1> QED
  BY <1>1, Inductive, PTL
-----------------------------------------------------------------------------
(***************************************************************************)
(* The routes, while no two of them overlap that exclude each other.       *)
(***************************************************************************)

\* What a step of a route may change, and where.
LEMMA RouteEffects ==
  ASSUME NEW t \in Task, Route(t)
  PROVE  /\ merchants' = merchants \/ AdmitMerchant(t) \/ StartAfresh(t)
         /\ members' = members \/ Enrol(t) \/ StartAfresh(t)
         /\ anchored' = anchored \/ Finalize(t)
         /\ published' = published \/ Finalize(t) \/ Withdraw(t)
         /\ credentials' = credentials \/ AddBeneficiary(t) \/ UpdateBeneficiary(t)
         /\ UNCHANGED <<shop, client>>
         /\ resets' = resets \/ CallReset(t)
         /\ \/ UNCHANGED app
            \/ StoreCrs(t) \/ AddMerchantProcess(t) \/ AddBeneficiary(t) \/ SetSetIdBytes(t)
            \/ StoreSet(t) \/ HandOutToken(t) \/ HandOutRequest(t) \/ AddMerchantIdentity(t)
            \/ ResetState(t)
<1>1. CASE Fails(t) \/ CallInit(t) \/ ListMerchants(t) \/ StoreCrs(t)
           \/ AddMerchantProcess(t) \/ AddBeneficiary(t) \/ UpdateBeneficiary(t)
           \/ CallFinalize(t) \/ SetSetIdBytes(t) \/ FetchSet(t) \/ StoreSet(t)
           \/ HandOutToken(t) \/ HandOutRequest(t) \/ AddMerchantIdentity(t)
           \/ CallReset(t) \/ ResetState(t)
  BY <1>1 DEF registry, library, Fails, CallInit, ListMerchants, StoreCrs, AddMerchantProcess,
       AddBeneficiary, UpdateBeneficiary, CallFinalize, SetSetIdBytes, FetchSet, StoreSet,
       HandOutToken, HandOutRequest, AddMerchantIdentity, CallReset, ResetState
<1>2. CASE \/ \E m \in Merchant : CreateMerchant(t, m)
           \/ \E b \in Ben : CallCredential(t, b) \/ CallRegister(t, b) \/ CallPayment(t, b)
           \/ \E b \in Ben : \E id \in 1 .. Cardinality(Merchant) : CallPaymentId(t, b, id)
           \/ \E m \in Merchant : \E p \in tokens : CallReceive(t, m, p)
  BY <1>2 DEF registry, library, CreateMerchant, CallCredential, CallRegister, CallPayment,
       CallPaymentId, CallReceive
<1>3. CASE AdmitMerchant(t) \/ Enrol(t)
  BY <1>3 DEF library, AdmitMerchant, Enrol, Ledger!AdmitMerchant, Ledger!Enrol
<1>4. CASE Finalize(t)
  BY <1>4 DEF library, Finalize, FinalizeSet
<1>5. CASE Withdraw(t) \/ StartAfresh(t)
  BY <1>5 DEF library, Withdraw, StartAfresh, Ledger!Withdraw, Ledger!StartAfresh
<1> QED
  BY <1>1, <1>2, <1>3, <1>4, <1>5 DEF Route

\* What a call of the library may change.
LEMMA LibraryEffects ==
  ASSUME Library
  PROVE  /\ UNCHANGED <<app, task, tokens, calm, resets>>
         /\ merchants' = merchants \/ \E m \in Merchant : RegisterMerchant(m)
         /\ members' = members \/ \E k \in Client : RegisterBeneficiary(k)
         /\ UNCHANGED <<anchored, published>> \/ FinalizeByClient
         /\ \/ UNCHANGED <<credentials, client>>
            \/ \E k \in Client : NewClient(k)
            \/ \E k \in Client : \E id \in DOMAIN published : AttachToSet(k, id)
         /\ \/ UNCHANGED shop
            \/ \E m \in Merchant : RegisterMerchant(m)
            \/ \E m \in Merchant : \E id \in DOMAIN published : AttachSet(m, id)
            \/ \E m \in Merchant, k \in Client, service \in 1 .. Cardinality(Merchant) :
                 Receive(m, k, service) \/ VerifyAndRegister(m, k, service)
<1>1. CASE \E m \in Merchant : RegisterMerchant(m)
  BY <1>1 DEF RegisterMerchant, Ledger!AdmitMerchant
<1>2. CASE \E k \in Client : RegisterBeneficiary(k)
  BY <1>2 DEF library, RegisterBeneficiary, Ledger!Enrol
<1>3. CASE FinalizeByClient
  BY <1>3 DEF library, FinalizeByClient, FinalizeSet
<1>4. CASE \E k \in Client : NewClient(k)
  BY <1>4 DEF registry, NewClient
<1>5. ASSUME NEW m, NEW id, AttachSet(m, id)
      PROVE  /\ UNCHANGED <<app, task, tokens, calm, resets, credentials, client>>
             /\ UNCHANGED registry
  BY <1>5 DEF AttachSet
<1>6. ASSUME NEW k, NEW id, AttachToSet(k, id)
      PROVE  /\ UNCHANGED <<app, task, tokens, calm, resets, shop>>
             /\ UNCHANGED registry
  BY <1>6 DEF AttachToSet
<1>7. ASSUME NEW m, NEW k, NEW service, Receive(m, k, service) \/ VerifyAndRegister(m, k, service)
      PROVE  /\ UNCHANGED <<app, task, tokens, calm, resets, credentials, client>>
             /\ UNCHANGED registry
  BY <1>7 DEF Receive, VerifyAndRegister
<1> QED
  BY <1>1, <1>2, <1>3, <1>4, <1>5, <1>6, <1>7 DEF Library, registry
-----------------------------------------------------------------------------
(***************************************************************************)
(* Whose credentials there are.                                            *)
(***************************************************************************)

\* What a route holds between its awaits.
TaskTyped(x) ==
  /\ x.at = "merchant" => x.merchant \in Merchant
  /\ x.at \in {"credential", "register", "enrolled"} => x.ben \in Ben
  /\ x.at = "register" => x.cred \in DOMAIN credentials

CredentialsTyped ==
  /\ IsSeq(credentials)
  /\ \A c \in DOMAIN credentials :
       credentials[c] = [owner |-> credentials[c].owner, crs |-> credentials[c].crs,
                         index |-> credentials[c].index,
                         registered |-> credentials[c].registered]

\* The registry's members are credentials, each once, and a beneficiary of the
\* library has a credential of its own.
OwnersInv ==
  /\ merchants \in Seq(Merchant)
  /\ CredentialsTyped
  /\ \A i \in DOMAIN members : members[i].phi \in DOMAIN credentials
  /\ \A i, j \in DOMAIN members : members[i].phi = members[j].phi => i = j
  /\ app.ben = [b \in Ben |-> app.ben[b]]
  /\ \A b \in Ben : app.ben[b] \in {None} \union DOMAIN credentials
  /\ client = [k \in Client |-> client[k]]
  /\ \A k \in Client : client[k] # None =>
       /\ client[k] = [cred |-> client[k].cred, attached |-> client[k].attached]
       /\ client[k].cred \in DOMAIN credentials
       /\ credentials[client[k].cred].owner = k
  /\ \A t \in Task : TaskTyped(task[t])

\* A credential is never lost, and keeps its owner and its CRS.
CredentialsGrow(old, new) ==
  /\ DOMAIN old \subseteq DOMAIN new
  /\ \A c \in DOMAIN old : new[c].owner = old[c].owner /\ new[c].crs = old[c].crs

LEMMA CredentialAdded ==
  ASSUME CredentialsTyped, NEW owner, NEW crs,
         credentials' = Append(credentials, [owner |-> owner, crs |-> crs, index |-> None,
                                             registered |-> FALSE])
  PROVE  /\ CredentialsTyped' /\ CredentialsGrow(credentials, credentials')
         /\ Len(credentials') = Len(credentials) + 1 /\ Len(credentials) \in Nat
         /\ DOMAIN credentials = 1 .. Len(credentials)
         /\ DOMAIN credentials' = DOMAIN credentials \union {Len(credentials')}
         /\ \A c \in DOMAIN credentials : credentials'[c] = credentials[c]
         /\ credentials'[Len(credentials')] =
              [owner |-> owner, crs |-> crs, index |-> None, registered |-> FALSE]
<1> DEFINE new == [owner |-> owner, crs |-> crs, index |-> None, registered |-> FALSE]
<1>1. new = [owner |-> new.owner, crs |-> new.crs, index |-> new.index,
             registered |-> new.registered]
  OBVIOUS
<1>2. credentials' = Append(credentials, new) /\ IsSeq(credentials)
  BY DEF CredentialsTyped
<1> HIDE DEF new
<1>3. /\ IsSeq(credentials') /\ Len(credentials) \in Nat
      /\ DOMAIN credentials = 1 .. Len(credentials)
      /\ DOMAIN credentials' = 1 .. Len(credentials) + 1
      /\ Len(credentials') = Len(credentials) + 1
      /\ \A c \in DOMAIN credentials : credentials'[c] = credentials[c]
      /\ credentials'[Len(credentials) + 1] = new
  BY <1>2, AppendIsSeq
<1>4. DOMAIN credentials' = DOMAIN credentials \union {Len(credentials')}
  BY <1>3
<1>5. CredentialsTyped'
  <2> HIDE DEF IsSeq
  <2> SUFFICES ASSUME NEW c \in DOMAIN credentials'
               PROVE  credentials'[c] = [owner |-> credentials'[c].owner,
                                         crs |-> credentials'[c].crs,
                                         index |-> credentials'[c].index,
                                         registered |-> credentials'[c].registered]
    BY <1>3 DEF CredentialsTyped
  <2>1. CASE c \in DOMAIN credentials
    <3>1. credentials'[c] = credentials[c]
      BY <1>3, <2>1
    <3> QED
      BY <2>1, <3>1 DEF CredentialsTyped
  <2>2. CASE c = Len(credentials) + 1
    BY <1>1, <1>3, <2>2
  <2> QED
    BY <1>3, <1>4, <2>1, <2>2
<1> QED
  BY <1>3, <1>4, <1>5 DEF CredentialsGrow, new

\* The fields of a credential that change: its index, and whether it is registered.
LEMMA CredentialChanged ==
  ASSUME CredentialsTyped, NEW c \in DOMAIN credentials, NEW index, NEW registered,
         \/ credentials' = [credentials EXCEPT ![c].registered = registered, ![c].index = index]
         \/ credentials' = [credentials EXCEPT ![c].index = index]
  PROVE  /\ CredentialsTyped' /\ CredentialsGrow(credentials, credentials')
         /\ DOMAIN credentials' = DOMAIN credentials
         /\ credentials'[c].index = index
         /\ credentials'[c].registered \in {registered, credentials[c].registered}
         /\ \A e \in DOMAIN credentials : e # c => credentials'[e] = credentials[e]
<1> DEFINE old == credentials[c]
<1>1. PICK r : /\ credentials' = [credentials EXCEPT ![c] = r]
               /\ r = [owner |-> old.owner, crs |-> old.crs, index |-> r.index,
                       registered |-> r.registered]
               /\ r.index = index /\ r.registered \in {registered, old.registered}
  <2>1. /\ IsSeq(credentials)
        /\ old = [owner |-> old.owner, crs |-> old.crs, index |-> old.index,
                  registered |-> old.registered]
    BY DEF CredentialsTyped
  <2> DEFINE r1 == [owner |-> old.owner, crs |-> old.crs, index |-> index,
                    registered |-> registered]
             r2 == [owner |-> old.owner, crs |-> old.crs, index |-> index,
                    registered |-> old.registered]
  <2>2. [old EXCEPT !.registered = registered, !.index = index] = r1
    <3> DEFINE r0 == [owner |-> old.owner, crs |-> old.crs, index |-> old.index,
                      registered |-> registered]
    <3>1. [old EXCEPT !.registered = registered] = r0
      BY <2>1
    <3>2. [r0 EXCEPT !.index = index] = r1
      OBVIOUS
    <3> HIDE DEF r0, r1, old
    <3>3. [[old EXCEPT !.registered = registered] EXCEPT !.index = index] = r1
      BY <3>1, <3>2
    <3> QED
      BY <3>3
  <2>3. [old EXCEPT !.index = index] = r2
    BY <2>1
  <2> HIDE DEF old
  <2>4. CASE credentials' = [credentials EXCEPT ![c].registered = registered, ![c].index = index]
    <3>1. credentials' = [credentials EXCEPT ![c] =
                            [credentials[c] EXCEPT !.registered = registered, !.index = index]]
      BY <2>4
    <3>2. credentials' = [credentials EXCEPT ![c] = r1]
      BY <2>2, <3>1 DEF old
    <3> QED
      BY <3>2
  <2>5. CASE credentials' = [credentials EXCEPT ![c].index = index]
    <3>1. credentials' = [credentials EXCEPT ![c] = [credentials[c] EXCEPT !.index = index]]
      BY <2>5
    <3>2. credentials' = [credentials EXCEPT ![c] = r2]
      BY <2>3, <3>1 DEF old
    <3> QED
      BY <3>2
  <2> QED
    BY <2>4, <2>5
<1>2. /\ DOMAIN credentials' = DOMAIN credentials
      /\ credentials'[c] = r
      /\ \A e \in DOMAIN credentials : e # c => credentials'[e] = credentials[e]
  BY <1>1
<1>3. IsSeq(credentials')
  <2>1. credentials \in Seq(Range(credentials) \union {r})
    BY SeqMonotonic DEF CredentialsTyped, IsSeq
  <2>2. credentials' \in Seq(Range(credentials) \union {r})
    BY <1>1, <2>1, ExceptSeq
  <2> QED
    BY <2>2, SeqOfRange DEF IsSeq
<1> HIDE DEF IsSeq
<1>4. r.owner = old.owner /\ r.crs = old.crs /\ r.index = index
      /\ r.registered \in {registered, old.registered}
      /\ r = [owner |-> r.owner, crs |-> r.crs, index |-> r.index, registered |-> r.registered]
  BY <1>1
<1> HIDE DEF old
<1>5. CredentialsTyped'
  <2> SUFFICES ASSUME NEW e \in DOMAIN credentials
               PROVE  credentials'[e] = [owner |-> credentials'[e].owner,
                                         crs |-> credentials'[e].crs,
                                         index |-> credentials'[e].index,
                                         registered |-> credentials'[e].registered]
    BY <1>2, <1>3 DEF CredentialsTyped
  <2>1. CASE e # c
    <3>1. credentials'[e] = credentials[e]
      BY <1>2, <2>1
    <3> QED
      BY <3>1 DEF CredentialsTyped
  <2>2. CASE e = c
    BY <1>2, <1>4, <2>2
  <2> QED
    BY <2>1, <2>2
<1>6. CredentialsGrow(credentials, credentials')
  BY <1>2, <1>4 DEF CredentialsGrow, old
<1> QED
  BY <1>2, <1>4, <1>5, <1>6 DEF old

\* The merchants are appended to by name.
LEMMA MerchantsTyped ==
  ASSUME OwnersInv, [Next]_vars
  PROVE  merchants' \in Seq(Merchant)
<1>1. ASSUME NEW m \in Merchant, Ledger!AdmitMerchant(m) PROVE merchants' \in Seq(Merchant)
  BY <1>1 DEF Ledger!AdmitMerchant, OwnersInv
<1>2. Ledger!StartAfresh => merchants' \in Seq(Merchant)
  BY DEF Ledger!StartAfresh
<1>3. ASSUME NEW t \in Task, Route(t) PROVE merchants' \in Seq(Merchant)
  <2>1. CASE AdmitMerchant(t)
    <3>1. At(t, "merchant") /\ Ledger!AdmitMerchant(task[t].merchant)
      BY <2>1 DEF AdmitMerchant
    <3>2. task[t].merchant \in Merchant
      BY <3>1 DEF OwnersInv, TaskTyped, At
    <3> QED
      BY <1>1, <3>1, <3>2
  <2>2. CASE StartAfresh(t)
    BY <1>2, <2>2 DEF StartAfresh
  <2> QED
    BY <1>3, <2>1, <2>2, RouteEffects DEF OwnersInv
<1>4. CASE Library
  <2>1. \A m \in Merchant : RegisterMerchant(m) => merchants' \in Seq(Merchant)
    BY <1>1 DEF RegisterMerchant
  <2> QED
    BY <1>4, <2>1, LibraryEffects DEF OwnersInv
<1> QED
  BY <1>3, <1>4 DEF Next, vars, registry, OwnersInv

\* No credential is lost.
LEMMA CredentialsKept ==
  ASSUME OwnersInv, [Next]_vars
  PROVE  CredentialsTyped' /\ CredentialsGrow(credentials, credentials')
<1>1. CredentialsTyped
  BY DEF OwnersInv
<1>2. CASE UNCHANGED credentials
  BY <1>1, <1>2 DEF CredentialsTyped, CredentialsGrow
<1>3. ASSUME NEW t \in Task, AddBeneficiary(t)
      PROVE  CredentialsTyped' /\ CredentialsGrow(credentials, credentials')
  BY <1>1, <1>3, CredentialAdded DEF AddBeneficiary
<1>4. ASSUME NEW t \in Task, UpdateBeneficiary(t)
      PROVE  CredentialsTyped' /\ CredentialsGrow(credentials, credentials')
  <2> DEFINE c == app.ben[task[t].ben]
  <2>1. At(t, "enrolled")
        /\ credentials' = IF c = None THEN credentials
                          ELSE [credentials EXCEPT ![c].registered = TRUE,
                                                   ![c].index = task[t].index]
    BY <1>4 DEF UpdateBeneficiary
  <2>2. c \in {None} \union DOMAIN credentials
    BY <2>1 DEF OwnersInv, TaskTyped, At
  <2> HIDE DEF c
  <2>3. CASE c = None
    BY <1>2, <2>1, <2>3
  <2>4. CASE c # None
    BY <1>1, <2>1, <2>2, <2>4, CredentialChanged
  <2> QED
    BY <2>3, <2>4
<1>5. ASSUME NEW k \in Client, NewClient(k)
      PROVE  CredentialsTyped' /\ CredentialsGrow(credentials, credentials')
  <2>1. PICK crs : credentials' = Append(credentials, [owner |-> k, crs |-> crs, index |-> None,
                                                       registered |-> FALSE])
    BY <1>5 DEF NewClient
  <2> QED
    BY <1>1, <2>1, CredentialAdded
<1>6. ASSUME NEW k \in Client, NEW id, AttachToSet(k, id)
      PROVE  CredentialsTyped' /\ CredentialsGrow(credentials, credentials')
  <2>1. PICK index : /\ client[k] # None
                     /\ credentials' = [credentials EXCEPT ![client[k].cred].index = index]
    BY <1>6 DEF AttachToSet
  <2>2. client[k].cred \in DOMAIN credentials
    BY <2>1 DEF OwnersInv
  <2> QED
    BY <1>1, <2>1, <2>2, CredentialChanged
<1>7. ASSUME NEW t \in Task, Route(t)
      PROVE  CredentialsTyped' /\ CredentialsGrow(credentials, credentials')
  BY <1>2, <1>3, <1>4, <1>7, RouteEffects
<1>8. CASE Library
  BY <1>2, <1>5, <1>6, <1>8, LibraryEffects
<1> QED
  BY <1>2, <1>7, <1>8 DEF Next, vars

\* The registry admits credentials, each once.
LEMMA MembersAreCredentials ==
  ASSUME OwnersInv, PublishedInv, [Next]_vars
  PROVE  /\ \A i \in DOMAIN members' : members'[i].phi \in DOMAIN credentials'
         /\ \A i, j \in DOMAIN members' : members'[i].phi = members'[j].phi => i = j
<1>1. DOMAIN credentials \subseteq DOMAIN credentials'
  BY CredentialsKept DEF CredentialsGrow
<1>2. ASSUME NEW c \in DOMAIN credentials, Ledger!Enrol([phi |-> c, out |-> Fee])
      PROVE  /\ \A i \in DOMAIN members' : members'[i].phi \in DOMAIN credentials'
             /\ \A i, j \in DOMAIN members' : members'[i].phi = members'[j].phi => i = j
  <2> DEFINE new == [phi |-> c, out |-> Fee]
  <2>1. /\ members' = Append(members, new) /\ new.phi = c
        /\ \A i \in DOMAIN members : members[i].phi # c
    BY <1>2 DEF Ledger!Enrol
  <2> HIDE DEF new
  <2>2. /\ Len(members) \in Nat /\ DOMAIN members = 1 .. Len(members)
        /\ DOMAIN members' = 1 .. Len(members) + 1
        /\ \A i \in DOMAIN members : members'[i] = members[i]
        /\ members'[Len(members) + 1] = new
    BY <2>1, AppendIsSeq DEF PublishedInv
  <2>3. \A i \in DOMAIN members' : i \in DOMAIN members \/ i = Len(members) + 1
    BY <2>2
  <2> QED
    BY <1>1, <2>1, <2>2, <2>3 DEF OwnersInv
<1>3. CASE UNCHANGED members
  BY <1>1, <1>3 DEF OwnersInv
<1>4. CASE members' = << >>
  BY <1>4
<1>5. ASSUME NEW t \in Task, Route(t)
      PROVE  /\ \A i \in DOMAIN members' : members'[i].phi \in DOMAIN credentials'
             /\ \A i, j \in DOMAIN members' : members'[i].phi = members'[j].phi => i = j
  <2>1. Enrol(t) => /\ task[t].cred \in DOMAIN credentials
                    /\ Ledger!Enrol([phi |-> task[t].cred, out |-> Fee])
    BY DEF Enrol, At, OwnersInv, TaskTyped
  <2>2. StartAfresh(t) => members' = << >>
    BY DEF StartAfresh, Ledger!StartAfresh
  <2> QED
    BY <1>2, <1>3, <1>4, <1>5, <2>1, <2>2, RouteEffects
<1>6. CASE Library
  <2>1. \A k \in Client : RegisterBeneficiary(k) =>
          /\ client[k].cred \in DOMAIN credentials
          /\ Ledger!Enrol([phi |-> client[k].cred, out |-> Fee])
    BY DEF RegisterBeneficiary, OwnersInv
  <2> QED
    BY <1>2, <1>3, <1>6, <2>1, LibraryEffects
<1> QED
  BY <1>3, <1>5, <1>6 DEF Next, vars, registry

\* What the state object holds of beneficiaries: the credentials that it was given.
LEMMA BeneficiariesKept ==
  ASSUME OwnersInv, AppInv, [Next]_vars
  PROVE  /\ app'.ben = [b \in Ben |-> app'.ben[b]]
         /\ \A b \in Ben : app'.ben[b] \in {None} \union DOMAIN credentials'
         /\ \/ app'.ben = app.ben
            \/ \E t \in Task : \/ ResetState(t) /\ app' = Fresh
                               \/ /\ AddBeneficiary(t)
                                  /\ app'.ben = [app.ben EXCEPT ![task[t].ben] = Len(credentials')]
<1>1. DOMAIN credentials \subseteq DOMAIN credentials'
  BY CredentialsKept DEF CredentialsGrow
<1>2. CASE app'.ben = app.ben
  BY <1>1, <1>2 DEF OwnersInv
<1>3. ASSUME NEW t \in Task, ResetState(t)
      PROVE  /\ app'.ben = [b \in Ben |-> app'.ben[b]] /\ app' = Fresh
             /\ \A b \in Ben : app'.ben[b] = None
  BY <1>3 DEF ResetState, Cleared, Fresh
<1>4. app = [field \in AppFields |-> app[field]]
  BY DEF AppInv, SoundApp
<1>5. ASSUME NEW t \in Task, AddBeneficiary(t)
      PROVE  /\ app'.ben = [b \in Ben |-> app'.ben[b]]
             /\ app'.ben = [app.ben EXCEPT ![task[t].ben] = Len(credentials')]
             /\ \A b \in Ben : app'.ben[b] \in {None} \union DOMAIN credentials'
  <2>1. /\ app' = [app EXCEPT !.ben[task[t].ben] = Len(credentials'), !.phase = Raised(1)]
        /\ At(t, "credential")
        /\ credentials' = Append(credentials, [owner |-> task[t].ben, crs |-> task[t].crs,
                                               index |-> None, registered |-> FALSE])
    BY <1>5 DEF AddBeneficiary
  <2>2. app'.ben = [app.ben EXCEPT ![task[t].ben] = Len(credentials')]
    BY <1>4, <2>1 DEF AppFields
  <2>3. task[t].ben \in Ben
    BY <2>1 DEF OwnersInv, TaskTyped, At
  <2>4. Len(credentials') \in DOMAIN credentials'
    <3>1. DOMAIN credentials' = DOMAIN credentials \union {Len(credentials')}
      BY <2>1, CredentialAdded DEF OwnersInv
    <3> QED
      BY <3>1
  <2> QED
    BY <1>1, <2>2, <2>3, <2>4 DEF OwnersInv
<1>6. ASSUME NEW t \in Task,
             StoreCrs(t) \/ AddMerchantProcess(t) \/ SetSetIdBytes(t) \/ StoreSet(t)
               \/ HandOutToken(t) \/ HandOutRequest(t) \/ AddMerchantIdentity(t)
      PROVE  app'.ben = app.ben
  <2>1. CASE StoreCrs(t)
    BY <1>4, <2>1 DEF StoreCrs, AppFields
  <2>2. CASE AddMerchantProcess(t)
    BY <1>4, <2>2 DEF AddMerchantProcess, AppFields
  <2>3. CASE SetSetIdBytes(t)
    BY <1>4, <2>3 DEF SetSetIdBytes, AppFields
  <2>4. CASE StoreSet(t)
    BY <1>4, <2>4 DEF StoreSet, AppFields
  <2>5. CASE HandOutToken(t)
    BY <1>4, <2>5 DEF HandOutToken, AppFields
  <2>6. CASE HandOutRequest(t)
    BY <1>4, <2>6 DEF HandOutRequest, AppFields
  <2>7. CASE AddMerchantIdentity(t)
    BY <1>4, <2>7 DEF AddMerchantIdentity, AppFields
  <2> QED
    BY <1>6, <2>1, <2>2, <2>3, <2>4, <2>5, <2>6, <2>7
<1>7. ASSUME NEW t \in Task, Route(t)
      PROVE  \/ app'.ben = app.ben
             \/ ResetState(t)
             \/ AddBeneficiary(t)
  BY <1>6, <1>7, RouteEffects
<1>8. CASE \E t \in Task : Route(t)
  BY <1>2, <1>3, <1>5, <1>7, <1>8
<1>9. CASE Library \/ UNCHANGED vars
  BY <1>2, <1>9, LibraryEffects DEF vars
<1> QED
  BY <1>8, <1>9 DEF Next

LEMMA ClientsKept ==
  ASSUME OwnersInv, [Next]_vars
  PROVE  /\ client' = [k \in Client |-> client'[k]]
         /\ \A k \in Client : client'[k] # None =>
              /\ client'[k] = [cred |-> client'[k].cred, attached |-> client'[k].attached]
              /\ client'[k].cred \in DOMAIN credentials'
              /\ credentials'[client'[k].cred].owner = k
<1>1. CredentialsGrow(credentials, credentials')
  BY CredentialsKept
<1>2. CASE UNCHANGED client
  BY <1>1, <1>2 DEF OwnersInv, CredentialsGrow
<1>3. ASSUME NEW k \in Client, NEW r, client' = [client EXCEPT ![k] = r],
             r = [cred |-> r.cred, attached |-> r.attached], r.cred \in DOMAIN credentials',
             credentials'[r.cred].owner = k
      PROVE  /\ client' = [j \in Client |-> client'[j]]
             /\ \A j \in Client : client'[j] # None =>
                  /\ client'[j] = [cred |-> client'[j].cred, attached |-> client'[j].attached]
                  /\ client'[j].cred \in DOMAIN credentials'
                  /\ credentials'[client'[j].cred].owner = j
  <2>1. /\ client' = [j \in Client |-> client'[j]] /\ client'[k] = r
        /\ \A j \in Client : j # k => client'[j] = client[j]
    BY <1>3 DEF OwnersInv
  <2>2. ASSUME NEW j \in Client, j # k, client'[j] # None
        PROVE  /\ client'[j] = [cred |-> client'[j].cred, attached |-> client'[j].attached]
               /\ client'[j].cred \in DOMAIN credentials'
               /\ credentials'[client'[j].cred].owner = j
    <3>1. client'[j] = client[j] /\ client[j] # None
      BY <2>1, <2>2
    <3> QED
      BY <1>1, <3>1 DEF OwnersInv, CredentialsGrow
  <2>3. /\ client'[k] = [cred |-> client'[k].cred, attached |-> client'[k].attached]
        /\ client'[k].cred \in DOMAIN credentials'
        /\ credentials'[client'[k].cred].owner = k
    BY <1>3, <2>1
  <2> QED
    BY <2>1, <2>2, <2>3
<1>4. ASSUME NEW k \in Client, NewClient(k)
      PROVE  \E r : /\ client' = [client EXCEPT ![k] = r]
                    /\ r = [cred |-> r.cred, attached |-> r.attached]
                    /\ r.cred \in DOMAIN credentials' /\ credentials'[r.cred].owner = k
  <2>1. PICK crs : credentials' = Append(credentials, [owner |-> k, crs |-> crs, index |-> None,
                                                       registered |-> FALSE])
    BY <1>4 DEF NewClient
  <2>2. /\ DOMAIN credentials' = DOMAIN credentials \union {Len(credentials')}
        /\ credentials'[Len(credentials')] = [owner |-> k, crs |-> crs, index |-> None,
                                              registered |-> FALSE]
    BY <2>1, CredentialAdded DEF OwnersInv
  <2> DEFINE r == [cred |-> Len(credentials'), attached |-> None]
  <2>3. client' = [client EXCEPT ![k] = r]
    BY <1>4 DEF NewClient
  <2>4. r.cred = Len(credentials') /\ r = [cred |-> r.cred, attached |-> r.attached]
    OBVIOUS
  <2> HIDE DEF r
  <2>5. r.cred \in DOMAIN credentials' /\ credentials'[r.cred].owner = k
    <3> DEFINE n == Len(credentials')
    <3>1. DOMAIN credentials' = DOMAIN credentials \union {n}
      BY <2>2
    <3>2. credentials'[n] = [owner |-> k, crs |-> crs, index |-> None, registered |-> FALSE]
      BY <2>2
    <3>3. r.cred = n
      BY <2>4
    <3> HIDE DEF n
    <3>4. n \in DOMAIN credentials'
      BY <3>1
    <3>5. credentials'[n].owner = k
      BY <3>2
    <3> QED
      BY <3>3, <3>4, <3>5
  <2> QED
    BY <2>3, <2>4, <2>5
<1>5. ASSUME NEW k \in Client, NEW id, AttachToSet(k, id)
      PROVE  \E r : /\ client' = [client EXCEPT ![k] = r]
                    /\ r = [cred |-> r.cred, attached |-> r.attached]
                    /\ r.cred \in DOMAIN credentials' /\ credentials'[r.cred].owner = k
  <2>1. /\ client[k] # None
        /\ client' = [client EXCEPT ![k].attached = Fetched(id)]
    BY <1>5 DEF AttachToSet
  <2> DEFINE r == [cred |-> client[k].cred, attached |-> Fetched(id)]
  <2>2. /\ client[k] = [cred |-> client[k].cred, attached |-> client[k].attached]
        /\ client[k].cred \in DOMAIN credentials
        /\ credentials[client[k].cred].owner = k
    BY <2>1 DEF OwnersInv
  <2>3. [client[k] EXCEPT !.attached = Fetched(id)] = r
    BY <2>2
  <2>4. client' = [client EXCEPT ![k] = r]
    <3>1. client' = [client EXCEPT ![k] = [client[k] EXCEPT !.attached = Fetched(id)]]
      BY <2>1
    <3> HIDE DEF r
    <3> QED
      BY <2>3, <3>1
  <2>5. r.cred = client[k].cred /\ r = [cred |-> r.cred, attached |-> r.attached]
    OBVIOUS
  <2> HIDE DEF r
  <2> QED
    BY <1>1, <2>2, <2>4, <2>5 DEF CredentialsGrow
<1>6. CASE \E t \in Task : Route(t)
  BY <1>2, <1>6, RouteEffects
<1>7. CASE Library
  BY <1>2, <1>3, <1>4, <1>5, <1>7, LibraryEffects
<1> QED
  BY <1>2, <1>6, <1>7 DEF Next, vars, library

\* Where a route goes, it holds what it may.
LEMMA TasksTyped ==
  ASSUME OwnersInv, AppInv, [Next]_vars
  PROVE  \A t \in Task : TaskTyped(task[t])'
<1>1. DOMAIN credentials \subseteq DOMAIN credentials'
  BY CredentialsKept DEF CredentialsGrow
<1>2. CASE UNCHANGED task
  BY <1>1, <1>2 DEF OwnersInv, TaskTyped
<1>3. ASSUME NEW t \in Task, NEW next, Go(t, next),
             next.at = "merchant" => next.merchant \in Merchant,
             next.at \in {"credential", "register", "enrolled"} => next.ben \in Ben,
             next.at = "register" => next.cred \in DOMAIN credentials
      PROVE  \A u \in Task : TaskTyped(task[u])'
  <2>1. task'[t] = next /\ \A u \in Task : u # t => task'[u] = task[u]
    BY <1>3 DEF Go, AppInv
  <2> QED
    BY <1>1, <1>3, <2>1 DEF OwnersInv, TaskTyped
<1>4. ASSUME NEW t \in Task, NEW next, Go(t, next),
             next.at \notin {"merchant", "credential", "register", "enrolled"}
      PROVE  \A u \in Task : TaskTyped(task[u])'
  BY <1>3, <1>4
<1>5. ASSUME NEW t \in Task, Route(t)
      PROVE  \A u \in Task : TaskTyped(task[u])'
  <2>1. ASSUME NEW m \in Merchant, CreateMerchant(t, m) PROVE \A u \in Task : TaskTyped(task[u])'
    BY <1>3, <2>1 DEF CreateMerchant
  <2>2. ASSUME NEW b \in Ben, CallCredential(t, b) PROVE \A u \in Task : TaskTyped(task[u])'
    BY <1>3, <2>2 DEF CallCredential
  <2>3. ASSUME NEW b \in Ben, CallRegister(t, b) PROVE \A u \in Task : TaskTyped(task[u])'
    <3>1. /\ app.ben[b] # None
          /\ Go(t, [at |-> "register", ben |-> b, cred |-> app.ben[b]])
      BY <2>3 DEF CallRegister
    <3>2. app.ben[b] \in DOMAIN credentials
      BY <3>1 DEF OwnersInv
    <3> DEFINE next == [at |-> "register", ben |-> b, cred |-> app.ben[b]]
    <3>3. next.at = "register" /\ next.ben = b /\ next.cred = app.ben[b] /\ Go(t, next)
      BY <3>1
    <3> HIDE DEF next
    <3> QED
      BY <1>3, <3>2, <3>3
  <2>4. CASE Enrol(t)
    <3>1. /\ At(t, "register")
          /\ Go(t, [at |-> "enrolled", ben |-> task[t].ben, index |-> Len(members)])
      BY <2>4 DEF Enrol
    <3>2. task[t].ben \in Ben
      BY <3>1 DEF OwnersInv, TaskTyped, At
    <3> QED
      BY <1>3, <3>1, <3>2
  <2>5. CASE Fails(t) \/ StoreCrs(t) \/ AddMerchantProcess(t) \/ AddBeneficiary(t) \/ StoreSet(t)
             \/ HandOutToken(t) \/ HandOutRequest(t) \/ AddMerchantIdentity(t) \/ ResetState(t)
    <3>1. Go(t, Idle)
      BY <2>5 DEF End, Fails, StoreCrs, AddMerchantProcess, AddBeneficiary, StoreSet,
           HandOutToken, HandOutRequest, AddMerchantIdentity, ResetState
    <3> QED
      BY <1>4, <3>1 DEF Idle
  <2>6. CASE CallInit(t) \/ CallFinalize(t) \/ CallReset(t) \/ Withdraw(t) \/ StartAfresh(t)
    BY <1>4, <2>6 DEF CallInit, CallFinalize, CallReset, Withdraw, StartAfresh
  <2>7. CASE AdmitMerchant(t) \/ Finalize(t) \/ SetSetIdBytes(t) \/ FetchSet(t)
    BY <1>4, <2>7 DEF AdmitMerchant, Finalize, SetSetIdBytes, FetchSet
  <2>8. CASE ListMerchants(t)
    BY <1>4, <2>8 DEF ListMerchants, End, Idle
  <2>9. CASE UpdateBeneficiary(t)
    <3>1. CASE app.setId = None
      BY <1>4, <2>9, <3>1 DEF UpdateBeneficiary, Idle
    <3>2. CASE app.setId # None
      BY <1>4, <2>9, <3>2 DEF UpdateBeneficiary
    <3> QED
      BY <3>1, <3>2
  <2>10. ASSUME NEW b, CallPayment(t, b)
         PROVE  \A u \in Task : TaskTyped(task[u])'
    BY <1>4, <2>10 DEF CallPayment
  <2>11. ASSUME NEW b, NEW id, CallPaymentId(t, b, id)
         PROVE  \A u \in Task : TaskTyped(task[u])'
    BY <1>4, <2>11 DEF CallPaymentId
  <2>12. ASSUME NEW m, NEW p, CallReceive(t, m, p)
         PROVE  \A u \in Task : TaskTyped(task[u])'
    BY <1>4, <2>12 DEF CallReceive
  <2> QED
    BY <1>5, <2>1, <2>2, <2>3, <2>4, <2>5, <2>6, <2>7, <2>8, <2>9, <2>10, <2>11, <2>12
       DEF Route
<1>6. CASE Library
  BY <1>2, <1>6, LibraryEffects
<1> QED
  BY <1>2, <1>5, <1>6 DEF Next, vars

LEMMA OwnersStep == PublishedInv /\ AppInv /\ OwnersInv /\ [Next]_vars => OwnersInv'
<1> SUFFICES ASSUME PublishedInv, AppInv, OwnersInv, [Next]_vars PROVE OwnersInv'
  OBVIOUS
<1>1. /\ CredentialsTyped'
      /\ merchants' \in Seq(Merchant)
  BY CredentialsKept, MerchantsTyped
<1>2. \A t \in Task : TaskTyped(task[t])'
  BY TasksTyped
<1> QED
  BY <1>1, <1>2, MembersAreCredentials, BeneficiariesKept, ClientsKept DEF OwnersInv
-----------------------------------------------------------------------------
(***************************************************************************)
(* While calm holds.                                                       *)
(***************************************************************************)

\* One list continues another.
Grows(old, new) == Len(old) <= Len(new) /\ \A i \in 1 .. Len(old) : new[i] = old[i]

\* The set with this id was anchored from the members there are.
OfMembers(lists, ms, id) == id \in DOMAIN lists /\ Grows(lists[id], ms)

\* A set shows the first n members in their places, and the last of them again.
Shows(ms, set) ==
  /\ set \in Seq(Nat)
  /\ \E n \in 1 .. Len(ms) :
       /\ n <= Len(set)
       /\ \A j \in 1 .. Len(set) : set[j] = ms[IF j <= n THEN j ELSE n].phi

Resetting == {"reset", "withdrawn", "cleared"}

\* No member belongs to the application.
Emptied == \A i \in DOMAIN members : credentials[members[i].phi].owner \notin Ben

\* What a route relies on between its awaits.
TaskCalm(x) ==
  /\ x.at = "crs" => x.crs \in Seq(Merchant)
  /\ x.at \in {"merchants", "crs"} => app.crs = None
  /\ x.at = "credential" => app.crs # None /\ x.crs = app.crs /\ app.ben[x.ben] = None
  /\ x.at = "register" => x.cred # None /\ app.ben[x.ben] = x.cred
  /\ x.at = "enrolled" => /\ app.ben[x.ben] # None
                          /\ x.index \in Nat
                          /\ x.index + 1 \in DOMAIN members
                          /\ members[x.index + 1].phi = app.ben[x.ben]
  /\ x.at \in {"finalized", "fetch"} => OfMembers(anchored, members, x.id)
  /\ x.at = "store" => /\ x.set = [commitments |-> x.set.commitments, finalized |-> TRUE]
                       /\ Shows(members, x.set.commitments)
  /\ x.at \in {"token", "payment"} => app.crs # None
  /\ x.at = "token" => Finalized
  /\ x.at \in {"finalized", "fetch", "store"} /\ Alone => app.crs # None
  /\ x.at = "cleared" => Emptied

PairCalm(x, y) ==
  /\ x.at \in Resetting => y.at = "idle"
  /\ x.at \in {"merchants", "crs"} => y.at \notin {"merchants", "crs"}
  /\ x.at = "credential" /\ y.at = "credential" => x.ben # y.ben

Steady == \A t \in Task : task[t].at # "cleared"

Own(b) ==
  app.ben[b] # None =>
    /\ credentials[app.ben[b]].owner = b
    /\ app.crs # None /\ credentials[app.ben[b]].crs = app.crs

\* Its index is its place among the members.
InPlace(b) ==
  app.ben[b] # None /\ credentials[app.ben[b]].registered =>
    /\ credentials[app.ben[b]].index \in Nat
    /\ credentials[app.ben[b]].index + 1 \in DOMAIN members
    /\ members[credentials[app.ben[b]].index + 1].phi = app.ben[b]

\* Its index is its place in the set.
ReadyAt(b) ==
  /\ app.ben[b] # None
  /\ credentials[app.ben[b]].registered
  /\ app.ben[b] \in ToSet(app.set.commitments)
  => /\ credentials[app.ben[b]].index + 1 \in DOMAIN app.set.commitments
     /\ app.set.commitments[credentials[app.ben[b]].index + 1] = app.ben[b]

AppCalm ==
  /\ app.phase \in Int
  /\ app.crs # None => app.phase >= 0
  /\ \A b \in Ben : Own(b)
  /\ Finalized => \A b \in Ben : ReadyAt(b)
  /\ Steady => /\ \A b \in Ben : InPlace(b)
               /\ Finalized => Shows(members, app.set.commitments)
               /\ app.setId # None => OfMembers(anchored, members, app.setId)
  /\ Alone => (app.phase >= 1 => app.crs # None) /\ (app.phase \in {2, 3} => Finalized)

MembersKept ==
  \A i \in DOMAIN members :
    credentials[members[i].phi].owner \in Ben =>
      app.ben[credentials[members[i].phi].owner] = members[i].phi

TasksCalm == \A t \in Task : TaskCalm(task[t])
PairsCalm == \A t, u \in Task : t # u => PairCalm(task[t], task[u])

Calm == AppCalm /\ MembersKept /\ TasksCalm /\ PairsCalm
RoutesInv == calm => Calm

LEMMA SameApp ==
  ASSUME AppCalm, MembersKept, Steady' => Steady,
         UNCHANGED <<credentials, members, anchored>>,
         app'.phase = app.phase, app'.crs = app.crs, app'.ben = app.ben, app'.set = app.set,
         app'.setId = app.setId
  PROVE  AppCalm' /\ MembersKept' /\ \A x : TaskCalm(x) => TaskCalm(x)'
<1>1. Alone' <=> Alone
  BY DEF Alone
<1>2. Finalized' <=> Finalized
  BY DEF Finalized
<1>3. MembersKept' /\ (Emptied => Emptied')
  BY DEF MembersKept, Emptied
<1>4. AppCalm'
  BY <1>1, <1>2 DEF AppCalm, Own, InPlace, ReadyAt
<1>5. \A x : TaskCalm(x) => TaskCalm(x)'
  BY <1>1, <1>2, <1>3 DEF TaskCalm
<1> QED
  BY <1>3, <1>4, <1>5

\* A route goes on, and keeps out of what excludes it.
LEMMA PairStep ==
  ASSUME AppInv, PairsCalm, NEW t \in Task, NEW next, Go(t, next),
         \/ next.at = "idle"
         \/ \A u \in Task : u # t => PairCalm(next, task[u]) /\ PairCalm(task[u], next)
  PROVE  /\ PairsCalm' /\ task'[t] = next
         /\ \A u \in Task : u # t => task'[u] = task[u]
<1>1. task'[t] = next /\ \A u \in Task : u # t => task'[u] = task[u]
  BY DEF Go, AppInv
<1>2. \A u \in Task : u # t => PairCalm(next, task[u]) /\ PairCalm(task[u], next)
  BY DEF PairCalm, Resetting
<1>3. ASSUME NEW u \in Task, NEW v \in Task, u # v
      PROVE  PairCalm(task'[u], task'[v])
  <2>1. CASE u = t
    BY <1>1, <1>2, <1>3, <2>1
  <2>2. CASE v = t
    BY <1>1, <1>2, <1>3, <2>2
  <2>3. CASE u # t /\ v # t
    BY <1>1, <1>3, <2>3 DEF PairsCalm
  <2> QED
    BY <2>1, <2>2, <2>3
<1>4. PairsCalm'
  BY <1>3 DEF PairsCalm, PairCalm
<1> QED
  BY <1>1, <1>4

\* What only a reset and the making of a CRS exclude.
Open(x) == x.at \notin Resetting \union {"merchants", "crs", "credential"}

LEMMA OpenPairs ==
  ASSUME PairsCalm, NEW t \in Task, NEW next, Open(next),
         InFlight(Resetting) = {} \/ task[t].at # "idle"
  PROVE  \A u \in Task : u # t => PairCalm(next, task[u]) /\ PairCalm(task[u], next)
<1> SUFFICES ASSUME NEW u \in Task, u # t
             PROVE  PairCalm(next, task[u]) /\ PairCalm(task[u], next)
  OBVIOUS
<1>1. PairCalm(task[u], task[t])
  BY DEF PairsCalm
<1>2. task[u].at \notin Resetting
  BY <1>1 DEF PairCalm, InFlight
<1> QED
  BY <1>2 DEF PairCalm, Open

LEMMA TasksMove ==
  ASSUME NEW t \in Task, NEW next, task'[t] = next, TaskCalm(next)',
         \A u \in Task : u # t => task'[u] = task[u] /\ \E x : x = task[u] /\ TaskCalm(x)'
  PROVE  TasksCalm'
<1> SUFFICES ASSUME NEW u \in Task
             PROVE  TaskCalm(task[u])'
  BY DEF TasksCalm
<1>1. PICK x : x = task'[u] /\ TaskCalm(x)'
  OBVIOUS
<1> QED
  BY <1>1 DEF TaskCalm

\* A route that changes no more of the state object than the merchants' processes.
LEMMA RouteMoves ==
  ASSUME AppInv, Calm, NEW t \in Task, NEW next, Go(t, next), TaskCalm(next),
         task[t].at # "cleared",
         UNCHANGED <<credentials, members, anchored>>,
         app'.phase = app.phase, app'.crs = app.crs, app'.ben = app.ben, app'.set = app.set,
         app'.setId = app.setId,
         \/ next.at = "idle"
         \/ \A u \in Task : u # t => PairCalm(next, task[u]) /\ PairCalm(task[u], next)
  PROVE  Calm'
<1>1. /\ PairsCalm' /\ task'[t] = next
      /\ \A u \in Task : u # t => task'[u] = task[u]
  BY PairStep DEF Calm
<1>2. Steady' => Steady
  BY <1>1 DEF Steady
<1>3. AppCalm' /\ MembersKept' /\ \A x : TaskCalm(x) => TaskCalm(x)'
  BY <1>2, SameApp DEF Calm
<1>4. TaskCalm(next)' /\ \A u \in Task : u # t => task'[u] = task[u] /\ \E x : x = task[u] /\ TaskCalm(x)'
  BY <1>1, <1>3 DEF Calm, TasksCalm
<1> QED
  BY <1>1, <1>3, <1>4, TasksMove DEF Calm

LEMMA SetsShowMembers ==
  ASSUME OwnersInv, PublishedInv, NEW id \in DOMAIN published, OfMembers(anchored, members, id)
  PROVE  Shows(members, AnonymitySet(id))
<1> DEFINE ms == published[id].members
           phis == [i \in DOMAIN ms |-> ms[i].phi]
           n == Len(ms)
           pad == [i \in 1 .. SetSize - Len(phis) |-> Last(phis)]
<1>1. ms = anchored[id] /\ id \in DOMAIN anchored /\ IsSeq(ms) /\ ms # << >>
  BY DEF PublishedInv
<1>2. n \in Nat \ {0} /\ DOMAIN ms = 1 .. n
  BY <1>1, EmptySeq, LenProperties DEF IsSeq
<1>3. Len(members) \in Nat /\ DOMAIN members = 1 .. Len(members)
  BY LenProperties DEF PublishedInv, IsSeq
<1>4. n <= Len(members) /\ \A i \in 1 .. n : ms[i] = members[i]
  BY <1>1 DEF OfMembers, Grows
<1>5. DOMAIN credentials \subseteq Nat
  BY LenProperties DEF OwnersInv, CredentialsTyped, IsSeq
<1>6. \A i \in 1 .. n : ms[i].phi \in Nat /\ ms[i].phi = members[i].phi
  <2> SUFFICES ASSUME NEW i \in 1 .. n PROVE ms[i].phi \in Nat /\ ms[i].phi = members[i].phi
    OBVIOUS
  <2>1. i \in DOMAIN members /\ ms[i] = members[i]
    BY <1>2, <1>3, <1>4
  <2> QED
    BY <1>5, <2>1 DEF OwnersInv
<1> HIDE DEF ms, n
<1>7. phis \in Seq(Nat) /\ Len(phis) = n /\ \A i \in 1 .. n : phis[i] = members[i].phi
  BY <1>2, <1>6
<1>8. Last(phis) = members[n].phi /\ Last(phis) \in Nat
  BY <1>2, <1>7 DEF Last
<1>9. pad \in Seq(Nat) /\ \A i \in DOMAIN pad : pad[i] = members[n].phi
  <2>1. SetSize - Len(phis) \in Int
    BY <1>2, <1>7, SizeAssumption
  <2>2. CASE SetSize - Len(phis) \in Nat
    BY <1>8, <2>2, IsASeq
  <2>3. CASE SetSize - Len(phis) < 0
    <3>1. pad = << >>
      BY <2>1, <2>3
    <3> HIDE DEF pad
    <3> QED
      BY <3>1
  <2> QED
    BY <2>1, <2>2, <2>3
<1> HIDE DEF phis, pad
<1>10. Len(pad) \in Nat /\ \A i \in 1 .. Len(pad) : pad[i] = members[n].phi
  BY <1>9, LenProperties
<1>11. /\ phis \o pad \in Seq(Nat) /\ Len(phis \o pad) = n + Len(pad)
       /\ \A i \in 1 .. n + Len(pad) : (phis \o pad)[i] = IF i <= n THEN phis[i]
                                                          ELSE pad[i - n]
  <2>1. phis \in Seq(Nat) /\ pad \in Seq(Nat) /\ Len(phis) = n
    BY <1>7, <1>9
  <2> QED
    BY <2>1, ConcatProperties
<1> DEFINE set == phis \o pad
<1>12. \A j \in 1 .. Len(set) : set[j] = members[IF j <= n THEN j ELSE n].phi
  <2> SUFFICES ASSUME NEW j \in 1 .. Len(set)
               PROVE  set[j] = members[IF j <= n THEN j ELSE n].phi
    OBVIOUS
  <2>1. CASE j <= n
    BY <1>2, <1>7, <1>10, <1>11, <2>1
  <2>2. CASE j > n
    <3>1. j - n \in 1 .. Len(pad)
      BY <1>2, <1>10, <1>11, <2>2
    <3>2. set[j] = pad[j - n]
      BY <1>2, <1>10, <1>11, <2>2
    <3> QED
      BY <1>2, <1>10, <2>2, <3>1, <3>2
  <2> QED
    BY <1>2, <2>1, <2>2
<1>13. AnonymitySet(id) = set
  BY DEF AnonymitySet, ms, phis, pad
<1>14. n \in 1 .. Len(members) /\ n <= Len(set) /\ set \in Seq(Nat)
  BY <1>2, <1>3, <1>4, <1>10, <1>11
<1> HIDE DEF set
<1> QED
  BY <1>12, <1>13, <1>14 DEF Shows

LEMMA IdleCalm == TaskCalm(Idle) /\ Idle.at = "idle"
  BY DEF TaskCalm, Idle

\* The steps by which a route only goes on.
MovesOn(t) ==
  \/ Fails(t) \/ CallInit(t) \/ ListMerchants(t)
  \/ \E m \in Merchant : CreateMerchant(t, m)
  \/ AdmitMerchant(t) \/ AddMerchantProcess(t)
  \/ \E b \in Ben : CallCredential(t, b) \/ CallRegister(t, b) \/ CallPayment(t, b)
  \/ CallFinalize(t) \/ FetchSet(t)
  \/ \E b \in Ben : \E id \in 1 .. Cardinality(Merchant) : CallPaymentId(t, b, id)
  \/ \E m \in Merchant : \E p \in tokens : CallReceive(t, m, p)
  \/ AddMerchantIdentity(t) \/ CallReset(t) \/ Withdraw(t)

LEMMA MovesOnFrame ==
  ASSUME AppInv, NEW t \in Task, MovesOn(t)
  PROVE  /\ UNCHANGED <<credentials, members, anchored>>
         /\ app'.phase = app.phase /\ app'.crs = app.crs /\ app'.ben = app.ben
         /\ app'.set = app.set /\ app'.setId = app.setId
<1>1. CASE Fails(t) \/ CallInit(t) \/ ListMerchants(t) \/ CallFinalize(t) \/ FetchSet(t)
           \/ CallReset(t)
  BY <1>1 DEF registry, Fails, CallInit, ListMerchants, CallFinalize, FetchSet, CallReset
<1>2. CASE \/ \E m \in Merchant : CreateMerchant(t, m)
           \/ \E b \in Ben : CallCredential(t, b) \/ CallRegister(t, b) \/ CallPayment(t, b)
           \/ \E b \in Ben : \E id \in 1 .. Cardinality(Merchant) : CallPaymentId(t, b, id)
           \/ \E m \in Merchant : \E p \in tokens : CallReceive(t, m, p)
  BY <1>2 DEF registry, CreateMerchant, CallCredential, CallRegister, CallPayment,
       CallPaymentId, CallReceive
<1>3. CASE AdmitMerchant(t) \/ Withdraw(t)
  BY <1>3 DEF AdmitMerchant, Withdraw, Ledger!AdmitMerchant, Ledger!Withdraw
<1>4. app = [field \in AppFields |-> app[field]]
  BY DEF AppInv, SoundApp
<1>5. CASE AddMerchantProcess(t)
  BY <1>4, <1>5 DEF AddMerchantProcess, AppFields, registry
<1>6. CASE AddMerchantIdentity(t)
  BY <1>4, <1>6 DEF AddMerchantIdentity, AppFields, registry
<1> QED
  BY <1>1, <1>2, <1>3, <1>5, <1>6 DEF MovesOn

LEMMA MovesOnCalm ==
  ASSUME OwnersInv, PublishedInv, AppInv, Calm, calm', NEW t \in Task, MovesOn(t)
  PROVE  Calm'
<1>0. /\ UNCHANGED <<credentials, members, anchored>>
      /\ app'.phase = app.phase /\ app'.crs = app.crs /\ app'.ben = app.ben
      /\ app'.set = app.set /\ app'.setId = app.setId
  BY MovesOnFrame
<1> DEFINE Excluding(next) ==
             \A u \in Task : u # t => PairCalm(next, task[u]) /\ PairCalm(task[u], next)
<1>1. /\ AppCalm /\ MembersKept /\ TasksCalm /\ PairsCalm /\ TaskCalm(task[t])
      /\ \A u \in Task : u # t => PairCalm(task[t], task[u]) /\ PairCalm(task[u], task[t])
  BY DEF Calm, TasksCalm, PairsCalm
<1>2. ASSUME NEW next, Go(t, next), TaskCalm(next), task[t].at # "cleared",
             next.at = "idle" \/ Excluding(next)
      PROVE  Calm'
  BY <1>0, <1>2, RouteMoves
<1>3. ASSUME NEW next, Go(t, next), TaskCalm(next), Open(next), task[t].at # "cleared",
             InFlight(Resetting) = {} \/ task[t].at # "idle"
      PROVE  Calm'
  BY <1>1, <1>2, <1>3, OpenPairs
<1>4. CASE Go(t, Idle) /\ task[t].at # "cleared"
  BY <1>2, <1>4, IdleCalm
<1>5. CASE Fails(t) \/ AddMerchantProcess(t) \/ AddMerchantIdentity(t)
  BY <1>4, <1>5 DEF Fails, AddMerchantProcess, AddMerchantIdentity, End, At
<1>6. CASE CallInit(t)
  <2> DEFINE next == [at |-> "merchants"]
  <2>1. /\ Go(t, next) /\ At(t, "idle")
        /\ InFlight({"merchants", "crs", "reset", "withdrawn", "cleared"}) = {}
        /\ app.crs = None
    BY <1>1, <1>6 DEF CallInit, Initialized, AppCalm
  <2>2. TaskCalm(next)
    BY <2>1 DEF TaskCalm
  <2>3. Excluding(next)
    BY <2>1 DEF PairCalm, InFlight, Resetting
  <2> QED
    BY <1>2, <2>1, <2>2, <2>3 DEF At
<1>7. CASE ListMerchants(t)
  <2>1. At(t, "merchants")
    BY <1>7 DEF ListMerchants
  <2>2. CASE Len(merchants) < MinMerchants
    BY <1>4, <1>7, <2>2 DEF ListMerchants, End, At
  <2>3. CASE ~ (Len(merchants) < MinMerchants)
    <3>1. PICK order \in Listings : Go(t, [at |-> "crs", crs |-> order])
      BY <1>7, <2>3 DEF ListMerchants
    <3> DEFINE next == [at |-> "crs", crs |-> order]
    <3>2. order \in Seq(Merchant)
      <4>1. merchants \in Seq(Merchant) /\ order \in [1 .. Len(merchants) -> ToSet(merchants)]
        BY <3>1 DEF Listings, OwnersInv
      <4>2. Len(merchants) \in Nat /\ ToSet(merchants) \subseteq Merchant
        BY <4>1, LenProperties DEF ToSet
      <4> QED
        BY <4>1, <4>2
    <3>3. TaskCalm(next)
      BY <1>1, <2>1, <3>2 DEF TaskCalm, At
    <3>4. Excluding(next)
      BY <1>1, <2>1 DEF PairCalm, Resetting, At
    <3> QED
      BY <1>2, <2>1, <3>1, <3>3, <3>4 DEF At
  <2> QED
    BY <2>2, <2>3
<1>8. ASSUME NEW m \in Merchant, CreateMerchant(t, m)
      PROVE  Calm'
  <2> DEFINE next == [at |-> "merchant", merchant |-> m]
  <2>1. /\ Go(t, next) /\ At(t, "idle") /\ InFlight({"reset", "withdrawn", "cleared"}) = {}
        /\ TaskCalm(next) /\ Open(next)
    BY <1>8 DEF CreateMerchant, TaskCalm, Open, Resetting
  <2> QED
    BY <1>3, <2>1 DEF At, Resetting
<1>9. CASE AdmitMerchant(t)
  <2> DEFINE next == [at |-> "admitted", merchant |-> task[t].merchant, id |-> Len(merchants) + 1]
  <2>1. Go(t, next) /\ At(t, "merchant") /\ TaskCalm(next) /\ Open(next)
    BY <1>9 DEF AdmitMerchant, TaskCalm, Open, Resetting
  <2> QED
    BY <1>3, <2>1 DEF At
<1>10. ASSUME NEW b \in Ben, CallCredential(t, b)
       PROVE  Calm'
  <2> DEFINE next == [at |-> "credential", ben |-> b, crs |-> app.crs]
  <2>1. /\ Go(t, next) /\ At(t, "idle") /\ InFlight({"reset", "withdrawn", "cleared"}) = {}
        /\ {u \in InFlight({"credential"}) : task[u].ben = b} = {}
        /\ app.crs # None /\ app.ben[b] = None
    BY <1>10 DEF CallCredential, NoCredentialYet
  <2>2. TaskCalm(next)
    BY <2>1 DEF TaskCalm
  <2>3. Excluding(next)
    BY <2>1 DEF PairCalm, InFlight, Resetting
  <2> QED
    BY <1>2, <2>1, <2>2, <2>3 DEF At
<1>11. ASSUME NEW b \in Ben, CallRegister(t, b)
       PROVE  Calm'
  <2> DEFINE next == [at |-> "register", ben |-> b, cred |-> app.ben[b]]
  <2>1. /\ Go(t, next) /\ At(t, "idle") /\ InFlight({"reset", "withdrawn", "cleared"}) = {}
        /\ app.ben[b] # None
    BY <1>11 DEF CallRegister
  <2>2. TaskCalm(next) /\ Open(next)
    BY <2>1 DEF TaskCalm, Open, Resetting
  <2> QED
    BY <1>3, <2>1, <2>2 DEF At, Resetting
<1>12. CASE CallFinalize(t)
  <2> DEFINE next == [at |-> "finalize"]
  <2>1. /\ Go(t, next) /\ At(t, "idle") /\ InFlight({"reset", "withdrawn", "cleared"}) = {}
        /\ TaskCalm(next) /\ Open(next)
    BY <1>12 DEF CallFinalize, TaskCalm, Open, Resetting
  <2> QED
    BY <1>3, <2>1 DEF At, Resetting
<1>13. CASE FetchSet(t)
  <2> DEFINE set == [commitments |-> AnonymitySet(task[t].id), finalized |-> TRUE]
             next == [at |-> "store", set |-> set]
  <2>1. Go(t, next) /\ At(t, "fetch") /\ task[t].id \in DOMAIN published
    BY <1>13 DEF FetchSet
  <2>2. /\ OfMembers(anchored, members, task[t].id)
        /\ Alone => app.crs # None
    BY <1>1, <2>1 DEF TaskCalm, At
  <2>3. Shows(members, AnonymitySet(task[t].id))
    BY <2>1, <2>2, SetsShowMembers
  <2>4. TaskCalm(next) /\ Open(next)
    BY <2>2, <2>3 DEF TaskCalm, Open, Resetting
  <2> QED
    BY <1>3, <2>1, <2>4 DEF At
<1>14. ASSUME NEW b \in Ben, NEW id, CallPaymentId(t, b, id)
       PROVE  Calm'
  <2> DEFINE token == Proof(app.ben[b], app.crs, app.set.commitments, AppSetId, id,
                            credentials[app.ben[b]].index)
             next == [at |-> "token", token |-> token]
  <2>1. /\ Go(t, next) /\ At(t, "idle") /\ InFlight({"reset", "withdrawn", "cleared"}) = {}
        /\ app.crs # None /\ Finalized
    BY <1>14 DEF CallPaymentId
  <2>2. TaskCalm(next) /\ Open(next)
    BY <2>1 DEF TaskCalm, Open, Resetting
  <2> QED
    BY <1>3, <2>1, <2>2 DEF At, Resetting
<1>15. ASSUME NEW b \in Ben, CallPayment(t, b)
       PROVE  Calm'
  <2> DEFINE next == [at |-> "payment"]
  <2>1. /\ Go(t, next) /\ At(t, "idle") /\ InFlight({"reset", "withdrawn", "cleared"}) = {}
        /\ TaskCalm(next) /\ Open(next)
    BY <1>15 DEF CallPayment, TaskCalm, Open, Resetting
  <2> QED
    BY <1>3, <2>1 DEF At, Resetting
<1>16. ASSUME NEW m \in Merchant, NEW p, CallReceive(t, m, p)
       PROVE  Calm'
  <2> DEFINE next == [at |-> "accept", merchant |-> m, token |-> p]
  <2>1. /\ Go(t, next) /\ At(t, "idle") /\ InFlight({"reset", "withdrawn", "cleared"}) = {}
        /\ TaskCalm(next) /\ Open(next)
    BY <1>16 DEF CallReceive, TaskCalm, Open, Resetting
  <2> QED
    BY <1>3, <2>1 DEF At, Resetting
<1>17. CASE CallReset(t)
  <2> DEFINE next == [at |-> "reset"]
  <2>1. Go(t, next) /\ \A u \in Task : At(u, "idle")
    BY <1>17 DEF CallReset
  <2>2. TaskCalm(next) /\ Excluding(next)
    BY <2>1 DEF TaskCalm, PairCalm, At, Resetting
  <2> QED
    BY <1>2, <2>1, <2>2 DEF At
<1>18. CASE Withdraw(t)
  <2> DEFINE next == [at |-> "withdrawn"]
  <2>1. Go(t, next) /\ At(t, "reset")
    BY <1>18 DEF Withdraw
  <2>2. TaskCalm(next) /\ Excluding(next)
    BY <1>1, <2>1 DEF TaskCalm, PairCalm, At, Resetting
  <2> QED
    BY <1>2, <2>1, <2>2 DEF At
<1> QED
  BY <1>5, <1>6, <1>7, <1>8, <1>9, <1>10, <1>11, <1>12, <1>13, <1>14, <1>15, <1>16, <1>17, <1>18
     DEF MovesOn

\* Members join at the end, and so do anchored sets.
Grown ==
  /\ members' = members \/ \E e : members' = Append(members, e)
  /\ anchored' = anchored \/ anchored' = Append(anchored, members)

LEMMA GrownLists ==
  ASSUME PublishedInv, Grown
  PROVE  /\ Len(members) \in Nat /\ DOMAIN members = 1 .. Len(members)
         /\ Len(members) <= Len(members')
         /\ DOMAIN members \subseteq DOMAIN members'
         /\ \A i \in DOMAIN members : members'[i] = members[i]
         /\ \A set : Shows(members, set) => Shows(members', set)
         /\ \A id : OfMembers(anchored, members, id) => OfMembers(anchored', members', id)
<1>1. /\ Len(members) \in Nat /\ DOMAIN members = 1 .. Len(members)
      /\ Len(members') \in Nat /\ DOMAIN members' = 1 .. Len(members')
      /\ Len(members) <= Len(members')
      /\ \A i \in DOMAIN members : members'[i] = members[i]
  <2>1. IsSeq(members)
    BY DEF PublishedInv
  <2>2. CASE members' = members
    BY <2>1, <2>2, AppendIsSeq
  <2>3. ASSUME NEW e, members' = Append(members, e)
        PROVE  /\ Len(members) \in Nat /\ DOMAIN members = 1 .. Len(members)
               /\ Len(members') \in Nat /\ DOMAIN members' = 1 .. Len(members')
               /\ Len(members) <= Len(members')
               /\ \A i \in DOMAIN members : members'[i] = members[i]
    BY <2>1, <2>3, AppendIsSeq
  <2> QED
    BY <2>2, <2>3 DEF Grown
<1>2. ASSUME NEW id \in DOMAIN anchored
      PROVE  id \in DOMAIN anchored' /\ anchored'[id] = anchored[id]
  <2>1. IsSeq(anchored)
    BY DEF PublishedInv
  <2> QED
    BY <1>2, <2>1, AppendIsSeq DEF Grown
<1>3. ASSUME NEW set, Shows(members, set)
      PROVE  Shows(members', set)
  <2>1. PICK n \in 1 .. Len(members) :
          /\ n <= Len(set)
          /\ \A j \in 1 .. Len(set) : set[j] = members[IF j <= n THEN j ELSE n].phi
    BY <1>3 DEF Shows
  <2>2. ASSUME NEW j \in 1 .. Len(set)
        PROVE  set[j] = members'[IF j <= n THEN j ELSE n].phi
    BY <1>1, <2>1
  <2>3. n \in 1 .. Len(members') /\ set \in Seq(Nat)
    BY <1>1, <1>3 DEF Shows
  <2> QED
    BY <2>1, <2>2, <2>3 DEF Shows
<1>4. ASSUME NEW id, OfMembers(anchored, members, id)
      PROVE  OfMembers(anchored', members', id)
  <2>1. /\ id \in DOMAIN anchored /\ Len(anchored[id]) <= Len(members)
        /\ \A i \in 1 .. Len(anchored[id]) : members[i] = anchored[id][i]
    BY <1>4 DEF OfMembers, Grows
  <2>2. Len(anchored[id]) \in Nat
    BY <2>1, LenProperties DEF PublishedInv, IsSeq
  <2> QED
    BY <1>1, <1>2, <2>1, <2>2 DEF OfMembers, Grows
<1> QED
  BY <1>1, <1>3, <1>4

\* Another task may rely on what it relied on.
LEMMA TaskKept ==
  ASSUME PublishedInv, Grown, NEW x, TaskCalm(x), TaskTyped(x), app'.crs = app.crs,
         \A b \in Ben : app.ben[b] # None => app'.ben[b] = app.ben[b],
         x.at = "credential" => app'.ben[x.ben] = None,
         Alone' => Alone, Finalized => Finalized',
         x.at = "cleared" /\ Emptied => Emptied'
  PROVE  TaskCalm(x)'
<1>1. /\ x.at = "enrolled" => /\ app'.ben[x.ben] # None
                              /\ x.index \in Nat
                              /\ x.index + 1 \in DOMAIN members'
                              /\ members'[x.index + 1].phi = app'.ben[x.ben]
  <2>1. /\ DOMAIN members \subseteq DOMAIN members'
        /\ \A i \in DOMAIN members : members'[i] = members[i]
    BY GrownLists
  <2> QED
    BY <2>1 DEF TaskCalm, TaskTyped
<1>2. x.at = "register" => x.cred # None /\ app'.ben[x.ben] = x.cred
  BY DEF TaskCalm, TaskTyped
<1>3. /\ x.at \in {"finalized", "fetch"} => OfMembers(anchored', members', x.id)
      /\ x.at = "store" => Shows(members', x.set.commitments)
  BY GrownLists DEF TaskCalm
<1> HIDE DEF OfMembers, Shows, Finalized, Alone, Emptied
<1> QED
  BY <1>1, <1>2, <1>3 DEF TaskCalm

\* So may the state object, if it stays the same.
LEMMA CalmAppKept ==
  ASSUME PublishedInv, OwnersInv, Grown, AppCalm, app' = app,
         \A b \in Ben : app.ben[b] # None => credentials'[app.ben[b]] = credentials[app.ben[b]],
         Steady' => Steady, Alone' => Alone
  PROVE  AppCalm'
<1>1. /\ DOMAIN members \subseteq DOMAIN members'
      /\ \A i \in DOMAIN members : members'[i] = members[i]
  BY GrownLists
<1>2. \A b \in Ben : Own(b)'
  BY DEF AppCalm, Own
<1>3. Finalized' => \A b \in Ben : ReadyAt(b)'
  BY DEF AppCalm, ReadyAt, Finalized
<1>4. Steady' => \A b \in Ben : InPlace(b)'
  BY <1>1 DEF AppCalm, InPlace
<1>5. Steady' => /\ Finalized' => Shows(members', app'.set.commitments)
                 /\ app'.setId # None => OfMembers(anchored', members', app'.setId)
  BY GrownLists DEF AppCalm, Finalized
<1>6. Alone' => (app'.phase >= 1 => app'.crs # None) /\ (app'.phase \in {2, 3} => Finalized')
  BY DEF AppCalm, Finalized
<1> HIDE DEF Shows, OfMembers, Finalized, Alone, Steady, Own, ReadyAt, InPlace
<1> QED
  BY <1>2, <1>3, <1>4, <1>5, <1>6 DEF AppCalm

\* While a route is between two awaits, no reset is.
LEMMA NoResetBeside ==
  ASSUME PairsCalm, NEW t \in Task, task[t].at # "idle"
  PROVE  /\ \A u \in Task : u # t => task[u].at \notin Resetting
         /\ task[t].at # "cleared" => Steady
<1>1. \A u \in Task : u # t => task[u].at \notin Resetting
  BY DEF PairsCalm, PairCalm
<1> QED
  BY <1>1 DEF Steady, Resetting

\* So the other routes may rely on what they relied on.
LEMMA OthersKept ==
  ASSUME OwnersInv, PublishedInv, TasksCalm, PairsCalm, Grown, NEW t \in Task,
         task[t].at # "idle",
         \A u \in Task : u # t => task'[u] = task[u],
         app'.crs = app.crs,
         \A b \in Ben : app.ben[b] # None => app'.ben[b] = app.ben[b],
         \A u \in Task : u # t /\ task[u].at = "credential" => app'.ben[task[u].ben] = None,
         Alone' => Alone, Finalized => Finalized'
  PROVE  \A u \in Task : u # t => task'[u] = task[u] /\ \E x : x = task[u] /\ TaskCalm(x)'
<1> SUFFICES ASSUME NEW u \in Task, u # t
             PROVE  \E x : x = task[u] /\ TaskCalm(x)'
  OBVIOUS
<1>1. PICK x : x = task[u]
  OBVIOUS
<1>2. x.at # "cleared"
  BY <1>1, NoResetBeside DEF Resetting
<1>3. TaskCalm(x) /\ TaskTyped(x) /\ (x.at = "credential" => app'.ben[x.ben] = None)
  BY <1>1 DEF TasksCalm, OwnersInv
<1>4. TaskCalm(x)'
  BY <1>2, <1>3, TaskKept
<1> QED
  BY <1>1, <1>4

LEMMA EnrolCalm ==
  ASSUME OwnersInv, PublishedInv, AppInv, Calm, NEW t \in Task, Enrol(t)
  PROVE  Calm'
<1>1. PICK e, next :
        /\ e = [phi |-> task[t].cred, out |-> Fee]
        /\ next = [at |-> "enrolled", ben |-> task[t].ben, index |-> Len(members)]
        /\ At(t, "register") /\ Go(t, next) /\ members' = Append(members, e)
        /\ UNCHANGED <<app, credentials, anchored>>
  BY DEF Enrol, Ledger!Enrol
<1>2. /\ TaskCalm(task[t]) /\ TaskTyped(task[t]) /\ AppCalm /\ MembersKept /\ TasksCalm /\ PairsCalm
  BY DEF Calm, TasksCalm, OwnersInv
<1>3. task[t].cred # None /\ app.ben[task[t].ben] = task[t].cred /\ task[t].ben \in Ben
  BY <1>1, <1>2 DEF TaskCalm, TaskTyped, At
<1>4. Grown /\ e.phi = task[t].cred
  BY <1>1 DEF Grown
<1>5. /\ DOMAIN members' = 1 .. Len(members) + 1
      /\ members'[Len(members) + 1] = e
      /\ Len(members) \in Nat /\ DOMAIN members = 1 .. Len(members)
      /\ \A i \in DOMAIN members : members'[i] = members[i]
  BY <1>1, AppendIsSeq DEF PublishedInv
<1>6. credentials[task[t].cred].owner = task[t].ben
  BY <1>2, <1>3 DEF AppCalm, Own
<1>7. MembersKept'
  <2> SUFFICES ASSUME NEW i \in DOMAIN members', credentials[members'[i].phi].owner \in Ben
               PROVE  app.ben[credentials[members'[i].phi].owner] = members'[i].phi
    BY <1>1 DEF MembersKept
  <2>1. CASE i \in DOMAIN members
    BY <1>2, <1>5, <2>1 DEF MembersKept
  <2>2. CASE i = Len(members) + 1
    BY <1>3, <1>4, <1>5, <1>6, <2>2
  <2> QED
    BY <1>5, <2>1, <2>2
<1>8. /\ next.at = "enrolled" /\ next.ben = task[t].ben /\ next.index = Len(members)
      /\ Open(next)
  BY <1>1 DEF Open, Resetting
<1>9. TaskCalm(next)'
  BY <1>1, <1>3, <1>4, <1>5, <1>8 DEF TaskCalm
<1>10. /\ PairsCalm' /\ task'[t] = next
       /\ \A u \in Task : u # t => task'[u] = task[u]
  BY <1>1, <1>2, <1>8, OpenPairs, PairStep DEF At
<1>11. (Steady' => Steady) /\ (Alone' <=> Alone) /\ (Finalized' <=> Finalized)
  BY <1>1, <1>10 DEF Steady, Alone, Finalized, At
<1>12. AppCalm'
  BY <1>1, <1>2, <1>4, <1>11, CalmAppKept
<1>13. \A u \in Task : u # t => task'[u] = task[u] /\ \E x : x = task[u] /\ TaskCalm(x)'
  <2>1. \A u \in Task : task[u].at = "credential" => app.ben[task[u].ben] = None
    BY <1>2 DEF TasksCalm, TaskCalm
  <2> QED
    BY <1>1, <1>2, <1>4, <1>10, <1>11, <2>1, OthersKept DEF At
<1> QED
  BY <1>7, <1>9, <1>10, <1>12, <1>13, TasksMove DEF Calm

LEMMA FinalizeCalm ==
  ASSUME OwnersInv, PublishedInv, AppInv, Calm, NEW t \in Task, Finalize(t)
  PROVE  Calm'
<1>1. PICK next :
        /\ next = [at |-> "finalized", id |-> Len(anchored')]
        /\ At(t, "finalize") /\ Go(t, next) /\ members # << >>
        /\ anchored' = Append(anchored, members)
        /\ UNCHANGED <<app, credentials, members>>
  BY DEF Finalize, FinalizeSet
<1>2. /\ AppCalm /\ MembersKept /\ TasksCalm /\ PairsCalm /\ Grown
      /\ next.at = "finalized" /\ next.id = Len(anchored') /\ Open(next)
  BY <1>1 DEF Calm, Grown, Open, Resetting
<1>3. /\ PairsCalm' /\ task'[t] = next
      /\ \A u \in Task : u # t => task'[u] = task[u]
  BY <1>1, <1>2, OpenPairs, PairStep DEF At
<1>4. /\ Steady /\ (Alone' <=> Alone) /\ (Finalized' <=> Finalized) /\ MembersKept'
  BY <1>1, <1>2, NoResetBeside DEF Alone, Finalized, At, MembersKept
<1>5. AppCalm'
  BY <1>1, <1>2, <1>4, CalmAppKept
<1>6. Len(members) \in Nat \ {0} /\ DOMAIN members = 1 .. Len(members)
  BY <1>1, EmptySeq, LenProperties DEF PublishedInv, IsSeq
<1>7. OfMembers(anchored', members', next.id)
  BY <1>1, <1>2, <1>6, AppendIsSeq DEF PublishedInv, OfMembers, Grows
<1>8. Alone => app.crs # None
  <2> DEFINE c == members[1].phi
  <2>1. c \in DOMAIN credentials
    BY <1>6 DEF OwnersInv
  <2>2. c # None
    BY <2>1, NoneAssumption, LenProperties DEF OwnersInv, CredentialsTyped, IsSeq
  <2>3. Alone => app.ben[credentials[c].owner] = c /\ credentials[c].owner \in Ben
    BY <1>2, <1>6, <2>1 DEF MembersKept, Alone
  <2> HIDE DEF c
  <2> QED
    BY <1>2, <2>2, <2>3 DEF AppCalm, Own
<1>9. TaskCalm(next)'
  BY <1>1, <1>2, <1>4, <1>7, <1>8 DEF TaskCalm
<1>10. \A u \in Task : u # t => task'[u] = task[u] /\ \E x : x = task[u] /\ TaskCalm(x)'
  <2>1. \A u \in Task : task[u].at = "credential" => app.ben[task[u].ben] = None
    BY <1>2 DEF TasksCalm, TaskCalm
  <2> QED
    BY <1>1, <1>2, <1>3, <1>4, <2>1, OthersKept DEF At
<1> QED
  BY <1>3, <1>4, <1>5, <1>9, <1>10, TasksMove DEF Calm

\* A member that a set shows is in the set where it is among the members.
LEMMA ShownInPlace ==
  ASSUME OwnersInv, PublishedInv, NEW set, Shows(members, set), NEW c \in ToSet(set),
         NEW i \in DOMAIN members, members[i].phi = c
  PROVE  i \in DOMAIN set /\ set[i] = c
<1>1. PICK n \in 1 .. Len(members) :
        /\ n <= Len(set)
        /\ \A j \in 1 .. Len(set) : set[j] = members[IF j <= n THEN j ELSE n].phi
  BY DEF Shows
<1>2. Len(set) \in Nat /\ DOMAIN set = 1 .. Len(set)
  BY LenProperties DEF Shows
<1>3. Len(members) \in Nat /\ DOMAIN members = 1 .. Len(members)
  BY LenProperties DEF PublishedInv, IsSeq
<1>4. PICK j \in 1 .. Len(set) : c = set[j]
  BY <1>2 DEF ToSet
<1> DEFINE k == IF j <= n THEN j ELSE n
<1>5. k \in DOMAIN members /\ k <= n /\ k \in Nat \ {0}
  BY <1>1, <1>3
<1>6. members[k].phi = c
  BY <1>1, <1>4
<1> HIDE DEF k
<1>7. k = i
  BY <1>5, <1>6 DEF OwnersInv
<1> QED
  BY <1>1, <1>2, <1>5, <1>6, <1>7

LEMMA ReadyInPlace ==
  ASSUME OwnersInv, PublishedInv, NEW b \in Ben, InPlace(b), Shows(members, app.set.commitments)
  PROVE  ReadyAt(b)
  BY ShownInPlace DEF InPlace, ReadyAt

\* The steps by which a route stores a set or its id, or only raises the phase.
LEMMA StoresCalm ==
  ASSUME OwnersInv, PublishedInv, AppInv, Calm, NEW t \in Task,
         SetSetIdBytes(t) \/ StoreSet(t) \/ HandOutToken(t) \/ HandOutRequest(t)
  PROVE  Calm'
<1>1. app = [field \in AppFields |-> app[field]]
  BY DEF AppInv, SoundApp
<1>2. /\ AppCalm /\ MembersKept /\ TasksCalm /\ PairsCalm /\ TaskCalm(task[t])
      /\ app.phase \in Int
  BY DEF Calm, TasksCalm, AppCalm
<1>3. /\ app'.crs = app.crs /\ app'.ben = app.ben
      /\ UNCHANGED <<credentials, members, anchored>>
      /\ task[t].at \notin {"idle", "cleared"}
  <2>1. CASE SetSetIdBytes(t)
    BY <1>1, <2>1 DEF SetSetIdBytes, AppFields, registry, At
  <2>2. CASE StoreSet(t)
    BY <1>1, <2>2 DEF StoreSet, AppFields, registry, At
  <2>3. CASE HandOutToken(t)
    BY <1>1, <2>3 DEF HandOutToken, AppFields, registry, At
  <2>4. CASE HandOutRequest(t)
    BY <1>1, <2>4 DEF HandOutRequest, AppFields, registry, At
  <2> QED
    BY <2>1, <2>2, <2>3, <2>4
<1>4. PICK next : Go(t, next) /\ Open(next) /\ TaskCalm(next)
                  /\ (next = Idle \/ next = [at |-> "fetch", id |-> task[t].id])
  <2>1. CASE SetSetIdBytes(t)
    <3>1. Go(t, [at |-> "fetch", id |-> task[t].id]) /\ At(t, "finalized")
      BY <2>1 DEF SetSetIdBytes
    <3>2. /\ TaskCalm([at |-> "fetch", id |-> task[t].id])
          /\ Open([at |-> "fetch", id |-> task[t].id])
      BY <1>2, <3>1 DEF TaskCalm, Open, Resetting, At
    <3> QED
      BY <3>1, <3>2
  <2>2. CASE StoreSet(t) \/ HandOutToken(t) \/ HandOutRequest(t)
    <3>1. Go(t, Idle)
      BY <2>2 DEF StoreSet, HandOutToken, HandOutRequest, End
    <3>2. Open(Idle)
      BY DEF Open, Idle, Resetting
    <3> QED
      BY <3>1, <3>2, IdleCalm
  <2> QED
    BY <2>1, <2>2
<1>5. /\ PairsCalm' /\ task'[t] = next
      /\ \A u \in Task : u # t => task'[u] = task[u]
  BY <1>2, <1>3, <1>4, OpenPairs, PairStep
<1>6. Steady
  BY <1>2, <1>3, NoResetBeside
<1>7. /\ \A b \in Ben : Own(b) /\ InPlace(b) /\ Own(b)' /\ InPlace(b)'
      /\ MembersKept' /\ (Alone' <=> Alone)
      /\ app.crs # None => app.phase >= 0
      /\ Alone => (app.phase >= 1 => app.crs # None) /\ (app.phase \in {2, 3} => Finalized)
      /\ Finalized => Shows(members, app.set.commitments)
      /\ app.setId # None => OfMembers(anchored, members, app.setId)
  BY <1>2, <1>3, <1>6 DEF AppCalm, Own, InPlace, MembersKept, Alone
<1>8. /\ app'.phase \in Int /\ app'.phase >= app.phase
      /\ Alone => (app'.phase >= 1 => app.crs # None) /\ (app'.phase \in {2, 3} => Finalized')
      /\ Finalized => Finalized'
      /\ Finalized' => Shows(members, app'.set.commitments)
      /\ app'.setId # None => OfMembers(anchored, members, app'.setId)
  <2>1. CASE SetSetIdBytes(t)
    <3>1. /\ app'.phase = app.phase /\ app'.set = app.set /\ app'.setId = task[t].id
          /\ At(t, "finalized")
      BY <1>1, <2>1 DEF SetSetIdBytes, AppFields
    <3>2. OfMembers(anchored, members, task[t].id)
      BY <1>2, <3>1 DEF TaskCalm, At
    <3>3. Finalized' <=> Finalized
      BY <3>1 DEF Finalized
    <3> QED
      BY <1>2, <1>7, <3>1, <3>2, <3>3
  <2>2. CASE StoreSet(t)
    <3>1. /\ app'.phase = Raised(2) /\ app'.set = task[t].set /\ app'.setId = app.setId
          /\ At(t, "store")
      BY <1>1, <2>2 DEF StoreSet, AppFields
    <3>2. /\ task[t].set = [commitments |-> task[t].set.commitments, finalized |-> TRUE]
          /\ Shows(members, task[t].set.commitments)
          /\ Alone => app.crs # None
      BY <1>2, <3>1 DEF TaskCalm, At
    <3>3. task[t].set # None /\ task[t].set.finalized
      <4>1. PICK list \in Seq(Nat) : task[t].set = [commitments |-> list, finalized |-> TRUE]
        BY <3>2 DEF Shows
      <4>2. [commitments |-> list, finalized |-> TRUE]
              \in [commitments : Seq(Nat), finalized : BOOLEAN]
        OBVIOUS
      <4> QED
        BY <4>1, <4>2, NoneAssumption
    <3>4. Finalized'
      BY <3>1, <3>3 DEF Finalized
    <3>5. app'.phase \in Int /\ app'.phase >= app.phase
      BY <1>2, <3>1 DEF Raised
    <3> QED
      BY <1>7, <3>1, <3>2, <3>4, <3>5
  <2>3. CASE HandOutToken(t)
    <3>1. /\ app'.phase = Raised(3) /\ app'.set = app.set /\ app'.setId = app.setId
          /\ At(t, "token")
      BY <1>1, <2>3 DEF HandOutToken, AppFields
    <3>2. app.crs # None /\ Finalized
      BY <1>2, <3>1 DEF TaskCalm, At
    <3>3. Finalized'
      BY <3>1, <3>2 DEF Finalized
    <3>4. app'.phase \in Int /\ app'.phase >= app.phase
      BY <1>2, <3>1 DEF Raised
    <3> QED
      BY <1>7, <3>1, <3>2, <3>3, <3>4
  <2>4. CASE HandOutRequest(t)
    <3>1. /\ app'.phase = Raised(5) /\ app'.set = app.set /\ app'.setId = app.setId
          /\ At(t, "payment")
      BY <1>1, <2>4 DEF HandOutRequest, AppFields
    <3>2. app.crs # None
      BY <1>2, <3>1 DEF TaskCalm, At
    <3>3. Finalized' <=> Finalized
      BY <3>1 DEF Finalized
    <3>4. /\ app'.phase \in Int /\ app'.phase >= app.phase
          /\ app'.phase \in {2, 3} => app'.phase = app.phase
      BY <1>2, <3>1 DEF Raised
    <3> QED
      BY <1>7, <3>1, <3>2, <3>3, <3>4
  <2> QED
    BY <2>1, <2>2, <2>3, <2>4
<1>9. Finalized' => \A b \in Ben : ReadyAt(b)'
  <2> SUFFICES ASSUME NEW b \in Ben, Finalized' PROVE ReadyAt(b)'
    OBVIOUS
  <2>1. InPlace(b) /\ Shows(members, app'.set.commitments)
    BY <1>7, <1>8
  <2> QED
    BY <1>3, <2>1, ShownInPlace DEF ReadyAt, InPlace
<1>10. /\ app'.crs # None => app'.phase >= 0
  BY <1>2, <1>3, <1>7, <1>8
<1>11. AppCalm'
  <2> HIDE DEF Shows, OfMembers, Finalized, Alone, Steady, Own, ReadyAt, InPlace
  <2> QED
    BY <1>3, <1>7, <1>8, <1>9, <1>10 DEF AppCalm
<1>12. TaskCalm(next)'
  BY <1>3, <1>4, <1>7, <1>8 DEF TaskCalm, Idle
<1>13. \A u \in Task : u # t => task'[u] = task[u] /\ \E x : x = task[u] /\ TaskCalm(x)'
  <2>1. \A u \in Task : task[u].at = "credential" => app.ben[task[u].ben] = None
    BY <1>2 DEF TasksCalm, TaskCalm
  <2>2. Grown
    BY <1>3 DEF Grown
  <2> QED
    BY <1>2, <1>3, <1>5, <1>7, <1>8, <2>1, <2>2, OthersKept
<1> QED
  BY <1>5, <1>7, <1>11, <1>12, <1>13, TasksMove DEF Calm

LEMMA UpdateCalm ==
  ASSUME OwnersInv, PublishedInv, AppInv, Calm, NEW t \in Task, UpdateBeneficiary(t)
  PROVE  Calm'
<1>1. /\ AppCalm /\ MembersKept /\ TasksCalm /\ PairsCalm /\ TaskCalm(task[t])
      /\ TaskTyped(task[t])
  BY DEF Calm, TasksCalm, OwnersInv
<1>2. PICK b, c, i : b \in Ben /\ b = task[t].ben /\ c = app.ben[b] /\ i = task[t].index
  BY <1>1 DEF UpdateBeneficiary, TaskTyped, At
<1>3. /\ task[t].at = "enrolled" /\ UNCHANGED <<app, members, anchored>>
      /\ c # None /\ i \in Nat /\ i + 1 \in DOMAIN members /\ members[i + 1].phi = c
  BY <1>1, <1>2 DEF UpdateBeneficiary, TaskCalm, At, registry
<1>4. /\ credentials' = [credentials EXCEPT ![c].registered = TRUE, ![c].index = i]
      /\ c \in DOMAIN credentials
  BY <1>2, <1>3 DEF UpdateBeneficiary, OwnersInv
<1>5. /\ CredentialsGrow(credentials, credentials') /\ DOMAIN credentials' = DOMAIN credentials
      /\ credentials'[c].index = i
      /\ \A e \in DOMAIN credentials : e # c => credentials'[e] = credentials[e]
  BY <1>4, CredentialChanged DEF OwnersInv
<1>6. Steady /\ (Alone' <=> Alone) /\ (Finalized' <=> Finalized) /\ Grown
  BY <1>1, <1>3, <1>5, NoResetBeside DEF Alone, Finalized, Grown, CredentialsGrow
<1>7. \A a \in Ben : Own(a)'
  <2> SUFFICES ASSUME NEW a \in Ben, app.ben[a] # None PROVE Own(a)'
    BY <1>3 DEF Own
  <2>1. app.ben[a] \in DOMAIN credentials /\ Own(a)
    BY <1>1 DEF OwnersInv, AppCalm
  <2> QED
    BY <1>3, <1>5, <2>1 DEF Own, CredentialsGrow
<1>8. \A a \in Ben : a # b /\ app.ben[a] # None => credentials'[app.ben[a]] = credentials[app.ben[a]]
  <2> SUFFICES ASSUME NEW a \in Ben, a # b, app.ben[a] # None
               PROVE  credentials'[app.ben[a]] = credentials[app.ben[a]]
    OBVIOUS
  <2>1. app.ben[a] \in DOMAIN credentials /\ Own(a) /\ Own(b)
    BY <1>1, <1>2 DEF OwnersInv, AppCalm
  <2>2. app.ben[a] # c
    BY <1>2, <1>3, <2>1 DEF Own
  <2> QED
    BY <1>5, <2>1, <2>2
<1>9. \A a \in Ben : InPlace(a)'
  <2> SUFFICES ASSUME NEW a \in Ben PROVE InPlace(a)'
    OBVIOUS
  <2>1. CASE a = b
    BY <1>2, <1>3, <1>5, <2>1 DEF InPlace
  <2>2. CASE a # b
    BY <1>1, <1>3, <1>6, <1>8, <2>2 DEF InPlace, AppCalm
  <2> QED
    BY <2>1, <2>2
<1>10. Finalized' => \A a \in Ben : ReadyAt(a)'
  <2> SUFFICES ASSUME NEW a \in Ben, Finalized' PROVE ReadyAt(a)'
    OBVIOUS
  <2>1. InPlace(a)' /\ Shows(members, app.set.commitments)
    BY <1>1, <1>6, <1>9 DEF AppCalm
  <2> QED
    BY <1>3, <2>1, ShownInPlace DEF ReadyAt, InPlace
<1>11. AppCalm'
  <2>1. /\ app.phase \in Int /\ (app.crs # None => app.phase >= 0)
        /\ Finalized => Shows(members, app.set.commitments)
        /\ app.setId # None => OfMembers(anchored, members, app.setId)
        /\ Alone => (app.phase >= 1 => app.crs # None) /\ (app.phase \in {2, 3} => Finalized)
    BY <1>1, <1>6 DEF AppCalm
  <2> HIDE DEF Shows, OfMembers, Finalized, Alone, Steady, Own, ReadyAt, InPlace
  <2> QED
    BY <1>3, <1>6, <1>7, <1>9, <1>10, <2>1 DEF AppCalm
<1>12. MembersKept'
  BY <1>1, <1>3, <1>5 DEF MembersKept, CredentialsGrow, OwnersInv
<1>13. PICK next : Go(t, next) /\ Open(next) /\ TaskCalm(next)
                   /\ (next = Idle \/ next = [at |-> "fetch", id |-> app.setId])
  <2>1. CASE app.setId = None
    <3>1. Go(t, Idle) /\ Open(Idle)
      BY <2>1 DEF UpdateBeneficiary, Open, Idle, Resetting
    <3> QED
      BY <3>1, IdleCalm
  <2>2. CASE app.setId # None
    <3>1. /\ Go(t, [at |-> "fetch", id |-> app.setId])
          /\ Open([at |-> "fetch", id |-> app.setId])
      BY <2>2 DEF UpdateBeneficiary, Open, Resetting
    <3>2. OfMembers(anchored, members, app.setId) /\ app.crs # None
      BY <1>1, <1>2, <1>3, <1>6, <2>2 DEF AppCalm, Own
    <3>3. TaskCalm([at |-> "fetch", id |-> app.setId])
      BY <3>2 DEF TaskCalm
    <3> QED
      BY <3>1, <3>3
  <2> QED
    BY <2>1, <2>2
<1>14. /\ PairsCalm' /\ task'[t] = next
       /\ \A u \in Task : u # t => task'[u] = task[u]
  BY <1>1, <1>3, <1>13, OpenPairs, PairStep
<1>15. TaskCalm(next)'
  BY <1>3, <1>6, <1>13 DEF TaskCalm, Idle
<1>16. \A u \in Task : u # t => task'[u] = task[u] /\ \E x : x = task[u] /\ TaskCalm(x)'
  <2>1. \A u \in Task : task[u].at = "credential" => app.ben[task[u].ben] = None
    BY <1>1 DEF TasksCalm, TaskCalm
  <2> QED
    BY <1>1, <1>3, <1>6, <1>14, <2>1, OthersKept
<1> QED
  BY <1>11, <1>12, <1>14, <1>15, <1>16, TasksMove DEF Calm

LEMMA AddBeneficiaryCalm ==
  ASSUME OwnersInv, PublishedInv, AppInv, Calm, NEW t \in Task, AddBeneficiary(t)
  PROVE  Calm'
<1>1. /\ AppCalm /\ MembersKept /\ TasksCalm /\ PairsCalm /\ TaskCalm(task[t])
      /\ TaskTyped(task[t]) /\ app.phase \in Int
  BY DEF Calm, TasksCalm, OwnersInv, AppCalm
<1>2. PICK b \in Ben, n \in {Len(credentials')} : b = task[t].ben /\ n = Len(credentials')
  BY <1>1 DEF AddBeneficiary, TaskTyped, At
<1>3. app = [field \in AppFields |-> app[field]] /\ app.ben = [a \in Ben |-> app.ben[a]]
  BY DEF AppInv, SoundApp, OwnersInv
<1>4. /\ task[t].at = "credential" /\ UNCHANGED <<members, anchored>>
      /\ app' = [app EXCEPT !.ben[b] = n, !.phase = Raised(1)]
      /\ credentials' = Append(credentials, [owner |-> b, crs |-> app.crs, index |-> None,
                                             registered |-> FALSE])
      /\ Go(t, Idle)
      /\ app.crs # None /\ app.ben[b] = None
  BY <1>1, <1>2 DEF AddBeneficiary, TaskCalm, At, registry, End
<1>5. /\ app'.crs = app.crs /\ app'.set = app.set /\ app'.setId = app.setId
      /\ app'.phase = Raised(1)
      /\ app'.ben = [app.ben EXCEPT ![b] = n]
  BY <1>3, <1>4 DEF AppFields
<1>6. /\ app'.ben[b] = n /\ \A a \in Ben : a # b => app'.ben[a] = app.ben[a]
  BY <1>3, <1>5
<1>7. /\ \A c \in DOMAIN credentials : credentials'[c] = credentials[c]
      /\ DOMAIN credentials' = DOMAIN credentials \union {n}
      /\ credentials'[n] = [owner |-> b, crs |-> app.crs, index |-> None, registered |-> FALSE]
      /\ n \in Nat /\ DOMAIN credentials \subseteq Nat
  BY <1>2, <1>4, CredentialAdded DEF OwnersInv
<1>8. None \notin Nat
  BY NoneAssumption
<1>9. /\ app'.phase \in Int /\ app'.phase >= 1
      /\ app'.phase \in {2, 3} => app'.phase = app.phase
  BY <1>1, <1>5 DEF Raised
<1>10. /\ Steady /\ (Alone' => Alone) /\ (Finalized' <=> Finalized) /\ Grown
  BY <1>1, <1>4, <1>5, <1>7, NoResetBeside DEF Alone, Finalized, Grown
<1>11. /\ credentials'[n].owner = b /\ credentials'[n].crs = app.crs
       /\ credentials'[n].registered = FALSE
  BY <1>7
<1>12. \A a \in Ben : a # b /\ app.ben[a] # None => credentials'[app.ben[a]] = credentials[app.ben[a]]
  BY <1>7 DEF OwnersInv
<1>13. \A a \in Ben : Own(a)' /\ InPlace(a)' /\ (Finalized' => ReadyAt(a)')
  <2> SUFFICES ASSUME NEW a \in Ben PROVE Own(a)' /\ InPlace(a)' /\ (Finalized' => ReadyAt(a)')
    OBVIOUS
  <2>1. CASE a = b
    BY <1>4, <1>5, <1>6, <1>11, <2>1 DEF Own, InPlace, ReadyAt
  <2>2. CASE a # b
    <3>1. Own(a) /\ InPlace(a) /\ (Finalized => ReadyAt(a))
      BY <1>1, <1>10 DEF AppCalm
    <3>2. app'.ben[a] = app.ben[a]
      BY <1>6, <2>2
    <3>3. Own(a)'
      BY <1>5, <1>12, <2>2, <3>1, <3>2 DEF Own
    <3>4. InPlace(a)'
      BY <1>4, <1>12, <2>2, <3>1, <3>2 DEF InPlace
    <3>5. Finalized' => ReadyAt(a)'
      BY <1>5, <1>10, <1>12, <2>2, <3>1, <3>2 DEF ReadyAt
    <3> QED
      BY <3>3, <3>4, <3>5
  <2> QED
    BY <2>1, <2>2
<1>14. AppCalm'
  <2>1. /\ Finalized => Shows(members, app.set.commitments)
        /\ app.setId # None => OfMembers(anchored, members, app.setId)
        /\ Alone => (app.phase \in {2, 3} => Finalized)
    BY <1>1, <1>10 DEF AppCalm
  <2>2. app'.phase >= 0
    BY <1>9
  <2> HIDE DEF Shows, OfMembers, Finalized, Alone, Steady, Own, ReadyAt, InPlace
  <2> QED
    BY <1>4, <1>5, <1>9, <1>10, <1>13, <2>1, <2>2 DEF AppCalm
<1>15. MembersKept'
  <2> SUFFICES ASSUME NEW i \in DOMAIN members, credentials'[members[i].phi].owner \in Ben
               PROVE  app'.ben[credentials'[members[i].phi].owner] = members[i].phi
    BY <1>4 DEF MembersKept
  <2>1. members[i].phi \in DOMAIN credentials
    BY DEF OwnersInv
  <2>2. /\ credentials'[members[i].phi] = credentials[members[i].phi]
        /\ app.ben[credentials[members[i].phi].owner] = members[i].phi
    BY <1>1, <1>7, <2>1 DEF MembersKept
  <2>3. credentials[members[i].phi].owner # b
    BY <1>4, <1>7, <1>8, <2>1, <2>2
  <2> QED
    BY <1>6, <2>2, <2>3
<1>16. /\ PairsCalm' /\ task'[t] = Idle
       /\ \A u \in Task : u # t => task'[u] = task[u]
  BY <1>1, <1>4, IdleCalm, PairStep
<1>17. TaskCalm(Idle)'
  BY DEF TaskCalm, Idle
<1>18. \A u \in Task : u # t => task'[u] = task[u] /\ \E x : x = task[u] /\ TaskCalm(x)'
  <2>1. \A u \in Task : u # t /\ task[u].at = "credential" => app'.ben[task[u].ben] = None
    <3> SUFFICES ASSUME NEW u \in Task, u # t, task[u].at = "credential"
                 PROVE  app'.ben[task[u].ben] = None
      OBVIOUS
    <3>1. task[u].ben # b /\ task[u].ben \in Ben /\ app.ben[task[u].ben] = None
      BY <1>1, <1>2, <1>4 DEF PairsCalm, PairCalm, TasksCalm, TaskCalm, OwnersInv, TaskTyped
    <3> QED
      BY <1>6, <3>1
  <2>2. \A a \in Ben : app.ben[a] # None => app'.ben[a] = app.ben[a]
    BY <1>4, <1>6
  <2> QED
    BY <1>1, <1>4, <1>5, <1>10, <1>16, <2>1, <2>2, OthersKept
<1> QED
  BY <1>14, <1>15, <1>16, <1>17, <1>18, TasksMove DEF Calm

\* A CRS is stored when there is none, and then there is no credential either.
LEMMA StoreCrsCalm ==
  ASSUME OwnersInv, PublishedInv, AppInv, Calm, NEW t \in Task, StoreCrs(t)
  PROVE  Calm'
<1>1. /\ AppCalm /\ MembersKept /\ TasksCalm /\ PairsCalm /\ TaskCalm(task[t])
      /\ app.phase \in Int
  BY DEF Calm, TasksCalm, AppCalm
<1>2. PICK crs, set : /\ crs = task[t].crs
                      /\ set = [commitments |-> << >>, finalized |-> FALSE]
  OBVIOUS
<1>3. /\ task[t].at = "crs" /\ UNCHANGED <<credentials, members, anchored>>
      /\ app' = [app EXCEPT !.crs = crs, !.set = set, !.phase = Raised(0)]
      /\ Go(t, Idle)
      /\ app.crs = None /\ crs \in Seq(Merchant)
  BY <1>1, <1>2 DEF StoreCrs, TaskCalm, At, registry, End
<1>4. app = [field \in AppFields |-> app[field]]
  BY DEF AppInv, SoundApp
<1>5. /\ app'.crs = crs /\ app'.set = set /\ app'.setId = app.setId
      /\ app'.phase = Raised(0) /\ app'.ben = app.ben
  BY <1>3, <1>4 DEF AppFields
<1>6. crs # None
  BY <1>3, NoneAssumption
<1>7. ~ Finalized'
  BY <1>2, <1>5 DEF Finalized
<1>8. /\ \A b \in Ben : app'.ben[b] = None
      /\ \A b \in Ben : Own(b)' /\ InPlace(b)'
  BY <1>1, <1>3, <1>5 DEF AppCalm, Own, InPlace
<1>9. Steady /\ (Alone' <=> Alone)
  BY <1>1, <1>3, NoResetBeside DEF Alone
<1>10. /\ app'.phase \in Int /\ app'.phase >= 0
       /\ Alone => app'.phase = 0
  BY <1>1, <1>3, <1>5 DEF Raised, AppCalm
<1>11. AppCalm'
  <2>1. app.setId # None => OfMembers(anchored, members, app.setId)
    BY <1>1, <1>9 DEF AppCalm
  <2> HIDE DEF Shows, OfMembers, Finalized, Alone, Steady, Own, ReadyAt, InPlace
  <2> QED
    BY <1>3, <1>5, <1>6, <1>7, <1>8, <1>9, <1>10, <2>1 DEF AppCalm
<1>12. MembersKept'
  BY <1>1, <1>3, <1>5 DEF MembersKept
<1>13. /\ PairsCalm' /\ task'[t] = Idle
       /\ \A u \in Task : u # t => task'[u] = task[u]
  BY <1>1, <1>3, IdleCalm, PairStep
<1>14. TaskCalm(Idle)'
  BY DEF TaskCalm, Idle
<1>15. ASSUME NEW u \in Task, u # t
       PROVE  \E x : x = task[u] /\ TaskCalm(x)'
  <2>1. PICK x : x = task[u]
    OBVIOUS
  <2>2. TaskCalm(x) /\ TaskTyped(x)
    BY <1>1, <2>1 DEF TasksCalm, OwnersInv
  <2>3. x.at \notin {"merchants", "crs", "cleared"}
    BY <1>1, <1>3, <1>15, <2>1, NoResetBeside DEF PairsCalm, PairCalm, Resetting
  <2>4. x.at \notin {"credential", "register", "enrolled", "token", "payment"}
    <3>1. x.at \notin {"credential", "token", "payment"}
      BY <1>3, <2>2 DEF TaskCalm
    <3>2. x.at \notin {"register", "enrolled"}
      BY <1>5, <1>8, <2>2 DEF TaskCalm, TaskTyped
    <3> QED
      BY <3>1, <3>2
  <2>5. TaskCalm(x)'
    BY <1>3, <1>5, <1>6, <2>2, <2>3, <2>4 DEF TaskCalm
  <2> QED
    BY <2>1, <2>5
<1> QED
  BY <1>11, <1>12, <1>13, <1>14, <1>15, TasksMove DEF Calm

\* The last two steps of a reset, which is alone.
LEMMA ResetCalm ==
  ASSUME OwnersInv, PublishedInv, AppInv, Calm, calm', NEW t \in Task,
         StartAfresh(t) \/ ResetState(t)
  PROVE  Calm'
<1>1. /\ AppCalm /\ MembersKept /\ TasksCalm /\ PairsCalm /\ TaskCalm(task[t])
  BY DEF Calm, TasksCalm
<1>2. ASSUME NEW next, Go(t, next), task[t].at \in Resetting, TaskCalm(next)',
             next.at = "idle" \/ next.at \in Resetting
      PROVE  /\ PairsCalm' /\ TasksCalm' /\ task'[t] = next
             /\ \A u \in Task : u # t => task'[u].at = "idle"
  <2>1. \A u \in Task : u # t => task[u].at = "idle"
    BY <1>1, <1>2 DEF PairsCalm, PairCalm
  <2>2. \A u \in Task : u # t => PairCalm(next, task[u]) /\ PairCalm(task[u], next)
    BY <1>2, <2>1 DEF PairCalm, Resetting
  <2>3. /\ PairsCalm' /\ task'[t] = next
        /\ \A u \in Task : u # t => task'[u] = task[u]
    BY <1>1, <1>2, <2>2, PairStep
  <2>4. ASSUME NEW u \in Task, u # t
        PROVE  \E x : x = task[u] /\ TaskCalm(x)'
    <3>1. PICK x : x = task[u]
      OBVIOUS
    <3>2. x.at = "idle"
      BY <2>1, <2>4, <3>1
    <3>3. TaskCalm(x)'
      BY <3>2 DEF TaskCalm
    <3> QED
      BY <3>1, <3>3
  <2>5. TasksCalm'
    BY <1>2, <2>3, <2>4, TasksMove
  <2> QED
    BY <2>1, <2>3, <2>5
<1>3. CASE StartAfresh(t)
  <2>1. PICK next : next = [at |-> "cleared"] /\ Go(t, next)
    BY <1>3 DEF StartAfresh
  <2>2. /\ task[t].at = "withdrawn" /\ members' = << >>
        /\ UNCHANGED <<app, credentials, anchored>>
    BY <1>3 DEF StartAfresh, Ledger!StartAfresh, At
  <2>3. MembersKept' /\ Emptied'
    BY <2>2 DEF MembersKept, Emptied
  <2>4. TaskCalm(next)'
    BY <2>1, <2>3 DEF TaskCalm
  <2>5. PairsCalm' /\ TasksCalm' /\ task'[t] = next
    BY <1>2, <2>1, <2>2, <2>4 DEF Resetting
  <2>6. ~ Steady'
    BY <2>1, <2>5 DEF Steady
  <2>7. (Alone' <=> Alone) /\ (Finalized' <=> Finalized)
    BY <2>2 DEF Alone, Finalized
  <2>8. AppCalm'
    <3>1. /\ \A b \in Ben : Own(b)'
          /\ Finalized => \A b \in Ben : ReadyAt(b)'
      BY <1>1, <2>2 DEF AppCalm, Own, ReadyAt
    <3> HIDE DEF Shows, OfMembers, Finalized, Alone, Steady, Own, ReadyAt, InPlace
    <3> QED
      BY <1>1, <2>2, <2>6, <2>7, <3>1 DEF AppCalm
  <2> QED
    BY <2>3, <2>5, <2>8 DEF Calm
<1>4. CASE ResetState(t)
  <2>1. /\ task[t].at = "cleared" /\ Go(t, Idle) /\ app' = Fresh
        /\ UNCHANGED <<credentials, members, anchored>>
    BY <1>4 DEF ResetState, At, End, Cleared, registry
  <2>2. TaskCalm(Idle)'
    BY DEF TaskCalm, Idle
  <2>3. PairsCalm' /\ TasksCalm'
    BY <1>2, <2>1, <2>2, IdleCalm DEF Resetting
  <2>4. /\ app'.phase = -1 /\ app'.crs = None /\ app'.set = None /\ app'.setId = None
        /\ \A b \in Ben : app'.ben[b] = None
    BY <2>1 DEF Fresh
  <2>5. AppCalm'
    BY <2>4 DEF AppCalm, Own, InPlace, Finalized
  <2>6. MembersKept'
    BY <1>1, <2>1 DEF TaskCalm, Emptied, MembersKept
  <2> QED
    BY <2>3, <2>5, <2>6 DEF Calm
<1> QED
  BY <1>3, <1>4

\* The library leaves the application's credentials and members alone.
LEMMA LibraryCalm ==
  ASSUME OwnersInv, PublishedInv, AppInv, Calm, Library
  PROVE  Calm'
<1>1. /\ AppCalm /\ MembersKept /\ TasksCalm /\ PairsCalm
      /\ UNCHANGED <<app, task>>
  BY LibraryEffects DEF Calm
<1>2. /\ PairsCalm' /\ (Steady' <=> Steady)
  BY <1>1 DEF PairsCalm, PairCalm, Steady
<1>3. CredentialsGrow(credentials, credentials')
  BY CredentialsKept DEF Next
<1>4. Alone' => Alone
  BY <1>3 DEF Alone, CredentialsGrow
<1>5. Finalized' <=> Finalized
  BY <1>1 DEF Finalized
<1>6. Grown
  <2>1. ASSUME NEW k \in Client, RegisterBeneficiary(k)
        PROVE  \E e : members' = Append(members, e)
    BY <2>1 DEF RegisterBeneficiary, Ledger!Enrol
  <2>2. FinalizeByClient => anchored' = Append(anchored, members)
    BY DEF FinalizeByClient, FinalizeSet
  <2> QED
    BY <2>1, <2>2, LibraryEffects DEF Grown
<1>7. ASSUME NEW b \in Ben, app.ben[b] # None
      PROVE  credentials'[app.ben[b]] = credentials[app.ben[b]]
  <2>1. app.ben[b] \in DOMAIN credentials /\ credentials[app.ben[b]].owner = b
    BY <1>1, <1>7 DEF OwnersInv, AppCalm, Own
  <2>2. ASSUME NEW k \in Client, NewClient(k)
        PROVE  credentials'[app.ben[b]] = credentials[app.ben[b]]
    <3>1. PICK crs : credentials' = Append(credentials, [owner |-> k, crs |-> crs,
                                                         index |-> None, registered |-> FALSE])
      BY <2>2 DEF NewClient
    <3> QED
      BY <2>1, <3>1, CredentialAdded DEF OwnersInv
  <2>3. ASSUME NEW k \in Client, NEW id \in DOMAIN published, AttachToSet(k, id)
        PROVE  credentials'[app.ben[b]] = credentials[app.ben[b]]
    <3>1. PICK i : /\ client[k] # None
                   /\ credentials' = [credentials EXCEPT ![client[k].cred].index = i]
      BY <2>3 DEF AttachToSet
    <3>2. client[k].cred \in DOMAIN credentials /\ credentials[client[k].cred].owner = k
      BY <3>1 DEF OwnersInv
    <3>3. client[k].cred # app.ben[b]
      BY <2>1, <3>2, OwnerAssumption
    <3> QED
      BY <2>1, <3>1, <3>2, <3>3, CredentialChanged DEF OwnersInv
  <2> QED
    BY <2>2, <2>3, LibraryEffects
<1>8. AppCalm'
  BY <1>1, <1>2, <1>4, <1>6, <1>7, CalmAppKept
<1>9. ASSUME NEW i \in DOMAIN members'
      PROVE  \/ i \in DOMAIN members /\ members'[i] = members[i]
             \/ credentials'[members'[i].phi].owner \notin Ben
  <2>1. CASE members' = members
    BY <1>9, <2>1
  <2>2. ASSUME NEW k \in Client, RegisterBeneficiary(k)
        PROVE  \/ i \in DOMAIN members /\ members'[i] = members[i]
               \/ credentials'[members'[i].phi].owner \notin Ben
    <3>1. PICK e : /\ e = [phi |-> client[k].cred, out |-> Fee] /\ client[k] # None
                   /\ members' = Append(members, e)
      BY <2>2 DEF RegisterBeneficiary, Ledger!Enrol
    <3>2. client[k].cred \in DOMAIN credentials /\ credentials[client[k].cred].owner = k
      BY <3>1 DEF OwnersInv
    <3>3. credentials'[e.phi].owner \notin Ben
      BY <1>3, <3>1, <3>2, OwnerAssumption DEF CredentialsGrow
    <3>4. (i \in DOMAIN members /\ members'[i] = members[i]) \/ members'[i] = e
      BY <1>9, <3>1, AppendIsSeq DEF PublishedInv
    <3> QED
      BY <3>3, <3>4
  <2> QED
    BY <2>1, <2>2, LibraryEffects
<1>10. \A i \in DOMAIN members : members[i].phi \in DOMAIN credentials
                                 /\ credentials'[members[i].phi].owner = credentials[members[i].phi].owner
  BY <1>3 DEF OwnersInv, CredentialsGrow
<1>11. MembersKept' /\ (Emptied => Emptied')
  BY <1>1, <1>9, <1>10 DEF MembersKept, Emptied
<1>12. TasksCalm'
  <2> SUFFICES ASSUME NEW t \in Task PROVE TaskCalm(task[t])'
    BY DEF TasksCalm
  <2>1. PICK x : x = task[t] /\ x = task'[t]
    BY <1>1
  <2>2. TaskCalm(x) /\ TaskTyped(x) /\ (x.at = "credential" => app.ben[x.ben] = None)
    BY <1>1, <2>1 DEF TasksCalm, OwnersInv, TaskCalm
  <2>3. TaskCalm(x)'
    BY <1>1, <1>4, <1>5, <1>6, <1>11, <2>2, TaskKept
  <2> QED
    BY <2>1, <2>3 DEF TaskCalm
<1> QED
  BY <1>2, <1>8, <1>11, <1>12 DEF Calm
-----------------------------------------------------------------------------
LEMMA RoutesStep ==
  PublishedInv /\ AppInv /\ OwnersInv /\ RoutesInv /\ [Next]_vars => RoutesInv'
<1> SUFFICES ASSUME PublishedInv, AppInv, OwnersInv, RoutesInv, [Next]_vars, calm'
             PROVE  Calm'
  BY DEF RoutesInv
<1>1. CASE UNCHANGED vars
  <2>1. Calm
    BY <1>1 DEF vars, RoutesInv
  <2>2. UNCHANGED <<members, anchored, credentials, app, task>>
    BY <1>1 DEF vars, registry
  <2> HIDE DEF vars
  <2>3. AppCalm' /\ MembersKept' /\ \A x : TaskCalm(x) => TaskCalm(x)'
    BY <2>1, <2>2, SameApp DEF Calm, Steady
  <2>4. TasksCalm'
    <3> SUFFICES ASSUME NEW t \in Task PROVE TaskCalm(task[t])'
      BY DEF TasksCalm
    <3>1. PICK x : x = task[t] /\ x = task'[t]
      BY <2>2
    <3>2. TaskCalm(x)'
      BY <2>1, <2>3, <3>1 DEF Calm, TasksCalm
    <3> QED
      BY <3>1, <3>2 DEF TaskCalm
  <2>5. PairsCalm'
    BY <2>1, <2>2 DEF Calm, PairsCalm, PairCalm
  <2> QED
    BY <2>3, <2>4, <2>5 DEF Calm
<1>2. CASE Library
  <2>1. calm
    BY <1>2, LibraryEffects
  <2> QED
    BY <1>2, <2>1, LibraryCalm DEF RoutesInv
<1>3. ASSUME NEW t \in Task, Route(t)
      PROVE  Calm'
  <2>1. CASE MovesOn(t)
    <3>1. calm
      BY <2>1 DEF MovesOn, Fails, CallInit, ListMerchants, CreateMerchant, AdmitMerchant,
         AddMerchantProcess, CallCredential, CallRegister, CallPayment, CallFinalize, FetchSet,
         CallPaymentId, CallReceive, AddMerchantIdentity, CallReset, Withdraw
    <3> QED
      BY <2>1, <3>1, MovesOnCalm DEF RoutesInv
  <2>2. CASE StoreCrs(t)
    <3>1. calm
      BY <2>2 DEF StoreCrs
    <3> QED
      BY <2>2, <3>1, StoreCrsCalm DEF RoutesInv
  <2>3. CASE AddBeneficiary(t)
    <3>1. calm
      BY <2>3 DEF AddBeneficiary
    <3> QED
      BY <2>3, <3>1, AddBeneficiaryCalm DEF RoutesInv
  <2>4. CASE Enrol(t)
    <3>1. calm
      BY <2>4 DEF Enrol
    <3> QED
      BY <2>4, <3>1, EnrolCalm DEF RoutesInv
  <2>5. CASE UpdateBeneficiary(t)
    <3>1. calm
      BY <2>5 DEF UpdateBeneficiary
    <3> QED
      BY <2>5, <3>1, UpdateCalm DEF RoutesInv
  <2>6. CASE Finalize(t)
    <3>1. calm
      BY <2>6 DEF Finalize
    <3> QED
      BY <2>6, <3>1, FinalizeCalm DEF RoutesInv
  <2>7. CASE SetSetIdBytes(t) \/ StoreSet(t) \/ HandOutToken(t) \/ HandOutRequest(t)
    <3>1. calm
      BY <2>7 DEF SetSetIdBytes, StoreSet, HandOutToken, HandOutRequest
    <3> QED
      BY <2>7, <3>1, StoresCalm DEF RoutesInv
  <2>8. CASE StartAfresh(t) \/ ResetState(t)
    <3>1. calm
      BY <2>8 DEF StartAfresh, ResetState
    <3> QED
      BY <2>8, <3>1, ResetCalm DEF RoutesInv
  <2> QED
    BY <1>3, <2>1, <2>2, <2>3, <2>4, <2>5, <2>6, <2>7, <2>8 DEF Route, MovesOn
<1> QED
  BY <1>1, <1>2, <1>3 DEF Next

LEMMA RoutesStart == Init => OwnersInv /\ RoutesInv
<1> SUFFICES ASSUME Init PROVE OwnersInv /\ RoutesInv
  OBVIOUS
<1>1. \A t \in Task : task[t].at = "idle"
  BY DEF Init, Idle
<1>2. /\ app.phase = -1 /\ app.crs = None /\ app.set = None /\ app.setId = None
      /\ app.ben = [b \in Ben |-> None]
  BY DEF Init, Fresh
<1>3. CredentialsTyped
  BY EmptyIsSeq DEF Init, CredentialsTyped
<1>4. \A t \in Task : TaskTyped(task[t]) /\ TaskCalm(task[t])
  BY <1>1 DEF TaskTyped, TaskCalm
<1>5. OwnersInv
  BY <1>2, <1>3, <1>4 DEF Init, OwnersInv
<1>6. AppCalm
  BY <1>2 DEF AppCalm, Own, InPlace, Finalized
<1>7. MembersKept /\ PairsCalm
  BY <1>1 DEF Init, MembersKept, PairsCalm, PairCalm, Resetting
<1> QED
  BY <1>4, <1>5, <1>6, <1>7 DEF RoutesInv, Calm, TasksCalm

LEMMA RoutesInductive == Spec => [](OwnersInv /\ RoutesInv)
<1>1. PublishedInv /\ AppInv /\ OwnersInv /\ RoutesInv /\ [Next]_vars => (OwnersInv /\ RoutesInv)'
  BY OwnersStep, RoutesStep
<1> QED
  BY RoutesStart, Inductive, <1>1, PTL DEF Spec

\* The credential route asks for no second credential of a name, and a reset takes
\* the registry's members with the state object: so the secrets of a commitment that
\* RegisterBeneficiary has put on the registry are still there.
THEOREM SecretsKept == Spec => []EnrolledKept
<1>1. RoutesInv => EnrolledKept
  BY DEF RoutesInv, Calm, MembersKept, EnrolledKept
<1> QED
  BY <1>1, RoutesInductive, PTL

\* setPhase is called with a number and never looks at the state, which has what the
\* phase speaks of, since the routes look at it before they ask the core.
THEOREM PhaseBehind == Spec => []PhaseMatches
<1>1. RoutesInv => PhaseMatches
  BY DEF RoutesInv, Calm, AppCalm, PhaseMatches
<1> QED
  BY <1>1, RoutesInductive, PTL

\* The index that RegisterBeneficiary answers with is the place of the commitment in
\* every set that GetAnonymitySet answers with later and has it, behind padding too;
\* and a credential is of the CRS that setup/init has stored.
THEOREM MembersCanProve == Spec => []ReadyToProve
<1>1. RoutesInv => ReadyToProve
  <2> SUFFICES ASSUME RoutesInv, calm, Finalized, NEW b \in Ben, NEW c, c = app.ben[b],
                      c # None, credentials[c].registered, c \in ToSet(app.set.commitments)
               PROVE  Opens(Proof(c, app.crs, app.set.commitments, AppSetId, 1,
                                  credentials[c].index),
                            app.crs, app.set.commitments, AppSetId, 1)
    BY DEF ReadyToProve
  <2>1. Own(b) /\ ReadyAt(b)
    BY DEF RoutesInv, Calm, AppCalm
  <2>2. credentials[c].crs = app.crs
    BY <2>1 DEF Own
  <2>3. /\ credentials[c].index + 1 \in DOMAIN app.set.commitments
        /\ app.set.commitments[credentials[c].index + 1] = c
    BY <2>1 DEF ReadyAt
  <2> QED
    BY <2>2, <2>3 DEF Opens, Proof
<1> QED
  BY <1>1, RoutesInductive, PTL
-----------------------------------------------------------------------------
(***************************************************************************)
(* While nothing has been reset: who has which place in a CRS.             *)
(***************************************************************************)

\* A CRS that lists the first merchants of the registry.
Listed(crs, names) == crs \in Seq(Merchant) /\ Grows(crs, names)

\* The places of merchants that use the library are theirs.
ShopsPlaced ==
  \A m \in Merchant : shop[m] # None => /\ shop[m].id \in DOMAIN merchants
                                        /\ merchants[shop[m].id] = m

\* A client's CRS, and the one it is attached to, are of the registry's merchants.
ClientListed(k) ==
  client[k] # None =>
    /\ Listed(credentials[client[k].cred].crs, merchants)
    /\ client[k].attached # None => Listed(client[k].attached.crs, merchants)
    /\ \A id \in DOMAIN published : \A i \in DOMAIN published[id].members :
         published[id].members[i].phi = client[k].cred =>
           Grows(credentials[client[k].cred].crs, published[id].crs)

\* What a merchant has accepted is for it.
Met(m) ==
  shop[m] # None =>
    /\ \A i \in DOMAIN shop[m].verified :
         shop[m].verified[i].pseudonym = Pseudonym(shop[m].verified[i].cred, m)
    /\ \A i \in DOMAIN shop[m].held :
         shop[m].held[i].service = shop[m].id =>
           shop[m].held[i].pseudonym = Pseudonym(shop[m].held[i].cred, m)

Settled ==
  /\ \A t \in Task : task[t].at \notin Resetting
  /\ \A i, j \in DOMAIN merchants : merchants[i] = merchants[j] => i = j
  /\ ShopsPlaced
  /\ \A id \in DOMAIN published : Listed(published[id].crs, merchants)
  /\ \A k \in Client : ClientListed(k)
  /\ \A m \in Merchant : Met(m)

PlacesInv ==
  /\ resets \in Nat
  /\ AnchoredPhi \subseteq DOMAIN credentials
  /\ resets = 0 => Settled

LEMMA StrictlyIncreasing ==
  ASSUME NEW n \in Nat, NEW f \in [1 .. n -> 1 .. n],
         \A i, j \in 1 .. n : i < j => f[i] < f[j]
  PROVE  \A i \in 1 .. n : f[i] = i
<1>1. \A i \in 1 .. n : f[i] >= i
  <2> DEFINE T == {i \in 1 .. n : f[i] < i}
  <2> SUFFICES ASSUME T # {} PROVE FALSE
    OBVIOUS
  <2>1. T \subseteq Nat /\ \A i \in T : i \in 1 .. n /\ f[i] < i
    OBVIOUS
  <2>2. \A i \in 1 .. n : i \notin T => f[i] >= i
    OBVIOUS
  <2> HIDE DEF T
  <2>3. PICK x \in T : \A y \in T : x <= y
    BY <2>1, LeastNatural
  <2>4. x \in 1 .. n /\ f[x] \in 1 .. n /\ f[x] < x
    BY <2>1, <2>3
  <2>5. x - 1 \in 1 .. n /\ x - 1 < x
    BY <2>4
  <2>6. f[x - 1] \in 1 .. n /\ f[x - 1] < f[x] /\ f[x - 1] >= x - 1
    BY <2>2, <2>3, <2>4, <2>5
  <2> QED
    BY <2>4, <2>5, <2>6
<1>2. \A i \in 1 .. n : f[i] <= i
  <2> DEFINE T == {d \in 0 .. n : n - d \in 1 .. n /\ f[n - d] > n - d}
  <2>1. \A i \in 1 .. n : f[i] > i => n - i \in T
    <3> SUFFICES ASSUME NEW i \in 1 .. n, f[i] > i PROVE n - i \in T
      OBVIOUS
    <3>1. n - (n - i) = i /\ n - i \in 0 .. n
      OBVIOUS
    <3> QED
      BY <3>1
  <2>2. T \subseteq Nat /\ \A d \in T : d \in 0 .. n /\ n - d \in 1 .. n /\ f[n - d] > n - d
    OBVIOUS
  <2> HIDE DEF T
  <2> SUFFICES ASSUME T # {} PROVE FALSE
    BY <2>1
  <2>3. PICK d \in T : \A y \in T : d <= y
    BY <2>2, LeastNatural
  <2> DEFINE x == n - d
  <2>4. x \in 1 .. n /\ f[x] \in 1 .. n /\ f[x] > x /\ d = n - x
    BY <2>2, <2>3
  <2> HIDE DEF x
  <2>5. x + 1 \in 1 .. n /\ x < x + 1
    BY <2>4
  <2>6. f[x + 1] \in 1 .. n /\ f[x] < f[x + 1]
    BY <2>4, <2>5
  <2>7. n - (x + 1) \in T
    BY <2>1, <2>4, <2>5, <2>6
  <2>8. d <= n - (x + 1)
    BY <2>3, <2>7
  <2> QED
    BY <2>4, <2>8
<1> QED
  BY <1>1, <1>2

\* build_crs sorts by id, and so lists the merchants as the registry does.
LEMMA SortedIsRegistered ==
  ASSUME OwnersInv, Settled, Shops = ToSet(merchants), NEW s \in SortedById(Shops)
  PROVE  s = merchants
<1> DEFINE n == Len(merchants)
<1>1. /\ n \in Nat /\ DOMAIN merchants = 1 .. n /\ merchants \in Seq(Merchant)
      /\ \A i, j \in 1 .. n : merchants[i] = merchants[j] => i = j
      /\ merchants \in [1 .. n -> ToSet(merchants)]
  BY LenProperties DEF OwnersInv, Settled, ToSet
<1> HIDE DEF n
<1>2. Cardinality(Shops) = n
  <2>1. merchants \in Bijection(1 .. n, ToSet(merchants))
    BY <1>1 DEF Bijection, Injection, Surjection, IsInjective, ToSet
  <2>2. ExistsBijection(1 .. n, ToSet(merchants))
    BY <2>1 DEF ExistsBijection
  <2> QED
    BY <1>1, <2>2, FS_CountingElements
<1>3. /\ s \in [1 .. n -> Shops]
      /\ \A i, j \in 1 .. n : i # j => s[i] # s[j]
      /\ \A i, j \in 1 .. n : i < j => shop[s[i]].id <= shop[s[j]].id
  BY <1>2 DEF SortedById, SetToSeqs
<1> DEFINE f == [i \in 1 .. n |-> shop[s[i]].id]
<1>4. \A m \in Shops : shop[m].id \in 1 .. n /\ merchants[shop[m].id] = m
  BY <1>1 DEF Settled, ShopsPlaced, Shops
<1>5. \A i \in 1 .. n : f[i] \in 1 .. n /\ merchants[f[i]] = s[i]
  BY <1>3, <1>4
<1>6. f \in [1 .. n -> 1 .. n] /\ \A i, j \in 1 .. n : i < j => f[i] <= f[j]
  BY <1>3, <1>5
<1> HIDE DEF f
<1>7. \A i, j \in 1 .. n : i < j => f[i] < f[j]
  <2> SUFFICES ASSUME NEW i \in 1 .. n, NEW j \in 1 .. n, i < j PROVE f[i] < f[j]
    OBVIOUS
  <2>1. s[i] # s[j] /\ f[i] \in 1 .. n /\ f[j] \in 1 .. n /\ f[i] <= f[j]
    BY <1>3, <1>6
  <2>2. f[i] # f[j]
    BY <1>5, <2>1
  <2> QED
    BY <2>1, <2>2
<1>8. \A i \in 1 .. n : f[i] = i
  BY <1>1, <1>6, <1>7, StrictlyIncreasing
<1>9. \A i \in 1 .. n : s[i] = merchants[i]
  BY <1>5, <1>8
<1> QED
  BY <1>1, <1>3, <1>9

LEMMA ListedKept ==
  ASSUME NEW names \in Seq(Merchant), NEW new,
         new = names \/ \E m : new = Append(names, m),
         NEW crs, Listed(crs, names)
  PROVE  Listed(crs, new)
<1>1. Len(crs) \in Nat /\ Len(names) \in Nat /\ Len(crs) <= Len(names)
      /\ \A i \in 1 .. Len(crs) : names[i] = crs[i]
  BY LenProperties DEF Listed, Grows
<1>2. IsSeq(names)
  BY SeqOfRange DEF IsSeq
<1>3. Len(new) \in Nat /\ Len(names) <= Len(new) /\ \A i \in 1 .. Len(names) : new[i] = names[i]
  BY <1>1, <1>2, AppendIsSeq
<1> QED
  BY <1>1, <1>3 DEF Listed, Grows

\* Only a reset starts one.
LEMMA RouteGoes ==
  ASSUME NEW t \in Task, Route(t), ~ CallReset(t), task[t].at \notin Resetting
  PROVE  \E next : Go(t, next) /\ next.at \notin Resetting
<1>1. CASE Fails(t) \/ StoreCrs(t) \/ AddMerchantProcess(t) \/ AddBeneficiary(t) \/ StoreSet(t)
           \/ HandOutToken(t) \/ HandOutRequest(t) \/ AddMerchantIdentity(t) \/ ResetState(t)
  <2>1. Go(t, Idle)
    BY <1>1 DEF End, Fails, StoreCrs, AddMerchantProcess, AddBeneficiary, StoreSet,
       HandOutToken, HandOutRequest, AddMerchantIdentity, ResetState
  <2> QED
    BY <2>1 DEF Idle, Resetting
<1>2. CASE CallInit(t) \/ CallFinalize(t) \/ AdmitMerchant(t) \/ Finalize(t) \/ SetSetIdBytes(t)
           \/ FetchSet(t) \/ Enrol(t)
  BY <1>2 DEF CallInit, CallFinalize, AdmitMerchant, Finalize, SetSetIdBytes, FetchSet, Enrol,
     Resetting
<1>3. CASE ListMerchants(t)
  <2>1. CASE Len(merchants) < MinMerchants
    BY <1>3, <2>1 DEF ListMerchants, End, Idle, Resetting
  <2>2. CASE ~ (Len(merchants) < MinMerchants)
    <3>1. PICK order \in Listings : Go(t, [at |-> "crs", crs |-> order])
      BY <1>3, <2>2 DEF ListMerchants
    <3> QED
      BY <3>1 DEF Resetting
  <2> QED
    BY <2>1, <2>2
<1>4. CASE UpdateBeneficiary(t)
  <2>1. CASE app.setId = None
    BY <1>4, <2>1 DEF UpdateBeneficiary, Idle, Resetting
  <2>2. CASE app.setId # None
    BY <1>4, <2>2 DEF UpdateBeneficiary, Resetting
  <2> QED
    BY <2>1, <2>2
<1>5. ASSUME NEW m, CreateMerchant(t, m)
      PROVE  \E next : Go(t, next) /\ next.at \notin Resetting
  BY <1>5 DEF CreateMerchant, Resetting
<1>6. ASSUME NEW b, CallCredential(t, b) \/ CallRegister(t, b) \/ CallPayment(t, b)
      PROVE  \E next : Go(t, next) /\ next.at \notin Resetting
  BY <1>6 DEF CallCredential, CallRegister, CallPayment, Resetting
<1>7. ASSUME NEW b, NEW id, CallPaymentId(t, b, id)
      PROVE  \E next : Go(t, next) /\ next.at \notin Resetting
  BY <1>7 DEF CallPaymentId, Resetting
<1>8. ASSUME NEW m, NEW p, CallReceive(t, m, p)
      PROVE  \E next : Go(t, next) /\ next.at \notin Resetting
  BY <1>8 DEF CallReceive, Resetting
<1>9. ~ Withdraw(t) /\ ~ StartAfresh(t)
  BY DEF Withdraw, StartAfresh, At, Resetting
<1> QED
  BY <1>1, <1>2, <1>3, <1>4, <1>5, <1>6, <1>7, <1>8, <1>9 DEF Route

LEMMA NothingReset ==
  ASSUME OwnersInv, AppInv, Settled, [Next]_vars, resets = 0, resets' = 0
  PROVE  /\ \A t \in Task : task'[t].at \notin Resetting
         /\ \/ merchants' = merchants
            \/ \E m \in Merchant : m \notin ToSet(merchants) /\ merchants' = Append(merchants, m)
         /\ published' = published \/ FinalizeSet
<1>1. ASSUME NEW t \in Task, Route(t)
      PROVE  /\ \A u \in Task : task'[u].at \notin Resetting
             /\ \/ merchants' = merchants
                \/ \E m \in Merchant : m \notin ToSet(merchants) /\ merchants' = Append(merchants, m)
             /\ published' = published \/ FinalizeSet
  <2>1. ~ CallReset(t)
    BY DEF CallReset
  <2>2. task[t].at \notin Resetting
    BY DEF Settled
  <2>3. PICK next : Go(t, next) /\ next.at \notin Resetting
    BY <1>1, <2>1, <2>2, RouteGoes
  <2>4. \A u \in Task : task'[u].at \notin Resetting
    BY <2>3 DEF Settled, Go, AppInv
  <2>5. AdmitMerchant(t) => \E m \in Merchant : m \notin ToSet(merchants)
                                                /\ merchants' = Append(merchants, m)
    <3>1. AdmitMerchant(t) => task[t].at = "merchant" /\ task[t].merchant \notin ToSet(merchants)
                              /\ merchants' = Append(merchants, task[t].merchant)
      BY DEF AdmitMerchant, Ledger!AdmitMerchant, At
    <3>2. task[t].at = "merchant" => task[t].merchant \in Merchant
      BY DEF OwnersInv, TaskTyped
    <3> QED
      BY <3>1, <3>2
  <2>6. ~ StartAfresh(t) /\ ~ Withdraw(t)
    BY <2>2 DEF StartAfresh, Withdraw, At, Resetting
  <2>7. Finalize(t) => FinalizeSet
    BY DEF Finalize
  <2> QED
    BY <1>1, <2>4, <2>5, <2>6, <2>7, RouteEffects
<1>2. CASE Library
  <2>1. \A m \in Merchant : RegisterMerchant(m) => m \notin ToSet(merchants)
                                                   /\ merchants' = Append(merchants, m)
    BY DEF RegisterMerchant, Ledger!AdmitMerchant
  <2>2. FinalizeByClient => FinalizeSet
    BY DEF FinalizeByClient
  <2> QED
    BY <1>2, <2>1, <2>2, LibraryEffects DEF Settled
<1>3. CASE UNCHANGED vars
  BY <1>3 DEF vars, registry, Settled
<1> QED
  BY <1>1, <1>2, <1>3 DEF Next

LEMMA MerchantsDiffer ==
  ASSUME OwnersInv, Settled, NEW new,
         \/ new = merchants
         \/ \E m \in Merchant : m \notin ToSet(merchants) /\ new = Append(merchants, m)
  PROVE  /\ \A i, j \in DOMAIN new : new[i] = new[j] => i = j
         /\ DOMAIN merchants \subseteq DOMAIN new
         /\ \A i \in DOMAIN merchants : new[i] = merchants[i]
<1>1. CASE new = merchants
  BY <1>1 DEF Settled
<1>2. ASSUME NEW m \in Merchant, m \notin ToSet(merchants), new = Append(merchants, m)
      PROVE  /\ \A i, j \in DOMAIN new : new[i] = new[j] => i = j
             /\ DOMAIN merchants \subseteq DOMAIN new
             /\ \A i \in DOMAIN merchants : new[i] = merchants[i]
  <2>1. IsSeq(merchants)
    BY SeqOfRange DEF IsSeq, OwnersInv
  <2>2. /\ DOMAIN merchants = 1 .. Len(merchants) /\ Len(merchants) \in Nat
        /\ DOMAIN new = 1 .. Len(merchants) + 1
        /\ \A i \in DOMAIN merchants : new[i] = merchants[i]
        /\ new[Len(merchants) + 1] = m
    BY <1>2, <2>1, AppendIsSeq
  <2>3. \A i \in DOMAIN merchants : merchants[i] # m
    BY <1>2 DEF ToSet
  <2>4. \A i \in DOMAIN new : i \in DOMAIN merchants \/ i = Len(merchants) + 1
    BY <2>2
  <2>5. \A i, j \in DOMAIN new : new[i] = new[j] => i = j
    BY <2>2, <2>3, <2>4 DEF Settled
  <2> QED
    BY <2>2, <2>5
<1> QED
  BY <1>1, <1>2

\* A published CRS lists the merchants that there were, and no merchant leaves.
LEMMA PublishedListed ==
  ASSUME OwnersInv, AppInv, Settled, [Next]_vars, resets = 0, resets' = 0
  PROVE  /\ \A crs : Listed(crs, merchants) => Listed(crs, merchants')
         /\ \A id \in DOMAIN published' :
              /\ Listed(published'[id].crs, merchants')
              /\ \/ id \in DOMAIN published /\ published'[id] = published[id]
                 \/ /\ published'[id] = [members |-> members, crs |-> merchants]
                    /\ Listed(merchants, merchants)
<1>1. \A crs : Listed(crs, merchants) => Listed(crs, merchants')
  <2>1. merchants' = merchants \/ \E m : merchants' = Append(merchants, m)
    BY NothingReset
  <2> QED
    BY <2>1, ListedKept DEF OwnersInv
<1>2. Listed(merchants, merchants)
  BY LenProperties DEF Listed, Grows, OwnersInv
<1>3. ASSUME NEW id \in DOMAIN published'
      PROVE  \/ id \in DOMAIN published /\ published'[id] = published[id]
             \/ published'[id] = [members |-> members, crs |-> merchants]
  <2>1. CASE published' = published
    BY <1>3, <2>1
  <2>2. CASE FinalizeSet
    BY <1>3, <2>2 DEF FinalizeSet
  <2> QED
    BY <2>1, <2>2, NothingReset
<1>4. ASSUME NEW id \in DOMAIN published'
      PROVE  Listed(published'[id].crs, merchants')
  <2>1. Listed(published'[id].crs, merchants)
    BY <1>2, <1>3, <1>4 DEF Settled
  <2> QED
    BY <1>1, <2>1
<1> QED
  BY <1>1, <1>2, <1>3, <1>4

\* What a client of the library has afterwards.
LEMMA ClientEffects ==
  ASSUME OwnersInv, [Next]_vars, NEW k \in Client, client'[k] # None
  PROVE  \/ /\ client[k] # None /\ client'[k].cred = client[k].cred
            /\ \/ client'[k].attached = client[k].attached
               \/ \E id \in DOMAIN published : client'[k].attached = Fetched(id)
         \/ /\ NewClient(k)
            /\ client'[k].cred = Len(credentials') /\ client'[k].attached = None
<1>1. CASE UNCHANGED client
  BY <1>1
<1>2. CASE \E t \in Task : Route(t)
  BY <1>1, <1>2, RouteEffects
<1>3. ASSUME NEW j \in Client, NewClient(j)
      PROVE  \/ client'[k] = client[k]
             \/ /\ NewClient(k)
                /\ client'[k].cred = Len(credentials') /\ client'[k].attached = None
  <2>1. client' = [client EXCEPT ![j] = [cred |-> Len(credentials'), attached |-> None]]
    BY <1>3 DEF NewClient
  <2>2. client'[k] = IF k = j THEN [cred |-> Len(credentials'), attached |-> None] ELSE client[k]
    BY <2>1 DEF OwnersInv
  <2> QED
    BY <1>3, <2>2
<1>4. ASSUME NEW j \in Client, NEW id \in DOMAIN published, AttachToSet(j, id)
      PROVE  \/ client'[k] = client[k]
             \/ /\ client[k] # None /\ client'[k].cred = client[k].cred
                /\ client'[k].attached = Fetched(id)
  <2>1. client[j] # None /\ client' = [client EXCEPT ![j].attached = Fetched(id)]
    BY <1>4 DEF AttachToSet
  <2>2. client[j] = [cred |-> client[j].cred, attached |-> client[j].attached]
    BY <2>1 DEF OwnersInv
  <2>3. client'[j] = [client[j] EXCEPT !.attached = Fetched(id)]
    BY <2>1 DEF OwnersInv
  <2>4. client'[j].cred = client[j].cred /\ client'[j].attached = Fetched(id)
    BY <2>2, <2>3
  <2>5. k # j => client'[k] = client[k]
    BY <2>1 DEF OwnersInv
  <2> QED
    BY <2>1, <2>4, <2>5
<1>5. CASE Library
  BY <1>1, <1>3, <1>4, <1>5, LibraryEffects
<1> QED
  BY <1>1, <1>2, <1>5 DEF Next, vars, library

LEMMA ClientsListed ==
  ASSUME OwnersInv, PublishedInv, AppInv, PlacesInv, [Next]_vars, resets = 0, resets' = 0,
         NEW k \in Client
  PROVE  ClientListed(k)'
<1>1. Settled
  BY DEF PlacesInv
<1>2. CredentialsGrow(credentials, credentials')
  BY CredentialsKept
<1> SUFFICES ASSUME client'[k] # None PROVE ClientListed(k)'
  BY DEF ClientListed
<1>3. CASE /\ client[k] # None /\ client'[k].cred = client[k].cred
           /\ \/ client'[k].attached = client[k].attached
              \/ \E id \in DOMAIN published : client'[k].attached = Fetched(id)
  <2>1. PICK c, crs : c = client[k].cred /\ c = client'[k].cred /\ crs = credentials[c].crs
    BY <1>3
  <2>2. credentials'[c].crs = crs
    BY <1>2, <1>3, <2>1 DEF CredentialsGrow, OwnersInv
  <2>3. ClientListed(k)
    BY <1>1 DEF Settled
  <2>4. Listed(crs, merchants) /\ Listed(crs, merchants')
    BY <1>1, <1>3, <2>1, <2>3, PublishedListed DEF ClientListed
  <2>5. client'[k].attached # None => Listed(client'[k].attached.crs, merchants')
    <3>1. client'[k].attached # None => Listed(client'[k].attached.crs, merchants)
      <4>1. CASE client'[k].attached = client[k].attached
        BY <1>3, <2>3, <4>1 DEF ClientListed
      <4>2. ASSUME NEW id \in DOMAIN published, client'[k].attached = Fetched(id)
            PROVE  Listed(client'[k].attached.crs, merchants)
        <5>1. Fetched(id).crs = published[id].crs
          BY DEF Fetched
        <5> QED
          BY <1>1, <4>2, <5>1 DEF Settled
      <4> QED
        BY <1>3, <4>1, <4>2
    <3> QED
      BY <1>1, <3>1, PublishedListed
  <2>6. ASSUME NEW id \in DOMAIN published', NEW i \in DOMAIN published'[id].members,
               published'[id].members[i].phi = c
        PROVE  Grows(crs, published'[id].crs)
    <3>1. CASE id \in DOMAIN published /\ published'[id] = published[id]
      BY <1>3, <2>1, <2>3, <2>6, <3>1 DEF ClientListed
    <3>2. CASE published'[id] = [members |-> members, crs |-> merchants]
      BY <2>4, <3>2 DEF Listed
    <3> QED
      BY <1>1, <3>1, <3>2, PublishedListed
  <2> QED
    BY <2>1, <2>2, <2>4, <2>5, <2>6 DEF ClientListed
<1>4. CASE /\ NewClient(k)
           /\ client'[k].cred = Len(credentials') /\ client'[k].attached = None
  <2>1. PICK crs \in SortedById(Shops) :
          credentials' = Append(credentials, [owner |-> k, crs |-> crs, index |-> None,
                                              registered |-> FALSE])
    BY <1>4 DEF NewClient
  <2>2. Shops = ToSet(merchants) /\ UNCHANGED <<merchants, published>>
    BY <1>4 DEF NewClient, registry
  <2>3. crs = merchants
    BY <1>1, <2>1, <2>2, SortedIsRegistered
  <2>4. PICK n : /\ n = Len(credentials') /\ n \notin DOMAIN credentials
                 /\ credentials'[n] = [owner |-> k, crs |-> crs, index |-> None,
                                       registered |-> FALSE]
    BY <2>1, CredentialAdded DEF OwnersInv
  <2>5. credentials'[n].crs = merchants /\ client'[k].cred = n
    BY <1>4, <2>3, <2>4
  <2>6. Listed(merchants, merchants)
    BY LenProperties DEF Listed, Grows, OwnersInv
  <2>7. ASSUME NEW id \in DOMAIN published, NEW i \in DOMAIN published[id].members
        PROVE  published[id].members[i].phi # n
    <3>1. /\ published[id].members = anchored[id] /\ id \in DOMAIN anchored
          /\ IsSeq(anchored[id])
      BY DEF PublishedInv
    <3>2. i \in Nat
      BY <2>7, <3>1, LenProperties DEF IsSeq
    <3>3. anchored[id][i].phi \in AnchoredPhi
      <4>1. <<id, i>> \in {f \in (DOMAIN anchored) \X Nat : f[2] \in DOMAIN anchored[f[1]]}
        BY <2>7, <3>1, <3>2
      <4> QED
        BY <4>1 DEF AnchoredPhi
    <3> QED
      BY <2>4, <3>1, <3>3 DEF PlacesInv
  <2> QED
    BY <1>4, <2>2, <2>5, <2>6, <2>7 DEF ClientListed
<1> QED
  BY <1>3, <1>4, ClientEffects

\* A proof for a service of a listed CRS names the merchant with that id.
LEMMA NamesMerchant ==
  ASSUME OwnersInv, Settled, NEW k \in Client, NEW service, Shown(k, service)
  PROVE  LET p == Registration(k, service)
         IN  /\ service \in DOMAIN merchants
             /\ p.service = service /\ p.crs = client[k].attached.crs
             /\ Identity(p).pseudonym = Pseudonym(Identity(p).cred, merchants[service])
             /\ Identity(p).service = service
<1>1. PICK crs : crs = client[k].attached.crs /\ Listed(crs, merchants)
  BY DEF Settled, ClientListed, Shown
<1>2. service \in DOMAIN crs
  BY <1>1 DEF Shown, Provable
<1>3. DOMAIN crs = 1 .. Len(crs) /\ Len(crs) \in Nat
  BY <1>1, LenProperties DEF Listed
<1>4. /\ service \in 1 .. Len(crs) /\ crs[service] = merchants[service]
      /\ Len(crs) <= Len(merchants)
  BY <1>1, <1>2, <1>3 DEF Listed, Grows
<1>5. service \in DOMAIN merchants
  <2>1. Len(merchants) \in Nat /\ DOMAIN merchants = 1 .. Len(merchants)
    BY LenProperties DEF OwnersInv
  <2> QED
    BY <1>3, <1>4, <2>1
<1> QED
  BY <1>1, <1>4, <1>5 DEF Registration, Proof, Identity

\* Merchants of the library keep their places, and hold what is for them.
LEMMA ShopsMet ==
  ASSUME OwnersInv, PublishedInv, AppInv, ShopInv, Settled, [Next]_vars,
         resets = 0, resets' = 0
  PROVE  ShopsPlaced' /\ \A m \in Merchant : Met(m)'
<1>1. /\ DOMAIN merchants \subseteq DOMAIN merchants'
      /\ \A i \in DOMAIN merchants : merchants'[i] = merchants[i]
  BY NothingReset, MerchantsDiffer
<1>2. \A m \in Merchant : shop[m] # None =>
        shop[m].id \in DOMAIN merchants' /\ merchants'[shop[m].id] = m
  BY <1>1 DEF Settled, ShopsPlaced
<1>3. \A m \in Merchant : Met(m)
  BY DEF Settled
<1>4. CASE UNCHANGED shop
  BY <1>2, <1>3, <1>4 DEF ShopsPlaced, Met
<1>5. ASSUME NEW m \in Merchant,
             shop' = [shop EXCEPT ![m] = shop'[m]],
             shop'[m].id \in DOMAIN merchants', merchants'[shop'[m].id] = m,
             \A i \in DOMAIN shop'[m].verified :
               shop'[m].verified[i].pseudonym = Pseudonym(shop'[m].verified[i].cred, m),
             \A i \in DOMAIN shop'[m].held : shop'[m].held[i].service = shop'[m].id =>
               shop'[m].held[i].pseudonym = Pseudonym(shop'[m].held[i].cred, m)
      PROVE  ShopsPlaced' /\ \A n \in Merchant : Met(n)'
  <2>1. \A n \in Merchant : n # m => shop'[n] = shop[n]
    BY <1>5 DEF ShopInv
  <2>2. ASSUME NEW n \in Merchant, shop'[n] # None
        PROVE  shop'[n].id \in DOMAIN merchants' /\ merchants'[shop'[n].id] = n /\ Met(n)'
    <3>1. CASE n = m
      BY <1>5, <3>1 DEF Met
    <3>2. CASE n # m
      BY <1>2, <1>3, <2>1, <2>2, <3>2 DEF Met
    <3> QED
      BY <3>1, <3>2
  <2> QED
    BY <2>2 DEF ShopsPlaced, Met
<1>6. ASSUME NEW m \in Merchant, RegisterMerchant(m)
      PROVE  ShopsPlaced' /\ \A n \in Merchant : Met(n)'
  <2>1. PICK new : /\ new = [id |-> Len(merchants) + 1, attached |-> None, cached |-> {},
                             held |-> << >>, verified |-> << >>]
                   /\ shop' = [shop EXCEPT ![m] = new]
                   /\ merchants' = Append(merchants, m)
    BY <1>6 DEF RegisterMerchant, Ledger!AdmitMerchant
  <2>2. shop'[m] = new
    BY <2>1 DEF ShopInv
  <2>3. Len(merchants) + 1 \in DOMAIN merchants' /\ merchants'[Len(merchants) + 1] = m
    <3>1. IsSeq(merchants)
      BY SeqOfRange DEF IsSeq, OwnersInv
    <3> QED
      BY <2>1, <3>1, AppendIsSeq
  <2>4. /\ new.id = Len(merchants) + 1 /\ new.held = << >> /\ new.verified = << >>
    BY <2>1
  <2>5. shop' = [shop EXCEPT ![m] = shop'[m]]
    BY <2>1, <2>2
  <2>6. shop'[m].id \in DOMAIN merchants' /\ merchants'[shop'[m].id] = m
    BY <2>2, <2>3, <2>4
  <2>7. /\ \A i \in DOMAIN shop'[m].verified :
             shop'[m].verified[i].pseudonym = Pseudonym(shop'[m].verified[i].cred, m)
        /\ \A i \in DOMAIN shop'[m].held : shop'[m].held[i].service = shop'[m].id =>
             shop'[m].held[i].pseudonym = Pseudonym(shop'[m].held[i].cred, m)
    <3>1. DOMAIN shop'[m].verified = {} /\ DOMAIN shop'[m].held = {}
      BY <2>2, <2>4
    <3> QED
      BY <3>1
  <2> QED
    BY <1>5, <2>5, <2>6, <2>7
<1>7. ASSUME NEW m \in Merchant, NEW f, shop[m] # None,
             shop' = [shop EXCEPT ![m].attached = f, ![m].cached = @ \union {f}]
      PROVE  ShopsPlaced' /\ \A n \in Merchant : Met(n)'
  <2>1. shop[m] = [id |-> shop[m].id, attached |-> shop[m].attached, cached |-> shop[m].cached,
                   held |-> shop[m].held, verified |-> shop[m].verified]
    BY <1>7 DEF ShopInv, SoundShop
  <2>2. PICK new : /\ new = [id |-> shop[m].id, attached |-> f,
                             cached |-> shop[m].cached \union {f},
                             held |-> shop[m].held, verified |-> shop[m].verified]
                   /\ shop' = [shop EXCEPT ![m] = new]
    <3> DEFINE new == [id |-> shop[m].id, attached |-> f, cached |-> shop[m].cached \union {f},
                       held |-> shop[m].held, verified |-> shop[m].verified]
    <3>1. [shop[m] EXCEPT !.attached = f, !.cached = @ \union {f}] = new
      BY <2>1, AttachFields
    <3>2. shop' = [shop EXCEPT ![m] = [shop[m] EXCEPT !.attached = f, !.cached = @ \union {f}]]
      BY <1>7 DEF ShopInv
    <3> HIDE DEF new
    <3>3. shop' = [shop EXCEPT ![m] = new]
      BY <3>1, <3>2
    <3> QED
      BY <3>3 DEF new
  <2>3. shop'[m] = new /\ shop' = [shop EXCEPT ![m] = shop'[m]]
    BY <2>2 DEF ShopInv
  <2>4. /\ shop'[m].id = shop[m].id /\ shop'[m].held = shop[m].held
        /\ shop'[m].verified = shop[m].verified
    BY <2>2, <2>3
  <2>5. shop'[m].id \in DOMAIN merchants' /\ merchants'[shop'[m].id] = m
    BY <1>2, <1>7, <2>4
  <2>6. /\ \A i \in DOMAIN shop'[m].verified :
             shop'[m].verified[i].pseudonym = Pseudonym(shop'[m].verified[i].cred, m)
        /\ \A i \in DOMAIN shop'[m].held : shop'[m].held[i].service = shop'[m].id =>
             shop'[m].held[i].pseudonym = Pseudonym(shop'[m].held[i].cred, m)
    BY <1>3, <1>7, <2>4 DEF Met
  <2> QED
    BY <1>5, <2>3, <2>5, <2>6
<1>8. ASSUME NEW m \in Merchant, NEW k \in Client, NEW service, Receive(m, k, service)
      PROVE  ShopsPlaced' /\ \A n \in Merchant : Met(n)'
  <2>1. PICK e, list : /\ e = Identity(Registration(k, service))
                       /\ list = Append(shop[m].held, e)
                       /\ shop[m] # None /\ Shown(k, service)
                       /\ shop' = [shop EXCEPT ![m].held = list]
    BY <1>8 DEF Receive
  <2>2. e.service = service /\ e.pseudonym = Pseudonym(e.cred, merchants[service])
    BY <2>1, NamesMerchant
  <2>3. /\ shop[m] = [id |-> shop[m].id, attached |-> shop[m].attached,
                      cached |-> shop[m].cached,
                      held |-> shop[m].held, verified |-> shop[m].verified]
        /\ IsSeq(shop[m].held)
    BY <2>1 DEF ShopInv, SoundShop, SoundList
  <2>4. /\ shop'[m].id = shop[m].id /\ shop'[m].held = list
        /\ shop'[m].verified = shop[m].verified
        /\ shop' = [shop EXCEPT ![m] = shop'[m]]
    <3>1. shop'[m] = [shop[m] EXCEPT !.held = list]
      BY <2>1 DEF ShopInv
    <3>2. shop' = [shop EXCEPT ![m] = shop'[m]]
      BY <2>1, <3>1
    <3> QED
      BY <2>3, <3>1, <3>2
  <2>5. \A i \in DOMAIN list : list[i] = e \/ (i \in DOMAIN shop[m].held /\ list[i] = shop[m].held[i])
    BY <2>1, <2>3, AppendIsSeq
  <2>6. merchants[shop[m].id] = m
    BY <2>1 DEF Settled, ShopsPlaced
  <2>7. \A i \in DOMAIN list :
          list[i].service = shop[m].id => list[i].pseudonym = Pseudonym(list[i].cred, m)
    BY <1>3, <2>1, <2>2, <2>5, <2>6 DEF Met
  <2>8. \A i \in DOMAIN shop[m].verified :
          shop[m].verified[i].pseudonym = Pseudonym(shop[m].verified[i].cred, m)
    BY <1>3, <2>1 DEF Met
  <2>9. shop'[m].id \in DOMAIN merchants' /\ merchants'[shop'[m].id] = m
    BY <1>2, <2>1, <2>4
  <2>10. /\ \A i \in DOMAIN shop'[m].verified :
              shop'[m].verified[i].pseudonym = Pseudonym(shop'[m].verified[i].cred, m)
         /\ \A i \in DOMAIN shop'[m].held : shop'[m].held[i].service = shop'[m].id =>
              shop'[m].held[i].pseudonym = Pseudonym(shop'[m].held[i].cred, m)
    BY <2>4, <2>7, <2>8
  <2> QED
    BY <1>5, <2>4, <2>9, <2>10
<1>9. ASSUME NEW m \in Merchant, NEW k \in Client, NEW service, VerifyAndRegister(m, k, service)
      PROVE  ShopsPlaced' /\ \A n \in Merchant : Met(n)'
  <2>1. PICK p, e, list : /\ p = Registration(k, service) /\ e = Identity(p)
                          /\ list = Append(shop[m].verified, e)
                          /\ shop[m] # None /\ Shown(k, service)
                          /\ p.service = shop[m].id
                          /\ shop' = [shop EXCEPT ![m].verified = list]
    BY <1>9 DEF VerifyAndRegister, Opens, ServiceExpected
  <2>2. p.service = service /\ e.pseudonym = Pseudonym(e.cred, merchants[service])
    BY <2>1, NamesMerchant
  <2>3. /\ shop[m] = [id |-> shop[m].id, attached |-> shop[m].attached,
                      cached |-> shop[m].cached,
                      held |-> shop[m].held, verified |-> shop[m].verified]
        /\ IsSeq(shop[m].verified)
    BY <2>1 DEF ShopInv, SoundShop, SoundList
  <2>4. /\ shop'[m].id = shop[m].id /\ shop'[m].held = shop[m].held
        /\ shop'[m].verified = list
        /\ shop' = [shop EXCEPT ![m] = shop'[m]]
    <3>1. shop'[m] = [shop[m] EXCEPT !.verified = list]
      BY <2>1 DEF ShopInv
    <3>2. shop' = [shop EXCEPT ![m] = shop'[m]]
      BY <2>1, <3>1
    <3> QED
      BY <2>3, <3>1, <3>2
  <2>5. \A i \in DOMAIN list :
          list[i] = e \/ (i \in DOMAIN shop[m].verified /\ list[i] = shop[m].verified[i])
    BY <2>1, <2>3, AppendIsSeq
  <2>6. merchants[shop[m].id] = m
    BY <2>1 DEF Settled, ShopsPlaced
  <2>7. \A i \in DOMAIN list : list[i].pseudonym = Pseudonym(list[i].cred, m)
    BY <1>3, <2>1, <2>2, <2>5, <2>6 DEF Met
  <2>8. \A i \in DOMAIN shop[m].held : shop[m].held[i].service = shop[m].id =>
          shop[m].held[i].pseudonym = Pseudonym(shop[m].held[i].cred, m)
    BY <1>3, <2>1 DEF Met
  <2>9. shop'[m].id \in DOMAIN merchants' /\ merchants'[shop'[m].id] = m
    BY <1>2, <2>1, <2>4
  <2>10. /\ \A i \in DOMAIN shop'[m].verified :
              shop'[m].verified[i].pseudonym = Pseudonym(shop'[m].verified[i].cred, m)
         /\ \A i \in DOMAIN shop'[m].held : shop'[m].held[i].service = shop'[m].id =>
              shop'[m].held[i].pseudonym = Pseudonym(shop'[m].held[i].cred, m)
    BY <2>4, <2>7, <2>8
  <2> QED
    BY <1>5, <2>4, <2>9, <2>10
<1>10. CASE Library
  <2>1. \A m \in Merchant : \A id \in DOMAIN published : AttachSet(m, id) =>
          /\ shop[m] # None
          /\ shop' = [shop EXCEPT ![m].attached = Fetched(id), ![m].cached = @ \union {Fetched(id)}]
    BY DEF AttachSet
  <2> QED
    BY <1>4, <1>6, <1>7, <1>8, <1>9, <1>10, <2>1, LibraryEffects
<1>11. CASE \E t \in Task : Route(t)
  BY <1>4, <1>11, RouteEffects
<1> QED
  BY <1>4, <1>10, <1>11 DEF Next, vars, library

\* An anchored commitment is a credential, as a pending one is.
LEMMA AnchoredAreCredentials ==
  ASSUME OwnersInv, PublishedInv, AnchoredPhi \subseteq DOMAIN credentials, [Next]_vars
  PROVE  AnchoredPhi' \subseteq DOMAIN credentials'
<1>1. DOMAIN credentials \subseteq DOMAIN credentials'
  BY CredentialsKept DEF CredentialsGrow
<1>2. CASE anchored' = anchored
  BY <1>1, <1>2 DEF AnchoredPhi
<1>3. CASE FinalizeSet
  <2>1. anchored' = Append(anchored, members) /\ IsSeq(anchored)
    BY <1>3 DEF FinalizeSet, PublishedInv
  <2>2. \A id \in DOMAIN anchored' : anchored'[id] = members
                                   \/ (id \in DOMAIN anchored /\ anchored'[id] = anchored[id])
    BY <2>1, AppendIsSeq
  <2> SUFFICES ASSUME NEW id \in DOMAIN anchored', NEW i \in Nat, i \in DOMAIN anchored'[id]
               PROVE  anchored'[id][i].phi \in DOMAIN credentials'
    BY DEF AnchoredPhi
  <2>3. CASE anchored'[id] = members
    BY <1>1, <2>3 DEF OwnersInv
  <2>4. CASE id \in DOMAIN anchored /\ anchored'[id] = anchored[id]
    <3>1. <<id, i>> \in {f \in (DOMAIN anchored) \X Nat : f[2] \in DOMAIN anchored[f[1]]}
      BY <2>4
    <3>2. anchored[id][i].phi \in AnchoredPhi
      BY <3>1 DEF AnchoredPhi
    <3> QED
      BY <1>1, <2>4, <3>2
  <2> QED
    BY <2>2, <2>3, <2>4
<1>4. anchored' = anchored \/ FinalizeSet
  <2>1. \A t \in Task : Finalize(t) => FinalizeSet
    BY DEF Finalize
  <2>2. FinalizeByClient => FinalizeSet
    BY DEF FinalizeByClient
  <2> QED
    BY <2>1, <2>2, RouteEffects, LibraryEffects DEF Next, vars, registry
<1> QED
  BY <1>2, <1>3, <1>4

LEMMA PlacesStep ==
  PublishedInv /\ AppInv /\ ShopInv /\ OwnersInv /\ PlacesInv /\ [Next]_vars => PlacesInv'
<1> SUFFICES ASSUME PublishedInv, AppInv, ShopInv, OwnersInv, PlacesInv, [Next]_vars
             PROVE  PlacesInv'
  OBVIOUS
<1>1. resets \in Nat /\ AnchoredPhi \subseteq DOMAIN credentials /\ (resets = 0 => Settled)
  BY DEF PlacesInv
<1>2. resets' = resets \/ resets' = resets + 1
  <2>1. \A t \in Task : CallReset(t) => resets' = resets + 1
    BY DEF CallReset
  <2> QED
    BY <2>1, RouteEffects, LibraryEffects DEF Next, vars
<1>3. AnchoredPhi' \subseteq DOMAIN credentials'
  BY <1>1, AnchoredAreCredentials
<1>4. ASSUME resets' = 0
      PROVE  Settled'
  <2>1. resets = 0 /\ Settled
    BY <1>1, <1>2, <1>4
  <2>2. \A t \in Task : task'[t].at \notin Resetting
    BY <1>4, <2>1, NothingReset
  <2>3. \A i, j \in DOMAIN merchants' : merchants'[i] = merchants'[j] => i = j
    BY <1>4, <2>1, NothingReset, MerchantsDiffer
  <2>4. \A id \in DOMAIN published' : Listed(published'[id].crs, merchants')
    BY <1>4, <2>1, PublishedListed
  <2>5. \A k \in Client : ClientListed(k)'
    BY <1>4, <2>1, ClientsListed
  <2>6. ShopsPlaced' /\ \A m \in Merchant : Met(m)'
    BY <1>4, <2>1, ShopsMet
  <2> QED
    BY <2>2, <2>3, <2>4, <2>5, <2>6 DEF Settled
<1> QED
  BY <1>1, <1>2, <1>3, <1>4 DEF PlacesInv

\* Whatever a handed-out set has is a member of it.
LEMMA SetHoldsMembers ==
  ASSUME PublishedInv, NEW id \in DOMAIN published, NEW c \in ToSet(AnonymitySet(id))
  PROVE  \E i \in DOMAIN published[id].members : published[id].members[i].phi = c
<1> DEFINE ms == published[id].members
           phis == [i \in DOMAIN ms |-> ms[i].phi]
           pad == [i \in 1 .. SetSize - Len(phis) |-> Last(phis)]
           A == {ms[i].phi : i \in DOMAIN ms}
<1>1. ms = anchored[id] /\ IsSeq(ms) /\ ms # << >>
  BY DEF PublishedInv
<1>2. Len(ms) \in Nat \ {0} /\ DOMAIN ms = 1 .. Len(ms)
  BY <1>1, EmptySeq, LenProperties DEF IsSeq
<1>3. \A i \in 1 .. Len(ms) : ms[i].phi \in A
  BY <1>2
<1> HIDE DEF ms, A
<1>4. phis \in Seq(A) /\ Len(phis) = Len(ms)
  BY <1>2, <1>3
<1>5. Last(phis) \in A
  BY <1>2, <1>3, <1>4 DEF Last
<1>6. pad \in Seq(A)
  <2>1. SetSize - Len(phis) \in Int
    BY <1>2, <1>4, SizeAssumption
  <2>2. CASE SetSize - Len(phis) \in Nat
    BY <1>5, <2>2, IsASeq
  <2>3. CASE SetSize - Len(phis) < 0
    <3>1. pad = << >>
      BY <2>1, <2>3
    <3> HIDE DEF pad
    <3> QED
      BY <3>1
  <2> QED
    BY <2>1, <2>2, <2>3
<1> HIDE DEF phis, pad
<1>7. phis \o pad \in Seq(A)
  BY <1>4, <1>6, ConcatProperties
<1>8. AnonymitySet(id) = phis \o pad
  BY DEF AnonymitySet, ms, phis, pad
<1>9. \A s \in Seq(A) : ToSet(s) \subseteq A
  BY LenProperties DEF ToSet
<1>10. c \in A
  BY <1>7, <1>8, <1>9
<1> QED
  BY <1>10 DEF A, ms

LEMMA PlacesStart == Init => PlacesInv
<1> SUFFICES ASSUME Init PROVE PlacesInv
  OBVIOUS
<1>1. \A t \in Task : task[t].at \notin Resetting
  BY DEF Init, Idle, Resetting
<1>2. AnchoredPhi = {}
  BY DEF Init, AnchoredPhi
<1>3. Settled
  BY <1>1 DEF Init, Settled, ShopsPlaced, ClientListed, Met
<1> QED
  BY <1>2, <1>3 DEF PlacesInv, Init

LEMMA PlacesInductive == Spec => [](PublishedInv /\ ShopInv /\ OwnersInv /\ PlacesInv)
<1>1. PublishedInv /\ AppInv /\ ShopInv /\ OwnersInv /\ PlacesInv /\ [Next]_vars => PlacesInv'
  BY PlacesStep
<1> QED
  BY PlacesStart, Inductive, RoutesInductive, <1>1, PTL DEF Spec

\* build_crs lists the merchants by id, which is how the registry lists them in the
\* CRS that it publishes: so the places of a credential mean the same in both.
THEOREM CrsAgrees == Spec => []LocalCrsMatches
<1>1. PublishedInv /\ PlacesInv => LocalCrsMatches
  <2> SUFFICES ASSUME PublishedInv, PlacesInv, resets = 0, NEW k \in Client,
                      NEW id \in DOMAIN published, client[k] # None,
                      client[k].cred \in ToSet(AnonymitySet(id))
               PROVE  IsPrefix(credentials[client[k].cred].crs, published[id].crs)
    BY DEF LocalCrsMatches
  <2>1. PICK crs, names : crs = credentials[client[k].cred].crs /\ names = published[id].crs
    OBVIOUS
  <2>2. /\ crs \in Seq(Merchant) /\ names \in Seq(Merchant) /\ ClientListed(k)
    BY <2>1 DEF PlacesInv, Settled, ClientListed, Listed
  <2>3. \E i \in DOMAIN published[id].members : published[id].members[i].phi = client[k].cred
    BY SetHoldsMembers
  <2>4. Grows(crs, names)
    BY <2>1, <2>2, <2>3 DEF ClientListed
  <2>5. Len(crs) \in Nat /\ Len(names) \in Nat /\ Len(crs) <= Len(names)
    BY <2>2, <2>4, LenProperties DEF Grows
  <2>6. SubSeq(crs, 1, Len(crs)) = SubSeq(names, 1, Len(crs))
    BY <2>2, <2>4, <2>5 DEF Grows
  <2> QED
    BY <2>1, <2>5, <2>6 DEF IsPrefix
<1> QED
  BY <1>1, PlacesInductive, PTL

\* verify_and_register takes the merchant's own id for the service of a proof, and
\* what receive_payment_registration keeps has its service beside it: the id is the
\* merchant's place in every CRS that a proof can be made under.
THEOREM PaymentsFound == Spec => []PaymentsMeet
<1>1. PlacesInv => PaymentsMeet
  BY DEF PlacesInv, Settled, Met, PaymentsMeet, Shops, ToSet
<1> QED
  BY <1>1, PlacesInductive, PTL
-----------------------------------------------------------------------------
(***************************************************************************)
(* Types, and the bounds that the code keeps.                              *)
(***************************************************************************)

Bounded ==
  /\ Len(members) <= Capacity
  /\ Len(anchored) <= MaxSeals
  /\ \A id \in DOMAIN anchored : Len(anchored[id]) <= Capacity
  /\ \A i, j \in DOMAIN merchants : merchants[i] = merchants[j] => i = j

\* Those that the core has been asked for are counted.
Counted == Len(credentials) + Cardinality(InFlight({"credential"})) <= MaxCredentials

\* An index of the application's is one of the pending set, one of the library's a
\* place in a set with its padding.
CredentialOK(c) ==
  /\ credentials[c].owner \in Ben \union Client
  /\ credentials[c].crs \in Seq(Merchant)
  /\ credentials[c].index \in {None} \union 0 .. SetSize - 1
  /\ credentials[c].owner \in Ben => credentials[c].index \in {None} \union 0 .. Capacity - 1
  /\ credentials[c].registered \in BOOLEAN

AppOK ==
  /\ app.phase \in -1 .. 5
  /\ app.crs # None => app.crs \in Seq(Merchant)
  /\ app.set # None => app.set.commitments \in Seq(DOMAIN credentials)
                       /\ Len(app.set.commitments) \in {0, SetSize}
  /\ app.setId \in {None} \union DOMAIN anchored
  /\ \A b \in Ben : app.ben[b] # None => credentials[app.ben[b]].owner = b
  /\ \A m \in Merchant : app.procs[m] # None => app.procs[m].id \in 1 .. Cardinality(Merchant)

TaskOK(x) ==
  /\ x \in TaskType
  /\ x.at \in {"finalized", "fetch"} => x.id \in DOMAIN anchored
  /\ x.at = "store" => x.set.commitments \in Seq(DOMAIN credentials)
                       /\ Len(x.set.commitments) = SetSize
  /\ x.at = "token" => x.token.cred \in DOMAIN credentials

TokensOK == \A p \in tokens : p \in TokenType /\ p.cred \in DOMAIN credentials

TypesInv ==
  /\ Bounded
  /\ Counted
  /\ \A c \in DOMAIN credentials : CredentialOK(c)
  /\ AppOK
  /\ \A t \in Task : TaskOK(task[t])
  /\ TokensOK

\* What a step of either side makes of the registry.
LEMMA RegistryEffects ==
  ASSUME OwnersInv, [Next]_vars
  PROVE  /\ \/ merchants' = merchants \/ merchants' = << >>
            \/ \E m \in Merchant : m \notin ToSet(merchants) /\ merchants' = Append(merchants, m)
         /\ members' = members \/ members' = << >> \/ \E e : Ledger!Enrol(e)
         /\ anchored' = anchored \/ FinalizeSet
<1>1. ASSUME NEW t \in Task
      PROVE  /\ AdmitMerchant(t) => \E m \in Merchant : m \notin ToSet(merchants)
                                                        /\ merchants' = Append(merchants, m)
             /\ Enrol(t) => \E e : Ledger!Enrol(e)
             /\ Finalize(t) => FinalizeSet
             /\ StartAfresh(t) => merchants' = << >> /\ members' = << >>
  <2>1. AdmitMerchant(t) => task[t].at = "merchant" /\ task[t].merchant \notin ToSet(merchants)
                            /\ merchants' = Append(merchants, task[t].merchant)
    BY DEF AdmitMerchant, Ledger!AdmitMerchant, At
  <2>2. task[t].at = "merchant" => task[t].merchant \in Merchant
    BY DEF OwnersInv, TaskTyped
  <2>3. Enrol(t) => \E e : Ledger!Enrol(e)
    BY DEF Enrol
  <2>4. Finalize(t) => FinalizeSet
    BY DEF Finalize
  <2>5. StartAfresh(t) => merchants' = << >> /\ members' = << >>
    BY DEF StartAfresh, Ledger!StartAfresh
  <2> QED
    BY <2>1, <2>2, <2>3, <2>4, <2>5
<1>2. \A m \in Merchant : RegisterMerchant(m) => m \notin ToSet(merchants)
                                                 /\ merchants' = Append(merchants, m)
  BY DEF RegisterMerchant, Ledger!AdmitMerchant
<1>3. \A k \in Client : RegisterBeneficiary(k) => \E e : Ledger!Enrol(e)
  BY DEF RegisterBeneficiary
<1>4. FinalizeByClient => FinalizeSet
  BY DEF FinalizeByClient
<1>5. CASE \E t \in Task : Route(t)
  BY <1>1, <1>5, RouteEffects
<1>6. CASE Library
  BY <1>2, <1>3, <1>4, <1>6, LibraryEffects
<1>7. CASE UNCHANGED vars
  BY <1>7 DEF vars, registry
<1> QED
  BY <1>5, <1>6, <1>7 DEF Next

LEMMA BoundedStep ==
  ASSUME OwnersInv, PublishedInv, Bounded, [Next]_vars
  PROVE  Bounded' /\ DOMAIN anchored \subseteq DOMAIN anchored'
<1>1. Len(members') <= Capacity
  <2>1. CASE members' = << >>
    BY <2>1, SizeAssumption
  <2>2. ASSUME NEW e, Ledger!Enrol(e) PROVE Len(members') <= Capacity
    <3>1. Len(members) < Capacity /\ members' = Append(members, e) /\ IsSeq(members)
      BY <2>2 DEF Ledger!Enrol, PublishedInv
    <3>2. Len(members') = Len(members) + 1 /\ Len(members) \in Nat
      BY <3>1, AppendIsSeq
    <3> QED
      BY <3>1, <3>2, SizeAssumption
  <2> QED
    BY <2>1, <2>2, RegistryEffects DEF Bounded
<1>2. /\ Len(anchored') <= MaxSeals /\ DOMAIN anchored \subseteq DOMAIN anchored'
      /\ \A id \in DOMAIN anchored' : Len(anchored'[id]) <= Capacity
  <2>1. CASE FinalizeSet
    <3>1. Len(anchored) < MaxSeals /\ anchored' = Append(anchored, members) /\ IsSeq(anchored)
      BY <2>1 DEF FinalizeSet, PublishedInv
    <3>2. /\ Len(anchored') = Len(anchored) + 1 /\ Len(anchored) \in Nat
          /\ DOMAIN anchored \subseteq DOMAIN anchored'
          /\ \A id \in DOMAIN anchored' : anchored'[id] = members
                                        \/ (id \in DOMAIN anchored /\ anchored'[id] = anchored[id])
      BY <3>1, AppendIsSeq
    <3> QED
      BY <3>1, <3>2, BoundAssumption DEF Bounded
  <2>2. CASE anchored' = anchored
    BY <2>2 DEF Bounded
  <2> QED
    BY <2>1, <2>2, RegistryEffects
<1>3. \A i, j \in DOMAIN merchants' : merchants'[i] = merchants'[j] => i = j
  <2>1. CASE merchants' = merchants
    BY <2>1 DEF Bounded
  <2>2. CASE merchants' = << >>
    BY <2>2
  <2>3. ASSUME NEW m \in Merchant, m \notin ToSet(merchants), merchants' = Append(merchants, m)
        PROVE  \A i, j \in DOMAIN merchants' : merchants'[i] = merchants'[j] => i = j
    <3>1. IsSeq(merchants)
      BY SeqOfRange DEF IsSeq, OwnersInv
    <3>2. /\ Len(merchants) \in Nat
          /\ DOMAIN merchants = 1 .. Len(merchants)
          /\ DOMAIN merchants' = 1 .. Len(merchants) + 1
          /\ \A i \in DOMAIN merchants : merchants'[i] = merchants[i]
          /\ merchants'[Len(merchants) + 1] = m
      BY <2>3, <3>1, AppendIsSeq
    <3>3. \A i \in DOMAIN merchants : merchants[i] # m
      BY <2>3 DEF ToSet
    <3>4. \A i \in DOMAIN merchants' : i \in DOMAIN merchants \/ i = Len(merchants) + 1
      BY <3>2
    <3> QED
      BY <3>2, <3>3, <3>4 DEF Bounded
  <2> QED
    BY <2>1, <2>2, <2>3, RegistryEffects
<1> QED
  BY <1>1, <1>2, <1>3 DEF Bounded

\* A merchant's place is at most the number of names.
LEMMA PlacesBounded ==
  ASSUME OwnersInv, Bounded
  PROVE  /\ Len(merchants) \in Nat /\ DOMAIN merchants = 1 .. Len(merchants)
         /\ Cardinality(Merchant) \in Nat /\ Len(merchants) <= Cardinality(Merchant)
         /\ \A m \in Merchant \ ToSet(merchants) : Len(merchants) + 1 <= Cardinality(Merchant)
<1> DEFINE n == Len(merchants)
           S == ToSet(merchants)
<1>1. n \in Nat /\ DOMAIN merchants = 1 .. n
      /\ S \subseteq Merchant /\ merchants \in [1 .. n -> S]
  BY LenProperties DEF OwnersInv, ToSet
<1>2. \A i, j \in 1 .. n : merchants[i] = merchants[j] => i = j
  BY <1>1 DEF Bounded
<1>3. S = {merchants[i] : i \in 1 .. n}
  BY <1>1 DEF ToSet
<1> HIDE DEF n, S
<1>4. IsFiniteSet(S) /\ Cardinality(S) = n
  <2>1. merchants \in Bijection(1 .. n, S)
    BY <1>1, <1>2, <1>3 DEF Bijection, Injection, Surjection, IsInjective
  <2>2. ExistsBijection(1 .. n, S)
    BY <2>1 DEF ExistsBijection
  <2>3. IsFiniteSet(S)
    BY <1>1, BoundAssumption, FS_Subset
  <2> QED
    BY <1>1, <2>2, <2>3, FS_CountingElements
<1>5. Cardinality(Merchant) \in Nat /\ n <= Cardinality(Merchant)
  BY <1>1, <1>4, BoundAssumption, FS_Subset, FS_CardinalityType
<1>6. ASSUME NEW m \in Merchant, m \notin S PROVE n + 1 <= Cardinality(Merchant)
  <2>1. S \union {m} \subseteq Merchant /\ Cardinality(S \union {m}) = n + 1
    BY <1>1, <1>4, <1>6, FS_AddElement
  <2> QED
    BY <2>1, BoundAssumption, FS_Subset
<1> QED
  BY <1>1, <1>5, <1>6 DEF n, S

\* Credentials are numbered within their bound.
LEMMA CredentialNumbers ==
  ASSUME CredentialsTyped, Counted
  PROVE  /\ Len(credentials) \in Nat /\ DOMAIN credentials = 1 .. Len(credentials)
         /\ Cardinality(InFlight({"credential"})) \in Nat
         /\ DOMAIN credentials \subseteq Credential
<1>1. Len(credentials) \in Nat /\ DOMAIN credentials = 1 .. Len(credentials)
  BY LenProperties DEF CredentialsTyped, IsSeq
<1>2. Cardinality(InFlight({"credential"})) \in Nat
  BY BoundAssumption, FS_Subset, FS_CardinalityType DEF InFlight
<1>3. Len(credentials) <= MaxCredentials
  BY <1>1, <1>2, BoundAssumption DEF Counted
<1> QED
  BY <1>1, <1>2, <1>3, BoundAssumption DEF Credential

\* A set that the registry hands out is as long as a proof needs it, and of credentials.
LEMMA HandedOutTyped ==
  ASSUME OwnersInv, PublishedInv, Bounded, AnchoredPhi \subseteq DOMAIN credentials,
         NEW id \in DOMAIN published
  PROVE  /\ AnonymitySet(id) \in Seq(DOMAIN credentials)
         /\ Len(AnonymitySet(id)) = SetSize
         /\ id \in DOMAIN anchored /\ id \in 1 .. MaxSeals
<1> DEFINE D == DOMAIN credentials
           ms == published[id].members
           phis == [i \in DOMAIN ms |-> ms[i].phi]
           pad == [i \in 1 .. SetSize - Len(phis) |-> Last(phis)]
           n == Len(ms)
<1>1. ms = anchored[id] /\ id \in DOMAIN anchored /\ IsSeq(ms) /\ ms # << >>
  BY DEF PublishedInv
<1>2. n \in Nat \ {0} /\ DOMAIN ms = 1 .. n /\ n <= Capacity
  <2>1. n \in Nat \ {0} /\ DOMAIN ms = 1 .. n
    BY <1>1, EmptySeq, LenProperties DEF IsSeq
  <2> QED
    BY <1>1, <2>1 DEF Bounded
<1>3. \A i \in 1 .. n : ms[i].phi \in D
  <2> SUFFICES ASSUME NEW i \in 1 .. n PROVE ms[i].phi \in D
    OBVIOUS
  <2>1. <<id, i>> \in {f \in (DOMAIN anchored) \X Nat : f[2] \in DOMAIN anchored[f[1]]}
    BY <1>1, <1>2
  <2>2. ms[i].phi \in AnchoredPhi
    BY <1>1, <2>1 DEF AnchoredPhi
  <2> QED
    BY <2>2
<1> HIDE DEF ms, n, D
<1>4. phis \in Seq(D) /\ Len(phis) = n /\ \A i \in 1 .. n : phis[i] \in D
  BY <1>2, <1>3
<1>5. Last(phis) \in D
  BY <1>2, <1>4 DEF Last
<1>6. SetSize - Len(phis) \in Nat
  BY <1>2, <1>4, SizeAssumption
<1>7. pad \in Seq(D) /\ Len(pad) = SetSize - Len(phis)
  BY <1>5, <1>6, IsASeq
<1> HIDE DEF phis, pad
<1>8. phis \o pad \in Seq(D) /\ Len(phis \o pad) = SetSize
  <2>1. Len(phis \o pad) = Len(phis) + Len(pad) /\ phis \o pad \in Seq(D)
    BY <1>4, <1>7, ConcatProperties
  <2> QED
    BY <1>2, <1>4, <1>6, <1>7, <2>1, SizeAssumption
<1>9. AnonymitySet(id) = phis \o pad
  BY DEF AnonymitySet, ms, phis, pad
<1>10. id \in 1 .. MaxSeals
  <2>1. DOMAIN anchored = 1 .. Len(anchored) /\ Len(anchored) \in Nat
    BY LenProperties DEF PublishedInv, IsSeq
  <2> QED
    BY <1>1, <2>1, BoundAssumption DEF Bounded
<1> QED
  BY <1>1, <1>8, <1>9, <1>10 DEF D
-----------------------------------------------------------------------------
\* What may be held between two awaits, and what holds of what is.
LEMMA TasksMade ==
  /\ \A p \in {"idle", "merchants", "finalize", "payment", "reset", "withdrawn", "cleared"} :
       [at |-> p] \in TaskType
  /\ \A crs \in Seq(Merchant) : [at |-> "crs", crs |-> crs] \in TaskType
  /\ \A m \in Merchant : [at |-> "merchant", merchant |-> m] \in TaskType
  /\ \A m \in Merchant, id \in 1 .. Cardinality(Merchant) :
       [at |-> "admitted", merchant |-> m, id |-> id] \in TaskType
  /\ \A b \in Ben, crs \in Seq(Merchant) : [at |-> "credential", ben |-> b, crs |-> crs] \in TaskType
  /\ \A b \in Ben, c \in Credential : [at |-> "register", ben |-> b, cred |-> c] \in TaskType
  /\ \A b \in Ben, i \in 0 .. Capacity - 1 : [at |-> "enrolled", ben |-> b, index |-> i] \in TaskType
  /\ \A id \in 1 .. MaxSeals : /\ [at |-> "finalized", id |-> id] \in TaskType
                               /\ [at |-> "fetch", id |-> id] \in TaskType
  /\ \A set \in [commitments : Seq(Credential), finalized : BOOLEAN] :
       [at |-> "store", set |-> set] \in TaskType
  /\ \A p \in TokenType : [at |-> "token", token |-> p] \in TaskType
  /\ \A m \in Merchant, p \in TokenType : [at |-> "accept", merchant |-> m, token |-> p] \in TaskType
<1> DEFINE Set == [commitments : Seq(Credential), finalized : BOOLEAN]
<1> HIDE DEF Set
<1> QED
  BY DEF TaskType, Set

LEMMA TasksTaken ==
  ASSUME NEW x \in TaskType
  PROVE  /\ x.at = "crs" => x.crs \in Seq(Merchant)
         /\ x.at = "admitted" => x.merchant \in Merchant /\ x.id \in 1 .. Cardinality(Merchant)
         /\ x.at = "credential" => x.ben \in Ben /\ x.crs \in Seq(Merchant)
         /\ x.at = "enrolled" => x.ben \in Ben /\ x.index \in 0 .. Capacity - 1
         /\ x.at \in {"finalized", "fetch"} => x.id \in 1 .. MaxSeals
         /\ x.at = "token" => x.token \in TokenType
         /\ x.at = "accept" => x.merchant \in Merchant /\ x.token \in TokenType
<1> DEFINE Set == [commitments : Seq(Credential), finalized : BOOLEAN]
<1> HIDE DEF Set
<1> QED
  BY DEF TaskType, Set


LEMMA CredentialsOK ==
  ASSUME OwnersInv, PublishedInv, TypesInv, AnchoredPhi \subseteq DOMAIN credentials, [Next]_vars
  PROVE  \A c \in DOMAIN credentials' : CredentialOK(c)'
<1>1. CASE UNCHANGED credentials
  BY <1>1 DEF TypesInv, CredentialOK
<1>2. ASSUME NEW owner \in Ben \union Client, NEW crs \in Seq(Merchant),
             credentials' = Append(credentials, [owner |-> owner, crs |-> crs, index |-> None,
                                                 registered |-> FALSE])
      PROVE  \A c \in DOMAIN credentials' : CredentialOK(c)'
  <2> DEFINE n == Len(credentials')
             new == [owner |-> owner, crs |-> crs, index |-> None, registered |-> FALSE]
  <2>1. /\ DOMAIN credentials' = DOMAIN credentials \union {n}
        /\ \A c \in DOMAIN credentials : credentials'[c] = credentials[c]
        /\ credentials'[n] = new
    BY <1>2, CredentialAdded DEF OwnersInv
  <2>2. new.owner = owner /\ new.crs = crs /\ new.index = None /\ new.registered = FALSE
    OBVIOUS
  <2> HIDE DEF new, n
  <2>3. \A c : credentials'[c] = new => CredentialOK(c)'
    BY <2>2 DEF CredentialOK
  <2>4. \A c \in DOMAIN credentials : CredentialOK(c)'
    BY <2>1 DEF TypesInv, CredentialOK
  <2> QED
    BY <2>1, <2>3, <2>4
<1>3. ASSUME NEW c \in DOMAIN credentials, NEW index \in 0 .. SetSize - 1,
             NEW registered \in BOOLEAN,
             credentials[c].owner \in Ben => index \in 0 .. Capacity - 1,
             \/ credentials' = [credentials EXCEPT ![c].registered = registered, ![c].index = index]
             \/ credentials' = [credentials EXCEPT ![c].index = index]
      PROVE  \A e \in DOMAIN credentials' : CredentialOK(e)'
  <2>1. /\ CredentialsGrow(credentials, credentials')
        /\ DOMAIN credentials' = DOMAIN credentials /\ credentials'[c].index = index
        /\ credentials'[c].registered \in {registered, credentials[c].registered}
        /\ \A e \in DOMAIN credentials : e # c => credentials'[e] = credentials[e]
    <3>1. CredentialsTyped
      BY DEF OwnersInv
    <3> QED
      BY <1>3, <3>1, CredentialChanged
  <2>2. CredentialOK(c)'
    BY <1>3, <2>1 DEF CredentialOK, CredentialsGrow, TypesInv
  <2>3. \A e \in DOMAIN credentials : e # c => CredentialOK(e)'
    BY <2>1 DEF CredentialOK, TypesInv
  <2> QED
    BY <2>1, <2>2, <2>3
<1>4. ASSUME NEW t \in Task, AddBeneficiary(t)
      PROVE  \A c \in DOMAIN credentials' : CredentialOK(c)'
  <2>1. /\ task[t].at = "credential"
        /\ credentials' = Append(credentials, [owner |-> task[t].ben, crs |-> task[t].crs,
                                               index |-> None, registered |-> FALSE])
    BY <1>4 DEF AddBeneficiary, At
  <2>2. task[t].ben \in Ben /\ task[t].crs \in Seq(Merchant)
    BY <2>1, TasksTaken DEF TypesInv, TaskOK
  <2> QED
    BY <1>2, <2>1, <2>2
<1>5. ASSUME NEW t \in Task, UpdateBeneficiary(t)
      PROVE  \A c \in DOMAIN credentials' : CredentialOK(c)'
  <2>1. PICK b, c, i, r : r \in BOOLEAN /\ r = TRUE
                          /\ b = task[t].ben /\ c = app.ben[b] /\ i = task[t].index
    OBVIOUS
  <2>2. /\ task[t].at = "enrolled"
        /\ credentials' = IF c = None THEN credentials
                          ELSE [credentials EXCEPT ![c].registered = r, ![c].index = i]
    BY <1>5, <2>1 DEF UpdateBeneficiary, At
  <2>3. b \in Ben /\ i \in 0 .. Capacity - 1
    BY <2>1, <2>2, TasksTaken DEF TypesInv, TaskOK
  <2>4. c \in {None} \union DOMAIN credentials /\ i \in 0 .. SetSize - 1
    BY <2>1, <2>3, SizeAssumption DEF OwnersInv
  <2> QED
    BY <1>1, <1>3, <2>1, <2>2, <2>3, <2>4
<1>6. ASSUME NEW k \in Client, NewClient(k)
      PROVE  \A c \in DOMAIN credentials' : CredentialOK(c)'
  <2>1. PICK crs \in SortedById(Shops) :
          credentials' = Append(credentials, [owner |-> k, crs |-> crs, index |-> None,
                                              registered |-> FALSE])
    BY <1>6 DEF NewClient
  <2>2. crs \in Seq(Merchant)
    <3>1. Shops \subseteq Merchant /\ Cardinality(Shops) \in Nat
      BY BoundAssumption, FS_Subset, FS_CardinalityType DEF Shops
    <3>2. crs \in [1 .. Cardinality(Shops) -> Merchant]
      BY <3>1 DEF SortedById, SetToSeqs
    <3> QED
      BY <3>1, <3>2
  <2> QED
    BY <1>2, <2>1, <2>2
<1>7. ASSUME NEW k \in Client, NEW id \in DOMAIN published, AttachToSet(k, id)
      PROVE  \A c \in DOMAIN credentials' : CredentialOK(c)'
  <2> DEFINE c == client[k].cred
             set == AnonymitySet(id)
             places == {i \in DOMAIN set : set[i] = c}
             first == CHOOSE i \in places : \A j \in places : i <= j
             index == first - 1
  <2>1. /\ client[k] # None /\ places # {}
        /\ credentials' = [credentials EXCEPT ![c].index = index]
    BY <1>7 DEF AttachToSet
  <2>2. c \in DOMAIN credentials /\ credentials[c].owner = k
    BY <2>1 DEF OwnersInv
  <2>3. set \in Seq(DOMAIN credentials) /\ Len(set) = SetSize
    BY HandedOutTyped DEF TypesInv
  <2> HIDE DEF set
  <2>4. places \subseteq 1 .. SetSize /\ places \subseteq Nat
    BY <2>3, LenProperties, SizeAssumption
  <2> HIDE DEF places
  <2>5. \E i \in places : \A j \in places : i <= j
    BY <2>1, <2>4, LeastNatural
  <2>6. first \in places
    BY <2>5
  <2> HIDE DEF first
  <2>7. index \in 0 .. SetSize - 1
    BY <2>4, <2>6, SizeAssumption
  <2> HIDE DEF index, c
  <2> QED
    BY <1>3, <2>1, <2>2, <2>7, OwnerAssumption
<1>8. CASE \E t \in Task : Route(t)
  BY <1>1, <1>4, <1>5, <1>8, RouteEffects
<1>9. CASE Library
  BY <1>1, <1>6, <1>7, <1>9, LibraryEffects
<1> QED
  BY <1>1, <1>8, <1>9 DEF Next, vars


\* What a route stores in the state object, field by field.
LEMMA FieldsMove ==
  ASSUME AppInv, TypesInv, NEW t \in Task, Route(t)
  PROVE  /\ app'.phase = app.phase \/ \E p \in {-1, 0, 1, 2, 3, 5} : app'.phase \in {p, Raised(p)}
         /\ app'.crs = app.crs \/ app'.crs = None \/ (StoreCrs(t) /\ app'.crs = task[t].crs)
         /\ \/ app'.set = app.set \/ app'.set = None
            \/ app'.set = [commitments |-> << >>, finalized |-> FALSE]
            \/ StoreSet(t) /\ app'.set = task[t].set
         /\ app'.setId = app.setId \/ app'.setId = None \/ (SetSetIdBytes(t) /\ app'.setId = task[t].id)
         /\ \A m \in Merchant : app'.procs[m] # None =>
              \/ app.procs[m] # None /\ app'.procs[m].id = app.procs[m].id
              \/ AddMerchantProcess(t) /\ app'.procs[m].id = task[t].id
<1>1. /\ app = [field \in AppFields |-> app[field]]
      /\ app.procs = [m \in Merchant |-> app.procs[m]]
      /\ \A m \in Merchant : app.procs[m] # None =>
           app.procs[m] = [id |-> app.procs[m].id, identities |-> app.procs[m].identities]
  BY DEF AppInv, SoundApp, SoundProc
<1>2. CASE UNCHANGED app
  BY <1>2
<1>3. CASE StoreCrs(t)
  <2>1. /\ app'.phase = Raised(0) /\ app'.crs = task[t].crs /\ app'.setId = app.setId
        /\ app'.set = [commitments |-> << >>, finalized |-> FALSE] /\ app'.procs = app.procs
    BY <1>1, <1>3 DEF StoreCrs, AppFields
  <2> QED
    BY <1>3, <2>1
<1>4. CASE AddMerchantProcess(t)
  <2> DEFINE new == [id |-> task[t].id, identities |-> << >>]
             m == task[t].merchant
  <2>1. new.id = task[t].id /\ app' = [app EXCEPT !.procs[m] = new]
    BY <1>4 DEF AddMerchantProcess
  <2> HIDE DEF new, m
  <2>2. /\ app'.phase = app.phase /\ app'.crs = app.crs /\ app'.setId = app.setId
        /\ app'.set = app.set /\ app'.procs = [app.procs EXCEPT ![m] = new]
    BY <1>1, <2>1 DEF AppFields
  <2>3. \A n \in Merchant : app'.procs[n] = new \/ app'.procs[n] = app.procs[n]
    BY <1>1, <2>2
  <2> QED
    BY <1>4, <2>1, <2>2, <2>3
<1>5. CASE AddBeneficiary(t)
  <2>1. /\ app'.phase = Raised(1) /\ app'.crs = app.crs /\ app'.setId = app.setId
        /\ app'.set = app.set /\ app'.procs = app.procs
    BY <1>1, <1>5 DEF AddBeneficiary, AppFields
  <2> QED
    BY <2>1
<1>6. CASE SetSetIdBytes(t)
  <2>1. /\ app'.phase = app.phase /\ app'.crs = app.crs /\ app'.setId = task[t].id
        /\ app'.set = app.set /\ app'.procs = app.procs
    BY <1>1, <1>6 DEF SetSetIdBytes, AppFields
  <2> QED
    BY <1>6, <2>1
<1>7. CASE StoreSet(t)
  <2>1. /\ app'.phase = Raised(2) /\ app'.crs = app.crs /\ app'.setId = app.setId
        /\ app'.set = task[t].set /\ app'.procs = app.procs
    BY <1>1, <1>7 DEF StoreSet, AppFields
  <2> QED
    BY <1>7, <2>1
<1>8. CASE HandOutToken(t) \/ HandOutRequest(t)
  <2>1. /\ app'.phase \in {Raised(3), Raised(5)} /\ app'.crs = app.crs /\ app'.setId = app.setId
        /\ app'.set = app.set /\ app'.procs = app.procs
    BY <1>1, <1>8 DEF HandOutToken, HandOutRequest, AppFields
  <2> QED
    BY <2>1
<1>9. CASE AddMerchantIdentity(t)
  <2> DEFINE m == task[t].merchant
             list == Append(app.procs[m].identities, Identity(task[t].token))
             p == [app.procs[m] EXCEPT !.identities = Append(@, Identity(task[t].token))]
  <2>1. task[t].at = "accept"
        /\ app' = IF app.procs[m] = None THEN app ELSE [app EXCEPT !.procs[m] = p]
    BY <1>9 DEF AddMerchantIdentity, At
  <2>2. m \in Merchant
    BY <2>1, TasksTaken DEF TypesInv, TaskOK
  <2>3. CASE app.procs[m] # None
    <3>1. app.procs[m] = [id |-> app.procs[m].id, identities |-> app.procs[m].identities]
      BY <1>1, <2>2, <2>3
    <3>2. p = [id |-> app.procs[m].id, identities |-> list]
      BY <3>1
    <3>3. p.id = app.procs[m].id
      BY <3>2
    <3> HIDE DEF p, list, m
    <3>4. /\ app'.phase = app.phase /\ app'.crs = app.crs /\ app'.setId = app.setId
          /\ app'.set = app.set /\ app'.procs = [app.procs EXCEPT ![m] = p]
      BY <1>1, <2>1, <2>3 DEF AppFields
    <3>5. \A n \in Merchant : app'.procs[n] = app.procs[n] \/ (n = m /\ app'.procs[n] = p)
      BY <1>1, <3>4
    <3> QED
      BY <2>3, <3>3, <3>4, <3>5
  <2> QED
    BY <1>2, <2>1, <2>3
<1>10. CASE ResetState(t)
  <2>1. /\ app'.phase = -1 /\ app'.crs = None /\ app'.setId = None /\ app'.set = None
        /\ app'.procs = [m \in Merchant |-> None]
    BY <1>10 DEF ResetState, Cleared, Fresh
  <2> QED
    BY <2>1
<1> QED
  BY <1>2, <1>3, <1>4, <1>5, <1>6, <1>7, <1>8, <1>9, <1>10, RouteEffects

LEMMA AppTyped ==
  ASSUME OwnersInv, PublishedInv, AppInv, TypesInv, [Next]_vars
  PROVE  AppOK'
<1>1. /\ CredentialsGrow(credentials, credentials') /\ DOMAIN credentials \subseteq DOMAIN credentials'
      /\ DOMAIN anchored \subseteq DOMAIN anchored'
  BY CredentialsKept, BoundedStep DEF CredentialsGrow, TypesInv
<1>2. AppOK
  BY DEF TypesInv
<1>3. CASE UNCHANGED app
  <2>1. app.set # None => app.set.commitments \in Seq(DOMAIN credentials')
    BY <1>1, <1>2, SeqMonotonic DEF AppOK
  <2>2. \A b \in Ben : app.ben[b] # None => credentials'[app.ben[b]].owner = b
    BY <1>1, <1>2 DEF AppOK, OwnersInv, CredentialsGrow
  <2> QED
    BY <1>1, <1>2, <1>3, <2>1, <2>2 DEF AppOK
<1>4. ASSUME NEW t \in Task, Route(t)
      PROVE  AppOK'
  <2>1. TaskOK(task[t])
    BY DEF TypesInv
  <2>2. app'.phase \in -1 .. 5
    BY <1>2, <1>4, FieldsMove DEF AppOK, Raised
  <2>3. app'.crs # None => app'.crs \in Seq(Merchant)
    <3>1. StoreCrs(t) => task[t].crs \in Seq(Merchant)
      BY <2>1, TasksTaken DEF StoreCrs, At, TaskOK
    <3> QED
      BY <1>2, <1>4, <3>1, FieldsMove DEF AppOK
  <2>4. app'.set # None => /\ app'.set.commitments \in Seq(DOMAIN credentials')
                           /\ Len(app'.set.commitments) \in {0, SetSize}
    <3>1. \A s : s \in Seq(DOMAIN credentials) => s \in Seq(DOMAIN credentials')
      BY <1>1, SeqMonotonic
    <3>2. StoreSet(t) => /\ task[t].set.commitments \in Seq(DOMAIN credentials)
                         /\ Len(task[t].set.commitments) = SetSize
      BY <2>1 DEF StoreSet, At, TaskOK
    <3> DEFINE none == << >>
               empty == [commitments |-> none, finalized |-> FALSE]
    <3>3. empty.commitments = none /\ none \in Seq(DOMAIN credentials') /\ Len(none) = 0
          /\ empty = [commitments |-> << >>, finalized |-> FALSE]
      OBVIOUS
    <3> HIDE DEF none, empty
    <3>4. app'.set = app.set \/ app'.set = None \/ app'.set = empty
            \/ (StoreSet(t) /\ app'.set = task[t].set)
      BY <1>4, <3>3, FieldsMove
    <3>5. CASE app'.set = app.set
      BY <1>2, <3>1, <3>5 DEF AppOK
    <3>6. CASE StoreSet(t) /\ app'.set = task[t].set
      BY <3>1, <3>2, <3>6
    <3> QED
      BY <3>3, <3>4, <3>5, <3>6
  <2>5. app'.setId \in {None} \union DOMAIN anchored'
    <3>1. SetSetIdBytes(t) => task[t].id \in DOMAIN anchored
      BY <2>1 DEF SetSetIdBytes, At, TaskOK
    <3> QED
      BY <1>1, <1>2, <1>4, <3>1, FieldsMove DEF AppOK
  <2>6. \A b \in Ben : app'.ben[b] # None => credentials'[app'.ben[b]].owner = b
    <3>1. CASE app'.ben = app.ben
      BY <1>1, <1>2, <3>1 DEF AppOK, OwnersInv, CredentialsGrow
    <3>2. CASE app' = Fresh
      BY <3>2 DEF Fresh
    <3>3. ASSUME NEW u \in Task, AddBeneficiary(u),
                 app'.ben = [app.ben EXCEPT ![task[u].ben] = Len(credentials')]
          PROVE  \A b \in Ben : app'.ben[b] # None => credentials'[app'.ben[b]].owner = b
      <4> DEFINE a == task[u].ben
                 crs == task[u].crs
                 n == Len(credentials')
                 new == [owner |-> a, crs |-> crs, index |-> None, registered |-> FALSE]
      <4>1. credentials' = Append(credentials, new)
        BY <3>3 DEF AddBeneficiary
      <4>2. credentials'[n] = new /\ new.owner = a
        BY <4>1, CredentialAdded DEF OwnersInv
      <4>3. app'.ben = [app.ben EXCEPT ![a] = n]
        BY <3>3
      <4> HIDE DEF a, n, new
      <4>4. \A b \in Ben : (b = a /\ app'.ben[b] = n) \/ app'.ben[b] = app.ben[b]
        BY <4>3 DEF OwnersInv
      <4>5. \A b \in Ben : app.ben[b] # None => credentials'[app.ben[b]].owner = b
        BY <1>1, <1>2 DEF AppOK, OwnersInv, CredentialsGrow
      <4> QED
        BY <4>2, <4>4, <4>5
    <3> QED
      BY <3>1, <3>2, <3>3, BeneficiariesKept
  <2>7. \A m \in Merchant : app'.procs[m] # None => app'.procs[m].id \in 1 .. Cardinality(Merchant)
    <3>1. AddMerchantProcess(t) => task[t].id \in 1 .. Cardinality(Merchant)
      BY <2>1, TasksTaken DEF AddMerchantProcess, At, TaskOK
    <3> QED
      BY <1>2, <1>4, <3>1, FieldsMove DEF AppOK
  <2> QED
    BY <2>2, <2>3, <2>4, <2>5, <2>6, <2>7 DEF AppOK
<1>5. CASE Library
  BY <1>3, <1>5, LibraryEffects
<1> QED
  BY <1>3, <1>4, <1>5 DEF Next, vars


LEMMA TaskOKKept ==
  ASSUME OwnersInv, PublishedInv, TypesInv, [Next]_vars, NEW x, TaskOK(x)
  PROVE  TaskOK(x)'
<1>1. DOMAIN credentials \subseteq DOMAIN credentials' /\ DOMAIN anchored \subseteq DOMAIN anchored'
  BY CredentialsKept, BoundedStep DEF CredentialsGrow, TypesInv
<1>2. \A s : s \in Seq(DOMAIN credentials) => s \in Seq(DOMAIN credentials')
  BY <1>1, SeqMonotonic
<1> QED
  BY <1>1, <1>2 DEF TaskOK

\* Where a route goes on, it holds what it may.
LEMMA RouteTyped ==
  ASSUME OwnersInv, PublishedInv, AppInv, TypesInv, AnchoredPhi \subseteq DOMAIN credentials,
         [Next]_vars, NEW t \in Task, Route(t)
  PROVE  \E next : /\ Go(t, next) /\ TaskOK(next)'
                   /\ next.at = "credential" => \E b \in Ben : CallCredential(t, b)
<1> DEFINE Goal == \E next : /\ Go(t, next) /\ TaskOK(next)'
                             /\ next.at = "credential" => \E b \in Ben : CallCredential(t, b)
<1> SUFFICES Goal
  OBVIOUS
<1>1. ASSUME NEW next, Go(t, next), TaskOK(next), next.at # "credential"
      PROVE  Goal
  BY <1>1, TaskOKKept
<1>2. ASSUME NEW next, Go(t, next), next \in TaskType,
             next.at \notin {"finalized", "fetch", "store", "token", "credential"}
      PROVE  Goal
  BY <1>1, <1>2 DEF TaskOK
<1> HIDE DEF Goal
<1>3. TaskOK(task[t]) /\ AppOK /\ task[t] \in TaskType
  BY DEF TypesInv, TaskOK
<1>4. ASSUME NEW p \in {"idle", "merchants", "finalize", "payment", "reset", "withdrawn", "cleared"},
             Go(t, [at |-> p])
      PROVE  Goal
  <2> DEFINE next == [at |-> p]
  <2>1. next \in TaskType /\ next.at = p /\ Go(t, next)
    BY <1>4, TasksMade
  <2> HIDE DEF next
  <2> QED
    BY <1>2, <2>1
<1>5. CASE End(t)
  BY <1>4, <1>5 DEF End, Idle
<1>6. CASE Fails(t) \/ StoreCrs(t) \/ AddMerchantProcess(t) \/ AddBeneficiary(t) \/ StoreSet(t)
           \/ HandOutToken(t) \/ HandOutRequest(t) \/ AddMerchantIdentity(t) \/ ResetState(t)
  BY <1>5, <1>6 DEF Fails, StoreCrs, AddMerchantProcess, AddBeneficiary, StoreSet, HandOutToken,
     HandOutRequest, AddMerchantIdentity, ResetState
<1>7. CASE CallInit(t) \/ CallFinalize(t) \/ CallReset(t) \/ Withdraw(t) \/ StartAfresh(t)
  BY <1>4, <1>7 DEF CallInit, CallFinalize, CallReset, Withdraw, StartAfresh
<1>8. CASE ListMerchants(t)
  <2>1. End(t) \/ \E order \in Listings : Go(t, [at |-> "crs", crs |-> order])
    BY <1>8 DEF ListMerchants
  <2>2. ASSUME NEW order \in Listings, Go(t, [at |-> "crs", crs |-> order])
        PROVE  Goal
    <3>1. ToSet(merchants) \subseteq Merchant /\ Len(merchants) \in Nat
      BY LenProperties DEF OwnersInv, ToSet
    <3>2. order \in [1 .. Len(merchants) -> Merchant]
      BY <3>1 DEF Listings
    <3>3. order \in Seq(Merchant)
      BY <3>1, <3>2
    <3> DEFINE next == [at |-> "crs", crs |-> order]
    <3>4. next \in TaskType /\ next.at = "crs" /\ Go(t, next)
      BY <2>2, <3>3, TasksMade
    <3> HIDE DEF next
    <3> QED
      BY <1>2, <3>4
  <2> QED
    BY <1>5, <2>1, <2>2
<1>9. ASSUME NEW m \in Merchant, CreateMerchant(t, m)
      PROVE  Goal
  <2> DEFINE next == [at |-> "merchant", merchant |-> m]
  <2>1. next \in TaskType /\ next.at = "merchant" /\ Go(t, next)
    BY <1>9, TasksMade DEF CreateMerchant
  <2> HIDE DEF next
  <2> QED
    BY <1>2, <2>1
<1>10. CASE AdmitMerchant(t)
  <2>1. PICK m, id : m = task[t].merchant /\ id = Len(merchants) + 1
    OBVIOUS
  <2>2. /\ task[t].at = "merchant" /\ m \notin ToSet(merchants)
        /\ Go(t, [at |-> "admitted", merchant |-> m, id |-> id])
    BY <1>10, <2>1 DEF AdmitMerchant, At
  <2>3. m \in Merchant
    BY <2>1, <2>2 DEF OwnersInv, TaskTyped
  <2>4. id \in 1 .. Cardinality(Merchant)
    BY <2>1, <2>2, <2>3, PlacesBounded DEF TypesInv
  <2> DEFINE next == [at |-> "admitted", merchant |-> m, id |-> id]
  <2>5. next \in TaskType /\ next.at = "admitted" /\ Go(t, next)
    BY <2>2, <2>3, <2>4, TasksMade
  <2> HIDE DEF next
  <2> QED
    BY <1>2, <2>5
<1>11. ASSUME NEW b \in Ben, CallCredential(t, b)
       PROVE  Goal
  <2>1. app.crs \in Seq(Merchant) /\ Go(t, [at |-> "credential", ben |-> b, crs |-> app.crs])
    BY <1>3, <1>11 DEF CallCredential, NoCredentialYet, AppOK
  <2> DEFINE next == [at |-> "credential", ben |-> b, crs |-> app.crs]
  <2>2. next \in TaskType /\ next.at = "credential" /\ Go(t, next)
    BY <2>1, TasksMade
  <2>3. PICK x : x = next
    OBVIOUS
  <2> HIDE DEF next
  <2>4. TaskOK(x)
    BY <2>2, <2>3 DEF TaskOK
  <2> QED
    BY <1>11, <2>2, <2>3, <2>4, TaskOKKept DEF Goal
<1>12. ASSUME NEW b \in Ben, CallRegister(t, b)
       PROVE  Goal
  <2>1. PICK c : c = app.ben[b] /\ c # None /\ Go(t, [at |-> "register", ben |-> b, cred |-> c])
    BY <1>12 DEF CallRegister
  <2>2. c \in Credential
    BY <2>1, CredentialNumbers DEF OwnersInv, TypesInv
  <2> DEFINE next == [at |-> "register", ben |-> b, cred |-> c]
  <2>3. next \in TaskType /\ next.at = "register" /\ Go(t, next)
    BY <2>1, <2>2, TasksMade
  <2> HIDE DEF next
  <2> QED
    BY <1>2, <2>3
<1>13. CASE Enrol(t)
  <2>1. PICK b, i : b = task[t].ben /\ i = Len(members)
    OBVIOUS
  <2>2. /\ task[t].at = "register" /\ i < Capacity
        /\ Go(t, [at |-> "enrolled", ben |-> b, index |-> i])
    BY <1>13, <2>1 DEF Enrol, Ledger!Enrol, At
  <2>3. b \in Ben
    BY <2>1, <2>2 DEF OwnersInv, TaskTyped
  <2>4. i \in 0 .. Capacity - 1
    <3>1. Len(members) \in Nat
      BY LenProperties DEF PublishedInv, IsSeq
    <3> QED
      BY <2>1, <2>2, <3>1, SizeAssumption
  <2> DEFINE next == [at |-> "enrolled", ben |-> b, index |-> i]
  <2>5. next \in TaskType /\ next.at = "enrolled" /\ Go(t, next)
    BY <2>2, <2>3, <2>4, TasksMade
  <2> HIDE DEF next
  <2> QED
    BY <1>2, <2>5
<1>14. ASSUME NEW id \in DOMAIN anchored, Go(t, [at |-> "fetch", id |-> id])
       PROVE  Goal
  <2>1. id \in 1 .. MaxSeals
    <3>1. DOMAIN anchored = 1 .. Len(anchored) /\ Len(anchored) \in Nat
      BY LenProperties DEF PublishedInv, IsSeq
    <3> QED
      BY <3>1, BoundAssumption DEF TypesInv, Bounded
  <2> DEFINE next == [at |-> "fetch", id |-> id]
  <2>2. next \in TaskType /\ next.at = "fetch" /\ next.id = id /\ Go(t, next)
    BY <1>14, <2>1, TasksMade
  <2> HIDE DEF next
  <2>3. TaskOK(next)
    BY <2>2 DEF TaskOK
  <2> QED
    BY <1>1, <2>2, <2>3
<1>15. CASE UpdateBeneficiary(t)
  <2>1. app.setId \in {None} \union DOMAIN anchored
    BY <1>3 DEF AppOK
  <2>2. Go(t, Idle) \/ (app.setId # None /\ Go(t, [at |-> "fetch", id |-> app.setId]))
    BY <1>15 DEF UpdateBeneficiary
  <2> QED
    BY <1>5, <1>14, <2>1, <2>2 DEF End
<1>16. CASE Finalize(t)
  <2>1. PICK id : id = Len(anchored')
    OBVIOUS
  <2>2. FinalizeSet /\ Go(t, [at |-> "finalized", id |-> id])
    BY <1>16, <2>1 DEF Finalize
  <2>3. id \in DOMAIN anchored' /\ id \in 1 .. MaxSeals
    <3>1. Len(anchored) < MaxSeals /\ anchored' = Append(anchored, members) /\ IsSeq(anchored)
      BY <2>2 DEF FinalizeSet, PublishedInv
    <3>2. id = Len(anchored) + 1 /\ Len(anchored) \in Nat /\ DOMAIN anchored' = 1 .. id
      BY <2>1, <3>1, AppendIsSeq
    <3> QED
      BY <3>1, <3>2, BoundAssumption
  <2> DEFINE next == [at |-> "finalized", id |-> id]
  <2>4. next \in TaskType /\ next.at = "finalized" /\ next.id = id /\ Go(t, next)
    BY <2>2, <2>3, TasksMade
  <2>5. PICK x : x = next
    OBVIOUS
  <2> HIDE DEF next
  <2>6. TaskOK(x)'
    BY <2>3, <2>4, <2>5 DEF TaskOK
  <2> QED
    BY <2>4, <2>5, <2>6 DEF Goal
<1>17. CASE SetSetIdBytes(t)
  <2>1. task[t].at = "finalized" /\ Go(t, [at |-> "fetch", id |-> task[t].id])
    BY <1>17 DEF SetSetIdBytes, At
  <2>2. task[t].id \in DOMAIN anchored
    BY <1>3, <2>1 DEF TaskOK
  <2> QED
    BY <1>14, <2>1, <2>2
<1>18. CASE FetchSet(t)
  <2>1. PICK list, f : list = AnonymitySet(task[t].id) /\ f \in BOOLEAN /\ f = TRUE
    OBVIOUS
  <2> DEFINE set == [commitments |-> list, finalized |-> f]
             next == [at |-> "store", set |-> set]
  <2>2. task[t].id \in DOMAIN published /\ Go(t, next)
    BY <1>18, <2>1 DEF FetchSet
  <2>3. list \in Seq(DOMAIN credentials) /\ Len(list) = SetSize
    BY <2>1, <2>2, HandedOutTyped DEF TypesInv
  <2>4. list \in Seq(Credential)
    BY <2>3, CredentialNumbers, SeqMonotonic DEF OwnersInv, TypesInv
  <2>5. set \in [commitments : Seq(Credential), finalized : BOOLEAN] /\ set.commitments = list
    BY <2>1, <2>4
  <2> HIDE DEF set
  <2>6. next \in TaskType /\ next.at = "store" /\ next.set = set
    BY <2>5, TasksMade
  <2> HIDE DEF next
  <2>7. TaskOK(next)
    BY <2>3, <2>5, <2>6 DEF TaskOK
  <2> QED
    BY <1>1, <2>2, <2>6, <2>7
<1>19. ASSUME NEW b \in Ben, CallPayment(t, b)
       PROVE  Goal
  BY <1>4, <1>19 DEF CallPayment
<1>20. ASSUME NEW b \in Ben, NEW id \in 1 .. Cardinality(Merchant), CallPaymentId(t, b, id)
       PROVE  Goal
  <2>1. PICK c, crs, set, index :
          /\ c = app.ben[b] /\ crs = app.crs /\ set = app.set.commitments
          /\ index = credentials[app.ben[b]].index
    OBVIOUS
  <2> DEFINE p == [cred |-> c, crs |-> crs, set |-> set, setId |-> 1, service |-> id,
                   index |-> index]
             next == [at |-> "token", token |-> p]
  <2>2. /\ c # None /\ index # None /\ app.set # None /\ crs # None
        /\ Go(t, next)
    BY <1>20, <2>1 DEF CallPaymentId, Proof, AppSetId, Finalized
  <2>3. c \in DOMAIN credentials /\ credentials[c].owner = b
    BY <1>3, <2>1, <2>2 DEF AppOK, OwnersInv
  <2>4. c \in Credential /\ DOMAIN credentials \subseteq Credential
    BY <2>3, CredentialNumbers DEF OwnersInv, TypesInv
  <2>5. index \in 0 .. Capacity - 1
    BY <2>1, <2>2, <2>3 DEF TypesInv, CredentialOK
  <2>6. crs \in Seq(Merchant) /\ set \in Seq(Credential)
    BY <1>3, <2>1, <2>2, <2>4, SeqMonotonic DEF AppOK
  <2>7. p \in TokenType /\ p.cred = c
    BY <2>4, <2>5, <2>6 DEF TokenType
  <2> HIDE DEF p
  <2>8. next \in TaskType /\ next.at = "token" /\ next.token = p
    BY <2>7, TasksMade
  <2> HIDE DEF next
  <2>9. TaskOK(next)
    BY <2>3, <2>7, <2>8 DEF TaskOK
  <2> QED
    BY <1>1, <2>2, <2>8, <2>9
<1>21. ASSUME NEW m \in Merchant, NEW p \in tokens, CallReceive(t, m, p)
       PROVE  Goal
  <2> DEFINE next == [at |-> "accept", merchant |-> m, token |-> p]
  <2>1. p \in TokenType /\ Go(t, next)
    BY <1>21 DEF CallReceive, TypesInv, TokensOK
  <2>2. next \in TaskType /\ next.at = "accept"
    BY <2>1, TasksMade
  <2> HIDE DEF next
  <2> QED
    BY <1>2, <2>1, <2>2
<1> QED
  BY <1>6, <1>7, <1>8, <1>9, <1>10, <1>11, <1>12, <1>13, <1>15, <1>16, <1>17, <1>18, <1>19,
     <1>20, <1>21 DEF Route


LEMMA TasksOK ==
  ASSUME OwnersInv, PublishedInv, AppInv, TypesInv, AnchoredPhi \subseteq DOMAIN credentials,
         [Next]_vars
  PROVE  \A t \in Task : TaskOK(task[t])'
<1>1. \A t \in Task : TaskOK(task[t])
  BY DEF TypesInv
<1>2. ASSUME NEW t \in Task, Route(t)
      PROVE  \A u \in Task : TaskOK(task[u])'
  <2>1. PICK next : Go(t, next) /\ TaskOK(next)'
    BY <1>2, RouteTyped
  <2>2. task' = [task EXCEPT ![t] = next] /\ task = [u \in Task |-> task[u]]
    BY <2>1 DEF Go, AppInv
  <2> SUFFICES ASSUME NEW u \in Task PROVE TaskOK(task[u])'
    OBVIOUS
  <2>3. PICK x : x = task'[u]
    OBVIOUS
  <2>4. CASE x = next
    BY <2>1, <2>3, <2>4 DEF TaskOK
  <2>5. CASE x = task[u]
    <3>1. TaskOK(x)
      BY <1>1, <2>5
    <3>2. TaskOK(x)'
      BY <3>1, TaskOKKept
    <3> QED
      BY <2>3, <3>2 DEF TaskOK
  <2> QED
    BY <2>2, <2>3, <2>4, <2>5
<1>3. ASSUME task' = task
      PROVE  \A u \in Task : TaskOK(task[u])'
  <2> SUFFICES ASSUME NEW u \in Task PROVE TaskOK(task[u])'
    OBVIOUS
  <2>1. PICK x : x = task'[u]
    OBVIOUS
  <2>2. TaskOK(x)
    BY <1>1, <1>3, <2>1
  <2>3. TaskOK(x)'
    BY <2>2, TaskOKKept
  <2> QED
    BY <2>1, <2>3 DEF TaskOK
<1> QED
  BY <1>2, <1>3, LibraryEffects DEF Next, vars

\* What HandOutToken adds is what its task has held.
LEMMA TokensTyped ==
  ASSUME OwnersInv, TypesInv, [Next]_vars
  PROVE  TokensOK'
<1>1. DOMAIN credentials \subseteq DOMAIN credentials'
  BY CredentialsKept DEF CredentialsGrow
<1>2. CASE UNCHANGED tokens
  BY <1>1, <1>2 DEF TypesInv, TokensOK
<1>3. ASSUME NEW t \in Task, HandOutToken(t)
      PROVE  TokensOK'
  <2>1. PICK p : p = task[t].token
    OBVIOUS
  <2>2. task[t].at = "token" /\ tokens' = tokens \union {p}
    BY <1>3, <2>1 DEF HandOutToken, At
  <2>3. p \in TokenType /\ p.cred \in DOMAIN credentials
    BY <2>1, <2>2, TasksTaken DEF TypesInv, TaskOK
  <2> QED
    BY <1>1, <2>2, <2>3 DEF TypesInv, TokensOK
<1>4. ASSUME NEW t \in Task, Route(t), ~HandOutToken(t)
      PROVE  UNCHANGED tokens
  BY <1>4 DEF Route, Fails, CallInit, ListMerchants, StoreCrs, CreateMerchant, AdmitMerchant,
     AddMerchantProcess, CallCredential, CallRegister, AddBeneficiary, Enrol, UpdateBeneficiary,
     CallFinalize, Finalize, SetSetIdBytes, FetchSet, StoreSet, CallPaymentId, CallPayment,
     HandOutRequest, CallReceive, AddMerchantIdentity, CallReset, Withdraw, StartAfresh, ResetState
<1> QED
  BY <1>2, <1>3, <1>4, LibraryEffects DEF Next, vars

\* Sequences of the same domain are of the same length.
LEMMA SameLength ==
  ASSUME NEW s, NEW u, IsSeq(s), IsSeq(u), DOMAIN s = DOMAIN u
  PROVE  Len(s) = Len(u)
<1>1. /\ Len(s) \in Nat /\ DOMAIN s = 1 .. Len(s)
      /\ Len(u) \in Nat /\ DOMAIN u = 1 .. Len(u)
  BY LenProperties DEF IsSeq
<1>2. \A a, b \in Nat : 1 .. a = 1 .. b => ~(a < b)
  <2> SUFFICES ASSUME NEW a \in Nat, NEW b \in Nat, 1 .. a = 1 .. b, a < b PROVE FALSE
    OBVIOUS
  <2>1. b \in 1 .. b /\ b \notin 1 .. a
    OBVIOUS
  <2> QED
    BY <2>1
<1>3. PICK a \in Nat, b \in Nat : a = Len(s) /\ b = Len(u) /\ 1 .. a = 1 .. b
  BY <1>1
<1>4. ~(a < b) /\ ~(b < a)
  BY <1>2, <1>3
<1> QED
  BY <1>3, <1>4

\* A credential that the core is asked for has been counted, and is counted once.
LEMMA StillCounted ==
  ASSUME OwnersInv, PublishedInv, AppInv, TypesInv, AnchoredPhi \subseteq DOMAIN credentials,
         [Next]_vars
  PROVE  Counted'
<1> DEFINE F == InFlight({"credential"})
           n == Len(credentials)
<1>1. /\ n \in Nat /\ Cardinality(F) \in Nat /\ n + Cardinality(F) <= MaxCredentials
      /\ IsFiniteSet(F) /\ \A u \in F : u \in Task
  BY CredentialNumbers, BoundAssumption, FS_Subset DEF OwnersInv, TypesInv, Counted, InFlight
<1>2. CredentialsTyped /\ IsSeq(credentials) /\ IsSeq(credentials')
  BY CredentialsKept DEF OwnersInv, CredentialsTyped
<1>3. ASSUME NEW owner, NEW crs,
             credentials' = Append(credentials, [owner |-> owner, crs |-> crs, index |-> None,
                                                 registered |-> FALSE])
      PROVE  Len(credentials') = n + 1
  BY <1>2, <1>3, CredentialAdded
<1>4. ASSUME NEW c \in DOMAIN credentials, NEW index, NEW registered,
             \/ credentials' = [credentials EXCEPT ![c].registered = registered, ![c].index = index]
             \/ credentials' = [credentials EXCEPT ![c].index = index]
      PROVE  Len(credentials') = n
  <2>1. DOMAIN credentials' = DOMAIN credentials
    BY <1>2, <1>4, CredentialChanged
  <2> QED
    BY <1>2, <2>1, SameLength
<1>5. ASSUME NEW t \in Task, UpdateBeneficiary(t)
      PROVE  Len(credentials') = n
  <2>1. PICK b, c, i, r : r \in BOOLEAN /\ r = TRUE
                          /\ b = task[t].ben /\ c = app.ben[b] /\ i = task[t].index
    OBVIOUS
  <2>2. /\ task[t].at = "enrolled"
        /\ credentials' = IF c = None THEN credentials
                          ELSE [credentials EXCEPT ![c].registered = r, ![c].index = i]
    BY <1>5, <2>1 DEF UpdateBeneficiary, At
  <2>3. c \in {None} \union DOMAIN credentials
    BY <2>1, <2>2 DEF OwnersInv, TaskTyped
  <2> QED
    BY <1>4, <2>2, <2>3
<1>6. ASSUME NEW k \in Client, NEW id, AttachToSet(k, id)
      PROVE  Len(credentials') = n
  <2>1. PICK index : /\ client[k] # None
                     /\ credentials' = [credentials EXCEPT ![client[k].cred].index = index]
    BY <1>6 DEF AttachToSet
  <2>2. client[k].cred \in DOMAIN credentials
    BY <2>1 DEF OwnersInv
  <2> QED
    BY <1>4, <2>1, <2>2
<1>7. ASSUME NEW t \in Task, Route(t)
      PROVE  Counted'
  <2>1. PICK next : Go(t, next) /\ (next.at = "credential" => \E b \in Ben : CallCredential(t, b))
    BY <1>7, RouteTyped
  <2>2. \A u \in Task : task'[u] = IF u = t THEN next ELSE task[u]
    BY <2>1 DEF Go, AppInv
  <2>3. CASE AddBeneficiary(t)
    <3>1. PICK owner, crs : credentials' = Append(credentials,
                              [owner |-> owner, crs |-> crs, index |-> None, registered |-> FALSE])
      BY <2>3 DEF AddBeneficiary
    <3>2. t \in F
      BY <2>3 DEF AddBeneficiary, At, InFlight
    <3>3. task' = [task EXCEPT ![t] = Idle]
      BY <2>3 DEF AddBeneficiary, End, Go
    <3>4. \A u \in Task : task'[u] = IF u = t THEN Idle ELSE task[u]
      BY <3>3 DEF AppInv
    <3>5. F' = F \ {t}
      BY <3>4 DEF InFlight, Idle
    <3>6. Cardinality(F') = Cardinality(F) - 1
      BY <1>1, <3>2, <3>5, FS_RemoveElement
    <3> QED
      BY <1>1, <1>3, <3>1, <3>6 DEF Counted
  <2>4. ASSUME NEW b \in Ben, CallCredential(t, b)
        PROVE  Counted'
    <3>1. task[t].at = "idle" /\ credentials' = credentials /\ n + Cardinality(F) < MaxCredentials
      BY <2>4 DEF CallCredential, At
    <3>2. t \notin F
      BY <3>1 DEF InFlight
    <3>3. F' \subseteq F \union {t}
      BY <2>2 DEF InFlight
    <3>4. IsFiniteSet(F \union {t}) /\ Cardinality(F \union {t}) = Cardinality(F) + 1
      BY <1>1, <3>2, FS_AddElement
    <3>5. Cardinality(F') \in Nat /\ Cardinality(F') <= Cardinality(F) + 1
      BY <3>3, <3>4, FS_Subset, FS_CardinalityType
    <3> QED
      BY <1>1, <3>1, <3>5, BoundAssumption DEF Counted
  <2>5. ASSUME ~AddBeneficiary(t), ~\E b \in Ben : CallCredential(t, b)
        PROVE  Counted'
    <3>1. Len(credentials') = n
      BY <1>5, <1>7, <2>5, RouteEffects
    <3>2. F' \subseteq F
      BY <2>1, <2>2, <2>5 DEF InFlight
    <3>3. Cardinality(F') \in Nat /\ Cardinality(F') <= Cardinality(F)
      BY <1>1, <3>2, FS_Subset, FS_CardinalityType
    <3> QED
      BY <1>1, <3>1, <3>3, BoundAssumption DEF Counted
  <2> QED
    BY <2>3, <2>4, <2>5
<1>8. CASE Library
  <2>1. F' = F
    BY <1>8, LibraryEffects DEF InFlight
  <2>2. ASSUME NEW k \in Client, NewClient(k)
        PROVE  Counted'
    <3>1. PICK crs : credentials' = Append(credentials,
                       [owner |-> k, crs |-> crs, index |-> None, registered |-> FALSE])
      BY <2>2 DEF NewClient
    <3>2. n + Cardinality(F) < MaxCredentials
      BY <2>2 DEF NewClient
    <3> QED
      BY <1>1, <1>3, <2>1, <3>1, <3>2, BoundAssumption DEF Counted
  <2>3. CASE Len(credentials') = n
    BY <1>1, <2>1, <2>3 DEF Counted
  <2> QED
    BY <1>6, <1>8, <2>2, <2>3, LibraryEffects
<1>9. CASE UNCHANGED vars
  BY <1>1, <1>9 DEF vars, Counted, InFlight
<1> QED
  BY <1>7, <1>8, <1>9 DEF Next

LEMMA TypesStep ==
  PublishedInv /\ AppInv /\ OwnersInv /\ PlacesInv /\ TypesInv /\ [Next]_vars => TypesInv'
<1> SUFFICES ASSUME PublishedInv, AppInv, OwnersInv, PlacesInv, TypesInv, [Next]_vars
             PROVE  TypesInv'
  OBVIOUS
<1>1. AnchoredPhi \subseteq DOMAIN credentials /\ Bounded
  BY DEF PlacesInv, TypesInv
<1>2. Bounded'
  BY <1>1, BoundedStep
<1>3. Counted'
  BY <1>1, StillCounted
<1>4. \A c \in DOMAIN credentials' : CredentialOK(c)'
  BY <1>1, CredentialsOK
<1>5. AppOK'
  BY AppTyped
<1>6. \A t \in Task : TaskOK(task[t])'
  BY <1>1, TasksOK
<1>7. TokensOK'
  BY TokensTyped
<1> QED
  BY <1>2, <1>3, <1>4, <1>5, <1>6, <1>7 DEF TypesInv

LEMMA TypesStart == Init => TypesInv
<1> SUFFICES ASSUME Init PROVE TypesInv
  OBVIOUS
<1>1. \A t \in Task : task[t] = Idle
  BY DEF Init
<1>2. Idle \in TaskType /\ Idle.at = "idle"
  BY TasksMade DEF Idle
<1>3. \A t \in Task : TaskOK(task[t])
  BY <1>1, <1>2 DEF TaskOK
<1>4. Bounded
  <2>1. Len(<< >>) = 0 /\ DOMAIN << >> = {}
    OBVIOUS
  <2> QED
    BY <2>1, BoundAssumption, SizeAssumption DEF Init, Bounded
<1>5. Counted
  <2>1. InFlight({"credential"}) = {}
    BY <1>1, <1>2 DEF InFlight
  <2>2. Cardinality(InFlight({"credential"})) = 0
    BY <2>1, FS_EmptySet
  <2> QED
    BY <2>2, BoundAssumption DEF Init, Counted
<1>6. AppOK
  BY DEF Init, Fresh, AppOK
<1> QED
  BY <1>3, <1>4, <1>5, <1>6 DEF Init, TypesInv, TokensOK

\* The services and the places that the code works with are those of the registry and
\* of the set: a MerchantState has the id that the registry gave its name, until a
\* reset, and no route stores a set that is not of SetSize commitments.
THEOREM PaymentsTypeCorrect == Spec => []TypeOK
<1>1. Spec => []TypesInv
  <2>1. PublishedInv /\ AppInv /\ OwnersInv /\ PlacesInv /\ TypesInv /\ [Next]_vars => TypesInv'
    BY TypesStep
  <2> QED
    BY TypesStart, Inductive, PlacesInductive, <2>1, PTL DEF Spec
<1>2. AppInv /\ OwnersInv /\ PlacesInv /\ TypesInv => TypeOK
  <2> SUFFICES ASSUME AppInv, OwnersInv, PlacesInv, TypesInv PROVE TypeOK
    OBVIOUS
  <2>1. task \in [Task -> TaskType]
    BY DEF AppInv, TypesInv, TaskOK
  <2>2. resets = 0 => \A m \in Shops : shop[m].id \in DOMAIN merchants
    BY DEF PlacesInv, Settled, ShopsPlaced, Shops
  <2>3. \A c \in DOMAIN credentials :
          /\ credentials[c].owner \in Ben \union Client
          /\ credentials[c].crs \in Seq(Merchant)
          /\ credentials[c].index \in {None} \union 0 .. SetSize - 1
          /\ credentials[c].registered \in BOOLEAN
    BY DEF TypesInv, CredentialOK
  <2>4. /\ \A b \in Ben : app.ben[b] \in {None} \union DOMAIN credentials
        /\ \A k \in Client : client[k] # None => client[k].cred \in DOMAIN credentials
    BY DEF OwnersInv
  <2>5. AppOK /\ TokensOK
    BY DEF TypesInv
  <2>6. app.crs = None \/ app.crs \in Seq(Merchant)
    BY <2>5 DEF AppOK
  <2> QED
    BY <2>1, <2>2, <2>3, <2>4, <2>5, <2>6 DEF TypeOK, AppOK, TokensOK
<1> QED
  BY <1>1, <1>2, Inductive, PlacesInductive, PTL
=============================================================================
