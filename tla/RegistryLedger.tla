--------------------------- MODULE RegistryLedger ---------------------------
(***************************************************************************)
(* What the registry promises the merchants and the beneficiaries, with no *)
(* lock, handler or wallet in sight: an append-only list of merchants, an  *)
(* append-only list of members (the pending anonymity set), and finalized  *)
(* sets, each published under the identifier of the Bitcoin transaction    *)
(* that anchors it.                                                        *)
(*                                                                         *)
(* A published set never changes, and it holds exactly the members that    *)
(* its transaction anchors and the merchants that were registered at that  *)
(* moment.  RegistryService implements this specification.                 *)
(***************************************************************************)
EXTENDS Integers, Sequences

CONSTANTS Name,      \* merchant names
          Member,    \* records [phi, out]: a commitment and the payment it came with
          Capacity   \* the most members a set may have

VARIABLES merchants, \* the registered merchants, in the order of their ids
          members,   \* the pending anonymity set
          anchored,  \* the member lists anchored on chain, oldest first
          published   \* the finalized sets: a partial function on positions of anchored

lvars == <<merchants, members, anchored, published>>

LedgerInit ==
  /\ merchants = << >>
  /\ members = << >>
  /\ anchored = << >>
  /\ published = << >>

\* A merchant receives the next id.
AdmitMerchant(n) ==
  /\ merchants' = Append(merchants, n)
  /\ UNCHANGED <<members, anchored, published>>

\* A beneficiary joins the pending set, which has room and does not hold its
\* commitment yet.
Enrol(m) ==
  /\ Len(members) < Capacity
  /\ \A i \in DOMAIN members : members[i].phi # m.phi
  /\ members' = Append(members, m)
  /\ UNCHANGED <<merchants, anchored, published>>

\* A transaction that commits to the pending set reaches the chain.
Anchor ==
  /\ members # << >>
  /\ anchored' = Append(anchored, members)
  /\ UNCHANGED <<merchants, members, published>>

\* The newest anchored set is published with the CRS of all merchants.  It still
\* is the pending set: nobody joined since it was anchored.
Publish ==
  LET id == Len(anchored)
  IN  /\ anchored # << >>
      /\ id \notin DOMAIN published
      /\ anchored[id] = members
      /\ published' = [t \in DOMAIN published \union {id} |->
                         IF t = id THEN [members |-> members, crs |-> merchants]
                                   ELSE published[t]]
      /\ UNCHANGED <<merchants, members, anchored>>

\* A reset first withdraws the published sets, then starts the lists afresh.
Withdraw ==
  /\ published' = << >>
  /\ UNCHANGED <<merchants, members, anchored>>

StartAfresh ==
  /\ merchants' = << >>
  /\ members' = << >>
  /\ UNCHANGED <<anchored, published>>

\* The process stops and starts again: only the chain remains.
Restart ==
  /\ merchants' = << >>
  /\ members' = << >>
  /\ published' = << >>
  /\ UNCHANGED anchored

LedgerNext ==
  \/ \E n \in Name : AdmitMerchant(n)
  \/ \E m \in Member : Enrol(m)
  \/ Anchor
  \/ Publish
  \/ Withdraw
  \/ StartAfresh
  \/ Restart

LedgerSpec == LedgerInit /\ [][LedgerNext]_lvars
=============================================================================
