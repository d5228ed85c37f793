--------------------------- MODULE MembershipProof ---------------------------
(***************************************************************************)
(* A payment identity from enrolment to its verification:                  *)
(* src/core/payment_identity.rs, with the credential (credential.rs), the  *)
(* beneficiary's side (beneficiary.rs), the challenge (utils.rs) and the   *)
(* commands create-payment-id and receive-payment-id of veiled_core.rs.    *)
(*                                                                         *)
(* A point is the function from generators to its coefficients: nobody     *)
(* knows a relation between generators, so two points are equal just when  *)
(* their coefficients are.  Coefficients are integers, of which those      *)
(* modulo the order of the group are the image.  A derived secret is a     *)
(* constant, the challenge a value that is drawn anew for each transcript. *)
(* Prover and verifier run the code; what goes wrong between them is what  *)
(* the application can get wrong: the CRS was built again in another       *)
(* order, the index or the set is not the one the credential is in, the    *)
(* proof arrives in part, the set id is another one.                       *)
(***************************************************************************)
EXTENDS CrsEncoding

CONSTANTS M,             \* bits of an index: SetSize = 2^M
          MerchantLists, \* the orders in which a CRS may list the merchants
          Me, Other,     \* the prover's credential and another one
          Layouts,       \* what a set may hold, slot by slot: Me, Other or None
          Secret,        \* derive_nullifier: s_l of a credential and a name
          ChildSecret,   \* derive_payment_request_secret_key: csk_l of them
          Blinding,      \* k of each credential
          NameScalar,    \* to_scalar_bytes of each credential's friendly name
          Coins,         \* what the prover may draw
          Challenge,     \* values of the hash
          NullifierHash, \* the hash of the proof that nul_l = s_l g
          SetId,         \* set ids
          None           \* no proof yet, no valid point

Bit == 0 .. M - 1

\* x_powers: one multiplication after the other.
Power(x, n) ==
  LET power[m \in 0 .. n] == IF m = 0 THEN 1 ELSE power[m - 1] * x
  IN  power[n]

ASSUME ListsAssumption == \A list \in MerchantLists :
                            list \in Seq([name : Seq(0 .. Byte - 1), origin : Seq(0 .. Byte - 1)])
ASSUME MAssumption == M \in Nat \ {0} /\ SetSize = Power(2, M)
ASSUME LayoutsAssumption == \A layout \in Layouts : layout \in Seq({Me, Other, None})
ASSUME ChallengeAssumption == Challenge \subseteq Int \ {0}
\* The hiding scalar of B is not zero; there is a row of rho for each generator.
ASSUME CoinsAssumption ==
  \A c \in Coins :
    /\ c.r_a \in Int /\ c.r_b \in Int \ {0} /\ c.r_c \in Int /\ c.r_d \in Int /\ c.t \in Int
    /\ c.a \in [Bit -> Int]
    /\ \A list \in MerchantLists : \A i \in 1 .. Len(list) + 1 : c.rho[i] \in [Bit -> Int]
\* Whatever is hashed to a scalar gives one: the names of the merchants, also as they
\* are read from the bytes of a CRS, and the names of the credentials.
ASSUME ScalarsAssumption ==
  /\ NullifierHash \in Int
  /\ \A m \in {Me, Other} :
       /\ Blinding[m] \in Int /\ NameScalar[m] \in Int
       /\ \A list \in MerchantLists :
            \A c \in {Setup(list), FromBytes(ToBytes(Setup(list)))} :
              c.ok => \A l \in DOMAIN c.merchants : Secret[m][c.merchants[l].name] \in Int

VARIABLES
  crs,     \* bytes of the CRS under which credentials are made and proofs too
  witness, \* what create-payment-id is given, and the list that the CRS is of
  sent,    \* coins, first message and challenge of the proof: None before
  verdict  \* what came of it, and what the verifier was given

vars == <<crs, witness, sent, verdict>>
-----------------------------------------------------------------------------
MaxMerchants == CHOOSE n \in {Len(l) : l \in MerchantLists} :
                  \A l \in MerchantLists : Len(l) <= n

\* The generators: g, h_name, h_l, and the H_k of bit_generators.
g == <<"g", 0>>
h_name == <<"name", 0>>
h(l) == <<"h", l>>
H(k) == <<"H", k>>
Generator == {g, h_name} \union {h(l) : l \in 1 .. MaxMerchants} \union {H(k) : k \in Bit}

Identity == [e \in Generator |-> 0]
Mul(e, s) == [Identity EXCEPT ![e] = s]
Plus(p, q) == [e \in Generator |-> p[e] + q[e]]
Scale(p, s) == [e \in Generator |-> p[e] * s]
SumOf(points) == [e \in Generator |-> SumFunction([i \in DOMAIN points |-> points[i][e]])]
-----------------------------------------------------------------------------
\* derive_all_nullifiers, for the names of a CRS in their order.
Nullifiers(m, c) == [l \in DOMAIN c.merchants |-> Secret[m][c.merchants[l].name]]

\* Crs::commit_master_identity with the scalars of MasterCredential::create.
Commitment(m, c) ==
  [e \in Generator |-> CASE e = g -> Blinding[m]
                         [] e = h_name -> NameScalar[m]
                         [] e[1] = "h" /\ e[2] \in DOMAIN c.merchants -> Nullifiers(m, c)[e[2]]
                         [] OTHER -> 0]

\* A commitment to one value for each bit: r g + v_0 H_0 + ...
BitCommitment(r, v) ==
  [e \in Generator |-> CASE e = g -> r [] e[1] = "H" -> v[e[2]] [] OTHER -> 0]

\* The shifted commitments; the verifier takes what is no point for the identity.
Shifted(set, l, s) ==
  [j \in DOMAIN set |-> IF set[j] = None THEN Identity ELSE Plus(set[j], Mul(h(l), -s))]

\* j >> k, and its last bit.
ShiftedRight(j, k) ==
  LET right[m \in 0 .. k] == IF m = 0 THEN j ELSE right[m - 1] \div 2
  IN  right[k]
BitOf(j, k) == ShiftedRight(j, k) % 2

\* The generators that a proof for service l of a CRS with n merchants responds to.
ActiveGenerators(l, n) ==
  <<g>> \o RemoveAt([m \in 1 .. n |-> h(m)], l) \o <<h_name>>

\* The witness for them, in the same order.
WitnessScalars(m, c, l) ==
  <<Blinding[m]>> \o RemoveAt(Nullifiers(m, c), l) \o <<NameScalar[m]>>
-----------------------------------------------------------------------------
\* Mutant: the blinding of a zero bit keeps its sign.
FactorKeepingSign(index, a, j, k) ==
  IF BitOf(j, k) = 1 THEN <<BitOf(index, k), a[k]>> ELSE <<1 - BitOf(index, k), a[k]>>

\* The factor of p_j for bit k: its coefficients of x and of 1.
Factor(index, a, j, k) ==
  IF BitOf(j, k) = 1 THEN <<BitOf(index, k), a[k]>> ELSE <<1 - BitOf(index, k), -a[k]>>

\* The coefficients of p_j, multiplied out one bit after the other.
Polynomial(index, a, j) ==
  LET poly[m \in 0 .. M] ==
        IF m = 0 THEN [i \in 0 .. M |-> IF i = 0 THEN 1 ELSE 0]
        ELSE LET c == Factor(index, a, j, m - 1)
             IN  [i \in 0 .. M |-> poly[m - 1][i] * c[2]
                                     + (IF i = 0 THEN 0 ELSE poly[m - 1][i - 1] * c[1])]
  IN  poly[M]

\* prove_payment_identity_registration up to the challenge: A, B, C, D and E.
FirstMessage(w, c, coins) ==
  LET bits == [k \in Bit |-> BitOf(w.index, k)]
      active == ActiveGenerators(w.service, c.generators)
      shifted == Shifted(w.set, w.service, Nullifiers(Me, c)[w.service])
      poly == [j \in DOMAIN w.set |-> Polynomial(w.index, coins.a, j - 1)]
  IN  [a |-> BitCommitment(coins.r_a, coins.a),
       b |-> BitCommitment(coins.r_b, bits),
       c |-> BitCommitment(coins.r_c, [k \in Bit |-> coins.a[k] * (1 - 2 * bits[k])]),
       d |-> BitCommitment(coins.r_d, [k \in Bit |-> -coins.a[k] * coins.a[k]]),
       e_poly |-> [k \in Bit |->
                    Plus(SumOf([i \in DOMAIN active |-> Mul(active[i], coins.rho[i][k])]),
                         SumOf([j \in DOMAIN w.set |-> Scale(shifted[j], poly[j][k])]))]]

\* prove_payment_identity_registration after the challenge: f, z_a, z_c and
\* z, and the answer of the proof that nul_l = s_l g.
Responses(w, c, coins, x) ==
  LET scalars == WitnessScalars(Me, c, w.service)
  IN  [f |-> [k \in Bit |-> BitOf(w.index, k) * x + coins.a[k]],
       z_a |-> coins.r_a + coins.r_b * x,
       z_c |-> coins.r_c * x + coins.r_d,
       z |-> [i \in DOMAIN scalars |->
               scalars[i] * Power(x, M)
                 - SumFunction([k \in Bit |-> coins.rho[i][k] * Power(x, k)])],
       s_l |-> Nullifiers(Me, c)[w.service],
       schnorr |-> coins.t + NullifierHash * Nullifiers(Me, c)[w.service]]

\* Why create_payment_registration makes no proof.
ProverRefuses(w, c) ==
  \/ Len(w.set) # SetSize
  \/ w.index \notin 0 .. SetSize - 1
  \/ w.service \notin 1 .. c.generators
\* A commitment that is no point makes the prover panic.
ProverPanics(w) == \E j \in DOMAIN w.set : w.set[j] = None
-----------------------------------------------------------------------------
\* derive_payment_request_pseudonym, by which a merchant knows the holder of m.
Pseudonym(m, name) == Mul(g, ChildSecret[m][name])

\* Mutant: the set id and the pseudonym are not part of what is hashed.
TranscriptUnbound(service, setId, pseudonym, nul, nameScalar, shifted, first) ==
  [service |-> service, nul |-> nul, name |-> nameScalar,
   shifted |-> shifted, first |-> first]

\* fiat_shamir_challenge: what is hashed.
Transcript(service, setId, pseudonym, nul, nameScalar, shifted, first) ==
  [service |-> service, set_id |-> setId, pseudonym |-> pseudonym, nul |-> nul,
   name |-> nameScalar, shifted |-> shifted, first |-> first]

\* Check 1 and check 2, the bit commitments.
BitsHold(first, r, x) ==
  /\ Mul(g, r.z_a) = Plus(Plus(first.a, Scale(first.b, x)),
                          BitCommitment(0, [k \in Bit |-> -r.f[k]]))
  /\ Mul(g, r.z_c) = Plus(Plus(Scale(first.c, x), first.d),
                          BitCommitment(0, [k \in Bit |-> -r.f[k] * (x - r.f[k])]))

\* p_j(x), from the f_k.
ProductOf(f, x, j) ==
  LET product[m \in 0 .. M] ==
        IF m = 0 THEN 1
        ELSE product[m - 1] * (IF BitOf(j, m - 1) = 1 THEN f[m - 1] ELSE x - f[m - 1])
  IN  product[M]

\* Check 3, the polynomial identity.
IdentityHolds(first, r, x, shifted, service, n) ==
  LET active == ActiveGenerators(service, n)
  IN  SumOf([j \in DOMAIN shifted |-> Scale(shifted[j], ProductOf(r.f, x, j - 1))])
        = Plus(SumOf([i \in DOMAIN active |-> Mul(active[i], r.z[i])]),
               SumOf([k \in Bit |-> Scale(first.e_poly[k], Power(x, k))]))

\* The last checks: the nullifier is that of the revealed scalar, and known.
NullifierHolds(r, nonce, nul) ==
  /\ nul = Mul(g, r.s_l)
  /\ Mul(g, r.schnorr) = Plus(nonce, Scale(nul, NullifierHash))

\* Sizes of a serialized proof: PROOF_BASE_SIZE, and with its z.
BaseSize == 4 * 33 + M * 33 + M * 32 + 2 * 32 + 33 + 3 * 32
FullSize(n) == BaseSize + (n + 1) * 32

\* deserialize_payment_identity_registration_proof: bytes that make up a proof.
Whole(bytes) == bytes >= BaseSize /\ (bytes - BaseSize) % 32 = 0

\* What it makes of the first bytes of a serialized proof.
Deserialized(r, bytes) == [r EXCEPT !.z = SubSeq(@, 1, (bytes - BaseSize) \div 32)]

\* What verify_payment_identity_registration_proof looks at before any equation.
WellFormed(n, set, service, r) ==
  /\ Len(set) = SetSize
  /\ service \in 1 .. n
  /\ Len(r.z) = n + 1
-----------------------------------------------------------------------------
\* A CRS is built from the merchants in some order, and a credential was made
\* under the CRS of that time.
Init ==
  \E current \in MerchantLists, enrolled \in MerchantLists, layout \in Layouts :
    /\ crs = ToBytes(Setup(current))
    /\ witness \in [listed : {current}, index : 0 .. SetSize, service : 0 .. MaxMerchants,
                    set_id : SetId,
                    set : {[j \in DOMAIN layout |->
                              IF layout[j] = None THEN None
                              ELSE Commitment(layout[j], Setup(enrolled))]}]
    /\ sent = None
    /\ verdict = [answer |-> "none"]

\* Beneficiary::create_payment_registration, to the challenge.
Prove ==
  LET c == FromBytes(crs)
  IN  /\ sent = None /\ verdict.answer = "none"
      /\ UNCHANGED <<crs, witness>>
      /\ IF ~c.ok \/ ProverRefuses(witness, c) \/ ProverPanics(witness)
           THEN verdict' = [answer |-> "no proof"] /\ UNCHANGED sent
           ELSE /\ UNCHANGED verdict
                /\ \E coins \in Coins, x \in Challenge :
                     sent' = [coins |-> coins, x |-> x,
                              first |-> FirstMessage(witness, c, coins)]

\* verify_payment_identity_registration_proof, with a CRS of n merchants, of the
\* proof that the prover made of challenge x, when the verifier's challenge is y.
Accepts(n, s, bytes, x, y) ==
  LET c == FromBytes(crs)
      service == witness.service
      s_l == Nullifiers(Me, c)[service]
      r == Deserialized(Responses(witness, c, s.coins, x), bytes)
  IN  /\ Whole(bytes)
      /\ WellFormed(n, witness.set, service, r)
      /\ BitsHold(s.first, r, y)
      /\ IdentityHolds(s.first, r, y, Shifted(witness.set, service, s_l), service, n)
      /\ NullifierHolds(r, Mul(g, s.coins.t), Mul(g, s_l))

\* handle_receive_payment_id: with a CRS, the set id, the pseudonym of this or
\* another beneficiary, and as many bytes of the proof as the verifier was given.
Receive ==
  LET c == FromBytes(crs)
      nul == Nullifiers(Me, c)[witness.service]
      name == c.merchants[witness.service].name
      Hashed(setId, holder) ==
        Transcript(witness.service, setId, Pseudonym(holder, name), Mul(g, nul),
                   NameScalar[Me], Shifted(witness.set, witness.service, nul), sent.first)
      full == FullSize(c.generators)
  IN  /\ sent # None /\ verdict.answer = "none"
      /\ \E n \in {Len(l) : l \in MerchantLists}, setId \in SetId, holder \in {Me, Other},
            bytes \in {full, full - 1, full - 32, BaseSize - 1} :
           \E y \in IF Hashed(setId, holder) = Hashed(witness.set_id, Me)
                      THEN {sent.x} ELSE Challenge \ {sent.x} :
             verdict' = [answer |-> IF Accepts(n, sent, bytes, sent.x, y)
                                      THEN "accepted" ELSE "refused",
                         set_id |-> setId, pseudonym |-> Pseudonym(holder, name),
                         bytes |-> bytes, merchants |-> n]
      /\ UNCHANGED <<crs, witness, sent>>

Next == Prove \/ Receive

Spec == Init /\ [][Next]_vars
-----------------------------------------------------------------------------
\* No text of these merchants is too long for its length.
Fits(list) == \A i \in DOMAIN list : /\ Len(list[i].name) <= MaxLen
                                     /\ Len(list[i].origin) < Byte * Byte

\* The bytes of a CRS whose texts are not too long for their lengths are read as
\* the CRS that was written: the same merchants in the same positions.
\* (Crs::to_bytes and Crs::from_bytes.)
CrsRoundTrip == Fits(witness.listed) => FromBytes(crs) = Setup(witness.listed)

\* Such a CRS that was cut short is never taken for one with fewer merchants or other
\* ones, wherever the cut is.  (Crs::from_bytes: a check before each read.)
PrefixesRefused ==
  Fits(witness.listed) => \A n \in 0 .. Len(crs) - 1 : ~FromBytes(SubSeq(crs, 1, n)).ok

\* The commitment at the index is the one that the prover can open, under the CRS
\* that it uses now.
Opens == witness.set[witness.index + 1] = Commitment(Me, FromBytes(crs))

\* The proof shows what it says.  For a prover whose commitment is in the set at its
\* index, made under the same order of merchants, every challenge leads to
\* acceptance; for any other, whether the index, the order or the set is wrong, every
\* challenge leads to refusal.  (The responses and the checks 1 to 3 of
\* verify_payment_identity_registration_proof, against each other.)
ProofsOpen ==
  sent # None /\ verdict.answer = "none" =>
    LET n == FromBytes(crs).generators
        accepting == {x \in Challenge : Accepts(n, sent, FullSize(n), x, x)}
    IN  accepting = IF Opens THEN Challenge ELSE {}

\* A proof is accepted for the set and the pseudonym that it was made for, or not at
\* all, whatever else the verifier was given: a registration that is sent again with
\* another pseudonym does not make a second identity.  (fiat_shamir_challenge hashes
\* the set id and the pseudonym, and z_a fits one challenge only.)
ProofsBound ==
  verdict.answer = "accepted" =>
    /\ verdict.set_id = witness.set_id
    /\ verdict.pseudonym = Pseudonym(Me, FromBytes(crs).merchants[witness.service].name)
=============================================================================
