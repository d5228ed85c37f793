------------------------ MODULE MembershipProofProofs ------------------------
(***************************************************************************)
(* Proofs about MembershipProof, for every size of the sets, every list of *)
(* merchants, all secrets and coins, and any set of challenges.            *)
(***************************************************************************)
EXTENDS MembershipProof, TLAPS, SequenceTheorems, Induction

\* What was sent is the first message for coins that the prover may draw, and
\* the hash of it is a challenge.
SentInv ==
  sent # None =>
    \E coins \in Coins, x \in Challenge :
      sent = [coins |-> coins, x |-> x, first |-> FirstMessage(witness, FromBytes(crs), coins)]

\* The blinding of the bit commitments, at g, leaves room for one challenge.
LEMMA OneChallenge ==
  ASSUME NEW w, NEW c, NEW coins \in Coins, NEW x \in Challenge, NEW y \in Challenge,
         NEW bytes,
         BitsHold(FirstMessage(w, c, coins), Deserialized(Responses(w, c, coins, x), bytes), y)
  PROVE  x = y
<1> DEFINE first == FirstMessage(w, c, coins)
           r == Deserialized(Responses(w, c, coins, x), bytes)
<1>1. g \in Generator /\ g[1] = "g"
  BY DEF Generator, g
<1>2. x \in Int /\ y \in Int /\ coins.r_a \in Int /\ coins.r_b \in Int \ {0}
  BY ChallengeAssumption, CoinsAssumption
<1>3. r.z_a = coins.r_a + coins.r_b * x
  BY DEF Responses, Deserialized
<1>4. first.a[g] = coins.r_a /\ first.b[g] = coins.r_b
  BY <1>1 DEF FirstMessage, BitCommitment
<1>5. Mul(g, r.z_a)[g] = r.z_a
  BY <1>1 DEF Mul, Identity
<1>6. Mul(g, r.z_a)[g] = first.a[g] + first.b[g] * y + 0
  <2>1. Mul(g, r.z_a) = Plus(Plus(first.a, Scale(first.b, y)),
                             BitCommitment(0, [k \in Bit |-> -r.f[k]]))
    BY DEF BitsHold
  <2>2. BitCommitment(0, [k \in Bit |-> -r.f[k]])[g] = 0
    BY <1>1 DEF BitCommitment
  <2> QED
    BY <2>1, <2>2, <1>1 DEF Plus, Scale
<1>7. coins.r_a + coins.r_b * x = coins.r_a + coins.r_b * y
  BY <1>2, <1>3, <1>4, <1>5, <1>6
<1>8. coins.r_b * (x - y) = 0
  BY <1>2, <1>7
<1> QED
  BY <1>2, <1>8
-----------------------------------------------------------------------------
\* Transcripts are equal for one set id and one pseudonym only.
LEMMA TranscriptBinds ==
  ASSUME NEW service, NEW nul, NEW nameScalar, NEW shifted, NEW first,
         NEW i, NEW j, NEW p, NEW q,
         Transcript(service, i, p, nul, nameScalar, shifted, first)
           = Transcript(service, j, q, nul, nameScalar, shifted, first)
  PROVE  i = j /\ p = q
<1> DEFINE s == Transcript(service, i, p, nul, nameScalar, shifted, first)
           t == Transcript(service, j, q, nul, nameScalar, shifted, first)
<1>1. s.set_id = i /\ s.pseudonym = p /\ t.set_id = j /\ t.pseudonym = q
  BY DEF Transcript
<1> QED
  BY <1>1

\* What the verifier accepts was hashed as the prover hashed it.
LEMMA ReceiveBound == SentInv /\ Receive => ProofsBound'
<1> SUFFICES ASSUME SentInv, Receive, verdict'.answer = "accepted"
             PROVE  /\ verdict'.set_id = witness.set_id
                    /\ verdict'.pseudonym =
                         Pseudonym(Me, FromBytes(crs).merchants[witness.service].name)
  BY DEF ProofsBound, Receive
<1> DEFINE c == FromBytes(crs)
           nul == Nullifiers(Me, c)[witness.service]
           name == c.merchants[witness.service].name
           Hashed(setId, holder) ==
             Transcript(witness.service, setId, Pseudonym(holder, name), Mul(g, nul),
                        NameScalar[Me], Shifted(witness.set, witness.service, nul), sent.first)
<1>1. PICK n, setId, holder, bytes, y :
        /\ y \in IF Hashed(setId, holder) = Hashed(witness.set_id, Me)
                   THEN {sent.x} ELSE Challenge \ {sent.x}
        /\ verdict' = [answer |-> IF Accepts(n, sent, bytes, sent.x, y)
                                    THEN "accepted" ELSE "refused",
                       set_id |-> setId, pseudonym |-> Pseudonym(holder, name),
                       bytes |-> bytes, merchants |-> n]
  BY DEF Receive
<1>2. PICK coins \in Coins, x \in Challenge :
        sent = [coins |-> coins, x |-> x, first |-> FirstMessage(witness, c, coins)]
  BY DEF SentInv, Receive
<1>3. y \in Challenge
  BY <1>1, <1>2
<1>4. Accepts(n, sent, bytes, sent.x, y)
  BY <1>1
<1>5. BitsHold(sent.first, Deserialized(Responses(witness, c, sent.coins, sent.x), bytes), y)
  BY <1>4 DEF Accepts
<1>6. x = y
  BY <1>2, <1>3, <1>5, OneChallenge
<1>7. Hashed(setId, holder) = Hashed(witness.set_id, Me)
  BY <1>1, <1>2, <1>6
<1>8. setId = witness.set_id /\ Pseudonym(holder, name) = Pseudonym(Me, name)
  BY <1>7, TranscriptBinds
<1> QED
  BY <1>1, <1>8

\* A proof is accepted for the set id and the pseudonym it was made for only: the
\* challenge hashes both, and one challenge fits what the prover has answered.
\* (fiat_shamir_challenge, and check 1 of the verifier.)
THEOREM ProofsStayBound == Spec => []ProofsBound
<1> DEFINE Inv == SentInv /\ ProofsBound
<1>1. Init => Inv
  BY DEF Init, SentInv, ProofsBound
<1>2. Inv /\ [Next]_vars => Inv'
  <2> SUFFICES ASSUME Inv, [Next]_vars PROVE Inv'
    OBVIOUS
  <2>1. CASE Prove
    <3>1. crs' = crs /\ witness' = witness
      BY <2>1 DEF Prove
    <3>2. SentInv'
      <4>1. CASE UNCHANGED sent
        BY <4>1, <3>1 DEF SentInv
      <4>2. CASE \E coins \in Coins, x \in Challenge :
                   sent' = [coins |-> coins, x |-> x,
                            first |-> FirstMessage(witness, FromBytes(crs), coins)]
        BY <4>2, <3>1 DEF SentInv
      <4> QED
        BY <2>1, <4>1, <4>2 DEF Prove
    <3>3. ProofsBound'
      <4>1. CASE verdict' = verdict
        BY <4>1, <3>1 DEF ProofsBound
      <4>2. CASE verdict' = [answer |-> "no proof"]
        BY <4>2 DEF ProofsBound
      <4> QED
        BY <2>1, <4>1, <4>2 DEF Prove
    <3> QED
      BY <3>2, <3>3
  <2>2. CASE Receive
    BY <2>2, ReceiveBound DEF Receive, SentInv
  <2>3. CASE UNCHANGED vars
    BY <2>3 DEF vars, SentInv, ProofsBound
  <2> QED
    BY <2>1, <2>2, <2>3 DEF Next
<1>3. Inv => ProofsBound
  OBVIOUS
<1> QED
  BY <1>1, <1>2, <1>3, PTL DEF Spec
-----------------------------------------------------------------------------
(***************************************************************************)
(* The bytes of a CRS.                                                     *)
(***************************************************************************)

Text == Seq(0 .. Byte - 1)
MerchantType == [name : Text, origin : Text]
Cells == Seq(Nat)

\* A text whose length is below the square of Byte has it back from its two bytes.
LEMMA LengthRead ==
  ASSUME NEW n \in Nat, n < Byte * Byte
  PROVE  /\ (n \div Byte) % Byte \in Nat /\ n % Byte \in Nat
         /\ ((n \div Byte) % Byte) * Byte + (n % Byte) = n
<1> DEFINE q == n \div Byte
           r == n % Byte
<1>1. Byte \in Nat /\ Byte > 0
  BY ByteAssumption
<1>2. q \in Int /\ r \in Nat /\ n = Byte * q + r /\ r < Byte
  BY <1>1
<1> HIDE DEF q, r
<1>3. q >= 0 /\ q < Byte
  <2>1. ~(q < 0)
    BY <1>1, <1>2
  <2>2. ~(q >= Byte)
    BY <1>1, <1>2
  <2> QED
    BY <1>1, <1>2, <2>1, <2>2
<1>4. q % Byte = q
  BY <1>1, <1>2, <1>3
<1> QED
  BY <1>1, <1>2, <1>3, <1>4 DEF q, r

Join(s, t) == s \o t

LEMMA Joined ==
  ASSUME NEW s \in Cells, NEW t \in Cells
  PROVE  /\ Join(s, t) \in Cells /\ Len(Join(s, t)) = Len(s) + Len(t)
         /\ Len(s) \in Nat /\ Len(t) \in Nat
         /\ \A i \in 1 .. Len(s) : Join(s, t)[i] = s[i]
         /\ \A i \in 1 .. Len(t) : Join(s, t)[Len(s) + i] = t[i]
<1>1. /\ s \o t \in Cells /\ Len(s \o t) = Len(s) + Len(t)
      /\ Len(s) \in Nat /\ Len(t) \in Nat
      /\ \A i \in 1 .. Len(s) + Len(t) :
           (s \o t)[i] = IF i <= Len(s) THEN s[i] ELSE t[i - Len(s)]
  BY ConcatProperties, LenProperties DEF Cells
<1>2. \A i \in 1 .. Len(t) : /\ Len(s) + i \in 1 .. Len(s) + Len(t) /\ ~(Len(s) + i <= Len(s))
                             /\ (Len(s) + i) - Len(s) = i
  BY <1>1
<1> QED
  BY <1>1, <1>2 DEF Join

\* What is written of a merchant, cell by cell.
LEMMA MerchantCells ==
  ASSUME NEW m \in MerchantType
  PROVE  /\ MerchantBytes(m) \in Cells
         /\ Len(m.name) \in Nat /\ Len(m.origin) \in Nat
         /\ Len(MerchantBytes(m)) = 5 + Len(m.name) + Len(m.origin)
         /\ MerchantBytes(m)[1] = (Len(m.name) \div Byte) % Byte
         /\ MerchantBytes(m)[2] = Len(m.name) % Byte
         /\ \A i \in 1 .. Len(m.name) : MerchantBytes(m)[2 + i] = m.name[i]
         /\ MerchantBytes(m)[4 + Len(m.name)] = (Len(m.origin) \div Byte) % Byte
         /\ MerchantBytes(m)[5 + Len(m.name)] = Len(m.origin) % Byte
         /\ \A i \in 1 .. Len(m.origin) :
              MerchantBytes(m)[5 + Len(m.name) + i] = m.origin[i]
<1>1. PICK name \in Text, origin \in Text : name = m.name /\ origin = m.origin
  BY DEF MerchantType
<1>2. \A text \in Text : text \in Cells /\ Len(text) \in Nat
  <2>1. 0 .. Byte - 1 \subseteq Nat
    BY ByteAssumption
  <2> QED
    BY <2>1, SeqMonotonic, LenProperties DEF Text, Cells
<1>3. \A n \in Nat : /\ Length(n) \in Cells /\ Len(Length(n)) = 2
                     /\ Length(n)[1] = (n \div Byte) % Byte /\ Length(n)[2] = n % Byte
  <2> SUFFICES ASSUME NEW n \in Nat
               PROVE  /\ Length(n) \in Cells /\ Len(Length(n)) = 2
                      /\ Length(n)[1] = (n \div Byte) % Byte /\ Length(n)[2] = n % Byte
    OBVIOUS
  <2>1. (n \div Byte) % Byte \in Nat /\ n % Byte \in Nat
    BY ByteAssumption
  <2>2. PICK a \in Nat, b \in Nat : a = (n \div Byte) % Byte /\ b = n % Byte
    BY <2>1
  <2> QED
    BY <2>2 DEF Length, Cells
<1> DEFINE n == Len(name)
           o == Len(origin)
           point == <<CredentialGenerator(name)>>
           s1 == Join(Length(n), name)
           s2 == Join(s1, point)
           s3 == Join(s2, Length(o))
           s4 == Join(s3, origin)
<1>4. n \in Nat /\ o \in Nat /\ name \in Cells /\ origin \in Cells
  BY <1>2
<1>5. point \in Cells /\ Len(point) = 1
  <2>1. CredentialGenerator(name) \in Nat
    BY <1>4, ByteAssumption DEF CredentialGenerator, PointCell
  <2> QED
    BY <2>1 DEF Cells
<1>6. /\ s1 \in Cells /\ Len(s1) = 2 + n
      /\ s1[1] = Length(n)[1] /\ s1[2] = Length(n)[2]
      /\ \A i \in 1 .. n : s1[2 + i] = name[i]
  <2>1. PICK u : u = Length(n) /\ u \in Cells /\ Len(u) = 2
    BY <1>3, <1>4
  <2>2. /\ s1 \in Cells /\ Len(s1) = Len(u) + n
        /\ \A i \in 1 .. Len(u) : s1[i] = u[i]
        /\ \A i \in 1 .. n : s1[Len(u) + i] = name[i]
    BY <1>4, <2>1, Joined
  <2> QED
    BY <2>1, <2>2
<1> HIDE DEF point, s1, n, o
<1>7. /\ s2 \in Cells /\ Len(s2) = 3 + n
      /\ \A i \in 1 .. 2 + n : s2[i] = s1[i]
  <2>1. /\ s2 \in Cells /\ Len(s2) = Len(s1) + Len(point)
        /\ \A i \in 1 .. Len(s1) : s2[i] = s1[i]
    BY <1>5, <1>6, Joined
  <2> QED
    BY <1>4, <1>5, <1>6, <2>1
<1> HIDE DEF s2
<1>8. /\ s3 \in Cells /\ Len(s3) = 5 + n
      /\ \A i \in 1 .. 3 + n : s3[i] = s2[i]
      /\ s3[4 + n] = Length(o)[1] /\ s3[5 + n] = Length(o)[2]
  <2>1. Length(o) \in Cells /\ Len(Length(o)) = 2
    BY <1>3, <1>4
  <2>2. /\ s3 \in Cells /\ Len(s3) = Len(s2) + Len(Length(o))
        /\ \A i \in 1 .. Len(s2) : s3[i] = s2[i]
        /\ \A i \in 1 .. Len(Length(o)) : s3[Len(s2) + i] = Length(o)[i]
    BY <1>7, <2>1, Joined
  <2>3. (3 + n) + 1 = 4 + n /\ (3 + n) + 2 = 5 + n /\ (3 + n) + 2 \in Nat
    BY <1>4
  <2>4. 1 \in 1 .. 2 /\ 2 \in 1 .. 2
    OBVIOUS
  <2>5. s3[(3 + n) + 1] = Length(o)[1] /\ s3[(3 + n) + 2] = Length(o)[2]
    BY <1>7, <2>1, <2>2, <2>4
  <2> QED
    BY <1>7, <2>1, <2>2, <2>3, <2>5
<1> HIDE DEF s3
<1>9. /\ s4 \in Cells /\ Len(s4) = 5 + n + o
      /\ \A i \in 1 .. 5 + n : s4[i] = s3[i]
      /\ \A i \in 1 .. o : s4[5 + n + i] = origin[i]
  <2>1. /\ s4 \in Cells /\ Len(s4) = Len(s3) + Len(origin)
        /\ \A i \in 1 .. Len(s3) : s4[i] = s3[i]
        /\ \A i \in 1 .. Len(origin) : s4[Len(s3) + i] = origin[i]
    BY <1>4, <1>8, Joined
  <2> QED
    BY <1>8, <2>1 DEF o
<1> HIDE DEF s4
<1>10. s4[1] = Length(n)[1] /\ s4[2] = Length(n)[2]
  BY <1>4, <1>6, <1>7, <1>8, <1>9
<1>11. \A i \in 1 .. n : s4[2 + i] = name[i]
  <2> SUFFICES ASSUME NEW i \in 1 .. n PROVE s4[2 + i] = name[i]
    OBVIOUS
  <2>1. 2 + i \in 1 .. 2 + n /\ 2 + i \in 1 .. 3 + n /\ 2 + i \in 1 .. 5 + n
    BY <1>4
  <2> QED
    BY <1>6, <1>7, <1>8, <1>9, <2>1
<1>12. s4[4 + n] = Length(o)[1] /\ s4[5 + n] = Length(o)[2]
  BY <1>4, <1>8, <1>9
<1>13. MerchantBytes(m) = s4
  <2>1. MerchantBytes(m) = (((Length(Len(name)) \o name) \o <<CredentialGenerator(name)>>)
                              \o Length(Len(origin))) \o origin
    BY <1>1 DEF MerchantBytes
  <2> QED
    BY <2>1 DEF Join, s4, s3, s2, s1, point, n, o
<1>14. n = Len(m.name) /\ o = Len(m.origin)
  BY <1>1 DEF n, o
<1>15. /\ MerchantBytes(m) \in Cells /\ Len(MerchantBytes(m)) = 5 + n + o
       /\ MerchantBytes(m)[1] = (n \div Byte) % Byte /\ MerchantBytes(m)[2] = n % Byte
       /\ MerchantBytes(m)[4 + n] = (o \div Byte) % Byte
       /\ MerchantBytes(m)[5 + n] = o % Byte
  BY <1>3, <1>4, <1>9, <1>10, <1>12, <1>13
<1>16. /\ \A i \in 1 .. n : MerchantBytes(m)[2 + i] = m.name[i]
       /\ \A i \in 1 .. o : MerchantBytes(m)[5 + n + i] = m.origin[i]
  BY <1>1, <1>9, <1>11, <1>13
<1> HIDE DEF n, o
<1> QED
  BY <1>4, <1>14, <1>15, <1>16
-----------------------------------------------------------------------------
\* The recursive function by which sequences are put one after the other.
FlattenOf(f, s) ==
  f = [i \in 1 .. Len(s) |-> IF i = 1 THEN s[i] ELSE f[i - 1] \o s[i]]

LEMMA FlattenExists ==
  ASSUME NEW s, Len(s) \in Nat
  PROVE  \E f : FlattenOf(f, s)
<1> DEFINE Step(f, i) == IF i = 1 THEN s[i] ELSE f[i - 1] \o s[i]
           Far == {n \in Nat : \E f : f = [i \in 1 .. n |-> Step(f, i)]}
<1>1. 0 \in Far
  <2> DEFINE f == [i \in 1 .. 0 |-> << >>]
  <2>1. f = [i \in 1 .. 0 |-> Step(f, i)]
    OBVIOUS
  <2> QED
    BY <2>1
<1>2. ASSUME NEW n \in Nat, n \in Far
      PROVE  n + 1 \in Far
  <2>1. PICK f : f = [i \in 1 .. n |-> Step(f, i)]
    BY <1>2
  <2> DEFINE e == [i \in 1 .. n + 1 |-> Step(f, i)]
  <2>2. ASSUME NEW i \in 1 .. n
        PROVE  e[i] = f[i]
    <3>1. i \in 1 .. n + 1
      OBVIOUS
    <3> QED
      BY <2>1, <3>1
  <2>3. ASSUME NEW i \in 1 .. n + 1
        PROVE  Step(f, i) = Step(e, i)
    <3>1. CASE i = 1
      BY <3>1
    <3>2. CASE i # 1
      <4>1. i - 1 \in 1 .. n
        BY <3>2
      <4>2. f[i - 1] = e[i - 1]
        BY <2>2, <4>1
      <4> HIDE DEF e
      <4> QED
        BY <3>2, <4>2
    <3> QED
      BY <3>1, <3>2
  <2>4. e = [i \in 1 .. n + 1 |-> Step(e, i)]
    BY <2>3
  <2> HIDE DEF e
  <2>5. \E f2 : f2 = [i \in 1 .. n + 1 |-> Step(f2, i)]
    BY <2>4
  <2> HIDE DEF Step
  <2> QED
    BY <2>5
<1> HIDE DEF Far
<1>3. Len(s) \in Far
  BY <1>1, <1>2, NatInduct
<1> QED
  BY <1>3 DEF Far, FlattenOf

\* Where each of the sequences is found.
Places(s, whole, place) ==
  /\ place \in [0 .. Len(s) -> Nat] /\ place[0] = 0
  /\ whole \in Cells /\ Len(whole) = place[Len(s)]
  /\ \A k \in 0 .. Len(s) - 1 :
       /\ place[k + 1] = place[k] + Len(s[k + 1])
       /\ place[k + 1] <= Len(whole)
       /\ \A i \in 1 .. Len(s[k + 1]) : whole[place[k] + i] = s[k + 1][i]

LEMMA Flattened ==
  ASSUME NEW s \in Seq(Cells)
  PROVE  \E place : Places(s, FlattenSeq(s), place)
<1>1. Len(s) \in Nat
  OBVIOUS
<1>2. \A k \in 1 .. Len(s) : s[k] \in Cells
  OBVIOUS
<1>3. PICK F : /\ F[0] = << >> /\ FlattenSeq(s) = F[Len(s)]
               /\ \A k \in 0 .. Len(s) - 1 : F[k + 1] = Join(F[k], s[k + 1])
  <2>1. CASE Len(s) = 0
    <3>1. FlattenSeq(s) = << >>
      BY <2>1, EmptySeq DEF FlattenSeq
    <3>2. PICK F : F = [k \in {0} |-> << >>]
      OBVIOUS
    <3>3. F[0] = << >> /\ 0 .. Len(s) - 1 = {}
      BY <2>1, <3>2
    <3> QED
      BY <2>1, <3>1, <3>3
  <2>2. CASE Len(s) # 0
    <3> DEFINE f == CHOOSE f : FlattenOf(f, s)
    <3>1. FlattenOf(f, s)
      BY <1>1, FlattenExists
    <3>2. FlattenSeq(s) = f[Len(s)]
      BY <2>2 DEF FlattenSeq, FlattenOf
    <3> HIDE DEF f
    <3>3. PICK F : F = [k \in 0 .. Len(s) |-> IF k = 0 THEN << >> ELSE f[k]]
      OBVIOUS
    <3>4. F[0] = << >> /\ F[Len(s)] = f[Len(s)]
      BY <1>1, <2>2, <3>3
    <3>5. ASSUME NEW k \in 0 .. Len(s) - 1
          PROVE  F[k + 1] = Join(F[k], s[k + 1])
      <4>1. k \in 0 .. Len(s) /\ k + 1 \in 0 .. Len(s) /\ k + 1 \in 1 .. Len(s) /\ k + 1 # 0
            /\ (k + 1) - 1 = k
        BY <1>1
      <4>2. F[k + 1] = f[k + 1]
        BY <3>3, <4>1
      <4>3. CASE k = 0
        <5>1. f[k + 1] = s[k + 1]
          BY <3>1, <4>1, <4>3 DEF FlattenOf
        <5>2. << >> \o s[k + 1] = s[k + 1]
          BY <1>2, <4>1, ConcatEmptySeq DEF Cells
        <5> QED
          BY <3>4, <4>2, <4>3, <5>1, <5>2 DEF Join
      <4>4. CASE k # 0
        <5>3. PICK j : j = k + 1 /\ j \in 1 .. Len(s) /\ j # 1 /\ j - 1 = k
          BY <4>1, <4>4
        <5>4. f[j] = f[j - 1] \o s[j]
          BY <3>1, <5>3 DEF FlattenOf
        <5>1. f[k + 1] = f[(k + 1) - 1] \o s[k + 1]
          BY <4>1, <5>3, <5>4
        <5>2. F[k] = f[k]
          BY <3>3, <4>1, <4>4
        <5> QED
          BY <4>1, <4>2, <5>1, <5>2 DEF Join
      <4> QED
        BY <4>3, <4>4
    <3> QED
      BY <3>2, <3>4, <3>5
  <2> QED
    BY <2>1, <2>2
<1>4. \A k \in 0 .. Len(s) : F[k] \in Cells
  <2> DEFINE Far == {k \in Nat : k <= Len(s) => F[k] \in Cells}
  <2>1. 0 \in Far
    <3>1. << >> \in Cells
      BY EmptySeq DEF Cells
    <3> QED
      BY <1>3, <3>1
  <2>2. ASSUME NEW k \in Nat, k \in Far
        PROVE  k + 1 \in Far
    <3> SUFFICES ASSUME k + 1 <= Len(s)
                 PROVE  F[k + 1] \in Cells
      OBVIOUS
    <3>1. k \in 0 .. Len(s) - 1 /\ k + 1 \in 1 .. Len(s)
      BY <1>1
    <3>2. F[k] \in Cells
      BY <1>1, <2>2
    <3> QED
      BY <1>2, <1>3, <3>1, <3>2, Joined
  <2> HIDE DEF Far
  <2>3. Nat \subseteq Far
    BY <2>1, <2>2, NatInduct
  <2> QED
    BY <1>1, <2>3 DEF Far
<1>5. \A k \in 0 .. Len(s) - 1 :
        /\ Len(F[k + 1]) = Len(F[k]) + Len(s[k + 1])
        /\ Len(F[k]) \in Nat /\ Len(F[k + 1]) \in Nat /\ Len(s[k + 1]) \in Nat
        /\ \A i \in 1 .. Len(F[k]) : F[k + 1][i] = F[k][i]
        /\ \A i \in 1 .. Len(s[k + 1]) : F[k + 1][Len(F[k]) + i] = s[k + 1][i]
  <2> SUFFICES ASSUME NEW k \in 0 .. Len(s) - 1
               PROVE  /\ Len(F[k + 1]) = Len(F[k]) + Len(s[k + 1])
                      /\ Len(F[k]) \in Nat /\ Len(F[k + 1]) \in Nat /\ Len(s[k + 1]) \in Nat
                      /\ \A i \in 1 .. Len(F[k]) : F[k + 1][i] = F[k][i]
                      /\ \A i \in 1 .. Len(s[k + 1]) : F[k + 1][Len(F[k]) + i] = s[k + 1][i]
    OBVIOUS
  <2>1. k \in 0 .. Len(s) /\ k + 1 \in 1 .. Len(s)
    BY <1>1
  <2>2. PICK a \in Cells, b \in Cells : a = F[k] /\ b = s[k + 1] /\ F[k + 1] = Join(a, b)
    BY <1>2, <1>3, <1>4, <2>1
  <2>3. /\ Len(Join(a, b)) = Len(a) + Len(b)
        /\ Join(a, b) \in Cells /\ Len(a) \in Nat /\ Len(b) \in Nat
        /\ \A i \in 1 .. Len(a) : Join(a, b)[i] = a[i]
        /\ \A i \in 1 .. Len(b) : Join(a, b)[Len(a) + i] = b[i]
    BY Joined
  <2>4. Len(Join(a, b)) \in Nat
    BY <2>3
  <2> QED
    BY <2>2, <2>3, <2>4
<1>6. \A k \in 0 .. Len(s) - 1 :
        /\ Len(F[k + 1]) <= Len(F[Len(s)])
        /\ \A i \in 1 .. Len(F[k + 1]) : F[Len(s)][i] = F[k + 1][i]
  <2> SUFFICES ASSUME NEW k \in 0 .. Len(s) - 1
               PROVE  /\ Len(F[k + 1]) <= Len(F[Len(s)])
                      /\ \A i \in 1 .. Len(F[k + 1]) : F[Len(s)][i] = F[k + 1][i]
    OBVIOUS
  <2> DEFINE Keeps(j) == /\ Len(F[k + 1]) <= Len(F[j])
                         /\ \A i \in 1 .. Len(F[k + 1]) : F[j][i] = F[k + 1][i]
             Far == {d \in Nat : k + 1 + d <= Len(s) => Keeps(k + 1 + d)}
  <2>1. 0 \in Far
    <3>1. Keeps(k + 1)
      BY <1>5
    <3>2. k + 1 + 0 = k + 1
      BY <1>1
    <3> QED
      BY <3>1, <3>2
  <2>2. ASSUME NEW d \in Nat, d \in Far
        PROVE  d + 1 \in Far
    <3> SUFFICES ASSUME k + 1 + (d + 1) <= Len(s)
                 PROVE  Keeps(k + 1 + (d + 1))
      OBVIOUS
    <3>1. PICK j : j = k + 1 + d /\ j \in 0 .. Len(s) - 1 /\ j + 1 = k + 1 + (d + 1)
      BY <1>1
    <3>2. Keeps(j)
      BY <2>2, <3>1, <1>1
    <3>7. PICK a \in Nat, b \in Nat :
            /\ a = Len(F[j]) /\ b = Len(s[j + 1]) /\ Len(F[j + 1]) = a + b
            /\ \A i \in 1 .. Len(F[j]) : F[j + 1][i] = F[j][i]
      BY <1>5, <3>1
    <3>8. a <= a + b
      OBVIOUS
    <3>3. /\ Len(F[j]) \in Nat /\ Len(F[j]) <= Len(F[j + 1])
          /\ \A i \in 1 .. Len(F[j]) : F[j + 1][i] = F[j][i]
      BY <3>7, <3>8, Zenon
    <3>4. Len(F[k + 1]) \in Nat
      BY <1>5
    <3>5. Len(F[j + 1]) \in Nat
      BY <1>5, <3>1
    <3>6. Keeps(j + 1)
      BY <3>2, <3>3, <3>4, <3>5
    <3> HIDE DEF Keeps
    <3> QED
      BY <3>1, <3>6
  <2> HIDE DEF Far
  <2>3. Nat \subseteq Far
    BY <2>1, <2>2, NatInduct
  <2>4. Len(s) - (k + 1) \in Nat /\ k + 1 + (Len(s) - (k + 1)) = Len(s)
    BY <1>1
  <2>5. Keeps(Len(s))
    <3> HIDE DEF Keeps
    <3>1. \A d \in Nat : k + 1 + d <= Len(s) => Keeps(k + 1 + d)
      BY <2>3 DEF Far
    <3>2. PICK d \in Nat : k + 1 + d = Len(s)
      BY <2>4
    <3>3. k + 1 + d <= Len(s)
      BY <1>1, <3>2
    <3>4. Keeps(k + 1 + d)
      BY <3>1, <3>3
    <3> QED
      BY <3>2, <3>4
  <2> QED
    BY <2>5
<1>7. PICK place : place = [k \in 0 .. Len(s) |-> Len(F[k])]
  OBVIOUS
<1>8. \A k \in 0 .. Len(s) : place[k] = Len(F[k]) /\ place[k] \in Nat
  BY <1>4, <1>7, LenProperties DEF Cells
<1>9. place \in [0 .. Len(s) -> Nat] /\ place[0] = 0
  <2>1. Len(F[0]) = 0
    BY <1>3
  <2> QED
    BY <1>1, <1>7, <1>8, <2>1
<1>10. F[Len(s)] \in Cells /\ Len(F[Len(s)]) = place[Len(s)]
  BY <1>1, <1>4, <1>8
<1>11. ASSUME NEW k \in 0 .. Len(s) - 1
       PROVE  /\ place[k + 1] = place[k] + Len(s[k + 1])
              /\ place[k + 1] <= Len(F[Len(s)])
              /\ \A i \in 1 .. Len(s[k + 1]) : F[Len(s)][place[k] + i] = s[k + 1][i]
  <2>1. k \in 0 .. Len(s) /\ k + 1 \in 0 .. Len(s)
    BY <1>1
  <2>2. place[k] = Len(F[k]) /\ place[k + 1] = Len(F[k + 1]) /\ place[k] \in Nat
    BY <1>8, <2>1
  <2>3. place[k + 1] = place[k] + Len(s[k + 1]) /\ place[k + 1] <= Len(F[Len(s)])
    BY <1>5, <1>6, <2>2
  <2>4. ASSUME NEW i \in 1 .. Len(s[k + 1])
        PROVE  F[Len(s)][place[k] + i] = s[k + 1][i]
    <3>1. PICK a \in Nat, b \in Nat : /\ a = Len(F[k]) /\ b = Len(s[k + 1])
                                       /\ Len(F[k + 1]) = a + b
      BY <1>5
    <3>2. Len(F[k]) + i \in 1 .. Len(F[k + 1])
      <4>1. i \in 1 .. b
        BY <3>1
      <4>2. a + i \in 1 .. a + b
        BY <4>1
      <4> QED
        BY <3>1, <4>2
    <3>3. F[k + 1][Len(F[k]) + i] = s[k + 1][i]
      BY <1>5
    <3>4. F[Len(s)][Len(F[k]) + i] = F[k + 1][Len(F[k]) + i]
      BY <1>6, <3>2
    <3> QED
      BY <2>2, <3>3, <3>4
  <2> QED
    BY <2>3, <2>4
<1>12. Places(s, F[Len(s)], place)
  BY <1>9, <1>10, <1>11 DEF Places
<1> QED
  BY <1>3, <1>12
-----------------------------------------------------------------------------
\* A set of numbers up to n has a greatest one.
LEMMA Greatest ==
  ASSUME NEW n \in Nat, NEW S \in SUBSET (1 .. n), S # {}
  PROVE  Max(S) \in S /\ \A y \in S : Max(S) >= y
<1> DEFINE T == {n - x : x \in S}
<1>1. T \subseteq Nat /\ T # {}
  OBVIOUS
<1>2. PICK d \in T : \A y \in T : d <= y
  BY <1>1, LeastNatural
<1>3. PICK x \in S : d = n - x
  BY <1>2
<1>4. ASSUME NEW y \in S
      PROVE  x >= y
  <2>1. n - y \in T /\ x \in 1 .. n /\ y \in 1 .. n
    OBVIOUS
  <2>2. d <= n - y
    BY <1>2, <2>1
  <2> QED
    BY <1>3, <2>1, <2>2
<1>5. \E z \in S : \A y \in S : z >= y
  BY <1>4
<1> QED
  BY <1>5 DEF Max

\* The recursive function by which a CRS is read, for sets of the merchants' numbers.
ReadOf(f, n, bytes, base) ==
  f = [S \in SUBSET (1 .. n) |-> IF S = {} THEN base ELSE ReadMerchant(bytes, f[S \ {Max(S)}])]

LEMMA ReadExists ==
  ASSUME NEW n \in Nat, NEW bytes, NEW base
  PROVE  \E f : ReadOf(f, n, bytes, base)
<1> DEFINE Step(f, S) == IF S = {} THEN base ELSE ReadMerchant(bytes, f[S \ {Max(S)}])
           Far == {k \in Nat : \E f : f = [S \in SUBSET (1 .. k) |-> Step(f, S)]}
<1>1. 0 \in Far
  <2> DEFINE f == [S \in SUBSET (1 .. 0) |-> base]
  <2>1. \A S \in SUBSET (1 .. 0) : S = {}
    OBVIOUS
  <2>2. f = [S \in SUBSET (1 .. 0) |-> Step(f, S)]
    BY <2>1
  <2> QED
    BY <2>2
<1>2. ASSUME NEW k \in Nat, k \in Far
      PROVE  k + 1 \in Far
  <2>1. PICK f : f = [S \in SUBSET (1 .. k) |-> Step(f, S)]
    BY <1>2
  <2> DEFINE e == [S \in SUBSET (1 .. k + 1) |-> Step(f, S)]
  <2>2. ASSUME NEW S \in SUBSET (1 .. k)
        PROVE  e[S] = f[S]
    <3>1. S \in SUBSET (1 .. k + 1)
      OBVIOUS
    <3>2. e[S] = Step(f, S)
      BY <3>1
    <3>3. f[S] = Step(f, S)
      BY <2>1
    <3> QED
      BY <3>2, <3>3
  <2>3. ASSUME NEW S \in SUBSET (1 .. k + 1)
        PROVE  Step(f, S) = Step(e, S)
    <3>1. CASE S = {}
      BY <3>1
    <3>2. CASE S # {}
      <4>4. k + 1 \in Nat
        OBVIOUS
      <4>1. PICK x \in S : x = Max(S) /\ \A y \in S : x >= y
        BY <3>2, <4>4, Greatest
      <4>5. \A y \in S \ {x} : y \in 1 .. k
        BY <4>1
      <4>2. S \ {Max(S)} \in SUBSET (1 .. k)
        BY <4>1, <4>5
      <4>3. f[S \ {Max(S)}] = e[S \ {Max(S)}]
        BY <2>2, <4>2
      <4> HIDE DEF e
      <4> QED
        BY <3>2, <4>3
    <3> QED
      BY <3>1, <3>2
  <2>4. e = [S \in SUBSET (1 .. k + 1) |-> Step(e, S)]
    BY <2>3
  <2> HIDE DEF e
  <2>5. \E f2 : f2 = [S \in SUBSET (1 .. k + 1) |-> Step(f2, S)]
    BY <2>4
  <2> HIDE DEF Step
  <2> QED
    BY <2>5
<1> HIDE DEF Far
<1>3. n \in Far
  BY <1>1, <1>2, NatInduct
<1> QED
  BY <1>3 DEF Far, ReadOf

\* What is read merchant by merchant, of which the last is the result.
LEMMA ReadSteps ==
  ASSUME NEW bytes, Len(bytes) \in Nat, Len(bytes) >= 3, NEW n \in Nat, bytes[2] = n
  PROVE  \E R : /\ R[0] = [ok |-> PointsAt(bytes, 3, n + 2), pos |-> n + 5, merchants |-> << >>]
                /\ \A k \in 0 .. n - 1 : R[k + 1] = ReadMerchant(bytes, R[k])
                /\ FromBytes(bytes)
                     = IF R[n].ok
                         THEN [ok |-> TRUE, generators |-> n, merchants |-> R[n].merchants,
                               set_size |-> bytes[3]]
                         ELSE Refused
<1> DEFINE base == [ok |-> PointsAt(bytes, 3, n + 2), pos |-> n + 5, merchants |-> << >>]
           f == CHOOSE f : ReadOf(f, n, bytes, base)
<1>1. ReadOf(f, n, bytes, base)
  BY ReadExists
<1>2. FromBytes(bytes) = IF f[1 .. n].ok
                           THEN [ok |-> TRUE, generators |-> n, merchants |-> f[1 .. n].merchants,
                                 set_size |-> bytes[3]]
                           ELSE Refused
  <2>1. Has(bytes, 0, 3)
    BY DEF Has
  <2> QED
    BY <2>1 DEF FromBytes, FoldLeft, MapThenFoldSet, ReadOf
<1> HIDE DEF f, base
<1>3. PICK R : R = [k \in 0 .. n |-> f[1 .. k]]
  OBVIOUS
<1>4. R[0] = base
  <2>1. 1 .. 0 = {} /\ {} \in SUBSET (1 .. n) /\ 0 \in 0 .. n
    OBVIOUS
  <2>2. f[{}] = base
    BY <1>1, <2>1 DEF ReadOf
  <2> QED
    BY <1>3, <2>1, <2>2
<1>5. ASSUME NEW k \in 0 .. n - 1
      PROVE  R[k + 1] = ReadMerchant(bytes, R[k])
  <2> DEFINE S == 1 .. k + 1
  <2>7. k \in Nat /\ k + 1 \in 1 .. k + 1 /\ \A i \in 1 .. k + 1 : i \in 1 .. n
    OBVIOUS
  <2>1. S \in SUBSET (1 .. n) /\ S # {} /\ k + 1 \in S
    BY <2>7
  <2>2. Max(S) \in S /\ Max(S) >= k + 1
    BY <2>1, Greatest
  <2>3. Max(S) = k + 1
    BY <2>2
  <2>4. S \ {k + 1} = 1 .. k
    OBVIOUS
  <2>5. R[k] = f[1 .. k] /\ R[k + 1] = f[1 .. k + 1]
    BY <1>3
  <2> HIDE DEF S
  <2>6. f[S] = ReadMerchant(bytes, f[S \ {Max(S)}])
    BY <1>1, <2>1 DEF ReadOf
  <2> QED
    BY <2>3, <2>4, <2>5, <2>6 DEF S
<1>6. R[n] = f[1 .. n]
  BY <1>3
<1> QED
  BY <1>2, <1>4, <1>5, <1>6 DEF base
-----------------------------------------------------------------------------
\* The bytes of a CRS: its header, its points, and its merchants one after the other.
Written(ms, whole, place) ==
  /\ place \in [0 .. Len(ms) -> Nat] /\ place[0] = 0
  /\ whole \in Cells /\ Len(whole) = Len(ms) + 5 + place[Len(ms)]
  /\ whole[2] = Len(ms) /\ whole[3] = SetSize
  /\ \A i \in 4 .. Len(ms) + 5 : IsPoint(whole[i])
  /\ \A k \in 0 .. Len(ms) - 1 :
       /\ place[k + 1] = place[k] + Len(MerchantBytes(ms[k + 1]))
       /\ place[k + 1] <= place[Len(ms)]
       /\ \A i \in 1 .. Len(MerchantBytes(ms[k + 1])) :
            whole[Len(ms) + 5 + place[k] + i] = MerchantBytes(ms[k + 1])[i]

LEMMA AsWritten ==
  ASSUME NEW ms \in Seq(MerchantType)
  PROVE  \E place : Written(ms, ToBytes(Setup(ms)), place)
<1> DEFINE n == Len(ms)
           header == <<128, n, SetSize, PointCell(0), PointCell(1)>>
           points == [l \in 1 .. n |-> PointCell(l + 1)]
           chunks == [l \in DOMAIN ms |-> MerchantBytes(ms[l])]
           s1 == Join(header, points)
           whole == Join(s1, FlattenSeq(chunks))
<1>1. n \in Nat /\ DOMAIN ms = 1 .. n
  OBVIOUS
<1>2. \A l \in 1 .. n : ms[l] \in MerchantType
  OBVIOUS
<1>3. chunks \in Seq(Cells) /\ Len(chunks) = n /\ \A l \in 1 .. n : chunks[l] = MerchantBytes(ms[l])
  <2>1. \A l \in 1 .. n : MerchantBytes(ms[l]) \in Cells
    BY <1>2, MerchantCells
  <2>2. chunks \in [1 .. n -> Cells]
    BY <1>1, <2>1
  <2>3. \A l \in 1 .. n : chunks[l] = MerchantBytes(ms[l])
    BY <1>1
  <2> HIDE DEF chunks, n
  <2>4. chunks \in Seq(Cells) /\ Len(chunks) = n
    BY <1>1, <2>2, SeqDef, LenProperties
  <2> QED
    BY <2>3, <2>4
<1>4. /\ header \in Cells /\ Len(header) = 5 /\ header[2] = n /\ header[3] = SetSize
      /\ IsPoint(header[4]) /\ IsPoint(header[5])
  <2>1. /\ PointCell(0) \in Nat /\ PointCell(1) \in Nat /\ SetSize \in Nat
        /\ IsPoint(PointCell(0)) /\ IsPoint(PointCell(1))
    BY ByteAssumption, SetSizeAssumption DEF PointCell, IsPoint
  <2> HIDE DEF n
  <2>2. header \in Cells
    BY <1>1, <2>1 DEF Cells
  <2> QED
    BY <2>1, <2>2
<1>5. /\ points \in Cells /\ Len(points) = n /\ \A l \in 1 .. n : IsPoint(points[l])
  <2> HIDE DEF n
  <2>1. \A l \in 1 .. n : PointCell(l + 1) \in Nat /\ IsPoint(PointCell(l + 1))
    BY <1>1, ByteAssumption DEF PointCell, IsPoint
  <2>2. points \in [1 .. n -> Nat] /\ \A l \in 1 .. n : IsPoint(points[l])
    BY <2>1
  <2> HIDE DEF points
  <2>3. points \in Cells /\ Len(points) = n
    BY <1>1, <2>2, SeqDef, LenProperties DEF Cells
  <2> QED
    BY <2>2, <2>3
<1> HIDE DEF header, points
<1>6. ToBytes(Setup(ms)) = whole
  <2>1. ToBytes(Setup(ms)) = (header \o points) \o FlattenSeq(chunks)
    BY DEF ToBytes, Setup, header, points
  <2> HIDE DEF chunks
  <2> QED
    BY <2>1 DEF Join
<1>7. PICK place : Places(chunks, FlattenSeq(chunks), place)
  BY <1>3, Flattened
<1>8. PICK flat \in Cells : flat = FlattenSeq(chunks)
  BY <1>7 DEF Places
<1>9. /\ place \in [0 .. n -> Nat] /\ place[0] = 0 /\ Len(flat) = place[n]
      /\ \A k \in 0 .. n - 1 :
           /\ place[k + 1] = place[k] + Len(chunks[k + 1])
           /\ place[k + 1] <= place[n]
           /\ \A i \in 1 .. Len(chunks[k + 1]) : flat[place[k] + i] = chunks[k + 1][i]
  <2> HIDE DEF n, chunks
  <2> QED
    BY <1>3, <1>7, <1>8 DEF Places
<1>10. /\ s1 \in Cells /\ Len(s1) = 5 + n
       /\ \A i \in 1 .. 5 : s1[i] = header[i]
       /\ \A i \in 1 .. n : s1[5 + i] = points[i]
  <2> HIDE DEF n
  <2>1. /\ s1 \in Cells /\ Len(s1) = Len(header) + Len(points)
        /\ \A i \in 1 .. Len(header) : s1[i] = header[i]
        /\ \A i \in 1 .. Len(points) : s1[Len(header) + i] = points[i]
    BY <1>4, <1>5, Joined
  <2> HIDE DEF s1
  <2> QED
    BY <1>4, <1>5, <2>1
<1> HIDE DEF s1, n, chunks
<1>11. /\ whole \in Cells /\ Len(whole) = (5 + n) + place[n]
       /\ \A i \in 1 .. 5 + n : whole[i] = s1[i]
       /\ \A i \in 1 .. place[n] : whole[(5 + n) + i] = flat[i]
  <2>1. /\ Join(s1, flat) \in Cells /\ Len(Join(s1, flat)) = Len(s1) + Len(flat)
        /\ \A i \in 1 .. Len(s1) : Join(s1, flat)[i] = s1[i]
        /\ \A i \in 1 .. Len(flat) : Join(s1, flat)[Len(s1) + i] = flat[i]
    BY <1>10, Joined
  <2> QED
    BY <1>8, <1>9, <1>10, <2>1
<1> HIDE DEF whole
<1>12. whole[2] = n /\ whole[3] = SetSize
  BY <1>1, <1>4, <1>10, <1>11
<1>13. \A i \in 4 .. n + 5 : IsPoint(whole[i])
  <2> SUFFICES ASSUME NEW i \in 4 .. n + 5 PROVE IsPoint(whole[i])
    OBVIOUS
  <2>1. whole[i] = s1[i]
    BY <1>1, <1>11
  <2>2. CASE i <= 5
    <3>1. s1[i] = header[i] /\ (i = 4 \/ i = 5)
      BY <1>1, <1>10, <2>2
    <3> QED
      BY <1>4, <2>1, <3>1
  <2>3. CASE i > 5
    <3>1. i - 5 \in 1 .. n /\ 5 + (i - 5) = i
      BY <1>1, <2>3
    <3>2. s1[5 + (i - 5)] = points[i - 5]
      BY <1>10, <3>1
    <3> QED
      BY <1>5, <2>1, <3>1, <3>2
  <2> QED
    BY <1>1, <2>2, <2>3
<1>14. ASSUME NEW k \in 0 .. n - 1
       PROVE  /\ place[k + 1] = place[k] + Len(MerchantBytes(ms[k + 1]))
              /\ place[k + 1] <= place[n]
              /\ \A i \in 1 .. Len(MerchantBytes(ms[k + 1])) :
                   whole[n + 5 + place[k] + i] = MerchantBytes(ms[k + 1])[i]
  <2>1. k + 1 \in 1 .. n /\ k \in 0 .. n /\ k + 1 \in 0 .. n
    BY <1>1
  <2>2. PICK c \in Cells : c = MerchantBytes(ms[k + 1]) /\ c = chunks[k + 1]
    BY <1>2, <1>3, <2>1, MerchantCells
  <2>3. Len(c) \in Nat
    BY LenProperties DEF Cells
  <2>4. /\ place[k + 1] = place[k] + Len(c) /\ place[k + 1] <= place[n]
        /\ \A i \in 1 .. Len(c) : flat[place[k] + i] = c[i]
    BY <1>9, <2>2
  <2>5. place[k] \in Nat /\ place[n] \in Nat
    BY <1>1, <1>9, <2>1
  <2>6. ASSUME NEW i \in 1 .. Len(c)
        PROVE  whole[n + 5 + place[k] + i] = c[i]
    <3>1. PICK d \in Nat, p \in Nat, t \in Nat : d = Len(c) /\ p = place[k] /\ t = place[n]
      BY <2>3, <2>5
    <3>2. i \in 1 .. d /\ p + d <= t
      BY <2>4, <3>1
    <3>3. p + i \in 1 .. t
      BY <3>2
    <3>4. (5 + n) + (p + i) = n + 5 + p + i
      BY <1>1, <3>3
    <3>5. whole[(5 + n) + (p + i)] = flat[p + i]
      BY <1>11, <3>1, <3>3
    <3> QED
      BY <2>4, <3>1, <3>4, <3>5
  <2> QED
    BY <2>2, <2>4, <2>6
<1>15. Len(whole) = n + 5 + place[n]
  <2>1. PICK p \in Nat : p = place[n]
    BY <1>1, <1>9
  <2> QED
    BY <1>1, <1>11, <2>1
<1>16. Written(ms, whole, place)
  BY <1>9, <1>11, <1>12, <1>13, <1>14, <1>15 DEF Written, n
<1> QED
  BY <1>6, <1>16

\* What is cut out of a sequence of cells.
LEMMA Cut ==
  ASSUME NEW b \in Cells, NEW t \in Cells, NEW from \in Nat, from + Len(t) <= Len(b),
         \A i \in 1 .. Len(t) : b[from + i] = t[i]
  PROVE  SubSeq(b, from + 1, from + Len(t)) = t
<1>1. PICK d \in Nat, len \in Nat : d = Len(t) /\ len = Len(b)
  BY LenProperties DEF Cells
<1>2. \A i \in from + 1 .. from + d : b[i] \in Nat
  <2> SUFFICES ASSUME NEW i \in from + 1 .. from + d PROVE b[i] \in Nat
    OBVIOUS
  <2>1. i \in 1 .. len
    BY <1>1
  <2> QED
    BY <1>1, <2>1 DEF Cells
<1>3. PICK u : u = SubSeq(b, from + 1, from + d)
  OBVIOUS
<1>4. /\ u \in Cells
      /\ Len(u) = (IF from + 1 <= from + d THEN (from + d) - (from + 1) + 1 ELSE 0)
      /\ \A i \in 1 .. (from + d) - (from + 1) + 1 : u[i] = b[from + 1 + i - 1]
  BY <1>2, <1>3, SubSeqProperties DEF Cells
<1>5. /\ (from + d) - (from + 1) + 1 = d
      /\ (IF from + 1 <= from + d THEN d ELSE 0) = d
      /\ \A i \in 1 .. d : from + 1 + i - 1 = from + i
  OBVIOUS
<1>6. Len(u) = d /\ \A i \in 1 .. d : u[i] = b[from + i]
  BY <1>4, <1>5
<1>7. \A i \in 1 .. d : u[i] = t[i]
  BY <1>1, <1>6
<1>8. u = t
  BY <1>1, <1>4, <1>6, <1>7, SeqEqual DEF Cells
<1> QED
  BY <1>1, <1>3, <1>8

\* A merchant is there just when it is there in full, and is read as it was written.
LEMMA MerchantRead ==
  ASSUME NEW b \in Cells, NEW pos \in Nat, NEW m \in MerchantType,
         Len(m.name) <= MaxLen, Len(m.origin) < Byte * Byte,
         \A i \in 1 .. Len(MerchantBytes(m)) :
           pos + i <= Len(b) => b[pos + i] = MerchantBytes(m)[i]
  PROVE  /\ MerchantThere(b, pos) <=> pos + Len(MerchantBytes(m)) <= Len(b)
         /\ MerchantThere(b, pos) =>
              \A read : read.pos = pos =>
                MerchantAdded(b, read)
                  = [ok |-> TRUE, pos |-> pos + Len(MerchantBytes(m)),
                     merchants |-> Append(read.merchants, m)]
<1>1. PICK n \in Nat, o \in Nat, c \in Cells :
        /\ n = Len(m.name) /\ o = Len(m.origin) /\ c = MerchantBytes(m)
        /\ Len(c) = 5 + n + o
        /\ c[1] = (n \div Byte) % Byte /\ c[2] = n % Byte
        /\ \A i \in 1 .. n : c[2 + i] = m.name[i]
        /\ c[4 + n] = (o \div Byte) % Byte /\ c[5 + n] = o % Byte
        /\ \A i \in 1 .. o : c[5 + n + i] = m.origin[i]
  BY MerchantCells
<1>2. PICK len \in Nat : len = Len(b)
  BY LenProperties DEF Cells
<1>3. n < Byte * Byte /\ n <= MaxLen /\ o < Byte * Byte
  BY <1>1, ByteAssumption
<1>4. ((n \div Byte) % Byte) * Byte + (n % Byte) = n
  BY <1>3, LengthRead
<1>5. ((o \div Byte) % Byte) * Byte + (o % Byte) = o
  BY <1>3, LengthRead
<1>6. \A i \in 1 .. 5 + n + o : pos + i <= len => b[pos + i] = c[i]
  BY <1>1, <1>2
<1>7. pos + 2 <= len => LengthAt(b, pos) = n
  <2>1. 1 \in 1 .. 5 + n + o /\ 2 \in 1 .. 5 + n + o
    OBVIOUS
  <2>2. ASSUME pos + 2 <= len PROVE b[pos + 1] = c[1] /\ b[pos + 2] = c[2]
    BY <1>6, <2>1, <2>2
  <2> QED
    BY <1>1, <1>4, <2>2 DEF LengthAt
<1> DEFINE after == pos + 2 + n
<1>8. after + 3 <= len => LengthAt(b, after + 1) = o
  <2>1. 4 + n \in 1 .. 5 + n + o /\ 5 + n \in 1 .. 5 + n + o
    OBVIOUS
  <2>2. ASSUME after + 3 <= len PROVE b[pos + (4 + n)] = c[4 + n] /\ b[pos + (5 + n)] = c[5 + n]
    <3>1. pos + (4 + n) <= len /\ pos + (5 + n) <= len
      BY <2>2
    <3>2. b[pos + (4 + n)] = c[4 + n]
      BY <1>6, <2>1, <3>1
    <3>3. b[pos + (5 + n)] = c[5 + n]
      BY <1>6, <2>1, <3>1
    <3> QED
      BY <3>2, <3>3
  <2>3. pos + (4 + n) = after + 1 + 1 /\ pos + (5 + n) = after + 1 + 2
    OBVIOUS
  <2> QED
    BY <1>1, <1>5, <2>2, <2>3 DEF LengthAt
<1>9. MerchantThere(b, pos) <=> pos + (5 + n + o) <= len
  <2>1. ASSUME MerchantThere(b, pos) PROVE pos + (5 + n + o) <= len
    <3>1. pos + 2 <= len
      BY <1>2, <2>1 DEF MerchantThere, Has
    <3>2. LengthAt(b, pos) = n
      BY <1>7, <3>1
    <3>3. after + 3 <= len /\ after + 3 + LengthAt(b, after + 1) <= len
      BY <1>2, <2>1, <3>2 DEF MerchantThere, Has
    <3> QED
      BY <1>8, <3>3
  <2>2. ASSUME pos + (5 + n + o) <= len PROVE MerchantThere(b, pos)
    <3>1. pos + 2 <= len /\ after + 0 <= len /\ after + 3 <= len /\ after + 3 + o <= len
      BY <2>2
    <3>2. LengthAt(b, pos) = n /\ LengthAt(b, after + 1) = o
      BY <1>7, <1>8, <3>1
    <3> QED
      BY <1>2, <1>3, <3>1, <3>2 DEF MerchantThere, Has
  <2> QED
    BY <2>1, <2>2
<1>10. ASSUME MerchantThere(b, pos), NEW read, read.pos = pos
       PROVE  MerchantAdded(b, read)
                = [ok |-> TRUE, pos |-> pos + (5 + n + o), merchants |-> Append(read.merchants, m)]
  <2>1. pos + (5 + n + o) <= len
    BY <1>9, <1>10
  <2>2. LengthAt(b, pos) = n
    BY <1>7, <2>1
  <2>3. LengthAt(b, after + 1) = o
    BY <1>8, <2>1
  <2> DEFINE all == after + 3 + o
  <2>4. all = pos + (5 + n + o)
    OBVIOUS
  <2>5. m.name \in Cells /\ m.origin \in Cells
    <3>1. m.name \in Text /\ m.origin \in Text
      BY DEF MerchantType
    <3>2. 0 .. Byte - 1 \subseteq Nat
      BY ByteAssumption
    <3> QED
      BY <3>1, <3>2, SeqMonotonic DEF Text, Cells
  <2>6. SubSeq(b, pos + 3, after) = m.name
    <3>1. ASSUME NEW i \in 1 .. n PROVE b[(pos + 2) + i] = m.name[i]
      <4>1. pos + (2 + i) = (pos + 2) + i /\ 2 + i \in 1 .. 5 + n + o /\ pos + (2 + i) <= len
        BY <2>1
      <4>2. b[pos + (2 + i)] = c[2 + i]
        BY <1>6, <4>1
      <4>3. c[2 + i] = m.name[i]
        BY <1>1
      <4> QED
        BY <4>1, <4>2, <4>3
    <3>2. pos + 2 \in Nat /\ (pos + 2) + n <= len
      BY <2>1
    <3>3. SubSeq(b, (pos + 2) + 1, (pos + 2) + n) = m.name
      BY <1>1, <1>2, <2>5, <3>1, <3>2, Cut
    <3>4. (pos + 2) + 1 = pos + 3 /\ (pos + 2) + n = after
      OBVIOUS
    <3> QED
      BY <3>3, <3>4
  <2>7. SubSeq(b, after + 4, all) = m.origin
    <3>1. ASSUME NEW i \in 1 .. o PROVE b[(after + 3) + i] = m.origin[i]
      <4>1. /\ pos + (5 + n + i) = (after + 3) + i /\ 5 + n + i \in 1 .. 5 + n + o
            /\ pos + (5 + n + i) <= len
        BY <2>1
      <4>2. b[pos + (5 + n + i)] = c[5 + n + i]
        BY <1>6, <4>1
      <4>3. c[5 + n + i] = m.origin[i]
        BY <1>1
      <4> HIDE DEF after
      <4> QED
        BY <4>1, <4>2, <4>3
    <3>2. after + 3 \in Nat /\ (after + 3) + o <= len
      BY <2>1
    <3>4. (after + 3) + 1 = after + 4 /\ (after + 3) + o = all
      OBVIOUS
    <3> HIDE DEF after
    <3>3. SubSeq(b, (after + 3) + 1, (after + 3) + o) = m.origin
      BY <1>1, <1>2, <2>5, <3>1, <3>2, Cut
    <3> QED
      BY <3>3, <3>4
  <2>8. [name |-> m.name, origin |-> m.origin] = m
    BY DEF MerchantType
  <2>9. MerchantAdded(b, read)
          = [ok |-> TRUE, pos |-> all,
             merchants |-> Append(read.merchants, [name |-> SubSeq(b, pos + 3, after),
                                                   origin |-> SubSeq(b, after + 4, all)])]
    BY <1>10, <2>2, <2>3 DEF MerchantAdded
  <2> HIDE DEF all, after
  <2> QED
    BY <2>4, <2>6, <2>7, <2>8, <2>9
<1> HIDE DEF after
<1> QED
  BY <1>1, <1>2, <1>9, <1>10
-----------------------------------------------------------------------------
\* What is read of the first bytes of a CRS: nothing, unless they are all there; and
\* then the CRS.
LEMMA ReadBack ==
  ASSUME NEW ms \in Seq(MerchantType), Fits(ms),
         NEW whole, NEW place, Written(ms, whole, place),
         NEW b \in Cells, Len(b) <= Len(whole), \A i \in 1 .. Len(b) : b[i] = whole[i]
  PROVE  /\ FromBytes(b).ok => Len(b) = Len(whole)
         /\ Len(b) = Len(whole) => FromBytes(b) = Setup(ms)
<1>1. PICK n \in Nat, len \in Nat, all \in Nat :
        n = Len(ms) /\ len = Len(b) /\ all = Len(whole)
  BY LenProperties DEF Written, Cells
<1>2. /\ place \in [0 .. n -> Nat] /\ place[0] = 0 /\ all = n + 5 + place[n]
      /\ whole[2] = n /\ whole[3] = SetSize
      /\ \A i \in 4 .. n + 5 : IsPoint(whole[i])
      /\ \A k \in 0 .. n - 1 :
           /\ place[k + 1] = place[k] + Len(MerchantBytes(ms[k + 1]))
           /\ place[k + 1] <= place[n]
           /\ \A i \in 1 .. Len(MerchantBytes(ms[k + 1])) :
                whole[n + 5 + place[k] + i] = MerchantBytes(ms[k + 1])[i]
  BY <1>1 DEF Written
<1>3. \A k \in 0 .. n : place[k] \in Nat
  BY <1>2
<1>4. len <= all /\ \A i \in 1 .. len : b[i] = whole[i]
  BY <1>1
<1>5. CASE len < 3
  <2>1. FromBytes(b) = Refused
    BY <1>1, <1>5 DEF FromBytes, Has, FoldLeft, MapThenFoldSet
  <2>2. ~FromBytes(b).ok
    BY <2>1 DEF Refused
  <2>3. len # all
    BY <1>2, <1>3, <1>5
  <2> QED
    BY <1>1, <2>2, <2>3
<1>6. CASE len >= 3
  <2>1. b[2] = n /\ b[3] = SetSize
    BY <1>2, <1>4, <1>6
  <2> DEFINE base == [ok |-> PointsAt(b, 3, n + 2), pos |-> n + 5, merchants |-> << >>]
  <2>2. PICK R : /\ R[0] = base
                 /\ \A k \in 0 .. n - 1 : R[k + 1] = ReadMerchant(b, R[k])
                 /\ FromBytes(b)
                      = IF R[n].ok
                          THEN [ok |-> TRUE, generators |-> n, merchants |-> R[n].merchants,
                                set_size |-> b[3]]
                          ELSE Refused
    BY <1>1, <1>6, <2>1, ReadSteps
  <2>4. FromBytes(b) = IF R[n].ok
                         THEN [ok |-> TRUE, generators |-> n,
                               merchants |-> R[n].merchants, set_size |-> SetSize]
                         ELSE Refused
    BY <2>1, <2>2
  <2> DEFINE Good(k) == /\ R[k].ok => /\ R[k].pos = n + 5 + place[k]
                                      /\ R[k].merchants = SubSeq(ms, 1, k)
                                      /\ n + 5 + place[k] <= len
                        /\ len = all => R[k].ok
             Far == {k \in Nat : k <= n => Good(k)}
  <2>5. 0 \in Far
    <3>1. base.ok <=> PointsAt(b, 3, n + 2)
      OBVIOUS
    <3>2. base.pos = n + 5 /\ base.merchants = << >>
      OBVIOUS
    <3> HIDE DEF base
    <3>3. SubSeq(ms, 1, 0) = << >>
      BY SubSeqEmpty
    <3>4. PointsAt(b, 3, n + 2) => n + 5 <= len
      BY <1>1 DEF PointsAt, Has
    <3>5. len = all => PointsAt(b, 3, n + 2)
      <4> SUFFICES ASSUME len = all PROVE PointsAt(b, 3, n + 2)
        OBVIOUS
      <4>1. len >= 3 + (n + 2)
        BY <1>2, <1>3
      <4>2. \A i \in 3 + 1 .. 3 + (n + 2) : i \in 4 .. n + 5 /\ i \in 1 .. len
        BY <4>1
      <4> QED
        BY <1>1, <1>2, <1>4, <4>1, <4>2 DEF PointsAt, Has
    <3>6. n + 5 + place[0] = n + 5
      BY <1>2
    <3>7. Good(0)
      BY <2>2, <3>1, <3>2, <3>3, <3>4, <3>5, <3>6
    <3> HIDE DEF Good
    <3> QED
      BY <3>7
  <2> HIDE DEF base
  <2>6. ASSUME NEW k \in Nat, k \in Far
        PROVE  k + 1 \in Far
    <3> SUFFICES ASSUME k + 1 <= n
                 PROVE  Good(k + 1)
      OBVIOUS
    <3>1. k \in 0 .. n - 1 /\ k + 1 \in 1 .. n /\ k \in 0 .. n /\ k + 1 \in 0 .. n
      BY <1>1
    <3>2. Good(k)
      BY <2>6
    <3>3. PICK m \in MerchantType, c \in Cells :
            m = ms[k + 1] /\ c = MerchantBytes(m)
            /\ Len(m.name) <= MaxLen /\ Len(m.origin) < Byte * Byte
      <4>1. ms[k + 1] \in MerchantType
        BY <1>1, <3>1
      <4>2. Len(ms[k + 1].name) <= MaxLen /\ Len(ms[k + 1].origin) < Byte * Byte
        BY <1>1, <3>1 DEF Fits
      <4> QED
        BY <4>1, <4>2, MerchantCells
    <3>4. PICK p \in Nat, d \in Nat : p = place[k] /\ d = Len(c) /\ place[k + 1] = p + d
      <4>1. Len(c) \in Nat
        BY LenProperties DEF Cells
      <4>2. place[k] \in Nat
        BY <1>3, <3>1
      <4>3. place[k + 1] = place[k] + Len(c)
        BY <1>2, <3>1, <3>3
      <4> QED
        BY <4>1, <4>2, <4>3
    <3>5. p + d <= place[n] /\ \A i \in 1 .. d : whole[n + 5 + p + i] = c[i]
      BY <1>2, <3>1, <3>3, <3>4
    <3>6. n + 5 + p \in Nat
      OBVIOUS
    <3>7. \A i \in 1 .. Len(c) : n + 5 + p + i <= len => b[n + 5 + p + i] = c[i]
      <4> SUFFICES ASSUME NEW i \in 1 .. d, n + 5 + p + i <= len
                   PROVE  b[n + 5 + p + i] = c[i]
        BY <3>4
      <4>1. n + 5 + p + i \in 1 .. len
        OBVIOUS
      <4> QED
        BY <1>4, <3>5, <4>1
    <3>8. /\ MerchantThere(b, n + 5 + p) <=> n + 5 + p + d <= len
          /\ MerchantThere(b, n + 5 + p) =>
               \A read : read.pos = n + 5 + p =>
                 MerchantAdded(b, read)
                   = [ok |-> TRUE, pos |-> n + 5 + p + d, merchants |-> Append(read.merchants, m)]
      <4>1. PICK pos \in Nat : pos = n + 5 + p
        BY <3>6
      <4>2. \A i \in 1 .. Len(MerchantBytes(m)) :
              pos + i <= Len(b) => b[pos + i] = MerchantBytes(m)[i]
        BY <1>1, <3>3, <3>7, <4>1
      <4>3. /\ MerchantThere(b, pos) <=> pos + Len(MerchantBytes(m)) <= Len(b)
            /\ MerchantThere(b, pos) =>
                 \A read : read.pos = pos =>
                   MerchantAdded(b, read)
                     = [ok |-> TRUE, pos |-> pos + Len(MerchantBytes(m)),
                        merchants |-> Append(read.merchants, m)]
        BY <3>3, <4>2, MerchantRead
      <4>4. Len(MerchantBytes(m)) = d /\ Len(b) = len
        BY <1>1, <3>3, <3>4
      <4> QED
        BY <4>1, <4>3, <4>4
    <3>9. R[k + 1] = ReadMerchant(b, R[k])
      BY <2>2, <3>1
    <3>10. R[k].ok => R[k].pos = n + 5 + p
      BY <3>2, <3>4
    <3>11. CASE R[k].ok /\ MerchantThere(b, R[k].pos)
      <4>1. R[k + 1] = MerchantAdded(b, R[k])
        BY <3>9, <3>11 DEF ReadMerchant
      <4>2. R[k + 1] = [ok |-> TRUE, pos |-> n + 5 + p + d, merchants |-> Append(R[k].merchants, m)]
        BY <3>8, <3>10, <3>11, <4>1
      <4>3. n + 5 + p + d <= len
        BY <3>8, <3>10, <3>11
      <4>4. SubSeq(ms, 1, k + 1) = Append(SubSeq(ms, 1, k), m)
        <5>1. 1 \in 1 .. Len(ms) /\ k + 1 \in 1 .. Len(ms) /\ (k + 1) - 1 = k
          BY <1>1, <3>1
        <5>2. SubSeq(ms, 1, k + 1) = SubSeq(ms, 1, (k + 1) - 1) \o <<ms[k + 1]>>
          BY <5>1, SubSeqRecursiveSecond
        <5>3. SubSeq(ms, 1, k) \in Seq(MerchantType)
          <6>1. \A i \in 1 .. k : ms[i] \in MerchantType
            BY <1>1, <3>1
          <6> QED
            BY <6>1, SubSeqProperties
        <5>4. Append(SubSeq(ms, 1, k), m) = SubSeq(ms, 1, k) \o <<m>>
          BY <5>3, AppendIsConcat
        <5> QED
          BY <3>3, <5>1, <5>2, <5>4
      <4>5. R[k].merchants = SubSeq(ms, 1, k)
        BY <3>2, <3>11
      <4>6. n + 5 + place[k + 1] = n + 5 + p + d
        BY <3>4
      <4> QED
        BY <4>2, <4>3, <4>4, <4>5, <4>6
    <3>12. CASE ~(R[k].ok /\ MerchantThere(b, R[k].pos))
      <4>1. R[k + 1] = Refused
        BY <3>9, <3>12 DEF ReadMerchant
      <4>2. ~R[k + 1].ok
        BY <4>1 DEF Refused
      <4>3. len # all
        <5> SUFFICES ASSUME len = all PROVE FALSE
          OBVIOUS
        <5>1. R[k].ok
          BY <3>2
        <5>2. n + 5 + p + d <= len
          <6>1. place[n] \in Nat
            BY <1>3
          <6> QED
            BY <1>2, <3>5, <6>1
        <5>3. MerchantThere(b, n + 5 + p)
          BY <3>8, <5>2
        <5> QED
          BY <3>10, <3>12, <5>1, <5>3
      <4> QED
        BY <4>2, <4>3
    <3> QED
      BY <3>11, <3>12
  <2>7. Good(n)
    <3> HIDE DEF Good
    <3>1. \A k \in Nat : k \in Far => k + 1 \in Far
      BY <2>6
    <3>2. \A k \in Far : k \in Nat /\ (k <= n => Good(k))
      OBVIOUS
    <3> HIDE DEF Far
    <3>3. n \in Far
      BY <2>5, <3>1, NatInduct
    <3> QED
      BY <3>2, <3>3
  <2>8. SubSeq(ms, 1, n) = ms
    BY <1>1, SubSeqFull
  <2>9. FromBytes(b).ok => R[n].ok
    BY <2>4 DEF Refused
  <2>10. R[n].ok => len = all
    <3>1. R[n].ok => n + 5 + place[n] <= len
      BY <2>7
    <3> QED
      BY <1>2, <1>4, <3>1
  <2>11. len = all => FromBytes(b) = Setup(ms)
    <3> SUFFICES ASSUME len = all PROVE FromBytes(b) = Setup(ms)
      OBVIOUS
    <3>1. R[n].ok /\ R[n].merchants = ms
      BY <2>7, <2>8
    <3>2. FromBytes(b) = [ok |-> TRUE, generators |-> n, merchants |-> ms, set_size |-> SetSize]
      BY <2>4, <3>1
    <3> QED
      BY <1>1, <3>2 DEF Setup
  <2> QED
    BY <1>1, <2>9, <2>10, <2>11
<1> QED
  BY <1>5, <1>6
-----------------------------------------------------------------------------
\* The bytes are those of the CRS that the prover is told about.
CrsInv == witness.listed \in MerchantLists /\ crs = ToBytes(Setup(witness.listed))

LEMMA CrsSteps ==
  Spec => []CrsInv
<1>1. Init => CrsInv
  BY DEF Init, CrsInv
<1>2. CrsInv /\ [Next]_vars => CrsInv'
  BY DEF CrsInv, Next, vars, Prove, Receive
<1> QED
  BY <1>1, <1>2, PTL DEF Spec

\* The bytes of any list of merchants whose texts are not too long are read as the
\* CRS that was written, and cut short they are not read.
LEMMA CrsBytes ==
  ASSUME CrsInv, Fits(witness.listed)
  PROVE  /\ FromBytes(crs) = Setup(witness.listed)
         /\ \A n \in 0 .. Len(crs) - 1 : ~FromBytes(SubSeq(crs, 1, n)).ok
<1>1. PICK ms \in Seq(MerchantType) : ms = witness.listed /\ Fits(ms) /\ crs = ToBytes(Setup(ms))
  BY ListsAssumption DEF CrsInv, MerchantType, Text
<1>2. PICK place : Written(ms, crs, place)
  BY <1>1, AsWritten
<1>3. crs \in Cells /\ Len(crs) \in Nat
  BY <1>2, LenProperties DEF Written, Cells
<1>4. FromBytes(crs) = Setup(ms)
  BY <1>1, <1>2, <1>3, ReadBack
<1>5. ASSUME NEW n \in 0 .. Len(crs) - 1
      PROVE  ~FromBytes(SubSeq(crs, 1, n)).ok
  <2>1. PICK b : b = SubSeq(crs, 1, n)
    OBVIOUS
  <2>2. n \in Int /\ n - 1 + 1 = n /\ (IF 1 <= n THEN n ELSE 0) = n /\ n < Len(crs)
    BY <1>3
  <2>3. \A i \in 1 .. n : crs[i] \in Nat /\ 1 + i - 1 = i
    <3> SUFFICES ASSUME NEW i \in 1 .. n PROVE crs[i] \in Nat /\ 1 + i - 1 = i
      OBVIOUS
    <3>1. i \in 1 .. Len(crs)
      BY <1>3
    <3> QED
      BY <1>3, <3>1 DEF Cells
  <2>4. /\ b \in Cells /\ Len(b) = (IF 1 <= n THEN n - 1 + 1 ELSE 0)
        /\ \A i \in 1 .. n - 1 + 1 : b[i] = crs[1 + i - 1]
    BY <2>1, <2>2, <2>3, SubSeqProperties DEF Cells
  <2>5. Len(b) = n /\ \A i \in 1 .. n : b[i] = crs[i]
    BY <2>2, <2>3, <2>4
  <2>6. Len(b) <= Len(crs) /\ Len(b) # Len(crs)
    BY <1>3, <2>2, <2>5
  <2>7. FromBytes(b).ok => Len(b) = Len(crs)
    BY <1>1, <1>2, <2>4, <2>5, <2>6, ReadBack
  <2> QED
    BY <2>1, <2>6, <2>7
<1> QED
  BY <1>1, <1>4, <1>5

\* A CRS written by Crs::to_bytes is the one that Crs::from_bytes reads: the same
\* merchants in the same positions, for every list of them.
THEOREM CrsReadBack == Spec => []CrsRoundTrip
<1>1. CrsInv => CrsRoundTrip
  BY CrsBytes DEF CrsRoundTrip
<1> QED
  BY <1>1, CrsSteps, PTL

\* A CRS of which a part is missing at the end is not read, wherever the cut is.
THEOREM CutRefused == Spec => []PrefixesRefused
<1>1. CrsInv => PrefixesRefused
  BY CrsBytes DEF PrefixesRefused
<1> QED
  BY <1>1, CrsSteps, PTL
-----------------------------------------------------------------------------
\* What Power computes.
LEMMA PowerSteps ==
  ASSUME NEW x \in Int
  PROVE  /\ Power(x, 0) = 1
         /\ \A n \in Nat : Power(x, n) \in Int /\ Power(x, n + 1) = Power(x, n) * x
<1> DEFINE V == Int
           base == 1
           step == [k \in Nat |-> [v \in V |-> v * x]]
           Body(f, n) == [m \in 0 .. n |-> IF m = 0 THEN 1 ELSE f[m - 1] * x]
           f(n) == CHOOSE f : f = Body(f, n)
<1>1. /\ base \in V /\ step \in [Nat -> [V -> V]]
      /\ \A k \in Nat : \A v \in V : step[k][v] = v * x
  OBVIOUS
<1> HIDE DEF step, V, base
<1>2. PICK F : Iterates(F, V, base, step)
  BY <1>1, Iterated
<1>3. F \in [Nat -> Int] /\ F[0] = 1 /\ \A n \in Nat : F[n + 1] = F[n] * x
  <2>1. \A n \in Nat : F[n] \in V /\ F[n + 1] = step[n][F[n]]
    BY <1>2 DEF Iterates
  <2>2. \A n \in Nat : F[n + 1] = F[n] * x
    BY <1>1, <2>1
  <2> QED
    BY <1>2, <2>2 DEF Iterates, V, base
<1>4. ASSUME NEW n \in Nat
      PROVE  f(n)[n] = F[n]
  <2> DEFINE t == [k \in 0 .. n |-> F[k]]
  <2>1. \A m \in 0 .. n : t[m] = IF m = 0 THEN 1 ELSE t[m - 1] * x
    <3> SUFFICES ASSUME NEW m \in 0 .. n PROVE t[m] = IF m = 0 THEN 1 ELSE t[m - 1] * x
      OBVIOUS
    <3>1. CASE m = 0
      BY <1>3, <3>1
    <3>2. CASE m # 0
      <4>1. m - 1 \in Nat /\ m - 1 \in 0 .. n /\ (m - 1) + 1 = m
        BY <3>2
      <4>2. F[m] = F[m - 1] * x
        BY <1>3, <4>1
      <4> QED
        BY <3>2, <4>1, <4>2
    <3> QED
      BY <3>1, <3>2
  <2>2. t = Body(t, n)
    BY <2>1
  <2> HIDE DEF t
  <2>3. PICK e : e = f(n) /\ e = Body(e, n)
    BY <2>2
  <2>4. \A m \in 0 .. n : e[m] = IF m = 0 THEN 1 ELSE e[m - 1] * x
    BY <2>3
  <2> DEFINE Agree == {k \in Nat : k <= n => e[k] = F[k]}
  <2>5. 0 \in Agree
    BY <1>3, <2>4
  <2>6. ASSUME NEW k \in Nat, k \in Agree
        PROVE  k + 1 \in Agree
    <3> SUFFICES ASSUME k + 1 <= n PROVE e[k + 1] = F[k + 1]
      OBVIOUS
    <3>1. k + 1 \in 0 .. n /\ k + 1 # 0 /\ (k + 1) - 1 = k /\ k <= n
      OBVIOUS
    <3>2. e[k + 1] = e[k] * x
      BY <2>4, <3>1
    <3> QED
      BY <1>3, <2>6, <3>1, <3>2
  <2> HIDE DEF Agree
  <2>7. n \in Agree
    BY <2>5, <2>6, NatInduct
  <2> QED
    BY <2>3, <2>7 DEF Agree
<1>5. \A n \in Nat : Power(x, n) = F[n]
  BY <1>4 DEF Power
<1> QED
  BY <1>3, <1>5

LEMMA PowerNotZero ==
  ASSUME NEW x \in Int \ {0}
  PROVE  \A n \in Nat : Power(x, n) \in Int \ {0}
<1> DEFINE S == {n \in Nat : Power(x, n) # 0}
<1>1. 0 \in S
  BY PowerSteps
<1>2. ASSUME NEW n \in Nat, n \in S
      PROVE  n + 1 \in S
  <2>1. PICK p \in Int : p = Power(x, n) /\ p # 0
    BY <1>2, PowerSteps
  <2>2. Power(x, n + 1) = p * x
    BY <2>1, PowerSteps
  <2>3. p * x # 0
    BY <2>1
  <2> QED
    BY <2>2, <2>3
<1> HIDE DEF S
<1>3. Nat \subseteq S
  BY <1>1, <1>2, NatInduct
<1> QED
  BY <1>3, PowerSteps DEF S

\* What ShiftedRight computes, for every k: half of it each time.
LEMMA ShiftSteps ==
  ASSUME NEW j \in Nat
  PROVE  /\ ShiftedRight(j, 0) = j
         /\ \A k \in Nat : /\ ShiftedRight(j, k) \in Nat
                           /\ ShiftedRight(j, k + 1) = ShiftedRight(j, k) \div 2
<1> DEFINE V == Nat
           step == [k \in Nat |-> [v \in V |-> v \div 2]]
           Body(f, n) == [m \in 0 .. n |-> IF m = 0 THEN j ELSE f[m - 1] \div 2]
           f(n) == CHOOSE f : f = Body(f, n)
<1>1. /\ j \in V /\ step \in [Nat -> [V -> V]]
      /\ \A k \in Nat : \A v \in V : step[k][v] = v \div 2
  OBVIOUS
<1> HIDE DEF step, V
<1>2. PICK F : Iterates(F, V, j, step)
  BY <1>1, Iterated
<1>3. F \in [Nat -> Nat] /\ F[0] = j /\ \A n \in Nat : F[n + 1] = F[n] \div 2
  <2>1. \A n \in Nat : F[n] \in V /\ F[n + 1] = step[n][F[n]]
    BY <1>2 DEF Iterates
  <2>2. \A n \in Nat : F[n + 1] = F[n] \div 2
    BY <1>1, <2>1
  <2> QED
    BY <1>2, <2>2 DEF Iterates, V
<1>4. ASSUME NEW n \in Nat
      PROVE  f(n)[n] = F[n]
  <2> DEFINE t == [k \in 0 .. n |-> F[k]]
  <2>1. \A m \in 0 .. n : t[m] = IF m = 0 THEN j ELSE t[m - 1] \div 2
    <3> SUFFICES ASSUME NEW m \in 0 .. n PROVE t[m] = IF m = 0 THEN j ELSE t[m - 1] \div 2
      OBVIOUS
    <3>1. CASE m = 0
      BY <1>3, <3>1
    <3>2. CASE m # 0
      <4>1. m - 1 \in Nat /\ m - 1 \in 0 .. n /\ (m - 1) + 1 = m
        BY <3>2
      <4>2. F[m] = F[m - 1] \div 2
        BY <1>3, <4>1
      <4> QED
        BY <3>2, <4>1, <4>2
    <3> QED
      BY <3>1, <3>2
  <2>2. t = Body(t, n)
    BY <2>1
  <2> HIDE DEF t
  <2>3. PICK e : e = f(n) /\ e = Body(e, n)
    BY <2>2
  <2>4. \A m \in 0 .. n : e[m] = IF m = 0 THEN j ELSE e[m - 1] \div 2
    BY <2>3
  <2> DEFINE Agree == {k \in Nat : k <= n => e[k] = F[k]}
  <2>5. 0 \in Agree
    BY <1>3, <2>4
  <2>6. ASSUME NEW k \in Nat, k \in Agree
        PROVE  k + 1 \in Agree
    <3> SUFFICES ASSUME k + 1 <= n PROVE e[k + 1] = F[k + 1]
      OBVIOUS
    <3>1. k + 1 \in 0 .. n /\ k + 1 # 0 /\ (k + 1) - 1 = k /\ k <= n
      OBVIOUS
    <3>2. e[k + 1] = e[k] \div 2
      BY <2>4, <3>1
    <3> QED
      BY <1>3, <2>6, <3>1, <3>2
  <2> HIDE DEF Agree
  <2>7. n \in Agree
    BY <2>5, <2>6, NatInduct
  <2> QED
    BY <2>3, <2>7 DEF Agree
<1>5. \A n \in Nat : ShiftedRight(j, n) = F[n]
  BY <1>4 DEF ShiftedRight
<1> QED
  BY <1>3, <1>5
-----------------------------------------------------------------------------
LEMMA BitIsBit ==
  ASSUME NEW j \in Nat, NEW k \in Nat
  PROVE  BitOf(j, k) \in {0, 1}
<1>1. PICK r \in Nat : r = ShiftedRight(j, k)
  BY ShiftSteps
<1>2. r % 2 \in {0, 1}
  OBVIOUS
<1> QED
  BY <1>1, <1>2 DEF BitOf

\* An index of the set has no bits beyond the M-th.
LEMMA ShiftedOut ==
  ASSUME NEW j \in 0 .. SetSize - 1
  PROVE  ShiftedRight(j, M) = 0
<1> DEFINE S == {m \in Nat : m <= M => ShiftedRight(j, m) < Power(2, M - m)}
<1>1. j \in Nat /\ M \in Nat /\ SetSize = Power(2, M) /\ SetSize \in Nat
  BY MAssumption, SetSizeAssumption
<1>2. 0 \in S
  <2>1. M - 0 = M /\ j < Power(2, M)
    BY <1>1
  <2> QED
    BY <1>1, <2>1, ShiftSteps
<1>3. ASSUME NEW m \in Nat, m \in S
      PROVE  m + 1 \in S
  <2> SUFFICES ASSUME m + 1 <= M
               PROVE  ShiftedRight(j, m + 1) < Power(2, M - (m + 1))
    OBVIOUS
  <2>1. PICK d \in Nat : d = M - (m + 1) /\ M - m = d + 1
    BY <1>1
  <2>2. PICK p \in Int : p = Power(2, d) /\ Power(2, d + 1) = p * 2
    <3>1. Power(2, d) \in Int /\ Power(2, d + 1) = Power(2, d) * 2
      <4>1. PICK two \in Int : two = 2
        OBVIOUS
      <4>2. Power(two, d) \in Int /\ Power(two, d + 1) = Power(two, d) * two
        BY PowerSteps
      <4> QED
        BY <4>1, <4>2
    <3> QED
      BY <3>1
  <2>3. PICK r \in Nat : r = ShiftedRight(j, m) /\ ShiftedRight(j, m + 1) = r \div 2
    <3>1. ShiftedRight(j, m) \in Nat /\ ShiftedRight(j, m + 1) = ShiftedRight(j, m) \div 2
      BY <1>1, ShiftSteps
    <3> QED
      BY <3>1
  <2>4. r < p * 2
    BY <1>1, <1>3, <2>1, <2>2, <2>3
  <2>5. r \div 2 < p
    BY <2>4
  <2> QED
    BY <2>1, <2>2, <2>3, <2>5
<1> HIDE DEF S
<1>4. M \in S
  BY <1>1, <1>2, <1>3, NatInduct
<1>5. ShiftedRight(j, M) < Power(2, M - M)
  BY <1>1, <1>4 DEF S
<1>6. M - M = 0 /\ Power(2, 0) = 1
  BY <1>1, PowerSteps
<1>7. ShiftedRight(j, M) \in Nat
  BY <1>1, ShiftSteps
<1> QED
  BY <1>5, <1>6, <1>7

\* The bits of an index determine it.
LEMMA BitsDetermine ==
  ASSUME NEW i \in 0 .. SetSize - 1, NEW j \in 0 .. SetSize - 1,
         \A k \in Bit : BitOf(i, k) = BitOf(j, k)
  PROVE  i = j
<1> DEFINE S == {d \in Nat : d <= M => ShiftedRight(i, M - d) = ShiftedRight(j, M - d)}
<1>1. i \in Nat /\ j \in Nat /\ M \in Nat
  BY MAssumption, SetSizeAssumption
<1>2. 0 \in S
  <2>1. M - 0 = M
    BY <1>1
  <2> QED
    BY <2>1, ShiftedOut
<1>3. ASSUME NEW d \in Nat, d \in S
      PROVE  d + 1 \in S
  <2> SUFFICES ASSUME d + 1 <= M
               PROVE  ShiftedRight(i, M - (d + 1)) = ShiftedRight(j, M - (d + 1))
    OBVIOUS
  <2>1. PICK k \in Nat : k = M - (d + 1) /\ M - d = k + 1 /\ k \in Bit
    BY <1>1 DEF Bit
  <2>2. PICK q \in Nat : q = ShiftedRight(i, k) /\ ShiftedRight(i, k + 1) = q \div 2
    <3>1. ShiftedRight(i, k) \in Nat /\ ShiftedRight(i, k + 1) = ShiftedRight(i, k) \div 2
      BY <1>1, ShiftSteps
    <3> QED
      BY <3>1
  <2>3. PICK r \in Nat : r = ShiftedRight(j, k) /\ ShiftedRight(j, k + 1) = r \div 2
    <3>1. ShiftedRight(j, k) \in Nat /\ ShiftedRight(j, k + 1) = ShiftedRight(j, k) \div 2
      BY <1>1, ShiftSteps
    <3> QED
      BY <3>1
  <2>4. q \div 2 = r \div 2
    <3>1. d <= M
      BY <1>1
    <3>2. ShiftedRight(i, M - d) = ShiftedRight(j, M - d)
      BY <1>3, <3>1
    <3> QED
      BY <2>1, <2>2, <2>3, <3>2
  <2>5. q % 2 = r % 2
    BY <2>1, <2>2, <2>3 DEF BitOf
  <2>6. q = r
    BY <2>4, <2>5
  <2> QED
    BY <2>1, <2>2, <2>3, <2>6
<1> HIDE DEF S
<1>4. M \in S
  BY <1>1, <1>2, <1>3, NatInduct
<1>5. ShiftedRight(i, M - M) = ShiftedRight(j, M - M)
  BY <1>1, <1>4 DEF S
<1>6. M - M = 0 /\ ShiftedRight(i, 0) = i /\ ShiftedRight(j, 0) = j
  BY <1>1, ShiftSteps
<1> QED
  BY <1>5, <1>6
-----------------------------------------------------------------------------
\* The response f_k of the prover.
ResponseFor(index, a, x) == [k \in Bit |-> BitOf(index, k) * x + a[k]]

\* The factor of p_j(x) for bit k.
FactorAt(f, x, j, k) == IF BitOf(j, k) = 1 THEN f[k] ELSE x - f[k]

\* The factor of p_j for bit k: what the verifier takes for it at x, and whether it
\* has a term in x.
LEMMA FactorValue ==
  ASSUME NEW index \in Nat, NEW j \in Nat, NEW a \in [Bit -> Int], NEW x \in Int, NEW k \in Bit
  PROVE  /\ Factor(index, a, j, k)[1] \in Int /\ Factor(index, a, j, k)[2] \in Int
         /\ Factor(index, a, j, k)[1] = IF BitOf(j, k) = BitOf(index, k) THEN 1 ELSE 0
         /\ Factor(index, a, j, k)[1] * x + Factor(index, a, j, k)[2]
              = FactorAt(ResponseFor(index, a, x), x, j, k)
<1>1. k \in Nat
  BY DEF Bit
<1>2. PICK b \in {0, 1} : b = BitOf(index, k)
  BY <1>1, BitIsBit
<1>3. PICK d \in {0, 1} : d = BitOf(j, k)
  BY <1>1, BitIsBit
<1>4. PICK y \in Int : y = a[k]
  OBVIOUS
<1>5. ResponseFor(index, a, x)[k] = b * x + y
  BY <1>2, <1>4 DEF ResponseFor
<1>6. FactorAt(ResponseFor(index, a, x), x, j, k) = IF d = 1 THEN b * x + y ELSE x - (b * x + y)
  BY <1>3, <1>5 DEF FactorAt
<1>7. CASE d = 1
  <2>1. Factor(index, a, j, k) = <<b, y>>
    BY <1>2, <1>3, <1>4, <1>7 DEF Factor
  <2>2. Factor(index, a, j, k)[1] = b /\ Factor(index, a, j, k)[2] = y
    BY <2>1
  <2>3. b \in Int /\ b = IF d = b THEN 1 ELSE 0
    BY <1>7
  <2> QED
    BY <1>2, <1>3, <1>6, <1>7, <2>2, <2>3
<1>8. CASE d = 0
  <2>1. Factor(index, a, j, k) = <<1 - b, -y>>
    BY <1>2, <1>3, <1>4, <1>8 DEF Factor
  <2>2. Factor(index, a, j, k)[1] = 1 - b /\ Factor(index, a, j, k)[2] = -y
    BY <2>1
  <2>3. 1 - b \in Int /\ -y \in Int /\ 1 - b = IF d = b THEN 1 ELSE 0
    BY <1>8
  <2>4. (1 - b) * x + (-y) = x - (b * x + y)
    <3>1. CASE b = 0
      BY <3>1
    <3>2. CASE b = 1
      BY <3>2
    <3> QED
      BY <3>1, <3>2
  <2> QED
    BY <1>2, <1>3, <1>6, <1>8, <2>2, <2>3, <2>4
<1> QED
  BY <1>7, <1>8

\* p_j with one more bit.
WithFactor(c, p) == [i \in 0 .. M |-> p[i] * c[2] + (IF i = 0 THEN 0 ELSE p[i - 1] * c[1])]

LEMMA WithFactorType ==
  ASSUME NEW c, c[1] \in Int, c[2] \in Int, NEW p \in [0 .. M -> Int]
  PROVE  WithFactor(c, p) \in [0 .. M -> Int]
<1>1. M \in Nat
  BY MAssumption
<1>2. ASSUME NEW i \in 0 .. M
      PROVE  p[i] * c[2] + (IF i = 0 THEN 0 ELSE p[i - 1] * c[1]) \in Int
  <2>1. p[i] * c[2] \in Int
    OBVIOUS
  <2>2. i # 0 => p[i - 1] * c[1] \in Int
    BY <1>1
  <2> QED
    BY <2>1, <2>2
<1> QED
  BY <1>2 DEF WithFactor

LEMMA PolynomialSteps ==
  ASSUME NEW index \in Nat, NEW j \in Nat, NEW a \in [Bit -> Int]
  PROVE  \E e \in [0 .. M -> [0 .. M -> Int]] :
           /\ e[0] = [i \in 0 .. M |-> IF i = 0 THEN 1 ELSE 0]
           /\ \A k \in Bit : e[k + 1] = WithFactor(Factor(index, a, j, k), e[k])
           /\ Polynomial(index, a, j) = e[M]
<1> DEFINE V == [0 .. M -> Int]
           base == [i \in 0 .. M |-> IF i = 0 THEN 1 ELSE 0]
           F(k) == Factor(index, a, j, k)
           step == [k \in Nat |-> [p \in V |-> IF k \in Bit THEN WithFactor(F(k), p) ELSE p]]
           Body(f) == [m \in 0 .. M |-> IF m = 0 THEN base
                                        ELSE [i \in 0 .. M |-> f[m - 1][i] * F(m - 1)[2]
                                          + (IF i = 0 THEN 0 ELSE f[m - 1][i - 1] * F(m - 1)[1])]]
           Stepwise(f) == [m \in 0 .. M |-> IF m = 0 THEN base ELSE WithFactor(F(m - 1), f[m - 1])]
<1>1. M \in Nat
  BY MAssumption
<1>2. base \in V
  OBVIOUS
<1>3. \A k \in Bit : F(k)[1] \in Int /\ F(k)[2] \in Int
  <2>1. PICK x \in Int : x = 0
    OBVIOUS
  <2>2. ASSUME NEW k \in Bit
        PROVE  Factor(index, a, j, k)[1] \in Int /\ Factor(index, a, j, k)[2] \in Int
    BY FactorValue
  <2> QED
    BY <2>2
<1>4. /\ step \in [Nat -> [V -> V]]
      /\ \A k \in Bit : k \in Nat /\ \A p \in V : step[k][p] = WithFactor(F(k), p)
  <2> HIDE DEF F, V
  <2>1. \A k \in Bit : \A p \in V : WithFactor(F(k), p) \in V
    BY <1>3, WithFactorType DEF V
  <2>2. \A k \in Nat : \A p \in V : (IF k \in Bit THEN WithFactor(F(k), p) ELSE p) \in V
    BY <2>1
  <2>3. \A k \in Nat : [p \in V |-> IF k \in Bit THEN WithFactor(F(k), p) ELSE p] \in [V -> V]
    BY <2>2
  <2> QED
    BY <2>3 DEF Bit
<1> HIDE DEF step, V, base, F
<1>5. PICK G : Iterates(G, V, base, step)
  BY <1>2, <1>4, Iterated
<1>6. G \in [Nat -> V] /\ G[0] = base /\ \A k \in Bit : G[k + 1] = WithFactor(F(k), G[k])
  <2>1. \A n \in Nat : G[n] \in V /\ G[n + 1] = step[n][G[n]]
    BY <1>5 DEF Iterates
  <2>2. \A k \in Bit : G[k + 1] = WithFactor(F(k), G[k])
    BY <1>4, <2>1
  <2> QED
    BY <1>5, <2>2 DEF Iterates
<1> DEFINE t == [m \in 0 .. M |-> G[m]]
<1>7. \A m \in 0 .. M : t[m] = IF m = 0 THEN base ELSE WithFactor(F(m - 1), t[m - 1])
  <2> SUFFICES ASSUME NEW m \in 0 .. M
               PROVE  t[m] = IF m = 0 THEN base ELSE WithFactor(F(m - 1), t[m - 1])
    OBVIOUS
  <2>1. CASE m = 0
    BY <1>6, <2>1
  <2>2. CASE m # 0
    <3>1. m - 1 \in Bit /\ m - 1 \in 0 .. M /\ (m - 1) + 1 = m
      BY <1>1, <2>2 DEF Bit
    <3>2. G[m] = WithFactor(F(m - 1), G[m - 1])
      BY <1>6, <3>1
    <3>3. t[m] = G[m] /\ t[m - 1] = G[m - 1]
      BY <3>1
    <3> QED
      BY <2>2, <3>2, <3>3
  <2> QED
    BY <2>1, <2>2
<1>8. t = Stepwise(t)
  BY <1>7
<1>9. \A f : Body(f) = Stepwise(f)
  BY DEF WithFactor
<1> HIDE DEF t
<1>10. t = Body(t)
  BY <1>8, <1>9
<1> HIDE DEF Stepwise
<1>11. PICK e : e = Body(e) /\ Polynomial(index, a, j) = e[M]
  <2>1. Polynomial(index, a, j) = (CHOOSE f : f = Body(f))[M]
    BY DEF Polynomial, F, base
  <2> HIDE DEF Body
  <2> QED
    BY <1>10, <2>1
<1>12. e = Stepwise(e)
  BY <1>9, <1>11
<1>13. e[0] = base /\ \A k \in Bit : e[k + 1] = WithFactor(F(k), e[k])
  <2>1. \A m \in 0 .. M : e[m] = IF m = 0 THEN base ELSE WithFactor(F(m - 1), e[m - 1])
    BY <1>12 DEF Stepwise
  <2>2. 0 \in 0 .. M /\ \A k \in Bit : k + 1 \in 0 .. M /\ k + 1 # 0 /\ (k + 1) - 1 = k
    BY <1>1 DEF Bit
  <2> QED
    BY <2>1, <2>2
<1>14. \A m \in 0 .. M : e[m] \in V
  <2> DEFINE S == {m \in Nat : m <= M => e[m] \in V}
  <2>1. 0 \in S
    BY <1>2, <1>13
  <2>2. ASSUME NEW m \in Nat, m \in S
        PROVE  m + 1 \in S
    <3> SUFFICES ASSUME m + 1 <= M PROVE e[m + 1] \in V
      OBVIOUS
    <3>1. m \in Bit /\ m <= M
      BY <1>1 DEF Bit
    <3>2. e[m] \in V
      BY <2>2, <3>1
    <3>3. WithFactor(F(m), e[m]) \in V
      BY <1>3, <3>1, <3>2, WithFactorType DEF V
    <3> QED
      BY <1>13, <3>1, <3>3
  <2> HIDE DEF S
  <2>3. Nat \subseteq S
    BY <2>1, <2>2, NatInduct
  <2> QED
    BY <1>1, <2>3 DEF S
<1>15. e \in [0 .. M -> V]
  <2>1. e = [m \in 0 .. M |-> e[m]]
    BY <1>12 DEF Stepwise
  <2> QED
    BY <1>14, <2>1
<1> QED
  BY <1>11, <1>13, <1>15 DEF V, base, F
LEMMA ProductSteps ==
  ASSUME NEW j \in Nat, NEW f \in [Bit -> Int], NEW x \in Int
  PROVE  \E e \in [0 .. M -> Int] :
           /\ e[0] = 1
           /\ \A k \in Bit : e[k + 1] = e[k] * FactorAt(f, x, j, k)
           /\ ProductOf(f, x, j) = e[M]
<1> DEFINE V == Int
           base == 1
           step == [k \in Nat |-> [p \in V |-> IF k \in Bit THEN p * FactorAt(f, x, j, k) ELSE p]]
           Body(t) == [m \in 0 .. M |-> IF m = 0 THEN 1
                         ELSE t[m - 1] * (IF BitOf(j, m - 1) = 1 THEN f[m - 1] ELSE x - f[m - 1])]
<1>1. M \in Nat
  BY MAssumption
<1>2. \A k \in Bit : FactorAt(f, x, j, k) \in Int
  BY DEF FactorAt
<1>3. /\ base \in V /\ step \in [Nat -> [V -> V]]
      /\ \A k \in Bit : k \in Nat /\ \A p \in V : step[k][p] = p * FactorAt(f, x, j, k)
  <2>1. \A k \in Nat : \A p \in V : (IF k \in Bit THEN p * FactorAt(f, x, j, k) ELSE p) \in V
    BY <1>2
  <2> QED
    BY <2>1 DEF Bit
<1> HIDE DEF step, V, base
<1>4. PICK G : Iterates(G, V, base, step)
  BY <1>3, Iterated
<1>5. G \in [Nat -> Int] /\ G[0] = 1 /\ \A k \in Bit : G[k + 1] = G[k] * FactorAt(f, x, j, k)
  <2>1. \A n \in Nat : G[n] \in V /\ G[n + 1] = step[n][G[n]]
    BY <1>4 DEF Iterates
  <2>2. \A k \in Bit : G[k + 1] = G[k] * FactorAt(f, x, j, k)
    BY <1>3, <2>1
  <2> QED
    BY <1>4, <2>2 DEF Iterates, V, base
<1> DEFINE t == [m \in 0 .. M |-> G[m]]
<1>6. \A m \in 0 .. M :
        t[m] = IF m = 0 THEN 1
               ELSE t[m - 1] * (IF BitOf(j, m - 1) = 1 THEN f[m - 1] ELSE x - f[m - 1])
  <2> SUFFICES ASSUME NEW m \in 0 .. M
               PROVE  t[m] = IF m = 0 THEN 1
                             ELSE t[m - 1] * (IF BitOf(j, m - 1) = 1 THEN f[m - 1] ELSE x - f[m - 1])
    OBVIOUS
  <2>1. CASE m = 0
    BY <1>5, <2>1
  <2>2. CASE m # 0
    <3>1. m - 1 \in Bit /\ m - 1 \in 0 .. M /\ (m - 1) + 1 = m
      BY <1>1, <2>2 DEF Bit
    <3>2. G[m] = G[m - 1] * FactorAt(f, x, j, m - 1)
      BY <1>5, <3>1
    <3>3. t[m] = G[m] /\ t[m - 1] = G[m - 1]
      BY <3>1
    <3> QED
      BY <2>2, <3>2, <3>3 DEF FactorAt
  <2> QED
    BY <2>1, <2>2
<1>7. t = Body(t)
  BY <1>6
<1> HIDE DEF t
<1>8. PICK e : e = Body(e) /\ ProductOf(f, x, j) = e[M]
  <2>1. ProductOf(f, x, j) = (CHOOSE p : p = Body(p))[M]
    BY DEF ProductOf
  <2> HIDE DEF Body
  <2> QED
    BY <1>7, <2>1
<1>9. \A m \in 0 .. M :
        e[m] = IF m = 0 THEN 1
               ELSE e[m - 1] * (IF BitOf(j, m - 1) = 1 THEN f[m - 1] ELSE x - f[m - 1])
  BY <1>8
<1>10. e[0] = 1 /\ \A k \in Bit : e[k + 1] = e[k] * FactorAt(f, x, j, k)
  <2>1. 0 \in 0 .. M /\ \A k \in Bit : k + 1 \in 0 .. M /\ k + 1 # 0 /\ (k + 1) - 1 = k
    BY <1>1 DEF Bit
  <2> QED
    BY <1>9, <2>1 DEF FactorAt
<1>11. \A m \in 0 .. M : e[m] \in Int
  <2> DEFINE S == {m \in Nat : m <= M => e[m] \in Int}
  <2>1. 0 \in S
    BY <1>10
  <2>2. ASSUME NEW m \in Nat, m \in S
        PROVE  m + 1 \in S
    <3> SUFFICES ASSUME m + 1 <= M PROVE e[m + 1] \in Int
      OBVIOUS
    <3>1. m \in Bit /\ m <= M
      BY <1>1 DEF Bit
    <3>2. e[m] \in Int
      BY <2>2, <3>1
    <3> QED
      BY <1>2, <1>10, <3>1, <3>2
  <2> HIDE DEF S
  <2>3. Nat \subseteq S
    BY <2>1, <2>2, NatInduct
  <2> QED
    BY <1>1, <2>3 DEF S
<1>12. e \in [0 .. M -> Int]
  <2>1. e = [m \in 0 .. M |-> e[m]]
    BY <1>8
  <2> QED
    BY <1>11, <2>1
<1> QED
  BY <1>8, <1>10, <1>12

\* The terms of p_j at x.
TermsAt(p, x) == [i \in 0 .. M |-> p[i] * Power(x, i)]

\* One factor more multiplies the value by what the factor is at x.
LEMMA FactorAdded ==
  ASSUME NEW c, c[1] \in Int, c[2] \in Int,
         NEW p \in [0 .. M -> Int], p[M] = 0, NEW x \in Int
  PROVE  SumFunction(TermsAt(WithFactor(c, p), x))
           = SumFunction(TermsAt(p, x)) * (c[1] * x + c[2])
<1>0. PICK c1 \in Int, c2 \in Int : c1 = c[1] /\ c2 = c[2]
  OBVIOUS
<1>1. M \in Nat /\ IsFiniteSet(0 .. M)
  BY MAssumption, FS_Interval
<1> DEFINE d == c1 * x
           w == [i \in 0 .. M |-> IF i = 0 THEN 0 ELSE p[i - 1] * Power(x, i - 1)]
<1>2. \A i \in 0 .. M : Power(x, i) \in Int
  BY <1>1, PowerSteps
<1>3. PICK v \in [0 .. M -> Int] : v = TermsAt(p, x) /\ \A i \in 0 .. M : v[i] = p[i] * Power(x, i)
  <2>1. \A i \in 0 .. M : p[i] * Power(x, i) \in Int
    BY <1>2
  <2>2. TermsAt(p, x) \in [0 .. M -> Int]
    BY <2>1 DEF TermsAt
  <2> QED
    BY <2>2 DEF TermsAt
<1>4. w \in [0 .. M -> Int] /\ w[0] = 0 /\ \A i \in 0 .. M - 1 : w[i + 1] = v[i]
  <2>1. \A i \in 0 .. M : i # 0 => p[i - 1] * Power(x, i - 1) \in Int
    <3> SUFFICES ASSUME NEW i \in 0 .. M, i # 0
                 PROVE  p[i - 1] * Power(x, i - 1) \in Int
      OBVIOUS
    <3>1. i - 1 \in 0 .. M
      BY <1>1
    <3> QED
      BY <1>2, <3>1
  <2>2. w \in [0 .. M -> Int] /\ w[0] = 0
    BY <1>1, <2>1
  <2>3. ASSUME NEW i \in 0 .. M - 1
        PROVE  w[i + 1] = v[i]
    <3>1. i + 1 \in 0 .. M /\ i + 1 # 0 /\ (i + 1) - 1 = i /\ i \in 0 .. M
      BY <1>1
    <3>2. w[i + 1] = p[i] * Power(x, i)
      BY <3>1
    <3> QED
      BY <1>3, <3>1, <3>2
  <2> QED
    BY <2>2, <2>3
<1>5. v[M] = 0
  <2>1. M \in 0 .. M
    BY <1>1
  <2>2. PICK q \in Int : q = Power(x, M)
    BY <1>2, <2>1
  <2>3. v[M] = 0 * q
    BY <1>3, <2>1, <2>2
  <2> QED
    BY <2>3
<1> HIDE DEF w
<1>6. SumFunction(w) = SumFunction(v)
  BY <1>1, <1>4, <1>5, SumShift
<1>7. d \in Int
  OBVIOUS
<1>8. \A i \in 0 .. M : WithFactor(c, p)[i] * Power(x, i) = c2 * v[i] + d * w[i]
  <2> SUFFICES ASSUME NEW i \in 0 .. M
               PROVE  WithFactor(c, p)[i] * Power(x, i) = c2 * v[i] + d * w[i]
    OBVIOUS
  <2>1. PICK a \in Int, q \in Int : a = p[i] /\ q = Power(x, i) /\ v[i] = a * q
    BY <1>2, <1>3
  <2>2. CASE i = 0
    <3>1. WithFactor(c, p)[i] = a * c2 + 0 /\ w[i] = 0
      BY <1>0, <1>4, <2>1, <2>2 DEF WithFactor
    <3>2. a * c2 + 0 = a * c2 /\ d * 0 = 0
      BY <1>7
    <3>3. (a * c2) * q = c2 * (a * q) + 0
      OBVIOUS
    <3> QED
      BY <2>1, <3>1, <3>2, <3>3
  <2>3. CASE i # 0
    <3>1. i - 1 \in 0 .. M /\ i - 1 \in Nat /\ (i - 1) + 1 = i
      BY <1>1, <2>3
    <3>2. PICK b \in Int, r \in Int : b = p[i - 1] /\ r = Power(x, i - 1)
      BY <1>2, <3>1
    <3>3. q = r * x
      <4>1. Power(x, (i - 1) + 1) = Power(x, i - 1) * x
        BY <3>1, PowerSteps
      <4> QED
        BY <2>1, <3>1, <3>2, <4>1
    <3>4. WithFactor(c, p)[i] = a * c2 + b * c1
      BY <1>0, <2>1, <2>3, <3>2 DEF WithFactor
    <3>5. w[i] = b * r
      BY <2>3, <3>2 DEF w
    <3>6. (a * c2 + b * c1) * (r * x) = c2 * (a * (r * x)) + (c1 * x) * (b * r)
      OBVIOUS
    <3> QED
      BY <2>1, <3>3, <3>4, <3>5, <3>6
  <2> QED
    BY <2>2, <2>3
<1> HIDE DEF d
<1>9. /\ \A i \in 0 .. M : TermsAdded(Times(c2, v), Times(d, w))[i] = c2 * v[i] + d * w[i]
      /\ TermsAdded(Times(c2, v), Times(d, w)) \in [0 .. M -> Int]
      /\ SumFunction(TermsAdded(Times(c2, v), Times(d, w))) = c2 * SumFunction(v) + d * SumFunction(w)
  <2>1. PICK T, u, r : T = 0 .. M /\ u = v /\ r = w
    OBVIOUS
  <2>2. IsFiniteSet(T) /\ u \in [T -> Int] /\ r \in [T -> Int]
    BY <1>1, <1>3, <1>4, <2>1
  <2>3. /\ \A i \in T : TermsAdded(Times(c2, u), Times(d, r))[i] = c2 * u[i] + d * r[i]
        /\ TermsAdded(Times(c2, u), Times(d, r)) \in [T -> Int]
        /\ SumFunction(TermsAdded(Times(c2, u), Times(d, r))) = c2 * SumFunction(u) + d * SumFunction(r)
    BY <1>7, <2>2, SumLinear
  <2> QED
    BY <2>1, <2>3
<1>10. TermsAt(WithFactor(c, p), x) = TermsAdded(Times(c2, v), Times(d, w))
  <2>1. \A i \in 0 .. M : TermsAt(WithFactor(c, p), x)[i] = WithFactor(c, p)[i] * Power(x, i)
    BY DEF TermsAt
  <2>2. \A i \in 0 .. M :
          TermsAt(WithFactor(c, p), x)[i] = TermsAdded(Times(c2, v), Times(d, w))[i]
    BY <1>8, <1>9, <2>1
  <2>3. TermsAt(WithFactor(c, p), x) = [i \in 0 .. M |-> TermsAt(WithFactor(c, p), x)[i]]
    BY DEF TermsAt
  <2>4. PICK u \in [0 .. M -> Int] : u = TermsAdded(Times(c2, v), Times(d, w))
    BY <1>9
  <2> QED
    BY <2>2, <2>3, <2>4
<1>15. PICK n \in Int : n = SumFunction(v)
  BY <1>1, SumInt
<1>16. SumFunction(TermsAt(WithFactor(c, p), x)) = c2 * n + d * n
  BY <1>6, <1>9, <1>10, <1>15
<1>17. c2 * n + d * n = n * (c1 * x + c2)
  <2>1. c2 * n + (c1 * x) * n = n * (c1 * x + c2)
    OBVIOUS
  <2> QED
    BY <2>1 DEF d
<1> QED
  BY <1>0, <1>3, <1>15, <1>16, <1>17

\* What the coefficients of p_j amount to: its value at x is what the verifier computes
\* from the f_k, and it has degree M for the prover's index only.
LEMMA PolynomialValue ==
  ASSUME NEW index \in 0 .. SetSize - 1, NEW j \in 0 .. SetSize - 1, NEW a \in [Bit -> Int],
         NEW x \in Int
  PROVE  /\ Polynomial(index, a, j) \in [0 .. M -> Int]
         /\ Polynomial(index, a, j)[M] = IF j = index THEN 1 ELSE 0
         /\ SumFunction(TermsAt(Polynomial(index, a, j), x))
              = ProductOf(ResponseFor(index, a, x), x, j)
<1> DEFINE f == ResponseFor(index, a, x)
           Agree(m) == \A k \in 0 .. m - 1 : BitOf(j, k) = BitOf(index, k)
<1>1. M \in Nat /\ index \in Nat /\ j \in Nat
  BY MAssumption, SetSizeAssumption
<1>2. f \in [Bit -> Int]
  <2>1. \A k \in Bit : BitOf(index, k) \in Int
    BY <1>1, BitIsBit DEF Bit
  <2> QED
    BY <2>1 DEF ResponseFor
<1> HIDE DEF f
<1>3. PICK e \in [0 .. M -> [0 .. M -> Int]] :
        /\ e[0] = [i \in 0 .. M |-> IF i = 0 THEN 1 ELSE 0]
        /\ \A k \in Bit : e[k + 1] = WithFactor(Factor(index, a, j, k), e[k])
        /\ Polynomial(index, a, j) = e[M]
  BY <1>1, PolynomialSteps
<1>4. PICK q \in [0 .. M -> Int] :
        /\ q[0] = 1
        /\ \A k \in Bit : q[k + 1] = q[k] * FactorAt(f, x, j, k)
        /\ ProductOf(f, x, j) = q[M]
  BY <1>1, <1>2, ProductSteps
<1> DEFINE S == {m \in Nat : m <= M =>
                   /\ \A i \in 0 .. M : i > m => e[m][i] = 0
                   /\ e[m][m] = IF Agree(m) THEN 1 ELSE 0
                   /\ SumFunction(TermsAt(e[m], x)) = q[m]}
<1>5. 0 \in S
  <2>1. \A i \in 0 .. M : e[0][i] = IF i = 0 THEN 1 ELSE 0
    BY <1>3
  <2>2. /\ \A i \in 0 .. M : i > 0 => e[0][i] = 0
        /\ e[0][0] = 1
    <3>1. 0 \in 0 .. M /\ \A i \in 0 .. M : i > 0 => i # 0
      BY <1>1
    <3> QED
      BY <2>1, <3>1
  <2>3. Agree(0)
    OBVIOUS
  <2>4. SumFunction(TermsAt(e[0], x)) = 1
    <3>1. PICK T : T = 0 .. M
      OBVIOUS
    <3>2. TermsAt(e[0], x) = [i \in T |-> e[0][i] * Power(x, i)]
      BY <3>1 DEF TermsAt
    <3>3. \A i \in 0 .. M : Power(x, i) \in Int /\ (i # 0 => e[0][i] = 0)
      <4>1. \A i \in 0 .. M : i \in Nat
        BY <1>1
      <4> QED
        BY <2>1, <4>1, PowerSteps
    <3>4. Power(x, 0) = 1 /\ 0 \in T
      BY <1>1, <3>1, PowerSteps
    <3>5. PICK v : v = TermsAt(e[0], x)
      OBVIOUS
    <3>6. v[0] = 1 /\ \A i \in T \ {0} : v[i] = 0
      BY <2>2, <3>1, <3>2, <3>3, <3>4, <3>5
    <3>7. v \in [T -> Int]
      <4>1. \A i \in T : v[i] \in Int
        BY <3>6
      <4>2. v = [i \in T |-> v[i]]
        BY <3>2, <3>5
      <4> QED
        BY <4>1, <4>2
    <3>8. IsFiniteSet(T)
      BY <1>1, <3>1, FS_Interval
    <3>9. SumFunction(v) = v[0]
      <4>1. ZeroBut(v, T, 0)
        BY <3>6 DEF ZeroBut
      <4> QED
        BY <3>4, <3>7, <3>8, <4>1, SumSingle
    <3> QED
      BY <3>5, <3>6, <3>9
  <2> QED
    BY <1>4, <2>2, <2>3, <2>4
<1>6. ASSUME NEW m \in Nat, m \in S
      PROVE  m + 1 \in S
  <2> SUFFICES ASSUME m + 1 <= M
               PROVE  /\ \A i \in 0 .. M : i > m + 1 => e[m + 1][i] = 0
                      /\ e[m + 1][m + 1] = IF Agree(m + 1) THEN 1 ELSE 0
                      /\ SumFunction(TermsAt(e[m + 1], x)) = q[m + 1]
    OBVIOUS
  <2>1. m \in Bit /\ m <= M /\ m \in 0 .. M /\ m + 1 \in 0 .. M
    BY <1>1 DEF Bit
  <2>2. /\ \A i \in 0 .. M : i > m => e[m][i] = 0
        /\ e[m][m] = IF Agree(m) THEN 1 ELSE 0
        /\ SumFunction(TermsAt(e[m], x)) = q[m]
    BY <1>6, <2>1
  <2>3. PICK c, c1, c2 :
          /\ c1 \in Int /\ c2 \in Int
          /\ c = Factor(index, a, j, m) /\ c[1] = c1 /\ c[2] = c2
          /\ c1 = IF BitOf(j, m) = BitOf(index, m) THEN 1 ELSE 0
          /\ c1 * x + c2 = FactorAt(f, x, j, m)
    <3>1. /\ Factor(index, a, j, m)[1] \in Int /\ Factor(index, a, j, m)[2] \in Int
          /\ Factor(index, a, j, m)[1] = IF BitOf(j, m) = BitOf(index, m) THEN 1 ELSE 0
          /\ Factor(index, a, j, m)[1] * x + Factor(index, a, j, m)[2] = FactorAt(f, x, j, m)
      <4>1. index \in Nat /\ j \in Nat /\ m \in Bit
        BY <1>1, <2>1
      <4>2. f = ResponseFor(index, a, x)
        BY DEF f
      <4> QED
        BY <4>1, <4>2, FactorValue
    <3> QED
      BY <3>1
  <2>4. e[m + 1] = WithFactor(c, e[m])
    BY <1>3, <2>1, <2>3
  <2>5. PICK p \in [0 .. M -> Int] : p = e[m]
    BY <1>3, <2>1
  <2>6. \A i \in 0 .. M :
          e[m + 1][i] = p[i] * c2 + (IF i = 0 THEN 0 ELSE p[i - 1] * c1)
    BY <2>3, <2>4, <2>5 DEF WithFactor
  <2>7. ASSUME NEW i \in 0 .. M, i > m + 1
        PROVE  e[m + 1][i] = 0
    <3>1. i > m /\ i - 1 \in 0 .. M /\ i - 1 > m /\ i # 0
      BY <1>1, <2>7
    <3>2. p[i] = 0 /\ p[i - 1] = 0
      BY <2>2, <2>5, <3>1
    <3>3. e[m + 1][i] = 0 * c2 + 0 * c1
      BY <2>6, <3>1, <3>2
    <3>4. 0 * c2 + 0 * c1 = 0
      BY <2>3
    <3> QED
      BY <3>3, <3>4
  <2>8. e[m + 1][m + 1] = IF Agree(m + 1) THEN 1 ELSE 0
    <3>1. (m + 1) - 1 = m /\ m + 1 # 0 /\ m + 1 > m
      OBVIOUS
    <3>2. p[m + 1] = 0
      BY <2>1, <2>2, <2>5, <3>1
    <3>3. PICK d \in Int : d = p[m] /\ d = IF Agree(m) THEN 1 ELSE 0
      BY <2>1, <2>2, <2>5
    <3>4. e[m + 1][m + 1] = 0 * c2 + d * c1
      <4>1. e[m + 1][m + 1] = p[m + 1] * c2 + p[(m + 1) - 1] * c1
        BY <2>1, <2>6, <3>1
      <4> QED
        BY <3>1, <3>2, <3>3, <4>1
    <3>5. Agree(m + 1) <=> Agree(m) /\ BitOf(j, m) = BitOf(index, m)
      <4>1. 0 .. (m + 1) - 1 = (0 .. m - 1) \union {m}
        OBVIOUS
      <4> QED
        BY <4>1
    <3> HIDE DEF Agree
    <3>6. d * c1 = IF Agree(m + 1) THEN 1 ELSE 0
      <4>1. CASE BitOf(j, m) = BitOf(index, m)
        BY <2>3, <3>3, <3>5, <4>1
      <4>2. CASE BitOf(j, m) # BitOf(index, m)
        BY <2>3, <3>3, <3>5, <4>2
      <4> QED
        BY <4>1, <4>2
    <3>7. 0 * c2 + d * c1 = d * c1
      BY <2>3
    <3> QED
      BY <3>4, <3>6, <3>7
  <2>9. SumFunction(TermsAt(e[m + 1], x)) = q[m + 1]
    <3>1. M > m /\ M \in 0 .. M
      BY <1>1
    <3>2. p[M] = 0
      BY <2>2, <2>5, <3>1
    <3>3. SumFunction(TermsAt(WithFactor(c, p), x)) = SumFunction(TermsAt(p, x)) * (c1 * x + c2)
      <4>1. c[1] \in Int /\ c[2] \in Int
        BY <2>3
      <4>2. SumFunction(TermsAt(WithFactor(c, p), x))
              = SumFunction(TermsAt(p, x)) * (c[1] * x + c[2])
        BY <3>2, <4>1, FactorAdded
      <4> QED
        BY <2>3, <4>2
    <3> QED
      BY <1>4, <2>1, <2>2, <2>3, <2>4, <2>5, <3>3
  <2> QED
    BY <2>7, <2>8, <2>9
<1> HIDE DEF S
<1>7. M \in S
  BY <1>1, <1>5, <1>6, NatInduct
<1>8. /\ e[M][M] = IF Agree(M) THEN 1 ELSE 0
      /\ SumFunction(TermsAt(e[M], x)) = q[M]
  BY <1>1, <1>7 DEF S
<1>9. Agree(M) <=> j = index
  <2>1. Agree(M) => \A k \in Bit : BitOf(j, k) = BitOf(index, k)
    BY DEF Bit
  <2> QED
    BY <2>1, BitsDetermine
<1>10. e[M] \in [0 .. M -> Int]
  BY <1>1, <1>3
<1> QED
  BY <1>3, <1>4, <1>8, <1>9, <1>10 DEF f
-----------------------------------------------------------------------------
(***************************************************************************)
(* What the prover responds to: every generator but the one of the         *)
(* service, each once and with its scalar.                                 *)
(***************************************************************************)
LEMMA JoinAt ==
  ASSUME NEW S, NEW s \in Seq(S), NEW t \in Seq(S)
  PROVE  /\ Join(s, t) \in Seq(S) /\ Len(Join(s, t)) = Len(s) + Len(t)
         /\ \A i \in 1 .. Len(s) + Len(t) :
              Join(s, t)[i] = IF i <= Len(s) THEN s[i] ELSE t[i - Len(s)]
  BY ConcatProperties DEF Join

\* A sequence of which one is taken out, between two more.
Around(first, s, l, last) == <<first>> \o RemoveAt(s, l) \o <<last>>

\* What is in each place of it.
Surrounded(q, S, n, first, s, l, last) ==
  /\ q \in Seq(S) /\ Len(q) = n + 1
  /\ \A p \in 1 .. n + 1 : q[p] = IF p = 1 THEN first
                                  ELSE IF p = n + 1 THEN last
                                  ELSE IF p <= l THEN s[p - 1] ELSE s[p]

LEMMA AroundAt ==
  ASSUME NEW S, NEW n \in Nat, NEW s \in Seq(S), Len(s) = n, NEW l \in 1 .. n,
         NEW first \in S, NEW last \in S
  PROVE  Surrounded(Around(first, s, l, last), S, n, first, s, l, last)
<1> DEFINE left == SubSeq(s, 1, l - 1)
           right == SubSeq(s, l + 1, n)
           rest == Join(left, right)
           head == Join(<<first>>, rest)
<1>1. \A i \in 1 .. n : s[i] \in S
  BY LenProperties
<1>2. left \in Seq(S) /\ Len(left) = l - 1 /\ \A i \in 1 .. l - 1 : left[i] = s[i]
  <2>1. 1 \in Int /\ l - 1 \in Int /\ (l - 1) - 1 + 1 = l - 1 /\ (1 <= l - 1 \/ l - 1 = 0)
    OBVIOUS
  <2>2. \A i \in 1 .. l - 1 : s[i] \in S /\ 1 + i - 1 = i
    BY <1>1
  <2>3. /\ left \in Seq(S) /\ Len(left) = (IF 1 <= l - 1 THEN (l - 1) - 1 + 1 ELSE 0)
        /\ \A i \in 1 .. (l - 1) - 1 + 1 : left[i] = s[1 + i - 1]
    BY <2>1, <2>2, SubSeqProperties
  <2> HIDE DEF left
  <2> QED
    BY <2>1, <2>2, <2>3
<1>3. right \in Seq(S) /\ Len(right) = n - l /\ \A i \in 1 .. n - l : right[i] = s[l + i]
  <2>1. l + 1 \in Int /\ n \in Int /\ n - (l + 1) + 1 = n - l /\ (l + 1 <= n \/ n - l = 0)
    OBVIOUS
  <2>2. /\ \A i \in l + 1 .. n : s[i] \in S
        /\ \A i \in 1 .. n - l : (l + 1) + i - 1 = l + i
    BY <1>1
  <2>3. /\ right \in Seq(S) /\ Len(right) = (IF l + 1 <= n THEN n - (l + 1) + 1 ELSE 0)
        /\ \A i \in 1 .. n - (l + 1) + 1 : right[i] = s[(l + 1) + i - 1]
    BY <2>1, <2>2, SubSeqProperties
  <2> HIDE DEF right
  <2> QED
    BY <2>1, <2>2, <2>3
<1> HIDE DEF left, right
<1>4. /\ rest \in Seq(S) /\ Len(rest) = n - 1
      /\ \A i \in 1 .. n - 1 : rest[i] = IF i < l THEN s[i] ELSE s[i + 1]
  <2>1. /\ rest \in Seq(S) /\ Len(rest) = Len(left) + Len(right)
        /\ \A i \in 1 .. Len(left) + Len(right) :
             rest[i] = IF i <= Len(left) THEN left[i] ELSE right[i - Len(left)]
    BY <1>2, <1>3, JoinAt
  <2>2. (l - 1) + (n - l) = n - 1
    OBVIOUS
  <2>3. \A i \in 1 .. n - 1 : rest[i] = IF i <= l - 1 THEN left[i] ELSE right[i - (l - 1)]
    BY <1>2, <1>3, <2>1, <2>2
  <2> HIDE DEF rest
  <2>4. ASSUME NEW i \in 1 .. n - 1
        PROVE  rest[i] = IF i < l THEN s[i] ELSE s[i + 1]
    <3>1. CASE i < l
      <4>1. i <= l - 1 /\ i \in 1 .. l - 1
        BY <3>1
      <4> QED
        BY <1>2, <2>3, <3>1, <4>1
    <3>2. CASE ~(i < l)
      <4>1. ~(i <= l - 1) /\ i - (l - 1) \in 1 .. n - l /\ l + (i - (l - 1)) = i + 1
        BY <3>2
      <4> QED
        BY <1>3, <2>3, <3>2, <4>1
    <3> QED
      BY <3>1, <3>2
  <2> QED
    BY <1>2, <1>3, <2>1, <2>2, <2>4
<1> HIDE DEF rest
<1>5. /\ <<first>> \in Seq(S) /\ Len(<<first>>) = 1 /\ <<first>>[1] = first
      /\ <<last>> \in Seq(S) /\ Len(<<last>>) = 1 /\ <<last>>[1] = last
  OBVIOUS
<1>6. PICK one \in Seq(S), two \in Seq(S) :
        one = <<first>> /\ two = <<last>> /\ Len(one) = 1 /\ Len(two) = 1
          /\ one[1] = first /\ two[1] = last
  BY <1>5
<1>7. /\ head \in Seq(S) /\ Len(head) = n
      /\ \A i \in 1 .. n : head[i] = IF i = 1 THEN first ELSE rest[i - 1]
  <2>1. /\ Join(one, rest) \in Seq(S) /\ Len(Join(one, rest)) = Len(one) + Len(rest)
        /\ \A i \in 1 .. Len(one) + Len(rest) :
             Join(one, rest)[i] = IF i <= Len(one) THEN one[i] ELSE rest[i - Len(one)]
    BY <1>4, JoinAt
  <2>2. 1 + (n - 1) = n /\ \A i \in 1 .. n : (i <= 1 <=> i = 1)
    OBVIOUS
  <2>3. head = Join(one, rest)
    BY <1>6
  <2> HIDE DEF head
  <2> QED
    BY <1>4, <1>6, <2>1, <2>2, <2>3
<1> HIDE DEF head
<1>8. /\ Join(head, two) \in Seq(S) /\ Len(Join(head, two)) = n + 1
      /\ \A i \in 1 .. n + 1 : Join(head, two)[i] = IF i <= n THEN head[i] ELSE last
  <2>1. /\ Join(head, two) \in Seq(S) /\ Len(Join(head, two)) = Len(head) + Len(two)
        /\ \A i \in 1 .. Len(head) + Len(two) :
             Join(head, two)[i] = IF i <= Len(head) THEN head[i] ELSE two[i - Len(head)]
    BY <1>7, JoinAt
  <2>2. \A i \in 1 .. n + 1 : ~(i <= n) => i - n = 1
    OBVIOUS
  <2> QED
    BY <1>6, <1>7, <2>1, <2>2
<1>9. Around(first, s, l, last) = Join(head, two)
  BY <1>6 DEF Around, RemoveAt, Join, head, rest, left, right
<1>10. ASSUME NEW p \in 1 .. n + 1
       PROVE  Join(head, two)[p] = IF p = 1 THEN first
                                   ELSE IF p = n + 1 THEN last
                                   ELSE IF p <= l THEN s[p - 1] ELSE s[p]
  <2>1. CASE p = n + 1
    BY <1>8, <2>1
  <2>2. CASE p = 1
    <3>1. p <= n /\ p \in 1 .. n
      BY <2>2
    <3> QED
      BY <1>7, <1>8, <2>2, <3>1
  <2>3. CASE p # 1 /\ p # n + 1
    <3>1. p <= n /\ p \in 1 .. n /\ p - 1 \in 1 .. n - 1 /\ (p - 1) + 1 = p /\ (p - 1 < l <=> p <= l)
      BY <2>3
    <3>2. Join(head, two)[p] = rest[p - 1]
      BY <1>7, <1>8, <2>3, <3>1
    <3> QED
      BY <1>4, <2>3, <3>1, <3>2
  <2> QED
    BY <2>1, <2>2, <2>3
<1> QED
  BY <1>8, <1>9, <1>10 DEF Surrounded

\* Which generator is in a place, and which scalar; no generator is in two.
LEMMA ActiveAt ==
  ASSUME NEW n \in Nat, NEW l \in 1 .. n
  PROVE  /\ DOMAIN ActiveGenerators(l, n) = 1 .. n + 1
         /\ \A p \in 1 .. n + 1 :
              ActiveGenerators(l, n)[p] = IF p = 1 THEN g
                                          ELSE IF p = n + 1 THEN h_name
                                          ELSE IF p <= l THEN h(p - 1) ELSE h(p)
<1> DEFINE S == {g, h_name} \union {h(m) : m \in 1 .. n}
           hs == [m \in 1 .. n |-> h(m)]
<1>1. hs \in Seq(S) /\ Len(hs) = n /\ \A m \in 1 .. n : hs[m] = h(m)
  OBVIOUS
<1>2. g \in S /\ h_name \in S
  OBVIOUS
<1>3. ActiveGenerators(l, n) = Around(g, hs, l, h_name)
  BY DEF ActiveGenerators, Around
<1> HIDE DEF hs, S
<1>4. /\ Around(g, hs, l, h_name) \in Seq(S) /\ Len(Around(g, hs, l, h_name)) = n + 1
      /\ \A p \in 1 .. n + 1 :
           Around(g, hs, l, h_name)[p] = IF p = 1 THEN g
                                         ELSE IF p = n + 1 THEN h_name
                                         ELSE IF p <= l THEN hs[p - 1] ELSE hs[p]
  <2>1. PICK first \in S, last \in S : first = g /\ last = h_name
    BY <1>2
  <2>2. Surrounded(Around(first, hs, l, last), S, n, first, hs, l, last)
    BY <1>1, AroundAt
  <2> QED
    BY <2>1, <2>2 DEF Surrounded
<1>5. \A p \in 1 .. n + 1 : p # 1 /\ p # n + 1 => p - 1 \in 1 .. n /\ p \in 1 .. n
  OBVIOUS
<1>6. DOMAIN ActiveGenerators(l, n) = 1 .. n + 1
  BY <1>3, <1>4, LenProperties
<1> QED
  BY <1>1, <1>3, <1>4, <1>5, <1>6

\* A credential with a scalar for each of n merchants.
HasScalars(m, c, n) ==
  /\ DOMAIN c.merchants = 1 .. n
  /\ Blinding[m] \in Int /\ NameScalar[m] \in Int
  /\ \A i \in 1 .. n : Nullifiers(m, c)[i] \in Int

LEMMA ScalarsAt ==
  ASSUME NEW n \in Nat, NEW l \in 1 .. n, NEW m, NEW c, HasScalars(m, c, n)
  PROVE  /\ WitnessScalars(m, c, l) \in [1 .. n + 1 -> Int]
         /\ Surrounded(WitnessScalars(m, c, l), Int, n, Blinding[m], Nullifiers(m, c), l,
                       NameScalar[m])
<1>1. PICK s : s = Nullifiers(m, c)
  OBVIOUS
<1>2. s \in Seq(Int) /\ Len(s) = n
  <2>1. s = [i \in 1 .. n |-> s[i]]
    BY <1>1 DEF Nullifiers, HasScalars
  <2>2. \A i \in 1 .. n : s[i] \in Int
    BY <1>1 DEF HasScalars
  <2> QED
    BY <2>1, <2>2
<1>3. PICK a \in Int, b \in Int : a = Blinding[m] /\ b = NameScalar[m]
  BY DEF HasScalars
<1>4. WitnessScalars(m, c, l) = Around(a, s, l, b)
  BY <1>1, <1>3 DEF WitnessScalars, Around
<1>5. Surrounded(Around(a, s, l, b), Int, n, a, s, l, b)
  BY <1>2, AroundAt
<1>6. Around(a, s, l, b) \in [1 .. n + 1 -> Int]
  BY <1>5, LenProperties DEF Surrounded
<1> QED
  BY <1>1, <1>3, <1>4, <1>5, <1>6
-----------------------------------------------------------------------------
LEMMA Distinct ==
  /\ g # h_name /\ \A k : g # H(k) /\ h_name # H(k)
  /\ \A i : g # h(i) /\ h_name # h(i) /\ \A k : h(i) # H(k)
  /\ \A i, j : h(i) = h(j) => i = j
  /\ \A i, j : H(i) = H(j) => i = j
  BY DEF g, h_name, h, H

LEMMA ActiveOnce ==
  ASSUME NEW n \in Nat, NEW l \in 1 .. n, NEW p \in 1 .. n + 1, NEW q \in 1 .. n + 1,
         ActiveGenerators(l, n)[p] = ActiveGenerators(l, n)[q]
  PROVE  p = q
<1> DEFINE Place(i) == IF i = 1 THEN g
                       ELSE IF i = n + 1 THEN h_name
                       ELSE IF i <= l THEN h(i - 1) ELSE h(i)
<1>1. Place(p) = Place(q)
  BY ActiveAt
<1>2. CASE p = 1
  BY <1>1, <1>2, Distinct
<1>3. CASE p = n + 1
  BY <1>1, <1>3, Distinct
<1>4. CASE p # 1 /\ p # n + 1
  <2>1. q # 1 /\ q # n + 1
    BY <1>1, <1>4, Distinct
  <2>2. (IF p <= l THEN p - 1 ELSE p) = (IF q <= l THEN q - 1 ELSE q)
    <3>1. h(IF p <= l THEN p - 1 ELSE p) = h(IF q <= l THEN q - 1 ELSE q)
      BY <1>1, <1>4, <2>1
    <3> QED
      BY <3>1, Distinct
  <2> QED
    BY <2>2
<1> QED
  BY <1>2, <1>3, <1>4

LEMMA MulAt ==
  ASSUME NEW p, NEW s, NEW e \in Generator
  PROVE  Mul(p, s)[e] = IF e = p THEN s ELSE 0
  BY DEF Mul, Identity

\* A multiple of each active generator.
OfActive(l, n, v) ==
  SumOf([i \in DOMAIN ActiveGenerators(l, n) |-> Mul(ActiveGenerators(l, n)[i], v[i])])

\* s is what v holds in the place of e, and zero when e is not active.
AtActive(s, l, n, v, e) ==
  /\ \A p \in 1 .. n + 1 : ActiveGenerators(l, n)[p] = e => s = v[p]
  /\ (\A p \in 1 .. n + 1 : ActiveGenerators(l, n)[p] # e) => s = 0

LEMMA ActiveSum ==
  ASSUME NEW n \in Nat, NEW l \in 1 .. n, NEW v \in [1 .. n + 1 -> Int], NEW e \in Generator
  PROVE  AtActive(OfActive(l, n, v)[e], l, n, v, e)
<1>1. PICK T, active : T = 1 .. n + 1 /\ active = ActiveGenerators(l, n) /\ DOMAIN active = T
  BY ActiveAt
<1>2. IsFiniteSet(T)
  BY <1>1, FS_Interval
<1> DEFINE u == [i \in T |-> IF active[i] = e THEN v[i] ELSE 0]
<1>3. u \in [T -> Int] /\ \A i \in T : u[i] = IF active[i] = e THEN v[i] ELSE 0
  BY <1>1
<1>4. OfActive(l, n, v)[e] = SumFunction(u)
  <2>1. OfActive(l, n, v)[e]
          = SumFunction([i \in DOMAIN active |-> [j \in DOMAIN active |-> Mul(active[j], v[j])][i][e]])
    BY <1>1 DEF OfActive, SumOf
  <2>2. [i \in DOMAIN active |-> [j \in DOMAIN active |-> Mul(active[j], v[j])][i][e]] = u
    BY <1>1, MulAt
  <2> QED
    BY <2>1, <2>2
<1> HIDE DEF u
<1>5. ASSUME NEW p \in 1 .. n + 1, active[p] = e
      PROVE  SumFunction(u) = v[p]
  <2>1. p \in T /\ u[p] = v[p]
    BY <1>1, <1>3, <1>5
  <2>2. ZeroBut(u, T, p)
    BY <1>1, <1>3, <1>5, ActiveOnce DEF ZeroBut
  <2> QED
    BY <1>2, <1>3, <2>1, <2>2, SumSingle
<1>6. ASSUME \A p \in 1 .. n + 1 : active[p] # e
      PROVE  SumFunction(u) = 0
  <2>1. \A i \in T : u[i] = 0
    BY <1>1, <1>3, <1>6
  <2> QED
    BY <1>2, <1>3, <2>1, SumZero
<1> QED
  BY <1>1, <1>4, <1>5, <1>6 DEF AtActive
-----------------------------------------------------------------------------
\* The coefficients of a commitment.
LEMMA CommitmentAt ==
  ASSUME NEW n \in Nat, NEW m, NEW c, DOMAIN c.merchants = 1 .. n
  PROVE  /\ Commitment(m, c)[g] = Blinding[m]
         /\ Commitment(m, c)[h_name] = NameScalar[m]
         /\ \A i : h(i) \in Generator =>
              Commitment(m, c)[h(i)] = IF i \in 1 .. n THEN Nullifiers(m, c)[i] ELSE 0
         /\ \A k \in Bit : Commitment(m, c)[H(k)] = 0
<1>1. g \in Generator /\ h_name \in Generator /\ \A k \in Bit : H(k) \in Generator
  BY DEF Generator
<1>2. /\ g[1] = "g" /\ h_name[1] = "name"
      /\ \A i : h(i)[1] = "h" /\ h(i)[2] = i
      /\ \A k : H(k)[1] = "H"
  BY DEF g, h_name, h, H
<1>3. \A e \in Generator :
        Commitment(m, c)[e] = CASE e = g -> Blinding[m]
                                [] e = h_name -> NameScalar[m]
                                [] e[1] = "h" /\ e[2] \in 1 .. n -> Nullifiers(m, c)[e[2]]
                                [] OTHER -> 0
  BY DEF Commitment
<1>4. Commitment(m, c)[g] = Blinding[m]
  BY <1>1, <1>2, <1>3, Distinct
<1>5. Commitment(m, c)[h_name] = NameScalar[m]
  BY <1>1, <1>2, <1>3, Distinct
<1>6. ASSUME NEW i, h(i) \in Generator
      PROVE  Commitment(m, c)[h(i)] = IF i \in 1 .. n THEN Nullifiers(m, c)[i] ELSE 0
  BY <1>2, <1>3, <1>6, Distinct
<1>7. ASSUME NEW k \in Bit
      PROVE  Commitment(m, c)[H(k)] = 0
  BY <1>1, <1>2, <1>3, <1>7, Distinct
<1> QED
  BY <1>4, <1>5, <1>6, <1>7

\* The prover's own commitment without the nullifier of the service is what the witness
\* says of the active generators, and nothing else.
LEMMA WitnessAt ==
  ASSUME NEW n \in Nat, NEW l \in 1 .. n, NEW c, HasScalars(Me, c, n), NEW e \in Generator
  PROVE  /\ Commitment(Me, c)[e] \in Int
         /\ AtActive(Commitment(Me, c)[e] + Mul(h(l), -Nullifiers(Me, c)[l])[e], l, n,
                     WitnessScalars(Me, c, l), e)
<1> DEFINE Active(p) == ActiveGenerators(l, n)[p]
           W(p) == WitnessScalars(Me, c, l)[p]
           C(f) == Commitment(Me, c)[f]
           Left(f) == Mul(h(l), -Nullifiers(Me, c)[l])[f]
<1>1. \A p \in 1 .. n + 1 :
        Active(p) = IF p = 1 THEN g ELSE IF p = n + 1 THEN h_name
                    ELSE IF p <= l THEN h(p - 1) ELSE h(p)
  BY ActiveAt
<1>2. \A p \in 1 .. n + 1 :
        W(p) = IF p = 1 THEN Blinding[Me] ELSE IF p = n + 1 THEN NameScalar[Me]
               ELSE IF p <= l THEN Nullifiers(Me, c)[p - 1] ELSE Nullifiers(Me, c)[p]
  BY ScalarsAt DEF Surrounded
<1>3. /\ DOMAIN c.merchants = 1 .. n
      /\ Blinding[Me] \in Int /\ NameScalar[Me] \in Int
      /\ \A i \in 1 .. n : Nullifiers(Me, c)[i] \in Int
  BY DEF HasScalars
<1>4. /\ C(g) = Blinding[Me] /\ C(h_name) = NameScalar[Me]
      /\ \A i : h(i) \in Generator => C(h(i)) = IF i \in 1 .. n THEN Nullifiers(Me, c)[i] ELSE 0
      /\ \A k \in Bit : C(H(k)) = 0
  BY <1>3, CommitmentAt
<1>5. Left(e) = IF e = h(l) THEN -Nullifiers(Me, c)[l] ELSE 0
  BY MulAt
<1> HIDE DEF Active, W, C, Left
<1>6. \/ e = g \/ e = h_name
      \/ \E i : e = h(i)
      \/ \E k \in Bit : e = H(k)
  BY DEF Generator
<1>7. \A p, q \in 1 .. n + 1 : Active(p) = Active(q) => p = q
  BY ActiveOnce DEF Active
<1>8. 1 \in 1 .. n + 1 /\ n + 1 \in 1 .. n + 1 /\ n + 1 # 1
  OBVIOUS
<1> SUFFICES /\ C(e) \in Int
             /\ \/ \E p \in 1 .. n + 1 : Active(p) = e /\ C(e) + Left(e) = W(p)
                \/ (\A p \in 1 .. n + 1 : Active(p) # e) /\ C(e) + Left(e) = 0
  BY <1>7 DEF Active, W, C, Left, AtActive
<1>9. CASE e = g
  <2>1. Left(e) = 0 /\ C(e) = Blinding[Me] /\ Active(1) = e /\ W(1) = Blinding[Me]
    BY <1>1, <1>2, <1>4, <1>5, <1>8, <1>9, Distinct
  <2>2. PICK b \in Int : b = Blinding[Me]
    BY <1>3
  <2>3. C(e) + Left(e) = W(1)
    BY <2>1, <2>2
  <2> QED
    BY <1>8, <2>1, <2>2, <2>3
<1>10. CASE e = h_name
  <2>1. Left(e) = 0 /\ C(e) = NameScalar[Me] /\ Active(n + 1) = e /\ W(n + 1) = NameScalar[Me]
    BY <1>1, <1>2, <1>4, <1>5, <1>8, <1>10, Distinct
  <2>2. PICK b \in Int : b = NameScalar[Me]
    BY <1>3
  <2>3. C(e) + Left(e) = W(n + 1)
    BY <2>1, <2>2
  <2> QED
    BY <1>8, <2>1, <2>2, <2>3
<1>11. CASE \E k \in Bit : e = H(k)
  <2>1. PICK k \in Bit : e = H(k)
    BY <1>11
  <2>2. Left(e) = 0 /\ C(e) = 0 /\ \A p \in 1 .. n + 1 : Active(p) # e
    BY <1>1, <1>4, <1>5, <2>1, Distinct
  <2> QED
    BY <2>2
<1>12. CASE \E i : e = h(i)
  <2>1. PICK i : e = h(i)
    BY <1>12
  <2>2. C(e) = IF i \in 1 .. n THEN Nullifiers(Me, c)[i] ELSE 0
    BY <1>4, <2>1
  <2>3. CASE i \notin 1 .. n
    <3>1. i # l
      BY <2>3
    <3>2. Left(e) = 0 /\ C(e) = 0
      BY <1>5, <2>1, <2>2, <2>3, <3>1, Distinct
    <3>3. \A p \in 1 .. n + 1 : Active(p) # e
      <4> SUFFICES ASSUME NEW p \in 1 .. n + 1 PROVE Active(p) # e
        OBVIOUS
      <4>1. p # 1 /\ p # n + 1 => p \in 1 .. n /\ (p <= l => p - 1 \in 1 .. n)
        OBVIOUS
      <4> QED
        BY <1>1, <2>1, <2>3, <4>1, Distinct
    <3> QED
      BY <3>2, <3>3
  <2>4. CASE i \in 1 .. n /\ i = l
    <3>1. PICK s \in Int : s = Nullifiers(Me, c)[l]
      BY <1>3
    <3>2. Left(e) = -s /\ C(e) = s
      BY <1>5, <2>1, <2>2, <2>4, <3>1
    <3>3. \A p \in 1 .. n + 1 : Active(p) # e
      <4> SUFFICES ASSUME NEW p \in 1 .. n + 1 PROVE Active(p) # e
        OBVIOUS
      <4>1. (p <= l => p - 1 # l) /\ (~(p <= l) => p # l)
        OBVIOUS
      <4> QED
        BY <1>1, <2>1, <2>4, <4>1, Distinct
    <3> QED
      BY <3>2, <3>3
  <2>5. CASE i \in 1 .. n /\ i # l
    <3>1. PICK s \in Int : s = Nullifiers(Me, c)[i]
      BY <1>3, <2>5
    <3>2. Left(e) = 0 /\ C(e) = s
      BY <1>5, <2>1, <2>2, <2>5, <3>1, Distinct
    <3>3. PICK p \in 1 .. n + 1 : p = IF i < l THEN i + 1 ELSE i
      BY <2>5
    <3>4. /\ p # 1 /\ p # n + 1
          /\ p <= l => p - 1 = i
          /\ ~(p <= l) => p = i
      BY <2>5, <3>3
    <3>5. Active(p) = e /\ W(p) = s
      BY <1>1, <1>2, <2>1, <3>1, <3>4
    <3>6. C(e) + Left(e) = W(p)
      BY <3>2, <3>5
    <3> QED
      BY <3>2, <3>5, <3>6
  <2> QED
    BY <2>3, <2>4, <2>5
<1> QED
  BY <1>6, <1>9, <1>10, <1>11, <1>12
-----------------------------------------------------------------------------
(***************************************************************************)
(* Checks 1 and 2, and the nullifier: what the prover answers always fits. *)
(***************************************************************************)
LEMMA BitCommitmentAt ==
  ASSUME NEW r, NEW v
  PROVE  /\ BitCommitment(r, v)[g] = r
         /\ \A k \in Bit : BitCommitment(r, v)[H(k)] = v[k]
         /\ \A e \in Generator : e # g /\ (\A k \in Bit : e # H(k)) => BitCommitment(r, v)[e] = 0
<1>1. g \in Generator /\ \A k \in Bit : H(k) \in Generator
  BY DEF Generator
<1>2. /\ g[1] = "g" /\ h_name[1] = "name"
      /\ \A i : h(i)[1] = "h"
      /\ \A k : H(k)[1] = "H" /\ H(k)[2] = k
  BY DEF g, h_name, h, H
<1>3. \A e \in Generator :
        BitCommitment(r, v)[e] = CASE e = g -> r [] e[1] = "H" -> v[e[2]] [] OTHER -> 0
  BY DEF BitCommitment
<1>4. BitCommitment(r, v)[g] = r
  BY <1>1, <1>2, <1>3
<1>5. ASSUME NEW k \in Bit
      PROVE  BitCommitment(r, v)[H(k)] = v[k]
  BY <1>1, <1>2, <1>3, Distinct
<1>6. ASSUME NEW e \in Generator, e # g, \A k \in Bit : e # H(k)
      PROVE  BitCommitment(r, v)[e] = 0
  <2>1. e = h_name \/ \E i : e = h(i)
    BY <1>6 DEF Generator
  <2>2. e[1] # "H"
    BY <1>2, <2>1
  <2> QED
    BY <1>3, <1>6, <2>2
<1> QED
  BY <1>4, <1>5, <1>6

\* An opening of a commitment to bits, by its coefficients.
LEMMA OpensWhere ==
  ASSUME NEW z \in Int, NEW q, q = [e \in Generator |-> q[e]], q[g] = z,
         \A k \in Bit : q[H(k)] = 0,
         \A e \in Generator : e # g /\ (\A k \in Bit : e # H(k)) => q[e] = 0
  PROVE  Mul(g, z) = q
<1>1. ASSUME NEW e \in Generator
      PROVE  Mul(g, z)[e] = q[e]
  <2>1. Mul(g, z)[e] = IF e = g THEN z ELSE 0
    BY MulAt
  <2>2. CASE e = g
    BY <2>1, <2>2
  <2>3. CASE \E k \in Bit : e = H(k)
    BY <2>1, <2>3, Distinct
  <2>4. CASE e # g /\ \A k \in Bit : e # H(k)
    BY <2>1, <2>4
  <2> QED
    BY <2>2, <2>3, <2>4
<1>2. Mul(g, z) = [e \in Generator |-> Mul(g, z)[e]]
  BY DEF Mul, Identity
<1> QED
  BY <1>1, <1>2

\* The prover's commitments to the bits of its index, and the bits.
BitsOf(index) == [k \in Bit |-> BitOf(index, k)]
Committed(first, a, bits, r_a, r_b, r_c, r_d) ==
  /\ first.a = BitCommitment(r_a, a) /\ first.b = BitCommitment(r_b, bits)
  /\ first.c = BitCommitment(r_c, [k \in Bit |-> a[k] * (1 - 2 * bits[k])])
  /\ first.d = BitCommitment(r_d, [k \in Bit |-> -a[k] * a[k]])

\* Check 1 and check 2 hold of the prover's answers.
LEMMA BitsAnswered ==
  ASSUME NEW index \in Nat, NEW a \in [Bit -> Int], NEW x \in Int,
         NEW r_a \in Int, NEW r_b \in Int, NEW r_c \in Int, NEW r_d \in Int,
         NEW bits, bits = BitsOf(index),
         NEW first, Committed(first, a, bits, r_a, r_b, r_c, r_d),
         NEW r, r.f = ResponseFor(index, a, x), r.z_a = r_a + r_b * x, r.z_c = r_c * x + r_d
  PROVE  BitsHold(first, r, x)
<1> DEFINE u == [k \in Bit |-> a[k] * (1 - 2 * bits[k])]
           v == [k \in Bit |-> -a[k] * a[k]]
           s == [k \in Bit |-> -r.f[k]]
           t == [k \in Bit |-> -r.f[k] * (x - r.f[k])]
           A == BitCommitment(r_a, a)
           B == BitCommitment(r_b, bits)
           C == BitCommitment(r_c, u)
           D == BitCommitment(r_d, v)
           S == BitCommitment(0, s)
           T == BitCommitment(0, t)
           left == Plus(Plus(A, Scale(B, x)), S)
           right == Plus(Plus(Scale(C, x), D), T)
<1>1. \A k \in Bit : BitOf(index, k) \in {0, 1}
  BY BitIsBit DEF Bit
<1>2. g \in Generator /\ \A k \in Bit : H(k) \in Generator
  BY DEF Generator
<1>3. /\ left = [e \in Generator |-> left[e]] /\ right = [e \in Generator |-> right[e]]
      /\ \A e \in Generator : left[e] = (A[e] + B[e] * x) + S[e]
      /\ \A e \in Generator : right[e] = (C[e] * x + D[e]) + T[e]
  BY DEF Plus, Scale
<1>4. /\ A[g] = r_a /\ B[g] = r_b /\ C[g] = r_c /\ D[g] = r_d /\ S[g] = 0 /\ T[g] = 0
  BY BitCommitmentAt
<1>5. \A k \in Bit : /\ A[H(k)] = a[k] /\ B[H(k)] = bits[k] /\ C[H(k)] = u[k]
                     /\ D[H(k)] = v[k] /\ S[H(k)] = s[k] /\ T[H(k)] = t[k]
  BY BitCommitmentAt
<1>6. \A e \in Generator : e # g /\ (\A k \in Bit : e # H(k)) =>
        A[e] = 0 /\ B[e] = 0 /\ C[e] = 0 /\ D[e] = 0 /\ S[e] = 0 /\ T[e] = 0
  BY BitCommitmentAt
<1> HIDE DEF A, B, C, D, S, T, left, right
<1>7. left[g] = r.z_a /\ right[g] = r.z_c /\ r.z_a \in Int /\ r.z_c \in Int
  <2>1. left[g] = (r_a + r_b * x) + 0 /\ right[g] = (r_c * x + r_d) + 0
    BY <1>2, <1>3, <1>4
  <2> QED
    BY <2>1
<1>8. ASSUME NEW k \in Bit
      PROVE  left[H(k)] = 0 /\ right[H(k)] = 0
  <2>1. PICK b \in {0, 1}, y \in Int : b = bits[k] /\ b = BitOf(index, k) /\ y = a[k]
    BY <1>1 DEF BitsOf
  <2>2. PICK f \in Int : f = b * x + y /\ f = r.f[k]
    <3>1. r.f[k] = BitOf(index, k) * x + a[k]
      BY DEF ResponseFor
    <3>2. b * x + y \in Int
      OBVIOUS
    <3> QED
      BY <2>1, <3>1, <3>2
  <2>3. u[k] = y * (1 - 2 * b) /\ v[k] = -y * y /\ s[k] = -f /\ t[k] = -f * (x - f)
    BY <2>1, <2>2
  <2>4. left[H(k)] = (y + b * x) + (-f)
    <3>1. left[H(k)] = (A[H(k)] + B[H(k)] * x) + S[H(k)]
      BY <1>2, <1>3
    <3>2. A[H(k)] = y /\ B[H(k)] = b /\ S[H(k)] = -f
      BY <1>5, <2>1, <2>3
    <3> QED
      BY <3>1, <3>2
  <2>5. right[H(k)] = ((y * (1 - 2 * b)) * x + (-y * y)) + (-f * (x - f))
    BY <1>2, <1>3, <1>5, <2>3
  <2>6. (y + b * x) + (-f) = 0
    BY <2>2
  <2>7. ((y * (1 - 2 * b)) * x + (-y * y)) + (-f * (x - f)) = 0
    <3>1. CASE b = 0
      <4>1. f = y /\ y * (1 - 2 * b) = y
        BY <2>2, <3>1
      <4>2. (y * x + (-y * y)) + (-y * (x - y)) = 0
        OBVIOUS
      <4> QED
        BY <4>1, <4>2
    <3>2. CASE b = 1
      <4>1. f = x + y /\ y * (1 - 2 * b) = -y
        BY <2>2, <3>2
      <4>2. ((-y) * x + (-y * y)) + (-(x + y) * (x - (x + y))) = 0
        <5>1. x - (x + y) = -y
          OBVIOUS
        <5>2. ((-y) * x + (-y * y)) + (-(x + y) * (-y)) = 0
          OBVIOUS
        <5> QED
          BY <5>1, <5>2
      <4> QED
        BY <4>1, <4>2
    <3> QED
      BY <3>1, <3>2
  <2> QED
    BY <2>4, <2>5, <2>6, <2>7
<1>9. ASSUME NEW e \in Generator, e # g, \A k \in Bit : e # H(k)
      PROVE  left[e] = 0 /\ right[e] = 0
  <2>1. left[e] = (0 + 0 * x) + 0 /\ right[e] = (0 * x + 0) + 0
    BY <1>3, <1>6, <1>9
  <2>2. (0 + 0 * x) + 0 = 0 /\ (0 * x + 0) + 0 = 0
    OBVIOUS
  <2> QED
    BY <2>1, <2>2
<1>10. Mul(g, r.z_a) = left
  <2>1. PICK z, q : z \in Int /\ z = r.z_a /\ q = left
    BY <1>7
  <2>2. q = [e \in Generator |-> q[e]] /\ q[g] = z
    BY <1>3, <1>7, <2>1
  <2>3. \A k \in Bit : q[H(k)] = 0
    BY <1>8, <2>1
  <2>4. \A e \in Generator : e # g /\ (\A k \in Bit : e # H(k)) => q[e] = 0
    BY <1>9, <2>1
  <2>5. Mul(g, z) = q
    BY <2>1, <2>2, <2>3, <2>4, OpensWhere
  <2> QED
    BY <2>1, <2>5
<1>11. Mul(g, r.z_c) = right
  <2>1. PICK z, q : z \in Int /\ z = r.z_c /\ q = right
    BY <1>7
  <2>2. q = [e \in Generator |-> q[e]] /\ q[g] = z
    BY <1>3, <1>7, <2>1
  <2>3. \A k \in Bit : q[H(k)] = 0
    BY <1>8, <2>1
  <2>4. \A e \in Generator : e # g /\ (\A k \in Bit : e # H(k)) => q[e] = 0
    BY <1>9, <2>1
  <2>5. Mul(g, z) = q
    BY <2>1, <2>2, <2>3, <2>4, OpensWhere
  <2> QED
    BY <2>1, <2>5
<1> QED
  BY <1>10, <1>11 DEF BitsHold, Committed, left, right, A, B, C, D, S, T

\* The proof that nul_l = s_l g holds of the prover's answer.
LEMMA NullifierAnswered ==
  ASSUME NEW s \in Int, NEW t \in Int, NEW r, r.s_l = s, r.schnorr = t + NullifierHash * s
  PROVE  NullifierHolds(r, Mul(g, t), Mul(g, s))
<1> DEFINE q == Plus(Mul(g, t), Scale(Mul(g, s), NullifierHash))
<1>1. PICK n \in Int : n = NullifierHash
  BY ScalarsAssumption
<1>2. q = [e \in Generator |-> q[e]] /\ \A e \in Generator : q[e] = Mul(g, t)[e] + Mul(g, s)[e] * n
  BY <1>1 DEF Plus, Scale
<1>3. \A e \in Generator : /\ Mul(g, t)[e] = IF e = g THEN t ELSE 0
                           /\ Mul(g, s)[e] = IF e = g THEN s ELSE 0
  BY MulAt
<1> HIDE DEF q
<1>4. q[g] = t + s * n
  BY <1>2, <1>3 DEF Generator
<1>5. \A e \in Generator : e # g => q[e] = 0
  <2> SUFFICES ASSUME NEW e \in Generator, e # g PROVE q[e] = 0
    OBVIOUS
  <2>1. q[e] = 0 + 0 * n
    BY <1>2, <1>3
  <2>2. 0 + 0 * n = 0
    OBVIOUS
  <2> QED
    BY <2>1, <2>2
<1>6. r.schnorr = q[g] /\ q[g] \in Int
  <2>1. t + n * s = t + s * n /\ t + s * n \in Int
    OBVIOUS
  <2> QED
    BY <1>1, <1>4, <2>1
<1>7. \A k \in Bit : q[H(k)] = 0
  BY <1>5, Distinct DEF Generator
<1>8. Mul(g, r.schnorr) = q
  BY <1>2, <1>5, <1>6, <1>7, OpensWhere
<1> QED
  BY <1>1, <1>8 DEF NullifierHolds, q
-----------------------------------------------------------------------------
(***************************************************************************)
(* Check 3, coefficient by coefficient.                                    *)
(***************************************************************************)
Dot(v, w) == SumFunction([j \in DOMAIN v |-> v[j] * w[j]])
ByPowers(v, x) == SumFunction([k \in Bit |-> v[k] * Power(x, k)])
Column(v, poly) == [k \in Bit |-> SumFunction([j \in DOMAIN v |-> v[j] * poly[j][k]])]

LEMMA ByPowersAdd ==
  ASSUME NEW v \in [Bit -> Int], NEW w \in [Bit -> Int], NEW x \in Int
  PROVE  /\ ByPowers(v, x) \in Int /\ ByPowers(w, x) \in Int
         /\ ByPowers(TermsAdded(v, w), x) = ByPowers(v, x) + ByPowers(w, x)
<1>0. PICK u : u = TermsAdded(v, w) /\ u = [k \in Bit |-> v[k] + w[k]]
  <2>1. DOMAIN v = Bit
    OBVIOUS
  <2> QED
    BY <2>1 DEF TermsAdded
<1>1. PICK T : T = Bit /\ IsFiniteSet(T)
  BY MAssumption, FS_Interval DEF Bit
<1> DEFINE Weighted(f) == [k \in T |-> f[k] * Power(x, k)]
<1>2. \A k \in T : k \in Nat /\ Power(x, k) \in Int
  BY <1>1, PowerSteps DEF Bit
<1>3. PICK p \in [T -> Int], q \in [T -> Int] : p = Weighted(v) /\ q = Weighted(w)
  <2>1. \A k \in T : v[k] * Power(x, k) \in Int /\ w[k] * Power(x, k) \in Int
    BY <1>1, <1>2
  <2>2. Weighted(v) \in [T -> Int] /\ Weighted(w) \in [T -> Int]
    BY <2>1
  <2> QED
    BY <2>2
<1>4. Weighted(u) = TermsAdded(p, q)
  <2>1. \A k \in T : u[k] * Power(x, k) = p[k] + q[k]
    <3> SUFFICES ASSUME NEW k \in T PROVE u[k] * Power(x, k) = p[k] + q[k]
      OBVIOUS
    <3>1. PICK a, b, r : /\ a \in Int /\ b \in Int /\ r \in Int
                         /\ a = v[k] /\ b = w[k] /\ r = Power(x, k)
      BY <1>1, <1>2
    <3>2. u[k] = a + b /\ p[k] = a * r /\ q[k] = b * r
      BY <1>0, <1>1, <1>3, <3>1
    <3>3. (a + b) * r = a * r + b * r
      BY <3>1
    <3> QED
      BY <3>1, <3>2, <3>3
  <2> QED
    BY <1>3, <2>1 DEF TermsAdded
<1>5. SumFunction(TermsAdded(p, q)) = SumFunction(p) + SumFunction(q)
  BY <1>1, SumAdd
<1>6. SumFunction(p) \in Int /\ SumFunction(q) \in Int
  BY <1>1, SumInt
<1>7. /\ ByPowers(u, x) = SumFunction(Weighted(u))
      /\ ByPowers(v, x) = SumFunction(p) /\ ByPowers(w, x) = SumFunction(q)
  BY <1>1, <1>3 DEF ByPowers
<1> QED
  BY <1>0, <1>4, <1>5, <1>6, <1>7

\* The polynomials of a prover whose index is idx - 1, with their values at x.
Polynomials(poly, pi, n, idx, x) ==
  \A j \in 1 .. n : /\ SumFunction(TermsAt(poly[j], x)) = pi[j]
                    /\ poly[j][M] = IF j = idx THEN 1 ELSE 0

\* Multiples of polynomials, coefficient by coefficient: without the one whose power
\* of x has no place among them.
ColumnsSum(v, poly, pi, idx, x) ==
  /\ Column(v, poly) \in [Bit -> Int] /\ Dot(v, pi) \in Int
  /\ ByPowers(Column(v, poly), x) = Dot(v, pi) - v[idx] * Power(x, M)

LEMMA CoefficientSums ==
  ASSUME NEW n \in Nat, NEW idx \in 1 .. n, NEW v \in [1 .. n -> Int],
         NEW poly \in [1 .. n -> [0 .. M -> Int]], NEW pi \in [1 .. n -> Int], NEW x \in Int,
         Polynomials(poly, pi, n, idx, x)
  PROVE  ColumnsSum(v, poly, pi, idx, x)
<1>0. \A j \in 1 .. n : /\ SumFunction(TermsAt(poly[j], x)) = pi[j]
                        /\ poly[j][M] = IF j = idx THEN 1 ELSE 0
  BY DEF Polynomials
<1>1. PICK T : T = 1 .. n /\ IsFiniteSet(T)
  BY FS_Interval
<1>2. PICK U : U = Bit /\ IsFiniteSet(U) /\ M \in Nat
  BY MAssumption, FS_Interval DEF Bit
<1>3. \A k \in 0 .. M : Power(x, k) \in Int
  <2>1. \A k \in 0 .. M : k \in Nat
    BY <1>2
  <2> QED
    BY <2>1, PowerSteps
<1>4. \A k \in U : k \in 0 .. M /\ Power(x, k) \in Int
  BY <1>2, <1>3 DEF Bit
<1>5. PICK top \in Int : top = Power(x, M)
  BY <1>2, <1>3
<1> DEFINE grid == [j \in T |-> [k \in U |-> (v[j] * poly[j][k]) * Power(x, k)]]
           full == [j \in T |-> v[j] * pi[j]]
           rest == [j \in T |-> IF j = idx THEN v[j] * top ELSE 0]
           row == [j \in T |-> SumFunction(grid[j])]
           column(k) == [j \in T |-> v[j] * poly[j][k]]
<1>6. /\ full \in [T -> Int] /\ rest \in [T -> Int]
      /\ \A k \in U : column(k) \in [T -> Int]
  <2>1. \A j \in T : v[j] * pi[j] \in Int /\ v[j] * top \in Int
    BY <1>1
  <2>2. \A k \in U : \A j \in T : v[j] * poly[j][k] \in Int
    <3> SUFFICES ASSUME NEW k \in U, NEW j \in T PROVE v[j] * poly[j][k] \in Int
      OBVIOUS
    <3>1. PICK p \in [0 .. M -> Int] : p = poly[j]
      BY <1>1
    <3>2. v[j] \in Int /\ p[k] \in Int
      BY <1>1, <1>4
    <3> QED
      BY <3>1, <3>2
  <2> QED
    BY <2>1, <2>2
<1>7. grid \in [T -> [U -> Int]]
  <2> SUFFICES ASSUME NEW j \in T, NEW k \in U
               PROVE  (v[j] * poly[j][k]) * Power(x, k) \in Int
    OBVIOUS
  <2>1. v[j] \in Int /\ poly[j][k] \in Int /\ Power(x, k) \in Int
    BY <1>1, <1>4
  <2> QED
    BY <2>1
<1>8. ASSUME NEW j \in T
      PROVE  row[j] \in Int /\ row[j] + rest[j] = full[j]
  <2> DEFINE low == [k \in 0 .. M - 1 |-> poly[j][k] * Power(x, k)]
  <2>1. PICK p \in [0 .. M -> Int] : p = poly[j]
    BY <1>1
  <2>2. PICK a \in Int, b \in Int, d \in Int :
          a = v[j] /\ b = pi[j] /\ d = p[M] /\ d = IF j = idx THEN 1 ELSE 0
    <3>1. v[j] \in Int /\ pi[j] \in Int /\ M \in 0 .. M
      BY <1>1, <1>2
    <3>2. p[M] \in Int /\ p[M] = IF j = idx THEN 1 ELSE 0
      BY <1>0, <1>1, <2>1, <3>1
    <3> QED
      BY <3>1, <3>2
  <2>3. PICK terms : /\ terms \in [0 .. M -> Int] /\ terms = TermsAt(p, x)
                     /\ \A k \in 0 .. M : terms[k] = p[k] * Power(x, k)
    <3>1. \A k \in 0 .. M : p[k] * Power(x, k) \in Int
      <4> SUFFICES ASSUME NEW k \in 0 .. M PROVE p[k] * Power(x, k) \in Int
        OBVIOUS
      <4>1. p[k] \in Int /\ Power(x, k) \in Int
        BY <1>3
      <4> QED
        BY <4>1
    <3>2. TermsAt(p, x) \in [0 .. M -> Int]
      BY <3>1 DEF TermsAt
    <3>3. \A k \in 0 .. M : TermsAt(p, x)[k] = p[k] * Power(x, k)
      BY DEF TermsAt
    <3> QED
      BY <3>2, <3>3
  <2>4. low \in [0 .. M - 1 -> Int] /\ \A k \in 0 .. M - 1 : low[k] = terms[k]
    <3>1. \A k \in 0 .. M - 1 : k \in 0 .. M
      BY <1>2
    <3> QED
      BY <2>1, <2>3, <3>1
  <2>5. PICK w : w = low
    OBVIOUS
  <2> HIDE DEF low
  <2>6. SumFunction(terms) = SumFunction(w) + terms[M]
    BY <1>2, <2>3, <2>4, <2>5, SumLast
  <2>7. terms[M] = d * top /\ SumFunction(terms) = b
    <3>1. M \in 0 .. M
      BY <1>2
    <3>2. terms[M] = d * top
      BY <1>5, <2>2, <2>3, <3>1
    <3>3. SumFunction(terms) = b
      BY <1>0, <1>1, <2>1, <2>2, <2>3
    <3> QED
      BY <3>2, <3>3
  <2>8. w \in [U -> Int]
    BY <1>2, <2>4, <2>5 DEF Bit
  <2>9. SumFunction(Times(a, w)) = a * SumFunction(w) /\ SumFunction(w) \in Int
    BY <1>2, <2>8, SumScale, SumInt
  <2>10. grid[j] = Times(a, w)
    <3>1. Times(a, w) = [k \in U |-> a * w[k]]
      BY <2>8 DEF Times
    <3>2. \A k \in U : (v[j] * poly[j][k]) * Power(x, k) = a * w[k]
      <4> SUFFICES ASSUME NEW k \in U
                   PROVE  (v[j] * poly[j][k]) * Power(x, k) = a * w[k]
        OBVIOUS
      <4>1. w[k] = p[k] * Power(x, k)
        BY <1>2, <2>1, <2>5 DEF low, Bit
      <4>2. PICK e \in Int, r \in Int : e = p[k] /\ r = Power(x, k)
        BY <1>4
      <4>3. (a * e) * r = a * (e * r)
        OBVIOUS
      <4> QED
        BY <2>1, <2>2, <4>1, <4>2, <4>3
    <3> QED
      BY <3>1, <3>2
  <2>11. PICK s \in Int : s = SumFunction(w) /\ row[j] = a * s /\ b = s + d * top
    BY <2>6, <2>7, <2>9, <2>10
  <2>12. rest[j] = (IF j = idx THEN a * top ELSE 0) /\ full[j] = a * b
    BY <2>2
  <2> HIDE DEF row, rest, full
  <2>13. CASE j = idx
    <3>1. b = s + top
      BY <2>2, <2>11, <2>13
    <3>2. a * s + a * top = a * (s + top)
      OBVIOUS
    <3> QED
      BY <2>11, <2>12, <2>13, <3>1, <3>2
  <2>14. CASE j # idx
    <3>1. b = s
      BY <2>2, <2>11, <2>14
    <3>2. rest[j] = 0 /\ full[j] = a * s /\ row[j] = a * s /\ a * s \in Int
      BY <2>11, <2>12, <2>14, <3>1
    <3> QED
      BY <3>2
  <2> QED
    BY <2>13, <2>14
<1>9. ASSUME NEW k \in U
      PROVE  /\ SumFunction([j \in T |-> grid[j][k]]) = Column(v, poly)[k] * Power(x, k)
             /\ Column(v, poly)[k] \in Int
  <2>1. PICK r \in Int : r = Power(x, k)
    BY <1>4
  <2>2. PICK u \in [T -> Int] : u = column(k)
    BY <1>6
  <2>3. SumFunction(Times(r, u)) = r * SumFunction(u) /\ SumFunction(u) \in Int
    BY <1>1, SumScale, SumInt
  <2>4. [j \in T |-> grid[j][k]] = Times(r, u)
    <3>1. Times(r, u) = [j \in T |-> r * u[j]]
      BY DEF Times
    <3>2. \A j \in T : grid[j][k] = r * u[j]
      <4> SUFFICES ASSUME NEW j \in T PROVE grid[j][k] = r * u[j]
        OBVIOUS
      <4>1. grid[j][k] = u[j] * r /\ u[j] \in Int
        BY <2>1, <2>2
      <4>2. PICK e \in Int : e = u[j]
        BY <4>1
      <4>3. e * r = r * e
        OBVIOUS
      <4> QED
        BY <4>1, <4>2, <4>3
    <3> QED
      BY <3>1, <3>2
  <2>5. Column(v, poly)[k] = SumFunction(u)
    <3>1. DOMAIN v = T
      BY <1>1
    <3> QED
      BY <1>2, <2>2, <3>1 DEF Column
  <2>6. PICK s \in Int : s = SumFunction(u)
    BY <2>3
  <2>7. r * s = s * r
    OBVIOUS
  <2> QED
    BY <2>1, <2>3, <2>4, <2>5, <2>6, <2>7
<1>10. Column(v, poly) \in [Bit -> Int]
  <2>1. Column(v, poly) = [k \in Bit |-> Column(v, poly)[k]]
    BY DEF Column
  <2> QED
    BY <1>2, <1>9, <2>1
<1>11. row \in [T -> Int]
  BY <1>8
<1> HIDE DEF full, rest, column
<1>12. SumFunction(full) = SumFunction(row) + SumFunction(rest)
  <2>1. PICK p, q, f : p = row /\ q = rest /\ f = full
    OBVIOUS
  <2>2. p \in [T -> Int] /\ q \in [T -> Int] /\ f \in [T -> Int]
    BY <1>6, <1>11, <2>1
  <2>3. \A j \in T : p[j] + q[j] = f[j]
    BY <1>8, <2>1
  <2>4. TermsAdded(p, q) = f
    BY <2>2, <2>3 DEF TermsAdded
  <2>5. IsFiniteSet(T) /\ p \in [T -> Int] /\ q \in [T -> Int]
    BY <1>1, <2>2
  <2>6. SumFunction(TermsAdded(p, q)) = SumFunction(p) + SumFunction(q)
    BY <2>5, SumAdd
  <2> QED
    BY <2>1, <2>4, <2>6
<1>13. SumFunction(rest) = v[idx] * top
  <2>1. idx \in T /\ rest[idx] = v[idx] * top /\ \A j \in T \ {idx} : rest[j] = 0
    BY <1>1 DEF rest
  <2>2. PICK w, i : w \in [T -> Int] /\ i \in T /\ w = rest /\ i = idx /\ \A j \in T \ {i} : w[j] = 0
    BY <1>6, <2>1
  <2>3. IsFiniteSet(T) /\ w \in [T -> Int] /\ i \in T /\ ZeroBut(w, T, i)
    BY <1>1, <2>2 DEF ZeroBut
  <2>4. SumFunction(w) = w[i]
    BY <2>3, SumSingle
  <2> QED
    BY <2>1, <2>2, <2>4
<1>14. SumFunction(row) = ByPowers(Column(v, poly), x)
  <2>1. PICK e : e = grid /\ e \in [T -> [U -> Int]]
    BY <1>7
  <2>2. IsFiniteSet(T) /\ IsFiniteSet(U) /\ e \in [T -> [U -> Int]]
    BY <1>1, <1>2, <2>1
  <2>3. SumFunction(RowSums(e)) = SumFunction(ColumnSums(U, e))
    BY <2>2, SumSwap
  <2>4. ColumnSums(U, e) = [k \in Bit |-> Column(v, poly)[k] * Power(x, k)]
    <3>1. DOMAIN e = T
      BY <2>2
    <3>2. ColumnSums(U, e) = [k \in U |-> SumFunction([j \in T |-> e[j][k]])]
      BY <3>1 DEF ColumnSums
    <3>3. \A k \in U : SumFunction([j \in T |-> e[j][k]]) = Column(v, poly)[k] * Power(x, k)
      BY <1>9, <2>1
    <3> QED
      BY <1>2, <3>2, <3>3
  <2>5. row = RowSums(e)
    BY <2>1, <2>2 DEF RowSums
  <2> QED
    BY <2>3, <2>4, <2>5 DEF ByPowers
<1>15. Dot(v, pi) = SumFunction(full)
  <2>1. DOMAIN v = T
    BY <1>1
  <2> QED
    BY <2>1 DEF Dot, full
<1>16. SumFunction(full) \in Int /\ SumFunction(row) \in Int /\ v[idx] * top \in Int
  <2>1. SumFunction(full) \in Int
    BY <1>1, <1>6, SumInt
  <2>2. SumFunction(row) \in Int
    <3>1. PICK p \in [T -> Int] : p = row
      BY <1>11
    <3> QED
      BY <1>1, <3>1, SumInt
  <2> QED
    BY <2>1, <2>2
<1> HIDE DEF row
<1>17. PICK a, b, d : a \in Int /\ b \in Int /\ d \in Int /\ a = SumFunction(full)
                        /\ b = SumFunction(row) /\ d = v[idx] * top /\ a = b + d
  BY <1>12, <1>13, <1>16
<1>18. b = a - d
  BY <1>17
<1> QED
  BY <1>5, <1>10, <1>14, <1>15, <1>17, <1>18 DEF ColumnsSum
-----------------------------------------------------------------------------
\* The answers z, and the coefficients of E_k at one generator.
Answered(z, n, scalars, rho, x) ==
  \A i \in 1 .. n + 1 : z[i] = scalars[i] * Power(x, M) - ByPowers(rho[i], x)
Hidden(e_k, l, n, rho, v, poly, e) ==
  e_k = [k \in Bit |-> OfActive(l, n, [i \in 1 .. n + 1 |-> rho[i][k]])[e] + Column(v, poly)[k]]

HoldsAt(e, v, pi, l, n, z, e_k, x) ==
  Dot(v, pi) = OfActive(l, n, z)[e] + ByPowers(e_k, x)
IsAt(v, idx, s) == v[idx] = s

LEMMA Cancelled ==
  ASSUME NEW a \in Int, NEW b \in Int, NEW d \in Int, NEW y \in Int, NEW top \in Int
  PROVE  d = (b * top - a) + (a + (d - y * top)) <=> (b - y) * top = 0
<1>1. PICK m \in Int, k \in Int : m = b * top /\ k = y * top
  OBVIOUS
<1>2. (b - y) * top = b * top - y * top
  OBVIOUS
<1>3. d = (m - a) + (a + (d - k)) <=> m - k = 0
  OBVIOUS
<1> QED
  BY <1>1, <1>2, <1>3

LEMMA OfZero ==
  ASSUME NEW b \in Int, NEW y \in Int, NEW top \in Int \ {0}
  PROVE  (b - y) * top = 0 <=> y = b
<1>1. PICK m \in Int : m = b - y /\ (m = 0 <=> y = b)
  OBVIOUS
<1>2. m * top = 0 <=> m = 0
  OBVIOUS
<1> QED
  BY <1>1, <1>2

\* Check 3 at one generator: it holds just when the shifted commitment of the index has
\* there what the witness says.
LEMMA IdentityAt ==
  ASSUME NEW n \in Nat, NEW l \in 1 .. n, NEW e \in Generator, NEW size \in Nat,
         NEW idx \in 1 .. size, NEW v \in [1 .. size -> Int],
         NEW poly \in [1 .. size -> [0 .. M -> Int]], NEW pi \in [1 .. size -> Int],
         NEW x \in Int \ {0}, Polynomials(poly, pi, size, idx, x),
         NEW rho \in [1 .. n + 1 -> [Bit -> Int]], NEW scalars \in [1 .. n + 1 -> Int],
         NEW z \in [1 .. n + 1 -> Int], Answered(z, n, scalars, rho, x),
         NEW e_k, Hidden(e_k, l, n, rho, v, poly, e),
         NEW s \in Int, AtActive(s, l, n, scalars, e)
  PROVE  HoldsAt(e, v, pi, l, n, z, e_k, x) <=> IsAt(v, idx, s)
<1>1. PICK top \in Int \ {0} : top = Power(x, M)
  BY MAssumption, PowerNotZero
<1>2. PICK q \in [Bit -> Int], d \in Int, y \in Int :
        q = Column(v, poly) /\ d = Dot(v, pi) /\ y = v[idx] /\ ByPowers(q, x) = d - y * top
  <2>2. /\ Column(v, poly) \in [Bit -> Int] /\ Dot(v, pi) \in Int
        /\ ByPowers(Column(v, poly), x) = Dot(v, pi) - v[idx] * Power(x, M)
    <3>1. PICK y \in Int : y = x
      OBVIOUS
    <3>2. ColumnsSum(v, poly, pi, idx, y)
      BY <3>1, CoefficientSums
    <3> QED
      BY <3>1, <3>2 DEF ColumnsSum
  <2> QED
    BY <1>1, <2>2
<1> DEFINE at(k) == [i \in 1 .. n + 1 |-> rho[i][k]]
<1>3. \A k \in Bit : at(k) \in [1 .. n + 1 -> Int] /\ \A i \in 1 .. n + 1 : at(k)[i] = rho[i][k]
  OBVIOUS
<1>4. e_k = [k \in Bit |-> OfActive(l, n, at(k))[e] + q[k]]
  BY <1>2 DEF Hidden
<1> HIDE DEF at
<1>5. CASE \E p \in 1 .. n + 1 : ActiveGenerators(l, n)[p] = e
  <2>1. PICK p \in 1 .. n + 1 : ActiveGenerators(l, n)[p] = e
    BY <1>5
  <2>2. PICK r \in [Bit -> Int] : r = rho[p]
    OBVIOUS
  <2>3. OfActive(l, n, z)[e] = z[p]
    <3>1. AtActive(OfActive(l, n, z)[e], l, n, z, e)
      BY ActiveSum
    <3> QED
      BY <2>1, <3>1 DEF AtActive
  <2>4. ASSUME NEW k \in Bit
        PROVE  e_k[k] = r[k] + q[k]
    <3>1. PICK u \in [1 .. n + 1 -> Int] : u = at(k) /\ u[p] = r[k]
      BY <1>3, <2>2
    <3>2. AtActive(OfActive(l, n, u)[e], l, n, u, e)
      BY ActiveSum
    <3>3. OfActive(l, n, u)[e] = u[p]
      BY <2>1, <3>2 DEF AtActive
    <3> QED
      BY <1>4, <3>1, <3>3
  <2>5. e_k = TermsAdded(r, q)
    <3>1. e_k = [k \in Bit |-> r[k] + q[k]]
      BY <1>4, <2>4
    <3> QED
      BY <3>1 DEF TermsAdded
  <2>6. ByPowers(r, x) \in Int /\ ByPowers(e_k, x) = ByPowers(r, x) + ByPowers(q, x)
    BY <2>5, ByPowersAdd
  <2>7. PICK a \in Int, b \in Int : a = ByPowers(r, x) /\ b = scalars[p]
    BY <2>6
  <2>8. z[p] = b * top - a
    BY <1>1, <2>2, <2>7 DEF Answered
  <2>9. s = b
    BY <2>1, <2>7 DEF AtActive
  <2>10. ByPowers(e_k, x) = a + (d - y * top)
    BY <1>2, <2>6, <2>7
  <2>11. d = (b * top - a) + (a + (d - y * top)) <=> (b - y) * top = 0
    <3>1. top \in Int
      BY <1>1
    <3> QED
      BY <3>1, Cancelled
  <2>12. (b - y) * top = 0 <=> y = b
    BY <1>1, OfZero
  <2> QED
    BY <1>2, <2>3, <2>8, <2>9, <2>10, <2>11, <2>12 DEF HoldsAt, IsAt
<1>6. CASE \A p \in 1 .. n + 1 : ActiveGenerators(l, n)[p] # e
  <2>1. OfActive(l, n, z)[e] = 0
    <3>1. AtActive(OfActive(l, n, z)[e], l, n, z, e)
      BY ActiveSum
    <3> QED
      BY <1>6, <3>1 DEF AtActive
  <2>2. ASSUME NEW k \in Bit
        PROVE  e_k[k] = q[k]
    <3>1. PICK u \in [1 .. n + 1 -> Int] : u = at(k)
      BY <1>3
    <3>2. AtActive(OfActive(l, n, u)[e], l, n, u, e)
      BY ActiveSum
    <3>3. OfActive(l, n, u)[e] = 0
      BY <1>6, <3>2 DEF AtActive
    <3>4. e_k[k] = OfActive(l, n, u)[e] + q[k]
      BY <1>4, <3>1
    <3>5. PICK b \in Int : b = q[k]
      OBVIOUS
    <3> QED
      BY <3>3, <3>4, <3>5
  <2>3. e_k = q
    BY <1>4, <2>2
  <2>4. s = 0
    BY <1>6 DEF AtActive
  <2>5. d = 0 + (d - y * top) <=> y * top = 0
    OBVIOUS
  <2>6. y * top = 0 <=> y = 0
    OBVIOUS
  <2> QED
    BY <1>2, <2>1, <2>3, <2>4, <2>5, <2>6 DEF HoldsAt, IsAt
<1> QED
  BY <1>5, <1>6
-----------------------------------------------------------------------------
\* A prover that makes a proof: the values that it works with.
Honest(w, c, coins) ==
  /\ coins \in Coins
  /\ c.generators \in Nat /\ DOMAIN c.merchants = 1 .. c.generators
  /\ \A i \in 1 .. c.generators : Nullifiers(Me, c)[i] \in Int
  /\ \A i \in 1 .. c.generators + 1 : coins.rho[i] \in [Bit -> Int]
  /\ w.service \in 1 .. c.generators /\ w.index \in 0 .. SetSize - 1
  /\ DOMAIN w.set = 1 .. SetSize /\ Len(w.set) = SetSize
  /\ \A j \in 1 .. SetSize : w.set[j] \in [Generator -> Int] /\ w.set[j] # None

\* The rows of rho that are used.
Rows(n, coins) == [i \in 1 .. n + 1 |-> coins.rho[i]]

LEMMA ZAnswered ==
  ASSUME NEW w, NEW c, NEW coins, Honest(w, c, coins), NEW x \in Challenge, NEW n,
         n = c.generators
  PROVE  /\ WitnessScalars(Me, c, w.service) \in [1 .. n + 1 -> Int]
         /\ Responses(w, c, coins, x).z \in [1 .. n + 1 -> Int]
         /\ Answered(Responses(w, c, coins, x).z, n, WitnessScalars(Me, c, w.service),
                     Rows(n, coins), x)
<1>1. n \in Nat /\ x \in Int /\ M \in Nat
  BY MAssumption, ChallengeAssumption DEF Honest
<1>2. PICK s : s = WitnessScalars(Me, c, w.service)
  OBVIOUS
<1>3. s \in [1 .. n + 1 -> Int]
  <2>1. PICK l : l \in 1 .. n /\ l = w.service
    BY DEF Honest
  <2>2. HasScalars(Me, c, n)
    BY ScalarsAssumption DEF Honest, HasScalars
  <2> QED
    BY <1>1, <1>2, <2>1, <2>2, ScalarsAt
<1>4. DOMAIN s = 1 .. n + 1 /\ \A i \in 1 .. n + 1 : s[i] \in Int
  BY <1>3
<1>5. Responses(w, c, coins, x).z
        = [i \in 1 .. n + 1 |-> s[i] * Power(x, M) - ByPowers(coins.rho[i], x)]
  BY <1>2, <1>4 DEF Responses, ByPowers
<1>6. \A i \in 1 .. n + 1 : s[i] * Power(x, M) - ByPowers(coins.rho[i], x) \in Int
  <2> SUFFICES ASSUME NEW i \in 1 .. n + 1
               PROVE  s[i] * Power(x, M) - ByPowers(coins.rho[i], x) \in Int
    OBVIOUS
  <2>1. PICK r \in [Bit -> Int] : r = coins.rho[i]
    BY DEF Honest
  <2>2. ByPowers(r, x) \in Int
    BY <1>1, ByPowersAdd
  <2>3. PICK a \in Int, p \in Int : a = s[i] /\ p = Power(x, M)
    BY <1>1, <1>4, PowerSteps
  <2>4. PICK b \in Int : b = ByPowers(r, x)
    BY <2>2
  <2>5. a * p - b \in Int
    OBVIOUS
  <2> QED
    BY <2>1, <2>3, <2>4, <2>5
<1>7. Responses(w, c, coins, x).z \in [1 .. n + 1 -> Int]
  BY <1>5, <1>6
<1>8. \A i \in 1 .. n + 1 : Rows(n, coins)[i] = coins.rho[i]
  BY DEF Rows
<1> QED
  BY <1>2, <1>3, <1>5, <1>7, <1>8 DEF Answered

\* Check 3 holds just when the prover can open the commitment at its index.
LEMMA IdentityOpens ==
  ASSUME NEW w, NEW c, NEW coins, Honest(w, c, coins), NEW x \in Challenge, NEW r,
         r.f = ResponseFor(w.index, coins.a, x),
         NEW z \in [1 .. c.generators + 1 -> Int], r.z = z,
         Answered(z, c.generators, WitnessScalars(Me, c, w.service), Rows(c.generators, coins), x)
  PROVE  IdentityHolds(FirstMessage(w, c, coins), r, x,
                       Shifted(w.set, w.service, Nullifiers(Me, c)[w.service]), w.service,
                       c.generators)
           <=> w.set[w.index + 1] = Commitment(Me, c)
<1>1. PICK n, l, index, size :
        /\ n = c.generators /\ l = w.service /\ index = w.index /\ size = SetSize
        /\ n \in Nat /\ l \in 1 .. n /\ size \in Nat /\ index \in 0 .. size - 1
  BY SetSizeAssumption DEF Honest
<1>2. PICK idx : idx \in 1 .. size /\ idx = index + 1 /\ idx - 1 = index
  BY <1>1
<1>3. x \in Int \ {0} /\ x \in Int
  BY ChallengeAssumption
<1>4. PICK a : a \in [Bit -> Int] /\ a = coins.a
  BY CoinsAssumption DEF Honest
<1>5. PICK s_l : s_l \in Int /\ s_l = Nullifiers(Me, c)[l]
  BY <1>1 DEF Honest
<1>6. \A i \in 1 .. n : Nullifiers(Me, c)[i] \in Int
  BY <1>1 DEF Honest
<1> DEFINE set == w.set
           shifted == Shifted(set, l, s_l)
           active == ActiveGenerators(l, n)
           first == FirstMessage(w, c, coins)
           f == ResponseFor(index, a, x)
           rho == Rows(n, coins)
           scalars == WitnessScalars(Me, c, l)
           pi == [j \in 1 .. size |-> ProductOf(f, x, j - 1)]
           poly == [j \in 1 .. size |-> Polynomial(index, a, j - 1)]
           left == SumOf([j \in DOMAIN shifted |-> Scale(shifted[j], ProductOf(r.f, x, j - 1))])
           masked == SumOf([k \in Bit |-> Scale(first.e_poly[k], Power(x, k))])
           right == Plus(SumOf([i \in DOMAIN active |-> Mul(active[i], r.z[i])]), masked)
           C == Commitment(Me, c)
           Left(e) == Mul(h(l), -s_l)[e]
           v(e) == [j \in 1 .. size |-> shifted[j][e]]
           e_k(e) == [k \in Bit |-> first.e_poly[k][e]]
<1>7. \A j \in 1 .. size : set[j] \in [Generator -> Int] /\ set[j] # None
  BY <1>1 DEF Honest
<1>8. DOMAIN set = 1 .. size
  BY <1>1 DEF Honest
<1>9. \A e \in Generator : Left(e) \in Int
  <2> SUFFICES ASSUME NEW e \in Generator PROVE Left(e) \in Int
    OBVIOUS
  <2>1. Left(e) = IF e = h(l) THEN -s_l ELSE 0
    BY MulAt
  <2> QED
    BY <1>5, <2>1
<1>10. /\ DOMAIN shifted = 1 .. size
       /\ \A j \in 1 .. size : \A e \in Generator :
            shifted[j][e] = set[j][e] + Left(e) /\ shifted[j][e] \in Int
  <2>1. \A j \in 1 .. size : shifted[j] = Plus(set[j], Mul(h(l), -s_l))
    BY <1>7, <1>8 DEF Shifted
  <2>2. \A j \in 1 .. size : \A e \in Generator : shifted[j][e] = set[j][e] + Left(e)
    BY <2>1 DEF Plus
  <2> QED
    BY <1>7, <1>8, <1>9, <2>2 DEF Shifted
<1>11. \A j \in 1 .. size : /\ Polynomial(index, a, j - 1) \in [0 .. M -> Int]
                            /\ ProductOf(f, x, j - 1) \in Int
                            /\ SumFunction(TermsAt(Polynomial(index, a, j - 1), x))
                                 = ProductOf(f, x, j - 1)
                            /\ Polynomial(index, a, j - 1)[M] = IF j = idx THEN 1 ELSE 0
  <2> SUFFICES ASSUME NEW j \in 1 .. size
               PROVE  /\ Polynomial(index, a, j - 1) \in [0 .. M -> Int]
                      /\ ProductOf(f, x, j - 1) \in Int
                      /\ SumFunction(TermsAt(Polynomial(index, a, j - 1), x))
                           = ProductOf(f, x, j - 1)
                      /\ Polynomial(index, a, j - 1)[M] = IF j = idx THEN 1 ELSE 0
    OBVIOUS
  <2>1. PICK i : i \in 0 .. SetSize - 1 /\ i = j - 1 /\ (i = index <=> j = idx) /\ i \in Nat
    BY <1>1, <1>2
  <2>2. index \in 0 .. SetSize - 1 /\ index \in Nat
    BY <1>1
  <2>3. /\ Polynomial(index, a, i) \in [0 .. M -> Int]
        /\ Polynomial(index, a, i)[M] = IF i = index THEN 1 ELSE 0
        /\ SumFunction(TermsAt(Polynomial(index, a, i), x)) = ProductOf(f, x, i)
    BY <1>3, <1>4, <2>1, <2>2, PolynomialValue
  <2>4. f \in [Bit -> Int]
    <3>1. \A k \in Bit : BitOf(index, k) \in {0, 1}
      BY <2>2, BitIsBit DEF Bit
    <3>2. \A k \in Bit : BitOf(index, k) * x + a[k] \in Int
      <4> SUFFICES ASSUME NEW k \in Bit PROVE BitOf(index, k) * x + a[k] \in Int
        OBVIOUS
      <4>1. PICK b \in Int, y \in Int : b = BitOf(index, k) /\ y = a[k]
        BY <1>4, <3>1
      <4>2. PICK t \in Int : t = x
        BY <1>3
      <4>3. b * t + y \in Int
        OBVIOUS
      <4> QED
        BY <4>1, <4>2, <4>3
    <3> QED
      BY <3>2 DEF ResponseFor
  <2>5. ProductOf(f, x, i) \in Int
    <3>1. PICK t, y : t \in [Bit -> Int] /\ t = f /\ y \in Int /\ y = x /\ i \in Nat
      BY <1>3, <2>1, <2>4
    <3>2. PICK e \in [0 .. M -> Int] :
            /\ e[0] = 1
            /\ \A k \in Bit : e[k + 1] = e[k] * FactorAt(t, y, i, k)
            /\ ProductOf(t, y, i) = e[M]
      BY <3>1, ProductSteps
    <3>3. M \in 0 .. M
      BY MAssumption
    <3> QED
      BY <3>1, <3>2, <3>3
  <2> QED
    BY <2>1, <2>3, <2>5
<1> HIDE DEF f
<1>12. /\ poly \in [1 .. size -> [0 .. M -> Int]] /\ pi \in [1 .. size -> Int]
       /\ Polynomials(poly, pi, size, idx, x)
  BY <1>11 DEF Polynomials
<1>13. r.f = f
  BY <1>1, <1>4 DEF f
<1>14. rho \in [1 .. n + 1 -> [Bit -> Int]] /\ scalars \in [1 .. n + 1 -> Int]
  BY <1>1, ZAnswered DEF Rows, Honest
<1>15. z \in [1 .. n + 1 -> Int] /\ Answered(z, n, scalars, rho, x)
  BY <1>1
<1>16. first.e_poly = [k \in Bit |->
          Plus(SumOf([i \in DOMAIN active |-> Mul(active[i], coins.rho[i][k])]),
               SumOf([j \in DOMAIN set |->
                        Scale(shifted[j], [j_1 \in DOMAIN set |-> Polynomial(index, a, j_1 - 1)][j][k])]))]
  BY <1>1, <1>4, <1>5 DEF FirstMessage
<1>17. DOMAIN active = 1 .. n + 1
  BY <1>1, ActiveAt
<1> HIDE DEF first, shifted
<1>18. ASSUME NEW e \in Generator
       PROVE  left[e] = Dot(v(e), pi)
  <2>1. left[e] = SumFunction([j \in DOMAIN shifted |->
                     [j_1 \in DOMAIN shifted |-> Scale(shifted[j_1], ProductOf(r.f, x, j_1 - 1))][j][e]])
    BY DEF SumOf
  <2>2. \A j \in 1 .. size : Scale(shifted[j], ProductOf(r.f, x, j - 1))[e] = v(e)[j] * pi[j]
    BY <1>13 DEF Scale
  <2>3. [j \in DOMAIN shifted |->
           [j_1 \in DOMAIN shifted |-> Scale(shifted[j_1], ProductOf(r.f, x, j_1 - 1))][j][e]]
          = [j \in 1 .. size |-> v(e)[j] * pi[j]]
    BY <1>10, <2>2
  <2> QED
    BY <2>1, <2>3 DEF Dot
<1>19. ASSUME NEW e \in Generator
       PROVE  right[e] = OfActive(l, n, z)[e] + ByPowers(e_k(e), x)
  <2>1. right[e] = OfActive(l, n, z)[e] + masked[e]
    BY DEF Plus, OfActive
  <2>2. masked[e] = SumFunction([k \in Bit |->
                       [i \in Bit |-> Scale(first.e_poly[i], Power(x, i))][k][e]])
    BY DEF SumOf
  <2>3. \A k \in Bit : Scale(first.e_poly[k], Power(x, k))[e] = e_k(e)[k] * Power(x, k)
    BY DEF Scale
  <2>4. [k \in Bit |-> [i \in Bit |-> Scale(first.e_poly[i], Power(x, i))][k][e]]
          = [k \in Bit |-> e_k(e)[k] * Power(x, k)]
    BY <2>3
  <2> QED
    BY <2>1, <2>2, <2>4 DEF ByPowers
<1>20. ASSUME NEW e \in Generator
       PROVE  Hidden(e_k(e), l, n, rho, v(e), poly, e)
  <2> SUFFICES ASSUME NEW k \in Bit
               PROVE  first.e_poly[k][e]
                        = OfActive(l, n, [i \in 1 .. n + 1 |-> rho[i][k]])[e]
                            + Column(v(e), poly)[k]
    BY DEF Hidden
  <2> DEFINE one == SumOf([i \in DOMAIN active |-> Mul(active[i], coins.rho[i][k])])
             two == SumOf([j \in DOMAIN set |->
                        Scale(shifted[j], [i \in DOMAIN set |-> Polynomial(index, a, i - 1)][j][k])])
  <2>1. first.e_poly[k] = Plus(one, two)
    BY <1>16
  <2>2. one = OfActive(l, n, [i \in 1 .. n + 1 |-> rho[i][k]])
    <3>1. \A i \in 1 .. n + 1 : coins.rho[i][k] = [q \in 1 .. n + 1 |-> rho[q][k]][i]
      BY DEF Rows
    <3>2. [i \in DOMAIN active |-> Mul(active[i], coins.rho[i][k])]
            = [i \in DOMAIN active |-> Mul(active[i], [q \in 1 .. n + 1 |-> rho[q][k]][i])]
      BY <1>17, <3>1
    <3> QED
      BY <3>2 DEF OfActive
  <2>3. two[e] = Column(v(e), poly)[k]
    <3>1. two[e] = SumFunction([j \in DOMAIN set |->
                      [j_1 \in DOMAIN set |->
                        Scale(shifted[j_1], [i \in DOMAIN set |-> Polynomial(index, a, i - 1)][j_1][k])][j][e]])
      BY DEF SumOf
    <3>2. \A j \in 1 .. size :
            Scale(shifted[j], [i \in DOMAIN set |-> Polynomial(index, a, i - 1)][j][k])[e]
              = v(e)[j] * poly[j][k]
      BY <1>8 DEF Scale
    <3>3. [j \in DOMAIN set |->
             [j_1 \in DOMAIN set |->
               Scale(shifted[j_1], [i \in DOMAIN set |-> Polynomial(index, a, i - 1)][j_1][k])][j][e]]
            = [j \in 1 .. size |-> v(e)[j] * poly[j][k]]
      BY <1>8, <3>2
    <3>4. Column(v(e), poly)[k] = SumFunction([j \in 1 .. size |-> v(e)[j] * poly[j][k]])
      <4>1. DOMAIN v(e) = 1 .. size
        OBVIOUS
      <4> HIDE DEF v, poly
      <4> QED
        BY <4>1 DEF Column
    <3> QED
      BY <3>1, <3>3, <3>4
  <2> HIDE DEF one, two, v, poly, rho
  <2>4. Plus(one, two)[e] = one[e] + two[e]
    BY DEF Plus
  <2> QED
    BY <2>1, <2>2, <2>3, <2>4
<1> HIDE DEF poly, pi, rho, scalars
<1>21. ASSUME NEW e \in Generator
       PROVE  C[e] \in Int /\ AtActive(C[e] + Left(e), l, n, scalars, e)
  <2>1. HasScalars(Me, c, n)
    BY <1>1, ScalarsAssumption DEF Honest, HasScalars
  <2>2. n \in Nat /\ l \in 1 .. n
    BY <1>1
  <2>3. /\ Commitment(Me, c)[e] \in Int
        /\ AtActive(Commitment(Me, c)[e] + Mul(h(l), -Nullifiers(Me, c)[l])[e], l, n,
                    WitnessScalars(Me, c, l), e)
    BY <2>1, <2>2, WitnessAt
  <2> QED
    BY <1>5, <2>3 DEF scalars
<1>22. ASSUME NEW e \in Generator
       PROVE  left[e] = right[e] <=> set[idx][e] = C[e]
  <2>1. PICK u : u = v(e) /\ u \in [1 .. size -> Int] /\ u[idx] = set[idx][e] + Left(e)
    <3>1. v(e) \in [1 .. size -> Int]
      BY <1>10
    <3>2. v(e)[idx] = set[idx][e] + Left(e)
      <4>1. v(e)[idx] = shifted[idx][e]
        BY <1>2
      <4> QED
        BY <1>2, <1>10, <4>1
    <3> QED
      BY <3>1, <3>2
  <2>2. PICK t, y, d : /\ t \in Int /\ y \in Int /\ d \in Int
                       /\ t = Left(e) /\ y = set[idx][e] /\ d = C[e]
    BY <1>2, <1>7, <1>9, <1>21
  <2>3. PICK s \in Int : s = d + t
    BY <2>2
  <2>4. AtActive(s, l, n, scalars, e)
    BY <1>21, <2>2, <2>3
  <2>5. PICK q : q = e_k(e) /\ Hidden(q, l, n, rho, u, poly, e)
    BY <1>20, <2>1
  <2>6. Dot(u, pi) = OfActive(l, n, z)[e] + ByPowers(q, x) <=> u[idx] = s
    <3>1. PICK p, o, b, m : p = poly /\ o = pi /\ b = rho /\ m = scalars
      OBVIOUS
    <3>2. /\ p \in [1 .. size -> [0 .. M -> Int]] /\ o \in [1 .. size -> Int]
          /\ Polynomials(p, o, size, idx, x)
      BY <1>12, <3>1
    <3>3. /\ b \in [1 .. n + 1 -> [Bit -> Int]] /\ m \in [1 .. n + 1 -> Int]
          /\ z \in [1 .. n + 1 -> Int] /\ Answered(z, n, m, b, x)
      BY <1>14, <1>15, <3>1
    <3>4. Hidden(q, l, n, b, u, p, e) /\ AtActive(s, l, n, m, e) /\ u \in [1 .. size -> Int]
      BY <2>1, <2>4, <2>5, <3>1
    <3>5. n \in Nat /\ l \in 1 .. n /\ size \in Nat /\ idx \in 1 .. size
      BY <1>1, <1>2
    <3>6. HoldsAt(e, u, o, l, n, z, q, x) <=> IsAt(u, idx, s)
      BY <1>3, <3>2, <3>3, <3>4, <3>5, IdentityAt
    <3> QED
      BY <3>1, <3>6 DEF HoldsAt, IsAt
  <2>7. left[e] = Dot(u, pi) /\ right[e] = OfActive(l, n, z)[e] + ByPowers(q, x)
    BY <1>18, <1>19, <2>1, <2>5
  <2>8. u[idx] = s <=> y = d
    <3>1. u[idx] = y + t
      BY <2>1, <2>2
    <3>2. y + t = d + t <=> y = d
      BY <2>2
    <3> QED
      BY <2>3, <3>1, <3>2
  <2> QED
    BY <2>2, <2>6, <2>7, <2>8
<1>23. left = [e \in Generator |-> left[e]] /\ right = [e \in Generator |-> right[e]]
  BY DEF SumOf, Plus
<1>24. C = [e \in Generator |-> C[e]] /\ set[idx] = [e \in Generator |-> set[idx][e]]
  BY <1>2, <1>7 DEF Commitment
<1>25. IdentityHolds(first, r, x, shifted, l, n) <=> left = right
  BY DEF IdentityHolds
<1> HIDE DEF left, right, C, set
<1>26. left = right <=> \A e \in Generator : left[e] = right[e]
  BY <1>23
<1>27. set[idx] = C <=> \A e \in Generator : set[idx][e] = C[e]
  BY <1>24
<1>28. IdentityHolds(first, r, x, shifted, l, n) <=> set[idx] = C
  BY <1>22, <1>25, <1>26, <1>27
<1> QED
  BY <1>1, <1>2, <1>5, <1>28 DEF first, shifted, set, C
-----------------------------------------------------------------------------
(***************************************************************************)
(* The verifier's answer to a proof that arrives as it was sent.           *)
(***************************************************************************)
Arrived(zs, z, n) ==
  /\ Whole(FullSize(n))
  /\ SubSeq(zs, 1, (FullSize(n) - BaseSize) \div 32) = z
  /\ Len(z) = n + 1

LEMMA Received ==
  ASSUME NEW n \in Nat, NEW z \in [1 .. n + 1 -> Int]
  PROVE  Arrived(z, z, n)
<1>0. PICK b : b = FullSize(n)
  OBVIOUS
<1>1. PICK s : s = BaseSize /\ s \in Int
  BY MAssumption DEF BaseSize
<1>2. b = s + (n + 1) * 32 /\ b - s = (n + 1) * 32 /\ b >= s
  BY <1>0, <1>1 DEF FullSize
<1>3. (b - s) % 32 = 0 /\ (b - s) \div 32 = n + 1
  BY <1>2
<1>4. 1 \in Int /\ n + 1 \in Int /\ \A i \in 1 .. n + 1 : z[i] \in Int
  OBVIOUS
<1>5. PICK q : q = SubSeq(z, 1, n + 1)
  OBVIOUS
<1>6. /\ q \in Seq(Int) /\ Len(q) = (IF 1 <= n + 1 THEN (n + 1) - 1 + 1 ELSE 0)
      /\ \A i \in 1 .. (n + 1) - 1 + 1 : q[i] = z[1 + i - 1]
  BY <1>4, <1>5, SubSeqProperties
<1>7. /\ 1 <= n + 1 /\ (n + 1) - 1 + 1 = n + 1
      /\ \A i \in 1 .. n + 1 : 1 + i - 1 = i
  OBVIOUS
<1>8. Len(q) = n + 1 /\ \A i \in 1 .. n + 1 : q[i] = z[i]
  BY <1>6, <1>7
<1>9. q = [i \in 1 .. n + 1 |-> q[i]]
  BY <1>6, <1>8, LenProperties
<1>10. q = z
  <2>1. z = [i \in 1 .. n + 1 |-> z[i]]
    OBVIOUS
  <2> QED
    BY <1>8, <1>9, <2>1
<1>11. Whole(FullSize(n)) /\ (FullSize(n) - BaseSize) \div 32 = n + 1
  BY <1>0, <1>1, <1>2, <1>3 DEF Whole
<1> QED
  BY <1>5, <1>8, <1>10, <1>11 DEF Arrived

\* It is accepted just when the commitment at the index is the prover's.
LEMMA AcceptsOpens ==
  ASSUME NEW coins, NEW first, Honest(witness, FromBytes(crs), coins),
         first = FirstMessage(witness, FromBytes(crs), coins),
         NEW s, s.coins = coins, s.first = first,
         NEW y \in Challenge, NEW n, n = FromBytes(crs).generators
  PROVE  Accepts(n, s, FullSize(n), y, y) <=> Opens
<1> DEFINE c == FromBytes(crs)
           l == witness.service
           s_l == Nullifiers(Me, c)[l]
           shifted == Shifted(witness.set, l, s_l)
           sent_r == Responses(witness, c, coins, y)
           r == Deserialized(sent_r, FullSize(n))
           bits == [k \in Bit |-> BitOf(witness.index, k)]
<1>1. y \in Int /\ n \in Nat /\ l \in 1 .. n /\ s_l \in Int
  BY ChallengeAssumption DEF Honest
<1>2. /\ coins.r_a \in Int /\ coins.r_b \in Int /\ coins.r_c \in Int /\ coins.r_d \in Int
      /\ coins.t \in Int /\ coins.a \in [Bit -> Int]
  BY CoinsAssumption DEF Honest
<1>3. witness.index \in Nat
  BY SetSizeAssumption DEF Honest
<1>4. PICK z \in [1 .. n + 1 -> Int] : z = sent_r.z
  BY ZAnswered
<1>5. Answered(z, n, WitnessScalars(Me, c, l), Rows(n, coins), y)
  BY <1>4, ZAnswered
<1>6. /\ r.f = ResponseFor(witness.index, coins.a, y)
      /\ r.z_a = coins.r_a + coins.r_b * y /\ r.z_c = coins.r_c * y + coins.r_d
      /\ r.s_l = s_l /\ r.schnorr = coins.t + NullifierHash * s_l
      /\ r.z = SubSeq(sent_r.z, 1, (FullSize(n) - BaseSize) \div 32)
  BY DEF Deserialized, Responses, ResponseFor
<1>7. Whole(FullSize(n)) /\ r.z = z /\ Len(r.z) = n + 1
  <2>1. Arrived(z, z, n)
    BY <1>1, <1>4, Received
  <2> QED
    BY <1>4, <1>6, <2>1 DEF Arrived
<1>8. /\ first.a = BitCommitment(coins.r_a, coins.a) /\ first.b = BitCommitment(coins.r_b, bits)
      /\ first.c = BitCommitment(coins.r_c, [k \in Bit |-> coins.a[k] * (1 - 2 * bits[k])])
      /\ first.d = BitCommitment(coins.r_d, [k \in Bit |-> -coins.a[k] * coins.a[k]])
  BY DEF FirstMessage
<1> HIDE DEF r, sent_r
<1>9. BitsHold(first, r, y)
  <2>1. PICK a, r_a, r_b, r_c, r_d, b, index :
          /\ a \in [Bit -> Int] /\ r_a \in Int /\ r_b \in Int /\ r_c \in Int /\ r_d \in Int
          /\ index \in Nat /\ index = witness.index /\ b = bits /\ a = coins.a
          /\ r_a = coins.r_a /\ r_b = coins.r_b /\ r_c = coins.r_c /\ r_d = coins.r_d
    BY <1>2, <1>3
  <2>2. b = BitsOf(index)
    BY <2>1 DEF BitsOf
  <2>3. Committed(first, a, b, r_a, r_b, r_c, r_d)
    BY <1>8, <2>1 DEF Committed
  <2>4. r.f = ResponseFor(index, a, y) /\ r.z_a = r_a + r_b * y /\ r.z_c = r_c * y + r_d
    BY <1>6, <2>1
  <2>5. a \in [Bit -> Int] /\ r_a \in Int /\ r_b \in Int /\ r_c \in Int /\ r_d \in Int /\ index \in Nat
    BY <2>1
  <2> QED
    BY <1>1, <2>2, <2>3, <2>4, <2>5, BitsAnswered
<1>10. NullifierHolds(r, Mul(g, coins.t), Mul(g, s_l))
  <2>1. PICK t, q : t \in Int /\ q \in Int /\ t = coins.t /\ q = s_l
    BY <1>1, <1>2
  <2>2. r.s_l = q /\ r.schnorr = t + NullifierHash * q
    BY <1>6, <2>1
  <2>3. NullifierHolds(r, Mul(g, t), Mul(g, q))
    BY <2>1, <2>2, NullifierAnswered
  <2> QED
    BY <2>1, <2>3
<1>11. WellFormed(n, witness.set, l, r)
  BY <1>1, <1>7 DEF WellFormed, Honest
<1>12. IdentityHolds(first, r, y, shifted, l, n) <=> Opens
  <2>1. PICK w, d : w = witness /\ d = c /\ n = d.generators /\ Honest(w, d, coins)
    OBVIOUS
  <2>2. /\ r.f = ResponseFor(w.index, coins.a, y) /\ r.z = z
        /\ z \in [1 .. d.generators + 1 -> Int]
        /\ Answered(z, d.generators, WitnessScalars(Me, d, w.service), Rows(d.generators, coins), y)
    BY <1>5, <1>6, <1>7, <2>1
  <2>3. IdentityHolds(FirstMessage(w, d, coins), r, y,
                      Shifted(w.set, w.service, Nullifiers(Me, d)[w.service]), w.service,
                      d.generators)
          <=> w.set[w.index + 1] = Commitment(Me, d)
    BY <2>1, <2>2, IdentityOpens
  <2> QED
    BY <2>1, <2>3 DEF Opens
<1>13. Accepts(n, s, FullSize(n), y, y)
         <=> /\ Whole(FullSize(n)) /\ WellFormed(n, witness.set, l, r)
             /\ BitsHold(first, r, y) /\ IdentityHolds(first, r, y, shifted, l, n)
             /\ NullifierHolds(r, Mul(g, coins.t), Mul(g, s_l))
  BY DEF Accepts, r, sent_r
<1> QED
  BY <1>7, <1>9, <1>10, <1>11, <1>12, <1>13
-----------------------------------------------------------------------------
\* What is read has as many merchants as it has generators, whatever the merchants'
\* texts have been taken for.
LEMMA ReadMerchants ==
  ASSUME CrsInv, FromBytes(crs).ok
  PROVE  /\ FromBytes(crs).generators = Len(witness.listed)
         /\ Len(witness.listed) \in Nat
         /\ DOMAIN FromBytes(crs).merchants = 1 .. Len(witness.listed)
<1>1. PICK ms \in Seq(MerchantType) : ms = witness.listed /\ crs = ToBytes(Setup(ms))
  BY ListsAssumption DEF CrsInv, MerchantType, Text
<1>2. PICK place : Written(ms, crs, place)
  BY <1>1, AsWritten
<1>3. PICK n \in Nat : n = Len(ms)
  BY LenProperties
<1>4. Len(crs) \in Nat /\ Len(crs) >= 3 /\ crs[2] = n
  <2>1. place[n] \in Nat /\ Len(crs) = n + 5 + place[n] /\ crs[2] = n
    BY <1>2, <1>3 DEF Written
  <2> QED
    BY <2>1
<1>5. PICK R :
        /\ R[0] = [ok |-> PointsAt(crs, 3, n + 2), pos |-> n + 5, merchants |-> << >>]
        /\ \A k \in 0 .. n - 1 : R[k + 1] = ReadMerchant(crs, R[k])
        /\ FromBytes(crs)
             = IF R[n].ok
                 THEN [ok |-> TRUE, generators |-> n, merchants |-> R[n].merchants,
                       set_size |-> crs[3]]
                 ELSE Refused
  BY <1>4, ReadSteps
<1> DEFINE Counted(q, k) == \E S : q \in Seq(S) /\ Len(q) = k
           Good == {k \in Nat : k <= n => (R[k].ok => Counted(R[k].merchants, k))}
<1>6. 0 \in Good
  <2>1. R[0].merchants = << >> /\ << >> \in Seq({}) /\ Len(<< >>) = 0
    BY <1>5
  <2> QED
    BY <2>1
<1>7. ASSUME NEW k \in Nat, k \in Good
      PROVE  k + 1 \in Good
  <2> SUFFICES ASSUME k + 1 <= n, R[k + 1].ok
               PROVE  Counted(R[k + 1].merchants, k + 1)
    OBVIOUS
  <2>1. k \in 0 .. n - 1 /\ k <= n
    OBVIOUS
  <2>2. R[k + 1] = ReadMerchant(crs, R[k])
    BY <1>5, <2>1
  <2>3. R[k].ok /\ R[k + 1] = MerchantAdded(crs, R[k])
    BY <2>2 DEF ReadMerchant, Refused
  <2>4. PICK S : R[k].merchants \in Seq(S) /\ Len(R[k].merchants) = k
    BY <1>7, <2>1, <2>3
  <2>5. PICK m : R[k + 1].merchants = Append(R[k].merchants, m)
    BY <2>3 DEF MerchantAdded
  <2>6. PICK q : q = R[k].merchants
    OBVIOUS
  <2>7. q \in Seq(S \union {m}) /\ m \in S \union {m}
    BY <2>4, <2>6, SeqMonotonic
  <2>8. Append(q, m) \in Seq(S \union {m}) /\ Len(Append(q, m)) = Len(q) + 1
    BY <2>7, AppendProperties
  <2> QED
    BY <2>4, <2>5, <2>6, <2>8
<1> HIDE DEF Good
<1>8. n \in Good
  BY <1>6, <1>7, NatInduct
<1>9. R[n].ok /\ FromBytes(crs).generators = n /\ FromBytes(crs).merchants = R[n].merchants
  BY <1>5 DEF Refused
<1>10. PICK S : R[n].merchants \in Seq(S) /\ Len(R[n].merchants) = n
  BY <1>8, <1>9 DEF Good
<1>11. DOMAIN R[n].merchants = 1 .. n
  BY <1>10, LenProperties
<1> QED
  BY <1>1, <1>3, <1>9, <1>11
-----------------------------------------------------------------------------
(***************************************************************************)
(* Which provers there are.                                                *)
(***************************************************************************)
\* The set holds commitments that were made under one order of the merchants.
SetFrom(layout, list) ==
  [j \in DOMAIN layout |-> IF layout[j] = None THEN None
                           ELSE Commitment(layout[j], Setup(list))]
WitnessInv ==
  /\ CrsInv
  /\ \E enrolled \in MerchantLists, layout \in Layouts : witness.set = SetFrom(layout, enrolled)

\* A commitment has a coefficient for each generator.
LEMMA CommitmentType ==
  ASSUME NEW m \in {Me, Other}, NEW list \in MerchantLists
  PROVE  Commitment(m, Setup(list)) \in [Generator -> Int]
<1>1. PICK c : c = Setup(list)
  OBVIOUS
<1>2. PICK n \in Nat : n = Len(list)
  BY ListsAssumption, LenProperties
<1>3. c.ok /\ c.merchants = list /\ DOMAIN list = 1 .. n
  BY <1>1, <1>2, ListsAssumption, LenProperties DEF Setup
<1>4. \A i \in 1 .. n : Nullifiers(m, c)[i] \in Int
  BY <1>1, <1>3, ScalarsAssumption DEF Nullifiers
<1>5. Blinding[m] \in Int /\ NameScalar[m] \in Int
  BY ScalarsAssumption
<1>6. /\ Commitment(m, c)[g] = Blinding[m]
      /\ Commitment(m, c)[h_name] = NameScalar[m]
      /\ \A i : h(i) \in Generator =>
           Commitment(m, c)[h(i)] = IF i \in 1 .. n THEN Nullifiers(m, c)[i] ELSE 0
      /\ \A k \in Bit : Commitment(m, c)[H(k)] = 0
  <2>1. DOMAIN c.merchants = 1 .. n
    BY <1>3
  <2> QED
    BY <2>1, CommitmentAt
<1>7. ASSUME NEW e \in Generator
      PROVE  Commitment(m, c)[e] \in Int
  <2>1. CASE e = g
    BY <1>5, <1>6, <2>1
  <2>2. CASE e = h_name
    BY <1>5, <1>6, <2>2
  <2>3. CASE \E i \in 1 .. MaxMerchants : e = h(i)
    <3>1. PICK i : e = h(i)
      BY <2>3
    <3>2. Commitment(m, c)[e] = IF i \in 1 .. n THEN Nullifiers(m, c)[i] ELSE 0
      BY <1>6, <3>1
    <3> QED
      BY <1>4, <3>2
  <2>4. CASE \E k \in Bit : e = H(k)
    BY <1>6, <2>4
  <2> QED
    BY <2>1, <2>2, <2>3, <2>4 DEF Generator
<1>8. PICK q : q = Commitment(m, c)
  OBVIOUS
<1>9. q = [e \in Generator |-> q[e]]
  BY <1>8 DEF Commitment
<1>10. q \in [Generator -> Int]
  BY <1>7, <1>8, <1>9
<1> QED
  BY <1>1, <1>8, <1>10

\* A prover that neither refuses nor panics works with values that are there.
LEMMA ProverHonest ==
  ASSUME WitnessInv, NEW coins \in Coins, FromBytes(crs).ok,
         ~ProverRefuses(witness, FromBytes(crs)), ~ProverPanics(witness)
  PROVE  Honest(witness, FromBytes(crs), coins)
<1>1. PICK c, n : c = FromBytes(crs) /\ n = Len(witness.listed)
  OBVIOUS
<1>2. /\ c.ok /\ c.generators = n /\ n \in Nat /\ DOMAIN c.merchants = 1 .. n
      /\ witness.listed \in MerchantLists /\ crs = ToBytes(Setup(witness.listed))
  BY <1>1, ReadMerchants DEF WitnessInv, CrsInv
<1>3. \A i \in 1 .. n : Nullifiers(Me, c)[i] \in Int
  BY <1>1, <1>2, ScalarsAssumption DEF Nullifiers
<1>4. \A i \in 1 .. n + 1 : coins.rho[i] \in [Bit -> Int]
  BY <1>1, <1>2, CoinsAssumption
<1>5. PICK enrolled \in MerchantLists, layout \in Layouts : witness.set = SetFrom(layout, enrolled)
  BY DEF WitnessInv
<1>6. Len(witness.set) = SetSize /\ witness.index \in 0 .. SetSize - 1
      /\ witness.service \in 1 .. n
  BY <1>1, <1>2 DEF ProverRefuses
<1>7. DOMAIN witness.set = 1 .. SetSize
  <2>1. layout \in Seq({Me, Other, None})
    BY LayoutsAssumption
  <2>2. PICK k \in Nat : k = Len(layout) /\ DOMAIN layout = 1 .. k
    BY <2>1, LenProperties
  <2>3. PICK s : s = witness.set
    OBVIOUS
  <2>4. DOMAIN s = 1 .. k
    BY <1>5, <2>2, <2>3 DEF SetFrom
  <2>5. Len(s) = k
    BY <2>4
  <2> QED
    BY <1>6, <2>3, <2>4, <2>5
<1>8. ASSUME NEW j \in 1 .. SetSize
      PROVE  witness.set[j] \in [Generator -> Int] /\ witness.set[j] # None
  <2>1. witness.set[j] # None /\ j \in DOMAIN layout
    BY <1>5, <1>7 DEF ProverPanics, SetFrom
  <2>2. /\ layout[j] # None
        /\ witness.set[j] = Commitment(layout[j], Setup(enrolled))
    BY <1>5, <2>1 DEF SetFrom
  <2>3. layout \in Seq({Me, Other, None})
    BY LayoutsAssumption
  <2>4. layout[j] \in {Me, Other, None}
    BY <2>1, <2>3
  <2> QED
    BY <2>1, <2>2, <2>4, CommitmentType
<1> QED
  BY <1>1, <1>2, <1>3, <1>4, <1>6, <1>7, <1>8 DEF Honest

\* A proof that was sent is that of such a prover.
HonestInv ==
  /\ WitnessInv
  /\ sent # None =>
       \E coins \in Coins : /\ Honest(witness, FromBytes(crs), coins)
                            /\ sent.coins = coins
                            /\ sent.first = FirstMessage(witness, FromBytes(crs), coins)

LEMMA HonestSteps == Spec => []HonestInv
<1>1. Init => HonestInv
  <2> SUFFICES ASSUME Init PROVE HonestInv
    OBVIOUS
  <2>1. CrsInv
    BY DEF Init, CrsInv
  <2>2. \E enrolled \in MerchantLists, layout \in Layouts : witness.set = SetFrom(layout, enrolled)
    BY DEF Init, SetFrom
  <2>3. sent = None
    BY DEF Init
  <2> QED
    BY <2>1, <2>2, <2>3 DEF HonestInv, WitnessInv
<1>2. HonestInv /\ [Next]_vars => HonestInv'
  <2> SUFFICES ASSUME HonestInv, [Next]_vars PROVE HonestInv'
    OBVIOUS
  <2>1. crs' = crs /\ witness' = witness
    BY DEF Next, vars, Prove, Receive
  <2>2. WitnessInv'
    BY <2>1 DEF HonestInv, WitnessInv, CrsInv
  <2>3. CASE sent' = sent
    BY <2>1, <2>2, <2>3 DEF HonestInv
  <2>4. CASE Prove /\ sent' # sent
    <3>1. /\ FromBytes(crs).ok /\ ~ProverRefuses(witness, FromBytes(crs))
          /\ ~ProverPanics(witness)
      BY <2>4 DEF Prove
    <3>2. PICK coins \in Coins, x \in Challenge :
            sent' = [coins |-> coins, x |-> x,
                     first |-> FirstMessage(witness, FromBytes(crs), coins)]
      BY <2>4 DEF Prove
    <3>3. Honest(witness, FromBytes(crs), coins)
      BY <3>1, ProverHonest DEF HonestInv
    <3>4. PICK q, f : q = FromBytes(crs) /\ f = FirstMessage(witness, q, coins)
      OBVIOUS
    <3>5. sent'.coins = coins /\ sent'.first = f
      BY <3>2, <3>4
    <3> QED
      BY <2>1, <2>2, <3>3, <3>4, <3>5 DEF HonestInv
  <2> QED
    BY <2>3, <2>4 DEF Next, vars, Receive
<1> QED
  BY <1>1, <1>2, PTL DEF Spec

\* A proof made with a commitment that the prover can open is accepted under every
\* challenge, and one made with another index, order or set under none.
THEOREM ProofsShow == Spec => []ProofsOpen
<1>1. HonestInv => ProofsOpen
  <2> SUFFICES ASSUME HonestInv, sent # None
               PROVE  {x \in Challenge :
                         Accepts(FromBytes(crs).generators, sent,
                                 FullSize(FromBytes(crs).generators), x, x)}
                        = IF Opens THEN Challenge ELSE {}
    BY DEF ProofsOpen
  <2>1. PICK coins \in Coins : /\ Honest(witness, FromBytes(crs), coins)
                               /\ sent.coins = coins
                               /\ sent.first = FirstMessage(witness, FromBytes(crs), coins)
    BY DEF HonestInv
  <2>2. PICK first, n : first = sent.first /\ n = FromBytes(crs).generators
    OBVIOUS
  <2>3. ASSUME NEW x \in Challenge
        PROVE  Accepts(n, sent, FullSize(n), x, x) <=> Opens
    BY <2>1, <2>2, AcceptsOpens
  <2> QED
    BY <2>2, <2>3
<1> QED
  BY <1>1, HonestSteps, PTL
=============================================================================
