----------------------------- MODULE CrsEncoding -----------------------------
(***************************************************************************)
(* The common reference string and its bytes: src/core/crs.rs, as          *)
(* "build-crs" of src/bin/veiled_core.rs and get_crs of the registry send  *)
(* it and every other command of veiled-core reads it.                     *)
(*                                                                         *)
(* A generator is known by its index: h_l depends on the position l only,  *)
(* never on the merchant who holds it.  A point and a number of four bytes *)
(* are one cell each, a character is one, and the length of a text is two, *)
(* of Byte values each.                                                    *)
(***************************************************************************)
EXTENDS Integers, Sequences, SequencesExt

CONSTANTS Byte,   \* values of a byte
          MaxLen, \* Name::MAX_LEN
          SetSize \* N, the size of an anonymity set

\* A name's length fits into the two bytes written for it.
ASSUME ByteAssumption == Byte \in Nat \ {0} /\ MaxLen \in Nat /\ MaxLen < Byte * Byte
ASSUME SetSizeAssumption == SetSize \in Nat \ {0}
-----------------------------------------------------------------------------
\* What a decoder returns when it refuses its input.
Refused == [ok |-> FALSE]

\* A point in one cell; no character has its value.
PointCell(i) == Byte + i
IsPoint(cell) == cell >= Byte

\* Crs::setup: as many generators as there are merchants.  g is point 0, h_name
\* point 1, and h_l point l + 1.
Setup(merchants) == [ok |-> TRUE, generators |-> Len(merchants), merchants |-> merchants,
                     set_size |-> SetSize]

\* Mutant: the length is written in one byte.
ShortLength(n) == <<0, n % Byte>>

\* A length as u16, the higher byte first.
Length(n) == <<(n \div Byte) % Byte, n % Byte>>

\* Merchant::new: the credential generator is a point that depends on the name.
CredentialGenerator(name) == PointCell(Len(name))

MerchantBytes(m) ==
  Length(Len(m.name)) \o m.name \o <<CredentialGenerator(m.name)>>
    \o Length(Len(m.origin)) \o m.origin

\* Crs::to_bytes.
ToBytes(crs) ==
  <<128, crs.generators, crs.set_size, PointCell(0), PointCell(1)>>
    \o [l \in 1 .. crs.generators |-> PointCell(l + 1)]
    \o FlattenSeq([l \in DOMAIN crs.merchants |-> MerchantBytes(crs.merchants[l])])
-----------------------------------------------------------------------------
\* n cells are left after the first pos ones.
Has(bytes, pos, n) == Len(bytes) >= pos + n

LengthAt(bytes, pos) == bytes[pos + 1] * Byte + bytes[pos + 2]

\* Crs::from_bytes, the points after the header.
PointsAt(bytes, pos, n) ==
  Has(bytes, pos, n) /\ \A i \in pos + 1 .. pos + n : IsPoint(bytes[i])

\* Crs::from_bytes: a merchant is there after the first pos cells.
MerchantThere(bytes, pos) ==
  /\ Has(bytes, pos, 2)
  /\ LET afterName == pos + 2 + LengthAt(bytes, pos)
     IN  /\ Has(bytes, afterName, 0)
         /\ LengthAt(bytes, pos) <= MaxLen
         /\ Has(bytes, afterName, 3)
         /\ Has(bytes, afterName + 3, LengthAt(bytes, afterName + 1))

\* Crs::from_bytes: that merchant, added to what was read before.
MerchantAdded(bytes, read) ==
  LET afterName == read.pos + 2 + LengthAt(bytes, read.pos)
      afterAll == afterName + 3 + LengthAt(bytes, afterName + 1)
  IN  [ok |-> TRUE, pos |-> afterAll,
       merchants |-> Append(read.merchants,
                       [name |-> SubSeq(bytes, read.pos + 3, afterName),
                        origin |-> SubSeq(bytes, afterName + 4, afterAll)])]

\* Mutant: a merchant that cannot be read is left out.
ReadIfThere(bytes, read) ==
  IF read.ok /\ MerchantThere(bytes, read.pos) THEN MerchantAdded(bytes, read) ELSE read

\* Crs::from_bytes, the body of its loop.
ReadMerchant(bytes, read) ==
  IF read.ok /\ MerchantThere(bytes, read.pos) THEN MerchantAdded(bytes, read) ELSE Refused

\* Crs::from_bytes.  What follows the last merchant is not looked at.
FromBytes(bytes) ==
  IF ~ Has(bytes, 0, 3)
    THEN Refused
    ELSE LET l == bytes[2]
             read == FoldLeft(LAMBDA r, i : ReadMerchant(bytes, r),
                              [ok |-> PointsAt(bytes, 3, l + 2), pos |-> l + 5,
                               merchants |-> << >>],
                              [i \in 1 .. l |-> i])
         IN  IF read.ok
               THEN [ok |-> TRUE, generators |-> l, merchants |-> read.merchants,
                     set_size |-> bytes[3]]
               ELSE Refused
=============================================================================
