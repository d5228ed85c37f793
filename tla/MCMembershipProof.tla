-------------------------- MODULE MCMembershipProof --------------------------
(***************************************************************************)
(* Values for TLC: sets of four, two or three merchants with names and     *)
(* origins of several lengths, one of them too long for its length field.  *)
(***************************************************************************)
EXTENDS MembershipProof, TLC

A == [name |-> <<1>>, origin |-> << >>]
B == [name |-> <<0, 1>>, origin |-> <<1, 0, 1>>]
C == [name |-> << >>, origin |-> <<1>>]
LongOrigin == [name |-> <<1, 1>>, origin |-> <<0, 1, 1, 0, 0>>]

Symmetry == Permutations(SetId)

MCLists == {<<A, B>>, <<B, A>>, <<A, B, C>>, <<LongOrigin, A>>}

MCLayouts == {<<Me, Other, Other, Other>>, <<Other, Me, Me, Me>>, <<Other, Other, Me, Me>>,
              <<Other, Other, Other, Other>>, <<Me, Other, Me>>, <<Me, Other, None, Other>>}

\* derive_nullifier never gives the same scalar twice.
NameNumber(name) == CASE name = <<1>> -> 1 [] name = <<0, 1>> -> 2 [] OTHER -> 3 + Len(name)
Text == UNION {[1 .. n -> 0 .. 1] : n \in 0 .. 3}
MCSecret == [m \in {Me, Other} |-> [name \in Text |->
               IF m = Me THEN 2 * NameNumber(name) + 1 ELSE -3 * NameNumber(name)]]
MCChildSecret == [m \in {Me, Other} |-> [name \in Text |->
                    IF m = Me THEN NameNumber(name) ELSE 10 + NameNumber(name)]]
MCBlinding == [m \in {Me, Other} |-> IF m = Me THEN 4 ELSE 7]
MCNameScalar == [m \in {Me, Other} |-> IF m = Me THEN 2 ELSE 5]

MCCoins ==
  {[a |-> [k \in Bit |-> k + 2], r_a |-> 1, r_b |-> 3, r_c |-> 2, r_d |-> 5, t |-> 2,
    rho |-> [i \in 1 .. 4 |-> [k \in Bit |-> i - 2 * k]]],
   [a |-> [k \in Bit |-> 0], r_a |-> 0, r_b |-> 1, r_c |-> 0, r_d |-> 0, t |-> 0,
    rho |-> [i \in 1 .. 4 |-> [k \in Bit |-> 0]]]}
=============================================================================
