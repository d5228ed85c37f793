-------------------------- MODULE MCRegistryService --------------------------
(***************************************************************************)
(* Values for TLC.  With MinSats = 2 the payment "dust" is too small for   *)
(* any fee and "exact" covers a beneficiary's fee; "large" covers a        *)
(* merchant's fee too and pays for two commitment transactions of a        *)
(* registry with room for two.                                             *)
(***************************************************************************)
EXTENDS RegistryService, TLC

CONSTANTS dust, exact, large

MCSats == [o \in Outpoint |-> CASE o = dust -> 1 [] o = exact -> 2 [] o = large -> 8]

\* Calls, merchants and commitments are interchangeable.
Symmetry == Permutations(Call) \union Permutations(Merchant) \union Permutations(Phi)
=============================================================================
