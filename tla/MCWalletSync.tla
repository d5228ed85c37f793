----------------------------- MODULE MCWalletSync -----------------------------
(***************************************************************************)
(* Values for TLC.  Processes, keys and payments are interchangeable.      *)
(***************************************************************************)
EXTENDS WalletSync, TLC

Symmetry == Permutations(Daemon) \union Permutations(Key) \union Permutations(Payment)

\* Bound on the mixture: either no money moves, or there is one key and one address.
MoneyOrAddresses ==
  \/ coins = << >> /\ \A p \in Payment : pay[p].tries = 0
  \/ /\ Cardinality(KeysDrawn \ {None}) <= 1
     /\ Whole(file) => file.index = 0
     /\ \A d \in Daemon : local[d].cmd # "address"

\* Bound: above the first block one process works at a time.
OneAtTheTop ==
  tip = MaxHeight => Cardinality({d \in Process : local[d].pc # "idle"}) <= 1
=============================================================================
