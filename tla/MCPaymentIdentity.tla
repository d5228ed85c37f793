-------------------------- MODULE MCPaymentIdentity --------------------------
(***************************************************************************)
(* Values for TLC.  A behaviour is one of the application or one of the    *)
(* library: what they share is the registry.                               *)
(***************************************************************************)
EXTENDS PaymentIdentity, TLC

ApplicationIdle == app = Fresh /\ \A t \in Task : task[t] = Idle
LibraryIdle == (\A m \in Merchant : shop[m] = None) /\ (\A k \in Client : client[k] = None)

\* Bound: no behaviour uses both sides.
OneSide == LibraryIdle \/ (ApplicationIdle /\ resets = 0)

\* Bound: in the application two merchants, two finalizations or a reset.
OneTurn ==
  /\ ApplicationIdle \/ Len(merchants) <= 1 \/ Len(anchored) <= 1
  /\ resets = 1 => Len(merchants) <= 1 /\ Len(anchored) <= 1

\* Bound: a payment is requested where no reset is, and one merchant.
OnePayment == app.phase = 5 \/ (\E t \in Task : At(t, "payment")) =>
                resets = 0 /\ Len(merchants) <= 1

Symmetry == Permutations(Task) \union Permutations(Merchant) \union Permutations(Ben)
=============================================================================
