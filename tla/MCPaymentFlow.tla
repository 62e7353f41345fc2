---------------------------- MODULE MCPaymentFlow ----------------------------
(* PaymentFlow for TLC: trips, sessions and webhook calls are alike. *)
EXTENDS PaymentFlow, TLC

Symmetry == Permutations(Trip) \union Permutations(Session) \union Permutations(Delivery)
===============================================================================
