----------------------------- MODULE MCCheckout -----------------------------
(* Small instances of Checkout.                                             *)
EXTENDS Checkout, TLC

Symmetry == Permutations(Requests) \cup Permutations(Handlers)
=============================================================================
