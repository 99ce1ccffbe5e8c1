----------------------------- MODULE MCDelivery -----------------------------
(***************************************************************************)
(* Instances of Delivery for TLC.                                          *)
(***************************************************************************)
EXTENDS Delivery, TLC

\* Orders, drivers and handlers differ in nothing but their names.
WebSymmetry ==
  Permutations(Order) \cup Permutations(Driver) \cup Permutations(Handler)
=============================================================================
