----------------------------- MODULE SaleLedger -----------------------------
(***************************************************************************)
(* What the sale commands promise about stock, whatever the order in which *)
(* requests, confirmations, the reaper and the back office get to a sale:  *)
(* a sale takes its cart from the shelf when it is held, puts it back only *)
(* when it is released, is sold at most once, and a released one can only  *)
(* be sold by taking its cart again.                                       *)
(***************************************************************************)
EXTENDS Naturals

CONSTANTS Sale, Product, Carts, InitialStock

VARIABLES
  phase,  \* of each sale: "free", "held", "sold" or "released"
  cart,   \* what it holds, or held
  shelf   \* what is left of each product

vars == <<phase, cart, shelf>>

Init ==
  /\ phase = [s \in Sale |-> "free"]
  /\ cart \in [Sale -> Carts]
  /\ shelf = InitialStock

Move(s, from, to) == phase[s] = from /\ phase' = [phase EXCEPT ![s] = to]

Take(c) ==
  /\ \A p \in Product : c[p] <= shelf[p]
  /\ shelf' = [p \in Product |-> shelf[p] - c[p]]

Hold(s) ==
  /\ Move(s, "free", "held")
  /\ \E c \in Carts : Take(c) /\ cart' = [cart EXCEPT ![s] = c]

Sell(s) == Move(s, "held", "sold") /\ UNCHANGED <<cart, shelf>>

Release(s) ==
  /\ Move(s, "held", "released")
  /\ shelf' = [p \in Product |-> shelf[p] + cart[s][p]]
  /\ UNCHANGED cart

Revive(s) == Move(s, "released", "sold") /\ Take(cart[s]) /\ UNCHANGED cart

Next == \E s \in Sale : Hold(s) \/ Sell(s) \/ Release(s) \/ Revive(s)

Spec == Init /\ [][Next]_vars
=============================================================================
