----------------------------- MODULE MCPosSale -----------------------------
(***************************************************************************)
(* Instances of PosSale for TLC: who sends what in each run.               *)
(***************************************************************************)
EXTENDS PosSale

CONSTANTS cafe, f1, f2, x1, x2, v1, v2, noRef, r1, r2, r3, c1, c2

Order(c, fp, units, method, ref) ==
  [ctid |-> c, fp |-> fp, cart |-> [p \in {cafe} |-> units], total |-> units,
   method |-> method, ref |-> ref]
Stock(units) == [p \in {cafe} |-> units]

\* A cash sale is sent twice; a third request reuses its identifier with
\* another cart.
ResendPayload ==
  [r \in {r1, r2, r3} |->
     IF r = r3 THEN Order(x1, f2, 1, "TARJETA", v2)
     ELSE Order(x1, f1, 2, "EFECTIVO", noRef)]

\* A card sale and a cash sale want the last units; both have a confirmation.
RivalPayload ==
  [r \in {r1, r2} |-> IF r = r1 THEN Order(x1, f1, 2, "TARJETA", v1)
                      ELSE Order(x2, f2, 1, "EFECTIVO", noRef)]

CardPayload == [r \in {r1, r2} |-> Order(x1, f1, 1, "TARJETA", v1)]
OneCard == [r \in {r1} |-> Order(x1, f1, 2, "TARJETA", v1)]
OneCash == [r \in {r1} |-> Order(x1, f1, 2, "EFECTIVO", noRef)]

\* Confirmations of the first transaction, each with a voucher of its own.
TwoVouchers == [c \in {c1, c2} |-> [ctid |-> x1, ref |-> IF c = c1 THEN v1 ELSE v2]]
OneVoucher == [c \in {c1} |-> [ctid |-> x1, ref |-> v2]]
NoConfirms == [c \in {} |-> [ctid |-> x1, ref |-> v1]]

Stock2 == Stock(2)
Stock3 == Stock(3)
============================================================================
