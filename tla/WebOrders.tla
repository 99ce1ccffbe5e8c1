------------------------------ MODULE WebOrders ------------------------------
(***************************************************************************)
(* Orders placed on the customers' page (pos/application/web_orders): the  *)
(* operators' panel, the payment by PayPhone and the reaper of unpaid      *)
(* orders.  An order is one row of Venta.                                  *)
(*                                                                         *)
(* The panel and a declined payment read the row, decide, and save later   *)
(* the fields they changed, without a lock: what was read is kept in call. *)
(* An approved payment and the reaper decide again under the row's lock,   *)
(* so each of their transactions is one step.                              *)
(***************************************************************************)
EXTENDS Naturals

CONSTANTS
  Order,       \* orders of one customer
  Driver,      \* delivery drivers, who each ask their own fee
  Handler,     \* requests in progress that hold a row they read
  MaxRequests, \* bound: such requests started
  MaxAnswers,  \* bound: answers of PayPhone
  NoDriver, NoOrder

\* A fee is named after who set it; "zero" is none.
Fee == Driver \cup {"zero", "panel"}

ASSUME WebAssumption ==
  /\ MaxRequests \in Nat /\ MaxAnswers \in Nat
  /\ NoDriver \notin Fee /\ NoOrder \notin Order
  /\ "zero" \notin Driver /\ "panel" \notin Driver

VARIABLES
  order,  \* the rows
  call,   \* what each handler read and is about to save
  answer, \* what PayPhone has answered of each order
  left,   \* how many requests and answers may still come
  undone, \* history: orders whose recorded payment was overwritten
  cleared \* history: orders whose fee was last set to nothing, by the panel

webVars == <<order, call, answer, left, undone, cleared>>

Kind == {"none", "payphone", "takeaway", "delivery"}
Estado == {"PENDIENTE", "PENDIENTE_COTIZACION", "COCINA", "EN_CAMINO",
           "LISTO", "CANCELADO"}

\* FAILED stands for VOIDED too: nothing here tells them apart.
Payment == {"PENDING", "PAID", "FAILED"}

Row == [kind: Kind, estado: Estado, payment: Payment, fee: Fee,
        driver: Driver \cup {NoDriver},
        confirmation: {"PENDIENTE", "ACEPTADA", "RECHAZADA"},
        reported: BOOLEAN, delivered: BOOLEAN]

NoRow == [kind |-> "none", estado |-> "PENDIENTE", payment |-> "PENDING",
          fee |-> "zero", driver |-> NoDriver, confirmation |-> "PENDIENTE",
          reported |-> FALSE, delivered |-> FALSE]

Op == {"accept", "transit", "ready", "cancel", "cost", "received",
       "approved", "declined", "idle"}

\* seen is the estado of the row that was read.
Call == [op: Op, order: Order \cup {NoOrder}, seen: Estado]
NoCall == [op |-> "idle", order |-> NoOrder, seen |-> "PENDIENTE"]

WebTypeOK ==
  /\ order \in [Order -> Row]
  /\ call \in [Handler -> Call]
  /\ answer \in [Order -> SUBSET {"approved", "declined"}]
  /\ left \in [requests: 0..MaxRequests, answers: 0..MaxAnswers]
  /\ undone \subseteq Order /\ cleared \subseteq Order

WebInit ==
  /\ order = [o \in Order |-> NoRow]
  /\ call = [h \in Handler |-> NoCall]
  /\ answer = [o \in Order |-> {}]
  /\ left = [requests |-> MaxRequests, answers |-> MaxAnswers]
  /\ undone = {} /\ cleared = {}

Placed(o) == order[o].kind # "none"

-----------------------------------------------------------------------------
(* Transitions of domain/web_orders/states.py *)

QuoteEditable == {"PENDIENTE", "PENDIENTE_COTIZACION"}

Transitions ==
  [COCINA |-> QuoteEditable,
   EN_CAMINO |-> {"COCINA"},
   LISTO |-> {"COCINA", "EN_CAMINO"},
   CANCELADO |-> QuoteEditable \cup {"COCINA", "EN_CAMINO"}]

CanTransition(current, target) ==
  \/ current = target
  \/ target \in DOMAIN Transitions /\ current \in Transitions[target]

-----------------------------------------------------------------------------
(* Placing an order.  Only PayPhone, which is for takeaway, is paid later; *)
(* the rest is recorded as paid.                                           *)

NewRow(kind) ==
  [NoRow EXCEPT !.kind = kind,
                !.estado = IF kind = "delivery" THEN "PENDIENTE_COTIZACION"
                                                ELSE "PENDIENTE",
                !.payment = IF kind = "payphone" THEN "PENDING" ELSE "PAID"]

CreateWebOrder(o, kind) ==
  /\ ~Placed(o)
  /\ order' = [order EXCEPT ![o] = NewRow(kind)]
  /\ UNCHANGED <<call, answer, left, undone, cleared>>

-----------------------------------------------------------------------------
(* Requests that read the row and save later *)

Begin(h, op, o) ==
  /\ call[h] = NoCall
  /\ left.requests > 0
  /\ left' = [left EXCEPT !.requests = @ - 1]
  /\ call' = [call EXCEPT ![h] = [op |-> op, order |-> o,
                                   seen |-> order[o].estado]]
  /\ UNCHANGED <<order, answer, undone, cleared>>

Finish(h) == call' = [call EXCEPT ![h] = NoCall]

\* The state each action of the panel leads to.
Target == [accept |-> "COCINA", transit |-> "EN_CAMINO",
           ready |-> "LISTO", cancel |-> "CANCELADO"]

\* Mutant: the panel does not look at the payment.
RequireNothing(row, op) == TRUE

RequirePaid(row, op) == op # "cancel" => row.payment = "PAID"

PanelRead(h, op, o) ==
  /\ Placed(o)
  /\ RequirePaid(order[o], op)
  /\ CanTransition(order[o].estado, Target[op])
  /\ order[o].estado # Target[op]
  /\ Begin(h, op, o)

PanelSave(h) ==
  /\ call[h].op \in DOMAIN Target
  /\ order' = [order EXCEPT ![call[h].order].estado = Target[call[h].op]]
  /\ Finish(h)
  /\ UNCHANGED <<answer, left, undone, cleared>>

CostRead(h, o) ==
  /\ Placed(o)
  /\ order[o].estado \in QuoteEditable
  /\ Begin(h, "cost", o)

\* A cost of nothing is accepted too.
CostSave(h) ==
  LET o == call[h].order IN
  /\ call[h].op = "cost"
  /\ \/ /\ order' = [order EXCEPT ![o].fee = "panel"]
        /\ cleared' = cleared \ {o}
     \/ /\ order' = [order EXCEPT ![o].fee = "zero"]
        /\ cleared' = cleared \cup {o}
  /\ Finish(h)
  /\ UNCHANGED <<answer, left, undone>>

\* The customer says that the order arrived.
ReceivedRead(h, o) ==
  /\ order[o].kind = "delivery"
  /\ order[o].estado = "EN_CAMINO"
  /\ ~order[o].delivered /\ ~order[o].reported
  /\ Begin(h, "received", o)

ReceivedSave(h) ==
  /\ call[h].op = "received"
  /\ order' = [order EXCEPT ![call[h].order].reported = TRUE]
  /\ Finish(h)
  /\ UNCHANGED <<answer, left, undone, cleared>>

-----------------------------------------------------------------------------
(* PayPhone *)

\* External: the customer pays or is declined, perhaps more than once, until
\* a payment is approved.
PayPhoneAnswers(o, a) ==
  /\ order[o].kind = "payphone"
  /\ left.answers > 0
  /\ "approved" \notin answer[o]
  /\ answer' = [answer EXCEPT ![o] = @ \cup {a}]
  /\ left' = [left EXCEPT !.answers = @ - 1]
  /\ UNCHANGED <<order, call, undone, cleared>>

\* The customer comes back from PayPhone, or PayPhone notifies: the row is
\* read, then the answer is known.  A row read as paid is left alone.
PaymentRead(h, a, o) ==
  /\ order[o].kind = "payphone"
  /\ a \in answer[o]
  /\ order[o].payment # "PAID"
  /\ Begin(h, a, o)

\* The cancellation page, and the request that placed the order when the
\* checkout could not be prepared, ask nothing of PayPhone.
CancelPaymentRead(h, o) ==
  /\ order[o].kind = "payphone"
  /\ order[o].payment # "PAID"
  /\ Begin(h, "declined", o)

MarkPaid(h) ==
  /\ call[h].op = "approved"
  /\ order' = [order EXCEPT ![call[h].order].payment = "PAID"]
  /\ Finish(h)
  /\ UNCHANGED <<answer, left, undone, cleared>>

MarkFailed(h) ==
  LET o == call[h].order IN
  /\ call[h].op = "declined"
  /\ order' = [order EXCEPT ![o].payment = "FAILED", ![o].estado = "CANCELADO"]
  /\ undone' = IF order[o].payment = "PAID" THEN undone \cup {o} ELSE undone
  /\ Finish(h)
  /\ UNCHANGED <<answer, left, cleared>>

\* The reaper of stale reservations takes every sale that is PENDING.
ReapWebOrder(o) ==
  /\ Placed(o)
  /\ order[o].payment = "PENDING"
  /\ order' = [order EXCEPT ![o].payment = "FAILED", ![o].estado = "CANCELADO"]
  /\ UNCHANGED <<call, answer, left, undone, cleared>>

-----------------------------------------------------------------------------
Panel ==
  \/ \E h \in Handler, o \in Order :
       \/ \E op \in DOMAIN Target : PanelRead(h, op, o)
       \/ CostRead(h, o)
       \/ ReceivedRead(h, o)
  \/ \E h \in Handler : PanelSave(h) \/ CostSave(h) \/ ReceivedSave(h)

PayPhone ==
  \/ \E o \in Order :
       \/ \E a \in {"approved", "declined"} : PayPhoneAnswers(o, a)
       \/ ReapWebOrder(o)
       \/ \E h \in Handler :
            \/ \E a \in {"approved", "declined"} : PaymentRead(h, a, o)
            \/ CancelPaymentRead(h, o)
  \/ \E h \in Handler :
       MarkPaid(h) \/ MarkFailed(h)

=============================================================================
