------------------------------- MODULE Delivery -------------------------------
(***************************************************************************)
(* Home delivery of WebOrders' orders: the drivers' quotes, the total      *)
(* announced to the customer by WhatsApp and their answer, the driver who  *)
(* claims the order, takes it and hands it over.                           *)
(*                                                                         *)
(* Drivers' requests and the quote task lock the row.  Tasks travel        *)
(* through Celery after the transaction that decides them: a worker may    *)
(* die in between, and a message may be lost or run twice.                 *)
(***************************************************************************)
EXTENDS WebOrders

CONSTANTS
  OtherOrder, \* any order of the customer that is not in Order
  MaxDrops,   \* bound: tasks lost and tasks run twice
  MaxTalk     \* bound: messages of the customer, events of OtherOrder

ASSUME DeliveryAssumption ==
  MaxDrops \in Nat /\ MaxTalk \in Nat /\ OtherOrder \notin Order

VARIABLES
  quote,     \* DeliveryQuote of each order and driver
  talk,      \* WhatsAppConversation of the customer's telephone
  inbound,   \* an inbound message being handled: the conversation it read
  tasks,     \* Celery messages on their way
  jobs,      \* the kinds of print job that exist for each order
  budget,    \* drops and events of the conversation that may still come
  announced, \* history: orders whose total was sent to the customer
  relinked,  \* history: orders linked to a talk that awaits another's answer
  dropped,   \* history: orders one of whose tasks was lost
  silent     \* orders whose customer left no telephone

deliveryVars == <<quote, talk, inbound, tasks, jobs, budget, announced,
                  relinked, dropped, silent>>
vars == <<webVars, deliveryVars>>

Decision == {"ACEPTADA", "RECHAZADA"}
Task == [task: {"quote"}, order: Order, driver: Driver]
        \cup [task: {"notify", "ticket", "jobs"}, order: Order]
        \cup [task: {"answer"}, order: Order, decision: Decision]
Talk == [state: {"other", "awaiting"}, order: Order \cup {OtherOrder}]
NoMessage == [state |-> "none", order |-> OtherOrder]

TypeOK ==
  /\ WebTypeOK
  /\ quote \in [Order -> [Driver -> {"none", "GANADORA", "DESCARTADA"}]]
  /\ talk \in Talk
  /\ inbound \in Talk \cup {NoMessage}
  /\ tasks \subseteq Task
  /\ jobs \in [Order -> SUBSET {"COMANDA", "TICKET"}]
  /\ budget \in [drops: 0..MaxDrops, talk: 0..MaxTalk]
  /\ announced \subseteq Order /\ relinked \subseteq Order
  /\ dropped \subseteq Order /\ silent \subseteq Order

Init ==
  /\ WebInit
  /\ quote = [o \in Order |-> [d \in Driver |-> "none"]]
  /\ talk \in [state: {"other", "awaiting"}, order: {OtherOrder}]
  /\ inbound = NoMessage
  /\ tasks = {}
  /\ jobs = [o \in Order |-> {}]
  /\ budget = [drops |-> MaxDrops, talk |-> MaxTalk]
  /\ announced = {} /\ relinked = {} /\ dropped = {} /\ silent = {}

-----------------------------------------------------------------------------
(* Tasks *)

QuoteTask(o, d) == [task |-> "quote", order |-> o, driver |-> d]
NotifyTask(o) == [task |-> "notify", order |-> o]
TicketTask(o) == [task |-> "ticket", order |-> o]
JobsTask(o) == [task |-> "jobs", order |-> o]
AnswerTask(o, d) == [task |-> "answer", order |-> o, decision |-> d]

\* A transaction has committed and sends t; whoever does it may die first.
Then(t) ==
  \/ /\ tasks' = tasks \cup {t}
     /\ UNCHANGED <<budget, dropped>>
  \/ /\ budget.drops > 0
     /\ budget' = [budget EXCEPT !.drops = @ - 1]
     /\ dropped' = dropped \cup {t.order}
     /\ UNCHANGED tasks

\* A worker takes t and sends next, when there is one.  The broker may keep
\* t and deliver it again.
Taking(t, next) ==
  \/ /\ tasks' = (tasks \ {t}) \cup next
     /\ UNCHANGED <<budget, dropped>>
  \/ /\ budget.drops > 0
     /\ budget' = [budget EXCEPT !.drops = @ - 1]
     /\ \/ tasks' = tasks \cup next /\ UNCHANGED dropped
        \/ /\ next # {}
           /\ tasks' = tasks \ {t}
           /\ dropped' = dropped \cup {t.order}

\* A message is lost, or its task gives up after its retries.
LoseTask(t) ==
  /\ t \in tasks
  /\ budget.drops > 0
  /\ budget' = [budget EXCEPT !.drops = @ - 1]
  /\ tasks' = tasks \ {t}
  /\ dropped' = dropped \cup {t.order}
  /\ UNCHANGED <<webVars, quote, jobs, talk, inbound, announced, relinked,
                 silent>>

-----------------------------------------------------------------------------
(* The order is placed: its customer's conversation is linked to it, in    *)
(* whatever state the conversation is, if the customer left a telephone.   *)

PlaceOrder(o, kind) ==
  /\ CreateWebOrder(o, kind)
  /\ \/ /\ talk' = [talk EXCEPT !.order = o]
        /\ relinked' = IF talk.state = "awaiting" THEN relinked \cup {o} ELSE relinked
        /\ UNCHANGED silent
     \/ /\ silent' = silent \cup {o}
        /\ UNCHANGED <<talk, relinked>>
  /\ UNCHANGED <<quote, jobs, inbound, tasks, budget, announced, dropped>>

\* Another order of the same telephone is placed, or its total announced.
OtherOrderTalks ==
  /\ budget.talk > 0
  /\ budget' = [budget EXCEPT !.talk = @ - 1]
  /\ \/ talk' = [talk EXCEPT !.order = OtherOrder]
     \/ talk' = [state |-> "awaiting", order |-> OtherOrder]
  /\ UNCHANGED <<webVars, quote, jobs, inbound, tasks, announced, relinked,
                 dropped, silent>>

-----------------------------------------------------------------------------
(* Quotes *)

\* A driver's or the operator's quote is only a task until a worker runs it.
SubmitQuote(o, d) ==
  /\ order[o].kind = "delivery"
  /\ quote[o][d] = "none"
  /\ QuoteTask(o, d) \notin tasks
  /\ tasks' = tasks \cup {QuoteTask(o, d)}
  /\ UNCHANGED <<webVars, quote, jobs, talk, inbound, budget, announced,
                 relinked, dropped, silent>>

Winner(o) == {d \in Driver : quote[o][d] = "GANADORA"}

\* Mutant: any quote of an order without a winner wins, however late.
LateQuoteWins(t) ==
  LET o == t.order
      d == t.driver IN
  /\ t \in tasks /\ t.task = "quote"
  /\ quote[o][d] = "none" /\ Winner(o) = {}
  /\ quote' = [quote EXCEPT ![o][d] = "GANADORA"]
  /\ order' = [order EXCEPT ![o].fee = d, ![o].estado = "PENDIENTE",
                            ![o].confirmation = "PENDIENTE"]
  /\ cleared' = cleared \ {o}
  /\ Taking(t, {NotifyTask(o)})
  /\ UNCHANGED <<call, answer, left, undone, jobs, talk, inbound, announced,
                 relinked, silent>>

\* Row locked.  The first quote of an order that waits for one wins.
SetQuoteAndNotify(t) ==
  LET o == t.order
      d == t.driver
      wins == order[o].estado = "PENDIENTE_COTIZACION" /\ Winner(o) = {} IN
  /\ t \in tasks /\ t.task = "quote"
  /\ \/ /\ quote[o][d] # "none"
        /\ Taking(t, {})
        /\ UNCHANGED <<order, quote, cleared>>
     \/ /\ quote[o][d] = "none" /\ ~wins
        /\ quote' = [quote EXCEPT ![o][d] = "DESCARTADA"]
        /\ Taking(t, {})
        /\ UNCHANGED <<order, cleared>>
     \/ /\ quote[o][d] = "none" /\ wins
        /\ quote' = [quote EXCEPT ![o][d] = "GANADORA"]
        /\ order' = [order EXCEPT ![o].fee = d, ![o].estado = "PENDIENTE",
                                  ![o].confirmation = "PENDIENTE"]
        /\ cleared' = cleared \ {o}
        /\ Taking(t, {NotifyTask(o)})
  /\ UNCHANGED <<call, answer, left, undone, jobs, talk, inbound, announced,
                 relinked, silent>>

\* The buttons are sent and the conversation waits for this order's answer;
\* a customer without a telephone hears nothing.
NotifyCustomerQuoteTotal(t) ==
  /\ t \in tasks /\ t.task = "notify"
  /\ IF t.order \in silent THEN UNCHANGED <<talk, announced>>
     ELSE /\ talk' = [state |-> "awaiting", order |-> t.order]
          /\ announced' = announced \cup {t.order}
  /\ Taking(t, {})
  /\ UNCHANGED <<webVars, quote, jobs, inbound, relinked, silent>>

-----------------------------------------------------------------------------
(* The customer's answer *)

InboundRead ==
  /\ inbound = NoMessage
  /\ budget.talk > 0
  /\ budget' = [budget EXCEPT !.talk = @ - 1]
  /\ inbound' = talk
  /\ UNCHANGED <<webVars, quote, jobs, talk, tasks, announced, relinked,
                 dropped, silent>>

\* Mutant: a decision is taken whatever the conversation is about.
InboundAlwaysDecides ==
  /\ inbound # NoMessage /\ inbound.order # OtherOrder
  /\ \E d \in Decision : tasks' = tasks \cup {AnswerTask(inbound.order, d)}
  /\ talk' = [talk EXCEPT !.state = "other"]
  /\ inbound' = NoMessage
  /\ UNCHANGED <<webVars, quote, jobs, budget, announced, relinked, dropped,
                 silent>>

\* The decision goes to the order of the conversation as it was read; any
\* other message ends the wait unless the conversation was waiting.
InboundDecides ==
  /\ inbound.state = "awaiting"
  /\ IF inbound.order = OtherOrder THEN UNCHANGED tasks
     ELSE \E d \in Decision : tasks' = tasks \cup {AnswerTask(inbound.order, d)}
  /\ talk' = [talk EXCEPT !.state = "other"]
  /\ inbound' = NoMessage
  /\ UNCHANGED <<webVars, quote, jobs, budget, announced, relinked, dropped,
                 silent>>

InboundOther ==
  /\ inbound # NoMessage
  /\ talk' = IF inbound.state = "awaiting" THEN talk
             ELSE [talk EXCEPT !.state = "other"]
  /\ inbound' = NoMessage
  /\ UNCHANGED <<webVars, quote, jobs, tasks, budget, announced, relinked,
                 dropped, silent>>

\* The task writes its state whatever the order's is.
ProcessCustomerConfirmation(t) ==
  LET accepted == t.decision = "ACEPTADA" IN
  /\ t \in tasks /\ t.task = "answer"
  /\ order' = [order EXCEPT ![t.order].confirmation = t.decision,
                            ![t.order].estado = IF accepted THEN "COCINA"
                                                ELSE "CANCELADO"]
  /\ Taking(t, IF accepted THEN {JobsTask(t.order)} ELSE {})
  /\ UNCHANGED <<call, answer, left, undone, cleared, quote, jobs, talk,
                 inbound, announced, relinked, silent>>

-----------------------------------------------------------------------------
(* The driver.  Each of these locks the row. *)

Claimable == {"PENDIENTE_COTIZACION", "PENDIENTE", "COCINA"}

\* Mutant: the driver who claims the order sets the fee again.
ClaimSetsFee(o, d) ==
  /\ order[o].kind = "delivery" /\ order[o].driver = NoDriver
  /\ order[o].estado \in Claimable
  /\ order' = [order EXCEPT ![o].driver = d, ![o].fee = d]
  /\ UNCHANGED <<call, answer, left, undone, cleared, deliveryVars>>

ClaimDeliveryOrder(o, d) ==
  /\ order[o].kind = "delivery"
  /\ order[o].driver = NoDriver
  /\ order[o].estado \in Claimable
  /\ order' = [order EXCEPT ![o].driver = d,
                            ![o].fee = IF @ = "zero" THEN d ELSE @]
  /\ IF order[o].estado = "PENDIENTE_COTIZACION" THEN Then(QuoteTask(o, d))
     ELSE UNCHANGED <<tasks, budget, dropped>>
  /\ UNCHANGED <<call, answer, left, undone, cleared, quote, jobs, talk,
                 inbound, announced, relinked, silent>>

MarkDeliveryInTransit(o, d) ==
  /\ order[o].driver = d
  /\ order[o].estado = "COCINA"
  /\ order' = [order EXCEPT ![o].estado = "EN_CAMINO"]
  /\ UNCHANGED <<call, answer, left, undone, cleared, deliveryVars>>

\* Mutant: the order becomes ready and the receipt is not asked for.
ConfirmWithoutReceipt(o, d) ==
  /\ order[o].driver = d /\ order[o].estado = "EN_CAMINO" /\ order[o].reported
  /\ order' = [order EXCEPT ![o].delivered = TRUE, ![o].estado = "LISTO"]
  /\ UNCHANGED <<call, answer, left, undone, cleared, deliveryVars>>

\* The receipt is asked for after the transaction; the driver's second try
\* is refused because the order is no longer on its way.
ConfirmDeliveryCompleted(o, d) ==
  /\ order[o].driver = d
  /\ order[o].estado = "EN_CAMINO"
  /\ order[o].reported
  /\ ~order[o].delivered
  /\ order' = [order EXCEPT ![o].delivered = TRUE, ![o].estado = "LISTO"]
  /\ Then(TicketTask(o))
  /\ UNCHANGED <<call, answer, left, undone, cleared, quote, jobs, talk,
                 inbound, announced, relinked, silent>>

-----------------------------------------------------------------------------
(* Printing: each task creates the jobs that do not exist yet. *)

RunPrintTask(t) ==
  /\ t \in tasks /\ t.task \in {"ticket", "jobs"}
  /\ jobs' = [jobs EXCEPT ![t.order] = @ \cup
                IF t.task = "jobs" THEN {"COMANDA", "TICKET"} ELSE {"TICKET"}]
  /\ Taking(t, {})
  /\ UNCHANGED <<webVars, quote, talk, inbound, announced, relinked, silent>>

-----------------------------------------------------------------------------
Drive ==
  \E o \in Order, d \in Driver :
    \/ SubmitQuote(o, d)
    \/ ClaimDeliveryOrder(o, d)
    \/ MarkDeliveryInTransit(o, d)
    \/ ConfirmDeliveryCompleted(o, d)

Work ==
  \E t \in tasks :
    \/ SetQuoteAndNotify(t)
    \/ NotifyCustomerQuoteTotal(t)
    \/ ProcessCustomerConfirmation(t)
    \/ RunPrintTask(t)
    \/ LoseTask(t)

Next ==
  \/ \E o \in Order, kind \in {"payphone", "takeaway", "delivery"} :
       PlaceOrder(o, kind)
  \/ (Panel \/ PayPhone) /\ UNCHANGED deliveryVars
  \/ Drive
  \/ Work
  \/ OtherOrderTalks
  \/ InboundRead \/ InboundDecides \/ InboundOther

Spec == Init /\ [][Next]_vars

-----------------------------------------------------------------------------
(* Properties *)

\* What is cooked, on its way or ready has been paid, with two exceptions:
\* a declined or cancelled payment whose handler had read the order before
\* the payment was recorded and then saved over it, and an order that the
\* customer placed while the total of another awaited their answer, which
\* then accepts the new one.
Served == {"COCINA", "EN_CAMINO", "LISTO"}
ServedIsPaid ==
  \A o \in Order :
    order[o].estado \in Served =>
      order[o].payment = "PAID" \/ o \in undone \cup relinked

\* An answer is taken for an order only if its total was announced, unless
\* the order was linked to a conversation that awaited the answer to another.
AnswerMeetsItsTotal ==
  \A o \in Order :
    order[o].confirmation # "PENDIENTE" => o \in announced \cup relinked

\* At most one quote wins an order, and its price is the fee unless the panel
\* sets another.  A fee that the panel set to nothing is to the driver who
\* claims the order one that nobody set: it stays at nothing or becomes theirs.
\* (The claimant need not be the winner: the claim and the quotes do not look
\* at each other.)
WinnerSetsFee ==
  \A o \in Order : \A d \in Winner(o) :
    /\ Winner(o) = {d}
    /\ o \in cleared => order[o].fee \in {"zero", order[o].driver}
    /\ o \notin cleared => order[o].fee \in {d, "panel"}

\* What a transaction leaves to a task is done, on its way, or lost to a
\* failure: the announcement of the winning quote to a customer who left a
\* telephone, the receipt of a delivery.  Nothing looks for these orders later.
FollowUpUnlessDropped ==
  \A o \in Order :
    /\ Winner(o) # {} /\ o \notin silent =>
         o \in announced \cup dropped \/ NotifyTask(o) \in tasks
    /\ order[o].delivered =>
         "TICKET" \in jobs[o] \/ o \in dropped \/ TicketTask(o) \in tasks

\* An order moves along the table of domain/web_orders/states.py.  What
\* moves it otherwise: the winning quote, for which the table has no row, a
\* request that saves what it decided on an older state, the customer's
\* answer, which asks nothing of the table (ARCHITECTURE.md, Regla 2), and the
\* cancellation of an order that is ready although its recorded payment was
\* overwritten, which does not ask either.
SavesOlder(o) ==
  \E h \in Handler : /\ call[h].order = o /\ call'[h] = NoCall
                     /\ call[h].seen # order[o].estado
EstadoFollowsTable ==
  [][\A o \in Order : Placed(o) =>
       \/ CanTransition(order[o].estado, order'[o].estado)
       \/ order[o].estado = "PENDIENTE_COTIZACION" /\ order'[o].estado = "PENDIENTE"
       \/ SavesOlder(o)
       \/ /\ order[o].estado = "LISTO" /\ order'[o].estado = "CANCELADO"
          /\ o \in undone'
       \/ \E t \in tasks : t.order = o /\ ProcessCustomerConfirmation(t)]_vars
=============================================================================
