--------------------------- MODULE Delivery_proofs ---------------------------
(***************************************************************************)
(* Theorems about web orders and their delivery, for any orders, drivers   *)
(* and handlers and any number of requests, answers and lost tasks.        *)
(*                                                                         *)
(* WebInv says what the rows and the requests that hold what they read     *)
(* agree on; TalkInv what the conversation, the tasks and the quotes know  *)
(* of the orders.  A request of the panel or of the payment keeps what the *)
(* delivery knows of an order (KeepsRows), and the steps of the delivery   *)
(* keep what the requests rely on.                                         *)
(***************************************************************************)
EXTENDS Delivery, TLAPS

PaidOrUndone(o) == order[o].payment = "PAID" \/ o \in undone

\* A request holds an order that was placed; the operators' had been paid when
\* it was read; and it asked the table of transitions.
CallInv ==
  \A h \in Handler : call[h].op # "idle" =>
    /\ call[h].order \in Order
    /\ Placed(call[h].order)
    /\ call[h].op \in {"accept", "transit", "ready"} => PaidOrUndone(call[h].order)
    /\ call[h].op \in DOMAIN Target => CanTransition(call[h].seen, Target[call[h].op])
    /\ call[h].op \in {"approved", "declined"} => order[call[h].order].kind = "payphone"

\* Only PayPhone is paid later; only deliveries have drivers; what is ready
\* was paid.
RowInv ==
  \A o \in Order :
    /\ order[o].kind \in {"takeaway", "delivery"} => order[o].payment = "PAID"
    /\ order[o].driver # NoDriver => order[o].kind = "delivery"
    /\ order[o].estado = "LISTO" => PaidOrUndone(o)

WebInv == CallInv /\ RowInv

\* Quotes and totals are of deliveries; an answer on its way, or awaited, is to
\* a total that was announced or that the order was linked to.
TalkInv ==
  /\ \A o \in Order, d \in Driver : quote[o][d] # "none" => order[o].kind = "delivery"
  /\ \A o \in announced : order[o].kind = "delivery"
  /\ \A t \in tasks :
       /\ t.task \in {"quote", "notify"} => order[t.order].kind = "delivery"
       /\ t.task = "answer" => t.order \in announced \cup relinked
  /\ talk.state = "awaiting" => talk.order \in announced \cup relinked \cup {OtherOrder}
  /\ inbound.state = "awaiting" =>
       inbound.order \in announced \cup relinked \cup {OtherOrder}

DeliveryInv ==
  /\ TypeOK /\ WebInv /\ TalkInv
  /\ ServedIsPaid /\ AnswerMeetsItsTotal /\ WinnerSetsFee /\ FollowUpUnlessDropped

LEMMA DeliveryInitInv == Init => DeliveryInv
<1> SUFFICES ASSUME Init PROVE DeliveryInv
  OBVIOUS
<1> USE WebAssumption, DeliveryAssumption
<1>1. TypeOK
  BY DEF Init, WebInit, TypeOK, WebTypeOK, NoRow, Row, Fee, NoCall, Call, Op, Estado,
     Kind, Payment, NoMessage, Talk, Task
<1>2. WebInv
  BY DEF Init, WebInit, WebInv, CallInv, RowInv, NoRow, NoCall
<1>3. TalkInv
  BY DEF Init, WebInit, TalkInv, NoMessage
<1>4. ServedIsPaid /\ AnswerMeetsItsTotal /\ WinnerSetsFee
  BY DEF Init, WebInit, ServedIsPaid, Served, AnswerMeetsItsTotal, WinnerSetsFee, Winner,
     NoRow
<1>5. FollowUpUnlessDropped
  BY DEF Init, WebInit, FollowUpUnlessDropped, Winner, NoRow
<1> QED BY <1>1, <1>2, <1>3, <1>4, <1>5 DEF DeliveryInv

----------------------------------------------------------------------------
(* Requests of the panel and of the payment *)

WebStep == (Panel \/ PayPhone) /\ UNCHANGED deliveryVars

\* A fee is left as it was, or set by the panel; the panel may set it to nothing.
FeeSaved(o, fee) ==
  \/ fee = order[o].fee /\ (o \in cleared' <=> o \in cleared)
  \/ fee = "panel" /\ o \notin cleared'
  \/ fee = "zero" /\ o \in cleared'

ClearedElsewhere(o) ==
  /\ cleared' \subseteq Order
  /\ \A p \in Order : p # o => (p \in cleared' <=> p \in cleared)

\* What such a step may do to the rows, and to the memory of payments lost.
KeepsRows ==
  /\ undone \subseteq undone'
  /\ \A o \in Order :
       /\ order'[o].kind = order[o].kind
       /\ order'[o].driver = order[o].driver
       /\ order'[o].confirmation = order[o].confirmation
       /\ order'[o].delivered = order[o].delivered
       /\ FeeSaved(o, order'[o].fee)
       /\ PaidOrUndone(o) => PaidOrUndone(o)'

\* A request that begins changes no row.
LEMMA BeginWeb ==
  ASSUME DeliveryInv, NEW h \in Handler, NEW o \in Order, NEW op \in Op \ {"idle"},
         Placed(o), Begin(h, op, o),
         op \in {"accept", "transit", "ready"} => PaidOrUndone(o),
         op \in DOMAIN Target => CanTransition(order[o].estado, Target[op]),
         op \in {"approved", "declined"} => order[o].kind = "payphone"
  PROVE  /\ WebTypeOK' /\ WebInv' /\ KeepsRows
         /\ \A p \in Order : order'[p] = order[p]
<1> WebTypeOK /\ WebInv
  BY DEF DeliveryInv, TypeOK
<1>1. /\ UNCHANGED <<order, answer, undone, cleared>>
      /\ left' \in [requests: 0..MaxRequests, answers: 0..MaxAnswers]
  BY WebAssumption DEF Begin, WebTypeOK
<1>2. order[o].estado \in Estado
  BY DEF WebTypeOK, Row
<1>3. /\ call' \in [Handler -> Call]
      /\ call'[h].op = op /\ call'[h].order = o /\ call'[h].seen = order[o].estado
      /\ \A g \in Handler : g # h => call'[g] = call[g]
  BY <1>2 DEF Begin, WebTypeOK, Call
<1>4. WebTypeOK'
  BY <1>1, <1>3 DEF WebTypeOK
<1>5. CallInv'
  BY <1>1, <1>3 DEF WebInv, CallInv, PaidOrUndone, Placed
<1>6. RowInv' /\ KeepsRows
  BY <1>1 DEF WebInv, RowInv, PaidOrUndone, KeepsRows, FeeSaved
<1> QED BY <1>1, <1>4, <1>5, <1>6 DEF WebInv

\* A request that ends, or the reaper, changes one row.
LEMMA SaveWeb ==
  ASSUME DeliveryInv, NEW o \in Order, NEW row \in Row,
         order' = [order EXCEPT ![o] = row],
         call' = call \/ \E h \in Handler : call' = [call EXCEPT ![h] = NoCall],
         UNCHANGED <<answer, left>>, undone' \subseteq Order,
         Placed(o), undone \subseteq undone',
         row.kind = order[o].kind, row.driver = order[o].driver,
         row.confirmation = order[o].confirmation, row.delivered = order[o].delivered,
         FeeSaved(o, row.fee), ClearedElsewhere(o),
         PaidOrUndone(o) => row.payment = "PAID" \/ o \in undone',
         row.payment # "PAID" => order[o].kind = "payphone" \/ row.payment = order[o].payment,
         row.estado = "LISTO" => row.payment = "PAID" \/ o \in undone'
  PROVE  WebTypeOK' /\ WebInv' /\ KeepsRows
<1> WebTypeOK /\ WebInv
  BY DEF DeliveryInv, TypeOK
<1>1. order' \in [Order -> Row] /\ order'[o] = row
      /\ \A p \in Order : p # o => order'[p] = order[p]
  BY DEF WebTypeOK
<1>2. /\ call' \in [Handler -> Call]
      /\ \A h \in Handler : call'[h] = call[h] \/ call'[h].op = "idle"
  BY DEF WebTypeOK, NoCall, Call, Op, Estado
<1>3. WebTypeOK'
  BY <1>1, <1>2 DEF WebTypeOK, ClearedElsewhere
<1>4. KeepsRows
  <2>1. \A p \in Order : FeeSaved(p, order'[p].fee)
    BY <1>1 DEF FeeSaved, ClearedElsewhere
  <2> QED BY <1>1, <2>1 DEF KeepsRows, PaidOrUndone
<1>5. RowInv'
  BY <1>1, <1>4 DEF WebInv, RowInv, PaidOrUndone
<1>6. CallInv'
  <2> SUFFICES ASSUME NEW h \in Handler, call'[h].op # "idle"
               PROVE  /\ call'[h].order \in Order
                      /\ order'[call'[h].order].kind # "none"
                      /\ call'[h].op \in {"accept", "transit", "ready"} =>
                           \/ order'[call'[h].order].payment = "PAID"
                           \/ call'[h].order \in undone'
                      /\ call'[h].op \in DOMAIN Target =>
                           CanTransition(call'[h].seen, Target[call'[h].op])
                      /\ call'[h].op \in {"approved", "declined"} =>
                           order'[call'[h].order].kind = "payphone"
    BY DEF CallInv, Placed, PaidOrUndone
  <2>1. call'[h] = call[h] /\ call[h].op # "idle" /\ call[h].order \in Order
    BY <1>2 DEF WebInv, CallInv
  <2> PICK p \in Order : p = call[h].order
    BY <2>1
  <2>2. order'[p].kind = order[p].kind /\ (PaidOrUndone(p) => PaidOrUndone(p)')
    BY <1>4 DEF KeepsRows
  <2> QED BY <2>1, <2>2 DEF WebInv, CallInv, Placed, PaidOrUndone
<1> QED BY <1>3, <1>4, <1>5, <1>6 DEF WebInv

LEMMA StaysServed ==
  ASSUME ServedIsPaid, KeepsRows, relinked \subseteq relinked',
         \A p \in Order : order'[p].estado \in Served =>
           order[p].estado \in Served \/ PaidOrUndone(p)'
  PROVE  ServedIsPaid'
BY DEF ServedIsPaid, KeepsRows, PaidOrUndone

\* The requests of the panel, the payment and the reaper keep their invariant
\* and what the delivery knows of the rows.
LEMMA WebStepInv ==
  ASSUME DeliveryInv, WebStep
  PROVE  WebTypeOK' /\ WebInv' /\ KeepsRows /\ ServedIsPaid'
<1> USE DEF Placed
<1> WebTypeOK /\ CallInv /\ RowInv /\ ServedIsPaid /\ UNCHANGED deliveryVars
  BY DEF DeliveryInv, TypeOK, WebInv, WebStep
<1>0. relinked' = relinked
  BY DEF deliveryVars
<1>1. ASSUME NEW h \in Handler, NEW o \in Order, NEW op \in DOMAIN Target, PanelRead(h, op, o)
      PROVE  WebTypeOK' /\ WebInv' /\ KeepsRows /\ ServedIsPaid'
  <2>1. op \in Op \ {"idle"}
    BY DEF Target, Op
  <2>2. /\ op \in {"accept", "transit", "ready"} => PaidOrUndone(o)
        /\ op \notin {"approved", "declined"}
        /\ CanTransition(order[o].estado, Target[op])
        /\ Placed(o) /\ Begin(h, op, o)
    BY <1>1 DEF PanelRead, RequirePaid, PaidOrUndone, Target
  <2> QED BY <1>0, <2>1, <2>2, BeginWeb, StaysServed
<1>2. ASSUME NEW h \in Handler, NEW o \in Order, CostRead(h, o) \/ ReceivedRead(h, o)
      PROVE  WebTypeOK' /\ WebInv' /\ KeepsRows /\ ServedIsPaid'
  <2> PICK op \in {"cost", "received"} : Begin(h, op, o)
    BY <1>2 DEF CostRead, ReceivedRead
  <2>1. Placed(o) /\ op \in Op \ {"idle"} /\ op \notin DOMAIN Target
    BY <1>2 DEF CostRead, ReceivedRead, Op, Target
  <2> QED BY <1>0, <2>1, BeginWeb, StaysServed
<1>3. ASSUME NEW h \in Handler, NEW o \in Order, NEW a \in {"approved", "declined"},
             PaymentRead(h, a, o) \/ CancelPaymentRead(h, o)
      PROVE  WebTypeOK' /\ WebInv' /\ KeepsRows /\ ServedIsPaid'
  <2> PICK op \in {"approved", "declined"} : Begin(h, op, o)
    BY <1>3 DEF PaymentRead, CancelPaymentRead
  <2>1. /\ order[o].kind = "payphone" /\ Placed(o)
        /\ op \in Op \ {"idle"} /\ op \notin DOMAIN Target
    BY <1>3 DEF PaymentRead, CancelPaymentRead, Op, Target
  <2> QED BY <1>0, <2>1, BeginWeb, StaysServed
<1>4. ASSUME NEW h \in Handler, PanelSave(h)
      PROVE  WebTypeOK' /\ WebInv' /\ KeepsRows /\ ServedIsPaid'
  <2>1. call[h].op # "idle"
    BY <1>4 DEF PanelSave, Target
  <2> PICK o \in Order : o = call[h].order /\ Placed(o)
    BY <2>1 DEF CallInv
  <2> PICK e \in Estado : e = Target[call[h].op]
    BY <1>4 DEF PanelSave, Target, Estado
  <2> DEFINE row == [order[o] EXCEPT !.estado = e]
  <2>2. /\ row \in Row /\ row.estado = e /\ row.payment = order[o].payment
        /\ row.kind = order[o].kind /\ row.driver = order[o].driver
        /\ row.confirmation = order[o].confirmation
        /\ row.delivered = order[o].delivered /\ row.fee = order[o].fee
    BY DEF WebTypeOK, Row
  <2>3. order' = [order EXCEPT ![o] = row] /\ call' = [call EXCEPT ![h] = NoCall]
        /\ UNCHANGED <<answer, left, undone, cleared>>
    BY <1>4 DEF PanelSave, Finish
  <2>4. e \in Served => PaidOrUndone(o)
    BY <1>4 DEF PanelSave, Target, CallInv, Served
  <2> HIDE DEF row
  <2>5. WebTypeOK' /\ WebInv' /\ KeepsRows
    BY <2>2, <2>3, <2>4, SaveWeb DEF PaidOrUndone, Served, WebTypeOK, FeeSaved,
       ClearedElsewhere
  <2>6. \A p \in Order : order'[p].estado \in Served =>
          order[p].estado \in Served \/ PaidOrUndone(p)'
    BY <2>2, <2>3, <2>4 DEF PaidOrUndone, WebTypeOK
  <2> QED BY <1>0, <2>5, <2>6, StaysServed
<1>5. ASSUME NEW h \in Handler, CostSave(h) \/ ReceivedSave(h) \/ MarkPaid(h)
      PROVE  WebTypeOK' /\ WebInv' /\ KeepsRows /\ ServedIsPaid'
  <2>1. call[h].op # "idle"
    BY <1>5 DEF CostSave, ReceivedSave, MarkPaid
  <2> PICK o \in Order : o = call[h].order /\ Placed(o)
    BY <2>1 DEF CallInv
  <2> DEFINE
        Saved(row) ==
          /\ row \in Row /\ row.estado = order[o].estado
          /\ row.payment \in {"PAID", order[o].payment}
          /\ row.kind = order[o].kind /\ row.driver = order[o].driver
          /\ row.confirmation = order[o].confirmation
          /\ row.delivered = order[o].delivered
  <2>2. order[o] \in Row
    BY DEF WebTypeOK
  <2>3. /\ Saved([order[o] EXCEPT !.fee = "panel"])
        /\ Saved([order[o] EXCEPT !.fee = "zero"])
        /\ Saved([order[o] EXCEPT !.reported = TRUE])
        /\ Saved([order[o] EXCEPT !.payment = "PAID"])
    BY <2>2 DEF Row, Fee, Payment
  <2>4. \/ /\ order' = [order EXCEPT ![o] = [order[o] EXCEPT !.fee = "panel"]]
           /\ cleared' = cleared \ {o}
        \/ /\ order' = [order EXCEPT ![o] = [order[o] EXCEPT !.fee = "zero"]]
           /\ cleared' = cleared \cup {o}
        \/ /\ order' = [order EXCEPT ![o] = [order[o] EXCEPT !.reported = TRUE]]
           /\ UNCHANGED cleared
        \/ /\ order' = [order EXCEPT ![o] = [order[o] EXCEPT !.payment = "PAID"]]
           /\ UNCHANGED cleared
    BY <1>5 DEF CostSave, ReceivedSave, MarkPaid
  <2>5. /\ call' = [call EXCEPT ![h] = NoCall] /\ UNCHANGED <<answer, left, undone>>
        /\ ClearedElsewhere(o)
    BY <1>5, <2>4 DEF CostSave, ReceivedSave, MarkPaid, Finish, ClearedElsewhere, WebTypeOK
  <2> HIDE DEF Saved
  <2> PICK row \in Row : /\ Saved(row) /\ FeeSaved(o, row.fee)
                         /\ order' = [order EXCEPT ![o] = row]
    <3>1. \A row : Saved(row) => row \in Row
      BY DEF Saved
    <3>2. /\ [order[o] EXCEPT !.fee = "panel"].fee = "panel"
          /\ [order[o] EXCEPT !.fee = "zero"].fee = "zero"
          /\ [order[o] EXCEPT !.reported = TRUE].fee = order[o].fee
          /\ [order[o] EXCEPT !.payment = "PAID"].fee = order[o].fee
      BY <2>2 DEF Row
    <3> QED BY <2>3, <2>4, <3>1, <3>2 DEF FeeSaved
  <2> USE DEF Saved
  <2>6. row.estado = "LISTO" => row.payment = "PAID" \/ o \in undone
    BY DEF RowInv, PaidOrUndone
  <2>7. WebTypeOK' /\ WebInv' /\ KeepsRows
    BY <2>5, <2>6, SaveWeb DEF PaidOrUndone, WebTypeOK
  <2>8. \A p \in Order : order'[p].estado \in Served => order[p].estado \in Served
    BY DEF WebTypeOK
  <2> QED BY <1>0, <2>7, <2>8, StaysServed
<1>6. ASSUME NEW h \in Handler, MarkFailed(h)
      PROVE  WebTypeOK' /\ WebInv' /\ KeepsRows /\ ServedIsPaid'
  <2>1. call[h].op # "idle"
    BY <1>6 DEF MarkFailed
  <2> PICK o \in Order : o = call[h].order /\ Placed(o)
    BY <2>1 DEF CallInv
  <2> PICK row : row = [order[o] EXCEPT !.payment = "FAILED", !.estado = "CANCELADO"]
    OBVIOUS
  <2> order[o] \in Row
    BY DEF WebTypeOK
  <2>2. /\ row \in Row /\ row.estado = "CANCELADO" /\ row.payment = "FAILED"
        /\ row.kind = order[o].kind /\ row.driver = order[o].driver
        /\ row.confirmation = order[o].confirmation
        /\ row.delivered = order[o].delivered /\ row.fee = order[o].fee
    BY DEF Row, Estado, Payment
  <2>3. order' = [order EXCEPT ![o] = row] /\ call' = [call EXCEPT ![h] = NoCall]
        /\ UNCHANGED <<answer, left, cleared>>
    BY <1>6 DEF MarkFailed, Finish
  <2>4. /\ undone \subseteq undone' /\ undone' \subseteq Order
        /\ PaidOrUndone(o) => o \in undone'
    BY <1>6 DEF MarkFailed, PaidOrUndone, WebTypeOK
  <2>5. order[o].kind = "payphone"
    BY <1>6 DEF MarkFailed, CallInv
  <2>6. WebTypeOK' /\ WebInv' /\ KeepsRows
    BY <2>2, <2>3, <2>4, <2>5, SaveWeb DEF FeeSaved, ClearedElsewhere, WebTypeOK
  <2>7. \A p \in Order : order'[p].estado \in Served => order[p].estado \in Served
    BY <2>2, <2>3 DEF WebTypeOK, Served
  <2> QED BY <1>0, <2>6, <2>7, StaysServed
<1>7. ASSUME NEW o \in Order, ReapWebOrder(o)
      PROVE  WebTypeOK' /\ WebInv' /\ KeepsRows /\ ServedIsPaid'
  <2> PICK row : row = [order[o] EXCEPT !.payment = "FAILED", !.estado = "CANCELADO"]
    OBVIOUS
  <2> order[o] \in Row
    BY DEF WebTypeOK
  <2>2. /\ row \in Row /\ row.estado = "CANCELADO" /\ row.payment = "FAILED"
        /\ row.kind = order[o].kind /\ row.driver = order[o].driver
        /\ row.confirmation = order[o].confirmation
        /\ row.delivered = order[o].delivered /\ row.fee = order[o].fee
    BY DEF Row, Estado, Payment
  <2>3. /\ order' = [order EXCEPT ![o] = row]
        /\ UNCHANGED <<call, answer, left, undone, cleared>>
        /\ Placed(o) /\ order[o].payment = "PENDING"
    BY <1>7 DEF ReapWebOrder
  <2>4. order[o].kind = "payphone" /\ (PaidOrUndone(o) => o \in undone')
    BY <2>3 DEF RowInv, WebTypeOK, Row, Kind, PaidOrUndone
  <2>5. WebTypeOK' /\ WebInv' /\ KeepsRows
    BY <2>2, <2>3, <2>4, SaveWeb DEF WebTypeOK, FeeSaved, ClearedElsewhere
  <2>6. \A p \in Order : order'[p].estado \in Served => order[p].estado \in Served
    BY <2>2, <2>3 DEF WebTypeOK, Served
  <2> QED BY <1>0, <2>5, <2>6, StaysServed
<1>8. ASSUME NEW o \in Order, NEW a \in {"approved", "declined"}, PayPhoneAnswers(o, a)
      PROVE  WebTypeOK' /\ WebInv' /\ KeepsRows /\ ServedIsPaid'
  <2>1. UNCHANGED <<order, call, undone, cleared>>
    BY <1>8 DEF PayPhoneAnswers
  <2>2. WebTypeOK'
    BY <1>8, WebAssumption DEF PayPhoneAnswers, WebTypeOK
  <2>3. WebInv' /\ KeepsRows
    BY <2>1 DEF WebInv, CallInv, RowInv, PaidOrUndone, KeepsRows, FeeSaved
  <2> QED BY <1>0, <2>1, <2>2, <2>3, StaysServed
<1> QED BY <1>1, <1>2, <1>3, <1>4, <1>5, <1>6, <1>7, <1>8 DEF WebStep, Panel, PayPhone

----------------------------------------------------------------------------
(* What the steps of the delivery have in common *)

\* The types of the delivery's own variables.
TalkTypeOK ==
  /\ quote \in [Order -> [Driver -> {"none", "GANADORA", "DESCARTADA"}]]
  /\ talk \in Talk
  /\ inbound \in Talk \cup {NoMessage}
  /\ tasks \subseteq Task
  /\ jobs \in [Order -> SUBSET {"COMANDA", "TICKET"}]
  /\ budget \in [drops: 0..MaxDrops, talk: 0..MaxTalk]
  /\ announced \subseteq Order /\ relinked \subseteq Order
  /\ dropped \subseteq Order /\ silent \subseteq Order

\* What the delivery knows is of deliveries, and answers are to totals that
\* were announced: kept when what is added is.
LEMMA TalkKept ==
  ASSUME TalkInv, announced \subseteq announced', relinked \subseteq relinked',
         TalkTypeOK, tasks' \subseteq Task,
         \A o \in Order : order[o].kind = "delivery" => order'[o].kind = "delivery",
         \A o \in Order, d \in Driver :
           quote'[o][d] # "none" => quote[o][d] # "none" \/ order[o].kind = "delivery",
         \A o \in announced' : o \in Order /\ (o \in announced \/ order[o].kind = "delivery"),
         \A t \in tasks' : t \in tasks \/
           /\ t.task \in {"quote", "notify"} => order[t.order].kind = "delivery"
           /\ t.task = "answer" => t.order \in announced \cup relinked,
         talk'.state = "awaiting" =>
           talk'.order \in announced' \cup relinked' \cup {OtherOrder},
         inbound'.state = "awaiting" =>
           inbound'.order \in announced' \cup relinked' \cup {OtherOrder}
  PROVE  TalkInv'
<1>1. \A t \in Task : t.order \in Order
  BY DEF Task
<1>2. \A o \in Order, d \in Driver : quote'[o][d] # "none" => order'[o].kind = "delivery"
  BY DEF TalkInv
<1>3. \A o \in announced' : order'[o].kind = "delivery"
  BY DEF TalkInv
<1>4. ASSUME NEW t \in tasks'
      PROVE  /\ t.task \in {"quote", "notify"} => order'[t.order].kind = "delivery"
             /\ t.task = "answer" => t.order \in announced' \cup relinked'
  BY <1>1, <1>4 DEF TalkInv
<1> QED BY <1>2, <1>3, <1>4 DEF TalkInv

\* What was left to a task is done, on its way or lost: kept when a task goes
\* away only by being done or lost, and what is newly left has its task.
LEMMA FollowUpKept ==
  ASSUME FollowUpUnlessDropped, dropped \subseteq dropped', announced \subseteq announced',
         silent \subseteq silent',
         \A o \in Order : jobs[o] \subseteq jobs'[o],
         \A t \in tasks : \/ t \in tasks' \/ t.order \in dropped'
                          \/ t.task \notin {"notify", "ticket"}
                          \/ t.task = "notify" /\ t.order \in announced' \cup silent'
                          \/ t.task = "ticket" /\ "TICKET" \in jobs'[t.order],
         \A o \in Order : Winner(o)' # {} =>
           Winner(o) # {} \/ o \in dropped' \/ NotifyTask(o) \in tasks',
         \A o \in Order : order'[o].delivered =>
           order[o].delivered \/ o \in dropped' \/ TicketTask(o) \in tasks'
  PROVE  FollowUpUnlessDropped'
<1> SUFFICES ASSUME NEW o \in Order
             PROVE  /\ Winner(o)' # {} /\ o \notin silent' =>
                         o \in announced' \cup dropped' \/ NotifyTask(o) \in tasks'
                    /\ order'[o].delivered =>
                         "TICKET" \in jobs'[o] \/ o \in dropped' \/ TicketTask(o) \in tasks'
  BY DEF FollowUpUnlessDropped, NotifyTask, TicketTask
<1>1. /\ NotifyTask(o).task = "notify" /\ NotifyTask(o).order = o
      /\ TicketTask(o).task = "ticket" /\ TicketTask(o).order = o
  BY DEF NotifyTask, TicketTask
<1>2. Winner(o)' # {} /\ o \notin silent' =>
        o \in announced' \cup dropped' \/ NotifyTask(o) \in tasks'
  BY <1>1 DEF FollowUpUnlessDropped
<1>3. order'[o].delivered =>
        "TICKET" \in jobs'[o] \/ o \in dropped' \/ TicketTask(o) \in tasks'
  BY <1>1 DEF FollowUpUnlessDropped
<1> QED BY <1>2, <1>3

\* A step of the delivery that changes no row keeps what is said of the rows.
LEMMA RowsUnchanged ==
  ASSUME DeliveryInv, UNCHANGED webVars, announced \subseteq announced', relinked' = relinked
  PROVE  WebTypeOK' /\ WebInv' /\ ServedIsPaid' /\ AnswerMeetsItsTotal'
<1> UNCHANGED <<order, call, answer, left, undone, cleared>>
  BY DEF webVars
<1>1. WebTypeOK' /\ WebInv'
  BY DEF DeliveryInv, TypeOK, WebTypeOK, WebInv, CallInv, RowInv, PaidOrUndone, Placed
<1>2. ServedIsPaid' /\ AnswerMeetsItsTotal'
  BY DEF DeliveryInv, ServedIsPaid, AnswerMeetsItsTotal
<1> QED BY <1>1, <1>2

\* A step of the delivery that changes the row of an order, never its payment.
LEMMA RowChanged ==
  ASSUME DeliveryInv, NEW o \in Order, NEW row \in Row,
         order' = [order EXCEPT ![o] = row], UNCHANGED <<call, answer, left, undone>>,
         UNCHANGED <<announced, relinked>>, cleared' \subseteq Order,
         row.kind = order[o].kind, row.payment = order[o].payment,
         row.driver # NoDriver => row.kind = "delivery",
         row.estado = "LISTO" => PaidOrUndone(o),
         row.estado \in Served => PaidOrUndone(o) \/ o \in relinked,
         row.confirmation # "PENDIENTE" => o \in announced \cup relinked
  PROVE  /\ WebTypeOK' /\ WebInv' /\ ServedIsPaid' /\ AnswerMeetsItsTotal'
         /\ order'[o] = row
         /\ \A p \in Order : p # o => order'[p] = order[p]
<1> WebTypeOK /\ CallInv /\ RowInv /\ ServedIsPaid /\ AnswerMeetsItsTotal
  BY DEF DeliveryInv, TypeOK, WebInv
<1>1. /\ order' \in [Order -> Row] /\ order'[o] = row
      /\ \A p \in Order : p # o => order'[p] = order[p]
  BY DEF WebTypeOK
<1>2. WebTypeOK'
  BY <1>1 DEF WebTypeOK
<1>3. \A p \in Order : /\ order'[p].kind = order[p].kind
                       /\ order'[p].payment = order[p].payment
  BY <1>1
<1>4. RowInv'
  BY <1>1 DEF RowInv, PaidOrUndone
<1>5. CallInv'
  BY <1>3 DEF CallInv, PaidOrUndone, Placed
<1>6. ServedIsPaid' /\ AnswerMeetsItsTotal'
  BY <1>1 DEF ServedIsPaid, AnswerMeetsItsTotal, PaidOrUndone
<1> QED BY <1>1, <1>2, <1>4, <1>5, <1>6 DEF WebInv

\* A transaction sends its task, or its order is one of those that lost one.
LEMMA ThenSends ==
  ASSUME TalkTypeOK, NEW t \in Task, Then(t)
  PROVE  /\ tasks' \subseteq tasks \cup {t} /\ tasks \subseteq tasks' /\ tasks' \subseteq Task
         /\ budget' \in [drops: 0..MaxDrops, talk: 0..MaxTalk]
         /\ dropped \subseteq dropped' /\ dropped' \subseteq Order
         /\ t \in tasks' \/ t.order \in dropped'
<1>1. t.order \in Order
  BY DEF Task
<1>2. budget' \in [drops: 0..MaxDrops, talk: 0..MaxTalk]
  BY DeliveryAssumption DEF Then, TalkTypeOK
<1> QED BY <1>1, <1>2 DEF Then, TalkTypeOK

\* A worker takes a task and sends the next, unless it dies before.
LEMMA TakingSends ==
  ASSUME TalkTypeOK, NEW t \in tasks, NEW next \in SUBSET Task, Taking(t, next)
  PROVE  /\ tasks' \subseteq tasks \cup next /\ tasks' \subseteq Task
         /\ budget' \in [drops: 0..MaxDrops, talk: 0..MaxTalk]
         /\ dropped \subseteq dropped' /\ dropped' \subseteq Order
         /\ \A u \in tasks : u # t => u \in tasks'
         /\ next \subseteq tasks' \/ t.order \in dropped'
<1>1. t.order \in Order
  BY DEF Task, TalkTypeOK
<1>2. budget' \in [drops: 0..MaxDrops, talk: 0..MaxTalk]
  BY DeliveryAssumption DEF Taking, TalkTypeOK
<1>3. tasks' \subseteq tasks \cup next /\ (\A u \in tasks : u # t => u \in tasks')
  BY DEF Taking
<1>4. /\ dropped \subseteq dropped' /\ dropped' \subseteq Order
      /\ next \subseteq tasks' \/ t.order \in dropped'
  BY <1>1 DEF Taking, TalkTypeOK
<1> QED BY <1>2, <1>3, <1>4 DEF TalkTypeOK

\* The tasks that exist, each with its fields.
LEMMA Tasks ==
  ASSUME NEW o \in Order, NEW d \in Driver
  PROVE  /\ QuoteTask(o, d) \in Task /\ NotifyTask(o) \in Task
         /\ TicketTask(o) \in Task /\ JobsTask(o) \in Task
BY DEF QuoteTask, NotifyTask, TicketTask, JobsTask, Task

LEMMA QuoteTasks ==
  ASSUME NEW t \in Task, t.task = "quote"
  PROVE  t.order \in Order /\ t.driver \in Driver
BY DEF Task

LEMMA AnswerTasks ==
  ASSUME NEW t \in Task, t.task = "answer"
  PROVE  t.order \in Order /\ t.decision \in Decision
BY DEF Task

----------------------------------------------------------------------------
(* The steps of the delivery *)

\* Placing an order: its row was empty, so no quote, total or answer is of it.
LEMMA PlaceOrderInv ==
  ASSUME DeliveryInv, NEW o \in Order, NEW kind \in {"payphone", "takeaway", "delivery"},
         PlaceOrder(o, kind)
  PROVE  DeliveryInv'
<1> /\ WebTypeOK /\ CallInv /\ RowInv /\ TalkInv /\ TalkTypeOK
    /\ ServedIsPaid /\ AnswerMeetsItsTotal /\ WinnerSetsFee /\ FollowUpUnlessDropped
  BY DEF DeliveryInv, TypeOK, WebInv, TalkTypeOK
<1>1. /\ order[o].kind = "none" /\ order' = [order EXCEPT ![o] = NewRow(kind)]
      /\ UNCHANGED <<call, answer, left, undone, cleared>>
  BY DEF PlaceOrder, CreateWebOrder, Placed
<1>2. /\ \/ /\ talk' = [talk EXCEPT !.order = o]
            /\ relinked' = IF talk.state = "awaiting" THEN relinked \cup {o} ELSE relinked
            /\ UNCHANGED silent
         \/ UNCHANGED <<talk, relinked>> /\ silent' = silent \cup {o}
      /\ UNCHANGED <<quote, jobs, inbound, tasks, budget, announced, dropped>>
  BY DEF PlaceOrder
<1>3. /\ NewRow(kind).kind = kind /\ NewRow(kind).driver = NoDriver
      /\ NewRow(kind).fee = "zero" /\ NewRow(kind).confirmation = "PENDIENTE"
      /\ NewRow(kind).estado \in QuoteEditable /\ NewRow(kind).delivered = FALSE
      /\ NewRow(kind).payment = IF kind = "payphone" THEN "PENDING" ELSE "PAID"
  BY DEF NewRow, NoRow, QuoteEditable
<1>4. NewRow(kind) \in Row
  BY DEF NewRow, NoRow, Row, Kind, Estado, Payment, Fee
<1>5. /\ order' \in [Order -> Row] /\ order'[o] = NewRow(kind)
      /\ \A p \in Order : p # o => order'[p] = order[p]
  BY <1>1, <1>4 DEF WebTypeOK
<1>6. relinked \subseteq relinked' /\ relinked' \subseteq Order
  BY <1>2 DEF TalkTypeOK
<1>7. /\ talk' \in Talk /\ silent' \subseteq Order /\ silent \subseteq silent'
      /\ talk' = talk \/ (talk'.order = o /\ talk'.state = talk.state /\ UNCHANGED silent)
  BY <1>2 DEF TalkTypeOK, Talk
<1>8. TypeOK'
  BY <1>1, <1>2, <1>5, <1>6, <1>7 DEF TypeOK, WebTypeOK, TalkTypeOK
<1>9. CallInv'
  <2>1. \A h \in Handler : call[h].op # "idle" => order'[call[h].order] = order[call[h].order]
    BY <1>1, <1>5 DEF CallInv, Placed
  <2> QED BY <1>1, <2>1 DEF CallInv, Placed, PaidOrUndone
<1>10. RowInv'
  BY <1>1, <1>3, <1>5 DEF RowInv, PaidOrUndone, QuoteEditable
<1>11. TalkInv'
  <2>1. talk'.state = "awaiting" =>
          talk'.order \in announced' \cup relinked' \cup {OtherOrder}
    BY <1>2, <1>6, <1>7 DEF TalkInv
  <2>2. \A p \in Order : order[p].kind = "delivery" => order'[p].kind = "delivery"
    BY <1>1, <1>5
  <2>3. inbound'.state = "awaiting" =>
          inbound'.order \in announced' \cup relinked' \cup {OtherOrder}
    BY <1>2, <1>6 DEF TalkInv
  <2> QED BY <1>2, <1>6, <2>1, <2>2, <2>3, TalkKept DEF TalkTypeOK
<1>12. ServedIsPaid' /\ AnswerMeetsItsTotal'
  BY <1>1, <1>2, <1>3, <1>5, <1>6 DEF ServedIsPaid, AnswerMeetsItsTotal, Served, QuoteEditable
<1>13. Winner(o) = {}
  BY <1>1 DEF Winner, TalkInv
<1>14. WinnerSetsFee'
  <2>1. \A p \in Order : Winner(p)' = Winner(p)
    BY <1>2 DEF Winner
  <2>2. \A p \in Order : Winner(p) # {} => order'[p] = order[p]
    BY <1>5, <1>13
  <2> QED BY <1>1, <2>1, <2>2 DEF WinnerSetsFee
<1>15. FollowUpUnlessDropped'
  BY <1>2, <1>3, <1>5, <1>7, FollowUpKept DEF Winner
<1> QED BY <1>8, <1>9, <1>10, <1>11, <1>12, <1>14, <1>15 DEF DeliveryInv, WebInv

\* A quote is asked for.
LEMMA SubmitQuoteInv ==
  ASSUME DeliveryInv, NEW o \in Order, NEW d \in Driver, SubmitQuote(o, d)
  PROVE  DeliveryInv'
<1> /\ TalkInv /\ TalkTypeOK /\ WinnerSetsFee /\ FollowUpUnlessDropped
  BY DEF DeliveryInv, TypeOK, WebInv, TalkTypeOK
<1>1. /\ order[o].kind = "delivery" /\ tasks' = tasks \cup {QuoteTask(o, d)}
      /\ UNCHANGED <<webVars, quote, jobs, talk, inbound, budget, announced, relinked, dropped,
                     silent>>
  BY DEF SubmitQuote
<1>2. /\ QuoteTask(o, d).task = "quote" /\ QuoteTask(o, d).order = o
      /\ QuoteTask(o, d) \in Task
  BY Tasks DEF QuoteTask
<1>3. order' = order /\ cleared' = cleared
  BY <1>1 DEF webVars
<1>4. WebTypeOK' /\ WebInv' /\ ServedIsPaid' /\ AnswerMeetsItsTotal'
  BY <1>1, RowsUnchanged
<1>5. TypeOK'
  BY <1>1, <1>2, <1>4 DEF TypeOK, TalkTypeOK
<1>6. TalkInv'
  BY <1>1, <1>2, <1>3, TalkKept DEF TalkTypeOK, TalkInv
<1>7. WinnerSetsFee'
  BY <1>1, <1>3 DEF WinnerSetsFee, Winner
<1>8. FollowUpUnlessDropped'
  BY <1>1, <1>3, FollowUpKept DEF Winner
<1> QED BY <1>4, <1>5, <1>6, <1>7, <1>8 DEF DeliveryInv

\* The quote task: the winner sets the fee; any other changes no row.
LEMMA SetQuoteInv ==
  ASSUME DeliveryInv, NEW t \in tasks, SetQuoteAndNotify(t)
  PROVE  DeliveryInv'
<1> /\ WebTypeOK /\ TalkInv /\ TalkTypeOK /\ RowInv
    /\ AnswerMeetsItsTotal /\ WinnerSetsFee /\ FollowUpUnlessDropped
  BY DEF DeliveryInv, TypeOK, WebInv, TalkTypeOK
<1> PICK o \in Order, d \in Driver : o = t.order /\ d = t.driver
  BY QuoteTasks DEF SetQuoteAndNotify, TalkTypeOK
<1>1. /\ t.task = "quote" /\ order[o].kind = "delivery"
      /\ UNCHANGED <<call, answer, left, undone, jobs, talk, inbound, announced, relinked,
                     silent>>
  BY DEF SetQuoteAndNotify, TalkInv
<1>2. CASE Taking(t, {}) /\ UNCHANGED <<order, cleared>> /\
           (quote' = quote \/ quote' = [quote EXCEPT ![o][d] = "DESCARTADA"])
  <2>1. UNCHANGED webVars
    BY <1>1, <1>2 DEF webVars
  <2>2. WebTypeOK' /\ WebInv' /\ ServedIsPaid' /\ AnswerMeetsItsTotal'
    BY <1>1, <2>1, RowsUnchanged
  <2>3. /\ quote' \in [Order -> [Driver -> {"none", "GANADORA", "DESCARTADA"}]]
        /\ \A p \in Order, e \in Driver : quote'[p][e] # "none" =>
             quote[p][e] # "none" \/ order[p].kind = "delivery"
        /\ \A p \in Order, e \in Driver : quote'[p][e] = "GANADORA" => quote[p][e] = "GANADORA"
    <3>1. CASE quote' = quote
      BY <3>1 DEF TalkTypeOK
    <3>2. CASE quote' = [quote EXCEPT ![o][d] = "DESCARTADA"]
      <4>1. quote' = [quote EXCEPT ![o] = [quote[o] EXCEPT ![d] = "DESCARTADA"]]
        BY <3>2 DEF TalkTypeOK
      <4>2. /\ quote'[o] = [quote[o] EXCEPT ![d] = "DESCARTADA"]
            /\ \A p \in Order : p # o => quote'[p] = quote[p]
        BY <4>1 DEF TalkTypeOK
      <4>3. /\ quote'[o] \in [Driver -> {"none", "GANADORA", "DESCARTADA"}]
            /\ quote'[o][d] = "DESCARTADA"
            /\ \A e \in Driver : e # d => quote'[o][e] = quote[o][e]
        BY <4>2 DEF TalkTypeOK
      <4>4. quote' \in [Order -> [Driver -> {"none", "GANADORA", "DESCARTADA"}]]
        BY <4>1, <4>2, <4>3 DEF TalkTypeOK
      <4> QED BY <1>1, <4>2, <4>3, <4>4
    <3> QED BY <1>2, <3>1, <3>2
  <2>4. /\ tasks' \subseteq tasks /\ tasks' \subseteq Task
        /\ budget' \in [drops: 0..MaxDrops, talk: 0..MaxTalk]
        /\ dropped \subseteq dropped' /\ dropped' \subseteq Order
        /\ \A u \in tasks : u # t => u \in tasks'
    BY <1>2, TakingSends
  <2>5. TypeOK'
    BY <1>1, <2>2, <2>3, <2>4 DEF TypeOK, TalkTypeOK
  <2>6. TalkInv'
    BY <1>1, <1>2, <2>3, <2>4, TalkKept DEF TalkTypeOK, TalkInv
  <2>7. \A p \in Order : Winner(p)' \subseteq Winner(p)
    BY <2>3 DEF Winner
  <2>8. WinnerSetsFee'
    BY <1>2, <2>7 DEF WinnerSetsFee
  <2>9. FollowUpUnlessDropped'
    BY <1>1, <1>2, <2>4, <2>7, FollowUpKept
  <2> QED BY <2>2, <2>5, <2>6, <2>8, <2>9 DEF DeliveryInv
<1>3. CASE /\ Taking(t, {NotifyTask(o)}) /\ Winner(o) = {} /\ cleared' = cleared \ {o}
           /\ quote' = [quote EXCEPT ![o][d] = "GANADORA"]
           /\ order' = [order EXCEPT ![o].fee = d, ![o].estado = "PENDIENTE",
                                     ![o].confirmation = "PENDIENTE"]
  <2> order[o] \in Row
    BY DEF WebTypeOK
  <2> PICK row : row = [order[o] EXCEPT !.fee = d, !.estado = "PENDIENTE",
                                        !.confirmation = "PENDIENTE"]
    OBVIOUS
  <2>1. /\ row \in Row /\ row.fee = d /\ row.estado = "PENDIENTE"
        /\ row.confirmation = "PENDIENTE" /\ row.kind = order[o].kind
        /\ row.payment = order[o].payment /\ row.driver = order[o].driver
        /\ row.delivered = order[o].delivered
    BY DEF Row, Fee, Estado
  <2>2. order' = [order EXCEPT ![o] = row]
    BY <1>3 DEF WebTypeOK, Row
  <2>3. /\ WebTypeOK' /\ WebInv' /\ ServedIsPaid' /\ AnswerMeetsItsTotal'
        /\ order'[o] = row /\ \A p \in Order : p # o => order'[p] = order[p]
    <3>1. cleared' \subseteq Order
      BY <1>3 DEF WebTypeOK
    <3> QED BY <1>1, <2>1, <2>2, <3>1, RowChanged DEF Served
  <2>4. /\ quote' \in [Order -> [Driver -> {"none", "GANADORA", "DESCARTADA"}]]
        /\ Winner(o)' = {d}
        /\ \A p \in Order : p # o => quote'[p] = quote[p]
    BY <1>3 DEF TalkTypeOK, Winner
  <2>5. NotifyTask(o) \in Task /\ NotifyTask(o).task = "notify" /\ NotifyTask(o).order = o
    BY Tasks DEF NotifyTask
  <2>6. /\ tasks' \subseteq tasks \cup {NotifyTask(o)} /\ tasks' \subseteq Task
        /\ budget' \in [drops: 0..MaxDrops, talk: 0..MaxTalk]
        /\ dropped \subseteq dropped' /\ dropped' \subseteq Order
        /\ \A u \in tasks : u # t => u \in tasks'
        /\ NotifyTask(o) \in tasks' \/ o \in dropped'
    BY <1>3, <2>5, TakingSends
  <2>7. TypeOK'
    BY <1>1, <2>3, <2>4, <2>6 DEF TypeOK, TalkTypeOK
  <2>8. TalkInv'
    <3>1. \A p \in Order : order[p].kind = "delivery" => order'[p].kind = "delivery"
      BY <2>1, <2>3
    <3>2. \A p \in Order, e \in Driver :
            quote'[p][e] # "none" => quote[p][e] # "none" \/ order[p].kind = "delivery"
      BY <1>1, <2>4
    <3>3. \A u \in tasks' : u \in tasks \/
            /\ u.task \in {"quote", "notify"} => order[u.order].kind = "delivery"
            /\ u.task = "answer" => u.order \in announced \cup relinked
      BY <1>1, <2>5, <2>6
    <3>4. /\ \A p \in announced' : p \in Order /\ p \in announced
          /\ talk'.state = "awaiting" =>
               talk'.order \in announced' \cup relinked' \cup {OtherOrder}
          /\ inbound'.state = "awaiting" =>
               inbound'.order \in announced' \cup relinked' \cup {OtherOrder}
      BY <1>1 DEF TalkInv, TalkTypeOK
    <3> QED BY <1>1, <2>6, <3>1, <3>2, <3>3, <3>4, TalkKept
  <2>9. \A p \in Order : p # o => Winner(p)' = Winner(p)
    BY <2>4 DEF Winner
  <2>10. WinnerSetsFee'
    <3>1. o \notin cleared' /\ \A p \in Order : p # o => (p \in cleared' <=> p \in cleared)
      BY <1>3
    <3>2. \A e \in Winner(o)' : Winner(o)' = {e} /\ order'[o].fee \in {e, "panel"}
      BY <2>1, <2>3, <2>4
    <3>3. \A p \in Order : p # o => \A e \in Winner(p)' :
            /\ Winner(p)' = {e}
            /\ p \in cleared' => order'[p].fee \in {"zero", order'[p].driver}
            /\ p \notin cleared' => order'[p].fee \in {e, "panel"}
      BY <2>3, <2>9, <3>1 DEF WinnerSetsFee
    <3> QED BY <3>1, <3>2, <3>3 DEF WinnerSetsFee
  <2>11. FollowUpUnlessDropped'
    BY <1>1, <2>1, <2>3, <2>6, <2>9, FollowUpKept
  <2> QED BY <2>3, <2>7, <2>8, <2>10, <2>11 DEF DeliveryInv
<1> QED BY <1>2, <1>3 DEF SetQuoteAndNotify

\* The total is sent to the customer.
LEMMA NotifyInv ==
  ASSUME DeliveryInv, NEW t \in tasks, NotifyCustomerQuoteTotal(t)
  PROVE  DeliveryInv'
<1> /\ TalkInv /\ TalkTypeOK /\ WinnerSetsFee /\ FollowUpUnlessDropped
  BY DEF DeliveryInv, TypeOK, TalkTypeOK
<1>1. /\ t.task = "notify" /\ Taking(t, {})
      /\ \/ t.order \in silent /\ UNCHANGED <<talk, announced>>
         \/ /\ talk' = [state |-> "awaiting", order |-> t.order]
            /\ announced' = announced \cup {t.order}
      /\ UNCHANGED <<webVars, quote, jobs, inbound, relinked, silent>>
  BY DEF NotifyCustomerQuoteTotal
<1>2. t.order \in Order /\ order[t.order].kind = "delivery"
  BY <1>1 DEF TalkTypeOK, Task, TalkInv
<1>3. order' = order /\ cleared' = cleared
  BY <1>1 DEF webVars
<1>4. WebTypeOK' /\ WebInv' /\ ServedIsPaid' /\ AnswerMeetsItsTotal'
  <2>1. announced \subseteq announced'
    BY <1>1
  <2> QED BY <1>1, <2>1, RowsUnchanged
<1>5. /\ tasks' \subseteq tasks /\ tasks' \subseteq Task
      /\ budget' \in [drops: 0..MaxDrops, talk: 0..MaxTalk]
      /\ dropped \subseteq dropped' /\ dropped' \subseteq Order
      /\ \A u \in tasks : u # t => u \in tasks'
  BY <1>1, TakingSends
<1>6. /\ talk' \in Talk /\ announced \subseteq announced'
      /\ talk' = talk \/ (talk'.order = t.order /\ t.order \in announced')
      /\ t.order \in announced' \cup silent'
      /\ announced' \subseteq announced \cup {t.order}
  BY <1>1, <1>2 DEF Talk, TalkTypeOK
<1>7. TypeOK'
  BY <1>1, <1>2, <1>4, <1>5, <1>6 DEF TypeOK, TalkTypeOK
<1>8. TalkInv'
  <2>1. \A p \in announced' :
          p \in Order /\ (p \in announced \/ order[p].kind = "delivery")
    BY <1>2, <1>6 DEF TalkTypeOK
  <2>2. talk'.state = "awaiting" =>
          talk'.order \in announced' \cup relinked' \cup {OtherOrder}
    BY <1>1, <1>6 DEF TalkInv
  <2>3. inbound'.state = "awaiting" =>
          inbound'.order \in announced' \cup relinked' \cup {OtherOrder}
    BY <1>1, <1>6 DEF TalkInv
  <2> QED BY <1>1, <1>3, <1>5, <1>6, <2>1, <2>2, <2>3, TalkKept
<1>9. WinnerSetsFee'
  BY <1>1, <1>3 DEF WinnerSetsFee, Winner
<1>10. FollowUpUnlessDropped'
  BY <1>1, <1>3, <1>5, <1>6, FollowUpKept DEF Winner
<1> QED BY <1>4, <1>7, <1>8, <1>9, <1>10 DEF DeliveryInv

\* The customer's answer is written, whatever the order's state: it was paid,
\* or the order is one that was linked to the wait for another's answer.
LEMMA AnswerInv ==
  ASSUME DeliveryInv, NEW t \in tasks, ProcessCustomerConfirmation(t)
  PROVE  DeliveryInv'
<1> /\ WebTypeOK /\ TalkInv /\ TalkTypeOK /\ RowInv
    /\ AnswerMeetsItsTotal /\ WinnerSetsFee /\ FollowUpUnlessDropped
  BY DEF DeliveryInv, TypeOK, WebInv, TalkTypeOK
<1>1. /\ t.task = "answer"
      /\ UNCHANGED <<call, answer, left, undone, quote, jobs, talk, inbound, announced,
                     relinked, silent, cleared>>
  BY DEF ProcessCustomerConfirmation
<1> PICK o \in Order, d \in Decision : o = t.order /\ d = t.decision
  BY <1>1, AnswerTasks DEF TalkTypeOK
<1> PICK e \in {"COCINA", "CANCELADO"} : e = IF d = "ACEPTADA" THEN "COCINA" ELSE "CANCELADO"
  OBVIOUS
<1> PICK next \in SUBSET {JobsTask(o)} : next = IF d = "ACEPTADA" THEN {JobsTask(o)} ELSE {}
  OBVIOUS
<1>2. /\ order' = [order EXCEPT ![o].confirmation = d, ![o].estado = e]
      /\ Taking(t, next)
  BY DEF ProcessCustomerConfirmation
<1> order[o] \in Row
  BY DEF WebTypeOK
<1> PICK row : row = [order[o] EXCEPT !.confirmation = d, !.estado = e]
  OBVIOUS
<1>3. /\ row \in Row /\ row.estado = e /\ row.fee = order[o].fee
      /\ row.kind = order[o].kind /\ row.payment = order[o].payment
      /\ row.driver = order[o].driver /\ row.delivered = order[o].delivered
  BY DEF Row, Estado, Decision
<1>4. order' = [order EXCEPT ![o] = row]
  BY <1>2 DEF WebTypeOK, Row
<1>5. (o \in announced \cup relinked /\ PaidOrUndone(o)) \/ o \in relinked
  BY <1>1 DEF TalkInv, RowInv, PaidOrUndone
<1>6. /\ WebTypeOK' /\ WebInv' /\ ServedIsPaid' /\ AnswerMeetsItsTotal'
      /\ order'[o] = row /\ \A p \in Order : p # o => order'[p] = order[p]
  <2>1. row.driver # NoDriver => row.kind = "delivery"
    BY <1>3 DEF RowInv
  <2>2. row.estado # "LISTO" /\ (PaidOrUndone(o) \/ o \in relinked)
    BY <1>3, <1>5
  <2>3. o \in announced \cup relinked
    BY <1>5
  <2> QED BY <1>1, <1>3, <1>4, <2>1, <2>2, <2>3, RowChanged DEF WebTypeOK
<1>7. JobsTask(o) \in Task /\ JobsTask(o).task = "jobs"
  BY DEF JobsTask, Task
<1>8. /\ tasks' \subseteq tasks \cup next /\ tasks' \subseteq Task
      /\ budget' \in [drops: 0..MaxDrops, talk: 0..MaxTalk]
      /\ dropped \subseteq dropped' /\ dropped' \subseteq Order
      /\ \A u \in tasks : u # t => u \in tasks'
  BY <1>2, <1>7, TakingSends
<1>9. TypeOK'
  BY <1>1, <1>6, <1>8 DEF TypeOK, TalkTypeOK
<1>10. \A p \in Order : /\ order'[p].kind = order[p].kind /\ order'[p].fee = order[p].fee
                        /\ order'[p].driver = order[p].driver
                        /\ order'[p].delivered = order[p].delivered
  BY <1>3, <1>6
<1>11. TalkInv'
  BY <1>1, <1>7, <1>8, <1>10, TalkKept DEF TalkTypeOK, TalkInv
<1>12. WinnerSetsFee'
  BY <1>1, <1>10 DEF WinnerSetsFee, Winner
<1>13. FollowUpUnlessDropped'
  BY <1>1, <1>8, <1>10, FollowUpKept DEF Winner
<1> QED BY <1>6, <1>9, <1>11, <1>12, <1>13 DEF DeliveryInv

\* A driver claims an order: only a fee that is zero becomes theirs, one that
\* nobody set or the panel cleared.
LEMMA ClaimInv ==
  ASSUME DeliveryInv, NEW o \in Order, NEW d \in Driver, ClaimDeliveryOrder(o, d)
  PROVE  DeliveryInv'
<1> /\ WebTypeOK /\ TalkInv /\ TalkTypeOK /\ RowInv
    /\ AnswerMeetsItsTotal /\ WinnerSetsFee /\ FollowUpUnlessDropped
  BY DEF DeliveryInv, TypeOK, WebInv, TalkTypeOK
<1>1. /\ order[o].kind = "delivery"
      /\ UNCHANGED <<call, answer, left, undone, quote, jobs, talk, inbound, announced,
                     relinked, silent, cleared>>
  BY DEF ClaimDeliveryOrder
<1> order[o] \in Row
  BY DEF WebTypeOK
<1>2. PICK row \in Row :
        /\ row.estado = order[o].estado /\ row.driver = d
        /\ row.fee = IF order[o].fee = "zero" THEN d ELSE order[o].fee
        /\ row.kind = order[o].kind /\ row.payment = order[o].payment
        /\ row.confirmation = order[o].confirmation /\ row.delivered = order[o].delivered
        /\ order' = [order EXCEPT ![o] = row]
  <2> DEFINE r == [order[o] EXCEPT !.driver = d, !.fee = IF @ = "zero" THEN d ELSE @]
  <2>1. /\ r \in Row /\ r.estado = order[o].estado /\ r.driver = d
        /\ r.fee = IF order[o].fee = "zero" THEN d ELSE order[o].fee
        /\ r.kind = order[o].kind /\ r.payment = order[o].payment
        /\ r.confirmation = order[o].confirmation /\ r.delivered = order[o].delivered
    BY DEF Row, Fee
  <2>2. order' = [order EXCEPT ![o] = r]
    BY DEF ClaimDeliveryOrder, WebTypeOK, Row
  <2> HIDE DEF r
  <2> QED BY <2>1, <2>2
<1>4. PaidOrUndone(o)
  BY <1>1 DEF RowInv, PaidOrUndone
<1>5. /\ WebTypeOK' /\ WebInv' /\ ServedIsPaid' /\ AnswerMeetsItsTotal'
      /\ order'[o] = row /\ \A p \in Order : p # o => order'[p] = order[p]
  <2>1. row.confirmation # "PENDIENTE" => o \in announced \cup relinked
    BY <1>2 DEF AnswerMeetsItsTotal
  <2> QED BY <1>1, <1>2, <1>4, <2>1, RowChanged DEF WebTypeOK
<1>6. QuoteTask(o, d) \in Task /\ QuoteTask(o, d).task = "quote" /\ QuoteTask(o, d).order = o
  BY Tasks DEF QuoteTask
<1>7. /\ tasks' \subseteq tasks \cup {QuoteTask(o, d)} /\ tasks' \subseteq Task
      /\ budget' \in [drops: 0..MaxDrops, talk: 0..MaxTalk]
      /\ dropped \subseteq dropped' /\ dropped' \subseteq Order /\ tasks \subseteq tasks'
  <2>1. CASE Then(QuoteTask(o, d))
    BY <1>6, <2>1, ThenSends
  <2>2. CASE UNCHANGED <<tasks, budget, dropped>>
    BY <2>2 DEF TalkTypeOK
  <2> QED BY <2>1, <2>2 DEF ClaimDeliveryOrder
<1>8. TypeOK'
  BY <1>1, <1>5, <1>7 DEF TypeOK, TalkTypeOK
<1>9. TalkInv'
  <2>1. \A p \in Order : order[p].kind = "delivery" => order'[p].kind = "delivery"
    BY <1>2, <1>5
  <2> QED BY <1>1, <1>6, <1>7, <2>1, TalkKept DEF TalkTypeOK, TalkInv
<1>10. WinnerSetsFee'
  <2>1. \A p \in Order : Winner(p)' = Winner(p)
    BY <1>1 DEF Winner
  <2>2. CASE o \in cleared
    <3>1. order[o].driver = NoDriver /\ order[o].fee # NoDriver
      BY WebAssumption DEF ClaimDeliveryOrder, Row
    <3>2. Winner(o) # {} => row.fee \in {"zero", row.driver}
      BY <1>2, <2>2, <3>1 DEF WinnerSetsFee
    <3> QED BY <1>1, <1>5, <2>1, <2>2, <3>2 DEF WinnerSetsFee
  <2>3. CASE o \notin cleared
    <3>1. \A e \in Winner(o) : order[o].fee # "zero" /\ row.fee = order[o].fee
      BY <1>2, <2>3, WebAssumption DEF WinnerSetsFee, Winner
    <3>2. \A p \in Order : \A e \in Winner(p) : order'[p].fee = order[p].fee
      BY <1>5, <3>1
    <3> QED BY <1>1, <1>5, <2>1, <2>3, <3>2 DEF WinnerSetsFee
  <2> QED BY <2>2, <2>3
<1>11. FollowUpUnlessDropped'
  BY <1>1, <1>2, <1>5, <1>7, FollowUpKept DEF Winner
<1> QED BY <1>5, <1>8, <1>9, <1>10, <1>11 DEF DeliveryInv

\* The driver takes the order and hands it over: a driver's order is a
\* delivery, which was paid when it was placed.
LEMMA DriveInv ==
  ASSUME DeliveryInv, NEW o \in Order, NEW d \in Driver,
         MarkDeliveryInTransit(o, d) \/ ConfirmDeliveryCompleted(o, d)
  PROVE  DeliveryInv'
<1> /\ WebTypeOK /\ TalkInv /\ TalkTypeOK /\ RowInv
    /\ AnswerMeetsItsTotal /\ WinnerSetsFee /\ FollowUpUnlessDropped
  BY DEF DeliveryInv, TypeOK, WebInv, TalkTypeOK
<1>1. /\ order[o].driver = d
      /\ UNCHANGED <<call, answer, left, undone, quote, jobs, talk, inbound, announced,
                     relinked, silent, cleared>>
  BY DEF MarkDeliveryInTransit, ConfirmDeliveryCompleted, deliveryVars
<1>2. order[o].kind = "delivery" /\ PaidOrUndone(o)
  BY <1>1, WebAssumption DEF RowInv, PaidOrUndone, Fee
<1> order[o] \in Row
  BY DEF WebTypeOK
<1> DEFINE Moved(row) ==
             /\ row.fee = order[o].fee /\ row.kind = order[o].kind
             /\ row.payment = order[o].payment /\ row.driver = order[o].driver
             /\ row.confirmation = order[o].confirmation
<1>3. ASSUME NEW row \in Row, Moved(row), order' = [order EXCEPT ![o] = row]
      PROVE  /\ WebTypeOK' /\ WebInv' /\ ServedIsPaid' /\ AnswerMeetsItsTotal'
             /\ order'[o] = row /\ \A p \in Order : p # o => order'[p] = order[p]
             /\ WinnerSetsFee'
  <2>1. /\ WebTypeOK' /\ WebInv' /\ ServedIsPaid' /\ AnswerMeetsItsTotal'
        /\ order'[o] = row /\ \A p \in Order : p # o => order'[p] = order[p]
    BY <1>1, <1>2, <1>3, RowChanged DEF AnswerMeetsItsTotal, WebTypeOK
  <2>2. \A p \in Order : order'[p].fee = order[p].fee /\ order'[p].driver = order[p].driver
    BY <1>3, <2>1
  <2> QED BY <1>1, <2>1, <2>2 DEF WinnerSetsFee, Winner
<1>4. ASSUME tasks' \subseteq Task, budget' \in [drops: 0..MaxDrops, talk: 0..MaxTalk],
             dropped' \subseteq Order, WebTypeOK'
      PROVE  TypeOK'
  BY <1>1, <1>4 DEF TypeOK, TalkTypeOK
<1>5. CASE MarkDeliveryInTransit(o, d)
  <2> PICK row : row = [order[o] EXCEPT !.estado = "EN_CAMINO"]
    OBVIOUS
  <2>1. row \in Row /\ Moved(row) /\ row.delivered = order[o].delivered
    BY DEF Row, Estado
  <2>2. order' = [order EXCEPT ![o] = row] /\ UNCHANGED deliveryVars
    BY <1>5 DEF MarkDeliveryInTransit
  <2>3. /\ WebTypeOK' /\ WebInv' /\ ServedIsPaid' /\ AnswerMeetsItsTotal'
        /\ order'[o] = row /\ \A p \in Order : p # o => order'[p] = order[p]
        /\ WinnerSetsFee'
    BY <2>1, <2>2, <1>3
  <2>4. UNCHANGED <<tasks, budget, dropped>>
    BY <2>2 DEF deliveryVars
  <2>5. TypeOK'
    BY <1>4, <2>3, <2>4 DEF TalkTypeOK
  <2>6. \A p \in Order : /\ order'[p].kind = order[p].kind
                         /\ order'[p].delivered = order[p].delivered
    BY <2>1, <2>3
  <2>7. TalkInv'
    BY <1>1, <2>4, <2>6, TalkKept DEF TalkTypeOK, TalkInv
  <2>8. FollowUpUnlessDropped'
    BY <1>1, <2>4, <2>6, FollowUpKept DEF Winner
  <2> QED BY <2>3, <2>5, <2>7, <2>8 DEF DeliveryInv
<1>6. CASE ConfirmDeliveryCompleted(o, d)
  <2> PICK row : row = [order[o] EXCEPT !.delivered = TRUE, !.estado = "LISTO"]
    OBVIOUS
  <2>1. row \in Row /\ Moved(row)
    BY DEF Row, Estado
  <2>2. order' = [order EXCEPT ![o] = row] /\ Then(TicketTask(o))
    BY <1>6 DEF ConfirmDeliveryCompleted, WebTypeOK, Row
  <2>3. /\ WebTypeOK' /\ WebInv' /\ ServedIsPaid' /\ AnswerMeetsItsTotal'
        /\ order'[o] = row /\ \A p \in Order : p # o => order'[p] = order[p]
        /\ WinnerSetsFee'
    BY <2>1, <2>2, <1>3
  <2>4. TicketTask(o) \in Task /\ TicketTask(o).task = "ticket" /\ TicketTask(o).order = o
    BY DEF TicketTask, Task
  <2>5. /\ tasks' \subseteq tasks \cup {TicketTask(o)} /\ tasks \subseteq tasks'
        /\ tasks' \subseteq Task /\ budget' \in [drops: 0..MaxDrops, talk: 0..MaxTalk]
        /\ dropped \subseteq dropped' /\ dropped' \subseteq Order
        /\ TicketTask(o) \in tasks' \/ o \in dropped'
    BY <2>2, <2>4, ThenSends
  <2>6. TypeOK'
    BY <1>4, <2>3, <2>5
  <2>7. \A p \in Order : /\ order'[p].kind = order[p].kind
                         /\ p # o => order'[p].delivered = order[p].delivered
    BY <2>1, <2>3
  <2>8. TalkInv'
    BY <1>1, <2>4, <2>5, <2>7, TalkKept DEF TalkTypeOK, TalkInv
  <2>9. FollowUpUnlessDropped'
    BY <1>1, <2>5, <2>7, FollowUpKept DEF Winner
  <2> QED BY <2>3, <2>6, <2>8, <2>9 DEF DeliveryInv
<1> QED BY <1>5, <1>6

\* A task that prints, or is lost.
LEMMA PrintOrLoseInv ==
  ASSUME DeliveryInv, NEW t \in tasks, RunPrintTask(t) \/ LoseTask(t)
  PROVE  DeliveryInv'
<1> /\ TalkInv /\ TalkTypeOK /\ WinnerSetsFee /\ FollowUpUnlessDropped
  BY DEF DeliveryInv, TypeOK, TalkTypeOK
<1>1. UNCHANGED <<webVars, quote, talk, inbound, announced, relinked, silent>>
  BY DEF RunPrintTask, LoseTask
<1>2. order' = order /\ cleared' = cleared
  BY <1>1 DEF webVars
<1>3. WebTypeOK' /\ WebInv' /\ ServedIsPaid' /\ AnswerMeetsItsTotal'
  BY <1>1, RowsUnchanged
<1>4. t.order \in Order
  BY DEF TalkTypeOK, Task
<1>5. /\ tasks' \subseteq tasks /\ tasks' \subseteq Task
      /\ budget' \in [drops: 0..MaxDrops, talk: 0..MaxTalk]
      /\ dropped \subseteq dropped' /\ dropped' \subseteq Order
      /\ \A u \in tasks : u # t => u \in tasks'
      /\ jobs' \in [Order -> SUBSET {"COMANDA", "TICKET"}]
      /\ \A o \in Order : jobs[o] \subseteq jobs'[o]
      /\ \/ t.task \in {"ticket", "jobs"} /\ "TICKET" \in jobs'[t.order]
         \/ t.order \in dropped'
  <2>1. CASE RunPrintTask(t)
    <3>1. Taking(t, {}) /\ t.task \in {"ticket", "jobs"}
      BY <2>1 DEF RunPrintTask
    <3>2. /\ tasks' \subseteq tasks /\ tasks' \subseteq Task
          /\ budget' \in [drops: 0..MaxDrops, talk: 0..MaxTalk]
          /\ dropped \subseteq dropped' /\ dropped' \subseteq Order
          /\ \A u \in tasks : u # t => u \in tasks'
      BY <3>1, TakingSends
    <3> PICK kinds \in SUBSET {"COMANDA", "TICKET"} :
          /\ "TICKET" \in kinds
          /\ jobs' = [jobs EXCEPT ![t.order] = @ \cup kinds]
      BY <2>1 DEF RunPrintTask
    <3>3. /\ jobs' \in [Order -> SUBSET {"COMANDA", "TICKET"}]
          /\ \A o \in Order : jobs[o] \subseteq jobs'[o]
          /\ "TICKET" \in jobs'[t.order]
      BY <1>4 DEF TalkTypeOK
    <3> QED BY <3>1, <3>2, <3>3
  <2>2. CASE LoseTask(t)
    <3>1. /\ tasks' = tasks \ {t} /\ dropped' = dropped \cup {t.order}
          /\ jobs' = jobs
      BY <2>2 DEF LoseTask
    <3>2. budget' \in [drops: 0..MaxDrops, talk: 0..MaxTalk]
      BY <2>2, DeliveryAssumption DEF LoseTask, TalkTypeOK
    <3> QED BY <1>4, <3>1, <3>2 DEF TalkTypeOK
  <2> QED BY <2>1, <2>2
<1>6. TypeOK'
  BY <1>1, <1>3, <1>5 DEF TypeOK, TalkTypeOK
<1>7. TalkInv'
  BY <1>1, <1>2, <1>5, TalkKept DEF TalkTypeOK, TalkInv
<1>8. WinnerSetsFee'
  BY <1>1, <1>2 DEF WinnerSetsFee, Winner
<1>9. \A u \in tasks : \/ u \in tasks' \/ u.order \in dropped'
                       \/ u.task \notin {"notify", "ticket"}
                       \/ u.task = "ticket" /\ "TICKET" \in jobs'[u.order]
  BY <1>5
<1>10. FollowUpUnlessDropped'
  BY <1>1, <1>2, <1>5, <1>9, FollowUpKept DEF Winner
<1> QED BY <1>3, <1>6, <1>7, <1>8, <1>10 DEF DeliveryInv

\* The customer's conversation: it waits for an answer only of the order whose
\* total it was sent, of one it was linked to, or of another order; and what a
\* message decides is decided of the order that it read.
LEMMA ConversationInv ==
  ASSUME DeliveryInv, OtherOrderTalks \/ InboundRead \/ InboundDecides \/ InboundOther
  PROVE  DeliveryInv'
<1> /\ TalkInv /\ TalkTypeOK /\ WinnerSetsFee /\ FollowUpUnlessDropped
  BY DEF DeliveryInv, TypeOK, TalkTypeOK
<1>1. UNCHANGED <<webVars, quote, jobs, announced, relinked, dropped,
                     silent>>
  BY DEF OtherOrderTalks, InboundRead, InboundDecides, InboundOther
<1>2. order' = order /\ cleared' = cleared
  BY <1>1 DEF webVars
<1>3. WebTypeOK' /\ WebInv' /\ ServedIsPaid' /\ AnswerMeetsItsTotal'
  BY <1>1, RowsUnchanged
<1>4. budget' \in [drops: 0..MaxDrops, talk: 0..MaxTalk]
  BY DeliveryAssumption DEF OtherOrderTalks, InboundRead, InboundDecides, InboundOther,
     TalkTypeOK
<1>5. /\ talk' \in Talk
      /\ talk'.state = "awaiting" =>
           talk'.order \in announced \cup relinked \cup {OtherOrder}
  <2>1. talk.state \in {"other", "awaiting"} /\ talk.order \in Order \cup {OtherOrder}
    BY DEF TalkTypeOK, Talk
  <2>2. \/ talk' = talk
        \/ talk' = [talk EXCEPT !.order = OtherOrder]
        \/ talk' = [state |-> "awaiting", order |-> OtherOrder]
        \/ talk' = [talk EXCEPT !.state = "other"]
    BY DEF OtherOrderTalks, InboundRead, InboundDecides, InboundOther
  <2> QED BY <2>1, <2>2 DEF TalkTypeOK, Talk, TalkInv
<1>6. /\ inbound' \in Talk \cup {NoMessage}
      /\ inbound'.state = "awaiting" =>
           inbound'.order \in announced \cup relinked \cup {OtherOrder}
  <2>1. inbound' = inbound \/ inbound' = talk \/ inbound' = NoMessage
    BY DEF OtherOrderTalks, InboundRead, InboundDecides, InboundOther
  <2> QED BY <2>1 DEF TalkTypeOK, TalkInv, NoMessage
<1>7. tasks' = tasks \/ /\ inbound.state = "awaiting" /\ inbound.order # OtherOrder
                        /\ \E d \in Decision : tasks' = tasks \cup {AnswerTask(inbound.order, d)}
  BY DEF OtherOrderTalks, InboundRead, InboundDecides, InboundOther
<1>8. /\ tasks \subseteq tasks' /\ tasks' \subseteq Task
      /\ \A t \in tasks' \ tasks :
           t.task = "answer" /\ t.order \in announced \cup relinked
  <2>1. CASE tasks' = tasks
    BY <2>1 DEF TalkTypeOK
  <2>2. ASSUME inbound.state = "awaiting", inbound.order # OtherOrder,
               NEW d \in Decision, tasks' = tasks \cup {AnswerTask(inbound.order, d)}
        PROVE  /\ tasks \subseteq tasks' /\ tasks' \subseteq Task
               /\ \A t \in tasks' \ tasks :
                    t.task = "answer" /\ t.order \in announced \cup relinked
    <3> PICK o \in announced \cup relinked : o = inbound.order
      BY <2>2 DEF TalkInv
    <3>1. /\ AnswerTask(o, d).task = "answer" /\ AnswerTask(o, d).order = o
          /\ AnswerTask(o, d) \in Task
      BY DEF AnswerTask, Task, TalkTypeOK
    <3>2. tasks' = tasks \cup {AnswerTask(o, d)}
      BY <2>2
    <3> QED BY <3>1, <3>2 DEF TalkTypeOK
  <2> QED BY <1>7, <2>1, <2>2
<1>9. TypeOK'
  BY <1>1, <1>3, <1>4, <1>5, <1>6, <1>8 DEF TypeOK, TalkTypeOK
<1>10. TalkInv'
  <2>1. \A t \in tasks' : t \in tasks \/
          /\ t.task \in {"quote", "notify"} => order[t.order].kind = "delivery"
          /\ t.task = "answer" => t.order \in announced \cup relinked
    BY <1>8
  <2> QED BY <1>1, <1>2, <1>5, <1>6, <1>8, <2>1, TalkKept DEF TalkTypeOK
<1>11. WinnerSetsFee'
  BY <1>1, <1>2 DEF WinnerSetsFee, Winner
<1>12. FollowUpUnlessDropped'
  BY <1>1, <1>2, <1>8, FollowUpKept DEF Winner
<1> QED BY <1>3, <1>9, <1>10, <1>11, <1>12 DEF DeliveryInv

\* The requests of the panel and of the payment, seen from the delivery.
LEMMA WebInDelivery ==
  ASSUME DeliveryInv, WebStep
  PROVE  DeliveryInv'
<1> /\ TalkInv /\ TalkTypeOK /\ AnswerMeetsItsTotal /\ WinnerSetsFee /\ FollowUpUnlessDropped
  BY DEF DeliveryInv, TypeOK, TalkTypeOK
<1>1. WebTypeOK' /\ WebInv' /\ KeepsRows /\ ServedIsPaid'
  BY WebStepInv
<1>2. UNCHANGED <<quote, talk, inbound, tasks, jobs, budget, announced, relinked, dropped,
                     silent>>
  BY DEF WebStep, deliveryVars
<1>3. TypeOK'
  BY <1>1, <1>2 DEF TypeOK, TalkTypeOK
<1>4. TalkInv'
  BY <1>1, <1>2, TalkKept DEF KeepsRows, TalkTypeOK, TalkInv
<1>5. AnswerMeetsItsTotal'
  BY <1>1, <1>2 DEF KeepsRows, AnswerMeetsItsTotal
<1>6. WinnerSetsFee'
  BY <1>1, <1>2 DEF KeepsRows, FeeSaved, WinnerSetsFee, Winner
<1>7. FollowUpUnlessDropped'
  BY <1>1, <1>2, FollowUpKept DEF KeepsRows, Winner
<1> QED BY <1>1, <1>3, <1>4, <1>5, <1>6, <1>7 DEF DeliveryInv

LEMMA DeliveryStutterInv == DeliveryInv /\ UNCHANGED vars => DeliveryInv'
BY DEF vars, webVars, deliveryVars, DeliveryInv, TypeOK, WebTypeOK, WebInv, CallInv, RowInv,
   PaidOrUndone, Placed, TalkInv, ServedIsPaid, AnswerMeetsItsTotal, WinnerSetsFee, Winner,
   FollowUpUnlessDropped

LEMMA DeliveryInvInductive == DeliveryInv /\ [Next]_vars => DeliveryInv'
<1> SUFFICES ASSUME DeliveryInv, Next PROVE DeliveryInv'
  BY DeliveryStutterInv
<1>1. ASSUME NEW o \in Order, NEW kind \in {"payphone", "takeaway", "delivery"},
             PlaceOrder(o, kind)
      PROVE  DeliveryInv'
  BY <1>1, PlaceOrderInv
<1>2. CASE WebStep
  BY <1>2, WebInDelivery
<1>3. CASE Drive
  BY <1>3, SubmitQuoteInv, ClaimInv, DriveInv DEF Drive
<1>4. CASE Work
  BY <1>4, SetQuoteInv, NotifyInv, AnswerInv, PrintOrLoseInv DEF Work
<1>5. CASE OtherOrderTalks \/ InboundRead \/ InboundDecides \/ InboundOther
  BY <1>5, ConversationInv
<1> QED BY <1>1, <1>2, <1>3, <1>4, <1>5 DEF Next, WebStep

LEMMA DeliveryInvAlways == Spec => []DeliveryInv
BY DeliveryInitInv, DeliveryInvInductive, PTL DEF Spec

----------------------------------------------------------------------------
(* Theorems *)

\* Every variable of the web orders and the delivery stays within its type.
THEOREM DeliveryTypeCorrect == Spec => []TypeOK
<1>1. DeliveryInv => TypeOK
  BY DEF DeliveryInv
<1> QED BY <1>1, DeliveryInvAlways, PTL

\* Nothing unpaid is cooked, on its way or handed over (_require_paid_web_order
\* of the panel, the drivers' handlers and the customer's answer together),
\* except after a payment that was saved over or a conversation linked anew.
THEOREM ServedWasPaid == Spec => []ServedIsPaid
<1>1. DeliveryInv => ServedIsPaid
  BY DEF DeliveryInv
<1> QED BY <1>1, DeliveryInvAlways, PTL

\* An answer of the customer that is recorded on an order is to the total of
\* that order, or the order was linked to the wait for another's answer.
THEOREM AnswersMeetTotals == Spec => []AnswerMeetsItsTotal
<1>1. DeliveryInv => AnswerMeetsItsTotal
  BY DEF DeliveryInv
<1> QED BY <1>1, DeliveryInvAlways, PTL

\* However late and in whatever order the quote tasks and the claims arrive,
\* one quote wins and its driver's price is the fee, unless the panel set it; a
\* fee the panel set to nothing is nothing or the one of the driver who claimed.
THEOREM OneQuoteWins == Spec => []WinnerSetsFee
<1>1. DeliveryInv => WinnerSetsFee
  BY DEF DeliveryInv
<1> QED BY <1>1, DeliveryInvAlways, PTL

\* The announcement of a winner and the receipt of a delivery are done, on
\* their way, or lost with a task of theirs that was lost.
THEOREM FollowUpsKept == Spec => []FollowUpUnlessDropped
<1>1. DeliveryInv => FollowUpUnlessDropped
  BY DEF DeliveryInv
<1> QED BY <1>1, DeliveryInvAlways, PTL

\* A step that is a stutter for an order's state follows the table.
LEMMA Unmoved ==
  ASSUME NEW o \in Order, order'[o].estado = order[o].estado
  PROVE  CanTransition(order[o].estado, order'[o].estado)
BY DEF CanTransition

\* An order leaves every state but LISTO for CANCELADO.
LEMMA Cancellable ==
  ASSUME NEW e \in Estado, e # "LISTO"
  PROVE  CanTransition(e, "CANCELADO")
BY DEF CanTransition, Transitions, Estado, QuoteEditable

\* What the requests of the panel and of the payment do to an order's state.
LEMMA WebFollowsTable ==
  ASSUME DeliveryInv, WebStep, NEW o \in Order, Placed(o)
  PROVE  \/ CanTransition(order[o].estado, order'[o].estado)
         \/ SavesOlder(o)
         \/ order[o].estado = "LISTO" /\ order'[o].estado = "CANCELADO" /\ o \in undone'
<1> WebTypeOK /\ CallInv /\ RowInv
  BY DEF DeliveryInv, TypeOK, WebInv
<1>0. order[o] \in Row /\ order[o].estado \in Estado
  BY DEF WebTypeOK, Row
<1>1. CASE order' = order
  BY <1>1, Unmoved
<1>2. ASSUME NEW h \in Handler, PanelSave(h)
      PROVE  CanTransition(order[o].estado, order'[o].estado) \/ SavesOlder(o)
  <2>1. /\ call[h].op \in DOMAIN Target /\ call[h].op # "idle"
        /\ order' = [order EXCEPT ![call[h].order].estado = Target[call[h].op]]
        /\ call' = [call EXCEPT ![h] = NoCall]
    BY <1>2 DEF PanelSave, Finish, Target
  <2>2. CASE call[h].order # o
    <3>1. order'[o] = order[o]
      BY <2>1, <2>2 DEF WebTypeOK
    <3> QED BY <3>1, Unmoved
  <2>3. CASE call[h].order = o /\ call[h].seen = order[o].estado
    <3>1. order'[o].estado = Target[call[h].op]
      BY <2>1, <2>3, <1>0 DEF WebTypeOK, Row
    <3>2. CanTransition(call[h].seen, Target[call[h].op])
      BY <2>1 DEF CallInv
    <3> QED BY <2>3, <3>1, <3>2
  <2>4. CASE call[h].order = o /\ call[h].seen # order[o].estado
    <3>1. call'[h] = NoCall
      BY <2>1 DEF WebTypeOK
    <3> QED BY <2>4, <3>1 DEF SavesOlder
  <2> QED BY <2>2, <2>3, <2>4
<1>3. ASSUME NEW h \in Handler, CostSave(h) \/ ReceivedSave(h) \/ MarkPaid(h)
      PROVE  CanTransition(order[o].estado, order'[o].estado)
  <2>1. \/ order' = [order EXCEPT ![call[h].order].fee = "panel"]
        \/ order' = [order EXCEPT ![call[h].order].fee = "zero"]
        \/ order' = [order EXCEPT ![call[h].order].reported = TRUE]
        \/ order' = [order EXCEPT ![call[h].order].payment = "PAID"]
    BY <1>3 DEF CostSave, ReceivedSave, MarkPaid
  <2>2. order'[o].estado = order[o].estado
    BY <2>1, <1>0 DEF WebTypeOK, Row
  <2> QED BY <2>2, Unmoved
<1>4. ASSUME NEW p \in Order,
             order' = [order EXCEPT ![p].payment = "FAILED", ![p].estado = "CANCELADO"],
             p = o => (PaidOrUndone(o) => o \in undone')
      PROVE  \/ CanTransition(order[o].estado, order'[o].estado)
             \/ order[o].estado = "LISTO" /\ order'[o].estado = "CANCELADO" /\ o \in undone'
  <2>1. CASE p # o
    <3>1. order'[o] = order[o]
      BY <1>4, <2>1 DEF WebTypeOK
    <3> QED BY <3>1, Unmoved
  <2>2. CASE p = o
    <3>1. order'[o].estado = "CANCELADO"
      BY <1>4, <2>2, <1>0 DEF WebTypeOK, Row
    <3>2. order[o].estado = "LISTO" => o \in undone'
      BY <1>4, <2>2 DEF RowInv
    <3> QED BY <3>1, <3>2, <1>0, Cancellable
  <2> QED BY <2>1, <2>2
<1>5. ASSUME NEW h \in Handler, MarkFailed(h)
      PROVE  \/ CanTransition(order[o].estado, order'[o].estado)
             \/ order[o].estado = "LISTO" /\ order'[o].estado = "CANCELADO" /\ o \in undone'
  <2>1. call[h].op # "idle"
    BY <1>5 DEF MarkFailed
  <2> PICK p \in Order : p = call[h].order
    BY <2>1 DEF CallInv
  <2>2. order' = [order EXCEPT ![p].payment = "FAILED", ![p].estado = "CANCELADO"]
    BY <1>5 DEF MarkFailed
  <2>3. p = o => (PaidOrUndone(o) => o \in undone')
    BY <1>5 DEF MarkFailed, PaidOrUndone
  <2> QED BY <2>2, <2>3, <1>4
<1>6. ASSUME NEW p \in Order, ReapWebOrder(p)
      PROVE  \/ CanTransition(order[o].estado, order'[o].estado)
             \/ order[o].estado = "LISTO" /\ order'[o].estado = "CANCELADO" /\ o \in undone'
  <2>1. /\ order' = [order EXCEPT ![p].payment = "FAILED", ![p].estado = "CANCELADO"]
        /\ order[p].payment = "PENDING" /\ undone' = undone
    BY <1>6 DEF ReapWebOrder
  <2> QED BY <2>1, <1>4 DEF PaidOrUndone
<1>7. \/ order' = order
      \/ \E h \in Handler :
           \/ PanelSave(h)
           \/ CostSave(h) \/ ReceivedSave(h) \/ MarkPaid(h)
           \/ MarkFailed(h)
      \/ \E p \in Order : ReapWebOrder(p)
  BY DEF WebStep, Panel, PayPhone, PanelRead, CostRead, ReceivedRead, Begin, PayPhoneAnswers,
     PaymentRead, CancelPaymentRead
<1> QED BY <1>1, <1>2, <1>3, <1>5, <1>6, <1>7

\* What the steps of the delivery do to it.
LEMMA DeliveryFollowsTable ==
  ASSUME DeliveryInv, Drive \/ Work, NEW o \in Order, Placed(o)
  PROVE  \/ CanTransition(order[o].estado, order'[o].estado)
         \/ order[o].estado = "PENDIENTE_COTIZACION" /\ order'[o].estado = "PENDIENTE"
         \/ \E t \in tasks : t.order = o /\ ProcessCustomerConfirmation(t)
<1> WebTypeOK
  BY DEF DeliveryInv, TypeOK
<1>0. order[o] \in Row
  BY DEF WebTypeOK
<1>1. CASE order' = order
  BY <1>1, Unmoved
<1>2. ASSUME NEW t \in tasks, ProcessCustomerConfirmation(t), t.order # o
      PROVE  CanTransition(order[o].estado, order'[o].estado)
  <2>1. order'[o] = order[o]
    BY <1>2 DEF ProcessCustomerConfirmation, WebTypeOK
  <2> QED BY <2>1, Unmoved
<1>3. ASSUME NEW t \in tasks, SetQuoteAndNotify(t)
      PROVE  \/ CanTransition(order[o].estado, order'[o].estado)
             \/ order[o].estado = "PENDIENTE_COTIZACION" /\ order'[o].estado = "PENDIENTE"
  <2>1. CASE order' = order
    BY <2>1, Unmoved
  <2>2. CASE /\ order[t.order].estado = "PENDIENTE_COTIZACION"
             /\ order' = [order EXCEPT ![t.order].fee = t.driver,
                                       ![t.order].estado = "PENDIENTE",
                                       ![t.order].confirmation = "PENDIENTE"]
    <3>1. CASE t.order = o
      BY <2>2, <3>1, <1>0 DEF WebTypeOK, Row
    <3>2. CASE t.order # o
      <4>1. order'[o] = order[o]
        BY <2>2, <3>2 DEF WebTypeOK
      <4> QED BY <4>1, Unmoved
    <3> QED BY <3>1, <3>2
  <2> QED BY <1>3, <2>1, <2>2 DEF SetQuoteAndNotify
<1>4. ASSUME NEW p \in Order, NEW d \in Driver, ClaimDeliveryOrder(p, d)
      PROVE  CanTransition(order[o].estado, order'[o].estado)
  <2>1. order' = [order EXCEPT ![p].driver = d, ![p].fee = IF @ = "zero" THEN d ELSE @]
    BY <1>4 DEF ClaimDeliveryOrder
  <2>2. order'[o].estado = order[o].estado
    BY <2>1, <1>0 DEF WebTypeOK, Row
  <2> QED BY <2>2, Unmoved
<1>5. ASSUME NEW p \in Order, NEW d \in Driver, MarkDeliveryInTransit(p, d)
      PROVE  CanTransition(order[o].estado, order'[o].estado)
  <2>1. /\ order[p].estado = "COCINA"
        /\ order' = [order EXCEPT ![p].estado = "EN_CAMINO"]
    BY <1>5 DEF MarkDeliveryInTransit
  <2>2. CASE p = o
    <3>1. order'[o].estado = "EN_CAMINO"
      BY <2>1, <2>2, <1>0 DEF WebTypeOK, Row
    <3> QED BY <2>1, <2>2, <3>1 DEF CanTransition, Transitions
  <2>3. CASE p # o
    <3>1. order'[o] = order[o]
      BY <2>1, <2>3 DEF WebTypeOK
    <3> QED BY <3>1, Unmoved
  <2> QED BY <2>2, <2>3
<1>6. ASSUME NEW p \in Order, NEW d \in Driver, ConfirmDeliveryCompleted(p, d)
      PROVE  CanTransition(order[o].estado, order'[o].estado)
  <2>1. /\ order[p].estado = "EN_CAMINO"
        /\ order' = [order EXCEPT ![p].delivered = TRUE, ![p].estado = "LISTO"]
    BY <1>6 DEF ConfirmDeliveryCompleted
  <2>2. CASE p = o
    <3>1. order'[o].estado = "LISTO"
      BY <2>1, <2>2, <1>0 DEF WebTypeOK, Row
    <3> QED BY <2>1, <2>2, <3>1 DEF CanTransition, Transitions
  <2>3. CASE p # o
    <3>1. order'[o] = order[o]
      BY <2>1, <2>3 DEF WebTypeOK
    <3> QED BY <3>1, Unmoved
  <2> QED BY <2>2, <2>3
<1>7. ASSUME NEW t \in tasks,
             NotifyCustomerQuoteTotal(t) \/ RunPrintTask(t) \/ LoseTask(t)
      PROVE  order' = order
  BY <1>7 DEF NotifyCustomerQuoteTotal, RunPrintTask, LoseTask, webVars
<1>8. ASSUME NEW p \in Order, NEW d \in Driver, SubmitQuote(p, d)
      PROVE  order' = order
  BY <1>8 DEF SubmitQuote, webVars
<1>9. CASE Drive
  BY <1>9, <1>1, <1>4, <1>5, <1>6, <1>8 DEF Drive
<1>10. CASE Work
  BY <1>10, <1>1, <1>2, <1>3, <1>7 DEF Work
<1> QED BY <1>9, <1>10

\* Every change of an order's state is a row of the table of states.py, or one
\* of the four that ask nothing of it: the winning quote, a save on an older
\* state, the customer's answer, and the cancellation of a payment undone.
THEOREM StatesFollowTable == Spec => EstadoFollowsTable
<1>1. DeliveryInv /\ [Next]_vars =>
        [\A o \in Order : Placed(o) =>
           \/ CanTransition(order[o].estado, order'[o].estado)
           \/ order[o].estado = "PENDIENTE_COTIZACION" /\ order'[o].estado = "PENDIENTE"
           \/ SavesOlder(o)
           \/ /\ order[o].estado = "LISTO" /\ order'[o].estado = "CANCELADO"
              /\ o \in undone'
           \/ \E t \in tasks : t.order = o /\ ProcessCustomerConfirmation(t)]_vars
  <2> SUFFICES ASSUME DeliveryInv, Next, NEW o \in Order, Placed(o)
               PROVE  \/ CanTransition(order[o].estado, order'[o].estado)
                      \/ /\ order[o].estado = "PENDIENTE_COTIZACION"
                         /\ order'[o].estado = "PENDIENTE"
                      \/ SavesOlder(o)
                      \/ /\ order[o].estado = "LISTO" /\ order'[o].estado = "CANCELADO"
                         /\ o \in undone'
                      \/ \E t \in tasks : t.order = o /\ ProcessCustomerConfirmation(t)
    OBVIOUS
  <2>1. CASE WebStep
    BY <2>1, WebFollowsTable
  <2>2. CASE Drive \/ Work
    BY <2>2, DeliveryFollowsTable
  <2>3. ASSUME NEW p \in Order, NEW kind \in {"payphone", "takeaway", "delivery"},
               PlaceOrder(p, kind)
        PROVE  CanTransition(order[o].estado, order'[o].estado)
    <3>1. p # o /\ order' = [order EXCEPT ![p] = NewRow(kind)]
      BY <2>3 DEF PlaceOrder, CreateWebOrder
    <3>2. order'[o] = order[o]
      BY <3>1 DEF DeliveryInv, TypeOK, WebTypeOK
    <3> QED BY <3>2, Unmoved
  <2>4. CASE OtherOrderTalks \/ InboundRead \/ InboundDecides \/ InboundOther
    <3>1. order' = order
      BY <2>4 DEF OtherOrderTalks, InboundRead, InboundDecides, InboundOther, webVars
    <3> QED BY <3>1, Unmoved
  <2> QED BY <2>1, <2>2, <2>3, <2>4 DEF Next, WebStep
<1> QED BY <1>1, DeliveryInvAlways, PTL DEF Spec, EstadoFollowsTable
=============================================================================
