------------------------------ MODULE PosSale ------------------------------
(***************************************************************************)
(* The life of a POS sale in pos/application/sales/commands.py: the steps  *)
(* of register_sale (look up, reserve, pay, confirm or fail), the reaper   *)
(* of stale reservations, the reconciliation of payment confirmations that *)
(* arrive early, on time or late, and the resolution of the exceptions     *)
(* they raise.                                                             *)
(*                                                                         *)
(* Every database transaction of the code is one action: the rows it works *)
(* on are locked (select_for_update) until it ends.  What a handler reads  *)
(* outside a transaction is a step of its own, and what it read stays in   *)
(* the handler's locals until it is used.  A handler may die between any   *)
(* two of its steps (Crash).                                               *)
(*                                                                         *)
(* One location, one cashier, one operating day.  Time is abstract: at     *)
(* some moment a reservation is older than PENDING_PAYMENT_TIMEOUT_SECONDS.*)
(***************************************************************************)
EXTENDS Integers, FiniteSets, Functions

CONSTANTS
  Request,          \* POSTs to registrar_venta, resends included
  Confirmation,     \* payment confirmations sent to reconciliar_pago
  Ctid,             \* client_transaction_id values
  Fingerprint,      \* hashes of cart, prices and method of a request
  Product,
  Reference,        \* payment references
  NoRef,            \* the empty payment reference
  payload,          \* what each request carries
  confirms,         \* what each confirmation carries
  MaxSales,         \* bound: rows of Venta
  MaxTurns,         \* bound: rows of CajaTurno
  MaxDeliveries,    \* bound: times one confirmation is sent
  LateResend,       \* may a request come after its record was purged?
  InitialStock      \* LocationInventory.stock_actual at the start

Sale == 1..MaxSales
Turn == 1..MaxTurns
Payload == [ctid: Ctid, fp: Fingerprint, cart: [Product -> Nat], total: Nat,
            method: {"EFECTIVO", "TRANSFERENCIA", "TARJETA"},
            ref: Reference \cup {NoRef}]

ASSUME BoundsAssumption ==
  /\ MaxSales \in Nat \ {0} /\ MaxTurns \in Nat \ {0}
  /\ MaxDeliveries \in Nat \ {0} /\ LateResend \in BOOLEAN

ASSUME PayloadAssumption ==
  /\ Request # {} /\ payload \in [Request -> Payload]
  /\ confirms \in [Confirmation -> [ctid: Ctid, ref: Reference]]
  /\ NoRef \notin Reference

ASSUME StockAssumption == InitialStock \in [Product -> Nat]

\* The fingerprint covers the cart, its prices and the method.
ASSUME FingerprintAssumption ==
  \A q, r \in Request : payload[q].fp = payload[r].fp =>
    /\ payload[q].cart = payload[r].cart
    /\ payload[q].total = payload[r].total
    /\ payload[q].method = payload[r].method

VARIABLES
  sale,      \* Venta: payment_status, the request it came from, its turn, its
             \* payment_reference, and whether it is older than the timeout
  record,    \* IdempotencyRecord of a transaction: its status and sale
  stock,     \* LocationInventory.stock_actual of a product
  salidas,   \* times a sale took its cart from stock (SALIDA movements)
  entradas,  \* times a sale gave its cart back (ENTRADA movements)
  booked,    \* times a sale was booked: its INGRESO/VENTA movement and its
             \* SALE_PAID_PRINT event, always written together
  orphan,    \* PendingOfflineOrphanEvent of a transaction and a reference
  alert,     \* AuditLog sale.orphan_payment_detected, by confirmation and
             \* delivery, with the sale it is about
  turn,      \* CajaTurno of the cashier
  reaper,    \* candidate ids the running reaper has not handled yet
  pc, mySale, myTurn,    \* locals of a register_sale call
  cpc, seen, delivery    \* locals of a reconcile_payment_confirmation call

dbVars == <<sale, record, stock, salidas, entradas, booked, orphan, alert, turn>>
requestVars == <<pc, mySale, myTurn>>
confirmVars == <<cpc, seen, delivery>>
vars == <<dbVars, reaper, requestVars, confirmVars>>

----------------------------------------------------------------------------
(* Rows and locals *)

Live == {"PENDING", "PAID"}
Dead == {"FAILED", "VOIDED"}

\* The fingerprint a record keeps is that of the request its sale came from.
SaleRow == [status: {"ABSENT"} \cup Live \cup Dead, req: Request, turn: Turn,
            ref: Reference \cup {NoRef}, old: BOOLEAN]
RecordRow == [status: {"NONE", "PENDING", "COMPLETED", "FAILED_FINAL"}, sale: Sale]

Alert == Confirmation \X (1..MaxDeliveries)
Resolution == {"REACTIVATE_SALE", "REGISTER_INCOME_ONLY", "REFUND_REQUIRED"}
AlertRow == [state: {"ABSENT", "OPEN"} \cup Resolution, sale: Sale]

RequestDone == {"ok", "rejected", "crashed"}
RequestPc == {"idle", "turn", "checked", "looked", "reserved", "approved",
              "declined", "paid"} \cup RequestDone
ConfirmDone == {"orphaned", "already", "confirmed", "alerted", "rejected", "crashed"}
ConfirmPc == {"idle", "absent", "pending", "late", "paid"} \cup ConfirmDone

TypeOK ==
  /\ sale \in [Sale -> SaleRow]
  /\ record \in [Ctid -> RecordRow]
  /\ stock \in [Product -> Nat]
  /\ salidas \in [Sale -> Nat] /\ entradas \in [Sale -> Nat]
  /\ booked \in [Sale -> Nat]
  /\ orphan \in [Ctid \X Reference -> {"NONE", "PENDING", "RESOLVED"}]
  /\ alert \in [Alert -> AlertRow]
  /\ turn \in [Turn -> {"NEW", "OPEN", "CLOSED"}]
  /\ reaper \in SUBSET Sale
  /\ pc \in [Request -> RequestPc]
  /\ mySale \in [Request -> Sale] /\ myTurn \in [Request -> Turn]
  /\ cpc \in [Confirmation -> ConfirmPc] /\ seen \in [Confirmation -> Sale]
  /\ delivery \in [Confirmation -> 0..MaxDeliveries]

Init ==
  /\ sale = [s \in Sale |-> [status |-> "ABSENT", req |-> CHOOSE r \in Request : TRUE,
                             turn |-> 1, ref |-> NoRef, old |-> FALSE]]
  /\ record = [c \in Ctid |-> [status |-> "NONE", sale |-> 1]]
  /\ stock = InitialStock
  /\ salidas = [s \in Sale |-> 0] /\ entradas = [s \in Sale |-> 0]
  /\ booked = [s \in Sale |-> 0]
  /\ orphan = [o \in Ctid \X Reference |-> "NONE"]
  /\ alert = [a \in Alert |-> [state |-> "ABSENT", sale |-> 1]]
  /\ turn = [t \in Turn |-> "NEW"]
  /\ reaper = {}
  /\ pc = [r \in Request |-> "idle"]
  /\ mySale = [r \in Request |-> 1] /\ myTurn = [r \in Request |-> 1]
  /\ cpc = [c \in Confirmation |-> "idle"] /\ seen = [c \in Confirmation |-> 1]
  /\ delivery = [c \in Confirmation |-> 0]

----------------------------------------------------------------------------
(* What the transactions are made of *)

SaleCtid(s) == payload[sale[s].req].ctid
Cart(s) == payload[sale[s].req].cart
SalesOf(c) == {s \in Sale : sale[s].status # "ABSENT" /\ SaleCtid(s) = c}

\* Mutant: only a record still PENDING is closed.
SetPendingRecordStatus(c, status) ==
  record' = [record EXCEPT ![c].status = IF @ = "PENDING" THEN status ELSE @]

\* IdempotencyRecord.objects.filter(...).update(status=...)
SetRecordStatus(c, status) ==
  record' = [record EXCEPT ![c].status = IF @ = "NONE" THEN @ ELSE status]

\* Mutant: any stock left is taken for enough.
ReserveAnyInventory(s, cart) ==
  /\ \A p \in Product : cart[p] > 0 => stock[p] > 0
  /\ stock' = [p \in Product |-> stock[p] - cart[p]]
  /\ salidas' = [salidas EXCEPT ![s] = @ + 1]

EnoughStock(cart) == \A p \in Product : stock[p] >= cart[p]

\* _reserve_inventory: all products are checked before any is taken.
ReserveInventory(s, cart) ==
  /\ EnoughStock(cart)
  /\ stock' = [p \in Product |-> stock[p] - cart[p]]
  /\ salidas' = [salidas EXCEPT ![s] = @ + 1]

\* Mutant: one unit of each product is given back, whatever the quantity.
RestoreOneEach(s) ==
  /\ stock' = [p \in Product |-> stock[p] + IF Cart(s)[p] > 0 THEN 1 ELSE 0]
  /\ entradas' = [entradas EXCEPT ![s] = @ + 1]

RestoreInventory(s) ==
  /\ stock' = [p \in Product |-> stock[p] + Cart(s)[p]]
  /\ entradas' = [entradas EXCEPT ![s] = @ + 1]

PaidRow(row, ref) == [row EXCEPT !.status = "PAID", !.ref = IF ref = NoRef THEN @ ELSE ref]
UnpaidRow(row, status) == [row EXCEPT !.status = status]

\* _finalize_sale_as_paid.  It locks the turn's row but does not look at it.
FinalizeSaleAsPaid(s, ref) ==
  /\ sale' = [sale EXCEPT ![s] = PaidRow(@, ref)]
  /\ booked' = [booked EXCEPT ![s] = @ + 1]
  /\ SetRecordStatus(SaleCtid(s), "COMPLETED")

\* Mutant: a paid sale is not told from a pending one.
MarkAnyLiveSalePaid(s, ref) ==
  /\ sale[s].status \in Live
  /\ FinalizeSaleAsPaid(s, ref)

\* Mutant: a sale that failed or expired is confirmed all the same.
MarkDeadSalePaid(s, ref) ==
  \/ sale[s].status = "PAID" /\ UNCHANGED <<sale, booked, record>>
  \/ sale[s].status # "PAID" /\ FinalizeSaleAsPaid(s, ref)

\* _mark_sale_paid, when it does not raise: a paid sale stays as it is.
MarkSalePaid(s, ref) ==
  \/ sale[s].status = "PAID" /\ UNCHANGED <<sale, booked, record>>
  \/ sale[s].status = "PENDING" /\ FinalizeSaleAsPaid(s, ref)

\* Mutant: a sale that was paid in the meantime fails all the same.
MarkAnyLiveSaleFailed(s, status) ==
  /\ sale[s].status \in Live
  /\ RestoreInventory(s)
  /\ sale' = [sale EXCEPT ![s] = UnpaidRow(@, status)]
  /\ SetRecordStatus(SaleCtid(s), "FAILED_FINAL")
  /\ UNCHANGED booked

\* Mutant: a sale that failed in the meantime fails again.
MarkUnpaidSaleFailed(s, status) ==
  /\ sale[s].status \in {"PENDING"} \cup Dead
  /\ RestoreInventory(s)
  /\ sale' = [sale EXCEPT ![s] = UnpaidRow(@, status)]
  /\ SetRecordStatus(SaleCtid(s), "FAILED_FINAL")
  /\ UNCHANGED booked

\* _mark_sale_payment_failed, when it returns True.
MarkSalePaymentFailed(s, status) ==
  /\ sale[s].status = "PENDING"
  /\ RestoreInventory(s)
  /\ sale' = [sale EXCEPT ![s] = UnpaidRow(@, status)]
  /\ SetRecordStatus(SaleCtid(s), "FAILED_FINAL")
  /\ UNCHANGED booked

----------------------------------------------------------------------------
(* The cash turn, as far as sales depend on it *)

\* open_cash_register.  Its check and its insert are one step here: one cashier
\* at one till.
OpenTurn(t) ==
  /\ turn[t] = "NEW"
  /\ \A u \in Turn : turn[u] # "OPEN" /\ (u < t => turn[u] # "NEW")
  /\ turn' = [turn EXCEPT ![t] = "OPEN"]
  /\ UNCHANGED <<sale, record, stock, salidas, entradas, booked, orphan, alert,
                 reaper, requestVars, confirmVars>>

\* close_cash_register: sales still PENDING do not stop it.
CloseTurn(t) ==
  /\ turn[t] = "OPEN"
  /\ turn' = [turn EXCEPT ![t] = "CLOSED"]
  /\ UNCHANGED <<sale, record, stock, salidas, entradas, booked, orphan, alert,
                 reaper, requestVars, confirmVars>>

----------------------------------------------------------------------------
(* register_sale *)

Goto(r, label) == pc' = [pc EXCEPT ![r] = label]

\* Reads the cashier's open turn; nothing keeps it open from here on.
TakeTurn(r) ==
  /\ pc[r] = "idle"
  /\ \/ \E t \in Turn :
          /\ turn[t] = "OPEN"
          /\ myTurn' = [myTurn EXCEPT ![r] = t]
          /\ Goto(r, IF payload[r].method = "TARJETA" THEN "turn" ELSE "checked")
     \/ /\ \A t \in Turn : turn[t] # "OPEN"
        /\ Goto(r, "rejected")
        /\ UNCHANGED myTurn
  /\ UNCHANGED <<dbVars, reaper, mySale, confirmVars>>

\* _validate_card_payment: a live card sale with this voucher and this total.
VoucherUsed(r) ==
  \E s \in Sale :
    LET q == payload[sale[s].req] IN
      /\ sale[s].status \in Live
      /\ q.method = "TARJETA" /\ q.total = payload[r].total
      /\ sale[s].ref = payload[r].ref

CheckVoucher(r) ==
  /\ pc[r] = "turn"
  /\ Goto(r, IF VoucherUsed(r) THEN "rejected" ELSE "checked")
  /\ UNCHANGED <<dbVars, reaper, mySale, myTurn, confirmVars>>

Known(r) == record[payload[r].ctid].status # "NONE"
SameFingerprint(r) ==
  payload[sale[record[payload[r].ctid].sale].req].fp = payload[r].fp

\* Mutant: a completed record answers whatever the cart of the request is.
LookupAnyCart(r) ==
  /\ pc[r] = "checked"
  /\ IF Known(r) /\ record[payload[r].ctid].status = "COMPLETED"
     THEN /\ mySale' = [mySale EXCEPT ![r] = record[payload[r].ctid].sale]
          /\ Goto(r, "ok")
     ELSE Goto(r, "looked") /\ UNCHANGED mySale
  /\ UNCHANGED <<dbVars, reaper, myTurn, confirmVars>>

\* _get_completed_idempotent_sale, read without a lock.
Lookup(r) ==
  /\ pc[r] = "checked"
  /\ \/ /\ Known(r) /\ ~SameFingerprint(r)
        /\ Goto(r, "rejected")
        /\ UNCHANGED mySale
     \/ /\ Known(r) /\ SameFingerprint(r)
        /\ record[payload[r].ctid].status = "COMPLETED"
        /\ mySale' = [mySale EXCEPT ![r] = record[payload[r].ctid].sale]
        /\ Goto(r, "ok")
     \/ /\ Known(r) => SameFingerprint(r)
        /\ record[payload[r].ctid].status # "COMPLETED"
        /\ Goto(r, "looked")
        /\ UNCHANGED mySale
  /\ UNCHANGED <<dbVars, reaper, myTurn, confirmVars>>

NextSaleId(s) ==
  sale[s].status = "ABSENT" /\ \A z \in Sale : z < s => sale[z].status # "ABSENT"

CreateSale(r, s) ==
  /\ NextSaleId(s)
  /\ ReserveInventory(s, payload[r].cart)
  /\ sale' = [sale EXCEPT ![s] = [status |-> "PENDING", req |-> r,
                turn |-> myTurn[r], ref |-> payload[r].ref, old |-> FALSE]]
  /\ record' = [record EXCEPT ![payload[r].ctid] = [status |-> "PENDING", sale |-> s]]
  /\ mySale' = [mySale EXCEPT ![r] = s]
  /\ Goto(r, "reserved")
  /\ UNCHANGED <<entradas, booked, orphan, alert, turn, reaper, myTurn, confirmVars>>

\* Mutant: a failed transaction may be tried again under its identifier.
ReserveNewOrFailed(r) ==
  /\ pc[r] = "looked"
  /\ record[payload[r].ctid].status \in {"NONE", "FAILED_FINAL"}
  /\ \E s \in Sale : CreateSale(r, s)

\* _reserve_sale, when get_or_create creates the record.
ReserveNew(r) ==
  /\ pc[r] = "looked"
  /\ ~Known(r)
  /\ \E s \in Sale : CreateSale(r, s)

\* _reserve_sale, when the transaction was completed after the lookup: the
\* handler goes on with the sale of the record.
ReserveKnown(r) ==
  /\ pc[r] = "looked"
  /\ Known(r) /\ SameFingerprint(r)
  /\ record[payload[r].ctid].status = "COMPLETED"
  /\ mySale' = [mySale EXCEPT ![r] = record[payload[r].ctid].sale]
  /\ Goto(r, "reserved")
  /\ UNCHANGED <<dbVars, reaper, myTurn, confirmVars>>

\* Mutant: every record found is refused, a completed one too.
RefuseKnown(r) ==
  /\ pc[r] = "looked"
  /\ Known(r) \/ ~EnoughStock(payload[r].cart)
  /\ Goto(r, "rejected")
  /\ UNCHANGED <<dbVars, reaper, mySale, myTurn, confirmVars>>

\* _reserve_sale, when it raises: its transaction leaves nothing behind.
RefuseReserve(r) ==
  /\ pc[r] = "looked"
  /\ \/ Known(r) /\ ~SameFingerprint(r)
     \/ record[payload[r].ctid].status \in {"PENDING", "FAILED_FINAL"}
     \/ ~Known(r) /\ ~EnoughStock(payload[r].cart)
  /\ Goto(r, "rejected")
  /\ UNCHANGED <<dbVars, reaper, mySale, myTurn, confirmVars>>

\* _process_payment
Pay(r) ==
  /\ pc[r] = "reserved"
  /\ \/ Goto(r, "approved")
     \/ payload[r].method = "TARJETA" /\ Goto(r, "declined")
  /\ UNCHANGED <<dbVars, reaper, mySale, myTurn, confirmVars>>

\* The answer is an error even when the sale was paid in the meantime.
Decline(r) ==
  /\ pc[r] = "declined"
  /\ \/ MarkSalePaymentFailed(mySale[r], "FAILED")
     \/ /\ sale[mySale[r]].status # "PENDING"
        /\ UNCHANGED <<sale, record, stock, entradas, booked>>
  /\ Goto(r, "rejected")
  /\ UNCHANGED <<salidas, orphan, alert, turn, reaper, mySale, myTurn, confirmVars>>

Confirm(r) ==
  /\ pc[r] = "approved"
  /\ \/ MarkSalePaid(mySale[r], payload[r].ref) /\ Goto(r, "paid")
     \/ /\ sale[mySale[r]].status \in Dead
        /\ Goto(r, "rejected")
        /\ UNCHANGED <<sale, record, booked>>
  /\ UNCHANGED <<stock, salidas, entradas, orphan, alert, turn, reaper,
                 mySale, myTurn, confirmVars>>

\* Mutant: the transaction an orphan names is not compared.
PendingOrphansOfAny(s) == {o \in Ctid \X Reference : orphan[o] = "PENDING"}

PendingOrphansOf(s) ==
  {o \in Ctid \X Reference : o[1] = SaleCtid(s) /\ orphan[o] = "PENDING"}

ResolveOrphans(S) ==
  orphan' = [o \in Ctid \X Reference |-> IF o \in S THEN "RESOLVED" ELSE orphan[o]]

\* _resolve_pending_payment_confirmation_orphans_for_sale: one save per orphan,
\* in no transaction, after the sale is committed.
SettleOrphans(r) ==
  /\ pc[r] = "paid"
  /\ ResolveOrphans(PendingOrphansOf(mySale[r]))
  /\ Goto(r, "ok")
  /\ UNCHANGED <<sale, record, stock, salidas, entradas, booked, alert, turn,
                 reaper, mySale, myTurn, confirmVars>>

\* The worker dies, or raises after a commit; between two saves of the
\* orphans, some of them are resolved.
CrashRequest(r) ==
  /\ pc[r] \notin {"idle"} \cup RequestDone
  /\ \/ orphan' = orphan
     \/ \E S \in SUBSET PendingOrphansOf(mySale[r]) :
          pc[r] = "paid" /\ ResolveOrphans(S)
  /\ Goto(r, "crashed")
  /\ UNCHANGED <<sale, record, stock, salidas, entradas, booked, alert, turn,
                 reaper, mySale, myTurn, confirmVars>>

----------------------------------------------------------------------------
(* expire_stale_pending_sales and purge_expired_idempotency_records *)

Age(s) ==
  /\ sale[s].status # "ABSENT" /\ ~sale[s].old
  /\ sale' = [sale EXCEPT ![s].old = TRUE]
  /\ UNCHANGED <<record, stock, salidas, entradas, booked, orphan, alert, turn,
                 reaper, requestVars, confirmVars>>

\* Mutant: the comparison with the cutoff is the wrong way round.
FreshPending == {s \in Sale : sale[s].status = "PENDING" /\ ~sale[s].old}

StalePending == {s \in Sale : sale[s].status = "PENDING" /\ sale[s].old}

\* The candidates of one batch; the batch holds all of them
\* (PENDING_PAYMENT_REAPER_BATCH_SIZE is at least MaxSales).
ReaperScan ==
  /\ reaper = {} /\ StalePending # {}
  /\ reaper' = StalePending
  /\ UNCHANGED <<dbVars, requestVars, confirmVars>>

\* Handlers about to lock a pending sale: while one holds the lock the reaper
\* passes the sale over (skip_locked).
MayBeLocked(s) ==
  \/ \E r \in Request : pc[r] \in {"approved", "declined"} /\ mySale[r] = s
  \/ \E c \in Confirmation : cpc[c] = "pending" /\ seen[c] = s

ReaperHandle(s) ==
  /\ s \in reaper /\ \A z \in reaper : s <= z
  /\ \/ MarkSalePaymentFailed(s, "VOIDED")
     \/ /\ sale[s].status # "PENDING" \/ MayBeLocked(s)
        /\ UNCHANGED <<sale, record, stock, entradas, booked>>
  /\ reaper' = reaper \ {s}
  /\ UNCHANGED <<salidas, orphan, alert, turn, requestVars, confirmVars>>

ReaperCrash ==
  /\ reaper # {} /\ reaper' = {}
  /\ UNCHANGED <<dbVars, requestVars, confirmVars>>

\* A record that was closed is deleted days later.  Unless LateResend, no
\* request of its transaction is then left.
Purge(c) ==
  /\ record[c].status \in {"COMPLETED", "FAILED_FINAL"}
  /\ LateResend \/ \A r \in Request : payload[r].ctid = c => pc[r] \in RequestDone
  /\ record' = [record EXCEPT ![c].status = "NONE"]
  /\ UNCHANGED <<sale, stock, salidas, entradas, booked, orphan, alert, turn,
                 reaper, requestVars, confirmVars>>

----------------------------------------------------------------------------
(* reconcile_payment_confirmation *)

CGoto(c, label) == cpc' = [cpc EXCEPT ![c] = label]

LabelOf(status) ==
  CASE status = "PAID" -> "already"
    [] status = "PENDING" -> "pending"
    [] status \in Dead -> "late"

\* A confirmation comes (again), and its sale is read without a lock.
LookupSale(c) ==
  /\ cpc[c] \in {"idle"} \cup ConfirmDone
  /\ delivery[c] < MaxDeliveries
  /\ delivery' = [delivery EXCEPT ![c] = @ + 1]
  /\ \/ /\ SalesOf(confirms[c].ctid) = {}
        /\ CGoto(c, "absent")
        /\ UNCHANGED seen
     \/ \E s \in SalesOf(confirms[c].ctid) :
          /\ \A z \in SalesOf(confirms[c].ctid) : s <= z
          /\ seen' = [seen EXCEPT ![c] = s]
          /\ CGoto(c, LabelOf(sale[s].status))
  /\ UNCHANGED <<dbVars, reaper, requestVars>>

\* Mutant: one orphan per transaction, whatever the reference.
EnqueueOncePerTransaction(c) ==
  /\ cpc[c] = "absent"
  /\ orphan' = [orphan EXCEPT ![<<confirms[c].ctid, confirms[c].ref>>] =
        IF \A ref \in Reference : orphan[<<confirms[c].ctid, ref>>] = "NONE"
        THEN "PENDING" ELSE @]
  /\ CGoto(c, "orphaned")
  /\ UNCHANGED <<sale, record, stock, salidas, entradas, booked, alert, turn,
                 reaper, requestVars, seen, delivery>>

\* _enqueue_pending_payment_confirmation_orphan: an orphan that exists keeps its
\* status, whatever that is.
EnqueueOrphan(c) ==
  /\ cpc[c] = "absent"
  /\ orphan' = [orphan EXCEPT ![<<confirms[c].ctid, confirms[c].ref>>] =
                  IF @ = "NONE" THEN "PENDING" ELSE @]
  /\ CGoto(c, "orphaned")
  /\ UNCHANGED <<sale, record, stock, salidas, entradas, booked, alert, turn,
                 reaper, requestVars, seen, delivery>>

ConfirmSeen(c) ==
  /\ cpc[c] = "pending"
  /\ \/ MarkSalePaid(seen[c], confirms[c].ref) /\ CGoto(c, "paid")
     \/ /\ sale[seen[c]].status \in Dead
        /\ CGoto(c, "rejected")
        /\ UNCHANGED <<sale, record, booked>>
  /\ UNCHANGED <<stock, salidas, entradas, orphan, alert, turn, reaper,
                 requestVars, seen, delivery>>

SettleOrphansSeen(c) ==
  /\ cpc[c] = "paid"
  /\ ResolveOrphans(PendingOrphansOf(seen[c]))
  /\ CGoto(c, "confirmed")
  /\ UNCHANGED <<sale, record, stock, salidas, entradas, booked, alert, turn,
                 reaper, requestVars, seen, delivery>>

\* The late branch locks the sale but does not read its status again.
RaiseAlert(c) ==
  /\ cpc[c] = "late"
  /\ alert' = [alert EXCEPT ![<<c, delivery[c]>>] = [state |-> "OPEN", sale |-> seen[c]]]
  /\ CGoto(c, "alerted")
  /\ UNCHANGED <<sale, record, stock, salidas, entradas, booked, orphan, turn,
                 reaper, requestVars, seen, delivery>>

CrashConfirmation(c) ==
  /\ cpc[c] \notin {"idle"} \cup ConfirmDone
  /\ \/ orphan' = orphan
     \/ \E S \in SUBSET PendingOrphansOf(seen[c]) :
          cpc[c] = "paid" /\ ResolveOrphans(S)
  /\ CGoto(c, "crashed")
  /\ UNCHANGED <<sale, record, stock, salidas, entradas, booked, alert, turn,
                 reaper, requestVars, seen, delivery>>

----------------------------------------------------------------------------
(* resolve_payment_exception *)

\* Mutant: an alert can be resolved again.
Resolvable(a) == alert[a].state # "ABSENT"

Unresolved(a) == alert[a].state = "OPEN"

Reactivate(a) ==
  LET s == alert[a].sale IN
  /\ Unresolved(a)
  /\ sale[s].status \in Dead
  /\ ReserveInventory(s, Cart(s))
  /\ FinalizeSaleAsPaid(s, confirms[a[1]].ref)
  /\ alert' = [alert EXCEPT ![a].state = "REACTIVATE_SALE"]
  /\ UNCHANGED <<entradas, orphan, turn, reaper, requestVars, confirmVars>>

\* The accounting adjustment each of these writes is about the payment only.
SettleWithoutSale(a) ==
  /\ Unresolved(a)
  /\ \E action \in Resolution \ {"REACTIVATE_SALE"} :
       alert' = [alert EXCEPT ![a].state = action]
  /\ UNCHANGED <<sale, record, stock, salidas, entradas, booked, orphan, turn,
                 reaper, requestVars, confirmVars>>

----------------------------------------------------------------------------

RequestStep(r) ==
  \/ CheckVoucher(r) \/ Lookup(r) \/ ReserveNew(r) \/ ReserveKnown(r)
  \/ RefuseReserve(r) \/ Pay(r) \/ Decline(r) \/ Confirm(r) \/ SettleOrphans(r)

ConfirmStep(c) ==
  \/ EnqueueOrphan(c) \/ ConfirmSeen(c) \/ SettleOrphansSeen(c) \/ RaiseAlert(c)

Next ==
  \/ \E t \in Turn : OpenTurn(t) \/ CloseTurn(t)
  \/ \E r \in Request : TakeTurn(r) \/ RequestStep(r) \/ CrashRequest(r)
  \/ \E s \in Sale : Age(s) \/ ReaperHandle(s)
  \/ ReaperScan \/ ReaperCrash
  \/ \E c \in Ctid : Purge(c)
  \/ \E c \in Confirmation : LookupSale(c) \/ ConfirmStep(c) \/ CrashConfirmation(c)
  \/ \E a \in Alert : Reactivate(a) \/ SettleWithoutSale(a)

Spec == Init /\ [][Next]_vars

\* A worker that has a request goes on or dies, and time passes.  Nothing is
\* assumed of the reaper: beat_schedule (config/celery.py) does not run it.
Fairness ==
  /\ \A r \in Request : WF_vars(RequestStep(r) \/ CrashRequest(r))
  /\ \A c \in Confirmation : WF_vars(ConfirmStep(c) \/ CrashConfirmation(c))
  /\ \A s \in Sale : WF_vars(Age(s))

FairSpec == Spec /\ Fairness

----------------------------------------------------------------------------
(* Safety *)

LiveSales == {s \in Sale : sale[s].status \in Live}
HeldBy(p) == [s \in Sale |-> Cart(s)[p]]

\* No unit of stock is lost or made up: what is on the shelf and what the live
\* sales hold is what there was, however confirmations, failures, the reaper
\* and reactivations interleave.
StockConserved ==
  \A p \in Product : stock[p] + SumFunctionOnSet(HeldBy(p), LiveSales) = InitialStock[p]

\* The inventory movements tell the same story: a live sale took its cart once
\* more than it gave it back, a dead one as often.
HeldExactlyWhileLive ==
  \A s \in Sale :
    salidas[s] = entradas[s] + (IF sale[s].status \in Live THEN 1 ELSE 0)

\* A sale is booked as income and sent to the kitchen once if it is paid, by
\* whichever of its confirmations, and never otherwise.
BookedExactlyOnce ==
  \A s \in Sale : booked[s] = IF sale[s].status = "PAID" THEN 1 ELSE 0

\* The idempotency record a client polls agrees with the sale.
RecordAgrees ==
  \A c \in Ctid : record[c].status # "NONE" =>
    LET status == sale[record[c].sale].status IN
      /\ SaleCtid(record[c].sale) = c
      /\ record[c].status = "PENDING" <=> status = "PENDING"
      /\ record[c].status = "COMPLETED" <=> status = "PAID"

\* One client_transaction_id never makes two sales.
OneSalePerTransaction == \A c \in Ctid : \A s, z \in SalesOf(c) : s = z

\* A request answered "ok" is answered with a paid sale of its own transaction
\* and with its own cart.
AnswerIsTrue ==
  \A r \in Request : pc[r] = "ok" =>
    /\ sale[mySale[r]].status = "PAID"
    /\ SaleCtid(mySale[r]) = payload[r].ctid
    /\ Cart(mySale[r]) = payload[r].cart

\* An early confirmation leaves the inbox only for a sale that was paid.
ResolvedOrphanIsPaid ==
  \A o \in Ctid \X Reference : orphan[o] = "RESOLVED" =>
    \E s \in SalesOf(o[1]) : sale[s].status = "PAID"

\* The references of the payments made in the name of a transaction so far.
PaymentsOf(c) ==
  {payload[r].ref : r \in {q \in Request : payload[q].ctid = c /\ pc[q] # "idle"}}
  \cup {confirms[d].ref : d \in {e \in Confirmation : confirms[e].ctid = c /\ delivery[e] > 0}}

\* No answered confirmation is lost while its transaction is unpaid: its payment
\* is in the inbox or in an alert, or the sale was paid by it or by another
\* payment made in its name.  (In the last case the answer is already_paid, and
\* the code keeps no trace of the payment that came second.)
Traced(c) ==
  \/ orphan[<<confirms[c].ctid, confirms[c].ref>>] # "NONE"
  \/ \E a \in Alert : alert[a].state # "ABSENT" /\ confirms[a[1]] = confirms[c]
AnsweredPaymentKept ==
  \A c \in Confirmation : cpc[c] \in {"orphaned", "already", "confirmed", "alerted"} =>
    \/ Traced(c)
    \/ \E s \in SalesOf(confirms[c].ctid) :
         sale[s].status = "PAID" /\ sale[s].ref \in PaymentsOf(confirms[c].ctid)

\* A payment to be refunded does not pay for its sale too, unless it raised
\* another alert (it was delivered again) that was resolved the other way.
RefundedPaymentNotBooked ==
  \A a \in Alert : alert[a].state = "REFUND_REQUIRED" =>
    LET s == alert[a].sale
        ref == confirms[a[1]].ref IN
      sale[s].status = "PAID" /\ sale[s].ref = ref =>
        \E b \in Alert : /\ alert[b] = [state |-> "REACTIVATE_SALE", sale |-> s]
                         /\ confirms[b[1]].ref = ref

\* A paid sale stays paid, by the payment that paid it: late failures, the
\* reaper and second confirmations leave it alone.
PaidIsFinal ==
  [][\A s \in Sale : sale[s].status = "PAID" =>
       sale'[s].status = "PAID" /\ sale'[s].ref = sale[s].ref]_vars

\* A sale that failed or expired is paid only by the resolution of an alert
\* about it: no confirmation revives it by itself.
RevivedOnlyByResolution ==
  [][\A s \in Sale : sale[s].status \in Dead /\ sale'[s].status = "PAID" =>
       \E a \in Alert : /\ alert[a] = [state |-> "OPEN", sale |-> s]
                        /\ alert'[a].state = "REACTIVATE_SALE"]_vars

Refused(r) == pc[r] \notin RequestDone /\ pc'[r] = "rejected"
Recoverable(r) ==
  Known(r) /\ SameFingerprint(r) /\ record[payload[r].ctid].status = "COMPLETED"

\* A cash or transfer request whose transaction is completed is refused only
\* before anybody looks the transaction up, because no turn is open ("No hay caja
\* activa"); at whatever later step it finds the transaction, it is answered.
CashResendRecovers ==
  [][\A r \in Request : payload[r].method # "TARJETA" /\ Refused(r) =>
       \/ ~Recoverable(r)
       \/ pc[r] = "idle" /\ \A t \in Turn : turn[t] # "OPEN"]_vars

\* A card request that found a turn open is not refused when its transaction is
\* completed.  (The duplicate voucher check comes before the lookup.)
CardResendRecovers ==
  [][\A r \in Request : payload[r].method = "TARJETA" /\ pc[r] # "idle" /\ Refused(r) =>
       ~Recoverable(r)]_vars

\* A sale is paid only while the turn it is booked on is open.
NoSaleWithoutOpenTurn ==
  [][\A s \in Sale : sale[s].status # "PAID" /\ sale'[s].status = "PAID" =>
       turn[sale[s].turn] = "OPEN"]_vars

\* When every handler has finished, and none crashed, no confirmation waits in
\* the inbox for a sale that is there and paid.
OrphanMeetsItsSale ==
  (/\ \A r \in Request : pc[r] \in {"idle", "ok", "rejected"}
   /\ \A c \in Confirmation : cpc[c] \in ({"idle"} \cup ConfirmDone) \ {"crashed"})
  => \A o \in Ctid \X Reference : orphan[o] = "PENDING" =>
       \A s \in SalesOf(o[1]) : sale[s].status # "PAID"

----------------------------------------------------------------------------
(* The promise about stock, and how the rows stand for it *)

PhaseOf(status) ==
  CASE status = "ABSENT" -> "free"  [] status = "PENDING" -> "held"
    [] status = "PAID" -> "sold"    [] OTHER -> "released"

Ledger == INSTANCE SaleLedger WITH
  phase <- [s \in Sale |-> PhaseOf(sale[s].status)],
  cart <- [s \in Sale |-> Cart(s)],
  shelf <- stock,
  Carts <- {payload[r].cart : r \in Request}

\* Every step of the commands is a step of SaleLedger or leaves stock alone.
ImplementsLedger == Ledger!Spec

----------------------------------------------------------------------------
(* Liveness *)

\* Somebody runs expire_stale_pending_sales again and again (guides/pos_v2_ops.md
\* has the operators do so), and not every run dies before it comes to a sale.
ReaperKeepsRunning == WF_vars(ReaperScan) /\ \A s \in Sale : SF_vars(ReaperHandle(s))

\* A reservation is settled by its own worker, or that worker died; and if
\* somebody keeps running the reaper no sale stays PENDING, holding stock, for
\* ever: not when its worker died, not when the reaper did.
WorkerDied(s) == \E r \in Request : pc[r] = "crashed" /\ mySale[r] = s
ReservationsEnd ==
  /\ \A s \in Sale : sale[s].status = "PENDING" ~> sale[s].status # "PENDING" \/ WorkerDied(s)
  /\ ReaperKeepsRunning =>
       \A s \in Sale : sale[s].status = "PENDING" ~> sale[s].status # "PENDING"
============================================================================
