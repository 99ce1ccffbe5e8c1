# A TLA+ model of the Bosco point of sale

This directory is a verification project for the Django application in
`src/pos`: a restaurant point of sale with web orders, a payment gateway, an
offline journal and a replay gateway. It holds TLA+ modules translated from the
code, TLC configurations that model-check small instances of them, and theorems
about them that TLAPS proves for every instance.

    tlc -workers 2 -config PosSaleRivals.cfg MCPosSale    # one model-checking run
    tlapm PosSale_proofs.tla                              # the proofs of a module

## 1. The system

One Django process group behind `presentation` views, Celery workers, and a
PostgreSQL database (SQLite in development). `ATOMIC_REQUESTS` is off: a request
is a sequence of transactions with unprotected reads between them, and every
hard behaviour of the system comes from that, from tasks that run beside it, and
from messages (resends, payment confirmations, print answers) that come late,
twice or never.

| Component | State | Operations | Talks to |
|---|---|---|---|
| POS sale (`application/sales`) | `Venta`, `IdempotencyRecord`, `LocationInventory` and its movements, `PendingOfflineOrphanEvent`, `AuditLog` alerts | `register_sale`, `reconcile_payment_confirmation`, `resolve_payment_exception`, the reaper, the purge | cash turn, outbox, journal (after commit) |
| Cash register and movements | `CajaTurno`, `MovimientoCaja`, open refunds | open, close, manual income and outgoing, deletion, PIN unlock | sales book on the turn |
| Outbox (`infrastructure/tasks/outbox`) | `OutboxEvent` | claim, dispatch, done, retry, block, sweep | print jobs, Telegram |
| Print jobs | `PrintJob` | take, done, fail, retry, requeue, receipt again | POS tabs over HTTP |
| Offline journal (`infrastructure/offline`) | segment files, sidecar snapshots, ring of recent sales | append, recover, reconcile, seal, reseal, rotate; projection; retention | sale commands append after commit |
| Replay gateway | leases by bucket, in memory or in Redis | admit, release, heartbeat, fence | proxies replayed requests |
| Replay admission | cache slots with a TTL | admit, release | `registrar_venta`, `reconciliar_pago` |
| Web orders, PayPhone, delivery | `Venta` with `origen='WEB'`, quotes, tokens | create, accept, cancel, ready, confirm payment, notify, quote, claim, deliver | gateway, WhatsApp, outbox of messages |
| Ledger | `AccountingAdjustment`, counter shards, registry activation | save with counter deltas, reconciliation, activation | resolutions of payment alerts |
| Inventory, staff, analytics, notifications, web client, configuration | own rows or none | forms, reports, channels | - |

What makes each correct, in a sentence:

* **Sale**: one transaction makes at most one sale; stock is held exactly while a
  sale is live; income is booked once; a paid sale stays paid; no payment is
  lost; no reservation is held for ever.
* **Cash**: what a closing says is what its movements add up to; a refund leaves
  the drawer once, and not more than is in it.
* **Outbox and printing**: nothing is done before it was dispatched or printed,
  and nothing that waits is forgotten; it may be done twice.
* **Journal**: what was acknowledged is recovered; a snapshot never describes
  more than the segment holds.
* **Replay**: the cold lane holds at most its slots; a request loses its ticket to
  time alone; the lane is not left empty while somebody asks.
* **Web orders and delivery**: what is cooked was paid; an answer is about the
  order whose total was announced; one quote sets the fee; what a transaction
  leaves to a task is done.
* **Ledger**: the counters count the open adjustments.

`PROJECT.json` lists every component and, under `hazards`, each place where this
can go wrong, with the properties that watch it or the reason none does yet.

## 2. The plan

In the order of what a mistake costs:

1. **PosSale** with **SaleLedger** (the promise about stock, as an abstract
   specification it implements), **MCPosSale**, **PosSale_proofs** and
   **PosSalePayments_proofs**. *Done.*
2. **CashDrawer**: opening as check then create, manual movements, refunds, the
   closing page that saves what it read, the counter shard and its
   reconciliation. **CashDrawer_proofs**. *Done.*
3. **Outbox** and **PrintJobs**, composed in **PrintPipeline**: unfenced
   completion, sweep, block, tabs. Abstract specification: **AtLeastOnce**, which
   both implement. **PrintPipeline_proofs**. *Done.*
4. **OfflineJournal** implementing **EventLog**, with crashes between and inside
   writes, the unlocked writers of sidecars, copies to USB, receipts and
   destruction. **OfflineJournal_proofs**. *Done.*
5. **ColdLane**: one bucket of the Redis coordinator, with leases that lapse and
   gateways that die. **ColdLane_proofs**. *Done.*
6. **WebOrders** with PayPhone and the reaper over web orders, and **Delivery**,
   which extends it with quotes, conversation, drivers and tasks.
   **Delivery_proofs**. *Done.*
7. **ReplayAdmission** and the pure functions (operating day, retry delay, dispatch score) against reference definitions.

## 3. What is modelled

### PosSale

Every `transaction.atomic()` block of `application/sales/commands.py` is one
action: it locks the rows it works on before it looks at them, so it is atomic
with respect to the other blocks. Everything a handler reads outside such a block
is a step of its own, and what it read stays in a local until it is used.

| Code | Model |
|---|---|
| `Venta` | `sale[s]`: `payment_status`, the request it came from (cart, total, method), turn, `payment_reference`, older than the timeout or not |
| `IdempotencyRecord` | `record[c]`: status and sale; its fingerprint is that of the sale's request |
| `LocationInventory`, `MovimientoInventario` | `stock[p]`; `salidas[s]`, `entradas[s]` count how often a sale took and gave back its cart |
| `MovimientoCaja` INGRESO/VENTA and `SALE_PAID_PRINT` | `booked[s]`: both are written by `_finalize_sale_as_paid` |
| `PendingOfflineOrphanEvent` | `orphan[<<ctid, reference>>]` |
| `AuditLog` `sale.orphan_payment_detected` | `alert[<<confirmation, delivery>>]` |
| `CajaTurno` | `turn[t]` |
| `register_sale` | `TakeTurn`, `CheckVoucher`, `Lookup`, `ReserveNew` / `ReserveKnown` / `RefuseReserve`, `Pay`, `Confirm` / `Decline`, `SettleOrphans`; `CrashRequest` between any two |
| `reconcile_payment_confirmation` | `LookupSale`, then `EnqueueOrphan`, `ConfirmSeen` and `SettleOrphansSeen`, or `RaiseAlert`; `CrashConfirmation` |
| `resolve_payment_exception` | `Reactivate`, `SettleWithoutSale` |
| `expire_stale_pending_sales` | `ReaperScan`, `ReaperHandle` for each candidate, `ReaperCrash` |
| `purge_expired_idempotency_records` | `Purge` |
| `open_cash_register`, `close_cash_register` | `OpenTurn`, `CloseTurn` |

Abstractions, and what they cost:

* Time: a pending sale may become `old` at any moment after it is made, which
  allows every race between the timeout and the checkout. One operating day, and
  no turn older than `MAX_OPEN_CASH_TURN_HOURS`.
* The reaper passes over a sale somebody has locked. Locks live inside one
  action, so `MayBeLocked` says when a handler is about to take the lock, and the
  reaper may pass the sale over then: more behaviours than the code has.
* A crash while orphans are saved one by one leaves any subset of them resolved;
  the code resolves a prefix by `created_at`, which is among them.
* A purge deletes one record at a time. `IDEMPOTENCY_TTL_HOURS` and
  `IDEMPOTENCY_PURGE_AFTER_HOURS` together are days, so with `LateResend = FALSE`
  no request of a purged transaction is left; `LateResend = TRUE` drops that.
* A confirmation names its sale by `client_transaction_id` and has a reference;
  `venta_id` is the same path without the orphan branch.
* One location, cashier and till. `estado`, customers, prices and texts are left
  out; a fingerprint stands for the cart, its prices and the method, which is
  what `_build_request_fingerprint` hashes. The legacy `Inventario` mirror, the
  journal capture and the e-mails after commit change none of the rows above; an
  exception they raise after a commit is `CrashRequest`.

### SaleLedger

What the commands promise about stock and nothing else: a sale holds its cart,
then is sold or releases it; a released one can be revived by taking the cart
again. `ImplementsLedger` maps `payment_status` to its phases.

### Outbox

| Code | Model |
|---|---|
| `OutboxEvent` | `event[e]`: status, attempts, `due` (`available_at` reached), `stale` (`updated_at` older than `OUTBOX_STALE_SECONDS`) |
| `process_outbox_event.delay` | `message[e]`, a count: messages are lost, doubled and overtake one another |
| `process_outbox_event` | `Claim` (the conditional UPDATE) or `Skip`, `Dispatch`, then `Complete` or `Fail`, each of which writes by primary key; `CrashWorker` between any two |
| `sweep_stale_outbox_events` | `SweepScan`, `SweepRelease`, `SweepEnqueue`: the ids are read by one statement and written by the next; `CrashSweep` |
| `performed`, `swept` | history: dispatched with success; taken from a worker by a sweep |

The outcome of a dispatch leaves `updated_at` alone, because `update()` does not
fire `auto_now`: an event that failed is as old as its claim, and the sweep may
take it at once when its delay is over. Two sweeps at a time are not modelled;
nor is the time between the UPDATE of a claim and the SELECT that follows it. The
order of `_dispatch_score` and the batch limits decide when an event is sent for,
never whether.

### PrintJobs

| Code | Model |
|---|---|
| `PrintJob` | `job[j]`: `estado`, `old` (taken longer ago than `PRINT_JOB_STUCK_SECONDS`); `created`, the order of `created_at` |
| `create_print_jobs`, `queue_delivery_receipt_ticket`, `requeue_stuck_print_jobs` | `CreateJob`, `QueueReceipt`, `Requeue` |
| `acknowledge_print_job`, `fail_print_job`, `retry_print_job` | a request, which `Check` reads and checks and `Save` writes later, whatever the row has become; `Lose` |
| `pollPrintJobs`, `procesarPrintJob` of `pedidos_web.html` | `agent[a]`: `Poll`, `StartPrinting`, `FinishPrinting` or `FailPrinting`, `LoseConnection`, `EndJob`; `CloseTab` |
| `retryPrintJob` | `PressRetry` |

The page does not look at the status of an answer, so that a tab that was refused
a job prints it all the same. `printed` says that a tab loaded the page of the
job, which prints itself; paper is beyond the code.

### PrintPipeline and AtLeastOnce

`PrintPipeline` joins the two: to dispatch `SALE_PAID_PRINT` is to create the jobs
one by one (`MakeJob`), each committed by itself, and to return when all exist
(`DispatchSale`). `AtLeastOnce` is the promise of both tables: nothing is settled
before its work was done once, while it may be done again, opened again, or
dropped (`BLOCKED`, `FAILED`). `EventsDispatched` and `JobsPrinted` map the
statuses to its states.

### OfflineJournal

| Code | Model |
|---|---|
| `<segment>.jsonl` | `file[s]`, a sequence of lines: events, footers, torn ones |
| `prev_record_hash`, `record_hash`, `segment_crc32` | the `chain` of a line: the events up to it. A hash binds all that precedes it, so two lines have one hash when they have one chain |
| `<segment>.snapshot.json` | `snap[s]`: `last_offset_confirmed` (in lines), `sealed`, `pending_footer`, the `usb_export` receipts |
| `recover_segment_prefix` | `ValidLength`, `Records`, `Closed`, `Healthy`: computed from the lines, not stored |
| `reconcile_snapshot_with_segment` | `Reconcilable`, `Reconciled` |
| `_discover_active_segment_id`, `_next_segment_id` | `ActiveSegment`, `NextSegment` |
| `append_offline_journal_envelope` | under the lock: `OpenJournal` or `OpenRefused`, `WriteRecord`, `ConfirmRecord` or `RecordNotAtTail`, then `PrepareSeal`, `Reseal`, `WriteFooter`, `ConfirmSeal` when the segment is full, and `EndCall` or `EndRefused` (the limbo view that ends every call) |
| dashboard actions | under the same lock, each after the repair its limbo view makes (`Limbo`): `ReconcileSidecar`, `ResealSegment`, `SealActiveSegment`; on segments the view does not call open (`Historical`) also `MarkSegment` (`revalidate_footer`, `mark_operational_review`), `ExportSegment`, `DestroySegment` |
| `export_segment_bundle_to_usb` | `CopyToUsb`: `usb[s]` becomes what can be read back from the segment |
| `_append_snapshot_receipt`, the notes in `ops_metadata` | `LoadSidecar`, then `StoreSidecar`, as often as the action loads and saves the sidecar (`touches`); a receipt is the records it was given for |
| `destroy_unreplayed_segment_after_usb_export` | `Destroyable`, `RemoveFile`, then `DestroySidecar` |
| the polled limbo view, `offline_limbo`, `ops_preflight`, `offline_journal --reconcile` | `ReadSidecar`, then `RepairSidecar`, without the lock |
| `offline_journal --reseal` | `CommandReseal`, `CommandFooter`, `CommandSealed`, without the lock |
| `offline_retention` with `export_usb`, `purge_synced`, `purge_after_usb` | `CommandExport`, `CommandLoad`, `CommandStore`; `CommandPurge`, `PurgeFile`, `PurgeSidecar`; `CommandDestroy`, `CommandDestroyFile`, `PurgeSidecar`; without the lock |
| a full disk, a death, a power failure | `CutShort`, `CommandCutShort` leave a torn line; `Crash`, `CommandDies`, `ViewerDies` |

The repairs of one opening (`_reconcile_and_rebuild_summary` and the constructor
of `SegmentJournal`) are one step with the decision where to append: they are
idempotent, and an unlocked footer that lands between two of them only makes the
call fail. `os.replace` makes a sidecar old or new, never half. The summary and
the ring of recent sales are computed from the records whenever a segment is
opened and are left out, as are sizes in bytes; ids are those of one day. Two
captures never have the same `event_id`, which contains the sale, the kind of
capture and a time. The purge receipt that is put into a sidecar just before both
files go is left out: nothing reads it, and a sidecar put back from an older read
is what `CommandStore` models. Left out too are signatures: whoever has a sidecar
can quote the receipts in it. `torn`, `raced`, `unlinked`, `acked`,
`destroyed`, `copied`, `late`, `overwritten` and `byHand` are history: `raced` says
that something was written from a read that no longer held, `late` names what was
written to a segment after its last copy, `overwritten` what a copy of the same
name replaced, `byHand` what was destroyed on a receipt.

`EventLog` is the promise: a segment grows by one record at a time while it is
open and sound, what could be read stays readable, and a segment goes as a whole
when it is closed, damaged, copied, or somebody's view of it was out of date.

### WebOrders

| Code | Model |
|---|---|
| `Venta` with `origen='WEB'` | `order[o]`: kind of order, `estado`, `payment_status` (`VOIDED` counts as `FAILED`), who set `costo_envio`, the driver, the customer's answer, reported and confirmed delivery |
| `domain/web_orders/states.py` | `QuoteEditable`, `Transitions`, `CanTransition` |
| `create_web_order` | `CreateWebOrder`; all but PayPhone orders are recorded as paid |
| `accept_web_order`, `mark_order_in_transit`, `mark_order_ready`, `cancel_web_order` | `PanelRead`, then `PanelSave`: the row is read without a lock and `save(update_fields=['estado'])` comes later |
| `set_delivery_cost`, `mark_customer_received` | `CostRead`, `CostSave` (a cost, or nothing: 0 is accepted); `ReceivedRead`, `ReceivedSave` |
| `confirm_payphone_web_order`, `process_payphone_notification` | `PaymentRead`, then `MarkPaid` (decided again under the lock) or `MarkFailed` (saved as it was read) |
| `cancel_payphone_web_order`, also after a checkout that could not be prepared | `CancelPaymentRead`, `MarkFailed` |
| `expire_stale_pending_sales` | `ReapWebOrder`: it takes every `PENDING` sale |

A handler that never saves is one that died, so there is no action for it. Web
orders reserve no stock and create no print jobs when they are accepted; the stock
the reaper gives back for them, the prices, the e-mails, the offline capture, the
orphan PayPhone notification (a row nothing reads) and the endpoint of the
external bot are left out. An approved payment is also saved on an order that was
cancelled: it is then paid and cancelled, and the code has no refund for it.
`undone` and `cleared` are history: orders whose recorded payment a declined answer
overwrote, and orders whose fee the panel set to nothing last.

### Delivery

| Code | Model |
|---|---|
| `DeliveryQuote` | `quote[o][d]` |
| `WhatsAppConversation` | `talk`: whether it awaits the answer to a total, and the order it is about |
| Celery messages | `tasks`, a set: a message may be lost (`LoseTask`), delivered twice, or never sent because the process died after its transaction (`Then`, `Taking`) |
| `submit_manual_delivery_quote`, `submit_tokenized_delivery_quote` | `SubmitQuote` |
| `set_quote_and_notify`, `notify_customer_quote_total` | `SetQuoteAndNotify`, `NotifyCustomerQuoteTotal` |
| `handle_inbound_whatsapp` | `InboundRead`, then `InboundDecides` or `InboundOther`, which save what was read |
| `process_customer_confirmation` | `ProcessCustomerConfirmation`: it looks at no state |
| `claim_delivery_order`, `mark_delivery_in_transit`, `confirm_delivery_completed` | one action each: they lock the row; what they leave to a task follows their commit |
| `create_print_jobs`, `queue_delivery_receipt_ticket` | `RunPrintTask`; what becomes of a job is in PrintJobs |

One customer's telephone and one conversation; `OtherOrder` stands for every order
of theirs that is not in `Order`, and acts on the conversation
(`OtherOrderTalks`). A customer may leave no telephone (`silent`): the conversation is
then not linked and the total not announced. `announced`, `relinked` and `dropped`
are history. Rate limit,
the log that drops a repeated `message_sid`, tokens, PINs, the registration of
drivers and the reminder after a quote's deadline are left out.
`confirm_delivery_completed` (and `resolve_accounting_adjustment`) joins nullable
rows under `select_for_update`, which PostgreSQL refuses, so that there both
handlers fail; SQLite, the default of `settings.py` and the tests' database, leaves
`FOR UPDATE` out. The model is of what the code means to do: the row is locked.

### ColdLane

| Code | Model |
|---|---|
| `org:<org>:ticket` | `ticket[o]`: the request it was given to |
| the ZSETs of slots and waiters, `slice:<org>` | `slots`, `waiters`, `slice[o]` |
| `LUA_ADMIT` | `Admit` or `Deny`; one script is one step |
| `TicketHeartbeatThread`, `LUA_HEARTBEAT` | `Heartbeat` |
| `_proxy` | `Send`, then `Complete` (with `LUA_RELEASE`), `Fenced` or `Cut`; `Abandon` when the gateway dies or Redis does not answer |
| time | `TicketExpires`, `SlotPasses`, `WaiterExpires`, `SliceSpent`, `SliceKeyExpires`, in any order |

A lease that lapses while its holder lives is a fault, and there are `MaxFaults` of
them; without a holder it lapses for nothing. The safety time to live of the slots,
which a heartbeat does not renew, is among the ways a slot passes. Several buckets
do not interact. The in-memory coordinator is one process under one lock; its
slices have no time to live, so that with it a standoff of organizations that
drain for one another may last as long as they ask: that is the mutant of
`NoStandoff`.

### CashDrawer

| Code | Model |
|---|---|
| `CajaTurno` | `turn[t]`; `stated[t]`, the cash a closing expected |
| `MovimientoCaja`, cash sales | `book[t]` counts incomes, expenses, sales of the till, and web orders in cash, those that count and the `CANCELADO` ones, which `calculate_cash_turn_metrics` leaves out; `egress` the refunds |
| `AccountingAdjustment`, `OrganizationLedgerCounterShard` | `adj[a]`, `shard` |
| a transaction that is open | `work[w]`: which rows it has locked and what it read; nobody sees what it writes before it ends |
| `open_cash_register` | `OpenCheck`, `OpenCreate`: nothing is locked |
| `register_cash_movement`, `delete_cash_movement` | `RegisterMovement` (turn locked), `DeleteMovement` (nothing locked, any turn) |
| `close_cash_register` | `CloseBegin` counts under the lock, `CloseSave` commits |
| `get_cash_closing_context` | `PageRead`, `PageSave`: `caja.save()` writes every column it read |
| `resolve_accounting_adjustment` | `RefundBegin`, `RefundCount`, `RefundPay`, or `RefundExternal` |
| `reconcile_organization_ledger_counters` | `ReconcileBegin`, `ReconcileCount`, `ReconcileSave` |
| a sale | `SellBegin`, `SellPay`: as PosSale says in detail |
| `create_web_order` in cash | `OrderBegin`, `OrderCreate`: `PAID` at once, on the turn read open, whatever has become of it |
| `cancel_web_order`, `process_customer_confirmation` | `CancelOrder`, `ReturnOrder`: the turn is neither locked nor looked at |
| a refusal, a death, a deadlock the database breaks | `Abort` |

One cashier with several tabs, one location, one shard, every amount 1. A refund
locks the adjustment and then the shard, a reconciliation the shard and then the
adjustments: they can wait for one another, and `Abort` is what PostgreSQL does.
`touched` is history: turns whose money changed, by a deletion, a late sale, or a
web order made, cancelled or taken back, after it was counted. (On PostgreSQL the
foreign key of a new order waits for the row of its turn, which only takes
interleavings away.) Two open turns of one cashier, and a closed turn that the
closing page opens again, are reachable.

## 4. What is checked

`MCPosSale`, `MCPrintPipeline`, `MCOfflineJournal`, `MCDelivery` and
`MCCashDrawer` give the instances: who sends what, which event asks for which
jobs, and who is alike; `ColdLane` needs none.

| Run | Instance | Result |
|---|---|---|
| `resend` | 3 requests of one transaction (two equal, one with another cart), 1 confirmation delivered twice; fairness; 195 146 states | `RecordAgrees`, `OneSalePerTransaction`, `AnswerIsTrue`, `RefundedPaymentNotBooked`, `CashResendRecovers`, `PaidIsFinal`, `ReservationsEnd` hold |
| `rivals` | 2 transactions for 2 units of one product, wanting 2 and 1; 2 confirmations of the first with different references; 2 turns; requests may come after the purge; 1 368 408 states | `TypeOK`, `StockConserved`, `HeldExactlyWhileLive`, `BookedExactlyOnce`, `ResolvedOrphanIsPaid`, `AnsweredPaymentKept`, `RevivedOnlyByResolution`, `ImplementsLedger` hold |
| `outbox` | the events of a paid sale (2 jobs) and of a critical alert, 2 messages each at a time, 2 workers, 2 attempts, no tab; 1 448 167 states with symmetry of the workers | `OneWorkerUnlessSwept`, `PaidSaleHasJobs`, `DoneUnlessSwept`, `EventsDispatched` hold |
| `printing` | a paid sale with 1 ticket, 1 worker, 1 tab that may be closed and opened again, 1 operator, 2 requests on their way, the receipt asked for again; fairness; 231 449 states | `PrintTypeOK`, `JobsPrinted`, `SalePrinted`, `JobsEnd` hold |
| `journal` | 3 captures, 2 segments of 2 lines, files of 4 lines with torn ones and footers, 2 unlocked calls or actions of retention, 2 deaths or torn lines; 443 778 states with symmetry of the captures | `AckedReadBack`, `AheadOnlyByDamage`, `FilledInOrder`, `DestroyedIsCopied`, `ImplementsLog` hold |
| `web` | 1 order, 2 drivers, 2 handlers, 3 requests that read and save, 1 answer of PayPhone, 1 lost or doubled task, 1 event of the conversation besides those of the order; 1 998 134 states with symmetry | `ServedIsPaid`, `AnswerMeetsItsTotal`, `FollowUpUnlessDropped`, `WinnerSetsFee`, `EstadoFollowsTable` hold |
| `cold_lane` | 3 organizations, 3 requests, 1 slot, 2 waiters, 2 faults; fairness; 500 337 states | `LaneCapacity`, `TicketLostToTime`, `NoStandoff` hold |
| `drawer` | 3 transactions at a time, 8 in all, 2 turns, 2 refunds; 552 167 states with symmetry | `ClosedTurnBalances`, `RefundPaidOnce`, `ShardCountsOpen`, `RefundWithinDrawer` hold |
| `torn_tail` | 2 captures, one line cut short, no unlocked call | `TornTailRecovers` fails |
| `card_resend` | a card sale sent twice | `CardResendRecovers` fails |
| `closed_turn` | a cash sale and the closing of its turn | `NoSaleWithoutOpenTurn` fails |
| `early_payment` | a confirmation beside the registration of its sale | `OrphanMeetsItsSale` fails |

The bounds (`MaxSales`, `MaxTurns`, `MaxDeliveries`, the sets of requests and
confirmations) are the smallest at which every action of the specification takes
place and every pair of handlers can meet on one sale: the code relates a sale
only to its own record, orphans and alerts, and to other sales only through
stock, the voucher check and the turn, so two sales and two messages about one of
them show every kind of interference. Two turns let a sale outlive the one it
was made on. In the outbox two workers and two messages are what a double dispatch
takes, and `MaxAttempts = 2` lets a critical event fail and be claimed again
before it is blocked; the code compares attempts with 10 only, so the model counts
up to the bound. Jobs interfere only through the order in which a tab takes them,
and one tab that is closed and opened again is several tabs one after the other,
each with requests of the former still on their way. The theorems below have no
bounds: any number of events, jobs, workers and tabs.

In the journal, two lines a segment let a record be chained to another and a segment
fill; two segments, that one follows the other; two unlocked calls or actions of
retention, that a segment is copied and destroyed while captures go on, or purged
while an old sidecar comes back; two faults, that a recovery fails in its turn.
With three such calls and one fault, where a segment is also
purged, made again under its id and purged by the sidecar of the former, the same
properties hold.

In the web orders one order is in focus: two orders meet only in the conversation,
where `OtherOrder` stands for the second. Two handlers let one request save over
another, three requests let a cancelled payment, an acceptance and a delivery meet;
one loss is what it takes to leave an order behind, and a second adds nothing to
properties that exempt every order that lost a task. In the cold lane three
organizations are what a standoff with a third asking takes, and two faults let a
lapsed ticket's slot be taken and the late heartbeat take another; a waiting list
shorter than the organizations fills. In the drawer three transactions let a
refund, a closing and a page, or two refunds and a reconciliation, be open at once;
with base 1 and amounts of 1 the drawer runs empty.

Systems stop when all requests are answered, hence `CHECK_DEADLOCK FALSE`.

Findings, each with the counterexample of its run:

* **`card_resend`**: `_validate_card_payment` runs before the lookup of the
  transaction, so a card request that is sent again after its sale was paid is
  refused as a duplicate of itself. Cash and transfer requests recover
  (`CashResendRecovers` in `resend`), but for one case it names: `register_sale`
  asks for an open turn before it looks the transaction up, so that a request sent
  again after the turn was closed is refused ("No hay caja activa") although its
  sale was completed.
* **`closed_turn`**: a sale can be reserved and paid on a turn closed meanwhile;
  nothing after the first unlocked read looks at `fecha_cierre`.
* **`early_payment`**: looking for the sale and storing the orphan are two steps;
  a sale that is paid in between never sees the orphan, and no later step
  resolves it.
* **`torn_tail`**: the guide says the valid prefix of the active segment is
  recovered; it is read, but the next line is written behind the torn one, and
  the sidecar then claims the whole file. That capture fails in its closing view,
  so nothing acknowledged is lost (`AckedReadBack`), but every later capture is
  refused, and its failure is only logged.

Where the sidecar is written without the lock, the journal promises less, and
`AckedReadBack`, `AheadOnlyByDamage` and `FilledInOrder` say where the limit lies:
they exempt a segment only once a write to it has acted on an out-of-date read.
`FilledInOrder` exempts a pair of segments also when one between them was damaged or
raced, since what becomes of that one decides which segment counts as active.
The two segments of `journal` cannot show it: the attempt to prove the property
found it, and TLC confirmed it on an instance with three (a trace of 35 states).
`ImplementsLog` shows what is left even then. That an open segment can be purged
after such a race (a sidecar of the former segment of the same id comes back and
says it is sealed) is the last alternative of `Destroy`.

`DestroyedIsCopied` says how much an export receipt is worth. It is not compared
with the segment it lets destroy: what was captured after the copy goes with the
rest (`late`), and a copy of a segment that reuses the id takes the place of the
former one on the disk (`overwritten`). The dashboard keeps such actions from the
active segment, but only while its limbo view can be computed; the command asks
nobody. A process that dies between the two unlinks leaves a sidecar whose receipt
speaks for the next segment of that id; its captures are `raced`.

What the web orders promise is said with its exceptions, which are what the code
does. An order is served unpaid only if a declined answer was saved over a recorded
payment (`undone`) or if it was placed while the conversation awaited the answer to
another's total and took that answer for itself (`relinked`); `EstadoFollowsTable`
names the four writers of `estado` that do not ask the table: the winning
quote, for which the table has no row, a request that saves over a newer state, the
customer's answer, and the refusal of a payment. The last can cancel an order that
is ready, if its recorded payment had been overwritten and a late request of the
panel had made it ready all the same (`_mark_web_order_payment_failed`). The bounds
of `web` do not let that happen; the attempt to prove the property found it. The driver who
claims an order may be another than the one whose quote won, and a fee that the
panel set to 0 after a quote won is to the claim one that nobody set: it becomes the
claiming driver's (`costo_envio <= 0` in `claim_delivery_order`), which
`WinnerSetsFee` says with `cleared`. `LaneCapacity` exempts
an organization whose slot passed by a gateway's clock while its ticket lived by
Redis': its heartbeat takes the slot again without asking who has it.

With `LateResend = TRUE`, `RecordAgrees` and `OneSalePerTransaction` do not hold
and are not claimed: a record that is gone lets the identifier be used again.
`RefundedPaymentNotBooked` is claimed however often a confirmation is delivered, with
the exception that the code has: each delivery of a late confirmation raises an
alert of its own, and two alerts of one payment can be resolved differently.
`AnsweredPaymentKept` says where an answered payment can be looked for: in the inbox,
in an alert, or as the payment of its sale. Its last case is the limit of that: when
the sale was paid by another payment made in its name, the answer is `already_paid`
and the second payment is stored nowhere.

`ClosedTurnBalances` and `RefundWithinDrawer` exempt `touched` turns. That a cash
order of the web is cancelled after the closing that counted it, or between the
count of a refund and its payment, is reachable; so is that the closing page opens a
closed turn again (`PageSave`), of which they say nothing until it is closed anew.

`OneWorkerUnlessSwept` and `DoneUnlessSwept` say precisely how far the claim
protects an event: up to the first sweep. After it, a worker that was slow and not
dead shares the event with another one, and its late `FAILED` opens what the other
has completed; that this is harmless is what `EventsDispatched`, `PaidSaleHasJobs`
and `SalePrinted` show.

### Fairness

`FairSpec` of `PosSale` assumes that a handler that has started goes on or dies (the worker
timeout of the web server) and that time passes (`Age`). It assumes nothing of the
reaper: the code has the task but `beat_schedule` does not list it;
`guides/pos_v2_ops.md` has operators run it when `pending_sales_backlog` is reported.
`ReservationsEnd` therefore has two parts: a reservation ends, or the worker that made
it died; and if somebody runs the reaper again and again, and not every one of its runs
dies before it comes to a given sale (`ReaperKeepsRunning`, the hypothesis of the
second part), it ends in any case.

`FairSpec` of `PrintPipeline` assumes that workers, tabs and the server go on,
that time passes, that the requeue task runs (`beat_schedule` has it every
minute), and that a dispatch that can succeed is not always the one that fails.
Messages, workers, requests and tabs may be lost any number of times, but not for
ever. Nothing is assumed of the sweep, which `beat_schedule` does not list either:
`SalePrinted` says that a ticket comes to its end or its event is `Stranded` (nobody is
at it and no message is on its way), and that it comes to its end in any case if
somebody runs the sweep again and again (`SweepKeepsRunning`). Nobody is assumed to
press REINTENTAR.

`FairSpec` of `ColdLane` assumes that every organization goes on asking (a till
retries what it queued offline), that a request that was admitted goes upstream and
ends (`_proxy` has a total timeout), and that keys nobody renews expire. It does not
assume that a waiter grows old: one that asks again before never does.

## 5. What is proved

`PosSale_proofs` proves, for every set of requests, confirmations, transactions
and products and every bound, from the assumptions named in `PosSale`
(`BoundsAssumption`, `PayloadAssumption`, `StockAssumption`,
`FingerprintAssumption`):

| Theorem | Statement |
|---|---|
| `TypeCorrect` | `Spec => []TypeOK` |
| `CountsCorrect` | `Spec => [](HeldExactlyWhileLive /\ BookedExactlyOnce)` |
| `PaidStays` | `Spec => PaidIsFinal` |
| `RevivedByAlert` | `Spec => RevivedOnlyByResolution` |
| `SalesImplementLedger` | `Spec => ImplementsLedger` |
| `Idempotent` | without late resends, `Spec => [](RecordAgrees /\ OneSalePerTransaction /\ AnswerIsTrue)` |

`TypeOK` is inductive. The counts are inductive with it, because every action
that changes a status writes the matching movement in the same transaction.
`StepKinds` sorts the actions by what they do to the sales (nothing, create, pay,
fail, revive, age); the step properties and the refinement follow case by case.

`Idempotent` needs more: that a record agrees with its sale says nothing of a
handler that is between its lookup and its payment. `RecordInv` adds that a
record that exists belongs to a sale and fails with it (`RecordHasSale`), that a
handler past its reservation works on a sale of its own transaction and
fingerprint (`RequestsOwn`), and that a transaction with a sale but no record was
purged when none of its requests was left (`PurgedIsOver`), which is where the
time to live of the records is used.

`PrintPipeline_proofs` proves, from `OutboxAssumption`, `PrintAssumption` and
`PipelineAssumption`:

| Theorem | Statement |
|---|---|
| `OutboxTypeCorrect`, `PrintTypeCorrect` | `OutboxSpec => []OutboxTypeOK`, `PrintSpec => []PrintTypeOK` |
| `OneWorker` | `OutboxSpec => []OneWorkerUnlessSwept` |
| `DoneStays` | `OutboxSpec => DoneUnlessSwept` |
| `OutboxImplementsQueue`, `PrintJobsImplementQueue` | `OutboxSpec => EventsDispatched`, `PrintSpec => JobsPrinted` |
| `SaleHasJobs` | `Spec => []PaidSaleHasJobs` |
| `PipelineImplementsQueues` | `Spec => EventsDispatched /\ JobsPrinted` |

`OneWorkerUnlessSwept` is not inductive: nothing in it stops a second claim. It
becomes so with `Exclusive`: while no sweep took the event, whoever is at it finds
it `IN_PROGRESS`, which is what a claim looks for. `EventsDispatched` needs that a
worker past its dispatch has `performed` behind it, whatever became of the row;
`JobsPrinted`, that a report of success on its way is about a printed job, and
that a tab at work has a job that exists (`Reported`): since a report says nothing of the row's history, the requeue
and the retry cannot break it. In the composition every step is a step of the
parts (`PipelineSteps`), so their theorems carry over; `SaleHasJobs` adds that a
worker past its dispatch has all the jobs of its event and that rows of print jobs
are never deleted (`RowsStay`).

`StockConserved` is about a sum over the live sales, which is a fold. `SumTheorems`
has what is needed of such sums (a sum over no element, one more element, one
less, the same values): the library's induction theorems take an operator and
cannot be used, but the numbers for which a statement about all subsets of that
size holds are a set like any other, and a set of numbers that has 0, and `n + 1`
with every `n`, is all of `Nat` since `<` is well-founded (`NatInductive`). The stock then follows from
the same kinds of steps as the counts.
`CashResend` needs `RecordInv`, since a handler refused because its own sale failed
could otherwise face a completed record, and that only cards come to the voucher check
and to a decline (`CardSteps`).

| Theorem of `PosSale_proofs` | Statement |
|---|---|
| `StockKept` | `Spec => []StockConserved` |
| `HoldsMatchSales` | `Spec => []HeldExactlyWhileLive`, from `CountsCorrect` |
| `CashResend` | without late resends, `Spec => CashResendRecovers` |
| `RecordsAgree`, `AnswersTrue` | without late resends, `Spec => []RecordAgrees`, `Spec => []AnswerIsTrue`, from `Idempotent` |

`PosSalePayments_proofs` proves what becomes of payments:

| Theorem | Statement |
|---|---|
| `OrphansArePaid` | `Spec => []ResolvedOrphanIsPaid` |
| `AnsweredPaymentsKept` | `Spec => []AnsweredPaymentKept` |
| `RefundsNotBooked` | `Spec => []RefundedPaymentNotBooked` |

None of these looks at the handlers that are on their way, so none is inductive.
`PaidInv` adds that whoever has seen its sale paid is right for ever (`PaidStays`),
which is what lets it resolve orphans outside the transaction; `AlertInv`, that an
alert is about a sale of its confirmation's transaction that failed or that an alert's
payment revived. `AnsweredPaymentsKept` also needs that a sale carries only a payment
made in the name of its transaction (`PaymentInv`), for which records and requests
about to pay must name a sale of their own transaction (`NameInv`), also after the
record was purged. The three theorems hold for any number of deliveries.

`CashDrawer_proofs` proves, from `DrawerAssumption`, for any number of
transactions, turns and refunds:

| Theorem | Statement |
|---|---|
| `DrawerTypeCorrect` | `Spec => []TypeOK` |
| `ClosingsBalance` | `Spec => []ClosedTurnBalances` |
| `RefundsOnce` | `Spec => []RefundPaidOnce` |
| `ShardCorrect` | `Spec => []ShardCountsOpen` |
| `RefundsWithin` | `Spec => RefundWithinDrawer` |

The invariant `DrawerInv` is about the open transactions. The row locks are not
variables of the model, so that two transactions never hold one row has to be proved
(`Locked`), and so has that what is locked stays as it was found (`RowsHeld`); with
them a refund counted under its lock is still owed when it is paid (`PaidInv`), what
a reconciliation counted is still the number of open adjustments when it is saved
(`CountInv`), and what a closing counted still adds up (`MoneyInv`), unless the money
was touched by a statement that takes no lock.

`ColdLane_proofs` proves, from `LaneAssumption`, for any number of slots:

| Theorem | Statement |
|---|---|
| `LaneTypeCorrect` | `Spec => []TypeOK` |
| `CapacityKept` | `Spec => []LaneCapacity` |
| `TicketKept` | `Spec => TicketLostToTime` |

The admission counts slots while the capacity is about tickets. `HoldersHaveSlots`
ties them: whoever has a ticket has a slot, unless it passed before the ticket did.

`Delivery_proofs` proves, from `WebAssumption` and `DeliveryAssumption`, for any
number of orders, drivers, handlers, requests, answers and lost tasks, and so also
what the one order of the run cannot show:

| Theorem | Statement |
|---|---|
| `DeliveryTypeCorrect` | `Spec => []TypeOK` |
| `ServedWasPaid` | `Spec => []ServedIsPaid` |
| `AnswersMeetTotals` | `Spec => []AnswerMeetsItsTotal` |
| `OneQuoteWins` | `Spec => []WinnerSetsFee` |
| `FollowUpsKept` | `Spec => []FollowUpUnlessDropped` |
| `StatesFollowTable` | `Spec => EstadoFollowsTable` |

`CallInv` says what a request that has read its order and has not saved yet may rely
on: that the table allowed it its step, and that the order had been paid. `RowInv`
says the same of the rows, since only PayPhone orders are paid later. `TalkInv`
follows an announced total through tasks, the conversation and the message on its
way to the answer.

`OfflineJournal_proofs` proves, from `JournalAssumption`, for any number of captures,
segments, lines, calls and faults:

| Theorem | Statement |
|---|---|
| `JournalInvAlways`, `JournalTypeCorrect` | `JournalSpec => []JournalInv`, `JournalSpec => []JournalTypeOK` |
| `AckedCaptureKept` | `JournalSpec => []AckedReadBack` |
| `AheadOnlyDamaged` | `JournalSpec => []AheadOnlyByDamage` |
| `SegmentsInOrder` | `JournalSpec => []FilledInOrder` |
| `DestroyedWasCopied` | `JournalSpec => []DestroyedIsCopied` |
| `JournalImplementsLog` | `JournalSpec => ImplementsLog` |

First comes what a file gives back when a line is put behind it: `ValidLength` is the
first line that is not valid, and that a set of lines has a first one follows from
the well-foundedness of `<`, without an induction schema. A line then adds a record,
closes the segment, or lands behind what cannot be read (`Adds`, `Closes`, `Behind`);
in no case is anything lost that was read before (`Grows`). `JournalInv` has these
parts:

* `SegInv`: what a file and its sidecar tell of each other (`SegmentOK`), for every
  segment nobody wrote to from an out-of-date read. It gives `AheadOnlyByDamage`.
* `WriterInv`, `CommandInv`, `ViewerInv`: what the holder of the lock, the management
  command and the polled view may still count on in the middle of a call, although
  the other two went on meanwhile; `BothInv`, that only a race brings two of them to
  remove one sidecar.
* `OrderInv`: a segment that is not sealed is the last but for damage. It speaks of
  the sidecars and of the call whose check is to come, since `FilledInOrder` by itself
  says nothing of a sidecar that an old call may put back.
* `AckInv`: a capture on its way to its acknowledgement is in the file, or the
  sidecar gives it away and the view that ends the call refuses. `AckedReadBack`
  is what is left of it once the call is over.
* `ByHandInv`: what was destroyed on a receipt is on the disk, came after the copy,
  or was on a copy that another replaced. `SegmentOK` has what makes it so: a receipt
  is only in the sidecar of a segment that was copied (or whose file is gone), and
  what such a segment holds is on the disk or came later.

TLC found `JournalInv` to hold on the instance of `journal` and on one with three
segments before it was proved. The refinement of `EventLog` goes by what happens to the
files: a line maps to `Record`, `Close` or `Damage`, an export to `Copy`, the removal of a file
to `Destroy`, and every other step to a stutter or to the growth of `raced`.

Only model-checked: what is about liveness, which is out of TLAPS's reach
(`ReservationsEnd`, `SalePrinted`, `JobsEnd`, `NoStandoff`). Every other property of
the passing runs is a theorem. The four runs that expect a violation show by a trace
what the code does; there is nothing to prove about them.

## 6. What is not modelled

What the tables of section 3 leave out, and the components `PROJECT.json` lists as
not modelled. That a ticket is printed once, or that a receipt asked for
again is printed again, is promised nowhere and does not hold: two tabs may take
one job, and a late report of the first printing is accepted for the second. Of the
sale: the alert for sales replayed after their closing, the journal capture that
follows a commit. Of the cash register: the PIN, whose attempts are counted under
the lock of the profile; attendance; customers. Of the journal: the projection,
`offline_writer`, and the size limit of sidecars, which hold up to a hundred
receipts: above it a sidecar cannot be saved and captures fail after their line is
written, which takes dozens of exports of one segment. Replay admission inside Django takes cache slots that
expire and gives them back by reading and deleting; a lapsed slot may be deleted
for whoever holds it by then, and no document says what it promises. The fence of
the ledger registry compares three values per request. Manual inventory movements
read and save the legacy `Inventario` row without a lock, which sales mirror but do
not reserve from.
The till's page (`src/pos/templates/pos/index.html`) is the client that PosSale lets
do anything. It keeps one transaction id until an answer comes and drops it on every
answer that is not ok (1257): also on a 409 that says the sale is being processed,
and on a 500 sent after the commit, so that the next press is a new sale. On
reload it reports a ticket as recovered whatever its payment status (465). PosSale's
client may use any id in any request, which contains these behaviours; which of
them one cart can cause is not checked, since no document promises that one cart is
charged once.
Analytics, inventory forms, staff, notification channels, the web client and the
configuration have no protocol of their own; `PROJECT.json` says so for each.
