----------------------------- MODULE CashDrawer -----------------------------
(***************************************************************************)
(* A cashier's turns at the drawer, the refunds paid out of it, and the    *)
(* counter of the refunds still owed.                                      *)
(*                                                                         *)
(* application/cash_register and cash_movements open and close turns and   *)
(* book what comes in and goes out; resolve_accounting_adjustment pays a   *)
(* refund from the drawer; AccountingAdjustment.save keeps a counter shard *)
(* of the open refunds, which reconcile_organization_ledger_counters       *)
(* counts anew.  Every handler is a transaction of the database at READ    *)
(* COMMITTED: what it writes is seen when it commits, a row it locks stays *)
(* locked until then, and what it reads without a lock may change under    *)
(* its feet.  The transactions open at a moment are the workers' records:  *)
(* they say which rows are locked, so there is no variable for a lock.     *)
(*                                                                         *)
(* One cashier (several tabs), one location, one shard; every amount is 1. *)
(***************************************************************************)
EXTENDS Integers, FiniteSets

CONSTANTS
  Worker,        \* requests being served at the same time
  Adjustment,    \* refunds a resolved payment alert may leave to pay
  MaxTurns,      \* bound: turns ever opened
  MaxRequests,   \* bound: requests ever begun
  Base,          \* base_inicial, the cash a turn opens with
  NoTurn, NoAdjustment

ASSUME DrawerAssumption ==
  /\ MaxTurns \in Nat \ {0}
  /\ MaxRequests \in Nat
  /\ Base \in Nat
  /\ NoTurn \notin Nat
  /\ NoAdjustment \notin Adjustment

Turn == 1 .. MaxTurns

VARIABLES
  turn,     \* turn[t]: "none", "open" or "closed" (CajaTurno.fecha_cierre)
  stated,   \* stated[t]: the expected cash that closing t saved
  book,     \* book[t]: incomes, expenses, cash sales of the till, and the cash
            \* orders of the web, those that count for t and the cancelled ones
  egress,   \* the EGRESO movements of refunds; kept: not deleted since
  adj,      \* adj[a]: "none"; open as "owed" or "unidentified"; how it was paid
  shard,    \* OrganizationLedgerCounterShard.open_adjustment_count
  work,     \* work[w]: the transaction worker w has open
  asked,    \* requests begun
  touched   \* history: turns whose money changed after it was counted

vars == <<turn, stated, book, egress, adj, shard, work, asked, touched>>
drawer == <<turn, stated, book, egress, touched>>
ledger == <<adj, shard>>

Op == {"idle", "opening", "closing", "page", "selling", "ordering", "refunding", "paying",
       "external", "creating", "reconciling", "counted"}

Idle == [op |-> "idle", turn |-> NoTurn, adj |-> NoAdjustment, seen |-> 0]

BookRow == [income : Nat, expense : Nat, sales : Nat, orders : Nat, cancelled : Nat]

TypeOK ==
  /\ turn \in [Turn -> {"none", "open", "closed"}]
  /\ stated \in [Turn -> Int]
  /\ book \in [Turn -> BookRow]
  /\ egress \subseteq [turn : Turn, adj : Adjustment, by : Worker, kept : BOOLEAN]
  /\ adj \in [Adjustment -> {"none", "owed", "unidentified", "cash", "external"}]
  /\ shard \in Int
  /\ work \in [Worker -> [op : Op, turn : Turn \cup {NoTurn},
                          adj : Adjustment \cup {NoAdjustment}, seen : Int]]
  /\ asked \in 0 .. MaxRequests
  /\ touched \subseteq Turn

Init ==
  /\ turn = [t \in Turn |-> "none"]
  /\ stated = [t \in Turn |-> 0]
  /\ book = [t \in Turn |-> [income |-> 0, expense |-> 0, sales |-> 0,
                            orders |-> 0, cancelled |-> 0]]
  /\ egress = {}
  /\ adj = [a \in Adjustment |-> "none"]
  /\ shard = 0
  /\ work = [w \in Worker |-> Idle]
  /\ asked = 0
  /\ touched = {}

-----------------------------------------------------------------------------
(* What a query returns and which rows are locked.                          *)

KeptRefunds(t) == {e \in egress : e.turn = t /\ e.kept}

\* get_cash_available_on_turn, and "esperado" of _finalize_cash_register_close:
\* of the turn's paid cash sales, those that are not CANCELADO.
CashOf(t) ==
  Base + book[t].income + book[t].sales + book[t].orders
    - book[t].expense - Cardinality(KeptRefunds(t))

OpenTurns == {t \in Turn : turn[t] = "open"}

\* .filter(usuario=user, fecha_cierre__isnull=True).first()
FirstOpen(t) == t \in OpenTurns /\ \A u \in OpenTurns : t <= u

\* Whose transaction holds the turn's row (a closing, a refund from the drawer).
TurnFree(t) == \A w \in Worker : work[w].op \in {"closing", "paying"} => work[w].turn # t

\* get_open_refund_adjustments_for_cash_register: the REFUND_LIABILITY ones.
Owed == {a \in Adjustment : adj[a] = "owed"}

OpenAdjustments == {a \in Adjustment : adj[a] \in {"owed", "unidentified"}}

AdjustmentFree(a) ==
  \A w \in Worker :
    /\ work[w].op \in {"refunding", "paying", "external"} => work[w].adj # a
    /\ work[w].op # "counted"

\* Mutant: a reconciliation counts without locking the shards.
NoShardLock == TRUE

ShardFree == \A w \in Worker : work[w].op \notin {"reconciling", "counted"}

Begin(w, job) ==
  /\ work[w].op = "idle"
  /\ asked < MaxRequests
  /\ asked' = asked + 1
  /\ work' = [work EXCEPT ![w] = job]

Continue(w, job) == work' = [work EXCEPT ![w] = job] /\ UNCHANGED asked

End(w) == Continue(w, Idle)

\* A request that is over in one statement or under one lock of its own.
AtOnce(w) == Begin(w, Idle)

-----------------------------------------------------------------------------
(* Opening a turn: looked for without a lock, then created.                 *)

OpenCheck(w) ==
  /\ OpenTurns = {}
  /\ Begin(w, [Idle EXCEPT !.op = "opening"])
  /\ UNCHANGED <<drawer, ledger>>

OpenCreate(w) ==
  /\ work[w].op = "opening"
  /\ \E t \in Turn :
       /\ turn[t] = "none"
       /\ \A u \in Turn : turn[u] = "none" => t <= u
       /\ turn' = [turn EXCEPT ![t] = "open"]
  /\ End(w)
  /\ UNCHANGED <<stated, book, egress, touched, ledger>>

-----------------------------------------------------------------------------
(* Movements.  Registering one locks the open turn; deleting one locks      *)
(* nothing and does not look at the turn.                                   *)

\* Mutant: the turn is looked for without a lock.
RegisterUnlocked(w) ==
  /\ \E t \in Turn :
       /\ FirstOpen(t)
       /\ \E tipo \in {"income", "expense"} :
            book' = [book EXCEPT ![t][tipo] = @ + 1]
  /\ AtOnce(w)
  /\ UNCHANGED <<turn, stated, egress, touched, ledger>>

RegisterMovement(w) ==
  /\ \E t \in Turn :
       /\ FirstOpen(t)
       /\ TurnFree(t)
       /\ \E tipo \in {"income", "expense"} :
            book' = [book EXCEPT ![t][tipo] = @ + 1]
  /\ AtOnce(w)
  /\ UNCHANGED <<turn, stated, egress, touched, ledger>>

\* The money of t changes although somebody counted it, or counts it now.
Touch(t) ==
  touched' = IF turn[t] = "closed" \/ ~TurnFree(t) THEN touched \cup {t} ELSE touched

DeleteMovement(w) ==
  /\ \E t \in Turn :
       /\ \/ \E tipo \in {"income", "expense"} :
               /\ book[t][tipo] > 0
               /\ book' = [book EXCEPT ![t][tipo] = @ - 1]
               /\ UNCHANGED egress
          \/ \E e \in KeptRefunds(t) :
               /\ egress' = (egress \ {e}) \cup {[e EXCEPT !.kept = FALSE]}
               /\ UNCHANGED book
       /\ Touch(t)
  /\ AtOnce(w)
  /\ UNCHANGED <<turn, stated, ledger>>

\* A cash sale: registered on the turn read open, paid on that turn when its
\* row is free, whatever has become of it.
SellBegin(w) ==
  /\ \E t \in Turn : FirstOpen(t) /\ Begin(w, [Idle EXCEPT !.op = "selling", !.turn = t])
  /\ UNCHANGED <<drawer, ledger>>

SellPay(w) ==
  /\ work[w].op = "selling"
  /\ TurnFree(work[w].turn)
  /\ book' = [book EXCEPT ![work[w].turn].sales = @ + 1]
  /\ Touch(work[w].turn)
  /\ End(w)
  /\ UNCHANGED <<turn, stated, egress, ledger>>

\* A cash order of the web: PAID from the start on the turn read open, whatever
\* has become of it.  create_web_order locks nothing.  (On PostgreSQL the foreign
\* key makes it wait for the turn's row; that only takes interleavings away.)
OrderBegin(w) ==
  /\ \E t \in Turn : FirstOpen(t) /\ Begin(w, [Idle EXCEPT !.op = "ordering", !.turn = t])
  /\ UNCHANGED <<drawer, ledger>>

OrderCreate(w) ==
  /\ work[w].op = "ordering"
  /\ book' = [book EXCEPT ![work[w].turn].orders = @ + 1]
  /\ Touch(work[w].turn)
  /\ End(w)
  /\ UNCHANGED <<turn, stated, egress, ledger>>

Cancelled(row, n) ==
  [row EXCEPT !.orders = row.orders - n, !.cancelled = row.cancelled + n]

\* The panel or the customer cancels an order; the customer's late yes takes the
\* cancellation back.  estado is written, the turn is neither locked nor read.
CancelOrder(w) ==
  /\ \E t \in Turn :
       /\ book[t].orders > 0
       /\ book' = [book EXCEPT ![t] = Cancelled(book[t], 1)]
       /\ Touch(t)
  /\ AtOnce(w)
  /\ UNCHANGED <<turn, stated, egress, ledger>>

ReturnOrder(w) ==
  /\ \E t \in Turn :
       /\ book[t].cancelled > 0
       /\ book' = [book EXCEPT ![t] = Cancelled(book[t], -1)]
       /\ Touch(t)
  /\ AtOnce(w)
  /\ UNCHANGED <<turn, stated, egress, ledger>>

-----------------------------------------------------------------------------
(* Closing a turn, and the page that shows what closing it would say.       *)

\* With refunds still owed the cashier needs an override and a justification.
CloseBegin(w) ==
  /\ \E override \in BOOLEAN, t \in Turn :
       /\ FirstOpen(t)
       /\ TurnFree(t)
       /\ Owed # {} => override
       /\ Begin(w, [Idle EXCEPT !.op = "closing", !.turn = t, !.seen = CashOf(t)])
       /\ touched' = touched \ {t}
  /\ UNCHANGED <<turn, stated, book, egress, ledger>>

CloseSave(w) ==
  /\ work[w].op = "closing"
  /\ turn' = [turn EXCEPT ![work[w].turn] = "closed"]
  /\ stated' = [stated EXCEPT ![work[w].turn] = work[w].seen]
  /\ End(w)
  /\ UNCHANGED <<book, egress, touched, ledger>>

\* get_cash_closing_context: a GET that reads the open turn ...
PageRead(w) ==
  /\ \E t \in Turn : FirstOpen(t) /\ Begin(w, [Idle EXCEPT !.op = "page", !.turn = t])
  /\ UNCHANGED <<drawer, ledger>>

\* ... and saves every column it read: a turn closed meanwhile is open again.
PageSave(w) ==
  /\ work[w].op = "page"
  /\ TurnFree(work[w].turn)
  /\ turn' = [turn EXCEPT ![work[w].turn] = "open"]
  /\ End(w)
  /\ UNCHANGED <<stated, book, egress, touched, ledger>>

-----------------------------------------------------------------------------
(* Refunds.  resolve_payment_exception creates the adjustment; resolving it *)
(* locks its row, then the turn, then the shard.                            *)

CreateAdjustment(w) ==
  /\ \E a \in Adjustment :
       /\ adj[a] = "none"
       /\ \A v \in Worker : work[v].adj # a
       /\ Begin(w, [Idle EXCEPT !.op = "creating", !.adj = a])
  /\ UNCHANGED <<drawer, ledger>>

\* The row is inserted, then save() locks the shard and adds to it.
CreateCommit(w) ==
  /\ work[w].op = "creating"
  /\ ShardFree
  /\ \E bucket \in {"owed", "unidentified"} :
       adj' = [adj EXCEPT ![work[w].adj] = bucket]
  /\ shard' = shard + 1
  /\ End(w)
  /\ UNCHANGED drawer

\* Mutant: the adjustment is read without a lock.
RefundUnlocked(w) ==
  /\ \E a \in Owed, mode \in {"refunding", "external"} :
       Begin(w, [Idle EXCEPT !.op = mode, !.adj = a])
  /\ UNCHANGED <<drawer, ledger>>

RefundBegin(w) ==
  /\ \E a \in Owed, mode \in {"refunding", "external"} :
       /\ AdjustmentFree(a)
       /\ Begin(w, [Idle EXCEPT !.op = mode, !.adj = a])
  /\ UNCHANGED <<drawer, ledger>>

\* Mutant: the turn is not locked while its cash is counted and paid out.
CountUnlocked(w) ==
  /\ work[w].op = "refunding"
  /\ \E t \in Turn :
       /\ FirstOpen(t)
       /\ CashOf(t) >= 1
       /\ Continue(w, [work[w] EXCEPT !.op = "paying", !.turn = t, !.seen = CashOf(t)])
       /\ touched' = touched \ {t}
  /\ UNCHANGED <<turn, stated, book, egress, ledger>>

\* From the drawer: the open turn is locked and its cash counted.
RefundCount(w) ==
  /\ work[w].op = "refunding"
  /\ \E t \in Turn :
       /\ FirstOpen(t)
       /\ TurnFree(t)
       /\ CashOf(t) >= 1
       /\ Continue(w, [work[w] EXCEPT !.op = "paying", !.turn = t, !.seen = CashOf(t)])
       /\ touched' = touched \ {t}
  /\ UNCHANGED <<turn, stated, book, egress, ledger>>

RefundPay(w) ==
  /\ work[w].op = "paying"
  /\ ShardFree
  /\ egress' = egress \cup {[turn |-> work[w].turn, adj |-> work[w].adj, by |-> w,
                              kept |-> TRUE]}
  /\ adj' = [adj EXCEPT ![work[w].adj] = "cash"]
  /\ shard' = shard - 1
  /\ End(w)
  /\ UNCHANGED <<turn, stated, book, touched>>

\* Paid by other means: no movement, no turn.
RefundExternal(w) ==
  /\ work[w].op = "external"
  /\ ShardFree
  /\ adj' = [adj EXCEPT ![work[w].adj] = "external"]
  /\ shard' = shard - 1
  /\ End(w)
  /\ UNCHANGED drawer

-----------------------------------------------------------------------------
(* reconcile_organization_ledger_counters: locks the shards, then the open  *)
(* adjustments, counts them and writes the shards.                          *)

ReconcileBegin(w) ==
  /\ ShardFree
  /\ Begin(w, [Idle EXCEPT !.op = "reconciling"])
  /\ UNCHANGED <<drawer, ledger>>

ReconcileCount(w) ==
  /\ work[w].op = "reconciling"
  /\ \A a \in OpenAdjustments : AdjustmentFree(a)
  /\ Continue(w, [work[w] EXCEPT !.op = "counted", !.seen = Cardinality(OpenAdjustments)])
  /\ UNCHANGED <<drawer, ledger>>

ReconcileSave(w) ==
  /\ work[w].op = "counted"
  /\ shard' = work[w].seen
  /\ End(w)
  /\ UNCHANGED <<drawer, adj>>

\* A transaction is undone: its worker dies, it is refused (no cash, no open
\* turn), or the database breaks the embrace of a refund, which waits for the
\* shard, and a reconciliation, which waits for the adjustment.
Abort(w) ==
  /\ work[w].op # "idle"
  /\ End(w)
  /\ UNCHANGED <<drawer, ledger>>

Next ==
  \E w \in Worker :
    \/ OpenCheck(w) \/ OpenCreate(w)
    \/ RegisterMovement(w) \/ DeleteMovement(w)
    \/ SellBegin(w) \/ SellPay(w)
    \/ OrderBegin(w) \/ OrderCreate(w) \/ CancelOrder(w) \/ ReturnOrder(w)
    \/ CloseBegin(w) \/ CloseSave(w)
    \/ PageRead(w) \/ PageSave(w)
    \/ CreateAdjustment(w) \/ CreateCommit(w)
    \/ RefundBegin(w) \/ RefundCount(w) \/ RefundPay(w) \/ RefundExternal(w)
    \/ ReconcileBegin(w) \/ ReconcileCount(w) \/ ReconcileSave(w)
    \/ Abort(w)

Spec == Init /\ [][Next]_vars

-----------------------------------------------------------------------------
(* Properties.                                                              *)

\* What closing a turn saved as expected is what its sales and movements add up
\* to, for as long as none is deleted, paid, ordered, cancelled or taken back
\* behind the back of the closing (_finalize_cash_register_close): registered
\* movements, refunds, other closings and the page cannot tell the two apart.
\* Of a turn that the page opened again (PageSave) nothing is said.
ClosedTurnBalances ==
  \A t \in Turn \ touched : turn[t] = "closed" => stated[t] = CashOf(t)

\* A refund is paid once: settled from the drawer it left one EGRESO, settled
\* otherwise or not at all it left none, whoever asks for it at the same time
\* (resolve_accounting_adjustment).
RefundPaidOnce ==
  \A a \in Adjustment :
    Cardinality({e \in egress : e.adj = a}) = IF adj[a] = "cash" THEN 1 ELSE 0

\* Paying a refund leaves the drawer with no less than nothing, unless, after the
\* cash was counted, a movement was deleted or a web order made, cancelled or
\* taken back, which do not wait for the turn (get_cash_available_on_turn).
RefundWithinDrawer ==
  [][\A t \in Turn \ touched' :
       KeptRefunds(t)' # KeptRefunds(t) /\ CashOf(t)' < CashOf(t) => CashOf(t)' >= 0]_vars

\* The counter of the shard is the number of open adjustments, whichever
\* payments and resolutions a reconciliation runs into
\* (AccountingAdjustment.save, reconcile_organization_ledger_counters).
ShardCountsOpen == shard = Cardinality(OpenAdjustments)
=============================================================================
