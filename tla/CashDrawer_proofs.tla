-------------------------- MODULE CashDrawer_proofs --------------------------
(***************************************************************************)
(* Theorems about CashDrawer, for any workers, refunds and bounds.  The    *)
(* locks are not variables: that a turn, a refund or the shard is held by  *)
(* one transaction (Locked), and that what a transaction holds is as it    *)
(* found it (RowsHeld), is what the other parts of the invariant rest on.  *)
(***************************************************************************)
EXTENDS CashDrawer, FiniteSetTheorems, TLAPS

DrawerStep(w) ==
  \/ OpenCheck(w) \/ OpenCreate(w)
  \/ RegisterMovement(w) \/ DeleteMovement(w)
  \/ SellBegin(w) \/ SellPay(w)
  \/ OrderBegin(w) \/ OrderCreate(w) \/ CancelOrder(w) \/ ReturnOrder(w)
  \/ CloseBegin(w) \/ CloseSave(w)
  \/ PageRead(w) \/ PageSave(w)
  \/ CreateAdjustment(w) \/ CreateCommit(w)
  \/ RefundBegin(w) \/ RefundCount(w) \/ RefundPay(w) \/ RefundExternal(w)
  \/ ReconcileBegin(w) \/ ReconcileCount(w) \/ ReconcileSave(w)
  \/ Abort(w)

Refunding(w) == work[w].op \in {"refunding", "paying", "external"}
HoldsTurn(w) == work[w].op \in {"closing", "paying"}
Reconciling(w) == work[w].op \in {"reconciling", "counted"}

\* A transaction at a turn or an adjustment knows which.
JobsNamed ==
  \A w \in Worker :
    /\ HoldsTurn(w) \/ work[w].op \in {"selling", "ordering", "page"} => work[w].turn \in Turn
    /\ Refunding(w) \/ work[w].op = "creating" => work[w].adj \in Adjustment

\* No two transactions hold one turn, one adjustment or the shard.
Locked ==
  \A v, w \in Worker : v # w =>
    /\ HoldsTurn(v) /\ HoldsTurn(w) => work[v].turn # work[w].turn
    /\ Refunding(v) /\ Refunding(w) => work[v].adj # work[w].adj
    /\ work[v].op = "creating" /\ work[w].op = "creating" => work[v].adj # work[w].adj
    /\ ~(Reconciling(v) /\ Reconciling(w))

\* What a transaction holds is as it found it.
RowsHeld ==
  \A w \in Worker :
    /\ HoldsTurn(w) => turn[work[w].turn] = "open"
    /\ Refunding(w) => adj[work[w].adj] = "owed"
    /\ work[w].op = "creating" => adj[work[w].adj] = "none"
    /\ work[w].op = "counted" => \A v \in Worker : ~Refunding(v)

WorkInv == JobsNamed /\ Locked /\ RowsHeld

\* The shard counts what is open, and so does a reconciliation that counted.
CountInv ==
  /\ IsFiniteSet(OpenAdjustments)
  /\ ShardCountsOpen
  /\ \A w \in Worker :
       work[w].op = "counted" => work[w].seen = Cardinality(OpenAdjustments)

EgressOf(a) == {e \in egress : e.adj = a}

PaidInv ==
  \A a \in Adjustment :
    IF adj[a] = "cash" THEN \E e \in egress : EgressOf(a) = {e}
                       ELSE EgressOf(a) = {}

\* What was counted of a turn still holds unless somebody touched its money.
MoneyInv ==
  /\ ClosedTurnBalances
  /\ \A w \in Worker, t \in Turn \ touched : work[w].turn = t =>
       /\ work[w].op = "closing" => work[w].seen = CashOf(t)
       /\ work[w].op = "paying" => CashOf(t) >= 1

DrawerInv ==
  /\ TypeOK /\ IsFiniteSet(egress)
  /\ WorkInv /\ CountInv /\ PaidInv /\ MoneyInv

----------------------------------------------------------------------------
(* Helpers *)

LEMMA JobType ==
  /\ Idle \in [op : Op, turn : Turn \cup {NoTurn},
               adj : Adjustment \cup {NoAdjustment}, seen : Int]
  /\ Idle.op = "idle" /\ Idle.turn = NoTurn /\ Idle.adj = NoAdjustment
BY DEF Idle, Op

LEMMA KeptFinite ==
  ASSUME IsFiniteSet(egress), NEW t \in Turn
  PROVE  IsFiniteSet(KeptRefunds(t)) /\ Cardinality(KeptRefunds(t)) \in Nat
<1>1. KeptRefunds(t) \in SUBSET egress
  BY DEF KeptRefunds
<1> QED BY <1>1, FS_Subset, FS_CardinalityType

LEMMA CashType ==
  ASSUME TypeOK, IsFiniteSet(egress), NEW t \in Turn
  PROVE  CashOf(t) \in Int
BY KeptFinite, DrawerAssumption DEF CashOf, TypeOK, BookRow

\* The cash of a turn is its row of the book and the refunds that are kept.
LEMMA SameCash ==
  ASSUME NEW t \in Turn, book'[t] = book[t], KeptRefunds(t)' = KeptRefunds(t)
  PROVE  CashOf(t)' = CashOf(t)
BY DEF CashOf

LEMMA SameKept ==
  ASSUME UNCHANGED egress, NEW t \in Turn
  PROVE  KeptRefunds(t)' = KeptRefunds(t)
BY DEF KeptRefunds

LEMMA DrawerInitInv == Init => DrawerInv
<1> SUFFICES ASSUME Init PROVE DrawerInv
  OBVIOUS
<1>1. TypeOK
  BY DrawerAssumption, JobType DEF Init, TypeOK, BookRow
<1>2. WorkInv
  BY JobType DEF Init, WorkInv, JobsNamed, Locked, RowsHeld, HoldsTurn, Refunding,
     Reconciling
<1>3. CountInv
  <2>1. OpenAdjustments = {}
    BY DEF Init, OpenAdjustments
  <2> QED BY <2>1, FS_EmptySet, JobType DEF Init, CountInv, ShardCountsOpen
<1>4. PaidInv
  BY DEF Init, PaidInv, EgressOf
<1>5. MoneyInv
  BY JobType DEF Init, MoneyInv, ClosedTurnBalances
<1> QED BY <1>1, <1>2, <1>3, <1>4, <1>5, FS_EmptySet DEF DrawerInv, Init

----------------------------------------------------------------------------
(* Types *)

LEMMA BeginType ==
  ASSUME TypeOK, NEW w \in Worker,
         NEW job \in [op : Op, turn : Turn \cup {NoTurn},
                      adj : Adjustment \cup {NoAdjustment}, seen : Int],
         Begin(w, job) \/ Continue(w, job)
  PROVE  /\ work' \in [Worker -> [op : Op, turn : Turn \cup {NoTurn},
                                  adj : Adjustment \cup {NoAdjustment}, seen : Int]]
         /\ asked' \in 0 .. MaxRequests
         /\ work'[w] = job /\ \A v \in Worker : v # w => work'[v] = work[v]
BY DrawerAssumption DEF Begin, Continue, TypeOK

\* Cancelling a web order, or taking that back, changes the row of one turn.
OrderChanged(t) == \E row \in BookRow : book' = [book EXCEPT ![t] = row]

LEMMA OrderChange ==
  ASSUME TypeOK, NEW w \in Worker, CancelOrder(w) \/ ReturnOrder(w)
  PROVE  \E t \in Turn : Touch(t) /\ OrderChanged(t)
<1>1. ASSUME NEW t \in Turn, NEW n \in {1, -1},
             book[t].orders - n \in Nat, book[t].cancelled + n \in Nat
      PROVE  Cancelled(book[t], n) \in BookRow
  <2>1. book[t] \in BookRow
    BY DEF TypeOK
  <2> QED BY <1>1, <2>1 DEF Cancelled, BookRow
<1>2. \A t \in Turn : book[t].orders \in Nat /\ book[t].cancelled \in Nat
  BY DEF TypeOK, BookRow
<1>3. CASE CancelOrder(w)
  <2>1. PICK t \in Turn : /\ book[t].orders > 0 /\ Touch(t)
                          /\ book' = [book EXCEPT ![t] = Cancelled(book[t], 1)]
    BY <1>3 DEF CancelOrder
  <2>2. book[t].orders - 1 \in Nat /\ book[t].cancelled + 1 \in Nat
    BY <1>2, <2>1
  <2>3. Cancelled(book[t], 1) \in BookRow
    BY <1>1, <2>2
  <2> QED BY <2>1, <2>3 DEF OrderChanged
<1>4. CASE ReturnOrder(w)
  <2>1. PICK t \in Turn : /\ book[t].cancelled > 0 /\ Touch(t)
                          /\ book' = [book EXCEPT ![t] = Cancelled(book[t], -1)]
    BY <1>4 DEF ReturnOrder
  <2>2. book[t].orders - (-1) \in Nat /\ book[t].cancelled + (-1) \in Nat
    BY <1>2, <2>1
  <2>3. Cancelled(book[t], -1) \in BookRow
    BY <1>1, <2>2
  <2> QED BY <2>1, <2>3 DEF OrderChanged
<1> QED BY <1>3, <1>4

LEMMA DrawerTypeStep ==
  ASSUME DrawerInv, NEW w \in Worker, DrawerStep(w)
  PROVE  TypeOK' /\ IsFiniteSet(egress')
<1> USE JobType
<1> TypeOK /\ IsFiniteSet(egress) /\ JobsNamed
  BY DEF DrawerInv, WorkInv
<1>1. CASE OpenCheck(w)
  <2>1. [Idle EXCEPT !.op = "opening"] \in
          [op : Op, turn : Turn \cup {NoTurn},
           adj : Adjustment \cup {NoAdjustment}, seen : Int]
    BY DEF Op
  <2> QED BY <1>1, <2>1, BeginType DEF OpenCheck, drawer, ledger, TypeOK
<1>2. CASE OpenCreate(w)
  BY <1>2, BeginType DEF OpenCreate, End, ledger, TypeOK
<1>3. CASE RegisterMovement(w)
  <2> PICK t \in Turn, tipo \in {"income", "expense"} :
        book' = [book EXCEPT ![t] = [book[t] EXCEPT ![tipo] = @ + 1]]
    BY <1>3 DEF RegisterMovement
  <2>0. [book[t] EXCEPT ![tipo] = @ + 1] \in BookRow
    <3>1. book[t] \in BookRow
      BY DEF TypeOK
    <3> QED BY <3>1 DEF BookRow
  <2>1. book' \in [Turn -> BookRow]
    BY <2>0 DEF TypeOK
  <2> QED BY <1>3, <2>1, BeginType DEF RegisterMovement, AtOnce, ledger, TypeOK
<1>4. CASE DeleteMovement(w)
  <2> PICK t \in Turn :
        /\ \/ \E tipo \in {"income", "expense"} :
                /\ book[t][tipo] > 0
                /\ book' = [book EXCEPT ![t][tipo] = @ - 1]
                /\ UNCHANGED egress
           \/ \E e \in KeptRefunds(t) :
                /\ egress' = (egress \ {e}) \cup {[e EXCEPT !.kept = FALSE]}
                /\ UNCHANGED book
        /\ Touch(t)
    BY <1>4 DEF DeleteMovement
  <2>1. book' \in [Turn -> BookRow]
    <3>1. book[t] \in BookRow
      BY DEF TypeOK
    <3>2. ASSUME NEW tipo \in {"income", "expense"}, book[t][tipo] > 0
          PROVE  [book[t] EXCEPT ![tipo] = book[t][tipo] - 1] \in BookRow
      BY <3>1, <3>2 DEF BookRow
    <3>3. CASE book' = book
      BY <3>3 DEF TypeOK
    <3>4. ASSUME NEW tipo \in {"income", "expense"}, book[t][tipo] > 0,
                 book' = [book EXCEPT ![t][tipo] = @ - 1]
          PROVE  book' \in [Turn -> BookRow]
      <4>1. book' = [book EXCEPT ![t] = [book[t] EXCEPT ![tipo] = book[t][tipo] - 1]]
        BY <3>4
      <4> QED BY <4>1, <3>2, <3>4 DEF TypeOK
    <3> QED BY <3>3, <3>4
  <2>2. /\ egress' \subseteq [turn : Turn, adj : Adjustment, by : Worker, kept : BOOLEAN]
        /\ IsFiniteSet(egress')
    <3>1. CASE UNCHANGED egress
      BY <3>1 DEF TypeOK
    <3>2. ASSUME NEW e \in KeptRefunds(t),
                 egress' = (egress \ {e}) \cup {[e EXCEPT !.kept = FALSE]}
          PROVE  /\ egress' \subseteq [turn : Turn, adj : Adjustment, by : Worker,
                                      kept : BOOLEAN]
                 /\ IsFiniteSet(egress')
      <4>1. e \in [turn : Turn, adj : Adjustment, by : Worker, kept : BOOLEAN]
        BY DEF KeptRefunds, TypeOK
      <4>2. [e EXCEPT !.kept = FALSE] \in
              [turn : Turn, adj : Adjustment, by : Worker, kept : BOOLEAN]
        BY <4>1
      <4>3. IsFiniteSet(egress')
        BY <3>2, FS_AddElement, FS_RemoveElement
      <4> QED BY <3>2, <4>2, <4>3 DEF TypeOK
    <3> QED BY <3>1, <3>2
  <2>3. touched' \subseteq Turn
    BY DEF Touch, TypeOK
  <2> QED BY <1>4, <2>1, <2>2, <2>3, BeginType
          DEF DeleteMovement, AtOnce, ledger, TypeOK
<1>5. CASE SellBegin(w) \/ OrderBegin(w) \/ PageRead(w)
  <2> PICK t \in Turn, op \in {"selling", "ordering", "page"} :
        Begin(w, [Idle EXCEPT !.op = op, !.turn = t])
    BY <1>5 DEF SellBegin, OrderBegin, PageRead
  <2>1. [Idle EXCEPT !.op = op, !.turn = t] \in
          [op : Op, turn : Turn \cup {NoTurn},
           adj : Adjustment \cup {NoAdjustment}, seen : Int]
    BY DEF Op
  <2> QED BY <1>5, <2>1, BeginType DEF SellBegin, OrderBegin, PageRead, drawer, ledger, TypeOK
<1>6. CASE SellPay(w)
  <2>1. work[w].turn \in Turn
    BY <1>6 DEF SellPay, JobsNamed
  <2>0. \A t \in Turn : [book[t] EXCEPT !.sales = @ + 1] \in BookRow
    BY DEF TypeOK, BookRow
  <2>2. book' \in [Turn -> BookRow]
    BY <1>6, <2>0, <2>1 DEF SellPay, TypeOK
  <2>3. touched' \subseteq Turn
    BY <1>6, <2>1 DEF SellPay, Touch, TypeOK
  <2> QED BY <1>6, <2>2, <2>3, BeginType DEF SellPay, End, ledger, TypeOK
<1>7. CASE CloseBegin(w)
  <2> PICK t \in Turn :
        /\ Begin(w, [Idle EXCEPT !.op = "closing", !.turn = t, !.seen = CashOf(t)])
        /\ touched' = touched \ {t}
    BY <1>7 DEF CloseBegin
  <2>1. [Idle EXCEPT !.op = "closing", !.turn = t, !.seen = CashOf(t)] \in
          [op : Op, turn : Turn \cup {NoTurn},
           adj : Adjustment \cup {NoAdjustment}, seen : Int]
    BY CashType DEF Op
  <2> QED BY <1>7, <2>1, BeginType DEF CloseBegin, ledger, TypeOK
<1>8. CASE CloseSave(w) \/ PageSave(w)
  <2>1. turn' \in [Turn -> {"none", "open", "closed"}] /\ stated' \in [Turn -> Int]
    BY <1>8 DEF CloseSave, PageSave, TypeOK
  <2> QED BY <1>8, <2>1, BeginType DEF CloseSave, PageSave, End, ledger, TypeOK
<1>9. CASE CreateAdjustment(w) \/ RefundBegin(w)
  <2> PICK a \in Adjustment, op \in {"creating", "refunding", "external"} :
        Begin(w, [Idle EXCEPT !.op = op, !.adj = a])
    BY <1>9 DEF CreateAdjustment, RefundBegin, Owed
  <2>1. [Idle EXCEPT !.op = op, !.adj = a] \in
          [op : Op, turn : Turn \cup {NoTurn},
           adj : Adjustment \cup {NoAdjustment}, seen : Int]
    BY DEF Op
  <2> QED BY <1>9, <2>1, BeginType
          DEF CreateAdjustment, RefundBegin, drawer, ledger, TypeOK
<1>10. CASE CreateCommit(w) \/ RefundExternal(w)
  <2>1. /\ adj' \in [Adjustment -> {"none", "owed", "unidentified", "cash", "external"}]
        /\ shard' \in Int
    BY <1>10 DEF CreateCommit, RefundExternal, TypeOK
  <2> QED BY <1>10, <2>1, BeginType
          DEF CreateCommit, RefundExternal, End, drawer, TypeOK
<1>11. CASE RefundCount(w)
  <2> PICK t \in Turn :
        /\ Continue(w, [work[w] EXCEPT !.op = "paying", !.turn = t, !.seen = CashOf(t)])
        /\ touched' = touched \ {t}
    BY <1>11 DEF RefundCount
  <2>1. [work[w] EXCEPT !.op = "paying", !.turn = t, !.seen = CashOf(t)] \in
          [op : Op, turn : Turn \cup {NoTurn},
           adj : Adjustment \cup {NoAdjustment}, seen : Int]
    BY CashType DEF Op, TypeOK
  <2> QED BY <1>11, <2>1, BeginType DEF RefundCount, ledger, TypeOK
<1>12. CASE RefundPay(w)
  <2>1. work[w].turn \in Turn /\ work[w].adj \in Adjustment
    BY <1>12 DEF RefundPay, JobsNamed, HoldsTurn, Refunding
  <2>2. /\ egress' \subseteq [turn : Turn, adj : Adjustment, by : Worker, kept : BOOLEAN]
        /\ IsFiniteSet(egress')
    <3> DEFINE e == [turn |-> work[w].turn, adj |-> work[w].adj, by |-> w, kept |-> TRUE]
    <3>1. e \in [turn : Turn, adj : Adjustment, by : Worker, kept : BOOLEAN]
      BY <2>1
    <3>2. egress' = egress \cup {e}
      BY <1>12 DEF RefundPay
    <3> HIDE DEF e
    <3> QED BY <3>1, <3>2, FS_AddElement DEF TypeOK
  <2>3. /\ adj' \in [Adjustment -> {"none", "owed", "unidentified", "cash", "external"}]
        /\ shard' \in Int
    <3>1. adj' = [adj EXCEPT ![work[w].adj] = "cash"] /\ shard' = shard - 1
      BY <1>12 DEF RefundPay
    <3>2. shard' \in Int
      BY <3>1 DEF TypeOK
    <3>3. /\ adj \in [Adjustment -> {"none", "owed", "unidentified", "cash", "external"}]
          /\ adj' = [adj EXCEPT ![work[w].adj] = "cash"]
      BY <3>1 DEF TypeOK
    <3>4. adj' \in [Adjustment -> {"none", "owed", "unidentified", "cash", "external"}]
      BY <3>3
    <3> QED BY <3>2, <3>4
  <2>4. Continue(w, Idle) /\ UNCHANGED <<turn, stated, book, touched>>
    BY <1>12 DEF RefundPay, End
  <2>5. /\ work' \in [Worker -> [op : Op, turn : Turn \cup {NoTurn},
                                adj : Adjustment \cup {NoAdjustment}, seen : Int]]
        /\ asked' \in 0 .. MaxRequests
    BY <2>4, BeginType
  <2> QED BY <2>2, <2>3, <2>4, <2>5 DEF TypeOK
<1>13. CASE ReconcileBegin(w)
  <2>1. [Idle EXCEPT !.op = "reconciling"] \in
          [op : Op, turn : Turn \cup {NoTurn},
           adj : Adjustment \cup {NoAdjustment}, seen : Int]
    BY DEF Op
  <2> QED BY <1>13, <2>1, BeginType DEF ReconcileBegin, drawer, ledger, TypeOK
<1>14. CASE ReconcileCount(w)
  <2>1. Cardinality(OpenAdjustments) \in Int
    BY FS_CardinalityType DEF DrawerInv, CountInv
  <2>2. [work[w] EXCEPT !.op = "counted", !.seen = Cardinality(OpenAdjustments)] \in
          [op : Op, turn : Turn \cup {NoTurn},
           adj : Adjustment \cup {NoAdjustment}, seen : Int]
    BY <2>1 DEF Op, TypeOK
  <2> QED BY <1>14, <2>2, BeginType DEF ReconcileCount, drawer, ledger, TypeOK
<1>15. CASE ReconcileSave(w)
  <2>1. shard' \in Int
    BY <1>15 DEF ReconcileSave, TypeOK
  <2> QED BY <1>15, <2>1, BeginType DEF ReconcileSave, End, drawer, TypeOK
<1>16. CASE Abort(w)
  BY <1>16, BeginType DEF Abort, End, drawer, ledger, TypeOK
<1>17. CASE OrderCreate(w)
  <2>1. work[w].turn \in Turn
    BY <1>17 DEF OrderCreate, JobsNamed
  <2>0. \A t \in Turn : [book[t] EXCEPT !.orders = @ + 1] \in BookRow
    BY DEF TypeOK, BookRow
  <2>2. book' \in [Turn -> BookRow]
    BY <1>17, <2>0, <2>1 DEF OrderCreate, TypeOK
  <2>3. touched' \subseteq Turn
    BY <1>17, <2>1 DEF OrderCreate, Touch, TypeOK
  <2> QED BY <1>17, <2>2, <2>3, BeginType DEF OrderCreate, End, ledger, TypeOK
<1>18. CASE CancelOrder(w) \/ ReturnOrder(w)
  <2>1. PICK t \in Turn : Touch(t) /\ OrderChanged(t)
    BY <1>18, OrderChange
  <2>2. book' \in [Turn -> BookRow]
    BY <2>1 DEF OrderChanged, TypeOK
  <2>3. touched' \subseteq Turn
    BY <2>1 DEF Touch, TypeOK
  <2> QED BY <1>18, <2>2, <2>3, BeginType
          DEF CancelOrder, ReturnOrder, AtOnce, ledger, TypeOK
<1> QED BY <1>1, <1>2, <1>3, <1>4, <1>5, <1>6, <1>7, <1>8, <1>9, <1>10, <1>11,
           <1>12, <1>13, <1>14, <1>15, <1>16, <1>17, <1>18 DEF DrawerStep

----------------------------------------------------------------------------
(* Locks *)

\* A transaction that ends leaves to the others what they hold.
LEMMA EndWork ==
  ASSUME TypeOK, WorkInv, NEW w \in Worker, End(w) \/ AtOnce(w),
         \A v \in Worker : v # w =>
           /\ HoldsTurn(v) => turn'[work[v].turn] = turn[work[v].turn]
           /\ Refunding(v) \/ work[v].op = "creating" =>
                adj'[work[v].adj] = adj[work[v].adj]
  PROVE  WorkInv'
<1>1. work'[w] = Idle /\ \A v \in Worker : v # w => work'[v] = work[v]
  BY JobType, BeginType DEF End, AtOnce
<1>2. JobsNamed' /\ Locked'
  BY <1>1, JobType DEF WorkInv, JobsNamed, Locked, HoldsTurn, Refunding, Reconciling
<1>3. RowsHeld'
  BY <1>1, JobType DEF WorkInv, RowsHeld, HoldsTurn, Refunding
<1> QED BY <1>2, <1>3 DEF WorkInv

LEMMA WorkStep ==
  ASSUME DrawerInv, NEW w \in Worker, DrawerStep(w)
  PROVE  WorkInv'
<1> TypeOK /\ WorkInv /\ JobsNamed /\ Locked /\ RowsHeld
  BY DEF DrawerInv, WorkInv
<1>1. CASE OpenCheck(w)
  <2> DEFINE job == [Idle EXCEPT !.op = "opening"]
  <2>1. /\ job \in [op : Op, turn : Turn \cup {NoTurn},
                    adj : Adjustment \cup {NoAdjustment}, seen : Int]
        /\ job.op = "opening"
    BY JobType DEF Op, Idle
  <2> HIDE DEF job
  <2>2. work'[w] = job /\ \A v \in Worker : v # w => work'[v] = work[v]
    BY <1>1, <2>1, BeginType DEF OpenCheck, job
  <2>3. turn' = turn /\ adj' = adj
    BY <1>1 DEF OpenCheck, drawer, ledger
  <2>4. JobsNamed' /\ Locked'
    BY <2>1, <2>2 DEF JobsNamed, Locked, HoldsTurn, Refunding, Reconciling
  <2>5. RowsHeld'
    BY <2>1, <2>2, <2>3 DEF RowsHeld, HoldsTurn, Refunding
  <2> QED BY <2>4, <2>5 DEF WorkInv
<1>12. CASE SellBegin(w) \/ OrderBegin(w) \/ PageRead(w)
  <2> PICK t \in Turn, op \in {"selling", "ordering", "page"} :
        Begin(w, [Idle EXCEPT !.op = op, !.turn = t])
    BY <1>12 DEF SellBegin, OrderBegin, PageRead
  <2> DEFINE job == [Idle EXCEPT !.op = op, !.turn = t]
  <2>1. /\ job \in [op : Op, turn : Turn \cup {NoTurn},
                    adj : Adjustment \cup {NoAdjustment}, seen : Int]
        /\ job.op = op /\ job.turn = t
    BY JobType DEF Op, Idle
  <2> HIDE DEF job
  <2>2. work'[w] = job /\ \A v \in Worker : v # w => work'[v] = work[v]
    BY <2>1, BeginType DEF job
  <2>3. turn' = turn /\ adj' = adj
    BY <1>12 DEF SellBegin, OrderBegin, PageRead, drawer, ledger
  <2>4. JobsNamed' /\ Locked'
    BY <2>1, <2>2 DEF JobsNamed, Locked, HoldsTurn, Refunding, Reconciling
  <2>5. RowsHeld'
    BY <2>1, <2>2, <2>3 DEF RowsHeld, HoldsTurn, Refunding
  <2> QED BY <2>4, <2>5 DEF WorkInv
<1>2. CASE OpenCreate(w)
  <2>1. \A t \in Turn : turn[t] = "open" => turn'[t] = turn[t]
    BY <1>2 DEF OpenCreate, TypeOK
  <2> QED BY <1>2, <2>1, EndWork DEF OpenCreate, RowsHeld, JobsNamed, ledger
<1>3. CASE \/ RegisterMovement(w) \/ DeleteMovement(w) \/ SellPay(w) \/ Abort(w)
           \/ OrderCreate(w) \/ CancelOrder(w) \/ ReturnOrder(w)
  BY <1>3, EndWork DEF RegisterMovement, DeleteMovement, SellPay, Abort, OrderCreate,
     CancelOrder, ReturnOrder, drawer, ledger
<1>4. CASE CloseBegin(w)
  <2> PICK t \in Turn :
        /\ FirstOpen(t) /\ TurnFree(t)
        /\ Begin(w, [Idle EXCEPT !.op = "closing", !.turn = t, !.seen = CashOf(t)])
    BY <1>4 DEF CloseBegin
  <2> DEFINE job == [Idle EXCEPT !.op = "closing", !.turn = t, !.seen = CashOf(t)]
  <2>1. /\ job \in [op : Op, turn : Turn \cup {NoTurn},
                    adj : Adjustment \cup {NoAdjustment}, seen : Int]
        /\ job.op = "closing" /\ job.turn = t
    BY JobType, CashType DEF Op, Idle, DrawerInv
  <2> HIDE DEF job
  <2>2. work'[w] = job /\ \A v \in Worker : v # w => work'[v] = work[v]
    BY <2>1, BeginType DEF job
  <2>3. turn' = turn /\ adj' = adj /\ turn[t] = "open"
    BY <1>4 DEF CloseBegin, ledger, FirstOpen, OpenTurns
  <2>4. JobsNamed' /\ Locked'
    BY <2>1, <2>2 DEF TurnFree, JobsNamed, Locked, HoldsTurn, Refunding, Reconciling
  <2>5. RowsHeld'
    BY <2>1, <2>2, <2>3 DEF RowsHeld, HoldsTurn, Refunding
  <2> QED BY <2>4, <2>5 DEF WorkInv
<1>5. CASE CloseSave(w) \/ PageSave(w)
  <2>1. \A t \in Turn : t # work[w].turn => turn'[t] = turn[t]
    BY <1>5 DEF CloseSave, PageSave, TypeOK
  <2>2. \A v \in Worker : v # w /\ HoldsTurn(v) => work[v].turn # work[w].turn
    BY <1>5 DEF CloseSave, PageSave, TurnFree, Locked, HoldsTurn
  <2> QED BY <1>5, <2>1, <2>2, EndWork DEF CloseSave, PageSave, JobsNamed, ledger
<1>6. CASE CreateAdjustment(w)
  <2> PICK a \in Adjustment :
        /\ adj[a] = "none" /\ \A v \in Worker : work[v].adj # a
        /\ Begin(w, [Idle EXCEPT !.op = "creating", !.adj = a])
    BY <1>6 DEF CreateAdjustment
  <2> DEFINE job == [Idle EXCEPT !.op = "creating", !.adj = a]
  <2>1. /\ job \in [op : Op, turn : Turn \cup {NoTurn},
                    adj : Adjustment \cup {NoAdjustment}, seen : Int]
        /\ job.op = "creating" /\ job.adj = a
    BY JobType DEF Op, Idle
  <2> HIDE DEF job
  <2>2. work'[w] = job /\ \A v \in Worker : v # w => work'[v] = work[v]
    BY <2>1, BeginType DEF job
  <2>3. turn' = turn /\ adj' = adj
    BY <1>6 DEF CreateAdjustment, drawer, ledger
  <2>4. JobsNamed' /\ Locked'
    BY <2>1, <2>2 DEF JobsNamed, Locked, HoldsTurn, Refunding, Reconciling
  <2>5. RowsHeld'
    BY <2>1, <2>2, <2>3 DEF RowsHeld, HoldsTurn, Refunding
  <2> QED BY <2>4, <2>5 DEF WorkInv
<1>7. CASE RefundBegin(w)
  <2> PICK a \in Owed, op \in {"refunding", "external"} :
        AdjustmentFree(a) /\ Begin(w, [Idle EXCEPT !.op = op, !.adj = a])
    BY <1>7 DEF RefundBegin
  <2> DEFINE job == [Idle EXCEPT !.op = op, !.adj = a]
  <2>1. /\ job \in [op : Op, turn : Turn \cup {NoTurn},
                    adj : Adjustment \cup {NoAdjustment}, seen : Int]
        /\ job.op = op /\ job.adj = a /\ a \in Adjustment /\ adj[a] = "owed"
    BY JobType DEF Op, Idle, Owed
  <2> HIDE DEF job
  <2>2. work'[w] = job /\ \A v \in Worker : v # w => work'[v] = work[v]
    BY <2>1, BeginType DEF job
  <2>3. turn' = turn /\ adj' = adj
    BY <1>7 DEF RefundBegin, drawer, ledger
  <2>4. JobsNamed' /\ Locked'
    BY <2>1, <2>2 DEF AdjustmentFree, JobsNamed, Locked, HoldsTurn, Refunding, Reconciling
  <2>5. RowsHeld'
    BY <2>1, <2>2, <2>3 DEF AdjustmentFree, RowsHeld, HoldsTurn, Refunding
  <2> QED BY <2>4, <2>5 DEF WorkInv
<1>8. CASE RefundCount(w)
  <2> PICK t \in Turn :
        /\ FirstOpen(t) /\ TurnFree(t)
        /\ Continue(w, [work[w] EXCEPT !.op = "paying", !.turn = t, !.seen = CashOf(t)])
    BY <1>8 DEF RefundCount
  <2> DEFINE job == [work[w] EXCEPT !.op = "paying", !.turn = t, !.seen = CashOf(t)]
  <2>1. /\ job \in [op : Op, turn : Turn \cup {NoTurn},
                    adj : Adjustment \cup {NoAdjustment}, seen : Int]
        /\ job.op = "paying" /\ job.turn = t /\ job.adj = work[w].adj
    BY CashType DEF Op, DrawerInv, TypeOK
  <2> HIDE DEF job
  <2>2. work'[w] = job /\ \A v \in Worker : v # w => work'[v] = work[v]
    BY <2>1, BeginType DEF job
  <2>3. turn' = turn /\ adj' = adj /\ turn[t] = "open" /\ Refunding(w)
    BY <1>8 DEF RefundCount, ledger, FirstOpen, OpenTurns, Refunding
  <2>4. JobsNamed' /\ Locked'
    BY <2>1, <2>2, <2>3
       DEF TurnFree, JobsNamed, Locked, HoldsTurn, Refunding, Reconciling
  <2>5. RowsHeld'
    BY <2>1, <2>2, <2>3 DEF RowsHeld, HoldsTurn, Refunding
  <2> QED BY <2>4, <2>5 DEF WorkInv
<1>9. CASE CreateCommit(w) \/ RefundPay(w) \/ RefundExternal(w)
  <2>1. \A a \in Adjustment : a # work[w].adj => adj'[a] = adj[a]
    BY <1>9 DEF CreateCommit, RefundPay, RefundExternal, TypeOK
  <2>2. \A v \in Worker : v # w /\ (Refunding(v) \/ work[v].op = "creating") =>
          work[v].adj # work[w].adj
    BY <1>9 DEF CreateCommit, RefundPay, RefundExternal, Locked, RowsHeld, Refunding
  <2>3. turn' = turn
    BY <1>9 DEF CreateCommit, RefundPay, RefundExternal, drawer
  <2>4. End(w)
    BY <1>9 DEF CreateCommit, RefundPay, RefundExternal
  <2> QED BY <2>1, <2>2, <2>3, <2>4, EndWork DEF JobsNamed
<1>10. CASE ReconcileBegin(w) \/ ReconcileCount(w)
  <2> PICK job \in [op : Op, turn : Turn \cup {NoTurn},
                    adj : Adjustment \cup {NoAdjustment}, seen : Int] :
        /\ Begin(w, job) \/ Continue(w, job)
        /\ job.op = IF work[w].op = "reconciling" THEN "counted" ELSE "reconciling"
        /\ work[w].op \in {"idle", "reconciling"}
    <3>1. CASE ReconcileBegin(w)
      <4>1. /\ [Idle EXCEPT !.op = "reconciling"] \in
                  [op : Op, turn : Turn \cup {NoTurn},
                   adj : Adjustment \cup {NoAdjustment}, seen : Int]
            /\ [Idle EXCEPT !.op = "reconciling"].op = "reconciling"
        BY JobType DEF Op
      <4> QED BY <3>1, <4>1 DEF ReconcileBegin, Begin
    <3>2. CASE ReconcileCount(w)
      <4> DEFINE n == Cardinality(OpenAdjustments)
      <4>1. n \in Int
        BY FS_CardinalityType DEF DrawerInv, CountInv
      <4> HIDE DEF n
      <4>2. /\ [work[w] EXCEPT !.op = "counted", !.seen = n] \in
                  [op : Op, turn : Turn \cup {NoTurn},
                   adj : Adjustment \cup {NoAdjustment}, seen : Int]
            /\ [work[w] EXCEPT !.op = "counted", !.seen = n].op = "counted"
        BY <4>1 DEF Op, TypeOK
      <4>3. /\ Continue(w, [work[w] EXCEPT !.op = "counted", !.seen = n])
            /\ work[w].op = "reconciling"
        BY <3>2 DEF ReconcileCount, n
      <4> QED BY <4>2, <4>3
    <3> QED BY <1>10, <3>1, <3>2
  <2>1. work'[w] = job /\ \A v \in Worker : v # w => work'[v] = work[v]
    BY BeginType
  <2>2. turn' = turn /\ adj' = adj
    BY <1>10 DEF ReconcileBegin, ReconcileCount, drawer, ledger
  <2>3. JobsNamed'
    BY <2>1 DEF JobsNamed, HoldsTurn, Refunding
  <2>4. \A v \in Worker : v # w => ~Reconciling(v)
    BY <1>10 DEF ReconcileBegin, ReconcileCount, ShardFree, Locked, Reconciling
  <2>5. Locked'
    BY <2>1, <2>4 DEF Locked, HoldsTurn, Refunding, Reconciling
  <2>6. job.op = "counted" => \A v \in Worker : ~Refunding(v)
    <3> SUFFICES ASSUME ReconcileCount(w), NEW v \in Worker, Refunding(v) PROVE FALSE
      BY <1>10 DEF ReconcileBegin, Begin
    <3>1. work[v].adj \in OpenAdjustments
      BY DEF RowsHeld, JobsNamed, OpenAdjustments
    <3> QED BY <3>1 DEF ReconcileCount, AdjustmentFree, Refunding
  <2>7. RowsHeld'
    BY <2>1, <2>2, <2>6 DEF RowsHeld, HoldsTurn, Refunding
  <2> QED BY <2>3, <2>5, <2>7 DEF WorkInv
<1>11. CASE ReconcileSave(w)
  BY <1>11, EndWork DEF ReconcileSave, drawer
<1> QED BY <1>1, <1>2, <1>3, <1>4, <1>5, <1>6, <1>7, <1>8, <1>9, <1>10, <1>11,
           <1>12 DEF DrawerStep

----------------------------------------------------------------------------
(* The counter of the shard *)

\* What a transaction that begins or goes on looks like, and the others.
LEMMA OnlyW ==
  ASSUME TypeOK, NEW w \in Worker, DrawerStep(w)
  PROVE  \A v \in Worker : v # w => work'[v] = work[v]
BY DEF DrawerStep, OpenCheck, OpenCreate, RegisterMovement, DeleteMovement, SellBegin,
   SellPay, OrderBegin, OrderCreate, CancelOrder, ReturnOrder,
   CloseBegin, CloseSave, PageRead, PageSave, CreateAdjustment, CreateCommit,
   RefundBegin, RefundCount, RefundPay, RefundExternal, ReconcileBegin, ReconcileCount,
   ReconcileSave, Abort, Begin, Continue, End, AtOnce, TypeOK

\* Which step leaves a worker having counted, at a closing or at a payment.
LEMMA NewOp ==
  ASSUME TypeOK, NEW w \in Worker, DrawerStep(w)
  PROVE  /\ work'[w].op = "counted" => ReconcileCount(w)
         /\ work'[w].op = "closing" => CloseBegin(w)
         /\ work'[w].op = "paying" => RefundCount(w)
<1> DEFINE Job == [op : Op, turn : Turn \cup {NoTurn},
                   adj : Adjustment \cup {NoAdjustment}, seen : Int]
           Changed(job) == work' = [work EXCEPT ![w] = job]
<1>2. \/ Changed(Idle)
      \/ Changed([Idle EXCEPT !.op = "opening"])
      \/ \E t \in Turn, op \in {"selling", "ordering", "page"} :
           Changed([Idle EXCEPT !.op = op, !.turn = t])
      \/ CloseBegin(w) /\ \E t \in Turn :
           Changed([Idle EXCEPT !.op = "closing", !.turn = t, !.seen = CashOf(t)])
      \/ \E a \in Adjustment, op \in {"creating", "refunding", "external"} :
           Changed([Idle EXCEPT !.op = op, !.adj = a])
      \/ RefundCount(w) /\ \E t \in Turn :
           Changed([work[w] EXCEPT !.op = "paying", !.turn = t, !.seen = CashOf(t)])
      \/ Changed([Idle EXCEPT !.op = "reconciling"])
      \/ ReconcileCount(w) /\
           Changed([work[w] EXCEPT !.op = "counted", !.seen = Cardinality(OpenAdjustments)])
  BY DEF DrawerStep, OpenCheck, OpenCreate, RegisterMovement, DeleteMovement, SellBegin,
     SellPay, OrderBegin, OrderCreate, CancelOrder, ReturnOrder,
     CloseBegin, CloseSave, PageRead, PageSave, CreateAdjustment, CreateCommit,
     RefundBegin, RefundCount, RefundPay, RefundExternal, ReconcileBegin, ReconcileCount,
     ReconcileSave, Abort, Begin, Continue, End, AtOnce, Owed
<1>3. work[w] \in Job /\ Idle \in Job /\ work \in [Worker -> Job]
  BY JobType DEF TypeOK
<1>4. CASE Changed(Idle)
  BY <1>3, <1>4, JobType
<1>5. CASE Changed([Idle EXCEPT !.op = "opening"]) \/ Changed([Idle EXCEPT !.op = "reconciling"])
  BY <1>3, <1>5
<1>6. ASSUME NEW t \in Turn, NEW op \in {"selling", "ordering", "page"},
             Changed([Idle EXCEPT !.op = op, !.turn = t])
      PROVE  work'[w].op = op
  BY <1>3, <1>6
<1>7. ASSUME NEW t \in Turn,
             Changed([Idle EXCEPT !.op = "closing", !.turn = t, !.seen = CashOf(t)])
      PROVE  work'[w].op = "closing"
  BY <1>3, <1>7
<1>8. ASSUME NEW a \in Adjustment, NEW op \in {"creating", "refunding", "external"},
             Changed([Idle EXCEPT !.op = op, !.adj = a])
      PROVE  work'[w].op = op
  BY <1>3, <1>8
<1>9. ASSUME NEW t \in Turn,
             Changed([work[w] EXCEPT !.op = "paying", !.turn = t, !.seen = CashOf(t)])
      PROVE  work'[w].op = "paying"
  BY <1>3, <1>9
<1>10. ASSUME Changed([work[w] EXCEPT !.op = "counted", !.seen = Cardinality(OpenAdjustments)])
       PROVE  work'[w].op = "counted"
  BY <1>3, <1>10
<1> HIDE DEF Changed
<1> QED BY <1>2, <1>4, <1>5, <1>6, <1>7, <1>8, <1>9, <1>10

\* A step that touches neither the adjustments nor the shard nor counts them.
LEMMA SameCount ==
  ASSUME CountInv, UNCHANGED ledger,
         \A v \in Worker : work'[v].op = "counted" =>
           work'[v].seen = work[v].seen /\ work[v].op = "counted"
  PROVE  CountInv'
<1>1. OpenAdjustments' = OpenAdjustments
  BY DEF OpenAdjustments, ledger
<1> QED BY <1>1 DEF CountInv, ShardCountsOpen, ledger

LEMMA CountStep ==
  ASSUME DrawerInv, NEW w \in Worker, DrawerStep(w)
  PROVE  CountInv'
<1> TypeOK /\ WorkInv /\ CountInv /\ JobsNamed /\ RowsHeld
  BY DEF DrawerInv, WorkInv
<1>0. \A v \in Worker : v # w => work'[v] = work[v]
  BY OnlyW
<1>1. CASE CreateCommit(w)
  <2> DEFINE a == work[w].adj
  <2>1. a \in Adjustment /\ adj[a] = "none"
    BY <1>1 DEF CreateCommit, JobsNamed, RowsHeld
  <2>2. OpenAdjustments' = OpenAdjustments \cup {a} /\ a \notin OpenAdjustments
    BY <1>1, <2>1 DEF CreateCommit, OpenAdjustments, TypeOK
  <2>3. \A v \in Worker : work'[v].op # "counted"
    BY <1>0, <1>1, JobType DEF CreateCommit, ShardFree, End, Continue, TypeOK
  <2>4. shard' = shard + 1
    BY <1>1 DEF CreateCommit
  <2> QED BY <2>2, <2>3, <2>4, FS_AddElement DEF CountInv, ShardCountsOpen
<1>2. CASE RefundPay(w) \/ RefundExternal(w)
  <2> DEFINE a == work[w].adj
  <2>1. a \in Adjustment /\ adj[a] = "owed"
    BY <1>2 DEF RefundPay, RefundExternal, JobsNamed, RowsHeld, Refunding
  <2>2. OpenAdjustments' = OpenAdjustments \ {a} /\ a \in OpenAdjustments
    BY <1>2, <2>1 DEF RefundPay, RefundExternal, OpenAdjustments, TypeOK
  <2>3. \A v \in Worker : work'[v].op # "counted"
    BY <1>0, <1>2, JobType DEF RefundPay, RefundExternal, ShardFree, End, Continue, TypeOK
  <2>4. shard' = shard - 1
    BY <1>2 DEF RefundPay, RefundExternal
  <2> QED BY <2>2, <2>3, <2>4, FS_RemoveElement DEF CountInv, ShardCountsOpen
<1>3. CASE ReconcileCount(w)
  <2>1. /\ work'[w].seen = Cardinality(OpenAdjustments)
        /\ adj' = adj /\ shard' = shard
    BY <1>3 DEF ReconcileCount, Continue, ledger, TypeOK
  <2>2. OpenAdjustments' = OpenAdjustments
    BY <2>1 DEF OpenAdjustments
  <2> QED BY <1>0, <2>1, <2>2 DEF CountInv, ShardCountsOpen
<1>4. CASE ReconcileSave(w)
  <2>1. shard' = work[w].seen /\ adj' = adj /\ work'[w].op = "idle"
    BY <1>4, JobType DEF ReconcileSave, End, Continue, TypeOK
  <2>2. OpenAdjustments' = OpenAdjustments
    BY <2>1 DEF OpenAdjustments
  <2> QED BY <1>0, <1>4, <2>1, <2>2 DEF CountInv, ShardCountsOpen, ReconcileSave
<1>5. CASE /\ ~ReconcileCount(w)
           /\ \/ OpenCheck(w) \/ OpenCreate(w)
              \/ RegisterMovement(w) \/ DeleteMovement(w)
              \/ OrderBegin(w) \/ OrderCreate(w) \/ CancelOrder(w) \/ ReturnOrder(w)
              \/ SellBegin(w) \/ SellPay(w) \/ CloseBegin(w) \/ CloseSave(w)
              \/ PageRead(w) \/ PageSave(w) \/ Abort(w)
  <2>1. UNCHANGED ledger
    BY <1>5 DEF OpenCheck, OpenCreate, RegisterMovement, DeleteMovement, SellBegin,
       SellPay, OrderBegin, OrderCreate, CancelOrder, ReturnOrder,
       CloseBegin, CloseSave, PageRead, PageSave, Abort
  <2>2. work'[w].op # "counted"
    BY <1>5, NewOp
  <2> QED BY <1>0, <2>1, <2>2, SameCount
<1>6. CASE /\ ~ReconcileCount(w)
           /\ \/ CreateAdjustment(w) \/ RefundBegin(w) \/ RefundCount(w)
              \/ ReconcileBegin(w)
  <2>1. UNCHANGED ledger
    BY <1>6 DEF CreateAdjustment, RefundBegin, RefundCount, ReconcileBegin
  <2>2. work'[w].op # "counted"
    BY <1>6, NewOp
  <2> QED BY <1>0, <2>1, <2>2, SameCount
<1> QED BY <1>1, <1>2, <1>3, <1>4, <1>5, <1>6 DEF DrawerStep

----------------------------------------------------------------------------
(* Each refund leaves the drawer once *)

LEMMA PaidStep ==
  ASSUME DrawerInv, NEW w \in Worker, DrawerStep(w)
  PROVE  PaidInv'
<1> TypeOK /\ WorkInv /\ PaidInv /\ JobsNamed /\ RowsHeld
  BY DEF DrawerInv, WorkInv
<1>1. CASE RefundPay(w)
  <2>1. work[w].adj \in Adjustment /\ adj[work[w].adj] = "owed"
    BY <1>1 DEF RefundPay, JobsNamed, RowsHeld, Refunding
  <2> PICK b \in Adjustment : b = work[w].adj /\ adj[b] = "owed"
    BY <2>1
  <2> PICK e : e = [turn |-> work[w].turn, adj |-> b, by |-> w, kept |-> TRUE]
    OBVIOUS
  <2>2. egress' = egress \cup {e} /\ adj' = [adj EXCEPT ![b] = "cash"] /\ e.adj = b
    BY <1>1 DEF RefundPay
  <2>3. EgressOf(b) = {}
    BY DEF PaidInv
  <2>4. EgressOf(b)' = {e} /\ e \in egress'
    BY <2>2, <2>3 DEF EgressOf
  <2>5. \A a \in Adjustment : a # b => EgressOf(a)' = EgressOf(a) /\ adj'[a] = adj[a]
    BY <2>2 DEF EgressOf, TypeOK
  <2>6. adj'[b] = "cash"
    BY <2>2 DEF TypeOK
  <2>7. \A a \in Adjustment : a # b =>
          IF adj'[a] = "cash" THEN \E x \in egress' : EgressOf(a)' = {x}
                              ELSE EgressOf(a)' = {}
    BY <2>2, <2>5 DEF PaidInv
  <2> QED BY <2>4, <2>6, <2>7 DEF PaidInv
<1>2. CASE DeleteMovement(w)
  <2>1. adj' = adj
    BY <1>2 DEF DeleteMovement, ledger
  <2>2. CASE UNCHANGED egress
    BY <2>1, <2>2 DEF PaidInv, EgressOf
  <2>3. ASSUME NEW e \in egress, egress' = (egress \ {e}) \cup {[e EXCEPT !.kept = FALSE]}
        PROVE  PaidInv'
    <3> DEFINE d == [e EXCEPT !.kept = FALSE]
    <3>1. e \in [turn : Turn, adj : Adjustment, by : Worker, kept : BOOLEAN]
      BY DEF TypeOK
    <3>2. d.adj = e.adj /\ egress' = (egress \ {e}) \cup {d}
      BY <2>3, <3>1
    <3> HIDE DEF d
    <3>3. ASSUME NEW a \in Adjustment
          PROVE  IF adj'[a] = "cash" THEN \E x \in egress' : EgressOf(a)' = {x}
                                     ELSE EgressOf(a)' = {}
      <4>1. CASE adj[a] = "cash"
        <5> PICK x \in egress : EgressOf(a) = {x}
          BY <4>1 DEF PaidInv
        <5>1. CASE x = e
          <6>1. EgressOf(a)' = {d}
            BY <3>2, <5>1 DEF EgressOf
          <6> QED BY <2>1, <3>2, <4>1, <6>1
        <5>2. CASE x # e
          <6>1. e.adj # a
            BY <5>2 DEF EgressOf
          <6>2. EgressOf(a)' = {x} /\ x \in egress'
            BY <3>2, <5>2, <6>1 DEF EgressOf
          <6> QED BY <2>1, <4>1, <6>2
        <5> QED BY <5>1, <5>2
      <4>2. CASE adj[a] # "cash"
        <5>1. EgressOf(a) = {}
          BY <4>2 DEF PaidInv
        <5>2. EgressOf(a)' = {}
          BY <3>2, <5>1 DEF EgressOf
        <5> QED BY <2>1, <4>2, <5>2
      <4> QED BY <4>1, <4>2
    <3> QED BY <3>3 DEF PaidInv
  <2> QED BY <1>2, <2>2, <2>3 DEF DeleteMovement, KeptRefunds
<1>3. CASE CreateCommit(w) \/ RefundExternal(w)
  <2>1. egress' = egress
    BY <1>3 DEF CreateCommit, RefundExternal, drawer
  <2>2. \A a \in Adjustment : adj'[a] = "cash" <=> adj[a] = "cash"
    BY <1>3 DEF CreateCommit, RefundExternal, TypeOK, JobsNamed, RowsHeld, Refunding
  <2> QED BY <2>1, <2>2 DEF PaidInv, EgressOf
<1>4. CASE \/ OpenCheck(w) \/ OpenCreate(w) \/ RegisterMovement(w)
           \/ OrderBegin(w) \/ OrderCreate(w) \/ CancelOrder(w) \/ ReturnOrder(w)
           \/ SellBegin(w) \/ SellPay(w) \/ CloseBegin(w) \/ CloseSave(w)
           \/ PageRead(w) \/ PageSave(w) \/ CreateAdjustment(w)
           \/ RefundBegin(w) \/ RefundCount(w)
           \/ ReconcileBegin(w) \/ ReconcileCount(w) \/ ReconcileSave(w) \/ Abort(w)
  <2>1. adj' = adj /\ egress' = egress
    BY <1>4 DEF OpenCheck, OpenCreate, RegisterMovement, SellBegin, SellPay,
       OrderBegin, OrderCreate, CancelOrder, ReturnOrder, CloseBegin, CloseSave, PageRead, PageSave, CreateAdjustment, RefundBegin, RefundCount,
       ReconcileBegin, ReconcileCount, ReconcileSave, Abort, drawer, ledger
  <2> QED BY <2>1 DEF PaidInv, EgressOf
<1> QED BY <1>1, <1>2, <1>3, <1>4 DEF DrawerStep

----------------------------------------------------------------------------
(* The money of a turn *)

\* A step that closes and counts nothing, and changes the cash of a turn only
\* when it is not closed and nobody else holds it, or touches the turn.
LEMMA KeepsMoney ==
  ASSUME TypeOK, MoneyInv, NEW w \in Worker, DrawerStep(w),
         ~CloseBegin(w), ~RefundCount(w),
         \A t \in Turn \ touched' :
           /\ t \notin touched
           /\ turn'[t] = "closed" => turn[t] = "closed" /\ stated'[t] = stated[t]
           /\ \/ CashOf(t)' = CashOf(t)
              \/ /\ turn'[t] # "closed"
                 /\ \A v \in Worker : v # w /\ HoldsTurn(v) => work[v].turn # t
  PROVE  MoneyInv'
<1>1. \A v \in Worker : v # w => work'[v] = work[v]
  BY OnlyW
<1>2. work'[w].op # "closing" /\ work'[w].op # "paying"
  BY NewOp
<1>3. ClosedTurnBalances'
  BY DEF MoneyInv, ClosedTurnBalances
<1> QED BY <1>1, <1>2, <1>3 DEF MoneyInv, HoldsTurn

\* A step that takes the turn t and counts its cash.
LEMMA CountsMoney ==
  ASSUME TypeOK, MoneyInv, NEW w \in Worker, NEW t \in Turn,
         FirstOpen(t), TurnFree(t),
         touched' = touched \ {t}, UNCHANGED <<turn, stated, book, egress>>,
         \A v \in Worker : v # w => work'[v] = work[v],
         work'[w].turn = t,
         work'[w].op = "closing" => work'[w].seen = CashOf(t),
         work'[w].op = "paying" => CashOf(t) >= 1
  PROVE  MoneyInv'
<1>1. \A u \in Turn : CashOf(u)' = CashOf(u)
  BY SameCash, SameKept
<1>2. turn[t] = "open"
  BY DEF FirstOpen, OpenTurns
<1>3. ClosedTurnBalances'
  BY <1>1, <1>2 DEF MoneyInv, ClosedTurnBalances
<1>4. \A v \in Worker : v # w /\ HoldsTurn(v) => work[v].turn # t
  BY DEF TurnFree, HoldsTurn
<1> QED BY <1>1, <1>3, <1>4 DEF MoneyInv, HoldsTurn

LEMMA MoneyStep ==
  ASSUME DrawerInv, NEW w \in Worker, DrawerStep(w)
  PROVE  MoneyInv'
<1> TypeOK /\ WorkInv /\ MoneyInv /\ JobsNamed /\ Locked /\ RowsHeld
  BY DEF DrawerInv, WorkInv
<1>0. \A v \in Worker : v # w => work'[v] = work[v]
  BY OnlyW
<1>1. CASE CloseBegin(w)
  <2> PICK t \in Turn :
        /\ FirstOpen(t) /\ TurnFree(t) /\ touched' = touched \ {t}
        /\ work' = [work EXCEPT ![w] = [Idle EXCEPT !.op = "closing", !.turn = t,
                                                    !.seen = CashOf(t)]]
    BY <1>1 DEF CloseBegin, Begin
  <2>1. work'[w].op = "closing" /\ work'[w].turn = t /\ work'[w].seen = CashOf(t)
    BY DEF TypeOK, Idle
  <2>2. UNCHANGED <<turn, stated, book, egress>>
    BY <1>1 DEF CloseBegin
  <2> QED BY <1>0, <2>1, <2>2, CountsMoney
<1>2. CASE RefundCount(w)
  <2> PICK t \in Turn :
        /\ FirstOpen(t) /\ TurnFree(t) /\ touched' = touched \ {t} /\ CashOf(t) >= 1
        /\ work' = [work EXCEPT ![w] = [work[w] EXCEPT !.op = "paying", !.turn = t,
                                                       !.seen = CashOf(t)]]
    BY <1>2 DEF RefundCount, Continue
  <2>1. work'[w].op = "paying" /\ work'[w].turn = t
    BY DEF TypeOK
  <2>2. UNCHANGED <<turn, stated, book, egress>>
    BY <1>2 DEF RefundCount
  <2> QED BY <1>0, <2>1, <2>2, CountsMoney
<1>3. CASE CloseSave(w)
  <2>1. work[w].turn \in Turn
    BY <1>3 DEF CloseSave, JobsNamed, HoldsTurn
  <2> PICK c \in Turn : c = work[w].turn
    BY <2>1
  <2>2. /\ turn' = [turn EXCEPT ![c] = "closed"]
        /\ stated' = [stated EXCEPT ![c] = work[w].seen]
        /\ touched' = touched /\ work'[w].op = "idle"
    BY <1>3, JobType DEF CloseSave, End, Continue, TypeOK
  <2>3. \A u \in Turn : CashOf(u)' = CashOf(u)
    BY <1>3, SameCash, SameKept DEF CloseSave
  <2>4. c \notin touched => work[w].seen = CashOf(c)
    BY <1>3 DEF CloseSave, MoneyInv
  <2>5. ClosedTurnBalances'
    BY <2>2, <2>3, <2>4 DEF MoneyInv, ClosedTurnBalances, TypeOK
  <2> QED BY <1>0, <2>2, <2>3, <2>5 DEF MoneyInv
<1> DEFINE Other == ~CloseBegin(w) /\ ~RefundCount(w)
<1>4. CASE Other /\ RegisterMovement(w)
  <2> PICK t \in Turn :
        /\ FirstOpen(t) /\ TurnFree(t)
        /\ \E tipo \in {"income", "expense"} : book' = [book EXCEPT ![t][tipo] = @ + 1]
    BY <1>4 DEF RegisterMovement
  <2>1. \A u \in Turn : u # t => book'[u] = book[u]
    BY DEF TypeOK
  <2>2. UNCHANGED <<turn, stated, egress, touched>>
    BY <1>4 DEF RegisterMovement
  <2>3. \A u \in Turn : u # t => CashOf(u)' = CashOf(u)
    BY <2>1, <2>2, SameCash, SameKept
  <2> QED BY <1>4, <2>2, <2>3, KeepsMoney DEF FirstOpen, OpenTurns, TurnFree, HoldsTurn
<1>5. CASE Other /\ DeleteMovement(w)
  <2> PICK t \in Turn :
        /\ \/ \E tipo \in {"income", "expense"} :
                /\ book' = [book EXCEPT ![t][tipo] = @ - 1]
                /\ UNCHANGED egress
           \/ \E e \in KeptRefunds(t) :
                /\ egress' = (egress \ {e}) \cup {[e EXCEPT !.kept = FALSE]}
                /\ UNCHANGED book
        /\ Touch(t)
    BY <1>5 DEF DeleteMovement
  <2>1. UNCHANGED <<turn, stated>>
    BY <1>5 DEF DeleteMovement
  <2>2. \A u \in Turn : u # t => book'[u] = book[u] /\ KeptRefunds(u)' = KeptRefunds(u)
    <3>1. CASE UNCHANGED egress
      BY <3>1 DEF KeptRefunds, TypeOK
    <3>2. ASSUME NEW e \in KeptRefunds(t), NEW u \in Turn, u # t, UNCHANGED book,
                 egress' = (egress \ {e}) \cup {[e EXCEPT !.kept = FALSE]}
          PROVE  book'[u] = book[u] /\ KeptRefunds(u)' = KeptRefunds(u)
      <4>1. e.turn = t /\ e \in [turn : Turn, adj : Adjustment, by : Worker, kept : BOOLEAN]
        BY DEF KeptRefunds, TypeOK
      <4>2. [e EXCEPT !.kept = FALSE].turn = t
        BY <4>1
      <4> QED BY <3>2, <4>1, <4>2 DEF KeptRefunds
    <3> QED BY <3>1, <3>2
  <2>3. \A u \in Turn : u # t => CashOf(u)' = CashOf(u)
    BY <2>2, SameCash
  <2>4. t \notin touched' => t \notin touched /\ turn[t] # "closed" /\ TurnFree(t)
    BY DEF Touch
  <2>5. \A u \in Turn : u \notin touched' => u \notin touched
    BY DEF Touch
  <2> QED BY <1>5, <2>1, <2>3, <2>4, <2>5, KeepsMoney DEF TurnFree, HoldsTurn
<1>6. CASE Other /\ SellPay(w)
  <2>1. work[w].turn \in Turn
    BY <1>6 DEF SellPay, JobsNamed
  <2> PICK t \in Turn : t = work[w].turn
    BY <2>1
  <2>2. /\ book' = [book EXCEPT ![t].sales = @ + 1] /\ TurnFree(t) /\ Touch(t)
        /\ UNCHANGED <<turn, stated, egress>>
    BY <1>6 DEF SellPay
  <2>3. \A u \in Turn : u # t => CashOf(u)' = CashOf(u)
    BY <2>2, SameCash, SameKept DEF TypeOK
  <2>4. t \notin touched' => turn[t] # "closed"
    BY <2>2 DEF Touch
  <2>5. \A u \in Turn : u \notin touched' => u \notin touched
    BY <2>2 DEF Touch
  <2> QED BY <1>6, <2>2, <2>3, <2>4, <2>5, KeepsMoney DEF TurnFree, HoldsTurn
<1>7. CASE Other /\ RefundPay(w)
  <2>1. work[w].turn \in Turn
    BY <1>7 DEF RefundPay, JobsNamed, HoldsTurn
  <2> PICK t \in Turn : t = work[w].turn
    BY <2>1
  <2>2. /\ UNCHANGED <<turn, stated, book, touched>> /\ HoldsTurn(w)
        /\ egress' = egress \cup {[turn |-> t, adj |-> work[w].adj, by |-> w,
                                   kept |-> TRUE]}
    BY <1>7 DEF RefundPay, HoldsTurn
  <2>3. \A u \in Turn : u # t => KeptRefunds(u)' = KeptRefunds(u)
    BY <2>2 DEF KeptRefunds
  <2>4. \A u \in Turn : u # t => CashOf(u)' = CashOf(u)
    BY <2>2, <2>3, SameCash
  <2>5. turn'[t] = "open" /\ \A v \in Worker : v # w /\ HoldsTurn(v) => work[v].turn # t
    BY <2>2 DEF RowsHeld, Locked
  <2> QED BY <1>7, <2>2, <2>4, <2>5, KeepsMoney
<1>8. CASE Other /\ (OpenCreate(w) \/ PageSave(w))
  <2>1. UNCHANGED <<stated, book, egress, touched>>
    BY <1>8 DEF OpenCreate, PageSave
  <2>2. \A u \in Turn : CashOf(u)' = CashOf(u)
    BY <2>1, SameCash, SameKept
  <2>3. \A u \in Turn : turn'[u] = "closed" => turn[u] = "closed"
    BY <1>8 DEF OpenCreate, PageSave, TypeOK
  <2> QED BY <1>8, <2>1, <2>2, <2>3, KeepsMoney
<1>9. CASE /\ Other
           /\ \/ OpenCheck(w) \/ SellBegin(w) \/ OrderBegin(w) \/ PageRead(w)
              \/ CreateAdjustment(w)
              \/ CreateCommit(w) \/ RefundBegin(w) \/ RefundExternal(w)
              \/ ReconcileBegin(w) \/ ReconcileCount(w) \/ ReconcileSave(w) \/ Abort(w)
  <2>1. UNCHANGED <<turn, stated, book, egress, touched>>
    BY <1>9 DEF OpenCheck, SellBegin, OrderBegin, PageRead, CreateAdjustment, CreateCommit,
       RefundBegin, RefundExternal, ReconcileBegin, ReconcileCount, ReconcileSave,
       Abort, drawer
  <2>2. \A u \in Turn : CashOf(u)' = CashOf(u)
    BY <2>1, SameCash, SameKept
  <2> QED BY <1>9, <2>1, <2>2, KeepsMoney
<1>10. CASE Other /\ (OrderCreate(w) \/ CancelOrder(w) \/ ReturnOrder(w))
  <2>1. PICK t \in Turn : /\ \A u \in Turn : u # t => book'[u] = book[u]
                          /\ Touch(t)
    <3>1. CASE OrderCreate(w)
      BY <3>1 DEF OrderCreate, JobsNamed, TypeOK
    <3>2. CASE CancelOrder(w) \/ ReturnOrder(w)
      BY <3>2, OrderChange DEF OrderChanged, TypeOK
    <3> QED BY <1>10, <3>1, <3>2
  <2>2. UNCHANGED <<turn, stated, egress>>
    BY <1>10 DEF OrderCreate, CancelOrder, ReturnOrder
  <2>3. \A u \in Turn : u # t => CashOf(u)' = CashOf(u)
    BY <2>1, <2>2, SameCash, SameKept
  <2>4. t \notin touched' => turn[t] # "closed" /\ TurnFree(t)
    BY <2>1 DEF Touch
  <2>5. \A u \in Turn : u \notin touched' => u \notin touched
    BY <2>1 DEF Touch
  <2> QED BY <1>10, <2>2, <2>3, <2>4, <2>5, KeepsMoney DEF TurnFree, HoldsTurn
<1> QED BY <1>1, <1>2, <1>3, <1>4, <1>5, <1>6, <1>7, <1>8, <1>9, <1>10 DEF DrawerStep

LEMMA DrawerNextInv == DrawerInv /\ [Next]_vars => DrawerInv'
<1> SUFFICES ASSUME DrawerInv, [Next]_vars PROVE DrawerInv'
  OBVIOUS
<1>1. ASSUME NEW w \in Worker, DrawerStep(w) PROVE DrawerInv'
  BY <1>1, DrawerTypeStep, WorkStep, CountStep, PaidStep, MoneyStep DEF DrawerInv
<1>2. CASE UNCHANGED vars
  <2>1. TypeOK' /\ WorkInv' /\ IsFiniteSet(egress')
    BY <1>2 DEF vars, DrawerInv, TypeOK, WorkInv, JobsNamed, Locked, RowsHeld,
       HoldsTurn, Refunding, Reconciling
  <2>2. CountInv' /\ PaidInv'
    BY <1>2 DEF vars, DrawerInv, CountInv, PaidInv, EgressOf, ShardCountsOpen,
       OpenAdjustments
  <2>3. \A u \in Turn : CashOf(u)' = CashOf(u)
    BY <1>2, SameCash, SameKept DEF vars
  <2>4. MoneyInv'
    BY <1>2, <2>3 DEF vars, DrawerInv, MoneyInv, ClosedTurnBalances
  <2> QED BY <2>1, <2>2, <2>4 DEF DrawerInv
<1> QED BY <1>1, <1>2 DEF Next, DrawerStep

LEMMA DrawerInvariant == Spec => []DrawerInv
BY DrawerInitInv, DrawerNextInv, PTL DEF Spec

----------------------------------------------------------------------------
(* The theorems *)

\* Every row and every transaction keeps its type; the cash of a turn, what a
\* closing saves and what a reconciliation counts stay integers.
THEOREM DrawerTypeCorrect == Spec => []TypeOK
BY DrawerInvariant, PTL DEF DrawerInv

\* A closing says what its turn's movements, sales and web orders add up to, for
\* any number of refunds, closings and pages beside it; only a deletion, a late
\* sale and a web order made, cancelled or taken back after the count undo that
\* (_finalize_cash_register_close, calculate_cash_turn_metrics).
THEOREM ClosingsBalance == Spec => []ClosedTurnBalances
BY DrawerInvariant, PTL DEF DrawerInv, MoneyInv

\* However many ask for it at the same time, a refund leaves the drawer once,
\* and only if it was settled from the drawer (resolve_accounting_adjustment).
THEOREM RefundsOnce == Spec => []RefundPaidOnce
<1>1. DrawerInv => RefundPaidOnce
  BY FS_EmptySet, FS_Singleton DEF DrawerInv, PaidInv, EgressOf, RefundPaidOnce
<1> QED BY <1>1, DrawerInvariant, PTL

\* The shard counts the open adjustments, with payments, new adjustments and
\* reconciliations in any order (reconcile_organization_ledger_counters).
THEOREM ShardCorrect == Spec => []ShardCountsOpen
BY DrawerInvariant, PTL DEF DrawerInv, CountInv

\* What a payment takes was there when it was counted, and nobody but a deletion
\* or the cancellation of a web order takes it in between, both of which touch
\* the turn (get_cash_available_on_turn).
LEMMA RefundStep ==
  ASSUME DrawerInv, NEW w \in Worker, DrawerStep(w),
         NEW t \in Turn \ touched', KeptRefunds(t)' # KeptRefunds(t),
         CashOf(t)' < CashOf(t)
  PROVE  CashOf(t)' >= 0
<1> TypeOK /\ MoneyInv /\ JobsNamed /\ IsFiniteSet(egress)
  BY DEF DrawerInv, WorkInv
<1>1. egress' # egress
  BY SameKept
<1>2. DeleteMovement(w) \/ RefundPay(w)
  BY <1>1 DEF DrawerStep, OpenCheck, OpenCreate, RegisterMovement, SellBegin, SellPay,
     OrderBegin, OrderCreate, CancelOrder, ReturnOrder, CloseBegin, CloseSave, PageRead, PageSave, CreateAdjustment, CreateCommit,
     RefundBegin, RefundCount, RefundExternal, ReconcileBegin, ReconcileCount,
     ReconcileSave, Abort, drawer
<1>3. KeptRefunds(t) \subseteq egress /\ IsFiniteSet(KeptRefunds(t))
  BY KeptFinite DEF KeptRefunds
<1>4. CASE RefundPay(w)
  <2> PICK e : e = [turn |-> work[w].turn, adj |-> work[w].adj, by |-> w, kept |-> TRUE]
    OBVIOUS
  <2>1. /\ egress' = egress \cup {e} /\ UNCHANGED <<book, touched>>
        /\ e.turn = work[w].turn /\ work[w].op = "paying"
    BY <1>4 DEF RefundPay
  <2>2. KeptRefunds(t)' \subseteq KeptRefunds(t) \cup {e} /\ e.turn = t
    BY <2>1 DEF KeptRefunds
  <2>3. KeptRefunds(t)' = KeptRefunds(t) \cup {e}
    BY <2>1, <2>2 DEF KeptRefunds
  <2>4. Cardinality(KeptRefunds(t)') <= Cardinality(KeptRefunds(t)) + 1
    <3>1. Cardinality(KeptRefunds(t)) \in Nat
      BY KeptFinite
    <3>2. Cardinality(KeptRefunds(t) \cup {e}) =
            IF e \in KeptRefunds(t) THEN Cardinality(KeptRefunds(t))
                                    ELSE Cardinality(KeptRefunds(t)) + 1
      BY <1>3, FS_AddElement
    <3> QED BY <2>3, <3>1, <3>2
  <2>5. CashOf(t) >= 1
    BY <2>1, <2>2 DEF MoneyInv
  <2>6. Cardinality(KeptRefunds(t)') \in Nat /\ Cardinality(KeptRefunds(t)) \in Nat
    BY <1>3, <2>3, FS_AddElement, FS_CardinalityType
  <2> QED BY <2>1, <2>4, <2>5, <2>6, DrawerAssumption DEF CashOf, TypeOK, BookRow
<1>5. CASE DeleteMovement(w)
  <2> PICK u \in Turn, e \in egress :
        /\ e \in KeptRefunds(u)
        /\ egress' = (egress \ {e}) \cup {[e EXCEPT !.kept = FALSE]}
        /\ UNCHANGED book
    BY <1>1, <1>5 DEF DeleteMovement, KeptRefunds
  <2>1. e \in [turn : Turn, adj : Adjustment, by : Worker, kept : BOOLEAN]
    BY DEF KeptRefunds, TypeOK
  <2>2. ~[e EXCEPT !.kept = FALSE].kept
    BY <2>1
  <2>3. KeptRefunds(t)' \subseteq KeptRefunds(t)
    BY <2>2 DEF KeptRefunds
  <2>4. Cardinality(KeptRefunds(t)') <= Cardinality(KeptRefunds(t))
    BY <1>3, <2>3, FS_Subset
  <2>5. Cardinality(KeptRefunds(t)') \in Nat /\ Cardinality(KeptRefunds(t)) \in Nat
    BY <1>3, <2>3, FS_Subset, FS_CardinalityType
  <2> QED BY <2>4, <2>5, DrawerAssumption DEF CashOf, TypeOK, BookRow
<1> QED BY <1>2, <1>4, <1>5

\* Paying a refund leaves the drawer with no less than nothing, for any base and
\* any movements, sales and web orders before it (RefundCount, RefundPay), unless
\* the turn was touched since its cash was counted.
THEOREM RefundsWithin == Spec => RefundWithinDrawer
<1>1. DrawerInv /\ [Next]_vars =>
        [\A t \in Turn \ touched' :
           KeptRefunds(t)' # KeptRefunds(t) /\ CashOf(t)' < CashOf(t)
             => CashOf(t)' >= 0]_vars
  <2> SUFFICES ASSUME DrawerInv, Next
               PROVE  \A t \in Turn \ touched' :
                        KeptRefunds(t)' # KeptRefunds(t) /\ CashOf(t)' < CashOf(t)
                          => CashOf(t)' >= 0
    OBVIOUS
  <2> PICK w \in Worker : DrawerStep(w)
    BY DEF Next, DrawerStep
  <2> QED BY RefundStep
<1> QED BY <1>1, DrawerInvariant, PTL DEF Spec, RefundWithinDrawer
=============================================================================
