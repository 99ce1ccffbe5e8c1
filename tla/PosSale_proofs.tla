--------------------------- MODULE PosSale_proofs ---------------------------
(***************************************************************************)
(* Theorems about PosSale, for every set of requests, confirmations,       *)
(* transactions and products and every bound.  In order: types; the counts *)
(* of movements and bookings, which are inductive with the types; the step *)
(* properties, from StepKinds, which says what each action does to the     *)
(* sales; the refinement of SaleLedger; and idempotency, from RecordInv,   *)
(* the invariant that ties each record to the one sale of its transaction  *)
(* and each handler's locals to both.                                      *)
(***************************************************************************)
EXTENDS PosSale, SumTheorems, TLAPS

LEMMA SetRecordStatusType ==
  ASSUME TypeOK, NEW c \in Ctid, NEW status \in {"COMPLETED", "FAILED_FINAL"},
         SetRecordStatus(c, status)
  PROVE  record' \in [Ctid -> RecordRow]
BY DEF TypeOK, RecordRow, SetRecordStatus

LEMMA SaleCtidType == ASSUME TypeOK, NEW s \in Sale PROVE SaleCtid(s) \in Ctid
BY PayloadAssumption DEF TypeOK, SaleRow, SaleCtid, Payload

LEMMA CartType == ASSUME TypeOK, NEW s \in Sale PROVE Cart(s) \in [Product -> Nat]
BY PayloadAssumption DEF TypeOK, SaleRow, Cart, Payload

LEMMA PaidRowType ==
  ASSUME NEW row \in SaleRow, NEW ref \in Reference \cup {NoRef}
  PROVE  /\ PaidRow(row, ref) \in SaleRow
         /\ PaidRow(row, ref).status = "PAID"
         /\ PaidRow(row, ref).req = row.req
BY DEF SaleRow, PaidRow, Live

LEMMA UnpaidRowType ==
  ASSUME NEW row \in SaleRow, NEW status \in Dead
  PROVE  /\ UnpaidRow(row, status) \in SaleRow
         /\ UnpaidRow(row, status).status = status
         /\ UnpaidRow(row, status).req = row.req
BY DEF SaleRow, UnpaidRow

LEMMA FinalizeType ==
  ASSUME TypeOK, NEW s \in Sale, NEW ref \in Reference \cup {NoRef},
         FinalizeSaleAsPaid(s, ref)
  PROVE  /\ sale' \in [Sale -> SaleRow]
         /\ booked' \in [Sale -> Nat]
         /\ record' \in [Ctid -> RecordRow]
<1>1. sale' \in [Sale -> SaleRow]
  BY PaidRowType DEF TypeOK, FinalizeSaleAsPaid
<1>2. booked' \in [Sale -> Nat]
  BY DEF TypeOK, FinalizeSaleAsPaid
<1>3. record' \in [Ctid -> RecordRow]
  BY SetRecordStatusType, SaleCtidType DEF FinalizeSaleAsPaid
<1> QED BY <1>1, <1>2, <1>3

LEMMA FailType ==
  ASSUME TypeOK, NEW s \in Sale, NEW status \in Dead, MarkSalePaymentFailed(s, status)
  PROVE  /\ sale' \in [Sale -> SaleRow]
         /\ stock' \in [Product -> Nat]
         /\ entradas' \in [Sale -> Nat]
         /\ record' \in [Ctid -> RecordRow]
         /\ booked' \in [Sale -> Nat]
<1>1. sale' \in [Sale -> SaleRow]
  BY UnpaidRowType DEF TypeOK, MarkSalePaymentFailed
<1>2. stock' \in [Product -> Nat] /\ entradas' \in [Sale -> Nat]
  BY CartType DEF TypeOK, MarkSalePaymentFailed, RestoreInventory
<1>3. record' \in [Ctid -> RecordRow]
  BY SetRecordStatusType, SaleCtidType DEF MarkSalePaymentFailed
<1> QED BY <1>1, <1>2, <1>3 DEF MarkSalePaymentFailed, TypeOK

LEMMA ReserveType ==
  ASSUME TypeOK, NEW s \in Sale, NEW cart \in [Product -> Nat], ReserveInventory(s, cart)
  PROVE  stock' \in [Product -> Nat] /\ salidas' \in [Sale -> Nat]
BY DEF TypeOK, ReserveInventory, EnoughStock

LEMMA ResolveType ==
  ASSUME TypeOK, NEW S, ResolveOrphans(S)
  PROVE  orphan' \in [Ctid \X Reference -> {"NONE", "PENDING", "RESOLVED"}]
BY DEF TypeOK, ResolveOrphans

LEMMA GotoType ==
  ASSUME TypeOK, NEW r \in Request, NEW label \in RequestPc, Goto(r, label)
  PROVE  pc' \in [Request -> RequestPc]
BY DEF TypeOK, Goto

LEMMA CGotoType ==
  ASSUME TypeOK, NEW c \in Confirmation, NEW label \in ConfirmPc, CGoto(c, label)
  PROVE  cpc' \in [Confirmation -> ConfirmPc]
BY DEF TypeOK, CGoto

LEMMA InitTypeOK == Init => TypeOK
BY BoundsAssumption, PayloadAssumption, StockAssumption
   DEF Init, TypeOK, Sale, Turn, SaleRow, RecordRow, Alert, AlertRow, RequestPc, ConfirmPc

LEMMA NextTypeOK == TypeOK /\ [Next]_vars => TypeOK'
<1> SUFFICES ASSUME TypeOK, [Next]_vars PROVE TypeOK'
  OBVIOUS
<1> USE DEF dbVars, requestVars, confirmVars
<1>1. ASSUME NEW t \in Turn, OpenTurn(t) \/ CloseTurn(t) PROVE TypeOK'
  BY <1>1 DEF TypeOK, OpenTurn, CloseTurn
<1>2. ASSUME NEW r \in Request, TakeTurn(r) PROVE TypeOK'
  <2>1. pc' \in [Request -> RequestPc]
    BY <1>2, GotoType DEF TakeTurn, RequestPc, RequestDone
  <2>2. myTurn' \in [Request -> Turn]
    BY <1>2 DEF TakeTurn, TypeOK
  <2> QED BY <1>2, <2>1, <2>2 DEF TypeOK, TakeTurn
<1>3. ASSUME NEW r \in Request, CheckVoucher(r) PROVE TypeOK'
  <2>1. pc' \in [Request -> RequestPc]
    BY <1>3, GotoType DEF CheckVoucher, RequestPc, RequestDone
  <2> QED BY <1>3, <2>1 DEF TypeOK, CheckVoucher
<1>4. ASSUME NEW r \in Request, Lookup(r) \/ ReserveKnown(r) PROVE TypeOK'
  <2>1. pc' \in [Request -> RequestPc]
    BY <1>4, GotoType DEF Lookup, ReserveKnown, RequestPc, RequestDone
  <2>2. record[payload[r].ctid].sale \in Sale
    BY PayloadAssumption DEF TypeOK, RecordRow, Payload
  <2>3. mySale' \in [Request -> Sale]
    BY <1>4, <2>2 DEF Lookup, ReserveKnown, TypeOK
  <2> QED BY <1>4, <2>1, <2>3 DEF TypeOK, Lookup, ReserveKnown
<1>5. ASSUME NEW r \in Request, ReserveNew(r) PROVE TypeOK'
  <2> PICK s \in Sale : CreateSale(r, s)
    BY <1>5 DEF ReserveNew
  <2>0. payload[r] \in Payload /\ myTurn[r] \in Turn
    BY PayloadAssumption DEF TypeOK
  <2>1. pc' \in [Request -> RequestPc]
    BY GotoType DEF CreateSale, RequestPc, RequestDone
  <2>2. stock' \in [Product -> Nat] /\ salidas' \in [Sale -> Nat]
    BY <2>0, ReserveType DEF CreateSale, Payload
  <2>3. [status |-> "PENDING", req |-> r, turn |-> myTurn[r], ref |-> payload[r].ref,
         old |-> FALSE] \in SaleRow
    BY <2>0 DEF SaleRow, Live, Payload
  <2>4. sale' \in [Sale -> SaleRow]
    BY <2>3 DEF CreateSale, TypeOK
  <2>5. record' \in [Ctid -> RecordRow]
    BY <2>0 DEF CreateSale, TypeOK, RecordRow, Payload
  <2>6. mySale' \in [Request -> Sale]
    BY DEF CreateSale, TypeOK
  <2> QED BY <2>1, <2>2, <2>4, <2>5, <2>6 DEF TypeOK, CreateSale
<1>6. ASSUME NEW r \in Request, RefuseReserve(r) \/ Pay(r) PROVE TypeOK'
  <2>1. pc' \in [Request -> RequestPc]
    BY <1>6, GotoType DEF RefuseReserve, Pay, RequestPc, RequestDone
  <2> QED BY <1>6, <2>1 DEF TypeOK, RefuseReserve, Pay
<1>7. ASSUME NEW r \in Request, Decline(r) PROVE TypeOK'
  <2>1. pc' \in [Request -> RequestPc]
    BY <1>7, GotoType DEF Decline, RequestPc, RequestDone
  <2>2. mySale[r] \in Sale /\ "FAILED" \in Dead
    BY DEF TypeOK, Dead
  <2>3. CASE MarkSalePaymentFailed(mySale[r], "FAILED")
    BY <1>7, <2>1, <2>2, <2>3, FailType DEF TypeOK, Decline
  <2>4. CASE UNCHANGED <<sale, record, stock, entradas, booked>>
    BY <1>7, <2>1, <2>4 DEF TypeOK, Decline
  <2> QED BY <1>7, <2>3, <2>4 DEF Decline
<1>8. ASSUME NEW r \in Request, Confirm(r) PROVE TypeOK'
  <2>1. pc' \in [Request -> RequestPc]
    BY <1>8, GotoType DEF Confirm, RequestPc, RequestDone
  <2>2. mySale[r] \in Sale /\ payload[r].ref \in Reference \cup {NoRef}
    BY PayloadAssumption DEF TypeOK, Payload
  <2>3. CASE FinalizeSaleAsPaid(mySale[r], payload[r].ref)
    BY <1>8, <2>1, <2>2, <2>3, FinalizeType DEF TypeOK, Confirm
  <2>4. CASE UNCHANGED <<sale, record, booked>>
    BY <1>8, <2>1, <2>4 DEF TypeOK, Confirm
  <2> QED BY <1>8, <2>3, <2>4 DEF Confirm, MarkSalePaid
<1>9. ASSUME NEW r \in Request, SettleOrphans(r) \/ CrashRequest(r) PROVE TypeOK'
  <2>1. pc' \in [Request -> RequestPc]
    BY <1>9, GotoType DEF SettleOrphans, CrashRequest, RequestPc, RequestDone
  <2>2. orphan' \in [Ctid \X Reference -> {"NONE", "PENDING", "RESOLVED"}]
    BY <1>9, ResolveType DEF SettleOrphans, CrashRequest, TypeOK
  <2> QED BY <1>9, <2>1, <2>2 DEF TypeOK, SettleOrphans, CrashRequest
<1>10. ASSUME NEW s \in Sale, Age(s) PROVE TypeOK'
  <2>1. ASSUME NEW row \in SaleRow PROVE [row EXCEPT !.old = TRUE] \in SaleRow
    BY DEF SaleRow
  <2> QED BY <1>10, <2>1 DEF TypeOK, Age
<1>11. ASSUME NEW s \in Sale, ReaperHandle(s) PROVE TypeOK'
  <2>1. CASE MarkSalePaymentFailed(s, "VOIDED")
    <3>1. "VOIDED" \in Dead
      BY DEF Dead
    <3> QED BY <1>11, <2>1, <3>1, FailType DEF TypeOK, ReaperHandle
  <2>2. CASE UNCHANGED <<sale, record, stock, entradas, booked>>
    BY <1>11, <2>2 DEF TypeOK, ReaperHandle
  <2> QED BY <1>11, <2>1, <2>2 DEF ReaperHandle
<1>12. ASSUME ReaperScan \/ ReaperCrash PROVE TypeOK'
  BY <1>12 DEF TypeOK, ReaperScan, ReaperCrash, StalePending
<1>13. ASSUME NEW c \in Ctid, Purge(c) PROVE TypeOK'
  <2>1. ASSUME NEW row \in RecordRow PROVE [row EXCEPT !.status = "NONE"] \in RecordRow
    BY DEF RecordRow
  <2> QED BY <1>13, <2>1 DEF TypeOK, Purge
<1>14. ASSUME NEW c \in Confirmation, LookupSale(c) PROVE TypeOK'
  <2>1. \A s \in Sale : sale[s].status # "ABSENT" => LabelOf(sale[s].status) \in ConfirmPc
    BY DEF TypeOK, SaleRow, Live, Dead, LabelOf, ConfirmPc, ConfirmDone
  <2>2. cpc' \in [Confirmation -> ConfirmPc]
    BY <1>14, <2>1, CGotoType DEF LookupSale, SalesOf, ConfirmPc
  <2>3. seen' \in [Confirmation -> Sale]
    BY <1>14 DEF LookupSale, SalesOf, TypeOK
  <2>4. delivery' \in [Confirmation -> 0..MaxDeliveries]
    BY <1>14, BoundsAssumption DEF LookupSale, TypeOK
  <2> QED BY <1>14, <2>2, <2>3, <2>4 DEF TypeOK, LookupSale
<1>15. ASSUME NEW c \in Confirmation, EnqueueOrphan(c) PROVE TypeOK'
  <2>1. cpc' \in [Confirmation -> ConfirmPc]
    BY <1>15, CGotoType DEF EnqueueOrphan, ConfirmPc, ConfirmDone
  <2>2. orphan' \in [Ctid \X Reference -> {"NONE", "PENDING", "RESOLVED"}]
    BY <1>15, PayloadAssumption DEF EnqueueOrphan, TypeOK
  <2> QED BY <1>15, <2>1, <2>2 DEF TypeOK, EnqueueOrphan
<1>16. ASSUME NEW c \in Confirmation, ConfirmSeen(c) PROVE TypeOK'
  <2>1. cpc' \in [Confirmation -> ConfirmPc]
    BY <1>16, CGotoType DEF ConfirmSeen, ConfirmPc, ConfirmDone
  <2>2. seen[c] \in Sale /\ confirms[c].ref \in Reference \cup {NoRef}
    BY PayloadAssumption DEF TypeOK
  <2>3. CASE FinalizeSaleAsPaid(seen[c], confirms[c].ref)
    BY <1>16, <2>1, <2>2, <2>3, FinalizeType DEF TypeOK, ConfirmSeen
  <2>4. CASE UNCHANGED <<sale, record, booked>>
    BY <1>16, <2>1, <2>4 DEF TypeOK, ConfirmSeen
  <2> QED BY <1>16, <2>3, <2>4 DEF ConfirmSeen, MarkSalePaid
<1>17. ASSUME NEW c \in Confirmation, SettleOrphansSeen(c) \/ CrashConfirmation(c) PROVE TypeOK'
  <2>1. cpc' \in [Confirmation -> ConfirmPc]
    BY <1>17, CGotoType DEF SettleOrphansSeen, CrashConfirmation, ConfirmPc, ConfirmDone
  <2>2. orphan' \in [Ctid \X Reference -> {"NONE", "PENDING", "RESOLVED"}]
    BY <1>17, ResolveType DEF SettleOrphansSeen, CrashConfirmation, TypeOK
  <2> QED BY <1>17, <2>1, <2>2 DEF TypeOK, SettleOrphansSeen, CrashConfirmation
<1>18. ASSUME NEW c \in Confirmation, RaiseAlert(c) PROVE TypeOK'
  <2>1. cpc' \in [Confirmation -> ConfirmPc]
    BY <1>18, CGotoType DEF RaiseAlert, ConfirmPc, ConfirmDone
  <2>2. [state |-> "OPEN", sale |-> seen[c]] \in AlertRow
    BY DEF AlertRow, TypeOK
  <2>3. alert' \in [Alert -> AlertRow]
    BY <1>18, <2>2 DEF RaiseAlert, TypeOK
  <2> QED BY <1>18, <2>1, <2>3 DEF TypeOK, RaiseAlert
<1>19. ASSUME NEW a \in Alert, NEW state \in Resolution,
              alert' = [alert EXCEPT ![a].state = state]
       PROVE alert' \in [Alert -> AlertRow]
  <2>1. [alert[a] EXCEPT !.state = state] \in AlertRow
    BY DEF TypeOK, AlertRow
  <2> QED BY <1>19, <2>1 DEF TypeOK
<1>20. ASSUME NEW a \in Alert, Reactivate(a) PROVE TypeOK'
  <2>1. alert[a].sale \in Sale
    BY DEF TypeOK, AlertRow
  <2>2. confirms[a[1]].ref \in Reference \cup {NoRef}
    BY PayloadAssumption DEF Alert
  <2>3. stock' \in [Product -> Nat] /\ salidas' \in [Sale -> Nat]
    BY <1>20, <2>1, CartType, ReserveType DEF Reactivate
  <2>4. /\ sale' \in [Sale -> SaleRow]
        /\ booked' \in [Sale -> Nat]
        /\ record' \in [Ctid -> RecordRow]
    BY <1>20, <2>1, <2>2, FinalizeType DEF Reactivate
  <2>5. alert' \in [Alert -> AlertRow]
    BY <1>19, <1>20 DEF Reactivate, Resolution
  <2> QED BY <1>20, <2>3, <2>4, <2>5 DEF TypeOK, Reactivate
<1>21. ASSUME NEW a \in Alert, SettleWithoutSale(a) PROVE TypeOK'
  <2>1. alert' \in [Alert -> AlertRow]
    BY <1>19, <1>21 DEF SettleWithoutSale
  <2> QED BY <1>21, <2>1 DEF TypeOK, SettleWithoutSale
<1>22. CASE UNCHANGED vars
  BY <1>22 DEF vars, TypeOK
<1> QED
  BY <1>1, <1>2, <1>3, <1>4, <1>5, <1>6, <1>7, <1>8, <1>9, <1>10, <1>11, <1>12, <1>13,
     <1>14, <1>15, <1>16, <1>17, <1>18, <1>20, <1>21, <1>22
     DEF Next, RequestStep, ConfirmStep

\* Every row, counter and local of the sale commands keeps to its type; in
\* particular the stock of a product never goes below zero.
THEOREM TypeCorrect == Spec => []TypeOK
BY InitTypeOK, NextTypeOK, PTL DEF Spec

----------------------------------------------------------------------------
(* What a step may do to the sales *)

\* A step leaves the sales and what they move alone, creates one, pays one,
\* fails one, revives one by an alert, or lets one grow old.
SalesAlone == UNCHANGED <<sale, stock, salidas, entradas, booked>>
Creates(r, s) == CreateSale(r, s) /\ ~Known(r) /\ pc[r] = "looked"
Pays(s, ref) ==
  /\ sale[s].status = "PENDING" /\ FinalizeSaleAsPaid(s, ref)
  /\ UNCHANGED <<stock, salidas, entradas>>
Fails(s, status) == MarkSalePaymentFailed(s, status) /\ UNCHANGED salidas

LEMMA StepKinds ==
  ASSUME TypeOK, [Next]_vars
  PROVE  \/ SalesAlone
         \/ \E r \in Request, s \in Sale : Creates(r, s)
         \/ \E s \in Sale, ref \in Reference \cup {NoRef} : Pays(s, ref)
         \/ \E s \in Sale, status \in Dead : Fails(s, status)
         \/ \E a \in Alert : Reactivate(a)
         \/ \E s \in Sale : Age(s)
<1>1. ASSUME NEW t \in Turn, OpenTurn(t) \/ CloseTurn(t) PROVE SalesAlone
  BY <1>1 DEF SalesAlone, OpenTurn, CloseTurn
<1>2. ASSUME NEW r \in Request,
             TakeTurn(r) \/ CheckVoucher(r) \/ Lookup(r) \/ ReserveKnown(r) \/ RefuseReserve(r)
               \/ Pay(r) \/ SettleOrphans(r) \/ CrashRequest(r)
      PROVE  SalesAlone
  BY <1>2 DEF SalesAlone, TakeTurn, CheckVoucher, Lookup, ReserveKnown, RefuseReserve, Pay,
              SettleOrphans, CrashRequest, dbVars
<1>3. ASSUME NEW r \in Request, ReserveNew(r) PROVE \E s \in Sale : Creates(r, s)
  BY <1>3 DEF ReserveNew, Creates
<1>4. ASSUME NEW r \in Request, Decline(r)
      PROVE  SalesAlone \/ \E s \in Sale, status \in Dead : Fails(s, status)
  BY <1>4 DEF Decline, SalesAlone, Fails, TypeOK, Dead
<1>5. ASSUME NEW r \in Request, Confirm(r)
      PROVE  SalesAlone \/ \E s \in Sale, ref \in Reference \cup {NoRef} : Pays(s, ref)
  <2>1. mySale[r] \in Sale /\ payload[r].ref \in Reference \cup {NoRef}
    BY PayloadAssumption DEF TypeOK, Payload
  <2> QED BY <1>5, <2>1 DEF Confirm, MarkSalePaid, SalesAlone, Pays
<1>6. ASSUME NEW s \in Sale, ReaperHandle(s)
      PROVE  SalesAlone \/ \E z \in Sale, status \in Dead : Fails(z, status)
  BY <1>6 DEF ReaperHandle, SalesAlone, Fails, Dead
<1>7. ASSUME NEW c \in Ctid, Purge(c) PROVE SalesAlone
  BY <1>7 DEF Purge, SalesAlone
<1>8. ASSUME ReaperScan \/ ReaperCrash PROVE SalesAlone
  BY <1>8 DEF ReaperScan, ReaperCrash, SalesAlone, dbVars
<1>9. ASSUME NEW c \in Confirmation,
             LookupSale(c) \/ EnqueueOrphan(c) \/ SettleOrphansSeen(c) \/ RaiseAlert(c)
               \/ CrashConfirmation(c)
      PROVE  SalesAlone
  BY <1>9 DEF LookupSale, EnqueueOrphan, SettleOrphansSeen, RaiseAlert, CrashConfirmation,
              SalesAlone, dbVars
<1>10. ASSUME NEW c \in Confirmation, ConfirmSeen(c)
       PROVE  SalesAlone \/ \E s \in Sale, ref \in Reference \cup {NoRef} : Pays(s, ref)
  <2>1. seen[c] \in Sale /\ confirms[c].ref \in Reference \cup {NoRef}
    BY PayloadAssumption DEF TypeOK
  <2> QED BY <1>10, <2>1 DEF ConfirmSeen, MarkSalePaid, SalesAlone, Pays
<1>11. ASSUME NEW a \in Alert, SettleWithoutSale(a) PROVE SalesAlone
  BY <1>11 DEF SettleWithoutSale, SalesAlone
<1>12. CASE UNCHANGED vars
  BY <1>12 DEF vars, dbVars, SalesAlone
<1> QED
  BY <1>1, <1>2, <1>3, <1>4, <1>5, <1>6, <1>7, <1>8, <1>9, <1>10, <1>11, <1>12
     DEF Next, RequestStep, ConfirmStep

----------------------------------------------------------------------------
(* Stock movements and bookings *)

CountsAgree == HeldExactlyWhileLive /\ BookedExactlyOnce

LEMMA NextCountsAgree == TypeOK /\ CountsAgree /\ [Next]_vars => CountsAgree'
<1> SUFFICES ASSUME TypeOK, CountsAgree, [Next]_vars PROVE CountsAgree'
  OBVIOUS
<1> USE DEF CountsAgree, HeldExactlyWhileLive, BookedExactlyOnce, Live
<1>0. /\ salidas \in [Sale -> Nat] /\ entradas \in [Sale -> Nat]
     /\ booked \in [Sale -> Nat]
  BY DEF TypeOK
<1>1. CASE SalesAlone
  BY <1>1 DEF SalesAlone
<1>2. ASSUME NEW r \in Request, NEW s \in Sale, Creates(r, s) PROVE CountsAgree'
  <2>1. /\ sale[s].status = "ABSENT" /\ sale'[s].status = "PENDING"
        /\ \A z \in Sale \ {s} : sale'[z] = sale[z]
    BY <1>2 DEF Creates, CreateSale, NextSaleId, TypeOK
  <2>2. /\ salidas' = [salidas EXCEPT ![s] = @ + 1]
        /\ UNCHANGED <<entradas, booked>>
    BY <1>2 DEF Creates, CreateSale, ReserveInventory
  <2> QED BY <1>0, <2>1, <2>2
<1>3. ASSUME NEW s \in Sale, NEW ref \in Reference \cup {NoRef}, Pays(s, ref)
      PROVE  CountsAgree'
  <2>1. /\ sale[s].status = "PENDING" /\ sale'[s].status = "PAID"
        /\ \A z \in Sale \ {s} : sale'[z] = sale[z]
    BY <1>3, PaidRowType DEF Pays, FinalizeSaleAsPaid, TypeOK
  <2>2. booked' = [booked EXCEPT ![s] = @ + 1] /\ UNCHANGED <<salidas, entradas>>
    BY <1>3 DEF Pays, FinalizeSaleAsPaid
  <2> QED BY <1>0, <2>1, <2>2
<1>4. ASSUME NEW s \in Sale, NEW status \in Dead, Fails(s, status) PROVE CountsAgree'
  <2>1. /\ sale[s].status = "PENDING" /\ sale'[s].status = status
        /\ \A z \in Sale \ {s} : sale'[z] = sale[z]
    BY <1>4, UnpaidRowType DEF Fails, MarkSalePaymentFailed, TypeOK
  <2>2. entradas' = [entradas EXCEPT ![s] = @ + 1] /\ UNCHANGED <<salidas, booked>>
    BY <1>4 DEF Fails, MarkSalePaymentFailed, RestoreInventory
  <2> QED BY <1>0, <2>1, <2>2 DEF Dead
<1>5. ASSUME NEW a \in Alert, Reactivate(a) PROVE CountsAgree'
  <2> DEFINE s == alert[a].sale
  <2>1. s \in Sale /\ confirms[a[1]].ref \in Reference \cup {NoRef}
    BY PayloadAssumption DEF TypeOK, AlertRow, Alert
  <2>2. /\ sale[s].status \in Dead /\ sale'[s].status = "PAID"
        /\ \A z \in Sale \ {s} : sale'[z] = sale[z]
    BY <1>5, <2>1, PaidRowType DEF Reactivate, FinalizeSaleAsPaid, TypeOK
  <2>3. /\ salidas' = [salidas EXCEPT ![s] = @ + 1]
        /\ booked' = [booked EXCEPT ![s] = @ + 1]
        /\ UNCHANGED entradas
    BY <1>5 DEF Reactivate, ReserveInventory, FinalizeSaleAsPaid
  <2> QED BY <2>1, <2>2, <2>3, <1>0 DEF Dead
<1>6. ASSUME NEW s \in Sale, Age(s) PROVE CountsAgree'
  <2>1. \A z \in Sale : sale'[z].status = sale[z].status
    BY <1>6 DEF Age, TypeOK, SaleRow
  <2> QED BY <1>6, <2>1 DEF Age
<1> QED BY <1>1, <1>2, <1>3, <1>4, <1>5, <1>6, StepKinds

\* A sale holds its cart exactly while it is pending or paid, and is booked
\* exactly once if it is paid, for any number of requests, confirmations,
\* deliveries and sales, with or without late resends.
THEOREM CountsCorrect == Spec => [](HeldExactlyWhileLive /\ BookedExactlyOnce)
<1>1. Init => CountsAgree
  BY DEF Init, CountsAgree, HeldExactlyWhileLive, BookedExactlyOnce, Live
<1> QED BY <1>1, InitTypeOK, NextTypeOK, NextCountsAgree, PTL DEF Spec, CountsAgree

\* The first half on its own: a live sale took its cart out of the stock once
\* more than it was given back, a dead one as often (the inventory movements of
\* _reserve_inventory and _restore_inventory).
COROLLARY HoldsMatchSales == Spec => []HeldExactlyWhileLive
BY CountsCorrect, PTL

----------------------------------------------------------------------------
(* Stock *)

LEMMA LiveSalesFinite == IsFiniteSet(LiveSales)
<1>1. IsFiniteSet(Sale)
  BY FS_Interval, BoundsAssumption DEF Sale
<1> QED BY <1>1, FS_Subset DEF LiveSales

LEMMA HeldNat == ASSUME TypeOK PROVE \A p \in Product, s \in Sale : HeldBy(p)[s] \in Nat
BY CartType DEF HeldBy

\* What is held as long as the same sales are live, with the same carts.
LEMMA SameHeld ==
  ASSUME LiveSales' = LiveSales, \A s \in LiveSales : sale'[s].req = sale[s].req,
         stock' = stock, StockConserved
  PROVE  StockConserved'
<1>1. ASSUME NEW p \in Product
      PROVE  SumFunctionOnSet(HeldBy(p)', LiveSales) = SumFunctionOnSet(HeldBy(p), LiveSales)
  <2>1. \A s \in LiveSales : HeldBy(p)'[s] = HeldBy(p)[s]
    BY DEF HeldBy, Cart, LiveSales
  <2> QED BY <2>1, LiveSalesFinite, SumOfSame
<1> QED BY <1>1 DEF StockConserved

\* A sale that comes to life takes its cart.
LEMMA HeldMore ==
  ASSUME TypeOK, TypeOK', NEW s \in Sale \ LiveSales, LiveSales' = LiveSales \cup {s},
         \A z \in LiveSales : sale'[z].req = sale[z].req,
         \A p \in Product : stock'[p] = stock[p] - Cart(s)'[p],
         StockConserved
  PROVE  StockConserved'
<1> SUFFICES ASSUME NEW p \in Product
             PROVE  stock'[p] + SumFunctionOnSet(HeldBy(p)', LiveSales') = InitialStock[p]
  BY DEF StockConserved
<1>1. SumFunctionOnSet(HeldBy(p)', LiveSales) = SumFunctionOnSet(HeldBy(p), LiveSales)
  <2>1. \A z \in LiveSales : HeldBy(p)'[z] = HeldBy(p)[z]
    BY DEF HeldBy, Cart, LiveSales
  <2> QED BY <2>1, LiveSalesFinite, SumOfSame
<1>2. \A z \in LiveSales \cup {s} : HeldBy(p)'[z] \in Nat
  <2>1. ASSUME NEW z \in Sale PROVE HeldBy(p)'[z] \in Nat
    <3>1. sale'[z].req \in Request
      BY DEF TypeOK, SaleRow
    <3>2. payload[sale'[z].req].cart[p] \in Nat
      BY <3>1, PayloadAssumption DEF Payload
    <3> QED BY <3>2 DEF HeldBy, Cart
  <2> QED BY <2>1 DEF LiveSales
<1>3. /\ SumFunctionOnSet(HeldBy(p)', LiveSales) \in Nat
      /\ SumFunctionOnSet(HeldBy(p)', LiveSales \cup {s})
           = HeldBy(p)'[s] + SumFunctionOnSet(HeldBy(p)', LiveSales)
  BY <1>2, LiveSalesFinite, SumWith
<1>4. HeldBy(p)'[s] = Cart(s)'[p]
  BY DEF HeldBy
<1>5. stock[p] \in Nat /\ HeldBy(p)'[s] \in Nat
  BY <1>2 DEF TypeOK
<1>6. stock[p] + SumFunctionOnSet(HeldBy(p), LiveSales) = InitialStock[p]
  BY DEF StockConserved
<1> QED BY <1>1, <1>3, <1>4, <1>5, <1>6

\* A sale that dies gives its cart back.
LEMMA HeldLess ==
  ASSUME TypeOK, TypeOK', NEW s \in LiveSales, LiveSales' = LiveSales \ {s},
         \A z \in LiveSales : sale'[z].req = sale[z].req,
         \A p \in Product : stock'[p] = stock[p] + Cart(s)[p],
         StockConserved
  PROVE  StockConserved'
<1> SUFFICES ASSUME NEW p \in Product
             PROVE  stock'[p] + SumFunctionOnSet(HeldBy(p)', LiveSales') = InitialStock[p]
  BY DEF StockConserved
<1>1. SumFunctionOnSet(HeldBy(p)', LiveSales \ {s}) = SumFunctionOnSet(HeldBy(p), LiveSales \ {s})
  <2>1. \A z \in LiveSales \ {s} : HeldBy(p)'[z] = HeldBy(p)[z]
    BY DEF HeldBy, Cart, LiveSales
  <2>2. IsFiniteSet(LiveSales \ {s})
    BY LiveSalesFinite, FS_Subset
  <2> QED BY <2>1, <2>2, SumOfSame
<1>2. \A z \in LiveSales : HeldBy(p)[z] \in Nat
  BY HeldNat DEF LiveSales
<1>3. /\ SumFunctionOnSet(HeldBy(p), LiveSales \ {s}) \in Nat
      /\ SumFunctionOnSet(HeldBy(p), LiveSales)
           = HeldBy(p)[s] + SumFunctionOnSet(HeldBy(p), LiveSales \ {s})
  BY <1>2, LiveSalesFinite, SumWithout
<1>4. HeldBy(p)[s] = Cart(s)[p]
  BY DEF HeldBy, LiveSales
<1>5. stock[p] \in Nat /\ HeldBy(p)[s] \in Nat
  BY <1>2 DEF TypeOK
<1>6. stock[p] + SumFunctionOnSet(HeldBy(p), LiveSales) = InitialStock[p]
  BY DEF StockConserved
<1> QED BY <1>1, <1>3, <1>4, <1>5, <1>6

LEMMA NextStockConserved == TypeOK /\ StockConserved /\ [Next]_vars => StockConserved'
<1> SUFFICES ASSUME TypeOK, StockConserved, [Next]_vars PROVE StockConserved'
  OBVIOUS
<1>0. TypeOK'
  BY NextTypeOK
<1>1. CASE SalesAlone
  BY <1>1, SameHeld DEF SalesAlone, LiveSales
<1>2. ASSUME NEW r \in Request, NEW s \in Sale, Creates(r, s) PROVE StockConserved'
  <2>1. /\ sale[s].status = "ABSENT" /\ sale'[s].status = "PENDING" /\ sale'[s].req = r
        /\ \A z \in Sale \ {s} : sale'[z] = sale[z]
    BY <1>2 DEF Creates, CreateSale, NextSaleId, TypeOK
  <2>2. s \in Sale \ LiveSales /\ LiveSales' = LiveSales \cup {s}
    BY <2>1 DEF LiveSales, Live
  <2>3. \A p \in Product : stock'[p] = stock[p] - Cart(s)'[p]
    BY <1>2, <2>1 DEF Creates, CreateSale, ReserveInventory, Cart
  <2>4. \A z \in LiveSales : sale'[z].req = sale[z].req
    BY <2>1, <2>2 DEF LiveSales
  <2> QED BY <1>0, <2>2, <2>3, <2>4, HeldMore
<1>3. ASSUME NEW s \in Sale, NEW ref \in Reference \cup {NoRef}, Pays(s, ref)
      PROVE  StockConserved'
  <2>1. /\ sale[s].status = "PENDING" /\ sale'[s].status = "PAID"
        /\ sale'[s].req = sale[s].req
        /\ \A z \in Sale \ {s} : sale'[z] = sale[z]
    BY <1>3, PaidRowType DEF Pays, FinalizeSaleAsPaid, TypeOK
  <2>2. LiveSales' = LiveSales /\ \A z \in LiveSales : sale'[z].req = sale[z].req
    BY <2>1 DEF LiveSales, Live
  <2> QED BY <1>3, <2>2, SameHeld DEF Pays
<1>4. ASSUME NEW s \in Sale, NEW status \in Dead, Fails(s, status) PROVE StockConserved'
  <2>1. /\ sale[s].status = "PENDING" /\ sale'[s].status = status
        /\ sale'[s].req = sale[s].req
        /\ \A z \in Sale \ {s} : sale'[z] = sale[z]
    BY <1>4, UnpaidRowType DEF Fails, MarkSalePaymentFailed, TypeOK
  <2>2. s \in LiveSales /\ LiveSales' = LiveSales \ {s}
    BY <2>1 DEF LiveSales, Live, Dead
  <2>3. \A z \in LiveSales : sale'[z].req = sale[z].req
    BY <2>1 DEF LiveSales
  <2>4. \A p \in Product : stock'[p] = stock[p] + Cart(s)[p]
    BY <1>4 DEF Fails, MarkSalePaymentFailed, RestoreInventory
  <2> QED BY <1>0, <2>2, <2>3, <2>4, HeldLess
<1>5. ASSUME NEW a \in Alert, Reactivate(a) PROVE StockConserved'
  <2>1. PICK s \in Sale : s = alert[a].sale /\ confirms[a[1]].ref \in Reference \cup {NoRef}
    BY PayloadAssumption DEF TypeOK, AlertRow, Alert
  <2>2. /\ sale[s].status \in Dead /\ sale'[s].status = "PAID"
        /\ sale'[s].req = sale[s].req
        /\ \A z \in Sale \ {s} : sale'[z] = sale[z]
    BY <1>5, <2>1, PaidRowType DEF Reactivate, FinalizeSaleAsPaid, TypeOK
  <2>3. s \in Sale \ LiveSales /\ LiveSales' = LiveSales \cup {s}
    BY <2>1, <2>2 DEF LiveSales, Live, Dead
  <2>4. \A p \in Product : stock'[p] = stock[p] - Cart(s)'[p]
    <3>1. stock' = [p \in Product |-> stock[p] - Cart(s)[p]]
      BY <1>5, <2>1 DEF Reactivate, ReserveInventory
    <3>2. Cart(s)' = Cart(s)
      BY <2>2 DEF Cart
    <3> QED BY <3>1, <3>2
  <2>5. \A z \in LiveSales : sale'[z].req = sale[z].req
    BY <2>2 DEF LiveSales
  <2> QED BY <1>0, <2>3, <2>4, <2>5, HeldMore
<1>6. ASSUME NEW s \in Sale, Age(s) PROVE StockConserved'
  <2>1. \A z \in Sale : sale'[z].status = sale[z].status /\ sale'[z].req = sale[z].req
    BY <1>6 DEF Age, TypeOK, SaleRow
  <2>2. LiveSales' = LiveSales /\ \A z \in LiveSales : sale'[z].req = sale[z].req
    BY <2>1 DEF LiveSales
  <2> QED BY <1>6, <2>2, SameHeld DEF Age
<1> QED BY <1>1, <1>2, <1>3, <1>4, <1>5, <1>6, StepKinds

\* No unit of stock is lost or made up, for any carts and any number of sales,
\* whichever of register_sale, the reaper, the confirmations and the
\* reactivations takes or gives it back.
THEOREM StockKept == Spec => []StockConserved
<1>1. ASSUME Init PROVE StockConserved
  <2>1. LiveSales = {}
    BY <1>1 DEF Init, LiveSales, Live
  <2> QED BY <1>1, <2>1, SumOfNone, StockAssumption DEF Init, StockConserved
<1> QED BY <1>1, InitTypeOK, NextTypeOK, NextStockConserved, PTL DEF Spec

----------------------------------------------------------------------------
(* Paid sales *)

LEMMA PaidStep ==
  ASSUME TypeOK, [Next]_vars, NEW s \in Sale, sale[s].status = "PAID"
  PROVE  sale'[s].status = "PAID" /\ sale'[s].ref = sale[s].ref
<1>1. CASE SalesAlone
  BY <1>1 DEF SalesAlone
<1>2. ASSUME NEW r \in Request, NEW z \in Sale, Creates(r, z) PROVE sale'[s] = sale[s]
  BY <1>2 DEF Creates, CreateSale, NextSaleId, TypeOK
<1>3. ASSUME NEW z \in Sale, NEW ref \in Reference \cup {NoRef}, Pays(z, ref)
      PROVE  sale'[s] = sale[s]
  BY <1>3 DEF Pays, FinalizeSaleAsPaid, TypeOK
<1>4. ASSUME NEW z \in Sale, NEW status \in Dead, Fails(z, status) PROVE sale'[s] = sale[s]
  BY <1>4 DEF Fails, MarkSalePaymentFailed, TypeOK
<1>5. ASSUME NEW a \in Alert, Reactivate(a) PROVE sale'[s] = sale[s]
  <2>1. alert[a].sale # s
    BY <1>5 DEF Reactivate, Dead
  <2> QED BY <1>5, <2>1 DEF Reactivate, FinalizeSaleAsPaid, TypeOK
<1>6. ASSUME NEW z \in Sale, Age(z)
      PROVE  sale'[s].status = sale[s].status /\ sale'[s].ref = sale[s].ref
  BY <1>6 DEF Age, TypeOK, SaleRow
<1> QED BY <1>1, <1>2, <1>3, <1>4, <1>5, <1>6, StepKinds

\* No step takes the money of a paid sale back or pays it over again.
THEOREM PaidStays == Spec => PaidIsFinal
<1>1. TypeOK /\ [Next]_vars =>
        [\A s \in Sale : sale[s].status = "PAID" =>
           sale'[s].status = "PAID" /\ sale'[s].ref = sale[s].ref]_vars
  BY PaidStep
<1> QED BY <1>1, InitTypeOK, NextTypeOK, PTL DEF Spec, PaidIsFinal

LEMMA ReviveStep ==
  ASSUME TypeOK, [Next]_vars, NEW s \in Sale,
         sale[s].status \in Dead, sale'[s].status = "PAID"
  PROVE  \E a \in Alert : /\ alert[a] = [state |-> "OPEN", sale |-> s]
                          /\ alert'[a].state = "REACTIVATE_SALE"
<1> USE DEF Dead
<1>1. CASE SalesAlone
  BY <1>1 DEF SalesAlone
<1>2. ASSUME NEW r \in Request, NEW z \in Sale, Creates(r, z) PROVE FALSE
  BY <1>2 DEF Creates, CreateSale, NextSaleId, TypeOK
<1>3. ASSUME NEW z \in Sale, NEW ref \in Reference \cup {NoRef}, Pays(z, ref) PROVE FALSE
  BY <1>3 DEF Pays, FinalizeSaleAsPaid, TypeOK
<1>4. ASSUME NEW z \in Sale, NEW status \in Dead, Fails(z, status) PROVE FALSE
  BY <1>4, UnpaidRowType DEF Fails, MarkSalePaymentFailed, TypeOK
<1>5. ASSUME NEW a \in Alert, Reactivate(a)
      PROVE  /\ alert[a] = [state |-> "OPEN", sale |-> s]
             /\ alert'[a].state = "REACTIVATE_SALE"
  <2>1. alert[a].sale = s
    BY <1>5 DEF Reactivate, FinalizeSaleAsPaid, TypeOK
  <2>2. alert[a] \in AlertRow /\ alert[a].state = "OPEN"
    BY <1>5 DEF TypeOK, Reactivate, Unresolved
  <2>3. alert[a] = [state |-> "OPEN", sale |-> s]
    BY <2>1, <2>2 DEF AlertRow
  <2>4. alert'[a].state = "REACTIVATE_SALE"
    BY <1>5 DEF Reactivate, TypeOK, AlertRow
  <2> QED BY <2>3, <2>4
<1>6. ASSUME NEW z \in Sale, Age(z) PROVE FALSE
  BY <1>6 DEF Age, TypeOK, SaleRow
<1> QED BY <1>1, <1>2, <1>3, <1>4, <1>5, <1>6, StepKinds

\* No confirmation pays a failed or expired sale: only resolving an open alert
\* about that very sale does.
THEOREM RevivedByAlert == Spec => RevivedOnlyByResolution
<1>1. TypeOK /\ [Next]_vars =>
        [\A s \in Sale : sale[s].status \in Dead /\ sale'[s].status = "PAID" =>
           \E a \in Alert : /\ alert[a] = [state |-> "OPEN", sale |-> s]
                            /\ alert'[a].state = "REACTIVATE_SALE"]_vars
  BY ReviveStep
<1> QED BY <1>1, InitTypeOK, NextTypeOK, PTL DEF Spec, RevivedOnlyByResolution

----------------------------------------------------------------------------
(* The commands implement the ledger of sales and stock *)

LEMMA LedgerInit == Init => Ledger!Init
<1> SUFFICES ASSUME Init PROVE Ledger!Init
  OBVIOUS
<1>1. \A s \in Sale : Cart(s) \in {payload[r].cart : r \in Request}
  BY InitTypeOK DEF TypeOK, SaleRow, Cart
<1>2. \A s \in Sale : PhaseOf(sale[s].status) = "free"
  BY DEF Init, PhaseOf
<1> QED BY <1>1, <1>2 DEF Ledger!Init, Init

LEMMA LedgerStep == TypeOK /\ [Next]_vars => [Ledger!Next]_(Ledger!vars)
<1> SUFFICES ASSUME TypeOK, [Next]_vars PROVE [Ledger!Next]_(Ledger!vars)
  OBVIOUS
<1> DEFINE ph == [s \in Sale |-> PhaseOf(sale[s].status)]
           held == [s \in Sale |-> Cart(s)]
<1>0. sale \in [Sale -> SaleRow] /\ stock \in [Product -> Nat]
  BY DEF TypeOK
<1>1. CASE SalesAlone
  <2>1. UNCHANGED <<ph, held, stock>>
    BY <1>1 DEF SalesAlone, Cart
  <2> QED BY <2>1 DEF Ledger!vars
<1>2. ASSUME NEW r \in Request, NEW s \in Sale, Creates(r, s) PROVE Ledger!Next
  <2>1. /\ sale[s].status = "ABSENT" /\ sale'[s].status = "PENDING" /\ sale'[s].req = r
        /\ \A z \in Sale \ {s} : sale'[z] = sale[z]
    BY <1>0, <1>2 DEF Creates, CreateSale, NextSaleId
  <2>2. ph[s] = "free" /\ ph' = [ph EXCEPT ![s] = "held"]
    BY <2>1 DEF PhaseOf
  <2>3. held' = [held EXCEPT ![s] = payload[r].cart]
    BY <2>1 DEF Cart
  <2>4. Ledger!Take(payload[r].cart)
    BY <1>0, <1>2, PayloadAssumption
       DEF Creates, CreateSale, ReserveInventory, EnoughStock, Ledger!Take, Payload
  <2> HIDE DEF ph, held
  <2>5. Ledger!Hold(s)
    BY <2>2, <2>3, <2>4 DEF Ledger!Hold, Ledger!Move, ph, held
  <2> QED BY <2>5 DEF Ledger!Next
<1>3. ASSUME NEW s \in Sale, NEW ref \in Reference \cup {NoRef}, Pays(s, ref)
      PROVE  Ledger!Next
  <2>1. /\ sale[s].status = "PENDING" /\ sale'[s].status = "PAID" /\ sale'[s].req = sale[s].req
        /\ \A z \in Sale \ {s} : sale'[z] = sale[z]
    BY <1>0, <1>3, PaidRowType DEF Pays, FinalizeSaleAsPaid
  <2>2. ph[s] = "held" /\ ph' = [ph EXCEPT ![s] = "sold"]
    BY <2>1 DEF PhaseOf
  <2>3. UNCHANGED <<held, stock>>
    BY <2>1, <1>3 DEF Cart, Pays
  <2> HIDE DEF ph, held
  <2>4. Ledger!Sell(s)
    BY <2>2, <2>3 DEF Ledger!Sell, Ledger!Move, ph, held
  <2> QED BY <2>4 DEF Ledger!Next
<1>4. ASSUME NEW s \in Sale, NEW status \in Dead, Fails(s, status) PROVE Ledger!Next
  <2>1. /\ sale[s].status = "PENDING" /\ sale'[s].status = status /\ sale'[s].req = sale[s].req
        /\ \A z \in Sale \ {s} : sale'[z] = sale[z]
    BY <1>0, <1>4, UnpaidRowType DEF Fails, MarkSalePaymentFailed
  <2>2. ph[s] = "held" /\ ph' = [ph EXCEPT ![s] = "released"]
    BY <2>1 DEF PhaseOf, Dead
  <2>3. held' = held /\ stock' = [p \in Product |-> stock[p] + held[s][p]]
    BY <2>1, <1>4 DEF Cart, Fails, MarkSalePaymentFailed, RestoreInventory
  <2> HIDE DEF ph, held
  <2>4. Ledger!Release(s)
    BY <2>2, <2>3 DEF Ledger!Release, Ledger!Move, ph, held
  <2> QED BY <2>4 DEF Ledger!Next
<1>5. ASSUME NEW a \in Alert, Reactivate(a) PROVE Ledger!Next
  <2> DEFINE s == alert[a].sale
  <2>0. s \in Sale /\ confirms[a[1]].ref \in Reference \cup {NoRef}
    BY PayloadAssumption DEF TypeOK, AlertRow, Alert
  <2>1. /\ sale[s].status \in Dead /\ sale'[s].status = "PAID" /\ sale'[s].req = sale[s].req
        /\ \A z \in Sale \ {s} : sale'[z] = sale[z]
    BY <1>0, <1>5, <2>0, PaidRowType DEF Reactivate, FinalizeSaleAsPaid
  <2>2. ph[s] = "released" /\ ph' = [ph EXCEPT ![s] = "sold"]
    BY <2>0, <2>1 DEF PhaseOf, Dead
  <2>3. held' = held
    BY <2>1 DEF Cart
  <2>4. Ledger!Take(held[s])
    BY <1>0, <1>5, <2>0, CartType DEF Reactivate, ReserveInventory, EnoughStock, Ledger!Take
  <2> HIDE DEF ph, held, s
  <2>5. Ledger!Revive(s)
    BY <2>2, <2>3, <2>4 DEF Ledger!Revive, Ledger!Move, ph, held
  <2> QED BY <2>0, <2>5 DEF Ledger!Next
<1>6. ASSUME NEW s \in Sale, Age(s) PROVE UNCHANGED <<ph, held, stock>>
  <2>1. \A z \in Sale : sale'[z].status = sale[z].status /\ sale'[z].req = sale[z].req
    BY <1>0, <1>6 DEF Age, SaleRow
  <2> QED BY <1>6, <2>1 DEF Age, Cart
<1>7. (\E s \in Sale : Age(s)) => UNCHANGED Ledger!vars
  BY <1>6 DEF Ledger!vars
<1> QED BY <1>1, <1>2, <1>3, <1>4, <1>5, <1>7, StepKinds

\* The sale commands, with all their interleavings and crashes, implement the
\* abstract ledger: stock moves only by holding, releasing and reviving sales.
THEOREM SalesImplementLedger == Spec => ImplementsLedger
BY InitTypeOK, NextTypeOK, LedgerInit, LedgerStep, PTL DEF Spec, ImplementsLedger, Ledger!Spec

----------------------------------------------------------------------------
(* Idempotency: one sale per transaction, and answers that are true *)

\* A request past its reservation works on a sale of its own transaction.
Claimed == {"reserved", "approved", "declined", "paid", "ok"}
OwnSale(r) ==
  /\ sale[mySale[r]].status # "ABSENT"
  /\ SaleCtid(mySale[r]) = payload[r].ctid
  /\ payload[sale[mySale[r]].req].fp = payload[r].fp
RequestsOwn ==
  \A r \in Request :
    /\ pc[r] \in Claimed => OwnSale(r)
    /\ pc[r] \in {"paid", "ok"} => sale[mySale[r]].status = "PAID"

\* A record belongs to a sale, and is closed as failed when the sale is.
RecordHasSale ==
  \A c \in Ctid : record[c].status # "NONE" =>
    /\ sale[record[c].sale].status # "ABSENT"
    /\ record[c].status = "FAILED_FINAL" <=> sale[record[c].sale].status \in Dead

\* A transaction that has a sale but no record any more was purged, when no
\* request of it was left.
PurgedIsOver ==
  \A c \in Ctid : record[c].status = "NONE" /\ SalesOf(c) # {} =>
    \A r \in Request : payload[r].ctid = c => pc[r] \in RequestDone

RecordInv ==
  /\ RecordAgrees /\ RecordHasSale /\ OneSalePerTransaction
  /\ PurgedIsOver /\ RequestsOwn

\* What every step but a creation and a purge keeps.
SameSales ==
  \A s \in Sale : /\ sale'[s].req = sale[s].req
                  /\ sale'[s].status = "ABSENT" <=> sale[s].status = "ABSENT"
                  /\ sale[s].status = "PAID" => sale'[s].status = "PAID"
SameRecords ==
  \A c \in Ctid : /\ record'[c].sale = record[c].sale
                  /\ record'[c].status = "NONE" <=> record[c].status = "NONE"

LEMMA KeepOneSale ==
  ASSUME SameSales, OneSalePerTransaction
  PROVE  OneSalePerTransaction'
BY DEF SameSales, OneSalePerTransaction, SalesOf, SaleCtid

LEMMA KeepPurged ==
  ASSUME SameSales, SameRecords, PurgedIsOver,
         \A r \in Request : pc[r] \in RequestDone => pc'[r] \in RequestDone
  PROVE  PurgedIsOver'
<1>1. \A c \in Ctid : SalesOf(c)' = SalesOf(c)
  BY DEF SameSales, SalesOf, SaleCtid
<1> QED BY <1>1 DEF PurgedIsOver, SameRecords

LEMMA KeepOwn ==
  ASSUME TypeOK, SameSales, RequestsOwn, NEW r \in Request,
         mySale'[r] = mySale[r], pc'[r] \in Claimed => pc[r] \in Claimed,
         pc'[r] \in {"paid", "ok"} => sale'[mySale[r]].status = "PAID"
  PROVE  /\ pc'[r] \in Claimed => OwnSale(r)'
         /\ pc'[r] \in {"paid", "ok"} => sale'[mySale'[r]].status = "PAID"
BY DEF TypeOK, SameSales, RequestsOwn, OwnSale, SaleCtid

LEMMA KeepAllOwn ==
  ASSUME TypeOK, SameSales, RequestsOwn, UNCHANGED <<pc, mySale>>
  PROVE  RequestsOwn'
<1>1. \A r \in Request : pc[r] \in {"paid", "ok"} => sale'[mySale[r]].status = "PAID"
  BY DEF RequestsOwn, SameSales, TypeOK
<1> QED BY <1>1, KeepOwn DEF RequestsOwn

\* A step that closes a sale closes its record with it.
LEMMA CloseSale ==
  ASSUME TypeOK, RecordInv, NEW s \in Sale, NEW row \in SaleRow,
         sale[s].status \in {"PENDING"} \cup Dead,
         row.req = sale[s].req, row.status \in {"PAID"} \cup Dead,
         sale' = [sale EXCEPT ![s] = row],
         SetRecordStatus(SaleCtid(s),
                         IF row.status = "PAID" THEN "COMPLETED" ELSE "FAILED_FINAL")
  PROVE  /\ RecordAgrees' /\ RecordHasSale' /\ SameSales /\ SameRecords
<1> USE DEF Dead
<1>1. /\ sale'[s] = row /\ \A z \in Sale \ {s} : sale'[z] = sale[z]
  BY DEF TypeOK
<1>2. SameSales
  BY <1>1 DEF SameSales
<1>3. SameRecords
  BY DEF SameRecords, SetRecordStatus, TypeOK, RecordRow
<1>4. ASSUME NEW c \in Ctid, record'[c].status # "NONE"
      PROVE  /\ SaleCtid(record[c].sale)' = c
             /\ LET status == sale'[record'[c].sale].status IN
                  /\ status # "ABSENT"
                  /\ record'[c].status = "PENDING" <=> status = "PENDING"
                  /\ record'[c].status = "COMPLETED" <=> status = "PAID"
                  /\ record'[c].status = "FAILED_FINAL" <=> status \in Dead
  <2>1. /\ record[c].status # "NONE" /\ record[c].sale \in Sale
        /\ record'[c].sale = record[c].sale
    BY <1>3, <1>4 DEF SameRecords, TypeOK, RecordRow
  <2>2. SaleCtid(record[c].sale) = c /\ sale[record[c].sale].status # "ABSENT"
    BY <2>1 DEF RecordInv, RecordAgrees, RecordHasSale
  <2>3. SaleCtid(record[c].sale)' = c
    BY <1>2, <2>1, <2>2 DEF SameSales, SaleCtid
  <2>4. CASE c = SaleCtid(s)
    <3>1. record[c].sale = s
      BY <2>1, <2>2, <2>4 DEF RecordInv, OneSalePerTransaction, SalesOf
    <3>2. record'[c].status = IF row.status = "PAID" THEN "COMPLETED" ELSE "FAILED_FINAL"
      BY <2>1, <2>4 DEF SetRecordStatus, TypeOK, RecordRow
    <3> QED BY <1>1, <2>1, <2>3, <3>1, <3>2
  <2>5. CASE c # SaleCtid(s)
    <3>1. record[c].sale # s
      BY <2>2, <2>5
    <3>2. record'[c].status = record[c].status
      BY <2>5 DEF SetRecordStatus, TypeOK, RecordRow
    <3> QED BY <1>1, <2>1, <2>2, <2>3, <3>1, <3>2 DEF RecordInv, RecordAgrees, RecordHasSale
  <2> QED BY <2>4, <2>5
<1>5. \A c \in Ctid : record'[c].sale = record[c].sale
  BY <1>3 DEF SameRecords
<1> QED BY <1>2, <1>3, <1>4, <1>5 DEF RecordAgrees, RecordHasSale, SaleCtid

LEMMA PaysKeeps ==
  ASSUME TypeOK, RecordInv, NEW s \in Sale, NEW ref \in Reference \cup {NoRef},
         sale[s].status \in {"PENDING"} \cup Dead, FinalizeSaleAsPaid(s, ref)
  PROVE  /\ RecordAgrees' /\ RecordHasSale' /\ SameSales /\ SameRecords
         /\ sale'[s].status = "PAID"
<1>1. sale[s] \in SaleRow
  BY DEF TypeOK
<1>2. /\ PaidRow(sale[s], ref) \in SaleRow /\ PaidRow(sale[s], ref).status = "PAID"
      /\ PaidRow(sale[s], ref).req = sale[s].req
  BY <1>1, PaidRowType
<1>3. /\ sale' = [sale EXCEPT ![s] = PaidRow(sale[s], ref)]
      /\ SetRecordStatus(SaleCtid(s), "COMPLETED")
  BY DEF FinalizeSaleAsPaid
<1> QED BY <1>2, <1>3, CloseSale DEF TypeOK

LEMMA FailsKeeps ==
  ASSUME TypeOK, RecordInv, NEW s \in Sale, NEW status \in Dead,
         MarkSalePaymentFailed(s, status)
  PROVE  /\ RecordAgrees' /\ RecordHasSale' /\ SameSales /\ SameRecords
<1>1. sale[s] \in SaleRow /\ status # "PAID"
  BY DEF TypeOK, Dead
<1>2. /\ UnpaidRow(sale[s], status) \in SaleRow
      /\ UnpaidRow(sale[s], status).status = status
      /\ UnpaidRow(sale[s], status).req = sale[s].req
  BY <1>1, UnpaidRowType
<1>3. /\ sale' = [sale EXCEPT ![s] = UnpaidRow(sale[s], status)]
      /\ SetRecordStatus(SaleCtid(s), "FAILED_FINAL") /\ sale[s].status = "PENDING"
  BY DEF MarkSalePaymentFailed
<1> QED BY <1>1, <1>2, <1>3, CloseSale

LEMMA RestKeeps ==
  ASSUME RecordInv, UNCHANGED <<sale, record>>
  PROVE  /\ RecordAgrees' /\ RecordHasSale' /\ SameSales /\ SameRecords
BY DEF RecordInv, RecordAgrees, RecordHasSale, SameSales, SameRecords, SaleCtid

\* With the rows of a step settled, what is left is the requests.
LEMMA KeepRest ==
  ASSUME TypeOK, RecordInv, RecordAgrees', RecordHasSale', SameSales, SameRecords,
         UNCHANGED <<pc, mySale>>
  PROVE  RecordInv'
BY KeepOneSale, KeepPurged, KeepAllOwn DEF RecordInv

LEMMA KeepRequest ==
  ASSUME TypeOK, RecordInv, RecordAgrees', RecordHasSale', SameSales, SameRecords,
         NEW r \in Request, NEW label, Goto(r, label), pc[r] \notin RequestDone,
         \A q \in Request \ {r} : mySale'[q] = mySale[q],
         label \in Claimed => OwnSale(r)',
         label \in {"paid", "ok"} => sale'[mySale'[r]].status = "PAID"
  PROVE  RecordInv'
<1>1. pc'[r] = label /\ \A q \in Request \ {r} : pc'[q] = pc[q]
  BY DEF Goto, TypeOK
<1>2. PurgedIsOver'
  BY <1>1, KeepPurged DEF RecordInv
<1>3. ASSUME NEW q \in Request \ {r}
      PROVE  /\ pc'[q] \in Claimed => OwnSale(q)'
             /\ pc'[q] \in {"paid", "ok"} => sale'[mySale'[q]].status = "PAID"
  <2>1. pc[q] \in {"paid", "ok"} => sale'[mySale[q]].status = "PAID"
    BY DEF RecordInv, RequestsOwn, SameSales, TypeOK
  <2> QED BY <1>1, <2>1, KeepOwn DEF RecordInv
<1>4. RequestsOwn'
  BY <1>1, <1>3 DEF RequestsOwn
<1> QED BY <1>2, <1>4, KeepOneSale DEF RecordInv

LEMMA InitRecordInv == Init => RecordInv
BY DEF Init, RecordInv, RecordAgrees, RecordHasSale, OneSalePerTransaction, SalesOf,
       PurgedIsOver, RequestsOwn, Claimed

\* What a record found by a request tells the request.
LEMMA FoundSale ==
  ASSUME TypeOK, RecordInv, NEW r \in Request, SameFingerprint(r),
         record[payload[r].ctid].status = "COMPLETED"
  PROVE  LET s == record[payload[r].ctid].sale IN
           /\ s \in Sale /\ sale[s].status = "PAID" /\ SaleCtid(s) = payload[r].ctid
           /\ payload[sale[s].req].fp = payload[r].fp
BY PayloadAssumption
   DEF TypeOK, RecordRow, Payload, RecordInv, RecordAgrees, SameFingerprint

LEMMA NextRecordInv == ~LateResend /\ TypeOK /\ RecordInv /\ [Next]_vars => RecordInv'
<1> SUFFICES ASSUME ~LateResend, TypeOK, RecordInv, [Next]_vars PROVE RecordInv'
  OBVIOUS
<1> USE DEF dbVars, requestVars, confirmVars
<1>1. CASE UNCHANGED <<sale, record, pc, mySale>>
  BY <1>1, RestKeeps, KeepRest
<1>2. ASSUME NEW r \in Request, TakeTurn(r) \/ CheckVoucher(r) PROVE RecordInv'
  <2>1. PICK label \in {"turn", "checked", "rejected"} : Goto(r, label)
    BY <1>2 DEF TakeTurn, CheckVoucher
  <2>2. label \notin Claimed /\ UNCHANGED <<sale, record, mySale>> /\ pc[r] \notin RequestDone
    BY <1>2 DEF Claimed, TakeTurn, CheckVoucher, RequestDone
  <2> QED BY <2>1, <2>2, RestKeeps, KeepRequest DEF Claimed
<1>3. ASSUME NEW r \in Request, Lookup(r) \/ ReserveKnown(r) \/ RefuseReserve(r)
      PROVE  RecordInv'
  <2>0. pc[r] \notin RequestDone /\ UNCHANGED <<sale, record>>
    BY <1>3 DEF Lookup, ReserveKnown, RefuseReserve, RequestDone
  <2>1. CASE \E label \in {"rejected", "looked"} : Goto(r, label) /\ UNCHANGED mySale
    BY <2>0, <2>1, RestKeeps, KeepRequest DEF Claimed
  <2>2. ASSUME NEW label \in {"ok", "reserved"}, Goto(r, label), SameFingerprint(r),
               record[payload[r].ctid].status = "COMPLETED",
               mySale' = [mySale EXCEPT ![r] = record[payload[r].ctid].sale]
        PROVE  RecordInv'
    <3>1. /\ mySale'[r] = record[payload[r].ctid].sale
          /\ \A q \in Request \ {r} : mySale'[q] = mySale[q]
      BY <2>2 DEF TypeOK
    <3>2. OwnSale(r)' /\ sale'[mySale'[r]].status = "PAID"
      BY <2>0, <2>2, <3>1, FoundSale DEF OwnSale, SaleCtid
    <3> QED BY <2>0, <2>2, <3>1, <3>2, RestKeeps, KeepRequest
  <2> QED BY <1>3, <2>1, <2>2 DEF Lookup, ReserveKnown, RefuseReserve
<1>4. ASSUME NEW r \in Request, Pay(r) \/ SettleOrphans(r) \/ CrashRequest(r)
      PROVE  RecordInv'
  <2>0. pc[r] \notin RequestDone /\ UNCHANGED <<sale, record, mySale>>
    BY <1>4 DEF Pay, SettleOrphans, CrashRequest, RequestDone
  <2>1. ASSUME pc[r] \in Claimed PROVE OwnSale(r)'
    BY <2>0, <2>1 DEF RecordInv, RequestsOwn, OwnSale, SaleCtid
  <2>2. CASE Pay(r)
    <3>1. PICK label \in {"approved", "declined"} : Goto(r, label)
      BY <2>2 DEF Pay
    <3> QED BY <2>0, <2>1, <2>2, <3>1, RestKeeps, KeepRequest DEF Claimed, Pay
  <2>3. CASE SettleOrphans(r)
    <3>1. sale'[mySale'[r]].status = "PAID" /\ Goto(r, "ok")
      BY <2>0, <2>3 DEF SettleOrphans, RecordInv, RequestsOwn
    <3> QED BY <2>0, <2>1, <2>3, <3>1, RestKeeps, KeepRequest DEF Claimed, SettleOrphans
  <2>4. CASE CrashRequest(r)
    BY <2>0, <2>4, RestKeeps, KeepRequest DEF Claimed, CrashRequest
  <2> QED BY <1>4, <2>2, <2>3, <2>4
<1>5. ASSUME NEW r \in Request, Decline(r) PROVE RecordInv'
  <2>0. /\ pc[r] \notin RequestDone /\ UNCHANGED mySale /\ mySale[r] \in Sale
        /\ Goto(r, "rejected") /\ "FAILED" \in Dead /\ "rejected" \notin Claimed
    BY <1>5 DEF Decline, RequestDone, TypeOK, Dead, Claimed
  <2>1. RecordAgrees' /\ RecordHasSale' /\ SameSales /\ SameRecords
    BY <1>5, <2>0, FailsKeeps, RestKeeps DEF Decline
  <2> QED BY <2>0, <2>1, KeepRequest
<1>6. ASSUME NEW r \in Request, Confirm(r) PROVE RecordInv'
  <2>0. /\ pc[r] = "approved" /\ pc[r] \notin RequestDone /\ UNCHANGED mySale
        /\ mySale[r] \in Sale /\ payload[r].ref \in Reference \cup {NoRef}
    BY <1>6, PayloadAssumption DEF Confirm, RequestDone, TypeOK, Payload
  <2>1. OwnSale(r)
    BY <2>0 DEF RecordInv, RequestsOwn, Claimed
  <2>2. CASE sale[mySale[r]].status = "PENDING" /\ FinalizeSaleAsPaid(mySale[r], payload[r].ref)
                /\ Goto(r, "paid")
    <3>1. /\ RecordAgrees' /\ RecordHasSale' /\ SameSales /\ SameRecords
          /\ sale'[mySale'[r]].status = "PAID"
      BY <2>0, <2>2, PaysKeeps
    <3>2. OwnSale(r)'
      BY <2>0, <2>1, <3>1 DEF OwnSale, SameSales, SaleCtid
    <3> QED BY <2>0, <2>2, <3>1, <3>2, KeepRequest
  <2>3. CASE sale[mySale[r]].status = "PAID" /\ UNCHANGED <<sale, record>> /\ Goto(r, "paid")
    <3>1. OwnSale(r)' /\ sale'[mySale'[r]].status = "PAID"
      BY <2>0, <2>1, <2>3 DEF OwnSale, SaleCtid
    <3> QED BY <2>0, <2>3, <3>1, RestKeeps, KeepRequest
  <2>4. CASE UNCHANGED <<sale, record>> /\ Goto(r, "rejected")
    BY <2>0, <2>4, RestKeeps, KeepRequest DEF Claimed
  <2> QED BY <1>6, <2>2, <2>3, <2>4 DEF Confirm, MarkSalePaid
<1>7. ASSUME NEW c \in Confirmation, ConfirmSeen(c) PROVE RecordInv'
  <2>0. /\ UNCHANGED <<pc, mySale>> /\ seen[c] \in Sale
        /\ confirms[c].ref \in Reference \cup {NoRef}
    BY <1>7, PayloadAssumption DEF ConfirmSeen, TypeOK
  <2>1. RecordAgrees' /\ RecordHasSale' /\ SameSales /\ SameRecords
    BY <1>7, <2>0, PaysKeeps, RestKeeps DEF ConfirmSeen, MarkSalePaid
  <2> QED BY <2>0, <2>1, KeepRest
<1>8. ASSUME NEW s \in Sale, ReaperHandle(s) PROVE RecordInv'
  <2>0. UNCHANGED <<pc, mySale>> /\ "VOIDED" \in Dead
    BY <1>8 DEF ReaperHandle, Dead
  <2>1. RecordAgrees' /\ RecordHasSale' /\ SameSales /\ SameRecords
    BY <1>8, <2>0, FailsKeeps, RestKeeps DEF ReaperHandle
  <2> QED BY <2>0, <2>1, KeepRest
<1>9. ASSUME NEW a \in Alert, Reactivate(a) PROVE RecordInv'
  <2>0. /\ UNCHANGED <<pc, mySale>> /\ alert[a].sale \in Sale
        /\ confirms[a[1]].ref \in Reference \cup {NoRef}
    BY <1>9, PayloadAssumption DEF Reactivate, TypeOK, AlertRow, Alert
  <2>1. RecordAgrees' /\ RecordHasSale' /\ SameSales /\ SameRecords
    BY <1>9, <2>0, PaysKeeps DEF Reactivate
  <2> QED BY <2>0, <2>1, KeepRest
<1>10. ASSUME NEW s \in Sale, Age(s) PROVE RecordInv'
  <2>1. \A z \in Sale : sale'[z].status = sale[z].status /\ sale'[z].req = sale[z].req
    BY <1>10 DEF Age, TypeOK, SaleRow
  <2>2. UNCHANGED <<record, pc, mySale>>
    BY <1>10 DEF Age
  <2>3. \A c \in Ctid : record[c].sale \in Sale
    BY DEF TypeOK, RecordRow
  <2>4. RecordAgrees' /\ RecordHasSale' /\ SameSales /\ SameRecords
    BY <2>1, <2>2, <2>3
       DEF RecordInv, RecordAgrees, RecordHasSale, SameSales, SameRecords, SaleCtid
  <2> QED BY <2>2, <2>4, KeepRest
<1>11. ASSUME NEW c \in Ctid, Purge(c) PROVE RecordInv'
  <2>1. /\ record'[c].status = "NONE" /\ \A d \in Ctid \ {c} : record'[d] = record[d]
        /\ \A r \in Request : payload[r].ctid = c => pc[r] \in RequestDone
        /\ UNCHANGED <<sale, pc, mySale>>
    BY <1>11 DEF Purge, TypeOK, RecordRow
  <2>2. RecordAgrees' /\ RecordHasSale'
    BY <2>1 DEF RecordInv, RecordAgrees, RecordHasSale, SaleCtid
  <2>3. PurgedIsOver'
    BY <2>1 DEF RecordInv, PurgedIsOver, SalesOf, SaleCtid
  <2>4. OneSalePerTransaction' /\ RequestsOwn'
    BY <2>1 DEF RecordInv, OneSalePerTransaction, RequestsOwn, OwnSale, SalesOf, SaleCtid
  <2> QED BY <2>2, <2>3, <2>4 DEF RecordInv
<1>12. ASSUME NEW r \in Request, ReserveNew(r) PROVE RecordInv'
  <2> DEFINE c == payload[r].ctid
  <2>0. c \in Ctid
    BY PayloadAssumption DEF Payload
  <2>1. PICK s \in Sale : CreateSale(r, s)
    BY <1>12 DEF ReserveNew
  <2>2. /\ sale[s].status = "ABSENT" /\ sale'[s].status = "PENDING" /\ sale'[s].req = r
        /\ \A z \in Sale \ {s} : sale'[z] = sale[z]
        /\ record'[c].status = "PENDING" /\ record'[c].sale = s
        /\ \A d \in Ctid \ {c} : record'[d] = record[d]
        /\ mySale'[r] = s /\ pc'[r] = "reserved"
        /\ \A q \in Request \ {r} : mySale'[q] = mySale[q] /\ pc'[q] = pc[q]
    BY <2>0, <2>1 DEF CreateSale, NextSaleId, Goto, TypeOK
  <2>3. record[c].status = "NONE" /\ pc[r] = "looked"
    BY <1>12 DEF ReserveNew, Known
  <2>4. SalesOf(c) = {}
    BY <2>0, <2>3 DEF RecordInv, PurgedIsOver, RequestDone
  <2>5. \A d \in Ctid : record[d].status # "NONE" =>
          record[d].sale \in Sale \ {s} /\ SaleCtid(record[d].sale)' = d
    BY <2>2 DEF RecordInv, RecordAgrees, RecordHasSale, SaleCtid, TypeOK, RecordRow
  <2>6. SaleCtid(s)' = c
    BY <2>2 DEF SaleCtid
  <2>7. RecordAgrees' /\ RecordHasSale'
    BY <2>2, <2>5, <2>6 DEF RecordInv, RecordAgrees, RecordHasSale, Dead
  <2>8. SalesOf(c)' = {s} /\ \A d \in Ctid \ {c} : SalesOf(d)' = SalesOf(d)
    BY <2>2, <2>4, <2>6 DEF SalesOf, SaleCtid
  <2>9. OneSalePerTransaction'
    BY <2>8 DEF RecordInv, OneSalePerTransaction
  <2>10. PurgedIsOver'
    BY <2>2, <2>3, <2>8 DEF RecordInv, PurgedIsOver, RequestDone
  <2>11. RequestsOwn'
    <3>1. OwnSale(r)'
      BY <2>2, <2>6 DEF OwnSale
    <3>2. ASSUME NEW q \in Request \ {r}, pc[q] \in Claimed
          PROVE  OwnSale(q)' /\ sale'[mySale[q]] = sale[mySale[q]]
      <4>1. OwnSale(q)
        BY <3>2 DEF RecordInv, RequestsOwn
      <4>2. mySale[q] \in Sale \ {s}
        BY <2>2, <4>1 DEF OwnSale, TypeOK
      <4> QED BY <2>2, <4>1, <4>2 DEF OwnSale, SaleCtid
    <3> QED BY <2>2, <3>1, <3>2 DEF RecordInv, RequestsOwn, Claimed
  <2> QED BY <2>7, <2>9, <2>10, <2>11 DEF RecordInv
<1>13. ASSUME NEW t \in Turn, OpenTurn(t) \/ CloseTurn(t)
       PROVE  UNCHANGED <<sale, record, pc, mySale>>
  BY <1>13 DEF OpenTurn, CloseTurn
<1>14. ASSUME NEW c \in Confirmation,
              LookupSale(c) \/ EnqueueOrphan(c) \/ SettleOrphansSeen(c) \/ RaiseAlert(c)
                \/ CrashConfirmation(c)
       PROVE  UNCHANGED <<sale, record, pc, mySale>>
  BY <1>14 DEF LookupSale, EnqueueOrphan, SettleOrphansSeen, RaiseAlert, CrashConfirmation
<1>15. ASSUME NEW a \in Alert, SettleWithoutSale(a)
       PROVE  UNCHANGED <<sale, record, pc, mySale>>
  BY <1>15 DEF SettleWithoutSale
<1>16. ASSUME ReaperScan \/ ReaperCrash PROVE UNCHANGED <<sale, record, pc, mySale>>
  BY <1>16 DEF ReaperScan, ReaperCrash
<1>17. UNCHANGED vars => UNCHANGED <<sale, record, pc, mySale>>
  BY DEF vars
<1> QED
  BY <1>1, <1>2, <1>3, <1>4, <1>5, <1>6, <1>7, <1>8, <1>9, <1>10, <1>11, <1>12, <1>13,
     <1>14, <1>15, <1>16, <1>17
     DEF Next, RequestStep, ConfirmStep

\* Unless a request outlives the purge of its record, one transaction has one
\* sale, its record agrees with it, and a request is answered "ok" only with a
\* paid sale of its own transaction and cart.
THEOREM Idempotent ==
  ASSUME ~LateResend
  PROVE  Spec => [](RecordAgrees /\ OneSalePerTransaction /\ AnswerIsTrue)
<1>1. TypeOK /\ RecordInv => AnswerIsTrue
  BY FingerprintAssumption
     DEF RecordInv, RequestsOwn, OwnSale, Claimed, AnswerIsTrue, Cart, TypeOK, SaleRow
<1>2. Spec => [](TypeOK /\ RecordInv)
  BY InitTypeOK, NextTypeOK, InitRecordInv, NextRecordInv, PTL DEF Spec
<1>3. RecordInv => RecordAgrees /\ OneSalePerTransaction
  BY DEF RecordInv
<1> QED BY <1>1, <1>2, <1>3, PTL

\* The parts of Idempotent on their own: the record of a transaction never
\* disagrees with its sale (resolve_idempotency_record and its callers), ...
COROLLARY RecordsAgree == ASSUME ~LateResend PROVE Spec => []RecordAgrees
BY Idempotent, PTL

\* ... and no request is told "ok" of a sale that is unpaid or not its own.
COROLLARY AnswersTrue == ASSUME ~LateResend PROVE Spec => []AnswerIsTrue
BY Idempotent, PTL

----------------------------------------------------------------------------
(* A resend is answered *)

Moves(r) == TakeTurn(r) \/ RequestStep(r) \/ CrashRequest(r)

LEMMA OnlyRequestsMove == [Next]_vars => UNCHANGED pc \/ \E r \in Request : Moves(r)
<1> SUFFICES ASSUME [Next]_vars PROVE UNCHANGED pc \/ \E r \in Request : Moves(r)
  OBVIOUS
<1> USE DEF dbVars, requestVars, confirmVars
<1>1. ASSUME NEW c \in Confirmation, LookupSale(c) \/ ConfirmStep(c) \/ CrashConfirmation(c)
      PROVE  UNCHANGED pc
  BY <1>1 DEF ConfirmStep, LookupSale, EnqueueOrphan, ConfirmSeen, SettleOrphansSeen,
              RaiseAlert, CrashConfirmation
<1>2. ASSUME NEW s \in Sale, ReaperHandle(s) \/ Age(s) PROVE UNCHANGED pc
  BY <1>2 DEF ReaperHandle, Age
<1>3. ASSUME NEW a \in Alert, Reactivate(a) \/ SettleWithoutSale(a) PROVE UNCHANGED pc
  BY <1>3 DEF Reactivate, SettleWithoutSale
<1>4. ASSUME NEW t \in Turn, OpenTurn(t) \/ CloseTurn(t) PROVE UNCHANGED pc
  BY <1>4 DEF OpenTurn, CloseTurn
<1>5. ASSUME NEW c \in Ctid, Purge(c) PROVE UNCHANGED pc
  BY <1>5 DEF Purge
<1>6. ReaperScan \/ ReaperCrash \/ UNCHANGED vars => UNCHANGED pc
  BY DEF ReaperScan, ReaperCrash, vars
<1> QED BY <1>1, <1>2, <1>3, <1>4, <1>5, <1>6 DEF Next, Moves

LEMMA NewIsReserved == ASSUME NEW r \in Request, ReserveNew(r) PROVE Goto(r, "reserved")
<1>1. PICK s \in Sale : CreateSale(r, s)
  BY DEF ReserveNew
<1> QED BY <1>1 DEF CreateSale

\* Only a card is checked for its voucher, and only a card is declined.
CardSteps == \A r \in Request : pc[r] \in {"turn", "declined"} => payload[r].method = "TARJETA"

LEMMA NextCardSteps == TypeOK /\ CardSteps /\ [Next]_vars => CardSteps'
<1> SUFFICES ASSUME TypeOK, CardSteps, [Next]_vars PROVE CardSteps'
  OBVIOUS
<1>1. CASE UNCHANGED pc
  BY <1>1 DEF CardSteps
<1>2. ASSUME NEW r \in Request, NEW label, Goto(r, label),
             label \in {"turn", "declined"} => payload[r].method = "TARJETA"
      PROVE  CardSteps'
  BY <1>2 DEF CardSteps, Goto, TypeOK
<1>3. ASSUME NEW r \in Request, Moves(r) PROVE CardSteps'
  <2>1. PICK label : /\ Goto(r, label)
                     /\ label \in {"turn", "declined"} => payload[r].method = "TARJETA"
    <3>1. CASE TakeTurn(r) \/ CheckVoucher(r) \/ Lookup(r)
      BY <3>1 DEF TakeTurn, CheckVoucher, Lookup
    <3>2. CASE ReserveNew(r) \/ ReserveKnown(r) \/ RefuseReserve(r)
      BY <3>2, NewIsReserved DEF ReserveKnown, RefuseReserve
    <3>3. CASE Pay(r) \/ Decline(r) \/ Confirm(r)
      BY <3>3 DEF Pay, Decline, Confirm
    <3>4. CASE SettleOrphans(r) \/ CrashRequest(r)
      BY <3>4 DEF SettleOrphans, CrashRequest
    <3> QED BY <1>3, <3>1, <3>2, <3>3, <3>4 DEF Moves, RequestStep
  <2> QED BY <1>2, <2>1
<1> QED BY <1>1, <1>3, OnlyRequestsMove

\* A request that is not of a card is refused only for want of an open turn, at
\* its first step, or when its transaction is not completed with its cart: where
\* its own sale failed, the record failed with it.
LEMMA RefusedIsOpen ==
  ASSUME TypeOK, RecordInv, CardSteps, [Next]_vars,
         NEW r \in Request, payload[r].method # "TARJETA", Refused(r)
  PROVE  ~Recoverable(r) \/ (pc[r] = "idle" /\ \A t \in Turn : turn[t] # "OPEN")
<1> pc \in [Request -> RequestPc]
  BY DEF TypeOK
<1>1. /\ pc'[r] = "rejected" /\ pc[r] \notin RequestDone
      /\ pc[r] \notin {"turn", "declined"}
  BY DEF Refused, CardSteps
<1>2. PICK q \in Request : Moves(q)
  BY <1>1, OnlyRequestsMove DEF RequestDone
<1>3. ASSUME NEW label, Goto(q, label) PROVE q = r /\ label = "rejected"
  BY <1>1, <1>3 DEF Goto, RequestDone
<1>4. CASE CheckVoucher(q) \/ Pay(q) \/ Decline(q)
  BY <1>1, <1>3, <1>4 DEF CheckVoucher, Pay, Decline
<1>5. CASE Lookup(q) \/ RefuseReserve(q)
  BY <1>3, <1>5 DEF Lookup, RefuseReserve, Recoverable
<1>6. CASE ReserveNew(q) \/ ReserveKnown(q) \/ SettleOrphans(q) \/ CrashRequest(q)
  BY <1>3, <1>6, NewIsReserved DEF ReserveKnown, SettleOrphans, CrashRequest
<1>7. CASE Confirm(q)
  <2>1. q = r /\ pc[r] = "approved" /\ sale[mySale[r]].status \in Dead
    BY <1>3, <1>7 DEF Confirm
  <2>2. OwnSale(r)
    BY <2>1 DEF RecordInv, RequestsOwn, Claimed
  <2>3. SUFFICES ASSUME Recoverable(r) PROVE FALSE
    OBVIOUS
  <2>4. LET s == record[payload[r].ctid].sale IN
          s \in Sale /\ sale[s].status = "PAID" /\ SaleCtid(s) = payload[r].ctid
    BY <2>3, FoundSale DEF Recoverable
  <2>5. record[payload[r].ctid].sale = mySale[r]
    BY <2>2, <2>4, PayloadAssumption
       DEF OwnSale, RecordInv, OneSalePerTransaction, SalesOf, TypeOK, Payload
  <2> QED BY <2>1, <2>4, <2>5 DEF Dead
<1>8. CASE TakeTurn(q)
  BY <1>3, <1>8 DEF TakeTurn
<1> QED BY <1>2, <1>4, <1>5, <1>6, <1>7, <1>8 DEF Moves, RequestStep

\* A resent cash or transfer request whose transaction was completed with its
\* cart is refused only while the cashier has no open turn, which register_sale
\* asks for before it looks the transaction up; at every later step it gets the
\* sale (_get_completed_idempotent_sale, _reserve_sale).
THEOREM CashResend ==
  ASSUME ~LateResend
  PROVE  Spec => CashResendRecovers
<1>1. Init => CardSteps
  BY DEF Init, CardSteps
<1>2. TypeOK /\ RecordInv /\ CardSteps /\ [Next]_vars =>
        [\A r \in Request : payload[r].method # "TARJETA" /\ Refused(r) =>
           \/ ~Recoverable(r)
           \/ pc[r] = "idle" /\ \A t \in Turn : turn[t] # "OPEN"]_vars
  BY RefusedIsOpen
<1> QED
  BY <1>1, <1>2, InitTypeOK, NextTypeOK, InitRecordInv, NextRecordInv, NextCardSteps, PTL
     DEF Spec, CashResendRecovers
=============================================================================
