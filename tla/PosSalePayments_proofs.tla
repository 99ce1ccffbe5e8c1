----------------------- MODULE PosSalePayments_proofs -----------------------
(***************************************************************************)
(* Theorems about the payments of PosSale: the confirmations that come     *)
(* early, in time or late, and the alerts they raise.  For every set of    *)
(* requests and confirmations and every bound.                             *)
(*                                                                         *)
(* PaidInv says what a handler that has seen its sale paid relies on;      *)
(* AlertInv what an alert knows of its sale: it failed, or another alert   *)
(* about it revived it with its own payment.                               *)
(***************************************************************************)
EXTENDS PosSale_proofs

(* What no step does to a row *)

\* A sale that exists keeps the request it came from.
LEMMA SaleKept ==
  ASSUME TypeOK, [Next]_vars, NEW s \in Sale, sale[s].status # "ABSENT"
  PROVE  sale'[s].status # "ABSENT" /\ sale'[s].req = sale[s].req
<1> sale \in [Sale -> SaleRow]
  BY DEF TypeOK
<1>1. CASE SalesAlone
  BY <1>1 DEF SalesAlone
<1>2. ASSUME NEW r \in Request, NEW z \in Sale, Creates(r, z)
      PROVE  sale'[s].status # "ABSENT" /\ sale'[s].req = sale[s].req
  BY <1>2 DEF Creates, CreateSale, NextSaleId
<1>3. ASSUME NEW z \in Sale, NEW ref \in Reference \cup {NoRef}, FinalizeSaleAsPaid(z, ref)
      PROVE  sale'[s].status # "ABSENT" /\ sale'[s].req = sale[s].req
  BY <1>3, PaidRowType DEF FinalizeSaleAsPaid
<1>4. ASSUME NEW z \in Sale, NEW status \in Dead, Fails(z, status)
      PROVE  sale'[s].status # "ABSENT" /\ sale'[s].req = sale[s].req
  BY <1>4, UnpaidRowType DEF Fails, MarkSalePaymentFailed, Dead
<1>5. ASSUME NEW a \in Alert, Reactivate(a)
      PROVE  sale'[s].status # "ABSENT" /\ sale'[s].req = sale[s].req
  <2>1. alert[a].sale \in Sale /\ confirms[a[1]].ref \in Reference \cup {NoRef}
    BY PayloadAssumption DEF TypeOK, AlertRow, Alert
  <2> QED BY <1>3, <1>5, <2>1 DEF Reactivate
<1>6. ASSUME NEW z \in Sale, Age(z)
      PROVE  sale'[s].status # "ABSENT" /\ sale'[s].req = sale[s].req
  BY <1>6 DEF Age, SaleRow
<1> QED BY <1>1, <1>2, <1>3, <1>4, <1>5, <1>6, StepKinds DEF Pays

\* Only a reservation creates a sale.
LEMMA CreatedBy ==
  ASSUME TypeOK, [Next]_vars, NEW s \in Sale, sale[s].status = "ABSENT",
         sale'[s].status # "ABSENT"
  PROVE  \E r \in Request : Creates(r, s)
<1> sale \in [Sale -> SaleRow]
  BY DEF TypeOK
<1>1. CASE SalesAlone
  BY <1>1 DEF SalesAlone
<1>2. ASSUME NEW r \in Request, NEW z \in Sale, Creates(r, z) PROVE Creates(r, s)
  BY <1>2 DEF Creates, CreateSale
<1>3. ASSUME NEW z \in Sale, NEW ref \in Reference \cup {NoRef}, Pays(z, ref) PROVE FALSE
  BY <1>3 DEF Pays, FinalizeSaleAsPaid
<1>4. ASSUME NEW z \in Sale, NEW status \in Dead, Fails(z, status) PROVE FALSE
  BY <1>4 DEF Fails, MarkSalePaymentFailed
<1>5. ASSUME NEW a \in Alert, Reactivate(a) PROVE FALSE
  BY <1>5 DEF Reactivate, FinalizeSaleAsPaid, Dead
<1>6. ASSUME NEW z \in Sale, Age(z) PROVE FALSE
  BY <1>6 DEF Age, SaleRow
<1> QED BY <1>1, <1>2, <1>3, <1>4, <1>5, <1>6, StepKinds

\* An orphan once in the inbox stays there, and is resolved by a handler that
\* has seen the sale of its transaction paid.
LEMMA OrphanStep ==
  ASSUME TypeOK, [Next]_vars, NEW o \in Ctid \X Reference
  PROVE  /\ orphan[o] # "NONE" => orphan'[o] # "NONE"
         /\ orphan[o] # "RESOLVED" /\ orphan'[o] = "RESOLVED" =>
              \/ \E r \in Request : pc[r] = "paid" /\ o[1] = SaleCtid(mySale[r])
              \/ \E c \in Confirmation : cpc[c] = "paid" /\ o[1] = SaleCtid(seen[c])
<1> DEFINE Kept == /\ orphan[o] # "NONE" => orphan'[o] # "NONE"
                   /\ orphan[o] # "RESOLVED" /\ orphan'[o] = "RESOLVED" =>
                        \/ \E r \in Request : pc[r] = "paid" /\ o[1] = SaleCtid(mySale[r])
                        \/ \E c \in Confirmation : cpc[c] = "paid" /\ o[1] = SaleCtid(seen[c])
<1>1. orphan' = orphan => Kept
  OBVIOUS
<1>2. ASSUME NEW s \in Sale, NEW S \in SUBSET PendingOrphansOf(s), ResolveOrphans(S)
      PROVE  /\ orphan[o] # "NONE" => orphan'[o] # "NONE"
             /\ orphan[o] # "RESOLVED" /\ orphan'[o] = "RESOLVED" => o[1] = SaleCtid(s)
  BY <1>2 DEF ResolveOrphans, PendingOrphansOf
<1>3. ASSUME NEW r \in Request, SettleOrphans(r) \/ CrashRequest(r) PROVE Kept
  <2>1. mySale[r] \in Sale
    BY DEF TypeOK
  <2> QED BY <1>1, <1>2, <1>3, <2>1 DEF SettleOrphans, CrashRequest
<1>4. ASSUME NEW c \in Confirmation, SettleOrphansSeen(c) \/ CrashConfirmation(c) PROVE Kept
  <2>1. seen[c] \in Sale
    BY DEF TypeOK
  <2> QED BY <1>1, <1>2, <1>4, <2>1 DEF SettleOrphansSeen, CrashConfirmation
<1>5. ASSUME NEW c \in Confirmation, EnqueueOrphan(c) PROVE Kept
  BY <1>5 DEF EnqueueOrphan, TypeOK
<1>6. ASSUME NEW r \in Request,
             TakeTurn(r) \/ CheckVoucher(r) \/ Lookup(r) \/ ReserveNew(r) \/ ReserveKnown(r)
               \/ RefuseReserve(r) \/ Pay(r) \/ Decline(r) \/ Confirm(r)
      PROVE  orphan' = orphan
  BY <1>6 DEF TakeTurn, CheckVoucher, Lookup, ReserveNew, CreateSale, ReserveKnown,
              RefuseReserve, Pay, Decline, Confirm, dbVars
<1>7. ASSUME NEW c \in Confirmation, LookupSale(c) \/ ConfirmSeen(c) \/ RaiseAlert(c)
      PROVE  orphan' = orphan
  BY <1>7 DEF LookupSale, ConfirmSeen, RaiseAlert, dbVars
<1>8. ASSUME NEW a \in Alert, Reactivate(a) \/ SettleWithoutSale(a) PROVE orphan' = orphan
  BY <1>8 DEF Reactivate, SettleWithoutSale
<1>9. \/ \E t \in Turn : OpenTurn(t) \/ CloseTurn(t)
      \/ \E s \in Sale : Age(s) \/ ReaperHandle(s)
      \/ ReaperScan \/ ReaperCrash
      \/ \E c \in Ctid : Purge(c)
      \/ UNCHANGED vars
      => orphan' = orphan
  BY DEF OpenTurn, CloseTurn, Age, ReaperHandle, ReaperScan, ReaperCrash, Purge, vars, dbVars
<1> HIDE DEF Kept
<1>10. Kept
  BY <1>1, <1>3, <1>4, <1>5, <1>6, <1>7, <1>8, <1>9 DEF Next, RequestStep, ConfirmStep
<1> QED BY <1>10 DEF Kept

----------------------------------------------------------------------------
(* What a handler knows of its sale *)

\* A request or a confirmation that has seen its sale paid is right, for ever;
\* a confirmation that came has a number.
PaidInv ==
  /\ \A r \in Request : pc[r] = "paid" => sale[mySale[r]].status = "PAID"
  /\ \A c \in Confirmation :
       /\ cpc[c] \in {"paid", "confirmed", "already"} => sale[seen[c]].status = "PAID"
       /\ cpc[c] # "idle" => delivery[c] \in 1..MaxDeliveries
       /\ cpc[c] = "orphaned" => orphan[<<confirms[c].ctid, confirms[c].ref>>] # "NONE"
  /\ ResolvedOrphanIsPaid

\* What a step does to the requests that have seen their sale paid.
LEMMA RequestStepPaid ==
  ASSUME TypeOK, PaidInv, [Next]_vars, NEW r \in Request, pc'[r] = "paid"
  PROVE  sale'[mySale'[r]].status = "PAID"
<1> USE DEF dbVars, requestVars, confirmVars
<1> pc \in [Request -> RequestPc] /\ mySale \in [Request -> Sale]
  BY DEF TypeOK
<1>1. CASE pc[r] = "paid" /\ mySale'[r] = mySale[r]
  BY <1>1, PaidStep DEF PaidInv
<1>2. ASSUME NEW q \in Request, Confirm(q)
      PROVE  sale'[mySale'[r]].status = "PAID" \/ (pc[r] = "paid" /\ mySale'[r] = mySale[r])
  <2>1. CASE q = r
    <3>1. mySale' = mySale /\ MarkSalePaid(mySale[r], payload[r].ref)
      BY <1>2, <2>1 DEF Confirm, Goto
    <3>2. payload[r].ref \in Reference \cup {NoRef}
      BY PayloadAssumption DEF Payload
    <3> QED BY <3>1, <3>2, PaidRowType DEF MarkSalePaid, FinalizeSaleAsPaid, TypeOK
  <2>2. CASE q # r
    BY <1>2, <2>2 DEF Confirm, Goto
  <2> QED BY <2>1, <2>2
<1>3. ASSUME NEW q \in Request,
             TakeTurn(q) \/ CheckVoucher(q) \/ Lookup(q) \/ ReserveNew(q) \/ ReserveKnown(q)
      PROVE  pc[r] = "paid" /\ mySale'[r] = mySale[r]
  BY <1>3 DEF TakeTurn, CheckVoucher, Lookup, ReserveNew, CreateSale, ReserveKnown, Goto
<1>4. ASSUME NEW q \in Request,
             RefuseReserve(q) \/ Pay(q) \/ Decline(q) \/ SettleOrphans(q) \/ CrashRequest(q)
      PROVE  pc[r] = "paid" /\ mySale'[r] = mySale[r]
  BY <1>4 DEF RefuseReserve, Pay, Decline, SettleOrphans, CrashRequest, Goto
<1>5. ASSUME NEW c \in Confirmation, LookupSale(c) \/ ConfirmStep(c) \/ CrashConfirmation(c)
      PROVE  UNCHANGED <<pc, mySale>>
  BY <1>5 DEF LookupSale, ConfirmStep, EnqueueOrphan, ConfirmSeen, SettleOrphansSeen,
              RaiseAlert, CrashConfirmation
<1>6. \/ \E t \in Turn : OpenTurn(t) \/ CloseTurn(t)
      \/ \E s \in Sale : Age(s) \/ ReaperHandle(s)
      \/ ReaperScan \/ ReaperCrash
      \/ \E c \in Ctid : Purge(c)
      \/ \E a \in Alert : Reactivate(a) \/ SettleWithoutSale(a)
      \/ UNCHANGED vars
      => UNCHANGED <<pc, mySale>>
  BY DEF OpenTurn, CloseTurn, Age, ReaperHandle, ReaperScan, ReaperCrash, Purge, Reactivate,
         SettleWithoutSale, vars
<1> QED BY <1>1, <1>2, <1>3, <1>4, <1>5, <1>6 DEF Next, RequestStep

\* What a step does to a confirmation.
LEMMA ConfirmationStep ==
  ASSUME TypeOK, [Next]_vars, NEW c \in Confirmation
  PROVE  \/ cpc'[c] = cpc[c] /\ seen'[c] = seen[c] /\ delivery'[c] = delivery[c]
         \/ LookupSale(c) \/ ConfirmStep(c)
         \/ /\ cpc'[c] = "crashed" /\ delivery'[c] = delivery[c]
            /\ cpc[c] \notin {"idle"} \cup ConfirmDone
<1> USE DEF dbVars, requestVars, confirmVars
<1> cpc \in [Confirmation -> ConfirmPc]
  BY DEF TypeOK
<1>1. ASSUME NEW d \in Confirmation, LookupSale(d) \/ ConfirmStep(d), d # c
      PROVE  cpc'[c] = cpc[c] /\ seen'[c] = seen[c] /\ delivery'[c] = delivery[c]
  BY <1>1 DEF LookupSale, ConfirmStep, EnqueueOrphan, ConfirmSeen, SettleOrphansSeen,
              RaiseAlert, CGoto, TypeOK
<1>2. ASSUME NEW d \in Confirmation, CrashConfirmation(d)
      PROVE  \/ cpc'[c] = cpc[c] /\ seen'[c] = seen[c] /\ delivery'[c] = delivery[c]
             \/ /\ cpc'[c] = "crashed" /\ delivery'[c] = delivery[c]
                /\ cpc[c] \notin {"idle"} \cup ConfirmDone
  BY <1>2 DEF CrashConfirmation, CGoto, TypeOK
<1>3. ASSUME NEW r \in Request, TakeTurn(r) \/ RequestStep(r) \/ CrashRequest(r)
      PROVE  UNCHANGED <<cpc, seen, delivery>>
  BY <1>3 DEF TakeTurn, RequestStep, CheckVoucher, Lookup, ReserveNew, CreateSale,
              ReserveKnown, RefuseReserve, Pay, Decline, Confirm, SettleOrphans, CrashRequest
<1>4. \/ \E t \in Turn : OpenTurn(t) \/ CloseTurn(t)
      \/ \E s \in Sale : Age(s) \/ ReaperHandle(s)
      \/ ReaperScan \/ ReaperCrash
      \/ \E d \in Ctid : Purge(d)
      \/ \E a \in Alert : Reactivate(a) \/ SettleWithoutSale(a)
      \/ UNCHANGED vars
      => UNCHANGED <<cpc, seen, delivery>>
  BY DEF OpenTurn, CloseTurn, Age, ReaperHandle, ReaperScan, ReaperCrash, Purge, Reactivate,
         SettleWithoutSale, vars
<1> QED BY <1>1, <1>2, <1>3, <1>4 DEF Next

LEMMA NextPaidInv == TypeOK /\ PaidInv /\ [Next]_vars => PaidInv'
<1> SUFFICES ASSUME TypeOK, PaidInv, [Next]_vars PROVE PaidInv'
  OBVIOUS
<1>1. \A r \in Request : pc'[r] = "paid" => sale'[mySale'[r]].status = "PAID"
  BY RequestStepPaid
<1>2. ASSUME NEW c \in Confirmation
      PROVE  /\ cpc'[c] \in {"paid", "confirmed", "already"} => sale'[seen'[c]].status = "PAID"
             /\ cpc'[c] # "idle" => delivery'[c] \in 1..MaxDeliveries
             /\ cpc'[c] = "orphaned" => orphan'[<<confirms[c].ctid, confirms[c].ref>>] # "NONE"
  <2> /\ sale \in [Sale -> SaleRow] /\ cpc \in [Confirmation -> ConfirmPc]
      /\ seen \in [Confirmation -> Sale] /\ delivery \in [Confirmation -> 0..MaxDeliveries]
    BY DEF TypeOK
  <2> DEFINE o == <<confirms[c].ctid, confirms[c].ref>>
  <2>0. o \in Ctid \X Reference
    BY PayloadAssumption
  <2> HIDE DEF o
  <2>1. CASE cpc'[c] = cpc[c] /\ seen'[c] = seen[c] /\ delivery'[c] = delivery[c]
    <3>1. cpc'[c] \in {"paid", "confirmed", "already"} => sale'[seen'[c]].status = "PAID"
      BY <2>1, PaidStep DEF PaidInv
    <3>2. cpc'[c] = "orphaned" => orphan'[o] # "NONE"
      BY <2>0, <2>1, OrphanStep DEF PaidInv, o
    <3> QED BY <2>1, <3>1, <3>2 DEF PaidInv, o
  <2>2. CASE LookupSale(c)
    <3>1. delivery'[c] \in 1..MaxDeliveries
      BY <2>2, BoundsAssumption DEF LookupSale
    <3>2. sale' = sale
      BY <2>2 DEF LookupSale, dbVars
    <3>3. \/ cpc'[c] = "absent"
          \/ \E s \in Sale : /\ seen'[c] = s /\ sale[s].status # "ABSENT"
                             /\ cpc'[c] = LabelOf(sale[s].status)
      BY <2>2 DEF LookupSale, CGoto, SalesOf
    <3>4. ASSUME NEW s \in Sale, sale[s].status # "ABSENT"
          PROVE  /\ LabelOf(sale[s].status) \in {"already", "pending", "late"}
                 /\ LabelOf(sale[s].status) = "already" => sale[s].status = "PAID"
      BY <3>4 DEF LabelOf, SaleRow, Live, Dead
    <3> QED BY <3>1, <3>2, <3>3, <3>4
  <2>3. CASE ConfirmStep(c)
    <3>1. delivery' = delivery /\ seen' = seen /\ cpc[c] # "idle"
      BY <2>3 DEF ConfirmStep, EnqueueOrphan, ConfirmSeen, SettleOrphansSeen, RaiseAlert
    <3>2. CASE EnqueueOrphan(c)
      <4>1. cpc'[c] = "orphaned" /\ orphan' = [orphan EXCEPT ![o] = IF @ = "NONE" THEN "PENDING" ELSE @]
        BY <3>2 DEF EnqueueOrphan, CGoto, o
      <4>2. orphan'[o] # "NONE"
        BY <2>0, <4>1 DEF TypeOK
      <4> QED BY <3>1, <4>1, <4>2 DEF PaidInv, o
    <3>3. CASE ConfirmSeen(c)
      <4>1. CASE MarkSalePaid(seen[c], confirms[c].ref) /\ cpc'[c] = "paid"
        <5>1. sale'[seen[c]].status = "PAID"
          BY <4>1, PayloadAssumption, PaidRowType DEF MarkSalePaid, FinalizeSaleAsPaid
        <5> QED BY <3>1, <4>1, <5>1 DEF PaidInv
      <4>2. CASE cpc'[c] = "rejected"
        BY <3>1, <4>2 DEF PaidInv
      <4> QED BY <3>3, <4>1, <4>2 DEF ConfirmSeen, CGoto
    <3>4. CASE SettleOrphansSeen(c)
      <4>1. cpc[c] = "paid" /\ cpc'[c] = "confirmed" /\ sale' = sale
        BY <3>4 DEF SettleOrphansSeen, CGoto
      <4> QED BY <3>1, <4>1 DEF PaidInv
    <3>5. CASE RaiseAlert(c)
      <4>1. cpc'[c] = "alerted"
        BY <3>5 DEF RaiseAlert, CGoto
      <4> QED BY <3>1, <4>1 DEF PaidInv
    <3> QED BY <2>3, <3>2, <3>3, <3>4, <3>5 DEF ConfirmStep
  <2>4. CASE cpc'[c] = "crashed" /\ delivery'[c] = delivery[c] /\ cpc[c] # "idle"
    BY <2>4 DEF PaidInv
  <2> QED BY <2>1, <2>2, <2>3, <2>4, ConfirmationStep
<1>3. ResolvedOrphanIsPaid'
  <2> SUFFICES ASSUME NEW o \in Ctid \X Reference, orphan'[o] = "RESOLVED"
               PROVE  \E s \in Sale : /\ sale'[s].status = "PAID"
                                      /\ payload[sale'[s].req].ctid = o[1]
    BY DEF ResolvedOrphanIsPaid, SalesOf, SaleCtid
  <2>1. \E s \in Sale : sale[s].status = "PAID" /\ SaleCtid(s) = o[1]
    <3>1. CASE orphan[o] = "RESOLVED"
      BY <3>1 DEF PaidInv, ResolvedOrphanIsPaid, SalesOf
    <3>2. CASE orphan[o] # "RESOLVED"
      BY <3>2, OrphanStep DEF PaidInv, TypeOK
    <3> QED BY <3>1, <3>2
  <2> PICK s \in Sale : sale[s].status = "PAID" /\ SaleCtid(s) = o[1]
    BY <2>1
  <2>2. sale'[s].status = "PAID" /\ sale'[s].req = sale[s].req
    BY SaleKept, PaidStep
  <2> QED BY <2>2 DEF SaleCtid
<1> QED BY <1>1, <1>2, <1>3 DEF PaidInv

LEMMA InitPaidInv == Init => PaidInv
BY DEF Init, PaidInv, ResolvedOrphanIsPaid

LEMMA PaidInvAlways == Spec => [](TypeOK /\ PaidInv)
BY InitTypeOK, NextTypeOK, InitPaidInv, NextPaidInv, PTL DEF Spec

\* An early confirmation leaves the inbox only for a sale of its transaction
\* that is paid, however many handlers settle, or die while they settle, the
\* orphans of one transaction.
THEOREM OrphansArePaid == Spec => []ResolvedOrphanIsPaid
<1>1. PaidInv => ResolvedOrphanIsPaid
  BY DEF PaidInv
<1> QED BY <1>1, PaidInvAlways, PTL

----------------------------------------------------------------------------
(* What an alert knows of its sale *)

\* A sale that failed, or that an alert about it revived with its payment.
FailedOrRevived(s) ==
  \/ sale[s].status \in Dead
  \/ /\ sale[s].status = "PAID"
     /\ \E b \in Alert : /\ alert[b].state = "REACTIVATE_SALE" /\ alert[b].sale = s
                         /\ sale[s].ref = confirms[b[1]].ref

Late(c, s) ==
  sale[s].status # "ABSENT" /\ SaleCtid(s) = confirms[c].ctid /\ FailedOrRevived(s)

\* An alert is raised by the last delivery of its confirmation at the latest,
\* about the sale that it saw too late.
AlertInv ==
  /\ \A c \in Confirmation :
       /\ \A n \in 1..MaxDeliveries : alert[<<c, n>>].state # "ABSENT" =>
            n <= delivery[c] /\ (n = delivery[c] => cpc[c] = "alerted")
       /\ cpc[c] = "alerted" => /\ alert[<<c, delivery[c]>>].state # "ABSENT"
                                /\ alert[<<c, delivery[c]>>].sale = seen[c]
       /\ cpc[c] = "late" => Late(c, seen[c])
  /\ \A a \in Alert : alert[a].state # "ABSENT" => Late(a[1], alert[a].sale)

\* An alert stays as it is, is resolved, or is raised.
LEMMA AlertStep ==
  ASSUME TypeOK, [Next]_vars, NEW a \in Alert
  PROVE  \/ alert'[a] = alert[a]
         \/ /\ alert[a].state = "OPEN" /\ alert'[a].state \in Resolution
            /\ alert'[a].sale = alert[a].sale
         \/ /\ RaiseAlert(a[1]) /\ a[2] = delivery[a[1]]
            /\ alert'[a].state = "OPEN" /\ alert'[a].sale = seen[a[1]]
<1> USE DEF dbVars, requestVars, confirmVars
<1> alert \in [Alert -> AlertRow]
  BY DEF TypeOK
<1>1. ASSUME NEW b \in Alert, Reactivate(b) \/ SettleWithoutSale(b)
      PROVE  \/ alert'[a] = alert[a]
             \/ /\ alert[a].state = "OPEN" /\ alert'[a].state \in Resolution
                /\ alert'[a].sale = alert[a].sale
  <2> PICK state \in Resolution : alert' = [alert EXCEPT ![b].state = state]
    BY <1>1 DEF Reactivate, SettleWithoutSale, Resolution
  <2>1. alert[b].state = "OPEN"
    BY <1>1 DEF Reactivate, SettleWithoutSale, Unresolved
  <2> QED BY <2>1 DEF AlertRow
<1>2. ASSUME NEW c \in Confirmation, RaiseAlert(c)
      PROVE  \/ alert'[a] = alert[a]
             \/ /\ c = a[1] /\ a[2] = delivery[c]
                /\ alert'[a].state = "OPEN" /\ alert'[a].sale = seen[c]
  BY <1>2 DEF RaiseAlert
<1>3. ASSUME NEW c \in Confirmation,
             LookupSale(c) \/ EnqueueOrphan(c) \/ ConfirmSeen(c) \/ SettleOrphansSeen(c)
               \/ CrashConfirmation(c)
      PROVE  alert' = alert
  BY <1>3 DEF LookupSale, EnqueueOrphan, ConfirmSeen, SettleOrphansSeen, CrashConfirmation
<1>4. ASSUME NEW r \in Request, TakeTurn(r) \/ RequestStep(r) \/ CrashRequest(r)
      PROVE  alert' = alert
  BY <1>4 DEF TakeTurn, RequestStep, CheckVoucher, Lookup, ReserveNew, CreateSale,
              ReserveKnown, RefuseReserve, Pay, Decline, Confirm, SettleOrphans, CrashRequest
<1>5. \/ \E t \in Turn : OpenTurn(t) \/ CloseTurn(t)
      \/ \E s \in Sale : Age(s) \/ ReaperHandle(s)
      \/ ReaperScan \/ ReaperCrash
      \/ \E d \in Ctid : Purge(d)
      \/ UNCHANGED vars
      => alert' = alert
  BY DEF OpenTurn, CloseTurn, Age, ReaperHandle, ReaperScan, ReaperCrash, Purge, vars
<1> QED BY <1>1, <1>2, <1>3, <1>4, <1>5 DEF Next, ConfirmStep

\* A delivery raises its alert only once.
LEMMA ResolvedAlertKept ==
  ASSUME TypeOK, AlertInv, [Next]_vars, NEW a \in Alert, alert[a].state # "ABSENT"
  PROVE  /\ alert'[a].state # "ABSENT" /\ alert'[a].sale = alert[a].sale
         /\ alert[a].state \in Resolution => alert'[a] = alert[a]
<1>1. a[1] \in Confirmation /\ a[2] \in 1..MaxDeliveries /\ a = <<a[1], a[2]>>
  BY DEF Alert
<1>2. ~(RaiseAlert(a[1]) /\ a[2] = delivery[a[1]])
  BY <1>1 DEF AlertInv, RaiseAlert
<1> QED BY <1>2, AlertStep DEF Resolution

\* A sale that failed is paid again only by an alert, and then stays as it is.
LEMMA LateKept ==
  ASSUME TypeOK, AlertInv, [Next]_vars, NEW c \in Confirmation, NEW s \in Sale, Late(c, s)
  PROVE  Late(c, s)'
<1> sale \in [Sale -> SaleRow]
  BY DEF TypeOK
<1>1. sale'[s].status # "ABSENT" /\ SaleCtid(s)' = confirms[c].ctid
  BY SaleKept DEF Late, SaleCtid
<1>2. CASE sale[s].status = "PAID"
  <2> PICK b \in Alert : /\ alert[b].state = "REACTIVATE_SALE" /\ alert[b].sale = s
                         /\ sale[s].ref = confirms[b[1]].ref
    BY <1>2 DEF Late, FailedOrRevived, Dead
  <2>1. alert'[b] = alert[b]
    BY ResolvedAlertKept DEF Resolution
  <2>2. sale'[s].status = "PAID" /\ sale'[s].ref = sale[s].ref
    BY <1>2, PaidStep
  <2> QED BY <1>1, <2>1, <2>2 DEF Late, FailedOrRevived
<1>3. CASE sale[s].status \in Dead
  <2>1. ASSUME NEW a \in Alert, Reactivate(a)
        PROVE  FailedOrRevived(s)'
    <3>1. CASE alert[a].sale # s
      BY <1>3, <2>1, <3>1 DEF Reactivate, FinalizeSaleAsPaid, FailedOrRevived
    <3>2. CASE alert[a].sale = s
      <4>1. /\ confirms[a[1]].ref \in Reference /\ confirms[a[1]].ref # NoRef
        BY PayloadAssumption DEF Alert
      <4>2. sale'[s] = PaidRow(sale[s], confirms[a[1]].ref)
        BY <2>1, <3>2 DEF Reactivate, FinalizeSaleAsPaid
      <4>3. sale[s] \in SaleRow
        OBVIOUS
      <4>4. sale'[s].status = "PAID" /\ sale'[s].ref = confirms[a[1]].ref
        BY <4>1, <4>2, <4>3 DEF PaidRow, SaleRow
      <4>5. alert'[a].state = "REACTIVATE_SALE" /\ alert'[a].sale = s
        BY <2>1, <3>2 DEF Reactivate, TypeOK, AlertRow
      <4> QED BY <4>4, <4>5 DEF FailedOrRevived
    <3> QED BY <3>1, <3>2
  <2>2. ASSUME SalesAlone PROVE FailedOrRevived(s)'
    BY <1>3, <2>2 DEF SalesAlone, FailedOrRevived
  <2>3. ASSUME NEW r \in Request, NEW z \in Sale, Creates(r, z) PROVE FailedOrRevived(s)'
    BY <1>3, <2>3 DEF Creates, CreateSale, NextSaleId, FailedOrRevived, Dead
  <2>4. ASSUME NEW z \in Sale, NEW ref \in Reference \cup {NoRef}, Pays(z, ref)
        PROVE  FailedOrRevived(s)'
    BY <1>3, <2>4 DEF Pays, FinalizeSaleAsPaid, FailedOrRevived, Dead
  <2>5. ASSUME NEW z \in Sale, NEW status \in Dead, Fails(z, status) PROVE FailedOrRevived(s)'
    BY <1>3, <2>5 DEF Fails, MarkSalePaymentFailed, FailedOrRevived, Dead
  <2>6. ASSUME NEW z \in Sale, Age(z) PROVE FailedOrRevived(s)'
    <3>1. sale'[s].status = sale[s].status
      BY <2>6 DEF Age, SaleRow
    <3> QED BY <1>3, <3>1 DEF FailedOrRevived
  <2>7. FailedOrRevived(s)'
    BY <2>1, <2>2, <2>3, <2>4, <2>5, <2>6, StepKinds
  <2> QED BY <1>1, <2>7 DEF Late
<1> QED BY <1>2, <1>3 DEF Late, FailedOrRevived

LEMMA NextAlertInv == TypeOK /\ PaidInv /\ AlertInv /\ [Next]_vars => AlertInv'
<1> SUFFICES ASSUME TypeOK, PaidInv, AlertInv, [Next]_vars PROVE AlertInv'
  OBVIOUS
<1> /\ sale \in [Sale -> SaleRow] /\ alert \in [Alert -> AlertRow]
    /\ cpc \in [Confirmation -> ConfirmPc] /\ seen \in [Confirmation -> Sale]
    /\ delivery \in [Confirmation -> 0..MaxDeliveries]
  BY DEF TypeOK
<1>0. MaxDeliveries \in Nat
  BY BoundsAssumption
<1>1. ASSUME NEW a \in Alert, alert'[a].state # "ABSENT"
      PROVE  Late(a[1], alert[a].sale)'
  <2> PICK c \in Confirmation : c = a[1]
    BY DEF Alert
  <2>1. CASE alert[a].state # "ABSENT"
    <3> PICK s \in Sale : s = alert[a].sale
      BY DEF AlertRow
    <3>1. alert'[a].sale = s /\ Late(c, s)
      BY <2>1, ResolvedAlertKept DEF AlertInv
    <3>2. Late(c, s)'
      BY <3>1, LateKept
    <3> QED BY <3>1, <3>2
  <2>2. CASE alert[a].state = "ABSENT"
    <3> PICK s \in Sale : s = seen[c]
      OBVIOUS
    <3>1. RaiseAlert(c) /\ alert'[a].sale = s
      BY <1>1, <2>2, AlertStep
    <3>2. Late(c, s)
      BY <3>1 DEF RaiseAlert, AlertInv
    <3> QED BY <3>1, <3>2, LateKept
  <2> QED BY <2>1, <2>2
<1>2. ASSUME NEW c \in Confirmation
      PROVE  /\ \A n \in 1..MaxDeliveries : alert'[<<c, n>>].state # "ABSENT" =>
                  n <= delivery'[c] /\ (n = delivery'[c] => cpc'[c] = "alerted")
             /\ cpc'[c] = "alerted" => /\ alert'[<<c, delivery'[c]>>].state # "ABSENT"
                                       /\ alert'[<<c, delivery'[c]>>].sale = seen'[c]
             /\ cpc'[c] = "late" => Late(c, seen[c])'
  <2>1. ASSUME NEW n \in 1..MaxDeliveries
        PROVE  /\ <<c, n>> \in Alert
               /\ ~RaiseAlert(c) \/ n # delivery[c] =>
                    /\ alert[<<c, n>>].state = "ABSENT" <=> alert'[<<c, n>>].state = "ABSENT"
                    /\ alert[<<c, n>>].state # "ABSENT" =>
                         alert'[<<c, n>>].sale = alert[<<c, n>>].sale
    <3>1. <<c, n>> \in Alert
      BY DEF Alert
    <3>2. /\ alert[<<c, n>>].state # "ABSENT" =>
               /\ alert'[<<c, n>>].state # "ABSENT"
               /\ alert'[<<c, n>>].sale = alert[<<c, n>>].sale
          /\ alert[<<c, n>>].state = "ABSENT" /\ alert'[<<c, n>>].state # "ABSENT" =>
               RaiseAlert(c) /\ n = delivery[c]
      BY <3>1, ResolvedAlertKept, AlertStep
    <3> QED BY <3>1, <3>2
  <2>2. CASE cpc'[c] = cpc[c] /\ seen'[c] = seen[c] /\ delivery'[c] = delivery[c]
    <3>1. ~RaiseAlert(c)
      BY <2>2 DEF RaiseAlert, CGoto
    <3>2. \A n \in 1..MaxDeliveries : alert'[<<c, n>>].state # "ABSENT" =>
            n <= delivery'[c] /\ (n = delivery'[c] => cpc'[c] = "alerted")
      BY <2>1, <2>2, <3>1 DEF AlertInv
    <3>3. cpc[c] = "alerted" => /\ alert'[<<c, delivery[c]>>].state # "ABSENT"
                                /\ alert'[<<c, delivery[c]>>].sale = seen[c]
      <4>1. cpc[c] = "alerted" => delivery[c] \in 1..MaxDeliveries
        BY DEF PaidInv
      <4> QED BY <2>1, <3>1, <4>1 DEF AlertInv
    <3> PICK s \in Sale : s = seen[c]
      OBVIOUS
    <3>4. cpc[c] = "late" => Late(c, s)'
      BY LateKept DEF AlertInv
    <3> QED BY <2>2, <3>2, <3>3, <3>4
  <2>3. CASE LookupSale(c)
    <3>0. delivery[c] \in Nat
      BY <1>0
    <3>1. /\ delivery'[c] = delivery[c] + 1 /\ UNCHANGED <<alert, sale>>
          /\ \/ cpc'[c] = "absent"
             \/ \E s \in SalesOf(confirms[c].ctid) :
                  seen'[c] = s /\ cpc'[c] = LabelOf(sale[s].status)
      BY <2>3 DEF LookupSale, CGoto, dbVars
    <3>2. \A n \in 1..MaxDeliveries : alert'[<<c, n>>].state # "ABSENT" => n < delivery'[c]
      <4>1. \A n \in 1..MaxDeliveries : alert[<<c, n>>].state # "ABSENT" => n <= delivery[c]
        BY DEF AlertInv
      <4> QED BY <1>0, <3>0, <3>1, <4>1
    <3>3. ASSUME NEW s \in SalesOf(confirms[c].ctid)
          PROVE  /\ LabelOf(sale[s].status) # "alerted"
                 /\ LabelOf(sale[s].status) = "late" => Late(c, s)
      <4>1. /\ s \in Sale /\ sale[s].status # "ABSENT" /\ SaleCtid(s) = confirms[c].ctid
            /\ sale[s].status \in Live \cup Dead
        BY DEF SalesOf, SaleRow
      <4>2. /\ LabelOf(sale[s].status) # "alerted"
            /\ LabelOf(sale[s].status) = "late" => sale[s].status \in Dead
        BY <4>1 DEF LabelOf, Live, Dead
      <4> QED BY <4>1, <4>2 DEF Late, FailedOrRevived
    <3>4. cpc'[c] # "alerted" /\ (cpc'[c] = "late" => Late(c, seen[c])')
      <4>1. CASE cpc'[c] = "absent"
        BY <4>1
      <4>2. ASSUME NEW s \in SalesOf(confirms[c].ctid),
                   seen'[c] = s, cpc'[c] = LabelOf(sale[s].status)
            PROVE  cpc'[c] # "alerted" /\ (cpc'[c] = "late" => Late(c, seen[c])')
        <5>1. s \in Sale
          BY DEF SalesOf
        <5>2. cpc'[c] # "alerted" /\ (cpc'[c] = "late" => Late(c, s)')
          BY <3>3, <4>2, <5>1, LateKept
        <5> QED BY <4>2, <5>2 DEF Late, FailedOrRevived, SaleCtid
      <4> QED BY <3>1, <4>1, <4>2
    <3>5. \A n \in 1..MaxDeliveries : n < delivery'[c] => n <= delivery'[c] /\ n # delivery'[c]
      BY <1>0, <3>0, <3>1
    <3> QED BY <3>2, <3>4, <3>5
  <2>4. CASE RaiseAlert(c)
    <3>1. /\ cpc[c] = "late" /\ cpc'[c] = "alerted" /\ UNCHANGED <<seen, delivery>>
          /\ alert' = [alert EXCEPT ![<<c, delivery[c]>>] = [state |-> "OPEN", sale |-> seen[c]]]
      BY <2>4 DEF RaiseAlert, CGoto
    <3>2. delivery[c] \in 1..MaxDeliveries /\ <<c, delivery[c]>> \in Alert
      BY <3>1 DEF PaidInv, Alert
    <3>3. alert'[<<c, delivery[c]>>] = [state |-> "OPEN", sale |-> seen[c]]
      BY <3>1, <3>2
    <3>4. \A n \in 1..MaxDeliveries : alert'[<<c, n>>].state # "ABSENT" => n <= delivery[c]
      BY <1>0, <2>1, <3>2 DEF AlertInv
    <3> QED BY <3>1, <3>3, <3>4
  <2>5. CASE EnqueueOrphan(c) \/ ConfirmSeen(c) \/ SettleOrphansSeen(c)
    <3>1. /\ UNCHANGED <<alert, delivery>> /\ cpc[c] # "alerted"
          /\ cpc'[c] \in {"orphaned", "paid", "rejected", "confirmed"}
      BY <2>5 DEF EnqueueOrphan, ConfirmSeen, SettleOrphansSeen, CGoto
    <3> QED BY <3>1 DEF AlertInv
  <2>6. CASE cpc'[c] = "crashed" /\ delivery'[c] = delivery[c] /\ ~RaiseAlert(c)
             /\ cpc[c] # "alerted"
    <3>1. \A n \in 1..MaxDeliveries : alert'[<<c, n>>].state # "ABSENT" =>
            n <= delivery'[c] /\ (n = delivery'[c] => cpc'[c] = "alerted")
      BY <2>1, <2>6 DEF AlertInv
    <3> QED BY <2>6, <3>1
  <2>7. CASE cpc'[c] = "crashed" /\ delivery'[c] = delivery[c]
             /\ cpc[c] \notin {"idle"} \cup ConfirmDone
    <3>1. ~RaiseAlert(c) /\ cpc[c] # "alerted"
      BY <2>7 DEF RaiseAlert, CGoto, ConfirmDone
    <3> QED BY <2>6, <2>7, <3>1
  <2> QED BY <2>2, <2>3, <2>4, <2>5, <2>7, ConfirmationStep DEF ConfirmStep
<1> QED BY <1>1, <1>2 DEF AlertInv

LEMMA InitAlertInv == Init => AlertInv
BY DEF Init, AlertInv, Alert

LEMMA AlertInvAlways == Spec => [](TypeOK /\ PaidInv /\ AlertInv)
BY InitTypeOK, NextTypeOK, InitPaidInv, NextPaidInv, InitAlertInv, NextAlertInv, PTL DEF Spec

----------------------------------------------------------------------------
(* Where the payment of an answered confirmation is *)

\* A payment made in the name of a transaction stays made.
LEMMA PaymentsGrow ==
  ASSUME TypeOK, [Next]_vars, NEW c \in Ctid
  PROVE  PaymentsOf(c) \subseteq PaymentsOf(c)'
<1>1. ASSUME NEW r \in Request, pc[r] # "idle" PROVE pc'[r] # "idle"
  <2>1. CASE UNCHANGED pc
    BY <1>1, <2>1
  <2>2. ASSUME NEW q \in Request, Moves(q) PROVE pc'[r] # "idle"
    <3> USE DEF Goto, TypeOK
    <3>1. CASE TakeTurn(q) \/ CheckVoucher(q) \/ Lookup(q)
      BY <1>1, <3>1 DEF TakeTurn, CheckVoucher, Lookup
    <3>2. CASE ReserveNew(q) \/ ReserveKnown(q) \/ RefuseReserve(q)
      BY <1>1, <3>2, NewIsReserved DEF ReserveKnown, RefuseReserve
    <3>3. CASE Pay(q) \/ Decline(q) \/ Confirm(q) \/ SettleOrphans(q) \/ CrashRequest(q)
      BY <1>1, <3>3 DEF Pay, Decline, Confirm, SettleOrphans, CrashRequest
    <3> QED BY <2>2, <3>1, <3>2, <3>3 DEF Moves, RequestStep
  <2> QED BY <2>1, <2>2, OnlyRequestsMove
<1>2. ASSUME NEW d \in Confirmation, delivery[d] > 0 PROVE delivery'[d] > 0
  <2> delivery[d] \in Nat
    BY BoundsAssumption DEF TypeOK
  <2>1. CASE delivery'[d] = delivery[d]
    BY <1>2, <2>1
  <2>2. CASE LookupSale(d)
    BY <1>2, <2>2 DEF LookupSale, TypeOK
  <2>3. CASE ConfirmStep(d)
    BY <1>2, <2>3 DEF ConfirmStep, EnqueueOrphan, ConfirmSeen, SettleOrphansSeen, RaiseAlert
  <2> QED BY <2>1, <2>2, <2>3, ConfirmationStep
<1> QED BY <1>1, <1>2 DEF PaymentsOf

\* Records, and requests about to pay, name a sale of their own transaction:
\* also a request that outlives the purge of its record.
Names(s, c) == sale[s].status # "ABSENT" /\ SaleCtid(s) = c
NameInv ==
  /\ \A c \in Ctid : record[c].status # "NONE" => Names(record[c].sale, c)
  /\ \A r \in Request : pc[r] \in {"reserved", "approved"} => Names(mySale[r], payload[r].ctid)

LEMMA NamesKept ==
  ASSUME TypeOK, [Next]_vars, NEW s \in Sale, NEW c, Names(s, c)
  PROVE  Names(s, c)'
BY SaleKept DEF Names, SaleCtid

\* A record appears with the sale it is created for, and keeps that sale.
LEMMA RecordStep ==
  ASSUME TypeOK, [Next]_vars, NEW c \in Ctid, record'[c].status # "NONE"
  PROVE  \/ record[c].status # "NONE" /\ record'[c].sale = record[c].sale
         \/ \E r \in Request, s \in Sale :
              CreateSale(r, s) /\ c = payload[r].ctid /\ record'[c].sale = s
<1> DEFINE Kept == record[c].status # "NONE" /\ record'[c].sale = record[c].sale
<1> record \in [Ctid -> RecordRow]
  BY DEF TypeOK
<1>0. record' = record => Kept
  OBVIOUS
<1>1. ASSUME NEW d \in Ctid, NEW status, SetRecordStatus(d, status) PROVE Kept
  BY <1>1 DEF SetRecordStatus, RecordRow
<1>2. ASSUME NEW s \in Sale, NEW ref, FinalizeSaleAsPaid(s, ref) PROVE Kept
  BY <1>1, <1>2, SaleCtidType DEF FinalizeSaleAsPaid
<1>3. ASSUME NEW s \in Sale, NEW status, MarkSalePaymentFailed(s, status) PROVE Kept
  BY <1>1, <1>3, SaleCtidType DEF MarkSalePaymentFailed
<1>4. ASSUME NEW r \in Request, NEW s \in Sale, CreateSale(r, s)
      PROVE  Kept \/ (c = payload[r].ctid /\ record'[c].sale = s)
  BY <1>4 DEF CreateSale
<1>5. ASSUME NEW r \in Request, Confirm(r) \/ Decline(r) PROVE Kept
  <2>1. mySale[r] \in Sale
    BY DEF TypeOK
  <2> HIDE DEF Kept
  <2> QED BY <1>0, <1>2, <1>3, <1>5, <2>1 DEF Confirm, Decline, MarkSalePaid
<1>6. ASSUME NEW s \in Sale, ReaperHandle(s) PROVE Kept
  BY <1>0, <1>3, <1>6 DEF ReaperHandle
<1>7. ASSUME NEW d \in Confirmation, ConfirmSeen(d) PROVE Kept
  <2>1. seen[d] \in Sale
    BY DEF TypeOK
  <2> QED BY <1>0, <1>2, <1>7, <2>1 DEF ConfirmSeen, MarkSalePaid
<1>8. ASSUME NEW a \in Alert, Reactivate(a) PROVE Kept
  <2>1. alert[a].sale \in Sale
    BY DEF TypeOK, AlertRow
  <2> QED BY <1>2, <1>8, <2>1 DEF Reactivate
<1>9. ASSUME NEW d \in Ctid, Purge(d) PROVE Kept
  BY <1>9 DEF Purge
<1>10. ASSUME NEW r \in Request,
              TakeTurn(r) \/ CheckVoucher(r) \/ Lookup(r) \/ ReserveKnown(r) \/ RefuseReserve(r)
                \/ Pay(r) \/ SettleOrphans(r) \/ CrashRequest(r)
       PROVE  record' = record
  BY <1>10 DEF TakeTurn, CheckVoucher, Lookup, ReserveKnown, RefuseReserve, Pay,
               SettleOrphans, CrashRequest, dbVars
<1>11. ASSUME NEW d \in Confirmation,
              LookupSale(d) \/ EnqueueOrphan(d) \/ SettleOrphansSeen(d) \/ RaiseAlert(d)
                \/ CrashConfirmation(d)
       PROVE  record' = record
  BY <1>11 DEF LookupSale, EnqueueOrphan, SettleOrphansSeen, RaiseAlert, CrashConfirmation,
               dbVars
<1>12. \/ \E t \in Turn : OpenTurn(t) \/ CloseTurn(t)
       \/ \E s \in Sale : Age(s)
       \/ ReaperScan \/ ReaperCrash
       \/ \E a \in Alert : SettleWithoutSale(a)
       \/ UNCHANGED vars
       => record' = record
  BY DEF OpenTurn, CloseTurn, Age, ReaperScan, ReaperCrash, SettleWithoutSale, vars, dbVars
<1> HIDE DEF Kept
<1>13. Kept \/ \E r \in Request, s \in Sale :
                 CreateSale(r, s) /\ c = payload[r].ctid /\ record'[c].sale = s
  BY <1>0, <1>4, <1>5, <1>6, <1>7, <1>8, <1>9, <1>10, <1>11, <1>12
     DEF Next, RequestStep, ConfirmStep, ReserveNew
<1> QED BY <1>13 DEF Kept

\* A request that is about to pay has just reserved or goes on with its sale.
LEMMA ReservedStep ==
  ASSUME TypeOK, [Next]_vars, NEW r \in Request, pc'[r] \in {"reserved", "approved"}
  PROVE  \/ pc[r] \in {"reserved", "approved"} /\ mySale'[r] = mySale[r]
         \/ \E s \in Sale : CreateSale(r, s)
         \/ ReserveKnown(r)
<1> USE DEF dbVars, requestVars, confirmVars
<1>1. UNCHANGED <<pc, mySale>> \/ \E q \in Request : Moves(q)
  <2>1. ASSUME NEW c \in Confirmation, LookupSale(c) \/ ConfirmStep(c) \/ CrashConfirmation(c)
        PROVE  UNCHANGED <<pc, mySale>>
    BY <2>1 DEF LookupSale, ConfirmStep, EnqueueOrphan, ConfirmSeen, SettleOrphansSeen,
                RaiseAlert, CrashConfirmation
  <2>2. \/ \E t \in Turn : OpenTurn(t) \/ CloseTurn(t)
        \/ \E s \in Sale : Age(s) \/ ReaperHandle(s)
        \/ ReaperScan \/ ReaperCrash
        \/ \E c \in Ctid : Purge(c)
        \/ \E a \in Alert : Reactivate(a) \/ SettleWithoutSale(a)
        \/ UNCHANGED vars
        => UNCHANGED <<pc, mySale>>
    BY DEF OpenTurn, CloseTurn, Age, ReaperHandle, ReaperScan, ReaperCrash, Purge, Reactivate,
           SettleWithoutSale, vars
  <2> QED BY <2>1, <2>2 DEF Next, Moves
<1>2. ASSUME NEW q \in Request, Moves(q), q # r
      PROVE  pc'[r] = pc[r] /\ mySale'[r] = mySale[r]
  <2> USE DEF Goto, TypeOK
  <2>1. CASE TakeTurn(q) \/ CheckVoucher(q) \/ Lookup(q) \/ Pay(q)
    BY <1>2, <2>1 DEF TakeTurn, CheckVoucher, Lookup, Pay
  <2>2. CASE ReserveNew(q) \/ ReserveKnown(q) \/ RefuseReserve(q)
    BY <1>2, <2>2 DEF ReserveNew, CreateSale, ReserveKnown, RefuseReserve
  <2>3. CASE Decline(q) \/ Confirm(q) \/ SettleOrphans(q) \/ CrashRequest(q)
    BY <1>2, <2>3 DEF Decline, Confirm, SettleOrphans, CrashRequest
  <2> QED BY <1>2, <2>1, <2>2, <2>3 DEF Moves, RequestStep
<1>3. CASE TakeTurn(r) \/ CheckVoucher(r) \/ Lookup(r) \/ RefuseReserve(r)
  BY <1>3 DEF TakeTurn, CheckVoucher, Lookup, RefuseReserve, Goto, TypeOK
<1>4. CASE Decline(r) \/ Confirm(r) \/ SettleOrphans(r) \/ CrashRequest(r)
  BY <1>4 DEF Decline, Confirm, SettleOrphans, CrashRequest, Goto, TypeOK
<1>5. CASE Pay(r)
  BY <1>5 DEF Pay
<1> QED BY <1>1, <1>2, <1>3, <1>4, <1>5 DEF Moves, RequestStep, ReserveNew

LEMMA NextNameInv == TypeOK /\ NameInv /\ [Next]_vars => NameInv'
<1> SUFFICES ASSUME TypeOK, NameInv, [Next]_vars PROVE NameInv'
  OBVIOUS
<1> /\ sale \in [Sale -> SaleRow] /\ record \in [Ctid -> RecordRow]
    /\ mySale \in [Request -> Sale] /\ pc \in [Request -> RequestPc]
  BY DEF TypeOK
<1>1. ASSUME NEW r \in Request, NEW s \in Sale, CreateSale(r, s)
      PROVE  Names(s, payload[r].ctid)' /\ mySale'[r] = s
  BY <1>1 DEF CreateSale, Names, SaleCtid
<1>2. ASSUME NEW c \in Ctid, record'[c].status # "NONE" PROVE Names(record[c].sale, c)'
  <2>1. ASSUME record[c].status # "NONE", record'[c].sale = record[c].sale
        PROVE  Names(record[c].sale, c)'
    <3> PICK s \in Sale : s = record[c].sale
      BY DEF RecordRow
    <3>1. Names(s, c)'
      BY <2>1, NamesKept DEF NameInv
    <3> QED BY <2>1, <3>1 DEF Names, SaleCtid
  <2> QED BY <1>1, <1>2, <2>1, RecordStep DEF Names, SaleCtid
<1>3. ASSUME NEW r \in Request, pc'[r] \in {"reserved", "approved"}
      PROVE  Names(mySale[r], payload[r].ctid)'
  <2>1. ASSUME pc[r] \in {"reserved", "approved"}, mySale'[r] = mySale[r]
        PROVE  Names(mySale[r], payload[r].ctid)'
    <3> PICK s \in Sale : s = mySale[r]
      OBVIOUS
    <3>1. Names(s, payload[r].ctid)'
      BY <2>1, NamesKept DEF NameInv
    <3> QED BY <2>1, <3>1 DEF Names, SaleCtid
  <2>2. CASE ReserveKnown(r)
    <3> PICK c \in Ctid : c = payload[r].ctid
      BY PayloadAssumption DEF Payload
    <3> PICK s \in Sale : s = record[c].sale
      BY DEF RecordRow
    <3>1. Names(s, c) /\ mySale'[r] = s
      BY <2>2 DEF ReserveKnown, Known, NameInv
    <3>2. Names(s, c)'
      BY <3>1, NamesKept
    <3> QED BY <3>1, <3>2 DEF Names, SaleCtid
  <2> QED BY <1>1, <1>3, <2>1, <2>2, ReservedStep DEF Names, SaleCtid
<1> QED BY <1>2, <1>3 DEF NameInv

\* A sale carries a payment made in the name of its transaction, and a
\* confirmation that found a sale works on a sale of its transaction.
Found == {"pending", "late", "paid", "already", "confirmed", "alerted"}
PaymentInv ==
  /\ \A s \in Sale : sale[s].status # "ABSENT" => sale[s].ref \in PaymentsOf(SaleCtid(s))
  /\ \A c \in Confirmation : cpc[c] \in Found =>
       sale[seen[c]].status # "ABSENT" /\ SaleCtid(seen[c]) = confirms[c].ctid

\* The payment a step puts on a sale: its own request's, or a confirmation's.
LEMMA PaidBy ==
  ASSUME TypeOK, NameInv, PaidInv, AlertInv, PaymentInv, [Next]_vars,
         NEW s \in Sale, sale[s].status # "ABSENT", sale'[s].ref # sale[s].ref
  PROVE  sale'[s].ref \in PaymentsOf(SaleCtid(s))
<1> /\ sale \in [Sale -> SaleRow] /\ mySale \in [Request -> Sale]
    /\ seen \in [Confirmation -> Sale] /\ alert \in [Alert -> AlertRow]
    /\ delivery \in [Confirmation -> 0..MaxDeliveries]
  BY DEF TypeOK
<1>1. ASSUME NEW z \in Sale, NEW ref \in Reference \cup {NoRef}, FinalizeSaleAsPaid(z, ref)
      PROVE  z = s /\ sale'[s].ref = ref
  BY <1>1 DEF FinalizeSaleAsPaid, PaidRow, SaleRow
<1>2. ASSUME NEW r \in Request, Confirm(r)
      PROVE  sale'[s].ref \in PaymentsOf(SaleCtid(s))
  <2>1. payload[r].ref \in Reference \cup {NoRef} /\ payload[r].ctid \in Ctid
    BY PayloadAssumption DEF Payload
  <2>2. FinalizeSaleAsPaid(mySale[r], payload[r].ref)
    BY <1>2 DEF Confirm, MarkSalePaid
  <2>3. mySale[r] = s /\ sale'[s].ref = payload[r].ref
    BY <1>1, <2>1, <2>2
  <2>4. SaleCtid(s) = payload[r].ctid /\ pc[r] # "idle"
    BY <1>2, <2>3 DEF Confirm, NameInv, Names
  <2> QED BY <2>3, <2>4 DEF PaymentsOf
<1>3. ASSUME NEW c \in Confirmation, delivery[c] > 0, SaleCtid(s) = confirms[c].ctid
      PROVE  confirms[c].ref \in PaymentsOf(SaleCtid(s))
  BY <1>3 DEF PaymentsOf
<1>4. ASSUME NEW c \in Confirmation, ConfirmSeen(c)
      PROVE  sale'[s].ref \in PaymentsOf(SaleCtid(s))
  <2>1. FinalizeSaleAsPaid(seen[c], confirms[c].ref)
    BY <1>4 DEF ConfirmSeen, MarkSalePaid
  <2>2. seen[c] = s /\ sale'[s].ref = confirms[c].ref
    BY <1>1, <2>1, PayloadAssumption
  <2>3. cpc[c] = "pending"
    BY <1>4 DEF ConfirmSeen
  <2>4. SaleCtid(s) = confirms[c].ctid
    BY <2>2, <2>3 DEF PaymentInv, Found
  <2>5. delivery[c] \in 1..MaxDeliveries
    BY <2>3 DEF PaidInv
  <2>6. delivery[c] > 0
    BY <2>5
  <2> QED BY <1>3, <2>2, <2>4, <2>6
<1>5. ASSUME NEW a \in Alert, Reactivate(a)
      PROVE  sale'[s].ref \in PaymentsOf(SaleCtid(s))
  <2> PICK c \in Confirmation, n \in 1..MaxDeliveries : a = <<c, n>>
    BY DEF Alert
  <2>0. alert[a].sale \in Sale
    BY DEF AlertRow
  <2>1. FinalizeSaleAsPaid(alert[a].sale, confirms[c].ref)
    BY <1>5 DEF Reactivate
  <2>2. alert[a].sale = s /\ sale'[s].ref = confirms[c].ref
    BY <1>1, <2>0, <2>1, PayloadAssumption
  <2>3. alert[a].state # "ABSENT"
    BY <1>5 DEF Reactivate, Unresolved
  <2>4. SaleCtid(s) = confirms[c].ctid
    BY <2>2, <2>3 DEF AlertInv, Late
  <2>5. n <= delivery[c]
    BY <2>3 DEF AlertInv
  <2> QED BY <1>3, <2>2, <2>4, <2>5, BoundsAssumption
<1>6. ASSUME NEW z \in Sale, Age(z) PROVE FALSE
  BY <1>6 DEF Age, SaleRow
<1>7. ASSUME NEW r \in Request, ReserveNew(r) PROVE FALSE
  BY <1>7 DEF ReserveNew, CreateSale, NextSaleId
<1>8. ASSUME NEW z \in Sale, NEW status \in Dead, MarkSalePaymentFailed(z, status) PROVE FALSE
  BY <1>8 DEF MarkSalePaymentFailed, UnpaidRow, SaleRow
<1>9. ASSUME NEW r \in Request, Decline(r) PROVE FALSE
  BY <1>8, <1>9 DEF Decline, Dead
<1>10. ASSUME NEW z \in Sale, ReaperHandle(z) PROVE FALSE
  BY <1>8, <1>10 DEF ReaperHandle, Dead
<1>11. sale' # sale
  OBVIOUS
<1>12. ASSUME NEW r \in Request,
              TakeTurn(r) \/ CheckVoucher(r) \/ Lookup(r) \/ ReserveKnown(r) \/ RefuseReserve(r)
                \/ Pay(r) \/ SettleOrphans(r) \/ CrashRequest(r)
       PROVE  FALSE
  BY <1>11, <1>12 DEF TakeTurn, CheckVoucher, Lookup, ReserveKnown, RefuseReserve, Pay,
                      SettleOrphans, CrashRequest, dbVars
<1>13. ASSUME NEW c \in Confirmation,
              LookupSale(c) \/ EnqueueOrphan(c) \/ SettleOrphansSeen(c) \/ RaiseAlert(c)
                \/ CrashConfirmation(c)
       PROVE  FALSE
  BY <1>11, <1>13 DEF LookupSale, EnqueueOrphan, SettleOrphansSeen, RaiseAlert,
                      CrashConfirmation, dbVars
<1>14. \/ \E t \in Turn : OpenTurn(t) \/ CloseTurn(t)
       \/ ReaperScan \/ ReaperCrash
       \/ \E c \in Ctid : Purge(c)
       \/ \E a \in Alert : SettleWithoutSale(a)
       \/ UNCHANGED vars
       => FALSE
  BY <1>11 DEF OpenTurn, CloseTurn, ReaperScan, ReaperCrash, Purge, SettleWithoutSale, vars,
               dbVars
<1> QED BY <1>2, <1>4, <1>5, <1>6, <1>7, <1>9, <1>10, <1>12, <1>13, <1>14
        DEF Next, RequestStep, ConfirmStep

LEMMA NextPaymentInv ==
  TypeOK /\ NameInv /\ PaidInv /\ AlertInv /\ PaymentInv /\ [Next]_vars => PaymentInv'
<1> SUFFICES ASSUME TypeOK, NameInv, PaidInv, AlertInv, PaymentInv, [Next]_vars
             PROVE  PaymentInv'
  OBVIOUS
<1> /\ sale \in [Sale -> SaleRow] /\ cpc \in [Confirmation -> ConfirmPc]
    /\ seen \in [Confirmation -> Sale]
  BY DEF TypeOK
<1>1. ASSUME NEW s \in Sale, sale'[s].status # "ABSENT"
      PROVE  sale'[s].ref \in PaymentsOf(SaleCtid(s))'
  <2>1. CASE sale[s].status # "ABSENT"
    <3> PICK c \in Ctid : c = SaleCtid(s)
      BY SaleCtidType
    <3>1. SaleCtid(s)' = c
      BY <2>1, SaleKept DEF SaleCtid
    <3>2. sale'[s].ref \in PaymentsOf(c)
      BY <2>1, PaidBy DEF PaymentInv
    <3>3. sale'[s].ref \in PaymentsOf(c)'
      BY <3>2, PaymentsGrow
    <3> QED BY <3>1, <3>3 DEF PaymentsOf
  <2>2. CASE sale[s].status = "ABSENT"
    <3>1. PICK r \in Request : Creates(r, s)
      BY <1>1, <2>2, CreatedBy
    <3>2. pc'[r] # "idle" /\ sale'[s].req = r /\ sale'[s].ref = payload[r].ref
      BY <3>1 DEF Creates, CreateSale, Goto, TypeOK
    <3> QED BY <3>2 DEF PaymentsOf, SaleCtid
  <2> QED BY <2>1, <2>2
<1>2. ASSUME NEW c \in Confirmation, cpc'[c] \in Found
      PROVE  sale'[seen'[c]].status # "ABSENT" /\ SaleCtid(seen[c])' = confirms[c].ctid
  <2>1. \E s \in Sale : /\ seen'[c] = s /\ sale[s].status # "ABSENT"
                        /\ SaleCtid(s) = confirms[c].ctid
    <3>1. CASE cpc'[c] = cpc[c] /\ seen'[c] = seen[c]
      BY <1>2, <3>1 DEF PaymentInv
    <3>2. CASE LookupSale(c)
      BY <1>2, <3>2 DEF LookupSale, SalesOf, CGoto, Found
    <3>3. CASE ConfirmStep(c)
      <4>1. CASE EnqueueOrphan(c)
        BY <1>2, <4>1 DEF EnqueueOrphan, CGoto, Found
      <4>2. CASE ConfirmSeen(c) \/ SettleOrphansSeen(c) \/ RaiseAlert(c)
        BY <4>2 DEF ConfirmSeen, SettleOrphansSeen, RaiseAlert, PaymentInv, Found
      <4> QED BY <3>3, <4>1, <4>2 DEF ConfirmStep
    <3> QED BY <1>2, <3>1, <3>2, <3>3, ConfirmationStep DEF Found
  <2> QED BY <2>1, SaleKept DEF SaleCtid
<1> QED BY <1>1, <1>2 DEF PaymentInv

LEMMA InitPaymentInv == Init => NameInv /\ PaymentInv
BY DEF Init, NameInv, PaymentInv, Found

\* An answered confirmation is in the inbox or in an alert, or its sale was paid
\* by a payment made in its name.  For every number of deliveries of it, with the
\* reaper, deaths of workers and resolutions in between.
THEOREM AnsweredPaymentsKept == Spec => []AnsweredPaymentKept
<1>1. ASSUME TypeOK, PaidInv, AlertInv, PaymentInv PROVE AnsweredPaymentKept
  <2> SUFFICES ASSUME NEW c \in Confirmation,
                      cpc[c] \in {"orphaned", "already", "confirmed", "alerted"}
               PROVE  \/ Traced(c)
                      \/ \E s \in SalesOf(confirms[c].ctid) :
                           /\ sale[s].status = "PAID"
                           /\ sale[s].ref \in PaymentsOf(confirms[c].ctid)
    BY DEF AnsweredPaymentKept
  <2>1. CASE cpc[c] = "orphaned"
    BY <1>1, <2>1 DEF PaidInv, Traced
  <2>2. CASE cpc[c] = "alerted"
    <3>1. <<c, delivery[c]>> \in Alert /\ <<c, delivery[c]>>[1] = c
      BY <1>1, <2>2 DEF PaidInv, Alert
    <3> QED BY <1>1, <2>2, <3>1 DEF AlertInv, Traced
  <2>3. CASE cpc[c] \in {"already", "confirmed"}
    <3>1. /\ seen[c] \in Sale /\ sale[seen[c]].status = "PAID"
          /\ SaleCtid(seen[c]) = confirms[c].ctid
          /\ sale[seen[c]].ref \in PaymentsOf(SaleCtid(seen[c]))
      BY <1>1, <2>3 DEF PaidInv, PaymentInv, Found, TypeOK
    <3>2. seen[c] \in SalesOf(confirms[c].ctid)
      BY <3>1 DEF SalesOf
    <3> QED BY <3>1, <3>2
  <2> QED BY <2>1, <2>2, <2>3
<1> QED
  BY <1>1, InitTypeOK, NextTypeOK, InitPaidInv, NextPaidInv, InitAlertInv, NextAlertInv,
     InitPaymentInv, NextNameInv, NextPaymentInv, PTL DEF Spec

\* A payment that is to be refunded does not pay for its sale too, unless another
\* alert of it (its confirmation was delivered again, or sent twice) was resolved
\* by reviving the sale: a failed sale comes back by such an alert only.
THEOREM RefundsNotBooked == Spec => []RefundedPaymentNotBooked
<1>1. ASSUME TypeOK, AlertInv PROVE RefundedPaymentNotBooked
  <2> SUFFICES ASSUME NEW a \in Alert, NEW s, s = alert[a].sale,
                      alert[a].state = "REFUND_REQUIRED", sale[s].status = "PAID",
                      sale[s].ref = confirms[a[1]].ref
               PROVE  \E b \in Alert : /\ alert[b] = [state |-> "REACTIVATE_SALE", sale |-> s]
                                       /\ confirms[b[1]].ref = confirms[a[1]].ref
    BY DEF RefundedPaymentNotBooked
  <2>1. Late(a[1], s)
    BY <1>1 DEF AlertInv
  <2> PICK b \in Alert : /\ alert[b].state = "REACTIVATE_SALE" /\ alert[b].sale = s
                         /\ sale[s].ref = confirms[b[1]].ref
    BY <2>1 DEF Late, FailedOrRevived, Dead
  <2>2. alert[b] = [state |-> "REACTIVATE_SALE", sale |-> s]
    BY <1>1 DEF TypeOK, AlertRow
  <2> QED BY <2>2
<1> QED BY <1>1, AlertInvAlways, PTL
=============================================================================
