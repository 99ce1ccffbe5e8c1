\* Two sales compete for the last units; two payments of the first are confirmed;
\* records may be purged while their request still runs.
SPECIFICATION Spec
CONSTANTS
  cafe = cafe  f1 = f1  f2 = f2  x1 = x1  x2 = x2  v1 = v1  v2 = v2  noRef = noRef
  r1 = r1  r2 = r2  r3 = r3  c1 = c1  c2 = c2
  Request = {r1, r2}  Confirmation = {c1, c2}  Ctid = {x1, x2}  Fingerprint = {f1, f2}
  Product = {cafe}  Reference = {v1, v2}  NoRef = noRef
  payload <- RivalPayload  confirms <- TwoVouchers  InitialStock <- Stock2
  MaxSales = 2  MaxTurns = 2  MaxDeliveries = 1  LateResend = TRUE
INVARIANTS TypeOK StockConserved HeldExactlyWhileLive BookedExactlyOnce
  ResolvedOrphanIsPaid AnsweredPaymentKept
PROPERTIES RevivedOnlyByResolution ImplementsLedger
\* Requests, confirmations and turns are finite: when all are served it stops.
CHECK_DEADLOCK FALSE
