\* A confirmation that comes while its sale is being registered.
SPECIFICATION Spec
CONSTANTS
  cafe = cafe  f1 = f1  f2 = f2  x1 = x1  x2 = x2  v1 = v1  v2 = v2  noRef = noRef
  r1 = r1  r2 = r2  r3 = r3  c1 = c1  c2 = c2
  Request = {r1}  Confirmation = {c1}  Ctid = {x1}  Fingerprint = {f1, f2}
  Product = {cafe}  Reference = {v1, v2}  NoRef = noRef
  payload <- OneCard  confirms <- OneVoucher  InitialStock <- Stock2
  MaxSales = 1  MaxTurns = 1  MaxDeliveries = 1  LateResend = FALSE
INVARIANTS OrphanMeetsItsSale
\* Requests, confirmations and turns are finite: when all are served it stops.
CHECK_DEADLOCK FALSE
