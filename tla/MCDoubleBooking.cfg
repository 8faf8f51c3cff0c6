SPECIFICATION Spec
CONSTANTS
  Booking = {b1, b2}
  Day = {d1}
  Time <- MCTime
  Coupon = {}
  RefundAmount <- MCRefund
  NULL = NULL
  MaxUses = 1
  MaxRows = 1
  Txn = {t1}
  Req = {r1, r2}
SYMMETRY Symmetry
INVARIANTS
  NoDoubleBooking
CHECK_DEADLOCK FALSE
