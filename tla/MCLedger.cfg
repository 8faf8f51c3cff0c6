SPECIFICATION FairSpec
CONSTANTS
  Booking = {b1, b2}
  Day = {d1}
  Time <- MCTwoTimes
  Coupon = {}
  RefundAmount <- MCRefund
  NULL = NULL
  MaxUses = 1
  MaxRows = 1
  Txn = {t1, t2}
  Req = {r1, r2}
PROPERTIES
  ImplementsLedger
  WaitersAreServed
CHECK_DEADLOCK FALSE
