SPECIFICATION FairSpec
CONSTANTS
  Booking = {b1}
  Day = {d1}
  Time <- MCTimes
  Coupon = {}
  RefundAmount <- MCRefund
  NULL = NULL
  Txn = {t1}
  Req = {r1, r2}
  MaxVersion = 2
  MaxRefunds = 1
  OtherSlots <- MCOtherSlots
  SecretConfigured = FALSE

PROPERTIES
  CapturedLeavesPending
CHECK_DEADLOCK FALSE
