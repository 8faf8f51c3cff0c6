SPECIFICATION Spec
CONSTANTS
  Booking = {b1}
  Day = {d1}
  Time <- MCTimes
  Coupon = {}
  RefundAmount <- MCRefund
  NULL = NULL
  Txn = {t1}
  Req = {r1, r2}
  MaxVersion = 2
  MaxRefunds = 2
  OtherSlots <- MCOtherSlots
  SecretConfigured = TRUE
SYMMETRY Symmetry
INVARIANTS
  SuccessLeavesPending
  ReceiptsAreTrue
  RecordedRefundsWereMade
  OneConfirmsAtATime
  IndInv
PROPERTIES
  ImplementsLedger
CHECK_DEADLOCK FALSE
