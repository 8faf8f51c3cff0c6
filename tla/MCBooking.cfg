SPECIFICATION Spec
CONSTANTS
  Booking = {b1, b2}
  Day = {d1}
  Time <- MCTwoTimes
  Coupon = {c1}
  RefundAmount <- MCRefund
  NULL = NULL
  MaxUses = 1
  MaxRows = 2
  Txn = {t1}
  Req = {r1, r2}
SYMMETRY Symmetry
INVARIANTS
  IndInv
  CheckedStaysClear
  OverlapOnlyIfRevived
  LockHasLiveOwner
  FinishedWasConfirmed
  CancellationIsRecorded
  EventsReportCommits
  NoCouponUseWithoutBooking
CHECK_DEADLOCK FALSE
