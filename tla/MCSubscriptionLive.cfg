SPECIFICATION FairSpec
CONSTANTS
  Booking = {b1, b2, b3}
  Day <- MCDay
  Time <- MCTime
  Coupon = {}
  RefundAmount = {}
  NULL = NULL
  Txn = {t1}
  Sub = {s1}
  Req = {r1, r2}
  Plans <- MCOnePlan
  DaysPerWeek = 1
  MinutesPerDay = 3
  MinutesPerHour = 1
  SLOT_DURATION_MINUTES = 1
  WEEKS_PER_MONTH = 1
  LastDay = 2
  OtherKeys = {}
  OtherSlots = {}
  OtherTargets = {}
  MaxVersion = 1
  OpeningHours = {}
  Grid = 1
PROPERTIES
  PaidIsActivatedOrLost
  RowWaitersAreServed
CHECK_DEADLOCK FALSE
