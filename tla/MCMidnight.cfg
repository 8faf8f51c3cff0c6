SPECIFICATION Spec
CONSTANTS
  Booking = {b1}
  Day <- MCDay
  Time <- MCTime
  Coupon = {}
  RefundAmount = {}
  NULL = NULL
  Txn = {t1}
  Sub = {s1}
  Req = {r1, r2}
  Plans <- MCTwoPlans
  DaysPerWeek = 1
  MinutesPerDay = 3
  MinutesPerHour = 1
  SLOT_DURATION_MINUTES = 1
  WEEKS_PER_MONTH = 2
  LastDay = 1
  OtherKeys = {}
  OtherSlots = {}
  OtherTargets = {}
  MaxVersion = 2
  OpeningHours <- MCOpeningHours
  Grid = 1
SYMMETRY Symmetry
INVARIANTS
  PickedSlotsAreDisjoint
CHECK_DEADLOCK FALSE
