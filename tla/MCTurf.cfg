SPECIFICATION Spec
CONSTANTS
  LastMinute = 5
  NULL = NULL
  SlotRule = {s1, s2}
  PricingRule = {p1, p2}
  Booking = {b1}
  Req = {r1}
  RuleRows <- MCRuleRows
  OverrideRows <- MCOverrideRows
  PricingRows <- MCPricingRows
  CouponRows <- MCCouponRows
  PolicyRows <- MCPolicyRows
  Ranges <- MCRanges
  Hours = {0, 5, 30}
  MaxEdits = 3
SYMMETRY Symmetry
INVARIANTS
  OfferedIsBookable
  RunCostsItsSlots
  QuoteIsKept
  RefundIsTheBestReached
CHECK_DEADLOCK FALSE
