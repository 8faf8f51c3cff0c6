------------------------------- MODULE MCTurf -------------------------------
(***************************************************************************)
(* TurfService for TLC: a day of six moments.                              *)
(***************************************************************************)
EXTENDS TurfProperties, TLC

Rule(start, end, duration, price) ==
  [start |-> start, end |-> end, duration |-> duration, price |-> price,
   type |-> "regular", capacity |-> 1, active |-> TRUE, valid |-> TRUE]

\* Among them: a last slot cut short, one switched off, one expired, a closed
\* court, two places.
MCRuleRows ==
  {Rule(0, 5, 2, 100), Rule(1, 4, 2, 125),
   [Rule(0, 5, 3, 75) EXCEPT !.capacity = 2],
   [Rule(0, 5, 2, 100) EXCEPT !.active = FALSE],
   [Rule(0, 4, 1, 50) EXCEPT !.valid = FALSE],
   [Rule(0, 4, 1, 50) EXCEPT !.type = "maintenance"]}

Override(type, start, end, price) ==
  [type |-> type, start |-> start, end |-> end, price |-> price]

MCOverrideRows ==
  {Override("blocked", NULL, NULL, NULL), Override("blocked", 1, 2, NULL),
   Override("blocked", 3, NULL, NULL), Override("price_change", 0, 3, 60)}

Pricing(type, priority, adjustment, value, stackable) ==
  [type |-> type, priority |-> priority, adjustment |-> adjustment, value |-> value,
   stackable |-> stackable, starts |-> {0, 1, 2}, active |-> TRUE]

MCPricingRows ==
  {Pricing("peak", 0, "percentage", 25, TRUE), Pricing("peak", 1, "fixed", -90, FALSE),
   Pricing("peak", 1, "override", 41, FALSE)}

MCCouponRows ==
  {[type |-> "percentage", value |-> 50, max_discount |-> 60, min_booking_amount |-> 100,
    validity |-> "now"],
   [type |-> "flat", value |-> 500, max_discount |-> NULL, min_booking_amount |-> 0,
    validity |-> "later"]}

Tier(hours, pct) == [hours_before |-> hours, refund_pct |-> pct]

MCPolicyRows ==
  {[tiers |-> <<Tier(24, 100), Tier(4, 50)>>, is_default |-> TRUE],
   [tiers |-> <<Tier(0, 25), Tier(24, 75), Tier(4, 75)>>, is_default |-> TRUE],
   [tiers |-> <<>>, is_default |-> FALSE]}

MCRanges == {[start |-> 0, end |-> 4], [start |-> 1, end |-> 3], [start |-> 2, end |-> 5]}

Symmetry == Permutations(SlotRule) \cup Permutations(PricingRule)

=============================================================================
