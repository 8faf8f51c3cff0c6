--------------------------- MODULE PricingEngine ---------------------------
(***************************************************************************)
(* What a checkout charges and a cancellation gives back: the base price   *)
(* (_resolve_base_price), the coupon's discount, the pricing pipeline      *)
(* (app/bookings/pricing_engine.py) and the refund tiers (_compute_refund). *)
(* Money is counted in cents.                                              *)
(***************************************************************************)
EXTENDS Availability, SequencesExt

DefaultTaxRatePct == 18

(* Decimal.quantize: a tie goes to the even neighbour.                     *)
Percent(amount, pct) ==
  LET q == (amount * pct) \div 100
      twice == 2 * ((amount * pct) % 100)
  IN  IF twice < 100 \/ (twice = 100 /\ q % 2 = 0) THEN q ELSE q + 1

Least(a, b) == IF a < b THEN a ELSE b
Greatest(a, b) == IF a > b THEN a ELSE b

(* Mutant: no slot is charged for a range shorter than one.                *)
RulePriceOfWholeSlots(rule, range) ==
  rule.price * ((range.end - range.start) \div Greatest(rule.duration, 1))

RulePrice(rule, range) ==
  rule.price * Greatest(1, (range.end - range.start) \div Greatest(rule.duration, 1))

(* The query looks at neither the validity window, nor the slot type, nor  *)
(* the overrides, and takes any one of the rules it finds.                 *)
BasePrices(rules, range) ==
  {RulePrice(rule, range) : rule \in {r \in rules : r.active /\ Within(range, r)}}

(* A code's validity window is compared with the date it is now.           *)
Validity == {"later", "now", "past"}

(* validate_and_compute_discount; a refused code is worth nothing.  The    *)
(* pipeline never passes a coupon on, so its rules do not see it.          *)
CouponDiscount(coupon, amount) ==
  IF \/ coupon = NULL
     \/ coupon.validity # "now"
     \/ amount < coupon.min_booking_amount
  THEN 0
  ELSE LET percentage == Percent(amount, coupon.value)
           discount == CASE coupon.type # "percentage" -> coupon.value
                         [] coupon.max_discount = NULL -> percentage
                         [] OTHER -> Least(percentage, coupon.max_discount)
       IN  Least(discount, amount)

(* A rule's conditions are kept as the start times of the day they accept. *)
MatchesConditions(rule, range) == rule.active /\ range.start \in rule.starts

Effect(rule, price) ==
  CASE rule.adjustment = "fixed" -> rule.value
    [] rule.adjustment = "percentage" -> Percent(price, rule.value)
    [] rule.adjustment = "override" -> rule.value - price
    [] OTHER -> 0

(* Of the rules of one type that do not stack, the first applies.          *)
ApplyRule(running, rule) ==
  IF ~rule.stackable /\ rule.type \in running.exclusive THEN running
  ELSE [price |-> running.price + Effect(rule, running.price),
        exclusive |-> running.exclusive \cup (IF rule.stackable THEN {} ELSE {rule.type})]

Adjusted(order, base) == FoldLeft(ApplyRule, [price |-> base, exclusive |-> {}], order).price

(* Total of one run: discounts never go below zero, then tax.              *)
Total(order, base, discount) ==
  LET subtotal == Greatest(Adjusted(order, base) - discount, 0)
  IN  subtotal + Percent(subtotal, DefaultTaxRatePct)

(* ORDER BY priority leaves rules of one priority in any order.            *)
Orders(rules, range) ==
  LET matching == {k \in DOMAIN rules : MatchesConditions(rules[k], range)}
  IN  {order \in {[i \in DOMAIN keys |-> rules[keys[i]]] : keys \in SetToSeqs(matching)} :
         \A i, j \in DOMAIN order : i < j => order[i].priority <= order[j].priority}

Totals(rules, range, base, discount) ==
  {Total(order, base, discount) : order \in Orders(rules, range)}

(* Mutant: the tiers are sorted the wrong way round.                       *)
LowestTierReached(tiers, hours) ==
  LET reached == {i \in DOMAIN tiers : hours >= tiers[i].hours_before}
      chosen == CHOOSE i \in reached : \A j \in reached :
                  tiers[i].hours_before <= tiers[j].hours_before
  IN  IF reached = {} THEN 0 ELSE tiers[chosen].refund_pct

(* The first tier that is reached, in descending order of hours_before;    *)
(* tiers of equal hours keep the order of the list.                        *)
RefundPct(tiers, hours) ==
  LET reached == {i \in DOMAIN tiers : hours >= tiers[i].hours_before}
      chosen == CHOOSE i \in reached : \A j \in reached :
                  \/ tiers[i].hours_before > tiers[j].hours_before
                  \/ tiers[i].hours_before = tiers[j].hours_before /\ i <= j
  IN  IF reached = {} THEN 0 ELSE tiers[chosen].refund_pct

(* Any of the default policies is found (nothing makes one inactive);      *)
(* without one all is given back.  hours is what the code takes for the    *)
(* notice: the slot's local time read as UTC, less now, and never below 0. *)
Refunds(policies, price, hours) ==
  LET defaults == {p \in policies : p.is_default}
  IN  IF defaults = {} THEN {price}
      ELSE {Percent(price, RefundPct(p.tiers, hours)) : p \in defaults}

=============================================================================
