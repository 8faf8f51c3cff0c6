--------------------------- MODULE TurfProperties ---------------------------
(***************************************************************************)
(* What a customer may rely on between the list of slots, the price, the   *)
(* booking and the refund.                                                 *)
(***************************************************************************)
EXTENDS TurfService

Unique(S) == \A x, y \in S : x = y

(* A slot that the list of available slots offers, for one booking at a    *)
(* time, is one that create_booking would accept.  The base price shown is *)
(* one that the booking may be charged, and the one it is charged if the   *)
(* active rules around the slot agree; it may be another one if they do    *)
(* not (one of them expired, or of another type), or if an override        *)
(* repriced the slot.  Generation and marking of slots share no code with  *)
(* the conflict query and _resolve_base_price.  Slots cut short at 23:59   *)
(* are included.                                                           *)
OfferedIsBookable ==
  \A offer \in Offers(Rules, overrides, Taken) :
    offer.available /\ offer.rule.capacity <= 1 =>
      LET charges == BasePrices(Rules, offer.slot)
      IN  /\ \A t \in Taken : ~Overlaps(t, offer.slot)
          /\ Repriced(offer.slot, overrides) = {} =>
               /\ offer.prices \subseteq charges
               /\ Unique(charges) => charges = offer.prices

CutShort(rule, slot) == slot.end - slot.start < rule.duration

(* A run of consecutive slots of one rule costs what its slots cost one by *)
(* one.  The exception is a last slot cut short at 23:59, which is free in *)
(* a run of two or more, and never adds a charge.                          *)
RunCostsItsSlots ==
  \A rule \in Rules : \A first, last \in SlotsOf(rule) :
    first.start <= last.start =>
      LET run == [start |-> first.start, end |-> last.end]
          slots == Cardinality({s \in SlotsOf(rule) : Within(s, run)})
          free == IF slots > 1 /\ CutShort(rule, last) THEN 1 ELSE 0
      IN  RulePrice(rule, run) = rule.price * (slots - free)

(* The price that was previewed is the price of the booking, if nothing    *)
(* was edited between preview and commit, no midnight began or ended the   *)
(* validity of the coupon, and neither two slot rules nor two pricing      *)
(* rules of equal priority leave it to the database which one comes first. *)
QuoteIsKept ==
  \A r \in Req :
    /\ req[r] # Idle /\ req[r].pc = "booked" /\ req[r].quote # NULL /\ ~req[r].stale
    /\ Unique(BasePrices(Rules, req[r].range))
    /\ Unique(Orders(PricingRules, req[r].range))
    => bookings[req[r].booking].final_price = req[r].quote

(* Tiers are fair if they give percentages, and more notice never earns    *)
(* less.                                                                   *)
Fair(tiers) ==
  /\ \A i \in DOMAIN tiers : tiers[i].refund_pct \in 0 .. 100
  /\ \A i, j \in DOMAIN tiers :
       tiers[i].hours_before >= tiers[j].hours_before
         => tiers[i].refund_pct >= tiers[j].refund_pct

BestReached(tiers, hours) ==
  Max({0} \cup {tiers[i].refund_pct : i \in {i \in DOMAIN tiers : hours >= tiers[i].hours_before}})

(* Under fair tiers, in whatever order the policy lists them, a customer   *)
(* gets back the best percentage of those whose notice was kept; never     *)
(* more than the price.                                                    *)
RefundIsTheBestReached ==
  \A policy \in policies : \A hours \in Hours : Fair(policy.tiers) =>
    \A b \in Booking : bookings[b] # Absent =>
      LET price == bookings[b].final_price
          refund == Percent(price, RefundPct(policy.tiers, hours))
      IN  /\ refund = Percent(price, BestReached(policy.tiers, hours))
          /\ refund <= price

=============================================================================
