---------------------------- MODULE TurfService ----------------------------
(***************************************************************************)
(* One turf and one date: administrators edit slot rules, overrides,       *)
(* pricing rules, coupons and refund policies (app/turfs/service.py,       *)
(* app/bookings/router.py) while a customer previews a price, books, and   *)
(* cancels (app/bookings/service.py).  A checkout is a sequence of reads   *)
(* of committed data, each of which may see other edits.                   *)
(***************************************************************************)
EXTENDS PricingEngine

CONSTANTS SlotRule, PricingRule, Booking, Req,
          RuleRows,      \* bound: the slot rules administrators write
          OverrideRows,  \* bound: the overrides they write
          PricingRows,   \* bound: the pricing rules
          CouponRows,    \* bound: what a coupon code is worth
          PolicyRows,    \* bound: the refund policies
          Ranges,        \* bound: the ranges customers ask for
          Hours,         \* bound: hours from a cancellation to its booking
          MaxEdits       \* bound: edits of administrators

(* A slot takes time, as creation requires; an update that takes it away   *)
(* would keep the generator from ending.  After one, a price may be below  *)
(* zero.  valid: is the date inside the rule's validity window?            *)
RuleRow == [start : TimeOfDay, end : TimeOfDay, duration : Nat \ {0}, price : Int,
            type : STRING, capacity : Int, active : BOOLEAN, valid : BOOLEAN]

OverrideRow == [type : STRING, start : TimeOfDay \cup {NULL},
                end : TimeOfDay \cup {NULL}, price : Int \cup {NULL}]

(* starts: the start times that meet the conditions.                       *)
PricingRow == [type : STRING, priority : Int, adjustment : STRING, value : Int,
               stackable : BOOLEAN, starts : SUBSET TimeOfDay, active : BOOLEAN]

CouponRow == [type : STRING, value : Int, max_discount : Int \cup {NULL},
              min_booking_amount : Int, validity : Validity]

PolicyRow == [tiers : Seq([hours_before : Int, refund_pct : Int]), is_default : BOOLEAN]

ASSUME TurfAssumption ==
  /\ IsFiniteSet(PricingRule) /\ IsFiniteSet(Booking)
  /\ RuleRows \subseteq RuleRow /\ OverrideRows \subseteq OverrideRow
  /\ PricingRows \subseteq PricingRow /\ CouponRows \subseteq CouponRow
  /\ PolicyRows \subseteq PolicyRow
  /\ Ranges \subseteq [start : TimeOfDay, end : TimeOfDay]
  /\ Hours \subseteq Int

VARIABLES rules,      \* slot rules of the date's weekday, by key
          overrides,  \* overrides of the date
          pricing,    \* pricing rules, by key
          coupon,     \* what the customer's coupon code stands for, if anything
          policies,
          bookings,   \* by key: range, price and whether it holds its slot
          req,
          edits       \* history: edits so far

tables == <<rules, overrides, pricing, coupon, policies>>
vars == <<tables, bookings, req, edits>>

Absent == [present |-> FALSE]
Idle == [pc |-> "idle"]

Rules == {rules[k] : k \in {k \in SlotRule : rules[k] # Absent}}
PricingRules == [k \in {k \in PricingRule : pricing[k] # Absent} |-> pricing[k]]
Taken == {bookings[b] : b \in {b \in Booking : bookings[b] # Absent /\ bookings[b].live}}

(* Every checkout may have looked at something that is old by now.         *)
Overtaken ==
  /\ req' = [r \in Req |-> IF req[r] = Idle THEN Idle ELSE [req[r] EXCEPT !.stale = TRUE]]
  /\ UNCHANGED bookings

(* An edit by an administrator (or, of a coupon, its last use by another   *)
(* customer).                                                              *)
Edited ==
  /\ edits < MaxEdits
  /\ edits' = edits + 1
  /\ Overtaken

CreateSlotRule ==
  /\ \E k \in SlotRule, row \in RuleRows :
       rules[k] = Absent /\ row.active /\ rules' = [rules EXCEPT ![k] = row]
  /\ Edited /\ UNCHANGED <<overrides, pricing, coupon, policies>>

(* The validity window is not among the fields that an update may set.     *)
UpdateSlotRule ==
  /\ \E k \in SlotRule, row \in RuleRows :
       /\ rules[k] \notin {Absent, row}
       /\ row.valid = rules[k].valid
       /\ rules' = [rules EXCEPT ![k] = row]
  /\ Edited /\ UNCHANGED <<overrides, pricing, coupon, policies>>

DeleteSlotRule ==
  /\ \E k \in SlotRule : rules[k] # Absent /\ rules' = [rules EXCEPT ![k] = Absent]
  /\ Edited /\ UNCHANGED <<overrides, pricing, coupon, policies>>

(* A start is unique on its date; NULLs differ from each other.            *)
CreateOverride ==
  /\ \E row \in OverrideRows \ overrides :
       /\ row.start = NULL \/ \A o \in overrides : o.start # row.start
       /\ overrides' = overrides \cup {row}
  /\ Edited /\ UNCHANGED <<rules, pricing, coupon, policies>>

DeleteOverride ==
  /\ \E row \in overrides : overrides' = overrides \ {row}
  /\ Edited /\ UNCHANGED <<rules, pricing, coupon, policies>>

CreatePricingRule ==
  /\ \E k \in PricingRule, row \in PricingRows :
       pricing[k] = Absent /\ row.active /\ pricing' = [pricing EXCEPT ![k] = row]
  /\ Edited /\ UNCHANGED <<rules, overrides, coupon, policies>>

UpdatePricingRule ==
  /\ \E k \in PricingRule, row \in PricingRows :
       pricing[k] \notin {Absent, row} /\ pricing' = [pricing EXCEPT ![k] = row]
  /\ Edited /\ UNCHANGED <<rules, overrides, coupon, policies>>

DeletePricingRule ==
  /\ \E k \in PricingRule : pricing[k] # Absent /\ pricing' = [pricing EXCEPT ![k] = Absent]
  /\ Edited /\ UNCHANGED <<rules, overrides, coupon, policies>>

ChangeCoupon ==
  /\ \E row \in (CouponRows \cup {NULL}) \ {coupon} : coupon' = row
  /\ Edited /\ UNCHANGED <<rules, overrides, pricing, policies>>

(* No edit: a midnight begins or ends the validity of the code.            *)
MidnightPasses ==
  /\ coupon # NULL
  /\ \/ coupon.validity = "later" /\ coupon' = [coupon EXCEPT !.validity = "now"]
     \/ coupon.validity = "now" /\ coupon' = [coupon EXCEPT !.validity = "past"]
  /\ Overtaken /\ UNCHANGED <<rules, overrides, pricing, policies, edits>>

(* A policy is never changed, and a new default displaces no other.        *)
CreatePolicy ==
  /\ \E row \in PolicyRows \ policies : policies' = policies \cup {row}
  /\ Edited /\ UNCHANGED <<rules, overrides, pricing, coupon>>

Goto(r, rec) == req' = [req EXCEPT ![r] = rec]

(* A customer who asks for a preview or a booking; the price that a        *)
(* preview showed before is the quote.                                     *)
Checkout(op, range, quote, stale) ==
  [pc |-> "resolve", op |-> op, range |-> range, quote |-> quote, stale |-> stale]

(* preview_price: no lock, no conflict query.                              *)
PreviewPrice(r) ==
  /\ req[r] = Idle
  /\ \E range \in Ranges : Goto(r, Checkout("preview", range, NULL, FALSE))
  /\ UNCHANGED <<tables, bookings, edits>>

Creating(r) == req[r].pc \in {"resolve", "coupon", "pricing"} /\ req[r].op = "create"

(* create_booking, up to the conflict query, after a preview or without    *)
(* one: the date's advisory lock is held from here to the commit.          *)
CreateBooking(r) ==
  /\ \A s \in Req : ~Creating(s)
  /\ \E range \in Ranges :
       /\ \A t \in Taken : ~Overlaps(t, range)
       /\ \/ req[r] = Idle /\ Goto(r, Checkout("create", range, NULL, FALSE))
          \/ /\ req[r].pc = "previewed" /\ req[r].range = range
             /\ Goto(r, Checkout("create", range, req[r].quote, req[r].stale))
  /\ UNCHANGED <<tables, bookings, edits>>

(* Mutant: the preview shows the price of one slot of the range.           *)
ResolveOneSlot(r) ==
  /\ req[r].pc = "resolve"
  /\ \E rule \in {x \in Rules : x.active /\ Within(req[r].range, x)} :
       Goto(r, [pc |-> "coupon", op |-> req[r].op, range |-> req[r].range,
                quote |-> req[r].quote, stale |-> req[r].stale,
                base |-> IF req[r].op = "preview" THEN rule.price
                         ELSE RulePrice(rule, req[r].range)])
  /\ UNCHANGED <<tables, bookings, edits>>

ResolveBasePrice(r) ==
  /\ req[r].pc = "resolve"
  /\ \E base \in BasePrices(Rules, req[r].range) :
       Goto(r, [pc |-> "coupon", op |-> req[r].op, range |-> req[r].range,
                quote |-> req[r].quote, stale |-> req[r].stale, base |-> base])
  /\ UNCHANGED <<tables, bookings, edits>>

ApplyCoupon(r) ==
  /\ req[r].pc = "coupon"
  /\ Goto(r, [pc |-> "pricing", op |-> req[r].op, range |-> req[r].range,
              quote |-> req[r].quote, stale |-> req[r].stale, base |-> req[r].base,
              discount |-> CouponDiscount(coupon, req[r].base)])
  /\ UNCHANGED <<tables, bookings, edits>>

ComputedTotals(r) == Totals(PricingRules, req[r].range, req[r].base, req[r].discount)

ShowQuote(r) ==
  /\ req[r].pc = "pricing" /\ req[r].op = "preview"
  /\ \E total \in ComputedTotals(r) :
       Goto(r, [pc |-> "previewed", range |-> req[r].range, quote |-> total,
                stale |-> req[r].stale])
  /\ UNCHANGED <<tables, bookings, edits>>

(* The pricing rules are read and the row is inserted; nothing that the    *)
(* insert depends on is read between the two.                              *)
InsertBooking(r) ==
  /\ req[r].pc = "pricing" /\ req[r].op = "create"
  /\ \E b \in Booking, total \in ComputedTotals(r) :
       /\ bookings[b] = Absent
       /\ bookings' = [bookings EXCEPT ![b] =
            [start |-> req[r].range.start, end |-> req[r].range.end, live |-> TRUE,
             final_price |-> total, refund_amount |-> NULL]]
       /\ Goto(r, [pc |-> "booked", range |-> req[r].range, quote |-> req[r].quote,
                   stale |-> req[r].stale, booking |-> b])
  /\ UNCHANGED <<tables, edits>>

(* The request ends, answered or not.                                      *)
Leave(r) ==
  /\ req[r] # Idle
  /\ Goto(r, Idle)
  /\ UNCHANGED <<tables, bookings, edits>>

(* cancel_booking, of which only the refund matters here.                  *)
CancelBooking ==
  /\ \E b \in Booking :
       /\ bookings[b] # Absent /\ bookings[b].live
       /\ \E hours \in Hours :
            \E refund \in Refunds(policies, bookings[b].final_price, hours) :
              bookings' = [bookings EXCEPT ![b].live = FALSE, ![b].refund_amount = refund]
  /\ UNCHANGED <<tables, req, edits>>

Init ==
  /\ rules = [k \in SlotRule |-> Absent]
  /\ overrides = {}
  /\ pricing = [k \in PricingRule |-> Absent]
  /\ coupon = NULL
  /\ policies = {}
  /\ bookings = [b \in Booking |-> Absent]
  /\ req = [r \in Req |-> Idle]
  /\ edits = 0

Edit ==
  \/ CreateSlotRule \/ UpdateSlotRule \/ DeleteSlotRule
  \/ CreateOverride \/ DeleteOverride
  \/ CreatePricingRule \/ UpdatePricingRule \/ DeletePricingRule
  \/ ChangeCoupon \/ CreatePolicy

Customer(r) ==
  \/ PreviewPrice(r) \/ CreateBooking(r) \/ ResolveBasePrice(r) \/ ApplyCoupon(r)
  \/ ShowQuote(r) \/ InsertBooking(r) \/ Leave(r)

Next == Edit \/ MidnightPasses \/ CancelBooking \/ \E r \in Req : Customer(r)

Spec == Init /\ [][Next]_vars

=============================================================================
