---------------------------- MODULE Availability ----------------------------
(***************************************************************************)
(* The availability engine (app/turfs/availability.py) for one turf and    *)
(* date: slots are generated from rules, thinned and repriced by the       *)
(* date's overrides, and marked by the live bookings.  A time is a number  *)
(* of minutes since midnight; LastMinute is 23:59.                         *)
(***************************************************************************)
EXTENDS Integers, FiniteSets

CONSTANTS LastMinute, NULL

ASSUME LastMinuteAssumption == LastMinute \in Nat /\ NULL \notin Nat

TimeOfDay == 0 .. LastMinute

Overlaps(s, t) == s.start < t.end /\ s.end > t.start

Within(s, t) == s.start >= t.start /\ s.end <= t.end

(* _add_minutes: a day never ends after 23:59.                             *)
AddMinutes(t, minutes) == IF t + minutes > LastMinute THEN LastMinute ELSE t + minutes

(* _load_slot_rules: active, and the date inside its validity window.      *)
InForce(rule) == rule.active /\ rule.valid

(* The cursor's walk through a rule: blocked slots are stepped over.       *)
SlotsOf(rule) ==
  {[start |-> c, end |-> AddMinutes(c, rule.duration)] :
     c \in {t \in rule.start .. rule.end - 1 :
              /\ (t - rule.start) % rule.duration = 0
              /\ AddMinutes(t, rule.duration) <= rule.end}}

(* A block without a start closes the day; one with only a start is void.  *)
DayBlocked(overrides) == \E o \in overrides : o.type = "blocked" /\ o.start = NULL

Ranged(overrides, type) ==
  {o \in overrides : o.type = type /\ o.start # NULL /\ o.end # NULL}

Blocked(slot, overrides) == \E o \in Ranged(overrides, "blocked") : Overlaps(slot, o)

Repriced(slot, overrides) ==
  {o \in Ranged(overrides, "price_change") : o.price # NULL /\ Within(slot, o)}

(* Overrides come in no order, and the first that covers the slot counts.  *)
ShownPrices(rule, slot, overrides) ==
  IF Repriced(slot, overrides) = {} THEN {rule.price}
  ELSE {o.price : o \in Repriced(slot, overrides)}

(* Mutant: a booking marks only the slot that starts with it.              *)
MarkedByStart(rule, slot, taken) ==
  LET n == Cardinality({t \in taken : t.start = slot.start})
  IN  n = 0 \/ n < rule.capacity

(* _mark_conflicts: the capacity is looked at after each overlap only.     *)
StillAvailable(rule, slot, taken) ==
  LET n == Cardinality({t \in taken : Overlaps(t, slot)})
  IN  n = 0 \/ n < rule.capacity

(* compute_availability; two rules may offer the same slot.                *)
Offers(rules, overrides, taken) ==
  IF DayBlocked(overrides) THEN {}
  ELSE UNION {{[rule |-> rule, slot |-> slot,
                prices |-> ShownPrices(rule, slot, overrides),
                available |-> StillAvailable(rule, slot, taken)] :
                 slot \in {s \in SlotsOf(rule) : ~Blocked(s, overrides)}} :
               rule \in {r \in rules : InForce(r) /\ r.type \notin {"blocked", "maintenance"}}}

=============================================================================
