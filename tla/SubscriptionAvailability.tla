---------------------- MODULE SubscriptionAvailability ----------------------
(***************************************************************************)
(* The availability query of app/subscriptions/service.py: which weekly    *)
(* slots are offered to somebody who chooses a subscription today.  It     *)
(* shares no code with the checks that initiate makes.                     *)
(***************************************************************************)
EXTENDS SubscriptionService

CONSTANTS OpeningHours,  \* what a turf's operating_hours may say of a weekday
          Grid           \* minutes between two candidates

ASSUME OpeningAssumption ==
  /\ OpeningHours \subseteq [open : Time, close : Time]
  /\ Grid \in Nat \ {0} /\ MinutesPerDay % Grid = 0

(* The turf's hours, narrowed by the window of the plan (NULL: no plan).   *)
Opening(plan, hours) ==
  IF plan # NULL /\ plan.slot_window_start # NULL /\ plan.slot_window_start > hours.open
  THEN plan.slot_window_start ELSE hours.open

Closing(plan, hours) ==
  IF plan # NULL /\ plan.slot_window_end # NULL /\ plan.slot_window_end < hours.close
  THEN plan.slot_window_end ELSE hours.close

(* The starts the loop visits before midnight, and the last it may offer.  *)
Cursors(open) == {c \in Time : c >= open /\ (c - open) % Grid = 0}
EndLimit(close, duration) == AddMinutes(close, -duration)

(* The loop stops.  (Else it passes midnight, where the cursor starts      *)
(* again, and goes round for ever.)                                        *)
Ends(open, close, duration) == \E c \in Cursors(open) : c > EndLimit(close, duration)

Candidates(plan, hours, duration) ==
  LET open == Opening(plan, hours)
      close == Closing(plan, hours)
  IN {c \in Cursors(open) : /\ plan # NULL => open < close
                            /\ c <= EndLimit(close, duration)}

(* The dates of the bookings that are loaded.                              *)
CandidateDates(dow) ==
  {NextOccurrence(dow, today) + DaysPerWeek * i : i \in 0 .. WEEKS_PER_MONTH - 1}

FutureBookings(dow) ==
  {b \in Booking : IsLive(b) /\ bookings[b].slot.day \in CandidateDates(dow)}

SlotsOf(s) == {subs[s].slots[i] : i \in DOMAIN subs[s].slots}

(* Mutant: an unpaid subscription does not hold its slots.                 *)
HeldIfActive(dow) ==
  UNION {{v \in SlotsOf(s) : v.day_of_week = dow} :
           s \in {s \in Sub : subs[s].status = "active"}}

(* The slots of subscriptions, paid or not yet, on that weekday.           *)
HeldWeekly(dow) ==
  UNION {{v \in SlotsOf(s) : v.day_of_week = dow} :
           s \in {s \in Sub : subs[s].status \in {"pending", "active"}}}

Meets(x, start, end) == x.start_time < end /\ x.end_time > start

(* The candidate starts that are shown as available.                       *)
Offered(dow, plan, hours, duration) ==
  {c \in Candidates(plan, hours, duration) :
     LET slot_end == AddMinutes(c, duration)
     IN /\ \A b \in FutureBookings(dow) : ~Meets(bookings[b].slot, c, slot_end)
        /\ \A v \in HeldWeekly(dow) : ~Meets(v, c, slot_end)}

=============================================================================
