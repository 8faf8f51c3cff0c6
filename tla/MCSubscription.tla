--------------------------- MODULE MCSubscription ---------------------------
(***************************************************************************)
(* SubscriptionService for TLC: weeks of one day, and days of a few        *)
(* "minutes".                                                              *)
(***************************************************************************)
EXTENDS SubscriptionProperties, TLC

MCTime == 0 .. MinutesPerDay - 1
MCDay == 1 .. LastDay + DaysPerWeek * (WEEKS_PER_MONTH + 1) - 2

\* One slot a week, before noon; two slots a week, after it.  (Both allow the
\* last slot of the day, whose derived end is minute 0.)
OneSlot == [hours_per_month |-> 0, slot_window_start |-> NULL, slot_window_end |-> 1]
TwoSlots == [hours_per_month |-> 2 * WEEKS_PER_MONTH, slot_window_start |-> 1, slot_window_end |-> 2]
MCOnePlan == {OneSlot}
MCTwoPlans == {OneSlot, TwoSlots}

\* A day that closes at its last minute, and one that closes at its first.
MCOpeningHours == {[open |-> 0, close |-> MinutesPerDay - 1], [open |-> 0, close |-> 0]}

\* Somebody else's booking, longer than a weekly slot.
MCOtherSlots == {[day |-> 1, start_time |-> 0, end_time |-> 2]}

Symmetry == Permutations(Req) \cup Permutations(OtherKeys)
              \cup Permutations(Booking \ OtherKeys)
              \cup Permutations(Sub) \cup Permutations(Txn)

=============================================================================
