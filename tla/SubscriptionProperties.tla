----------------------- MODULE SubscriptionProperties -----------------------
(***************************************************************************)
(* What initiation, activation and cancellation of subscriptions keep true *)
(* together with the bookings of everybody else.                           *)
(***************************************************************************)
EXTENDS SubscriptionAvailability

(* Types of the tables, of the locks and of the requests in flight.        *)
TypeOK ==
  /\ BookingTableTypeOK /\ PaymentTableTypeOK
  /\ subs \in [Sub -> SubRow \cup {NoSub}]
  /\ child \in [Booking -> Sub \cup {NULL}]
  /\ sublock \in [Sub -> Req \cup {NULL}]
  /\ req \in [Req -> Request \cup {Idle}]
  /\ creating \in Slot \cup {NULL}
  /\ today \in Nat
  /\ verified \in SUBSET Txn /\ lost \in SUBSET Txn

(***************************************************************************)
(* A cancelled subscription keeps none of the bookings that its            *)
(* cancellation was about, however it raced with an activation: the one    *)
(* that flushes second reads what the first has committed.                 *)
(***************************************************************************)
CancelledHasNoLiveChildren ==
  \A s \in Sub : subs[s].status = "cancelled" =>
    LiveChildren(s, subs[s].cancelled_from) = {}

-----------------------------------------------------------------------------
(* What a range of times stands for, on real clocks.                       *)

(* The conflict queries compare times of day; they see nothing of a range  *)
(* that ends before it starts.                                             *)
PassesMidnight(x) == x.end_time < x.start_time

(* The minutes from start to end, which may be on the day after.           *)
Minutes(day, x) ==
  IF PassesMidnight(x)
  THEN ({day} \X (x.start_time .. MinutesPerDay - 1)) \cup ({day + 1} \X (0 .. x.end_time - 1))
  ELSE {day} \X (x.start_time .. x.end_time - 1)

Meet(dx, x, dy, y) == Minutes(dx, x) \cap Minutes(dy, y) # {}

(* Two live bookings take a common minute.                                 *)
BothTake(b, c) ==
  /\ IsLive(b) /\ IsLive(c)
  /\ Meet(bookings[b].slot.day, bookings[b].slot, bookings[c].slot.day, bookings[c].slot)

(* Two subscriptions hold a common weekly minute, well within a day.       *)
BothHold(s, t) ==
  \E v \in SlotsOf(s), w \in SlotsOf(t) :
    /\ ~PassesMidnight(v) /\ ~PassesMidnight(w)
    /\ Meet(v.day_of_week, v, w.day_of_week, w)

(* Paid or not, and never cancelled.                                       *)
InForce(s) == subs[s].status \in {"pending", "active"} /\ subs[s].cancelled_from = NULL

-----------------------------------------------------------------------------
(***************************************************************************)
(* One subscription never holds the same minute twice, though two          *)
(* verifications of its payment may each start an activation, unless one   *)
(* of the two bookings passes midnight.                                    *)
(***************************************************************************)
ChildrenNeverOverlap ==
  \A b, c \in Booking :
    b # c /\ child[b] # NULL /\ child[b] = child[c] /\ BothTake(b, c)
      => PassesMidnight(bookings[b].slot) \/ PassesMidnight(bookings[c].slot)

(***************************************************************************)
(* "No two picked slots may overlap each other" (service.py, initiate).    *)
(* They may: a slot that reaches midnight overlaps nothing the code        *)
(* compares it with, so the same hour can be picked, and sold, twice.      *)
(***************************************************************************)
PickedSlotsAreDisjoint ==
  \A s \in Sub : SubExists(s) =>
    \A i, j \in DOMAIN subs[s].slots :
      LET v == subs[s].slots[i]
          w == subs[s].slots[j]
      IN i # j => ~Meet(v.day_of_week, v, w.day_of_week, w)

(***************************************************************************)
(* Two subscriptions in force hold a common weekly minute only if they     *)
(* were asked for at the same time: whoever begins when the other one is   *)
(* there is refused, paid or not, over all the queries and midnights up to *)
(* the insert.  (Nothing stops two whose checks interleave.)  A cancelled  *)
(* one gives its slots up, and may become active again.                    *)
(***************************************************************************)
SoldTwiceOnlyTogether ==
  \A s, t \in Sub :
    s # t /\ InForce(s) /\ InForce(t) /\ BothHold(s, t)
      => s \notin subs[t].before /\ t \notin subs[s].before

(***************************************************************************)
(* A subscription is active, or has ever booked an hour, only if an        *)
(* administrator verified its payment: neither a rejection nor a stale     *)
(* payment status activates it.                                            *)
(***************************************************************************)
ActiveWasPaid ==
  /\ \A s \in Sub : subs[s].status = "active" => subs[s].payment \in verified
  /\ \A b \in Booking : child[b] # NULL => subs[child[b]].payment \in verified

(***************************************************************************)
(* Two bookings share a minute only where the advisory lock was not taken: *)
(* one of them is a subscription's (and then the other is not the same     *)
(* one's), or was revived by a stale status, or passes midnight.           *)
(***************************************************************************)
OverlapNeedsSubscription ==
  \A b, c \in Booking :
    b # c /\ BothTake(b, c)
      => \/ EverReleased(b) \/ EverReleased(c)
         \/ child[b] # child[c]
         \/ PassesMidnight(bookings[b].slot) \/ PassesMidnight(bookings[c].slot)

(* The query about one hour ends, and one hour fits before closing.        *)
CloseSuits(plan, hours) ==
  /\ Ends(Opening(plan, hours), Closing(plan, hours), SLOT_DURATION_MINUTES)
  /\ SLOT_DURATION_MINUTES <= Closing(plan, hours)

(***************************************************************************)
(* For the plan that is asked about, and slots of the length initiate      *)
(* wants, a candidate is shown as available exactly if initiate would      *)
(* accept it, were nothing to change: bookings loaded by a list of dates   *)
(* and slots loaded by weekday say the same as one conflict query per week *)
(* and a join, and no candidate is outside the plan's window.  Only of the *)
(* candidates: initiate knows neither opening hours nor half hours.  The   *)
(* query must end, and closing be late enough for one slot of the day.     *)
(***************************************************************************)
OfferedIsAccepted ==
  \A plan \in Plans, hours \in OpeningHours, dow \in 0 .. DaysPerWeek - 1 :
    CloseSuits(plan, hours) =>
      \A c \in Candidates(plan, hours, SLOT_DURATION_MINUTES) :
        LET w == [day_of_week |-> dow, start_time |-> c,
                  end_time |-> AddMinutes(c, SLOT_DURATION_MINUTES)]
        IN c \in Offered(dow, plan, hours, SLOT_DURATION_MINUTES)
             <=> /\ InWindow(plan, w)
                 /\ \A d \in Dated(1, w, today) : Conflicts(d.range) = {}
                 /\ SubConflicts(w) = {}

(***************************************************************************)
(* A paid subscription becomes active, unless its task is lost: the event  *)
(* bus keeps it in memory only.                                            *)
(***************************************************************************)
PaidIsActivatedOrLost ==
  \A r \in Req, t \in Txn : req[r].pc = "committed" /\ req[r].txn = t ~>
    \/ t \in lost
    \/ \E s \in Sub : subs[s].status = "active" /\ subs[s].payment = t

(***************************************************************************)
(* Whoever waits for the row of a subscription gets it: activations and    *)
(* cancellations never wait for each other for ever.                       *)
(***************************************************************************)
RowWaitersAreServed ==
  \A r \in Req : req[r].pc \in {"loaded", "cancelling"} ~> req[r] = Idle

=============================================================================
