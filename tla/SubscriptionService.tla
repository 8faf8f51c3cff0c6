------------------------ MODULE SubscriptionService ------------------------
(***************************************************************************)
(* app/subscriptions/service.py, the administrator's half of a UPI payment *)
(* (app/payments/service.py) and the event handler that joins them: a      *)
(* subscription is initiated with a UPI payment, activated by an in-memory *)
(* task once an administrator has verified that payment, and cancelled     *)
(* with its child bookings.  One turf; a Day is a date.                    *)
(*                                                                         *)
(* None of these steps takes the advisory lock of a day.  What serialises  *)
(* activation and cancellation is the row lock of the subscription: both   *)
(* flush their UPDATE of it before they read any booking.                  *)
(***************************************************************************)
EXTENDS Integers, Sequences, PaymentTable, EventBus

CONSTANTS Sub,              \* primary keys of subscriptions
          Req,              \* requests and handler tasks in flight at once
          Plans,            \* the monthly plans of the tenant
          DaysPerWeek,
          MinutesPerDay,
          MinutesPerHour,
          SLOT_DURATION_MINUTES,
          WEEKS_PER_MONTH,
          LastDay,          \* bound: the last day that begins
          OtherKeys,        \* bound: keys of bookings made by other requests
          OtherSlots,       \* bound: the slots they are made for
          OtherTargets,     \* bound: statuses other requests write ...
          MaxVersion        \* ... up to this version of a row

ASSUME CalendarAssumption ==
  /\ DaysPerWeek \in Nat \ {0} /\ WEEKS_PER_MONTH \in Nat \ {0}
  /\ LastDay \in Nat \ {0}
  /\ Day = 1 .. LastDay + DaysPerWeek * (WEEKS_PER_MONTH + 1) - 2
ASSUME ClockAssumption ==
  /\ MinutesPerDay \in Nat \ {0} /\ MinutesPerHour \in Nat \ {0}
  /\ SLOT_DURATION_MINUTES \in 1 .. MinutesPerDay - 1
  /\ Time = 0 .. MinutesPerDay - 1

(* What the code reads of app/plans/models.py: NULL is no window.          *)
Plan == [hours_per_month : Nat, slot_window_start : Time \cup {NULL},
         slot_window_end : Time \cup {NULL}]

ASSUME SubscriptionAssumption ==
  /\ NULL \notin Sub \cup Req \cup Txn \cup Plans /\ NULL \notin Nat
  /\ Plans \subseteq Plan
  /\ OtherKeys \subseteq Booking /\ OtherTargets \subseteq Statuses
  /\ OtherSlots \subseteq Slot

VARIABLES subs,      \* the subscriptions and their weekly slots
          child,     \* bookings.subscription_id
          sublock,   \* the row lock of a subscription
          req,       \* what each request or task is doing and has read
          creating,  \* the slot a creation found free, under its day's lock
          today,
          verified,  \* history: payments that were ever committed as success
          lost       \* history: payments whose activation died with its task

vars == <<bookings, held, txns, subs, child, sublock, req, creating, today,
          verified, lost>>
tables == <<bookings, held, txns, subs, child>>

(* How many weekly slots a plan unlocks.                                   *)
SlotsPerWeek(plan) ==
  LET weekly_minutes == (plan.hours_per_month * MinutesPerHour) \div WEEKS_PER_MONTH
      count == weekly_minutes \div SLOT_DURATION_MINUTES
  IN IF plan.hours_per_month # 0 /\ count > 1 THEN count ELSE 1

(* The clock starts again at midnight.                                     *)
AddMinutes(t, minutes) == (t + minutes) % MinutesPerDay

(* A slot that a request may pick: any start, and the end derived from it, *)
(* which is before the start if the slot reaches midnight.                 *)
WeeklySlot == {w \in [day_of_week : 0 .. DaysPerWeek - 1, start_time : Time,
                      end_time : Time] :
                 w.end_time = AddMinutes(w.start_time, SLOT_DURATION_MINUTES)}

InWindow(plan, w) ==
  /\ plan.slot_window_start # NULL => plan.slot_window_start <= w.start_time
  /\ plan.slot_window_end # NULL => w.end_time <= plan.slot_window_end

WeeklyOverlap(v, w) == /\ v.day_of_week = w.day_of_week
                       /\ v.start_time < w.end_time /\ v.end_time > w.start_time

(* What initiate accepts for some plan, before it looks at what is taken.  *)
Picks ==
  UNION {{W \in [1 .. SlotsPerWeek(plan) -> WeeklySlot] :
            /\ \A i \in DOMAIN W : InWindow(plan, W[i])
            /\ \A i, j \in DOMAIN W : i < j => ~WeeklyOverlap(W[i], W[j])} :
           plan \in Plans}

SubStatuses == {"pending", "active", "cancelled"}

NoSub == [status |-> "absent"]

(* cancelled_from is the first day whose bookings the last cancellation    *)
(* cancelled (0 if cancel_past).  before is history: the subscriptions     *)
(* there were when this one was asked for.                                 *)
SubRow == [status : SubStatuses, slots : Picks, starts_on : Day, payment : Txn,
           cancelled_from : Nat \cup {NULL}, before : SUBSET Sub]

SubExists(s) == subs[s].status # "absent"

NextOccurrence(dow, from_day) == from_day + ((dow - from_day) % DaysPerWeek)

(* The dates that the i-th slot picked takes, from the given day on.       *)
Entry == [pick : Nat, range : TimeRange]

Dated(i, w, from_day) ==
  {[pick |-> i,
    range |-> [day |-> NextOccurrence(w.day_of_week, from_day) + DaysPerWeek * week,
               start_time |-> w.start_time, end_time |-> w.end_time]] :
     week \in 0 .. WEEKS_PER_MONTH - 1}

AllDated(W, from_day) == UNION {Dated(i, W[i], from_day) : i \in DOMAIN W}

EarliestOf(days) == CHOOSE d \in days : \A e \in days : d <= e

Phases == {"checking", "checked", "submitting", "verifying", "rejecting",
           "committed", "scheduled", "loaded", "booking",
           "cancelling", "flushed", "selected"}

(* slots: the weekly slots picked, the one being checked at position at;   *)
(* seen (history): the subscriptions there were when it began; todo: dates *)
(* still to be queried; rows: bookings to insert; read: versions of the    *)
(* children found, or 0.                                                   *)
Request == [pc : Phases, sub : Sub \cup {NULL}, txn : Txn \cup {NULL},
            slots : Picks \cup {<<>>}, at : Nat, seen : SUBSET Sub,
            todo : SUBSET Entry, rows : SUBSET Entry,
            read : [Booking -> Nat], from : Nat]

Idle == [pc |-> "idle"]

Start(pc) == [pc |-> pc, sub |-> NULL, txn |-> NULL, slots |-> <<>>, at |-> 0,
              seen |-> {}, todo |-> {}, rows |-> {},
              read |-> [b \in Booking |-> 0], from |-> 0]

Goto(r, pc) == req' = [req EXCEPT ![r].pc = pc]
Finish(r) == req' = [req EXCEPT ![r] = Idle]
Unlock(r) == sublock' = [s \in Sub |-> IF sublock[s] = r THEN NULL ELSE sublock[s]]

-----------------------------------------------------------------------------
(* initiate                                                                *)

(* Plan, turf, number, window and length of the slots are fine; the dates  *)
(* of the first of them are computed at once.  (Keys are bounded: nobody   *)
(* starts one that has no key left.)                                       *)
Initiate(r) ==
  /\ req[r] = Idle
  /\ \E s \in Sub : ~SubExists(s)
  /\ \E W \in Picks :
       req' = [req EXCEPT ![r] = [Start("checking") EXCEPT
                 !.slots = W, !.at = 1, !.todo = Dated(1, W[1], today),
                 !.seen = {s \in Sub : SubExists(s)}]]
  /\ UNCHANGED <<tables, sublock, creating, today, verified, lost>>

(* One conflict query per week: a conflict ends the request.               *)
CheckDate(r) ==
  /\ req[r].pc = "checking"
  /\ \E d \in req[r].todo :
       /\ \A e \in req[r].todo : d.range.day <= e.range.day
       /\ IF Conflicts(d.range) = {}
          THEN req' = [req EXCEPT ![r].todo = @ \ {d}]
          ELSE Finish(r)
  /\ UNCHANGED <<tables, sublock, creating, today, verified, lost>>

(* Subscriptions, paid or not, that hold a slot on the same weekday.       *)
SubConflicts(w) == {s \in Sub : /\ subs[s].status \in {"pending", "active"}
                                /\ \E i \in DOMAIN subs[s].slots :
                                     WeeklyOverlap(subs[s].slots[i], w)}

(* The last query about a weekly slot.  One such subscription is refused;  *)
(* several make scalar_one_or_none raise, to the same end.  The dates of   *)
(* the next slot are computed from the date it is by now.                  *)
CheckSubscriptions(r) ==
  /\ req[r].pc = "checking" /\ req[r].todo = {}
  /\ LET W == req[r].slots
         i == req[r].at
     IN \/ SubConflicts(W[i]) # {} /\ Finish(r)
        \/ SubConflicts(W[i]) = {} /\ i = Len(W) /\ Goto(r, "checked")
        \/ /\ SubConflicts(W[i]) = {} /\ i < Len(W)
           /\ req' = [req EXCEPT ![r].at = i + 1, ![r].todo = Dated(i + 1, W[i + 1], today)]
  /\ UNCHANGED <<tables, sublock, creating, today, verified, lost>>

(* COMMIT of the payment, the subscription and its slots.  starts_on is    *)
(* computed from the date it is by now.                                    *)
InsertSubscription(r) ==
  /\ req[r].pc = "checked"
  /\ \E s \in Sub, t \in Txn :
       /\ ~SubExists(s)
       /\ InsertTxn(t, NULL, "upi_manual", "initiated")
       /\ subs' = [subs EXCEPT ![s] =
            [status |-> "pending", slots |-> req[r].slots,
             starts_on |-> EarliestOf({NextOccurrence(req[r].slots[i].day_of_week, today) :
                                         i \in DOMAIN req[r].slots}),
             payment |-> t, cancelled_from |-> NULL, before |-> req[r].seen]]
  /\ Finish(r)
  /\ UNCHANGED <<bookings, held, child, sublock, creating, today, verified, lost>>

-----------------------------------------------------------------------------
(* submit_utr, verify_upi_payment and reject_upi_payment                   *)

Open(t) == txns[t].status \in {"initiated", "processing"}

(* The statuses from which each may start, as read.                        *)
ReadPayment(r) ==
  /\ req[r] = Idle
  /\ \E t \in Txn :
       /\ TxnExists(t) /\ txns[t].booking = NULL
       /\ \E pc \in {"submitting", "verifying", "rejecting"} :
            /\ IF pc = "verifying" THEN txns[t].status = "processing" ELSE Open(t)
            \* The ORM writes no status that is the one it read.
            /\ pc = "submitting" => txns[t].status = "initiated"
            /\ req' = [req EXCEPT ![r] = [Start(pc) EXCEPT !.txn = t]]
  /\ UNCHANGED <<tables, sublock, creating, today, verified, lost>>

(* Mutant: a rejection emits payment.success as well.                      *)
CommitEitherWay(r) ==
  /\ req[r].pc \in {"verifying", "rejecting"}
  /\ txns' = [txns EXCEPT ![req[r].txn].status =
                IF req[r].pc = "verifying" THEN "success" ELSE "failed"]
  /\ Goto(r, "committed")
  /\ verified' = IF req[r].pc = "verifying" THEN verified \cup {req[r].txn} ELSE verified
  /\ UNCHANGED <<bookings, held, subs, child, sublock, creating, today, lost>>

(* COMMIT, whatever the row holds by now.                                  *)
CommitPayment(r) ==
  /\ req[r].pc \in {"submitting", "verifying", "rejecting"}
  /\ LET status == CASE req[r].pc = "submitting" -> "processing"
                     [] req[r].pc = "verifying" -> "success"
                     [] req[r].pc = "rejecting" -> "failed"
     IN txns' = [txns EXCEPT ![req[r].txn].status = status]
  /\ IF req[r].pc = "verifying"
     THEN /\ Goto(r, "committed")
          /\ verified' = verified \cup {req[r].txn}
     ELSE Finish(r) /\ UNCHANGED verified
  /\ UNCHANGED <<bookings, held, subs, child, sublock, creating, today, lost>>

(* payment.success starts the task that activates (the other handlers log  *)
(* and mail); the request is over, and the task goes on in its place.      *)
Emit(r) ==
  /\ req[r].pc = "committed"
  /\ IF Starts("payment.success", "activate_subscription_on_payment")
     THEN Goto(r, "scheduled")
     ELSE Finish(r)
  /\ UNCHANGED <<tables, sublock, creating, today, verified, lost>>

-----------------------------------------------------------------------------
(* activate_after_payment                                                  *)

(* Mutant: a cancelled subscription is left alone, though it was paid.     *)
LoadUnlessCancelled(r) ==
  /\ req[r].pc = "scheduled"
  /\ \E s \in Sub :
       /\ SubExists(s) /\ subs[s].payment = req[r].txn
       /\ IF subs[s].status \in {"active", "cancelled"}
          THEN Finish(r)
          ELSE req' = [req EXCEPT ![r].pc = "loaded", ![r].sub = s]
  /\ UNCHANGED <<tables, sublock, creating, today, verified, lost>>

(* Nothing to do if it is active already.  A cancelled one goes on.        *)
LoadByPayment(r) ==
  /\ req[r].pc = "scheduled"
  /\ \E s \in Sub :
       /\ SubExists(s) /\ subs[s].payment = req[r].txn
       /\ IF subs[s].status = "active"
          THEN Finish(r)
          ELSE req' = [req EXCEPT ![r].pc = "loaded", ![r].sub = s]
  /\ UNCHANGED <<tables, sublock, creating, today, verified, lost>>

(* Mutant: the status is set but not flushed before the bookings are made. *)
ActivateUnflushed(r) ==
  /\ req[r].pc = "loaded"
  /\ req' = [req EXCEPT ![r].pc = "booking",
               ![r].todo = AllDated(subs[req[r].sub].slots, subs[req[r].sub].starts_on)]
  /\ UNCHANGED <<tables, sublock, creating, today, verified, lost>>

(* The flush sends the UPDATE, which waits for the row.                    *)
FlushActive(r) ==
  /\ req[r].pc = "loaded"
  /\ sublock[req[r].sub] = NULL
  /\ sublock' = [sublock EXCEPT ![req[r].sub] = r]
  /\ req' = [req EXCEPT ![r].pc = "booking",
               ![r].todo = AllDated(subs[req[r].sub].slots, subs[req[r].sub].starts_on)]
  /\ UNCHANGED <<tables, creating, today, verified, lost>>

(* A date that is taken, by a committed booking or by one this session     *)
(* has inserted, is skipped.                                               *)
BookDate(r) ==
  /\ req[r].pc = "booking"
  /\ \E d \in req[r].todo :
       IF Conflicts(d.range) = {} /\ \A e \in req[r].rows : ~Overlap(e.range, d.range)
       THEN req' = [req EXCEPT ![r].todo = @ \ {d}, ![r].rows = @ \cup {d}]
       ELSE req' = [req EXCEPT ![r].todo = @ \ {d}]
  /\ UNCHANGED <<tables, sublock, creating, today, verified, lost>>

(* The row a subscription inserts for a date.                              *)
Child(range) == [status |-> "confirmed", slot |-> range, discount |-> NULL,
                 cancelled_at |-> FALSE, refund_amount |-> NULL, version |-> 1]

(* COMMIT: all its bookings and its status become visible at once.  Nobody *)
(* subscribes to subscription.activated.                                   *)
CommitActivation(r) ==
  /\ req[r].pc = "booking" /\ req[r].todo = {}
  /\ \E key \in [req[r].rows -> {b \in Booking : ~Exists(b)}] :
       LET new == {key[d] : d \in req[r].rows}
           row(b) == CHOOSE d \in req[r].rows : key[d] = b
       IN /\ \A d, e \in req[r].rows : key[d] = key[e] => d = e
          /\ bookings' = [b \in Booking |-> IF b \in new THEN Child(row(b).range) ELSE bookings[b]]
          /\ held' = [b \in Booking |-> IF b \in new THEN {"confirmed"} ELSE held[b]]
          /\ child' = [b \in Booking |-> IF b \in new THEN req[r].sub ELSE child[b]]
  /\ subs' = [subs EXCEPT ![req[r].sub].status = "active"]
  /\ Unlock(r) /\ Finish(r)
  /\ UNCHANGED <<txns, creating, today, verified, lost>>

-----------------------------------------------------------------------------
(* cancel                                                                  *)

(* By the owner or an administrator; cancelling twice does nothing.  The   *)
(* date is taken when the row has been read.                               *)
Cancel(r) ==
  /\ req[r] = Idle
  /\ \E s \in Sub, from \in {0, today} :
       /\ subs[s].status \in {"pending", "active"}
       /\ req' = [req EXCEPT ![r] = [Start("cancelling") EXCEPT !.sub = s, !.from = from]]
  /\ UNCHANGED <<tables, sublock, creating, today, verified, lost>>

(* Mutant: the children are read without flushing the subscription first.  *)
CancelUnflushed(r) ==
  /\ req[r].pc = "cancelling"
  /\ Goto(r, "flushed")
  /\ UNCHANGED <<tables, sublock, creating, today, verified, lost>>

(* The query of the children flushes the subscription's UPDATE first ...   *)
FlushCancelled(r) ==
  /\ req[r].pc = "cancelling"
  /\ sublock[req[r].sub] = NULL
  /\ sublock' = [sublock EXCEPT ![req[r].sub] = r]
  /\ Goto(r, "flushed")
  /\ UNCHANGED <<tables, creating, today, verified, lost>>

LiveChildren(s, from) ==
  {b \in Booking : child[b] = s /\ IsLive(b) /\ bookings[b].slot.day >= from}

(* ... and then reads them, with what they hold by then.                   *)
SelectChildren(r) ==
  /\ req[r].pc = "flushed"
  /\ LET found == LiveChildren(req[r].sub, req[r].from)
     IN req' = [req EXCEPT ![r].pc = "selected",
                           ![r].read = [b \in Booking |->
                               IF b \in found THEN bookings[b].version ELSE 0]]
  /\ UNCHANGED <<tables, sublock, creating, today, verified, lost>>

(* COMMIT of the children found and of the subscription; their refund      *)
(* amount stays as it is.                                                  *)
CommitCancel(r) ==
  /\ req[r].pc = "selected"
  /\ LET found == {b \in Booking : req[r].read[b] # 0}
     IN /\ bookings' = [b \in Booking |->
             IF b \in found
             THEN [bookings[b] EXCEPT !.status = "cancelled", !.cancelled_at = TRUE,
                                      !.version = req[r].read[b] + 1]
             ELSE bookings[b]]
        /\ held' = [b \in Booking |->
             IF b \in found THEN held[b] \cup {"cancelled"} ELSE held[b]]
  /\ subs' = [subs EXCEPT ![req[r].sub].status = "cancelled",
                          ![req[r].sub].cancelled_from = req[r].from]
  /\ Unlock(r) /\ Finish(r)
  /\ UNCHANGED <<txns, child, creating, today, verified, lost>>

-----------------------------------------------------------------------------
(* Mutant: the session of a task that dies is not rolled back.             *)
FailKeepsRow(r) ==
  /\ req[r] # Idle
  /\ Finish(r)
  /\ lost' = lost \cup {req[r].txn}
  /\ UNCHANGED <<tables, sublock, creating, today, verified>>

(* A request or a task that ends early: an exception (a task's is logged   *)
(* and swallowed), or the death of the worker.                             *)
Fail(r) ==
  /\ req[r] # Idle
  /\ Unlock(r) /\ Finish(r)
  /\ lost' = IF req[r].pc \in {"committed", "scheduled", "loaded", "booking"}
             THEN lost \cup {req[r].txn} ELSE lost
  /\ UNCHANGED <<tables, creating, today, verified>>

(* What BookingService does to the same bookings: a creation, between the  *)
(* conflict query it makes under the lock of its day and its COMMIT (one   *)
(* at a time: the lock allows one per day, and days do not interact) ...   *)
FindFree ==
  /\ creating = NULL
  /\ creating' \in {slot \in OtherSlots : Conflicts(slot) = {}}
  /\ UNCHANGED <<tables, sublock, req, today, verified, lost>>

CommitCreation ==
  /\ creating # NULL
  /\ creating' = NULL
  /\ \/ \E b \in OtherKeys, first \in LiveStatuses : InsertRow(b, first, creating, NULL)
     \/ UNCHANGED <<bookings, held>>
  /\ UNCHANGED <<txns, subs, child, sublock, req, today, verified, lost>>

(* ... and status changes, legal for a status the booking has held.        *)
OtherTransitions ==
  /\ \E b \in Booking, target \in OtherTargets : \E s \in held[b] :
       /\ MayTransition(s, target) /\ bookings[b].version < MaxVersion
       /\ UpdateStatus(b, target, bookings[b].version + 1)
  /\ UNCHANGED <<txns, subs, child, sublock, req, creating, today, verified, lost>>

Tick == /\ today < LastDay
        /\ today' = today + 1
        /\ UNCHANGED <<tables, sublock, req, creating, verified, lost>>

-----------------------------------------------------------------------------
Init ==
  /\ BookingTableInit /\ PaymentTableInit
  /\ subs = [s \in Sub |-> NoSub]
  /\ child = [b \in Booking |-> NULL]
  /\ sublock = [s \in Sub |-> NULL]
  /\ req = [r \in Req |-> Idle]
  /\ creating = NULL
  /\ today = 1
  /\ verified = {} /\ lost = {}

Receive(r) == Initiate(r) \/ ReadPayment(r) \/ Cancel(r)

(* The steps that wait for nobody, and those that wait for the row.        *)
Proceed(r) ==
  \/ CheckDate(r) \/ CheckSubscriptions(r) \/ InsertSubscription(r)
  \/ CommitPayment(r) \/ Emit(r)
  \/ LoadByPayment(r) \/ BookDate(r) \/ CommitActivation(r)
  \/ SelectChildren(r) \/ CommitCancel(r)

Flush(r) == FlushActive(r) \/ FlushCancelled(r)

Next == \/ \E r \in Req : Receive(r) \/ Proceed(r) \/ Flush(r) \/ Fail(r)
        \/ FindFree \/ CommitCreation \/ OtherTransitions \/ Tick

Spec == Init /\ [][Next]_vars

(* A statement sent to the database is answered, and PostgreSQL queues     *)
(* those that wait for a row.                                              *)
FairSpec == /\ Spec
            /\ \A r \in Req : WF_vars(Proceed(r)) /\ SF_vars(Flush(r))

=============================================================================
