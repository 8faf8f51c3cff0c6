------------------------- MODULE SubscriptionProofs -------------------------
(***************************************************************************)
(* Activation and cancellation, for any calendar, any subscriptions and    *)
(* bookings, and any number of requests and tasks at once.                 *)
(*                                                                         *)
(* The argument: whoever reads the children of a subscription holds the    *)
(* row lock of it until the COMMIT, and only the holder of that lock adds  *)
(* children, so what was read is still all there is when it is written.    *)
(* That nobody else revives a child follows from the status graph: a child *)
(* was never pending.                                                      *)
(*                                                                         *)
(* Slots are sold by the same comparison that the conflict queries make;   *)
(* what it says in real minutes is a lemma about ranges within a day.      *)
(***************************************************************************)
EXTENDS SubscriptionProperties, TLAPS, WellFoundedInduction

-----------------------------------------------------------------------------
(* The calendar.                                                           *)

(* A set of days has an earliest one.                                      *)
LEMMA EarliestIsOne ==
  ASSUME NEW days \in SUBSET Nat, days # {}
  PROVE  EarliestOf(days) \in days
  <1>1. \E x \in days : \A y \in days : ~(<<y, x>> \in OpToRel(<, Nat))
    BY NatLessThanWellFounded, WFMin
  <1>2. PICK x \in days : \A y \in days : ~(<<y, x>> \in OpToRel(<, Nat))
    BY <1>1
  <1>3. \A y \in days : ~(y < x)
    BY <1>2 DEF OpToRel
  <1>4. \E d \in days : \A e \in days : d <= e
    BY <1>3
  <1>5. QED
    BY <1>4 DEF EarliestOf

LEMMA NextOccurrenceWithinWeek ==
  ASSUME NEW dow \in Int, NEW from_day \in Nat
  PROVE  /\ NextOccurrence(dow, from_day) \in Nat
         /\ from_day <= NextOccurrence(dow, from_day)
         /\ NextOccurrence(dow, from_day) <= from_day + DaysPerWeek - 1
  <1>1. (dow - from_day) % DaysPerWeek \in 0 .. DaysPerWeek - 1
    BY CalendarAssumption
  <1>2. QED
    BY <1>1, CalendarAssumption DEF NextOccurrence

(* The days from which dates are computed.                                 *)
FirstDays == 1 .. LastDay + DaysPerWeek - 1

(* What a request has picked: at least one weekly slot.                    *)
LEMMA PickedSlots ==
  ASSUME NEW W \in Picks
  PROVE  /\ DOMAIN W = 1 .. Len(W) /\ Len(W) \in Nat \ {0}
         /\ \A i \in DOMAIN W :
              /\ W[i] \in WeeklySlot
              /\ W[i].day_of_week \in 0 .. DaysPerWeek - 1
              /\ W[i].start_time \in Time /\ W[i].end_time \in Time
         /\ \A i, j \in DOMAIN W : i < j => ~WeeklyOverlap(W[i], W[j])
  <1>1. PICK plan \in Plans :
          /\ W \in [1 .. SlotsPerWeek(plan) -> WeeklySlot]
          /\ \A i, j \in DOMAIN W : i < j => ~WeeklyOverlap(W[i], W[j])
    BY DEF Picks
  <1>2. SlotsPerWeek(plan) \in Nat \ {0}
    <2>1. plan.hours_per_month \in Nat
      BY SubscriptionAssumption DEF Plan
    <2>2. (plan.hours_per_month * MinutesPerHour) \div WEEKS_PER_MONTH \in Int
      BY <2>1, ClockAssumption, CalendarAssumption
    <2> DEFINE minutes == (plan.hours_per_month * MinutesPerHour) \div WEEKS_PER_MONTH
    <2> HIDE DEF minutes
    <2>3. minutes \in Int
      BY <2>2 DEF minutes
    <2>4. minutes \div SLOT_DURATION_MINUTES \in Int
      BY <2>3, ClockAssumption
    <2>5. QED
      BY <2>4 DEF SlotsPerWeek, minutes
  <1>3. /\ W \in Seq(WeeklySlot) /\ Len(W) = SlotsPerWeek(plan)
        /\ DOMAIN W = 1 .. SlotsPerWeek(plan)
    BY <1>1, <1>2
  <1>4. \A i \in DOMAIN W : W[i] \in WeeklySlot
    BY <1>1
  <1>5. QED
    BY <1>1, <1>2, <1>3, <1>4 DEF WeeklySlot

(* The dates of a weekly slot are days of the calendar.                    *)
LEMMA DatesAreEntries ==
  ASSUME NEW i \in Nat, NEW w, NEW from_day \in FirstDays,
         w.day_of_week \in 0 .. DaysPerWeek - 1, w.start_time \in Time, w.end_time \in Time
  PROVE  Dated(i, w, from_day) \in SUBSET Entry
  <1> SUFFICES ASSUME NEW week \in 0 .. WEEKS_PER_MONTH - 1
               PROVE  [day |-> NextOccurrence(w.day_of_week, from_day) + DaysPerWeek * week,
                       start_time |-> w.start_time, end_time |-> w.end_time] \in TimeRange
    BY DEF Dated, Entry
  <1> DEFINE first == NextOccurrence(w.day_of_week, from_day)
             D == DaysPerWeek
             M == WEEKS_PER_MONTH
  <1>0. D \in Nat \ {0} /\ M \in Nat \ {0} /\ LastDay \in Nat \ {0}
    BY CalendarAssumption
  <1>2. /\ first \in Nat /\ 1 <= first /\ first <= LastDay + 2 * D - 2
    <2>1. w.day_of_week \in Int /\ from_day \in Nat /\ 1 <= from_day /\ from_day <= LastDay + D - 1
      BY <1>0 DEF FirstDays
    <2>2. first \in Nat /\ from_day <= first /\ first <= from_day + D - 1
      BY <2>1, NextOccurrenceWithinWeek
    <2>3. QED
      BY <1>0, <2>1, <2>2
  <1>3. D * week \in Nat /\ D * week <= D * (M - 1)
    <2>1. week \in Nat /\ M - 1 - week \in Nat
      BY <1>0
    <2>2. D * (M - 1) = D * week + D * (M - 1 - week)
      BY <1>0, <2>1
    <2>3. D * week \in Nat /\ D * (M - 1 - week) \in Nat
      BY <1>0, <2>1
    <2>4. QED
      BY <2>2, <2>3
  <1>4. D * (M + 1) = D * (M - 1) + 2 * D /\ D * (M - 1) \in Nat
    BY <1>0
  <1> HIDE DEF first
  <1>5. first + D * week \in Nat /\ 1 <= first + D * week
        /\ first + D * week <= LastDay + D * (M + 1) - 2
    BY <1>0, <1>2, <1>3, <1>4
  <1>6. first + D * week \in Day
    BY <1>0, <1>4, <1>5, CalendarAssumption
  <1>7. QED
    BY <1>6 DEF TimeRange, first

(* And so are those of all the slots of a request.                         *)
LEMMA AllDatesAreEntries ==
  ASSUME NEW W \in Picks, NEW from_day \in FirstDays
  PROVE  /\ \A i \in DOMAIN W : i \in Nat /\ Dated(i, W[i], from_day) \in SUBSET Entry
         /\ AllDated(W, from_day) \in SUBSET Entry
  <1>1. ASSUME NEW i \in DOMAIN W PROVE i \in Nat /\ Dated(i, W[i], from_day) \in SUBSET Entry
    BY PickedSlots, DatesAreEntries
  <1>2. QED
    BY <1>1 DEF AllDated

(* So is the day a subscription starts on.                                 *)
LEMMA StartIsFirstDay ==
  ASSUME NEW W \in Picks, today \in 1 .. LastDay
  PROVE  /\ EarliestOf({NextOccurrence(W[i].day_of_week, today) : i \in DOMAIN W}) \in FirstDays
         /\ FirstDays \subseteq Day
  <1>0. /\ DaysPerWeek \in Nat \ {0} /\ WEEKS_PER_MONTH \in Nat \ {0} /\ LastDay \in Nat \ {0}
        /\ today \in Nat
    BY CalendarAssumption
  <1>1. ASSUME NEW i \in DOMAIN W PROVE NextOccurrence(W[i].day_of_week, today) \in FirstDays
    <2>1. W[i].day_of_week \in Int
      BY <1>0, PickedSlots
    <2>2. /\ NextOccurrence(W[i].day_of_week, today) \in Nat
          /\ today <= NextOccurrence(W[i].day_of_week, today)
          /\ NextOccurrence(W[i].day_of_week, today) <= today + DaysPerWeek - 1
      BY <1>0, <2>1, NextOccurrenceWithinWeek
    <2>3. ASSUME NEW n \in Nat, today <= n, n <= today + DaysPerWeek - 1 PROVE n \in FirstDays
      BY <1>0, <2>3 DEF FirstDays
    <2>4. QED
      BY <2>2, <2>3
  <1>2. DOMAIN W # {}
    <2>1. DOMAIN W = 1 .. Len(W) /\ Len(W) \in Nat \ {0}
      BY PickedSlots
    <2>2. 1 \in DOMAIN W
      BY <2>1
    <2>3. QED
      BY <2>2
  <1>3. FirstDays \subseteq Nat
    BY DEF FirstDays
  <1>4. EarliestOf({NextOccurrence(W[i].day_of_week, today) : i \in DOMAIN W})
          \in {NextOccurrence(W[i].day_of_week, today) : i \in DOMAIN W}
    BY <1>1, <1>2, <1>3, EarliestIsOne
  <1>5. FirstDays \subseteq Day
    <2>1. DaysPerWeek * (WEEKS_PER_MONTH + 1) = DaysPerWeek * (WEEKS_PER_MONTH - 1) + 2 * DaysPerWeek
          /\ DaysPerWeek * (WEEKS_PER_MONTH - 1) \in Nat
      BY <1>0
    <2>2. QED
      BY <1>0, <2>1, CalendarAssumption DEF FirstDays
  <1>6. QED
    BY <1>1, <1>4, <1>5

-----------------------------------------------------------------------------
(* Types.                                                                  *)

(* The subscription a request is about exists, and so do the payment and   *)
(* the bookings it is about to write.                                      *)
RequestOK(r) ==
  /\ req[r].pc \in {"checking", "checked"} => req[r].slots \in Picks
  /\ req[r].pc = "checking" => req[r].at \in DOMAIN req[r].slots
  /\ req[r].pc \in {"submitting", "verifying", "rejecting"} => TxnExists(req[r].txn)
  /\ req[r].pc \in {"submitting", "verifying", "rejecting", "committed", "scheduled", "loaded",
                    "booking"} => req[r].txn \in Txn
  /\ req[r].pc \in {"loaded", "booking", "cancelling", "flushed", "selected"} =>
       req[r].sub \in Sub /\ SubExists(req[r].sub)
  /\ req[r].pc = "selected" => \A b \in Booking : req[r].read[b] # 0 => Exists(b)

RowsOK ==
  /\ today \in 1 .. LastDay
  /\ \A s \in Sub : SubExists(s) => subs[s].starts_on \in FirstDays
  /\ \A b \in Booking :
       /\ Exists(b) => bookings[b].version # 0
       /\ ~Exists(b) => held[b] = {} /\ child[b] = NULL
       /\ child[b] # NULL => SubExists(child[b])

Typed == TypeOK /\ RowsOK /\ \A r \in Req : RequestOK(r)

(* What a step may do to the requests.                                     *)
LEMMA GotoTyped ==
  ASSUME TypeOK, NEW r \in Req, req[r] # Idle, NEW pc \in Phases, Goto(r, pc)
  PROVE  /\ req' \in [Req -> Request \cup {Idle}]
         /\ req'[r] = [req[r] EXCEPT !.pc = pc]
         /\ \A q \in Req : q # r => req'[q] = req[q]
  <1>1. req[r] \in Request
    BY DEF TypeOK
  <1>2. [req[r] EXCEPT !.pc = pc] \in Request
    BY <1>1 DEF Request
  <1>3. QED
    BY <1>2 DEF TypeOK, Goto

LEMMA FinishTyped ==
  ASSUME TypeOK, NEW r \in Req, Finish(r)
  PROVE  /\ req' \in [Req -> Request \cup {Idle}]
         /\ req'[r] = Idle
         /\ \A q \in Req : q # r => req'[q] = req[q]
  BY DEF TypeOK, Finish

LEMMA StartTyped ==
  ASSUME NEW pc \in Phases
  PROVE  /\ Start(pc) \in Request
         /\ \A W \in Picks, todo \in SUBSET Entry, seen \in SUBSET Sub :
              [Start(pc) EXCEPT !.slots = W, !.at = 1, !.todo = todo, !.seen = seen] \in Request
         /\ \A t \in Txn : [Start(pc) EXCEPT !.txn = t] \in Request
         /\ \A s \in Sub, from \in Nat : [Start(pc) EXCEPT !.sub = s, !.from = from] \in Request
  BY DEF Start, Request

LEMMA UnlockTyped ==
  ASSUME TypeOK, NEW r \in Req, Unlock(r)
  PROVE  sublock' \in [Sub -> Req \cup {NULL}]
  BY DEF TypeOK, Unlock

(* Nothing that a request relies on goes away.                             *)
LEMMA OthersStayOK ==
  ASSUME NEW q \in Req, RequestOK(q), req'[q] = req[q],
         \A t \in Txn : TxnExists(t) => TxnExists(t)',
         \A s \in Sub : SubExists(s) => SubExists(s)',
         \A b \in Booking : Exists(b) => Exists(b)'
  PROVE  RequestOK(q)'
  <1>1. TxnExists(req[q].txn) /\ req[q].txn \in Txn => txns'[req[q].txn].status # "absent"
    BY DEF TxnExists
  <1>2. SubExists(req[q].sub) /\ req[q].sub \in Sub => subs'[req[q].sub].status # "absent"
    BY DEF SubExists
  <1>3. QED
    BY <1>1, <1>2 DEF RequestOK, TxnExists, SubExists

(* A step that only changes what one request is doing.                     *)
LEMMA RequestOnly ==
  ASSUME Typed, NEW r \in Req,
         UNCHANGED <<tables, creating, today, verified>>,
         sublock' \in [Sub -> Req \cup {NULL}], lost' \in SUBSET Txn,
         req' \in [Req -> Request \cup {Idle}],
         \A q \in Req : q # r => req'[q] = req[q],
         RequestOK(r)'
  PROVE  Typed'
  <1>0. /\ bookings' = bookings /\ held' = held /\ txns' = txns /\ subs' = subs /\ child' = child
        /\ creating' = creating /\ today' = today /\ verified' = verified
    BY DEF tables
  <1>1. TypeOK'
    BY <1>0 DEF Typed, TypeOK, BookingTableTypeOK, PaymentTableTypeOK
  <1>2. RowsOK'
    BY <1>0 DEF Typed, RowsOK, SubExists, Exists
  <1>3. ASSUME NEW q \in Req PROVE RequestOK(q)'
    <2>1. CASE q # r
      BY <1>0, <2>1, OthersStayOK DEF Typed, TxnExists, SubExists, Exists
    <2>2. QED
      BY <2>1
  <1>4. QED
    BY <1>1, <1>2, <1>3 DEF Typed

LEMMA IdleIsOK ==
  ASSUME NEW r \in Req, req'[r] = Idle
  PROVE  RequestOK(r)'
  BY DEF RequestOK, Idle

LEMMA EarlyStepsTyped ==
  ASSUME Typed, NEW r \in Req,
         \/ Initiate(r) \/ CheckDate(r) \/ CheckSubscriptions(r) \/ ReadPayment(r)
         \/ Emit(r) \/ LoadByPayment(r) \/ BookDate(r) \/ Cancel(r) \/ SelectChildren(r)
         \/ FlushActive(r) \/ FlushCancelled(r) \/ Fail(r)
  PROVE  Typed'
  <1>0. TypeOK /\ RowsOK /\ RequestOK(r)
    BY DEF Typed
  <1>u. sublock \in [Sub -> Req \cup {NULL}] /\ lost \in SUBSET Txn
    BY <1>0 DEF TypeOK
  <1>i. ASSUME req[r].pc # "idle" PROVE req[r] \in Request /\ req[r] # Idle
    BY <1>0, <1>i DEF TypeOK, Idle
  <1>f. ASSUME Finish(r), UNCHANGED <<tables, creating, today, verified>>,
               sublock' \in [Sub -> Req \cup {NULL}], lost' \in SUBSET Txn
        PROVE  Typed'
    BY <1>0, <1>f, FinishTyped, IdleIsOK, RequestOnly
  <1>1. CASE Initiate(r)
    <2> DEFINE seen == {s \in Sub : SubExists(s)}
    <2>1. PICK W \in Picks : req' = [req EXCEPT ![r] = [Start("checking") EXCEPT
                                       !.slots = W, !.at = 1, !.todo = Dated(1, W[1], today),
                                       !.seen = seen]]
      BY <1>1 DEF Initiate
    <2>2. today \in FirstDays
      BY <1>0, CalendarAssumption DEF RowsOK, FirstDays
    <2>3. 1 \in DOMAIN W /\ Dated(1, W[1], today) \in SUBSET Entry
      BY <2>2, PickedSlots, AllDatesAreEntries
    <2> DEFINE new == [Start("checking") EXCEPT !.slots = W, !.at = 1,
                         !.todo = Dated(1, W[1], today), !.seen = seen]
    <2>4. new \in Request
      BY <2>3, StartTyped DEF Phases
    <2>5. new.pc = "checking" /\ new.slots = W /\ new.at = 1
      BY DEF Start
    <2> HIDE DEF new
    <2>6. req' = [req EXCEPT ![r] = new]
      BY <2>1 DEF new
    <2>7. /\ req' \in [Req -> Request \cup {Idle}] /\ req'[r] = new
          /\ \A q \in Req : q # r => req'[q] = req[q]
      BY <1>0, <2>4, <2>6 DEF TypeOK
    <2>8. RequestOK(r)'
      BY <2>3, <2>5, <2>7 DEF RequestOK
    <2>9. UNCHANGED <<tables, creating, today, verified>> /\ sublock' = sublock /\ lost' = lost
      BY <1>1 DEF Initiate
    <2>10. QED
      BY <1>u, <2>7, <2>8, <2>9, RequestOnly
  <1>2. CASE CheckDate(r)
    <2>1. UNCHANGED <<tables, creating, today, verified>> /\ sublock' = sublock /\ lost' = lost
      BY <1>2 DEF CheckDate
    <2>2. ASSUME NEW s \in req[r].todo, req' = [req EXCEPT ![r].todo = @ \ {s}]
          PROVE  Typed'
      <3>1. [req[r] EXCEPT !.todo = req[r].todo \ {s}] \in Request /\ req[r] \in Request
        BY <1>i, <1>2 DEF CheckDate, Request
      <3>2. /\ req' \in [Req -> Request \cup {Idle}]
            /\ req'[r] = [req[r] EXCEPT !.todo = req[r].todo \ {s}]
            /\ \A q \in Req : q # r => req'[q] = req[q]
        BY <1>0, <2>2, <3>1 DEF TypeOK
      <3>3. req'[r].pc = "checking" /\ req'[r].slots = req[r].slots /\ req'[r].at = req[r].at
        BY <1>2, <3>1, <3>2 DEF CheckDate, Request
      <3>4. RequestOK(r)'
        BY <1>0, <1>2, <3>3 DEF RequestOK, CheckDate
      <3>5. QED
        BY <1>u, <2>1, <3>2, <3>4, RequestOnly
    <2>3. QED
      BY <1>f, <1>u, <1>2, <2>1, <2>2 DEF CheckDate
  <1>3. CASE CheckSubscriptions(r)
    <2>1. UNCHANGED <<tables, creating, today, verified>> /\ sublock' = sublock /\ lost' = lost
          /\ req[r].pc = "checking" /\ req[r] \in Request /\ req[r] # Idle
      BY <1>i, <1>3 DEF CheckSubscriptions
    <2>2. CASE Goto(r, "checked")
      <3>1. /\ req' \in [Req -> Request \cup {Idle}] /\ req'[r] = [req[r] EXCEPT !.pc = "checked"]
            /\ \A q \in Req : q # r => req'[q] = req[q]
        BY <1>0, <2>1, <2>2, GotoTyped DEF Phases
      <3>2. req'[r].pc = "checked" /\ req'[r].slots = req[r].slots
        BY <2>1, <3>1 DEF Request
      <3>3. RequestOK(r)'
        BY <1>0, <2>1, <3>2 DEF RequestOK
      <3>4. QED
        BY <1>u, <2>1, <3>1, <3>3, RequestOnly
    <2> DEFINE W == req[r].slots
               i == req[r].at
               next == [req[r] EXCEPT !.at = i + 1, !.todo = Dated(i + 1, W[i + 1], today)]
    <2>3. ASSUME i < Len(W),
                 req' = [req EXCEPT ![r].at = i + 1, ![r].todo = Dated(i + 1, W[i + 1], today)]
          PROVE  Typed'
      <3>1. W \in Picks /\ i \in DOMAIN W
        BY <1>0, <2>1 DEF RequestOK
      <3>2. i \in Nat /\ i + 1 \in DOMAIN W
        BY <2>3, <3>1, PickedSlots
      <3>3. today \in FirstDays
        BY <1>0, CalendarAssumption DEF RowsOK, FirstDays
      <3>4. Dated(i + 1, W[i + 1], today) \in SUBSET Entry
        BY <3>1, <3>2, <3>3, AllDatesAreEntries
      <3>5. next \in Request /\ next.pc = "checking" /\ next.slots = W /\ next.at = i + 1
        <4> DEFINE todo == Dated(i + 1, W[i + 1], today)
        <4>1. i + 1 \in Nat /\ todo \in SUBSET Entry
          BY <3>2, <3>4
        <4> HIDE DEF todo
        <4>2. /\ [req[r] EXCEPT !.at = i + 1, !.todo = todo] \in Request
              /\ [req[r] EXCEPT !.at = i + 1, !.todo = todo].pc = "checking"
              /\ [req[r] EXCEPT !.at = i + 1, !.todo = todo].slots = req[r].slots
              /\ [req[r] EXCEPT !.at = i + 1, !.todo = todo].at = i + 1
          BY <2>1, <4>1 DEF Request
        <4>3. QED
          BY <4>2 DEF todo
      <3>6. req' = [req EXCEPT ![r] = next]
        BY <2>3
      <3> HIDE DEF next
      <3>7. /\ req' \in [Req -> Request \cup {Idle}] /\ req'[r] = next
            /\ \A q \in Req : q # r => req'[q] = req[q]
        BY <1>0, <3>5, <3>6 DEF TypeOK
      <3>8. RequestOK(r)'
        BY <3>1, <3>2, <3>5, <3>7 DEF RequestOK
      <3>9. QED
        BY <1>u, <2>1, <3>7, <3>8, RequestOnly
    <2>4. QED
      BY <1>f, <1>u, <1>3, <2>1, <2>2, <2>3 DEF CheckSubscriptions
  <1>4. CASE ReadPayment(r)
    <2>1. PICK t \in Txn, pc \in {"submitting", "verifying", "rejecting"} :
            TxnExists(t) /\ req' = [req EXCEPT ![r] = [Start(pc) EXCEPT !.txn = t]]
      BY <1>4 DEF ReadPayment
    <2> DEFINE new == [Start(pc) EXCEPT !.txn = t]
    <2>2. new \in Request
      BY StartTyped DEF Phases
    <2>3. new.pc = pc /\ new.txn = t
      BY DEF Start
    <2> HIDE DEF new
    <2>4. req' = [req EXCEPT ![r] = new]
      BY <2>1 DEF new
    <2>5. /\ req' \in [Req -> Request \cup {Idle}] /\ req'[r] = new
          /\ \A q \in Req : q # r => req'[q] = req[q]
      BY <1>0, <2>2, <2>4 DEF TypeOK
    <2>6. UNCHANGED <<tables, creating, today, verified>> /\ sublock' = sublock /\ lost' = lost
          /\ txns' = txns
      BY <1>4 DEF ReadPayment, tables
    <2>7. RequestOK(r)'
      BY <2>1, <2>3, <2>5, <2>6 DEF RequestOK, TxnExists
    <2>8. QED
      BY <1>u, <2>5, <2>6, <2>7, RequestOnly
  <1>5. CASE Emit(r)
    <2>1. UNCHANGED <<tables, creating, today, verified>> /\ sublock' = sublock /\ lost' = lost
          /\ req[r].pc = "committed" /\ req[r] \in Request /\ req[r] # Idle
      BY <1>i, <1>5 DEF Emit
    <2>2. CASE Goto(r, "scheduled")
      <3>1. /\ req' \in [Req -> Request \cup {Idle}] /\ req'[r] = [req[r] EXCEPT !.pc = "scheduled"]
            /\ \A q \in Req : q # r => req'[q] = req[q]
        BY <1>0, <2>1, <2>2, GotoTyped DEF Phases
      <3>2. req'[r].pc = "scheduled" /\ req'[r].txn = req[r].txn
        BY <2>1, <3>1 DEF Request
      <3>3. RequestOK(r)'
        BY <1>0, <2>1, <3>2 DEF RequestOK
      <3>4. QED
        BY <1>u, <2>1, <3>1, <3>3, RequestOnly
    <2>3. QED
      BY <1>f, <1>u, <1>5, <2>1, <2>2 DEF Emit
  <1>6. CASE LoadByPayment(r)
    <2>1. UNCHANGED <<tables, creating, today, verified>> /\ sublock' = sublock /\ lost' = lost
          /\ subs' = subs /\ req[r].pc = "scheduled" /\ req[r] \in Request /\ req[r] # Idle
      BY <1>i, <1>6 DEF LoadByPayment, tables
    <2>2. ASSUME NEW s \in Sub, SubExists(s), req' = [req EXCEPT ![r].pc = "loaded", ![r].sub = s]
          PROVE  Typed'
      <3>1. [req[r] EXCEPT !.pc = "loaded", !.sub = s] \in Request
        BY <2>1 DEF Request, Phases
      <3>2. /\ req' \in [Req -> Request \cup {Idle}]
            /\ req'[r] = [req[r] EXCEPT !.pc = "loaded", !.sub = s]
            /\ \A q \in Req : q # r => req'[q] = req[q]
        BY <1>0, <2>2, <3>1 DEF TypeOK
      <3>3. req'[r].pc = "loaded" /\ req'[r].sub = s /\ req'[r].txn = req[r].txn
        BY <2>1, <3>2 DEF Request
      <3>4. RequestOK(r)'
        BY <1>0, <2>1, <2>2, <3>3 DEF RequestOK, SubExists
      <3>5. QED
        BY <1>u, <2>1, <3>2, <3>4, RequestOnly
    <2>3. QED
      BY <1>f, <1>u, <1>6, <2>1, <2>2 DEF LoadByPayment
  <1>7. CASE BookDate(r)
    <2>1. UNCHANGED <<tables, creating, today, verified>> /\ sublock' = sublock /\ lost' = lost
          /\ subs' = subs /\ req[r].pc = "booking" /\ req[r] \in Request /\ req[r] # Idle
      BY <1>i, <1>7 DEF BookDate, tables
    <2>2. PICK s \in req[r].todo : \/ req' = [req EXCEPT ![r].todo = @ \ {s}, ![r].rows = @ \cup {s}]
                                  \/ req' = [req EXCEPT ![r].todo = @ \ {s}]
      BY <1>7 DEF BookDate
    <2>3. s \in Entry
      BY <2>1, <2>2 DEF Request
    <2>4. [req[r] EXCEPT !.todo = req[r].todo \ {s}, !.rows = req[r].rows \cup {s}] \in Request
          /\ [req[r] EXCEPT !.todo = req[r].todo \ {s}] \in Request
      BY <2>1, <2>3 DEF Request
    <2>a. ASSUME NEW new \in Request, req' = [req EXCEPT ![r] = new]
          PROVE  /\ req' \in [Req -> Request \cup {Idle}] /\ req'[r] = new
                 /\ \A q \in Req : q # r => req'[q] = req[q]
      BY <1>0, <2>a DEF TypeOK
    <2> DEFINE Kept == /\ req' \in [Req -> Request \cup {Idle}]
                       /\ \A q \in Req : q # r => req'[q] = req[q]
                       /\ req'[r].pc = "booking" /\ req'[r].sub = req[r].sub
                       /\ req'[r].txn = req[r].txn
    <2>b. ASSUME req' = [req EXCEPT ![r].todo = @ \ {s}, ![r].rows = @ \cup {s}] PROVE Kept
      <3>1. req' = [req EXCEPT ![r] = [req[r] EXCEPT !.todo = req[r].todo \ {s},
                                                      !.rows = req[r].rows \cup {s}]]
        BY <2>b
      <3>2. /\ req' \in [Req -> Request \cup {Idle}]
            /\ req'[r] = [req[r] EXCEPT !.todo = req[r].todo \ {s}, !.rows = req[r].rows \cup {s}]
            /\ \A q \in Req : q # r => req'[q] = req[q]
        BY <2>4, <2>a, <3>1
      <3>3. QED
        BY <2>1, <3>2 DEF Request
    <2>c. ASSUME req' = [req EXCEPT ![r].todo = @ \ {s}] PROVE Kept
      <3>1. req' = [req EXCEPT ![r] = [req[r] EXCEPT !.todo = req[r].todo \ {s}]]
        BY <2>c
      <3>2. /\ req' \in [Req -> Request \cup {Idle}]
            /\ req'[r] = [req[r] EXCEPT !.todo = req[r].todo \ {s}]
            /\ \A q \in Req : q # r => req'[q] = req[q]
        BY <2>4, <2>a, <3>1
      <3>3. QED
        BY <2>1, <3>2 DEF Request
    <2>5. /\ req' \in [Req -> Request \cup {Idle}] /\ \A q \in Req : q # r => req'[q] = req[q]
          /\ req'[r].pc = "booking" /\ req'[r].sub = req[r].sub /\ req'[r].txn = req[r].txn
      BY <2>2, <2>b, <2>c
    <2>6. RequestOK(r)'
      BY <1>0, <2>1, <2>5 DEF RequestOK, SubExists
    <2>7. QED
      BY <1>u, <2>1, <2>5, <2>6, RequestOnly
  <1>8. CASE Cancel(r)
    <2>1. PICK s \in Sub, from \in {0, today} :
            /\ subs[s].status \in {"pending", "active"}
            /\ req' = [req EXCEPT ![r] = [Start("cancelling") EXCEPT !.sub = s, !.from = from]]
      BY <1>8 DEF Cancel
    <2> DEFINE new == [Start("cancelling") EXCEPT !.sub = s, !.from = from]
    <2>0. from \in Nat /\ "cancelling" \in Phases
      BY <1>0, CalendarAssumption DEF RowsOK, Phases
    <2>2. new \in Request
      BY <2>0, StartTyped
    <2>3. new.pc = "cancelling" /\ new.sub = s
      BY DEF Start
    <2> HIDE DEF new
    <2>4. req' = [req EXCEPT ![r] = new]
      BY <2>1 DEF new
    <2>5. /\ req' \in [Req -> Request \cup {Idle}] /\ req'[r] = new
          /\ \A q \in Req : q # r => req'[q] = req[q]
      BY <1>0, <2>2, <2>4 DEF TypeOK
    <2>6. UNCHANGED <<tables, creating, today, verified>> /\ sublock' = sublock /\ lost' = lost
          /\ subs' = subs
      BY <1>8 DEF Cancel, tables
    <2>7. RequestOK(r)'
      BY <2>1, <2>3, <2>5, <2>6 DEF RequestOK, SubExists
    <2>8. QED
      BY <1>u, <2>5, <2>6, <2>7, RequestOnly
  <1>9. CASE SelectChildren(r)
    <2> DEFINE found == LiveChildren(req[r].sub, req[r].from)
               read == [b \in Booking |-> IF b \in found THEN bookings[b].version ELSE 0]
    <2>1. UNCHANGED <<tables, creating, today, verified>> /\ sublock' = sublock /\ lost' = lost
          /\ subs' = subs /\ bookings' = bookings
          /\ req[r].pc = "flushed" /\ req[r] \in Request /\ req[r] # Idle
          /\ req' = [req EXCEPT ![r].pc = "selected", ![r].read = read]
      BY <1>i, <1>9 DEF SelectChildren, tables
    <2>2. \A b \in Booking : b \in found => Exists(b) /\ bookings[b].version \in Nat
      <3>1. ASSUME NEW b \in Booking, b \in found PROVE Exists(b)
        BY <3>1 DEF LiveChildren, IsLive, LiveStatuses, Exists
      <3>2. ASSUME NEW b \in Booking, Exists(b) PROVE bookings[b].version \in Nat
        BY <1>0, <3>2 DEF TypeOK, BookingTableTypeOK, Exists, NoRow, Row
      <3>3. QED
        BY <3>1, <3>2
    <2>3. read \in [Booking -> Nat] /\ \A b \in Booking : read[b] # 0 => Exists(b)
      BY <2>2
    <2> HIDE DEF read
    <2>4. [req[r] EXCEPT !.pc = "selected", !.read = read] \in Request
      BY <2>1, <2>3 DEF Request, Phases
    <2>5. /\ req' \in [Req -> Request \cup {Idle}]
          /\ req'[r] = [req[r] EXCEPT !.pc = "selected", !.read = read]
          /\ \A q \in Req : q # r => req'[q] = req[q]
      BY <1>0, <2>1, <2>4 DEF TypeOK
    <2>6. req'[r].pc = "selected" /\ req'[r].sub = req[r].sub /\ req'[r].read = read
      BY <2>1, <2>5 DEF Request
    <2>7. RequestOK(r)'
      BY <1>0, <2>1, <2>3, <2>6 DEF RequestOK, SubExists, Exists
    <2>8. QED
      BY <1>u, <2>1, <2>5, <2>7, RequestOnly
  <1>10. CASE FlushActive(r)
    <2> DEFINE todo == AllDated(subs[req[r].sub].slots, subs[req[r].sub].starts_on)
    <2>1. UNCHANGED <<tables, creating, today, verified>> /\ lost' = lost /\ subs' = subs
          /\ sublock' \in [Sub -> Req \cup {NULL}]
          /\ req[r].pc = "loaded" /\ req[r] \in Request /\ req[r] # Idle
          /\ req' = [req EXCEPT ![r].pc = "booking", ![r].todo = todo]
      BY <1>i, <1>u, <1>10 DEF FlushActive, tables
    <2>2. req[r].sub \in Sub /\ SubExists(req[r].sub)
      BY <1>0, <2>1 DEF RequestOK
    <2>3. subs[req[r].sub].slots \in Picks /\ subs[req[r].sub].starts_on \in FirstDays
      BY <1>0, <2>2 DEF TypeOK, SubExists, NoSub, SubRow, RowsOK
    <2>4. todo \in SUBSET Entry
      BY <2>3, AllDatesAreEntries
    <2> HIDE DEF todo
    <2>5. [req[r] EXCEPT !.pc = "booking", !.todo = todo] \in Request
      BY <2>1, <2>4 DEF Request, Phases
    <2>6. /\ req' \in [Req -> Request \cup {Idle}]
          /\ req'[r] = [req[r] EXCEPT !.pc = "booking", !.todo = todo]
          /\ \A q \in Req : q # r => req'[q] = req[q]
      BY <1>0, <2>1, <2>5 DEF TypeOK
    <2>7. req'[r].pc = "booking" /\ req'[r].sub = req[r].sub /\ req'[r].txn = req[r].txn
      BY <2>1, <2>6 DEF Request
    <2>8. RequestOK(r)'
      BY <1>0, <2>1, <2>7 DEF RequestOK, SubExists
    <2>9. lost' \in SUBSET Txn
      BY <1>u, <2>1
    <2>10. QED
      BY <2>1, <2>6, <2>8, <2>9, RequestOnly
  <1>11. CASE FlushCancelled(r)
    <2>1. UNCHANGED <<tables, creating, today, verified>> /\ lost' = lost /\ subs' = subs
          /\ sublock' \in [Sub -> Req \cup {NULL}]
          /\ req[r].pc = "cancelling" /\ req[r] \in Request /\ req[r] # Idle /\ Goto(r, "flushed")
      BY <1>i, <1>u, <1>11 DEF FlushCancelled, tables
    <2>2. /\ req' \in [Req -> Request \cup {Idle}] /\ req'[r] = [req[r] EXCEPT !.pc = "flushed"]
          /\ \A q \in Req : q # r => req'[q] = req[q]
      BY <1>0, <2>1, GotoTyped DEF Phases
    <2>3. req'[r].pc = "flushed" /\ req'[r].sub = req[r].sub
      BY <2>1, <2>2 DEF Request
    <2>4. RequestOK(r)'
      BY <1>0, <2>1, <2>3 DEF RequestOK, SubExists
    <2>5. QED
      BY <1>u, <2>1, <2>2, <2>4, RequestOnly
  <1>12. CASE Fail(r)
    <2>1. lost' \in SUBSET Txn
      BY <1>0, <1>u, <1>12 DEF Fail, RequestOK
    <2>2. Finish(r) /\ Unlock(r) /\ UNCHANGED <<tables, creating, today, verified>>
      BY <1>12 DEF Fail
    <2>3. QED
      BY <1>0, <1>f, <2>1, <2>2, UnlockTyped
  <1>13. QED
    BY <1>1, <1>2, <1>3, <1>4, <1>5, <1>6, <1>7, <1>8, <1>9, <1>10, <1>11, <1>12

-----------------------------------------------------------------------------
(* The steps that commit.                                                  *)

(* Every other request is still what it was when r commits.                *)
LEMMA RequestsStayOK ==
  ASSUME Typed, NEW r \in Req,
         \A q \in Req : q # r => req'[q] = req[q],
         RequestOK(r)',
         \A t \in Txn : TxnExists(t) => TxnExists(t)',
         \A s \in Sub : SubExists(s) => SubExists(s)',
         \A b \in Booking : Exists(b) => Exists(b)'
  PROVE  \A q \in Req : RequestOK(q)'
  <1>1. ASSUME NEW q \in Req, q # r PROVE RequestOK(q)'
    BY <1>1, OthersStayOK DEF Typed
  <1>2. QED
    BY <1>1

LEMMA InsertSubscriptionTyped ==
  ASSUME Typed, NEW r \in Req, InsertSubscription(r)
  PROVE  /\ Typed'
         /\ \E s \in Sub : /\ ~SubExists(s) /\ subs'[s].status = "pending"
                           /\ \A q \in Sub : q # s => subs'[q] = subs[q]
  <1>0. TypeOK /\ RowsOK /\ RequestOK(r)
    BY DEF Typed
  <1> DEFINE W == req[r].slots
             start == EarliestOf({NextOccurrence(W[i].day_of_week, today) : i \in DOMAIN W})
             seen == req[r].seen
  <1>1. PICK s \in Sub, t \in Txn :
          /\ ~SubExists(s) /\ InsertTxn(t, NULL, "upi_manual", "initiated")
          /\ subs' = [subs EXCEPT ![s] =
               [status |-> "pending", slots |-> W, starts_on |-> start,
                payment |-> t, cancelled_from |-> NULL, before |-> seen]]
    BY DEF InsertSubscription
  <1>2. /\ bookings' = bookings /\ held' = held /\ child' = child /\ sublock' = sublock
        /\ creating' = creating /\ today' = today /\ verified' = verified /\ lost' = lost
        /\ Finish(r)
    BY DEF InsertSubscription
  <1>3. W \in Picks /\ seen \in SUBSET Sub
    BY <1>0 DEF InsertSubscription, RequestOK, TypeOK, Request, Idle
  <1>4. start \in FirstDays /\ FirstDays \subseteq Day
    BY <1>0, <1>3, StartIsFirstDay DEF RowsOK
  <1> HIDE DEF start, W, seen
  <1> DEFINE row == [status |-> "pending", slots |-> W, starts_on |-> start,
                     payment |-> t, cancelled_from |-> NULL, before |-> seen]
             txn == [status |-> "initiated", booking |-> NULL, gateway |-> "upi_manual",
                     gateway_txn_id |-> NULL]
  <1>5. row \in SubRow
    BY <1>3, <1>4 DEF SubRow, SubStatuses
  <1>6. txn \in TxnRow
    BY DEF TxnRow, TxnStatuses, Gateways
  <1>7. row.status = "pending" /\ row.starts_on = start /\ txn.status = "initiated"
    OBVIOUS
  <1>8. subs' = [subs EXCEPT ![s] = row] /\ txns' = [txns EXCEPT ![t] = txn]
    BY <1>1 DEF InsertTxn
  <1> HIDE DEF row, txn
  <1>9. /\ subs' \in [Sub -> SubRow \cup {NoSub}] /\ txns' \in [Txn -> TxnRow \cup {NoTxn}]
        /\ subs'[s] = row /\ txns'[t] = txn
        /\ \A q \in Sub : q # s => subs'[q] = subs[q]
        /\ \A u \in Txn : u # t => txns'[u] = txns[u]
    BY <1>0, <1>5, <1>6, <1>8 DEF TypeOK, PaymentTableTypeOK
  <1>10. /\ req' \in [Req -> Request \cup {Idle}] /\ req'[r] = Idle
         /\ \A q \in Req : q # r => req'[q] = req[q]
    BY <1>0, <1>2, FinishTyped
  <1>11. TypeOK'
    BY <1>0, <1>2, <1>9, <1>10 DEF TypeOK, BookingTableTypeOK, PaymentTableTypeOK
  <1>12. \A q \in Sub : SubExists(q) => SubExists(q)'
    BY <1>7, <1>9 DEF SubExists
  <1>13. \A u \in Txn : TxnExists(u) => TxnExists(u)'
    BY <1>7, <1>9 DEF TxnExists
  <1>14. \A b \in Booking : Exists(b) => Exists(b)'
    BY <1>2 DEF Exists
  <1>15. RowsOK'
    <2>1. ASSUME NEW q \in Sub, SubExists(q)' PROVE subs'[q].starts_on \in FirstDays
      BY <1>0, <1>4, <1>7, <1>9, <2>1 DEF RowsOK, SubExists
    <2>2. ASSUME NEW b \in Booking
          PROVE  /\ Exists(b)' => bookings'[b].version # 0
                 /\ ~Exists(b)' => held'[b] = {} /\ child'[b] = NULL
                 /\ child'[b] # NULL => subs'[child'[b]].status # "absent"
      <3>1. child[b] # NULL => child[b] \in Sub /\ SubExists(child[b])
        BY <1>0 DEF TypeOK, RowsOK
      <3>2. QED
        BY <1>0, <1>2, <1>12, <3>1 DEF RowsOK, Exists, SubExists
    <2>3. QED
      BY <1>0, <1>2, <2>1, <2>2 DEF RowsOK, SubExists
  <1>16. \A q \in Req : RequestOK(q)'
    BY <1>10, <1>12, <1>13, <1>14, IdleIsOK, RequestsStayOK
  <1>17. QED
    BY <1>1, <1>7, <1>9, <1>11, <1>15, <1>16 DEF Typed

LEMMA CommitPaymentTyped ==
  ASSUME Typed, NEW r \in Req, CommitPayment(r)
  PROVE  Typed'
  <1>0. TypeOK /\ RowsOK /\ RequestOK(r)
    BY DEF Typed
  <1>1. /\ bookings' = bookings /\ held' = held /\ subs' = subs /\ child' = child
        /\ sublock' = sublock /\ creating' = creating /\ today' = today /\ lost' = lost
        /\ req[r].pc \in {"submitting", "verifying", "rejecting"}
    BY DEF CommitPayment
  <1>2. req[r].txn \in Txn /\ TxnExists(req[r].txn) /\ req[r] \in Request /\ req[r] # Idle
    BY <1>0, <1>1 DEF RequestOK, TypeOK, Idle
  <1>3. PICK status \in TxnStatuses : txns' = [txns EXCEPT ![req[r].txn].status = status]
    BY <1>1 DEF CommitPayment, TxnStatuses
  <1>4. txns[req[r].txn] \in TxnRow
    BY <1>0, <1>2 DEF TypeOK, PaymentTableTypeOK, TxnExists, NoTxn
  <1>5. [txns[req[r].txn] EXCEPT !.status = status] \in TxnRow
        /\ [txns[req[r].txn] EXCEPT !.status = status].status = status
    BY <1>4 DEF TxnRow
  <1>6. txns' \in [Txn -> TxnRow \cup {NoTxn}]
    BY <1>0, <1>2, <1>3, <1>5 DEF TypeOK, PaymentTableTypeOK
  <1>7. \A t \in Txn : TxnExists(t) => TxnExists(t)'
    BY <1>0, <1>3, <1>5 DEF TypeOK, PaymentTableTypeOK, TxnExists, TxnStatuses
  <1>8. /\ verified' \in SUBSET Txn /\ req' \in [Req -> Request \cup {Idle}]
        /\ \A q \in Req : q # r => req'[q] = req[q]
        /\ RequestOK(r)'
    <2>1. CASE req[r].pc = "verifying"
      <3>1. Goto(r, "committed") /\ verified' = verified \cup {req[r].txn}
        BY <2>1 DEF CommitPayment
      <3>2. /\ req' \in [Req -> Request \cup {Idle}] /\ req'[r] = [req[r] EXCEPT !.pc = "committed"]
            /\ \A q \in Req : q # r => req'[q] = req[q]
        BY <1>0, <1>2, <3>1, GotoTyped DEF Phases
      <3>3. req'[r].pc = "committed" /\ req'[r].txn = req[r].txn
        BY <1>2, <3>2 DEF Request
      <3>4. RequestOK(r)'
        BY <1>2, <3>3 DEF RequestOK
      <3>5. QED
        BY <1>0, <1>2, <3>1, <3>2, <3>4 DEF TypeOK
    <2>2. CASE req[r].pc # "verifying"
      <3>1. Finish(r) /\ verified' = verified
        BY <2>2 DEF CommitPayment
      <3>2. QED
        BY <1>0, <3>1, FinishTyped, IdleIsOK DEF TypeOK
    <2>3. QED
      BY <2>1, <2>2
  <1>9. TypeOK'
    BY <1>0, <1>1, <1>6, <1>8 DEF TypeOK, BookingTableTypeOK, PaymentTableTypeOK
  <1>10. RowsOK'
    BY <1>0, <1>1 DEF RowsOK, SubExists, Exists
  <1>11. \A q \in Req : RequestOK(q)'
    BY <1>1, <1>7, <1>8, RequestsStayOK DEF SubExists, Exists
  <1>12. QED
    BY <1>9, <1>10, <1>11 DEF Typed

(* What a writer of the status of a subscription leaves alone.             *)
LEMMA SubStatusTyped ==
  ASSUME Typed, NEW s \in Sub, SubExists(s), NEW new \in SubRow, subs' = [subs EXCEPT ![s] = new],
         new.starts_on = subs[s].starts_on
  PROVE  /\ subs' \in [Sub -> SubRow \cup {NoSub}]
         /\ \A q \in Sub : SubExists(q)' <=> SubExists(q)
         /\ \A q \in Sub : SubExists(q) => subs'[q].starts_on \in FirstDays
  <1>1. new.status # "absent"
    BY DEF SubRow, SubStatuses
  <1>2. QED
    BY <1>1 DEF Typed, TypeOK, SubExists, RowsOK

LEMMA CommitActivationTyped ==
  ASSUME Typed, NEW r \in Req, CommitActivation(r)
  PROVE  Typed'
  <1>0. TypeOK /\ RowsOK /\ RequestOK(r) /\ req[r].pc = "booking"
    BY DEF Typed, CommitActivation
  <1> DEFINE rows == req[r].rows
             sub == req[r].sub
  <1>1. PICK key \in [rows -> {b \in Booking : ~Exists(b)}] :
          LET new == {key[d] : d \in rows}
              row(b) == CHOOSE d \in rows : key[d] = b
          IN /\ bookings' = [b \in Booking |->
                               IF b \in new THEN Child(row(b).range) ELSE bookings[b]]
             /\ held' = [b \in Booking |-> IF b \in new THEN {"confirmed"} ELSE held[b]]
             /\ child' = [b \in Booking |-> IF b \in new THEN sub ELSE child[b]]
    BY DEF CommitActivation
  <1> DEFINE new == {key[d] : d \in rows}
             row(b) == CHOOSE d \in rows : key[d] = b
  <1>2. /\ subs' = [subs EXCEPT ![sub].status = "active"] /\ Unlock(r) /\ Finish(r)
        /\ txns' = txns /\ creating' = creating /\ today' = today /\ verified' = verified
        /\ lost' = lost
    BY DEF CommitActivation
  <1>3. sub \in Sub /\ SubExists(sub) /\ rows \subseteq Entry
    BY <1>0 DEF RequestOK, TypeOK, Request, Idle
  <1>4. subs[sub] \in SubRow
    BY <1>0, <1>3 DEF TypeOK, SubExists, NoSub
  <1>5. [subs[sub] EXCEPT !.status = "active"] \in SubRow
        /\ [subs[sub] EXCEPT !.status = "active"].starts_on = subs[sub].starts_on
    BY <1>4 DEF SubRow, SubStatuses
  <1>6. /\ subs' \in [Sub -> SubRow \cup {NoSub}]
        /\ \A q \in Sub : SubExists(q)' <=> SubExists(q)
        /\ \A q \in Sub : SubExists(q) => subs'[q].starts_on \in FirstDays
    BY <1>2, <1>3, <1>5, SubStatusTyped
  <1>7. ASSUME NEW b \in new PROVE b \in Booking /\ row(b).range \in TimeRange
    <2>1. \E d \in rows : key[d] = b
      BY DEF new
    <2>2. row(b) \in Entry
      BY <1>3, <2>1
    <2>3. QED
      BY <2>1, <2>2 DEF Entry
  <1>8. ASSUME NEW s \in TimeRange PROVE Child(s) \in Row /\ Child(s).status = "confirmed"
                                         /\ Child(s).version = 1
    BY DEF Child, Row, Statuses
  <1>9. \A b \in Booking :
          /\ bookings'[b] = IF b \in new THEN Child(row(b).range) ELSE bookings[b]
          /\ held'[b] = IF b \in new THEN {"confirmed"} ELSE held[b]
          /\ child'[b] = IF b \in new THEN sub ELSE child[b]
    BY <1>1
  <1>10. bookings' \in [Booking -> Row \cup {NoRow}]
    <2>1. ASSUME NEW b \in Booking PROVE bookings'[b] \in Row \cup {NoRow}
      <3>1. CASE b \in new
        <4>1. row(b).range \in TimeRange
          BY <1>7, <3>1
        <4>2. Child(row(b).range) \in Row
          BY <1>8, <4>1
        <4>3. QED
          BY <1>9, <3>1, <4>2
      <3>2. CASE b \notin new
        BY <1>0, <1>9, <3>2 DEF TypeOK, BookingTableTypeOK
      <3>3. QED
        BY <3>1, <3>2
    <2>2. bookings' = [b \in Booking |-> bookings'[b]]
      BY <1>1
    <2>3. QED
      BY <2>1, <2>2
  <1>11. held' \in [Booking -> SUBSET Statuses] /\ child' \in [Booking -> Sub \cup {NULL}]
    <2>1. ASSUME NEW b \in Booking
          PROVE  held'[b] \in SUBSET Statuses /\ child'[b] \in Sub \cup {NULL}
      BY <1>0, <1>3, <1>9 DEF TypeOK, BookingTableTypeOK, Statuses
    <2>2. held' = [b \in Booking |-> held'[b]] /\ child' = [b \in Booking |-> child'[b]]
      BY <1>1
    <2>3. QED
      BY <2>1, <2>2
  <1>12. /\ req' \in [Req -> Request \cup {Idle}] /\ req'[r] = Idle
         /\ \A q \in Req : q # r => req'[q] = req[q]
    BY <1>0, <1>2, FinishTyped
  <1>13. TypeOK'
    BY <1>0, <1>2, <1>6, <1>10, <1>11, <1>12, UnlockTyped
       DEF TypeOK, BookingTableTypeOK, PaymentTableTypeOK
  <1>14. ASSUME NEW b \in Booking, b \in new
         PROVE  Exists(b)' /\ bookings'[b].version # 0 /\ child'[b] = sub
    <2>1. row(b).range \in TimeRange
      BY <1>7, <1>14
    <2>2. Child(row(b).range).status = "confirmed" /\ Child(row(b).range).version = 1
      BY <1>8, <2>1
    <2>3. QED
      BY <1>9, <1>14, <2>2 DEF Exists
  <1>15. ASSUME NEW b \in Booking, b \notin new
         PROVE  bookings'[b] = bookings[b] /\ held'[b] = held[b] /\ child'[b] = child[b]
    BY <1>9, <1>15
  <1> HIDE DEF new, row
  <1>16. RowsOK'
    <2>1. ASSUME NEW b \in Booking
          PROVE  /\ Exists(b)' => bookings'[b].version # 0
                 /\ ~Exists(b)' => held'[b] = {} /\ child'[b] = NULL
                 /\ child'[b] # NULL => subs'[child'[b]].status # "absent"
      <3>1. child'[b] # NULL => child'[b] \in Sub /\ SubExists(child'[b])
        BY <1>0, <1>3, <1>14, <1>15 DEF TypeOK, RowsOK
      <3>2. child'[b] # NULL => subs'[child'[b]].status # "absent"
        BY <1>6, <3>1 DEF SubExists
      <3>3. CASE b \in new
        BY <1>14, <3>2, <3>3 DEF Exists
      <3>4. CASE b \notin new
        BY <1>0, <1>15, <3>2, <3>4 DEF RowsOK, Exists
      <3>5. QED
        BY <3>3, <3>4
    <2>2. ASSUME NEW q \in Sub, SubExists(q)' PROVE subs'[q].starts_on \in FirstDays
      BY <1>6, <2>2 DEF SubExists
    <2>3. QED
      BY <1>0, <1>2, <2>1, <2>2 DEF RowsOK, SubExists
  <1>17. \A b \in Booking : Exists(b) => Exists(b)'
    BY <1>14, <1>15 DEF Exists
  <1>18. \A q \in Req : RequestOK(q)'
    BY <1>2, <1>6, <1>12, <1>17, IdleIsOK, RequestsStayOK DEF TxnExists
  <1>19. QED
    BY <1>13, <1>16, <1>18 DEF Typed

LEMMA CommitCancelTyped ==
  ASSUME Typed, NEW r \in Req, CommitCancel(r)
  PROVE  Typed'
  <1>0. TypeOK /\ RowsOK /\ RequestOK(r) /\ req[r].pc = "selected"
    BY DEF Typed, CommitCancel
  <1> DEFINE sub == req[r].sub
             read == req[r].read
             found == {b \in Booking : read[b] # 0}
             row(b) == [bookings[b] EXCEPT !.status = "cancelled", !.cancelled_at = TRUE,
                                           !.version = read[b] + 1]
             new == [subs[sub] EXCEPT !.status = "cancelled", !.cancelled_from = req[r].from]
  <1>1. /\ bookings' = [b \in Booking |-> IF b \in found THEN row(b) ELSE bookings[b]]
        /\ held' = [b \in Booking |-> IF b \in found THEN held[b] \cup {"cancelled"} ELSE held[b]]
        /\ subs' = [subs EXCEPT ![sub] = new]
    BY DEF CommitCancel
  <1>2. /\ Unlock(r) /\ Finish(r) /\ child' = child
        /\ txns' = txns /\ creating' = creating /\ today' = today /\ verified' = verified
        /\ lost' = lost
    BY DEF CommitCancel
  <1>3. /\ sub \in Sub /\ SubExists(sub) /\ req[r] \in Request
        /\ \A b \in Booking : read[b] # 0 => Exists(b)
    BY <1>0 DEF RequestOK, TypeOK, Idle
  <1>4. subs[sub] \in SubRow /\ req[r].from \in Nat /\ read \in [Booking -> Nat]
    BY <1>0, <1>3 DEF TypeOK, SubExists, NoSub, Request
  <1>5. new \in SubRow /\ new.starts_on = subs[sub].starts_on
    BY <1>4 DEF SubRow, SubStatuses
  <1>6. ASSUME NEW b \in Booking, b \in found
        PROVE  /\ row(b) \in Row /\ row(b).status = "cancelled"
               /\ row(b).version # 0
    <2>1. bookings[b] \in Row
      BY <1>0, <1>3, <1>6 DEF TypeOK, BookingTableTypeOK, Exists, NoRow
    <2>2. read[b] + 1 \in Nat /\ read[b] + 1 # 0
      BY <1>4
    <2>3. QED
      BY <2>1, <2>2 DEF Row, Statuses
  <1> HIDE DEF new, row
  <1>7. /\ subs' \in [Sub -> SubRow \cup {NoSub}]
        /\ \A q \in Sub : SubExists(q)' <=> SubExists(q)
        /\ \A q \in Sub : SubExists(q) => subs'[q].starts_on \in FirstDays
    BY <1>1, <1>3, <1>5, SubStatusTyped
  <1>8. bookings' \in [Booking -> Row \cup {NoRow}]
    BY <1>0, <1>1, <1>6 DEF TypeOK, BookingTableTypeOK
  <1>9. held' \in [Booking -> SUBSET Statuses]
    BY <1>0, <1>1 DEF TypeOK, BookingTableTypeOK, Statuses
  <1>10. /\ req' \in [Req -> Request \cup {Idle}] /\ req'[r] = Idle
         /\ \A q \in Req : q # r => req'[q] = req[q]
    BY <1>0, <1>2, FinishTyped
  <1>11. TypeOK'
    BY <1>0, <1>2, <1>7, <1>8, <1>9, <1>10, UnlockTyped
       DEF TypeOK, BookingTableTypeOK, PaymentTableTypeOK
  <1>12. ASSUME NEW b \in Booking
         PROVE  /\ Exists(b)' <=> Exists(b)
                /\ Exists(b) => bookings'[b].version # 0
                /\ ~Exists(b) => held'[b] = held[b]
    BY <1>0, <1>1, <1>3, <1>6 DEF Exists, RowsOK
  <1>13. RowsOK'
    <2>1. ASSUME NEW b \in Booking
          PROVE  child'[b] # NULL => subs'[child'[b]].status # "absent"
      <3>1. child[b] # NULL => child[b] \in Sub /\ SubExists(child[b])
        BY <1>0 DEF TypeOK, RowsOK
      <3>2. QED
        BY <1>2, <1>7, <3>1 DEF SubExists
    <2>2. ASSUME NEW q \in Sub, SubExists(q)' PROVE subs'[q].starts_on \in FirstDays
      BY <1>7, <2>2 DEF SubExists
    <2>3. QED
      BY <1>0, <1>2, <1>12, <2>1, <2>2 DEF RowsOK, SubExists
  <1>14. \A q \in Req : RequestOK(q)'
    BY <1>2, <1>7, <1>10, <1>12, IdleIsOK, RequestsStayOK DEF TxnExists
  <1>15. QED
    BY <1>11, <1>13, <1>14 DEF Typed

(* The steps of others touch no request.                                   *)
LEMMA OtherStepsTyped ==
  ASSUME Typed, FindFree \/ CommitCreation \/ OtherTransitions \/ Tick
  PROVE  Typed'
  <1>0. TypeOK /\ RowsOK /\ \A q \in Req : RequestOK(q)
    BY DEF Typed
  <1>1. /\ txns' = txns /\ subs' = subs /\ child' = child /\ sublock' = sublock /\ req' = req
        /\ verified' = verified /\ lost' = lost
    BY DEF FindFree, CommitCreation, OtherTransitions, Tick, tables
  <1>2. creating' \in Slot \cup {NULL} /\ today' \in 1 .. LastDay
    BY <1>0, CalendarAssumption, SubscriptionAssumption
       DEF TypeOK, RowsOK, FindFree, CommitCreation, OtherTransitions, Tick, tables
  <1> DEFINE Fine ==
        /\ bookings' \in [Booking -> Row \cup {NoRow}] /\ held' \in [Booking -> SUBSET Statuses]
        /\ \A b \in Booking : /\ Exists(b) => Exists(b)'
                              /\ Exists(b)' => bookings'[b].version # 0
                              /\ ~Exists(b)' => held'[b] = {}
  <1>3. Fine
    <2>1. CASE UNCHANGED <<bookings, held>>
      BY <1>0, <2>1 DEF TypeOK, BookingTableTypeOK, RowsOK, Exists
    <2>2. ASSUME NEW b \in Booking, NEW first \in LiveStatuses, creating \in Slot,
                 InsertRow(b, first, creating, NULL)
          PROVE  Fine
      <3> DEFINE row == [status |-> first, slot |-> creating, discount |-> NULL,
                         cancelled_at |-> FALSE, refund_amount |-> NULL, version |-> 1]
      <3>1. row \in Row /\ row.status # "absent" /\ row.version # 0 /\ {first} \subseteq Statuses
        BY <2>2 DEF Row, Slot, Statuses, LiveStatuses
      <3>2. ~Exists(b) /\ bookings' = [bookings EXCEPT ![b] = row]
            /\ held' = [held EXCEPT ![b] = {first}]
        BY <2>2 DEF InsertRow
      <3> HIDE DEF row
      <3>3. QED
        BY <1>0, <3>1, <3>2 DEF TypeOK, BookingTableTypeOK, RowsOK, Exists
    <2>3. ASSUME NEW b \in Booking, NEW target \in OtherTargets, held[b] # {},
                 UpdateStatus(b, target, bookings[b].version + 1)
          PROVE  Fine
      <3>1. Exists(b) /\ target \in Statuses
        BY <1>0, <2>3, SubscriptionAssumption DEF RowsOK
      <3>2. bookings[b] \in Row
        BY <1>0, <3>1 DEF TypeOK, BookingTableTypeOK, Exists, NoRow
      <3> DEFINE row == [bookings[b] EXCEPT !.status = target, !.version = bookings[b].version + 1]
      <3>3. row \in Row /\ row.status # "absent" /\ row.version # 0
        <4>1. bookings[b].version + 1 \in Nat /\ bookings[b].version + 1 # 0
          BY <3>2 DEF Row
        <4>2. QED
          BY <3>1, <3>2, <4>1 DEF Row, Statuses
      <3>4. bookings' = [bookings EXCEPT ![b] = row] /\ held' = [held EXCEPT ![b] = @ \cup {target}]
        BY <2>3 DEF UpdateStatus
      <3> HIDE DEF row
      <3>5. QED
        BY <1>0, <3>1, <3>3, <3>4 DEF TypeOK, BookingTableTypeOK, RowsOK, Exists
    <2>4. CASE FindFree \/ Tick
      BY <2>1, <2>4 DEF FindFree, Tick, tables
    <2>5. CASE CommitCreation
      <3>1. creating \in Slot
        BY <1>0, <2>5 DEF TypeOK, CommitCreation
      <3>2. OtherKeys \subseteq Booking
        BY SubscriptionAssumption
      <3>3. \/ \E b \in OtherKeys, first \in LiveStatuses : InsertRow(b, first, creating, NULL)
            \/ UNCHANGED <<bookings, held>>
        BY <2>5 DEF CommitCreation
      <3>4. ASSUME NEW b \in OtherKeys, NEW first \in LiveStatuses,
                   InsertRow(b, first, creating, NULL)
            PROVE  Fine
        <4>1. b \in Booking
          BY <3>2
        <4> HIDE DEF Fine
        <4>2. QED
          BY <2>2, <3>1, <3>4, <4>1
      <3> HIDE DEF Fine
      <3>5. QED
        BY <2>1, <3>3, <3>4
    <2>6. CASE OtherTransitions
      <3>1. PICK b \in Booking, target \in OtherTargets :
              held[b] # {} /\ UpdateStatus(b, target, bookings[b].version + 1)
        BY <2>6 DEF OtherTransitions
      <3> HIDE DEF Fine
      <3>2. QED
        BY <2>3, <3>1
    <2>7. QED
      BY <2>4, <2>5, <2>6
  <1>4. TypeOK'
    BY <1>0, <1>1, <1>2, <1>3, CalendarAssumption DEF TypeOK, BookingTableTypeOK, PaymentTableTypeOK
  <1>5. RowsOK'
    BY <1>0, <1>1, <1>2, <1>3 DEF RowsOK, SubExists
  <1>6. ASSUME NEW q \in Req PROVE RequestOK(q)'
    BY <1>0, <1>1, <1>3, OthersStayOK DEF TxnExists, SubExists
  <1>7. QED
    BY <1>4, <1>5, <1>6 DEF Typed

LEMMA TypedInit == Init => Typed
  <1> SUFFICES ASSUME Init PROVE Typed
    OBVIOUS
  <1>1. TypeOK
    BY CalendarAssumption
       DEF Init, TypeOK, BookingTableInit, PaymentTableInit, BookingTableTypeOK, PaymentTableTypeOK
  <1>2. RowsOK
    BY CalendarAssumption DEF Init, RowsOK, BookingTableInit, SubExists, Exists, NoSub, NoRow
  <1>3. \A r \in Req : RequestOK(r)
    BY DEF Init, RequestOK, Idle
  <1>4. QED
    BY <1>1, <1>2, <1>3 DEF Typed

LEMMA TypedNext == Typed /\ [Next]_vars => Typed'
  <1> SUFFICES ASSUME Typed, [Next]_vars PROVE Typed'
    OBVIOUS
  <1>1. CASE Next
    <2>1. CASE \E r \in Req : Receive(r) \/ Proceed(r) \/ Flush(r) \/ Fail(r)
      BY <2>1, EarlyStepsTyped, InsertSubscriptionTyped, CommitPaymentTyped, CommitActivationTyped,
         CommitCancelTyped DEF Receive, Proceed, Flush
    <2>2. QED
      BY <1>1, <2>1, OtherStepsTyped DEF Next
  <1>2. CASE UNCHANGED vars
    BY <1>2 DEF vars, Typed, TypeOK, BookingTableTypeOK, PaymentTableTypeOK, RowsOK, RequestOK,
                Exists, SubExists, TxnExists
  <1>3. QED
    BY <1>1, <1>2

(***************************************************************************)
(* Activation and cancellation keep the types of the tables, locks and     *)
(* requests, whatever the calendar.                                        *)
(***************************************************************************)
THEOREM SubscriptionTyping == Spec => []TypeOK
  <1>1. Typed => TypeOK
    BY DEF Typed
  <1>2. QED
    BY <1>1, TypedInit, TypedNext, PTL DEF Spec

-----------------------------------------------------------------------------
(* What the requests do, step by step, as far as the rest depends on it.   *)

(* A step that reads, writes nothing a table holds, and keeps the locks.   *)
OnlyReads == UNCHANGED <<bookings, subs, child, verified>>

(* A request is not on the way to an activation, nor reading children.     *)
Aside(q) ==
  /\ req'[q].pc \notin {"committed", "scheduled", "loaded", "booking", "flushed", "selected"}
  /\ req'[q].pc # "idle" => \/ req'[q].rows = {}
                            \/ req[q].pc = "checking" /\ req'[q].rows = req[q].rows

Same(q) == req'[q].txn = req[q].txn /\ req'[q].rows = req[q].rows

Verifies(q) == /\ req[q].pc = "verifying" /\ req'[q].pc = "committed" /\ Same(q)
               /\ req[q].txn \in verified'

Schedules(q) == /\ req[q].pc = "committed" /\ req'[q].pc = "scheduled" /\ Same(q)
                /\ OnlyReads

Loads(q) == /\ req[q].pc = "scheduled" /\ req'[q].pc = "loaded" /\ Same(q) /\ OnlyReads
            /\ req'[q].sub \in Sub /\ subs[req'[q].sub].payment = req[q].txn

Activates(q) == /\ req[q].pc = "loaded" /\ req'[q].pc = "booking" /\ Same(q) /\ OnlyReads
                /\ req'[q].sub = req[q].sub /\ sublock'[req[q].sub] = q

Books(q) == /\ req[q].pc = "booking" /\ req'[q].pc = "booking" /\ OnlyReads
            /\ req'[q].txn = req[q].txn /\ req'[q].sub = req[q].sub /\ sublock' = sublock
            /\ \/ req'[q].rows = req[q].rows
               \/ \E d \in Entry : /\ req'[q].rows = req[q].rows \cup {d} /\ Conflicts(d.range) = {}
                                   /\ \A e \in req[q].rows : ~Overlap(e.range, d.range)

Reaches(q) == /\ req[q].pc = "cancelling" /\ req'[q].pc = "flushed" /\ Same(q) /\ OnlyReads
              /\ req'[q].sub = req[q].sub /\ sublock'[req[q].sub] = q

Selects(q) == /\ req[q].pc = "flushed" /\ req'[q].pc = "selected" /\ Same(q) /\ OnlyReads
              /\ req'[q].sub = req[q].sub /\ req'[q].from = req[q].from /\ sublock' = sublock
              /\ \A b \in LiveChildren(req[q].sub, req[q].from) :
                   req'[q].read[b] = bookings[b].version

Acts(q) == Receive(q) \/ Proceed(q) \/ Flush(q) \/ Fail(q)

LEMMA FinishIsAside ==
  ASSUME TypeOK, NEW q \in Req, Finish(q)
  PROVE  Aside(q)
  BY FinishTyped DEF Aside, Idle

LEMMA WhatActingDoes ==
  ASSUME Typed, NEW q \in Req, Acts(q)
  PROVE  \/ Aside(q) \/ Verifies(q) \/ Schedules(q) \/ Loads(q) \/ Activates(q) \/ Books(q)
         \/ Reaches(q) \/ Selects(q)
  <1>0. TypeOK /\ RowsOK /\ RequestOK(q)
    BY DEF Typed
  <1>f. Finish(q) => Aside(q)
    BY <1>0, FinishIsAside
  <1>i. ASSUME req[q].pc # "idle" PROVE req[q] \in Request /\ req[q] # Idle
    BY <1>0, <1>i DEF TypeOK, Idle
  <1>n. ASSUME NEW new, req' = [req EXCEPT ![q] = new] PROVE req'[q] = new
    BY <1>0, <1>n DEF TypeOK
  <1>g. ASSUME NEW pc \in Phases, Goto(q, pc), req[q].pc # "idle"
        PROVE  /\ req'[q].pc = pc /\ Same(q) /\ req'[q].sub = req[q].sub
               /\ req'[q].from = req[q].from
    <2>1. req'[q] = [req[q] EXCEPT !.pc = pc] /\ req[q] \in Request
      BY <1>0, <1>g, <1>i, GotoTyped
    <2>2. QED
      BY <2>1 DEF Request, Same
  <1>1. CASE Initiate(q)
    <2>1. PICK W \in Picks : req' = [req EXCEPT ![q] = [Start("checking") EXCEPT
                                       !.slots = W, !.at = 1, !.todo = Dated(1, W[1], today),
                                       !.seen = {s \in Sub : SubExists(s)}]]
      BY <1>1 DEF Initiate
    <2>2. req'[q] = [Start("checking") EXCEPT !.slots = W, !.at = 1, !.todo = Dated(1, W[1], today),
                                              !.seen = {s \in Sub : SubExists(s)}]
      BY <1>n, <2>1
    <2>3. req'[q].pc = "checking" /\ req'[q].rows = {}
      BY <2>2 DEF Start
    <2>4. QED
      BY <2>3 DEF Aside
  <1>2. CASE CheckDate(q)
    <2>1. req[q] \in Request /\ req[q].pc = "checking"
      BY <1>2, <1>i DEF CheckDate
    <2>2. ASSUME NEW s, req' = [req EXCEPT ![q].todo = @ \ {s}] PROVE Aside(q)
      <3>1. req'[q] = [req[q] EXCEPT !.todo = req[q].todo \ {s}]
        BY <1>0, <2>2 DEF TypeOK
      <3>2. QED
        BY <2>1, <3>1 DEF Request, Aside
    <2>3. QED
      BY <1>2, <1>f, <2>2 DEF CheckDate
  <1>3. CASE CheckSubscriptions(q)
    <2>1. req[q].pc = "checking"
      BY <1>3 DEF CheckSubscriptions
    <2>2. Goto(q, "checked") => Aside(q)
      BY <1>g, <2>1 DEF Phases, Aside, Same
    <2>3. ASSUME NEW i, NEW todo, req' = [req EXCEPT ![q].at = i, ![q].todo = todo]
          PROVE  Aside(q)
      <3>1. req'[q] = [req[q] EXCEPT !.at = i, !.todo = todo] /\ req[q] \in Request
        BY <1>0, <1>i, <2>1, <2>3 DEF TypeOK
      <3>2. req'[q].pc = "checking" /\ req'[q].rows = req[q].rows
        BY <2>1, <3>1 DEF Request
      <3>3. QED
        BY <2>1, <3>2 DEF Aside
    <2>4. QED
      BY <1>3, <1>f, <2>2, <2>3 DEF CheckSubscriptions
  <1>4. CASE ReadPayment(q)
    <2>1. PICK t \in Txn, pc \in {"submitting", "verifying", "rejecting"} :
            req' = [req EXCEPT ![q] = [Start(pc) EXCEPT !.txn = t]]
      BY <1>4 DEF ReadPayment
    <2>2. req'[q] = [Start(pc) EXCEPT !.txn = t]
      BY <1>n, <2>1
    <2>3. req'[q].pc = pc /\ req'[q].rows = {}
      BY <2>2 DEF Start
    <2>4. QED
      BY <2>3 DEF Aside
  <1>5. CASE Cancel(q)
    <2>1. PICK s \in Sub, from \in {0, today} :
            req' = [req EXCEPT ![q] = [Start("cancelling") EXCEPT !.sub = s, !.from = from]]
      BY <1>5 DEF Cancel
    <2>2. req'[q] = [Start("cancelling") EXCEPT !.sub = s, !.from = from]
      BY <1>n, <2>1
    <2>3. req'[q].pc = "cancelling" /\ req'[q].rows = {}
      BY <2>2 DEF Start
    <2>4. QED
      BY <2>3 DEF Aside
  <1>6. CASE InsertSubscription(q)
    BY <1>6, <1>f DEF InsertSubscription
  <1>7. CASE CommitPayment(q)
    <2>1. CASE req[q].pc = "verifying"
      <3>1. Goto(q, "committed") /\ verified' = verified \cup {req[q].txn}
        BY <1>7, <2>1 DEF CommitPayment
      <3>2. QED
        BY <1>g, <2>1, <3>1 DEF Verifies, Phases
    <2>2. CASE req[q].pc # "verifying"
      BY <1>7, <1>f, <2>2 DEF CommitPayment
    <2>3. QED
      BY <2>1, <2>2
  <1>8. CASE Emit(q)
    <2>1. req[q].pc = "committed" /\ OnlyReads
      BY <1>8 DEF Emit, OnlyReads, tables
    <2>2. Goto(q, "scheduled") => Schedules(q)
      BY <1>g, <2>1 DEF Schedules, Phases
    <2>3. QED
      BY <1>8, <1>f, <2>2 DEF Emit
  <1>9. CASE LoadByPayment(q)
    <2>1. req[q].pc = "scheduled" /\ OnlyReads /\ req[q] \in Request
      BY <1>9, <1>i DEF LoadByPayment, OnlyReads, tables
    <2>2. ASSUME NEW s \in Sub, subs[s].payment = req[q].txn,
                 req' = [req EXCEPT ![q].pc = "loaded", ![q].sub = s]
          PROVE  Loads(q)
      <3>1. req'[q] = [req[q] EXCEPT !.pc = "loaded", !.sub = s]
        BY <1>0, <2>2 DEF TypeOK
      <3>2. req'[q].pc = "loaded" /\ req'[q].sub = s /\ Same(q)
        BY <2>1, <3>1 DEF Request, Same
      <3>3. QED
        BY <2>1, <2>2, <3>2 DEF Loads
    <2>3. QED
      BY <1>9, <1>f, <2>2 DEF LoadByPayment
  <1>10. CASE BookDate(q)
    <2>1. req[q].pc = "booking" /\ OnlyReads /\ req[q] \in Request /\ sublock' = sublock
      BY <1>10, <1>i DEF BookDate, OnlyReads, tables
    <2>2. PICK s \in req[q].todo :
            IF Conflicts(s.range) = {} /\ \A t \in req[q].rows : ~Overlap(t.range, s.range)
            THEN req' = [req EXCEPT ![q].todo = @ \ {s}, ![q].rows = @ \cup {s}]
            ELSE req' = [req EXCEPT ![q].todo = @ \ {s}]
      BY <1>10 DEF BookDate
    <2>3. s \in Entry
      BY <2>1, <2>2 DEF Request
    <2>4. CASE Conflicts(s.range) = {} /\ \A t \in req[q].rows : ~Overlap(t.range, s.range)
      <3>1. req'[q] = [req[q] EXCEPT !.todo = req[q].todo \ {s}, !.rows = req[q].rows \cup {s}]
        BY <1>0, <2>2, <2>4 DEF TypeOK
      <3>2. /\ req'[q].pc = "booking" /\ req'[q].txn = req[q].txn /\ req'[q].sub = req[q].sub
            /\ req'[q].rows = req[q].rows \cup {s}
        BY <2>1, <3>1 DEF Request
      <3>3. QED
        BY <2>1, <2>3, <2>4, <3>2 DEF Books
    <2>5. CASE ~(Conflicts(s.range) = {} /\ \A t \in req[q].rows : ~Overlap(t.range, s.range))
      <3>1. req'[q] = [req[q] EXCEPT !.todo = req[q].todo \ {s}]
        BY <1>0, <2>2, <2>5 DEF TypeOK
      <3>2. /\ req'[q].pc = "booking" /\ req'[q].txn = req[q].txn /\ req'[q].sub = req[q].sub
            /\ req'[q].rows = req[q].rows
        BY <2>1, <3>1 DEF Request
      <3>3. QED
        BY <2>1, <3>2 DEF Books
    <2>6. QED
      BY <2>4, <2>5
  <1>11. CASE SelectChildren(q)
    <2> DEFINE found == LiveChildren(req[q].sub, req[q].from)
               read == [b \in Booking |-> IF b \in found THEN bookings[b].version ELSE 0]
    <2>1. req[q].pc = "flushed" /\ OnlyReads /\ req[q] \in Request /\ sublock' = sublock
          /\ req' = [req EXCEPT ![q].pc = "selected", ![q].read = read]
      BY <1>11, <1>i DEF SelectChildren, OnlyReads, tables
    <2>2. found \subseteq Booking
      BY DEF LiveChildren
    <2>3. \A b \in found : read[b] = bookings[b].version
      BY <2>2
    <2> HIDE DEF read
    <2>4. req'[q] = [req[q] EXCEPT !.pc = "selected", !.read = read]
      BY <1>0, <2>1 DEF TypeOK
    <2>5. /\ req'[q].pc = "selected" /\ Same(q) /\ req'[q].sub = req[q].sub
          /\ req'[q].from = req[q].from /\ req'[q].read = read
      <3>1. req[q] \in Request
        BY <2>1
      <3>2. /\ req'[q].pc = "selected" /\ req'[q].txn = req[q].txn /\ req'[q].rows = req[q].rows
            /\ req'[q].sub = req[q].sub /\ req'[q].from = req[q].from /\ req'[q].read = read
        BY <2>4, <3>1 DEF Request
      <3>3. QED
        BY <3>2 DEF Same
    <2>6. QED
      BY <2>1, <2>3, <2>5 DEF Selects
  <1>12. CASE FlushActive(q)
    <2> DEFINE todo == AllDated(subs[req[q].sub].slots, subs[req[q].sub].starts_on)
    <2>1. req[q].pc = "loaded" /\ OnlyReads /\ req[q] \in Request
          /\ req' = [req EXCEPT ![q].pc = "booking", ![q].todo = todo]
          /\ sublock' = [sublock EXCEPT ![req[q].sub] = q]
      BY <1>12, <1>i DEF FlushActive, OnlyReads, tables
    <2> HIDE DEF todo
    <2>2. req[q].sub \in Sub
      BY <1>0, <2>1 DEF RequestOK
    <2>3. req'[q] = [req[q] EXCEPT !.pc = "booking", !.todo = todo]
      BY <1>0, <2>1 DEF TypeOK
    <2>4. req'[q].pc = "booking" /\ Same(q) /\ req'[q].sub = req[q].sub
      <3>1. req[q] \in Request
        BY <2>1
      <3>2. /\ req'[q].pc = "booking" /\ req'[q].txn = req[q].txn /\ req'[q].rows = req[q].rows
            /\ req'[q].sub = req[q].sub
        BY <2>3, <3>1 DEF Request
      <3>3. QED
        BY <3>2 DEF Same
    <2>5. QED
      BY <1>0, <2>1, <2>2, <2>4 DEF Activates, TypeOK
  <1>13. CASE FlushCancelled(q)
    <2>1. req[q].pc = "cancelling" /\ OnlyReads /\ Goto(q, "flushed")
          /\ sublock' = [sublock EXCEPT ![req[q].sub] = q]
      BY <1>13 DEF FlushCancelled, OnlyReads, tables
    <2>2. req[q].sub \in Sub
      BY <1>0, <2>1 DEF RequestOK
    <2>3. QED
      BY <1>0, <1>g, <2>1, <2>2 DEF Reaches, TypeOK, Phases
  <1>14. CASE CommitActivation(q) \/ CommitCancel(q) \/ Fail(q)
    BY <1>14, <1>f DEF CommitActivation, CommitCancel, Fail
  <1>15. QED
    BY <1>1, <1>2, <1>3, <1>4, <1>5, <1>6, <1>7, <1>8, <1>9, <1>10, <1>11, <1>12, <1>13, <1>14
       DEF Acts, Receive, Proceed, Flush

(* Whoever does not act goes on as it was, and keeps its row locks.        *)
LEMMA OthersKeepTheirLocks ==
  ASSUME TypeOK, NEW p \in Req, Acts(p), NEW q \in Req, q # p
  PROVE  /\ req'[q] = req[q]
         /\ \A s \in Sub : sublock[s] = q => sublock'[s] = q
  <1>n. NULL \notin Req
    BY SubscriptionAssumption
  <1>1. req'[q] = req[q]
    BY DEF TypeOK, Acts, Receive, Proceed, Flush, Initiate, CheckDate, CheckSubscriptions,
           ReadPayment, Cancel, InsertSubscription, CommitPayment, Emit, LoadByPayment, BookDate,
           CommitActivation, SelectChildren, CommitCancel, FlushActive, FlushCancelled, Fail,
           Goto, Finish
  <1>2. \/ sublock' = sublock
        \/ sublock[req[p].sub] = NULL /\ sublock' = [sublock EXCEPT ![req[p].sub] = p]
        \/ Unlock(p)
    BY DEF Acts, Receive, Proceed, Flush, Initiate, CheckDate, CheckSubscriptions,
           ReadPayment, Cancel, InsertSubscription, CommitPayment, Emit, LoadByPayment, BookDate,
           CommitActivation, SelectChildren, CommitCancel, FlushActive, FlushCancelled, Fail
  <1>3. \A s \in Sub : sublock[s] = q => sublock'[s] = q
    BY <1>n, <1>2 DEF TypeOK, Unlock
  <1>4. QED
    BY <1>1, <1>3

(* The steps of everybody else touch neither.                              *)
LEMMA OtherStepsKeepRequests ==
  ASSUME [Next]_vars, ~\E p \in Req : Acts(p)
  PROVE  /\ UNCHANGED <<req, sublock, subs, child, verified>>
         /\ FindFree \/ CommitCreation \/ OtherTransitions \/ Tick \/ UNCHANGED vars
  <1>1. FindFree \/ CommitCreation \/ OtherTransitions \/ Tick \/ UNCHANGED vars
    BY DEF Next, Acts
  <1>2. QED
    BY <1>1 DEF FindFree, CommitCreation, OtherTransitions, Tick, tables, vars

-----------------------------------------------------------------------------
(* The invariant.                                                          *)

(* Who adds or reads children holds the row of the subscription.           *)
Locked == \A q \in Req : req[q].pc \in {"booking", "flushed", "selected"} =>
                           sublock[req[q].sub] = q

(* Only an activation that has the row has bookings to insert.             *)
NoRowsYet == \A q \in Req : req[q].pc \notin {"idle", "booking"} => req[q].rows = {}

(* An activation is of the subscription that a verified payment paid for.  *)
Paid == \A q \in Req :
  /\ req[q].pc \in {"committed", "scheduled", "loaded", "booking"} => req[q].txn \in verified
  /\ req[q].pc \in {"loaded", "booking"} => subs[req[q].sub].payment = req[q].txn

(* No status of a child leads back to a live one.                          *)
NeverPending == \A b \in Booking : child[b] # NULL => "pending" \notin held[b]

(* What a cancellation has read is all there is.                           *)
ReadAll == \A q \in Req : req[q].pc = "selected" =>
             \A b \in LiveChildren(req[q].sub, req[q].from) : req[q].read[b] # 0

(* What an activation is about to insert overlaps neither itself nor what  *)
(* the subscription has.                                                   *)
RowsAreClear == \A q \in Req : req[q].pc = "booking" =>
  /\ \A t, u \in req[q].rows : t # u => ~Overlap(t.range, u.range)
  /\ \A b \in Booking : child[b] = req[q].sub /\ IsLive(b) =>
       \A t \in req[q].rows : ~Overlap(bookings[b].slot, t.range)

(* What the conflict queries keep apart, read by their own comparison.     *)
ChildrenDisjoint ==
  \A b, c \in Booking :
    b # c /\ child[b] # NULL /\ child[b] = child[c] /\ IsLive(b) /\ IsLive(c)
      => ~Overlap(bookings[b].slot, bookings[c].slot)

IInv == /\ Typed /\ Locked /\ NoRowsYet /\ Paid /\ NeverPending /\ ReadAll /\ RowsAreClear
        /\ CancelledHasNoLiveChildren /\ ChildrenDisjoint /\ ActiveWasPaid

LEMMA LockedStep ==
  ASSUME IInv, [Next]_vars
  PROVE  Locked'
  <1> SUFFICES ASSUME NEW q \in Req, req'[q].pc \in {"booking", "flushed", "selected"}
               PROVE  sublock'[req'[q].sub] = q
    BY DEF Locked
  <1>0. Typed /\ TypeOK /\ Locked /\ RequestOK(q)
    BY DEF IInv, Typed
  <1>1. CASE Acts(q)
    <2>1. ~Aside(q) /\ ~Verifies(q) /\ ~Schedules(q) /\ ~Loads(q)
      BY DEF Aside, Verifies, Schedules, Loads
    <2>2. CASE Activates(q) \/ Reaches(q)
      BY <2>2 DEF Activates, Reaches
    <2>3. CASE Books(q) \/ Selects(q)
      BY <1>0, <2>3 DEF Books, Selects, Locked
    <2>4. QED
      BY <1>0, <1>1, <2>1, <2>2, <2>3, WhatActingDoes
  <1>2. ASSUME NEW p \in Req, Acts(p), p # q PROVE sublock'[req'[q].sub] = q
    <2>1. req'[q] = req[q] /\ \A s \in Sub : sublock[s] = q => sublock'[s] = q
      BY <1>0, <1>2, OthersKeepTheirLocks
    <2>2. req[q].sub \in Sub
      BY <1>0, <2>1 DEF RequestOK
    <2>3. QED
      BY <1>0, <2>1, <2>2 DEF Locked
  <1>3. CASE ~\E p \in Req : Acts(p)
    BY <1>0, <1>3, OtherStepsKeepRequests DEF Locked
  <1>4. QED
    BY <1>1, <1>2, <1>3

LEMMA NoRowsYetStep ==
  ASSUME IInv, [Next]_vars
  PROVE  NoRowsYet'
  <1> SUFFICES ASSUME NEW q \in Req, req'[q].pc \notin {"idle", "booking"}
               PROVE  req'[q].rows = {}
    BY DEF NoRowsYet
  <1>0. Typed /\ TypeOK /\ NoRowsYet
    BY DEF IInv, Typed
  <1>1. CASE Acts(q)
    <2>1. CASE Aside(q)
      BY <1>0, <2>1 DEF Aside, NoRowsYet
    <2>2. CASE ~Aside(q)
      <3>1. Verifies(q) \/ Schedules(q) \/ Loads(q) \/ Reaches(q) \/ Selects(q)
        BY <1>0, <1>1, <2>2, WhatActingDoes DEF Activates, Books
      <3>2. Same(q) /\ req[q].pc \notin {"idle", "booking"}
        BY <3>1 DEF Verifies, Schedules, Loads, Reaches, Selects
      <3>3. QED
        BY <1>0, <3>2 DEF Same, NoRowsYet
    <2>3. QED
      BY <2>1, <2>2
  <1>2. ASSUME NEW p \in Req, Acts(p), p # q PROVE req'[q].rows = {}
    BY <1>0, <1>2, OthersKeepTheirLocks DEF NoRowsYet
  <1>3. CASE ~\E p \in Req : Acts(p)
    BY <1>0, <1>3, OtherStepsKeepRequests DEF NoRowsYet
  <1>4. QED
    BY <1>1, <1>2, <1>3

-----------------------------------------------------------------------------
(* What happens to the tables.                                             *)

(* A commit of an activation: who is new, and what the others still are.   *)
LEMMA WhatActivationAdds ==
  ASSUME Typed, NEW r \in Req, CommitActivation(r)
  PROVE  /\ req[r].pc = "booking" /\ req[r].sub \in Sub /\ SubExists(req[r].sub)
         /\ subs'[req[r].sub] = [subs[req[r].sub] EXCEPT !.status = "active"]
         /\ \A s \in Sub : s # req[r].sub => subs'[s] = subs[s]
         /\ verified' = verified
         /\ \E key \in [req[r].rows -> Booking] :
              /\ \A t \in req[r].rows :
                   /\ ~Exists(key[t]) /\ bookings'[key[t]].slot = t.range
                   /\ child'[key[t]] = req[r].sub /\ held'[key[t]] = {"confirmed"}
              /\ \A b \in Booking : (\A t \in req[r].rows : key[t] # b) =>
                   /\ bookings'[b] = bookings[b] /\ child'[b] = child[b]
                   /\ held'[b] = held[b]
  <1>0. TypeOK /\ RequestOK(r) /\ req[r].pc = "booking"
    BY DEF Typed, CommitActivation
  <1> DEFINE rows == req[r].rows
             sub == req[r].sub
  <1>1. sub \in Sub /\ SubExists(sub)
    BY <1>0 DEF RequestOK
  <1>2. PICK key \in [rows -> {b \in Booking : ~Exists(b)}] :
          LET new == {key[d] : d \in rows}
              row(b) == CHOOSE d \in rows : key[d] = b
          IN /\ \A d, e \in rows : key[d] = key[e] => d = e
             /\ bookings' = [b \in Booking |->
                               IF b \in new THEN Child(row(b).range) ELSE bookings[b]]
             /\ held' = [b \in Booking |-> IF b \in new THEN {"confirmed"} ELSE held[b]]
             /\ child' = [b \in Booking |-> IF b \in new THEN sub ELSE child[b]]
    BY DEF CommitActivation
  <1>3. subs' = [subs EXCEPT ![sub].status = "active"] /\ verified' = verified
    BY DEF CommitActivation
  <1>4. /\ subs'[sub] = [subs[sub] EXCEPT !.status = "active"]
        /\ \A s \in Sub : s # sub => subs'[s] = subs[s]
    BY <1>0, <1>1, <1>3 DEF TypeOK
  <1> DEFINE new == {key[d] : d \in rows}
             row(b) == CHOOSE d \in rows : key[d] = b
  <1>5. ASSUME NEW t \in rows
        PROVE  /\ ~Exists(key[t]) /\ bookings'[key[t]].slot = t.range
               /\ child'[key[t]] = sub /\ held'[key[t]] = {"confirmed"}
    <2>1. key[t] \in Booking /\ ~Exists(key[t]) /\ key[t] \in new
      BY <1>2
    <2>2. row(key[t]) = t
      <3>1. row(key[t]) \in rows /\ key[row(key[t])] = key[t]
        OBVIOUS
      <3>2. QED
        BY <1>2, <3>1
    <2>3. bookings'[key[t]] = Child(row(key[t]).range)
      BY <1>2, <2>1
    <2>4. bookings'[key[t]] = Child(t.range)
      BY <2>2, <2>3
    <2>5. bookings'[key[t]].slot = t.range
      BY <2>4 DEF Child
    <2>6. QED
      BY <1>2, <2>1, <2>5
  <1>6. ASSUME NEW b \in Booking, \A t \in rows : key[t] # b
        PROVE  bookings'[b] = bookings[b] /\ child'[b] = child[b] /\ held'[b] = held[b]
    <2>1. b \notin new
      BY <1>6
    <2>2. QED
      BY <1>2, <2>1
  <1>7. key \in [rows -> Booking]
    BY <1>2
  <1>8. QED
    BY <1>0, <1>1, <1>3, <1>4, <1>5, <1>6, <1>7

LEMMA WhoWritesBookings ==
  ASSUME [Next]_vars
  PROVE  \/ UNCHANGED <<bookings, held, child>>
         \/ \E r \in Req : CommitActivation(r) \/ CommitCancel(r)
         \/ CommitCreation \/ OtherTransitions
  <1>1. ASSUME NEW r \in Req, Receive(r) \/ Flush(r) \/ Fail(r)
        PROVE  UNCHANGED <<bookings, held, child>>
    BY <1>1 DEF Receive, Flush, Initiate, ReadPayment, Cancel, FlushActive, FlushCancelled, Fail,
                tables
  <1>2. ASSUME NEW r \in Req, Proceed(r), ~CommitActivation(r), ~CommitCancel(r)
        PROVE  UNCHANGED <<bookings, held, child>>
    BY <1>2 DEF Proceed, CheckDate, CheckSubscriptions, InsertSubscription, CommitPayment, Emit,
                LoadByPayment, BookDate, SelectChildren, tables
  <1>3. FindFree \/ Tick \/ UNCHANGED vars => UNCHANGED <<bookings, held, child>>
    BY DEF FindFree, Tick, tables, vars
  <1>4. QED
    BY <1>1, <1>2, <1>3 DEF Next

(* A child stays a child, keeps its slot, and is not revived; every other  *)
(* child is new, and comes with the activation of its subscription.        *)
LEMMA WhatBecomesOfBookings ==
  ASSUME Typed, NeverPending, [Next]_vars, NEW b \in Booking
  PROVE  /\ child[b] # NULL => /\ child'[b] = child[b]
                               /\ bookings'[b].slot = bookings[b].slot
                               /\ IsLive(b)' => IsLive(b)
                               /\ "pending" \notin held'[b]
         /\ child[b] = NULL /\ child'[b] # NULL =>
              \E r \in Req : /\ CommitActivation(r) /\ child'[b] = req[r].sub
                             /\ \E t \in req[r].rows : bookings'[b].slot = t.range
                             /\ held'[b] = {"confirmed"}
  <1>0. TypeOK /\ RowsOK /\ \A r \in Req : RequestOK(r)
    BY DEF Typed
  <1> DEFINE Kept == /\ child'[b] = child[b]
                     /\ child[b] # NULL => /\ bookings'[b].slot = bookings[b].slot
                                           /\ IsLive(b)' => IsLive(b)
                                           /\ "pending" \notin held'[b]
             Added(r) == /\ child[b] = NULL /\ child'[b] = req[r].sub
                         /\ \E t \in req[r].rows : bookings'[b].slot = t.range
                         /\ held'[b] = {"confirmed"}
  <1>1. UNCHANGED <<bookings, held, child>> => Kept
    BY DEF NeverPending, IsLive
  <1>2. ASSUME NEW r \in Req, CommitActivation(r)
        PROVE  Kept \/ Added(r)
    <2>1. PICK key \in [req[r].rows -> Booking] :
            /\ \A t \in req[r].rows :
                 /\ ~Exists(key[t]) /\ bookings'[key[t]].slot = t.range
                 /\ child'[key[t]] = req[r].sub /\ held'[key[t]] = {"confirmed"}
            /\ \A c \in Booking : (\A t \in req[r].rows : key[t] # c) =>
                 bookings'[c] = bookings[c] /\ child'[c] = child[c] /\ held'[c] = held[c]
      BY <1>2, WhatActivationAdds
    <2>2. CASE \A t \in req[r].rows : key[t] # b
      BY <2>1, <2>2 DEF NeverPending, IsLive
    <2>3. ASSUME NEW t \in req[r].rows, key[t] = b
          PROVE  Added(r)
      BY <1>0, <2>1, <2>3 DEF RowsOK
    <2>4. QED
      BY <2>2, <2>3
  <1>3. ASSUME NEW r \in Req, CommitCancel(r) PROVE Kept
    <2> DEFINE found == {c \in Booking : req[r].read[c] # 0}
               row == [bookings[b] EXCEPT !.status = "cancelled", !.cancelled_at = TRUE,
                                          !.version = req[r].read[b] + 1]
    <2>1. /\ bookings'[b] = IF b \in found THEN row ELSE bookings[b]
          /\ held'[b] = IF b \in found THEN held[b] \cup {"cancelled"} ELSE held[b]
          /\ child' = child
      BY <1>3 DEF CommitCancel
    <2>2. CASE b \notin found
      <3>1. bookings'[b] = bookings[b] /\ held'[b] = held[b]
        BY <2>1, <2>2
      <3>2. QED
        BY <2>1, <3>1 DEF NeverPending, IsLive
    <2>3. CASE b \in found
      <3>1. Exists(b)
        BY <1>0, <1>3, <2>3 DEF RequestOK, CommitCancel
      <3>2. bookings[b] \in Row
        BY <1>0, <3>1 DEF TypeOK, BookingTableTypeOK, Exists, NoRow
      <3>3. row.slot = bookings[b].slot /\ row.status = "cancelled"
        BY <3>2 DEF Row
      <3>4. bookings'[b] = row /\ held'[b] = held[b] \cup {"cancelled"}
        BY <2>1, <2>3
      <3> HIDE DEF row
      <3>5. QED
        BY <2>1, <3>3, <3>4 DEF NeverPending, IsLive, LiveStatuses
    <2>4. QED
      BY <2>2, <2>3
  <1>4. ASSUME CommitCreation PROVE Kept
    <2>1. child' = child
      BY <1>4 DEF CommitCreation
    <2>2. ASSUME NEW c \in OtherKeys, NEW first \in LiveStatuses,
                 InsertRow(c, first, creating, NULL)
          PROVE  Kept
      <3>1. c \in Booking /\ ~Exists(c)
        BY <2>2, SubscriptionAssumption DEF InsertRow
      <3>2. CASE b = c
        BY <1>0, <2>1, <3>1, <3>2 DEF RowsOK
      <3>3. CASE b # c
        <4>1. bookings'[b] = bookings[b] /\ held'[b] = held[b]
          BY <1>0, <2>2, <3>3 DEF InsertRow, TypeOK, BookingTableTypeOK
        <4>2. QED
          BY <2>1, <4>1 DEF NeverPending, IsLive
      <3>4. QED
        BY <3>2, <3>3
    <2>3. QED
      BY <1>1, <1>4, <2>1, <2>2 DEF CommitCreation
  <1>5. ASSUME OtherTransitions PROVE Kept
    <2>1. PICK c \in Booking, target \in OtherTargets : \E s \in held[c] :
            MayTransition(s, target) /\ UpdateStatus(c, target, bookings[c].version + 1)
      BY <1>5 DEF OtherTransitions
    <2>2. child' = child
      BY <1>5 DEF OtherTransitions
    <2>3. CASE b # c
      <3>1. bookings'[b] = bookings[b] /\ held'[b] = held[b]
        BY <1>0, <2>1, <2>3 DEF UpdateStatus, TypeOK, BookingTableTypeOK
      <3>2. QED
        BY <2>2, <3>1 DEF NeverPending, IsLive
    <2>4. CASE b = c /\ child[b] # NULL
      <3>0. PICK s \in held[b] : MayTransition(s, target)
        BY <2>1, <2>4
      <3>1. Exists(b) /\ s \in Statuses /\ s # "pending"
        BY <1>0, <2>4, <3>0 DEF RowsOK, NeverPending, TypeOK, BookingTableTypeOK
      <3>2. target \notin LiveStatuses
        BY <3>0, <3>1 DEF MayTransition, TRANSITIONS, LiveStatuses, Statuses
      <3>3. bookings[b] \in Row
        BY <1>0, <3>1 DEF TypeOK, BookingTableTypeOK, Exists, NoRow
      <3> DEFINE row == [bookings[b] EXCEPT !.status = target, !.version = bookings[b].version + 1]
      <3>4. row.slot = bookings[b].slot /\ row.status = target
        BY <3>3 DEF Row
      <3>5. bookings'[b] = row /\ held'[b] = held[b] \cup {target}
        BY <1>0, <2>1, <2>4 DEF UpdateStatus, TypeOK, BookingTableTypeOK
      <3> HIDE DEF row
      <3>6. QED
        BY <2>2, <3>2, <3>4, <3>5 DEF NeverPending, IsLive, LiveStatuses
    <2>5. QED
      BY <2>2, <2>3, <2>4
  <1>6. \/ UNCHANGED <<bookings, held, child>>
        \/ \E r \in Req : CommitActivation(r) \/ CommitCancel(r)
        \/ CommitCreation \/ OtherTransitions
    BY WhoWritesBookings
  <1> HIDE DEF Kept, Added
  <1>7. Kept \/ \E r \in Req : CommitActivation(r) /\ Added(r)
    <2>1. ASSUME NEW r \in Req, CommitActivation(r) PROVE Kept \/ Added(r)
      BY <1>2, <2>1
    <2>2. ASSUME NEW r \in Req, CommitCancel(r) PROVE Kept
      BY <1>3, <2>2
    <2>3. CASE UNCHANGED <<bookings, held, child>>
      BY <1>1, <2>3
    <2>4. CASE \E r \in Req : CommitActivation(r) \/ CommitCancel(r)
      <3>1. PICK r \in Req : CommitActivation(r) \/ CommitCancel(r)
        BY <2>4
      <3>2. CASE CommitActivation(r)
        BY <2>1, <3>2
      <3>3. CASE CommitCancel(r)
        BY <2>2, <3>3
      <3>4. QED
        BY <3>1, <3>2, <3>3
    <2>5. CASE CommitCreation \/ OtherTransitions
      BY <1>4, <1>5, <2>5
    <2>6. QED
      BY <1>6, <2>3, <2>4, <2>5
  <1>8. QED
    BY <1>7 DEF Kept, Added

(* No payment is ever unverified.                                          *)
LEMMA VerifiedGrows ==
  ASSUME [Next]_vars
  PROVE  verified \subseteq verified'
  BY DEF Next, Receive, Proceed, Flush, Initiate, CheckDate, CheckSubscriptions, ReadPayment,
         Cancel, InsertSubscription, CommitPayment, Emit, LoadByPayment, BookDate,
         CommitActivation, SelectChildren, CommitCancel, FlushActive, FlushCancelled, Fail,
         FindFree, CommitCreation, OtherTransitions, Tick, tables, vars

(* A subscription keeps its payment; its status says what was committed.   *)
LEMMA WhatBecomesOfSubscriptions ==
  ASSUME Typed, [Next]_vars, NEW s \in Sub
  PROVE  /\ SubExists(s) => subs'[s].payment = subs[s].payment
         /\ \/ subs'[s] = subs[s]
            \/ subs'[s].status = "pending"
            \/ \E r \in Req : /\ CommitActivation(r) /\ req[r].sub = s
                              /\ subs'[s].status = "active"
            \/ \E r \in Req : /\ CommitCancel(r) /\ req[r].sub = s
                              /\ subs'[s].status = "cancelled"
                              /\ subs'[s].cancelled_from = req[r].from
  <1>0. TypeOK /\ \A r \in Req : RequestOK(r)
    BY DEF Typed
  <1> DEFINE Result == /\ SubExists(s) => subs'[s].payment = subs[s].payment
                       /\ \/ subs'[s] = subs[s]
                          \/ subs'[s].status = "pending"
                          \/ \E r \in Req : /\ CommitActivation(r) /\ req[r].sub = s
                                            /\ subs'[s].status = "active"
                          \/ \E r \in Req : /\ CommitCancel(r) /\ req[r].sub = s
                                            /\ subs'[s].status = "cancelled"
                                            /\ subs'[s].cancelled_from = req[r].from
  <1>2. ASSUME NEW r \in Req, InsertSubscription(r) PROVE Result
    <2>1. PICK n \in Sub : /\ ~SubExists(n) /\ subs'[n].status = "pending"
                           /\ \A q \in Sub : q # n => subs'[q] = subs[q]
      BY <1>2, InsertSubscriptionTyped
    <2>2. QED
      BY <2>1
  <1>3. ASSUME NEW r \in Req, CommitActivation(r) PROVE Result
    <2>1. /\ req[r].sub \in Sub /\ SubExists(req[r].sub)
          /\ subs'[req[r].sub] = [subs[req[r].sub] EXCEPT !.status = "active"]
          /\ \A q \in Sub : q # req[r].sub => subs'[q] = subs[q]
      BY <1>3, WhatActivationAdds
    <2>2. subs[req[r].sub] \in SubRow
      BY <1>0, <2>1 DEF TypeOK, SubExists, NoSub
    <2>3. /\ subs'[req[r].sub].status = "active"
          /\ subs'[req[r].sub].payment = subs[req[r].sub].payment
      BY <2>1, <2>2 DEF SubRow
    <2>4. CASE s = req[r].sub
      BY <1>3, <2>3, <2>4
    <2>5. QED
      BY <2>1, <2>4
  <1>4. ASSUME NEW r \in Req, CommitCancel(r) PROVE Result
    <2> DEFINE sub == req[r].sub
               new == [subs[sub] EXCEPT !.status = "cancelled", !.cancelled_from = req[r].from]
    <2>1. sub \in Sub /\ SubExists(sub)
      BY <1>0, <1>4 DEF RequestOK, CommitCancel
    <2>2. subs[sub] \in SubRow
      BY <1>0, <2>1 DEF TypeOK, SubExists, NoSub
    <2>3. subs' = [subs EXCEPT ![sub] = new]
      BY <1>4 DEF CommitCancel
    <2>4. new.status = "cancelled" /\ new.cancelled_from = req[r].from
          /\ new.payment = subs[sub].payment
      BY <2>2 DEF SubRow
    <2> HIDE DEF new
    <2>5. subs'[sub] = new /\ \A q \in Sub : q # sub => subs'[q] = subs[q]
      BY <1>0, <2>1, <2>3 DEF TypeOK
    <2>6. CASE s = sub
      BY <1>4, <2>4, <2>5, <2>6
    <2>7. QED
      BY <2>5, <2>6
  <1>5. \/ subs' = subs
        \/ \E r \in Req : InsertSubscription(r) \/ CommitActivation(r) \/ CommitCancel(r)
    BY DEF Next, Receive, Proceed, Flush, Initiate, CheckDate, CheckSubscriptions, ReadPayment,
           Cancel, CommitPayment, Emit, LoadByPayment, BookDate, SelectChildren, FlushActive,
           FlushCancelled, Fail, FindFree, CommitCreation, OtherTransitions, Tick, tables, vars
  <1>6. CASE subs' = subs
    BY <1>6
  <1>7. CASE \E r \in Req : InsertSubscription(r) \/ CommitActivation(r) \/ CommitCancel(r)
    <2>1. PICK r \in Req : InsertSubscription(r) \/ CommitActivation(r) \/ CommitCancel(r)
      BY <1>7
    <2>2. Result
      <3> HIDE DEF Result
      <3>1. QED
        BY <1>2, <1>3, <1>4, <2>1
    <2>3. QED
      BY <2>2
  <1>8. QED
    BY <1>5, <1>6, <1>7

(* Only the activation that has the row of a subscription adds to it.      *)
LEMMA OneActivation ==
  ASSUME Typed, Locked, NEW r \in Req, CommitActivation(r), NEW q \in Req,
         req[q].pc \in {"booking", "flushed", "selected"}, req[q].sub = req[r].sub
  PROVE  q = r /\ req'[q] = Idle
  <1>1. req[r].pc = "booking" /\ Finish(r)
    BY DEF CommitActivation
  <1>2. q = r
    BY <1>1 DEF Locked
  <1>3. QED
    BY <1>1, <1>2, FinishTyped DEF Typed

(* Whether it acts or not, a request that is neither at rest nor in one of *)
(* the steps that change it is what it was.                                *)
LEMMA ActsOrKeeps ==
  ASSUME Typed, [Next]_vars, NEW q \in Req
  PROVE  Acts(q) \/ req'[q] = req[q]
  <1>1. TypeOK
    BY DEF Typed
  <1>2. QED
    BY <1>1, OthersKeepTheirLocks, OtherStepsKeepRequests

-----------------------------------------------------------------------------
(* The other parts of the invariant.                                       *)

LEMMA SlotsOverlapBothWays ==
  ASSUME NEW s \in TimeRange, NEW t \in TimeRange
  PROVE  Overlap(s, t) <=> Overlap(t, s)
  <1>1. /\ s.start_time \in Nat /\ s.end_time \in Nat
        /\ t.start_time \in Nat /\ t.end_time \in Nat
    BY TimeAssumption DEF TimeRange
  <1>2. QED
    BY <1>1 DEF Overlap

LEMMA PaidStep ==
  ASSUME IInv, [Next]_vars
  PROVE  Paid'
  <1>0. Typed /\ Paid /\ \A q \in Req : RequestOK(q)
    BY DEF IInv, Typed
  <1>1. ASSUME NEW q \in Req
        PROVE  /\ req'[q].pc \in {"committed", "scheduled", "loaded", "booking"} =>
                    req'[q].txn \in verified'
               /\ req'[q].pc \in {"loaded", "booking"} =>
                    subs'[req'[q].sub].payment = req'[q].txn
    <2>1. CASE Acts(q)
      <3>1. CASE Aside(q) \/ Reaches(q) \/ Selects(q)
        BY <3>1 DEF Aside, Reaches, Selects
      <3>2. CASE Verifies(q)
        BY <3>2 DEF Verifies, Same
      <3>3. CASE Schedules(q) \/ Loads(q)
        BY <1>0, <3>3 DEF Schedules, Loads, Same, OnlyReads, Paid
      <3>4. CASE Activates(q) \/ Books(q)
        BY <1>0, <3>4 DEF Activates, Books, Same, OnlyReads, Paid
      <3>5. QED
        BY <1>0, <2>1, <3>1, <3>2, <3>3, <3>4, WhatActingDoes
    <2>2. CASE req'[q] = req[q]
      <3>1. ASSUME req[q].pc \in {"loaded", "booking"}
            PROVE  subs'[req[q].sub].payment = subs[req[q].sub].payment
        <4>1. req[q].sub \in Sub /\ SubExists(req[q].sub)
          BY <1>0, <3>1 DEF RequestOK
        <4>2. QED
          BY <1>0, <4>1, WhatBecomesOfSubscriptions
      <3>2. QED
        BY <1>0, <2>2, <3>1, VerifiedGrows DEF Paid
    <2>3. QED
      BY <1>0, <2>1, <2>2, ActsOrKeeps
  <1>2. QED
    BY <1>1 DEF Paid

LEMMA NeverPendingStep ==
  ASSUME IInv, [Next]_vars
  PROVE  NeverPending'
  <1>1. Typed /\ NeverPending
    BY DEF IInv
  <1>2. ASSUME NEW b \in Booking, child'[b] # NULL PROVE "pending" \notin held'[b]
    <2>1. CASE child[b] # NULL
      BY <1>1, <2>1, WhatBecomesOfBookings
    <2>2. CASE child[b] = NULL
      <3>1. held'[b] = {"confirmed"}
        BY <1>1, <1>2, <2>2, WhatBecomesOfBookings
      <3>2. QED
        BY <3>1
    <2>3. QED
      BY <2>1, <2>2
  <1>3. QED
    BY <1>2 DEF NeverPending

LEMMA ReadAllStep ==
  ASSUME IInv, [Next]_vars
  PROVE  ReadAll'
  <1>0. /\ Typed /\ TypeOK /\ RowsOK /\ Locked /\ NeverPending /\ ReadAll
        /\ \A q \in Req : RequestOK(q)
    BY DEF IInv, Typed
  <1>1. ASSUME NEW q \in Req, req'[q].pc = "selected",
               NEW b \in Booking, child'[b] = req'[q].sub, IsLive(b)',
               bookings'[b].slot.day >= req'[q].from
        PROVE  req'[q].read[b] # 0
    <2>1. CASE Acts(q)
      <3>1. Selects(q)
        BY <1>0, <1>1, <2>1, WhatActingDoes
           DEF Aside, Verifies, Schedules, Loads, Activates, Books, Reaches
      <3>2. b \in LiveChildren(req[q].sub, req[q].from)
        BY <1>1, <3>1 DEF Selects, OnlyReads, LiveChildren, IsLive
      <3>3. Exists(b)
        BY <3>2 DEF LiveChildren, IsLive, LiveStatuses, Exists
      <3>4. QED
        BY <1>0, <3>1, <3>2, <3>3 DEF Selects, RowsOK
    <2>2. CASE req'[q] = req[q]
      <3>1. req[q].pc = "selected" /\ req[q].sub \in Sub /\ req[q].sub # NULL
        BY <1>0, <1>1, <2>2, SubscriptionAssumption DEF RequestOK
      <3>2. CASE child[b] # NULL
        <4>1. /\ child[b] = req[q].sub /\ IsLive(b) /\ bookings'[b].slot = bookings[b].slot
          BY <1>0, <1>1, <2>2, <3>2, WhatBecomesOfBookings
        <4>2. b \in LiveChildren(req[q].sub, req[q].from)
          BY <1>1, <2>2, <4>1 DEF LiveChildren
        <4>3. QED
          BY <1>0, <2>2, <3>1, <4>2 DEF ReadAll
      <3>3. CASE child[b] = NULL
        <4>1. child'[b] # NULL
          BY <1>1, <2>2, <3>1
        <4>2. PICK r \in Req : CommitActivation(r) /\ child'[b] = req[r].sub
          BY <1>0, <3>3, <4>1, WhatBecomesOfBookings
        <4>3. req'[q] = Idle
          BY <1>0, <1>1, <2>2, <3>1, <4>2, OneActivation
        <4>4. QED
          BY <1>1, <4>3 DEF Idle
      <3>4. QED
        BY <3>2, <3>3
    <2>3. QED
      BY <1>0, <2>1, <2>2, ActsOrKeeps
  <1>2. QED
    BY <1>1 DEF ReadAll, LiveChildren, IsLive

LEMMA RowsAreClearStep ==
  ASSUME IInv, [Next]_vars
  PROVE  RowsAreClear'
  <1>0. /\ Typed /\ TypeOK /\ RowsOK /\ Locked /\ NeverPending /\ NoRowsYet /\ RowsAreClear
        /\ \A q \in Req : RequestOK(q)
    BY DEF IInv, Typed
  <1>1. ASSUME NEW q \in Req, req'[q].pc = "booking"
        PROVE  /\ \A t, u \in req'[q].rows : t # u => ~Overlap(t.range, u.range)
               /\ \A b \in Booking : child'[b] = req'[q].sub /\ IsLive(b)' =>
                    \A t \in req'[q].rows : ~Overlap(bookings'[b].slot, t.range)
    <2>1. CASE Acts(q)
      <3>1. Activates(q) \/ Books(q)
        BY <1>0, <1>1, <2>1, WhatActingDoes
           DEF Aside, Verifies, Schedules, Loads, Reaches, Selects
      <3>2. CASE Activates(q)
        <4>1. req'[q].rows = {}
          BY <1>0, <3>2 DEF Activates, Same, NoRowsYet
        <4>2. QED
          BY <4>1
      <3>3. CASE Books(q)
        <4>1. /\ req[q].pc = "booking" /\ req'[q].sub = req[q].sub
              /\ bookings' = bookings /\ child' = child /\ req[q] \in Request
          BY <1>0, <3>3 DEF Books, OnlyReads, TypeOK, Idle
        <4>2. \A b \in Booking : IsLive(b)' <=> IsLive(b)
          BY <4>1 DEF IsLive
        <4>3. CASE req'[q].rows = req[q].rows
          BY <1>0, <4>1, <4>2, <4>3 DEF RowsAreClear
        <4>4. ASSUME NEW s \in Entry, req'[q].rows = req[q].rows \cup {s}, Conflicts(s.range) = {},
                     \A t \in req[q].rows : ~Overlap(t.range, s.range)
              PROVE  /\ \A t, u \in req'[q].rows : t # u => ~Overlap(t.range, u.range)
                     /\ \A b \in Booking : child'[b] = req'[q].sub /\ IsLive(b)' =>
                          \A t \in req'[q].rows : ~Overlap(bookings'[b].slot, t.range)
          <5>1. s.range \in TimeRange /\ \A t \in req[q].rows : t.range \in TimeRange
            BY <4>1, <4>4 DEF Request, Entry
          <5>2. ASSUME NEW t \in req'[q].rows, NEW u \in req'[q].rows, t # u
                PROVE  ~Overlap(t.range, u.range)
            <6>1. CASE t \in req[q].rows /\ u \in req[q].rows
              BY <1>0, <4>1, <5>2, <6>1 DEF RowsAreClear
            <6>2. CASE t \in req[q].rows /\ u = s
              BY <4>4, <6>2
            <6>3. CASE t = s /\ u \in req[q].rows
              <7>1. u.range \in TimeRange /\ ~Overlap(u.range, s.range)
                BY <4>4, <5>1, <6>3
              <7>2. QED
                BY <5>1, <6>3, <7>1, SlotsOverlapBothWays
            <6>4. QED
              BY <4>4, <5>2, <6>1, <6>2, <6>3
          <5>3. ASSUME NEW b \in Booking, child'[b] = req'[q].sub, IsLive(b)',
                       NEW t \in req'[q].rows
                PROVE  ~Overlap(bookings'[b].slot, t.range)
            <6>1. child[b] = req[q].sub /\ IsLive(b) /\ bookings'[b].slot = bookings[b].slot
              BY <4>1, <4>2, <5>3
            <6>2. CASE t \in req[q].rows
              BY <1>0, <4>1, <6>1, <6>2 DEF RowsAreClear
            <6>3. CASE t = s
              BY <4>4, <6>1, <6>3 DEF Conflicts
            <6>4. QED
              BY <4>4, <5>3, <6>2, <6>3
          <5>4. QED
            BY <5>2, <5>3
        <4>5. QED
          BY <3>3, <4>3, <4>4 DEF Books
      <3>4. QED
        BY <3>1, <3>2, <3>3
    <2>2. CASE req'[q] = req[q]
      <3>1. req[q].pc = "booking" /\ req[q].sub \in Sub /\ req[q].sub # NULL
        BY <1>0, <1>1, <2>2, SubscriptionAssumption DEF RequestOK
      <3>2. \A t, u \in req'[q].rows : t # u => ~Overlap(t.range, u.range)
        BY <1>0, <2>2, <3>1 DEF RowsAreClear
      <3>3. ASSUME NEW b \in Booking, child'[b] = req'[q].sub, IsLive(b)',
                   NEW t \in req'[q].rows
            PROVE  ~Overlap(bookings'[b].slot, t.range)
        <4>1. child'[b] # NULL
          BY <2>2, <3>1, <3>3
        <4>2. CASE child[b] # NULL
          <5>1. child[b] = req[q].sub /\ IsLive(b) /\ bookings'[b].slot = bookings[b].slot
            BY <1>0, <2>2, <3>3, <4>2, WhatBecomesOfBookings
          <5>2. QED
            BY <1>0, <2>2, <3>1, <3>3, <5>1 DEF RowsAreClear
        <4>3. CASE child[b] = NULL
          <5>1. PICK r \in Req : CommitActivation(r) /\ child'[b] = req[r].sub
            BY <1>0, <4>1, <4>3, WhatBecomesOfBookings
          <5>2. req'[q] = Idle
            BY <1>0, <2>2, <3>1, <3>3, <5>1, OneActivation
          <5>3. QED
            BY <1>1, <5>2 DEF Idle
        <4>4. QED
          BY <4>2, <4>3
      <3>4. QED
        BY <3>2, <3>3
    <2>3. QED
      BY <1>0, <2>1, <2>2, ActsOrKeeps
  <1>2. QED
    BY <1>1 DEF RowsAreClear, Overlap, IsLive

LEMMA CancelledStep ==
  ASSUME IInv, [Next]_vars
  PROVE  CancelledHasNoLiveChildren'
  <1>0. /\ Typed /\ TypeOK /\ RowsOK /\ NeverPending /\ ReadAll /\ CancelledHasNoLiveChildren
        /\ \A q \in Req : RequestOK(q)
    BY DEF IInv, Typed
  <1>n. NULL \notin Sub
    BY SubscriptionAssumption
  <1>1. ASSUME NEW s \in Sub, subs'[s].status = "cancelled",
               NEW b \in Booking, child'[b] = s, IsLive(b)',
               bookings'[b].slot.day >= subs'[s].cancelled_from
        PROVE  FALSE
    <2>1. child[b] = s /\ IsLive(b) /\ bookings'[b].slot = bookings[b].slot
      <3>1. CASE child[b] # NULL
        BY <1>0, <1>1, <3>1, WhatBecomesOfBookings
      <3>2. CASE child[b] = NULL
        <4>1. PICK r \in Req : CommitActivation(r) /\ child'[b] = req[r].sub
          BY <1>0, <1>1, <1>n, <3>2, WhatBecomesOfBookings
        <4>2. SubExists(s) /\ subs'[s] = [subs[s] EXCEPT !.status = "active"]
          BY <1>0, <1>1, <4>1, WhatActivationAdds
        <4>3. subs[s] \in SubRow
          BY <1>0, <4>2 DEF TypeOK, SubExists, NoSub
        <4>4. subs'[s].status = "active"
          BY <4>2, <4>3 DEF SubRow
        <4>5. QED
          BY <1>1, <4>4
      <3>3. QED
        BY <3>1, <3>2
    <2>2. CASE subs'[s] = subs[s]
      BY <1>0, <1>1, <2>1, <2>2 DEF CancelledHasNoLiveChildren, LiveChildren
    <2>3. ASSUME NEW r \in Req, CommitCancel(r), req[r].sub = s,
                 subs'[s].cancelled_from = req[r].from
          PROVE  FALSE
      <3>1. b \in LiveChildren(req[r].sub, req[r].from)
        BY <1>1, <2>1, <2>3 DEF LiveChildren
      <3>2. req[r].read[b] # 0
        BY <1>0, <2>3, <3>1 DEF ReadAll, CommitCancel
      <3>3. bookings'[b] = [bookings[b] EXCEPT !.status = "cancelled", !.cancelled_at = TRUE,
                                               !.version = req[r].read[b] + 1]
        BY <2>3, <3>2 DEF CommitCancel
      <3>4. bookings[b] \in Row
        BY <1>0, <2>1 DEF TypeOK, BookingTableTypeOK, IsLive, LiveStatuses, NoRow
      <3>5. bookings'[b].status = "cancelled"
        BY <3>3, <3>4 DEF Row
      <3>6. QED
        BY <1>1, <3>5 DEF IsLive, LiveStatuses
    <2>4. QED
      BY <1>0, <1>1, <2>2, <2>3, WhatBecomesOfSubscriptions
  <1>2. QED
    BY <1>1 DEF CancelledHasNoLiveChildren, LiveChildren, IsLive

LEMMA ChildrenStep ==
  ASSUME IInv, [Next]_vars
  PROVE  ChildrenDisjoint'
  <1>0. /\ Typed /\ TypeOK /\ RowsOK /\ Locked /\ NeverPending /\ RowsAreClear
        /\ ChildrenDisjoint /\ \A q \in Req : RequestOK(q)
    BY DEF IInv, Typed
  <1>1. ASSUME NEW b \in Booking, NEW c \in Booking, b # c, child[c] # NULL,
               child'[b] # NULL, child'[b] = child'[c], IsLive(b)', IsLive(c)'
        PROVE  ~Overlap(bookings'[c].slot, bookings'[b].slot)
    <2>1. child'[c] = child[c] /\ IsLive(c) /\ bookings'[c].slot = bookings[c].slot
      BY <1>0, <1>1, WhatBecomesOfBookings
    <2>2. CASE child[b] # NULL
      <3>1. child'[b] = child[b] /\ IsLive(b) /\ bookings'[b].slot = bookings[b].slot
        BY <1>0, <1>1, <2>2, WhatBecomesOfBookings
      <3>2. QED
        BY <1>0, <1>1, <2>1, <3>1 DEF ChildrenDisjoint
    <2>3. CASE child[b] = NULL
      <3>1. PICK r \in Req : /\ CommitActivation(r) /\ child'[b] = req[r].sub
                             /\ \E t \in req[r].rows : bookings'[b].slot = t.range
        BY <1>0, <1>1, <2>3, WhatBecomesOfBookings
      <3>2. req[r].pc = "booking" /\ child[c] = req[r].sub
        BY <1>1, <2>1, <3>1 DEF CommitActivation
      <3>3. QED
        BY <1>0, <2>1, <3>1, <3>2 DEF RowsAreClear
    <2>4. QED
      BY <2>2, <2>3
  <1>2. ASSUME NEW b \in Booking, NEW c \in Booking, b # c, child[b] = NULL, child[c] = NULL,
               child'[b] # NULL, child'[b] = child'[c]
        PROVE  ~Overlap(bookings'[b].slot, bookings'[c].slot)
    <2>1. PICK r \in Req : CommitActivation(r) /\ child'[b] = req[r].sub
      BY <1>0, <1>2, WhatBecomesOfBookings
    <2>2. req[r].pc = "booking"
      BY <2>1 DEF CommitActivation
    <2>3. PICK key \in [req[r].rows -> Booking] :
            /\ \A t \in req[r].rows :
                 /\ ~Exists(key[t]) /\ bookings'[key[t]].slot = t.range
                 /\ child'[key[t]] = req[r].sub /\ held'[key[t]] = {"confirmed"}
            /\ \A a \in Booking : (\A t \in req[r].rows : key[t] # a) =>
                 bookings'[a] = bookings[a] /\ child'[a] = child[a] /\ held'[a] = held[a]
      BY <1>0, <2>1, WhatActivationAdds
    <2>4. PICK t \in req[r].rows : key[t] = b
      BY <1>2, <2>3
    <2>5. PICK u \in req[r].rows : key[u] = c
      BY <1>2, <2>3
    <2>6. t # u /\ bookings'[b].slot = t.range /\ bookings'[c].slot = u.range
      BY <1>2, <2>3, <2>4, <2>5
    <2>7. QED
      BY <1>0, <2>2, <2>6 DEF RowsAreClear
  <1>3. TypeOK'
    BY TypedNext, <1>0 DEF Typed
  <1>4. ASSUME NEW b \in Booking, NEW c \in Booking, b # c,
               child'[b] # NULL, child'[b] = child'[c], IsLive(b)', IsLive(c)'
        PROVE  ~Overlap(bookings'[b].slot, bookings'[c].slot)
    <2>1. bookings'[b].slot \in TimeRange /\ bookings'[c].slot \in TimeRange
      BY <1>3, <1>4 DEF TypeOK, BookingTableTypeOK, IsLive, LiveStatuses, NoRow, Row
    <2>2. CASE child[c] # NULL
      <3>1. ~Overlap(bookings'[c].slot, bookings'[b].slot)
        BY <1>1, <1>4, <2>2
      <3>2. QED
        BY <2>1, <3>1, SlotsOverlapBothWays
    <2>3. CASE child[b] # NULL
      BY <1>1, <1>4, <2>3
    <2>4. QED
      BY <1>2, <1>4, <2>2, <2>3
  <1>5. QED
    BY <1>4 DEF ChildrenDisjoint, IsLive, Overlap

LEMMA ActiveStep ==
  ASSUME IInv, [Next]_vars
  PROVE  ActiveWasPaid'
  <1>0. /\ Typed /\ TypeOK /\ RowsOK /\ NeverPending /\ Paid /\ ActiveWasPaid
        /\ \A q \in Req : RequestOK(q)
    BY DEF IInv, Typed
  <1>v. verified \subseteq verified'
    BY VerifiedGrows
  <1>1. ASSUME NEW r \in Req, CommitActivation(r)
        PROVE  subs'[req[r].sub].payment \in verified'
    <2>1. /\ req[r].pc = "booking" /\ req[r].sub \in Sub /\ SubExists(req[r].sub)
      BY <1>0, <1>1, WhatActivationAdds
    <2>2. subs'[req[r].sub].payment = subs[req[r].sub].payment
      BY <1>0, <2>1, WhatBecomesOfSubscriptions
    <2>3. QED
      BY <1>0, <1>v, <2>1, <2>2 DEF Paid
  <1>2. ASSUME NEW s \in Sub, subs'[s].status = "active" PROVE subs'[s].payment \in verified'
    <2>1. CASE subs'[s] = subs[s]
      BY <1>0, <1>2, <1>v, <2>1 DEF ActiveWasPaid
    <2>2. CASE subs'[s] # subs[s]
      <3>1. PICK r \in Req : CommitActivation(r) /\ req[r].sub = s
        BY <1>0, <1>2, <2>2, WhatBecomesOfSubscriptions
      <3>2. QED
        BY <1>1, <3>1
    <2>3. QED
      BY <2>1, <2>2
  <1>3. ASSUME NEW b \in Booking, child'[b] # NULL
        PROVE  subs'[child'[b]].payment \in verified'
    <2>1. CASE child[b] # NULL
      <3>1. child'[b] = child[b] /\ child[b] \in Sub /\ SubExists(child[b])
        BY <1>0, <2>1, WhatBecomesOfBookings DEF RowsOK, TypeOK
      <3>2. subs'[child[b]].payment = subs[child[b]].payment
        BY <1>0, <3>1, WhatBecomesOfSubscriptions
      <3>3. QED
        BY <1>0, <1>v, <2>1, <3>1, <3>2 DEF ActiveWasPaid
    <2>2. CASE child[b] = NULL
      <3>1. PICK r \in Req : CommitActivation(r) /\ child'[b] = req[r].sub
        BY <1>0, <1>3, <2>2, WhatBecomesOfBookings
      <3>2. QED
        BY <1>1, <3>1
    <2>3. QED
      BY <2>1, <2>2
  <1>4. QED
    BY <1>2, <1>3 DEF ActiveWasPaid

LEMMA IInvInit == Init => IInv
  <1> SUFFICES ASSUME Init PROVE IInv
    OBVIOUS
  <1>1. Typed
    BY TypedInit
  <1>2. Locked /\ NoRowsYet /\ Paid /\ ReadAll /\ RowsAreClear
    BY DEF Init, Idle, Locked, NoRowsYet, Paid, ReadAll, RowsAreClear
  <1>3. NeverPending /\ CancelledHasNoLiveChildren /\ ChildrenDisjoint /\ ActiveWasPaid
    BY DEF Init, NoSub, NeverPending, CancelledHasNoLiveChildren, ChildrenDisjoint,
           ActiveWasPaid
  <1>4. QED
    BY <1>1, <1>2, <1>3 DEF IInv

LEMMA IInvNext == IInv /\ [Next]_vars => IInv'
  <1> SUFFICES ASSUME IInv, [Next]_vars PROVE IInv'
    OBVIOUS
  <1>1. Typed'
    BY TypedNext DEF IInv
  <1>2. QED
    BY <1>1, LockedStep, NoRowsYetStep, PaidStep, NeverPendingStep, ReadAllStep, RowsAreClearStep,
       CancelledStep, ChildrenStep, ActiveStep DEF IInv

(***************************************************************************)
(* A cancelled subscription keeps none of the bookings its cancellation    *)
(* was about, whatever activations it raced with.                          *)
(***************************************************************************)
THEOREM CancellationsAreComplete == Spec => []CancelledHasNoLiveChildren
  <1>1. IInv => CancelledHasNoLiveChildren
    BY DEF IInv
  <1>2. QED
    BY <1>1, IInvInit, IInvNext, PTL DEF Spec

(* Of two ranges within a day, the conflict queries see every minute that  *)
(* they share.                                                             *)
LEMMA MeetingRangesOverlap ==
  ASSUME NEW dx, NEW x, NEW dy, NEW y,
         x.start_time \in Time, x.end_time \in Time, ~PassesMidnight(x),
         y.start_time \in Time, y.end_time \in Time, ~PassesMidnight(y),
         Meet(dx, x, dy, y)
  PROVE  dx = dy /\ x.start_time < y.end_time /\ x.end_time > y.start_time
  <1>1. /\ x.start_time \in Nat /\ x.end_time \in Nat
        /\ y.start_time \in Nat /\ y.end_time \in Nat
    BY TimeAssumption
  <1>2. PICK m \in Minutes(dx, x) : m \in Minutes(dy, y)
    BY DEF Meet
  <1>3. /\ m \in {dx} \X (x.start_time .. x.end_time - 1)
        /\ m \in {dy} \X (y.start_time .. y.end_time - 1)
    BY <1>2 DEF Minutes
  <1>4. PICK i \in x.start_time .. x.end_time - 1 : m = <<dx, i>>
    BY <1>3
  <1>5. PICK j \in y.start_time .. y.end_time - 1 : m = <<dy, j>>
    BY <1>3
  <1>6. dx = dy /\ i = j
    BY <1>4, <1>5
  <1>7. QED
    BY <1>1, <1>6

LEMMA BothTakeOverlaps ==
  ASSUME TypeOK, NEW b \in Booking, NEW c \in Booking, BothTake(b, c),
         ~PassesMidnight(bookings[b].slot), ~PassesMidnight(bookings[c].slot)
  PROVE  IsLive(b) /\ IsLive(c) /\ Overlap(bookings[b].slot, bookings[c].slot)
  <1>1. IsLive(b) /\ IsLive(c)
    BY DEF BothTake
  <1>2. bookings[b].slot \in TimeRange /\ bookings[c].slot \in TimeRange
    BY <1>1 DEF TypeOK, BookingTableTypeOK, IsLive, LiveStatuses, NoRow, Row
  <1>3. QED
    BY <1>1, <1>2, MeetingRangesOverlap DEF BothTake, TimeRange, Overlap

(***************************************************************************)
(* No subscription books a minute twice, however many of its activations   *)
(* run at once, unless one of the two bookings passes midnight: those the  *)
(* conflict query of an activation cannot see.                             *)
(***************************************************************************)
THEOREM ActivationsDoNotDouble == Spec => []ChildrenNeverOverlap
  <1>1. IInv => ChildrenNeverOverlap
    BY BothTakeOverlaps DEF IInv, Typed, ChildrenDisjoint, ChildrenNeverOverlap
  <1>2. QED
    BY <1>1, IInvInit, IInvNext, PTL DEF Spec

(***************************************************************************)
(* Whatever is active, or has bookings, was paid for.                      *)
(***************************************************************************)
THEOREM ActivationsArePaid == Spec => []ActiveWasPaid
  <1>1. IInv => ActiveWasPaid
    BY DEF IInv
  <1>2. QED
    BY <1>1, IInvInit, IInvNext, PTL DEF Spec

-----------------------------------------------------------------------------
(* Bookings that are no subscription's: the argument of BookingService,    *)
(* with one creation at a time.                                            *)

Kept(b) == bookings'[b] = bookings[b] /\ held'[b] = held[b] /\ child'[b] = child[b]

Moved(b) == /\ Exists(b) /\ child'[b] = child[b]
            /\ bookings'[b].slot = bookings[b].slot
            /\ bookings'[b].status # "absent"
            /\ held'[b] = held[b] \cup {bookings'[b].status}

Created(b) == /\ creating # NULL /\ creating' = NULL
              /\ ~Exists(b) /\ bookings'[b].slot = creating
              /\ bookings'[b].status \in held'[b]
              /\ \A c \in Booking : c # b => Kept(c)

LEMMA WhatBecomesOfOthers ==
  ASSUME Typed, [Next]_vars, NEW b \in Booking, child'[b] = NULL
  PROVE  Kept(b) \/ Moved(b) \/ Created(b)
  <1>0. TypeOK /\ RowsOK /\ \A r \in Req : RequestOK(r)
    BY DEF Typed
  <1>1. ASSUME NEW r \in Req, CommitActivation(r) PROVE Kept(b)
    <2>1. PICK key \in [req[r].rows -> Booking] :
            /\ \A t \in req[r].rows :
                 /\ ~Exists(key[t]) /\ bookings'[key[t]].slot = t.range
                 /\ child'[key[t]] = req[r].sub /\ held'[key[t]] = {"confirmed"}
            /\ \A c \in Booking : (\A t \in req[r].rows : key[t] # c) =>
                 bookings'[c] = bookings[c] /\ child'[c] = child[c] /\ held'[c] = held[c]
      BY <1>1, WhatActivationAdds
    <2>2. req[r].sub \in Sub /\ NULL \notin Sub
      BY <1>1, WhatActivationAdds, SubscriptionAssumption
    <2>3. QED
      BY <2>1, <2>2 DEF Kept
  <1>2. ASSUME NEW r \in Req, CommitCancel(r) PROVE Kept(b) \/ Moved(b)
    <2> DEFINE found == {c \in Booking : req[r].read[c] # 0}
               row == [bookings[b] EXCEPT !.status = "cancelled", !.cancelled_at = TRUE,
                                          !.version = req[r].read[b] + 1]
    <2>1. /\ bookings'[b] = IF b \in found THEN row ELSE bookings[b]
          /\ held'[b] = IF b \in found THEN held[b] \cup {"cancelled"} ELSE held[b]
          /\ child' = child
      BY <1>2 DEF CommitCancel
    <2>2. CASE b \notin found
      <3>1. bookings'[b] = bookings[b] /\ held'[b] = held[b]
        BY <2>1, <2>2
      <3>2. QED
        BY <2>1, <3>1 DEF Kept
    <2>3. CASE b \in found
      <3>1. Exists(b)
        BY <1>0, <1>2, <2>3 DEF RequestOK, CommitCancel
      <3>2. bookings[b] \in Row
        BY <1>0, <3>1 DEF TypeOK, BookingTableTypeOK, Exists, NoRow
      <3>3. row.slot = bookings[b].slot /\ row.status = "cancelled"
        BY <3>2 DEF Row
      <3>4. bookings'[b] = row /\ held'[b] = held[b] \cup {"cancelled"}
        BY <2>1, <2>3
      <3> HIDE DEF row
      <3>5. QED
        BY <2>1, <3>1, <3>3, <3>4 DEF Moved
    <2>4. QED
      BY <2>2, <2>3
  <1>3. ASSUME CommitCreation PROVE Kept(b) \/ Created(b)
    <2>1. child' = child /\ creating # NULL /\ creating' = NULL
      BY <1>3 DEF CommitCreation
    <2>2. ASSUME NEW c \in OtherKeys, NEW first \in LiveStatuses,
                 InsertRow(c, first, creating, NULL)
          PROVE  Kept(b) \/ Created(b)
      <3>1. c \in Booking /\ ~Exists(c)
        BY <2>2, SubscriptionAssumption DEF InsertRow
      <3>2. \A d \in Booking : d # c => bookings'[d] = bookings[d] /\ held'[d] = held[d]
        BY <1>0, <2>2 DEF InsertRow, TypeOK, BookingTableTypeOK
      <3>3. CASE b = c
        <4>1. /\ bookings'[b] = [status |-> first, slot |-> creating, discount |-> NULL,
                                 cancelled_at |-> FALSE, refund_amount |-> NULL, version |-> 1]
              /\ held'[b] = {first}
          BY <1>0, <2>2, <3>1, <3>3 DEF InsertRow, TypeOK, BookingTableTypeOK
        <4>2. bookings'[b].slot = creating /\ bookings'[b].status \in held'[b]
          BY <4>1
        <4>3. QED
          BY <2>1, <3>1, <3>2, <3>3, <4>2 DEF Created, Kept
      <3>4. CASE b # c
        BY <2>1, <3>2, <3>4 DEF Kept
      <3>5. QED
        BY <3>3, <3>4
    <2>3. CASE UNCHANGED <<bookings, held>>
      BY <2>1, <2>3 DEF Kept
    <2>4. QED
      BY <1>3, <2>2, <2>3 DEF CommitCreation
  <1>4. ASSUME OtherTransitions PROVE Kept(b) \/ Moved(b)
    <2>1. PICK c \in Booking, target \in OtherTargets : \E s \in held[c] :
            MayTransition(s, target) /\ UpdateStatus(c, target, bookings[c].version + 1)
      BY <1>4 DEF OtherTransitions
    <2>2. child' = child
      BY <1>4 DEF OtherTransitions
    <2>3. CASE b # c
      <3>1. bookings'[b] = bookings[b] /\ held'[b] = held[b]
        BY <1>0, <2>1, <2>3 DEF UpdateStatus, TypeOK, BookingTableTypeOK
      <3>2. QED
        BY <2>2, <3>1 DEF Kept
    <2>4. CASE b = c
      <3>1. Exists(b)
        BY <1>0, <2>1, <2>4 DEF RowsOK
      <3>2. bookings[b] \in Row /\ target \in Statuses
        BY <1>0, <3>1, SubscriptionAssumption DEF TypeOK, BookingTableTypeOK, Exists, NoRow
      <3>3. target # "absent"
        BY <3>2 DEF Statuses
      <3> DEFINE row == [bookings[b] EXCEPT !.status = target, !.version = bookings[b].version + 1]
      <3>4. row.slot = bookings[b].slot /\ row.status = target
        BY <3>2 DEF Row
      <3>5. bookings'[b] = row /\ held'[b] = held[b] \cup {target}
        BY <1>0, <2>1, <2>4 DEF UpdateStatus, TypeOK, BookingTableTypeOK
      <3> HIDE DEF row
      <3>6. QED
        BY <2>2, <3>1, <3>3, <3>4, <3>5 DEF Moved
    <2>5. QED
      BY <2>3, <2>4
  <1>5. \/ UNCHANGED <<bookings, held, child>>
        \/ \E r \in Req : CommitActivation(r) \/ CommitCancel(r)
        \/ CommitCreation \/ OtherTransitions
    BY WhoWritesBookings
  <1>6. CASE UNCHANGED <<bookings, held, child>>
    BY <1>6 DEF Kept
  <1>7. CASE \E r \in Req : CommitActivation(r) \/ CommitCancel(r)
    BY <1>1, <1>2, <1>7
  <1>8. QED
    BY <1>3, <1>4, <1>5, <1>6, <1>7

(* No status of such a booking is forgotten; and what a creation has found *)
(* free is taken by subscriptions or revived bookings only.                *)
HistoryIsWhole ==
  \A b \in Booking : Exists(b) /\ child[b] = NULL => bookings[b].status \in held[b]

FoundIsClear ==
  creating # NULL =>
    \A b \in Booking :
      child[b] = NULL /\ IsLive(b) /\ Overlap(bookings[b].slot, creating) => EverReleased(b)

(* A booking of nobody's subscription that is live and was never released. *)
Held(b) == child[b] = NULL /\ IsLive(b) /\ ~EverReleased(b)

LEMMA HeldStays ==
  ASSUME Typed, HistoryIsWhole, [Next]_vars, NEW b \in Booking, Held(b)'
  PROVE  \/ Held(b) /\ bookings'[b].slot = bookings[b].slot
         \/ Created(b)
  <1>1. CASE Kept(b)
    BY <1>1 DEF Kept, Held, IsLive, EverReleased
  <1>2. CASE Moved(b)
    BY <1>2 DEF Moved, Held, IsLive, EverReleased, HistoryIsWhole
  <1>3. QED
    BY <1>1, <1>2, WhatBecomesOfOthers DEF Held

LEMMA HistoryStep ==
  ASSUME Typed, HistoryIsWhole, [Next]_vars
  PROVE  HistoryIsWhole'
  <1>1. ASSUME NEW b \in Booking, Exists(b)', child'[b] = NULL
        PROVE  bookings'[b].status \in held'[b]
    BY <1>1, WhatBecomesOfOthers DEF Kept, Moved, Created, HistoryIsWhole, Exists
  <1>2. QED
    BY <1>1 DEF HistoryIsWhole, Exists

LEMMA FoundStep ==
  ASSUME Typed, HistoryIsWhole, FoundIsClear, [Next]_vars
  PROVE  FoundIsClear'
  <1>1. ASSUME creating' # NULL, NEW b \in Booking, Held(b)'
        PROVE  ~Overlap(bookings'[b].slot, creating')
    <2>1. Held(b) /\ bookings'[b].slot = bookings[b].slot
      BY <1>1, HeldStays DEF Created
    <2>2. CASE creating' = creating
      BY <1>1, <2>1, <2>2 DEF FoundIsClear, Held
    <2>3. CASE FindFree
      BY <1>1, <2>1, <2>3 DEF FindFree, Conflicts, Held
    <2>4. creating' = creating \/ FindFree
      BY <1>1 DEF Next, Receive, Proceed, Flush, Initiate, CheckDate, CheckSubscriptions,
           ReadPayment, Cancel, InsertSubscription, CommitPayment, Emit, LoadByPayment, BookDate,
           CommitActivation, SelectChildren, CommitCancel, FlushActive, FlushCancelled, Fail,
           CommitCreation, OtherTransitions, Tick, vars
    <2>5. QED
      BY <2>2, <2>3, <2>4
  <1>2. QED
    BY <1>1 DEF FoundIsClear, Held, IsLive, EverReleased, Overlap

(* What the conflict queries see of bookings that overlap.                 *)
OverlapIsKnown ==
  \A b, c \in Booking :
    b # c /\ IsLive(b) /\ IsLive(c) /\ Overlap(bookings[b].slot, bookings[c].slot)
      => EverReleased(b) \/ EverReleased(c) \/ child[b] # child[c]

LEMMA OverlapStep ==
  ASSUME IInv, HistoryIsWhole, FoundIsClear, OverlapIsKnown, [Next]_vars
  PROVE  OverlapIsKnown'
  <1>0. Typed /\ IInv'
    BY IInvNext DEF IInv
  <1>1. ASSUME NEW b \in Booking, NEW c \in Booking, b # c, Held(b)', Held(c)',
               Held(c) /\ bookings'[c].slot = bookings[c].slot
        PROVE  ~Overlap(bookings'[c].slot, bookings'[b].slot)
    <2>1. CASE Held(b) /\ bookings'[b].slot = bookings[b].slot
      BY <1>1, <2>1 DEF OverlapIsKnown, Held
    <2>2. CASE Created(b)
      BY <1>1, <2>2 DEF Created, FoundIsClear, Held
    <2>3. QED
      BY <1>0, <1>1, <2>1, <2>2, HeldStays
  <1>2. ASSUME NEW b \in Booking, NEW c \in Booking, b # c, Held(b)', Held(c)'
        PROVE  ~Overlap(bookings'[b].slot, bookings'[c].slot)
    <2>1. bookings'[b].slot \in TimeRange /\ bookings'[c].slot \in TimeRange
      BY <1>0, <1>2 DEF IInv, Typed, TypeOK, BookingTableTypeOK, Held, IsLive, LiveStatuses,
                        NoRow, Row
    <2>2. CASE Held(c) /\ bookings'[c].slot = bookings[c].slot
      BY <1>1, <1>2, <2>1, <2>2, SlotsOverlapBothWays
    <2>3. CASE Held(b) /\ bookings'[b].slot = bookings[b].slot
      BY <1>1, <1>2, <2>3
    <2>4. CASE Created(b) /\ Created(c)
      BY <1>2, <2>4 DEF Created, Kept, Held, IsLive, Exists, LiveStatuses
    <2>5. QED
      BY <1>0, <1>2, <2>2, <2>3, <2>4, HeldStays
  <1>3. ASSUME NEW b \in Booking, NEW c \in Booking, b # c, IsLive(b)', IsLive(c)',
               ~EverReleased(b)', ~EverReleased(c)', child'[b] = child'[c]
        PROVE  ~Overlap(bookings'[b].slot, bookings'[c].slot)
    <2>1. CASE child'[b] = NULL
      BY <1>2, <1>3, <2>1 DEF Held
    <2>2. CASE child'[b] # NULL
      BY <1>0, <1>3, <2>2 DEF IInv, ChildrenDisjoint, Overlap, IsLive
    <2>3. QED
      BY <2>1, <2>2
  <1>4. QED
    BY <1>3 DEF OverlapIsKnown, IsLive, EverReleased, Overlap

(***************************************************************************)
(* The advisory lock keeps all but the activations of subscriptions apart: *)
(* two bookings share a minute only if they are of different subscriptions,*)
(* of a subscription and of none, if a stale status revived one of them,   *)
(* or if one passes midnight.                                              *)
(***************************************************************************)
THEOREM OverlapsNeedSubscriptions == Spec => []OverlapNeedsSubscription
  <1> DEFINE Inv == IInv /\ HistoryIsWhole /\ FoundIsClear /\ OverlapIsKnown
  <1>1. Init => Inv
    <2>1. Init => HistoryIsWhole /\ FoundIsClear /\ OverlapIsKnown
      BY DEF Init, BookingTableInit, NoRow, HistoryIsWhole, FoundIsClear,
             OverlapIsKnown, Exists, IsLive, LiveStatuses
    <2>2. QED
      BY <2>1, IInvInit
  <1>2. Inv /\ [Next]_vars => Inv'
    <2> SUFFICES ASSUME Inv, [Next]_vars PROVE Inv'
      OBVIOUS
    <2>1. Typed
      BY DEF IInv
    <2>2. QED
      BY <2>1, IInvNext, HistoryStep, FoundStep, OverlapStep
  <1>3. Inv => OverlapNeedsSubscription
    BY BothTakeOverlaps DEF IInv, Typed, OverlapIsKnown, OverlapNeedsSubscription
  <1>4. QED
    BY <1>1, <1>2, <1>3, PTL DEF Spec

-----------------------------------------------------------------------------
(* Slots sold twice: whoever begins when a subscription is there sees it   *)
(* in each of its queries, for as long as that one is in force.            *)

Takes(slots, w) == \E i \in DOMAIN slots : WeeklyOverlap(slots[i], w)

(* Only a cancellation makes a subscription cancelled, and it says so.     *)
CancelledSaysWhen == \A s \in Sub : subs[s].status = "cancelled" => subs[s].cancelled_from # NULL

Checks(q) == req[q].pc \in {"checking", "checked"}

(* What was there stays there.                                             *)
SeenExist ==
  /\ \A q \in Req : Checks(q) => \A s \in req[q].seen : SubExists(s)
  /\ \A t \in Sub : SubExists(t) => \A s \in subs[t].before : SubExists(s)

(* The slots checked so far are held by nobody who was there.              *)
CheckedAreClear ==
  \A q \in Req : Checks(q) =>
    \A s \in req[q].seen : InForce(s) =>
      \A i \in DOMAIN req[q].slots :
        (req[q].pc = "checking" => i < req[q].at) => ~Takes(subs[s].slots, req[q].slots[i])

SoldAreClear ==
  \A t \in Sub : SubExists(t) =>
    \A s \in subs[t].before : InForce(s) =>
      \A i \in DOMAIN subs[t].slots : ~Takes(subs[s].slots, subs[t].slots[i])

SoldInv == Typed /\ CancelledSaysWhen /\ SeenExist /\ CheckedAreClear /\ SoldAreClear

(* A subscription that is there keeps its slots, and does not come back    *)
(* into force; a new one is what its request asked for.                    *)
Remains(s) ==
  /\ SubExists(s) /\ SubExists(s)'
  /\ subs'[s].slots = subs[s].slots /\ subs'[s].before = subs[s].before
  /\ InForce(s)' => InForce(s)
  /\ subs'[s].status = "cancelled" => subs'[s].cancelled_from # NULL

Sold(s) ==
  \E r \in Req : /\ req[r].pc = "checked"
                 /\ subs'[s].status = "pending" /\ subs'[s].slots = req[r].slots
                 /\ subs'[s].before = req[r].seen

LEMMA WhatBecomesOfSlots ==
  ASSUME Typed, CancelledSaysWhen, [Next]_vars, NEW s \in Sub
  PROVE  \/ Remains(s)
         \/ ~SubExists(s) /\ subs'[s] = subs[s]
         \/ ~SubExists(s) /\ Sold(s)
  <1>0. TypeOK /\ \A r \in Req : RequestOK(r)
    BY DEF Typed
  <1> DEFINE Result == \/ Remains(s)
                       \/ ~SubExists(s) /\ subs'[s] = subs[s]
                       \/ ~SubExists(s) /\ Sold(s)
  <1>1. ASSUME subs'[s] = subs[s] PROVE Result
    BY <1>1 DEF CancelledSaysWhen, Remains, SubExists, InForce
  <1>2. ASSUME NEW r \in Req, InsertSubscription(r) PROVE Result
    <2>1. PICK n \in Sub, t \in Txn :
            /\ ~SubExists(n)
            /\ subs' = [subs EXCEPT ![n] =
                 [status |-> "pending", slots |-> req[r].slots,
                  starts_on |-> EarliestOf({NextOccurrence(req[r].slots[i].day_of_week, today) :
                                              i \in DOMAIN req[r].slots}),
                  payment |-> t, cancelled_from |-> NULL, before |-> req[r].seen]]
      BY <1>2 DEF InsertSubscription
    <2>2. CASE s = n
      <3>1. /\ subs'[s].status = "pending" /\ subs'[s].slots = req[r].slots
            /\ subs'[s].before = req[r].seen
        BY <1>0, <2>1, <2>2 DEF TypeOK
      <3>2. QED
        BY <1>2, <2>1, <2>2, <3>1 DEF Sold, InsertSubscription
    <2>3. CASE s # n
      BY <1>0, <1>1, <2>1, <2>3 DEF TypeOK
    <2>4. QED
      BY <2>2, <2>3
  <1>3. ASSUME NEW r \in Req, CommitActivation(r) PROVE Result
    <2>1. /\ req[r].sub \in Sub /\ SubExists(req[r].sub)
          /\ subs'[req[r].sub] = [subs[req[r].sub] EXCEPT !.status = "active"]
          /\ \A q \in Sub : q # req[r].sub => subs'[q] = subs[q]
      BY <1>3, WhatActivationAdds
    <2>2. CASE s = req[r].sub
      <3>1. subs[s] \in SubRow
        BY <1>0, <2>1, <2>2 DEF TypeOK, SubExists, NoSub
      <3>2. /\ subs'[s].status = "active" /\ subs'[s].slots = subs[s].slots
            /\ subs'[s].before = subs[s].before
            /\ subs'[s].cancelled_from = subs[s].cancelled_from
        BY <2>1, <2>2, <3>1 DEF SubRow
      <3>3. subs[s].status \in {"pending", "active"} \/ subs[s].cancelled_from # NULL
        BY <3>1 DEF CancelledSaysWhen, SubRow, SubStatuses
      <3>4. QED
        BY <2>1, <2>2, <3>2, <3>3 DEF Remains, SubExists, InForce
    <2>3. QED
      BY <1>1, <2>1, <2>2
  <1>4. ASSUME NEW r \in Req, CommitCancel(r) PROVE Result
    <2> DEFINE sub == req[r].sub
               new == [subs[sub] EXCEPT !.status = "cancelled", !.cancelled_from = req[r].from]
    <2>0. req[r].pc = "selected"
      BY <1>4 DEF CommitCancel
    <2>1. sub \in Sub /\ SubExists(sub) /\ req[r] \in Request
      BY <1>0, <2>0 DEF RequestOK, TypeOK, Idle
    <2>2. subs[sub] \in SubRow
      BY <1>0, <2>1 DEF TypeOK, SubExists, NoSub
    <2>3. subs' = [subs EXCEPT ![sub] = new]
      BY <1>4 DEF CommitCancel
    <2>4. /\ new.status = "cancelled" /\ new.cancelled_from = req[r].from
          /\ new.slots = subs[sub].slots /\ new.before = subs[sub].before
      BY <2>2 DEF SubRow
    <2>5. req[r].from # NULL
      BY <2>1, SubscriptionAssumption DEF Request
    <2> HIDE DEF new
    <2>6. subs'[sub] = new /\ \A q \in Sub : q # sub => subs'[q] = subs[q]
      BY <1>0, <2>1, <2>3 DEF TypeOK
    <2>7. CASE s = sub
      BY <2>1, <2>4, <2>5, <2>6, <2>7 DEF Remains, SubExists, InForce
    <2>8. QED
      BY <1>1, <2>6, <2>7
  <1>5. \/ subs' = subs
        \/ \E r \in Req : InsertSubscription(r) \/ CommitActivation(r) \/ CommitCancel(r)
    BY DEF Next, Receive, Proceed, Flush, Initiate, CheckDate, CheckSubscriptions, ReadPayment,
           Cancel, CommitPayment, Emit, LoadByPayment, BookDate, SelectChildren, FlushActive,
           FlushCancelled, Fail, FindFree, CommitCreation, OtherTransitions, Tick, tables, vars
  <1>6. Result
    <2> HIDE DEF Result
    <2>1. QED
      BY <1>1, <1>2, <1>3, <1>4, <1>5
  <1>7. QED
    BY <1>6

(* How a request comes to be checking what it picked.                      *)
Begins(q) == /\ req'[q].pc = "checking" /\ req'[q].at = 1
             /\ req'[q].seen = {s \in Sub : SubExists(s)} /\ req'[q].slots \in Picks

Stays(q) == /\ req[q].pc \in {"checking", "checked"} /\ req'[q].pc = req[q].pc
            /\ req'[q].at = req[q].at
            /\ req'[q].slots = req[q].slots /\ req'[q].seen = req[q].seen

Advances(q) == /\ req[q].pc = "checking" /\ SubConflicts(req[q].slots[req[q].at]) = {}
               /\ req'[q].slots = req[q].slots /\ req'[q].seen = req[q].seen
               /\ \/ req'[q].pc = "checked" /\ req[q].at = Len(req[q].slots)
                  \/ req'[q].pc = "checking" /\ req'[q].at = req[q].at + 1

LEMMA WhatCheckingDoes ==
  ASSUME Typed, [Next]_vars, NEW q \in Req, Checks(q)'
  PROVE  \/ Stays(q)
         \/ (Begins(q) \/ Advances(q)) /\ subs' = subs
  <1>0. TypeOK /\ RequestOK(q) /\ req'[q].pc \in {"checking", "checked"}
    BY DEF Typed, Checks
  <1>n. ASSUME NEW new, req' = [req EXCEPT ![q] = new] PROVE req'[q] = new
    BY <1>0, <1>n DEF TypeOK
  <1>i. ASSUME req[q].pc # "idle" PROVE req[q] \in Request /\ req[q] # Idle
    BY <1>0, <1>i DEF TypeOK, Idle
  <1>f. ~Finish(q)
    BY <1>0, FinishTyped DEF Idle
  <1>g. ASSUME NEW pc, Goto(q, pc) PROVE req'[q] = [req[q] EXCEPT !.pc = pc]
    BY <1>0, <1>g DEF TypeOK, Goto
  <1>1. CASE Initiate(q)
    <2>1. PICK W \in Picks : req' = [req EXCEPT ![q] = [Start("checking") EXCEPT
                                       !.slots = W, !.at = 1, !.todo = Dated(1, W[1], today),
                                       !.seen = {s \in Sub : SubExists(s)}]]
      BY <1>1 DEF Initiate
    <2>2. req'[q] = [Start("checking") EXCEPT !.slots = W, !.at = 1, !.todo = Dated(1, W[1], today),
                                              !.seen = {s \in Sub : SubExists(s)}]
      BY <1>n, <2>1
    <2>3. /\ req'[q].pc = "checking" /\ req'[q].at = 1 /\ req'[q].slots = W
          /\ req'[q].seen = {s \in Sub : SubExists(s)}
      BY <2>2 DEF Start
    <2>4. QED
      BY <1>1, <2>3 DEF Begins, Initiate, tables
  <1>2. CASE CheckDate(q)
    <2>1. req[q] \in Request /\ req[q].pc = "checking"
      BY <1>2, <1>i DEF CheckDate
    <2>2. PICK d \in req[q].todo : req' = [req EXCEPT ![q].todo = @ \ {d}]
      BY <1>2, <1>f DEF CheckDate
    <2>3. req'[q] = [req[q] EXCEPT !.todo = req[q].todo \ {d}]
      BY <1>0, <2>2 DEF TypeOK
    <2>4. /\ req'[q].pc = req[q].pc /\ req'[q].at = req[q].at
          /\ req'[q].slots = req[q].slots /\ req'[q].seen = req[q].seen
      BY <2>1, <2>3 DEF Request
    <2>5. QED
      BY <2>1, <2>4 DEF Stays
  <1>3. CASE CheckSubscriptions(q)
    <2> DEFINE W == req[q].slots
               i == req[q].at
    <2>1. req[q] \in Request /\ req[q].pc = "checking" /\ subs' = subs
      BY <1>3, <1>i DEF CheckSubscriptions, tables
    <2>2. /\ SubConflicts(W[i]) = {}
          /\ \/ i = Len(W) /\ Goto(q, "checked")
             \/ req' = [req EXCEPT ![q].at = i + 1, ![q].todo = Dated(i + 1, W[i + 1], today)]
      BY <1>3, <1>f DEF CheckSubscriptions
    <2>3. CASE i = Len(W) /\ Goto(q, "checked")
      <3>1. req'[q] = [req[q] EXCEPT !.pc = "checked"]
        BY <1>g, <2>3
      <3>2. req'[q].pc = "checked" /\ req'[q].slots = W /\ req'[q].seen = req[q].seen
        BY <2>1, <3>1 DEF Request
      <3>3. QED
        BY <2>1, <2>2, <2>3, <3>2 DEF Advances
    <2>4. CASE req' = [req EXCEPT ![q].at = i + 1, ![q].todo = Dated(i + 1, W[i + 1], today)]
      <3>1. req'[q] = [req[q] EXCEPT !.at = i + 1, !.todo = Dated(i + 1, W[i + 1], today)]
        BY <1>0, <2>4 DEF TypeOK
      <3>2. /\ req'[q].pc = "checking" /\ req'[q].at = i + 1
            /\ req'[q].slots = W /\ req'[q].seen = req[q].seen
        BY <2>1, <3>1 DEF Request
      <3>3. QED
        BY <2>1, <2>2, <3>2 DEF Advances
    <2>5. QED
      BY <2>2, <2>3, <2>4
  <1>4. CASE Acts(q) /\ ~Initiate(q) /\ ~CheckDate(q) /\ ~CheckSubscriptions(q)
    <2>1. ~InsertSubscription(q) /\ ~CommitActivation(q) /\ ~CommitCancel(q) /\ ~Fail(q)
      BY <1>f DEF InsertSubscription, CommitActivation, CommitCancel, Fail
    <2>2. ~ReadPayment(q)
      <3> SUFFICES ASSUME ReadPayment(q) PROVE FALSE
        OBVIOUS
      <3>1. PICK t \in Txn, pc \in {"submitting", "verifying", "rejecting"} :
              req' = [req EXCEPT ![q] = [Start(pc) EXCEPT !.txn = t]]
        BY DEF ReadPayment
      <3>2. req'[q] = [Start(pc) EXCEPT !.txn = t]
        BY <1>n, <3>1
      <3>3. req'[q].pc = pc
        BY <3>2 DEF Start
      <3>4. QED
        BY <1>0, <3>3
    <2>3. ~Cancel(q)
      <3> SUFFICES ASSUME Cancel(q) PROVE FALSE
        OBVIOUS
      <3>1. PICK s \in Sub, from \in {0, today} :
              req' = [req EXCEPT ![q] = [Start("cancelling") EXCEPT !.sub = s, !.from = from]]
        BY DEF Cancel
      <3>2. req'[q] = [Start("cancelling") EXCEPT !.sub = s, !.from = from]
        BY <1>n, <3>1
      <3>3. req'[q].pc = "cancelling"
        BY <3>2 DEF Start
      <3>4. QED
        BY <1>0, <3>3
    <2>4. ASSUME NEW pc, Goto(q, pc), pc \notin {"checking", "checked"}, req[q].pc # "idle"
          PROVE  FALSE
      <3>1. req'[q] = [req[q] EXCEPT !.pc = pc] /\ req[q] \in Request
        BY <1>g, <1>i, <2>4
      <3>2. req'[q].pc = pc
        BY <3>1 DEF Request
      <3>3. QED
        BY <1>0, <2>4, <3>2
    <2>5. ~CommitPayment(q) /\ ~Emit(q) /\ ~FlushCancelled(q)
      BY <1>f, <2>4 DEF CommitPayment, Emit, FlushCancelled
    <2>6. ~LoadByPayment(q) /\ ~BookDate(q) /\ ~SelectChildren(q) /\ ~FlushActive(q)
      <3>1. ASSUME LoadByPayment(q) PROVE FALSE
        <4>1. PICK s \in Sub : req' = [req EXCEPT ![q].pc = "loaded", ![q].sub = s]
          BY <1>f, <3>1 DEF LoadByPayment
        <4>2. req'[q] = [req[q] EXCEPT !.pc = "loaded", !.sub = s] /\ req[q] \in Request
          BY <1>0, <1>i, <3>1, <4>1 DEF TypeOK, LoadByPayment
        <4>3. QED
          BY <1>0, <4>2 DEF Request
      <3>2. ASSUME BookDate(q) PROVE FALSE
        <4>1. PICK d \in req[q].todo :
                \/ req' = [req EXCEPT ![q].todo = @ \ {d}, ![q].rows = @ \cup {d}]
                \/ req' = [req EXCEPT ![q].todo = @ \ {d}]
          BY <3>2 DEF BookDate
        <4>2. /\ req[q] \in Request /\ req[q].pc = "booking"
              /\ \/ req'[q] = [req[q] EXCEPT !.todo = req[q].todo \ {d},
                                             !.rows = req[q].rows \cup {d}]
                 \/ req'[q] = [req[q] EXCEPT !.todo = req[q].todo \ {d}]
          BY <1>0, <1>i, <3>2, <4>1 DEF TypeOK, BookDate
        <4>3. QED
          BY <1>0, <4>2 DEF Request
      <3>3. ASSUME SelectChildren(q) PROVE FALSE
        <4>1. PICK read : req' = [req EXCEPT ![q].pc = "selected", ![q].read = read]
          BY <3>3 DEF SelectChildren
        <4>2. req'[q] = [req[q] EXCEPT !.pc = "selected", !.read = read] /\ req[q] \in Request
          BY <1>0, <1>i, <3>3, <4>1 DEF TypeOK, SelectChildren
        <4>3. QED
          BY <1>0, <4>2 DEF Request
      <3>4. ASSUME FlushActive(q) PROVE FALSE
        <4>1. PICK todo : req' = [req EXCEPT ![q].pc = "booking", ![q].todo = todo]
          BY <3>4 DEF FlushActive
        <4>2. req'[q] = [req[q] EXCEPT !.pc = "booking", !.todo = todo] /\ req[q] \in Request
          BY <1>0, <1>i, <3>4, <4>1 DEF TypeOK, FlushActive
        <4>3. QED
          BY <1>0, <4>2 DEF Request
      <3>5. QED
        BY <3>1, <3>2, <3>3, <3>4
    <2>7. QED
      BY <1>4, <2>1, <2>2, <2>3, <2>5, <2>6 DEF Acts, Receive, Proceed, Flush
  <1>5. CASE req'[q] = req[q]
    BY <1>0, <1>5 DEF Stays
  <1>6. QED
    BY <1>1, <1>2, <1>3, <1>4, <1>5, ActsOrKeeps

LEMMA SeenStep ==
  ASSUME SoldInv, [Next]_vars
  PROVE  CancelledSaysWhen' /\ SeenExist'
  <1>0. Typed /\ CancelledSaysWhen /\ SeenExist /\ Typed'
    BY TypedNext DEF SoldInv
  <1>1. ASSUME NEW s \in Sub, subs'[s].status = "cancelled" PROVE subs'[s].cancelled_from # NULL
    BY <1>0, <1>1, WhatBecomesOfSlots DEF Remains, Sold, SubExists
  <1>2. ASSUME NEW s \in Sub, SubExists(s) PROVE SubExists(s)'
    BY <1>0, <1>2, WhatBecomesOfSlots DEF Remains
  <1>3. ASSUME NEW q \in Req, Checks(q)', NEW s \in req'[q].seen PROVE SubExists(s)'
    <2>1. Stays(q) \/ Begins(q) \/ Advances(q)
      BY <1>0, <1>3, WhatCheckingDoes
    <2>2. CASE Checks(q) /\ s \in req[q].seen
      <3>1. s \in Sub
        BY <1>0, <2>2 DEF Checks, Typed, TypeOK, Request, Idle
      <3>2. QED
        BY <1>0, <1>2, <2>2, <3>1 DEF SeenExist
    <2>3. CASE Begins(q)
      BY <1>2, <1>3, <2>3 DEF Begins
    <2>4. CASE Stays(q) \/ Advances(q)
      BY <1>3, <2>2, <2>4 DEF Stays, Advances, Checks
    <2>5. QED
      BY <2>1, <2>3, <2>4
  <1>4. ASSUME NEW t \in Sub, SubExists(t)', NEW s \in subs'[t].before PROVE SubExists(s)'
    <2>1. s \in Sub
      BY <1>0, <1>4 DEF Typed, TypeOK, SubExists, NoSub, SubRow
    <2>2. CASE Remains(t)
      BY <1>0, <1>2, <1>4, <2>1, <2>2 DEF Remains, SeenExist
    <2>3. CASE Sold(t)
      BY <1>0, <1>2, <1>4, <2>1, <2>3 DEF Sold, SeenExist, Checks
    <2>4. QED
      BY <1>0, <1>4, <2>2, <2>3, WhatBecomesOfSlots DEF SubExists
  <1>5. QED
    BY <1>1, <1>3, <1>4 DEF CancelledSaysWhen, SeenExist, Checks, SubExists

LEMMA CheckedStep ==
  ASSUME SoldInv, [Next]_vars
  PROVE  CheckedAreClear'
  <1>0. Typed /\ TypeOK /\ SeenExist /\ CheckedAreClear /\ CancelledSaysWhen
        /\ \A q \in Req : RequestOK(q)
    BY DEF SoldInv, Typed
  <1>1. ASSUME NEW q \in Req, Checks(q)', NEW s \in req'[q].seen, InForce(s)',
               NEW i \in DOMAIN req'[q].slots, req'[q].pc = "checking" => i < req'[q].at,
               Takes(subs'[s].slots, req'[q].slots[i])
        PROVE  FALSE
    <2>1. CASE Begins(q)
      <3>1. i \in Nat /\ i >= 1
        BY <2>1, PickedSlots DEF Begins
      <3>2. QED
        BY <1>1, <2>1, <3>1 DEF Begins
    <2>2. CASE Stays(q) \/ Advances(q)
      <3> DEFINE W == req[q].slots
      <3>1. /\ Checks(q) /\ req'[q].slots = W /\ req'[q].seen = req[q].seen
            /\ s \in Sub /\ SubExists(s) /\ W \in Picks /\ i \in DOMAIN W
        BY <1>0, <1>1, <2>2
           DEF Stays, Advances, Checks, SeenExist, RequestOK, TypeOK, Request, Idle
      <3>2. Remains(s)
        BY <1>0, <3>1, WhatBecomesOfSlots
      <3>3. InForce(s) /\ Takes(subs[s].slots, W[i])
        BY <1>1, <3>1, <3>2 DEF Remains
      <3>4. req[q].pc = "checking" /\ ~(i < req[q].at)
        BY <1>0, <1>1, <3>1, <3>3 DEF CheckedAreClear
      <3>5. Advances(q) /\ req[q].at \in DOMAIN W
        BY <1>0, <1>1, <2>2, <3>4 DEF Stays, RequestOK
      <3>6. i = req[q].at
        BY <1>1, <3>1, <3>4, <3>5, PickedSlots DEF Advances
      <3>7. s \in SubConflicts(W[req[q].at])
        BY <3>1, <3>3, <3>6 DEF SubConflicts, InForce, Takes
      <3>8. QED
        BY <3>5, <3>7 DEF Advances
    <2>3. QED
      BY <1>0, <1>1, <2>1, <2>2, WhatCheckingDoes
  <1>2. QED
    BY <1>1 DEF CheckedAreClear, Checks, InForce

LEMMA SoldStep ==
  ASSUME SoldInv, [Next]_vars
  PROVE  SoldAreClear'
  <1>0. Typed /\ Typed' /\ TypeOK /\ SeenExist /\ CheckedAreClear /\ SoldAreClear
        /\ CancelledSaysWhen
    BY TypedNext DEF SoldInv, Typed
  <1>1. ASSUME NEW t \in Sub, SubExists(t)', NEW s \in subs'[t].before, InForce(s)',
               NEW i \in DOMAIN subs'[t].slots, Takes(subs'[s].slots, subs'[t].slots[i])
        PROVE  FALSE
    <2>1. s \in Sub
      BY <1>0, <1>1 DEF Typed, TypeOK, SubExists, NoSub, SubRow
    <2>2. CASE Remains(t)
      <3>1. SubExists(s) /\ s \in subs[t].before /\ subs'[t].slots = subs[t].slots
        BY <1>0, <1>1, <2>2 DEF Remains, SeenExist
      <3>2. Remains(s)
        BY <1>0, <2>1, <3>1, WhatBecomesOfSlots
      <3>3. InForce(s) /\ Takes(subs[s].slots, subs[t].slots[i])
        BY <1>1, <3>1, <3>2 DEF Remains
      <3>4. QED
        BY <1>0, <1>1, <2>2, <3>1, <3>3 DEF SoldAreClear, Remains
    <2>3. CASE Sold(t)
      <3>1. PICK r \in Req : /\ req[r].pc = "checked" /\ subs'[t].slots = req[r].slots
                             /\ subs'[t].before = req[r].seen
        BY <2>3 DEF Sold
      <3>2. Checks(r) /\ s \in req[r].seen /\ SubExists(s)
        BY <1>0, <1>1, <3>1 DEF Checks, SeenExist
      <3>3. Remains(s)
        BY <1>0, <2>1, <3>2, WhatBecomesOfSlots
      <3>4. InForce(s) /\ Takes(subs[s].slots, req[r].slots[i])
        BY <1>1, <3>1, <3>3 DEF Remains
      <3>5. QED
        BY <1>0, <1>1, <3>1, <3>2, <3>4 DEF CheckedAreClear
    <2>4. QED
      BY <1>0, <1>1, <2>2, <2>3, WhatBecomesOfSlots DEF SubExists
  <1>2. QED
    BY <1>1 DEF SoldAreClear, SubExists, InForce

(***************************************************************************)
(* Two subscriptions in force share a weekly minute only if neither was    *)
(* there when the other was asked for: the pending ones hold their slots   *)
(* as well, and no wait between two queries lets one slip through.         *)
(***************************************************************************)
THEOREM HoursSoldTwiceWereSoldTogether == Spec => []SoldTwiceOnlyTogether
  <1>1. Init => SoldInv
    <2>1. Init => CancelledSaysWhen /\ SeenExist /\ CheckedAreClear /\ SoldAreClear
      BY DEF Init, NoSub, Idle, CancelledSaysWhen, SeenExist, CheckedAreClear, SoldAreClear,
             Checks, SubExists
    <2>2. QED
      BY <2>1, TypedInit DEF SoldInv
  <1>2. SoldInv /\ [Next]_vars => SoldInv'
    BY TypedNext, SeenStep, CheckedStep, SoldStep DEF SoldInv
  <1>3. SoldInv => SoldTwiceOnlyTogether
    <2> SUFFICES ASSUME SoldInv, NEW s \in Sub, NEW t \in Sub,
                        InForce(s), InForce(t), BothHold(s, t)
                 PROVE  s \notin subs[t].before /\ t \notin subs[s].before
      BY DEF SoldTwiceOnlyTogether
    <2>0. TypeOK /\ SoldAreClear
      BY DEF SoldInv, Typed
    <2>1. SubExists(s) /\ SubExists(t)
      BY DEF InForce, SubExists
    <2>2. subs[s].slots \in Picks /\ subs[t].slots \in Picks
      BY <2>0, <2>1 DEF TypeOK, SubExists, NoSub, SubRow
    <2>3. PICK i \in DOMAIN subs[s].slots, j \in DOMAIN subs[t].slots :
            LET v == subs[s].slots[i]
                w == subs[t].slots[j]
            IN /\ ~PassesMidnight(v) /\ ~PassesMidnight(w)
               /\ Meet(v.day_of_week, v, w.day_of_week, w)
      BY DEF BothHold, SlotsOf
    <2> DEFINE v == subs[s].slots[i]
               w == subs[t].slots[j]
    <2>4. /\ v.start_time \in Time /\ v.end_time \in Time
          /\ w.start_time \in Time /\ w.end_time \in Time
      BY <2>2, PickedSlots
    <2>5. /\ ~PassesMidnight(v) /\ ~PassesMidnight(w)
          /\ Meet(v.day_of_week, v, w.day_of_week, w)
      BY <2>3
    <2> DEFINE dv == v.day_of_week
               dw == w.day_of_week
    <2>6. dv = dw /\ v.start_time < w.end_time /\ v.end_time > w.start_time
      BY <2>4, <2>5, MeetingRangesOverlap
    <2>7. Meet(dw, w, dv, v)
      BY <2>5 DEF Meet
    <2>8. w.start_time < v.end_time /\ w.end_time > v.start_time
      BY <2>4, <2>5, <2>7, MeetingRangesOverlap
    <2>9. Takes(subs[s].slots, w) /\ Takes(subs[t].slots, v)
      BY <2>6, <2>8 DEF Takes, WeeklyOverlap
    <2>10. QED
      BY <2>0, <2>1, <2>9 DEF SoldAreClear
  <1>4. QED
    BY <1>1, <1>2, <1>3, PTL DEF Spec

-----------------------------------------------------------------------------
(* The two ways of asking for free weekly slots.                           *)

(* A loaded booking meets the slot exactly if it conflicts on some week.   *)
LEMMA LoadedMeetsDated ==
  ASSUME NEW w
  PROVE  (\A b \in FutureBookings(w.day_of_week) :
            ~Meets(bookings[b].slot, w.start_time, w.end_time))
         <=> \A d \in Dated(1, w, today) : Conflicts(d.range) = {}
  <1> DEFINE range(i) == [day |-> NextOccurrence(w.day_of_week, today) + DaysPerWeek * i,
                          start_time |-> w.start_time, end_time |-> w.end_time]
  <1>1. ASSUME NEW b \in FutureBookings(w.day_of_week),
               Meets(bookings[b].slot, w.start_time, w.end_time)
        PROVE  \E d \in Dated(1, w, today) : b \in Conflicts(d.range)
    <2>1. PICK i \in 0 .. WEEKS_PER_MONTH - 1 :
            bookings[b].slot.day = NextOccurrence(w.day_of_week, today) + DaysPerWeek * i
      BY <1>1 DEF FutureBookings, CandidateDates
    <2> DEFINE d == [pick |-> 1, range |-> range(i)]
    <2>2. d \in Dated(1, w, today) /\ d.range = range(i)
      BY DEF Dated
    <2>3. b \in Conflicts(range(i))
      BY <1>1, <2>1 DEF FutureBookings, Conflicts, Overlap, Meets
    <2> HIDE DEF range, d
    <2>4. QED
      BY <2>2, <2>3
  <1>2. ASSUME NEW d \in Dated(1, w, today), NEW b \in Conflicts(d.range)
        PROVE  /\ b \in FutureBookings(w.day_of_week)
               /\ Meets(bookings[b].slot, w.start_time, w.end_time)
    <2>1. PICK i \in 0 .. WEEKS_PER_MONTH - 1 : d.range = range(i)
      BY DEF Dated
    <2>2. /\ b \in Booking /\ IsLive(b)
          /\ bookings[b].slot.day = NextOccurrence(w.day_of_week, today) + DaysPerWeek * i
          /\ bookings[b].slot.start_time < w.end_time
          /\ bookings[b].slot.end_time > w.start_time
      BY <2>1, <1>2 DEF Conflicts, Overlap
    <2>3. QED
      BY <2>2 DEF FutureBookings, CandidateDates, Meets
  <1>3. QED
    BY <1>1, <1>2

(* A held slot meets the slot exactly if its subscription conflicts.       *)
LEMMA HeldMeetsConflicts ==
  ASSUME NEW w
  PROVE  (\A v \in HeldWeekly(w.day_of_week) : ~Meets(v, w.start_time, w.end_time))
         <=> SubConflicts(w) = {}
  BY DEF HeldWeekly, SlotsOf, SubConflicts, WeeklyOverlap, Meets

LEMMA WithinOneDay ==
  ASSUME NEW n \in Nat \ {0}, NEW x \in 0 .. n - 1
  PROVE  x % n = x
  OBVIOUS

(* A candidate is within the window of the plan.                           *)
LEMMA CandidatesAreInWindow ==
  ASSUME NEW plan \in Plans, NEW hours \in OpeningHours, CloseSuits(plan, hours),
         NEW c \in Candidates(plan, hours, SLOT_DURATION_MINUTES),
         NEW w, w.start_time = c, w.end_time = AddMinutes(c, SLOT_DURATION_MINUTES)
  PROVE  InWindow(plan, w)
  <1> DEFINE n == MinutesPerDay
             length == SLOT_DURATION_MINUTES
             open == Opening(plan, hours)
             close == Closing(plan, hours)
  <1>1. /\ plan # NULL /\ NULL \notin Time
        /\ plan.slot_window_start \in Time \cup {NULL} /\ plan.slot_window_end \in Time \cup {NULL}
    BY SubscriptionAssumption, TimeAssumption DEF Plan
  <1>2. hours.open \in Time /\ hours.close \in Time
    BY OpeningAssumption
  <1>3. n \in Nat \ {0} /\ length \in 1 .. n - 1 /\ Time = 0 .. n - 1
    BY ClockAssumption
  <1>4. open \in Time /\ close \in Time /\ length <= close
    BY <1>1, <1>2 DEF CloseSuits, Opening, Closing
  <1>5. /\ plan.slot_window_start # NULL => plan.slot_window_start <= open
        /\ plan.slot_window_end # NULL => close <= plan.slot_window_end
    BY <1>1, <1>2, <1>3 DEF Opening, Closing
  <1>6. c \in Time /\ open <= c /\ c <= EndLimit(close, length)
    BY <1>1, <1>3, <1>4 DEF Candidates, Cursors
  <1> HIDE DEF n, length, open, close
  <1>7. EndLimit(close, length) = close - length
    <2>1. close + (-length) \in 0 .. n - 1 /\ close + (-length) = close - length
      BY <1>3, <1>4
    <2>2. (close + (-length)) % n = close + (-length)
      BY <1>3, <2>1, WithinOneDay
    <2>3. QED
      BY <2>1, <2>2 DEF EndLimit, AddMinutes, n
  <1>8. AddMinutes(c, length) = c + length
    <2>1. c + length \in 0 .. n - 1
      BY <1>3, <1>4, <1>6, <1>7
    <2>2. QED
      BY <1>3, <2>1, WithinOneDay DEF AddMinutes, n
  <1>9. w.end_time <= close /\ open <= w.start_time /\ w.start_time \in Nat /\ w.end_time \in Nat
    BY <1>3, <1>4, <1>6, <1>7, <1>8 DEF length
  <1>10. QED
    BY <1>1, <1>3, <1>4, <1>5, <1>9 DEF InWindow

(***************************************************************************)
(* In every state a candidate of the plan that is asked about, as long as  *)
(* a slot is, is offered exactly if initiate would accept it: bookings     *)
(* loaded by a list of dates, and slots by weekday, say the same as one    *)
(* query per week and a join.                                              *)
(***************************************************************************)
THEOREM OffersAreAccepted == Spec => []OfferedIsAccepted
  <1>1. OfferedIsAccepted
    <2> SUFFICES ASSUME NEW plan \in Plans, NEW hours \in OpeningHours,
                        NEW dow \in 0 .. DaysPerWeek - 1, CloseSuits(plan, hours),
                        NEW c \in Candidates(plan, hours, SLOT_DURATION_MINUTES)
                 PROVE  LET w == [day_of_week |-> dow, start_time |-> c,
                                  end_time |-> AddMinutes(c, SLOT_DURATION_MINUTES)]
                        IN c \in Offered(dow, plan, hours, SLOT_DURATION_MINUTES)
                             <=> /\ InWindow(plan, w)
                                 /\ \A d \in Dated(1, w, today) : Conflicts(d.range) = {}
                                 /\ SubConflicts(w) = {}
      BY DEF OfferedIsAccepted
    <2> DEFINE w == [day_of_week |-> dow, start_time |-> c,
                     end_time |-> AddMinutes(c, SLOT_DURATION_MINUTES)]
    <2>1. /\ w.day_of_week = dow /\ w.start_time = c
          /\ w.end_time = AddMinutes(c, SLOT_DURATION_MINUTES)
      OBVIOUS
    <2> HIDE DEF w
    <2>2. InWindow(plan, w)
      BY <2>1, CandidatesAreInWindow
    <2>3. c \in Offered(dow, plan, hours, SLOT_DURATION_MINUTES)
            <=> /\ \A b \in FutureBookings(w.day_of_week) :
                     ~Meets(bookings[b].slot, w.start_time, w.end_time)
                /\ \A v \in HeldWeekly(w.day_of_week) : ~Meets(v, w.start_time, w.end_time)
      BY <2>1 DEF Offered
    <2>4. c \in Offered(dow, plan, hours, SLOT_DURATION_MINUTES)
            <=> /\ InWindow(plan, w)
                /\ \A d \in Dated(1, w, today) : Conflicts(d.range) = {}
                /\ SubConflicts(w) = {}
      BY <2>2, <2>3, LoadedMeetsDated, HeldMeetsConflicts
    <2>5. QED
      BY <2>4 DEF w
  <1>2. QED
    BY <1>1, PTL

=============================================================================
