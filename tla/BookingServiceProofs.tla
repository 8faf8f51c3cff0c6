------------------------ MODULE BookingServiceProofs ------------------------
(***************************************************************************)
(* BookingService keeps its invariants and implements SlotLedger, for any  *)
(* number of bookings, turfs, dates, times and concurrent requests.        *)
(*                                                                         *)
(* The argument: a creation that has checked its slot holds the lock of    *)
(* the slot's day, and only the lock's holder inserts into that day, so    *)
(* what the check found is still so at the insert, except for bookings     *)
(* that a stale status write made live again.  Those are exactly the ones  *)
(* whose history contains a status that is not live.                       *)
(***************************************************************************)
EXTENDS BookingProperties, FiniteSetTheorems, TLAPS

(* A status that validate_transition accepts is one the table may hold.    *)
LEMMA OpsAreStatuses ==
  /\ TransitionOps \subseteq Statuses
  /\ LiveStatuses \subseteq Statuses
  /\ "absent" \notin Statuses
  BY DEF TransitionOps, LiveStatuses, Statuses

(* Requests at different phases are told apart by their pc alone.          *)
LEMMA IdleHasNoPhase == Idle.pc = "idle" /\ Idle \notin Request
  BY DEF Idle, Request

(***************************************************************************)
(* The initial state.                                                      *)
(***************************************************************************)
LEMMA IndInvInit == Init => IndInv
  <1> SUFFICES ASSUME Init PROVE IndInv
    OBVIOUS
  <1> USE DEF Init, BookingTableInit, CouponInit, PaymentTableInit
  <1>1. TypeOK
    <2>1. CouponTypeOK
      BY DEF CouponTypeOK, CouponRow, NoCoupon
    <2>2. QED
      BY <2>1 DEF TypeOK, BookingTableTypeOK, PaymentTableTypeOK
  <1>2. RequestsWellFormed
    BY DEF RequestsWellFormed, Idle, Exists, NoRow
  <1>3. CreationsHoldLock /\ LockHasLiveOwner /\ CheckedStaysClear /\ LoadedWasLegal
    BY DEF CreationsHoldLock, LockHasLiveOwner, CheckedStaysClear, LoadedWasLegal, HoldsLock, Idle
  <1>4. QED
    BY <1>1, <1>2, <1>3 DEF IndInv

(***************************************************************************)
(* A step that leaves the bookings table alone, and after which no request *)
(* is in a later phase of a creation or a transition than before, keeps    *)
(* the two facts about the table that requests rely on.                    *)
(***************************************************************************)
LEMMA TableUntouched ==
  ASSUME CheckedStaysClear, LoadedWasLegal, UNCHANGED <<bookings, held>>,
         NEW r \in Req,
         \A q \in Req : q # r => req'[q] = req[q],
         req'[r].pc \in {"checked", "priced"}
           => /\ req[r].pc \in {"checked", "priced"}
              /\ req'[r].slot = req[r].slot,
         req'[r].pc # "loaded"
  PROVE  CheckedStaysClear' /\ LoadedWasLegal'
  <1>1. CheckedStaysClear'
    BY DEF CheckedStaysClear, Conflicts, IsLive, EverReleased
  <1>2. LoadedWasLegal'
    BY DEF LoadedWasLegal, Exists
  <1>3. QED
    BY <1>1, <1>2

(* Moving a running request to another phase, or ending it, is type        *)
(* correct.                                                                *)
LEMMA GotoTyped ==
  ASSUME TypeOK, NEW r \in Req, req[r] # Idle, NEW pc \in Phases, Goto(r, pc)
  PROVE  /\ req' \in [Req -> Request \cup {Idle}]
         /\ req'[r] = [req[r] EXCEPT !.pc = pc]
         /\ \A q \in Req : q # r => req'[q] = req[q]
  <1>1. req[r] \in Request
    BY DEF TypeOK
  <1>2. [req[r] EXCEPT !.pc = pc] \in Request
    BY <1>1 DEF Request
  <1>3. QED
    BY <1>2 DEF TypeOK, Goto

LEMMA FinishTyped ==
  ASSUME TypeOK, NEW r \in Req, Finish(r)
  PROVE  /\ req' \in [Req -> Request \cup {Idle}]
         /\ req'[r] = Idle
         /\ \A q \in Req : q # r => req'[q] = req[q]
  BY DEF TypeOK, Finish

(***************************************************************************)
(* A request that gives its lock back, or had none, takes nobody else's.   *)
(***************************************************************************)
LEMMA LockGivenBack ==
  ASSUME TypeOK, RequestsWellFormed, CreationsHoldLock, LockHasLiveOwner,
         NEW r \in Req, ~HoldsLock(r)',
         \/ Release(r)
         \/ ~HoldsLock(r) /\ UNCHANGED lock,
         \A q \in Req : q # r => req'[q] = req[q]
  PROVE  /\ CreationsHoldLock' /\ LockHasLiveOwner'
         /\ lock' \in [Day -> Req \cup {NULL}]
  <1>1. ASSUME NEW q \in Req, HoldsLock(q) PROVE req[q].slot.day \in Day
    BY <1>1 DEF HoldsLock, RequestsWellFormed, Slot, TimeRange
  <1>2. lock' \in [Day -> Req \cup {NULL}]
    BY DEF TypeOK, Release
  <1>3. CreationsHoldLock'
    BY <1>1 DEF CreationsHoldLock, Release, HoldsLock
  <1>4. LockHasLiveOwner'
    <2> SUFFICES ASSUME NEW d \in Day, lock'[d] # NULL
                 PROVE  HoldsLock(lock[d])' /\ (req[lock[d]].slot.day)' = d
      BY DEF LockHasLiveOwner
    <2>1. lock'[d] = lock[d] /\ lock[d] # r /\ lock[d] \in Req
      BY DEF Release, TypeOK, LockHasLiveOwner
    <2>2. QED
      BY <2>1 DEF LockHasLiveOwner, HoldsLock
  <1>5. QED
    BY <1>2, <1>3, <1>4

(***************************************************************************)
(* A request that stays on the same side of the lock leaves it alone.      *)
(***************************************************************************)
LEMMA LockKept ==
  ASSUME TypeOK, CreationsHoldLock, LockHasLiveOwner, NEW r \in Req,
         HoldsLock(r)' <=> HoldsLock(r),
         HoldsLock(r) => (req[r].slot)' = req[r].slot,
         \A q \in Req : q # r => req'[q] = req[q],
         UNCHANGED lock
  PROVE  CreationsHoldLock' /\ LockHasLiveOwner'
  <1>1. CreationsHoldLock'
    BY DEF CreationsHoldLock, HoldsLock
  <1>2. LockHasLiveOwner'
    <2> SUFFICES ASSUME NEW d \in Day, lock[d] # NULL
                 PROVE  HoldsLock(lock[d])' /\ (req[lock[d]].slot.day)' = d
      BY DEF LockHasLiveOwner
    <2>1. lock[d] \in Req /\ HoldsLock(lock[d]) /\ req[lock[d]].slot.day = d
      BY DEF TypeOK, LockHasLiveOwner
    <2>2. CASE lock[d] = r
      BY <2>1, <2>2 DEF HoldsLock
    <2>3. CASE lock[d] # r
      BY <2>1, <2>3 DEF HoldsLock
    <2>4. QED
      BY <2>2, <2>3
  <1>3. QED
    BY <1>1, <1>2

(* Steps of a creation that do not write the bookings table.               *)
LEMMA ReceiveKeeps ==
  ASSUME IndInv, NEW r \in Req, ReceiveCreate(r)
  PROVE  IndInv'
  <1> USE DEF IndInv, ReceiveCreate
  <1>1. TypeOK'
    BY DEF TypeOK, BookingTableTypeOK, CouponTypeOK, PaymentTableTypeOK, Request,
           Phases
  <1>2. RequestsWellFormed'
    BY DEF RequestsWellFormed, TypeOK, Exists
  <1>3. CreationsHoldLock' /\ LockHasLiveOwner'
    <2>1. ~HoldsLock(r) /\ ~HoldsLock(r)' /\ \A q \in Req : q # r => req'[q] = req[q]
      BY DEF HoldsLock, Idle, TypeOK
    <2>2. QED
      BY <2>1, LockKept
  <1>4. CheckedStaysClear' /\ LoadedWasLegal'
    BY TableUntouched DEF TypeOK
  <1>5. QED
    BY <1>1, <1>2, <1>3, <1>4

LEMMA AcquireKeeps ==
  ASSUME IndInv, NEW r \in Req, AcquireLock(r)
  PROVE  IndInv'
  <1> USE DEF IndInv, AcquireLock
  <1>0. /\ req' \in [Req -> Request \cup {Idle}]
        /\ req'[r] = [req[r] EXCEPT !.pc = "locked"]
        /\ \A q \in Req : q # r => req'[q] = req[q]
    <2>1. req[r] # Idle
      BY DEF Idle
    <2>2. QED
      BY <2>1, GotoTyped DEF Phases
  <1>a. req[r] \in Request
    BY DEF TypeOK, Idle
  <1>1. TypeOK'
    BY <1>0 DEF TypeOK, BookingTableTypeOK, CouponTypeOK, PaymentTableTypeOK
  <1>2. RequestsWellFormed'
    BY <1>0, <1>a DEF RequestsWellFormed, Request, Exists
  <1>3. CreationsHoldLock'
    BY <1>0, <1>a, RequestAssumption
       DEF CreationsHoldLock, HoldsLock, TypeOK, RequestsWellFormed, Slot, TimeRange, Request
  <1>b. LockHasLiveOwner'
    BY <1>0, <1>a, RequestAssumption
       DEF LockHasLiveOwner, HoldsLock, TypeOK, RequestsWellFormed, Slot, TimeRange, Request
  <1>4. CheckedStaysClear' /\ LoadedWasLegal'
    BY <1>0, <1>a, TableUntouched DEF Request
  <1>5. QED
    BY <1>1, <1>2, <1>3, <1>4, <1>b

(* A request that ends, in whatever phase: Emit, Fail, a conflict.         *)
LEMMA EndKeeps ==
  ASSUME IndInv, NEW r \in Req, Finish(r),
         \/ Release(r)
         \/ ~HoldsLock(r) /\ UNCHANGED lock,
         UNCHANGED <<bookings, held, txns>>, CouponTypeOK'
  PROVE  IndInv'
  <1> USE DEF IndInv
  <1>0. /\ req' \in [Req -> Request \cup {Idle}]
        /\ req'[r] = Idle
        /\ \A q \in Req : q # r => req'[q] = req[q]
    BY FinishTyped
  <1>1. /\ CreationsHoldLock' /\ LockHasLiveOwner'
        /\ lock' \in [Day -> Req \cup {NULL}]
    <2>1. ~HoldsLock(r)'
      BY <1>0 DEF HoldsLock, Idle
    <2>2. QED
      BY <1>0, <2>1, LockGivenBack
  <1>2. TypeOK'
    BY <1>0, <1>1 DEF TypeOK, BookingTableTypeOK, PaymentTableTypeOK
  <1>3. RequestsWellFormed'
    BY <1>0 DEF RequestsWellFormed, Exists, Idle
  <1>4. CheckedStaysClear' /\ LoadedWasLegal'
    BY <1>0, TableUntouched DEF Idle
  <1>5. QED
    BY <1>1, <1>2, <1>3, <1>4

LEMMA FindConflictKeeps ==
  ASSUME IndInv, NEW r \in Req, FindConflict(r)
  PROVE  IndInv'
  <1> USE DEF IndInv, FindConflict
  <1>1. CASE Conflicts(req[r].slot) # {}
    BY <1>1, EndKeeps DEF TypeOK, CouponTypeOK
  <1>2. CASE Conflicts(req[r].slot) = {}
    <2>0. /\ req' \in [Req -> Request \cup {Idle}]
          /\ req'[r] = [req[r] EXCEPT !.pc = "checked"]
          /\ \A q \in Req : q # r => req'[q] = req[q]
      <3>1. req[r] # Idle
        BY DEF Idle
      <3>2. QED
        BY <1>2, <3>1, GotoTyped DEF Phases
    <2>a. req[r] \in Request
      BY DEF TypeOK, Idle
    <2>1. TypeOK'
      BY <1>2, <2>0 DEF TypeOK, BookingTableTypeOK, CouponTypeOK, PaymentTableTypeOK
    <2>2. RequestsWellFormed'
      BY <2>0, <2>a DEF RequestsWellFormed, Request, Exists
    <2>3. CreationsHoldLock' /\ LockHasLiveOwner'
      <3>1. HoldsLock(r) /\ HoldsLock(r)' /\ (req[r].slot)' = req[r].slot
        BY <2>0, <2>a DEF HoldsLock, Request
      <3>2. QED
        BY <1>2, <2>0, <3>1, LockKept
    <2>4. CheckedStaysClear'
      BY <1>2, <2>0, <2>a DEF CheckedStaysClear, Conflicts, IsLive, EverReleased, Request
    <2>5. LoadedWasLegal'
      BY <2>0, <2>a DEF LoadedWasLegal, Exists, Request
    <2>6. QED
      BY <2>1, <2>2, <2>3, <2>4, <2>5
  <1>3. QED
    BY <1>1, <1>2

LEMMA ValidateCouponKeeps ==
  ASSUME IndInv, NEW r \in Req, ValidateCoupon(r)
  PROVE  IndInv'
  <1> USE DEF IndInv, ValidateCoupon
  <1>a. req[r] \in Request
    BY DEF TypeOK, Idle
  <1>0. /\ req' \in [Req -> Request \cup {Idle}]
        /\ req'[r] \in Request
        /\ req'[r].pc = "priced" /\ req'[r].slot = req[r].slot
        /\ req'[r].op = req[r].op
        /\ \A q \in Req : q # r => req'[q] = req[q]
    BY <1>a DEF TypeOK, Goto, Request, Phases
  <1>1. TypeOK'
    BY <1>0 DEF TypeOK, BookingTableTypeOK, CouponTypeOK, PaymentTableTypeOK
  <1>2. RequestsWellFormed'
    BY <1>0 DEF RequestsWellFormed, Exists
  <1>3. CreationsHoldLock' /\ LockHasLiveOwner'
    <2>1. HoldsLock(r) /\ HoldsLock(r)' /\ (req[r].slot)' = req[r].slot
      BY <1>0 DEF HoldsLock
    <2>2. QED
      BY <1>0, <2>1, LockKept
  <1>4. CheckedStaysClear' /\ LoadedWasLegal'
    BY <1>0, TableUntouched
  <1>5. QED
    BY <1>1, <1>2, <1>3, <1>4

(***************************************************************************)
(* The insert: whoever else has checked a slot of that day would hold the  *)
(* same lock.                                                              *)
(***************************************************************************)
LEMMA InsertKeeps ==
  ASSUME IndInv, NEW r \in Req, InsertBooking(r)
  PROVE  IndInv'
  <1> USE DEF IndInv
  <1> DEFINE new == req[r].booking
             first == IF req[r].op = "create" THEN "pending" ELSE "confirmed"
             row == [status |-> first, slot |-> req[r].slot,
                     discount |-> req[r].coupon, cancelled_at |-> FALSE,
                     refund_amount |-> NULL, version |-> 1]
  <1>a. req[r] \in Request /\ req[r].pc = "priced"
    BY DEF TypeOK, Idle, InsertBooking
  <1>b. /\ new \in Booking /\ ~Exists(new) /\ first \in LiveStatuses
        /\ req[r].slot \in Slot /\ req[r].coupon \in Coupon \cup {NULL}
    BY <1>a DEF InsertBooking, InsertRow, RequestsWellFormed, Request, LiveStatuses
  <1>c. /\ bookings' = [bookings EXCEPT ![new] = row]
        /\ held' = [held EXCEPT ![new] = {first}]
    BY DEF InsertBooking, InsertRow
  <1>d. row \in Row
    BY <1>b, OpsAreStatuses DEF Row, Slot
  <1>0. \E pc \in {"committed", "uncounted"} :
          /\ pc = "uncounted" => req[r].coupon \in Coupon
          /\ req' \in [Req -> Request \cup {Idle}]
          /\ req'[r] = [req[r] EXCEPT !.pc = pc]
          /\ \A q \in Req : q # r => req'[q] = req[q]
    <2>1. req[r] # Idle
      BY <1>a, IdleHasNoPhase
    <2>2. PICK pc \in {"committed", "uncounted"} :
            Goto(r, pc) /\ (pc = "uncounted" => req[r].coupon \in Coupon)
      BY <1>b DEF InsertBooking
    <2>3. pc \in Phases
      BY DEF Phases
    <2>4. QED
      BY <2>1, <2>2, <2>3, GotoTyped
  <1>e. /\ req' \in [Req -> Request \cup {Idle}]
        /\ req'[r].pc \in {"committed", "uncounted"}
        /\ req'[r].pc = "uncounted" => req'[r].coupon \in Coupon
        /\ \A q \in Req : q # r => req'[q] = req[q]
    BY <1>0, <1>a DEF Request
  <1>1. /\ CreationsHoldLock' /\ LockHasLiveOwner'
        /\ lock' \in [Day -> Req \cup {NULL}]
    <2>1. ~HoldsLock(r)'
      BY <1>e DEF HoldsLock
    <2>2. Release(r)
      BY DEF InsertBooking
    <2>3. QED
      BY <1>e, <2>1, <2>2, LockGivenBack
  <1>2. PaymentTableTypeOK'
    <2>1. CASE UNCHANGED txns
      BY <2>1 DEF TypeOK, PaymentTableTypeOK
    <2>2. CASE \E t \in Txn : InsertTxn(t, new, "manual", "success")
      BY <1>b, <2>2 DEF InsertTxn, TypeOK, PaymentTableTypeOK, TxnRow, TxnStatuses, Gateways
    <2>3. QED
      BY <2>1, <2>2 DEF InsertBooking
  <1>3. TypeOK'
    <2>1. BookingTableTypeOK'
      BY <1>b, <1>c, <1>d, OpsAreStatuses DEF TypeOK, BookingTableTypeOK
    <2>2. CouponTypeOK'
      BY DEF InsertBooking, TypeOK, CouponTypeOK
    <2>3. QED
      BY <1>1, <1>2, <1>e, <2>1, <2>2 DEF TypeOK
  <1>f. /\ bookings'[new] = row /\ held'[new] = {first}
        /\ \A b \in Booking : b # new => /\ bookings'[b] = bookings[b]
                                         /\ held'[b] = held[b]
    BY <1>b, <1>c DEF TypeOK, BookingTableTypeOK
  <1>4. RequestsWellFormed'
    <2>1. ASSUME NEW q \in Req
          PROVE  /\ req'[q].pc \in {"waiting", "locked", "checked", "priced"}
                      => req'[q].slot \in Slot /\ req'[q].op \in CreateOps
                 /\ req'[q].pc \in {"uncounted", "counting"}
                      => req'[q].coupon \in Coupon
                 /\ req'[q].pc = "loaded" => req'[q].op \in TransitionOps
      BY <1>e DEF RequestsWellFormed
    <2>2. ASSUME NEW b \in Booking, Exists(b)'
          PROVE  bookings'[b].status \in held'[b]
      BY <1>f, <2>2 DEF RequestsWellFormed, Exists
    <2>3. QED
      BY <2>1, <2>2 DEF RequestsWellFormed
  <1>5. CheckedStaysClear'
    <2> SUFFICES ASSUME NEW q \in Req, req'[q].pc \in {"checked", "priced"},
                        NEW b \in Booking, IsLive(b)',
                        Overlap(bookings'[b].slot, req'[q].slot)
                 PROVE  EverReleased(b)'
      BY DEF CheckedStaysClear, Conflicts
    <2>1. q # r /\ req'[q] = req[q] /\ HoldsLock(q)
      BY <1>e DEF HoldsLock
    <2>2. CASE b = new
      \* q would hold the lock that r holds.
      <3>1. req[q].slot.day = req[r].slot.day
        BY <1>f, <2>1, <2>2 DEF Overlap
      <3>2. HoldsLock(r)
        BY <1>a DEF HoldsLock
      <3>3. QED
        BY <2>1, <3>1, <3>2 DEF CreationsHoldLock
    <2>3. CASE b # new
      BY <1>f, <2>1, <2>3 DEF CheckedStaysClear, Conflicts, IsLive, EverReleased
    <2>4. QED
      BY <2>2, <2>3
  <1>6. LoadedWasLegal'
    <2> SUFFICES ASSUME NEW q \in Req, req'[q].pc = "loaded"
                 PROVE  /\ (Exists(req[q].booking))'
                        /\ \E s \in held'[req'[q].booking] :
                             MayTransition(s, req'[q].op)
      BY DEF LoadedWasLegal
    <2>1. q # r /\ req'[q] = req[q] /\ req[q] \in Request
      BY <1>e DEF TypeOK, Idle
    <2>2. Exists(req[q].booking) /\ req[q].booking # new /\ req[q].booking \in Booking
      BY <1>b, <2>1 DEF LoadedWasLegal, Request
    <2>3. QED
      BY <1>f, <2>1, <2>2 DEF LoadedWasLegal, Exists
  <1>7. QED
    BY <1>1, <1>3, <1>4, <1>5, <1>6

(* A request outside the lock that goes to another phase outside it, and   *)
(* touches no table but coupons.                                           *)
LEMMA OutsideKeeps ==
  ASSUME IndInv, NEW r \in Req, req[r].pc \in {"uncounted", "counting"},
         req' \in [Req -> Request \cup {Idle}],
         req'[r].pc \in {"counting", "committed"}, req'[r].coupon = req[r].coupon,
         \A q \in Req : q # r => req'[q] = req[q],
         UNCHANGED <<bookings, held, txns, lock>>, CouponTypeOK'
  PROVE  IndInv'
  <1> USE DEF IndInv
  <1>1. TypeOK'
    BY DEF TypeOK, BookingTableTypeOK, PaymentTableTypeOK
  <1>2. RequestsWellFormed'
    BY DEF RequestsWellFormed, Exists
  <1>3. CreationsHoldLock' /\ LockHasLiveOwner'
    <2>1. ~HoldsLock(r) /\ ~HoldsLock(r)'
      BY DEF HoldsLock
    <2>2. QED
      BY <2>1, LockKept
  <1>4. CheckedStaysClear' /\ LoadedWasLegal'
    BY TableUntouched
  <1>5. QED
    BY <1>1, <1>2, <1>3, <1>4

LEMMA ReadUsedCountKeeps ==
  ASSUME IndInv, NEW r \in Req, ReadUsedCount(r)
  PROVE  IndInv'
  <1>a. TypeOK /\ req[r] \in Request /\ req[r].pc = "uncounted" /\ CouponTypeOK'
    BY DEF IndInv, TypeOK, Idle, ReadUsedCount, CouponTypeOK
  <1>1. CASE CouponPresent(req[r].coupon)
    <2>1. CASE req' = [req EXCEPT ![r].pc = "counting",
                                  ![r].read = coupons[req[r].coupon].used_count,
                                  ![r].row = coupons[req[r].coupon].row]
      <3>0. req[r].coupon \in Coupon
        BY <1>a DEF IndInv, RequestsWellFormed
      <3>1. coupons[req[r].coupon].used_count \in Nat /\ coupons[req[r].coupon].row \in Nat
        BY <1>a, <3>0 DEF TypeOK, CouponTypeOK, CouponRow
      <3>2. /\ req' \in [Req -> Request \cup {Idle}] /\ req'[r].pc = "counting"
            /\ req'[r].coupon = req[r].coupon
            /\ \A q \in Req : q # r => req'[q] = req[q]
        BY <1>a, <2>1, <3>1 DEF TypeOK, Request, Phases
      <3>3. QED
        BY <1>a, <3>2, OutsideKeeps DEF ReadUsedCount
    <2>2. QED
      BY <1>1, <2>1 DEF ReadUsedCount
  <1>2. CASE Goto(r, "committed")
    <2>1. /\ req' \in [Req -> Request \cup {Idle}]
          /\ req'[r] = [req[r] EXCEPT !.pc = "committed"]
          /\ \A q \in Req : q # r => req'[q] = req[q]
      BY <1>a, <1>2, GotoTyped, IdleHasNoPhase DEF Phases
    <2>2. req'[r].pc = "committed" /\ req'[r].coupon = req[r].coupon
      BY <1>a, <2>1 DEF Request
    <2>3. QED
      BY <1>a, <2>1, <2>2, OutsideKeeps DEF ReadUsedCount
  <1>3. QED
    BY <1>1, <1>2 DEF ReadUsedCount

LEMMA IncrementKeeps ==
  ASSUME IndInv, NEW r \in Req, IncrementUsage(r)
  PROVE  IndInv'
  <1>a. TypeOK /\ req[r] \in Request /\ req[r].pc = "counting"
    BY DEF IndInv, TypeOK, Idle, IncrementUsage
  <1>1. CASE Goto(r, "committed") /\ WriteUsedCount(req[r].coupon, req[r].read)
             /\ RowStillThere(r)
    <2>1. /\ req' \in [Req -> Request \cup {Idle}]
          /\ req'[r] = [req[r] EXCEPT !.pc = "committed"]
          /\ \A q \in Req : q # r => req'[q] = req[q]
      BY <1>a, <1>1, GotoTyped, IdleHasNoPhase DEF Phases
    <2>2. req'[r].pc = "committed" /\ req'[r].coupon = req[r].coupon
      BY <1>a, <2>1 DEF Request
    <2>3. CouponTypeOK'
      <3>1. req[r].read + 1 \in Nat
        BY <1>a DEF Request
      <3>2. req[r].coupon \in Coupon
        BY <1>a DEF IndInv, RequestsWellFormed
      <3>3. coupons[req[r].coupon] \in CouponRow
        BY <1>a, <3>2 DEF TypeOK, CouponTypeOK
      <3>4. [coupons[req[r].coupon] EXCEPT !.used_count = req[r].read + 1] \in CouponRow
        BY <3>1, <3>3 DEF CouponRow
      <3>5. QED
        BY <1>1, <1>a, <3>4 DEF WriteUsedCount, TypeOK, CouponTypeOK
    <2>4. QED
      BY <1>a, <2>1, <2>2, <2>3, OutsideKeeps DEF IncrementUsage
  <1>2. CASE Finish(r) /\ UNCHANGED coupons
    BY <1>a, <1>2, EndKeeps DEF IncrementUsage, HoldsLock, TypeOK, CouponTypeOK
  <1>3. QED
    BY <1>1, <1>2 DEF IncrementUsage

LEMMA LoadKeeps ==
  ASSUME IndInv, NEW r \in Req, LoadBooking(r)
  PROVE  IndInv'
  <1> USE DEF IndInv
  <1>1. PICK b \in Booking, target \in TransitionOps :
          /\ MayTransition(bookings[b].status, target)
          /\ req' = [req EXCEPT ![r] = [pc |-> "loaded", op |-> target, slot |-> NULL,
                                        coupon |-> NULL, booking |-> b,
                                        read |-> bookings[b].version, row |-> 0]]
    BY DEF LoadBooking
  <1>2. Exists(b) /\ bookings[b].status \in held[b] /\ bookings[b].version \in Nat
    <2>1. Exists(b)
      BY <1>1, OpsAreStatuses DEF MayTransition, Exists
    <2>2. bookings[b] \in Row
      BY <2>1 DEF TypeOK, BookingTableTypeOK, Exists, NoRow
    <2>3. QED
      BY <2>1, <2>2 DEF RequestsWellFormed, Row
  <1>3. req[r] = Idle
    BY DEF LoadBooking
  <1>4. /\ req' \in [Req -> Request \cup {Idle}]
        /\ req'[r].pc = "loaded" /\ req'[r].op = target /\ req'[r].booking = b
        /\ \A q \in Req : q # r => req'[q] = req[q]
    BY <1>1, <1>2 DEF TypeOK, Request, Phases
  <1>5. TypeOK'
    BY <1>4 DEF LoadBooking, TypeOK, BookingTableTypeOK, CouponTypeOK, PaymentTableTypeOK
  <1>6. RequestsWellFormed'
    BY <1>4 DEF LoadBooking, RequestsWellFormed, Exists
  <1>7. CreationsHoldLock' /\ LockHasLiveOwner'
    <2>1. ~HoldsLock(r) /\ ~HoldsLock(r)'
      BY <1>3, <1>4 DEF HoldsLock, Idle
    <2>2. QED
      BY <1>4, <2>1, LockKept DEF LoadBooking
  <1>8. CheckedStaysClear'
    BY <1>4 DEF LoadBooking, CheckedStaysClear, Conflicts, IsLive, EverReleased
  <1>9. LoadedWasLegal'
    BY <1>1, <1>2, <1>4 DEF LoadBooking, LoadedWasLegal, Exists
  <1>10. QED
    BY <1>5, <1>6, <1>7, <1>8, <1>9

(***************************************************************************)
(* The commit of a transition changes one row's status to one the state    *)
(* machine allows from some status the row has held.                       *)
(***************************************************************************)
LEMMA TransitionWrites ==
  ASSUME IndInv, NEW r \in Req, CommitTransition(r)
  PROVE  LET b == req[r].booking IN
         /\ b \in Booking /\ Exists(b) /\ req[r].op \in TransitionOps
         /\ \E s \in held[b] : MayTransition(s, req[r].op)
         /\ bookings'[b] \in Row
         /\ bookings'[b].status = req[r].op /\ bookings'[b].slot = bookings[b].slot
         /\ \A c \in Booking : c # b => bookings'[c] = bookings[c]
         /\ bookings' \in [Booking -> Row \cup {NoRow}]
         /\ held' = [held EXCEPT ![b] = @ \cup {req[r].op}]
  <1> DEFINE b == req[r].booking
  <1>1. /\ req[r] \in Request /\ req[r].pc = "loaded" /\ b \in Booking
        /\ req[r].op \in TransitionOps /\ req[r].read + 1 \in Nat
    BY DEF IndInv, TypeOK, Idle, CommitTransition, Request, RequestsWellFormed
  <1>2. Exists(b) /\ \E s \in held[b] : MayTransition(s, req[r].op)
    BY <1>1 DEF IndInv, LoadedWasLegal
  <1>3. bookings[b] \in Row /\ bookings \in [Booking -> Row \cup {NoRow}]
    BY <1>1, <1>2 DEF IndInv, TypeOK, BookingTableTypeOK, Exists, NoRow
  <1>4. CASE req[r].op # "cancelled" /\ UpdateStatus(b, req[r].op, req[r].read + 1)
    <2>1. [bookings[b] EXCEPT !.status = req[r].op, !.version = req[r].read + 1] \in Row
      BY <1>1, <1>3, OpsAreStatuses DEF Row
    <2>2. bookings'[b] = [bookings[b] EXCEPT !.status = req[r].op,
                                              !.version = req[r].read + 1]
      BY <1>1, <1>3, <1>4 DEF UpdateStatus
    <2>3. bookings'[b].status = req[r].op /\ bookings'[b].slot = bookings[b].slot
      BY <1>3, <2>2 DEF Row
    <2>4. QED
      BY <1>1, <1>2, <1>3, <1>4, <2>1, <2>2, <2>3 DEF UpdateStatus
  <1>5. ASSUME NEW refund \in RefundAmount, req[r].op = "cancelled",
               UpdateCancelled(b, refund, req[r].read + 1)
        PROVE  /\ bookings'[b] \in Row
               /\ bookings'[b].status = req[r].op /\ bookings'[b].slot = bookings[b].slot
               /\ \A c \in Booking : c # b => bookings'[c] = bookings[c]
               /\ bookings' \in [Booking -> Row \cup {NoRow}]
               /\ held' = [held EXCEPT ![b] = @ \cup {req[r].op}]
    <2> DEFINE row == [bookings[b] EXCEPT !.status = "cancelled", !.cancelled_at = TRUE,
                                          !.refund_amount = refund,
                                          !.version = req[r].read + 1]
    <2>1. row \in Row
      BY <1>1, <1>3, <1>5, OpsAreStatuses DEF Row
    <2>2. bookings' = [bookings EXCEPT ![b] = row]
      BY <1>1, <1>3, <1>5 DEF UpdateCancelled
    <2>3. row.status = req[r].op /\ row.slot = bookings[b].slot
      BY <1>3, <1>5 DEF Row
    <2>4. held' = [held EXCEPT ![b] = @ \cup {req[r].op}]
      BY <1>5 DEF UpdateCancelled
    <2> HIDE DEF row
    <2>5. bookings'[b] = row /\ \A c \in Booking : c # b => bookings'[c] = bookings[c]
      BY <1>1, <1>3, <2>2
    <2>6. bookings' \in [Booking -> Row \cup {NoRow}]
      BY <1>1, <1>3, <2>1, <2>2
    <2>7. QED
      BY <2>1, <2>3, <2>4, <2>5, <2>6
  <1>6. QED
    BY <1>1, <1>2, <1>4, <1>5 DEF CommitTransition

LEMMA CommitKeeps ==
  ASSUME IndInv, NEW r \in Req, CommitTransition(r)
  PROVE  IndInv'
  <1> USE DEF IndInv
  <1> DEFINE b == req[r].booking
  <1>1. /\ b \in Booking /\ Exists(b) /\ req[r].op \in TransitionOps
        /\ bookings'[b].status = req[r].op /\ bookings'[b].slot = bookings[b].slot
        /\ \A c \in Booking : c # b => bookings'[c] = bookings[c]
        /\ bookings' \in [Booking -> Row \cup {NoRow}]
        /\ held' = [held EXCEPT ![b] = @ \cup {req[r].op}]
    BY TransitionWrites
  <1>a. req[r] \in Request /\ req[r].pc = "loaded" /\ req[r] # Idle
    BY IdleHasNoPhase DEF CommitTransition, TypeOK
  <1>2. /\ req' \in [Req -> Request \cup {Idle}]
        /\ req'[r] = [req[r] EXCEPT !.pc = "committed"]
        /\ \A q \in Req : q # r => req'[q] = req[q]
    BY <1>a, GotoTyped DEF CommitTransition, Phases
  <1>b. req'[r].pc = "committed"
    BY <1>2, <1>a DEF Request
  <1>3. /\ held' \in [Booking -> SUBSET Statuses]
        /\ \A c \in Booking : held[c] \subseteq held'[c]
        /\ req[r].op \in held'[b]
    BY <1>1, OpsAreStatuses DEF TypeOK, BookingTableTypeOK
  <1>4. TypeOK'
    BY <1>1, <1>2, <1>3 DEF CommitTransition, TypeOK, BookingTableTypeOK, CouponTypeOK,
                            PaymentTableTypeOK
  <1>5. RequestsWellFormed'
    BY <1>1, <1>2, <1>b, <1>3 DEF RequestsWellFormed, Exists
  <1>6. CreationsHoldLock' /\ LockHasLiveOwner'
    <2>1. ~HoldsLock(r) /\ ~HoldsLock(r)'
      BY <1>a, <1>b DEF HoldsLock
    <2>2. QED
      BY <1>2, <2>1, LockKept DEF CommitTransition
  <1>7. CheckedStaysClear'
    <2> SUFFICES ASSUME NEW q \in Req, req'[q].pc \in {"checked", "priced"},
                        NEW c \in Booking, IsLive(c)',
                        Overlap(bookings'[c].slot, req'[q].slot)
                 PROVE  EverReleased(c)'
      BY DEF CheckedStaysClear, Conflicts
    <2>1. req'[q] = req[q] /\ bookings'[c].slot = bookings[c].slot
      BY <1>1, <1>2, <1>b
    <2>2. CASE IsLive(c)
      BY <1>3, <2>1, <2>2 DEF CheckedStaysClear, Conflicts, EverReleased
    <2>3. CASE ~IsLive(c)
      \* c is b, revived: the status it comes from is in its history.
      <3>1. c = b /\ bookings[b].status \in held[b]
        BY <1>1, <2>3 DEF IsLive, RequestsWellFormed
      <3>2. QED
        BY <1>3, <2>3, <3>1 DEF IsLive, EverReleased
    <2>4. QED
      BY <2>2, <2>3
  <1>8. LoadedWasLegal'
    <2> SUFFICES ASSUME NEW q \in Req, req'[q].pc = "loaded"
                 PROVE  /\ (Exists(req[q].booking))'
                        /\ \E s \in held'[req'[q].booking] :
                             MayTransition(s, req'[q].op)
      BY DEF LoadedWasLegal
    <2>1. q # r /\ req'[q] = req[q] /\ req[q].booking \in Booking
      BY <1>2, <1>b DEF TypeOK, Idle, Request
    <2>2. \A c \in Booking : Exists(c) => Exists(c)'
      BY <1>1, OpsAreStatuses DEF Exists
    <2>3. QED
      BY <1>3, <2>1, <2>2 DEF LoadedWasLegal
  <1>9. QED
    BY <1>4, <1>5, <1>6, <1>7, <1>8

(* The administrator's coupon operations concern no request.               *)
LEMMA CouponAdminKeeps ==
  ASSUME IndInv, CouponAdmin, UNCHANGED <<bookings, held, txns, req, lock>>
  PROVE  IndInv'
  <1> USE DEF IndInv
  <1>1. CouponTypeOK'
    <2>1. coupons \in [Coupon -> CouponRow]
      BY DEF TypeOK, CouponTypeOK
    <2>2. PICK c \in Coupon : CreateCoupon(c) \/ UpdateCoupon(c) \/ DeleteCoupon(c)
      BY DEF CouponAdmin
    <2>3. coupons[c] \in CouponRow /\ coupons[c].row \in Nat
      BY <2>1, <2>2 DEF CouponRow
    <2>0. Limits \subseteq Nat \cup {NULL}
      BY DEF Limits
    <2>4. \E new \in CouponRow : coupons' = [coupons EXCEPT ![c] = new]
      <3>1. CASE CreateCoupon(c)
        <4>1. PICK limit \in Limits :
                coupons' = [coupons EXCEPT ![c] =
                              [row |-> coupons[c].row + 1, present |-> TRUE,
                               is_active |-> TRUE, usage_limit |-> limit,
                               used_count |-> 0]]
          BY <3>1 DEF CreateCoupon
        <4>2. [row |-> coupons[c].row + 1, present |-> TRUE, is_active |-> TRUE,
               usage_limit |-> limit, used_count |-> 0] \in CouponRow
          BY <2>0, <2>3, <4>1 DEF CouponRow
        <4>3. QED
          BY <4>1, <4>2
      <3>2. CASE UpdateCoupon(c)
        <4>1. PICK active \in BOOLEAN, limit \in Limits :
                coupons' = [coupons EXCEPT ![c].is_active = active,
                                           ![c].usage_limit = limit]
          BY <3>2 DEF UpdateCoupon
        <4>2. [coupons[c] EXCEPT !.is_active = active, !.usage_limit = limit] \in CouponRow
          BY <2>0, <2>3 DEF CouponRow
        <4>3. coupons' = [coupons EXCEPT ![c] = [coupons[c] EXCEPT !.is_active = active,
                                                                   !.usage_limit = limit]]
          BY <2>1, <2>3, <4>1 DEF CouponRow
        <4>4. QED
          BY <4>2, <4>3
      <3>3. CASE DeleteCoupon(c)
        BY <2>3, <3>3 DEF DeleteCoupon, NoCoupon, CouponRow
      <3>4. QED
        BY <2>2, <3>1, <3>2, <3>3
    <2>5. QED
      BY <2>1, <2>4 DEF CouponTypeOK
  <1>2. TypeOK'
    BY <1>1 DEF TypeOK, BookingTableTypeOK, PaymentTableTypeOK
  <1>3. QED
    BY <1>2 DEF RequestsWellFormed, CreationsHoldLock, LockHasLiveOwner, HoldsLock,
                CheckedStaysClear, LoadedWasLegal, Conflicts, IsLive, EverReleased, Exists

(***************************************************************************)
(* Every step keeps the inductive invariant.                               *)
(***************************************************************************)
LEMMA IndInvStep == IndInv /\ [Next]_vars => IndInv'
  <1> SUFFICES ASSUME IndInv, [Next]_vars PROVE IndInv'
    OBVIOUS
  <1>1. ASSUME NEW r \in Req, Emit(r) PROVE IndInv'
    BY <1>1, EndKeeps DEF Emit, HoldsLock, IndInv, TypeOK, CouponTypeOK
  <1>2. ASSUME NEW r \in Req, Fail(r) PROVE IndInv'
    BY <1>2, EndKeeps DEF Fail, IndInv, TypeOK, CouponTypeOK
  <1>3. ASSUME NEW r \in Req, Proceed(r) PROVE IndInv'
    BY <1>1, <1>3, FindConflictKeeps, ValidateCouponKeeps, InsertKeeps,
       ReadUsedCountKeeps, IncrementKeeps, CommitKeeps DEF Proceed
  <1>4. CASE UNCHANGED vars
    BY <1>4 DEF vars, IndInv, TypeOK, BookingTableTypeOK, CouponTypeOK,
                PaymentTableTypeOK, RequestsWellFormed, CreationsHoldLock,
                LockHasLiveOwner, HoldsLock, CheckedStaysClear, LoadedWasLegal,
                Conflicts, IsLive, EverReleased, Exists
  <1>5. QED
    BY <1>2, <1>3, <1>4, ReceiveKeeps, AcquireKeeps, LoadKeeps, CouponAdminKeeps DEF Next

(***************************************************************************)
(* Type correctness, the lock's discipline and the facts each request      *)
(* relies on hold in every reachable state.                                *)
(***************************************************************************)
THEOREM BookingInvariant == Spec => []IndInv
  BY IndInvInit, IndInvStep, PTL DEF Spec

(***************************************************************************)
(* A creation between its lock and its commit owns the lock of its day,    *)
(* and nobody else owns a lock: none outlives its request.                 *)
(***************************************************************************)
THEOREM LockDiscipline == Spec => [](CreationsHoldLock /\ LockHasLiveOwner)
  <1>1. IndInv => CreationsHoldLock /\ LockHasLiveOwner
    BY DEF IndInv
  <1>2. QED
    BY <1>1, BookingInvariant, PTL

(***************************************************************************)
(* What a creation found free is still free when it inserts, or taken by a *)
(* revived booking only.                                                   *)
(***************************************************************************)
THEOREM FoundFreeStaysFree == Spec => []CheckedStaysClear
  <1>1. IndInv => CheckedStaysClear
    BY DEF IndInv
  <1>2. QED
    BY <1>1, BookingInvariant, PTL

(***************************************************************************)
(* Double booking: two live overlapping bookings include a revived one.    *)
(***************************************************************************)
LEMMA OverlapStep ==
  IndInv /\ OverlapOnlyIfRevived /\ [Next]_vars => OverlapOnlyIfRevived'
  <1> SUFFICES ASSUME IndInv, OverlapOnlyIfRevived, [Next]_vars
               PROVE  OverlapOnlyIfRevived'
    OBVIOUS
  <1>1. CASE UNCHANGED <<bookings, held>>
    BY <1>1 DEF OverlapOnlyIfRevived, IsLive, EverReleased
  <1>2. ASSUME NEW r \in Req, InsertBooking(r)
        PROVE  OverlapOnlyIfRevived'
    <2> DEFINE new == req[r].booking
    <2>1. /\ new \in Booking /\ bookings'[new].slot = req[r].slot
          /\ \A b \in Booking : b # new => bookings'[b] = bookings[b] /\ held'[b] = held[b]
      BY <1>2 DEF InsertBooking, InsertRow, IndInv, TypeOK, BookingTableTypeOK, Request, Idle
    <2>2. ASSUME NEW b \in Booking, b # new, IsLive(b),
                 Overlap(bookings[b].slot, req[r].slot)
          PROVE  EverReleased(b)
      BY <1>2, <2>2 DEF IndInv, CheckedStaysClear, Conflicts, InsertBooking
    <2>3. ASSUME NEW b \in Booking, NEW c \in Booking, b # c, IsLive(b)', IsLive(c)',
                 Overlap(bookings'[b].slot, bookings'[c].slot)
          PROVE  EverReleased(b)' \/ EverReleased(c)'
      <3>1. CASE b = new
        <4>1. Overlap(bookings[c].slot, req[r].slot)
          BY <2>1, <2>3, <3>1 DEF Overlap
        <4>2. QED
          BY <2>1, <2>2, <2>3, <3>1, <4>1 DEF IsLive, EverReleased
      <3>2. CASE c = new
        BY <2>1, <2>2, <2>3, <3>2 DEF IsLive, EverReleased
      <3>3. CASE b # new /\ c # new
        BY <2>1, <2>3, <3>3 DEF IsLive, EverReleased, OverlapOnlyIfRevived
      <3>4. QED
        BY <3>1, <3>2, <3>3
    <2>4. QED
      BY <2>3 DEF OverlapOnlyIfRevived
  <1>3. ASSUME NEW r \in Req, CommitTransition(r)
        PROVE  OverlapOnlyIfRevived'
    <2> DEFINE a == req[r].booking
    <2>1. /\ a \in Booking /\ Exists(a) /\ bookings'[a].slot = bookings[a].slot
          /\ \A c \in Booking : c # a => bookings'[c] = bookings[c]
          /\ held' = [held EXCEPT ![a] = @ \cup {req[r].op}]
      BY <1>3, TransitionWrites
    <2>2. \A c \in Booking : bookings'[c].slot = bookings[c].slot
      BY <2>1
    <2>3. \A c \in Booking : EverReleased(c) => EverReleased(c)'
      BY <2>1 DEF EverReleased, IndInv, TypeOK, BookingTableTypeOK
    <2>4. \A c \in Booking : IsLive(c)' /\ ~IsLive(c) => EverReleased(c)'
      <3>1. bookings[a].status \in held'[a]
        BY <2>1 DEF IndInv, RequestsWellFormed, TypeOK, BookingTableTypeOK
      <3>2. QED
        BY <2>1, <3>1 DEF IsLive, EverReleased
    <2>5. QED
      BY <2>2, <2>3, <2>4 DEF OverlapOnlyIfRevived
  <1>4. QED
    BY <1>1, <1>2, <1>3
       DEF Next, Proceed, vars, ReceiveCreate, AcquireLock, FindConflict, ValidateCoupon,
           ReadUsedCount, IncrementUsage, LoadBooking, Emit, Fail

THEOREM NoOverlapUnlessRevived == Spec => []OverlapOnlyIfRevived
  <1>1. Init => OverlapOnlyIfRevived
    BY DEF Init, BookingTableInit, OverlapOnlyIfRevived, IsLive, NoRow, LiveStatuses
  <1>2. QED
    BY <1>1, OverlapStep, BookingInvariant, PTL DEF Spec

(***************************************************************************)
(* Refinement.  An insert is Reserve, a transition's commit is Move (or a  *)
(* stutter, when a second request writes the same status), everything else *)
(* stutters.                                                               *)
(***************************************************************************)
LEMMA LedgerInit == Init => Ledger!Init
  BY DEF Init, BookingTableInit, Ledger!Init, Exists, NoRow

LEMMA SameStateMachine ==
  /\ Ledger!Statuses = Statuses /\ Ledger!LiveStatuses = LiveStatuses
  /\ \A s, t : MayTransition(s, t) => Ledger!MayTransition(s, t)
  BY DEF Ledger!Statuses, Statuses, Ledger!LiveStatuses, LiveStatuses,
         Ledger!MayTransition, MayTransition, Ledger!TRANSITIONS, TRANSITIONS

(* What an insert does to the two variables that the ledger sees.          *)
LEMMA InsertWrites ==
  ASSUME IndInv, NEW r \in Req, InsertBooking(r)
  PROVE  \E first \in LiveStatuses :
           /\ req[r].booking \in Booking /\ ~Exists(req[r].booking)
           /\ req[r].slot \in Slot /\ first # "absent"
           /\ bookings'[req[r].booking].status = first
           /\ bookings'[req[r].booking].slot = req[r].slot
           /\ \A b \in Booking : b # req[r].booking => bookings'[b] = bookings[b]
           /\ held' = [held EXCEPT ![req[r].booking] = {first}]
  <1>1. /\ req[r].booking \in Booking /\ req[r].slot \in Slot
        /\ bookings \in [Booking -> Row \cup {NoRow}]
    BY DEF InsertBooking, IndInv, TypeOK, BookingTableTypeOK, Request, Idle,
           RequestsWellFormed
  <1>2. PICK first \in {"pending", "confirmed"} :
          InsertRow(req[r].booking, first, req[r].slot, req[r].coupon)
    BY DEF InsertBooking
  <1>3. first \in LiveStatuses /\ first # "absent"
    BY DEF LiveStatuses
  <1>4. QED
    BY <1>1, <1>2, <1>3 DEF InsertRow

LEMMA InsertReserves ==
  ASSUME IndInv, NEW r \in Req, InsertBooking(r)
  PROVE  Ledger!Next
  <1> DEFINE new == req[r].booking
             status == [b \in Booking |-> bookings[b].status]
             slot == [b \in Booking |-> IF Exists(b) THEN bookings[b].slot ELSE NULL]
  <1>1. PICK first \in LiveStatuses :
          /\ new \in Booking /\ ~Exists(new)
          /\ req[r].slot \in Slot /\ first # "absent"
          /\ bookings'[new].status = first /\ bookings'[new].slot = req[r].slot
          /\ \A b \in Booking : b # new => bookings'[b] = bookings[b]
          /\ held' = [held EXCEPT ![new] = {first}]
    BY InsertWrites
  <1>2. \A b \in Booking :
          status[b] \in LiveStatuses
          /\ <<slot[b], req[r].slot>> \in {p \in Slot \X Slot : Overlap(p[1], p[2])}
            => held[b] \ LiveStatuses # {}
    <2>1. \A b \in Booking :
            bookings[b].status \in LiveStatuses /\ Overlap(bookings[b].slot, req[r].slot)
              => held[b] \ LiveStatuses # {}
      BY DEF InsertBooking, IndInv, CheckedStaysClear, Conflicts, IsLive, EverReleased
    <2>2. \A b \in Booking : bookings[b].status \in LiveStatuses => Exists(b)
      BY DEF LiveStatuses, Exists
    <2>3. QED
      BY <2>1, <2>2
  <1>3. status[new] = "absent"
    BY <1>1 DEF Exists
  <1>4. status' = [status EXCEPT ![new] = first]
    <2>1. \A b \in Booking : status'[b] = IF b = new THEN first ELSE status[b]
      BY <1>1
    <2>2. QED
      BY <1>1, <2>1
  <1>5. slot' = [slot EXCEPT ![new] = req[r].slot]
    <2>1. \A b \in Booking : Exists(b)' <=> (b = new \/ Exists(b))
      BY <1>1 DEF Exists
    <2>2. \A b \in Booking : slot'[b] = IF b = new THEN req[r].slot ELSE slot[b]
      BY <1>1, <2>1
    <2>3. QED
      BY <1>1, <2>2
  <1>6. Ledger!Reserve(new, req[r].slot, first)
    BY <1>1, <1>2, <1>3, <1>4, <1>5, SameStateMachine
       DEF Ledger!Reserve, Ledger!Live, Ledger!Released
  <1>7. QED
    BY <1>1, <1>6, SameStateMachine DEF Ledger!Next

LEMMA CommitMoves ==
  ASSUME IndInv, NEW r \in Req, CommitTransition(r)
  PROVE  Ledger!Next
  <1> DEFINE status == [c \in Booking |-> bookings[c].status]
             slot == [c \in Booking |-> IF Exists(c) THEN bookings[c].slot ELSE NULL]
  <1>1. PICK b \in Booking, target \in Statuses :
          /\ Exists(b) /\ target # "absent"
          /\ \E s \in held[b] : MayTransition(s, target)
          /\ bookings'[b].status = target /\ bookings'[b].slot = bookings[b].slot
          /\ \A c \in Booking : c # b => bookings'[c] = bookings[c]
          /\ held' = [held EXCEPT ![b] = @ \cup {target}]
    BY TransitionWrites, OpsAreStatuses
  <1>2. status[b] # "absent"
    BY <1>1 DEF Exists
  <1>3. status' = [status EXCEPT ![b] = target]
    <2>1. \A c \in Booking : status'[c] = IF c = b THEN target ELSE status[c]
      BY <1>1
    <2>2. QED
      BY <1>1, <2>1
  <1>4. slot' = slot
    <2>1. \A c \in Booking : Exists(c)' <=> Exists(c)
      BY <1>1 DEF Exists
    <2>2. QED
      BY <1>1, <2>1
  <1>5. Ledger!Move(b, target)
    BY <1>1, <1>2, <1>3, <1>4, SameStateMachine DEF Ledger!Move
  <1>6. QED
    BY <1>5, SameStateMachine DEF Ledger!Next

LEMMA LedgerStep == IndInv /\ [Next]_vars => [Ledger!Next]_(Ledger!vars)
  <1> SUFFICES ASSUME IndInv, [Next]_vars PROVE [Ledger!Next]_(Ledger!vars)
    OBVIOUS
  <1>1. CASE UNCHANGED <<bookings, held>>
    BY <1>1 DEF Ledger!vars, Exists
  <1>2. QED
    BY <1>1, InsertReserves, CommitMoves
       DEF Next, Proceed, vars, ReceiveCreate, AcquireLock, FindConflict, ValidateCoupon,
           ReadUsedCount, IncrementUsage, LoadBooking, Emit, Fail

(***************************************************************************)
(* BookingService implements the abstract ledger.                          *)
(***************************************************************************)
THEOREM Refinement == Spec => ImplementsLedger
  BY LedgerInit, LedgerStep, BookingInvariant, PTL
     DEF Spec, ImplementsLedger, Ledger!Spec

(***************************************************************************)
(* A booking was ever completed or a no-show only if it was confirmed at   *)
(* some time, whatever was overwritten in between.                         *)
(***************************************************************************)
THEOREM FinishedOnlyAfterConfirmed == Spec => []FinishedWasConfirmed
  <1>1. Init => FinishedWasConfirmed
    BY DEF Init, BookingTableInit, FinishedWasConfirmed, NoRow
  <1>2. IndInv /\ FinishedWasConfirmed /\ [Next]_vars => FinishedWasConfirmed'
    <2> SUFFICES ASSUME IndInv, FinishedWasConfirmed, [Next]_vars
                 PROVE  FinishedWasConfirmed'
      OBVIOUS
    <2>1. CASE UNCHANGED <<bookings, held>>
      BY <2>1 DEF FinishedWasConfirmed
    <2>2. ASSUME NEW r \in Req, InsertBooking(r) PROVE FinishedWasConfirmed'
      <3>1. PICK b \in Booking, first \in LiveStatuses :
              /\ bookings'[b].status = first
              /\ \A c \in Booking : c # b => bookings'[c] = bookings[c]
              /\ held' = [held EXCEPT ![b] = {first}]
        BY <2>2, InsertWrites
      <3>2. {first} \cap {"completed", "no_show"} = {}
        BY DEF LiveStatuses
      <3>3. QED
        BY <3>1, <3>2 DEF FinishedWasConfirmed, IndInv, TypeOK, BookingTableTypeOK
    <2>3. ASSUME NEW r \in Req, CommitTransition(r) PROVE FinishedWasConfirmed'
      <3>1. PICK b \in Booking, target \in TransitionOps :
              /\ \E s \in held[b] : MayTransition(s, target)
              /\ bookings'[b].status = target
              /\ \A c \in Booking : c # b => bookings'[c] = bookings[c]
              /\ held' = [held EXCEPT ![b] = @ \cup {target}]
        BY <2>3, TransitionWrites
      <3>2. target \in {"completed", "no_show"} => "confirmed" \in held[b]
        BY <3>1 DEF MayTransition, TRANSITIONS, Statuses
      <3>3. QED
        BY <3>1, <3>2 DEF FinishedWasConfirmed, IndInv, TypeOK, BookingTableTypeOK
    <2>4. QED
      BY <2>1, <2>2, <2>3
         DEF Next, Proceed, vars, ReceiveCreate, AcquireLock, FindConflict,
             ValidateCoupon, ReadUsedCount, IncrementUsage, LoadBooking, Emit, Fail
  <1>3. QED
    BY <1>1, <1>2, BookingInvariant, PTL DEF Spec

-----------------------------------------------------------------------------
(* What the requests leave on record: what cancelling wrote, what an event *)
(* reports, and how often a coupon was counted.  The first two rest on the *)
(* invariant above; the last adds a count.                                 *)

(* The steps that write no row of the bookings table.                      *)
LEMMA OnlyTwoWriteBookings ==
  ASSUME [Next]_vars,
         \A r \in Req : ~InsertBooking(r) /\ ~CommitTransition(r)
  PROVE  UNCHANGED <<bookings, held, txns>>
  BY DEF Next, Proceed, vars, ReceiveCreate, AcquireLock, FindConflict, ValidateCoupon,
         ReadUsedCount, IncrementUsage, LoadBooking, Emit, Fail

(* What InsertBooking writes: the columns of its new row.                  *)
Inserts(r, b, first) ==
  /\ b = req[r].booking /\ ~Exists(b)
  /\ req[r] \in Request
  /\ \/ req[r].op = "create" /\ first = "pending"
     \/ req[r].op = "manual" /\ first = "confirmed"
  /\ bookings'[b] =
       [status |-> first, slot |-> req[r].slot, discount |-> req[r].coupon,
        cancelled_at |-> FALSE, refund_amount |-> NULL, version |-> 1]
  /\ held'[b] = {first}
  /\ \A c \in Booking : c # b => bookings'[c] = bookings[c] /\ held'[c] = held[c]

LEMMA InsertedRow ==
  ASSUME IndInv, NEW r \in Req, InsertBooking(r)
  PROVE  \E b \in Booking, first \in LiveStatuses : Inserts(r, b, first)
  <1>1. req[r] \in Request /\ req[r].op \in CreateOps
    BY DEF InsertBooking, IndInv, TypeOK, Idle, RequestsWellFormed
  <1>2. req[r].booking \in Booking
    BY <1>1 DEF Request
  <1>3. bookings \in [Booking -> Row \cup {NoRow}] /\ held \in [Booking -> SUBSET Statuses]
    BY DEF IndInv, TypeOK, BookingTableTypeOK
  <1>4. PICK first \in LiveStatuses :
          /\ \/ req[r].op = "create" /\ first = "pending"
             \/ req[r].op = "manual" /\ first = "confirmed"
          /\ InsertRow(req[r].booking, first, req[r].slot, req[r].coupon)
    BY DEF InsertBooking, LiveStatuses
  <1>5. QED
    BY <1>1, <1>2, <1>3, <1>4 DEF InsertRow, Inserts

-----------------------------------------------------------------------------
(***************************************************************************)
(* What cancelling wrote stays: the only UPDATE that reaches cancelled_at  *)
(* and refund_amount is the one that writes "cancelled" into the history.  *)
(***************************************************************************)
LEMMA CancellationStep ==
  IndInv /\ CancellationIsRecorded /\ [Next]_vars => CancellationIsRecorded'
  <1> SUFFICES ASSUME IndInv, CancellationIsRecorded, [Next]_vars
               PROVE  CancellationIsRecorded'
    OBVIOUS
  <1>1. /\ bookings \in [Booking -> Row \cup {NoRow}]
        /\ held \in [Booking -> SUBSET Statuses]
    BY DEF IndInv, TypeOK, BookingTableTypeOK
  <1>2. ASSUME NEW r \in Req, InsertBooking(r) PROVE CancellationIsRecorded'
    <2>1. PICK new \in Booking, first \in LiveStatuses : Inserts(r, new, first)
      BY <1>2, InsertedRow
    <2>2. bookings'[new].cancelled_at = FALSE /\ bookings'[new].refund_amount = NULL
      BY <2>1 DEF Inserts
    <2>3. QED
      BY <2>1, <2>2 DEF CancellationIsRecorded, Exists, LiveStatuses, Inserts
  <1>3. ASSUME NEW r \in Req, CommitTransition(r) PROVE CancellationIsRecorded'
    <2> DEFINE b == req[r].booking
    <2>1. /\ b \in Booking /\ Exists(b) /\ req[r].op \in TransitionOps
          /\ \A c \in Booking : c # b => bookings'[c] = bookings[c]
          /\ held' = [held EXCEPT ![b] = @ \cup {req[r].op}]
      BY <1>3, TransitionWrites
    <2>2. bookings[b] \in Row
      BY <1>1, <2>1 DEF Exists, NoRow
    <2>3. CASE req[r].op # "cancelled"
      <3>1. bookings'[b].cancelled_at = bookings[b].cancelled_at
            /\ bookings'[b].refund_amount = bookings[b].refund_amount
        BY <1>1, <1>3, <2>1, <2>2, <2>3 DEF CommitTransition, UpdateStatus, Row
      <3>2. QED
        BY <1>1, <2>1, <2>3, <3>1 DEF CancellationIsRecorded, Exists
    <2>4. CASE req[r].op = "cancelled"
      <3>a. PICK refund \in RefundAmount : UpdateCancelled(b, refund, req[r].read + 1)
        BY <1>3, <2>4 DEF CommitTransition
      <3>b. bookings'[b] = [bookings[b] EXCEPT !.status = "cancelled", !.cancelled_at = TRUE,
                              !.refund_amount = refund, !.version = req[r].read + 1]
        BY <1>1, <2>1, <3>a DEF UpdateCancelled
      <3>1. bookings'[b].cancelled_at = TRUE /\ bookings'[b].refund_amount \in RefundAmount
        BY <2>2, <3>b DEF Row
      <3>2. QED
        BY <1>1, <2>1, <2>4, <3>1, NullAssumption DEF CancellationIsRecorded, Exists
    <2>5. QED
      BY <2>3, <2>4
  <1>4. CASE \A r \in Req : ~InsertBooking(r) /\ ~CommitTransition(r)
    BY <1>4, OnlyTwoWriteBookings DEF CancellationIsRecorded, Exists
  <1>5. QED
    BY <1>2, <1>3, <1>4

(***************************************************************************)
(* A booking that was ever cancelled keeps its cancelled_at and its        *)
(* refund_amount, and no other booking has them.                           *)
(***************************************************************************)
THEOREM CancellationsStayRecorded == Spec => []CancellationIsRecorded
  <1>1. Init => CancellationIsRecorded
    BY DEF Init, BookingTableInit, CancellationIsRecorded, Exists, NoRow
  <1>2. QED
    BY <1>1, CancellationStep, BookingInvariant, PTL DEF Spec

-----------------------------------------------------------------------------
(***************************************************************************)
(* What an event will report is in the tables from the commit on, not only *)
(* when it is emitted: the requests that still have a coupon to count are  *)
(* past their commit too.                                                  *)
(***************************************************************************)
PastCommit == {"uncounted", "counting", "committed"}

CommitsAreReported ==
  \A r \in Req : req[r].pc \in PastCommit =>
    /\ Exists(req[r].booking)
    /\ \A event \in EventsOf(req[r].op) : Reported(event, req[r].booking)

(* Rows stay, and their history and the successful payments only grow.     *)
RecordsGrow ==
  /\ \A b \in Booking : Exists(b) => Exists(b)' /\ held[b] \subseteq held'[b]
  /\ \A t \in Txn : txns[t].status = "success" => txns'[t] = txns[t]

LEMMA RecordsOnlyGrow == IndInv /\ [Next]_vars => RecordsGrow
  <1> SUFFICES ASSUME IndInv, [Next]_vars PROVE RecordsGrow
    OBVIOUS
  <1>1. /\ bookings \in [Booking -> Row \cup {NoRow}]
        /\ held \in [Booking -> SUBSET Statuses]
        /\ txns \in [Txn -> TxnRow \cup {NoTxn}]
    BY DEF IndInv, TypeOK, BookingTableTypeOK, PaymentTableTypeOK
  <1>2. ASSUME NEW r \in Req, InsertBooking(r) PROVE RecordsGrow
    <2>1. \A t \in Txn : txns[t].status = "success" => txns'[t] = txns[t]
      BY <1>1, <1>2 DEF InsertBooking, InsertTxn, TxnExists
    <2>2. QED
      BY <1>1, <1>2, <2>1, InsertedRow DEF RecordsGrow, Exists, Inserts
  <1>3. ASSUME NEW r \in Req, CommitTransition(r) PROVE RecordsGrow
    <2>1. UNCHANGED txns
      BY <1>3 DEF CommitTransition
    <2>2. req[r].op # "absent"
      BY <1>3, TransitionWrites DEF TransitionOps
    <2>3. QED
      BY <1>1, <1>3, <2>1, <2>2, TransitionWrites DEF RecordsGrow, Exists
  <1>4. CASE \A r \in Req : ~InsertBooking(r) /\ ~CommitTransition(r)
    BY <1>4, OnlyTwoWriteBookings DEF RecordsGrow, Exists
  <1>5. QED
    BY <1>2, <1>3, <1>4

(* What was reported before the step is reported after it.                 *)
LEMMA StillReported ==
  ASSUME RecordsGrow, NEW b \in Booking, Exists(b), NEW op \in CreateOps \cup TransitionOps,
         \A event \in EventsOf(op) : Reported(event, b)
  PROVE  Exists(b)' /\ \A event \in EventsOf(op) : Reported(event, b)'
  BY DEF RecordsGrow, CreateOps, TransitionOps, EventsOf, Reported

(* A commit writes what its event will report.                             *)
LEMMA CommitReports ==
  ASSUME IndInv, NEW r \in Req, InsertBooking(r) \/ CommitTransition(r),
         NEW b \in Booking, b = req[r].booking, NEW op, op = req[r].op
  PROVE  Exists(b)' /\ \A event \in EventsOf(op) : Reported(event, b)'
  <1>1. /\ bookings \in [Booking -> Row \cup {NoRow}]
        /\ held \in [Booking -> SUBSET Statuses]
        /\ txns \in [Txn -> TxnRow \cup {NoTxn}]
    BY DEF IndInv, TypeOK, BookingTableTypeOK, PaymentTableTypeOK
  <1>2. CASE InsertBooking(r)
    <2>1. PICK first \in LiveStatuses : Inserts(r, b, first)
      <3>1. PICK new \in Booking, status \in LiveStatuses : Inserts(r, new, status)
        BY <1>2, InsertedRow
      <3>2. new = b
        BY <3>1 DEF Inserts
      <3>3. QED
        BY <3>1, <3>2
    <2>2. op = "manual" =>
            \E t \in Txn : txns'[t].status = "success" /\ txns'[t].booking = b
      BY <1>1, <1>2 DEF InsertBooking, InsertTxn
    <2>3. bookings'[b].status = first
      BY <2>1 DEF Inserts
    <2>4. QED
      BY <2>1, <2>2, <2>3 DEF Inserts, EventsOf, Reported, Exists, LiveStatuses
  <1>3. CASE CommitTransition(r)
    <2>1. /\ op \in TransitionOps
          /\ bookings'[b].status = op /\ op \in held'[b]
      BY <1>1, <1>3, TransitionWrites
    <2>2. QED
      BY <2>1 DEF TransitionOps, EventsOf, Reported, Exists
  <1>4. QED
    BY <1>2, <1>3

(* Which requests are past their commit after a step.                      *)
LEMMA PastCommitBefore ==
  ASSUME IndInv, [Next]_vars, NEW q \in Req, req'[q].pc \in PastCommit
  PROVE  /\ req[q] \in Request
         /\ req'[q].booking = req[q].booking /\ req'[q].op = req[q].op
         /\ req[q].pc \in PastCommit \/ InsertBooking(q) \/ CommitTransition(q)
  <1>0. req \in [Req -> Request \cup {Idle}]
    BY DEF IndInv, TypeOK
  <1>1. CASE req'[q] = req[q]
    BY <1>0, <1>1 DEF PastCommit, Idle
  <1>2. CASE req'[q] # req[q]
    <2>1. \/ ReceiveCreate(q) \/ AcquireLock(q) \/ LoadBooking(q) \/ Proceed(q) \/ Fail(q)
      <3>1. PICK r \in Req : \/ ReceiveCreate(r) \/ AcquireLock(r) \/ LoadBooking(r)
                             \/ Proceed(r) \/ Fail(r)
        BY <1>2 DEF Next, vars
      <3>2. \A p \in Req : p # r => req'[p] = req[p]
        BY <1>0, <3>1 DEF Proceed, ReceiveCreate, AcquireLock, FindConflict, ValidateCoupon,
             InsertBooking, ReadUsedCount, IncrementUsage, CommitTransition, LoadBooking,
             Emit, Fail, Goto, Finish
      <3>3. QED
        BY <1>2, <3>1, <3>2
    <2>2. req'[q].pc # "idle"
      BY DEF PastCommit
    <2>3. ~Finish(q)
      BY <1>0, <2>2 DEF Finish, Idle
    <2>4. ~ReceiveCreate(q) /\ ~LoadBooking(q) /\ ~Emit(q) /\ ~Fail(q)
      BY <1>0, <2>3 DEF PastCommit, ReceiveCreate, LoadBooking, Emit, Fail
    <2>5. ~AcquireLock(q) /\ ~FindConflict(q) /\ ~ValidateCoupon(q)
      <3>1. ASSUME NEW pc \in Phases \ PastCommit, Goto(q, pc), req[q] # Idle PROVE FALSE
        <4>1. req'[q] = [req[q] EXCEPT !.pc = pc]
          BY <3>1, GotoTyped DEF IndInv
        <4>2. req[q] \in Request
          BY <1>0, <3>1
        <4>3. req'[q].pc = pc
          BY <4>1, <4>2 DEF Request
        <4>4. QED
          BY <3>1, <4>3
      <3>2. ~AcquireLock(q) /\ ~FindConflict(q)
        BY <2>3, <3>1 DEF PastCommit, AcquireLock, FindConflict, Phases, Idle
      <3>4. ~ValidateCoupon(q)
        <4>1. ASSUME ValidateCoupon(q) PROVE FALSE
          <5>1. req[q] \in Request /\ "priced" \in Phases \ PastCommit
            BY <1>0, <4>1 DEF ValidateCoupon, Idle, Phases, PastCommit
          <5>2. ~Goto(q, "priced")
            BY <3>1, <4>1, <5>1 DEF ValidateCoupon, Idle
          <5>3. req'[q] = [req[q] EXCEPT !.pc = "priced", !.coupon = NULL]
            BY <1>0, <4>1, <5>2 DEF ValidateCoupon
          <5>4. QED
            BY <5>1, <5>3 DEF Request
        <4>2. QED
          BY <4>1
      <3>5. QED
        BY <3>2, <3>4
    <2>6. InsertBooking(q) \/ CommitTransition(q) \/ ReadUsedCount(q) \/ IncrementUsage(q)
      BY <2>1, <2>4, <2>5 DEF Proceed
    <2>7. req[q] \in Request
      BY <1>0, <2>6 DEF Idle, InsertBooking, CommitTransition, ReadUsedCount, IncrementUsage
    <2>8. req'[q].booking = req[q].booking /\ req'[q].op = req[q].op
      BY <1>0, <2>3, <2>6, <2>7 DEF InsertBooking, CommitTransition, ReadUsedCount,
         IncrementUsage, Goto, Request
    <2>9. QED
      BY <2>6, <2>7, <2>8 DEF ReadUsedCount, IncrementUsage, PastCommit
  <1>3. QED
    BY <1>1, <1>2

LEMMA ReportStep ==
  IndInv /\ CommitsAreReported /\ [Next]_vars => CommitsAreReported'
  <1> SUFFICES ASSUME IndInv, CommitsAreReported, [Next]_vars,
                      NEW q \in Req, req'[q].pc \in PastCommit,
                      NEW b \in Booking, b = req[q].booking,
                      NEW op \in CreateOps \cup TransitionOps, op = req[q].op
               PROVE  Exists(b)' /\ \A event \in EventsOf(op) : Reported(event, b)'
    BY PastCommitBefore DEF CommitsAreReported, Request, Exists, Reported
  <1>1. CASE req[q].pc \in PastCommit
    <2>1. Exists(b) /\ \A event \in EventsOf(op) : Reported(event, b)
      BY <1>1 DEF CommitsAreReported
    <2>2. QED
      BY <2>1, RecordsOnlyGrow, StillReported
  <1>2. CASE InsertBooking(q) \/ CommitTransition(q)
    BY <1>2, CommitReports
  <1>3. QED
    BY <1>1, <1>2, PastCommitBefore

(***************************************************************************)
(* No subscriber hears of what was rolled back: what a request is about to *)
(* emit is in the tables, whatever stale writes came since.                *)
(***************************************************************************)
THEOREM EventsTellTheTruth == Spec => []EventsReportCommits
  <1>1. Init => CommitsAreReported
    BY DEF Init, CommitsAreReported, PastCommit, Idle
  <1>2. CommitsAreReported => EventsReportCommits
    BY DEF CommitsAreReported, EventsReportCommits, PastCommit
  <1>3. QED
    BY <1>1, <1>2, ReportStep, BookingInvariant, PTL DEF Spec

-----------------------------------------------------------------------------
(***************************************************************************)
(* Coupons.  Every use that was counted, and every use that somebody still *)
(* has to count, belongs to a booking of its own; and what a request read  *)
(* of the counter leaves room for all uses that are still to be counted.   *)
(***************************************************************************)
Counting(c) == {r \in Req : req[r].pc \in {"uncounted", "counting"} /\ req[r].coupon = c}
Uses(c) == {b \in Booking : Exists(b) /\ bookings[b].discount = c}

UsesAreBooked ==
  \A c \in Coupon :
    coupons[c].used_count + Cardinality(Counting(c)) <= Cardinality(Uses(c))

ReadsLeaveRoom ==
  \A r \in Req : req[r].pc = "counting" =>
    req[r].read + Cardinality(Counting(req[r].coupon)) <= Cardinality(Uses(req[r].coupon))

CountInv == UsesAreBooked /\ ReadsLeaveRoom

LEMMA CountsAreNumbers ==
  ASSUME IsFiniteSet(Booking), IsFiniteSet(Req), NEW c
  PROVE  /\ IsFiniteSet(Counting(c)) /\ Cardinality(Counting(c)) \in Nat
         /\ IsFiniteSet(Uses(c)) /\ Cardinality(Uses(c)) \in Nat
  <1>1. Counting(c) \subseteq Req /\ Uses(c) \subseteq Booking
    BY DEF Counting, Uses
  <1>2. IsFiniteSet(Counting(c)) /\ IsFiniteSet(Uses(c))
    BY <1>1, FS_Subset
  <1>3. QED
    BY <1>2, FS_CardinalityType

(* A step that makes no use and counts none: fewer requests may be left to *)
(* count, counters may start again, and reads are of the counter as it is. *)
LEMMA NothingCounted ==
  ASSUME IsFiniteSet(Booking), IsFiniteSet(Req), IndInv, CountInv, IndInv',
         \A c \in Coupon : /\ Uses(c)' = Uses(c)
                          /\ Counting(c)' \subseteq Counting(c)
                          /\ coupons'[c].used_count <= coupons[c].used_count,
         \A r \in Req : req'[r].pc = "counting" =>
           /\ req'[r].coupon = req[r].coupon
           /\ \/ req[r].pc = "counting" /\ req'[r].read = req[r].read
              \/ req'[r].read = coupons[req[r].coupon].used_count
  PROVE  CountInv'
  <1>1. \A c \in Coupon : coupons[c].used_count \in Nat /\ coupons'[c].used_count \in Nat
    BY DEF IndInv, TypeOK, CouponTypeOK, CouponRow
  <1>2. ASSUME NEW c \in Coupon
        PROVE  /\ Cardinality(Counting(c))' \in Nat /\ Cardinality(Counting(c)) \in Nat
               /\ Cardinality(Uses(c)) \in Nat /\ Cardinality(Uses(c))' = Cardinality(Uses(c))
               /\ Cardinality(Counting(c))' <= Cardinality(Counting(c))
    <2>1. /\ IsFiniteSet(Counting(c)) /\ Cardinality(Counting(c)) \in Nat
          /\ Cardinality(Uses(c)) \in Nat
      BY CountsAreNumbers
    <2>2. IsFiniteSet(Counting(c)') /\ Cardinality(Counting(c)') <= Cardinality(Counting(c))
      BY <2>1, FS_Subset
    <2>3. Cardinality(Counting(c)') \in Nat
      BY <2>2, FS_CardinalityType
    <2>4. QED
      BY <2>1, <2>2, <2>3
  <1>3. UsesAreBooked'
    BY <1>1, <1>2 DEF CountInv, UsesAreBooked
  <1>4. ReadsLeaveRoom'
    <2> SUFFICES ASSUME NEW r \in Req, req'[r].pc = "counting",
                        NEW c \in Coupon, c = req'[r].coupon
                 PROVE  req'[r].read + Cardinality(Counting(c)') <= Cardinality(Uses(c)')
      BY DEF ReadsLeaveRoom, IndInv, RequestsWellFormed
    <2>1. req[r].coupon = c /\ req'[r].read \in Nat
      BY DEF IndInv, TypeOK, Request, Idle
    <2>2. req'[r].read + Cardinality(Counting(c)) <= Cardinality(Uses(c))
      BY <2>1 DEF CountInv, UsesAreBooked, ReadsLeaveRoom
    <2>3. QED
      BY <1>2, <2>1, <2>2
  <1>5. QED
    BY <1>3, <1>4 DEF CountInv

(* A creation with a coupon adds a booking and a use still to be counted.  *)
LEMMA InsertCounts ==
  ASSUME IsFiniteSet(Booking), IsFiniteSet(Req), IndInv, CountInv, IndInv',
         NEW r \in Req, InsertBooking(r)
  PROVE  CountInv'
  <1> DEFINE k == req[r].coupon
  <1>1. PICK new \in Booking, first \in LiveStatuses : Inserts(r, new, first)
    BY InsertedRow
  <1>2. /\ \A q \in Req : q # r => req'[q] = req[q]
        /\ req'[r] = [req[r] EXCEPT !.pc = IF k = NULL THEN "committed" ELSE "uncounted"]
        /\ coupons' = coupons /\ req[r].pc = "priced"
    BY DEF InsertBooking, Goto, IndInv, TypeOK
  <1>3. /\ req'[r].pc = (IF k = NULL THEN "committed" ELSE "uncounted")
        /\ req'[r].coupon = k
    BY <1>1, <1>2 DEF Request, Inserts
  <1>4. bookings'[new].status = first /\ first # "absent" /\ bookings'[new].discount = k
    BY <1>1 DEF LiveStatuses, Inserts
  <1>5. ASSUME NEW c \in Coupon
        PROVE  /\ Counting(c)' = IF c = k THEN Counting(c) \cup {r} ELSE Counting(c)
               /\ Uses(c)' = IF c = k THEN Uses(c) \cup {new} ELSE Uses(c)
               /\ r \notin Counting(c) /\ new \notin Uses(c)
    <2>1. c # NULL
      BY NullAssumption
    <2>2. Counting(c)' = IF c = k THEN Counting(c) \cup {r} ELSE Counting(c)
      BY <1>2, <1>3, <2>1 DEF Counting
    <2>3. Uses(c)' = IF c = k THEN Uses(c) \cup {new} ELSE Uses(c)
      BY <1>1, <1>4 DEF Uses, Exists, Inserts
    <2>4. QED
      BY <1>1, <1>2, <2>2, <2>3 DEF Counting, Uses, Inserts
  <1>6. ASSUME NEW c \in Coupon
        PROVE  /\ Cardinality(Counting(c)) \in Nat /\ Cardinality(Uses(c)) \in Nat
               /\ Cardinality(Counting(c)') =
                    IF c = k THEN Cardinality(Counting(c)) + 1 ELSE Cardinality(Counting(c))
               /\ Cardinality(Uses(c)') =
                    IF c = k THEN Cardinality(Uses(c)) + 1 ELSE Cardinality(Uses(c))
    BY <1>5, CountsAreNumbers, FS_AddElement
  <1>7. UsesAreBooked'
    <2>1. \A c \in Coupon : coupons[c].used_count \in Nat
      BY DEF IndInv, TypeOK, CouponTypeOK, CouponRow
    <2>2. QED
      BY <1>2, <1>6, <2>1 DEF CountInv, UsesAreBooked
  <1>8. ReadsLeaveRoom'
    <2> SUFFICES ASSUME NEW q \in Req, req'[q].pc = "counting",
                        NEW c \in Coupon, c = req'[q].coupon
                 PROVE  req'[q].read + Cardinality(Counting(c)') <= Cardinality(Uses(c)')
      BY DEF ReadsLeaveRoom, IndInv, RequestsWellFormed
    <2>1. req'[q] = req[q] /\ req[q].read \in Nat
      BY <1>2, <1>3 DEF IndInv, TypeOK, Request, Idle
    <2>2. req[q].read + Cardinality(Counting(c)) <= Cardinality(Uses(c))
      BY <2>1 DEF CountInv, ReadsLeaveRoom
    <2>3. QED
      BY <1>6, <2>1, <2>2
  <1>9. QED
    BY <1>7, <1>8 DEF CountInv

(* Counting a use writes one more than was read, and leaves one use less   *)
(* to be counted: what was read left room for it.                          *)
LEMMA IncrementCounts ==
  ASSUME IsFiniteSet(Booking), IsFiniteSet(Req), IndInv, CountInv, IndInv',
         NEW r \in Req, IncrementUsage(r), RowStillThere(r)
  PROVE  CountInv'
  <1> DEFINE k == req[r].coupon
  <1>1. /\ req[r] \in Request /\ req[r].pc = "counting" /\ k \in Coupon
        /\ req[r].read \in Nat
    BY DEF IncrementUsage, IndInv, TypeOK, RequestsWellFormed, Request, Idle
  <1>2. /\ coupons' = [coupons EXCEPT ![k].used_count = req[r].read + 1]
        /\ Goto(r, "committed") /\ UNCHANGED bookings
    BY DEF IncrementUsage, WriteUsedCount
  <1>3. /\ \A q \in Req : q # r => req'[q] = req[q]
        /\ req'[r] = [req[r] EXCEPT !.pc = "committed"]
    <2>1. req[r] # Idle /\ "committed" \in Phases
      BY <1>1 DEF Idle, Phases
    <2>2. QED
      BY <1>2, <2>1, GotoTyped DEF IndInv
  <1>4. req'[r].pc = "committed"
    BY <1>1, <1>3 DEF Request
  <1>5. /\ \A c \in Coupon : coupons[c].used_count \in Nat
        /\ \A c \in Coupon : coupons'[c].used_count =
                IF c = k THEN req[r].read + 1 ELSE coupons[c].used_count
    BY <1>1, <1>2 DEF IndInv, TypeOK, CouponTypeOK, CouponRow
  <1>6. ASSUME NEW c \in Coupon
        PROVE  /\ Cardinality(Counting(c)) \in Nat /\ Cardinality(Uses(c)) \in Nat
               /\ Cardinality(Counting(c)') =
                    IF c = k THEN Cardinality(Counting(c)) - 1 ELSE Cardinality(Counting(c))
               /\ Cardinality(Uses(c)') = Cardinality(Uses(c))
    <2>1. Counting(c)' = IF c = k THEN Counting(c) \ {r} ELSE Counting(c)
      BY <1>1, <1>3, <1>4 DEF Counting
    <2>2. c = k => r \in Counting(c)
      BY <1>1 DEF Counting
    <2>3. Uses(c)' = Uses(c)
      BY <1>2 DEF Uses, Exists
    <2>4. QED
      BY <2>1, <2>2, <2>3, CountsAreNumbers, FS_RemoveElement
  <1>7. req[r].read + Cardinality(Counting(k)) <= Cardinality(Uses(k))
    BY <1>1 DEF CountInv, ReadsLeaveRoom
  <1>8. UsesAreBooked'
    BY <1>1, <1>5, <1>6, <1>7 DEF CountInv, UsesAreBooked
  <1>9. ReadsLeaveRoom'
    <2> SUFFICES ASSUME NEW q \in Req, req'[q].pc = "counting",
                        NEW c \in Coupon, c = req'[q].coupon
                 PROVE  req'[q].read + Cardinality(Counting(c)') <= Cardinality(Uses(c)')
      BY DEF ReadsLeaveRoom, IndInv, RequestsWellFormed
    <2>1. req'[q] = req[q] /\ req[q].read \in Nat
      BY <1>3, <1>4 DEF IndInv, TypeOK, Request, Idle
    <2>2. req[q].read + Cardinality(Counting(c)) <= Cardinality(Uses(c))
      BY <2>1 DEF CountInv, ReadsLeaveRoom
    <2>3. QED
      BY <1>6, <2>1, <2>2
  <1>10. QED
    BY <1>8, <1>9 DEF CountInv

(* What the other steps do to the requests that have a use to count.       *)
LEMMA OthersCount ==
  ASSUME IndInv, IndInv', [Next]_vars,
         \A r \in Req : ~InsertBooking(r) /\ ~(IncrementUsage(r) /\ RowStillThere(r)),
         NEW q \in Req, req'[q].pc \in {"uncounted", "counting"}
  PROVE  /\ req[q].pc \in {"uncounted", "counting"} /\ req'[q].coupon = req[q].coupon
         /\ req'[q].pc = "counting" =>
              \/ req[q].pc = "counting" /\ req'[q].read = req[q].read
              \/ req'[q].read = coupons[req[q].coupon].used_count
  <1>0. req[q] \in Request /\ req'[q].pc \in PastCommit
    BY PastCommitBefore DEF PastCommit
  <1>1. CASE req'[q] = req[q]
    BY <1>1
  <1>2. CASE ReadUsedCount(q) /\ CouponPresent(req[q].coupon)
    BY <1>0, <1>2 DEF ReadUsedCount, Goto, IndInv, TypeOK, Request
  <1>3. req'[q] = req[q] \/ (ReadUsedCount(q) /\ CouponPresent(req[q].coupon))
    <2>0. req \in [Req -> Request \cup {Idle}]
      BY DEF IndInv, TypeOK
    <2>1. CASE UNCHANGED req
      BY <2>1
    <2>2. CASE ~UNCHANGED req
      <3>1. PICK r \in Req : \/ ReceiveCreate(r) \/ AcquireLock(r) \/ LoadBooking(r)
                             \/ Proceed(r) \/ Fail(r)
        BY <2>2 DEF Next, vars
      <3>2. \A p \in Req : p # r => req'[p] = req[p]
        BY <2>0, <3>1 DEF Proceed, ReceiveCreate, AcquireLock, FindConflict, ValidateCoupon,
             InsertBooking, ReadUsedCount, IncrementUsage, CommitTransition, LoadBooking,
             Emit, Fail, Goto, Finish
      <3>3. CASE q = r
        <4>1. ASSUME NEW pc \in Phases, Goto(q, pc) PROVE req'[q].pc = pc
          <5>1. req[q] # Idle
            BY <1>0 DEF Idle, Request, Phases
          <5>2. req'[q] = [req[q] EXCEPT !.pc = pc]
            BY <4>1, <5>1, GotoTyped DEF IndInv
          <5>3. QED
            BY <1>0, <5>2 DEF Request
        <4>2. ~Finish(q)
          BY <2>0 DEF Finish, Idle
        <4>3. \A pc \in Phases \ {"uncounted", "counting"} : ~Goto(q, pc)
          BY <4>1
        <4>4. /\ "checked" \in Phases \ {"uncounted", "counting"}
              /\ "locked" \in Phases \ {"uncounted", "counting"}
              /\ "priced" \in Phases \ {"uncounted", "counting"}
              /\ "committed" \in Phases \ {"uncounted", "counting"}
          BY DEF Phases
        <4>5. ~ReceiveCreate(q) /\ ~LoadBooking(q) /\ ~Emit(q) /\ ~Fail(q)
          BY <2>0, <4>2 DEF ReceiveCreate, LoadBooking, Emit, Fail
        <4>6. ~AcquireLock(q) /\ ~FindConflict(q) /\ ~CommitTransition(q)
          BY <4>2, <4>3, <4>4 DEF AcquireLock, FindConflict, CommitTransition
        <4>7. ~ValidateCoupon(q)
          <5>1. req' # [req EXCEPT ![q].pc = "priced", ![q].coupon = NULL]
            BY <1>0, <2>0 DEF Request
          <5>2. QED
            BY <4>3, <4>4, <5>1 DEF ValidateCoupon
        <4>8. ~IncrementUsage(q)
          BY <4>2 DEF IncrementUsage
        <4>9. ReadUsedCount(q)
          BY <3>1, <3>3, <4>5, <4>6, <4>7, <4>8 DEF Proceed
        <4>10. QED
          BY <4>3, <4>4, <4>9 DEF ReadUsedCount
      <3>4. QED
        BY <3>2, <3>3
    <2>3. QED
      BY <2>1, <2>2
  <1>4. QED
    BY <1>1, <1>2, <1>3

(* Counters move by a counted use, or start again with a new row.          *)
LEMMA CountersOnlyDrop ==
  ASSUME IndInv, [Next]_vars,
         \A r \in Req : ~(IncrementUsage(r) /\ RowStillThere(r)),
         NEW c \in Coupon
  PROVE  coupons'[c].used_count <= coupons[c].used_count
  <1>1. coupons \in [Coupon -> CouponRow]
    BY DEF IndInv, TypeOK, CouponTypeOK
  <1>2. coupons[c].used_count \in Nat
    BY <1>1 DEF CouponRow
  <1>3. CASE UNCHANGED coupons
    BY <1>2, <1>3
  <1>4. ASSUME NEW d \in Coupon, CreateCoupon(d) \/ DeleteCoupon(d)
        PROVE  coupons'[c].used_count <= coupons[c].used_count
    BY <1>1, <1>2, <1>4 DEF CreateCoupon, DeleteCoupon, NoCoupon
  <1>5. ASSUME NEW d \in Coupon, UpdateCoupon(d)
        PROVE  coupons'[c].used_count <= coupons[c].used_count
    <2>1. PICK active \in BOOLEAN, limit \in Limits :
            coupons' = [coupons EXCEPT ![d].is_active = active, ![d].usage_limit = limit]
      BY <1>5 DEF UpdateCoupon
    <2>2. coupons'[c].used_count = coupons[c].used_count
      BY <1>1, <2>1 DEF CouponRow
    <2>3. QED
      BY <1>2, <2>2
  <1>6. QED
    BY <1>3, <1>4, <1>5
       DEF Next, Proceed, vars, CouponAdmin, ReceiveCreate, AcquireLock, FindConflict,
           ValidateCoupon, InsertBooking, ReadUsedCount, IncrementUsage, CommitTransition,
           LoadBooking, Emit, Fail

LEMMA UsesStay ==
  ASSUME IndInv, [Next]_vars, \A r \in Req : ~InsertBooking(r), NEW c \in Coupon
  PROVE  Uses(c)' = Uses(c)
  <1>1. CASE \A r \in Req : ~CommitTransition(r)
    BY <1>1, OnlyTwoWriteBookings DEF Uses, Exists
  <1>2. ASSUME NEW r \in Req, CommitTransition(r) PROVE Uses(c)' = Uses(c)
    <2> DEFINE b == req[r].booking
    <2>1. /\ b \in Booking /\ Exists(b) /\ req[r].op \in TransitionOps
          /\ bookings'[b].status = req[r].op
          /\ \A d \in Booking : d # b => bookings'[d] = bookings[d]
      BY <1>2, TransitionWrites
    <2>2. bookings \in [Booking -> Row \cup {NoRow}] /\ bookings[b] \in Row
      BY <2>1 DEF IndInv, TypeOK, BookingTableTypeOK, Exists, NoRow
    <2>3. bookings'[b].discount = bookings[b].discount
      <3>1. CASE UpdateStatus(b, req[r].op, req[r].read + 1)
        BY <2>1, <2>2, <3>1 DEF UpdateStatus, Row
      <3>2. ASSUME NEW refund \in RefundAmount, UpdateCancelled(b, refund, req[r].read + 1)
            PROVE  bookings'[b].discount = bookings[b].discount
        BY <2>1, <2>2, <3>2 DEF UpdateCancelled, Row
      <3>3. QED
        BY <1>2, <3>1, <3>2 DEF CommitTransition
    <2>4. QED
      BY <2>1, <2>3 DEF Uses, Exists, TransitionOps
  <1>3. QED
    BY <1>1, <1>2

LEMMA CountStep ==
  ASSUME IsFiniteSet(Booking), IsFiniteSet(Req)
  PROVE  IndInv /\ CountInv /\ [Next]_vars => CountInv'
  <1> SUFFICES ASSUME IndInv, CountInv, [Next]_vars PROVE CountInv'
    OBVIOUS
  <1>1. IndInv'
    BY IndInvStep
  <1>2. ASSUME NEW r \in Req, InsertBooking(r) PROVE CountInv'
    BY <1>1, <1>2, InsertCounts
  <1>3. ASSUME NEW r \in Req, IncrementUsage(r) /\ RowStillThere(r) PROVE CountInv'
    BY <1>1, <1>3, IncrementCounts
  <1>4. CASE \A r \in Req : ~InsertBooking(r) /\ ~(IncrementUsage(r) /\ RowStillThere(r))
    <2>1. \A c \in Coupon : Counting(c)' \subseteq Counting(c)
      BY <1>1, <1>4, OthersCount DEF Counting
    <2>2. \A r \in Req : req'[r].pc = "counting" =>
            /\ req'[r].coupon = req[r].coupon
            /\ \/ req[r].pc = "counting" /\ req'[r].read = req[r].read
               \/ req'[r].read = coupons[req[r].coupon].used_count
      BY <1>1, <1>4, OthersCount
    <2>3. \A c \in Coupon : /\ Uses(c)' = Uses(c)
                           /\ coupons'[c].used_count <= coupons[c].used_count
      BY <1>4, UsesStay, CountersOnlyDrop
    <2>4. QED
      BY <1>1, <2>1, <2>2, <2>3, NothingCounted
  <1>5. QED
    BY <1>2, <1>3, <1>4

(***************************************************************************)
(* However many checkouts count their uses at once, and however often the  *)
(* admin deletes and creates a code, no more uses of it are counted than   *)
(* bookings were made with it.                                             *)
(***************************************************************************)
THEOREM CountedUsesAreBooked ==
  ASSUME IsFiniteSet(Booking), IsFiniteSet(Req)
  PROVE  Spec => []NoCouponUseWithoutBooking
  <1>1. Init => CountInv
    <2> SUFFICES ASSUME Init PROVE CountInv
      OBVIOUS
    <2>1. \A r \in Req : req[r].pc = "idle"
      BY DEF Init, Idle
    <2>2. ASSUME NEW c \in Coupon
          PROVE  coupons[c].used_count + Cardinality(Counting(c)) <= Cardinality(Uses(c))
      <3>1. coupons[c].used_count = 0
        BY DEF Init, CouponInit, NoCoupon
      <3>2. Counting(c) = {} /\ Uses(c) = {}
        BY <2>1 DEF Counting, Uses, Init, BookingTableInit, NoRow, Exists
      <3>3. QED
        BY <3>1, <3>2, FS_EmptySet
    <2>3. QED
      BY <2>1, <2>2 DEF CountInv, UsesAreBooked, ReadsLeaveRoom
  <1>2. IndInv /\ CountInv => NoCouponUseWithoutBooking
    <2> SUFFICES ASSUME IndInv, CountInv, NEW c \in Coupon
                 PROVE  coupons[c].used_count <= Cardinality(Uses(c))
      BY DEF NoCouponUseWithoutBooking, Uses
    <2>1. coupons[c].used_count \in Nat
      BY DEF IndInv, TypeOK, CouponTypeOK, CouponRow
    <2>2. Cardinality(Counting(c)) \in Nat /\ Cardinality(Uses(c)) \in Nat
      BY CountsAreNumbers
    <2>3. QED
      BY <2>1, <2>2 DEF CountInv, UsesAreBooked
  <1>3. QED
    BY <1>1, <1>2, CountStep, BookingInvariant, PTL DEF Spec

=============================================================================
