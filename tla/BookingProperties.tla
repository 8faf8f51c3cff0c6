------------------------- MODULE BookingProperties -------------------------
(***************************************************************************)
(* What the requests of BookingService keep true together, whatever the    *)
(* order of their steps and whichever of them fail.                        *)
(***************************************************************************)
EXTENDS BookingService, FiniteSets

(* Types of the tables, of the requests in flight and of the lock.         *)
TypeOK ==
  /\ BookingTableTypeOK /\ CouponTypeOK /\ PaymentTableTypeOK
  /\ req \in [Req -> Request \cup {Idle}]
  /\ lock \in [Day -> Req \cup {NULL}]

(***************************************************************************)
(* Two live bookings of a turf overlap only if one of them was revived: a  *)
(* stale "confirmed" was written over a row that had already left the live *)
(* statuses.  In particular no two creations can ever produce a double     *)
(* booking on their own: that is what the advisory lock is for.            *)
(***************************************************************************)
OverlapOnlyIfRevived ==
  \A b, c \in Booking :
    b # c /\ IsLive(b) /\ IsLive(c) /\ Overlap(bookings[b].slot, bookings[c].slot)
      => EverReleased(b) \/ EverReleased(c)

(***************************************************************************)
(* Every creation between its lock and its commit holds the lock of its    *)
(* own day, so that at most one per day is there (the lock has one owner). *)
(***************************************************************************)
CreationsHoldLock ==
  \A r \in Req : HoldsLock(r) => lock[req[r].slot.day] = r

(***************************************************************************)
(* Nobody else owns a lock: one whose request is over (returned, failed,   *)
(* refused) would close the day to every later booking.                    *)
(***************************************************************************)
LockHasLiveOwner ==
  \A d \in Day : lock[d] # NULL =>
    HoldsLock(lock[d]) /\ req[lock[d]].slot.day = d

(***************************************************************************)
(* What the conflict check found stays true until the booking is inserted: *)
(* no other creation can take the slot meanwhile.  The only live bookings  *)
(* that may appear in it are revived ones, which take no lock.             *)
(***************************************************************************)
CheckedStaysClear ==
  \A r \in Req : req[r].pc \in {"checked", "priced"} =>
    \A b \in Conflicts(req[r].slot) : EverReleased(b)

(***************************************************************************)
(* A transition in flight was legal for a status the booking has held,     *)
(* though perhaps no longer for the one it holds now.                      *)
(***************************************************************************)
LoadedWasLegal ==
  \A r \in Req : req[r].pc = "loaded" =>
    /\ Exists(req[r].booking)
    /\ \E s \in held[req[r].booking] : MayTransition(s, req[r].op)

(* The fields that each phase of a request relies on are filled in.        *)
RequestsWellFormed ==
  /\ \A r \in Req :
       /\ req[r].pc \in {"waiting", "locked", "checked", "priced"}
            => req[r].slot \in Slot /\ req[r].op \in CreateOps
       /\ req[r].pc \in {"uncounted", "counting"} => req[r].coupon \in Coupon
       /\ req[r].pc = "loaded" => req[r].op \in TransitionOps
  /\ \A b \in Booking : Exists(b) => bookings[b].status \in held[b]

(***************************************************************************)
(* The inductive invariant: what each request may rely on at each of its   *)
(* steps, given the lock.                                                  *)
(***************************************************************************)
IndInv == /\ TypeOK
          /\ RequestsWellFormed
          /\ CreationsHoldLock
          /\ LockHasLiveOwner
          /\ CheckedStaysClear
          /\ LoadedWasLegal

(***************************************************************************)
(* A booking that was ever completed or marked no-show was confirmed at    *)
(* some time, though the status the transition was checked against may     *)
(* have been overwritten by the time it is written.                        *)
(***************************************************************************)
FinishedWasConfirmed ==
  \A b \in Booking :
    held[b] \cap {"completed", "no_show"} # {} => "confirmed" \in held[b]

(***************************************************************************)
(* What cancelling writes stays with the booking: whatever stale write     *)
(* comes later, a booking that was ever cancelled still has its            *)
(* cancelled_at and its refund_amount, and no other one has.               *)
(***************************************************************************)
CancellationIsRecorded ==
  \A b \in Booking : Exists(b) =>
    /\ bookings[b].cancelled_at <=> "cancelled" \in held[b]
    /\ bookings[b].refund_amount # NULL <=> "cancelled" \in held[b]

(***************************************************************************)
(* A coupon is never charged for a booking that was not made: used_count   *)
(* is at most the number of bookings that carry its code's discount, also  *)
(* when the code was deleted and created again.  (It can be less: the two  *)
(* are committed separately.)                                              *)
(***************************************************************************)
NoCouponUseWithoutBooking ==
  \A c \in Coupon :
    coupons[c].used_count <=
      Cardinality({b \in Booking : Exists(b) /\ bookings[b].discount = c})

(***************************************************************************)
(* An event tells the truth: a request about to emit has committed what    *)
(* the event reports, so subscribers (mails, audit log) never hear of what *)
(* is rolled back, even when stale writes have changed the row since.      *)
(***************************************************************************)
Reported(event, b) ==
  CASE event = "booking.created"   -> "pending" \in held[b]
    [] event = "payment.success"   ->
         \E t \in Txn : txns[t].status = "success" /\ txns[t].booking = b
    [] event = "booking.confirmed" -> "confirmed" \in held[b]
    [] event = "booking.completed" -> "completed" \in held[b]
    [] event = "booking.no_show"   -> "no_show" \in held[b]
    [] event = "booking.cancelled" -> "cancelled" \in held[b]

EventsReportCommits ==
  \A r \in Req : req[r].pc = "committed" =>
    \A event \in EventsOf(req[r].op) : Reported(event, req[r].booking)

-----------------------------------------------------------------------------
(* The abstract ledger this component implements: every step is one of its *)
(* steps or leaves it alone.                                               *)
Ledger == INSTANCE SlotLedger WITH
  Overlapping <- {p \in Slot \X Slot : Overlap(p[1], p[2])},
  NoSlot <- NULL,
  status <- [b \in Booking |-> bookings[b].status],
  slot <- [b \in Booking |-> IF Exists(b) THEN bookings[b].slot ELSE NULL],
  held <- held

(***************************************************************************)
(* BookingService implements SlotLedger: a reservation, spread over lock,  *)
(* check, pricing and commit, is atomic; a status write is a move that the *)
(* state machine allows from a status the booking has held.                *)
(***************************************************************************)
ImplementsLedger == Ledger!Spec

(***************************************************************************)
(* A creation that waits for the lock is answered: nobody keeps the lock   *)
(* of a day for ever, and no two requests wait for each other.             *)
(***************************************************************************)
WaitersAreServed == \A r \in Req : req[r].pc = "waiting" ~> req[r] = Idle

-----------------------------------------------------------------------------
(* What the repository says of the program and the code does not do.       *)

(***************************************************************************)
(* README.md:120: "Advisory Locking ... prevents double-booking".          *)
(***************************************************************************)
NoDoubleBooking ==
  \A b, c \in Booking :
    b # c /\ IsLive(b) /\ IsLive(c)
      => ~Overlap(bookings[b].slot, bookings[c].slot)

=============================================================================
