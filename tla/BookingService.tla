--------------------------- MODULE BookingService ---------------------------
(***************************************************************************)
(* app/bookings/service.py: the requests that create a booking, cancel it  *)
(* or move it along its status graph, run by several server processes on   *)
(* one PostgreSQL database.                                                *)
(*                                                                         *)
(* A request is a sequence of steps separated by awaits; between two of    *)
(* them every other request may run.  Each step is one read of committed   *)
(* data or one COMMIT.  Early returns that change nothing and send nothing *)
(* (no phone on the profile, an override without a reason, not the owner,  *)
(* no such booking) are requests that never start.                         *)
(***************************************************************************)
EXTENDS CouponService, PaymentTable

CONSTANT Req  \* requests in flight at once: server processes times tasks

ASSUME RequestAssumption == NULL \notin Req

VARIABLES req,     \* what each request is doing and what it has read
          lock     \* pg_advisory_xact_lock, by turf and date

vars == <<bookings, held, coupons, txns, req, lock>>

CreateOps == {"create", "manual"}
TransitionOps == {"confirmed", "completed", "no_show", "cancelled"}

Idle == [pc |-> "idle"]

(* "waiting" for the lock, then holding it: "locked", "checked" (no        *)
(* conflict found), "priced"; after the commit: "uncounted", "counting",   *)
(* "committed".  A transition is "loaded" between its read and its COMMIT. *)
(* read is the version, or the used_count, that the session last read, and *)
(* row the coupon row it read it from.                                     *)
Phases == {"waiting", "locked", "checked", "priced", "uncounted", "counting",
           "committed", "loaded"}

Request == [pc : Phases, op : CreateOps \cup TransitionOps,
            slot : Slot \cup {NULL}, coupon : Coupon \cup {NULL},
            booking : Booking, read : Nat, row : Nat]

HoldsLock(r) == req[r].pc \in {"locked", "checked", "priced"}

Goto(r, pc) == req' = [req EXCEPT ![r].pc = pc]
Finish(r) == req' = [req EXCEPT ![r] = Idle]

(* The lock is the transaction's: COMMIT and ROLLBACK release it.          *)
Release(r) == lock' = [d \in Day |-> IF lock[d] = r THEN NULL ELSE lock[d]]

-----------------------------------------------------------------------------
(* create_booking and create_manual_booking                                *)

(* A primary key is a fresh UUID.                                          *)
FreshKey(b) == ~Exists(b) /\ \A q \in Req : req[q] # Idle => req[q].booking # b

(* The request has passed its field checks and asks for the advisory lock. *)
ReceiveCreate(r) ==
  /\ req[r] = Idle
  /\ \E op \in CreateOps, slot \in Slot, coupon \in Coupon \cup {NULL},
        b \in Booking :
       /\ FreshKey(b)
       /\ req' = [req EXCEPT ![r] = [pc |-> "waiting", op |-> op, slot |-> slot,
                                     coupon |-> coupon, booking |-> b,
                                     read |-> 0, row |-> 0]]
  /\ UNCHANGED <<bookings, held, coupons, txns, lock>>

(* Mutant: the lock is asked for, but not waited for (a "try" lock whose   *)
(* answer is ignored).                                                     *)
AcquireWithoutWaiting(r) ==
  /\ req[r].pc = "waiting"
  /\ lock' = [lock EXCEPT ![req[r].slot.day] = r]
  /\ Goto(r, "locked")
  /\ UNCHANGED <<bookings, held, coupons, txns>>

AcquireLock(r) ==
  /\ req[r].pc = "waiting"
  /\ lock[req[r].slot.day] = NULL
  /\ lock' = [lock EXCEPT ![req[r].slot.day] = r]
  /\ Goto(r, "locked")
  /\ UNCHANGED <<bookings, held, coupons, txns>>

(* Mutant: a session lock, which the rollback of a conflict keeps.         *)
ConflictKeepsLock(r) ==
  /\ req[r].pc = "locked"
  /\ \/ Conflicts(req[r].slot) = {} /\ Goto(r, "checked")
     \/ Conflicts(req[r].slot) # {} /\ Finish(r)
  /\ UNCHANGED <<bookings, held, coupons, txns, lock>>

(* No conflict: go on.  A conflict raises BookingConflictError, and the    *)
(* session's rollback gives the lock back.                                 *)
FindConflict(r) ==
  /\ req[r].pc = "locked"
  /\ \/ /\ Conflicts(req[r].slot) = {}
        /\ Goto(r, "checked")
        /\ UNCHANGED lock
     \/ /\ Conflicts(req[r].slot) # {}
        /\ Finish(r)
        /\ Release(r)
  /\ UNCHANGED <<bookings, held, coupons, txns>>

(* Mutants: validating a code commits, which gives the lock back early; it *)
(* counts the use before the booking exists.                               *)
ValidateCommits(r) ==
  /\ req[r].pc = "checked"
  /\ Goto(r, "priced")
  /\ Release(r)
  /\ UNCHANGED <<bookings, held, coupons, txns>>
ValidateCounts(r) ==
  /\ req[r].pc = "checked"
  /\ \/ /\ req[r].coupon # NULL /\ Redeemable(req[r].coupon)
        /\ WriteUsedCount(req[r].coupon, coupons[req[r].coupon].used_count)
        /\ Goto(r, "priced")
     \/ /\ req' = [req EXCEPT ![r].pc = "priced", ![r].coupon = NULL]
        /\ UNCHANGED coupons
  /\ UNCHANGED <<bookings, held, txns, lock>>

(* A code that is refused, for whatever reason, is dropped and the booking *)
(* goes on without a discount.                                             *)
ValidateCoupon(r) ==
  /\ req[r].pc = "checked"
  /\ \/ /\ req[r].coupon # NULL /\ Redeemable(req[r].coupon)
        /\ Goto(r, "priced")
     \/ req' = [req EXCEPT ![r].pc = "priced", ![r].coupon = NULL]
  /\ UNCHANGED <<bookings, held, coupons, txns, lock>>

(* INSERT and COMMIT.  A manual booking is confirmed at once, in the same  *)
(* transaction as the record of its offline payment.                       *)
InsertBooking(r) ==
  /\ req[r].pc = "priced"
  /\ \/ /\ req[r].op = "create"
        /\ InsertRow(req[r].booking, "pending", req[r].slot, req[r].coupon)
        /\ UNCHANGED txns
     \/ /\ req[r].op = "manual"
        /\ InsertRow(req[r].booking, "confirmed", req[r].slot, req[r].coupon)
        /\ \E t \in Txn : InsertTxn(t, req[r].booking, "manual", "success")
  /\ Goto(r, IF req[r].coupon = NULL THEN "committed" ELSE "uncounted")
  /\ Release(r)
  /\ UNCHANGED coupons

(* increment_usage in a second transaction, no longer under the lock: a    *)
(* SELECT by code (nothing to do if no row has it) ...                     *)
ReadUsedCount(r) ==
  /\ req[r].pc = "uncounted"
  /\ \/ /\ CouponPresent(req[r].coupon)
        /\ req' = [req EXCEPT ![r].pc = "counting",
                              ![r].read = coupons[req[r].coupon].used_count,
                              ![r].row = coupons[req[r].coupon].row]
     \/ /\ ~CouponPresent(req[r].coupon)
        /\ Goto(r, "committed")
  /\ UNCHANGED <<bookings, held, coupons, txns, lock>>

(* ... and an UPDATE by key, which fails the request if the row has gone.  *)
RowStillThere(r) == /\ CouponPresent(req[r].coupon)
                    /\ coupons[req[r].coupon].row = req[r].row

IncrementUsage(r) ==
  /\ req[r].pc = "counting"
  /\ \/ /\ RowStillThere(r)
        /\ WriteUsedCount(req[r].coupon, req[r].read)
        /\ Goto(r, "committed")
     \/ /\ ~RowStillThere(r)
        /\ Finish(r)
        /\ UNCHANGED coupons
  /\ UNCHANGED <<bookings, held, txns, lock>>

-----------------------------------------------------------------------------
(* cancel_booking and transition_status                                    *)

(* Read the booking; validate_transition on the status read.               *)
LoadBooking(r) ==
  /\ req[r] = Idle
  /\ \E b \in Booking, target \in TransitionOps :
       /\ MayTransition(bookings[b].status, target)
       /\ req' = [req EXCEPT ![r] = [pc |-> "loaded", op |-> target,
                                     slot |-> NULL, coupon |-> NULL,
                                     booking |-> b,
                                     read |-> bookings[b].version,
                                     row |-> 0]]
  /\ UNCHANGED <<bookings, held, coupons, txns, lock>>

(* Mutant: the handler forgets to commit.                                  *)
ForgetCommit(r) ==
  /\ req[r].pc = "loaded"
  /\ Goto(r, "committed")
  /\ UNCHANGED <<bookings, held, coupons, txns, lock>>

(* UPDATE and COMMIT, whatever the row holds by now.                       *)
CommitTransition(r) ==
  /\ req[r].pc = "loaded"
  /\ \/ /\ req[r].op # "cancelled"
        /\ UpdateStatus(req[r].booking, req[r].op, req[r].read + 1)
     \/ /\ req[r].op = "cancelled"
        /\ \E refund \in RefundAmount :
             UpdateCancelled(req[r].booking, refund, req[r].read + 1)
  /\ Goto(r, "committed")
  /\ UNCHANGED <<coupons, txns, lock>>

-----------------------------------------------------------------------------
(* What an operation tells the event bus once it has committed.  The       *)
(* handlers of these events (mails, audit log, cache) change no table, so  *)
(* here emitting them is the request's last step and nothing more.         *)
EventsOf(op) ==
  CASE op = "create"    -> {"booking.created"}
    [] op = "manual"    -> {"payment.success", "booking.confirmed"}
    [] op = "confirmed" -> {"booking.confirmed"}
    [] op = "completed" -> {"booking.completed"}
    [] op = "no_show"   -> {"booking.no_show"}
    [] op = "cancelled" -> {"booking.cancelled"}

Emit(r) ==
  /\ req[r].pc = "committed"
  /\ Finish(r)
  /\ UNCHANGED <<bookings, held, coupons, txns, lock>>

(* Mutant: a failed request leaves its lock behind.                        *)
FailKeepsLock(r) ==
  /\ req[r] # Idle
  /\ Finish(r)
  /\ UNCHANGED <<bookings, held, coupons, txns, lock>>

(* A request ends early: no slot rule, a database error, a timeout, or the *)
(* worker died.  What it had not committed is rolled back; what came after *)
(* the commit is lost.                                                     *)
Fail(r) ==
  /\ req[r] # Idle
  /\ Finish(r)
  /\ Release(r)
  /\ UNCHANGED <<bookings, held, coupons, txns>>

-----------------------------------------------------------------------------
Init ==
  /\ BookingTableInit /\ CouponInit /\ PaymentTableInit
  /\ req = [r \in Req |-> Idle]
  /\ lock = [d \in Day |-> NULL]

(* The steps a request takes once it has been received.                    *)
Proceed(r) ==
  \/ FindConflict(r) \/ ValidateCoupon(r) \/ InsertBooking(r)
  \/ ReadUsedCount(r) \/ IncrementUsage(r)
  \/ CommitTransition(r)
  \/ Emit(r)

Next ==
  \/ \E r \in Req : \/ ReceiveCreate(r) \/ AcquireLock(r)
                    \/ LoadBooking(r)
                    \/ Proceed(r) \/ Fail(r)
  \/ CouponAdmin /\ UNCHANGED <<bookings, held, txns, req, lock>>

Spec == Init /\ [][Next]_vars

(* Every statement of a running request is answered, and PostgreSQL queues *)
(* the waiters of an advisory lock first come first served, so a waiter    *)
(* does not lose it to later ones for ever.  Clients, administrators and   *)
(* failures owe nothing.                                                   *)
FairSpec == /\ Spec
            /\ \A r \in Req : WF_vars(Proceed(r)) /\ SF_vars(AcquireLock(r))

=============================================================================
