---------------------------- MODULE BookingTable ----------------------------
(***************************************************************************)
(* The bookings table (app/bookings/models.py) and the overlap query every *)
(* writer runs on it (app/bookings/conflict_checker.py).                   *)
(*                                                                         *)
(* PostgreSQL runs at READ COMMITTED: a SELECT sees what is committed when *)
(* it runs, and an UPDATE issued by the ORM writes literal values that were *)
(* computed from an earlier SELECT, to the changed columns only.  A step   *)
(* of a handler is therefore either one read of these variables or one     *)
(* commit that changes them.                                               *)
(***************************************************************************)
EXTENDS Naturals, BookingStateMachine

CONSTANTS Booking,       \* primary keys the database may hand out
          Day,           \* (turf_id, booking_date) pairs: the lock's scope
          Time,          \* times of day
          Coupon,        \* coupon codes of the tenant
          RefundAmount,  \* what _compute_refund may return
          NULL           \* SQL NULL

ASSUME TimeAssumption == Time \subseteq Nat
ASSUME NullAssumption == /\ NULL \notin Coupon
                         /\ NULL \notin RefundAmount

VARIABLES bookings,  \* the rows, by primary key
          held       \* history: the statuses each row has ever held

TimeRange == [day : Day, start_time : Time, end_time : Time]

(* What a booking request may ask for.  A row may hold any range: those of *)
(* a subscription end before they start if they reach midnight.            *)
Slot == {s \in TimeRange : s.start_time < s.end_time}

NoRow == [status |-> "absent"]

(* cancelled_at is kept as "is it set"; discount is the coupon whose       *)
(* discount is part of discount_amount.                                    *)
Row == [status : Statuses, slot : TimeRange, discount : Coupon \cup {NULL},
        cancelled_at : BOOLEAN, refund_amount : RefundAmount \cup {NULL},
        version : Nat]

Exists(b) == bookings[b].status # "absent"

IsLive(b) == bookings[b].status \in LiveStatuses

Overlap(s, t) == /\ s.day = t.day
                 /\ s.start_time < t.end_time
                 /\ s.end_time > t.start_time

(* Mutant: a pending booking does not block.                               *)
ConflictsConfirmedOnly(slot) ==
  {b \in Booking : bookings[b].status = "confirmed" /\ Overlap(bookings[b].slot, slot)}

(* find_conflict: the live bookings on the slot's turf and date whose time *)
(* range intersects the slot's.  The callers only ask whether it is empty. *)
Conflicts(slot) == {b \in Booking : IsLive(b) /\ Overlap(bookings[b].slot, slot)}

(* INSERT of a new row: defaults of the model, committed with it.          *)
InsertRow(b, status, slot, discount) ==
  /\ ~Exists(b)
  /\ bookings' = [bookings EXCEPT ![b] =
                    [status |-> status, slot |-> slot, discount |-> discount,
                     cancelled_at |-> FALSE, refund_amount |-> NULL,
                     version |-> 1]]
  /\ held' = [held EXCEPT ![b] = {status}]

(* Mutant: the UPDATE writes every column, as a merge of a fresh object.   *)
UpdateWholeRow(b, status, version) ==
  /\ bookings' = [bookings EXCEPT ![b].status = status, ![b].version = version,
                                  ![b].cancelled_at = FALSE,
                                  ![b].refund_amount = NULL]
  /\ held' = [held EXCEPT ![b] = @ \cup {status}]

(* UPDATE bookings SET status, version WHERE id = b, with values computed  *)
(* from what the session read: nothing compares the row's version.         *)
UpdateStatus(b, status, version) ==
  /\ bookings' = [bookings EXCEPT ![b].status = status, ![b].version = version]
  /\ held' = [held EXCEPT ![b] = @ \cup {status}]

(* The UPDATE of cancel_booking, which sets three more columns.            *)
UpdateCancelled(b, refund, version) ==
  /\ bookings' = [bookings EXCEPT ![b].status = "cancelled",
                                  ![b].cancelled_at = TRUE,
                                  ![b].refund_amount = refund,
                                  ![b].version = version]
  /\ held' = [held EXCEPT ![b] = @ \cup {"cancelled"}]

BookingTableInit ==
  /\ bookings = [b \in Booking |-> NoRow]
  /\ held = [b \in Booking |-> {}]

BookingTableTypeOK ==
  /\ bookings \in [Booking -> Row \cup {NoRow}]
  /\ held \in [Booking -> SUBSET Statuses]

(* A row that once left the live statuses; its slot was free meanwhile.    *)
EverReleased(b) == held[b] \ LiveStatuses # {}

=============================================================================
