------------------------ MODULE BookingStateMachine ------------------------
(***************************************************************************)
(* app/bookings/state_machine.py: the status graph of a booking and the    *)
(* check every service makes before it assigns booking.status.             *)
(***************************************************************************)

Statuses == {"pending", "confirmed", "completed", "no_show", "cancelled",
             "refund_pending", "refunded"}

(* Mutant: the graph lets a pending booking be completed.                  *)
TransitionsSkippingConfirm ==
  [s \in Statuses |->
     CASE s = "pending"        -> {"confirmed", "cancelled", "completed"}
       [] s = "confirmed"      -> {"completed", "cancelled", "no_show"}
       [] s = "cancelled"      -> {"refund_pending"}
       [] s = "refund_pending" -> {"refunded"}
       [] OTHER                -> {}]

TRANSITIONS ==
  [s \in Statuses |->
     CASE s = "pending"        -> {"confirmed", "cancelled"}
       [] s = "confirmed"      -> {"completed", "cancelled", "no_show"}
       [] s = "cancelled"      -> {"refund_pending"}
       [] s = "refund_pending" -> {"refunded"}
       [] OTHER                -> {}]

(* validate_transition raises InvalidStateTransitionError when this is     *)
(* false; .get(current, set()) gives no targets to an unknown status.      *)
MayTransition(current, target) ==
  current \in Statuses /\ target \in TRANSITIONS[current]

(* The statuses for which the conflict checker says the slot is taken.     *)
LiveStatuses == {"pending", "confirmed"}

=============================================================================
