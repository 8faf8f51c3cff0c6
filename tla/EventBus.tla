------------------------------ MODULE EventBus ------------------------------
(***************************************************************************)
(* app/core/event_bus.py and event_handlers.py: which handlers an event    *)
(* starts.  Emitting creates one in-memory task per handler and returns;   *)
(* a task is isolated from the others and from the request, runs once, and *)
(* is gone with its process: nothing stores or repeats it.                 *)
(***************************************************************************)

(* register_all_handlers: booking.confirmed mails nobody, and the          *)
(* subscription.* events and booking.updated have no handler.              *)
Handlers(event) ==
  CASE event = "booking.created" ->
         {"log_booking_created", "invalidate_availability_cache", "on_booking_created"}
    [] event = "booking.cancelled" ->
         {"log_booking_cancelled", "invalidate_availability_cache", "on_booking_cancelled"}
    [] event \in {"booking.confirmed", "booking.completed", "booking.no_show"} ->
         {"invalidate_availability_cache"}
    [] event = "payment.success" ->
         {"log_payment_success", "activate_subscription_on_payment", "on_payment_success"}
    [] event = "payment.rejected" -> {"on_payment_rejected"}
    [] event = "payment.failed" -> {"on_payment_failed"}
    [] event = "payment.refunded" -> {"log_payment_refunded"}
    [] event = "team.member_added" -> {"on_team_member_added"}
    [] event = "team.invitation_sent" -> {"on_team_invitation"}
    [] event = "tournament.registered" -> {"on_tournament_registered"}
    [] OTHER -> {}

Starts(event, handler) == handler \in Handlers(event)

=============================================================================
