--------------------------- MODULE PaymentService ---------------------------
(***************************************************************************)
(* app/payments/service.py: paying a booking through the gateway (browser  *)
(* callback and webhooks) or by a UPI transfer that an administrator       *)
(* verifies, and refunding it.                                             *)
(*                                                                         *)
(* As in BookingService a request is a sequence of steps, each one read or *)
(* one COMMIT.  One thing is new: db.get(Booking) flushes the session, so  *)
(* the UPDATE of the payment row is sent, and its row locked, before the   *)
(* booking is read; others that update the same row wait for the COMMIT.   *)
(*                                                                         *)
(* The gateway is external.  It accepts or declines attempts to pay an     *)
(* order, and keeps sending webhooks: what it ever sent may arrive at any  *)
(* time, again, late, or never.                                            *)
(***************************************************************************)
EXTENDS PaymentTable

CONSTANTS Req,
          MaxVersion,        \* bound: status changes made by other requests
          MaxRefunds,        \* refunds that the captured amount covers
          OtherSlots,        \* bound: what bookings made by other requests take
          SecretConfigured   \* is settings.razorpay_key_secret set?

ASSUME PaymentAssumption == /\ NULL \notin Req /\ NULL \notin Booking
                            /\ NULL \notin Txn /\ NULL \notin Statuses
                            /\ OtherSlots \subseteq TimeRange

VARIABLES gateway,   \* the gateway: what happened to each order
          req,       \* what each request is doing and what it has read
          rowlock,   \* the lock of each payment row
          receipts   \* history: the payments whose payment.success was emitted

vars == <<bookings, held, txns, gateway, req, rowlock, receipts>>

Ops == {"initiate", "upi", "callback", "captured", "failed", "submit",
        "verify", "reject", "refund"}

Phases == {"ordering", "choosing", "opening", "succeeding", "flushed",
           "failing", "submitting", "refunding", "returned", "half refunded",
           "committed", "failed", "existing"}

Idle == [pc |-> "idle"]

(* loaded: the payment row as the session read it; seen and read: status   *)
(* and version of its booking; attempt: the gateway payment it is about.   *)
Request == [pc : Phases, op : Ops, txn : Txn \cup {NULL},
            loaded : TxnRow \cup {NoTxn}, booking : Booking \cup {NULL},
            seen : Statuses \cup {NULL}, read : Nat,
            attempt : Attempts \cup {NULL}]

StartFor(r, pc, op, b) ==
  /\ req[r] = Idle
  /\ req' = [req EXCEPT ![r] =
               [pc |-> pc, op |-> op, txn |-> NULL, loaded |-> NoTxn,
                booking |-> b, seen |-> NULL, read |-> 0, attempt |-> NULL]]

StartWith(r, pc, op, t, attempt) ==
  /\ req[r] = Idle
  /\ req' = [req EXCEPT ![r] =
               [pc |-> pc, op |-> op, txn |-> t, loaded |-> txns[t],
                booking |-> txns[t].booking, seen |-> NULL, read |-> 0,
                attempt |-> attempt]]

Goto(r, pc) == req' = [req EXCEPT ![r].pc = pc]
Finish(r) == req' = [req EXCEPT ![r] = Idle]

Open(t) == txns[t].status \in {"initiated", "processing"}

Unlocked(t) == rowlock[t] = NULL

Unlock(r) == rowlock' = [t \in Txn |-> IF rowlock[t] = r THEN NULL ELSE rowlock[t]]

(* UPDATE payment_transactions: the ORM sends the columns that differ from *)
(* what the session loaded, whatever the row holds by now.                 *)
UpdateTxn(r, status) ==
  txns' = [txns EXCEPT
             ![req[r].txn].status =
               IF status = req[r].loaded.status THEN @ ELSE status,
             ![req[r].txn].gateway_txn_id =
               IF req[r].attempt \in {NULL, req[r].loaded.gateway_txn_id}
                 THEN @ ELSE req[r].attempt]

-----------------------------------------------------------------------------
(* The gateway.                                                            *)

NoOrder == [declined |-> FALSE, accepted |-> "no", refunds |-> 0]

Order == [declined : BOOLEAN, accepted : {"no", "authorized", "captured"},
          refunds : Nat]

OrderPlaced(t) == TxnExists(t) /\ txns[t].gateway = "razorpay"

(* The customer tries to pay: declined (and may try again), or authorized, *)
(* then captured.                                                          *)
Gateway ==
  /\ \E t \in Txn :
       /\ OrderPlaced(t)
       /\ \/ /\ ~gateway[t].declined /\ gateway[t].accepted = "no"
             /\ gateway' = [gateway EXCEPT ![t].declined = TRUE]
          \/ /\ gateway[t].accepted = "no"
             /\ gateway' = [gateway EXCEPT ![t].accepted = "authorized"]
          \/ /\ gateway[t].accepted = "authorized"
             /\ gateway' = [gateway EXCEPT ![t].accepted = "captured"]
  /\ UNCHANGED <<bookings, held, txns, req, rowlock, receipts>>

Attempted(t, attempt) == IF attempt = "declined" THEN gateway[t].declined
                                                 ELSE gateway[t].accepted # "no"

-----------------------------------------------------------------------------
(* Starting a payment.                                                     *)

(* initiate_payment: the booking must be pending; an order is created at   *)
(* the gateway ...                                                         *)
InitiatePayment(r) ==
  /\ \E b \in Booking :
       /\ bookings[b].status = "pending"
       /\ StartFor(r, "ordering", "initiate", b)
  /\ UNCHANGED <<bookings, held, txns, gateway, rowlock, receipts>>

(* ... and a new transaction inserted, whatever others the booking has.    *)
InsertOrder(r) ==
  /\ req[r].pc = "ordering"
  /\ \E t \in Txn : InsertTxn(t, req[r].booking, "razorpay", "initiated")
  /\ Finish(r)
  /\ UNCHANGED <<bookings, held, gateway, rowlock, receipts>>

(* initiate_upi_payment: the booking must be pending ...                   *)
InitiateUpi(r) ==
  /\ \E b \in Booking :
       /\ bookings[b].status = "pending"
       /\ StartFor(r, "choosing", "upi", b)
  /\ UNCHANGED <<bookings, held, txns, gateway, rowlock, receipts>>

OpenFor(b) == {t \in Txn : Open(t) /\ txns[t].booking = b}

(* ... an open transaction is used again (two of them are an error) ...    *)
ChooseTxn(r) ==
  /\ req[r].pc = "choosing"
  /\ \/ OpenFor(req[r].booking) # {} /\ Finish(r)
     \/ OpenFor(req[r].booking) = {} /\ Goto(r, "opening")
  /\ UNCHANGED <<bookings, held, txns, gateway, rowlock, receipts>>

(* ... else a new one is inserted.                                         *)
InsertUpi(r) ==
  /\ req[r].pc = "opening"
  /\ \E t \in Txn : InsertTxn(t, req[r].booking, "upi_manual", "initiated")
  /\ Finish(r)
  /\ UNCHANGED <<bookings, held, gateway, rowlock, receipts>>

-----------------------------------------------------------------------------
(* The browser's callback and the webhooks.                                *)

(* The signatures that are right: what the gateway signed, if the server   *)
(* has the secret to compare it with.                                      *)
Signed(t, attempt) == SecretConfigured /\ Attempted(t, attempt)

(* handle_callback with any other signature: the transaction fails,        *)
(* whatever its status.                                                    *)
CallbackUnsigned(r) ==
  /\ \E t \in Txn : OrderPlaced(t) /\ StartWith(r, "failing", "callback", t, NULL)
  /\ UNCHANGED <<bookings, held, txns, gateway, rowlock, receipts>>

(* handle_callback as the gateway signs it, up to its decision.  A payment *)
(* the gateway calls declined fails the transaction; an accepted one, or a *)
(* gateway that does not answer, makes it succeed.  One that has succeeded *)
(* already is returned as it is.                                           *)
Callback(r) ==
  /\ \E t \in Txn, attempt \in Attempts :
       /\ OrderPlaced(t) /\ Signed(t, attempt)
       /\ \/ /\ txns[t].status = "success"
             /\ StartWith(r, "existing", "callback", t, NULL)
          \/ /\ txns[t].status # "success"
             /\ attempt = "declined"
             /\ StartWith(r, "failing", "callback", t, attempt)
          \/ /\ txns[t].status # "success"
             /\ StartWith(r, "succeeding", "callback", t, attempt)
  /\ UNCHANGED <<bookings, held, txns, gateway, rowlock, receipts>>

ReturnExisting(r) ==
  /\ req[r].pc = "existing"
  /\ Finish(r)
  /\ UNCHANGED <<bookings, held, txns, gateway, rowlock, receipts>>

(* Mutant: a payment that was marked failed stays failed.                  *)
WebhookCapturedIfOpen(r, t) ==
  /\ OrderPlaced(t) /\ gateway[t].accepted = "captured" /\ Open(t)
  /\ StartWith(r, "succeeding", "captured", t, "accepted")
  /\ UNCHANGED <<bookings, held, txns, gateway, rowlock, receipts>>

(* _process_captured: nothing to do for a payment that has succeeded.      *)
WebhookCaptured(r, t) ==
  /\ OrderPlaced(t) /\ gateway[t].accepted = "captured"
  /\ txns[t].status # "success"
  /\ StartWith(r, "succeeding", "captured", t, "accepted")
  /\ UNCHANGED <<bookings, held, txns, gateway, rowlock, receipts>>

(* _process_failed: whatever the status of the payment.                    *)
WebhookFailed(r) ==
  /\ \E t \in Txn :
       /\ OrderPlaced(t) /\ gateway[t].declined
       /\ StartWith(r, "failing", "failed", t, NULL)
  /\ UNCHANGED <<bookings, held, txns, gateway, rowlock, receipts>>

-----------------------------------------------------------------------------
(* UPI: submit_utr, verify_upi_payment, reject_upi_payment.  None of them  *)
(* asks which gateway the transaction is for.                              *)

SubmitUtr(r) ==
  /\ \E t \in Txn : Open(t) /\ StartWith(r, "submitting", "submit", t, NULL)
  /\ UNCHANGED <<bookings, held, txns, gateway, rowlock, receipts>>

CommitSubmit(r) ==
  /\ req[r].pc = "submitting" /\ Unlocked(req[r].txn)
  /\ UpdateTxn(r, "processing")
  /\ Finish(r)
  /\ UNCHANGED <<bookings, held, gateway, rowlock, receipts>>

VerifyUpi(r) ==
  /\ \E t \in Txn : /\ txns[t].status = "processing"
                    /\ StartWith(r, "succeeding", "verify", t, NULL)
  /\ UNCHANGED <<bookings, held, txns, gateway, rowlock, receipts>>

RejectUpi(r) ==
  /\ \E t \in Txn : Open(t) /\ StartWith(r, "failing", "reject", t, NULL)
  /\ UNCHANGED <<bookings, held, txns, gateway, rowlock, receipts>>

-----------------------------------------------------------------------------
(* What a callback, a webhook or an administrator decided is written.      *)

(* Mutant: the booking is read without waiting for the payment's row.      *)
FlushWithoutWaiting(r) ==
  /\ req[r].pc = "succeeding"
  /\ rowlock' = [rowlock EXCEPT ![req[r].txn] = r]
  /\ \/ /\ req[r].booking \in Booking
        /\ req' = [req EXCEPT ![r].pc = "flushed",
                              ![r].seen = bookings[req[r].booking].status,
                              ![r].read = bookings[req[r].booking].version]
     \/ /\ req[r].booking = NULL
        /\ Goto(r, "flushed")
  /\ UNCHANGED <<bookings, held, txns, gateway, receipts>>

(* Send the UPDATE of the payment, which locks its row; read the booking.  *)
FlushSuccess(r) ==
  /\ req[r].pc = "succeeding" /\ Unlocked(req[r].txn)
  /\ rowlock' = [rowlock EXCEPT ![req[r].txn] = r]
  /\ \/ /\ req[r].booking \in Booking
        /\ req' = [req EXCEPT ![r].pc = "flushed",
                              ![r].seen = bookings[req[r].booking].status,
                              ![r].read = bookings[req[r].booking].version]
     \/ /\ req[r].booking = NULL
        /\ Goto(r, "flushed")
  /\ UNCHANGED <<bookings, held, txns, gateway, receipts>>

(* Mutant: the payment is committed by itself, the booking later, if ever. *)
CommitPaymentFirst(r) ==
  /\ req[r].pc = "flushed"
  /\ UpdateTxn(r, "success")
  /\ Goto(r, "committed")
  /\ Unlock(r)
  /\ UNCHANGED <<bookings, held, gateway, receipts>>

(* COMMIT: the payment succeeded; its booking, if seen pending, is         *)
(* confirmed in the same transaction.                                      *)
CommitSuccess(r) ==
  /\ req[r].pc = "flushed"
  /\ UpdateTxn(r, "success")
  /\ \/ /\ req[r].seen = "pending"
        /\ UpdateStatus(req[r].booking, "confirmed", req[r].read + 1)
     \/ /\ req[r].seen # "pending"
        /\ UNCHANGED <<bookings, held>>
  /\ Goto(r, "committed")
  /\ Unlock(r)
  /\ UNCHANGED <<gateway, receipts>>

CommitFailure(r) ==
  /\ req[r].pc = "failing" /\ Unlocked(req[r].txn)
  /\ UpdateTxn(r, "failed")
  /\ Goto(r, "failed")
  /\ UNCHANGED <<bookings, held, gateway, rowlock, receipts>>

-----------------------------------------------------------------------------
(* initiate_refund.                                                        *)

SucceededFor(b) == {t \in Txn : txns[t].status = "success" /\ txns[t].booking = b}

(* The successful payment of the booking; more than one is an error.       *)
InitiateRefund(r) ==
  /\ \E b \in Booking, t \in Txn :
       /\ SucceededFor(b) = {t}
       /\ StartWith(r, "refunding", "refund", t, NULL)
  /\ UNCHANGED <<bookings, held, txns, gateway, rowlock, receipts>>

(* Mutant: a payment that the gateway cannot refund is refunded on paper.  *)
RefundWithoutGateway(r) ==
  /\ req[r].pc = "refunding"
  /\ LET b == req[r].booking
     IN  \/ /\ bookings[b].refund_amount \notin {NULL, 0}
            /\ req' = [req EXCEPT ![r].pc = "returned",
                                  ![r].seen = bookings[b].status,
                                  ![r].read = bookings[b].version]
         \/ /\ bookings[b].refund_amount \in {NULL, 0}
            /\ Finish(r)
  /\ UNCHANGED <<bookings, held, txns, gateway, rowlock, receipts>>

(* Read the booking, which must have a refund amount, and call the gateway, *)
(* which gives money back for a captured payment while there is some left. *)
GatewayRefund(r) ==
  /\ req[r].pc = "refunding"
  /\ LET t == req[r].txn
         b == req[r].booking
         Refundable == /\ bookings[b].refund_amount \notin {NULL, 0}
                       /\ req[r].loaded.gateway_txn_id = "accepted"
                       /\ gateway[t].accepted = "captured"
                       /\ gateway[t].refunds < MaxRefunds
     IN  \/ /\ Refundable
            /\ gateway' = [gateway EXCEPT ![t].refunds = @ + 1]
            /\ req' = [req EXCEPT ![r].pc = "returned",
                                  ![r].seen = bookings[b].status,
                                  ![r].read = bookings[b].version]
         \/ /\ ~Refundable
            /\ Finish(r)
            /\ UNCHANGED gateway
  /\ UNCHANGED <<bookings, held, txns, rowlock, receipts>>

(* Mutant: the booking is refunded at once, never refund_pending.          *)
CommitRefundAtOnce(r) ==
  /\ req[r].pc = "returned"
  /\ \/ /\ MayTransition(req[r].seen, "refund_pending")
        /\ Unlocked(req[r].txn)
        /\ UpdateTxn(r, "refunded")
        /\ UpdateStatus(req[r].booking, "refunded", req[r].read + 1)
        /\ Goto(r, "committed")
     \/ /\ ~MayTransition(req[r].seen, "refund_pending")
        /\ Finish(r)
        /\ UNCHANGED <<bookings, held, txns>>
  /\ UNCHANGED <<gateway, rowlock, receipts>>

(* Only now is the status that was read checked: a booking that was not    *)
(* cancelled fails the request, after the money went back.                 *)
CommitRefund(r) ==
  /\ req[r].pc = "returned"
  /\ \/ /\ MayTransition(req[r].seen, "refund_pending")
        /\ Unlocked(req[r].txn)
        /\ UpdateTxn(r, "refunded")
        /\ UpdateStatus(req[r].booking, "refund_pending", req[r].read + 1)
        /\ Goto(r, "half refunded")
     \/ /\ ~MayTransition(req[r].seen, "refund_pending")
        /\ Finish(r)
        /\ UNCHANGED <<bookings, held, txns>>
  /\ UNCHANGED <<gateway, rowlock, receipts>>

CompleteRefund(r) ==
  /\ req[r].pc = "half refunded"
  /\ UpdateStatus(req[r].booking, "refunded", req[r].read + 2)
  /\ Goto(r, "committed")
  /\ UNCHANGED <<txns, gateway, rowlock, receipts>>

-----------------------------------------------------------------------------
(* What a request tells the event bus after its commit.  Only              *)
(* payment.success mails the customer a receipt.                           *)
EventsOf(op, seen) ==
  CASE op = "callback" -> {"payment.success"} \cup
                          (IF seen = "pending" THEN {"booking.confirmed"} ELSE {})
    [] op = "captured" -> IF seen = "pending" THEN {"booking.confirmed"} ELSE {}
    [] op = "verify"   -> {"payment.success"} \cup
                          (IF seen \in LiveStatuses THEN {"booking.confirmed"} ELSE {})
    [] op = "refund"   -> {"payment.refunded"}

(* Mutant: the events leave before the COMMIT.                             *)
EmitEarly(r) ==
  /\ \/ /\ req[r].pc \in {"flushed", "committed"}
        /\ receipts' = IF "payment.success" \in EventsOf(req[r].op, req[r].seen)
                         THEN receipts \cup {req[r].txn} ELSE receipts
     \/ /\ req[r].pc = "failed"
        /\ UNCHANGED receipts
  /\ IF req[r].pc = "flushed" THEN UNCHANGED req ELSE Finish(r)
  /\ UNCHANGED <<bookings, held, txns, gateway, rowlock>>

Emit(r) ==
  /\ \/ /\ req[r].pc = "committed"
        /\ receipts' = IF "payment.success" \in EventsOf(req[r].op, req[r].seen)
                         THEN receipts \cup {req[r].txn} ELSE receipts
     \/ /\ req[r].pc = "failed"
        /\ UNCHANGED receipts
  /\ Finish(r)
  /\ UNCHANGED <<bookings, held, txns, gateway, rowlock>>

(* A request ends early: an error, a gateway that does not answer, a dead  *)
(* worker.  What was not committed is rolled back and unlocked.            *)
Fail(r) ==
  /\ req[r] # Idle
  /\ Finish(r)
  /\ Unlock(r)
  /\ UNCHANGED <<bookings, held, txns, gateway, receipts>>

-----------------------------------------------------------------------------
(* What the requests of bookings and subscriptions do to the two tables: a *)
(* creation, with its payment if it is manual; the UPI payment of a        *)
(* subscription; a status change that was legal for some status the        *)
(* booking has held (BookingServiceProofs shows that they do no more); a   *)
(* cancellation may leave the refund amount as it is.                      *)
OtherCreations ==
  \/ \E b \in Booking, slot \in OtherSlots, coupon \in Coupon \cup {NULL}, first \in LiveStatuses :
       /\ InsertRow(b, first, slot, coupon)
       /\ \/ UNCHANGED txns
          \/ first = "confirmed" /\ \E t \in Txn : InsertTxn(t, b, "manual", "success")
  \/ /\ \E t \in Txn : InsertTxn(t, NULL, "upi_manual", "initiated")
     /\ UNCHANGED <<bookings, held>>

OtherTransitions ==
  /\ \E b \in Booking, s \in Statuses :
       /\ s \in held[b] /\ bookings[b].version < MaxVersion
       /\ \/ \E target \in {"confirmed", "completed", "no_show"} :
               /\ MayTransition(s, target)
               /\ UpdateStatus(b, target, bookings[b].version + 1)
          \/ \E refund \in RefundAmount \cup {bookings[b].refund_amount} :
               /\ MayTransition(s, "cancelled")
               /\ UpdateCancelled(b, refund, bookings[b].version + 1)
  /\ UNCHANGED txns

OtherRequests ==
  /\ OtherCreations \/ OtherTransitions
  /\ UNCHANGED <<gateway, req, rowlock, receipts>>

Init ==
  /\ BookingTableInit /\ PaymentTableInit
  /\ gateway = [t \in Txn |-> NoOrder]
  /\ req = [r \in Req |-> Idle]
  /\ rowlock = [t \in Txn |-> NULL]
  /\ receipts = {}

Receive(r) ==
  \/ InitiatePayment(r) \/ InitiateUpi(r)
  \/ CallbackUnsigned(r) \/ Callback(r)
  \/ WebhookFailed(r) \/ \E t \in Txn : WebhookCaptured(r, t)
  \/ SubmitUtr(r) \/ VerifyUpi(r) \/ RejectUpi(r)
  \/ InitiateRefund(r)

Proceed(r) ==
  \/ InsertOrder(r) \/ ChooseTxn(r) \/ InsertUpi(r)
  \/ ReturnExisting(r) \/ CommitSubmit(r)
  \/ FlushSuccess(r) \/ CommitSuccess(r) \/ CommitFailure(r)
  \/ GatewayRefund(r) \/ CommitRefund(r) \/ CompleteRefund(r)
  \/ Emit(r)

Next == \/ \E r \in Req : Receive(r) \/ Proceed(r) \/ Fail(r)
        \/ Gateway
        \/ OtherRequests

Spec == Init /\ [][Next]_vars

(* Every request ends: answered, or failed.  The gateway repeats a webhook *)
(* until it is answered, and neither failures nor other holders of the     *)
(* row's lock hit every repetition.                                        *)
FairSpec ==
  /\ Spec
  /\ \A r \in Req : WF_vars(Proceed(r) \/ Fail(r))
  /\ \A t \in Txn : SF_vars(\E r \in Req : WebhookCaptured(r, t))
  /\ \A r \in Req, t \in Txn :
       /\ SF_vars(req[r] # Idle /\ req[r].txn = t /\ FlushSuccess(r))
       /\ SF_vars(req[r] # Idle /\ req[r].txn = t /\ CommitSuccess(r))

=============================================================================
