------------------------- MODULE PaymentProperties -------------------------
(***************************************************************************)
(* What callbacks, webhooks, refunds and administrators keep true of       *)
(* payments and bookings, in whatever order they come.                     *)
(***************************************************************************)
EXTENDS PaymentService, FiniteSets

(* Types of the tables, of the gateway and of the requests in flight.      *)
TypeOK ==
  /\ BookingTableTypeOK /\ PaymentTableTypeOK
  /\ gateway \in [Txn -> Order]
  /\ req \in [Req -> Request \cup {Idle}]
  /\ rowlock \in [Txn -> Req \cup {NULL}]
  /\ receipts \in SUBSET Txn

(***************************************************************************)
(* A payment that counts as successful has moved its booking on: no        *)
(* customer has paid, by whatever way, and still holds a pending booking.  *)
(***************************************************************************)
SuccessLeavesPending ==
  \A t \in Txn :
    TxnExists(t) /\ txns[t].status = "success" /\ txns[t].booking # NULL
      => bookings[txns[t].booking].status # "pending"

(***************************************************************************)
(* Whoever is mailed a receipt has a booking that is no longer pending,    *)
(* even if the payment was marked failed since.                            *)
(***************************************************************************)
ReceiptsAreTrue ==
  \A t \in receipts : TxnExists(t) /\ txns[t].booking # NULL
                         => bookings[txns[t].booking].status # "pending"

(***************************************************************************)
(* A refund is never recorded unless the gateway gave the money back: for  *)
(* a payment marked refunded, and for a booking that ever was.             *)
(***************************************************************************)
RecordedRefundsWereMade ==
  /\ \A t \in Txn : txns[t].status = "refunded" => gateway[t].refunds > 0
  /\ \A b \in Booking : held[b] \cap {"refund_pending", "refunded"} # {} =>
       \E t \in Txn : TxnExists(t) /\ txns[t].booking = b /\ gateway[t].refunds > 0

(***************************************************************************)
(* A booking is marked refunded only if it was cancelled before.           *)
(***************************************************************************)
RefundedWasCancelled ==
  \A b \in Booking : held[b] \cap {"refund_pending", "refunded"} # {} =>
                       "cancelled" \in held[b]

(***************************************************************************)
(* Two handlers of one payment never both confirm its booking: the second  *)
(* waits at the row and reads the booking after the first has committed.   *)
(***************************************************************************)
OneConfirmsAtATime ==
  \A q, r \in Req : q # r /\ req[q].pc = "flushed" /\ req[r].pc = "flushed"
                      => req[q].txn # req[r].txn

(***************************************************************************)
(* A payment row is locked only by a request about to commit that payment: *)
(* a request that fails or returns leaves no lock that would block every   *)
(* later webhook.                                                          *)
(***************************************************************************)
RowLockHasOwner ==
  \A t \in Txn : rowlock[t] # NULL =>
    req[rowlock[t]].pc = "flushed" /\ req[rowlock[t]].txn = t

-----------------------------------------------------------------------------
(* Why they hold: the strengthening that every step preserves.             *)

(* A row's status is in its history; a payment's booking exists.           *)
TablesAgree ==
  /\ \A b \in Booking : IF Exists(b) THEN bookings[b].status \in held[b]
                                     ELSE held[b] = {}
  /\ \A t \in Txn : TxnExists(t) => txns[t].booking = NULL \/ Exists(txns[t].booking)
  /\ \A t \in receipts : TxnExists(t)

Starting == {"ordering", "choosing", "opening"}

(* What a request was started for is still there.                          *)
OnRows(r) ==
  /\ req[r].pc \in Starting => req[r].booking \in Booking /\ Exists(req[r].booking)
  /\ req[r].pc \in Phases \ Starting =>
       /\ req[r].txn \in Txn /\ TxnExists(req[r].txn)
       /\ req[r].booking = txns[req[r].txn].booking

(* What it read of the booking before the COMMIT may be stale, but only in *)
(* ways that do no harm to what it is going to write.                      *)
ReadsHold(r) ==
  /\ req[r].pc = "succeeding" => req[r].seen = NULL
  /\ req[r].pc = "flushed" =>
       /\ rowlock[req[r].txn] = r
       /\ req[r].booking = NULL => req[r].seen = NULL
       /\ req[r].booking # NULL =>
            /\ req[r].seen \in held[req[r].booking]
            /\ req[r].seen # "pending" => bookings[req[r].booking].status # "pending"
  /\ req[r].pc = "committed" /\ req[r].booking # NULL =>
       bookings[req[r].booking].status # "pending"
  /\ req[r].pc = "refunding" => req[r].booking # NULL
  /\ req[r].pc \in {"returned", "half refunded"} =>
       req[r].booking # NULL /\ gateway[req[r].txn].refunds > 0
  /\ req[r].pc = "returned" => req[r].seen \in held[req[r].booking]
  /\ req[r].pc = "half refunded" => "refund_pending" \in held[req[r].booking]

(***************************************************************************)
(* The inductive invariant of callbacks, webhooks, UPI and refunds.        *)
(***************************************************************************)
IndInv ==
  /\ TypeOK /\ TablesAgree /\ RowLockHasOwner
  /\ \A r \in Req : OnRows(r) /\ ReadsHold(r)
  /\ SuccessLeavesPending /\ ReceiptsAreTrue
  /\ RecordedRefundsWereMade /\ RefundedWasCancelled

-----------------------------------------------------------------------------
(***************************************************************************)
(* The payment requests implement the slot ledger of the booking requests: *)
(* they change a booking's status only as the state machine allows from a  *)
(* status it has held, and never its slot.                                 *)
(***************************************************************************)
Ledger == INSTANCE SlotLedger WITH
  Slot <- TimeRange,
  Overlapping <- {},
  NoSlot <- NULL,
  status <- [b \in Booking |-> bookings[b].status],
  slot <- [b \in Booking |-> IF Exists(b) THEN bookings[b].slot ELSE NULL],
  held <- held

ImplementsLedger == Ledger!Spec

(***************************************************************************)
(* Money that the gateway captured does not leave its booking pending,     *)
(* though the browser never calls back (or its callback is refused), as    *)
(* long as the gateway repeats its webhook.                                *)
(***************************************************************************)
CapturedLeavesPending ==
  \A t \in Txn, b \in Booking :
    gateway[t].accepted = "captured" /\ txns[t].booking = b
      ~> bookings[b].status # "pending"

=============================================================================
