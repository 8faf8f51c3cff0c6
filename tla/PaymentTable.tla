---------------------------- MODULE PaymentTable ----------------------------
(***************************************************************************)
(* The payment_transactions table (app/payments/models.py).  A row pays    *)
(* for one booking, or for a subscription (booking NULL).  gateway_txn_id  *)
(* says which attempt at the gateway the row names, if any: the declined   *)
(* one or the accepted one.  Amount, currency and JSON are data, and so is *)
(* the reference that an administrator's booking stores in that column.    *)
(***************************************************************************)
EXTENDS BookingTable

CONSTANT Txn  \* primary keys; for gateway "razorpay", also the order id

VARIABLE txns

TxnStatuses == {"initiated", "processing", "success", "failed", "refunded"}

Gateways == {"razorpay", "upi_manual", "manual"}

Attempts == {"declined", "accepted"}

NoTxn == [status |-> "absent"]

TxnRow == [status : TxnStatuses, booking : Booking \cup {NULL},
           gateway : Gateways, gateway_txn_id : Attempts \cup {NULL}]

TxnExists(t) == txns[t].status # "absent"

InsertTxn(t, b, gateway, status) ==
  /\ ~TxnExists(t)
  /\ txns' = [txns EXCEPT ![t] =
                [status |-> status, booking |-> b, gateway |-> gateway,
                 gateway_txn_id |-> NULL]]

PaymentTableInit == txns = [t \in Txn |-> NoTxn]

PaymentTableTypeOK == txns \in [Txn -> TxnRow \cup {NoTxn}]

=============================================================================
