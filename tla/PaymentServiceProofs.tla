------------------------ MODULE PaymentServiceProofs ------------------------
(***************************************************************************)
(* PaymentService keeps its invariants and implements SlotLedger, for any  *)
(* number of bookings, payments and concurrent requests.                   *)
(*                                                                         *)
(* The argument has two halves.  Tables only grow: a row stays, its        *)
(* history is kept, a booking that left pending never returns to it, and   *)
(* money given back stays given back (Grows); so what one request knows,   *)
(* no step of another can take away (OthersKeep).  And a step of a request *)
(* writes nothing but what it knows allows (one lemma per action).         *)
(***************************************************************************)
EXTENDS PaymentProperties, TLAPS

LEMMA StatusFacts ==
  /\ LiveStatuses \subseteq Statuses /\ "absent" \notin Statuses
  /\ "absent" \notin TxnStatuses /\ "idle" \notin Phases
  /\ \A s, u : MayTransition(s, u) =>
       /\ s \in Statuses /\ u \in Statuses /\ u # "pending"
       /\ u = "refund_pending" => s = "cancelled"
       /\ u = "refunded" => s = "refund_pending"
  BY DEF LiveStatuses, Statuses, TxnStatuses, Phases, MayTransition, TRANSITIONS

LEMMA RowFacts ==
  ASSUME TypeOK
  PROVE  /\ \A b \in Booking : Exists(b) => bookings[b] \in Row
         /\ \A t \in Txn : TxnExists(t) => txns[t] \in TxnRow
         /\ \A r \in Req : req[r].pc # "idle" => req[r] \in Request
         /\ \A r \in Req : req[r] # Idle => req[r] \in Request /\ req[r].pc # "idle"
  BY StatusFacts
     DEF TypeOK, BookingTableTypeOK, PaymentTableTypeOK, Exists, TxnExists, NoRow, NoTxn,
         Idle, Request

-----------------------------------------------------------------------------
(* What the statements of the services do to the rows.                     *)

LEMMA InsertedRow ==
  ASSUME TypeOK, NEW b \in Booking, NEW s \in LiveStatuses, NEW slot \in TimeRange,
         NEW c \in Coupon \cup {NULL}, InsertRow(b, s, slot, c)
  PROVE  /\ BookingTableTypeOK' /\ ~Exists(b)
         /\ bookings'[b].status = s /\ bookings'[b].slot = slot /\ held'[b] = {s}
         /\ \A a \in Booking : a # b => bookings'[a] = bookings[a] /\ held'[a] = held[a]
         /\ held' = [held EXCEPT ![b] = {s}]
  <1> DEFINE row == [status |-> s, slot |-> slot, discount |-> c,
                     cancelled_at |-> FALSE, refund_amount |-> NULL, version |-> 1]
  <1>1. row \in Row /\ s \in Statuses
    BY StatusFacts DEF Row
  <1>2. bookings' = [bookings EXCEPT ![b] = row] /\ held' = [held EXCEPT ![b] = {s}]
    BY DEF InsertRow
  <1>3. ~Exists(b)
    BY DEF InsertRow
  <1>4. QED
    BY <1>1, <1>2, <1>3 DEF TypeOK, BookingTableTypeOK

LEMMA WrittenStatus ==
  ASSUME TypeOK, NEW b \in Booking, Exists(b), NEW s \in Statuses, NEW v \in Nat,
         UpdateStatus(b, s, v)
  PROVE  /\ BookingTableTypeOK'
         /\ bookings'[b].status = s /\ bookings'[b].slot = bookings[b].slot
         /\ held'[b] = held[b] \cup {s}
         /\ \A a \in Booking : a # b => bookings'[a] = bookings[a] /\ held'[a] = held[a]
         /\ held' = [held EXCEPT ![b] = @ \cup {s}]
  <1> DEFINE row == [bookings[b] EXCEPT !.status = s, !.version = v]
  <1>1. bookings[b] \in Row
    BY RowFacts
  <1>2. row \in Row /\ row.status = s /\ row.slot = bookings[b].slot
    BY <1>1 DEF Row
  <1>3. bookings' = [bookings EXCEPT ![b] = row] /\ held' = [held EXCEPT ![b] = @ \cup {s}]
    BY DEF UpdateStatus, TypeOK, BookingTableTypeOK
  <1> HIDE DEF row
  <1>4. QED
    BY <1>2, <1>3 DEF TypeOK, BookingTableTypeOK

LEMMA WrittenCancelled ==
  ASSUME TypeOK, NEW b \in Booking, Exists(b), NEW refund \in RefundAmount \cup {NULL},
         NEW v \in Nat, UpdateCancelled(b, refund, v)
  PROVE  /\ BookingTableTypeOK'
         /\ bookings'[b].status = "cancelled" /\ bookings'[b].slot = bookings[b].slot
         /\ held'[b] = held[b] \cup {"cancelled"}
         /\ \A a \in Booking : a # b => bookings'[a] = bookings[a] /\ held'[a] = held[a]
         /\ held' = [held EXCEPT ![b] = @ \cup {"cancelled"}]
  <1> DEFINE row == [bookings[b] EXCEPT !.status = "cancelled", !.cancelled_at = TRUE,
                                        !.refund_amount = refund, !.version = v]
  <1>1. bookings[b] \in Row
    BY RowFacts
  <1>2. row \in Row /\ row.status = "cancelled" /\ row.slot = bookings[b].slot
    BY <1>1 DEF Row, Statuses
  <1>3. /\ bookings' = [bookings EXCEPT ![b] = row]
        /\ held' = [held EXCEPT ![b] = @ \cup {"cancelled"}]
    BY DEF UpdateCancelled, TypeOK, BookingTableTypeOK
  <1>4. "cancelled" \in Statuses
    BY DEF Statuses
  <1> HIDE DEF row
  <1>5. QED
    BY <1>2, <1>3, <1>4 DEF TypeOK, BookingTableTypeOK

LEMMA InsertedTxn ==
  ASSUME TypeOK, NEW t \in Txn, NEW b \in Booking \cup {NULL}, NEW g \in Gateways,
         NEW s \in TxnStatuses, InsertTxn(t, b, g, s)
  PROVE  /\ PaymentTableTypeOK' /\ ~TxnExists(t)
         /\ txns'[t].booking = b /\ txns'[t].status = s
         /\ \A u \in Txn : u # t => txns'[u] = txns[u]
  <1> DEFINE row == [status |-> s, booking |-> b, gateway |-> g, gateway_txn_id |-> NULL]
  <1>1. row \in TxnRow
    BY DEF TxnRow
  <1>2. txns' = [txns EXCEPT ![t] = row] /\ ~TxnExists(t)
    BY DEF InsertTxn
  <1>3. QED
    BY <1>1, <1>2 DEF TypeOK, PaymentTableTypeOK

LEMMA UpdatedTxn ==
  ASSUME TypeOK, NEW r \in Req, req[r] \in Request, req[r].txn \in Txn,
         TxnExists(req[r].txn), NEW s \in TxnStatuses, UpdateTxn(r, s)
  PROVE  LET t == req[r].txn IN
         /\ PaymentTableTypeOK' /\ txns'[t].status # "absent"
         /\ txns'[t].booking = txns[t].booking
         /\ txns'[t].status \in {s, txns[t].status}
         /\ \A u \in Txn : u # t => txns'[u] = txns[u]
  <1> DEFINE t == req[r].txn
             st == IF s = req[r].loaded.status THEN txns[t].status ELSE s
             id == IF req[r].attempt \in {NULL, req[r].loaded.gateway_txn_id}
                     THEN txns[t].gateway_txn_id ELSE req[r].attempt
             row == [txns[t] EXCEPT !.status = st, !.gateway_txn_id = id]
  <1>1. txns[t] \in TxnRow
    BY RowFacts
  <1>2. st \in TxnStatuses /\ id \in Attempts \cup {NULL}
    BY <1>1 DEF Request, TxnRow
  <1> HIDE DEF id
  <1>3. row \in TxnRow /\ row.status = st /\ row.booking = txns[t].booking
    BY <1>1, <1>2 DEF TxnRow
  <1>4. txns' = [txns EXCEPT ![t] = row]
    BY <1>1 DEF UpdateTxn, TypeOK, PaymentTableTypeOK, id
  <1>5. st \in {s, txns[t].status} /\ st # "absent"
    BY <1>2, StatusFacts
  <1> HIDE DEF row, st
  <1>6. txns \in [Txn -> TxnRow \cup {NoTxn}] /\ t \in Txn
    BY DEF TypeOK, PaymentTableTypeOK
  <1> HIDE DEF t
  <1>7. /\ txns'[t] = row /\ txns' \in [Txn -> TxnRow \cup {NoTxn}]
        /\ \A u \in Txn : u # t => txns'[u] = txns[u]
    BY <1>3, <1>4, <1>6
  <1>8. PaymentTableTypeOK' /\ txns'[t].status # "absent"
    BY <1>3, <1>5, <1>7 DEF PaymentTableTypeOK
  <1>9. QED
    BY <1>3, <1>5, <1>7, <1>8 DEF t

-----------------------------------------------------------------------------
(* What any step may do to a booking, a payment, an order, the receipts.   *)

BookingStep(b) ==
  \/ bookings'[b] = bookings[b] /\ held'[b] = held[b]
  \/ /\ ~Exists(b)
     /\ bookings'[b].status \in LiveStatuses
     /\ held'[b] = {bookings'[b].status}
  \/ /\ Exists(b)
     /\ bookings'[b].status \in Statuses \ {"pending"}
     /\ held'[b] = held[b] \cup {bookings'[b].status}
     /\ bookings'[b].status \in {"refund_pending", "refunded"} =>
          /\ "cancelled" \in held[b]
          /\ \E t \in Txn : TxnExists(t) /\ txns[t].booking = b /\ gateway[t].refunds > 0

TxnStep(t) ==
  LET b == txns'[t].booking
      Allowed == /\ txns'[t].status \in TxnStatuses
                 /\ txns'[t].status = "success" =>
                      b = NULL \/ bookings'[b].status # "pending"
                 /\ txns'[t].status = "refunded" => gateway[t].refunds > 0
  IN  \/ txns'[t] = txns[t]
      \/ /\ ~TxnExists(t) /\ Allowed
         /\ b # NULL => b \in Booking /\ bookings'[b].status # "absent"
      \/ /\ TxnExists(t) /\ b = txns[t].booking
         /\ Allowed \/ txns'[t].status = txns[t].status

OrderStep(t) == gateway'[t].refunds >= gateway[t].refunds

ReceiptStep == \A t \in receipts' \ receipts :
                 /\ TxnExists(t)
                 /\ txns[t].booking # NULL =>
                      bookings[txns[t].booking].status # "pending"

TableStep == /\ \A b \in Booking : BookingStep(b)
             /\ \A t \in Txn : TxnStep(t) /\ OrderStep(t)
             /\ ReceiptStep
             /\ BookingTableTypeOK' /\ PaymentTableTypeOK'
             /\ gateway' \in [Txn -> Order] /\ receipts' \in SUBSET Txn

(* The invariants of the tables.                                           *)
TablesInv == /\ TablesAgree /\ SuccessLeavesPending /\ ReceiptsAreTrue
             /\ RecordedRefundsWereMade /\ RefundedWasCancelled

(***************************************************************************)
(* Rows stay, with their history; nothing becomes pending again; money     *)
(* given back stays given back.                                            *)
(***************************************************************************)
Grows ==
  /\ \A b \in Booking : Exists(b) =>
       /\ bookings'[b].status # "absent" /\ held[b] \subseteq held'[b]
       /\ bookings[b].status # "pending" => bookings'[b].status # "pending"
  /\ \A t \in Txn : TxnExists(t) =>
       txns'[t].status # "absent" /\ txns'[t].booking = txns[t].booking
  /\ \A t \in Txn : gateway[t].refunds > 0 => gateway'[t].refunds > 0

LEMMA TablesGrow ==
  ASSUME IndInv, TableStep
  PROVE  Grows
  <1>1. ASSUME NEW b \in Booking, Exists(b)
        PROVE  /\ bookings'[b].status # "absent" /\ held[b] \subseteq held'[b]
               /\ bookings[b].status # "pending" => bookings'[b].status # "pending"
    BY <1>1, StatusFacts DEF TableStep, BookingStep, Exists
  <1>2. ASSUME NEW t \in Txn, TxnExists(t)
        PROVE  txns'[t].status # "absent" /\ txns'[t].booking = txns[t].booking
    BY <1>2, StatusFacts DEF TableStep, TxnStep, TxnExists
  <1>3. ASSUME NEW t \in Txn, gateway[t].refunds > 0
        PROVE  gateway'[t].refunds > 0
    <2>1. gateway[t] \in Order /\ gateway'[t] \in Order
      BY DEF IndInv, TypeOK, TableStep
    <2>2. QED
      BY <1>3, <2>1 DEF TableStep, OrderStep, Order
  <1>4. QED
    BY <1>1, <1>2, <1>3 DEF Grows

LEMMA TxnsBooking ==
  ASSUME IndInv, NEW t \in Txn, TxnExists(t), txns[t].booking # NULL
  PROVE  txns[t].booking \in Booking /\ Exists(txns[t].booking)
  BY RowFacts DEF IndInv, TablesAgree, TxnRow

(***************************************************************************)
(* Such a step keeps the invariants of the tables.                         *)
(***************************************************************************)
LEMMA TablesKeep ==
  ASSUME IndInv, TableStep
  PROVE  TablesInv'
  <1>0. Grows
    BY TablesGrow
  <1>1. TablesAgree'
    <2>1. ASSUME NEW b \in Booking
          PROVE  IF bookings'[b].status # "absent"
                   THEN bookings'[b].status \in held'[b] ELSE held'[b] = {}
      BY StatusFacts DEF TableStep, BookingStep, IndInv, TablesAgree, Exists
    <2>2. ASSUME NEW t \in Txn, txns'[t].status # "absent", txns'[t].booking # NULL
          PROVE  bookings'[txns'[t].booking].status # "absent"
      <3>1. CASE TxnExists(t)
        BY <1>0, <2>2, <3>1, TxnsBooking DEF Grows
      <3>2. CASE ~TxnExists(t)
        BY <2>2, <3>2 DEF TableStep, TxnStep, TxnExists
      <3>3. QED
        BY <3>1, <3>2
    <2>3. ASSUME NEW t \in receipts' PROVE txns'[t].status # "absent"
      BY <1>0 DEF TableStep, ReceiptStep, Grows, IndInv, TablesAgree
    <2>4. QED
      BY <2>1, <2>2, <2>3 DEF TablesAgree, Exists, TxnExists
  <1>2. SuccessLeavesPending'
    <2> SUFFICES ASSUME NEW t \in Txn, txns'[t].status = "success",
                        txns'[t].booking # NULL
                 PROVE  bookings'[txns'[t].booking].status # "pending"
      BY DEF SuccessLeavesPending
    <2>1. CASE txns[t].status = "success"
      <3>1. TxnExists(t) /\ txns'[t].booking = txns[t].booking
        BY <1>0, <2>1 DEF Grows, TxnExists
      <3>2. QED
        BY <1>0, <2>1, <3>1, TxnsBooking DEF Grows, IndInv, SuccessLeavesPending
    <2>2. CASE txns[t].status # "success"
      BY <2>2 DEF TableStep, TxnStep
    <2>3. QED
      BY <2>1, <2>2
  <1>3. ReceiptsAreTrue'
    <2> SUFFICES ASSUME NEW t \in receipts', txns'[t].booking # NULL
                 PROVE  bookings'[txns'[t].booking].status # "pending"
      BY DEF ReceiptsAreTrue
    <2>1. t \in Txn /\ TxnExists(t)
      BY DEF TableStep, ReceiptStep, IndInv, TypeOK, TablesAgree
    <2>2. txns[t].booking = txns'[t].booking
      BY <1>0, <2>1 DEF Grows
    <2>3. bookings[txns[t].booking].status # "pending"
      BY <2>1, <2>2 DEF TableStep, ReceiptStep, IndInv, ReceiptsAreTrue
    <2>4. QED
      BY <1>0, <2>1, <2>2, <2>3, TxnsBooking DEF Grows
  <1>4. RecordedRefundsWereMade'
    <2>1. ASSUME NEW t \in Txn, txns'[t].status = "refunded"
          PROVE  gateway'[t].refunds > 0
      <3>1. gateway[t].refunds > 0
        BY <2>1 DEF TableStep, TxnStep, IndInv, RecordedRefundsWereMade
      <3>2. QED
        BY <1>0, <3>1 DEF Grows
    <2>2. ASSUME NEW b \in Booking, held'[b] \cap {"refund_pending", "refunded"} # {}
          PROVE  \E t \in Txn : /\ txns'[t].status # "absent" /\ txns'[t].booking = b
                                /\ gateway'[t].refunds > 0
      <3>1. \E t \in Txn : TxnExists(t) /\ txns[t].booking = b /\ gateway[t].refunds > 0
        BY <2>2 DEF TableStep, BookingStep, LiveStatuses, IndInv, RecordedRefundsWereMade
      <3>2. QED
        BY <1>0, <3>1 DEF Grows
    <2>3. QED
      BY <2>1, <2>2 DEF RecordedRefundsWereMade, TxnExists
  <1>5. RefundedWasCancelled'
    BY DEF TableStep, BookingStep, LiveStatuses, IndInv, RefundedWasCancelled
  <1>6. QED
    BY <1>1, <1>2, <1>3, <1>4, <1>5 DEF TablesInv

-----------------------------------------------------------------------------
(* What requests know.                                                     *)

LEMMA RequestsBooking ==
  ASSUME IndInv, NEW r \in Req, req[r].pc \in Phases \ Starting, req[r].booking # NULL
  PROVE  req[r].booking \in Booking /\ Exists(req[r].booking)
  BY TxnsBooking DEF IndInv, OnRows

(***************************************************************************)
(* No step of another request, of the gateway or of another service takes  *)
(* away what a request knows, unless it takes the lock of its payment.     *)
(***************************************************************************)
LEMMA OthersKeep ==
  ASSUME IndInv, Grows, NEW q \in Req, req'[q] = req[q],
         req[q].pc = "flushed" => rowlock'[req[q].txn] = q
  PROVE  OnRows(q)' /\ ReadsHold(q)'
  <1> DEFINE pc == req[q].pc
             b == req[q].booking
             t == req[q].txn
  <1>1. OnRows(q) /\ ReadsHold(q)
    BY DEF IndInv
  <1>2. OnRows(q)'
    BY <1>1 DEF OnRows, Grows, Exists, TxnExists
  <1>3. CASE pc \in Phases \ Starting
    <2>1. b # NULL => b \in Booking /\ Exists(b)
      BY <1>3, RequestsBooking
    <2>2. t \in Txn /\ (gateway[t].refunds > 0 => gateway'[t].refunds > 0)
      BY <1>1, <1>3 DEF OnRows, Grows
    <2>3. b # NULL => /\ held[b] \subseteq held'[b]
                      /\ bookings[b].status # "pending" => bookings'[b].status # "pending"
      BY <2>1 DEF Grows
    <2>4. ReadsHold(q)'
      BY <1>1, <2>2, <2>3 DEF ReadsHold
    <2>5. QED
      BY <1>2, <2>4
  <1>4. CASE pc \notin Phases \ Starting
    <2>1. pc \notin {"succeeding", "flushed", "committed", "refunding", "returned",
                     "half refunded"}
      BY <1>4 DEF Phases, Starting
    <2>2. QED
      BY <1>2, <2>1 DEF ReadsHold
  <1>5. QED
    BY <1>3, <1>4

(* A step of a request that neither locks a row nor will hold one.         *)
LocksFreed(r) ==
  /\ req'[r].pc # "flushed"
  /\ \/ Unlock(r)
     \/ req[r].pc # "flushed" /\ UNCHANGED rowlock

LEMMA LocksKeep ==
  ASSUME IndInv, NEW r \in Req, LocksFreed(r),
         \A q \in Req : q # r => req'[q] = req[q]
  PROVE  /\ RowLockHasOwner' /\ rowlock' \in [Txn -> Req \cup {NULL}]
         /\ \A q \in Req : q # r /\ req[q].pc = "flushed" => rowlock'[req[q].txn] = q
  <1>1. rowlock' \in [Txn -> Req \cup {NULL}]
    BY DEF LocksFreed, Unlock, IndInv, TypeOK
  <1>2. ASSUME NEW t \in Txn, rowlock'[t] # NULL
        PROVE  req'[rowlock'[t]].pc = "flushed" /\ req'[rowlock'[t]].txn = t
    <2>1. rowlock'[t] = rowlock[t] /\ rowlock[t] \in Req /\ rowlock[t] # r
      BY <1>2 DEF LocksFreed, Unlock, IndInv, TypeOK, RowLockHasOwner
    <2>2. QED
      BY <1>2, <2>1 DEF IndInv, RowLockHasOwner
  <1>3. ASSUME NEW q \in Req, q # r, req[q].pc = "flushed"
        PROVE  rowlock'[req[q].txn] = q
    <2>1. req[q].txn \in Txn /\ rowlock[req[q].txn] = q
      BY <1>3 DEF IndInv, OnRows, ReadsHold, Phases, Starting
    <2>2. QED
      BY <1>3, <2>1 DEF LocksFreed, Unlock
  <1>4. QED
    BY <1>1, <1>2, <1>3 DEF RowLockHasOwner

(***************************************************************************)
(* Putting the two halves together: a step of one request.                 *)
(***************************************************************************)
LEMMA RequestStep ==
  ASSUME IndInv, NEW r \in Req, TableStep,
         req' \in [Req -> Request \cup {Idle}],
         \A q \in Req : q # r => req'[q] = req[q],
         RowLockHasOwner', rowlock' \in [Txn -> Req \cup {NULL}],
         \A q \in Req : q # r /\ req[q].pc = "flushed" => rowlock'[req[q].txn] = q,
         OnRows(r)', ReadsHold(r)'
  PROVE  IndInv'
  <1>1. Grows /\ TablesInv'
    BY TablesGrow, TablesKeep
  <1>2. ASSUME NEW q \in Req PROVE OnRows(q)' /\ ReadsHold(q)'
    BY <1>1, OthersKeep
  <1>3. TypeOK'
    BY DEF TableStep, TypeOK
  <1>4. QED
    BY <1>1, <1>2, <1>3 DEF IndInv, TablesInv

LEMMA NothingWritten ==
  ASSUME IndInv, UNCHANGED <<bookings, held, txns, gateway, receipts>>
  PROVE  TableStep
  <1>1. \A t \in Txn : gateway[t].refunds >= gateway[t].refunds
    BY DEF IndInv, TypeOK, Order
  <1>2. QED
    BY <1>1 DEF TableStep, BookingStep, TxnStep, OrderStep, ReceiptStep, IndInv, TypeOK,
                BookingTableTypeOK, PaymentTableTypeOK

(* A request ends.                                                         *)
LEMMA EndKeeps ==
  ASSUME IndInv, NEW r \in Req, TableStep, Finish(r),
         \/ Unlock(r)
         \/ req[r].pc # "flushed" /\ UNCHANGED rowlock
  PROVE  IndInv'
  <1>1. /\ req' \in [Req -> Request \cup {Idle}]
        /\ req'[r] = Idle
        /\ \A q \in Req : q # r => req'[q] = req[q]
    BY DEF Finish, IndInv, TypeOK
  <1>2. LocksFreed(r)
    BY <1>1 DEF LocksFreed, Idle
  <1>3. OnRows(r)' /\ ReadsHold(r)'
    BY <1>1 DEF OnRows, ReadsHold, Idle, Phases, Starting
  <1>4. QED
    BY <1>1, <1>2, <1>3, LocksKeep, RequestStep

(* A step in which no request takes part.                                  *)
LEMMA EnvironmentKeeps ==
  ASSUME IndInv, TableStep, UNCHANGED <<req, rowlock>>
  PROVE  IndInv'
  <1>1. Grows /\ TablesInv'
    BY TablesGrow, TablesKeep
  <1>2. ASSUME NEW q \in Req PROVE OnRows(q)' /\ ReadsHold(q)'
    <2>1. req[q].pc = "flushed" => rowlock'[req[q].txn] = q
      BY DEF IndInv, ReadsHold
    <2>2. QED
      BY <1>1, <2>1, OthersKeep
  <1>3. TypeOK'
    BY DEF TableStep, TypeOK, IndInv
  <1>4. RowLockHasOwner'
    BY DEF IndInv, RowLockHasOwner
  <1>5. QED
    BY <1>1, <1>2, <1>3, <1>4 DEF IndInv, TablesInv

(* A request goes on to a phase in which it claims no more than before.    *)
LEMMA GotoKeeps ==
  ASSUME IndInv, NEW r \in Req, TableStep, NEW pc \in Phases, Goto(r, pc),
         req[r].pc # "idle", LocksFreed(r),
         req[r].pc \in Starting <=> pc \in Starting,
         pc \in {"opening", "failed", "committed", "half refunded"},
         pc = "committed" /\ req[r].booking # NULL =>
           bookings'[req[r].booking].status # "pending",
         pc = "half refunded" =>
           /\ req[r].booking # NULL /\ gateway[req[r].txn].refunds > 0
           /\ "refund_pending" \in held'[req[r].booking]
  PROVE  IndInv'
  <1>1. req[r] \in Request
    BY RowFacts DEF IndInv
  <1>2. /\ req' \in [Req -> Request \cup {Idle}]
        /\ req'[r].pc = pc /\ req'[r].txn = req[r].txn /\ req'[r].booking = req[r].booking
        /\ \A q \in Req : q # r => req'[q] = req[q]
    BY <1>1 DEF Goto, Request, IndInv, TypeOK
  <1>3. Grows
    BY TablesGrow
  <1>4. OnRows(r)'
    <2>1. OnRows(r) /\ req[r].pc \in Phases
      BY <1>1 DEF IndInv, Request
    <2>2. QED
      BY <1>2, <1>3, <2>1 DEF OnRows, Grows, Exists, TxnExists
  <1>5. ReadsHold(r)'
    <2>1. CASE pc = "half refunded"
      <3>1. req[r].txn \in Txn
        BY <1>1, <2>1 DEF IndInv, OnRows, Starting, Request
      <3>2. QED
        BY <1>2, <1>3, <2>1, <3>1 DEF ReadsHold, Grows
    <2>2. CASE pc # "half refunded"
      BY <1>2, <2>2 DEF ReadsHold
    <2>3. QED
      BY <2>1, <2>2
  <1>6. QED
    BY <1>2, <1>4, <1>5, LocksKeep, RequestStep

-----------------------------------------------------------------------------
(* The actions that start a request.                                       *)

LEMMA StartForKeeps ==
  ASSUME IndInv, NEW r \in Req, NEW pc \in Starting, NEW op \in Ops, NEW b \in Booking,
         bookings[b].status = "pending", StartFor(r, pc, op, b),
         UNCHANGED <<bookings, held, txns, gateway, rowlock, receipts>>
  PROVE  IndInv'
  <1>1. Exists(b)
    BY DEF Exists
  <1>2. /\ req' \in [Req -> Request \cup {Idle}]
        /\ req'[r].pc = pc /\ req'[r].booking = b
        /\ \A q \in Req : q # r => req'[q] = req[q]
    BY DEF StartFor, IndInv, TypeOK, Request, Starting, Phases
  <1>3. LocksFreed(r)
    BY <1>2 DEF LocksFreed, StartFor, Idle, Starting
  <1>4. OnRows(r)' /\ ReadsHold(r)'
    BY <1>1, <1>2 DEF OnRows, ReadsHold, Starting, Exists
  <1>5. QED
    BY <1>2, <1>3, <1>4, NothingWritten, LocksKeep, RequestStep

LEMMA StartWithKeeps ==
  ASSUME IndInv, NEW r \in Req, NEW op \in Ops, NEW t \in Txn, TxnExists(t),
         NEW attempt \in Attempts \cup {NULL},
         NEW pc \in {"succeeding", "failing", "existing", "submitting", "refunding"},
         pc = "refunding" => txns[t].booking # NULL,
         StartWith(r, pc, op, t, attempt),
         UNCHANGED <<bookings, held, txns, gateway, rowlock, receipts>>
  PROVE  IndInv'
  <1>1. txns[t] \in TxnRow
    BY RowFacts DEF IndInv
  <1>2. /\ req' \in [Req -> Request \cup {Idle}]
        /\ req'[r].pc = pc /\ req'[r].txn = t /\ req'[r].booking = txns[t].booking
        /\ req'[r].seen = NULL
        /\ \A q \in Req : q # r => req'[q] = req[q]
    BY <1>1 DEF StartWith, IndInv, TypeOK, Request, Phases, TxnRow
  <1>3. LocksFreed(r)
    BY <1>2 DEF LocksFreed, StartWith, Idle
  <1>4. OnRows(r)' /\ ReadsHold(r)'
    BY <1>2 DEF OnRows, ReadsHold, Starting, Phases, TxnExists
  <1>5. QED
    BY <1>2, <1>3, <1>4, NothingWritten, LocksKeep, RequestStep

LEMMA ReceiveKeeps ==
  ASSUME IndInv, NEW r \in Req, Receive(r)
  PROVE  IndInv'
  <1>0. /\ {"initiate", "upi", "callback", "captured", "failed", "submit", "verify",
            "reject", "refund"} = Ops
        /\ NULL \in Attempts \cup {NULL} /\ "accepted" \in Attempts
        /\ {"ordering", "choosing"} \subseteq Starting
    BY DEF Ops, Attempts, Starting
  <1>1. CASE InitiatePayment(r) \/ InitiateUpi(r)
    BY <1>0, <1>1, StartForKeeps DEF InitiatePayment, InitiateUpi
  <1>2. CASE CallbackUnsigned(r) \/ Callback(r)
    BY <1>0, <1>2, StartWithKeeps DEF CallbackUnsigned, Callback, OrderPlaced
  <1>3. CASE WebhookFailed(r) \/ \E t \in Txn : WebhookCaptured(r, t)
    BY <1>0, <1>3, StartWithKeeps DEF WebhookFailed, WebhookCaptured, OrderPlaced
  <1>4. CASE SubmitUtr(r) \/ VerifyUpi(r) \/ RejectUpi(r)
    <2>1. \A t \in Txn : Open(t) \/ txns[t].status = "processing" => TxnExists(t)
      BY DEF Open, TxnExists
    <2>2. QED
      BY <1>0, <1>4, <2>1, StartWithKeeps DEF SubmitUtr, VerifyUpi, RejectUpi
  <1>5. CASE InitiateRefund(r)
    <2>1. PICK b \in Booking, t \in Txn :
            SucceededFor(b) = {t} /\ StartWith(r, "refunding", "refund", t, NULL)
      BY <1>5 DEF InitiateRefund
    <2>2. TxnExists(t) /\ txns[t].booking # NULL
      BY <2>1, PaymentAssumption DEF SucceededFor, TxnExists
    <2>3. QED
      BY <1>0, <1>5, <2>1, <2>2, StartWithKeeps DEF InitiateRefund
  <1>6. QED
    BY <1>1, <1>2, <1>3, <1>4, <1>5 DEF Receive

-----------------------------------------------------------------------------
(* The steps of a request that write at most the payment's row.            *)

LEMMA BookingsUntouched ==
  ASSUME IndInv, UNCHANGED <<bookings, held, gateway, receipts>>, PaymentTableTypeOK',
         \A t \in Txn : TxnStep(t)
  PROVE  TableStep
  <1>1. \A t \in Txn : gateway[t].refunds >= gateway[t].refunds
    BY DEF IndInv, TypeOK, Order
  <1>2. QED
    BY <1>1 DEF TableStep, BookingStep, OrderStep, ReceiptStep, IndInv, TypeOK,
                BookingTableTypeOK

LEMMA InsertPaymentKeeps ==
  ASSUME IndInv, NEW r \in Req, req[r].pc \in Starting, NEW g \in Gateways, NEW t \in Txn,
         InsertTxn(t, req[r].booking, g, "initiated"), Finish(r),
         UNCHANGED <<bookings, held, gateway, rowlock, receipts>>
  PROVE  IndInv'
  <1>1. req[r].booking \in Booking /\ Exists(req[r].booking)
    BY DEF IndInv, OnRows
  <1>2. "initiated" \in TxnStatuses
    BY DEF TxnStatuses
  <1>3. /\ PaymentTableTypeOK' /\ ~TxnExists(t)
        /\ txns'[t].booking = req[r].booking /\ txns'[t].status = "initiated"
        /\ \A u \in Txn : u # t => txns'[u] = txns[u]
    BY <1>1, <1>2, InsertedTxn DEF IndInv
  <1>4. \A u \in Txn : TxnStep(u)
    BY <1>1, <1>2, <1>3 DEF TxnStep, Exists
  <1>5. TableStep
    BY <1>3, <1>4, BookingsUntouched
  <1>6. QED
    BY <1>5, EndKeeps DEF Starting

LEMMA PaymentWritten ==
  ASSUME IndInv, NEW r \in Req, req[r].pc \in Phases \ Starting,
         NEW s \in {"processing", "failed"}, UpdateTxn(r, s),
         UNCHANGED <<bookings, held, gateway, receipts>>
  PROVE  TableStep
  <1>1. req[r] \in Request /\ req[r].txn \in Txn /\ TxnExists(req[r].txn)
    BY RowFacts, StatusFacts DEF IndInv, OnRows
  <1>2. s \in TxnStatuses /\ s \notin {"success", "refunded"}
    BY DEF TxnStatuses
  <1>3. /\ PaymentTableTypeOK'
        /\ txns'[req[r].txn].booking = txns[req[r].txn].booking
        /\ txns'[req[r].txn].status \in {s, txns[req[r].txn].status}
        /\ \A u \in Txn : u # req[r].txn => txns'[u] = txns[u]
    BY <1>1, <1>2, UpdatedTxn DEF IndInv
  <1>4. \A u \in Txn : TxnStep(u)
    BY <1>1, <1>2, <1>3 DEF TxnStep
  <1>5. QED
    BY <1>3, <1>4, BookingsUntouched

LEMMA SmallStepsKeep ==
  ASSUME IndInv, NEW r \in Req,
         \/ InsertOrder(r) \/ ChooseTxn(r) \/ InsertUpi(r) \/ ReturnExisting(r)
         \/ CommitSubmit(r) \/ CommitFailure(r)
  PROVE  IndInv'
  <1>1. CASE InsertOrder(r) \/ InsertUpi(r)
    <2>1. {"razorpay", "upi_manual"} \subseteq Gateways /\ {"ordering", "opening"} \subseteq Starting
      BY DEF Gateways, Starting
    <2>2. QED
      BY <1>1, <2>1, InsertPaymentKeeps DEF InsertOrder, InsertUpi
  <1>2. CASE ChooseTxn(r)
    <2>1. TableStep /\ "opening" \in Phases
      BY <1>2, NothingWritten DEF ChooseTxn, Phases
    <2>2. CASE Finish(r)
      BY <1>2, <2>1, <2>2, EndKeeps DEF ChooseTxn
    <2>3. CASE Goto(r, "opening")
      <3>1. req'[r].pc = "opening" /\ req[r].pc = "choosing"
        BY <1>2, <2>3, RowFacts DEF ChooseTxn, Goto, IndInv, TypeOK, Request
      <3>2. LocksFreed(r) /\ (req[r].pc \in Starting <=> "opening" \in Starting)
        BY <1>2, <3>1 DEF LocksFreed, ChooseTxn, Starting
      <3>3. QED
        BY <2>1, <2>3, <3>1, <3>2, GotoKeeps
    <2>4. QED
      BY <1>2, <2>2, <2>3 DEF ChooseTxn
  <1>3. CASE ReturnExisting(r)
    BY <1>3, NothingWritten, EndKeeps DEF ReturnExisting
  <1>4. CASE CommitSubmit(r)
    <2>1. TableStep
      BY <1>4, PaymentWritten DEF CommitSubmit, Phases, Starting
    <2>2. QED
      BY <1>4, <2>1, EndKeeps DEF CommitSubmit
  <1>5. CASE CommitFailure(r)
    <2>1. TableStep /\ "failed" \in Phases
      BY <1>5, PaymentWritten DEF CommitFailure, Phases, Starting
    <2>2. req'[r].pc = "failed" /\ req[r].pc = "failing"
      BY <1>5, RowFacts DEF CommitFailure, Goto, IndInv, TypeOK, Request
    <2>3. LocksFreed(r) /\ (req[r].pc \in Starting <=> "failed" \in Starting)
      BY <1>5, <2>2 DEF LocksFreed, CommitFailure, Starting
    <2>4. QED
      BY <1>5, <2>1, <2>2, <2>3, GotoKeeps DEF CommitFailure
  <1>6. QED
    BY <1>1, <1>2, <1>3, <1>4, <1>5

-----------------------------------------------------------------------------
(* A success: lock the payment, read the booking, commit both.             *)

LEMMA FlushKeeps ==
  ASSUME IndInv, NEW r \in Req, FlushSuccess(r)
  PROVE  IndInv'
  <1> DEFINE t == req[r].txn
             b == req[r].booking
  <1>1. /\ req[r] \in Request /\ req[r].pc = "succeeding" /\ t \in Txn /\ TxnExists(t)
        /\ req[r].seen = NULL /\ b = txns[t].booking
    BY RowFacts
       DEF IndInv, FlushSuccess, OnRows, ReadsHold, Phases, Starting
  <1>2. b # NULL => b \in Booking /\ Exists(b) /\ bookings[b] \in Row
                    /\ bookings[b].status \in held[b]
    BY <1>1, TxnsBooking, RowFacts DEF IndInv, TablesAgree
  <1>3. /\ req' \in [Req -> Request \cup {Idle}]
        /\ req'[r].pc = "flushed" /\ req'[r].txn = t /\ req'[r].booking = b
        /\ b = NULL => req'[r].seen = NULL
        /\ b # NULL => req'[r].seen = bookings[b].status
        /\ \A q \in Req : q # r => req'[q] = req[q]
    <2>0. req \in [Req -> Request \cup {Idle}] /\ "flushed" \in Phases
      BY DEF IndInv, TypeOK, Phases
    <2>1. CASE b = NULL
      <3>1. req' = [req EXCEPT ![r].pc = "flushed"]
        BY <2>1, PaymentAssumption DEF FlushSuccess, Goto
      <3>2. [req[r] EXCEPT !.pc = "flushed"] \in Request
        BY <1>1, <2>0 DEF Request
      <3>3. req' = [req EXCEPT ![r] = [req[r] EXCEPT !.pc = "flushed"]]
        BY <2>0, <3>1
      <3>4. QED
        BY <1>1, <2>0, <2>1, <3>2, <3>3 DEF Request
    <2>2. CASE b # NULL
      <3> DEFINE new == [req[r] EXCEPT !.pc = "flushed", !.seen = bookings[b].status,
                                       !.read = bookings[b].version]
      <3>1. req' = [req EXCEPT ![r] = new]
        BY <2>0, <2>2 DEF FlushSuccess
      <3>2. bookings[b].status \in Statuses /\ bookings[b].version \in Nat
        BY <1>2, <2>2 DEF Row
      <3>3. /\ new \in Request /\ new.pc = "flushed" /\ new.txn = t /\ new.booking = b
            /\ new.seen = bookings[b].status
        BY <1>1, <2>0, <3>2 DEF Request
      <3> HIDE DEF new
      <3>4. QED
        BY <2>0, <2>2, <3>1, <3>3
    <2>3. QED
      BY <2>1, <2>2
  <1>4. /\ rowlock' = [rowlock EXCEPT ![t] = r] /\ rowlock[t] = NULL
        /\ rowlock \in [Txn -> Req \cup {NULL}]
    BY DEF FlushSuccess, Unlocked, IndInv, TypeOK
  <1>5. RowLockHasOwner'
    <2> SUFFICES ASSUME NEW u \in Txn, rowlock'[u] # NULL
                 PROVE  req'[rowlock'[u]].pc = "flushed" /\ req'[rowlock'[u]].txn = u
      BY DEF RowLockHasOwner
    <2>1. CASE u = t
      BY <1>1, <1>3, <1>4, <2>1
    <2>2. CASE u # t
      <3>1. rowlock'[u] = rowlock[u] /\ rowlock[u] \in Req
        BY <1>1, <1>4, <2>2
      <3>2. req[rowlock[u]].pc = "flushed" /\ req[rowlock[u]].txn = u
        BY <3>1 DEF IndInv, RowLockHasOwner
      <3>3. QED
        BY <1>1, <1>3, <3>1, <3>2
    <2>3. QED
      BY <2>1, <2>2
  <1>6. ASSUME NEW q \in Req, q # r, req[q].pc = "flushed"
        PROVE  rowlock'[req[q].txn] = q
    <2>1. req[q].txn \in Txn /\ rowlock[req[q].txn] = q
      BY <1>6 DEF IndInv, OnRows, ReadsHold, Phases, Starting
    <2>2. QED
      BY <1>1, <1>4, <2>1, PaymentAssumption
  <1>7. OnRows(r)'
    BY <1>1, <1>3 DEF FlushSuccess, OnRows, Starting, TxnExists
  <1>8. ReadsHold(r)'
    BY <1>1, <1>2, <1>3, <1>4 DEF FlushSuccess, ReadsHold
  <1>9. TableStep
    BY NothingWritten DEF FlushSuccess
  <1>10. QED
    BY <1>1, <1>3, <1>4, <1>5, <1>6, <1>7, <1>8, <1>9, RequestStep

(***************************************************************************)
(* A COMMIT that writes a payment and, if it has one, its booking.         *)
(***************************************************************************)
LEMMA BothWritten ==
  ASSUME IndInv, NEW r \in Req, req[r].pc \in Phases \ Starting,
         NEW s \in {"success", "refunded"}, UpdateTxn(r, s),
         \A b \in Booking : BookingStep(b),
         BookingTableTypeOK', UNCHANGED <<gateway, receipts>>,
         req[r].booking # NULL => bookings'[req[r].booking].status # "pending",
         s = "refunded" => gateway[req[r].txn].refunds > 0
  PROVE  TableStep
  <1> DEFINE t == req[r].txn
  <1>1. req[r] \in Request /\ t \in Txn /\ TxnExists(t) /\ req[r].booking = txns[t].booking
    BY RowFacts, StatusFacts DEF IndInv, OnRows
  <1>2. s \in TxnStatuses
    BY DEF TxnStatuses
  <1>3. /\ PaymentTableTypeOK'
        /\ txns'[t].booking = txns[t].booking
        /\ txns'[t].status \in {s, txns[t].status}
        /\ \A u \in Txn : u # t => txns'[u] = txns[u]
    BY <1>1, <1>2, UpdatedTxn DEF IndInv
  <1>4. TxnStep(t)
    BY <1>1, <1>2, <1>3 DEF TxnStep
  <1>5. \A u \in Txn : TxnStep(u)
    BY <1>3, <1>4 DEF TxnStep
  <1>6. \A u \in Txn : gateway[u].refunds >= gateway[u].refunds
    BY DEF IndInv, TypeOK, Order
  <1>7. QED
    BY <1>3, <1>5, <1>6 DEF TableStep, OrderStep, ReceiptStep, IndInv, TypeOK

LEMMA CommitSuccessKeeps ==
  ASSUME IndInv, NEW r \in Req, CommitSuccess(r)
  PROVE  IndInv'
  <1> DEFINE b == req[r].booking
  <1>1. /\ req[r] \in Request /\ req[r].pc = "flushed" /\ ReadsHold(r)
        /\ req[r].pc \in Phases \ Starting
    BY RowFacts DEF IndInv, CommitSuccess, Phases, Starting
  <1>2. b # NULL => b \in Booking /\ Exists(b)
    BY <1>1, RequestsBooking
  <1>3. /\ \A a \in Booking : BookingStep(a)
        /\ BookingTableTypeOK'
        /\ b # NULL => bookings'[b].status # "pending"
    <2>1. CASE req[r].seen = "pending"
      <3>1. b # NULL
        BY <1>1, <2>1, PaymentAssumption DEF ReadsHold, Statuses
      <3>2. req[r].read + 1 \in Nat /\ "confirmed" \in Statuses
        BY <1>1 DEF Request, Statuses
      <3>3. /\ BookingTableTypeOK'
            /\ bookings'[b].status = "confirmed" /\ held'[b] = held[b] \cup {"confirmed"}
            /\ \A a \in Booking : a # b => bookings'[a] = bookings[a] /\ held'[a] = held[a]
        BY <1>2, <2>1, <3>1, <3>2, WrittenStatus DEF CommitSuccess, IndInv
      <3>4. QED
        BY <1>2, <3>1, <3>2, <3>3 DEF BookingStep
    <2>2. CASE req[r].seen # "pending"
      <3>1. UNCHANGED <<bookings, held>>
        BY <2>2 DEF CommitSuccess
      <3>2. QED
        BY <1>1, <2>2, <3>1 DEF BookingStep, ReadsHold, IndInv, TypeOK, BookingTableTypeOK
    <2>3. QED
      BY <2>1, <2>2
  <1>4. TableStep
    BY <1>1, <1>3, BothWritten DEF CommitSuccess
  <1>5. req'[r].pc = "committed" /\ "committed" \in Phases
    BY <1>1 DEF CommitSuccess, Goto, IndInv, TypeOK, Request, Phases
  <1>6. LocksFreed(r) /\ (req[r].pc \in Starting <=> "committed" \in Starting)
    BY <1>1, <1>5 DEF LocksFreed, CommitSuccess, Starting
  <1>7. QED
    BY <1>1, <1>3, <1>4, <1>5, <1>6, GotoKeeps DEF CommitSuccess

-----------------------------------------------------------------------------
(* A refund.                                                               *)

LEMMA OrderWritten ==
  ASSUME IndInv, NEW t \in Txn, NEW order \in Order, order.refunds >= gateway[t].refunds,
         gateway' = [gateway EXCEPT ![t] = order],
         UNCHANGED <<bookings, held, txns, receipts>>
  PROVE  TableStep
  <1>1. gateway \in [Txn -> Order] /\ \A u \in Txn : gateway[u].refunds \in Nat
    BY DEF IndInv, TypeOK, Order
  <1>2. \A u \in Txn : gateway'[u].refunds >= gateway[u].refunds
    BY <1>1
  <1>3. gateway' \in [Txn -> Order]
    BY <1>1
  <1>4. QED
    BY <1>2, <1>3 DEF TableStep, BookingStep, TxnStep, OrderStep, ReceiptStep, IndInv, TypeOK,
                      BookingTableTypeOK, PaymentTableTypeOK

LEMMA GatewayRefundKeeps ==
  ASSUME IndInv, NEW r \in Req, GatewayRefund(r)
  PROVE  IndInv'
  <1> DEFINE t == req[r].txn
             b == req[r].booking
  <1>1. /\ req[r] \in Request /\ req[r].pc = "refunding" /\ t \in Txn /\ b # NULL
        /\ OnRows(r) /\ req[r].pc \in Phases \ Starting
    BY RowFacts DEF IndInv, GatewayRefund, OnRows, ReadsHold, Phases, Starting
  <1>2. b \in Booking /\ Exists(b) /\ bookings[b] \in Row /\ bookings[b].status \in held[b]
    BY <1>1, RequestsBooking, RowFacts DEF IndInv, TablesAgree
  <1>3. CASE Finish(r) /\ UNCHANGED gateway
    <2>1. TableStep
      BY <1>3, NothingWritten DEF GatewayRefund
    <2>2. QED
      BY <1>1, <1>3, <2>1, EndKeeps DEF GatewayRefund
  <1>4. CASE /\ gateway' = [gateway EXCEPT ![t].refunds = @ + 1]
             /\ req' = [req EXCEPT ![r].pc = "returned",
                                   ![r].seen = bookings[b].status,
                                   ![r].read = bookings[b].version]
    <2> DEFINE order == [gateway[t] EXCEPT !.refunds = @ + 1]
               new == [req[r] EXCEPT !.pc = "returned", !.seen = bookings[b].status,
                                     !.read = bookings[b].version]
    <2>1. gateway \in [Txn -> Order] /\ req \in [Req -> Request \cup {Idle}]
      BY DEF IndInv, TypeOK
    <2>2. /\ order \in Order /\ gateway[t].refunds \in Nat
          /\ order.refunds = gateway[t].refunds + 1
      BY <1>1, <2>1 DEF Order
    <2>3. /\ new \in Request /\ new.pc = "returned" /\ new.txn = t /\ new.booking = b
          /\ new.seen = bookings[b].status
      BY <1>1, <1>2 DEF Request, Row, Phases
    <2>4. gateway' = [gateway EXCEPT ![t] = order] /\ req' = [req EXCEPT ![r] = new]
      BY <1>4, <2>1
    <2> HIDE DEF order, new
    <2>5. /\ req' \in [Req -> Request \cup {Idle}] /\ req'[r] = new
          /\ \A q \in Req : q # r => req'[q] = req[q]
      BY <2>1, <2>3, <2>4
    <2>6. gateway'[t].refunds > 0 /\ order.refunds >= gateway[t].refunds
      BY <1>1, <2>1, <2>2, <2>4
    <2>7. TableStep
      BY <1>1, <2>2, <2>4, <2>6, OrderWritten DEF GatewayRefund
    <2>8. LocksFreed(r)
      BY <1>1, <2>3, <2>5 DEF LocksFreed, GatewayRefund
    <2>9. OnRows(r)'
      BY <1>1, <2>3, <2>5 DEF GatewayRefund, OnRows, Starting, TxnExists
    <2>10. ReadsHold(r)'
      BY <1>1, <1>2, <2>3, <2>5, <2>6 DEF GatewayRefund, ReadsHold
    <2>11. QED
      BY <2>5, <2>7, <2>8, <2>9, <2>10, LocksKeep, RequestStep
  <1>5. QED
    BY <1>3, <1>4 DEF GatewayRefund

(* Writing a refund status, which presupposes the cancellation.            *)
LEMMA RefundWritten ==
  ASSUME IndInv, NEW b \in Booking, Exists(b), NEW v \in Nat,
         NEW s \in {"refund_pending", "refunded"}, UpdateStatus(b, s, v),
         "cancelled" \in held[b],
         \E t \in Txn : TxnExists(t) /\ txns[t].booking = b /\ gateway[t].refunds > 0
  PROVE  /\ \A a \in Booking : BookingStep(a)
         /\ BookingTableTypeOK' /\ s \in held'[b] /\ bookings'[b].status = s
  <1>1. s \in Statuses \ {"pending"}
    BY DEF Statuses
  <1>2. /\ BookingTableTypeOK'
        /\ bookings'[b].status = s /\ held'[b] = held[b] \cup {s}
        /\ \A a \in Booking : a # b => bookings'[a] = bookings[a] /\ held'[a] = held[a]
    BY <1>1, WrittenStatus DEF IndInv
  <1>3. QED
    BY <1>1, <1>2 DEF BookingStep

LEMMA CommitRefundKeeps ==
  ASSUME IndInv, NEW r \in Req, CommitRefund(r)
  PROVE  IndInv'
  <1> DEFINE t == req[r].txn
             b == req[r].booking
  <1>1. /\ req[r] \in Request /\ req[r].pc = "returned" /\ t \in Txn /\ b # NULL
        /\ TxnExists(t) /\ b = txns[t].booking /\ gateway[t].refunds > 0
        /\ req[r].seen \in held[b] /\ req[r].pc \in Phases \ Starting
    BY RowFacts DEF IndInv, CommitRefund, OnRows, ReadsHold, Phases, Starting
  <1>2. b \in Booking /\ Exists(b)
    BY <1>1, RequestsBooking
  <1>3. CASE Finish(r) /\ UNCHANGED <<bookings, held, txns>>
    <2>1. TableStep
      BY <1>3, NothingWritten DEF CommitRefund
    <2>2. QED
      BY <1>1, <1>3, <2>1, EndKeeps DEF CommitRefund
  <1>4. CASE /\ MayTransition(req[r].seen, "refund_pending")
             /\ UpdateTxn(r, "refunded")
             /\ UpdateStatus(b, "refund_pending", req[r].read + 1)
             /\ Goto(r, "half refunded")
    <2>a. req[r].read + 1 \in Nat
      BY <1>1 DEF Request
    <2>b. req[r].seen = "cancelled"
      BY <1>4, StatusFacts
    <2>1. "cancelled" \in held[b] /\ req[r].read + 1 \in Nat
      BY <1>1, <2>a, <2>b
    <2>2. /\ \A a \in Booking : BookingStep(a)
          /\ BookingTableTypeOK'
          /\ "refund_pending" \in held'[b] /\ bookings'[b].status = "refund_pending"
      BY <1>1, <1>2, <1>4, <2>1, RefundWritten
    <2>3. TableStep
      BY <1>1, <1>4, <2>2, BothWritten DEF CommitRefund
    <2>4. req'[r].pc = "half refunded" /\ "half refunded" \in Phases
      BY <1>1, <1>4 DEF Goto, IndInv, TypeOK, Request, Phases
    <2>5. LocksFreed(r) /\ (req[r].pc \in Starting <=> "half refunded" \in Starting)
      BY <1>1, <2>4 DEF LocksFreed, CommitRefund, Starting
    <2>6. QED
      BY <1>1, <1>4, <2>2, <2>3, <2>4, <2>5, GotoKeeps
  <1>5. QED
    BY <1>3, <1>4 DEF CommitRefund

LEMMA CompleteRefundKeeps ==
  ASSUME IndInv, NEW r \in Req, CompleteRefund(r)
  PROVE  IndInv'
  <1> DEFINE t == req[r].txn
             b == req[r].booking
  <1>1. /\ req[r] \in Request /\ req[r].pc = "half refunded" /\ t \in Txn /\ b # NULL
        /\ TxnExists(t) /\ b = txns[t].booking /\ gateway[t].refunds > 0
        /\ "refund_pending" \in held[b] /\ req[r].pc \in Phases \ Starting
    BY RowFacts DEF IndInv, CompleteRefund, OnRows, ReadsHold, Phases, Starting
  <1>2. b \in Booking /\ Exists(b)
    BY <1>1, RequestsBooking
  <1>3. "cancelled" \in held[b] /\ req[r].read + 2 \in Nat
    <2>1. "cancelled" \in held[b]
      BY <1>1, <1>2 DEF IndInv, RefundedWasCancelled
    <2>2. req[r].read \in Nat
      BY <1>1 DEF Request
    <2>3. QED
      BY <2>1, <2>2
  <1>4. /\ \A a \in Booking : BookingStep(a)
        /\ BookingTableTypeOK' /\ bookings'[b].status = "refunded"
    BY <1>1, <1>2, <1>3, RefundWritten DEF CompleteRefund
  <1>5. TableStep
    <2>1. \A u \in Txn : gateway[u].refunds >= gateway[u].refunds
      BY DEF IndInv, TypeOK, Order
    <2>2. QED
      BY <1>4, <2>1 DEF TableStep, TxnStep, OrderStep, ReceiptStep, CompleteRefund, IndInv,
                        TypeOK, PaymentTableTypeOK
  <1>6. req'[r].pc = "committed" /\ "committed" \in Phases
    BY <1>1 DEF CompleteRefund, Goto, IndInv, TypeOK, Request, Phases
  <1>7. LocksFreed(r) /\ (req[r].pc \in Starting <=> "committed" \in Starting)
    BY <1>1, <1>6 DEF LocksFreed, CompleteRefund, Starting
  <1>8. QED
    BY <1>1, <1>4, <1>5, <1>6, <1>7, GotoKeeps DEF CompleteRefund

-----------------------------------------------------------------------------
(* The end of a request; the gateway and the other services.               *)

LEMMA EmitKeeps ==
  ASSUME IndInv, NEW r \in Req, Emit(r)
  PROVE  IndInv'
  <1>1. TableStep
    <2>1. CASE UNCHANGED receipts
      BY <2>1, NothingWritten DEF Emit
    <2>2. CASE req[r].pc = "committed" /\ receipts' = receipts \cup {req[r].txn}
      <3>1. req[r].txn \in Txn /\ TxnExists(req[r].txn)
            /\ req[r].booking = txns[req[r].txn].booking
        BY <2>2 DEF IndInv, OnRows, Phases, Starting
      <3>2. ReceiptStep
        BY <2>2, <3>1 DEF ReceiptStep, IndInv, ReadsHold
      <3>3. \A t \in Txn : gateway[t].refunds >= gateway[t].refunds
        BY DEF IndInv, TypeOK, Order
      <3>4. QED
        BY <2>2, <3>1, <3>2, <3>3
           DEF Emit, TableStep, BookingStep, TxnStep, OrderStep, IndInv, TypeOK,
               BookingTableTypeOK, PaymentTableTypeOK
    <2>3. QED
      BY <2>1, <2>2 DEF Emit
  <1>2. QED
    BY <1>1, EndKeeps DEF Emit

LEMMA GatewayKeeps == ASSUME IndInv, Gateway PROVE IndInv'
  <1>1. gateway \in [Txn -> Order]
    BY DEF IndInv, TypeOK
  <1>2. PICK t \in Txn :
          \/ gateway' = [gateway EXCEPT ![t].declined = TRUE]
          \/ gateway' = [gateway EXCEPT ![t].accepted = "authorized"]
          \/ gateway' = [gateway EXCEPT ![t].accepted = "captured"]
    BY DEF Gateway
  <1>3. \E order \in Order : /\ order.refunds >= gateway[t].refunds
                             /\ gateway' = [gateway EXCEPT ![t] = order]
    <2>1. CASE gateway' = [gateway EXCEPT ![t].declined = TRUE]
      <3> DEFINE order == [gateway[t] EXCEPT !.declined = TRUE]
      <3>a. gateway[t] \in Order
        BY <1>1
      <3>b. order \in Order
        BY <3>a DEF Order
      <3>c. order.refunds = gateway[t].refunds /\ gateway[t].refunds \in Nat
        BY <3>a DEF Order
      <3>1. order \in Order /\ order.refunds >= gateway[t].refunds
        BY <3>b, <3>c
      <3>2. gateway' = [gateway EXCEPT ![t] = order]
        BY <1>1, <2>1
      <3>3. QED
        BY <3>1, <3>2
    <2>2. ASSUME NEW a \in {"authorized", "captured"},
                 gateway' = [gateway EXCEPT ![t].accepted = a]
          PROVE  \E order \in Order : /\ order.refunds >= gateway[t].refunds
                                      /\ gateway' = [gateway EXCEPT ![t] = order]
      <3> DEFINE order == [gateway[t] EXCEPT !.accepted = a]
      <3>a. gateway[t] \in Order /\ a \in {"no", "authorized", "captured"}
        BY <1>1
      <3>b. order \in Order
        BY <3>a DEF Order
      <3>c. order.refunds = gateway[t].refunds /\ gateway[t].refunds \in Nat
        BY <3>a DEF Order
      <3>1. order \in Order /\ order.refunds >= gateway[t].refunds
        BY <3>b, <3>c
      <3>2. gateway' = [gateway EXCEPT ![t] = order]
        BY <1>1, <2>2
      <3>3. QED
        BY <3>1, <3>2
    <2>3. QED
      BY <1>2, <2>1, <2>2
  <1>4. TableStep
    BY <1>3, OrderWritten DEF Gateway
  <1>5. QED
    BY <1>4, EnvironmentKeeps DEF Gateway

LEMMA OtherCreationsStep ==
  ASSUME IndInv, OtherCreations, UNCHANGED <<gateway, req, rowlock, receipts>>
  PROVE  TableStep
  <1>0. /\ \A u \in Txn : gateway[u].refunds >= gateway[u].refunds
        /\ {"upi_manual", "manual"} \subseteq Gateways
        /\ {"initiated", "success"} \subseteq TxnStatuses
    BY DEF IndInv, TypeOK, Order, Gateways, TxnStatuses
  <1>1. CASE \E t \in Txn : InsertTxn(t, NULL, "upi_manual", "initiated")
             /\ UNCHANGED <<bookings, held>>
    <2>1. PICK t \in Txn : InsertTxn(t, NULL, "upi_manual", "initiated")
      BY <1>1
    <2>2. /\ PaymentTableTypeOK' /\ ~TxnExists(t)
          /\ txns'[t].booking = NULL /\ txns'[t].status = "initiated"
          /\ \A u \in Txn : u # t => txns'[u] = txns[u]
      BY <1>0, <2>1, InsertedTxn DEF IndInv
    <2>a. "initiated" \in TxnStatuses
      BY <1>0
    <2>3. TxnStep(t)
      BY <2>a, <2>2 DEF TxnStep
    <2>4. \A u \in Txn : TxnStep(u)
      BY <2>2, <2>3 DEF TxnStep
    <2>5. QED
      BY <1>1, <2>2, <2>4, BookingsUntouched
  <1>2. ASSUME NEW b \in Booking, NEW slot \in OtherSlots, NEW c \in Coupon \cup {NULL},
               NEW first \in LiveStatuses, InsertRow(b, first, slot, c),
               \/ UNCHANGED txns
               \/ first = "confirmed" /\ \E t \in Txn : InsertTxn(t, b, "manual", "success")
        PROVE  TableStep
    <2>1. /\ BookingTableTypeOK' /\ ~Exists(b)
          /\ bookings'[b].status = first /\ held'[b] = {first}
          /\ \A a \in Booking : a # b => bookings'[a] = bookings[a] /\ held'[a] = held[a]
      BY <1>2, InsertedRow, PaymentAssumption DEF IndInv
    <2>2. \A a \in Booking : BookingStep(a)
      BY <2>1 DEF BookingStep
    <2>3. (\A u \in Txn : TxnStep(u)) /\ PaymentTableTypeOK'
      <3>1. CASE UNCHANGED txns
        BY <3>1 DEF TxnStep, IndInv, TypeOK, PaymentTableTypeOK
      <3>2. ASSUME NEW t \in Txn, first = "confirmed", InsertTxn(t, b, "manual", "success")
            PROVE  (\A u \in Txn : TxnStep(u)) /\ PaymentTableTypeOK'
        <4>1. /\ PaymentTableTypeOK' /\ ~TxnExists(t)
              /\ txns'[t].booking = b /\ txns'[t].status = "success"
              /\ \A u \in Txn : u # t => txns'[u] = txns[u]
          BY <1>0, <3>2, InsertedTxn DEF IndInv
        <4>2. QED
          BY <1>0, <2>1, <3>2, <4>1 DEF TxnStep
      <3>3. QED
        BY <1>2, <3>1, <3>2
    <2>4. QED
      BY <1>0, <2>1, <2>2, <2>3 DEF TableStep, OrderStep, ReceiptStep, IndInv, TypeOK
  <1>3. QED
    BY <1>1, <1>2 DEF OtherCreations

LEMMA OtherTransitionsStep ==
  ASSUME IndInv, OtherTransitions, UNCHANGED <<gateway, req, rowlock, receipts>>
  PROVE  TableStep
  <1>1. PICK b \in Booking, s \in Statuses :
          /\ s \in held[b]
          /\ \/ \E target \in {"confirmed", "completed", "no_show"} :
                  UpdateStatus(b, target, bookings[b].version + 1)
             \/ \E refund \in RefundAmount \cup {bookings[b].refund_amount} :
                  UpdateCancelled(b, refund, bookings[b].version + 1)
    BY DEF OtherTransitions
  <1>2. Exists(b)
    BY <1>1 DEF IndInv, TablesAgree
  <1>a. bookings[b] \in Row
    BY <1>2, RowFacts DEF IndInv
  <1>3. /\ bookings[b].version + 1 \in Nat
        /\ bookings[b].refund_amount \in RefundAmount \cup {NULL}
    BY <1>a DEF Row
  <1>4. \E target \in {"confirmed", "completed", "no_show", "cancelled"} :
          /\ BookingTableTypeOK'
          /\ bookings'[b].status = target /\ held'[b] = held[b] \cup {target}
          /\ \A a \in Booking : a # b => bookings'[a] = bookings[a] /\ held'[a] = held[a]
    <2>1. {"confirmed", "completed", "no_show", "cancelled"} \subseteq Statuses
      BY DEF Statuses
    <2>2. CASE \E target \in {"confirmed", "completed", "no_show"} :
                  UpdateStatus(b, target, bookings[b].version + 1)
      BY <1>2, <1>3, <2>1, <2>2, WrittenStatus DEF IndInv
    <2>3. CASE \E refund \in RefundAmount \cup {bookings[b].refund_amount} :
                  UpdateCancelled(b, refund, bookings[b].version + 1)
      BY <1>2, <1>3, <2>1, <2>3, WrittenCancelled DEF IndInv
    <2>4. QED
      BY <1>1, <2>2, <2>3
  <1>5. \A a \in Booking : BookingStep(a)
    BY <1>2, <1>4 DEF BookingStep, Statuses
  <1>6. \A u \in Txn : gateway[u].refunds >= gateway[u].refunds
    BY DEF IndInv, TypeOK, Order
  <1>7. QED
    BY <1>4, <1>5, <1>6
       DEF OtherTransitions, TableStep, TxnStep, OrderStep, ReceiptStep, IndInv, TypeOK,
           PaymentTableTypeOK

-----------------------------------------------------------------------------

LEMMA IndInvInit == Init => IndInv
  <1> SUFFICES ASSUME Init PROVE IndInv
    OBVIOUS
  <1> USE DEF Init, BookingTableInit, PaymentTableInit
  <1>1. TypeOK
    <2>1. NoOrder \in Order
      BY DEF NoOrder, Order
    <2>2. QED
      BY <2>1 DEF TypeOK, BookingTableTypeOK, PaymentTableTypeOK
  <1>2. TablesAgree /\ RowLockHasOwner
    BY DEF TablesAgree, RowLockHasOwner, Exists, TxnExists, NoRow, NoTxn
  <1>3. \A r \in Req : OnRows(r) /\ ReadsHold(r)
    BY DEF OnRows, ReadsHold, Idle, Phases, Starting
  <1>4. SuccessLeavesPending /\ ReceiptsAreTrue
    BY DEF SuccessLeavesPending, ReceiptsAreTrue, TxnExists, NoTxn
  <1>5. RecordedRefundsWereMade /\ RefundedWasCancelled
    BY DEF RecordedRefundsWereMade, RefundedWasCancelled, NoTxn
  <1>6. QED
    BY <1>1, <1>2, <1>3, <1>4, <1>5 DEF IndInv

LEMMA IndInvStep == IndInv /\ [Next]_vars => IndInv'
  <1> SUFFICES ASSUME IndInv, [Next]_vars PROVE IndInv'
    OBVIOUS
  <1>1. ASSUME NEW r \in Req, Proceed(r) PROVE IndInv'
    BY <1>1, SmallStepsKeep, FlushKeeps, CommitSuccessKeeps, GatewayRefundKeeps,
       CommitRefundKeeps, CompleteRefundKeeps, EmitKeeps DEF Proceed
  <1>2. ASSUME NEW r \in Req, Fail(r) PROVE IndInv'
    BY <1>2, NothingWritten, EndKeeps DEF Fail
  <1>3. CASE OtherRequests
    BY <1>3, OtherCreationsStep, OtherTransitionsStep, EnvironmentKeeps DEF OtherRequests
  <1>4. CASE UNCHANGED vars
    BY <1>4, NothingWritten, EnvironmentKeeps DEF vars
  <1>5. QED
    BY <1>1, <1>2, <1>3, <1>4, ReceiveKeeps, GatewayKeeps DEF Next

(***************************************************************************)
(* Types, locks, what requests know and the invariants of the tables hold  *)
(* in every reachable state.                                               *)
(***************************************************************************)
THEOREM PaymentInvariant == Spec => []IndInv
  BY IndInvInit, IndInvStep, PTL DEF Spec

(***************************************************************************)
(* No customer has paid and still holds a pending booking.                 *)
(***************************************************************************)
THEOREM PaidIsNotPending == Spec => []SuccessLeavesPending
  <1>1. IndInv => SuccessLeavesPending
    BY DEF IndInv
  <1>2. QED
    BY <1>1, PaymentInvariant, PTL

(***************************************************************************)
(* A receipt that was mailed stays true: its booking never goes back to    *)
(* pending, also when the payment itself was marked failed since.          *)
(***************************************************************************)
THEOREM ReceiptsStayTrue == Spec => []ReceiptsAreTrue
  <1>1. IndInv => ReceiptsAreTrue
    BY DEF IndInv
  <1>2. QED
    BY <1>1, PaymentInvariant, PTL

(***************************************************************************)
(* What is recorded as refunded was given back by the gateway, and for a   *)
(* booking that had been cancelled.                                        *)
(***************************************************************************)
THEOREM RefundsAreReal == Spec => [](RecordedRefundsWereMade /\ RefundedWasCancelled)
  <1>1. IndInv => RecordedRefundsWereMade /\ RefundedWasCancelled
    BY DEF IndInv
  <1>2. QED
    BY <1>1, PaymentInvariant, PTL

(***************************************************************************)
(* Two handlers of one payment never both hold its row, so they never both *)
(* confirm its booking; and no lock outlives its request.                  *)
(***************************************************************************)
THEOREM OneHandlerAtATime == Spec => [](OneConfirmsAtATime /\ RowLockHasOwner)
  <1>1. IndInv => OneConfirmsAtATime /\ RowLockHasOwner
    <2> SUFFICES ASSUME IndInv, NEW q \in Req, NEW r \in Req, q # r,
                        req[q].pc = "flushed", req[r].pc = "flushed"
                 PROVE  req[q].txn # req[r].txn
      BY DEF OneConfirmsAtATime, IndInv
    <2>1. rowlock[req[q].txn] = q /\ rowlock[req[r].txn] = r
      BY DEF IndInv, ReadsHold
    <2>2. QED
      BY <2>1
  <1>2. QED
    BY <1>1, PaymentInvariant, PTL

-----------------------------------------------------------------------------
(* Refinement: a new booking is Reserve, a status write is Move, all else  *)
(* stutters.                                                               *)

LEMMA SameStateMachine ==
  /\ Ledger!Statuses = Statuses /\ Ledger!LiveStatuses = LiveStatuses
  /\ \A s, t : MayTransition(s, t) => Ledger!MayTransition(s, t)
  BY DEF Ledger!Statuses, Statuses, Ledger!LiveStatuses, LiveStatuses,
         Ledger!MayTransition, MayTransition, Ledger!TRANSITIONS, TRANSITIONS

LEMMA WriteMoves ==
  ASSUME NEW b \in Booking, Exists(b), NEW target \in Statuses,
         \E s \in held[b] : MayTransition(s, target),
         bookings'[b].status = target, bookings'[b].slot = bookings[b].slot,
         \A c \in Booking : c # b => bookings'[c] = bookings[c],
         held' = [held EXCEPT ![b] = @ \cup {target}]
  PROVE  Ledger!Next
  <1> DEFINE status == [c \in Booking |-> bookings[c].status]
             slot == [c \in Booking |-> IF Exists(c) THEN bookings[c].slot ELSE NULL]
  <1>1. status[b] # "absent" /\ target # "absent"
    BY StatusFacts DEF Exists
  <1>2. status' = [status EXCEPT ![b] = target]
    <2>1. \A c \in Booking : status'[c] = IF c = b THEN target ELSE status[c]
      OBVIOUS
    <2>2. QED
      BY <2>1
  <1>3. slot' = slot
    <2>1. \A c \in Booking : Exists(c)' <=> Exists(c)
      BY <1>1 DEF Exists
    <2>2. QED
      BY <2>1
  <1>4. Ledger!Move(b, target)
    BY <1>1, <1>2, <1>3, SameStateMachine DEF Ledger!Move
  <1>5. QED
    BY <1>4, SameStateMachine DEF Ledger!Next

LEMMA InsertReserves ==
  ASSUME NEW b \in Booking, ~Exists(b), NEW s \in TimeRange, NEW first \in LiveStatuses,
         bookings'[b].status = first, bookings'[b].slot = s,
         \A c \in Booking : c # b => bookings'[c] = bookings[c],
         held' = [held EXCEPT ![b] = {first}]
  PROVE  Ledger!Next
  <1> DEFINE status == [c \in Booking |-> bookings[c].status]
             slot == [c \in Booking |-> IF Exists(c) THEN bookings[c].slot ELSE NULL]
  <1>1. status[b] = "absent" /\ first # "absent"
    BY StatusFacts DEF Exists
  <1>2. status' = [status EXCEPT ![b] = first]
    <2>1. \A c \in Booking : status'[c] = IF c = b THEN first ELSE status[c]
      OBVIOUS
    <2>2. QED
      BY <2>1
  <1>3. slot' = [slot EXCEPT ![b] = s]
    <2>1. \A c \in Booking : Exists(c)' <=> (c = b \/ Exists(c))
      BY <1>1 DEF Exists
    <2>2. \A c \in Booking : slot'[c] = IF c = b THEN s ELSE slot[c]
      BY <2>1
    <2>3. QED
      BY <2>2
  <1>4. Ledger!Reserve(b, s, first)
    BY <1>1, <1>2, <1>3 DEF Ledger!Reserve
  <1>5. QED
    BY <1>4, SameStateMachine DEF Ledger!Next

(* An UPDATE of a status that was legal for one the row has held.          *)
LEMMA UpdateMoves ==
  ASSUME TypeOK, NEW b \in Booking, Exists(b), NEW target \in Statuses, NEW v \in Nat,
         UpdateStatus(b, target, v), \E s \in held[b] : MayTransition(s, target)
  PROVE  Ledger!Next
  BY WrittenStatus, WriteMoves

LEMMA RequestMoves ==
  ASSUME IndInv, NEW r \in Req, NEW target \in Statuses, NEW k \in Nat,
         req[r].pc \in Phases \ Starting, req[r].booking # NULL,
         UpdateStatus(req[r].booking, target, req[r].read + k),
         \E s \in held[req[r].booking] : MayTransition(s, target)
  PROVE  Ledger!Next
  <1>1. req[r].read \in Nat
    BY RowFacts, StatusFacts DEF IndInv, Request
  <1>2. req[r].read + k \in Nat
    BY <1>1
  <1>3. QED
    BY <1>2, RequestsBooking, UpdateMoves DEF IndInv

LEMMA SuccessMoves ==
  ASSUME IndInv, NEW r \in Req, CommitSuccess(r), req[r].seen = "pending"
  PROVE  Ledger!Next
  <1>1. /\ req[r].pc \in Phases \ Starting /\ req[r].booking # NULL
        /\ req[r].seen \in held[req[r].booking]
    BY PaymentAssumption
       DEF IndInv, CommitSuccess, ReadsHold, Phases, Starting, Statuses
  <1>2. MayTransition("pending", "confirmed") /\ "confirmed" \in Statuses
    BY DEF MayTransition, TRANSITIONS, Statuses
  <1>3. QED
    BY <1>1, <1>2, RequestMoves DEF CommitSuccess

LEMMA RefundMoves ==
  ASSUME IndInv, NEW r \in Req,
         \/ CommitRefund(r) /\ ~UNCHANGED <<bookings, held>>
         \/ CompleteRefund(r)
  PROVE  Ledger!Next
  <1>1. /\ req[r].pc \in {"returned", "half refunded"}
        /\ req[r].pc \in Phases \ Starting /\ req[r].booking # NULL
    BY DEF IndInv, CommitRefund, CompleteRefund, ReadsHold, Phases, Starting
  <1>2. CASE CommitRefund(r) /\ ~UNCHANGED <<bookings, held>>
    <2>1. /\ MayTransition(req[r].seen, "refund_pending")
          /\ UpdateStatus(req[r].booking, "refund_pending", req[r].read + 1)
          /\ req[r].seen \in held[req[r].booking]
      BY <1>2 DEF CommitRefund, IndInv, ReadsHold
    <2>2. "refund_pending" \in Statuses
      BY DEF Statuses
    <2>3. QED
      BY <1>1, <2>1, <2>2, RequestMoves
  <1>3. CASE CompleteRefund(r)
    <2>1. /\ UpdateStatus(req[r].booking, "refunded", req[r].read + 2)
          /\ "refund_pending" \in held[req[r].booking]
      BY <1>3 DEF CompleteRefund, IndInv, ReadsHold
    <2>2. MayTransition("refund_pending", "refunded") /\ "refunded" \in Statuses
      BY DEF MayTransition, TRANSITIONS, Statuses
    <2>3. QED
      BY <1>1, <2>1, <2>2, RequestMoves
  <1>4. QED
    BY <1>2, <1>3

LEMMA OthersMove ==
  ASSUME IndInv, OtherRequests, ~UNCHANGED <<bookings, held>>
  PROVE  Ledger!Next
  <1>1. CASE OtherCreations
    <2>1. PICK b \in Booking, s \in OtherSlots, c \in Coupon \cup {NULL}, first \in LiveStatuses :
            InsertRow(b, first, s, c)
      BY <1>1 DEF OtherCreations
    <2>2. QED
      BY <2>1, InsertedRow, InsertReserves, PaymentAssumption DEF IndInv
  <1>2. CASE OtherTransitions
    <2>1. PICK b \in Booking, s \in Statuses :
            /\ s \in held[b]
            /\ \/ \E target \in {"confirmed", "completed", "no_show"} :
                    /\ MayTransition(s, target)
                    /\ UpdateStatus(b, target, bookings[b].version + 1)
               \/ \E refund \in RefundAmount \cup {bookings[b].refund_amount} :
                    /\ MayTransition(s, "cancelled")
                    /\ UpdateCancelled(b, refund, bookings[b].version + 1)
      BY <1>2 DEF OtherTransitions
    <2>2. Exists(b) /\ bookings[b] \in Row
      BY <2>1, RowFacts DEF IndInv, TablesAgree
    <2>3. /\ bookings[b].version + 1 \in Nat
          /\ bookings[b].refund_amount \in RefundAmount \cup {NULL}
      BY <2>2 DEF Row
    <2>4. CASE \E target \in {"confirmed", "completed", "no_show"} :
                    /\ MayTransition(s, target)
                    /\ UpdateStatus(b, target, bookings[b].version + 1)
      BY <2>1, <2>2, <2>3, <2>4, StatusFacts, UpdateMoves DEF IndInv
    <2>5. CASE \E refund \in RefundAmount \cup {bookings[b].refund_amount} :
                    /\ MayTransition(s, "cancelled")
                    /\ UpdateCancelled(b, refund, bookings[b].version + 1)
      BY <2>1, <2>2, <2>3, <2>5, StatusFacts, WrittenCancelled, WriteMoves DEF IndInv
    <2>6. QED
      BY <2>1, <2>4, <2>5
  <1>3. QED
    BY <1>1, <1>2 DEF OtherRequests

LEMMA LedgerStep == IndInv /\ [Next]_vars => [Ledger!Next]_(Ledger!vars)
  <1> SUFFICES ASSUME IndInv, [Next]_vars PROVE [Ledger!Next]_(Ledger!vars)
    OBVIOUS
  <1>1. CASE UNCHANGED <<bookings, held>>
    BY <1>1 DEF Ledger!vars, Exists
  <1>2. ASSUME NEW r \in Req, Receive(r) PROVE UNCHANGED <<bookings, held>>
    BY <1>2 DEF Receive, InitiatePayment, InitiateUpi, CallbackUnsigned, Callback, WebhookFailed,
       WebhookCaptured, SubmitUtr, VerifyUpi, RejectUpi, InitiateRefund
  <1>3. ASSUME NEW r \in Req, Proceed(r), ~UNCHANGED <<bookings, held>>
        PROVE  Ledger!Next
    <2>1. CommitSuccess(r) \/ CommitRefund(r) \/ CompleteRefund(r)
      BY <1>3 DEF Proceed, InsertOrder, ChooseTxn, InsertUpi, ReturnExisting, CommitSubmit,
                  FlushSuccess, CommitFailure, GatewayRefund, Emit
    <2>2. CommitSuccess(r) => req[r].seen = "pending"
      BY <1>3 DEF CommitSuccess
    <2>3. QED
      BY <1>3, <2>1, <2>2, SuccessMoves, RefundMoves
  <1>4. QED
    BY <1>1, <1>2, <1>3, OthersMove DEF Next, Fail, Gateway, vars

(***************************************************************************)
(* What payments and refunds do to bookings is allowed by the same ledger  *)
(* that the booking requests implement.                                    *)
(***************************************************************************)
THEOREM PaymentsRefineLedger == Spec => ImplementsLedger
  <1>1. Init => Ledger!Init
    BY DEF Init, BookingTableInit, Ledger!Init, Exists, NoRow
  <1>2. QED
    BY <1>1, LedgerStep, PaymentInvariant, PTL DEF Spec, ImplementsLedger, Ledger!Spec

=============================================================================
