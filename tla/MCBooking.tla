----------------------------- MODULE MCBooking -----------------------------
(***************************************************************************)
(* BookingService for TLC.                                                 *)
(***************************************************************************)
EXTENDS BookingProperties, TLC

\* Requests, keys and transactions are interchangeable.
Symmetry == Permutations(Req) \cup Permutations(Booking) \cup Permutations(Txn)

\* Times of day: with {1, 2, 3}, two adjacent slots and the one that spans them.
MCTime == {1, 2, 3}
MCTwoTimes == {1, 2}

\* What _compute_refund may say; only "some amount" matters to these runs.
MCRefund == {100}

=============================================================================
