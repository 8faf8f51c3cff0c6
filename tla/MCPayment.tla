----------------------------- MODULE MCPayment -----------------------------
(***************************************************************************)
(* PaymentService for TLC.                                                 *)
(***************************************************************************)
EXTENDS PaymentProperties, TLC

Symmetry == Permutations(Req) \cup Permutations(Txn)

MCTimes == {1, 2}
MCRefund == {100}
MCOtherSlots == {[day |-> d, start_time |-> 1, end_time |-> 2] : d \in Day}

=============================================================================
