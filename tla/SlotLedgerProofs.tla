-------------------------- MODULE SlotLedgerProofs --------------------------
(***************************************************************************)
(* Proofs about the abstract ledger, for any set of bookings and any       *)
(* symmetric notion of overlapping slots.                                  *)
(***************************************************************************)
EXTENDS SlotLedger, TLAPS

(* The statuses the state machine knows.                                   *)
LEMMA LiveIsStatus == LiveStatuses \subseteq Statuses
  BY DEF LiveStatuses, Statuses

(***************************************************************************)
(* Type correctness: what a booking has held always includes what it       *)
(* holds, and a booking that exists has a slot.                            *)
(***************************************************************************)
THEOREM LedgerTyping == Spec => []TypeOK
  <1>1. Init => TypeOK
    BY DEF Init, TypeOK
  <1>2. TypeOK /\ [Next]_vars => TypeOK'
    <2> SUFFICES ASSUME TypeOK, [Next]_vars PROVE TypeOK'
      OBVIOUS
    <2>1. ASSUME NEW b \in Booking, NEW s \in Slot, NEW first \in LiveStatuses,
                 Reserve(b, s, first)
          PROVE TypeOK'
      <3>1. first \in Statuses
        BY LiveIsStatus
      <3>2. QED
        BY <2>1, <3>1 DEF Reserve, TypeOK
    <2>2. ASSUME NEW b \in Booking, NEW target \in Statuses, Move(b, target)
          PROVE TypeOK'
      BY <2>2 DEF Move, TypeOK
    <2>3. CASE UNCHANGED vars
      BY <2>3 DEF vars, TypeOK
    <2>4. QED
      BY <2>1, <2>2, <2>3 DEF Next
  <1>3. QED
    BY <1>1, <1>2, PTL DEF Spec

(***************************************************************************)
(* In the ledger, if overlapping is symmetric, live bookings overlap only  *)
(* if one was revived.  A reservation looks at everything live; a move     *)
(* that makes a booking live again leaves the status it came from in what  *)
(* it has held.                                                            *)
(***************************************************************************)
THEOREM LedgerSafe ==
  ASSUME \A s, t \in Slot : <<s, t>> \in Overlapping => <<t, s>> \in Overlapping
  PROVE  Spec => []OverlapOnlyIfRevived
  <1>0. \A s, t \in Slot : <<s, t>> \in Overlapping => <<t, s>> \in Overlapping
    OBVIOUS
  <1>1. Init => OverlapOnlyIfRevived
    BY DEF Init, OverlapOnlyIfRevived, Live, LiveStatuses
  <1>2. TypeOK /\ OverlapOnlyIfRevived /\ [Next]_vars => OverlapOnlyIfRevived'
    <2> SUFFICES ASSUME TypeOK, OverlapOnlyIfRevived, [Next]_vars,
                        NEW b \in Booking, NEW c \in Booking, b # c,
                        Live(b)', Live(c)', (<<slot[b], slot[c]>> \in Overlapping)'
                 PROVE  Released(b)' \/ Released(c)'
      BY DEF OverlapOnlyIfRevived
    <2>1. ASSUME NEW a \in Booking, NEW s \in Slot, NEW first \in LiveStatuses,
                 Reserve(a, s, first)
          PROVE  Released(b)' \/ Released(c)'
      <3>1. ASSUME NEW d \in Booking, d # a
            PROVE  /\ Live(d)' <=> Live(d)
                   /\ Released(d)' <=> Released(d)
                   /\ slot'[d] = slot[d]
        BY <2>1, <3>1 DEF Reserve, Live, Released, TypeOK
      <3>2. ASSUME NEW d \in Booking, d # a, Live(d)
            PROVE  slot[d] \in Slot
        BY <3>2 DEF TypeOK, Live, LiveStatuses
      <3>3. slot'[a] = s
        BY <2>1 DEF Reserve, TypeOK
      <3>4. CASE b = a
        <4>1. <<s, slot[c]>> \in Overlapping /\ slot[c] \in Slot /\ Live(c)
          BY <3>1, <3>2, <3>3, <3>4
        <4>2. <<slot[c], s>> \in Overlapping
          BY <4>1, <1>0
        <4>3. QED
          BY <2>1, <3>1, <3>4, <4>1, <4>2 DEF Reserve
      <3>5. CASE c = a
        BY <2>1, <3>1, <3>3, <3>5 DEF Reserve
      <3>6. CASE b # a /\ c # a
        BY <3>1, <3>6 DEF OverlapOnlyIfRevived
      <3>7. QED
        BY <3>4, <3>5, <3>6
    <2>2. ASSUME NEW a \in Booking, NEW target \in Statuses, Move(a, target)
          PROVE  Released(b)' \/ Released(c)'
      <3>1. \A d \in Booking : Released(d) => Released(d)'
        BY <2>2 DEF Move, Released, TypeOK
      <3>2. \A d \in Booking : Live(d)' /\ ~Live(d) => Released(d)'
        \* d is a, and the status it comes from is not live.
        BY <2>2 DEF Move, Released, Live, TypeOK
      <3>3. slot' = slot
        BY <2>2 DEF Move
      <3>4. QED
        BY <3>1, <3>2, <3>3 DEF OverlapOnlyIfRevived
    <2>3. CASE UNCHANGED vars
      BY <2>3 DEF vars, OverlapOnlyIfRevived, Live, Released
    <2>4. QED
      BY <2>1, <2>2, <2>3 DEF Next
  <1>3. QED
    BY <1>1, <1>2, LedgerTyping, PTL DEF Spec

=============================================================================
