----------------------------- MODULE SlotLedger -----------------------------
(***************************************************************************)
(* What the booking component promises, with no requests, no lock and no   *)
(* versions: a ledger of the slots of each day in which a reservation is   *)
(* one atomic step.                                                        *)
(*                                                                         *)
(* It is weaker than one would like, and as strong as the code: a status   *)
(* change obeys the state machine with respect to some status the booking  *)
(* HAS HELD, not the one it holds, because a handler validates the status  *)
(* it read and then overwrites the row unconditionally.                    *)
(***************************************************************************)
EXTENDS BookingStateMachine

CONSTANTS Booking,
          Slot,
          Overlapping,  \* the pairs of slots that may not both be sold
          NoSlot        \* the slot of a booking that does not exist

VARIABLES status, slot, held

vars == <<status, slot, held>>

Live(b) == status[b] \in LiveStatuses

(* It was not live at some time since it was reserved.                     *)
Released(b) == held[b] \ LiveStatuses # {}

TypeOK == /\ status \in [Booking -> Statuses \cup {"absent"}]
          /\ held \in [Booking -> SUBSET Statuses]
          /\ slot \in [Booking -> Slot \cup {NoSlot}]
          /\ \A b \in Booking : status[b] # "absent" => /\ slot[b] \in Slot
                                                        /\ status[b] \in held[b]

Init == /\ status = [b \in Booking |-> "absent"]
        /\ held = [b \in Booking |-> {}]
        /\ slot = [b \in Booking |-> NoSlot]

(* A slot is sold only if everything live that it overlaps had already     *)
(* given its own slot back once.                                           *)
Reserve(b, s, first) ==
  /\ status[b] = "absent"
  /\ \A c \in Booking : Live(c) /\ <<slot[c], s>> \in Overlapping => Released(c)
  /\ status' = [status EXCEPT ![b] = first]
  /\ slot' = [slot EXCEPT ![b] = s]
  /\ held' = [held EXCEPT ![b] = {first}]

Move(b, target) ==
  /\ status[b] # "absent"
  /\ \E s \in held[b] : MayTransition(s, target)
  /\ status' = [status EXCEPT ![b] = target]
  /\ held' = [held EXCEPT ![b] = @ \cup {target}]
  /\ UNCHANGED slot

Next == \E b \in Booking :
          \/ \E s \in Slot, first \in LiveStatuses : Reserve(b, s, first)
          \/ \E target \in Statuses : Move(b, target)

Spec == Init /\ [][Next]_vars

(* Two live bookings overlap only if one of them was revived: it had left  *)
(* the live statuses and a stale write put it back.                        *)
OverlapOnlyIfRevived ==
  \A b, c \in Booking :
    b # c /\ Live(b) /\ Live(c) /\ <<slot[b], slot[c]>> \in Overlapping
      => Released(b) \/ Released(c)

=============================================================================
