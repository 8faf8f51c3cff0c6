--------------------------- MODULE AuthProperties ---------------------------
(***************************************************************************)
(* What the limits and the one-time codes promise, although a counter is   *)
(* read and then incremented, and a code is read and then deleted.         *)
(***************************************************************************)
EXTENDS AuthService

(* Types of the Redis keys and of the requests in flight.                  *)
TypeOK ==
  /\ otp \in [code : Code \cup {NULL}, ttl : Nat]
  /\ rate \in [Keys -> [value : Nat, ttl : Nat]]
  /\ has_user \in BOOLEAN
  /\ req \in [Req -> Request \cup {Idle}]
  /\ spent \in Nat

(* Requests that were let through and have not been counted.               *)
Allowed(key) == {r \in Req : req[r].pc = "allowed" /\ req[r].key = key}

(***************************************************************************)
(* Attempts pass a limit only together: a counter never exceeds it by more *)
(* than the other requests in flight at once.                              *)
(***************************************************************************)
AttemptsAreBounded ==
  \A key \in Keys :
    rate[key].value + Cardinality(Allowed(key)) <= MaxAttempts(key) - 1 + Cardinality(Req)

Matched == {r \in Req : req[r].pc = "matched"}

(***************************************************************************)
(* A code signs in once, or as often as requests had compared it before    *)
(* the first of them deleted it: a code that is still stored has not been  *)
(* spent, and those who have compared one count as sign-ins already.       *)
(***************************************************************************)
CodeIsSpentOnce ==
  /\ otp.code # NULL => spent = 0
  /\ spent + Cardinality(Matched) <= Cardinality(Req)

(***************************************************************************)
(* A lockout ends, however often the client keeps trying: a refused        *)
(* attempt does not begin the window anew.                                 *)
(***************************************************************************)
LockoutEnds ==
  \A key \in Keys : rate[key].value >= MaxAttempts(key) ~> rate[key].value = 0

=============================================================================
