---------------------------- MODULE AuthService ----------------------------
(***************************************************************************)
(* app/auth/service.py over app/core/redis.py: one-time codes by e-mail,   *)
(* the attempt counters that limit them, and the user who is created at    *)
(* the first sign-in.  One address: those of another are other keys.       *)
(*                                                                         *)
(* Redis runs one command (or one pipelined pair) at a time and drops a    *)
(* key when its time to live is over; a handler's commands interleave with *)
(* those of others.  Time passes in ticks of the shortest life.            *)
(***************************************************************************)
EXTENDS Integers, FiniteSets

CONSTANTS Code,          \* the codes generate_otp may return
          Req,           \* requests about this address in flight at once
          NULL,
          MaxSends, SendWindow,       \* attempts per window, of each counter
          MaxVerifies, VerifyWindow,
          OtpLife

Keys == {"otp_send", "otp_verify"}

ASSUME AuthAssumption ==
  /\ NULL \notin Code /\ NULL \notin Keys /\ IsFiniteSet(Req)
  /\ MaxSends \in Nat \ {0} /\ MaxVerifies \in Nat \ {0}
  /\ SendWindow \in Nat \ {0} /\ VerifyWindow \in Nat \ {0} /\ OtpLife \in Nat \ {0}

VARIABLES otp,       \* the stored code and the ticks it has left, or none
          rate,      \* per counter: the attempts counted, the ticks left
          has_user,  \* is there a user with this address?
          req,       \* what each request is doing and has read
          spent      \* history: sign-ins accepted since a code was stored

vars == <<otp, rate, has_user, req, spent>>

MaxAttempts(key) == IF key = "otp_send" THEN MaxSends ELSE MaxVerifies
Window(key) == IF key = "otp_send" THEN SendWindow ELSE VerifyWindow

NoKey == [value |-> 0, ttl |-> 0]
NoOtp == [code |-> NULL, ttl |-> 0]

Phases == {"asked", "allowed", "counted", "stored", "matched", "signing", "creating"}

(* key: the counter of a request, NULL for a sign-in with Google; code:    *)
(* what the client submitted.                                              *)
Request == [pc : Phases, key : Keys \cup {NULL}, code : Code \cup {NULL}]
Idle == [pc |-> "idle", key |-> NULL, code |-> NULL]

Goto(r, pc) == req' = [req EXCEPT ![r].pc = pc]
Finish(r) == req' = [req EXCEPT ![r] = Idle]

(* send_otp, or verify_otp with some code.                                 *)
Receive(r) ==
  /\ req[r] = Idle
  /\ \/ req' = [req EXCEPT ![r] = [pc |-> "asked", key |-> "otp_send", code |-> NULL]]
     \/ \E code \in Code :
          req' = [req EXCEPT ![r] = [pc |-> "asked", key |-> "otp_verify", code |-> code]]
  /\ UNCHANGED <<otp, rate, has_user, spent>>

(* google_sign_in: Google vouches for the address.                         *)
ReceiveGoogle(r) ==
  /\ req[r] = Idle
  /\ req' = [req EXCEPT ![r] = [pc |-> "signing", key |-> NULL, code |-> NULL]]
  /\ UNCHANGED <<otp, rate, has_user, spent>>

(* Mutants: one attempt too many; a refused attempt extends the window.    *)
CheckAboveLimit(r) ==
  /\ req[r].pc = "asked"
  /\ IF rate[req[r].key].value > MaxAttempts(req[r].key)
     THEN Finish(r) ELSE Goto(r, "allowed")
  /\ UNCHANGED <<otp, rate, has_user, spent>>
CheckExtends(r) ==
  /\ req[r].pc = "asked"
  /\ IF rate[req[r].key].value >= MaxAttempts(req[r].key)
     THEN /\ Finish(r)
          /\ rate' = [rate EXCEPT ![req[r].key].ttl = Window(req[r].key)]
     ELSE Goto(r, "allowed") /\ UNCHANGED rate
  /\ UNCHANGED <<otp, has_user, spent>>

(* check_rate_limit reads the counter; a refused attempt changes nothing.  *)
CheckRateLimit(r) ==
  /\ req[r].pc = "asked"
  /\ IF rate[req[r].key].value >= MaxAttempts(req[r].key)
     THEN Finish(r) ELSE Goto(r, "allowed")
  /\ UNCHANGED <<otp, rate, has_user, spent>>

(* INCR and EXPIRE: every attempt that is let through begins the window    *)
(* anew.                                                                   *)
CountAttempt(r) ==
  /\ req[r].pc = "allowed"
  /\ LET key == req[r].key
     IN rate' = [rate EXCEPT ![key] = [value |-> @.value + 1, ttl |-> Window(key)]]
  /\ Goto(r, "counted")
  /\ UNCHANGED <<otp, has_user, spent>>

(* A new code replaces the stored one; then it is mailed.                  *)
StoreOtp(r) ==
  /\ req[r].pc = "counted" /\ req[r].key = "otp_send"
  /\ \E code \in Code : otp' = [code |-> code, ttl |-> OtpLife]
  /\ spent' = 0
  /\ Goto(r, "stored")
  /\ UNCHANGED <<rate, has_user>>

SendMail(r) ==
  /\ req[r].pc = "stored"
  /\ Finish(r)
  /\ UNCHANGED <<otp, rate, has_user, spent>>

CompareOtp(r) ==
  /\ req[r].pc = "counted" /\ req[r].key = "otp_verify"
  /\ IF otp.code = req[r].code THEN Goto(r, "matched") ELSE Finish(r)
  /\ UNCHANGED <<otp, rate, has_user, spent>>

(* Mutant: the code is left to expire.                                     *)
KeepOtp(r) ==
  /\ req[r].pc = "matched"
  /\ spent' = spent + 1
  /\ Goto(r, "signing")
  /\ UNCHANGED <<otp, rate, has_user>>

(* DEL of whatever code is stored by now.                                  *)
DeleteOtp(r) ==
  /\ req[r].pc = "matched"
  /\ otp' = NoOtp
  /\ spent' = spent + 1
  /\ Goto(r, "signing")
  /\ UNCHANGED <<rate, has_user>>

(* get_or_create_by_email: a known user gets tokens (and a last_login_at).  *)
FindUser(r) ==
  /\ req[r].pc = "signing"
  /\ IF has_user THEN Finish(r) ELSE Goto(r, "creating")
  /\ UNCHANGED <<otp, rate, has_user, spent>>

(* The unique index on the address refuses the second of two INSERTs: that *)
(* request ends in an error, its code spent.                               *)
CreateUser(r) ==
  /\ req[r].pc = "creating"
  /\ has_user' = TRUE
  /\ Finish(r)
  /\ UNCHANGED <<otp, rate, spent>>

(* The worker dies, or the mail, the tenant or the database fails.         *)
Fail(r) ==
  /\ req[r] # Idle
  /\ Finish(r)
  /\ UNCHANGED <<otp, rate, has_user, spent>>

Aged(entry, none) == IF entry.ttl <= 1 THEN none ELSE [entry EXCEPT !.ttl = @ - 1]

Tick ==
  /\ otp' = Aged(otp, NoOtp)
  /\ rate' = [key \in Keys |-> Aged(rate[key], NoKey)]
  /\ UNCHANGED <<has_user, req, spent>>

Init == /\ otp = NoOtp
        /\ rate = [key \in Keys |-> NoKey]
        /\ has_user = FALSE
        /\ req = [r \in Req |-> Idle]
        /\ spent = 0

Step(r) == \/ Receive(r) \/ ReceiveGoogle(r) \/ CheckRateLimit(r) \/ CountAttempt(r)
           \/ StoreOtp(r) \/ SendMail(r) \/ CompareOtp(r) \/ DeleteOtp(r)
           \/ FindUser(r) \/ CreateUser(r) \/ Fail(r)

Next == Tick \/ \E r \in Req : Step(r)

Spec == Init /\ [][Next]_vars

(* Time passes, whatever requests do.                                      *)
FairSpec == Spec /\ WF_vars(Tick)

=============================================================================
