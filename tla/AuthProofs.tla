----------------------------- MODULE AuthProofs -----------------------------
(***************************************************************************)
(* The limits and the one-time codes of AuthService, for any number of     *)
(* requests at once, any limits, windows and codes.                        *)
(*                                                                         *)
(* Both arguments count requests: whoever is about to raise a number has   *)
(* been counted against its bound since the moment it read that it may.    *)
(***************************************************************************)
EXTENDS AuthProperties, FiniteSetTheorems, TLAPS

(* The step of one request, as seen by the others.                         *)
LEMMA OthersUnchanged ==
  ASSUME TypeOK, NEW r \in Req, Step(r), NEW q \in Req, q # r
  PROVE  req'[q] = req[q]
  BY DEF TypeOK, Step, Receive, ReceiveGoogle, CheckRateLimit, CountAttempt, StoreOtp,
         SendMail, CompareOtp, DeleteOtp, FindUser, CreateUser, Fail, Goto, Finish

(* The keys of Redis and the requests keep their types.                    *)
THEOREM AuthTyping == Spec => []TypeOK
  <1>1. Init => TypeOK
    <2> SUFFICES ASSUME Init PROVE TypeOK
      OBVIOUS
    <2>1. NoKey \in [value : Nat, ttl : Nat] /\ NoOtp \in [code : Code \cup {NULL}, ttl : Nat]
      BY DEF NoKey, NoOtp
    <2>2. rate \in [Keys -> [value : Nat, ttl : Nat]]
      BY <2>1 DEF Init
    <2>3. req \in [Req -> Request \cup {Idle}]
      BY DEF Init
    <2>4. QED
      BY <2>1, <2>2, <2>3 DEF Init, TypeOK
  <1>2. TypeOK /\ [Next]_vars => TypeOK'
    <2> SUFFICES ASSUME TypeOK, [Next]_vars PROVE TypeOK'
      OBVIOUS
    <2>1. CASE Tick
      BY <2>1, AuthAssumption DEF Tick, TypeOK, Aged, NoOtp, NoKey
    <2>2. ASSUME NEW r \in Req, Step(r) PROVE TypeOK'
      <3> USE DEF TypeOK
      <3>1. CASE Receive(r) \/ ReceiveGoogle(r)
        BY <3>1 DEF Receive, ReceiveGoogle, Request, Phases, Keys
      <3>2. ASSUME NEW pc \in Phases, req[r] # Idle, Goto(r, pc)
            PROVE  req' \in [Req -> Request \cup {Idle}]
        BY <3>2 DEF Goto, Request
      <3>3. ASSUME Finish(r) PROVE req' \in [Req -> Request \cup {Idle}]
        BY <3>3 DEF Finish
      <3>4. req[r].pc # "idle" => req[r] # Idle
        BY DEF Idle
      <3>5. CASE CheckRateLimit(r) \/ CompareOtp(r) \/ FindUser(r)
        BY <3>2, <3>3, <3>4, <3>5 DEF CheckRateLimit, CompareOtp, FindUser, Phases
      <3>6. CASE SendMail(r) \/ CreateUser(r) \/ Fail(r)
        BY <3>3, <3>6 DEF SendMail, CreateUser, Fail
      <3>7. CASE CountAttempt(r)
        <4>1. req[r] # Idle /\ req[r].pc = "allowed"
          BY <3>4, <3>7 DEF CountAttempt
        <4>2. Window(req[r].key) \in Nat
          BY AuthAssumption DEF Window
        <4>3. rate' \in [Keys -> [value : Nat, ttl : Nat]]
          <5>1. CASE req[r].key \in Keys
            <6>1. rate[req[r].key].value + 1 \in Nat
              BY <5>1
            <6>2. QED
              BY <3>7, <4>2, <6>1 DEF CountAttempt
          <5>2. CASE req[r].key \notin Keys
            BY <3>7, <5>2 DEF CountAttempt
          <5>3. QED
            BY <5>1, <5>2
        <4>4. req' \in [Req -> Request \cup {Idle}]
          BY <3>2, <3>7, <4>1 DEF CountAttempt, Phases
        <4>5. QED
          BY <3>7, <4>3, <4>4 DEF CountAttempt
      <3>8. CASE StoreOtp(r)
        BY <3>2, <3>4, <3>8, AuthAssumption DEF StoreOtp, Phases
      <3>9. CASE DeleteOtp(r)
        BY <3>2, <3>4, <3>9 DEF DeleteOtp, Phases, NoOtp
      <3>10. QED
        BY <2>2, <3>1, <3>5, <3>6, <3>7, <3>8, <3>9 DEF Step
    <2>3. CASE UNCHANGED vars
      BY <2>3 DEF vars, TypeOK
    <2>4. QED
      BY <2>1, <2>2, <2>3 DEF Next
  <1>3. QED
    BY <1>1, <1>2, PTL DEF Spec

(***************************************************************************)
(* No counter passes its limit by as much as there are requests at once:   *)
(* a request that read a counter below its limit is one of Allowed until   *)
(* it is counted or dies.                                                  *)
(***************************************************************************)
THEOREM AttemptsBounded == Spec => []AttemptsAreBounded
  <1>0. /\ Cardinality(Req) \in Nat
        /\ \A key \in Keys : IsFiniteSet(Allowed(key)) /\ Cardinality(Allowed(key)) \in Nat
                              /\ Cardinality(Allowed(key)) <= Cardinality(Req)
        /\ (\A key \in Keys : IsFiniteSet(Allowed(key)) /\ Cardinality(Allowed(key)) \in Nat
                              /\ Cardinality(Allowed(key)) <= Cardinality(Req))'
    <2>1. ASSUME NEW S \in SUBSET Req
          PROVE  IsFiniteSet(S) /\ Cardinality(S) \in Nat /\ Cardinality(S) <= Cardinality(Req)
      BY AuthAssumption, FS_Subset, FS_CardinalityType
    <2>2. QED
      BY <2>1, AuthAssumption, FS_CardinalityType DEF Allowed
  <1>1. Init => AttemptsAreBounded
    <2> SUFFICES ASSUME Init, NEW key \in Keys
                 PROVE  rate[key].value + Cardinality(Allowed(key))
                          <= MaxAttempts(key) - 1 + Cardinality(Req)
      BY DEF AttemptsAreBounded
    <2>1. rate[key].value = 0 /\ MaxAttempts(key) \in Nat \ {0}
      BY AuthAssumption DEF Init, NoKey, MaxAttempts
    <2>2. QED
      BY <1>0, <2>1
  <1>2. TypeOK /\ AttemptsAreBounded /\ [Next]_vars => AttemptsAreBounded'
    <2> SUFFICES ASSUME TypeOK, AttemptsAreBounded, [Next]_vars, NEW key \in Keys
                 PROVE  rate'[key].value + Cardinality(Allowed(key)')
                          <= MaxAttempts(key) - 1 + Cardinality(Req)
      BY DEF AttemptsAreBounded
    <2>0. /\ rate[key].value + Cardinality(Allowed(key)) <= MaxAttempts(key) - 1 + Cardinality(Req)
          /\ MaxAttempts(key) \in Nat \ {0} /\ rate[key].value \in Nat
          /\ Cardinality(Req) \in Nat
          /\ IsFiniteSet(Allowed(key)) /\ Cardinality(Allowed(key)) \in Nat
          /\ Cardinality(Allowed(key)') \in Nat /\ Cardinality(Allowed(key)') <= Cardinality(Req)
      BY <1>0, AuthAssumption DEF AttemptsAreBounded, MaxAttempts, TypeOK
    \* A request leaves the allowed ones, or none does: their number falls.
    <2>1. ASSUME Allowed(key)' \subseteq Allowed(key)
          PROVE  Cardinality(Allowed(key)') <= Cardinality(Allowed(key))
      BY <2>0, <2>1, FS_Subset
    <2>2. CASE Tick
      <3>1. rate'[key].value \in Nat /\ rate'[key].value <= rate[key].value
        BY <2>2, <2>0 DEF Tick, Aged, NoKey, TypeOK
      <3>2. Allowed(key)' = Allowed(key)
        BY <2>2 DEF Tick, Allowed
      <3>3. QED
        BY <2>0, <3>1, <3>2
    <2>3. ASSUME NEW r \in Req, Step(r)
          PROVE  rate'[key].value + Cardinality(Allowed(key)')
                   <= MaxAttempts(key) - 1 + Cardinality(Req)
      <3>1. \A q \in Req : q # r => req'[q] = req[q]
        BY <2>3, OthersUnchanged
      <3>2. ASSUME rate'[key] = rate[key], r \notin Allowed(key)'
            PROVE  rate'[key].value + Cardinality(Allowed(key)')
                     <= MaxAttempts(key) - 1 + Cardinality(Req)
        <4>1. Allowed(key)' \subseteq Allowed(key)
          BY <3>1, <3>2 DEF Allowed
        <4>2. QED
          BY <2>0, <2>1, <3>2, <4>1
      <3>3. CASE CheckRateLimit(r)
        <4>1. CASE r \in Allowed(key)'
          <5>1. req[r].key = key /\ rate[key].value < MaxAttempts(key) /\ rate' = rate
            BY <2>0, <3>3, <4>1 DEF CheckRateLimit, Allowed, Goto, Finish, Idle, TypeOK, Request
          <5>2. QED
            BY <2>0, <5>1
        <4>2. CASE r \notin Allowed(key)'
          BY <3>2, <3>3, <4>2 DEF CheckRateLimit
        <4>3. QED
          BY <4>1, <4>2
      <3>4. CASE CountAttempt(r)
        <4>1. req'[r].pc = "counted"
          BY <3>4 DEF CountAttempt, Goto, TypeOK, Request, Idle
        <4>2. CASE req[r].key = key
          <5>1. rate'[key].value = rate[key].value + 1
            BY <3>4, <4>2 DEF CountAttempt, TypeOK
          <5>2. Allowed(key)' = Allowed(key) \ {r} /\ r \in Allowed(key)
            BY <3>1, <3>4, <4>1, <4>2 DEF CountAttempt, Allowed
          <5>3. Cardinality(Allowed(key)') = Cardinality(Allowed(key)) - 1
            BY <2>0, <5>2, FS_RemoveElement
          <5>4. QED
            BY <2>0, <5>1, <5>3
        <4>3. CASE req[r].key # key
          <5>1. rate'[key] = rate[key]
            BY <3>4, <4>3 DEF CountAttempt, TypeOK
          <5>2. r \notin Allowed(key)'
            BY <4>1 DEF Allowed
          <5>3. QED
            BY <3>2, <5>1, <5>2
        <4>4. QED
          BY <4>2, <4>3
      <3>5. CASE \/ Receive(r) \/ ReceiveGoogle(r) \/ StoreOtp(r) \/ SendMail(r) \/ CompareOtp(r)
                 \/ DeleteOtp(r) \/ FindUser(r) \/ CreateUser(r) \/ Fail(r)
        <4>1. req'[r].pc # "allowed"
          BY <3>5 DEF Receive, ReceiveGoogle, StoreOtp, SendMail, CompareOtp, DeleteOtp, FindUser,
                      CreateUser, Fail, Goto, Finish, Idle, TypeOK, Request
        <4>2. rate' = rate
          BY <3>5 DEF Receive, ReceiveGoogle, StoreOtp, SendMail, CompareOtp, DeleteOtp, FindUser,
                      CreateUser, Fail
        <4>3. QED
          BY <3>2, <4>1, <4>2 DEF Allowed
      <3>6. QED
        BY <2>3, <3>3, <3>4, <3>5 DEF Step
    <2>4. CASE UNCHANGED vars
      BY <2>0, <2>4 DEF vars, Allowed
    <2>5. QED
      BY <2>2, <2>3, <2>4 DEF Next
  <1>3. QED
    BY <1>1, <1>2, AuthTyping, PTL DEF Spec

(* A request with a counter to sign in by has a code.                      *)
VerifiesHaveCode ==
  \A r \in Req : req[r] # Idle /\ req[r].key = "otp_verify" => req[r].code # NULL

(***************************************************************************)
(* A code is spent by at most as many sign-ins as there are requests at    *)
(* once, and never again after the last of those that compared it.         *)
(***************************************************************************)
THEOREM CodesAreSpentOnce == Spec => []CodeIsSpentOnce
  <1>0. /\ Cardinality(Req) \in Nat
        /\ IsFiniteSet(Matched) /\ Cardinality(Matched) \in Nat
        /\ Cardinality(Matched) <= Cardinality(Req)
        /\ Cardinality(Matched') \in Nat /\ Cardinality(Matched') <= Cardinality(Req)
    <2>1. ASSUME NEW S \in SUBSET Req
          PROVE  IsFiniteSet(S) /\ Cardinality(S) \in Nat /\ Cardinality(S) <= Cardinality(Req)
      BY AuthAssumption, FS_Subset, FS_CardinalityType
    <2>2. QED
      BY <2>1, AuthAssumption, FS_CardinalityType DEF Matched
  <1>1. Init => CodeIsSpentOnce /\ VerifiesHaveCode
    <2> SUFFICES ASSUME Init PROVE CodeIsSpentOnce /\ VerifiesHaveCode
      OBVIOUS
    <2>1. Matched = {}
      BY DEF Init, Matched, Idle
    <2>2. Cardinality(Matched) = 0
      BY <2>1, FS_EmptySet
    <2>3. otp.code = NULL /\ spent = 0
      BY DEF Init, NoOtp
    <2>4. VerifiesHaveCode
      BY DEF Init, VerifiesHaveCode
    <2>5. QED
      BY <1>0, <2>2, <2>3, <2>4 DEF CodeIsSpentOnce
  <1>2. TypeOK /\ CodeIsSpentOnce /\ VerifiesHaveCode /\ [Next]_vars
          => (CodeIsSpentOnce /\ VerifiesHaveCode)'
    <2> SUFFICES ASSUME TypeOK, CodeIsSpentOnce, VerifiesHaveCode, [Next]_vars
                 PROVE  CodeIsSpentOnce' /\ VerifiesHaveCode'
      OBVIOUS
    <2>0. spent \in Nat /\ spent' \in Nat
      <3>1. spent \in Nat
        BY DEF TypeOK
      <3>2. spent' \in {0, spent, spent + 1}
        BY DEF Next, vars, Tick, Step, Receive, ReceiveGoogle, CheckRateLimit, CountAttempt, StoreOtp,
               SendMail, CompareOtp, DeleteOtp, FindUser, CreateUser, Fail
      <3>3. QED
        BY <3>1, <3>2
    <2>1. CASE Tick
      BY <2>1 DEF Tick, Aged, NoOtp, Matched, CodeIsSpentOnce, VerifiesHaveCode, TypeOK
    <2>2. ASSUME NEW r \in Req, Step(r) PROVE CodeIsSpentOnce' /\ VerifiesHaveCode'
      <3>1. \A q \in Req : q # r => req'[q] = req[q]
        BY <2>2, OthersUnchanged
      <3>2. VerifiesHaveCode'
        <4>1. req'[r] # Idle /\ req'[r].key = "otp_verify" => req'[r].code # NULL
          <5>1. CASE Receive(r)
            BY <5>1, AuthAssumption DEF Receive, TypeOK
          <5>2. CASE ReceiveGoogle(r)
            <6>1. req'[r].key = NULL
              BY <5>2 DEF ReceiveGoogle, TypeOK
            <6>2. QED
              BY <6>1, AuthAssumption DEF Keys
          <5>3. ASSUME req'[r] = Idle
                PROVE  req'[r] # Idle /\ req'[r].key = "otp_verify" => req'[r].code # NULL
            BY <5>3
          <5>4. ASSUME NEW pc, req[r] # Idle, Goto(r, pc)
                PROVE  req'[r] # Idle /\ req'[r].key = "otp_verify" => req'[r].code # NULL
            <6>1. req'[r].key = req[r].key /\ req'[r].code = req[r].code
              BY <5>4 DEF Goto, TypeOK, Request, Idle
            <6>2. QED
              BY <5>4, <6>1 DEF VerifiesHaveCode
          <5>5. req[r].pc # "idle" => req[r] # Idle
            BY DEF Idle
          <5>6. Finish(r) => req'[r] = Idle
            BY DEF Finish, TypeOK
          <5>7. CASE \/ CheckRateLimit(r) \/ CountAttempt(r) \/ StoreOtp(r) \/ CompareOtp(r)
                     \/ DeleteOtp(r) \/ FindUser(r)
            BY <5>3, <5>4, <5>5, <5>6, <5>7
               DEF CheckRateLimit, CountAttempt, StoreOtp, CompareOtp, DeleteOtp, FindUser
          <5>8. CASE SendMail(r) \/ CreateUser(r) \/ Fail(r)
            BY <5>3, <5>6, <5>8 DEF SendMail, CreateUser, Fail
          <5>9. QED
            BY <2>2, <5>1, <5>2, <5>7, <5>8 DEF Step
        <4>2. QED
          BY <3>1, <4>1 DEF VerifiesHaveCode
      <3>3. ASSUME r \notin Matched' PROVE Cardinality(Matched') <= Cardinality(Matched)
        BY <1>0, <3>1, <3>3, FS_Subset DEF Matched
      <3>4. CASE CompareOtp(r)
        <4>1. CASE otp.code = req[r].code
          <5>1. otp.code # NULL
            <6>1. req[r] # Idle /\ req[r].key = "otp_verify"
              BY <3>4 DEF CompareOtp, Idle
            <6>2. QED
              BY <4>1, <6>1 DEF VerifiesHaveCode
          <5>2. QED
            BY <1>0, <2>0, <3>2, <3>4, <5>1 DEF CompareOtp, CodeIsSpentOnce
        <4>2. CASE otp.code # req[r].code
          <5>1. r \notin Matched'
            BY <3>4, <4>2 DEF CompareOtp, Finish, Idle, Matched, TypeOK
          <5>2. QED
            BY <1>0, <2>0, <3>2, <3>3, <3>4, <5>1 DEF CompareOtp, CodeIsSpentOnce
        <4>3. QED
          BY <4>1, <4>2
      <3>5. CASE DeleteOtp(r)
        <4>1. r \in Matched /\ Matched' = Matched \ {r}
          BY <3>1, <3>5 DEF DeleteOtp, Goto, Matched, TypeOK, Request, Idle
        <4>2. Cardinality(Matched') = Cardinality(Matched) - 1
          BY <1>0, <4>1, FS_RemoveElement
        <4>3. QED
          BY <1>0, <2>0, <3>2, <3>5, <4>2 DEF DeleteOtp, CodeIsSpentOnce, NoOtp
      <3>6. CASE StoreOtp(r)
        BY <1>0, <2>0, <3>2, <3>6 DEF StoreOtp, CodeIsSpentOnce
      <3>7. CASE \/ Receive(r) \/ ReceiveGoogle(r) \/ CheckRateLimit(r) \/ CountAttempt(r)
                 \/ SendMail(r) \/ FindUser(r) \/ CreateUser(r) \/ Fail(r)
        <4>1. r \notin Matched'
          BY <3>7 DEF Receive, ReceiveGoogle, CheckRateLimit, CountAttempt, SendMail, FindUser,
                      CreateUser, Fail, Goto, Finish, Idle, Matched, TypeOK, Request
        <4>2. spent' = spent /\ otp' = otp
          BY <3>7 DEF Receive, ReceiveGoogle, CheckRateLimit, CountAttempt, SendMail, FindUser,
                      CreateUser, Fail
        <4>3. QED
          BY <1>0, <2>0, <3>2, <3>3, <4>1, <4>2 DEF CodeIsSpentOnce
      <3>8. QED
        BY <2>2, <3>4, <3>5, <3>6, <3>7 DEF Step
    <2>3. CASE UNCHANGED vars
      BY <2>3 DEF vars, Matched, CodeIsSpentOnce, VerifiesHaveCode
    <2>4. QED
      BY <2>1, <2>2, <2>3 DEF Next
  <1>3. QED
    BY <1>1, <1>2, AuthTyping, PTL DEF Spec

=============================================================================
