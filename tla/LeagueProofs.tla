---------------------------- MODULE LeagueProofs ----------------------------
(***************************************************************************)
(* Teams and registrations, for any users, teams, tournaments, limits and  *)
(* number of requests at once.                                             *)
(***************************************************************************)
EXTENDS LeagueProperties, FiniteSetTheorems, TLAPS

(* Who is to be added is to be added in some role.                         *)
ChoosesRole(r) ==
  req[r].pc \in {"authorised", "found"} /\ req[r].op \in {"add", "invite"}
    => req[r].role \in Role

Typed == TypeOK /\ \A r \in Req : ChoosesRole(r)

-----------------------------------------------------------------------------
(* The kinds of request, told apart by their phase.                        *)
LEMMA RequestKinds ==
  ASSUME TypeOK, NEW r \in Req
  PROVE  /\ req[r].pc \in TeamPhases => req[r] \in TeamRequest
         /\ req[r].pc \in {"opened", "managed", "unregistered", "counted"}
              => req[r] \in RegisterRequest
         /\ req[r].pc = "announcing" => req[r] \in CreateRequest
         /\ req[r].pc = "idle" => req[r] = Idle
  BY DEF TypeOK, TeamRequest, RegisterRequest, CreateRequest, Idle, TeamPhases

(* A step of one request leaves the others where they are.                 *)
LEMMA OthersUnchanged ==
  ASSUME TypeOK, NEW r \in Req, TeamStep(r) \/ TournamentStep(r), NEW q \in Req, q # r
  PROVE  req'[q] = req[q]
  BY DEF TypeOK, TeamStep, TournamentStep, CreateTeam, InsertTeam, UpdateTeam, Authorise,
         FindMember, InsertMember, RemoveMember, CreateTournament, InsertTournament,
         OpenRegistration, CheckManager, CheckUnregistered, CountRegistrations,
         InsertRegistration, Fail, Goto, Finish

(* What a request becomes by moving on or by ending.                       *)
LEMMA ReqTyping ==
  ASSUME TypeOK, NEW r \in Req
  PROVE  /\ Finish(r) => req' \in [Req -> TeamRequest \cup RegisterRequest \cup CreateRequest
                                          \cup {Idle}]
         /\ \A pc \in TeamPhases :
              req[r] \in TeamRequest /\ Goto(r, pc) =>
                req' \in [Req -> TeamRequest \cup RegisterRequest \cup CreateRequest \cup {Idle}]
         /\ \A pc \in {"opened", "managed", "unregistered", "counted"} :
              req[r] \in RegisterRequest /\ Goto(r, pc) =>
                req' \in [Req -> TeamRequest \cup RegisterRequest \cup CreateRequest \cup {Idle}]
  <1>1. Finish(r) => req' \in [Req -> TeamRequest \cup RegisterRequest \cup CreateRequest
                                        \cup {Idle}]
    BY DEF TypeOK, Finish
  <1>2. ASSUME NEW pc \in TeamPhases, req[r] \in TeamRequest, Goto(r, pc)
        PROVE  req' \in [Req -> TeamRequest \cup RegisterRequest \cup CreateRequest \cup {Idle}]
    <2>1. [req[r] EXCEPT !.pc = pc] \in TeamRequest
      BY <1>2 DEF TeamRequest
    <2>2. QED
      BY <1>2, <2>1 DEF Goto, TypeOK
  <1>3. ASSUME NEW pc \in {"opened", "managed", "unregistered", "counted"},
               req[r] \in RegisterRequest, Goto(r, pc)
        PROVE  req' \in [Req -> TeamRequest \cup RegisterRequest \cup CreateRequest \cup {Idle}]
    <2>1. [req[r] EXCEPT !.pc = pc] \in RegisterRequest
      BY <1>3 DEF RegisterRequest
    <2>2. QED
      BY <1>3, <2>1 DEF Goto, TypeOK
  <1>4. QED
    BY <1>1, <1>2, <1>3

LEMMA NestedUpdate ==
  ASSUME NEW A, NEW B, NEW S, NEW f \in [A -> [B -> S]], NEW a, NEW b, NEW v \in S
  PROVE  [f EXCEPT ![a][b] = v] \in [A -> [B -> S]]
  OBVIOUS

(* Removing nobody leaves nobody.                                          *)
LEMMA RemoveNobody ==
  ASSUME NEW m, m = NoMember
  PROVE  [m EXCEPT !.is_active = FALSE] = NoMember
  <1>1. m = [role |-> "none", is_active |-> FALSE]
    BY DEF NoMember
  <1>2. ASSUME NEW x \in [role : {"none"}, is_active : {FALSE}]
        PROVE  [x EXCEPT !.is_active = FALSE] \in [role : {"none"}, is_active : {FALSE}]
    OBVIOUS
  <1>3. ASSUME NEW x \in [role : {"none"}, is_active : {FALSE}]
        PROVE  x = [role |-> "none", is_active |-> FALSE]
    OBVIOUS
  <1>4. m \in [role : {"none"}, is_active : {FALSE}]
    BY <1>1
  <1>5. QED
    BY <1>2, <1>3, <1>4 DEF NoMember

LEMMA TypedStays == Typed /\ [Next]_vars => Typed'
  <1>2. Typed /\ [Next]_vars => TypeOK'
    <2> SUFFICES ASSUME TypeOK, \A r \in Req : ChoosesRole(r), [Next]_vars PROVE TypeOK'
      BY DEF Typed
    <2> DEFINE Requests == TeamRequest \cup RegisterRequest \cup CreateRequest \cup {Idle}
    <2>1. ASSUME NEW r \in Req, TeamStep(r), UNCHANGED tournamentVars PROVE TypeOK'
      <3>0. /\ tournaments' = tournaments /\ registrations' = registrations /\ limits' = limits
        BY <2>1 DEF tournamentVars
      <3>00. /\ members \in [Team -> [User -> Membership \cup {NoMember}]]
             /\ added_by \in [Team -> [User -> User \cup {NULL}]]
        BY DEF TypeOK
      <3>1. CASE CreateTeam(r)
        BY <3>0, <3>1, TeamAssumption
           DEF CreateTeam, TypeOK, TeamRequest, TeamPhases, TeamOps, teamVars
      <3>2. CASE Authorise(r)
        <4>1. req' \in [Req -> Requests]
          BY <3>2, TeamAssumption
             DEF Authorise, TypeOK, TeamRequest, TeamPhases, TeamOps, RosterOps
        <4>2. QED
          BY <3>0, <3>2, <4>1 DEF Authorise, TypeOK, teamVars
      <3>3. CASE InsertTeam(r)
        <4>1. req' \in [Req -> Requests]
          BY <3>3, ReqTyping DEF InsertTeam
        <4>2. req[r].team \in Team /\ req[r].user \in User
          BY <3>3, RequestKinds DEF InsertTeam, TeamPhases, TeamRequest
        <4>3. CASE TeamExists(req[r].team)
          BY <3>0, <3>3, <4>1, <4>3 DEF InsertTeam, TypeOK, teamVars
        <4>4. CASE ~TeamExists(req[r].team)
          <5>1. [captain |-> req[r].user, is_active |-> TRUE] \in TeamRow
            BY <4>2 DEF TeamRow
          <5>2. [role |-> "manager", is_active |-> TRUE] \in Membership
            BY DEF Membership
          <5>3. teams' \in [Team -> TeamRow \cup {NoTeam}]
            BY <3>3, <4>2, <4>4, <5>1 DEF InsertTeam, TypeOK
          <5>4. members' \in [Team -> [User -> Membership \cup {NoMember}]]
            <6>1. members' = [members EXCEPT ![req[r].team][req[r].user] =
                                [role |-> "manager", is_active |-> TRUE]]
              BY <3>3, <4>4 DEF InsertTeam
            <6>2. QED
              BY <3>00, <5>2, <6>1, NestedUpdate
          <5>5. added_by' \in [Team -> [User -> User \cup {NULL}]]
            <6>1. added_by' = [added_by EXCEPT ![req[r].team][req[r].user] = req[r].user]
              BY <3>3, <4>4 DEF InsertTeam
            <6>2. QED
              BY <3>00, <4>2, <6>1, NestedUpdate
          <5>6. QED
            BY <3>0, <4>1, <5>3, <5>4, <5>5 DEF TypeOK
        <4>5. QED
          BY <4>3, <4>4
      <3>4. CASE UpdateTeam(r)
        <4>1. req' \in [Req -> Requests]
          BY <3>4, ReqTyping DEF UpdateTeam
        <4>2. PICK active \in BOOLEAN : teams' = [teams EXCEPT ![req[r].team].is_active = active]
          BY <3>4 DEF UpdateTeam
        <4>3. req[r].team \in Team
          BY <3>4, RequestKinds DEF UpdateTeam, TeamPhases, TeamRequest
        <4>4. [teams[req[r].team] EXCEPT !.is_active = active] \in TeamRow \cup {NoTeam}
          BY <4>2, <4>3 DEF TypeOK, TeamRow, NoTeam
        <4>5. teams' \in [Team -> TeamRow \cup {NoTeam}]
          BY <4>2, <4>3, <4>4 DEF TypeOK
        <4>6. QED
          BY <3>0, <3>4, <4>1, <4>5 DEF UpdateTeam, TypeOK
      <3>5. CASE FindMember(r)
        BY <3>0, <3>5, ReqTyping, RequestKinds DEF FindMember, TypeOK, teamVars, TeamPhases
      <3>6. CASE InsertMember(r)
        <4>1. req' \in [Req -> Requests]
          BY <3>6, ReqTyping DEF InsertMember
        <4>2. req[r] \in TeamRequest
          BY <3>6, RequestKinds DEF InsertMember, TeamPhases
        <4>3. CASE IsMember(req[r].team, req[r].target)
          BY <3>0, <3>6, <4>1, <4>3 DEF InsertMember, TypeOK, teamVars
        <4>4. CASE ~IsMember(req[r].team, req[r].target)
          <5>1. req[r].user \in User
            BY <4>2 DEF TeamRequest
          <5>2. [role |-> req[r].role, is_active |-> TRUE] \in Membership
            <6>1. req[r].role \in Role
              BY <3>6 DEF InsertMember, ChoosesRole
            <6>2. QED
              BY <6>1 DEF Membership
          <5>3. members' \in [Team -> [User -> Membership \cup {NoMember}]]
            <6>1. members' = [members EXCEPT ![req[r].team][req[r].target] =
                                [role |-> req[r].role, is_active |-> TRUE]]
              BY <3>6, <4>4 DEF InsertMember
            <6>2. QED
              BY <3>00, <5>2, <6>1, NestedUpdate
          <5>4. added_by' \in [Team -> [User -> User \cup {NULL}]]
            <6>1. added_by' = [added_by EXCEPT ![req[r].team][req[r].target] = req[r].user]
              BY <3>6, <4>4 DEF InsertMember
            <6>2. QED
              BY <3>00, <5>1, <6>1, NestedUpdate
          <5>5. teams' = teams
            BY <3>6, <4>4 DEF InsertMember
          <5>6. QED
            BY <3>0, <4>1, <5>3, <5>4, <5>5 DEF TypeOK
        <4>5. QED
          BY <4>3, <4>4
      <3>7. CASE RemoveMember(r)
        <4>1. req' \in [Req -> Requests]
          BY <3>7, ReqTyping DEF RemoveMember
        <4>2. ASSUME NEW m \in Membership \cup {NoMember}
              PROVE  [m EXCEPT !.is_active = FALSE] \in Membership \cup {NoMember}
          <5>1. CASE m \in Membership
            BY <5>1 DEF Membership
          <5>2. CASE m = NoMember
            BY <5>2, RemoveNobody
          <5>3. QED
            BY <5>1, <5>2
        <4>3. members' \in [Team -> [User -> Membership \cup {NoMember}]]
          <5> DEFINE t == req[r].team
                     u == req[r].target
          <5>1. members' = [members EXCEPT ![t][u] = [@ EXCEPT !.is_active = FALSE]]
            BY <3>7 DEF RemoveMember
          <5> HIDE DEF t, u
          <5>2. members \in [Team -> [User -> Membership \cup {NoMember}]]
            BY DEF TypeOK
          <5>3. CASE t \in Team /\ u \in User
            <6>1. members[t][u] \in Membership \cup {NoMember}
              BY <5>2, <5>3
            <6>2. members' = [members EXCEPT ![t][u] = [members[t][u] EXCEPT !.is_active = FALSE]]
              BY <5>1, <5>2, <5>3
            <6>3. QED
              BY <4>2, <5>2, <6>1, <6>2, NestedUpdate
          <5>4. CASE ~(t \in Team /\ u \in User)
            BY <5>1, <5>2, <5>4
          <5>5. QED
            BY <5>3, <5>4
        <4>4. QED
          BY <3>0, <3>7, <4>1, <4>3 DEF RemoveMember, TypeOK
      <3>8. QED
        BY <2>1, <3>1, <3>2, <3>3, <3>4, <3>5, <3>6, <3>7 DEF TeamStep
    <2>2. ASSUME NEW r \in Req, TournamentStep(r) PROVE TypeOK'
      <3>1. CASE CreateTournament(r)
        BY <3>1 DEF CreateTournament, TypeOK, CreateRequest, teamVars, tournamentVars
      <3>2. CASE OpenRegistration(r)
        <4>1. ASSUME NEW k \in Tournament, tournaments[k].status = "registration_open"
              PROVE  tournaments[k].max_teams \in Limits
          BY <4>1 DEF TypeOK, TournamentRow, NoTournament
        <4>2. req' \in [Req -> Requests]
          BY <3>2, <4>1 DEF OpenRegistration, TypeOK, RegisterRequest
        <4>3. QED
          BY <3>2, <4>2 DEF OpenRegistration, TypeOK, teamVars, tournamentVars
      <3>3. CASE InsertTournament(r)
        <4>1. req' \in [Req -> Requests]
          BY <3>3, ReqTyping DEF InsertTournament
        <4>2. req[r] \in CreateRequest
          BY <3>3, RequestKinds DEF InsertTournament
        <4>3. req[r].tournament \in Tournament /\ req[r].max_teams \in Limits
          BY <4>2 DEF CreateRequest
        <4>4. [status |-> "draft", max_teams |-> req[r].max_teams] \in TournamentRow
          BY <4>3, TournamentAssumption DEF TournamentRow
        <4>5. tournaments' \in [Tournament -> TournamentRow \cup {NoTournament}]
          BY <3>3, <4>3, <4>4 DEF InsertTournament, TypeOK, tournamentVars
        <4>6. limits' \in [Tournament -> SUBSET Limits] /\ registrations' = registrations
          BY <3>3, <4>3 DEF InsertTournament, TypeOK, tournamentVars
        <4>7. QED
          BY <3>3, <4>1, <4>5, <4>6 DEF InsertTournament, TypeOK, teamVars
      <3>4. CASE CheckManager(r) \/ CheckUnregistered(r) \/ CountRegistrations(r)
        BY <3>4, ReqTyping, RequestKinds
           DEF CheckManager, CheckUnregistered, CountRegistrations, TypeOK, teamVars, tournamentVars
      <3>5. CASE InsertRegistration(r)
        <4>1. req' \in [Req -> Requests]
          BY <3>5, ReqTyping DEF InsertRegistration
        <4>2. req[r] \in RegisterRequest
          BY <3>5, RequestKinds DEF InsertRegistration
        <4>3. QED
          BY <3>5, <4>1, <4>2 DEF InsertRegistration, TypeOK, teamVars, RegisterRequest
      <3>6. CASE Fail(r)
        BY <3>6, ReqTyping DEF Fail, TypeOK, teamVars, tournamentVars
      <3>7. QED
        BY <2>2, <3>1, <3>2, <3>3, <3>4, <3>5, <3>6 DEF TournamentStep
    <2>3. CASE UpdateTournament
      BY <2>3 DEF UpdateTournament, TypeOK, teamVars, TournamentRow
    <2>4. CASE UNCHANGED vars
      BY <2>4 DEF vars, teamVars, tournamentVars, TypeOK
    <2>5. QED
      BY <2>1, <2>2, <2>3, <2>4 DEF Next
  <1>3. Typed /\ [Next]_vars => \A r \in Req : ChoosesRole(r)'
    <2> SUFFICES ASSUME TypeOK, [Next]_vars, NEW r \in Req, ChoosesRole(r)
                 PROVE  ChoosesRole(r)'
      BY DEF Typed
    <2>1. ASSUME NEW q \in Req, TeamStep(q) \/ TournamentStep(q) PROVE ChoosesRole(r)'
      <3>1. CASE q # r
        BY <2>1, <3>1, OthersUnchanged DEF ChoosesRole
      <3>2. CASE q = r
        <4>1. CASE Authorise(r)
          BY <4>1 DEF Authorise, ChoosesRole, TypeOK
        <4>2. CASE FindMember(r)
          <5>1. CASE Finish(r)
            BY <5>1 DEF Finish, Idle, ChoosesRole, TypeOK
          <5>2. CASE Goto(r, "found")
            <6>1. req[r] \in TeamRequest /\ req[r].pc = "authorised"
              BY <4>2, RequestKinds DEF FindMember, TeamPhases
            <6>2. req'[r] = [req[r] EXCEPT !.pc = "found"]
              BY <5>2 DEF Goto, TypeOK
            <6>3. req'[r].op = req[r].op /\ req'[r].role = req[r].role
              BY <6>1, <6>2 DEF TeamRequest
            <6>4. QED
              BY <6>1, <6>3 DEF ChoosesRole
          <5>3. QED
            BY <4>2, <5>1, <5>2 DEF FindMember
        <4>3. CASE ~Authorise(r) /\ ~FindMember(r)
          <5>1. req'[r].pc \notin {"authorised", "found"}
            <6>1. CASE Finish(r)
              BY <6>1 DEF Finish, Idle, TypeOK
            <6>2. ASSUME NEW pc \in {"managed", "unregistered", "counted"}, Goto(r, pc),
                         req[r].pc \in {"opened", "managed", "unregistered"}
                  PROVE  req'[r].pc \notin {"authorised", "found"}
              BY <6>2, RequestKinds DEF Goto, TypeOK, RegisterRequest
            <6>3. CASE CheckManager(r) \/ CheckUnregistered(r) \/ CountRegistrations(r)
              BY <6>1, <6>2, <6>3 DEF CheckManager, CheckUnregistered, CountRegistrations
            <6>4. CASE CreateTeam(r) \/ CreateTournament(r) \/ OpenRegistration(r)
              BY <6>4 DEF CreateTeam, CreateTournament, OpenRegistration, TypeOK
            <6>5. CASE \/ InsertTeam(r) \/ UpdateTeam(r) \/ InsertMember(r) \/ RemoveMember(r)
                       \/ InsertTournament(r) \/ InsertRegistration(r) \/ Fail(r)
              BY <6>1, <6>5 DEF InsertTeam, UpdateTeam, InsertMember, RemoveMember,
                                InsertTournament, InsertRegistration, Fail
            <6>6. QED
              BY <2>1, <3>2, <4>3, <6>3, <6>4, <6>5 DEF TeamStep, TournamentStep
          <5>2. QED
            BY <5>1 DEF ChoosesRole
        <4>4. QED
          BY <4>1, <4>2, <4>3
      <3>3. QED
        BY <3>1, <3>2
    <2>2. CASE UpdateTournament \/ UNCHANGED vars
      BY <2>2 DEF UpdateTournament, vars, ChoosesRole
    <2>3. QED
      BY <2>1, <2>2 DEF Next
  <1>4. QED
    BY <1>2, <1>3 DEF Typed

LEMMA AlwaysTyped == Spec => []Typed
  <1>1. Init => Typed
    BY DEF Init, TeamInit, TypeOK, Typed, ChoosesRole, Idle
  <1>2. QED
    BY <1>1, TypedStays, PTL DEF Spec

(* The tables and the requests keep their types.                           *)
THEOREM LeagueTyping == Spec => []TypeOK
  <1>1. Typed => TypeOK
    BY DEF Typed
  <1>2. QED
    BY <1>1, AlwaysTyped, PTL

-----------------------------------------------------------------------------
(* A team has members only once it exists.                                 *)
MembersHaveTeams == \A t \in Team, u \in User : IsMember(t, u) => TeamExists(t)

(* Between the authorisation of a request and its write the caller may be  *)
(* removed, but has held the role: a role is not taken back.               *)
WasAppointed(r) ==
  req[r].pc \in {"authorised", "found"} =>
    /\ TeamExists(req[r].team)
    /\ members[req[r].team][req[r].user].role \in ManagerRoles

TeamInv ==
  /\ MembersHaveTeams
  /\ \A r \in Req : WasAppointed(r)
  /\ RosterGrowsFromCreator

Founded(t, u) ==
  /\ ~TeamExists(t)
  /\ teams'[t] = [captain |-> u, is_active |-> TRUE]
  /\ members'[t][u] = [role |-> "manager", is_active |-> TRUE] /\ added_by'[t][u] = u
  /\ \A v \in User : v # u => members'[t][v] = members[t][v] /\ added_by'[t][v] = added_by[t][v]

Joined(t, u, r) ==
  /\ req[r].pc = "found" /\ req[r].op \in {"add", "invite"} /\ req[r].role \in Role
  /\ req[r].team = t /\ req[r].target = u /\ req[r].user \in User
  /\ ~IsMember(t, u)
  /\ members'[t][u] = [role |-> req[r].role, is_active |-> TRUE]
  /\ added_by'[t][u] = req[r].user

Left(t, u, r) ==
  /\ req[r].pc = "found" /\ req[r].team = t
  /\ members'[t][u].role = members[t][u].role /\ ~members'[t][u].is_active
  /\ (IsMember(t, u))' <=> IsMember(t, u)
  /\ added_by'[t][u] = added_by[t][u]

(* All that a step may do to a team and to a membership.                   *)
LEMMA TeamChanges ==
  ASSUME Typed, [Next]_vars, NEW t \in Team
  PROVE  /\ \/ teams'[t] = teams[t]
            \/ \E u \in User : Founded(t, u)
            \/ /\ (\E r \in Req : req[r].pc = "authorised" /\ req[r].team = t)
               /\ TeamExists(t)' <=> TeamExists(t)
               /\ TeamExists(t) => teams'[t].captain = teams[t].captain
         /\ \A u \in User :
              \/ members'[t][u] = members[t][u] /\ added_by'[t][u] = added_by[t][u]
              \/ Founded(t, u)
              \/ \E r \in Req : Joined(t, u, r) /\ teams' = teams
              \/ \E r \in Req : Left(t, u, r) /\ teams' = teams
  <1>0. TypeOK
    BY DEF Typed
  <1>1. CASE teamVars' = teamVars
    BY <1>1 DEF teamVars
  <1>2. ASSUME NEW r \in Req, InsertTeam(r), teamVars' # teamVars
        PROVE  Founded(req[r].team, req[r].user) /\ req[r].user \in User
               /\ (t # req[r].team => /\ teams'[t] = teams[t]
                                      /\ members'[t] = members[t] /\ added_by'[t] = added_by[t])
    <2>1. req[r].team \in Team /\ req[r].user \in User
      BY <1>0, <1>2, RequestKinds DEF InsertTeam, TeamPhases, TeamRequest
    <2>2. ~TeamExists(req[r].team)
      BY <1>2 DEF InsertTeam
    <2>3. QED
      BY <1>0, <1>2, <2>1, <2>2 DEF InsertTeam, Founded, TypeOK
  <1>3. ASSUME NEW r \in Req, UpdateTeam(r)
        PROVE  /\ members' = members /\ added_by' = added_by
               /\ \/ teams'[t] = teams[t]
                  \/ /\ req[r].pc = "authorised" /\ req[r].team = t
                     /\ TeamExists(t)' <=> TeamExists(t)
                     /\ TeamExists(t) => teams'[t].captain = teams[t].captain
    <2>1. PICK active \in BOOLEAN : teams' = [teams EXCEPT ![req[r].team].is_active = active]
      BY <1>3 DEF UpdateTeam
    <2>2. members' = members /\ added_by' = added_by /\ req[r].pc = "authorised"
      BY <1>3 DEF UpdateTeam
    <2>3. CASE t = req[r].team
      <3>1. teams'[t] = [teams[t] EXCEPT !.is_active = active]
        BY <1>0, <2>1, <2>3 DEF TypeOK
      <3>2. CASE TeamExists(t)
        <4>1. teams[t] \in TeamRow
          BY <1>0, <3>2 DEF TypeOK, TeamExists
        <4>2. teams'[t].captain = teams[t].captain /\ teams'[t].captain \in User
          BY <3>1, <4>1 DEF TeamRow
        <4>3. TeamExists(t)'
          BY <4>2, TeamAssumption DEF TeamExists, NoTeam
        <4>4. QED
          BY <2>2, <2>3, <3>2, <4>2, <4>3
      <3>3. CASE ~TeamExists(t)
        <4>1. teams[t] = [captain |-> NULL]
          BY <3>3 DEF TeamExists, NoTeam
        <4>2. [teams[t] EXCEPT !.is_active = active] \in [captain : {NULL}]
          BY <4>1
        <4>3. ASSUME NEW x \in [captain : {NULL}] PROVE x = [captain |-> NULL]
          OBVIOUS
        <4>4. ~TeamExists(t)'
          BY <3>1, <4>2, <4>3 DEF TeamExists, NoTeam
        <4>5. QED
          BY <2>2, <2>3, <3>3, <4>4
      <3>4. QED
        BY <3>2, <3>3
    <2>4. CASE t # req[r].team
      BY <1>0, <2>1, <2>2, <2>4 DEF TypeOK
    <2>5. QED
      BY <2>3, <2>4
  <1>4. ASSUME NEW r \in Req, InsertMember(r), teamVars' # teamVars, NEW u \in User
        PROVE  teams' = teams /\ (\/ Joined(t, u, r)
                                  \/ members'[t][u] = members[t][u] /\ added_by'[t][u] = added_by[t][u])
    <2>1. req[r] \in TeamRequest /\ req[r].role \in Role
      BY <1>0, <1>4, RequestKinds DEF InsertMember, TeamPhases, Typed, ChoosesRole
    <2>2. req[r].user \in User
      BY <2>1 DEF TeamRequest
    <2>3. ~IsMember(req[r].team, req[r].target)
      BY <1>4 DEF InsertMember
    <2>4. /\ req[r].pc = "found" /\ req[r].op \in {"add", "invite"} /\ teams' = teams
          /\ members' = [members EXCEPT ![req[r].team][req[r].target] =
                            [role |-> req[r].role, is_active |-> TRUE]]
          /\ added_by' = [added_by EXCEPT ![req[r].team][req[r].target] = req[r].user]
      BY <1>4, <2>3 DEF InsertMember
    <2>5. CASE t = req[r].team /\ u = req[r].target
      <3>1. Joined(t, u, r)
        BY <1>0, <2>1, <2>2, <2>3, <2>4, <2>5 DEF Joined, TypeOK
      <3>2. QED
        BY <2>4, <3>1
    <2>6. CASE ~(t = req[r].team /\ u = req[r].target)
      BY <1>0, <2>4, <2>6 DEF TypeOK
    <2>7. QED
      BY <2>5, <2>6
  <1>5. ASSUME NEW r \in Req, RemoveMember(r), NEW u \in User
        PROVE  teams' = teams /\ (\/ Left(t, u, r)
                                  \/ members'[t][u] = members[t][u] /\ added_by'[t][u] = added_by[t][u])
    <2>1. /\ req[r].pc = "found" /\ teams' = teams /\ added_by' = added_by
          /\ members' = [members EXCEPT ![req[r].team][req[r].target].is_active = FALSE]
      BY <1>5 DEF RemoveMember
    <2>2. CASE t = req[r].team /\ u = req[r].target
      <3>1. members'[t][u] = [members[t][u] EXCEPT !.is_active = FALSE]
        BY <1>0, <2>1, <2>2 DEF TypeOK
      <3>2. CASE IsMember(t, u)
        <4>1. members[t][u] \in Membership
          BY <1>0, <3>2 DEF TypeOK, IsMember
        <4>2. /\ members'[t][u].role = members[t][u].role /\ ~members'[t][u].is_active
              /\ members'[t][u].role # "none"
          BY <3>1, <4>1, TeamAssumption DEF Membership
        <4>3. (IsMember(t, u))'
          BY <4>2 DEF IsMember, NoMember
        <4>4. QED
          BY <2>1, <2>2, <3>2, <4>2, <4>3 DEF Left
      <3>3. CASE ~IsMember(t, u)
        <4>1. members'[t][u] = members[t][u]
          BY <3>1, <3>3, RemoveNobody DEF IsMember
        <4>2. QED
          BY <2>1, <4>1
      <3>4. QED
        BY <3>2, <3>3
    <2>3. CASE ~(t = req[r].team /\ u = req[r].target)
      BY <1>0, <2>1, <2>3 DEF TypeOK
    <2>4. QED
      BY <2>2, <2>3
  <1>6. \/ teamVars' = teamVars
        \/ \E r \in Req : InsertTeam(r) \/ UpdateTeam(r) \/ InsertMember(r) \/ RemoveMember(r)
    BY DEF Next, vars, TeamStep, TournamentStep, CreateTeam, Authorise, FindMember,
           CreateTournament, InsertTournament, OpenRegistration, CheckManager, CheckUnregistered,
           CountRegistrations, InsertRegistration, Fail, UpdateTournament
  <1>7. ASSUME NEW r \in Req, InsertTeam(r), teamVars' # teamVars
        PROVE  /\ teams'[t] = teams[t] \/ \E u \in User : Founded(t, u)
               /\ \A u \in User :
                    \/ members'[t][u] = members[t][u] /\ added_by'[t][u] = added_by[t][u]
                    \/ Founded(t, u)
    <2>1. CASE t = req[r].team
      <3>1. Founded(t, req[r].user) /\ req[r].user \in User
        BY <1>2, <1>7, <2>1
      <3>2. ASSUME NEW u \in User, u # req[r].user
            PROVE  members'[t][u] = members[t][u] /\ added_by'[t][u] = added_by[t][u]
        BY <3>1, <3>2 DEF Founded
      <3>3. QED
        BY <3>1, <3>2
    <2>2. CASE t # req[r].team
      BY <1>2, <1>7, <2>2
    <2>3. QED
      BY <2>1, <2>2
  <1>8. QED
    <2>1. ASSUME NEW r \in Req, InsertTeam(r), teamVars' # teamVars
          PROVE  /\ teams'[t] = teams[t] \/ \E u \in User : Founded(t, u)
                 /\ \A u \in User :
                      \/ members'[t][u] = members[t][u] /\ added_by'[t][u] = added_by[t][u]
                      \/ Founded(t, u)
      BY <1>7, <2>1
    <2>2. ASSUME NEW r \in Req, UpdateTeam(r)
          PROVE  /\ members' = members /\ added_by' = added_by
                 /\ \/ teams'[t] = teams[t]
                    \/ /\ \E q \in Req : req[q].pc = "authorised" /\ req[q].team = t
                       /\ TeamExists(t)' <=> TeamExists(t)
                       /\ TeamExists(t) => teams'[t].captain = teams[t].captain
      BY <1>3, <2>2
    <2>3. ASSUME NEW r \in Req, InsertMember(r), teamVars' # teamVars
          PROVE  /\ teams' = teams
                 /\ \A u \in User :
                      \/ \E q \in Req : Joined(t, u, q)
                      \/ members'[t][u] = members[t][u] /\ added_by'[t][u] = added_by[t][u]
      <3>1. teams' = teams
        BY <2>3 DEF InsertMember
      <3>2. QED
        BY <1>4, <2>3, <3>1
    <2>4. ASSUME NEW r \in Req, RemoveMember(r)
          PROVE  /\ teams' = teams
                 /\ \A u \in User :
                      \/ \E q \in Req : Left(t, u, q)
                      \/ members'[t][u] = members[t][u] /\ added_by'[t][u] = added_by[t][u]
      <3>1. teams' = teams
        BY <2>4 DEF RemoveMember
      <3>2. QED
        BY <1>5, <2>4, <3>1
    <2>5. QED
      BY <1>1, <1>6, <2>1, <2>2, <2>3, <2>4

WritePhases == {"authorised", "found", "managed", "unregistered", "counted"}

(* A request is authorised by a manager, and keeps its team and caller.    *)
LEMMA AuthorisedBefore ==
  ASSUME Typed, [Next]_vars, NEW r \in Req, req'[r].pc \in WritePhases
  PROVE  \/ /\ req[r].pc \in WritePhases
            /\ req'[r].pc \in {"authorised", "found"} => req[r].pc \in {"authorised", "found"}
            /\ req'[r].team = req[r].team /\ req'[r].user = req[r].user
         \/ /\ Manages(req'[r].user, req'[r].team)
            /\ req'[r].user \in User /\ req'[r].team \in Team
            /\ req'[r].pc \in {"authorised", "found"} => TeamExists(req'[r].team)
            /\ teamVars' = teamVars
  <1> DEFINE Kept == /\ req[r].pc \in WritePhases
                     /\ req'[r].pc \in {"authorised", "found"} => req[r].pc \in {"authorised", "found"}
                     /\ req'[r].team = req[r].team /\ req'[r].user = req[r].user
             Fresh == /\ Manages(req'[r].user, req'[r].team)
                      /\ req'[r].user \in User /\ req'[r].team \in Team
                      /\ req'[r].pc \in {"authorised", "found"} => TeamExists(req'[r].team)
                      /\ teamVars' = teamVars
  <1>0. TypeOK
    BY DEF Typed
  <1>1. ASSUME req'[r] = req[r] PROVE Kept
    BY <1>1
  <1>2. ~Finish(r)
    BY <1>0 DEF Finish, Idle, TypeOK, WritePhases
  <1>3. CASE Authorise(r)
    <2>1. req'[r].pc = "authorised" /\ req'[r].team \in Team /\ req'[r].user \in User
          /\ Manages(req'[r].user, req'[r].team) /\ TeamExists(req'[r].team)
      BY <1>0, <1>3, TeamAssumption DEF Authorise, TypeOK
    <2>2. teamVars' = teamVars
      BY <1>3 DEF Authorise
    <2>3. QED
      BY <2>1, <2>2
  <1>4. CASE FindMember(r)
    <2>1. req[r] \in TeamRequest /\ req[r].pc = "authorised" /\ Goto(r, "found")
      BY <1>0, <1>2, <1>4, RequestKinds DEF FindMember, TeamPhases
    <2>2. req'[r] = [req[r] EXCEPT !.pc = "found"]
      BY <1>0, <2>1 DEF Goto, TypeOK
    <2>3. req'[r].team = req[r].team /\ req'[r].user = req[r].user
      BY <2>1, <2>2 DEF TeamRequest
    <2>4. QED
      BY <2>1, <2>3 DEF WritePhases
  <1>5. ASSUME NEW pc \in {"managed", "unregistered", "counted"}, Goto(r, pc),
               req[r] \in RegisterRequest
        PROVE  /\ req'[r].pc = pc
               /\ req'[r].team = req[r].team /\ req'[r].user = req[r].user
               /\ req[r].team \in Team /\ req[r].user \in User
    <2>1. req'[r] = [req[r] EXCEPT !.pc = pc]
      BY <1>0, <1>5 DEF Goto, TypeOK
    <2>2. QED
      BY <1>5, <2>1 DEF RegisterRequest
  <1>6. CASE CheckManager(r)
    <2>1. req[r] \in RegisterRequest /\ Goto(r, "managed") /\ Manages(req[r].user, req[r].team)
      BY <1>0, <1>2, <1>6, RequestKinds DEF CheckManager
    <2>2. req'[r].pc = "managed" /\ Manages(req'[r].user, req'[r].team)
          /\ req'[r].user \in User /\ req'[r].team \in Team
      BY <1>5, <2>1
    <2>3. teamVars' = teamVars
      BY <1>6 DEF CheckManager
    <2>4. QED
      BY <2>2, <2>3
  <1>7. CASE CheckUnregistered(r) \/ CountRegistrations(r)
    <2>1. /\ req[r] \in RegisterRequest /\ req[r].pc \in WritePhases
          /\ Goto(r, "unregistered") \/ Goto(r, "counted")
      BY <1>0, <1>2, <1>7, RequestKinds DEF CheckUnregistered, CountRegistrations, WritePhases
    <2>2. /\ req'[r].pc \in {"unregistered", "counted"}
          /\ req'[r].team = req[r].team /\ req'[r].user = req[r].user
      BY <1>5, <2>1
    <2>3. QED
      BY <2>1, <2>2
  <1>8. CASE CreateTeam(r) \/ CreateTournament(r) \/ OpenRegistration(r)
    <2>1. req'[r].pc \notin WritePhases
      BY <1>0, <1>8 DEF CreateTeam, CreateTournament, OpenRegistration, TypeOK, WritePhases
    <2>2. QED
      BY <2>1
  <1>9. CASE \/ InsertTeam(r) \/ UpdateTeam(r) \/ InsertMember(r) \/ RemoveMember(r)
             \/ InsertTournament(r) \/ InsertRegistration(r) \/ Fail(r)
    BY <1>2, <1>9 DEF InsertTeam, UpdateTeam, InsertMember, RemoveMember, InsertTournament,
                      InsertRegistration, Fail
  <1>10. ASSUME NEW q \in Req, q # r, TeamStep(q) \/ TournamentStep(q) PROVE Kept
    BY <1>0, <1>1, <1>10, OthersUnchanged
  <1>11. CASE UpdateTournament \/ UNCHANGED vars
    BY <1>1, <1>11 DEF UpdateTournament, vars
  <1>12. TeamStep(r) \/ TournamentStep(r) => Kept \/ Fresh
    BY <1>3, <1>4, <1>6, <1>7, <1>8, <1>9 DEF TeamStep, TournamentStep
  <1>13. QED
    BY <1>10, <1>11, <1>12 DEF Next

(* Teams are not deleted, nor are roles taken back.                        *)
LEMMA OfficesStay ==
  ASSUME Typed, MembersHaveTeams, [Next]_vars, NEW t \in Team
  PROVE  /\ TeamExists(t) => TeamExists(t)' /\ teams'[t].captain = teams[t].captain
         /\ \A u \in User : IsMember(t, u) =>
              /\ (IsMember(t, u))'
              /\ members'[t][u].role = members[t][u].role
              /\ added_by'[t][u] = added_by[t][u]
  <1>1. ASSUME NEW u \in User, IsMember(t, u) PROVE ~Founded(t, u)
    BY <1>1 DEF MembersHaveTeams, Founded
  <1>2. ASSUME NEW u \in User, IsMember(t, u), NEW r \in Req PROVE ~Joined(t, u, r)
    BY <1>2 DEF Joined
  <1>3. ASSUME NEW u \in User, IsMember(t, u)
        PROVE  /\ (IsMember(t, u))' /\ members'[t][u].role = members[t][u].role
               /\ added_by'[t][u] = added_by[t][u]
    <2>1. CASE members'[t][u] = members[t][u] /\ added_by'[t][u] = added_by[t][u]
      BY <1>3, <2>1 DEF IsMember
    <2>2. CASE \E r \in Req : Left(t, u, r)
      BY <1>3, <2>2 DEF Left
    <2>3. QED
      BY <1>1, <1>2, <1>3, <2>1, <2>2, TeamChanges
  <1>4. TeamExists(t) => TeamExists(t)' /\ teams'[t].captain = teams[t].captain
    <2>1. CASE teams'[t] = teams[t]
      BY <2>1 DEF TeamExists
    <2>2. CASE teams'[t] # teams[t]
      BY <2>2, TeamChanges DEF Founded
    <2>3. QED
      BY <2>1, <2>2
  <1>5. QED
    BY <1>3, <1>4

LEMMA TeamInvStays == Typed /\ TeamInv /\ [Next]_vars => TeamInv'
  <1> SUFFICES ASSUME Typed, TeamInv, [Next]_vars PROVE TeamInv'
    OBVIOUS
  <1>0. /\ TypeOK /\ MembersHaveTeams /\ RosterGrowsFromCreator
        /\ \A r \in Req : WasAppointed(r)
    BY DEF Typed, TeamInv
  <1>1. ASSUME NEW t \in Team, NEW u \in User, Founded(t, u)
        PROVE  TeamExists(t)' /\ teams'[t].captain = u
    BY <1>1, TeamAssumption DEF Founded, TeamExists, NoTeam
  <1>2. ASSUME NEW t \in Team, NEW u \in User, NEW r \in Req, Joined(t, u, r)
        PROVE  /\ TeamExists(t) /\ req[r].user \in User /\ added_by'[t][u] = req[r].user
               /\ members[t][req[r].user].role \in ManagerRoles /\ req[r].user # u
               /\ IsMember(t, req[r].user)
    <2>1. /\ TeamExists(t) /\ req[r].user \in User /\ added_by'[t][u] = req[r].user
          /\ members[t][req[r].user].role \in ManagerRoles
      BY <1>0, <1>2 DEF Joined, WasAppointed
    <2>2. IsMember(t, req[r].user)
      BY <2>1 DEF IsMember, NoMember, ManagerRoles
    <2>3. QED
      BY <1>2, <2>1, <2>2 DEF Joined
  <1>3. MembersHaveTeams'
    <2> SUFFICES ASSUME NEW t \in Team, NEW u \in User, (IsMember(t, u))'
                 PROVE  TeamExists(t)'
      BY DEF MembersHaveTeams
    <2>1. CASE members'[t][u] = members[t][u]
      BY <1>0, <2>1, OfficesStay DEF MembersHaveTeams, IsMember
    <2>2. CASE Founded(t, u)
      BY <1>1, <2>2
    <2>3. CASE \E r \in Req : Joined(t, u, r)
      BY <1>0, <1>2, <2>3, OfficesStay
    <2>4. CASE \E r \in Req : Left(t, u, r)
      BY <1>0, <2>4, OfficesStay DEF Left, MembersHaveTeams
    <2>5. QED
      BY <2>1, <2>2, <2>3, <2>4, TeamChanges
  <1>4. ASSUME NEW r \in Req PROVE WasAppointed(r)'
    <2> SUFFICES ASSUME req'[r].pc \in {"authorised", "found"}
                 PROVE  /\ teams'[req'[r].team] # NoTeam
                        /\ members'[req'[r].team][req'[r].user].role \in ManagerRoles
      BY DEF WasAppointed, TeamExists
    <2> DEFINE t == req'[r].team
               u == req'[r].user
    <2>1. t \in Team /\ u \in User
      <3>1. TypeOK'
        BY TypedStays DEF Typed
      <3>2. req'[r] \in TeamRequest
        <4>1. req'[r] \in TeamRequest \cup RegisterRequest \cup CreateRequest \cup {Idle}
          BY <3>1 DEF TypeOK
        <4>2. req'[r] \notin RegisterRequest
          BY DEF RegisterRequest
        <4>3. req'[r] \notin CreateRequest /\ req'[r] # Idle
          BY DEF CreateRequest, Idle
        <4>4. QED
          BY <4>1, <4>2, <4>3
      <3>3. QED
        BY <3>2 DEF TeamRequest
    <2>2. TeamExists(t) /\ members[t][u].role \in ManagerRoles
      <3>1. req'[r].pc \in WritePhases
        BY DEF WritePhases
      <3>2. QED
        BY <1>0, <3>1, AuthorisedBefore DEF WasAppointed, Manages
    <2>3. IsMember(t, u)
      BY <2>2 DEF IsMember, NoMember, ManagerRoles
    <2>4. TeamExists(t) => teams'[t] # NoTeam
      BY <1>0, <2>1, OfficesStay DEF TeamExists
    <2>5. QED
      BY <1>0, <2>1, <2>2, <2>3, <2>4, OfficesStay
  <1>5. RosterGrowsFromCreator'
    <2> SUFFICES ASSUME NEW t \in Team, NEW u \in User, (IsMember(t, u))'
                 PROVE  IF added_by'[t][u] = u THEN teams'[t].captain = u
                        ELSE /\ added_by'[t][u] \in User
                             /\ members'[t][added_by'[t][u]].role \in ManagerRoles
      BY DEF RosterGrowsFromCreator
    <2>1. CASE IsMember(t, u)
      <3>1. added_by'[t][u] = added_by[t][u] /\ TeamExists(t)
        BY <1>0, <2>1, OfficesStay DEF MembersHaveTeams
      <3>2. IF added_by[t][u] = u THEN teams[t].captain = u
            ELSE added_by[t][u] \in User /\ members[t][added_by[t][u]].role \in ManagerRoles
        BY <1>0, <2>1 DEF RosterGrowsFromCreator
      <3>3. CASE added_by[t][u] = u
        BY <1>0, <3>1, <3>2, <3>3, OfficesStay
      <3>4. CASE added_by[t][u] # u
        <4>1. IsMember(t, added_by[t][u])
          BY <3>2, <3>4 DEF IsMember, NoMember, ManagerRoles
        <4>2. QED
          BY <1>0, <3>1, <3>2, <3>4, <4>1, OfficesStay
      <3>5. QED
        BY <3>3, <3>4
    <2>2. CASE ~IsMember(t, u)
      <3>1. CASE Founded(t, u)
        BY <1>1, <3>1 DEF Founded
      <3>2. CASE \E r \in Req : Joined(t, u, r)
        <4>1. PICK r \in Req : Joined(t, u, r)
          BY <3>2
        <4>2. /\ TeamExists(t) /\ req[r].user \in User /\ added_by'[t][u] = req[r].user
              /\ members[t][req[r].user].role \in ManagerRoles /\ req[r].user # u
              /\ IsMember(t, req[r].user)
          BY <1>2, <4>1
        <4>3. QED
          BY <1>0, <4>2, OfficesStay
      <3>3. CASE members'[t][u] = members[t][u] \/ \E r \in Req : Left(t, u, r)
        BY <2>2, <3>3 DEF IsMember, Left
      <3>4. QED
        BY <3>1, <3>2, <3>3, TeamChanges
    <2>3. QED
      BY <2>1, <2>2
  <1>6. QED
    BY <1>3, <1>4, <1>5 DEF TeamInv

LEMMA AlwaysTeamInv == Spec => []TeamInv
  <1>1. Init => TeamInv
    BY DEF Init, TeamInit, TeamInv, MembersHaveTeams, WasAppointed, RosterGrowsFromCreator,
           IsMember, Idle
  <1>2. QED
    BY <1>1, AlwaysTyped, TeamInvStays, PTL DEF Spec

(***************************************************************************)
(* Everybody on a roster was put there by its creator, or by somebody who  *)
(* was put there with a manager's or captain's role.                       *)
(***************************************************************************)
THEOREM RostersGrowFromCreators == Spec => []RosterGrowsFromCreator
  <1>1. TeamInv => RosterGrowsFromCreator
    BY DEF TeamInv
  <1>2. QED
    BY <1>1, AlwaysTeamInv, PTL

(***************************************************************************)
(* Nobody returns a team to life whose managers have all been removed,     *)
(* once the requests that were authorised before are over.                 *)
(***************************************************************************)
THEOREM LeaderlessTeamsStayLeaderless == Spec => LeaderlessIsForever
  <1>1. ASSUME Typed, TeamInv, [Next]_vars, NEW t \in Team, Leaderless(t)
        PROVE  /\ Leaderless(t)'
               /\ members'[t] = members[t] /\ teams'[t] = teams[t]
               /\ \A k \in Tournament : registrations'[k][t] = registrations[k][t]
    <2>0. /\ TypeOK /\ TypeOK' /\ TeamExists(t) /\ \A r \in Req : ~Authorised(r, t)
      BY <1>1, TypedStays DEF Typed, Leaderless
    <2>1. \A u \in User : ~Founded(t, u) /\ \A r \in Req : ~Joined(t, u, r) /\ ~Left(t, u, r)
      BY <2>0 DEF Founded, Joined, Left, Authorised
    <2>2. members'[t] = members[t]
      <3>1. \A u \in User : members'[t][u] = members[t][u]
        BY <1>1, <2>1, TeamChanges
      <3>2. members'[t] \in [User -> Membership \cup {NoMember}]
            /\ members[t] \in [User -> Membership \cup {NoMember}]
        BY <2>0 DEF TypeOK
      <3>3. QED
        BY <3>1, <3>2
    <2>3. teams'[t] = teams[t]
      <3>1. ~\E r \in Req : req[r].pc = "authorised" /\ req[r].team = t
        BY <2>0 DEF Authorised
      <3>2. QED
        BY <1>1, <2>1, <3>1, TeamChanges
    <2>4. ASSUME NEW k \in Tournament PROVE registrations'[k][t] = registrations[k][t]
      <3>1. CASE registrations' = registrations
        BY <3>1
      <3>2. ASSUME NEW r \in Req, InsertRegistration(r)
            PROVE  registrations'[k][t] = registrations[k][t]
        <4>1. req[r].team # t
          BY <2>0, <3>2 DEF InsertRegistration, Authorised
        <4>2. QED
          BY <2>0, <3>2, <4>1 DEF InsertRegistration, TypeOK
      <3>3. registrations' = registrations \/ \E r \in Req : InsertRegistration(r)
        BY <1>1 DEF Next, vars, tournamentVars, TeamStep, TournamentStep, CreateTournament,
                    InsertTournament, OpenRegistration, CheckManager, CheckUnregistered,
                    CountRegistrations, Fail, UpdateTournament
      <3>4. QED
        BY <3>1, <3>2, <3>3
    <2>5. ASSUME NEW r \in Req, Authorised(r, t)' PROVE FALSE
      <3>1. req'[r].pc \in WritePhases /\ req'[r].team = t
        BY <2>5 DEF Authorised, WritePhases
      <3>2. ~(req[r].pc \in WritePhases /\ req[r].team = t)
        BY <2>0 DEF Authorised, WritePhases
      <3>3. Manages(req'[r].user, t) /\ req'[r].user \in User
        BY <1>1, <3>1, <3>2, AuthorisedBefore
      <3>4. QED
        BY <1>1, <3>3 DEF Manages, Leaderless
    <2>6. Leaderless(t)'
      <3>1. /\ TeamExists(t)'
            /\ \A u \in User : members'[t][u].role \in ManagerRoles => ~members'[t][u].is_active
        BY <1>1, <2>2, <2>3 DEF Leaderless, TeamExists
      <3>2. QED
        BY <2>5, <3>1 DEF Leaderless
    <2>7. QED
      BY <2>2, <2>3, <2>4, <2>6
  <1>2. Typed /\ TeamInv /\ [Next]_vars =>
          [\A t \in Team : Leaderless(t) =>
             /\ Leaderless(t)'
             /\ members'[t] = members[t] /\ teams'[t] = teams[t]
             /\ \A k \in Tournament : registrations'[k][t] = registrations[k][t]]_vars
    BY <1>1
  <1>3. QED
    BY <1>2, AlwaysTyped, AlwaysTeamInv, PTL DEF Spec, LeaderlessIsForever

-----------------------------------------------------------------------------
RegisterPhases == {"opened", "managed", "unregistered", "counted"}

(* The limit a registration has read is one the tournament has had.        *)
ReadItsLimit(r) ==
  req[r].pc \in RegisterPhases =>
    /\ req[r].tournament \in Tournament /\ TournamentExists(req[r].tournament)
    /\ req[r].max_teams \in limits[req[r].tournament]

LimitsAreRecorded ==
  \A k \in Tournament : TournamentExists(k) => tournaments[k].max_teams \in limits[k]

NoneRegisteredEarly ==
  \A k \in Tournament : ~TournamentExists(k) => Registered(k) = {}

TournamentInv ==
  /\ \A r \in Req : ReadItsLimit(r)
  /\ LimitsAreRecorded
  /\ NoneRegisteredEarly
  /\ OverbookingIsBounded

(* All that a step may do to a tournament, its limits and its              *)
(* registrations.                                                          *)
LEMMA TournamentChanges ==
  ASSUME TypeOK, [Next]_vars, NEW k \in Tournament
  PROVE  \/ /\ tournaments'[k] = tournaments[k] /\ limits'[k] = limits[k]
            /\ \/ Registered(k)' = Registered(k)
               \/ \E r \in Req : /\ InsertRegistration(r) /\ req[r].tournament = k
                                 /\ Registered(k)' \subseteq Registered(k) \cup {req[r].team}
         \/ /\ ~TournamentExists(k) /\ TournamentExists(k)'
            /\ limits'[k] = {tournaments'[k].max_teams}
            /\ Registered(k)' = Registered(k)
            /\ \E r \in Req : InsertTournament(r)
         \/ /\ TournamentExists(k) /\ TournamentExists(k)'
            /\ limits'[k] = limits[k] \cup {tournaments'[k].max_teams}
            /\ Registered(k)' = Registered(k)
            /\ UpdateTournament
  <1>1. CASE tournamentVars' = tournamentVars
    BY <1>1 DEF tournamentVars, Registered
  <1>2. ASSUME NEW r \in Req, InsertRegistration(r)
        PROVE  /\ tournaments' = tournaments /\ limits' = limits
               /\ \/ Registered(k)' = Registered(k)
                  \/ /\ req[r].tournament = k
                     /\ Registered(k)' \subseteq Registered(k) \cup {req[r].team}
    <2>1. tournaments' = tournaments /\ limits' = limits
      BY <1>2 DEF InsertRegistration
    <2>2. CASE req[r].tournament = k
      BY <1>2, <2>1, <2>2 DEF InsertRegistration, Registered, TypeOK
    <2>3. CASE req[r].tournament # k
      BY <1>2, <2>1, <2>3 DEF InsertRegistration, Registered, TypeOK
    <2>4. QED
      BY <2>1, <2>2, <2>3
  <1>3. ASSUME NEW r \in Req, InsertTournament(r), tournamentVars' # tournamentVars
        PROVE  /\ Registered(k)' = Registered(k)
               /\ \/ tournaments'[k] = tournaments[k] /\ limits'[k] = limits[k]
                  \/ /\ ~TournamentExists(k) /\ TournamentExists(k)'
                     /\ limits'[k] = {tournaments'[k].max_teams}
    <2>1. /\ registrations' = registrations /\ ~TournamentExists(req[r].tournament)
          /\ tournaments' = [tournaments EXCEPT ![req[r].tournament] =
                               [status |-> "draft", max_teams |-> req[r].max_teams]]
          /\ limits' = [limits EXCEPT ![req[r].tournament] = {req[r].max_teams}]
      BY <1>3 DEF InsertTournament
    <2>2. CASE req[r].tournament = k
      <3>1. /\ tournaments'[k] = [status |-> "draft", max_teams |-> req[r].max_teams]
            /\ limits'[k] = {req[r].max_teams}
        BY <2>1, <2>2 DEF TypeOK
      <3>2. QED
        BY <2>1, <2>2, <3>1 DEF TournamentExists, NoTournament, Registered
    <2>3. CASE req[r].tournament # k
      BY <2>1, <2>3 DEF Registered, TypeOK
    <2>4. QED
      BY <2>2, <2>3
  <1>4. CASE UpdateTournament
    <2>1. PICK j \in Tournament, row \in TournamentRow :
            /\ TournamentExists(j)
            /\ tournaments' = [tournaments EXCEPT ![j] = row]
            /\ limits' = [limits EXCEPT ![j] = @ \cup {row.max_teams}]
      BY <1>4 DEF UpdateTournament
    <2>2. registrations' = registrations
      BY <1>4 DEF UpdateTournament
    <2>3. CASE j = k
      <3>1. tournaments'[k] = row /\ limits'[k] = limits[k] \cup {row.max_teams}
        BY <2>1, <2>3 DEF TypeOK
      <3>2. row # NoTournament
        BY DEF TournamentRow, NoTournament
      <3>3. QED
        BY <1>4, <2>1, <2>2, <2>3, <3>1, <3>2 DEF TournamentExists, Registered
    <2>4. CASE j # k
      BY <2>1, <2>2, <2>4 DEF Registered, TypeOK
    <2>5. QED
      BY <2>3, <2>4
  <1>5. \/ tournamentVars' = tournamentVars
        \/ \E r \in Req : InsertRegistration(r) \/ InsertTournament(r)
        \/ UpdateTournament
    BY DEF Next, vars, TournamentStep, CreateTournament, OpenRegistration, CheckManager,
           CheckUnregistered, CountRegistrations, Fail
  <1>6. ASSUME NEW r \in Req, InsertRegistration(r)
        PROVE  /\ tournaments'[k] = tournaments[k] /\ limits'[k] = limits[k]
               /\ \/ Registered(k)' = Registered(k)
                  \/ \E q \in Req : /\ InsertRegistration(q) /\ req[q].tournament = k
                                    /\ Registered(k)' \subseteq Registered(k) \cup {req[q].team}
    BY <1>2, <1>6
  <1>7. QED
    BY <1>1, <1>3, <1>4, <1>5, <1>6

(* A registration keeps its tournament and the limit it has read there.    *)
LEMMA OpenedBefore ==
  ASSUME TypeOK, [Next]_vars, NEW r \in Req, req'[r].pc \in RegisterPhases
  PROVE  \/ /\ req[r].pc \in RegisterPhases
            /\ req'[r].tournament = req[r].tournament /\ req'[r].max_teams = req[r].max_teams
         \/ /\ req'[r].tournament \in Tournament /\ TournamentExists(req'[r].tournament)
            /\ req'[r].max_teams = tournaments[req'[r].tournament].max_teams
            /\ limits' = limits /\ tournaments' = tournaments
  <1> DEFINE Kept == /\ req[r].pc \in RegisterPhases
                     /\ req'[r].tournament = req[r].tournament
                     /\ req'[r].max_teams = req[r].max_teams
             Fresh == /\ req'[r].tournament \in Tournament
                      /\ TournamentExists(req'[r].tournament)
                      /\ req'[r].max_teams = tournaments[req'[r].tournament].max_teams
                      /\ limits' = limits /\ tournaments' = tournaments
  <1>1. ASSUME req'[r] = req[r] PROVE Kept
    BY <1>1
  <1>2. ~Finish(r)
    BY DEF Finish, Idle, TypeOK, RegisterPhases
  <1>3. CASE OpenRegistration(r)
    <2>1. PICK k \in Tournament, u \in User, t \in Team :
            /\ tournaments[k].status = "registration_open"
            /\ req' = [req EXCEPT ![r] = [pc |-> "opened", user |-> u, team |-> t,
                                          tournament |-> k,
                                          max_teams |-> tournaments[k].max_teams]]
      BY <1>3 DEF OpenRegistration
    <2>2. TournamentExists(k)
      BY <2>1 DEF TournamentExists, NoTournament
    <2>3. req'[r].tournament = k /\ req'[r].max_teams = tournaments[k].max_teams
      BY <2>1 DEF TypeOK
    <2>4. limits' = limits /\ tournaments' = tournaments
      BY <1>3 DEF OpenRegistration, tournamentVars
    <2>5. QED
      BY <2>2, <2>3, <2>4
  <1>4. ASSUME NEW pc, Goto(r, pc), req[r] \in RegisterRequest
        PROVE  Kept
    <2>1. req'[r] = [req[r] EXCEPT !.pc = pc]
      BY <1>4 DEF Goto, TypeOK
    <2>2. QED
      BY <1>4, <2>1 DEF RegisterRequest, RegisterPhases
  <1>5. CASE CheckManager(r) \/ CheckUnregistered(r) \/ CountRegistrations(r)
    BY <1>2, <1>4, <1>5, RequestKinds DEF CheckManager, CheckUnregistered, CountRegistrations
  <1>6. CASE CreateTeam(r) \/ Authorise(r) \/ CreateTournament(r)
    <2>1. req'[r].pc \notin RegisterPhases
      BY <1>6 DEF CreateTeam, Authorise, CreateTournament, TypeOK, RegisterPhases
    <2>2. QED
      BY <2>1
  <1>7. CASE FindMember(r)
    <2>1. Goto(r, "found") /\ req[r] \in TeamRequest
      BY <1>2, <1>7, RequestKinds DEF FindMember, TeamPhases
    <2>2. req'[r].pc = "found"
      BY <2>1 DEF Goto, TypeOK, TeamRequest
    <2>3. QED
      BY <2>2 DEF RegisterPhases
  <1>8. CASE \/ InsertTeam(r) \/ UpdateTeam(r) \/ InsertMember(r) \/ RemoveMember(r)
             \/ InsertTournament(r) \/ InsertRegistration(r) \/ Fail(r)
    BY <1>2, <1>8 DEF InsertTeam, UpdateTeam, InsertMember, RemoveMember, InsertTournament,
                      InsertRegistration, Fail
  <1>9. ASSUME NEW q \in Req, q # r, TeamStep(q) \/ TournamentStep(q) PROVE Kept
    BY <1>1, <1>9, OthersUnchanged
  <1>10. CASE UpdateTournament \/ UNCHANGED vars
    BY <1>1, <1>10 DEF UpdateTournament, vars
  <1>11. TeamStep(r) \/ TournamentStep(r) => Kept \/ Fresh
    BY <1>3, <1>5, <1>6, <1>7, <1>8 DEF TeamStep, TournamentStep
  <1>12. QED
    BY <1>9, <1>10, <1>11 DEF Next

(* Whoever starts to count against a tournament has just found a place.    *)
LEMMA CountedBefore ==
  ASSUME TypeOK, [Next]_vars, NEW k \in Tournament, NEW r \in Req,
         r \in Counted(k)', r \notin Counted(k)
  PROVE  /\ req[r].pc = "unregistered" /\ req[r].tournament = k
         /\ ~(IsLimit(req[r].max_teams) /\ Cardinality(Registered(k)) >= req[r].max_teams)
         /\ tournamentVars' = tournamentVars
  <1>0. req'[r].pc = "counted" /\ req'[r].tournament = k
    BY DEF Counted
  <1>1. req'[r] # req[r]
    BY <1>0 DEF Counted
  <1>2. ~Finish(r)
    BY <1>0 DEF Finish, Idle, TypeOK
  <1>3. CASE CountRegistrations(r)
    <2>1. /\ req[r] \in RegisterRequest /\ Goto(r, "counted") /\ req[r].pc = "unregistered"
          /\ ~(/\ IsLimit(req[r].max_teams)
               /\ Cardinality(Registered(req[r].tournament)) >= req[r].max_teams)
          /\ tournamentVars' = tournamentVars
      BY <1>2, <1>3, RequestKinds DEF CountRegistrations
    <2>2. req'[r] = [req[r] EXCEPT !.pc = "counted"]
      BY <2>1 DEF Goto, TypeOK
    <2>3. req[r].tournament = k
      BY <1>0, <2>1, <2>2 DEF RegisterRequest
    <2>4. QED
      BY <2>1, <2>3
  <1>4. CASE CheckManager(r) \/ CheckUnregistered(r) \/ FindMember(r)
    <2>1. ASSUME NEW pc \in {"managed", "unregistered", "found"}, Goto(r, pc),
                 req[r] \in RegisterRequest \cup TeamRequest
          PROVE  FALSE
      <3>1. req'[r] = [req[r] EXCEPT !.pc = pc]
        BY <2>1 DEF Goto, TypeOK
      <3>2. req'[r].pc = pc
        BY <2>1, <3>1 DEF RegisterRequest, TeamRequest
      <3>3. QED
        BY <1>0, <3>2
    <2>2. QED
      BY <1>2, <1>4, <2>1, RequestKinds DEF CheckManager, CheckUnregistered, FindMember, TeamPhases
  <1>5. CASE CreateTeam(r) \/ Authorise(r) \/ CreateTournament(r) \/ OpenRegistration(r)
    <2>1. req'[r].pc # "counted"
      BY <1>5 DEF CreateTeam, Authorise, CreateTournament, OpenRegistration, TypeOK
    <2>2. QED
      BY <1>0, <2>1
  <1>6. CASE \/ InsertTeam(r) \/ UpdateTeam(r) \/ InsertMember(r) \/ RemoveMember(r)
             \/ InsertTournament(r) \/ InsertRegistration(r) \/ Fail(r)
    BY <1>2, <1>6 DEF InsertTeam, UpdateTeam, InsertMember, RemoveMember, InsertTournament,
                      InsertRegistration, Fail
  <1>7. TeamStep(r) \/ TournamentStep(r)
    <2>1. ~UpdateTournament /\ ~UNCHANGED vars
      BY <1>1 DEF UpdateTournament, vars
    <2>2. ASSUME NEW q \in Req, TeamStep(q) \/ TournamentStep(q) PROVE q = r
      BY <1>1, <2>2, OthersUnchanged
    <2>3. QED
      BY <2>1, <2>2 DEF Next
  <1>8. QED
    BY <1>3, <1>4, <1>5, <1>6, <1>7 DEF TeamStep, TournamentStep

LEMMA OverbookingStaysBounded ==
  ASSUME TypeOK, TournamentInv, [Next]_vars, NEW k \in Tournament,
         TournamentExists(k)', AlwaysLimited(k)'
  PROVE  \E max \in limits'[k] :
           Cardinality(Registered(k)') + Cardinality(Counted(k)') <= max + Cardinality(Req) - 1
  <1>0. /\ \A r \in Req : ReadItsLimit(r)
        /\ LimitsAreRecorded /\ NoneRegisteredEarly /\ OverbookingIsBounded
    BY DEF TournamentInv
  <1>1. /\ IsFiniteSet(Registered(k)) /\ Cardinality(Registered(k)) \in Nat
        /\ IsFiniteSet(Registered(k)') /\ Cardinality(Registered(k)') \in Nat
        /\ IsFiniteSet(Counted(k)) /\ Cardinality(Counted(k)) \in Nat
        /\ IsFiniteSet(Counted(k)') /\ Cardinality(Counted(k)') \in Nat
        /\ Cardinality(Counted(k)') <= Cardinality(Req) /\ Cardinality(Req) \in Nat
    <2>1. ASSUME NEW S, NEW T \in SUBSET S, IsFiniteSet(S)
          PROVE  /\ IsFiniteSet(T) /\ Cardinality(T) \in Nat
                 /\ Cardinality(T) <= Cardinality(S) /\ Cardinality(S) \in Nat
      BY <2>1, FS_Subset, FS_CardinalityType
    <2>2. /\ Registered(k) \in SUBSET Team /\ Registered(k)' \in SUBSET Team
          /\ Counted(k) \in SUBSET Req /\ Counted(k)' \in SUBSET Req
      BY DEF Registered, Counted
    <2>3. QED
      BY <2>1, <2>2, TournamentAssumption
  <1>2. ASSUME NEW max \in limits'[k] PROVE max \in Nat /\ max >= 1
    <2>1. limits'[k] \subseteq Limits
      <3>1. CASE UNCHANGED tournamentVars \/ \E r \in Req : InsertRegistration(r)
        BY <3>1 DEF TypeOK, tournamentVars, InsertRegistration
      <3>2. CASE UpdateTournament
        BY <3>2 DEF TypeOK, UpdateTournament, TournamentRow
      <3>3. ASSUME NEW r \in Req, InsertTournament(r) PROVE limits'[k] \subseteq Limits
        <4>1. req[r].max_teams \in Limits
          BY <3>3, RequestKinds DEF InsertTournament, CreateRequest
        <4>2. QED
          BY <3>3, <4>1 DEF InsertTournament, TypeOK, tournamentVars
      <3>4. QED
        BY <3>1, <3>2, <3>3
           DEF Next, vars, tournamentVars, TournamentStep, CreateTournament, OpenRegistration,
               CheckManager, CheckUnregistered, CountRegistrations, Fail
    <2>2. IsLimit(max)
      BY DEF AlwaysLimited
    <2>3. QED
      BY <2>1, <2>2, TournamentAssumption DEF IsLimit
  \* Fewer counted requests, no more registrations: the same limit serves.
  <1>3. ASSUME TournamentExists(k), AlwaysLimited(k), limits[k] \subseteq limits'[k],
               Cardinality(Registered(k)') + Cardinality(Counted(k)')
                 <= Cardinality(Registered(k)) + Cardinality(Counted(k))
        PROVE  \E max \in limits'[k] :
                 Cardinality(Registered(k)') + Cardinality(Counted(k)') <= max + Cardinality(Req) - 1
    <2>1. PICK max \in limits[k] :
            Cardinality(Registered(k)) + Cardinality(Counted(k)) <= max + Cardinality(Req) - 1
      BY <1>0, <1>3 DEF OverbookingIsBounded
    <2>2. Cardinality(Registered(k)') + Cardinality(Counted(k)') <= max + Cardinality(Req) - 1
      BY <1>1, <1>2, <1>3, <2>1
    <2>3. QED
      BY <1>3, <2>1, <2>2
  <1>4. ASSUME Counted(k)' \subseteq Counted(k)
        PROVE  Cardinality(Counted(k)') <= Cardinality(Counted(k))
    BY <1>1, <1>4, FS_Subset
  <1>5. CASE tournaments'[k] = tournaments[k] /\ limits'[k] = limits[k]
    <2>1. TournamentExists(k) /\ AlwaysLimited(k)
      BY <1>5 DEF TournamentExists, AlwaysLimited
    <2>2. ASSUME NEW r \in Req, r \in Counted(k)', r \notin Counted(k)
          PROVE  \E max \in limits'[k] :
                   Cardinality(Registered(k)') + Cardinality(Counted(k)')
                     <= max + Cardinality(Req) - 1
      <3>1. /\ req[r].pc = "unregistered" /\ req[r].tournament = k
            /\ ~(IsLimit(req[r].max_teams) /\ Cardinality(Registered(k)) >= req[r].max_teams)
            /\ tournamentVars' = tournamentVars
        BY <2>2, CountedBefore
      <3>2. req[r].max_teams \in limits'[k]
        BY <1>0, <1>5, <3>1 DEF ReadItsLimit, RegisterPhases
      <3>3. Cardinality(Registered(k)) < req[r].max_teams
        BY <1>1, <1>2, <3>1, <3>2 DEF AlwaysLimited
      <3>4. Registered(k)' = Registered(k)
        BY <3>1 DEF tournamentVars, Registered
      <3>5. QED
        BY <1>1, <1>2, <3>2, <3>3, <3>4
    <2>3. CASE Counted(k)' \subseteq Counted(k) /\ Registered(k)' = Registered(k)
      BY <1>1, <1>3, <1>4, <1>5, <2>1, <2>3
    <2>4. ASSUME NEW r \in Req, InsertRegistration(r), req[r].tournament = k,
                 Registered(k)' \subseteq Registered(k) \cup {req[r].team},
                 Counted(k)' \subseteq Counted(k)
          PROVE  Cardinality(Registered(k)') + Cardinality(Counted(k)')
                   <= Cardinality(Registered(k)) + Cardinality(Counted(k))
      <3>1. r \in Counted(k) /\ r \notin Counted(k)'
        BY <2>4 DEF InsertRegistration, Counted, Finish, Idle, TypeOK
      <3>2. Cardinality(Counted(k)') <= Cardinality(Counted(k)) - 1
        <4>1. Counted(k)' \subseteq Counted(k) \ {r}
          BY <2>4, <3>1
        <4>2. /\ IsFiniteSet(Counted(k) \ {r})
              /\ Cardinality(Counted(k) \ {r}) = Cardinality(Counted(k)) - 1
          BY <1>1, <3>1, FS_RemoveElement
        <4>3. Cardinality(Counted(k)') <= Cardinality(Counted(k) \ {r})
          BY <4>1, <4>2, FS_Subset
        <4>4. QED
          BY <4>2, <4>3
      <3>3. Cardinality(Registered(k)') <= Cardinality(Registered(k)) + 1
        <4>1. /\ IsFiniteSet(Registered(k) \cup {req[r].team})
              /\ Cardinality(Registered(k) \cup {req[r].team}) <= Cardinality(Registered(k)) + 1
          <5>1. ASSUME NEW S, NEW x, IsFiniteSet(S), Cardinality(S) \in Nat
                PROVE  IsFiniteSet(S \cup {x}) /\ Cardinality(S \cup {x}) <= Cardinality(S) + 1
            BY <5>1, FS_AddElement
          <5>2. QED
            BY <1>1, <5>1
        <4>2. Cardinality(Registered(k)') <= Cardinality(Registered(k) \cup {req[r].team})
          BY <2>4, <4>1, FS_Subset
        <4>3. Cardinality(Registered(k) \cup {req[r].team}) \in Nat
          BY <4>1, FS_CardinalityType
        <4>4. QED
          BY <1>1, <4>1, <4>2, <4>3
      <3>4. QED
        BY <1>1, <3>2, <3>3
    <2>5. CASE \E r \in Req : /\ InsertRegistration(r) /\ req[r].tournament = k
                             /\ Registered(k)' \subseteq Registered(k) \cup {req[r].team}
               /\ Counted(k)' \subseteq Counted(k)
      BY <1>3, <1>5, <2>1, <2>4, <2>5
    <2>6. \/ Counted(k)' \subseteq Counted(k)
          \/ \E r \in Req : r \in Counted(k)' /\ r \notin Counted(k)
      BY DEF Counted
    <2>7. \/ Registered(k)' = Registered(k)
          \/ \E r \in Req : /\ InsertRegistration(r) /\ req[r].tournament = k
                            /\ Registered(k)' \subseteq Registered(k) \cup {req[r].team}
      BY <1>5, <2>1, TournamentChanges
    <2>8. QED
      BY <2>2, <2>3, <2>5, <2>6, <2>7
  <1>6. CASE /\ ~TournamentExists(k)
             /\ limits'[k] = {tournaments'[k].max_teams}
             /\ Registered(k)' = Registered(k)
             /\ \E r \in Req : InsertTournament(r)
    <2>1. Registered(k)' = {}
      BY <1>0, <1>6 DEF NoneRegisteredEarly
    <2>2. Counted(k)' = {}
      <3>1. ASSUME NEW r \in Req, r \in Counted(k)' PROVE FALSE
        <4>1. req'[r].pc \in RegisterPhases /\ req'[r].tournament = k
          BY <3>1 DEF Counted, RegisterPhases
        <4>2. QED
          BY <1>0, <1>6, <4>1, OpenedBefore DEF ReadItsLimit
      <3>2. QED
        BY <3>1 DEF Counted
    <2>3. Cardinality(Req) >= 1
      <3>1. Req # {} /\ IsFiniteSet(Req)
        BY <1>6, TournamentAssumption
      <3>2. QED
        BY <1>1, <3>1, FS_EmptySet
    <2>4. Cardinality(Registered(k)') = 0 /\ Cardinality(Counted(k)') = 0
      BY <2>1, <2>2, FS_EmptySet
    <2>5. tournaments'[k].max_teams \in limits'[k]
      BY <1>6
    <2>6. QED
      BY <1>1, <1>2, <2>3, <2>4, <2>5
  <1>7. CASE /\ TournamentExists(k)
             /\ limits'[k] = limits[k] \cup {tournaments'[k].max_teams}
             /\ Registered(k)' = Registered(k)
             /\ UpdateTournament
    <2>1. AlwaysLimited(k)
      BY <1>7 DEF AlwaysLimited
    <2>2. Counted(k)' = Counted(k)
      BY <1>7 DEF UpdateTournament, Counted
    <2>3. QED
      BY <1>1, <1>3, <1>7, <2>1, <2>2
  <1>8. QED
    BY <1>5, <1>6, <1>7, TournamentChanges

LEMMA TournamentInvStays == TypeOK /\ TournamentInv /\ [Next]_vars => TournamentInv'
  <1> SUFFICES ASSUME TypeOK, TournamentInv, [Next]_vars PROVE TournamentInv'
    OBVIOUS
  <1>0. /\ \A r \in Req : ReadItsLimit(r)
        /\ LimitsAreRecorded /\ NoneRegisteredEarly
    BY DEF TournamentInv
  <1>1. ASSUME NEW k \in Tournament, TournamentExists(k)
        PROVE  /\ limits[k] \subseteq limits'[k]
               /\ tournaments'[k] # NoTournament
    BY <1>1, TournamentChanges DEF TournamentExists
  <1>2. ASSUME NEW r \in Req PROVE ReadItsLimit(r)'
    <2> SUFFICES ASSUME req'[r].pc \in RegisterPhases
                 PROVE  /\ req'[r].tournament \in Tournament
                        /\ tournaments'[req'[r].tournament] # NoTournament
                        /\ req'[r].max_teams \in limits'[req'[r].tournament]
      BY DEF ReadItsLimit, TournamentExists
    <2>1. /\ req'[r].tournament \in Tournament /\ TournamentExists(req'[r].tournament)
          /\ req'[r].max_teams \in limits[req'[r].tournament]
      BY <1>0, OpenedBefore DEF ReadItsLimit, LimitsAreRecorded
    <2>2. QED
      BY <1>1, <2>1
  <1>3. LimitsAreRecorded'
    <2> SUFFICES ASSUME NEW k \in Tournament, TournamentExists(k)'
                 PROVE  tournaments'[k].max_teams \in limits'[k]
      BY DEF LimitsAreRecorded
    <2>1. CASE tournaments'[k] = tournaments[k] /\ limits'[k] = limits[k]
      BY <1>0, <2>1 DEF LimitsAreRecorded, TournamentExists
    <2>2. QED
      BY <2>1, TournamentChanges
  <1>4. NoneRegisteredEarly'
    <2> SUFFICES ASSUME NEW k \in Tournament, ~TournamentExists(k)'
                 PROVE  Registered(k)' = {}
      BY DEF NoneRegisteredEarly
    <2>1. ~TournamentExists(k)
      BY <1>1 DEF TournamentExists
    <2>2. ASSUME NEW r \in Req, InsertRegistration(r) PROVE req[r].tournament # k
      BY <1>0, <2>1, <2>2 DEF InsertRegistration, ReadItsLimit, RegisterPhases
    <2>3. Registered(k)' = Registered(k)
      BY <2>1, <2>2, TournamentChanges
    <2>4. QED
      BY <1>0, <2>1, <2>3 DEF NoneRegisteredEarly
  <1>5. OverbookingIsBounded'
    BY OverbookingStaysBounded DEF OverbookingIsBounded
  <1>6. QED
    BY <1>2, <1>3, <1>4, <1>5 DEF TournamentInv

(***************************************************************************)
(* However many teams register at once and however often the limit is      *)
(* changed meanwhile, a tournament is overbooked by at most the other      *)
(* requests in flight.                                                     *)
(***************************************************************************)
THEOREM OverbookingBounded == Spec => []OverbookingIsBounded
  <1>1. Init => TournamentInv
    BY DEF Init, TournamentInv, ReadItsLimit, RegisterPhases, LimitsAreRecorded,
           NoneRegisteredEarly, OverbookingIsBounded, TournamentExists, Registered, Idle
  <1>2. TournamentInv => OverbookingIsBounded
    BY DEF TournamentInv
  <1>3. QED
    BY <1>1, <1>2, TournamentInvStays, LeagueTyping, PTL DEF Spec

=============================================================================
