-------------------------- MODULE LeagueProperties --------------------------
(***************************************************************************)
(* What teams and registrations keep true, although the checks and the     *)
(* writes of one request are separate steps.                               *)
(***************************************************************************)
EXTENDS TournamentService

(* Types of the tables and of the requests in flight.                      *)
TypeOK ==
  /\ teams \in [Team -> TeamRow \cup {NoTeam}]
  /\ members \in [Team -> [User -> Membership \cup {NoMember}]]
  /\ added_by \in [Team -> [User -> User \cup {NULL}]]
  /\ tournaments \in [Tournament -> TournamentRow \cup {NoTournament}]
  /\ registrations \in [Tournament -> [Team -> User \cup {NULL}]]
  /\ limits \in [Tournament -> SUBSET Limits]
  /\ req \in [Req -> TeamRequest \cup RegisterRequest \cup CreateRequest \cup {Idle}]

(***************************************************************************)
(* A roster grows from its creator only: everybody else was added by a     *)
(* member who held a manager's or captain's role, however the              *)
(* authorisation, the lookup and the insert of several requests interleave. *)
(***************************************************************************)
RosterGrowsFromCreator ==
  \A t \in Team, u \in User : IsMember(t, u) =>
    LET adder == added_by[t][u]
    IN IF adder = u THEN teams[t].captain = u
       ELSE adder \in User /\ members[t][adder].role \in ManagerRoles

(* Requests that have been found to be a manager's, and may still write.   *)
Authorised(r, t) ==
  /\ req[r].pc \in {"authorised", "found", "managed", "unregistered", "counted"}
  /\ req[r].team = t

Leaderless(t) ==
  /\ TeamExists(t)
  /\ \A u \in User : members[t][u].role \in ManagerRoles => ~members[t][u].is_active
  /\ \A r \in Req : ~Authorised(r, t)

(***************************************************************************)
(* A team that has lost its last manager is frozen once the requests       *)
(* authorised before are over: its roster, its activity and its            *)
(* registrations never change again, and it never gets another manager.    *)
(***************************************************************************)
LeaderlessIsForever ==
  [][\A t \in Team : Leaderless(t) =>
       /\ Leaderless(t)'
       /\ members'[t] = members[t] /\ teams'[t] = teams[t]
       /\ \A k \in Tournament : registrations'[k][t] = registrations[k][t]]_vars

(* Registrations that have been counted and not inserted.                  *)
Counted(k) == {r \in Req : req[r].pc = "counted" /\ req[r].tournament = k}

AlwaysLimited(k) == \A max \in limits[k] : IsLimit(max)

(***************************************************************************)
(* A tournament that was limited ever since it was created is overbooked   *)
(* only by the requests that counted at the same time: with n requests in  *)
(* flight there are at most n - 1 registrations above the greatest limit.  *)
(***************************************************************************)
OverbookingIsBounded ==
  \A k \in Tournament : TournamentExists(k) /\ AlwaysLimited(k) =>
    \E max \in limits[k] :
      Cardinality(Registered(k)) + Cardinality(Counted(k)) <= max + Cardinality(Req) - 1

=============================================================================
