------------------------- MODULE TournamentService -------------------------
(***************************************************************************)
(* app/tournaments/service.py with the teams that register: an             *)
(* administrator creates, opens, limits and closes a tournament, a manager *)
(* registers a team.  register_team reads the tournament, the membership,  *)
(* the team's registration and the number of registrations one after the   *)
(* other, and then inserts; no lock spans them.                            *)
(*                                                                         *)
(* A Tournament is the slug it was created under.  A registration stays    *)
(* "pending" and keeps the payment_status it was made with (from the entry *)
(* fee, left out here): no code approves, charges or deletes one.          *)
(***************************************************************************)
EXTENDS TeamService, FiniteSets

CONSTANTS Tournament,
          Limits,  \* bound: values of max_teams, NULL being no limit
          TournamentStatuses  \* the TournamentStatus values told apart here

ASSUME TournamentAssumption ==
  /\ IsFiniteSet(Team) /\ IsFiniteSet(Req)
  /\ Limits \ {NULL} \subseteq Nat
  /\ {"draft", "registration_open"} \subseteq TournamentStatuses

VARIABLES tournaments,
          registrations,  \* per tournament and team
          limits          \* history: the limits a tournament has had

tournamentVars == <<tournaments, registrations, limits>>
vars == <<teamVars, tournamentVars, req>>

NoTournament == [status |-> "absent"]
TournamentRow == [status : TournamentStatuses, max_teams : Limits]
TournamentExists(k) == tournaments[k] # NoTournament

(* registered_by, or NULL.                                                 *)
Registered(k) == {t \in Team : registrations[k][t] # NULL}

(* max_teams: as read from the tournament.                                 *)
RegisterRequest ==
  [pc : {"opened", "managed", "unregistered", "counted"}, user : User, team : Team,
   tournament : Tournament, max_teams : Limits]
CreateRequest == [pc : {"announcing"}, tournament : Tournament, max_teams : Limits]

(* A limit of 0 is falsy: like none.                                       *)
IsLimit(max) == max # NULL /\ max # 0

(* create_tournament, with at least two places: nobody has taken the slug. *)
CreateTournament(r) ==
  /\ req[r] = Idle
  /\ \E k \in Tournament, max \in Limits :
       /\ ~TournamentExists(k)
       /\ max # NULL => max >= 2
       /\ req' = [req EXCEPT ![r] =
                    [pc |-> "announcing", tournament |-> k, max_teams |-> max]]
  /\ UNCHANGED <<teamVars, tournamentVars>>

InsertTournament(r) ==
  /\ req[r].pc = "announcing"
  /\ LET k == req[r].tournament
         max == req[r].max_teams
     IN IF TournamentExists(k)
        THEN UNCHANGED tournamentVars
        ELSE /\ tournaments' = [tournaments EXCEPT ![k] =
                                  [status |-> "draft", max_teams |-> max]]
             /\ limits' = [limits EXCEPT ![k] = {max}]
             /\ UNCHANGED registrations
  /\ Finish(r)
  /\ UNCHANGED teamVars

(* update_tournament writes the fields that were sent, whatever the row    *)
(* holds: status and limit may change at any time, in any direction.       *)
UpdateTournament ==
  /\ \E k \in Tournament :
       /\ TournamentExists(k)
       /\ \E row \in TournamentRow :
            /\ tournaments' = [tournaments EXCEPT ![k] = row]
            /\ limits' = [limits EXCEPT ![k] = @ \cup {row.max_teams}]
  /\ UNCHANGED <<teamVars, registrations, req>>

-----------------------------------------------------------------------------
(* register_team                                                           *)

OpenRegistration(r) ==
  /\ req[r] = Idle
  /\ \E k \in Tournament, u \in User, t \in Team :
       /\ tournaments[k].status = "registration_open"
       /\ req' = [req EXCEPT ![r] = [pc |-> "opened", user |-> u, team |-> t,
                                     tournament |-> k,
                                     max_teams |-> tournaments[k].max_teams]]
  /\ UNCHANGED <<teamVars, tournamentVars>>

CheckManager(r) ==
  /\ req[r].pc = "opened"
  /\ IF Manages(req[r].user, req[r].team) THEN Goto(r, "managed") ELSE Finish(r)
  /\ UNCHANGED <<teamVars, tournamentVars>>

CheckUnregistered(r) ==
  /\ req[r].pc = "managed"
  /\ IF req[r].team \in Registered(req[r].tournament)
     THEN Finish(r) ELSE Goto(r, "unregistered")
  /\ UNCHANGED <<teamVars, tournamentVars>>

(* Mutant: an off-by-one in the comparison.                                *)
CountAboveLimit(r) ==
  /\ req[r].pc = "unregistered"
  /\ LET max == req[r].max_teams
     IN IF IsLimit(max) /\ Cardinality(Registered(req[r].tournament)) > max
        THEN Finish(r) ELSE Goto(r, "counted")
  /\ UNCHANGED <<teamVars, tournamentVars>>

(* Against the limit that was read at the start.                           *)
CountRegistrations(r) ==
  /\ req[r].pc = "unregistered"
  /\ LET max == req[r].max_teams
     IN IF IsLimit(max) /\ Cardinality(Registered(req[r].tournament)) >= max
        THEN Finish(r) ELSE Goto(r, "counted")
  /\ UNCHANGED <<teamVars, tournamentVars>>

(* INSERT and COMMIT, which the unique (tournament, team) refuses if the   *)
(* team has been registered meanwhile.  tournament.registered follows,     *)
(* which only mails.                                                       *)
InsertRegistration(r) ==
  /\ req[r].pc = "counted"
  /\ LET k == req[r].tournament
         t == req[r].team
     IN registrations' =
          IF t \in Registered(k) THEN registrations
          ELSE [registrations EXCEPT ![k][t] = req[r].user]
  /\ Finish(r)
  /\ UNCHANGED <<teamVars, tournaments, limits>>

-----------------------------------------------------------------------------
(* A request may end anywhere: nothing it did before its COMMIT stays.     *)
Fail(r) == /\ req[r] # Idle
           /\ Finish(r)
           /\ UNCHANGED <<teamVars, tournamentVars>>

Init ==
  /\ TeamInit
  /\ tournaments = [k \in Tournament |-> NoTournament]
  /\ registrations = [k \in Tournament |-> [t \in Team |-> NULL]]
  /\ limits = [k \in Tournament |-> {}]
  /\ req = [r \in Req |-> Idle]

TournamentStep(r) ==
  \/ CreateTournament(r) \/ InsertTournament(r)
  \/ OpenRegistration(r) \/ CheckManager(r) \/ CheckUnregistered(r)
  \/ CountRegistrations(r) \/ InsertRegistration(r)
  \/ Fail(r)

Next == \/ \E r \in Req : TeamStep(r) /\ UNCHANGED tournamentVars
        \/ \E r \in Req : TournamentStep(r)
        \/ UpdateTournament

Spec == Init /\ [][Next]_vars

=============================================================================
