---------------------------- MODULE TeamService ----------------------------
(***************************************************************************)
(* app/teams/service.py and models.py: teams, their rosters, and the check *)
(* that the caller is a manager or captain, which is one read before the   *)
(* reads and the write it is for.  A membership is never deleted, and no   *)
(* code makes an inactive one active again.                                *)
(*                                                                         *)
(* A Team is the slug it was created under (unique in its tenant).  An     *)
(* invitation to an address without a user writes nothing and is left out. *)
(***************************************************************************)
EXTENDS Naturals

CONSTANTS User, Team,
          Role,   \* those of TeamMemberRole told apart here
          Req,    \* requests in flight at once
          NULL,
          Founders,   \* bound: users who create teams
          Recruiting  \* bound: teams that change their members

ManagerRoles == {"manager", "captain"}

ASSUME TeamAssumption == /\ Role \subseteq {"manager", "captain", "player"}
                         /\ NULL \notin User \cup Team
                         /\ Founders \subseteq User /\ Recruiting \subseteq Team

VARIABLES teams,     \* the teams: who created them, are they active
          members,   \* the memberships of each team, by user
          added_by,  \* history: who made a user a member
          req        \* what each request is doing and has read

teamVars == <<teams, members, added_by>>

NoTeam == [captain |-> NULL]
TeamRow == [captain : User, is_active : BOOLEAN]

NoMember == [role |-> "none", is_active |-> FALSE]
Membership == [role : Role \cup {"manager"}, is_active : BOOLEAN]

TeamExists(t) == teams[t] # NoTeam
IsMember(t, u) == members[t][u] # NoMember

(* Mutant: a removed manager keeps the office.                             *)
ManagesOnceAppointed(u, t) == members[t][u].role \in ManagerRoles

(* _require_team_manager.                                                  *)
Manages(u, t) == members[t][u].role \in ManagerRoles /\ members[t][u].is_active

RosterOps == {"add", "invite", "remove"}
TeamOps == RosterOps \cup {"create", "update"}

TeamPhases == {"creating", "authorised", "found"}

(* target and role: the member a roster request is about.                  *)
TeamRequest == [pc : TeamPhases, op : TeamOps, user : User,
                team : Team, target : User \cup {NULL}, role : Role \cup {NULL}]

Idle == [pc |-> "idle"]

Goto(r, pc) == req' = [req EXCEPT ![r].pc = pc]
Finish(r) == req' = [req EXCEPT ![r] = Idle]

(* create_team: nobody has taken the slug, as read ...                     *)
CreateTeam(r) ==
  /\ req[r] = Idle
  /\ \E u \in Founders, t \in Team :
       /\ ~TeamExists(t)
       /\ req' = [req EXCEPT ![r] = [pc |-> "creating", op |-> "create", user |-> u,
                                     team |-> t, target |-> NULL, role |-> NULL]]
  /\ UNCHANGED teamVars

(* ... and then the team and its creator's membership are committed, or    *)
(* the unique slug refuses both.                                           *)
InsertTeam(r) ==
  /\ req[r].pc = "creating"
  /\ LET t == req[r].team
         u == req[r].user
     IN IF TeamExists(t)
        THEN UNCHANGED teamVars
        ELSE /\ teams' = [teams EXCEPT ![t] = [captain |-> u, is_active |-> TRUE]]
             /\ members' = [members EXCEPT ![t][u] = [role |-> "manager", is_active |-> TRUE]]
             /\ added_by' = [added_by EXCEPT ![t][u] = u]
  /\ Finish(r)

(* Mutant: whoever knows the team may invite.                              *)
AuthoriseAnyInvitation(r) ==
  /\ req[r] = Idle
  /\ \E op \in RosterOps \cup {"update"}, u \in User, t \in Recruiting,
        target \in User \cup {NULL}, role \in Role \cup {NULL} :
       /\ TeamExists(t) /\ (op = "invite" \/ Manages(u, t))
       /\ target = NULL <=> op = "update"
       /\ role = NULL <=> op \in {"update", "remove"}
       /\ req' = [req EXCEPT ![r] = [pc |-> "authorised", op |-> op, user |-> u,
                                     team |-> t, target |-> target, role |-> role]]
  /\ UNCHANGED teamVars

(* update_team, add_member, invite_by_email of a known user and            *)
(* remove_member: the caller is found to be a manager.                     *)
Authorise(r) ==
  /\ req[r] = Idle
  /\ \E op \in RosterOps \cup {"update"}, u \in User, t \in Recruiting,
        target \in User \cup {NULL}, role \in Role \cup {NULL} :
       /\ TeamExists(t) /\ Manages(u, t)
       /\ target = NULL <=> op = "update"
       /\ role = NULL <=> op \in {"update", "remove"}
       /\ req' = [req EXCEPT ![r] = [pc |-> "authorised", op |-> op, user |-> u,
                                     team |-> t, target |-> target, role |-> role]]
  /\ UNCHANGED teamVars

(* Of the fields that update_team writes (name and logo are the others),   *)
(* none is read by another operation.                                      *)
UpdateTeam(r) ==
  /\ req[r].pc = "authorised" /\ req[r].op = "update"
  /\ \E active \in BOOLEAN : teams' = [teams EXCEPT ![req[r].team].is_active = active]
  /\ Finish(r)
  /\ UNCHANGED <<members, added_by>>

(* The membership is looked for.  add_member is refused by any, an         *)
(* invitation only by an active one, a removal by none.                    *)
FindMember(r) ==
  /\ req[r].pc = "authorised" /\ req[r].op \in RosterOps
  /\ LET t == req[r].team
         u == req[r].target
         refused == CASE req[r].op = "add" -> IsMember(t, u)
                      [] req[r].op = "invite" -> members[t][u].is_active
                      [] req[r].op = "remove" -> ~IsMember(t, u)
     IN IF refused THEN Finish(r) ELSE Goto(r, "found")
  /\ UNCHANGED teamVars

(* INSERT and COMMIT, which the unique (team, user) refuses if there is a  *)
(* membership by now, or an inactive one the invitation did not look at.   *)
InsertMember(r) ==
  /\ req[r].pc = "found" /\ req[r].op \in {"add", "invite"}
  /\ LET t == req[r].team
         u == req[r].target
     IN IF IsMember(t, u)
        THEN UNCHANGED teamVars
        ELSE /\ members' = [members EXCEPT ![t][u] = [role |-> req[r].role, is_active |-> TRUE]]
             /\ added_by' = [added_by EXCEPT ![t][u] = req[r].user]
             /\ UNCHANGED teams
  /\ Finish(r)

(* Mutant: the role is overwritten.                                        *)
RemoveWithRole(r) ==
  /\ req[r].pc = "found" /\ req[r].op = "remove"
  /\ members' = [members EXCEPT ![req[r].team][req[r].target].role = "removed"]
  /\ Finish(r)
  /\ UNCHANGED <<teams, added_by>>

(* A manager may remove everybody, the last manager and the caller too.    *)
RemoveMember(r) ==
  /\ req[r].pc = "found" /\ req[r].op = "remove"
  /\ members' = [members EXCEPT ![req[r].team][req[r].target].is_active = FALSE]
  /\ Finish(r)
  /\ UNCHANGED <<teams, added_by>>

TeamInit ==
  /\ teams = [t \in Team |-> NoTeam]
  /\ members = [t \in Team |-> [u \in User |-> NoMember]]
  /\ added_by = [t \in Team |-> [u \in User |-> NULL]]

TeamStep(r) == CreateTeam(r) \/ InsertTeam(r) \/ UpdateTeam(r) \/ Authorise(r)
               \/ FindMember(r) \/ InsertMember(r) \/ RemoveMember(r)

=============================================================================
