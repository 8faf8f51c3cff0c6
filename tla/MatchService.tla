---------------------------- MODULE MatchService ----------------------------
(***************************************************************************)
(* The matches of one tournament (app/tournaments/service.py): an          *)
(* administrator schedules them, enters and corrects results, and adds     *)
(* scoring rules; the table is computed from whatever they are by then.    *)
(* Nothing compares a match's teams with the registrations.  The winner is *)
(* kept as a side.                                                         *)
(***************************************************************************)
EXTENDS StandingCalculator

CONSTANTS Team, Match, Group,
          Req,       \* result updates in flight at once
          Goals,     \* bound: goals a side may score
          Scorings,  \* bound: the scoring rules administrators define
          Pairings   \* bound: the home and away teams they schedule

ASSUME MatchAssumption ==
  /\ IsFiniteSet(Match)
  /\ Goals \subseteq Nat
  /\ NULL \notin Team \cup Group
  /\ Pairings \subseteq (Team \cup {NULL}) \X (Team \cup {NULL})

VARIABLES matches,
          scorings,  \* the active rules of category "scoring"
          req,
          raced      \* history: matches two results of which overlapped

vars == <<matches, scorings, req, raced>>

NoMatch == [status |-> "absent"]
MatchRow == [status : {"scheduled", "completed"}, group_name : Group \cup {NULL},
             home : Team \cup {NULL}, away : Team \cup {NULL},
             home_score : Goals \cup {NULL}, away_score : Goals \cup {NULL},
             winner : {"home", "away", NULL}, is_draw : BOOLEAN]

Idle == [pc |-> "idle"]
ResultRequest == [pc : {"loaded"}, match : Match, row : MatchRow]

Finish(r) == req' = [req EXCEPT ![r] = Idle]

(* create_match: either team may be missing, and both may be the same.     *)
CreateMatch ==
  /\ \E m \in Match, group \in Group \cup {NULL}, pair \in Pairings :
       /\ matches[m] = NoMatch
       /\ matches' = [matches EXCEPT ![m] =
            [status |-> "scheduled", group_name |-> group, home |-> pair[1], away |-> pair[2],
             home_score |-> NULL, away_score |-> NULL, winner |-> NULL, is_draw |-> FALSE]]
  /\ UNCHANGED <<scorings, req, raced>>

(* add_rule; a rule is never changed or switched off.                      *)
AddRule ==
  /\ \E rule \in Scorings \ scorings : scorings' = scorings \cup {rule}
  /\ UNCHANGED <<matches, req, raced>>

LoadMatch(r) ==
  /\ req[r] = Idle
  /\ \E m \in Match :
       /\ matches[m] # NoMatch
       /\ req' = [req EXCEPT ![r] = [pc |-> "loaded", match |-> m, row |-> matches[m]]]
  /\ UNCHANGED <<matches, scorings, raced>>

WinnerOf(home, away) ==
  CASE home > away -> "home" [] home < away -> "away" [] home = away -> NULL

ResultRow(row, home, away) ==
  [row EXCEPT !.status = "completed", !.home_score = home, !.away_score = away,
              !.winner = WinnerOf(home, away), !.is_draw = (home = away)]

(* The ORM's UPDATE names the columns whose new value is not the loaded    *)
(* one; the others keep what the row holds by now.                         *)
Written(row, loaded, new) ==
  [c \in DOMAIN row |-> IF new[c] # loaded[c] THEN new[c] ELSE row[c]]

Racing(r) == {q \in Req \ {r} : req[q] # Idle /\ req[q].match = req[r].match}

(* Mutant: a draw leaves the winner of an earlier result in place.         *)
DrawKeepsWinner(r) ==
  /\ req[r] # Idle
  /\ \E home, away \in Goals :
       LET new == ResultRow(req[r].row, home, away)
       IN matches' = [matches EXCEPT ![req[r].match] = Written(@, req[r].row,
            IF home = away THEN [new EXCEPT !.winner = req[r].row.winner] ELSE new)]
  /\ raced' = IF Racing(r) # {} THEN raced \cup {req[r].match} ELSE raced
  /\ Finish(r)
  /\ UNCHANGED scorings

CommitResult(r) ==
  /\ req[r] # Idle
  /\ \E home, away \in Goals :
       matches' = [matches EXCEPT ![req[r].match] =
                     Written(@, req[r].row, ResultRow(req[r].row, home, away))]
  /\ raced' = IF Racing(r) # {} THEN raced \cup {req[r].match} ELSE raced
  /\ Finish(r)
  /\ UNCHANGED scorings

Fail(r) == req[r] # Idle /\ Finish(r) /\ UNCHANGED <<matches, scorings, raced>>

(* compute_standings takes any one of the scoring rules.                   *)
InForce == IF scorings = {} THEN {DefaultScoring} ELSE scorings

ComputeStandings(group) ==
  UNION {Rankings(Standings(matches, rule, group)) : rule \in InForce}

Init == /\ matches = [m \in Match |-> NoMatch]
        /\ scorings = {}
        /\ req = [r \in Req |-> Idle]
        /\ raced = {}

Next == \/ \E r \in Req : LoadMatch(r) \/ CommitResult(r) \/ Fail(r)
        \/ CreateMatch \/ AddRule

Spec == Init /\ [][Next]_vars

=============================================================================
