--------------------------- MODULE MatchProperties ---------------------------
(***************************************************************************)
(* What results, the table derived from them and qualification keep true.  *)
(***************************************************************************)
EXTENDS MatchService

(***************************************************************************)
(* The winner and the draw flag of a completed match agree with its score, *)
(* also after a correction, unless two results of it were entered at once: *)
(* each then writes only the columns that it changes.                      *)
(***************************************************************************)
ResultsAgree ==
  \A m \in Match \ raced : matches[m].status = "completed" =>
    /\ matches[m].winner = WinnerOf(matches[m].home_score, matches[m].away_score)
    /\ matches[m].is_draw = (matches[m].home_score = matches[m].away_score)

(***************************************************************************)
(* The table balances, whatever was raced, corrected or left without       *)
(* teams: goal differences cancel out, every win is somebody's loss, and   *)
(* draws come in pairs.                                                    *)
(***************************************************************************)
TableBalances ==
  \A rule \in InForce, group \in Group \cup {NULL} :
    LET table == Standings(matches, rule, group)
    IN /\ SumFunction([s \in table |-> s.goal_difference]) = 0
       /\ SumFunction([s \in table |-> s.wins]) = SumFunction([s \in table |-> s.losses])
       /\ SumFunction([s \in table |-> s.played]) = 2 * Cardinality(Relevant(matches, group))
       /\ \A s \in table : s.played = s.wins + s.draws + s.losses

Teams(s) == {s[i].team : i \in DOMAIN s}
RankIn(table, team) == CHOOSE i \in DOMAIN table : table[i].team = team

(***************************************************************************)
(* top_n with its default order: the places are given to teams that played *)
(* enough, as many as there are; whoever is eliminated is ranked, in the   *)
(* table whose rank it keeps, below every rank that was given anew.  The   *)
(* other rules decide on every team once, and where they tie, the table    *)
(* decides the order.                                                      *)
(***************************************************************************)
QualificationFollowsTable ==
  \A table \in ComputeStandings(NULL) :
    LET goals == [s \in ToSet(table) |-> s.goals_for]
    IN /\ \A n \in 1 .. 2, min_played \in {0, 2} :
            LET verdict == TopN(table, n, min_played, StandingKeys)
                enough == {i \in DOMAIN table : table[i].played >= min_played}
            IN /\ Len(verdict.qualified) =
                    IF Cardinality(enough) < n THEN Cardinality(enough) ELSE n
               /\ Teams(verdict.qualified) \cup Teams(verdict.eliminated)
                    = {table[i].team : i \in enough}
               /\ \A e \in Teams(verdict.eliminated), q \in Teams(verdict.qualified) :
                    /\ RankIn(table, e) > RankIn(table, q)
                    /\ RankIn(table, e) > Len(verdict.qualified)
       /\ \A other \in {Formula(table, goals, 2), MinHours(table, 0), MinHours(table, 1)} :
            /\ Len(other.qualified) + Len(other.eliminated) = Len(table)
            /\ Teams(other.qualified) \cup Teams(other.eliminated) = Teams(table)
            /\ \A i, j \in DOMAIN other.qualified :
                 /\ i < j
                 /\ other.qualified[i].goals_for = other.qualified[j].goals_for
                 => RankIn(table, other.qualified[i].team) < RankIn(table, other.qualified[j].team)

=============================================================================
