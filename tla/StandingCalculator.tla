------------------------- MODULE StandingCalculator -------------------------
(***************************************************************************)
(* app/tournaments/standing_calculator.py and rule_engine.py: the table    *)
(* that is derived from the matches each time it is asked for, and who     *)
(* qualifies by it.  The order in which the database returns the matches   *)
(* decides between teams that tie; it is not defined by any query.         *)
(***************************************************************************)
EXTENDS Integers, Sequences, FiniteSets, SequencesExt

CONSTANTS NULL

(* A scoring rule; bonus_goal_threshold 0 or NULL means no bonus.          *)
DefaultScoring == [win |-> 3, draw |-> 1, loss |-> 0,
                   bonus_goal_threshold |-> NULL, bonus_points |-> 0]

(* The completed matches of the group (NULL: of all), with two teams.      *)
Relevant(matches, group) ==
  {m \in DOMAIN matches :
     /\ matches[m].status = "completed"
     /\ group = NULL \/ matches[m].group_name = group
     /\ matches[m].home # NULL /\ matches[m].away # NULL
     /\ matches[m].home_score # NULL /\ matches[m].away_score # NULL}

(* What one side of a match did.  A match does not need two different      *)
(* teams.                                                                  *)
Appearance(m, row, side) ==
  IF side = "home"
  THEN [match |-> m, side |-> side, team |-> row.home,
        scored |-> row.home_score, conceded |-> row.away_score]
  ELSE [match |-> m, side |-> side, team |-> row.away,
        scored |-> row.away_score, conceded |-> row.home_score]

Appearances(matches, group) ==
  {Appearance(m, matches[m], side) :
     m \in Relevant(matches, group), side \in {"home", "away"}}

(* Mutant: both sides' goals are counted from the home side.               *)
StandingByHomeScore(team, games, scoring) ==
  LET mine == {g \in games : g.team = team}
      won == {g \in mine : g.scored > g.conceded}
      lost == {g \in mine : g.scored < g.conceded}
      gf == SumFunction([g \in mine |-> IF g.side = "home" THEN g.scored ELSE g.conceded])
      ga == SumFunction([g \in mine |-> g.conceded])
  IN [team |-> team, played |-> Cardinality(mine), wins |-> Cardinality(won),
      losses |-> Cardinality(lost), draws |-> Cardinality(mine \ (won \cup lost)),
      goals_for |-> gf, goal_difference |-> gf - ga, points |-> 0]

StandingOf(team, games, scoring) ==
  LET mine == {g \in games : g.team = team}
      won == {g \in mine : g.scored > g.conceded}
      lost == {g \in mine : g.scored < g.conceded}
      drawn == mine \ (won \cup lost)
      bonus == IF scoring.bonus_goal_threshold \in {NULL, 0} THEN {}
               ELSE {g \in mine : g.scored >= scoring.bonus_goal_threshold}
      gf == SumFunction([g \in mine |-> g.scored])
      ga == SumFunction([g \in mine |-> g.conceded])
  IN [team |-> team, played |-> Cardinality(mine), wins |-> Cardinality(won),
      losses |-> Cardinality(lost), draws |-> Cardinality(drawn),
      goals_for |-> gf, goal_difference |-> gf - ga,
      points |-> scoring.win * Cardinality(won) + scoring.draw * Cardinality(drawn)
                 + scoring.loss * Cardinality(lost)
                 + scoring.bonus_points * Cardinality(bonus)]

(* One standing per team that has played.                                  *)
Standings(matches, scoring, group) ==
  LET games == Appearances(matches, group)
  IN {StandingOf(g.team, games, scoring) : g \in games}

StandingKeys == <<"points", "goal_difference", "goals_for">>

(* s before t: at the first key in which they differ, s has more.          *)
Ahead(s, t, keys) ==
  \E i \in DOMAIN keys : /\ s[keys[i]] > t[keys[i]]
                         /\ \A j \in 1 .. i - 1 : s[keys[j]] = t[keys[j]]

(* The tables compute may return; the place in it is the rank.             *)
Rankings(standings) ==
  {table \in SetToSeqs(standings) :
     \A i \in DOMAIN table : \A j \in 1 .. i - 1 : ~Ahead(table[i], table[j], StandingKeys)}

(* The rows at some positions, in a total order of these positions: each   *)
(* is preceded by as many as come first.                                   *)
Arranged(s, positions, first) ==
  LET place(i) == 1 + Cardinality({j \in positions \ {i} : <<j, i>> \in first})
  IN [k \in 1 .. Cardinality(positions) |-> s[CHOOSE i \in positions : place(i) = k]]

(* A list comprehension with a condition.                                  *)
InOrder(s, positions) ==
  Arranged(s, positions, {p \in positions \X positions : p[1] < p[2]})

(* sorted(..., reverse=True) keeps the order of what ties.                 *)
StableSort(s, keys) ==
  Arranged(s, DOMAIN s,
    {p \in (DOMAIN s) \X (DOMAIN s) :
       \/ Ahead(s[p[1]], s[p[2]], keys)
       \/ p[1] < p[2] /\ ~Ahead(s[p[2]], s[p[1]], keys)})

-----------------------------------------------------------------------------
(* A rule's verdict.  Qualified teams get their place as their rank, the   *)
(* eliminated keep that of the table.                                      *)
Verdict(qualified, eliminated) == [qualified |-> qualified, eliminated |-> eliminated]

PlayedEnough(s, min_played) == {i \in DOMAIN s : s[i].played >= min_played}

(* Mutant: the first n of the table, those of them that played enough.     *)
CutThenFilter(table, n, min_played, sort_by) ==
  LET s == StableSort(table, sort_by)
      kept(part) == InOrder(part, PlayedEnough(part, min_played))
  IN Verdict(kept(SubSeq(s, 1, IF n < Len(s) THEN n ELSE Len(s))), kept(SubSeq(s, n + 1, Len(s))))

(* top_n.  Who has not played enough is in neither list.                   *)
TopN(table, n, min_played, sort_by) ==
  LET s == StableSort(InOrder(table, PlayedEnough(table, min_played)), sort_by)
  IN Verdict(SubSeq(s, 1, IF n < Len(s) THEN n ELSE Len(s)), SubSeq(s, n + 1, Len(s)))

(* formula: score is what its expression makes of each standing; >= is    *)
(* the default operator.                                                   *)
Formula(table, score, threshold) ==
  LET passing == {i \in DOMAIN table : score[table[i]] >= threshold}
  IN Verdict(Arranged(table, passing,
               {p \in passing \X passing :
                  \/ score[table[p[1]]] > score[table[p[2]]]
                  \/ p[1] < p[2] /\ score[table[p[1]]] = score[table[p[2]]]}),
             InOrder(table, DOMAIN table \ passing))

(* min_hours: nothing ever adds to hours_played, which stays 0.            *)
MinHours(table, min_hours) ==
  IF min_hours <= 0 THEN Verdict(table, <<>>) ELSE Verdict(<<>>, table)

=============================================================================
