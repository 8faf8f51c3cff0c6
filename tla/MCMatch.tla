------------------------------ MODULE MCMatch ------------------------------
(***************************************************************************)
(* MatchService for TLC.                                                   *)
(***************************************************************************)
EXTENDS MatchProperties, TLC

CONSTANTS a, b, c

MCPairings == {<<a, b>>, <<c, a>>, <<b, NULL>>}

\* A rule with a bonus for two goals, as in the calculator's example.
MCScorings == {[win |-> 3, draw |-> 1, loss |-> 0,
                bonus_goal_threshold |-> 2, bonus_points |-> 1]}
Symmetry == Permutations(Req) \cup Permutations(Match)

=============================================================================
