------------------------------ MODULE MCLeague ------------------------------
(***************************************************************************)
(* TournamentService and TeamService for TLC.                              *)
(***************************************************************************)
EXTENDS LeagueProperties, TLC

CONSTANTS u1, a

MCFounders == {u1}
MCRecruiting == {a}
MCStatuses == {"draft", "registration_open"}

\* Teams that take no new members are interchangeable.
Symmetry == Permutations(Req) \cup Permutations(Team \ Recruiting)

=============================================================================
