SPECIFICATION Spec
CONSTANTS
  a = a
  b = b
  c = c
  Team = {a, b, c}
  Match = {m1, m2}
  Group = {}
  Req = {r1, r2}
  NULL = NULL
  Goals = {0, 2}
  Scorings <- MCScorings
  Pairings <- MCPairings
SYMMETRY Symmetry
INVARIANTS
  ResultsAgree
  TableBalances
  QualificationFollowsTable
CHECK_DEADLOCK FALSE
