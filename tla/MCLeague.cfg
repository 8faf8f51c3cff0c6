SPECIFICATION Spec
CONSTANTS
  u1 = u1
  a = a
  User = {u1, u2}
  Team = {a, b, c}
  Role = {"manager", "player"}
  Req = {r1, r2}
  NULL = NULL
  Founders <- MCFounders
  Recruiting <- MCRecruiting
  Tournament = {k1}
  Limits = {2}
  TournamentStatuses <- MCStatuses
SYMMETRY Symmetry
INVARIANTS
  TypeOK
  RosterGrowsFromCreator
  OverbookingIsBounded
PROPERTIES
  LeaderlessIsForever
CHECK_DEADLOCK FALSE
