----------------------------- MODULE MatchProofs -----------------------------
(***************************************************************************)
(* Results, the table derived from them and qualification by it, for any   *)
(* teams, matches, scores, rules and number of requests at once.           *)
(*                                                                         *)
(* A result that nobody else was entering at the same time is consistent:  *)
(* until another result of its match is committed, the row that a request  *)
(* has loaded is the row it writes to, so that every column it leaves out  *)
(* of its UPDATE has the value it would have written.  What the table and  *)
(* the qualification promise needs of a state no more than its types: the  *)
(* rest is about sums over finite sets, and about orders.                  *)
(***************************************************************************)
EXTENDS MatchProperties, FiniteSetTheorems, SequenceTheorems, TLAPS

(* Tables and requests have their types; the match a request has loaded    *)
(* exists, since none is deleted.                                          *)
Typed ==
  /\ matches \in [Match -> MatchRow \cup {NoMatch}]
  /\ req \in [Req -> ResultRequest \cup {Idle}]
  /\ \A r \in Req : req[r] # Idle => matches[req[r].match] \in MatchRow

(* An undisturbed request writes to the row it has loaded.                 *)
LoadedIsCurrent ==
  \A r \in Req :
    req[r] # Idle /\ req[r].match \notin raced => req[r].row = matches[req[r].match]

IInv == Typed /\ LoadedIsCurrent /\ ResultsAgree

(* A row with a result is a row, and its result agrees with its score.     *)
LEMMA ResultRowAgrees ==
  ASSUME NEW row \in MatchRow, NEW home \in Goals, NEW away \in Goals
  PROVE  /\ ResultRow(row, home, away) \in MatchRow
         /\ ResultRow(row, home, away).winner = WinnerOf(home, away)
         /\ ResultRow(row, home, away).is_draw = (home = away)
         /\ ResultRow(row, home, away).home_score = home
         /\ ResultRow(row, home, away).away_score = away
  <1>1. WinnerOf(home, away) \in {"home", "away", NULL}
    BY MatchAssumption DEF WinnerOf
  <1>2. QED
    BY <1>1 DEF ResultRow, MatchRow

(* Writing some columns of one row into another makes a row.               *)
LEMMA WrittenIsRow ==
  ASSUME NEW row \in MatchRow, NEW loaded \in MatchRow, NEW new \in MatchRow
  PROVE  /\ Written(row, loaded, new) \in MatchRow
         /\ row = loaded => Written(row, loaded, new) = new
  <1>1. DOMAIN row = {"status", "group_name", "home", "away", "home_score", "away_score",
                      "winner", "is_draw"}
        /\ DOMAIN new = DOMAIN row
    BY DEF MatchRow
  <1>2. \A c \in DOMAIN row :
          Written(row, loaded, new)[c] = IF new[c] # loaded[c] THEN new[c] ELSE row[c]
    BY DEF Written
  <1>3. Written(row, loaded, new) \in MatchRow
    BY <1>1, <1>2 DEF Written, MatchRow
  <1>4. row = loaded => Written(row, loaded, new) = new
    BY <1>1, <1>2 DEF Written, MatchRow
  <1>5. QED
    BY <1>3, <1>4

LEMMA TypedStays ==
  ASSUME Typed, [Next]_vars
  PROVE  Typed'
  <1>1. ASSUME NEW r \in Req, Finish(r)
        PROVE  /\ req' \in [Req -> ResultRequest \cup {Idle}]
               /\ \A q \in Req : req'[q] # Idle => req'[q] = req[q]
    BY <1>1 DEF Finish, Typed
  <1>2. CASE CreateMatch
    <2>1. PICK m \in Match, group \in Group \cup {NULL}, pair \in Pairings :
            matches' = [matches EXCEPT ![m] =
              [status |-> "scheduled", group_name |-> group, home |-> pair[1], away |-> pair[2],
               home_score |-> NULL, away_score |-> NULL, winner |-> NULL, is_draw |-> FALSE]]
      BY <1>2 DEF CreateMatch
    <2>2. pair[1] \in Team \cup {NULL} /\ pair[2] \in Team \cup {NULL}
      BY MatchAssumption
    <2>3. [status |-> "scheduled", group_name |-> group, home |-> pair[1], away |-> pair[2],
           home_score |-> NULL, away_score |-> NULL, winner |-> NULL, is_draw |-> FALSE]
            \in MatchRow
      BY <2>2 DEF MatchRow
    <2>4. matches' \in [Match -> MatchRow \cup {NoMatch}]
          /\ \A n \in Match : matches[n] \in MatchRow => matches'[n] \in MatchRow
      BY <2>1, <2>3 DEF Typed
    <2>5. QED
      BY <1>2, <2>4 DEF CreateMatch, Typed, ResultRequest
  <1>3. ASSUME NEW r \in Req, LoadMatch(r) PROVE Typed'
    <2>1. PICK m \in Match :
            /\ matches[m] # NoMatch
            /\ req' = [req EXCEPT ![r] = [pc |-> "loaded", match |-> m, row |-> matches[m]]]
      BY <1>3 DEF LoadMatch
    <2>2. [pc |-> "loaded", match |-> m, row |-> matches[m]] \in ResultRequest
          /\ matches[m] \in MatchRow
      BY <2>1 DEF ResultRequest, Typed
    <2>3. /\ req' \in [Req -> ResultRequest \cup {Idle}]
          /\ \A q \in Req : req'[q] = req[q] \/ req'[q].match = m
      BY <2>1, <2>2 DEF Typed
    <2>4. QED
      BY <1>3, <2>2, <2>3 DEF LoadMatch, Typed
  <1>4. ASSUME NEW r \in Req, CommitResult(r) PROVE Typed'
    <2>1. PICK home \in Goals, away \in Goals :
            matches' = [matches EXCEPT ![req[r].match] =
                          Written(@, req[r].row, ResultRow(req[r].row, home, away))]
      BY <1>4 DEF CommitResult
    <2>2. req[r].row \in MatchRow /\ matches[req[r].match] \in MatchRow
      BY <1>4 DEF CommitResult, Typed, ResultRequest
    <2>3. Written(matches[req[r].match], req[r].row, ResultRow(req[r].row, home, away)) \in MatchRow
      BY <2>2, ResultRowAgrees, WrittenIsRow
    <2>4. matches' \in [Match -> MatchRow \cup {NoMatch}]
          /\ \A n \in Match : matches[n] \in MatchRow => matches'[n] \in MatchRow
      BY <2>1, <2>3 DEF Typed
    <2>5. QED
      BY <1>1, <1>4, <2>4 DEF CommitResult, Typed, ResultRequest
  <1>5. ASSUME NEW r \in Req, Fail(r) PROVE Typed'
    BY <1>1, <1>5 DEF Fail, Typed
  <1>6. CASE AddRule \/ UNCHANGED vars
    BY <1>6 DEF AddRule, vars, Typed
  <1>7. QED
    BY <1>2, <1>3, <1>4, <1>5, <1>6 DEF Next

(***************************************************************************)
(* What a request has loaded is still what the match holds, unless another *)
(* result of the match was committed meanwhile.                            *)
(***************************************************************************)
THEOREM MatchInvariant == Spec => []IInv
  <1>1. Init => IInv
    BY DEF Init, IInv, Typed, LoadedIsCurrent, ResultsAgree, NoMatch
  <1>2. IInv /\ [Next]_vars => IInv'
    <2> SUFFICES ASSUME IInv, [Next]_vars PROVE LoadedIsCurrent' /\ ResultsAgree'
      BY TypedStays DEF IInv
    <2>0. Typed /\ LoadedIsCurrent /\ ResultsAgree
      BY DEF IInv
    <2>1. CASE CreateMatch
      <3>1. PICK m \in Match, group \in Group \cup {NULL}, pair \in Pairings :
              /\ matches[m] = NoMatch
              /\ matches' = [matches EXCEPT ![m] =
                   [status |-> "scheduled", group_name |-> group, home |-> pair[1],
                    away |-> pair[2], home_score |-> NULL, away_score |-> NULL,
                    winner |-> NULL, is_draw |-> FALSE]]
        BY <2>1 DEF CreateMatch
      <3>2. req' = req /\ raced' = raced
        BY <2>1 DEF CreateMatch
      <3>3. matches'[m].status = "scheduled" /\ \A n \in Match : n # m => matches'[n] = matches[n]
        BY <2>0, <3>1 DEF Typed
      <3>4. \A r \in Req : req[r] # Idle => req[r].match # m /\ req[r].match \in Match
        BY <2>0, <3>1 DEF Typed, MatchRow, NoMatch, ResultRequest
      <3>5. LoadedIsCurrent'
        BY <2>0, <3>2, <3>3, <3>4 DEF LoadedIsCurrent
      <3>6. ResultsAgree'
        BY <2>0, <3>2, <3>3 DEF ResultsAgree
      <3>7. QED
        BY <3>5, <3>6
    <2>2. ASSUME NEW r \in Req, LoadMatch(r) PROVE LoadedIsCurrent' /\ ResultsAgree'
      BY <2>0, <2>2 DEF LoadMatch, Typed, LoadedIsCurrent, ResultsAgree
    <2>3. ASSUME NEW r \in Req, CommitResult(r) PROVE LoadedIsCurrent' /\ ResultsAgree'
      <3> DEFINE m == req[r].match
      <3>1. PICK home \in Goals, away \in Goals :
              matches' = [matches EXCEPT ![m] =
                            Written(@, req[r].row, ResultRow(req[r].row, home, away))]
        BY <2>3 DEF CommitResult
      <3>2. /\ m \in Match /\ req[r].row \in MatchRow /\ matches[m] \in MatchRow
        BY <2>0, <2>3 DEF CommitResult, Typed, ResultRequest
      <3>3. \A n \in Match : n # m => matches'[n] = matches[n]
        BY <2>0, <3>1 DEF Typed
      <3>4. \A n : n \in raced => n \in raced'
        BY <2>3 DEF CommitResult
      <3>5. ASSUME m \notin raced'
            PROVE  /\ matches'[m].winner = WinnerOf(matches'[m].home_score, matches'[m].away_score)
                   /\ matches'[m].is_draw = (matches'[m].home_score = matches'[m].away_score)
        <4>1. req[r].row = matches[m]
          BY <2>0, <2>3, <3>4, <3>5 DEF CommitResult, LoadedIsCurrent
        <4>2. matches'[m] = ResultRow(req[r].row, home, away)
          BY <2>0, <3>1, <3>2, <4>1, ResultRowAgrees, WrittenIsRow DEF Typed
        <4>3. QED
          BY <3>2, <4>2, ResultRowAgrees
      <3>6. ASSUME NEW q \in Req, req'[q] # Idle, req'[q].match \notin raced'
            PROVE  req'[q].row = matches'[req'[q].match]
        <4>1. q # r /\ req'[q] = req[q]
          BY <2>0, <2>3, <3>6 DEF CommitResult, Finish, Typed
        <4>2. req[q].match # m
          BY <2>3, <3>6, <4>1 DEF CommitResult, Racing
        <4>3. req[q].match \in Match /\ req[q].row = matches[req[q].match]
          BY <2>0, <3>4, <3>6, <4>1 DEF LoadedIsCurrent, Typed, ResultRequest
        <4>4. QED
          BY <3>3, <4>1, <4>2, <4>3
      <3>7. LoadedIsCurrent'
        BY <3>6 DEF LoadedIsCurrent
      <3>8. ResultsAgree'
        BY <2>0, <3>3, <3>4, <3>5 DEF ResultsAgree
      <3>9. QED
        BY <3>7, <3>8
    <2>4. ASSUME NEW r \in Req, Fail(r) PROVE LoadedIsCurrent' /\ ResultsAgree'
      BY <2>0, <2>4 DEF Fail, Finish, Typed, LoadedIsCurrent, ResultsAgree
    <2>5. CASE AddRule \/ UNCHANGED vars
      BY <2>0, <2>5 DEF AddRule, vars, LoadedIsCurrent, ResultsAgree
    <2>6. QED
      BY <2>1, <2>2, <2>3, <2>4, <2>5 DEF Next
  <1>3. QED
    BY <1>1, <1>2, PTL DEF Spec

(***************************************************************************)
(* The winner and the draw flag of a match agree with its score, unless    *)
(* two results of it were entered at once.                                 *)
(***************************************************************************)
THEOREM ResultsAlwaysAgree == Spec => []ResultsAgree
  BY MatchInvariant, PTL DEF IInv

-----------------------------------------------------------------------------
(* Sums over finite sets.  Induction is over a set of subsets, not over an *)
(* operator: one that has a set if it has all that lack one element of it. *)

LEMMA SubsetInduction ==
  ASSUME NEW S, IsFiniteSet(S), NEW F,
         \A T \in SUBSET S : (\A x \in T : T \ {x} \in F) => T \in F
  PROVE  SUBSET S \subseteq F
  <1> DEFINE left == (SUBSET S) \ F
  <1> SUFFICES ASSUME left # {} PROVE FALSE
    OBVIOUS
  <1>1. IsWellFoundedOn(StrictSubsetOrdering(S), SUBSET S)
    <2>1. FiniteSubsetsOf(S) = SUBSET S
      BY FS_FiniteSubsetsOfFinite
    <2>2. IsWellFoundedOn(StrictSubsetOrdering(S), FiniteSubsetsOf(S))
      BY FS_StrictSubsetOrderingWellFounded
    <2>3. QED
      BY <2>1, <2>2
  <1>2. \E T \in left : \A U \in left : ~(<<U, T>> \in StrictSubsetOrdering(S))
    <2>1. left \subseteq SUBSET S
      OBVIOUS
    <2> HIDE DEF left
    <2>2. QED
      BY <1>1, <2>1, WFMin
  <1>3. PICK T \in left : \A U \in left : ~(<<U, T>> \in StrictSubsetOrdering(S))
    BY <1>2
  <1>4. ASSUME NEW x \in T PROVE T \ {x} \in F
    <2>1. <<T \ {x}, T>> \in StrictSubsetOrdering(S)
      BY DEF StrictSubsetOrdering
    <2>2. T \ {x} \in SUBSET S
      OBVIOUS
    <2>3. T \ {x} \notin left
      BY <1>3, <2>1
    <2>4. QED
      BY <2>2, <2>3
  <1>5. QED
    BY <1>3, <1>4

(* What removing an element, whichever it is, takes from a sum.            *)
IsSum(sum, f, S) ==
  /\ sum \in [SUBSET S -> Int]
  /\ sum[{}] = 0
  /\ \A T \in SUBSET S : \A x \in T : sum[T] = f[x] + sum[T \ {x}]

LEMMA SumExists ==
  ASSUME NEW S, IsFiniteSet(S), NEW f, \A x \in S : f[x] \in Int
  PROVE  \E sum : IsSum(sum, f, S)
  <1> DEFINE F == {T \in SUBSET S : \E sum : IsSum(sum, f, T)}
  <1>1. ASSUME NEW T \in SUBSET S, \A x \in T : T \ {x} \in F
        PROVE  T \in F
    <2>1. CASE T = {}
      <3>1. IsSum([U \in SUBSET {} |-> 0], f, {})
        BY DEF IsSum
      <3>2. QED
        BY <2>1, <3>1
    <2>2. CASE T # {}
      <3>1. PICK x \in T : T \ {x} \in F
        BY <1>1, <2>2
      <3>2. PICK sum : IsSum(sum, f, T \ {x})
        BY <3>1
      <3> DEFINE more == [U \in SUBSET T |-> IF x \in U THEN f[x] + sum[U \ {x}] ELSE sum[U]]
      <3>3. ASSUME NEW U \in SUBSET T
            PROVE  /\ U \ {x} \in SUBSET (T \ {x})
                   /\ sum[U \ {x}] \in Int
                   /\ x \notin U => U = U \ {x}
        <4>1. U \ {x} \in SUBSET (T \ {x})
          OBVIOUS
        <4>2. QED
          BY <3>2, <4>1 DEF IsSum
      <3>4. more \in [SUBSET T -> Int]
        <4>1. ASSUME NEW U \in SUBSET T
              PROVE  (IF x \in U THEN f[x] + sum[U \ {x}] ELSE sum[U]) \in Int
          <5>1. CASE x \in U
            <6>1. f[x] \in Int /\ sum[U \ {x}] \in Int
              BY <3>3
            <6>2. QED
              BY <5>1, <6>1
          <5>2. CASE x \notin U
            BY <3>3, <5>2
          <5>3. QED
            BY <5>1, <5>2
        <4>2. QED
          BY <4>1
      <3>5. more[{}] = 0
        BY <3>2 DEF IsSum
      <3>6. ASSUME NEW U \in SUBSET T, NEW y \in U
            PROVE  more[U] = f[y] + more[U \ {y}]
        <4>1. CASE y = x
          BY <4>1
        <4>2. CASE y # x /\ x \in U
          <5>1. /\ y \in U \ {x} /\ f[y] \in Int /\ f[x] \in Int
                /\ (U \ {x}) \ {y} = (U \ {y}) \ {x}
                /\ U \ {y} \in SUBSET T /\ x \in U \ {y}
            BY <4>2
          <5>2. sum[U \ {x}] = f[y] + sum[(U \ {y}) \ {x}]
            <6>1. U \ {x} \in SUBSET (T \ {x})
              BY <3>3
            <6>2. sum[U \ {x}] = f[y] + sum[(U \ {x}) \ {y}]
              BY <3>2, <5>1, <6>1 DEF IsSum
            <6>3. QED
              BY <5>1, <6>2
          <5>3. more[U] = f[x] + sum[U \ {x}] /\ more[U \ {y}] = f[x] + sum[(U \ {y}) \ {x}]
            BY <4>2, <5>1
          <5>4. sum[(U \ {y}) \ {x}] \in Int
            BY <3>3, <5>1
          <5>5. QED
            BY <5>1, <5>2, <5>3, <5>4
        <4>3. CASE x \notin U
          <5>1. U \in SUBSET (T \ {x}) /\ U \ {y} \in SUBSET T /\ x \notin U \ {y}
            BY <4>3
          <5>2. sum[U] = f[y] + sum[U \ {y}]
            BY <3>2, <5>1 DEF IsSum
          <5>3. QED
            BY <4>3, <5>1, <5>2
        <4>4. QED
          BY <4>1, <4>2, <4>3
      <3> HIDE DEF more
      <3>7. IsSum(more, f, T)
        BY <3>4, <3>5, <3>6 DEF IsSum
      <3>8. QED
        BY <3>7
    <2>3. QED
      BY <2>1, <2>2
  <1>2. S \in F
    <2> HIDE DEF F
    <2>1. SUBSET S \subseteq F
      BY <1>1, SubsetInduction
    <2>2. QED
      BY <2>1
  <1>3. QED
    BY <1>2

(* SumFunctionOnSet is that sum, whichever element CHOOSE removes first.   *)
LEMMA SumIsSum ==
  ASSUME NEW S, IsFiniteSet(S), NEW f, NEW sum, IsSum(sum, f, S)
  PROVE  SumFunctionOnSet(f, S) = sum[S]
  <1> DEFINE some(s) == CHOOSE x \in s : TRUE
             iter == CHOOSE g : g = [s \in SUBSET S |->
                       IF s = {} THEN 0 ELSE f[some(s)] + g[s \ {some(s)}]]
  <1>1. SumFunctionOnSet(f, S) = iter[S]
    BY DEF SumFunctionOnSet, FoldFunctionOnSet, MapThenFoldSet
  <1>2. \A s \in SUBSET S : s # {} => some(s) \in s
    OBVIOUS
  <1> HIDE DEF some
  <1>3. sum = [s \in SUBSET S |-> IF s = {} THEN 0 ELSE f[some(s)] + sum[s \ {some(s)}]]
    BY <1>2 DEF IsSum
  <1>4. iter = [s \in SUBSET S |-> IF s = {} THEN 0 ELSE f[some(s)] + iter[s \ {some(s)}]]
    BY <1>3
  <1> HIDE DEF iter
  <1> DEFINE F == {s \in SUBSET S : iter[s] = sum[s]}
  <1>5. ASSUME NEW s \in SUBSET S, \A x \in s : s \ {x} \in F
        PROVE  s \in F
    <2>1. CASE s = {}
      BY <1>3, <1>4, <2>1
    <2>2. CASE s # {}
      <3>1. some(s) \in s /\ s \ {some(s)} \in F
        BY <1>2, <1>5, <2>2
      <3>2. iter[s \ {some(s)}] = sum[s \ {some(s)}]
        BY <3>1
      <3>3. iter[s] = f[some(s)] + iter[s \ {some(s)}]
        BY <1>4, <2>2
      <3>4. sum[s] = f[some(s)] + sum[s \ {some(s)}]
        BY <1>3, <2>2
      <3>5. QED
        BY <3>2, <3>3, <3>4
    <2>3. QED
      BY <2>1, <2>2
  <1>6. S \in F
    <2> HIDE DEF F
    <2>1. SUBSET S \subseteq F
      BY <1>5, SubsetInduction
    <2>2. QED
      BY <2>1
  <1>7. QED
    BY <1>1, <1>6

(* The sum of f over S, f a function or its restriction to S.              *)
LEMMA SumRules ==
  ASSUME NEW S, IsFiniteSet(S), NEW f, \A x \in S : f[x] \in Int
  PROVE  /\ SumFunctionOnSet(f, S) \in Int
         /\ S = {} => SumFunctionOnSet(f, S) = 0
         /\ \A x \in S : SumFunctionOnSet(f, S) = f[x] + SumFunctionOnSet(f, S \ {x})
  <1>1. PICK sum : IsSum(sum, f, S)
    BY SumExists
  <1>2. SumFunctionOnSet(f, S) = sum[S]
    BY <1>1, SumIsSum
  <1>3. ASSUME NEW x \in S
        PROVE  SumFunctionOnSet(f, S \ {x}) = sum[S \ {x}]
    <2> DEFINE part == [T \in SUBSET (S \ {x}) |-> sum[T]]
    <2>1. IsSum(part, f, S \ {x})
      <3>1. SUBSET (S \ {x}) \subseteq SUBSET S
        OBVIOUS
      <3>2. part \in [SUBSET (S \ {x}) -> Int] /\ part[{}] = 0
        BY <1>1, <3>1 DEF IsSum
      <3>3. ASSUME NEW T \in SUBSET (S \ {x}), NEW y \in T
            PROVE  part[T] = f[y] + part[T \ {y}]
        <4>1. T \in SUBSET S /\ T \ {y} \in SUBSET (S \ {x})
          OBVIOUS
        <4>2. sum[T] = f[y] + sum[T \ {y}]
          BY <1>1, <4>1 DEF IsSum
        <4>3. QED
          BY <4>1, <4>2
      <3> HIDE DEF part
      <3>4. QED
        BY <3>2, <3>3 DEF IsSum
    <2>2. part[S \ {x}] = sum[S \ {x}]
      OBVIOUS
    <2>3. IsFiniteSet(S \ {x})
      BY FS_RemoveElement
    <2> HIDE DEF part
    <2>4. QED
      BY <2>1, <2>2, <2>3, SumIsSum
  <1>4. sum[S] \in Int /\ sum[{}] = 0 /\ \A x \in S : sum[S] = f[x] + sum[S \ {x}]
    BY <1>1 DEF IsSum
  <1>5. QED
    BY <1>2, <1>3, <1>4

(* Functions that agree on a set have the same sum over it.                *)
LEMMA SumsAgree ==
  ASSUME NEW S, IsFiniteSet(S), NEW f, NEW g, \A x \in S : f[x] \in Int /\ g[x] = f[x]
  PROVE  SumFunctionOnSet(f, S) = SumFunctionOnSet(g, S)
  <1> DEFINE F == {T \in SUBSET S : SumFunctionOnSet(f, T) = SumFunctionOnSet(g, T)}
  <1>1. ASSUME NEW T \in SUBSET S, \A x \in T : T \ {x} \in F
        PROVE  T \in F
    <2>1. IsFiniteSet(T)
      BY FS_Subset
    <2>2. /\ T = {} => SumFunctionOnSet(f, T) = 0
          /\ \A x \in T : SumFunctionOnSet(f, T) = f[x] + SumFunctionOnSet(f, T \ {x})
      BY <2>1, SumRules
    <2>3. /\ T = {} => SumFunctionOnSet(g, T) = 0
          /\ \A x \in T : SumFunctionOnSet(g, T) = g[x] + SumFunctionOnSet(g, T \ {x})
      BY <2>1, SumRules
    <2>4. CASE T = {}
      BY <2>2, <2>3, <2>4
    <2>5. CASE T # {}
      <3>1. PICK x \in T : SumFunctionOnSet(f, T \ {x}) = SumFunctionOnSet(g, T \ {x})
        BY <1>1, <2>5
      <3>2. QED
        BY <2>2, <2>3, <3>1
    <2>6. QED
      BY <2>4, <2>5
  <1>2. S \in F
    <2> HIDE DEF F
    <2>1. SUBSET S \subseteq F
      BY <1>1, SubsetInduction
    <2>2. QED
      BY <2>1
  <1>3. QED
    BY <1>2

(* A constant is summed as often as there are elements.                    *)
LEMMA SumOfConstant ==
  ASSUME NEW S, IsFiniteSet(S), NEW f, NEW c \in Int, \A x \in S : f[x] = c
  PROVE  SumFunctionOnSet(f, S) = c * Cardinality(S)
  <1> DEFINE F == {T \in SUBSET S : SumFunctionOnSet(f, T) = c * Cardinality(T)}
  <1>1. ASSUME NEW T \in SUBSET S, \A x \in T : T \ {x} \in F
        PROVE  T \in F
    <2>1. IsFiniteSet(T) /\ \A x \in T : f[x] \in Int
      BY FS_Subset
    <2>2. /\ T = {} => SumFunctionOnSet(f, T) = 0
          /\ \A x \in T : SumFunctionOnSet(f, T) = f[x] + SumFunctionOnSet(f, T \ {x})
      BY <2>1, SumRules
    <2>3. CASE T = {}
      BY <2>2, <2>3, FS_EmptySet
    <2>4. CASE T # {}
      <3>1. PICK x \in T : SumFunctionOnSet(f, T \ {x}) = c * Cardinality(T \ {x})
        BY <1>1, <2>4
      <3>2. Cardinality(T) \in Nat /\ Cardinality(T \ {x}) = Cardinality(T) - 1
        BY <2>1, FS_RemoveElement, FS_CardinalityType
      <3>3. SumFunctionOnSet(f, T) = c + c * (Cardinality(T) - 1)
        BY <2>2, <3>1, <3>2
      <3>4. QED
        BY <3>2, <3>3
    <2>5. QED
      BY <2>3, <2>4
  <1>2. S \in F
    <2> HIDE DEF F
    <2>1. SUBSET S \subseteq F
      BY <1>1, SubsetInduction
    <2>2. QED
      BY <2>1
  <1>3. QED
    BY <1>2

(* The sum of differences is the difference of the sums.                   *)
LEMMA SumOfDifferences ==
  ASSUME NEW S, IsFiniteSet(S), NEW f, NEW g, NEW h,
         \A x \in S : f[x] \in Int /\ g[x] \in Int /\ h[x] = f[x] - g[x]
  PROVE  SumFunctionOnSet(h, S) = SumFunctionOnSet(f, S) - SumFunctionOnSet(g, S)
  <1> DEFINE F == {T \in SUBSET S : SumFunctionOnSet(h, T)
                     = SumFunctionOnSet(f, T) - SumFunctionOnSet(g, T)}
  <1>1. ASSUME NEW T \in SUBSET S, \A x \in T : T \ {x} \in F
        PROVE  T \in F
    <2>1. IsFiniteSet(T) /\ \A x \in T : IsFiniteSet(T \ {x})
      BY FS_Subset, FS_RemoveElement
    <2>2. /\ T = {} => SumFunctionOnSet(f, T) = 0
          /\ \A x \in T : SumFunctionOnSet(f, T) = f[x] + SumFunctionOnSet(f, T \ {x})
          /\ \A x \in T : SumFunctionOnSet(f, T \ {x}) \in Int
      BY <2>1, SumRules
    <2>3. /\ T = {} => SumFunctionOnSet(g, T) = 0
          /\ \A x \in T : SumFunctionOnSet(g, T) = g[x] + SumFunctionOnSet(g, T \ {x})
          /\ \A x \in T : SumFunctionOnSet(g, T \ {x}) \in Int
      BY <2>1, SumRules
    <2>4. /\ T = {} => SumFunctionOnSet(h, T) = 0
          /\ \A x \in T : SumFunctionOnSet(h, T) = h[x] + SumFunctionOnSet(h, T \ {x})
      BY <2>1, SumRules
    <2>5. CASE T = {}
      BY <2>2, <2>3, <2>4, <2>5
    <2>6. CASE T # {}
      <3>1. PICK x \in T : SumFunctionOnSet(h, T \ {x})
                            = SumFunctionOnSet(f, T \ {x}) - SumFunctionOnSet(g, T \ {x})
        BY <1>1, <2>6
      <3>2. f[x] \in Int /\ g[x] \in Int /\ h[x] = f[x] - g[x]
        OBVIOUS
      <3>3. QED
        BY <2>2, <2>3, <2>4, <3>1, <3>2
    <2>7. QED
      BY <2>5, <2>6
  <1>2. S \in F
    <2> HIDE DEF F
    <2>1. SUBSET S \subseteq F
      BY <1>1, SubsetInduction
    <2>2. QED
      BY <2>1
  <1>3. QED
    BY <1>2

(* The sum over two sets with nothing in common.                           *)
LEMMA SumOfUnion ==
  ASSUME NEW S, IsFiniteSet(S), NEW R, IsFiniteSet(R), R \cap S = {},
         NEW f, \A x \in R \cup S : f[x] \in Int
  PROVE  SumFunctionOnSet(f, R \cup S) = SumFunctionOnSet(f, R) + SumFunctionOnSet(f, S)
  <1> DEFINE F == {T \in SUBSET S : SumFunctionOnSet(f, R \cup T)
                     = SumFunctionOnSet(f, R) + SumFunctionOnSet(f, T)}
  <1>0. SumFunctionOnSet(f, R) \in Int
    BY SumRules
  <1>1. ASSUME NEW T \in SUBSET S, \A x \in T : T \ {x} \in F
        PROVE  T \in F
    <2>1. /\ IsFiniteSet(T) /\ IsFiniteSet(R \cup T)
          /\ \A x \in T : IsFiniteSet(T \ {x})
      BY FS_Subset, FS_Union, FS_RemoveElement
    <2>2. /\ T = {} => SumFunctionOnSet(f, T) = 0
          /\ \A x \in T : SumFunctionOnSet(f, T) = f[x] + SumFunctionOnSet(f, T \ {x})
          /\ \A x \in T : SumFunctionOnSet(f, T \ {x}) \in Int
      BY <2>1, SumRules
    <2>3. CASE T = {}
      <3>1. R \cup T = R
        BY <2>3
      <3>2. QED
        BY <1>0, <2>2, <2>3, <3>1
    <2>4. CASE T # {}
      <3>1. PICK x \in T : SumFunctionOnSet(f, R \cup (T \ {x}))
                            = SumFunctionOnSet(f, R) + SumFunctionOnSet(f, T \ {x})
        BY <1>1, <2>4
      <3>2. x \in R \cup T /\ (R \cup T) \ {x} = R \cup (T \ {x}) /\ f[x] \in Int
        OBVIOUS
      <3>3. SumFunctionOnSet(f, R \cup T) = f[x] + SumFunctionOnSet(f, R \cup (T \ {x}))
        <4>1. \A y \in R \cup T : f[y] \in Int
          OBVIOUS
        <4>2. SumFunctionOnSet(f, R \cup T) = f[x] + SumFunctionOnSet(f, (R \cup T) \ {x})
          BY <2>1, <3>2, <4>1, SumRules
        <4>3. QED
          BY <3>2, <4>2
      <3>4. QED
        BY <1>0, <2>2, <3>1, <3>2, <3>3
    <2>5. QED
      BY <2>3, <2>4
  <1>2. S \in F
    <2> HIDE DEF F
    <2>1. SUBSET S \subseteq F
      BY <1>1, SubsetInduction
    <2>2. QED
      BY <2>1
  <1>3. QED
    BY <1>2

(* A sum of ones and zeros counts the ones.                                *)
LEMMA SumCounts ==
  ASSUME NEW S, IsFiniteSet(S), NEW A \in SUBSET S, NEW f,
         \A x \in S : f[x] = IF x \in A THEN 1 ELSE 0
  PROVE  SumFunctionOnSet(f, S) = Cardinality(A)
  <1>1. /\ IsFiniteSet(A) /\ IsFiniteSet(S \ A)
        /\ Cardinality(A) \in Nat /\ Cardinality(S \ A) \in Nat
    BY FS_Subset, FS_CardinalityType
  <1>2. SumFunctionOnSet(f, A) = 1 * Cardinality(A)
    BY <1>1, SumOfConstant
  <1>3. SumFunctionOnSet(f, S \ A) = 0 * Cardinality(S \ A)
    BY <1>1, SumOfConstant
  <1>4. A \cap (S \ A) = {} /\ A \cup (S \ A) = S /\ \A x \in A \cup (S \ A) : f[x] \in Int
    OBVIOUS
  <1>5. SumFunctionOnSet(f, A \cup (S \ A))
          = SumFunctionOnSet(f, A) + SumFunctionOnSet(f, S \ A)
    BY <1>1, <1>4, SumOfUnion
  <1>6. 1 * Cardinality(A) = Cardinality(A) /\ 0 * Cardinality(S \ A) = 0
    BY <1>1
  <1>7. SumFunctionOnSet(f, S) = Cardinality(A) + 0
    BY <1>2, <1>3, <1>4, <1>5, <1>6
  <1>8. QED
    BY <1>1, <1>7

(* Adding up part by part.                                                 *)
LEMMA SumOfParts ==
  ASSUME NEW T, IsFiniteSet(T), NEW part, \A t \in T : IsFiniteSet(part[t]),
         \A t, u \in T : t # u => part[t] \cap part[u] = {},
         NEW f, \A t \in T : \A x \in part[t] : f[x] \in Int,
         NEW h, \A t \in T : h[t] = SumFunctionOnSet(f, part[t])
  PROVE  /\ IsFiniteSet(UNION {part[t] : t \in T})
         /\ SumFunctionOnSet(f, UNION {part[t] : t \in T}) = SumFunctionOnSet(h, T)
  <1> DEFINE all(U) == UNION {part[t] : t \in U}
             F == {U \in SUBSET T : /\ IsFiniteSet(all(U))
                                    /\ SumFunctionOnSet(f, all(U)) = SumFunctionOnSet(h, U)}
  <1>0. \A t \in T : h[t] \in Int
    BY SumRules
  <1>1. ASSUME NEW U \in SUBSET T, \A t \in U : U \ {t} \in F
        PROVE  U \in F
    <2>1. IsFiniteSet(U)
      BY FS_Subset
    <2>2. /\ U = {} => SumFunctionOnSet(h, U) = 0
          /\ \A t \in U : SumFunctionOnSet(h, U) = h[t] + SumFunctionOnSet(h, U \ {t})
      BY <1>0, <2>1, SumRules
    <2>3. CASE U = {}
      <3>1. all(U) = {} /\ IsFiniteSet({})
        BY <2>3, FS_EmptySet
      <3>2. SumFunctionOnSet(f, {}) = 0
        BY <3>1, SumRules
      <3>3. QED
        BY <2>2, <2>3, <3>1, <3>2
    <2>4. CASE U # {}
      <3>1. PICK t \in U : U \ {t} \in F
        BY <1>1, <2>4
      <3>2. /\ all(U) = all(U \ {t}) \cup part[t]
            /\ all(U \ {t}) \cap part[t] = {}
            /\ \A x \in all(U \ {t}) \cup part[t] : f[x] \in Int
        OBVIOUS
      <3>3. /\ IsFiniteSet(all(U \ {t})) /\ IsFiniteSet(part[t])
            /\ SumFunctionOnSet(f, all(U \ {t})) = SumFunctionOnSet(h, U \ {t})
            /\ h[t] = SumFunctionOnSet(f, part[t])
        BY <3>1
      <3> HIDE DEF all
      <3>4. IsFiniteSet(all(U \ {t}) \cup part[t])
        BY <3>3, FS_Union
      <3>5. SumFunctionOnSet(f, all(U \ {t}) \cup part[t])
              = SumFunctionOnSet(f, all(U \ {t})) + SumFunctionOnSet(f, part[t])
        BY <3>2, <3>3, SumOfUnion
      <3>6. \A x \in U \ {t} : h[x] \in Int
        BY <1>0
      <3>7. SumFunctionOnSet(h, U \ {t}) \in Int /\ h[t] \in Int
        BY <1>0, <2>1, <3>6, FS_RemoveElement, SumRules
      <3>8. SumFunctionOnSet(h, U) = h[t] + SumFunctionOnSet(h, U \ {t})
        BY <2>2
      <3>9. SumFunctionOnSet(f, all(U)) = SumFunctionOnSet(h, U \ {t}) + h[t]
        BY <3>2, <3>3, <3>5
      <3>10. IsFiniteSet(all(U)) /\ SumFunctionOnSet(f, all(U)) = SumFunctionOnSet(h, U)
        BY <3>2, <3>4, <3>7, <3>8, <3>9
      <3>11. QED
        BY <3>10
    <2>5. QED
      BY <2>3, <2>4
  <1>2. T \in F
    <2> HIDE DEF F
    <2>1. SUBSET T \subseteq F
      BY <1>1, SubsetInduction
    <2>2. QED
      BY <2>1
  <1>3. QED
    BY <1>2

(* The values of a function on a finite set.                               *)
LEMMA FiniteImage ==
  ASSUME NEW S, IsFiniteSet(S), NEW f, DOMAIN f = S
  PROVE  IsFiniteSet({f[x] : x \in S})
  <1> DEFINE g == [x \in S |-> f[x]]
  <1>1. g \in Surjection(S, {f[x] : x \in S})
    BY DEF Surjection
  <1>2. QED
    BY <1>1, FS_Surjection

-----------------------------------------------------------------------------
(* The table.  A match contributes two appearances, a team's standing adds *)
(* up those of the team, and no appearance is of two teams.                *)

Side(m, side) == Appearance(m, matches[m], side)

GamesOf(team, group) == {g \in Appearances(matches, group) : g.team = team}

(* Scores of relevant matches are numbers; one side's goals are conceded   *)
(* by the other.                                                           *)
LEMMA SidesOfMatch ==
  ASSUME Typed, NEW group, NEW m \in Relevant(matches, group)
  PROVE  /\ Side(m, "home").scored \in Int /\ Side(m, "home").conceded \in Int
         /\ Side(m, "away").scored = Side(m, "home").conceded
         /\ Side(m, "away").conceded = Side(m, "home").scored
         /\ Side(m, "home").match = m /\ Side(m, "away").match = m
         /\ Side(m, "home") # Side(m, "away")
  <1>1. matches[m] \in MatchRow
    BY DEF Typed, Relevant, NoMatch
  <1>2. matches[m].home_score \in Int /\ matches[m].away_score \in Int
    <2>1. matches[m].home_score \in Goals \cup {NULL} /\ matches[m].away_score \in Goals \cup {NULL}
      BY <1>1 DEF MatchRow
    <2>2. matches[m].home_score # NULL /\ matches[m].away_score # NULL
      BY DEF Relevant
    <2>3. \A n \in Goals : n \in Int
      BY MatchAssumption
    <2>4. QED
      BY <2>1, <2>2, <2>3
  <1>3. QED
    BY <1>2 DEF Side, Appearance

LEMMA AppearancesAreNumbers ==
  ASSUME Typed, NEW group, NEW g \in Appearances(matches, group)
  PROVE  g.scored \in Int /\ g.conceded \in Int
  <1>1. PICK m \in Relevant(matches, group), side \in {"home", "away"} : g = Side(m, side)
    BY DEF Appearances, Side
  <1>2. QED
    BY <1>1, SidesOfMatch

(* What comes to c for the two sides of any match comes to c times the     *)
(* number of matches.                                                      *)
LEMMA SumBySides ==
  ASSUME Typed, NEW group, NEW c \in Int, NEW f,
         \A m \in Relevant(matches, group) :
           /\ f[Side(m, "home")] \in Int /\ f[Side(m, "away")] \in Int
           /\ f[Side(m, "home")] + f[Side(m, "away")] = c
  PROVE  /\ IsFiniteSet(Appearances(matches, group))
         /\ SumFunctionOnSet(f, Appearances(matches, group))
              = c * Cardinality(Relevant(matches, group))
  <1> DEFINE R == Relevant(matches, group)
             part == [m \in R |-> {Side(m, "home"), Side(m, "away")}]
             h == [m \in R |-> c]
  <1>1. IsFiniteSet(R)
    <2>1. R \in SUBSET Match
      BY DEF Relevant, Typed
    <2>2. QED
      BY <2>1, MatchAssumption, FS_Subset
  <1>2. \A m, n \in R : m # n => part[m] \cap part[n] = {}
    BY SidesOfMatch
  <1>3. ASSUME NEW m \in R
        PROVE  /\ IsFiniteSet(part[m])
               /\ \A g \in part[m] : f[g] \in Int
               /\ SumFunctionOnSet(f, part[m]) = c
    <2> DEFINE home == Side(m, "home")
               away == Side(m, "away")
    <2>1. home # away /\ f[home] \in Int /\ f[away] \in Int /\ f[home] + f[away] = c
      BY SidesOfMatch
    <2>2. part[m] = {home, away}
      OBVIOUS
    <2> HIDE DEF home, away, part
    <2>3. /\ IsFiniteSet({home, away}) /\ IsFiniteSet({away}) /\ IsFiniteSet({})
          /\ {home, away} \ {home} = {away} /\ {away} \ {away} = {}
      <3>1. {home, away} = {away} \cup {home}
        OBVIOUS
      <3>2. IsFiniteSet({away}) /\ IsFiniteSet({})
        BY FS_Singleton, FS_EmptySet
      <3>3. IsFiniteSet({home, away})
        BY <3>1, <3>2, FS_AddElement
      <3>4. {home, away} \ {home} = {away} /\ {away} \ {away} = {}
        BY <2>1
      <3>5. QED
        BY <3>2, <3>3, <3>4
    <2>4. /\ SumFunctionOnSet(f, {home, away}) = f[home] + SumFunctionOnSet(f, {away})
          /\ SumFunctionOnSet(f, {away}) = f[away] + SumFunctionOnSet(f, {})
          /\ SumFunctionOnSet(f, {}) = 0
      <3>1. \A x \in {home, away} : SumFunctionOnSet(f, {home, away})
                                      = f[x] + SumFunctionOnSet(f, {home, away} \ {x})
        BY <2>1, <2>3, SumRules
      <3>2. \A x \in {away} : SumFunctionOnSet(f, {away})
                                = f[x] + SumFunctionOnSet(f, {away} \ {x})
        BY <2>1, <2>3, SumRules
      <3>3. SumFunctionOnSet(f, {}) = 0
        BY <2>3, SumRules
      <3>4. QED
        BY <2>3, <3>1, <3>2, <3>3
    <2>5. QED
      BY <2>1, <2>2, <2>3, <2>4
  <1>4. UNION {part[m] : m \in R} = Appearances(matches, group)
    BY DEF Appearances, Side
  <1>5. \A m \in R : h[m] = c /\ h[m] = SumFunctionOnSet(f, part[m])
    BY <1>3
  <1>6. SumFunctionOnSet(h, R) = c * Cardinality(R)
    BY <1>1, <1>5, SumOfConstant
  <1> HIDE DEF R, part, h
  <1>7. /\ IsFiniteSet(UNION {part[m] : m \in R})
        /\ SumFunctionOnSet(f, UNION {part[m] : m \in R}) = SumFunctionOnSet(h, R)
    BY <1>1, <1>2, <1>3, <1>5, SumOfParts
  <1>8. QED
    BY <1>4, <1>6, <1>7 DEF R

LEMMA AppearancesFinite ==
  ASSUME Typed, NEW group
  PROVE  IsFiniteSet(Appearances(matches, group))
  <1> DEFINE f == [g \in Appearances(matches, group) |-> 0]
  <1>1. \A m \in Relevant(matches, group) :
          /\ f[Side(m, "home")] \in Int /\ f[Side(m, "away")] \in Int
          /\ f[Side(m, "home")] + f[Side(m, "away")] = 0
    BY DEF Appearances, Side
  <1>2. 0 \in Int
    OBVIOUS
  <1> HIDE DEF f
  <1>3. QED
    BY <1>1, <1>2, SumBySides

(* There is one standing per team.                                         *)
LEMMA StandingPerTeam ==
  ASSUME Typed, NEW group, NEW rule
  PROVE  /\ IsFiniteSet(Standings(matches, rule, group))
         /\ \A s \in Standings(matches, rule, group) :
              s = StandingOf(s.team, Appearances(matches, group), rule)
  <1> DEFINE A == Appearances(matches, group)
             table == Standings(matches, rule, group)
             standing == [g \in A |-> StandingOf(g.team, A, rule)]
  <1>1. IsFiniteSet(A)
    BY AppearancesFinite
  <1>2. table = {standing[g] : g \in A}
    BY DEF Standings
  <1>3. \A g \in A : standing[g].team = g.team
    BY DEF StandingOf
  <1>4. \A s \in table : s = StandingOf(s.team, A, rule)
    <2>1. \A g \in A : standing[g] = StandingOf(standing[g].team, A, rule)
      BY <1>3
    <2> HIDE DEF table, standing
    <2>2. QED
      BY <1>2, <2>1
  <1>5. IsFiniteSet(table)
    <2>1. DOMAIN standing = A
      OBVIOUS
    <2> HIDE DEF standing, table, A
    <2>2. QED
      BY <1>1, <1>2, <2>1, FiniteImage
  <1>6. QED
    BY <1>4, <1>5

(* What is added up for each team, then for the table, is the sum over all *)
(* appearances.                                                            *)
LEMMA SumByTeams ==
  ASSUME Typed, NEW group, NEW rule, NEW f, NEW h,
         \A g \in Appearances(matches, group) : f[g] \in Int,
         \A s \in Standings(matches, rule, group) :
           h[s] = SumFunctionOnSet(f, GamesOf(s.team, group))
  PROVE  SumFunctionOnSet(h, Standings(matches, rule, group))
           = SumFunctionOnSet(f, Appearances(matches, group))
  <1> DEFINE A == Appearances(matches, group)
             table == Standings(matches, rule, group)
             part == [s \in table |-> GamesOf(s.team, group)]
             standing == [g \in A |-> StandingOf(g.team, A, rule)]
  <1>1. IsFiniteSet(A)
    BY AppearancesFinite
  <1>2. table = {standing[g] : g \in A}
    BY DEF Standings
  <1>3. \A g \in A : standing[g].team = g.team
    BY DEF StandingOf
  <1>0. IsFiniteSet(table)
    BY StandingPerTeam
  <1>4. \A s \in table : s = StandingOf(s.team, A, rule)
    BY StandingPerTeam
  <1>5. \A s \in table : IsFiniteSet(part[s]) /\ h[s] = SumFunctionOnSet(f, part[s])
    <2>1. \A s \in table : part[s] \in SUBSET A
      BY DEF GamesOf
    <2>2. QED
      BY <1>1, <2>1, FS_Subset
  <1>6. \A s, t \in table : s # t => part[s] \cap part[t] = {}
    BY <1>4 DEF GamesOf
  <1>7. UNION {part[s] : s \in table} = A
    <2>1. \A g \in A : standing[g] \in table /\ g \in part[standing[g]]
      BY <1>2, <1>3 DEF GamesOf
    <2>2. \A s \in table : part[s] \subseteq A
      BY DEF GamesOf
    <2> HIDE DEF standing, table, part, A
    <2>3. QED
      BY <2>1, <2>2
  <1>8. \A s \in table : \A g \in part[s] : f[g] \in Int
    BY DEF GamesOf
  <1> HIDE DEF A, table, part, standing
  <1>9. SumFunctionOnSet(f, UNION {part[s] : s \in table}) = SumFunctionOnSet(h, table)
    BY <1>0, <1>5, <1>6, <1>8, SumOfParts
  <1>10. QED
    BY <1>7, <1>9 DEF A, table

(* A standing's columns are sums over the games of its team.               *)
LEMMA ColumnsAreSums ==
  ASSUME Typed, NEW group, NEW rule, NEW s \in Standings(matches, rule, group)
  PROVE  LET A == Appearances(matches, group)
             mine == GamesOf(s.team, group)
         IN /\ s.goal_difference = SumFunctionOnSet([g \in A |-> g.scored - g.conceded], mine)
            /\ s.wins = SumFunctionOnSet([g \in A |-> IF g.scored > g.conceded THEN 1 ELSE 0], mine)
            /\ s.losses = SumFunctionOnSet([g \in A |-> IF g.scored < g.conceded THEN 1 ELSE 0], mine)
            /\ s.played = SumFunctionOnSet([g \in A |-> 1], mine)
            /\ s.played = s.wins + s.draws + s.losses
            /\ s.goals_for \in Int
  <1> DEFINE A == Appearances(matches, group)
             mine == {g \in A : g.team = s.team}
             won == {g \in mine : g.scored > g.conceded}
             lost == {g \in mine : g.scored < g.conceded}
             scored == [g \in mine |-> g.scored]
             conceded == [g \in mine |-> g.conceded]
  <1>1. s = StandingOf(s.team, A, rule)
    <2>1. PICK g \in A : s = StandingOf(g.team, A, rule)
      BY DEF Standings
    <2>2. s.team = g.team
      BY <2>1 DEF StandingOf
    <2>3. QED
      BY <2>1, <2>2
  <1>2. /\ s.played = Cardinality(mine) /\ s.wins = Cardinality(won)
        /\ s.losses = Cardinality(lost) /\ s.draws = Cardinality(mine \ (won \cup lost))
        /\ s.goal_difference = SumFunction(scored) - SumFunction(conceded)
    <2>1. StandingOf(s.team, A, rule).played = Cardinality(mine)
          /\ StandingOf(s.team, A, rule).wins = Cardinality(won)
          /\ StandingOf(s.team, A, rule).losses = Cardinality(lost)
          /\ StandingOf(s.team, A, rule).draws = Cardinality(mine \ (won \cup lost))
          /\ StandingOf(s.team, A, rule).goal_difference
               = SumFunction(scored) - SumFunction(conceded)
      BY DEF StandingOf
    <2> HIDE DEF A, mine, won, lost, scored, conceded
    <2>2. QED
      BY <1>1, <2>1
  <1>3. IsFiniteSet(mine) /\ \A g \in mine : g.scored \in Int /\ g.conceded \in Int
    <2>1. mine \in SUBSET A
      OBVIOUS
    <2>2. IsFiniteSet(mine)
      BY <2>1, AppearancesFinite, FS_Subset
    <2>3. QED
      BY <2>2, AppearancesAreNumbers
  <1>4. mine = GamesOf(s.team, group)
    BY DEF GamesOf
  <1>5. s.goal_difference = SumFunctionOnSet([g \in A |-> g.scored - g.conceded], mine)
    <2> DEFINE difference == [g \in A |-> g.scored - g.conceded]
    <2>1. \A g \in mine : /\ scored[g] \in Int /\ conceded[g] \in Int
                          /\ difference[g] = scored[g] - conceded[g]
      BY <1>3
    <2>2. DOMAIN scored = mine /\ DOMAIN conceded = mine
      OBVIOUS
    <2> HIDE DEF difference, scored, conceded, mine
    <2>3. SumFunctionOnSet(difference, mine)
            = SumFunctionOnSet(scored, mine) - SumFunctionOnSet(conceded, mine)
      BY <1>3, <2>1, SumOfDifferences
    <2>4. SumFunction(scored) = SumFunctionOnSet(scored, mine)
          /\ SumFunction(conceded) = SumFunctionOnSet(conceded, mine)
      BY <2>2 DEF SumFunction
    <2>5. s.goal_difference = SumFunctionOnSet(difference, mine)
      BY <1>2, <2>3, <2>4
    <2>6. QED
      BY <2>5 DEF difference
  <1>6. s.wins = SumFunctionOnSet([g \in A |-> IF g.scored > g.conceded THEN 1 ELSE 0], mine)
    <2> DEFINE f == [g \in A |-> IF g.scored > g.conceded THEN 1 ELSE 0]
    <2>1. won \in SUBSET mine /\ \A g \in mine : f[g] = IF g \in won THEN 1 ELSE 0
      OBVIOUS
    <2> HIDE DEF f, won, mine
    <2>2. SumFunctionOnSet(f, mine) = Cardinality(won)
      BY <1>3, <2>1, SumCounts
    <2>3. QED
      BY <1>2, <2>2 DEF f
  <1>7. s.losses = SumFunctionOnSet([g \in A |-> IF g.scored < g.conceded THEN 1 ELSE 0], mine)
    <2> DEFINE f == [g \in A |-> IF g.scored < g.conceded THEN 1 ELSE 0]
    <2>1. lost \in SUBSET mine /\ \A g \in mine : f[g] = IF g \in lost THEN 1 ELSE 0
      OBVIOUS
    <2> HIDE DEF f, lost, mine
    <2>2. SumFunctionOnSet(f, mine) = Cardinality(lost)
      BY <1>3, <2>1, SumCounts
    <2>3. QED
      BY <1>2, <2>2 DEF f
  <1>8. s.played = SumFunctionOnSet([g \in A |-> 1], mine)
    <2> DEFINE f == [g \in A |-> 1]
    <2>1. mine \in SUBSET mine /\ \A g \in mine : f[g] = IF g \in mine THEN 1 ELSE 0
      OBVIOUS
    <2> HIDE DEF f, mine
    <2>2. SumFunctionOnSet(f, mine) = Cardinality(mine)
      BY <1>3, <2>1, SumCounts
    <2>3. QED
      BY <1>2, <2>2 DEF f
  <1>9. s.played = s.wins + s.draws + s.losses
    <2>1. won \cap lost = {}
      BY <1>3
    <2>2. won \in SUBSET mine /\ lost \in SUBSET mine /\ mine \cap (won \cup lost) = won \cup lost
      OBVIOUS
    <2> HIDE DEF won, lost, mine
    <2>3. IsFiniteSet(won) /\ IsFiniteSet(lost)
      BY <1>3, <2>2, FS_Subset
    <2>4. Cardinality(won \cup lost) = Cardinality(won) + Cardinality(lost) - Cardinality(won \cap lost)
      BY <2>3, FS_Union
    <2>5. Cardinality(mine \ (won \cup lost))
            = Cardinality(mine) - Cardinality(mine \cap (won \cup lost))
      BY <1>3, FS_Difference
    <2>6. Cardinality(mine) \in Nat /\ Cardinality(won) \in Nat /\ Cardinality(lost) \in Nat
          /\ Cardinality({}) = 0
      BY <1>3, <2>3, FS_CardinalityType, FS_EmptySet
    <2>7. Cardinality(won \cap lost) = 0
          /\ Cardinality(mine \cap (won \cup lost)) = Cardinality(won \cup lost)
      BY <2>1, <2>2, <2>6
    <2>8. Cardinality(mine \ (won \cup lost))
            = Cardinality(mine) - (Cardinality(won) + Cardinality(lost))
      BY <2>4, <2>5, <2>6, <2>7
    <2>9. QED
      BY <1>2, <2>6, <2>8
  <1>10. s.goals_for \in Int
    <2>1. StandingOf(s.team, A, rule).goals_for = SumFunction(scored)
      BY DEF StandingOf
    <2>2. DOMAIN scored = mine /\ \A g \in mine : scored[g] \in Int
      BY <1>3
    <2> HIDE DEF A, mine, scored
    <2>3. SumFunction(scored) = SumFunctionOnSet(scored, mine)
      BY <2>2 DEF SumFunction
    <2>4. SumFunctionOnSet(scored, mine) \in Int
      BY <1>3, <2>2, SumRules
    <2>5. QED
      BY <1>1, <2>1, <2>3, <2>4
  <1> HIDE DEF A, mine
  <1>11. QED
    BY <1>4, <1>5, <1>6, <1>7, <1>8, <1>9, <1>10 DEF A

(***************************************************************************)
(* The table balances in any state, with any number of matches, teams and  *)
(* groups, by any scoring rule: also when results were raced, and when a   *)
(* match was scheduled with a team missing or against itself.              *)
(***************************************************************************)
THEOREM TablesAlwaysBalance == Spec => []TableBalances
  <1>1. Typed => TableBalances
    <2> SUFFICES ASSUME Typed, NEW rule \in InForce, NEW group \in Group \cup {NULL}
                 PROVE  LET table == Standings(matches, rule, group)
                        IN /\ SumFunction([s \in table |-> s.goal_difference]) = 0
                           /\ SumFunction([s \in table |-> s.wins])
                                = SumFunction([s \in table |-> s.losses])
                           /\ SumFunction([s \in table |-> s.played])
                                = 2 * Cardinality(Relevant(matches, group))
                           /\ \A s \in table : s.played = s.wins + s.draws + s.losses
      BY DEF TableBalances
    <2> DEFINE A == Appearances(matches, group)
               table == Standings(matches, rule, group)
               difference == [g \in A |-> g.scored - g.conceded]
               win == [g \in A |-> IF g.scored > g.conceded THEN 1 ELSE 0]
               loss == [g \in A |-> IF g.scored < g.conceded THEN 1 ELSE 0]
               one == [g \in A |-> 1]
    <2>1. IsFiniteSet(A)
      BY AppearancesFinite
    <2>2. \A m \in Relevant(matches, group) : Side(m, "home") \in A /\ Side(m, "away") \in A
      BY DEF Appearances, Side
    <2>3. 0 * Cardinality(Relevant(matches, group)) = 0
      BY FS_Subset, FS_CardinalityType, MatchAssumption DEF Relevant, Typed
    <2>4. SumFunction([s \in table |-> s.goal_difference]) = 0
      <3>1. \A g \in A : difference[g] \in Int
        BY AppearancesAreNumbers
      <3>2. \A m \in Relevant(matches, group) :
              /\ difference[Side(m, "home")] \in Int /\ difference[Side(m, "away")] \in Int
              /\ difference[Side(m, "home")] + difference[Side(m, "away")] = 0
        BY <2>2, SidesOfMatch
      <3>3. \A s \in table : [t \in table |-> t.goal_difference][s]
                             = SumFunctionOnSet(difference, GamesOf(s.team, group))
        BY ColumnsAreSums
      <3>4. 0 \in Int
        OBVIOUS
      <3> HIDE DEF difference
      <3>5. SumFunctionOnSet([t \in table |-> t.goal_difference], table)
              = SumFunctionOnSet(difference, A)
        BY <3>1, <3>3, SumByTeams
      <3>6. SumFunctionOnSet(difference, A) = 0
        BY <2>3, <3>2, <3>4, SumBySides
      <3>7. QED
        BY <3>5, <3>6 DEF SumFunction
    <2>5. SumFunction([s \in table |-> s.wins]) = SumFunction([s \in table |-> s.losses])
      <3> DEFINE net == [g \in A |-> win[g] - loss[g]]
      <3>1. \A g \in A : win[g] \in Int /\ loss[g] \in Int /\ net[g] = win[g] - loss[g]
        OBVIOUS
      <3>2. \A m \in Relevant(matches, group) :
              /\ net[Side(m, "home")] \in Int /\ net[Side(m, "away")] \in Int
              /\ net[Side(m, "home")] + net[Side(m, "away")] = 0
        BY <2>2, SidesOfMatch
      <3>3. \A s \in table : [t \in table |-> t.wins][s]
                             = SumFunctionOnSet(win, GamesOf(s.team, group))
        BY ColumnsAreSums
      <3>4. \A s \in table : [t \in table |-> t.losses][s]
                             = SumFunctionOnSet(loss, GamesOf(s.team, group))
        BY ColumnsAreSums
      <3> HIDE DEF win, loss, net
      <3>5. SumFunctionOnSet([t \in table |-> t.wins], table) = SumFunctionOnSet(win, A)
        BY <3>1, <3>3, SumByTeams
      <3>6. SumFunctionOnSet([t \in table |-> t.losses], table) = SumFunctionOnSet(loss, A)
        BY <3>1, <3>4, SumByTeams
      <3>7. SumFunctionOnSet(net, A) = SumFunctionOnSet(win, A) - SumFunctionOnSet(loss, A)
        BY <2>1, <3>1, SumOfDifferences
      <3>8. SumFunctionOnSet(win, A) \in Int /\ SumFunctionOnSet(loss, A) \in Int
        BY <2>1, <3>1, SumRules
      <3>9. SumFunctionOnSet(net, A) = 0
        <4>1. 0 \in Int
          OBVIOUS
        <4>2. QED
          BY <2>3, <3>2, <4>1, SumBySides
      <3>10. QED
        BY <3>5, <3>6, <3>7, <3>8, <3>9 DEF SumFunction
    <2>6. SumFunction([s \in table |-> s.played]) = 2 * Cardinality(Relevant(matches, group))
      <3>1. \A g \in A : one[g] \in Int
        OBVIOUS
      <3>2. \A m \in Relevant(matches, group) :
              /\ one[Side(m, "home")] \in Int /\ one[Side(m, "away")] \in Int
              /\ one[Side(m, "home")] + one[Side(m, "away")] = 2
        BY <2>2
      <3>3. \A s \in table : [t \in table |-> t.played][s]
                             = SumFunctionOnSet(one, GamesOf(s.team, group))
        BY ColumnsAreSums
      <3>4. 2 \in Int
        OBVIOUS
      <3> HIDE DEF one
      <3>5. SumFunctionOnSet([t \in table |-> t.played], table) = SumFunctionOnSet(one, A)
        BY <3>1, <3>3, SumByTeams
      <3>6. SumFunctionOnSet(one, A) = 2 * Cardinality(Relevant(matches, group))
        BY <3>2, <3>4, SumBySides
      <3>7. QED
        BY <3>5, <3>6 DEF SumFunction
    <2>7. \A s \in table : s.played = s.wins + s.draws + s.losses
      BY ColumnsAreSums
    <2> HIDE DEF A, difference, win, loss, one
    <2>8. QED
      BY <2>4, <2>5, <2>6, <2>7
  <1>2. QED
    BY <1>1, MatchInvariant, PTL DEF IInv

-----------------------------------------------------------------------------
(* Who qualifies.  The rows at some positions, in an order of positions.   *)

(* A total order of some positions, and the positions in it.               *)
IsOrder(first, P) ==
  /\ \A i, j \in P : i # j => (<<i, j>> \in first <=> <<j, i>> \notin first)
  /\ \A i, j, k \in P : <<i, j>> \in first /\ <<j, k>> \in first => <<i, k>> \in first

Arranges(at, first, P) ==
  /\ at \in [1 .. Cardinality(P) -> P]
  /\ \A i \in P : \E k \in 1 .. Cardinality(P) : at[k] = i
  /\ \A k, l \in 1 .. Cardinality(P) : k < l => at[k] # at[l] /\ <<at[k], at[l]>> \in first

Before(i, first, P) == {j \in P \ {i} : <<j, i>> \in first}

(* Every place is taken once, in the order.                                *)
LEMMA EveryPlaceIsTaken ==
  ASSUME NEW P, IsFiniteSet(P), NEW first, IsOrder(first, P)
  PROVE  \E at : /\ Arranges(at, first, P)
                 /\ \A s : Arranged(s, P, first) = [k \in 1 .. Cardinality(P) |-> s[at[k]]]
                 /\ \A k \in 1 .. Cardinality(P) : Cardinality(Before(at[k], first, P)) = k - 1
  <1> DEFINE n == Cardinality(P)
             place == [i \in P |-> 1 + Cardinality(Before(i, first, P))]
  <1>1. n \in Nat
    BY FS_CardinalityType
  <1>2. \A i \in P : /\ IsFiniteSet(Before(i, first, P))
                     /\ Cardinality(Before(i, first, P)) \in Nat
                     /\ Cardinality(Before(i, first, P)) <= n - 1
    <2> SUFFICES ASSUME NEW i \in P
                 PROVE  /\ IsFiniteSet(Before(i, first, P))
                        /\ Cardinality(Before(i, first, P)) \in Nat
                        /\ Cardinality(Before(i, first, P)) <= n - 1
      OBVIOUS
    <2>1. IsFiniteSet(P \ {i}) /\ Cardinality(P \ {i}) = n - 1
      BY FS_RemoveElement
    <2>2. Before(i, first, P) \in SUBSET (P \ {i})
      BY DEF Before
    <2>3. QED
      BY <2>1, <2>2, FS_Subset, FS_CardinalityType
  <1>3. \A i, j \in P : i # j /\ <<i, j>> \in first => place[i] < place[j]
    <2> SUFFICES ASSUME NEW i \in P, NEW j \in P, i # j, <<i, j>> \in first
                 PROVE  Cardinality(Before(i, first, P)) < Cardinality(Before(j, first, P))
      BY <1>2
    <2>1. Before(i, first, P) \in SUBSET Before(j, first, P)
      BY DEF IsOrder, Before
    <2>2. i \in Before(j, first, P) /\ i \notin Before(i, first, P)
      BY DEF Before
    <2>3. Cardinality(Before(i, first, P)) <= Cardinality(Before(j, first, P))
          /\ Cardinality(Before(i, first, P)) # Cardinality(Before(j, first, P))
      BY <1>2, <2>1, <2>2, FS_Subset
    <2>4. QED
      BY <1>2, <2>3
  <1>4. \A i \in P : place[i] \in 1 .. n
    BY <1>1, <1>2
  <1>5. \A i, j \in P : place[i] = place[j] => i = j
    <2> SUFFICES ASSUME NEW i \in P, NEW j \in P, i # j PROVE place[i] # place[j]
      OBVIOUS
    <2>1. <<i, j>> \in first \/ <<j, i>> \in first
      BY DEF IsOrder
    <2>2. place[i] \in 1 .. n /\ place[j] \in 1 .. n
      BY <1>4
    <2> HIDE DEF place
    <2>3. place[i] < place[j] \/ place[j] < place[i]
      BY <1>3, <2>1
    <2>4. QED
      BY <1>1, <2>2, <2>3
  <1>6. \A k \in 1 .. n : \E i \in P : place[i] = k
    <2>1. place \in Injection(P, 1 .. n)
      <3>1. DOMAIN place = P /\ place \in [P -> 1 .. n]
        BY <1>4
      <3> HIDE DEF place
      <3>2. QED
        BY <1>5, <3>1 DEF Injection, IsInjective
    <2>2. IsFiniteSet(1 .. n) /\ Cardinality(1 .. n) = n
      BY <1>1, FS_Interval
    <2> HIDE DEF place
    <2>3. place \in Surjection(P, 1 .. n)
      BY <2>1, <2>2, FS_Injection
    <2>4. QED
      BY <2>3 DEF Surjection
  <1> DEFINE at == [k \in 1 .. n |-> CHOOSE i \in P : place[i] = k]
  <1>7. \A k \in 1 .. n : at[k] \in P /\ place[at[k]] = k
    BY <1>6
  <1>8. at \in [1 .. n -> P]
    BY <1>7
  <1>9. ASSUME NEW s PROVE Arranged(s, P, first) = [k \in 1 .. n |-> s[at[k]]]
    <2>1. \A k \in 1 .. n : at[k] = CHOOSE i \in P : 1 + Cardinality(Before(i, first, P)) = k
      OBVIOUS
    <2>2. Arranged(s, P, first)
            = [k \in 1 .. n |-> s[CHOOSE i \in P : 1 + Cardinality(Before(i, first, P)) = k]]
      BY DEF Arranged, Before
    <2> HIDE DEF at, n
    <2>3. QED
      BY <2>1, <2>2
  <1>10. \A i \in P : \E k \in 1 .. n : at[k] = i
    BY <1>4, <1>5, <1>7
  <1>11. \A k, l \in 1 .. n : k < l => at[k] # at[l] /\ <<at[k], at[l]>> \in first
    <2> SUFFICES ASSUME NEW k \in 1 .. n, NEW l \in 1 .. n, k < l
                 PROVE  at[k] # at[l] /\ <<at[k], at[l]>> \in first
      OBVIOUS
    <2>1. at[k] \in P /\ at[l] \in P /\ place[at[k]] = k /\ place[at[l]] = l
      BY <1>7
    <2> HIDE DEF at, place
    <2>2. at[k] # at[l] /\ ~(<<at[l], at[k]>> \in first)
      BY <1>3, <2>1
    <2>3. QED
      BY <2>1, <2>2 DEF IsOrder
  <1>12. \A k \in 1 .. n : Cardinality(Before(at[k], first, P)) = k - 1
    <2> SUFFICES ASSUME NEW k \in 1 .. n
                 PROVE  Cardinality(Before(at[k], first, P)) = k - 1
      OBVIOUS
    <2>1. at[k] \in P /\ 1 + Cardinality(Before(at[k], first, P)) = k
      BY <1>7
    <2> HIDE DEF at
    <2>2. QED
      BY <1>2, <2>1
  <1> HIDE DEF at
  <1>13. Arranges(at, first, P)
    BY <1>8, <1>10, <1>11 DEF Arranges
  <1>14. QED
    BY <1>9, <1>12, <1>13

(* There are n numbers up to n.                                            *)
LEMMA CountingUpTo ==
  ASSUME NEW n \in Nat
  PROVE  IsFiniteSet(1 .. n) /\ Cardinality(1 .. n) = n
  <1>1. 1 \in Int /\ n \in Int
    OBVIOUS
  <1>2. IsFiniteSet(1 .. n) /\ Cardinality(1 .. n) = IF 1 > n THEN 0 ELSE n - 1 + 1
    BY <1>1, FS_Interval
  <1>3. QED
    BY <1>2

(* A filter keeps the order, and moves nothing back.                       *)
LEMMA FilterKeepsOrder ==
  ASSUME NEW m \in Nat, NEW P \in SUBSET (1 .. m)
  PROVE  /\ IsFiniteSet(P) /\ Cardinality(P) \in Nat
         /\ \E at : /\ at \in [1 .. Cardinality(P) -> P]
                    /\ \A i \in P : \E k \in 1 .. Cardinality(P) : at[k] = i
                    /\ \A k, l \in 1 .. Cardinality(P) : k < l => at[k] < at[l]
                    /\ \A k \in 1 .. Cardinality(P) : k <= at[k]
                    /\ \A s : InOrder(s, P) = [k \in 1 .. Cardinality(P) |-> s[at[k]]]
  <1> DEFINE first == {p \in P \X P : p[1] < p[2]}
             n == Cardinality(P)
  <1>1. IsFiniteSet(P) /\ n \in Nat
    BY CountingUpTo, FS_Subset, FS_CardinalityType
  <1>2. \A i, j \in P : <<i, j>> \in first <=> i < j
    OBVIOUS
  <1>3. \A s : InOrder(s, P) = Arranged(s, P, first)
    BY DEF InOrder
  <1> HIDE DEF first
  <1>4. IsOrder(first, P)
    BY <1>2 DEF IsOrder
  <1>5. PICK at : /\ Arranges(at, first, P)
                  /\ \A s : Arranged(s, P, first) = [k \in 1 .. n |-> s[at[k]]]
                  /\ \A k \in 1 .. n : Cardinality(Before(at[k], first, P)) = k - 1
    BY <1>1, <1>4, EveryPlaceIsTaken
  <1>6. at \in [1 .. n -> P] /\ \A i \in P : \E k \in 1 .. n : at[k] = i
    BY <1>5 DEF Arranges
  <1>7. \A k, l \in 1 .. n : k < l => at[k] < at[l]
    <2>1. \A k, l \in 1 .. n : k < l => <<at[k], at[l]>> \in first
      BY <1>5 DEF Arranges
    <2>2. QED
      BY <1>2, <1>6, <2>1
  <1>8. ASSUME NEW k \in 1 .. n PROVE k <= at[k]
    <2>1. at[k] \in 1 .. m /\ at[k] \in P
      BY <1>6
    <2>2. Before(at[k], first, P) \in SUBSET (1 .. at[k] - 1)
      <3>1. \A j \in Before(at[k], first, P) : j \in P /\ j < at[k]
        BY <1>2, <2>1 DEF Before
      <3>2. ASSUME NEW j \in Before(at[k], first, P) PROVE j \in 1 .. at[k] - 1
        <4>1. j \in P /\ j < at[k]
          BY <3>1
        <4>2. j \in 1 .. m /\ at[k] \in Nat
          BY <2>1, <4>1
        <4>3. QED
          BY <4>1, <4>2
      <3>3. QED
        BY <3>2
    <2>3. IsFiniteSet(1 .. at[k] - 1) /\ Cardinality(1 .. at[k] - 1) = at[k] - 1
      <3>1. at[k] - 1 \in Nat
        BY <2>1
      <3>2. QED
        BY <3>1, CountingUpTo
    <2>4. Cardinality(Before(at[k], first, P)) <= at[k] - 1
      BY <2>2, <2>3, FS_Subset
    <2>5. QED
      BY <1>5, <2>1, <2>4
  <1>9. \A s : InOrder(s, P) = [k \in 1 .. n |-> s[at[k]]]
    BY <1>3, <1>5
  <1>10. QED
    BY <1>1, <1>6, <1>7, <1>8, <1>9

(* A table in which nobody is ahead of anybody above stays as it is.       *)
LEMMA SortedStays ==
  ASSUME NEW n \in Nat, NEW s, s = [k \in 1 .. n |-> s[k]], NEW keys,
         \A i \in 1 .. n : \A j \in 1 .. i - 1 : ~Ahead(s[i], s[j], keys)
  PROVE  StableSort(s, keys) = s
  <1> DEFINE D == 1 .. n
             first == {p \in D \X D :
                         \/ Ahead(s[p[1]], s[p[2]], keys)
                         \/ p[1] < p[2] /\ ~Ahead(s[p[2]], s[p[1]], keys)}
  <1>1. DOMAIN s = D
    OBVIOUS
  <1>2. StableSort(s, keys) = Arranged(s, D, first)
    BY <1>1 DEF StableSort
  <1>3. \A i, j \in D : i # j => (<<j, i>> \in first <=> j < i)
    <2> SUFFICES ASSUME NEW i \in D, NEW j \in D, i # j
                 PROVE  <<j, i>> \in first <=> j < i
      OBVIOUS
    <2>1. <<j, i>> \in first
            <=> (Ahead(s[j], s[i], keys) \/ (j < i /\ ~Ahead(s[i], s[j], keys)))
      OBVIOUS
    <2>2. CASE j < i
      <3>1. j \in 1 .. i - 1
        BY <2>2
      <3>2. QED
        BY <2>1, <2>2, <3>1
    <2>3. CASE i < j
      <3>1. i \in 1 .. j - 1 /\ ~(j < i)
        BY <2>3
      <3>2. ~Ahead(s[j], s[i], keys)
        BY <3>1
      <3>3. QED
        BY <2>1, <3>1, <3>2
    <2>4. QED
      BY <2>2, <2>3
  <1> HIDE DEF first
  <1>4. Cardinality(D) = n
    BY CountingUpTo
  <1>5. ASSUME NEW i \in D
        PROVE  1 + Cardinality({j \in D \ {i} : <<j, i>> \in first}) = i
    <2> DEFINE above == {j \in D \ {i} : <<j, i>> \in first}
    <2>1. above = 1 .. i - 1
      BY <1>3
    <2>2. i - 1 \in Nat
      OBVIOUS
    <2>3. Cardinality(1 .. i - 1) = i - 1
      BY <2>2, CountingUpTo
    <2> HIDE DEF above
    <2>4. 1 + Cardinality(above) = i
      BY <2>1, <2>3
    <2>5. QED
      BY <2>4 DEF above
  <1>6. \A k \in D : (CHOOSE i \in D : 1 + Cardinality({j \in D \ {i} : <<j, i>> \in first}) = k) = k
    BY <1>5
  <1>7. Arranged(s, D, first)
          = [k \in 1 .. Cardinality(D) |->
               s[CHOOSE i \in D : 1 + Cardinality({j \in D \ {i} : <<j, i>> \in first}) = k]]
    BY DEF Arranged
  <1>8. QED
    BY <1>2, <1>4, <1>6, <1>7

(* The length of a list given as a function.                               *)
LEMMA LengthOf ==
  ASSUME NEW n \in Nat, NEW S, NEW s \in [1 .. n -> S]
  PROVE  s \in Seq(S) /\ Len(s) = n /\ DOMAIN s = 1 .. n
  BY LenProperties

(* What a table is: its teams are different, their goals are numbers, and  *)
(* nobody is ahead of anybody above.                                       *)
IsTable(table, n) ==
  /\ n \in Nat
  /\ table \in [1 .. n -> {table[i] : i \in 1 .. n}]
  /\ \A i, j \in 1 .. n : i # j => table[i].team # table[j].team
  /\ \A i \in 1 .. n : table[i].goals_for \in Int
  /\ \A i \in 1 .. n : \A j \in 1 .. i - 1 : ~Ahead(table[i], table[j], StandingKeys)

(* compute returns such a table, in whatever order the matches came.       *)
LEMMA RankingsAreTables ==
  ASSUME Typed, NEW rule, NEW group, NEW table \in Rankings(Standings(matches, rule, group))
  PROVE  \E n \in Nat : IsTable(table, n)
  <1> DEFINE S == Standings(matches, rule, group)
             n == Cardinality(S)
  <1>1. n \in Nat
    BY StandingPerTeam, FS_CardinalityType
  <1>2. /\ table \in [1 .. n -> S]
        /\ \A i, j \in 1 .. n : i # j => table[i] # table[j]
        /\ \A i \in 1 .. n : \A j \in 1 .. i - 1 : ~Ahead(table[i], table[j], StandingKeys)
    BY DEF Rankings, SetToSeqs
  <1>3. \A s \in S : s = StandingOf(s.team, Appearances(matches, group), rule)
    BY StandingPerTeam
  <1>4. \A s \in S : s.goals_for \in Int
    BY ColumnsAreSums
  <1> HIDE DEF S, n
  <1>5. IsTable(table, n)
    <2>1. table \in [1 .. n -> {table[i] : i \in 1 .. n}]
      BY <1>2
    <2>2. \A i, j \in 1 .. n : i # j => table[i].team # table[j].team
      BY <1>2, <1>3
    <2>3. \A i \in 1 .. n : table[i].goals_for \in Int
      BY <1>2, <1>4
    <2>4. QED
      BY <1>1, <1>2, <2>1, <2>2, <2>3 DEF IsTable
  <1>6. QED
    BY <1>1, <1>5

(* A team's place in it.                                                   *)
LEMMA RankIsPlace ==
  ASSUME NEW n, NEW table, IsTable(table, n), NEW i \in 1 .. n
  PROVE  RankIn(table, table[i].team) = i
  <1>1. DOMAIN table = 1 .. n
    BY DEF IsTable
  <1>2. \A j \in 1 .. n : table[j].team = table[i].team => j = i
    BY DEF IsTable
  <1>3. QED
    BY <1>1, <1>2 DEF RankIn

(* Part of a list of standings.                                            *)
LEMMA PartOfList ==
  ASSUME NEW q, NEW first \in Int, NEW last \in Int
  PROVE  /\ Len(SubSeq(q, first, last)) = IF first <= last THEN last - first + 1 ELSE 0
         /\ Teams(SubSeq(q, first, last)) = {q[k].team : k \in first .. last}
  <1> DEFINE part == SubSeq(q, first, last)
             size == IF first <= last THEN last - first + 1 ELSE 0
             S == {q[i] : i \in first .. last}
  <1>1. \A i \in first .. last : q[i] \in S
    OBVIOUS
  <1>2. /\ part \in Seq(S) /\ Len(part) = size
        /\ \A i \in 1 .. last - first + 1 : part[i] = q[first + i - 1]
    <2> HIDE DEF S
    <2>1. QED
      BY <1>1, SubSeqProperties
  <1>3. DOMAIN part = 1 .. last - first + 1
    <2>1. DOMAIN part = 1 .. Len(part)
      BY <1>2, LenProperties
    <2> HIDE DEF part
    <2>2. QED
      BY <1>2, <2>1
  <1> HIDE DEF part
  <1>4. \A k \in first .. last : k - first + 1 \in 1 .. last - first + 1
                                /\ first + (k - first + 1) - 1 = k
    OBVIOUS
  <1>5. \A i \in 1 .. last - first + 1 : first + i - 1 \in first .. last
    OBVIOUS
  <1>6. Teams(part) = {q[k].team : k \in first .. last}
    <2>1. Teams(part) = {part[i].team : i \in 1 .. last - first + 1}
      BY <1>3 DEF Teams
    <2>2. \A i \in 1 .. last - first + 1 : part[i].team = q[first + i - 1].team
      BY <1>2
    <2>3. \A k \in first .. last : part[k - first + 1].team = q[k].team
      BY <1>4, <2>2
    <2>4. QED
      BY <1>4, <1>5, <2>1, <2>2, <2>3
  <1>7. QED
    BY <1>2, <1>6 DEF part

(* top_n over a table: the table is sorted already.                        *)
LEMMA TopNFollowsTable ==
  ASSUME NEW m, NEW table, IsTable(table, m), NEW n \in Nat, NEW min_played
  PROVE  LET verdict == TopN(table, n, min_played, StandingKeys)
             enough == {i \in DOMAIN table : table[i].played >= min_played}
         IN /\ Len(verdict.qualified) =
                 IF Cardinality(enough) < n THEN Cardinality(enough) ELSE n
            /\ Teams(verdict.qualified) \cup Teams(verdict.eliminated)
                 = {table[i].team : i \in enough}
            /\ \A e \in Teams(verdict.eliminated), q \in Teams(verdict.qualified) :
                 /\ RankIn(table, e) > RankIn(table, q)
                 /\ RankIn(table, e) > Len(verdict.qualified)
  <1> DEFINE verdict == TopN(table, n, min_played, StandingKeys)
             enough == {i \in DOMAIN table : table[i].played >= min_played}
             k0 == Cardinality(enough)
             q == InOrder(table, enough)
             top == IF k0 < n THEN k0 ELSE n
  <1>1. /\ m \in Nat /\ DOMAIN table = 1 .. m
        /\ \A i \in 1 .. m : \A j \in 1 .. i - 1 : ~Ahead(table[i], table[j], StandingKeys)
    BY DEF IsTable
  <1>2. /\ k0 \in Nat
        /\ \E at : /\ at \in [1 .. k0 -> enough]
                   /\ \A i \in enough : \E k \in 1 .. k0 : at[k] = i
                   /\ \A k, l \in 1 .. k0 : k < l => at[k] < at[l]
                   /\ \A k \in 1 .. k0 : k <= at[k]
                   /\ q = [k \in 1 .. k0 |-> table[at[k]]]
    <2>1. enough \in SUBSET (1 .. m)
      BY <1>1
    <2> HIDE DEF enough
    <2>2. /\ k0 \in Nat
          /\ \E at : /\ at \in [1 .. k0 -> enough]
                     /\ \A i \in enough : \E k \in 1 .. k0 : at[k] = i
                     /\ \A k, l \in 1 .. k0 : k < l => at[k] < at[l]
                     /\ \A k \in 1 .. k0 : k <= at[k]
                     /\ \A s : InOrder(s, enough) = [k \in 1 .. k0 |-> s[at[k]]]
      BY <1>1, <2>1, FilterKeepsOrder
    <2>3. QED
      BY <2>2
  <1>3. PICK at : /\ at \in [1 .. k0 -> enough]
                  /\ \A i \in enough : \E k \in 1 .. k0 : at[k] = i
                  /\ \A k, l \in 1 .. k0 : k < l => at[k] < at[l]
                  /\ \A k \in 1 .. k0 : k <= at[k]
                  /\ q = [k \in 1 .. k0 |-> table[at[k]]]
    BY <1>2
  <1>0. k0 \in Nat
    BY <1>2
  <1>4. \A i \in enough : i \in 1 .. m
    BY <1>1
  <1>5. verdict = [qualified |-> SubSeq(StableSort(q, StandingKeys), 1,
                                        IF n < Len(StableSort(q, StandingKeys)) THEN n
                                        ELSE Len(StableSort(q, StandingKeys))),
                   eliminated |-> SubSeq(StableSort(q, StandingKeys), n + 1,
                                         Len(StableSort(q, StandingKeys)))]
    BY DEF TopN, PlayedEnough, Verdict
  <1> HIDE DEF enough, k0, q, verdict
  <1> DEFINE R == {q[k] : k \in 1 .. k0}
  <1>6. q \in [1 .. k0 -> R] /\ Len(q) = k0
    <2>1. q \in [1 .. k0 -> R]
      BY <1>3
    <2> HIDE DEF R
    <2>2. QED
      BY <1>0, <2>1, LengthOf
  <1>7. StableSort(q, StandingKeys) = q
    <2>1. ASSUME NEW i \in 1 .. k0, NEW j \in 1 .. i - 1
          PROVE  ~Ahead(q[i], q[j], StandingKeys)
      <3>1. j \in 1 .. k0 /\ j < i
        BY <1>0
      <3>2. at[i] \in 1 .. m /\ at[j] \in 1 .. at[i] - 1
        BY <1>3, <1>4, <3>1
      <3>3. q[i] = table[at[i]] /\ q[j] = table[at[j]]
        BY <1>3, <3>1
      <3>4. QED
        BY <1>1, <3>2, <3>3
    <2>2. q = [k \in 1 .. k0 |-> q[k]]
      BY <1>3
    <2>3. QED
      BY <1>0, <2>1, <2>2, SortedStays
  <1>8. /\ verdict.qualified = SubSeq(q, 1, top)
        /\ verdict.eliminated = SubSeq(q, n + 1, k0)
    <2>1. (IF n < k0 THEN n ELSE k0) = top
      BY <1>0
    <2>2. verdict = [qualified |-> SubSeq(q, 1, IF n < k0 THEN n ELSE k0),
                     eliminated |-> SubSeq(q, n + 1, k0)]
      BY <1>5, <1>6, <1>7
    <2> HIDE DEF top
    <2>3. QED
      BY <2>1, <2>2
  <1>9. top \in 0 .. k0 /\ top \in 0 .. n /\ (k0 > n => top = n)
    BY <1>0
  <1>10. /\ Len(verdict.qualified) = top
         /\ Teams(verdict.qualified) = {table[at[k]].team : k \in 1 .. top}
    <2> HIDE DEF R, top
    <2>1. /\ Len(SubSeq(q, 1, top)) = IF 1 <= top THEN top - 1 + 1 ELSE 0
          /\ Teams(SubSeq(q, 1, top)) = {q[k].team : k \in 1 .. top}
      <3>1. 1 \in Int /\ top \in Int
        BY <1>9
      <3>2. QED
        BY <3>1, PartOfList
    <2>2. \A k \in 1 .. top : q[k] = table[at[k]]
      <3>1. \A k \in 1 .. top : k \in 1 .. k0
        BY <1>0, <1>9
      <3>2. QED
        BY <1>3, <3>1
    <2>3. Len(SubSeq(q, 1, top)) = top
      BY <1>9, <2>1
    <2>4. {q[k].team : k \in 1 .. top} = {table[at[k]].team : k \in 1 .. top}
      BY <2>2
    <2>5. QED
      BY <1>8, <2>1, <2>3, <2>4
  <1>11. Teams(verdict.eliminated) = {table[at[k]].team : k \in n + 1 .. k0}
    <2> HIDE DEF R, top
    <2>1. Teams(SubSeq(q, n + 1, k0)) = {q[k].team : k \in n + 1 .. k0}
      <3>1. n + 1 \in Int /\ k0 \in Int
        BY <1>0
      <3>2. QED
        BY <3>1, PartOfList
    <2>2. \A k \in n + 1 .. k0 : q[k] = table[at[k]]
      <3>1. \A k \in n + 1 .. k0 : k \in 1 .. k0
        BY <1>0
      <3>2. QED
        BY <1>3, <3>1
    <2>3. {q[k].team : k \in n + 1 .. k0} = {table[at[k]].team : k \in n + 1 .. k0}
      BY <2>2
    <2>4. QED
      BY <1>8, <2>1, <2>3
  <1>12. \A k \in 1 .. k0 : RankIn(table, table[at[k]].team) = at[k]
    BY <1>3, <1>4, RankIsPlace
  <1>13. Teams(verdict.qualified) \cup Teams(verdict.eliminated) = {table[i].team : i \in enough}
    <2>1. (1 .. top) \cup (n + 1 .. k0) = 1 .. k0
      BY <1>0, <1>9
    <2>2. {table[at[k]].team : k \in 1 .. k0} = {table[i].team : i \in enough}
      BY <1>3
    <2> HIDE DEF top
    <2>3. QED
      BY <1>10, <1>11, <2>1, <2>2
  <1>14. ASSUME NEW e \in Teams(verdict.eliminated), NEW p \in Teams(verdict.qualified)
         PROVE  RankIn(table, e) > RankIn(table, p) /\ RankIn(table, e) > Len(verdict.qualified)
    <2>1. PICK l \in n + 1 .. k0 : e = table[at[l]].team
      BY <1>11
    <2>2. PICK k \in 1 .. top : p = table[at[k]].team
      BY <1>10
    <2> HIDE DEF top
    <2>3. k \in 1 .. k0 /\ l \in 1 .. k0 /\ k < l /\ top < l
      BY <1>0, <1>9, <2>1, <2>2
    <2>4. RankIn(table, e) = at[l] /\ RankIn(table, p) = at[k]
      BY <1>12, <2>1, <2>2, <2>3
    <2>5. at[k] < at[l] /\ l <= at[l] /\ at[l] \in Nat
      BY <1>3, <1>4, <2>3
    <2>6. QED
      BY <1>9, <1>10, <2>3, <2>4, <2>5
  <1>15. QED
    BY <1>10, <1>13, <1>14 DEF verdict, enough, k0

(* A rule that decides on every team once, and by the table where it has   *)
(* no opinion.                                                             *)
Decided(table, other) ==
  /\ Len(other.qualified) + Len(other.eliminated) = Len(table)
  /\ Teams(other.qualified) \cup Teams(other.eliminated) = Teams(table)
  /\ \A i, j \in DOMAIN other.qualified :
       /\ i < j
       /\ other.qualified[i].goals_for = other.qualified[j].goals_for
       => RankIn(table, other.qualified[i].team) < RankIn(table, other.qualified[j].team)

(* A formula orders by its score, and equal scores by the table.           *)
LEMMA FormulaDecides ==
  ASSUME NEW m, NEW table, IsTable(table, m), NEW threshold,
         NEW score, \A i \in 1 .. m : score[table[i]] = table[i].goals_for
  PROVE  Decided(table, Formula(table, score, threshold))
  <1> DEFINE D == 1 .. m
             P == {i \in DOMAIN table : score[table[i]] >= threshold}
             first == {p \in P \X P :
                         \/ score[table[p[1]]] > score[table[p[2]]]
                         \/ p[1] < p[2] /\ score[table[p[1]]] = score[table[p[2]]]}
             q == Arranged(table, P, first)
             e == InOrder(table, D \ P)
             other == Formula(table, score, threshold)
  <1>1. /\ m \in Nat /\ DOMAIN table = D /\ Len(table) = m
        /\ \A i \in D : score[table[i]] \in Int
    <2>1. m \in Nat /\ table \in [1 .. m -> {table[i] : i \in 1 .. m}]
      BY DEF IsTable
    <2>2. \A i \in D : score[table[i]] \in Int
      BY DEF IsTable
    <2>3. QED
      BY <2>1, <2>2, LengthOf
  <1>2. other = [qualified |-> q, eliminated |-> e]
    BY <1>1 DEF Formula, Verdict
  <1>3. P \in SUBSET D
    BY <1>1
  <1>4. \A i, j \in P : <<i, j>> \in first
                        <=> \/ score[table[i]] > score[table[j]]
                            \/ i < j /\ score[table[i]] = score[table[j]]
    OBVIOUS
  <1> HIDE DEF P, first, q, e, other
  <1>5. /\ IsFiniteSet(D) /\ Cardinality(D) = m
        /\ IsFiniteSet(P) /\ Cardinality(P) \in Nat
    BY <1>1, <1>3, CountingUpTo, FS_Subset, FS_CardinalityType
  <1>6. IsOrder(first, P)
    <2>1. \A i \in P : i \in Int /\ score[table[i]] \in Int
      BY <1>1, <1>3
    <2>2. \A i, j \in P : i # j => (<<i, j>> \in first <=> <<j, i>> \notin first)
      BY <1>4, <2>1
    <2>3. \A i, j, k \in P : <<i, j>> \in first /\ <<j, k>> \in first => <<i, k>> \in first
      BY <1>4, <2>1
    <2>4. QED
      BY <2>2, <2>3 DEF IsOrder
  <1>7. PICK at : /\ Arranges(at, first, P)
                  /\ \A s : Arranged(s, P, first) = [k \in 1 .. Cardinality(P) |-> s[at[k]]]
    BY <1>5, <1>6, EveryPlaceIsTaken
  <1>8. /\ at \in [1 .. Cardinality(P) -> P]
        /\ \A i \in P : \E k \in 1 .. Cardinality(P) : at[k] = i
        /\ q = [k \in 1 .. Cardinality(P) |-> table[at[k]]]
    BY <1>7 DEF Arranges, q
  <1>9. /\ Len(q) = Cardinality(P) /\ DOMAIN q = 1 .. Cardinality(P)
        /\ Teams(q) = {table[i].team : i \in P}
    <2>1. Cardinality(P) \in Nat
      BY <1>5
    <2> DEFINE n == Cardinality(P)
               R == {table[i] : i \in P}
    <2>2. /\ \A k \in 1 .. n : at[k] \in P
          /\ \A i \in P : \E k \in 1 .. n : at[k] = i
          /\ \A k \in 1 .. n : q[k] = table[at[k]]
          /\ q \in [1 .. n -> R]
      BY <1>8
    <2> HIDE DEF n, R
    <2>3. n \in Nat
      BY <2>1 DEF n
    <2>4. Len(q) = n /\ DOMAIN q = 1 .. n
      BY <2>2, <2>3, LengthOf
    <2>5. {q[k].team : k \in 1 .. n} = {table[i].team : i \in P}
      BY <2>2
    <2>6. QED
      BY <2>4, <2>5 DEF n, Teams
  <1>10. /\ Len(e) = Cardinality(D \ P)
         /\ Teams(e) = {table[i].team : i \in D \ P}
    <2> DEFINE rest == D \ P
               n == Cardinality(rest)
    <2>1. rest \in SUBSET (1 .. m) /\ m \in Nat
      BY <1>1
    <2>2. e = InOrder(table, rest)
      BY DEF e
    <2> HIDE DEF rest, D
    <2>3. /\ n \in Nat
          /\ \E pos : /\ pos \in [1 .. n -> rest]
                      /\ \A i \in rest : \E k \in 1 .. n : pos[k] = i
                      /\ \A k, l \in 1 .. n : k < l => pos[k] < pos[l]
                      /\ \A k \in 1 .. n : k <= pos[k]
                      /\ \A s : InOrder(s, rest) = [k \in 1 .. n |-> s[pos[k]]]
      BY <2>1, FilterKeepsOrder
    <2>4. PICK pos : /\ pos \in [1 .. n -> rest]
                     /\ \A i \in rest : \E k \in 1 .. n : pos[k] = i
                     /\ \A s : InOrder(s, rest) = [k \in 1 .. n |-> s[pos[k]]]
      BY <2>3
    <2>5. n \in Nat /\ e = [k \in 1 .. n |-> table[pos[k]]]
      BY <2>2, <2>3, <2>4
    <2> HIDE DEF n
    <2>6. Len(e) = n /\ Teams(e) = {table[i].team : i \in rest}
      <3> DEFINE R == {table[i] : i \in rest}
      <3>1. /\ \A k \in 1 .. n : pos[k] \in rest
            /\ \A k \in 1 .. n : e[k] = table[pos[k]]
            /\ e \in [1 .. n -> R]
        BY <2>4, <2>5
      <3> HIDE DEF R
      <3>2. Len(e) = n /\ DOMAIN e = 1 .. n
        BY <2>5, <3>1, LengthOf
      <3>3. {e[k].team : k \in 1 .. n} = {table[i].team : i \in rest}
        BY <2>4, <3>1
      <3>4. QED
        BY <3>2, <3>3 DEF Teams
    <2>7. QED
      BY <2>6 DEF n, rest
  <1>11. Len(q) + Len(e) = Len(table)
    <2>1. D \cap P = P
      BY <1>3
    <2>2. Cardinality(D \ P) = Cardinality(D) - Cardinality(D \cap P)
      BY <1>5, FS_Difference
    <2>3. Cardinality(D \ P) = m - Cardinality(P)
      BY <1>5, <2>1, <2>2
    <2>4. Len(table) = m /\ m \in Nat /\ Cardinality(P) \in Nat
      BY <1>1, <1>5
    <2> HIDE DEF D
    <2>5. QED
      BY <1>9, <1>10, <2>3, <2>4
  <1>12. Teams(q) \cup Teams(e) = Teams(table)
    <2>1. Teams(table) = {table[i].team : i \in D}
      BY <1>1 DEF Teams
    <2> HIDE DEF D
    <2>2. QED
      BY <1>3, <1>9, <1>10, <2>1
  <1>13. ASSUME NEW i \in DOMAIN q, NEW j \in DOMAIN q, i < j, q[i].goals_for = q[j].goals_for
         PROVE  RankIn(table, q[i].team) < RankIn(table, q[j].team)
    <2>1. /\ i \in 1 .. Cardinality(P) /\ j \in 1 .. Cardinality(P)
          /\ q[i] = table[at[i]] /\ q[j] = table[at[j]]
      BY <1>8, <1>9
    <2>2. at[i] \in P /\ at[j] \in P /\ at[i] \in D /\ at[j] \in D
      BY <1>3, <1>8, <2>1
    <2>3. <<at[i], at[j]>> \in first
      BY <1>7, <1>13, <2>1 DEF Arranges
    <2>4. score[table[at[i]]] = score[table[at[j]]] /\ score[table[at[i]]] \in Int
      BY <1>1, <1>13, <2>1, <2>2
    <2>5. at[i] < at[j]
      BY <1>4, <2>2, <2>3, <2>4
    <2>6. RankIn(table, q[i].team) = at[i] /\ RankIn(table, q[j].team) = at[j]
      BY <2>1, <2>2, RankIsPlace
    <2>7. QED
      BY <2>5, <2>6
  <1>14. Decided(table, other)
    BY <1>2, <1>11, <1>12, <1>13 DEF Decided
  <1>15. QED
    BY <1>14 DEF other

(* min_hours decides on all at once.                                       *)
LEMMA MinHoursDecides ==
  ASSUME NEW m, NEW table, IsTable(table, m), NEW min_hours \in Int
  PROVE  Decided(table, MinHours(table, min_hours))
  <1> DEFINE other == MinHours(table, min_hours)
  <1>1. m \in Nat /\ DOMAIN table = 1 .. m /\ Len(table) = m
    <2>1. m \in Nat /\ table \in [1 .. m -> {table[i] : i \in 1 .. m}]
      BY DEF IsTable
    <2>2. QED
      BY <2>1, LengthOf
  <1>2. Len(<<>>) = 0 /\ Teams(<<>>) = {}
    BY DEF Teams
  <1>3. CASE other = [qualified |-> table, eliminated |-> <<>>]
    <2>1. ASSUME NEW i \in DOMAIN table, NEW j \in DOMAIN table, i < j
          PROVE  RankIn(table, table[i].team) < RankIn(table, table[j].team)
      BY <1>1, <2>1, RankIsPlace
    <2> HIDE DEF other
    <2>2. Decided(table, other)
      BY <1>1, <1>2, <1>3, <2>1 DEF Decided
    <2>3. QED
      BY <2>2 DEF other
  <1>4. CASE other = [qualified |-> <<>>, eliminated |-> table]
    <2> HIDE DEF other
    <2>1. Decided(table, other)
      BY <1>1, <1>2, <1>4 DEF Decided
    <2>2. QED
      BY <2>1 DEF other
  <1>5. QED
    BY <1>3, <1>4 DEF MinHours, Verdict

(***************************************************************************)
(* Whoever qualifies does so by the table, in any state and by any scoring *)
(* rule: top_n prefers no team to one above it and gives its places anew   *)
(* without giving one that an eliminated team keeps as its rank; the other *)
(* rules decide on every team once, and by the table where they tie.       *)
(***************************************************************************)
THEOREM QualificationAlwaysFollowsTable == Spec => []QualificationFollowsTable
  <1>1. Typed => QualificationFollowsTable
    <2> SUFFICES ASSUME Typed, NEW table \in ComputeStandings(NULL)
                 PROVE  LET goals == [s \in ToSet(table) |-> s.goals_for]
                        IN /\ \A n \in 1 .. 2, min_played \in {0, 2} :
                                LET verdict == TopN(table, n, min_played, StandingKeys)
                                    enough == {i \in DOMAIN table : table[i].played >= min_played}
                                IN /\ Len(verdict.qualified) =
                                        IF Cardinality(enough) < n THEN Cardinality(enough) ELSE n
                                   /\ Teams(verdict.qualified) \cup Teams(verdict.eliminated)
                                        = {table[i].team : i \in enough}
                                   /\ \A e \in Teams(verdict.eliminated),
                                         q \in Teams(verdict.qualified) :
                                        /\ RankIn(table, e) > RankIn(table, q)
                                        /\ RankIn(table, e) > Len(verdict.qualified)
                           /\ \A other \in {Formula(table, goals, 2), MinHours(table, 0),
                                            MinHours(table, 1)} : Decided(table, other)
      BY DEF QualificationFollowsTable, Decided
    <2> DEFINE goals == [s \in ToSet(table) |-> s.goals_for]
    <2>1. PICK rule \in InForce : table \in Rankings(Standings(matches, rule, NULL))
      BY DEF ComputeStandings
    <2>2. PICK m \in Nat : IsTable(table, m)
      BY <2>1, RankingsAreTables
    <2>3. \A i \in 1 .. m : goals[table[i]] = table[i].goals_for
      <3>1. DOMAIN table = 1 .. m
        BY <2>2 DEF IsTable
      <3>2. \A i \in 1 .. m : table[i] \in ToSet(table)
        BY <3>1 DEF ToSet
      <3>3. QED
        BY <3>2
    <2> HIDE DEF goals
    <2>4. \A n \in 1 .. 2 : n \in Nat
      OBVIOUS
    <2>5. Decided(table, Formula(table, goals, 2))
      BY <2>2, <2>3, FormulaDecides
    <2>6. Decided(table, MinHours(table, 0)) /\ Decided(table, MinHours(table, 1))
      <3>1. 0 \in Int /\ 1 \in Int
        OBVIOUS
      <3>2. QED
        BY <2>2, <3>1, MinHoursDecides
    <2>7. QED
      BY <2>2, <2>4, <2>5, <2>6, TopNFollowsTable DEF goals
  <1>2. QED
    BY <1>1, MatchInvariant, PTL DEF IInv

=============================================================================
