----------------------------- MODULE TurfProofs -----------------------------
(***************************************************************************)
(* What a customer may rely on, for any tables an administrator may write, *)
(* any day, and any number of customers at once.                           *)
(*                                                                         *)
(* The argument: a checkout that no edit has made stale computed all that  *)
(* it knows from the tables as they are now, so that the preview and the   *)
(* booking are two runs of one computation.  The rest is about the         *)
(* computations: the slots of a rule are an arithmetic progression, the    *)
(* loop over the pricing rules is a fold, and tiers are finitely many.     *)
(***************************************************************************)
EXTENDS TurfProperties, FiniteSetTheorems, FunctionTheorems, SequenceTheorems,
        WellFoundedInduction, TLAPS

-----------------------------------------------------------------------------
(* Numbers.  Induction is over a set of numbers, not over an operator.     *)

LEMMA LeastNatural ==
  ASSUME NEW S \in SUBSET Nat, S # {}
  PROVE  \E n \in S : \A m \in S : n <= m
  <1>1. \E n \in S : \A m \in S : ~(<<m, n>> \in OpToRel(<, Nat))
    BY NatLessThanWellFounded, WFMin
  <1>2. PICK n \in S : \A m \in S : ~(<<m, n>> \in OpToRel(<, Nat))
    BY <1>1
  <1>3. \A m \in S : ~(m < n)
    BY <1>2 DEF OpToRel
  <1>4. QED
    BY <1>3

LEMMA InductionOnNaturals ==
  ASSUME NEW S, 0 \in S, \A n \in Nat : n \in S => n + 1 \in S
  PROVE  Nat \subseteq S
  <1> SUFFICES ASSUME Nat \ S # {} PROVE FALSE
    OBVIOUS
  <1>1. PICK n \in Nat \ S : \A m \in Nat \ S : n <= m
    BY LeastNatural
  <1>2. n # 0 /\ n - 1 \in Nat /\ n - 1 \in S
    BY <1>1
  <1>3. QED
    BY <1>1, <1>2

(* A finite set of integers has a greatest element.                        *)
LEMMA GreatestOf ==
  ASSUME NEW S \in SUBSET Int, S # {}, NEW top \in Int, \A x \in S : x <= top
  PROVE  Max(S) \in S /\ \A x \in S : x <= Max(S)
  <1> DEFINE gaps == {top - x : x \in S}
  <1>1. gaps \in SUBSET Nat /\ gaps # {}
    <2>1. \A x \in S : top - x \in Nat
      OBVIOUS
    <2>2. QED
      BY <2>1
  <1>2. PICK g \in gaps : \A h \in gaps : g <= h
    BY <1>1, LeastNatural
  <1>3. PICK m \in S : g = top - m
    OBVIOUS
  <1>4. \A x \in S : m >= x
    BY <1>2, <1>3
  <1>5. QED
    BY <1>3, <1>4 DEF Max

LEMMA GreatestOfFirst ==
  ASSUME NEW n \in Nat, NEW s \in SUBSET (1 .. n), s # {}
  PROVE  Max(s) \in s /\ \A x \in s : x <= Max(s)
  <1>1. s \in SUBSET Int /\ \A x \in s : x <= n
    OBVIOUS
  <1>2. n \in Int
    OBVIOUS
  <1>3. QED
    BY <1>1, <1>2, GreatestOf

-----------------------------------------------------------------------------
(* Types: rows are what TurfAssumption says that administrators write.     *)

BookingRow == [start : TimeOfDay, end : TimeOfDay, live : BOOLEAN, final_price : Nat,
               refund_amount : Int \cup {NULL}]

(* A checkout after each of its steps.                                     *)
Ops == {"preview", "create"}

Resolving == [pc : {"resolve"}, op : Ops, range : Ranges, quote : Nat \cup {NULL},
              stale : BOOLEAN]
Resolved == [pc : {"coupon"}, op : Ops, range : Ranges, quote : Nat \cup {NULL},
             stale : BOOLEAN, base : Int]
Discounted == [pc : {"pricing"}, op : Ops, range : Ranges, quote : Nat \cup {NULL},
               stale : BOOLEAN, base : Int, discount : Int]
Previewed == [pc : {"previewed"}, range : Ranges, quote : Nat, stale : BOOLEAN]
Booked == [pc : {"booked"}, range : Ranges, quote : Nat \cup {NULL}, stale : BOOLEAN,
           booking : Booking]

Request == Resolving \cup Resolved \cup Discounted \cup Previewed \cup Booked

TablesTyped ==
  /\ rules \in [SlotRule -> RuleRow \cup {Absent}]
  /\ pricing \in [PricingRule -> PricingRow \cup {Absent}]
  /\ coupon \in CouponRow \cup {NULL}
  /\ policies \subseteq PolicyRow
  /\ bookings \in [Booking -> BookingRow \cup {Absent}]

Typed ==
  /\ TablesTyped
  /\ req \in [Req -> Request \cup {Idle}]
  /\ \A r \in Req : req[r] # Idle /\ req[r].pc = "booked" => bookings[req[r].booking] # Absent

(* The prices a checkout of the range may come to with the tables of now.  *)
PricesNow(range) ==
  UNION {Totals(PricingRules, range, base, CouponDiscount(coupon, base)) :
           base \in BasePrices(Rules, range)}

(* What a checkout knows that no edit has overtaken.                       *)
Knows(r) ==
  /\ req[r].pc \in {"coupon", "pricing"} => req[r].base \in BasePrices(Rules, req[r].range)
  /\ req[r].pc = "pricing" => req[r].discount = CouponDiscount(coupon, req[r].base)
  /\ req[r].quote # NULL => req[r].quote \in PricesNow(req[r].range)
  /\ req[r].pc = "booked" =>
       bookings[req[r].booking].final_price \in PricesNow(req[r].range)

KnowledgeHolds == \A r \in Req : req[r] # Idle /\ ~req[r].stale => Knows(r)

IInv == Typed /\ KnowledgeHolds

-----------------------------------------------------------------------------
(* The loop over the pricing rules.                                        *)

(* One step of the fold: the rule with the largest index is the last.      *)
FoldStep(g, s, order, init) ==
  IF s = {} THEN init ELSE ApplyRule(g[s \ {Max(s)}], order[Max(s)])

IsFold(g, n, order, init) == g = [s \in SUBSET (1 .. n) |-> FoldStep(g, s, order, init)]

(* The recursion that defines the fold has a solution.                     *)
LEMMA FoldIsDefined ==
  ASSUME NEW order, NEW init, NEW n \in Nat
  PROVE  \E g : IsFold(g, n, order, init)
  <1> DEFINE Solved == {k \in Nat : \E g : IsFold(g, k, order, init)}
  <1>1. 0 \in Solved
    <2> DEFINE g == [s \in SUBSET (1 .. 0) |-> init]
    <2>1. \A s \in SUBSET (1 .. 0) : s = {}
      OBVIOUS
    <2>2. g = [s \in SUBSET (1 .. 0) |-> FoldStep(g, s, order, init)]
      BY <2>1 DEF FoldStep
    <2>3. QED
      BY <2>2 DEF IsFold
  <1>2. ASSUME NEW k \in Nat, k \in Solved PROVE k + 1 \in Solved
    <2>1. PICK g : g = [s \in SUBSET (1 .. k) |-> FoldStep(g, s, order, init)]
      BY <1>2 DEF IsFold
    <2> DEFINE h == [s \in SUBSET (1 .. k + 1) |->
                       IF k + 1 \in s THEN ApplyRule(g[s \ {k + 1}], order[k + 1]) ELSE g[s]]
    <2>2. ASSUME NEW s \in SUBSET (1 .. k + 1)
          PROVE  h[s] = FoldStep(h, s, order, init)
      <3>1. CASE k + 1 \in s
        <4>1. Max(s) = k + 1
          <5>1. k + 1 \in Nat
            OBVIOUS
          <5>2. Max(s) \in s /\ \A x \in s : x <= Max(s)
            BY <3>1, <5>1, GreatestOfFirst
          <5>3. Max(s) \in 1 .. k + 1 /\ k + 1 <= Max(s)
            BY <3>1, <5>2
          <5>4. QED
            BY <5>3
        <4>2. s \ {k + 1} \in SUBSET (1 .. k) /\ s \ {k + 1} \in SUBSET (1 .. k + 1)
          OBVIOUS
        <4>3. h[s \ {k + 1}] = g[s \ {k + 1}]
          BY <4>2
        <4>4. QED
          BY <3>1, <4>1, <4>3 DEF FoldStep
      <3>2. CASE k + 1 \notin s
        <4>1. s \in SUBSET (1 .. k)
          BY <3>2
        <4>2. h[s] = FoldStep(g, s, order, init)
          BY <2>1, <3>2, <4>1
        <4>3. ASSUME s # {} PROVE h[s \ {Max(s)}] = g[s \ {Max(s)}]
          <5>1. s \ {Max(s)} \in SUBSET (1 .. k + 1) /\ k + 1 \notin s \ {Max(s)}
            BY <3>2
          <5>2. QED
            BY <5>1
        <4>4. QED
          BY <4>2, <4>3 DEF FoldStep
      <3>3. QED
        BY <3>1, <3>2
    <2>3. h = [s \in SUBSET (1 .. k + 1) |-> h[s]]
      OBVIOUS
    <2> HIDE DEF h
    <2>4. h = [s \in SUBSET (1 .. k + 1) |-> FoldStep(h, s, order, init)]
      BY <2>2, <2>3
    <2>5. QED
      BY <2>4 DEF IsFold
  <1>3. n \in Solved
    <2> HIDE DEF Solved
    <2>1. QED
      BY <1>1, <1>2, InductionOnNaturals
  <1>4. QED
    BY <1>3

(* run[i] is what has been computed when i rules have been looked at.      *)
IsRun(run, order, n, init) ==
  /\ run[0] = init
  /\ \A i \in 1 .. n : run[i] = ApplyRule(run[i - 1], order[i])

FoldOfRules(order, init) == FoldLeft(ApplyRule, init, order)

LEMMA FoldAsRun ==
  ASSUME NEW order, NEW init, NEW n \in Nat, DOMAIN order = 1 .. n
  PROVE  \E run : IsRun(run, order, n, init) /\ FoldOfRules(order, init) = run[n]
  <1> DEFINE iter == CHOOSE g : g = [s \in SUBSET (1 .. n) |->
                       IF s = {} THEN init
                       ELSE ApplyRule(g[s \ {Max(s)}], order[Max(s)])]
  <1>1. iter = [s \in SUBSET (1 .. n) |->
                  IF s = {} THEN init ELSE ApplyRule(iter[s \ {Max(s)}], order[Max(s)])]
    <2>1. \E g : g = [s \in SUBSET (1 .. n) |->
                       IF s = {} THEN init
                       ELSE ApplyRule(g[s \ {Max(s)}], order[Max(s)])]
      <3>1. PICK g : IsFold(g, n, order, init)
        BY FoldIsDefined
      <3>2. g = [s \in SUBSET (1 .. n) |->
                   IF s = {} THEN init
                   ELSE ApplyRule(g[s \ {Max(s)}], order[Max(s)])]
        BY <3>1 DEF IsFold, FoldStep
      <3>3. QED
        BY <3>2
    <2>2. QED
      BY <2>1
  <1>2. FoldOfRules(order, init) = iter[1 .. n]
    BY DEF FoldOfRules, FoldLeft, MapThenFoldSet
  <1> HIDE DEF iter
  <1> DEFINE run == [i \in 0 .. n |-> iter[1 .. i]]
  <1>3. run[0] = init
    <2>1. 1 .. 0 = {} /\ {} \in SUBSET (1 .. n)
      OBVIOUS
    <2>2. QED
      BY <1>1, <2>1
  <1>4. ASSUME NEW i \in 1 .. n PROVE run[i] = ApplyRule(run[i - 1], order[i])
    <2>1. 1 .. i \in SUBSET (1 .. n) /\ 1 .. i # {} /\ i \in Nat
      OBVIOUS
    <2>2. Max(1 .. i) = i
      <3>1. 1 .. i \in SUBSET (1 .. i) /\ i \in 1 .. i
        OBVIOUS
      <3>2. Max(1 .. i) \in 1 .. i /\ \A x \in 1 .. i : x <= Max(1 .. i)
        BY <2>1, <3>1, GreatestOfFirst
      <3>3. QED
        BY <3>1, <3>2
    <2>3. (1 .. i) \ {i} = 1 .. i - 1
      OBVIOUS
    <2>4. iter[1 .. i] = ApplyRule(iter[(1 .. i) \ {i}], order[i])
      BY <1>1, <2>1, <2>2
    <2>5. i \in 0 .. n /\ i - 1 \in 0 .. n
      OBVIOUS
    <2>6. QED
      BY <2>3, <2>4, <2>5
  <1>5. FoldOfRules(order, init) = run[n]
    BY <1>2
  <1> HIDE DEF run
  <1>6. QED
    BY <1>3, <1>4, <1>5 DEF IsRun

-----------------------------------------------------------------------------
(* Amounts.                                                                *)

(* A percentage of an amount is rounded to a neighbour: it keeps the sign, *)
(* and up to a hundred per cent does not exceed the amount.                *)
LEMMA PercentBounds ==
  ASSUME NEW amount \in Int, NEW pct \in Int
  PROVE  /\ Percent(amount, pct) \in Int
         /\ amount >= 0 /\ pct >= 0 => Percent(amount, pct) >= 0
         /\ amount >= 0 /\ pct \in 0 .. 100 => Percent(amount, pct) <= amount
  <1> DEFINE p == amount * pct
             q == p \div 100
  <1>1. p \in Int /\ q \in Int /\ p = 100 * q + (p % 100) /\ p % 100 \in 0 .. 99
    OBVIOUS
  <1>2. amount >= 0 /\ pct >= 0 => p >= 0
    OBVIOUS
  <1>3. amount >= 0 /\ pct \in 0 .. 100 => p <= 100 * amount
    OBVIOUS
  <1>4. Percent(amount, pct) \in {q, q + 1} /\ (p % 100 = 0 => Percent(amount, pct) = q)
    BY DEF Percent
  <1> HIDE DEF p, q
  <1>5. QED
    BY <1>1, <1>2, <1>3, <1>4

LEMMA EffectType ==
  ASSUME NEW rule \in PricingRow, NEW price \in Int
  PROVE  Effect(rule, price) \in Int
  BY PercentBounds DEF Effect, PricingRow

LEMMA AdjustedType ==
  ASSUME NEW n \in Nat, NEW order \in [1 .. n -> PricingRow], NEW base \in Int
  PROVE  Adjusted(order, base) \in Int
  <1> DEFINE init == [price |-> base, exclusive |-> {}]
  <1>0. DOMAIN order = 1 .. n
    OBVIOUS
  <1>1. PICK run : IsRun(run, order, n, init) /\ FoldOfRules(order, init) = run[n]
    BY <1>0, FoldAsRun
  <1> DEFINE Good == {i \in Nat : i <= n => run[i].price \in Int}
  <1>2. 0 \in Good
    BY <1>1 DEF IsRun
  <1>3. ASSUME NEW i \in Nat, i \in Good PROVE i + 1 \in Good
    <2> SUFFICES ASSUME i + 1 <= n PROVE run[i + 1].price \in Int
      OBVIOUS
    <2>1. i + 1 \in 1 .. n /\ (i + 1) - 1 = i /\ run[i].price \in Int
      BY <1>3
    <2>2. run[i + 1] = ApplyRule(run[i], order[i + 1])
      BY <1>1, <2>1 DEF IsRun
    <2>3. Effect(order[i + 1], run[i].price) \in Int
      BY <2>1, EffectType
    <2>4. QED
      BY <2>1, <2>2, <2>3 DEF ApplyRule
  <1>4. n \in Good
    <2> HIDE DEF Good
    <2>1. QED
      BY <1>2, <1>3, InductionOnNaturals
  <1>5. QED
    BY <1>1, <1>4 DEF Adjusted, FoldOfRules

(* Whatever the rules and the discount, nobody is paid for booking.        *)
LEMMA TotalType ==
  ASSUME NEW n \in Nat, NEW order \in [1 .. n -> PricingRow], NEW base \in Int,
         NEW discount \in Int
  PROVE  Total(order, base, discount) \in Nat
  <1>1. Adjusted(order, base) \in Int
    BY AdjustedType
  <1>2. Greatest(Adjusted(order, base) - discount, 0) \in Nat
    BY <1>1 DEF Greatest
  <1>3. ASSUME NEW s \in Nat PROVE s + Percent(s, DefaultTaxRatePct) \in Nat
    <2>1. s \in Int /\ s >= 0 /\ DefaultTaxRatePct \in Int /\ DefaultTaxRatePct >= 0
      BY DEF DefaultTaxRatePct
    <2>2. Percent(s, DefaultTaxRatePct) \in Int /\ Percent(s, DefaultTaxRatePct) >= 0
      BY <2>1, PercentBounds
    <2>3. QED
      BY <2>2
  <1>4. QED
    BY <1>2, <1>3 DEF Total

LEMMA DiscountType ==
  ASSUME NEW code \in CouponRow \cup {NULL}, NEW amount \in Int
  PROVE  CouponDiscount(code, amount) \in Int
  <1>1. CASE code = NULL
    BY <1>1 DEF CouponDiscount
  <1>2. CASE code \in CouponRow
    <2>1. Percent(amount, code.value) \in Int
      BY <1>2, PercentBounds DEF CouponRow
    <2>2. QED
      BY <1>2, <2>1 DEF CouponDiscount, CouponRow, Least
  <1>3. QED
    BY <1>1, <1>2

(* A range costs a whole number of slots of the rule, at least one.        *)
LEMMA RulePriceType ==
  ASSUME NEW rule \in RuleRow, NEW range \in [start : TimeOfDay, end : TimeOfDay]
  PROVE  RulePrice(rule, range) \in Int
  <1>1. range.end - range.start \in Int /\ Greatest(rule.duration, 1) \in Nat \ {0}
    BY LastMinuteAssumption DEF RuleRow, TimeOfDay, Greatest
  <1>2. (range.end - range.start) \div Greatest(rule.duration, 1) \in Int
    BY <1>1
  <1>3. Greatest(1, (range.end - range.start) \div Greatest(rule.duration, 1)) \in Int
    BY <1>2 DEF Greatest
  <1>4. rule.price \in Int
    BY DEF RuleRow
  <1>5. QED
    BY <1>3, <1>4 DEF RulePrice

LEMMA RulesTyped ==
  ASSUME TablesTyped
  PROVE  Rules \subseteq RuleRow
  BY DEF TablesTyped, Rules

LEMMA BasePricesTyped ==
  ASSUME TablesTyped, NEW range \in Ranges
  PROVE  BasePrices(Rules, range) \subseteq Int
  BY RulesTyped, RulePriceType, TurfAssumption DEF BasePrices

LEMMA OrdersTyped ==
  ASSUME TablesTyped, NEW range, NEW order \in Orders(PricingRules, range)
  PROVE  \E n \in Nat : order \in [1 .. n -> PricingRow]
  <1> DEFINE matching == {k \in DOMAIN PricingRules : MatchesConditions(PricingRules[k], range)}
             n == Cardinality(matching)
  <1>1. matching \subseteq PricingRule /\ \A k \in matching : PricingRules[k] \in PricingRow
    BY DEF PricingRules, TablesTyped
  <1>2. n \in Nat
    BY <1>1, TurfAssumption, FS_Subset, FS_CardinalityType
  <1>3. PICK keys \in SetToSeqs(matching) : order = [i \in DOMAIN keys |-> PricingRules[keys[i]]]
    BY DEF Orders
  <1>4. keys \in [1 .. n -> matching]
    BY <1>3 DEF SetToSeqs
  <1> HIDE DEF matching, n
  <1>5. order \in [1 .. n -> PricingRow]
    BY <1>1, <1>3, <1>4
  <1>6. QED
    BY <1>2, <1>5

LEMMA TotalsTyped ==
  ASSUME TablesTyped, NEW range, NEW base \in Int, NEW discount \in Int
  PROVE  Totals(PricingRules, range, base, discount) \subseteq Nat
  BY OrdersTyped, TotalType DEF Totals

-----------------------------------------------------------------------------
(* Tiers.                                                                  *)

Tier == [hours_before : Int, refund_pct : Int]
Tiers == Seq(Tier)

LEMMA TiersTyped ==
  ASSUME NEW tiers \in Tiers
  PROVE  \A i \in DOMAIN tiers :
           i \in Nat /\ tiers[i].hours_before \in Int /\ tiers[i].refund_pct \in Int
  <1>1. tiers \in Seq(Tier)
    BY DEF Tiers
  <1>2. tiers \in [1 .. Len(tiers) -> Tier] /\ Len(tiers) \in Nat
    BY <1>1, LenProperties
  <1>3. \A i \in 1 .. Len(tiers) : tiers[i] \in Tier /\ i \in Nat
    BY <1>2
  <1>4. QED
    BY <1>2, <1>3 DEF Tier

(* There is a first tier in descending order of hours, among those that    *)
(* are reached, and the percentage is that of it.                          *)
LEMMA TierChosen ==
  ASSUME NEW tiers \in Tiers, NEW hours \in Int
  PROVE  \/ /\ \A i \in DOMAIN tiers : hours < tiers[i].hours_before
            /\ RefundPct(tiers, hours) = 0
         \/ \E i \in DOMAIN tiers :
              /\ hours >= tiers[i].hours_before
              /\ RefundPct(tiers, hours) = tiers[i].refund_pct
              /\ \A j \in DOMAIN tiers : hours >= tiers[j].hours_before =>
                   tiers[i].hours_before >= tiers[j].hours_before
  <1> DEFINE reached == {i \in DOMAIN tiers : hours >= tiers[i].hours_before}
             First(i) == \A j \in reached :
                           \/ tiers[i].hours_before > tiers[j].hours_before
                           \/ tiers[i].hours_before = tiers[j].hours_before /\ i <= j
             chosen == CHOOSE i \in reached : First(i)
  <1>1. \A i \in DOMAIN tiers : i \in Nat /\ tiers[i].hours_before \in Int
    BY TiersTyped
  <1>2. RefundPct(tiers, hours) = IF reached = {} THEN 0 ELSE tiers[chosen].refund_pct
    BY DEF RefundPct
  <1>3. CASE reached = {}
    BY <1>1, <1>2, <1>3
  <1>4. CASE reached # {}
    <2> DEFINE notices == {tiers[i].hours_before : i \in reached}
               longest == {i \in reached : tiers[i].hours_before = Max(notices)}
    <2>1. notices \in SUBSET Int /\ notices # {} /\ \A x \in notices : x <= hours
      BY <1>1, <1>4
    <2>2. Max(notices) \in notices /\ \A x \in notices : x <= Max(notices)
      BY <2>1, GreatestOf
    <2>3. longest \in SUBSET Nat /\ longest # {}
      BY <1>1, <2>2
    <2>4. PICK i \in longest : \A j \in longest : i <= j
      BY <2>3, LeastNatural
    <2>5. i \in reached /\ First(i)
      <3>1. i \in reached /\ tiers[i].hours_before = Max(notices)
        BY <2>4
      <3>2. ASSUME NEW j \in reached
            PROVE  \/ tiers[i].hours_before > tiers[j].hours_before
                   \/ tiers[i].hours_before = tiers[j].hours_before /\ i <= j
        <4>1. tiers[j].hours_before \in notices
          OBVIOUS
        <4>2. tiers[j].hours_before <= tiers[i].hours_before
          BY <2>2, <3>1, <4>1
        <4>3. tiers[j].hours_before = tiers[i].hours_before => j \in longest
          BY <3>1
        <4>4. tiers[j].hours_before \in Int /\ tiers[i].hours_before \in Int
          BY <1>1, <3>1
        <4> HIDE DEF reached, notices, longest
        <4>5. QED
          BY <2>4, <4>2, <4>3, <4>4
      <3>3. QED
        BY <3>1, <3>2
    <2>6. chosen \in reached /\ First(chosen)
      BY <2>5
    <2> HIDE DEF chosen
    <2>7. QED
      BY <1>1, <1>2, <1>4, <2>6
  <1>5. QED
    BY <1>3, <1>4

LEMMA RefundPctType ==
  ASSUME NEW tiers \in Tiers, NEW hours \in Int
  PROVE  RefundPct(tiers, hours) \in Int
  <1>1. \A i \in DOMAIN tiers : tiers[i].refund_pct \in Int
    BY TiersTyped
  <1>2. QED
    BY <1>1, TierChosen

(* Under fair tiers the one that is chosen is the best that is reached.    *)
LEMMA ChosenIsBest ==
  ASSUME NEW tiers \in Tiers, NEW hours \in Int, Fair(tiers)
  PROVE  /\ RefundPct(tiers, hours) = BestReached(tiers, hours)
         /\ RefundPct(tiers, hours) \in 0 .. 100
  <1> DEFINE reached == {i \in DOMAIN tiers : hours >= tiers[i].hours_before}
             earned == {0} \cup {tiers[i].refund_pct : i \in reached}
  <1>1. \A i \in DOMAIN tiers : tiers[i].refund_pct \in 0 .. 100
    BY DEF Fair
  <1>2. earned \in SUBSET Int /\ earned # {} /\ \A x \in earned : x <= 100
    BY <1>1
  <1>3. Max(earned) \in earned /\ \A x \in earned : x <= Max(earned)
    <2> HIDE DEF earned
    <2>1. 100 \in Int
      OBVIOUS
    <2>2. QED
      BY <1>2, <2>1, GreatestOf
  <1>4. BestReached(tiers, hours) = Max(earned)
    BY DEF BestReached
  <1>5. RefundPct(tiers, hours) \in earned /\ \A x \in earned : x <= RefundPct(tiers, hours)
    <2>1. CASE \A i \in DOMAIN tiers : hours < tiers[i].hours_before
      <3>1. \A i \in DOMAIN tiers : tiers[i].hours_before \in Int
        BY TiersTyped
      <3>2. reached = {} /\ earned = {0}
        BY <2>1, <3>1
      <3>3. RefundPct(tiers, hours) = 0
        BY <3>2 DEF RefundPct
      <3>4. QED
        BY <3>2, <3>3
    <2>2. ASSUME NEW i \in DOMAIN tiers,
                 hours >= tiers[i].hours_before,
                 RefundPct(tiers, hours) = tiers[i].refund_pct,
                 \A j \in DOMAIN tiers : hours >= tiers[j].hours_before =>
                   tiers[i].hours_before >= tiers[j].hours_before
          PROVE  RefundPct(tiers, hours) \in earned /\ \A x \in earned : x <= RefundPct(tiers, hours)
      <3>1. \A j \in reached : tiers[j].refund_pct <= tiers[i].refund_pct
        BY <1>1, <2>2 DEF Fair
      <3>2. QED
        BY <1>1, <2>2, <3>1
    <2>3. QED
      BY <2>1, <2>2, TierChosen
  <1> HIDE DEF earned
  <1>6. Max(earned) \in Int /\ RefundPct(tiers, hours) \in Int
    BY <1>2, <1>3, <1>5
  <1>7. Max(earned) <= RefundPct(tiers, hours) /\ RefundPct(tiers, hours) <= Max(earned)
    BY <1>3, <1>5
  <1>8. RefundPct(tiers, hours) = Max(earned)
    BY <1>6, <1>7
  <1>9. RefundPct(tiers, hours) \in 0 .. 100
    BY <1>1, <1>5 DEF earned
  <1>10. QED
    BY <1>4, <1>8, <1>9

LEMMA RefundsTyped ==
  ASSUME TablesTyped, NEW price \in Nat, NEW hours \in Int
  PROVE  Refunds(policies, price, hours) \subseteq Int
  <1>1. \A p \in policies : RefundPct(p.tiers, hours) \in Int
    BY RefundPctType DEF TablesTyped, PolicyRow, Tiers, Tier
  <1>2. \A p \in policies : Percent(price, RefundPct(p.tiers, hours)) \in Int
    BY <1>1, PercentBounds
  <1>3. QED
    BY <1>2 DEF Refunds

-----------------------------------------------------------------------------
(* The steps of administrators and customers.                              *)

LEMMA ShapeOfRequest ==
  ASSUME NEW x \in Request \cup {Idle}
  PROVE  /\ x.pc = "resolve" => x \in Resolving
         /\ x.pc = "coupon" => x \in Resolved
         /\ x.pc = "pricing" => x \in Discounted
         /\ x.pc = "previewed" => x \in Previewed
         /\ x.pc = "booked" => x \in Booked
         /\ x # Idle => x \in Request /\ x.stale \in BOOLEAN
         /\ x = Idle => x.pc = "idle"
  BY DEF Request, Resolving, Resolved, Discounted, Previewed, Booked, Idle

LEMMA MadeStale ==
  ASSUME NEW x \in Request
  PROVE  /\ [x EXCEPT !.stale = TRUE] \in Request
         /\ [x EXCEPT !.stale = TRUE].stale
         /\ [x EXCEPT !.stale = TRUE].pc = x.pc
         /\ x.pc = "booked" => [x EXCEPT !.stale = TRUE].booking = x.booking
  <1>1. CASE x \in Resolving
    BY <1>1 DEF Request, Resolving
  <1>2. CASE x \in Resolved
    BY <1>2 DEF Request, Resolved
  <1>3. CASE x \in Discounted
    BY <1>3 DEF Request, Discounted
  <1>4. CASE x \in Previewed
    BY <1>4 DEF Request, Previewed
  <1>5. CASE x \in Booked
    BY <1>5 DEF Request, Booked
  <1>6. QED
    BY <1>1, <1>2, <1>3, <1>4, <1>5 DEF Request

(* After a change no checkout in flight counts on the tables.              *)
LEMMA OvertakenStep ==
  ASSUME Typed, Overtaken
  PROVE  /\ req' \in [Req -> Request \cup {Idle}]
         /\ \A r \in Req : req'[r] # Idle /\ req'[r].pc = "booked" =>
              bookings'[req'[r].booking] # Absent
         /\ KnowledgeHolds'
  <1>1. \A r \in Req : req'[r] = IF req[r] = Idle THEN Idle ELSE [req[r] EXCEPT !.stale = TRUE]
    BY DEF Overtaken
  <1>2. \A r \in Req : req[r] # Idle => req[r] \in Request
    BY DEF Typed
  <1>3. \A r \in Req : req'[r] \in Request \cup {Idle}
    BY <1>1, <1>2, MadeStale
  <1>4. req' \in [Req -> Request \cup {Idle}]
    BY <1>3 DEF Overtaken
  <1>5. ASSUME NEW r \in Req, req'[r] # Idle
        PROVE  /\ req'[r].stale
               /\ req'[r].pc = "booked" => bookings'[req'[r].booking] # Absent
    <2>1. req[r] \in Request /\ req[r] # Idle /\ req'[r] = [req[r] EXCEPT !.stale = TRUE]
      BY <1>1, <1>2, <1>5
    <2>2. QED
      BY <2>1, MadeStale DEF Overtaken, Typed
  <1>6. QED
    BY <1>4, <1>5 DEF KnowledgeHolds

LEMMA EditStep ==
  ASSUME Typed, Edit
  PROVE  Typed' /\ KnowledgeHolds'
  <1>1. Edited
    BY DEF Edit, CreateSlotRule, UpdateSlotRule, DeleteSlotRule, CreateOverride,
           DeleteOverride, CreatePricingRule, UpdatePricingRule, DeletePricingRule,
           ChangeCoupon, CreatePolicy
  <1>2. RuleRows \subseteq RuleRow /\ PricingRows \subseteq PricingRow
        /\ CouponRows \subseteq CouponRow /\ PolicyRows \subseteq PolicyRow
    BY TurfAssumption
  <1>3. TablesTyped /\ bookings' = bookings
    BY <1>1 DEF Typed, Edited, Overtaken
  <1>4. TablesTyped'
    <2>1. CASE CreateSlotRule
      BY <1>2, <1>3, <2>1 DEF CreateSlotRule, TablesTyped
    <2>2. CASE UpdateSlotRule
      BY <1>2, <1>3, <2>2 DEF UpdateSlotRule, TablesTyped
    <2>3. CASE DeleteSlotRule
      BY <1>3, <2>3 DEF DeleteSlotRule, TablesTyped
    <2>4. CASE CreateOverride \/ DeleteOverride
      BY <1>3, <2>4 DEF CreateOverride, DeleteOverride, TablesTyped
    <2>5. CASE CreatePricingRule
      BY <1>2, <1>3, <2>5 DEF CreatePricingRule, TablesTyped
    <2>6. CASE UpdatePricingRule
      BY <1>2, <1>3, <2>6 DEF UpdatePricingRule, TablesTyped
    <2>7. CASE DeletePricingRule
      BY <1>3, <2>7 DEF DeletePricingRule, TablesTyped
    <2>8. CASE ChangeCoupon
      BY <1>2, <1>3, <2>8 DEF ChangeCoupon, TablesTyped
    <2>9. CASE CreatePolicy
      BY <1>2, <1>3, <2>9 DEF CreatePolicy, TablesTyped
    <2>10. QED
      BY <2>1, <2>2, <2>3, <2>4, <2>5, <2>6, <2>7, <2>8, <2>9 DEF Edit
  <1>5. QED
    BY <1>1, <1>4, OvertakenStep DEF Typed, Edited

LEMMA MidnightStep ==
  ASSUME Typed, MidnightPasses
  PROVE  Typed' /\ KnowledgeHolds'
  <1>1. Overtaken /\ TablesTyped /\ coupon \in CouponRow
    BY DEF MidnightPasses, Typed, TablesTyped
  <1>2. coupon' \in CouponRow
    BY <1>1 DEF MidnightPasses, CouponRow, Validity
  <1>3. TablesTyped'
    BY <1>1, <1>2 DEF MidnightPasses, Overtaken, TablesTyped
  <1>4. QED
    BY <1>1, <1>3, OvertakenStep DEF Typed

(* A customer's step that writes no table but perhaps a free booking.      *)
LEMMA GotoStep ==
  ASSUME Typed, KnowledgeHolds, UNCHANGED tables,
         NEW r \in Req, NEW rec \in Request \cup {Idle}, Goto(r, rec), TablesTyped',
         \A b \in Booking : bookings[b] # Absent => bookings'[b] = bookings[b],
         rec # Idle /\ rec.pc = "booked" => bookings'[rec.booking] # Absent,
         rec # Idle /\ ~rec.stale =>
           /\ rec.pc \in {"coupon", "pricing"} => rec.base \in BasePrices(Rules, rec.range)
           /\ rec.pc = "pricing" => rec.discount = CouponDiscount(coupon, rec.base)
           /\ rec.quote # NULL => rec.quote \in PricesNow(rec.range)
           /\ rec.pc = "booked" =>
                bookings'[rec.booking].final_price \in PricesNow(rec.range)
  PROVE  Typed' /\ KnowledgeHolds'
  <1>1. req' = [req EXCEPT ![r] = rec] /\ req \in [Req -> Request \cup {Idle}]
    BY DEF Goto, Typed
  <1>2. req'[r] = rec /\ \A s \in Req : s # r => req'[s] = req[s]
    BY <1>1
  <1>3. \A s \in Req : req[s] # Idle /\ req[s].pc = "booked" => req[s].booking \in Booking
    BY <1>1, ShapeOfRequest DEF Booked
  <1>4. Typed'
    BY <1>1, <1>2, <1>3 DEF Typed
  <1>5. \A range : PricesNow(range)' = PricesNow(range)
        /\ BasePrices(Rules, range)' = BasePrices(Rules, range)
    BY DEF PricesNow, tables, Rules, PricingRules
  <1>6. coupon' = coupon
    BY DEF tables
  <1>7. ASSUME NEW s \in Req, req'[s] # Idle, ~req'[s].stale PROVE Knows(s)'
    <2>1. CASE s = r
      BY <1>2, <1>5, <1>6, <1>7, <2>1 DEF Knows
    <2>2. CASE s # r
      BY <1>2, <1>3, <1>5, <1>6, <1>7, <2>2 DEF Knows, KnowledgeHolds, Typed
    <2>3. QED
      BY <2>1, <2>2
  <1>8. QED
    BY <1>4, <1>7 DEF KnowledgeHolds

(* What a request knows, if no edit has overtaken it.                      *)
LEMMA UnfoldKnows ==
  ASSUME KnowledgeHolds, NEW r \in Req, req[r] # Idle, ~req[r].stale
  PROVE  Knows(r)
  BY DEF KnowledgeHolds

LEMMA CheckoutStep ==
  ASSUME Typed, KnowledgeHolds, NEW r \in Req, Customer(r)
  PROVE  Typed' /\ KnowledgeHolds'
  <1> USE DEF Typed
  <1>0. /\ req[r] \in Request \cup {Idle} /\ TablesTyped
        /\ NULL \notin Nat
    BY LastMinuteAssumption
  <1>1. CASE PreviewPrice(r)
    <2>1. PICK range \in Ranges : Goto(r, Checkout("preview", range, NULL, FALSE))
      BY <1>1 DEF PreviewPrice
    <2> DEFINE rec == Checkout("preview", range, NULL, FALSE)
    <2>2. rec \in Request /\ rec.pc = "resolve" /\ rec.quote = NULL
      BY DEF Checkout, Request, Resolving, Ops
    <2>3. TablesTyped' /\ bookings' = bookings /\ UNCHANGED tables
      BY <1>0, <1>1 DEF PreviewPrice, TablesTyped, tables
    <2> HIDE DEF rec
    <2>4. Goto(r, rec)
      BY <2>1 DEF rec
    <2>5. QED
      BY <2>2, <2>3, <2>4, GotoStep
  <1>2. CASE CreateBooking(r)
    <2>1. PICK range \in Ranges :
            \/ req[r] = Idle /\ Goto(r, Checkout("create", range, NULL, FALSE))
            \/ /\ req[r].pc = "previewed" /\ req[r].range = range
               /\ Goto(r, Checkout("create", range, req[r].quote, req[r].stale))
      BY <1>2 DEF CreateBooking
    <2>2. TablesTyped' /\ bookings' = bookings /\ UNCHANGED tables
      BY <1>0, <1>2 DEF CreateBooking, TablesTyped, tables
    <2>3. CASE req[r] = Idle /\ Goto(r, Checkout("create", range, NULL, FALSE))
      <3> DEFINE rec == Checkout("create", range, NULL, FALSE)
      <3>1. rec \in Request /\ rec.pc = "resolve" /\ rec.quote = NULL
        BY DEF Checkout, Request, Resolving, Ops
      <3> HIDE DEF rec
      <3>2. Goto(r, rec)
        BY <2>3 DEF rec
      <3>3. QED
        BY <2>2, <3>1, <3>2, GotoStep
    <2>4. CASE /\ req[r].pc = "previewed" /\ req[r].range = range
               /\ Goto(r, Checkout("create", range, req[r].quote, req[r].stale))
      <3> DEFINE rec == Checkout("create", range, req[r].quote, req[r].stale)
      <3>1. req[r] \in Previewed /\ req[r] # Idle
        BY <1>0, <2>4, ShapeOfRequest DEF Idle
      <3>2. /\ rec \in Request /\ rec.pc = "resolve" /\ rec.range = req[r].range
            /\ rec.quote = req[r].quote /\ rec.stale = req[r].stale
        BY <2>4, <3>1 DEF Checkout, Previewed, Request, Resolving, Ops
      <3>3. ~rec.stale => Knows(r)
        BY <3>1, <3>2, UnfoldKnows
      <3> HIDE DEF rec
      <3>4. Goto(r, rec)
        BY <2>4 DEF rec
      <3>5. QED
        BY <2>2, <3>2, <3>3, <3>4, GotoStep DEF Knows
    <2>5. QED
      BY <2>1, <2>3, <2>4
  <1>3. CASE ResolveBasePrice(r)
    <2>1. PICK base \in BasePrices(Rules, req[r].range) :
            Goto(r, [pc |-> "coupon", op |-> req[r].op, range |-> req[r].range,
                     quote |-> req[r].quote, stale |-> req[r].stale, base |-> base])
      BY <1>3 DEF ResolveBasePrice
    <2> DEFINE rec == [pc |-> "coupon", op |-> req[r].op, range |-> req[r].range,
                       quote |-> req[r].quote, stale |-> req[r].stale, base |-> base]
    <2>2. req[r] \in Resolving /\ req[r] # Idle
      BY <1>0, <1>3, ShapeOfRequest DEF ResolveBasePrice, Idle
    <2>3. base \in Int
      BY <1>0, <2>2, BasePricesTyped DEF Resolving
    <2>4. rec \in Request
      BY <2>2, <2>3 DEF Request, Resolving, Resolved
    <2>5. TablesTyped' /\ bookings' = bookings /\ UNCHANGED tables
      BY <1>0, <1>3 DEF ResolveBasePrice, TablesTyped, tables
    <2>6. ~rec.stale => Knows(r)
      BY <2>2, UnfoldKnows
    <2>7. QED
      BY <2>1, <2>4, <2>5, <2>6, GotoStep DEF Knows
  <1>4. CASE ApplyCoupon(r)
    <2> DEFINE rec == [pc |-> "pricing", op |-> req[r].op, range |-> req[r].range,
                       quote |-> req[r].quote, stale |-> req[r].stale, base |-> req[r].base,
                       discount |-> CouponDiscount(coupon, req[r].base)]
    <2>1. req[r] \in Resolved /\ req[r] # Idle
      BY <1>0, <1>4, ShapeOfRequest DEF ApplyCoupon, Idle
    <2>2. CouponDiscount(coupon, req[r].base) \in Int
      BY <1>0, <2>1, DiscountType DEF Resolved, TablesTyped
    <2>3. rec \in Request
      BY <2>1, <2>2 DEF Request, Resolved, Discounted
    <2>4. TablesTyped' /\ bookings' = bookings /\ UNCHANGED tables /\ Goto(r, rec)
      BY <1>0, <1>4 DEF ApplyCoupon, TablesTyped, tables
    <2>5. ~rec.stale => Knows(r) /\ req[r].pc = "coupon"
      BY <2>1, UnfoldKnows DEF Resolved
    <2>6. QED
      BY <2>3, <2>4, <2>5, GotoStep DEF Knows
  <1>5. ASSUME ShowQuote(r) \/ InsertBooking(r),
               NEW total \in ComputedTotals(r)
        PROVE  total \in Nat /\ (~req[r].stale => total \in PricesNow(req[r].range))
    <2>1. req[r] \in Discounted /\ req[r] # Idle /\ req[r].pc = "pricing"
      BY <1>0, <1>5, ShapeOfRequest DEF ShowQuote, InsertBooking, Idle
    <2>2. total \in Nat
      BY <1>0, <1>5, <2>1, TotalsTyped DEF ComputedTotals, Discounted
    <2>3. ~req[r].stale => total \in PricesNow(req[r].range)
      BY <1>5, <2>1, UnfoldKnows DEF Knows, ComputedTotals, PricesNow
    <2>4. QED
      BY <2>2, <2>3
  <1>6. CASE ShowQuote(r)
    <2>1. PICK total \in ComputedTotals(r) :
            Goto(r, [pc |-> "previewed", range |-> req[r].range, quote |-> total,
                     stale |-> req[r].stale])
      BY <1>6 DEF ShowQuote
    <2> DEFINE rec == [pc |-> "previewed", range |-> req[r].range, quote |-> total,
                       stale |-> req[r].stale]
    <2>2. req[r] \in Discounted
      BY <1>0, <1>6, ShapeOfRequest DEF ShowQuote
    <2>3. total \in Nat /\ (~req[r].stale => total \in PricesNow(req[r].range))
      BY <1>5, <1>6
    <2>4. rec \in Request
      BY <2>2, <2>3 DEF Request, Discounted, Previewed
    <2>5. TablesTyped' /\ bookings' = bookings /\ UNCHANGED tables
      BY <1>0, <1>6 DEF ShowQuote, TablesTyped, tables
    <2>6. QED
      BY <2>1, <2>3, <2>4, <2>5, GotoStep
  <1>7. CASE InsertBooking(r)
    <2>1. PICK b \in Booking, total \in ComputedTotals(r) :
            /\ bookings[b] = Absent
            /\ bookings' = [bookings EXCEPT ![b] =
                 [start |-> req[r].range.start, end |-> req[r].range.end, live |-> TRUE,
                  final_price |-> total, refund_amount |-> NULL]]
            /\ Goto(r, [pc |-> "booked", range |-> req[r].range, quote |-> req[r].quote,
                        stale |-> req[r].stale, booking |-> b])
      BY <1>7 DEF InsertBooking
    <2> DEFINE row == [start |-> req[r].range.start, end |-> req[r].range.end, live |-> TRUE,
                       final_price |-> total, refund_amount |-> NULL]
               rec == [pc |-> "booked", range |-> req[r].range, quote |-> req[r].quote,
                       stale |-> req[r].stale, booking |-> b]
    <2>2. req[r] \in Discounted /\ req[r] # Idle
      BY <1>0, <1>7, ShapeOfRequest DEF InsertBooking, Idle
    <2>3. total \in Nat /\ (~req[r].stale => total \in PricesNow(req[r].range))
      BY <1>5, <1>7
    <2>4. rec \in Request
      BY <2>2 DEF Request, Discounted, Booked
    <2>5. row \in BookingRow /\ row # Absent
      BY <2>2, <2>3, TurfAssumption DEF BookingRow, Discounted, Absent
    <2>6. /\ bookings'[b] = row
          /\ \A c \in Booking : c # b => bookings'[c] = bookings[c]
          /\ bookings' \in [Booking -> BookingRow \cup {Absent}]
      BY <1>0, <2>1, <2>5 DEF TablesTyped
    <2>7. TablesTyped' /\ UNCHANGED tables
      BY <1>0, <1>7, <2>6 DEF InsertBooking, TablesTyped, tables
    <2>8. ~rec.stale => Knows(r)
      BY <2>2, UnfoldKnows
    <2>9. \A c \in Booking : bookings[c] # Absent => bookings'[c] = bookings[c]
      BY <2>1, <2>6
    <2>10. bookings'[rec.booking] = row
      BY <2>6
    <2>11. ~rec.stale => /\ rec.quote # NULL => rec.quote \in PricesNow(rec.range)
                         /\ bookings'[rec.booking].final_price \in PricesNow(rec.range)
      BY <2>2, <2>3, <2>8, <2>10 DEF Knows
    <2>12. rec.pc = "booked" /\ Goto(r, rec)
      BY <2>1
    <2> HIDE DEF rec, row
    <2>13. QED
      BY <2>4, <2>5, <2>7, <2>9, <2>10, <2>11, <2>12, GotoStep
  <1>8. CASE Leave(r)
    <2>1. TablesTyped' /\ bookings' = bookings /\ UNCHANGED tables /\ Goto(r, Idle)
      BY <1>0, <1>8 DEF Leave, TablesTyped, tables
    <2>2. QED
      BY <2>1, GotoStep
  <1>9. QED
    BY <1>1, <1>2, <1>3, <1>4, <1>6, <1>7, <1>8 DEF Customer

LEMMA CancelStep ==
  ASSUME Typed, KnowledgeHolds, CancelBooking
  PROVE  Typed' /\ KnowledgeHolds'
  <1>1. PICK b \in Booking, hours \in Hours :
          /\ bookings[b] # Absent
          /\ \E refund \in Refunds(policies, bookings[b].final_price, hours) :
               bookings' = [bookings EXCEPT ![b].live = FALSE, ![b].refund_amount = refund]
    BY DEF CancelBooking
  <1>2. PICK refund \in Refunds(policies, bookings[b].final_price, hours) :
          bookings' = [bookings EXCEPT ![b].live = FALSE, ![b].refund_amount = refund]
    BY <1>1
  <1>3. TablesTyped /\ bookings[b] \in BookingRow /\ hours \in Int
    BY <1>1, TurfAssumption DEF Typed, TablesTyped
  <1>4. refund \in Int
    BY <1>3, RefundsTyped DEF BookingRow
  <1>5. /\ bookings'[b] = [bookings[b] EXCEPT !.live = FALSE, !.refund_amount = refund]
        /\ \A c \in Booking : c # b => bookings'[c] = bookings[c]
        /\ DOMAIN bookings' = Booking /\ bookings' = [c \in Booking |-> bookings'[c]]
    BY <1>2, <1>3 DEF TablesTyped
  <1>6. bookings'[b] \in BookingRow /\ bookings'[b].final_price = bookings[b].final_price
        /\ bookings'[b] # Absent
    BY <1>3, <1>4, <1>5 DEF BookingRow, Absent
  <1>7. UNCHANGED tables /\ req' = req
    BY DEF CancelBooking
  <1>8. TablesTyped'
    BY <1>3, <1>5, <1>6, <1>7 DEF TablesTyped, tables
  <1>9. \A s \in Req : req[s] # Idle /\ req[s].pc = "booked" => req[s].booking \in Booking
    BY ShapeOfRequest DEF Booked, Typed
  <1>10. \A c \in Booking : bookings[c] # Absent =>
           bookings'[c] # Absent /\ bookings'[c].final_price = bookings[c].final_price
    BY <1>5, <1>6
  <1>11. Typed'
    BY <1>7, <1>8, <1>9, <1>10 DEF Typed
  <1>12. \A range : PricesNow(range)' = PricesNow(range)
         /\ BasePrices(Rules, range)' = BasePrices(Rules, range)
    BY <1>7 DEF PricesNow, tables, Rules, PricingRules
  <1>13. ASSUME NEW s \in Req, req'[s] # Idle, ~req'[s].stale PROVE Knows(s)'
    <2>1. Knows(s) /\ req'[s] = req[s] /\ coupon' = coupon
      BY <1>7, <1>13, UnfoldKnows DEF tables
    <2>2. req[s].pc = "booked" =>
            bookings'[req[s].booking].final_price = bookings[req[s].booking].final_price
      BY <1>7, <1>9, <1>10, <1>13 DEF Typed
    <2>3. QED
      BY <1>12, <2>1, <2>2 DEF Knows
  <1>14. QED
    BY <1>11, <1>13 DEF KnowledgeHolds

(***************************************************************************)
(* Tables and requests keep their types, and what a checkout knows stays   *)
(* true of the tables until somebody edits them.                           *)
(***************************************************************************)
THEOREM TurfInvariant == Spec => []IInv
  <1>1. Init => IInv
    <2> SUFFICES ASSUME Init PROVE Typed /\ KnowledgeHolds
      BY DEF IInv
    <2>1. \A r \in Req : req[r] = Idle
      BY DEF Init
    <2>2. Typed
      BY <2>1 DEF Init, Typed, TablesTyped
    <2>3. QED
      BY <2>1, <2>2 DEF KnowledgeHolds
  <1>2. IInv /\ [Next]_vars => IInv'
    <2> SUFFICES ASSUME Typed, KnowledgeHolds, [Next]_vars PROVE Typed' /\ KnowledgeHolds'
      BY DEF IInv
    <2>1. CASE Edit
      BY <2>1, EditStep
    <2>2. CASE CancelBooking
      BY <2>2, CancelStep
    <2>6. CASE MidnightPasses
      BY <2>6, MidnightStep
    <2>3. ASSUME NEW r \in Req, Customer(r) PROVE Typed' /\ KnowledgeHolds'
      BY <2>3, CheckoutStep
    <2>4. CASE UNCHANGED vars
      <3>1. Typed'
        BY <2>4 DEF vars, tables, Typed, TablesTyped
      <3>2. \A range : PricesNow(range)' = PricesNow(range)
            /\ BasePrices(Rules, range)' = BasePrices(Rules, range)
        BY <2>4 DEF vars, tables, PricesNow, Rules, PricingRules
      <3>3. KnowledgeHolds'
        BY <2>4, <3>2 DEF vars, tables, KnowledgeHolds, Knows
      <3>4. QED
        BY <3>1, <3>3
    <2>5. QED
      BY <2>1, <2>2, <2>3, <2>4, <2>6 DEF Next
  <1>3. QED
    BY <1>1, <1>2, PTL DEF Spec

(***************************************************************************)
(* The price that was previewed is the price of the booking, if no edit    *)
(* and no end of the coupon's validity came in between and the tables      *)
(* determine it.                                                           *)
(***************************************************************************)
THEOREM QuotesAreKept == Spec => []QuoteIsKept
  <1>1. IInv => QuoteIsKept
    <2> SUFFICES ASSUME IInv, NEW r \in Req,
                        req[r] # Idle, req[r].pc = "booked", req[r].quote # NULL,
                        ~req[r].stale,
                        Unique(BasePrices(Rules, req[r].range)),
                        Unique(Orders(PricingRules, req[r].range))
                 PROVE  bookings[req[r].booking].final_price = req[r].quote
      BY DEF QuoteIsKept
    <2>1. req[r] \in Booked
      BY ShapeOfRequest DEF IInv, Typed, Booked
    <2>2. /\ req[r].quote \in PricesNow(req[r].range)
          /\ bookings[req[r].booking].final_price \in PricesNow(req[r].range)
      BY <2>1, UnfoldKnows DEF IInv, Knows
    <2>3. \A x, y \in PricesNow(req[r].range) : x = y
      BY DEF PricesNow, Totals, Unique
    <2>4. QED
      BY <2>2, <2>3
  <1>2. QED
    BY <1>1, TurfInvariant, PTL

(***************************************************************************)
(* For any policy whose tiers are fair, in whatever order it lists them, a *)
(* cancellation earns the best of the percentages whose notice was kept,   *)
(* and no more than the price.                                             *)
(***************************************************************************)
THEOREM RefundsAreTheBest == Spec => []RefundIsTheBestReached
  <1>1. IInv => RefundIsTheBestReached
    <2> SUFFICES ASSUME IInv, NEW policy \in policies, NEW hours \in Hours, Fair(policy.tiers),
                        NEW b \in Booking, bookings[b] # Absent
                 PROVE  LET price == bookings[b].final_price
                            refund == Percent(price, RefundPct(policy.tiers, hours))
                        IN  /\ refund = Percent(price, BestReached(policy.tiers, hours))
                            /\ refund <= price
      BY DEF RefundIsTheBestReached
    <2>1. policy.tiers \in Tiers /\ hours \in Int /\ bookings[b].final_price \in Nat
      BY TurfAssumption DEF IInv, Typed, TablesTyped, PolicyRow, BookingRow, Tiers, Tier
    <2>2. /\ RefundPct(policy.tiers, hours) = BestReached(policy.tiers, hours)
          /\ RefundPct(policy.tiers, hours) \in 0 .. 100
      BY <2>1, ChosenIsBest
    <2>3. Percent(bookings[b].final_price, RefundPct(policy.tiers, hours))
            <= bookings[b].final_price
      <3>1. bookings[b].final_price \in Int /\ bookings[b].final_price >= 0
            /\ RefundPct(policy.tiers, hours) \in Int
        BY <2>1, <2>2
      <3>2. QED
        BY <2>2, <3>1, PercentBounds
    <2>4. QED
      BY <2>2, <2>3
  <1>2. QED
    BY <1>1, TurfInvariant, PTL

-----------------------------------------------------------------------------
(* Slots.                                                                  *)

LEMMA Division ==
  ASSUME NEW a \in Nat, NEW d \in Nat \ {0}
  PROVE  a \div d \in Nat /\ a = d * (a \div d) + (a % d)
  OBVIOUS

LEMMA Quotient ==
  ASSUME NEW q \in Int, NEW r \in Nat, NEW d \in Nat \ {0}, r < d
  PROVE  (d * q + r) \div d = q
  OBVIOUS

LEMMA FactorCancels ==
  ASSUME NEW k \in Nat, NEW m \in Nat, NEW d \in Nat \ {0}, d * k = d * m
  PROVE  k = m
  OBVIOUS

(* The slots of a rule are an arithmetic progression: the cursor's steps   *)
(* from the start of the rule, the last of them perhaps cut short.         *)
StartOf(rule, k) == rule.start + rule.duration * k

SlotAt(rule, k) == [start |-> StartOf(rule, k),
                    end |-> AddMinutes(StartOf(rule, k), rule.duration)]

LEMMA SlotAtStep ==
  ASSUME NEW rule \in RuleRow, NEW slot \in SlotsOf(rule)
  PROVE  \E k \in Nat : /\ slot = SlotAt(rule, k)
                        /\ StartOf(rule, k) < rule.end /\ slot.end <= rule.end
  <1>1. PICK c \in rule.start .. rule.end - 1 :
          /\ slot = [start |-> c, end |-> AddMinutes(c, rule.duration)]
          /\ (c - rule.start) % rule.duration = 0
          /\ AddMinutes(c, rule.duration) <= rule.end
    BY DEF SlotsOf
  <1>2. rule.start \in Int /\ rule.end \in Int /\ rule.duration \in Nat \ {0}
    BY LastMinuteAssumption DEF RuleRow, TimeOfDay
  <1>3. c \in Int /\ c - rule.start >= 0
    BY <1>2
  <1> DEFINE k == (c - rule.start) \div rule.duration
  <1>4. k \in Nat /\ c - rule.start = rule.duration * k
    <2>1. c - rule.start \in Nat
      BY <1>2, <1>3
    <2>2. k \in Nat /\ c - rule.start = rule.duration * k + ((c - rule.start) % rule.duration)
      BY <1>2, <2>1, Division
    <2>3. QED
      BY <1>1, <1>2, <2>2
  <1> HIDE DEF k
  <1>5. StartOf(rule, k) = c
    BY <1>2, <1>3, <1>4 DEF StartOf
  <1>6. QED
    BY <1>1, <1>2, <1>4, <1>5 DEF SlotAt

(* Where a slot starts and ends, as numbers.                               *)
LEMMA SlotFacts ==
  ASSUME NEW rule \in RuleRow, NEW k \in Nat, StartOf(rule, k) < rule.end
  PROVE  LET slot == SlotAt(rule, k)
         IN  /\ slot.start \in Int /\ slot.end \in Int
             /\ slot.start = rule.start + rule.duration * k
             /\ rule.start <= slot.start /\ slot.start < slot.end
             /\ slot.end - slot.start <= rule.duration
             /\ slot.end = IF slot.start + rule.duration > LastMinute THEN LastMinute
                           ELSE slot.start + rule.duration
  <1>1. rule.start \in Int /\ rule.end \in Int /\ rule.duration \in Nat \ {0}
        /\ rule.end <= LastMinute /\ LastMinute \in Nat
    BY LastMinuteAssumption DEF RuleRow, TimeOfDay
  <1> DEFINE c == StartOf(rule, k)
  <1>2. c \in Int /\ c = rule.start + rule.duration * k /\ rule.start <= c /\ c < LastMinute
    BY <1>1 DEF StartOf
  <1>3. SlotAt(rule, k).start = c /\ SlotAt(rule, k).end = AddMinutes(c, rule.duration)
    BY DEF SlotAt
  <1> HIDE DEF c
  <1>4. QED
    BY <1>1, <1>2, <1>3 DEF AddMinutes

(* One slot costs the price of its rule, cut short or not.                 *)
LEMMA SlotCostsItsPrice ==
  ASSUME NEW rule \in RuleRow, NEW slot \in SlotsOf(rule)
  PROVE  RulePrice(rule, slot) = rule.price /\ Within(slot, rule)
  <1>1. PICK k \in Nat : /\ slot = SlotAt(rule, k)
                         /\ StartOf(rule, k) < rule.end /\ slot.end <= rule.end
    BY SlotAtStep
  <1> DEFINE n == slot.end - slot.start
  <1>2. n \in Int /\ 0 < n /\ n <= rule.duration /\ rule.start <= slot.start
    BY <1>1, SlotFacts
  <1>3. rule.duration \in Nat \ {0} /\ rule.price \in Int
    BY DEF RuleRow
  <1> HIDE DEF n
  <1>4. n \div rule.duration \in {0, 1}
    BY <1>2, <1>3
  <1>5. Greatest(rule.duration, 1) = rule.duration
    BY <1>3 DEF Greatest
  <1>6. Greatest(1, n \div rule.duration) = 1
    BY <1>4 DEF Greatest
  <1>7. RulePrice(rule, slot) = rule.price
    BY <1>3, <1>5, <1>6 DEF RulePrice, n
  <1>8. QED
    BY <1>1, <1>2, <1>7 DEF Within

LEMMA TakenIsFinite == IsFiniteSet(Taken)
  <1> DEFINE live == {b \in Booking : bookings[b] # Absent /\ bookings[b].live}
             row == [b \in live |-> bookings[b]]
  <1>1. IsFiniteSet(live)
    BY TurfAssumption, FS_Subset
  <1>2. row \in Surjection(live, Taken)
    BY Fun_IsSurj DEF Taken
  <1> HIDE DEF live, row
  <1>3. QED
    BY <1>1, <1>2, FS_Surjection

(***************************************************************************)
(* A slot that is offered for one booking at a time can be booked, and     *)
(* unless an override repriced it the price shown is one that the booking  *)
(* may be charged: the only one, if the active rules agree.                *)
(***************************************************************************)
THEOREM OffersAreBookable == Spec => []OfferedIsBookable
  <1>1. IInv => OfferedIsBookable
    <2> SUFFICES ASSUME IInv, NEW offer \in Offers(Rules, overrides, Taken),
                        offer.available, offer.rule.capacity <= 1
                 PROVE  /\ \A t \in Taken : ~Overlaps(t, offer.slot)
                        /\ Repriced(offer.slot, overrides) = {} =>
                             /\ offer.prices \subseteq BasePrices(Rules, offer.slot)
                             /\ Unique(BasePrices(Rules, offer.slot)) =>
                                  BasePrices(Rules, offer.slot) = offer.prices
      BY DEF OfferedIsBookable
    <2>0. PICK rule \in Rules :
            /\ rule.active
            /\ \E slot \in SlotsOf(rule) :
                 offer = [rule |-> rule, slot |-> slot,
                          prices |-> ShownPrices(rule, slot, overrides),
                          available |-> StillAvailable(rule, slot, Taken)]
      BY DEF Offers, InForce
    <2>1. PICK slot \in SlotsOf(rule) :
            /\ rule.active
            /\ offer = [rule |-> rule, slot |-> slot,
                        prices |-> ShownPrices(rule, slot, overrides),
                        available |-> StillAvailable(rule, slot, Taken)]
      BY <2>0
    <2>2. rule \in RuleRow /\ rule.capacity \in Int
      BY RulesTyped DEF IInv, Typed, RuleRow
    <2>3. \A t \in Taken : ~Overlaps(t, offer.slot)
      <3> DEFINE hit == {t \in Taken : Overlaps(t, slot)}
      <3>1. IsFiniteSet(hit) /\ Cardinality(hit) \in Nat
        BY TakenIsFinite, FS_Subset, FS_CardinalityType
      <3>2. StillAvailable(rule, slot, Taken) /\ rule.capacity <= 1
        BY <2>1
      <3>3. Cardinality(hit) = 0
        BY <2>2, <3>1, <3>2 DEF StillAvailable
      <3>4. hit = {}
        BY <3>1, <3>3, FS_EmptySet
      <3>5. QED
        BY <2>1, <3>4
    <2>4. ASSUME Repriced(offer.slot, overrides) = {}
          PROVE  /\ offer.prices \subseteq BasePrices(Rules, offer.slot)
                 /\ Unique(BasePrices(Rules, offer.slot)) =>
                      BasePrices(Rules, offer.slot) = offer.prices
      <3>1. offer.prices = {rule.price}
        BY <2>1, <2>4 DEF ShownPrices
      <3>2. rule.price = RulePrice(rule, slot) /\ Within(slot, rule)
        BY <2>2, SlotCostsItsPrice
      <3>3. rule.price \in BasePrices(Rules, slot)
        BY <2>1, <3>2 DEF BasePrices
      <3>4. QED
        BY <2>1, <3>1, <3>3 DEF Unique
    <2>5. QED
      BY <2>3, <2>4
  <1>2. QED
    BY <1>1, TurfInvariant, PTL

(* The slots of a rule within a run of them, from step i to step j.        *)
LEMMA SlotsOfRun ==
  ASSUME NEW rule \in RuleRow, NEW i \in Nat, NEW j \in Nat, i <= j,
         SlotAt(rule, i) \in SlotsOf(rule), SlotAt(rule, j) \in SlotsOf(rule),
         StartOf(rule, j) < rule.end
  PROVE  Cardinality({s \in SlotsOf(rule) :
                        Within(s, [start |-> SlotAt(rule, i).start,
                                   end |-> SlotAt(rule, j).end])}) = j - i + 1
  <1> DEFINE run == [start |-> SlotAt(rule, i).start, end |-> SlotAt(rule, j).end]
             slots == {s \in SlotsOf(rule) : Within(s, run)}
  <1>1. rule.start \in Int /\ rule.end \in Int /\ rule.duration \in Nat \ {0}
        /\ rule.end <= LastMinute /\ LastMinute \in Nat
    BY LastMinuteAssumption DEF RuleRow, TimeOfDay
  <1>2. \A k, m \in Nat : k <= m => StartOf(rule, k) <= StartOf(rule, m)
    BY <1>1 DEF StartOf
  <1>3. ASSUME NEW k \in Nat, NEW m \in Nat, StartOf(rule, k) = StartOf(rule, m) PROVE k = m
    <2> DEFINE x == rule.duration * k
               y == rule.duration * m
    <2>1. x \in Int /\ y \in Int
      BY <1>1
    <2>2. rule.start + x = rule.start + y
      BY <1>3 DEF StartOf
    <2> HIDE DEF x, y
    <2>3. x = y
      BY <1>1, <2>1, <2>2
    <2>4. QED
      BY <1>1, <2>3, FactorCancels DEF x, y
  <1>4. \A k, m \in Nat : m < k => StartOf(rule, m) + rule.duration <= StartOf(rule, k)
    BY <1>1 DEF StartOf
  <1>5. \A k \in Nat : StartOf(rule, k) \in Int
    BY <1>1 DEF StartOf
  <1>6. SlotAt(rule, j).end <= rule.end
    BY <1>1, <1>5 DEF SlotsOf, SlotAt
  <1>7. ASSUME NEW k \in i .. j PROVE SlotAt(rule, k) \in slots
    <2>1. k \in Nat /\ StartOf(rule, i) <= StartOf(rule, k) /\ StartOf(rule, k) <= StartOf(rule, j)
      BY <1>2
    <2>2. SlotAt(rule, k).start = StartOf(rule, k) /\ SlotAt(rule, i).start = StartOf(rule, i)
      BY DEF SlotAt
    <2>3. SlotAt(rule, k).end <= SlotAt(rule, j).end
      BY <1>1, <1>5, <2>1 DEF SlotAt, AddMinutes
    <2>4. rule.start <= StartOf(rule, k) /\ (StartOf(rule, k) - rule.start) % rule.duration = 0
      BY <1>1, <2>1 DEF StartOf
    <2>5. StartOf(rule, k) \in rule.start .. rule.end - 1
      BY <1>1, <1>5, <2>1, <2>4
    <2>6. SlotAt(rule, k).end <= rule.end /\ SlotAt(rule, k).end = AddMinutes(StartOf(rule, k), rule.duration)
      BY <1>1, <1>5, <1>6, <2>1, <2>3 DEF SlotAt, AddMinutes
    <2>7. SlotAt(rule, k) \in SlotsOf(rule)
      BY <2>4, <2>5, <2>6 DEF SlotsOf, SlotAt
    <2>8. QED
      BY <2>1, <2>2, <2>3, <2>7 DEF Within
  <1>8. ASSUME NEW s \in slots PROVE \E k \in i .. j : s = SlotAt(rule, k)
    <2>1. PICK k \in Nat : s = SlotAt(rule, k) /\ StartOf(rule, k) < rule.end
      BY SlotAtStep
    <2>2. StartOf(rule, k) >= StartOf(rule, i) /\ s.end <= SlotAt(rule, j).end
      BY <2>1 DEF Within, SlotAt
    <2>3. ~(k < i)
      BY <1>1, <1>4, <1>5, <2>2
    <2>4. SlotAt(rule, j).end <= StartOf(rule, j) + rule.duration
      BY <1>1, <1>5, SlotFacts DEF SlotAt
    <2>5. StartOf(rule, k) < s.end
      BY <2>1, SlotFacts DEF SlotAt
    <2>6. SlotAt(rule, j).end \in Int /\ s.end \in Int
      BY <2>1, SlotFacts
    <2>7. ~(j < k)
      BY <1>1, <1>4, <1>5, <2>2, <2>4, <2>5, <2>6
    <2>8. QED
      BY <2>1, <2>3, <2>7
  <1> DEFINE at == [k \in i .. j |-> SlotAt(rule, k)]
  <1>9. at \in Bijection(i .. j, slots)
    <2>1. at \in [i .. j -> slots]
      BY <1>7
    <2>2. \A k, m \in i .. j : at[k] = at[m] => k = m
      BY <1>3 DEF SlotAt
    <2>3. \A s \in slots : \E k \in i .. j : at[k] = s
      BY <1>8
    <2> HIDE DEF at, slots
    <2>4. QED
      BY <2>1, <2>2, <2>3, Fun_IsBij
  <1>10. IsFiniteSet(i .. j) /\ Cardinality(i .. j) = j - i + 1
    BY FS_Interval
  <1> HIDE DEF at, slots
  <1>11. Cardinality(slots) = j - i + 1
    BY <1>9, <1>10, FS_Bijection DEF ExistsBijection
  <1>12. QED
    BY <1>11 DEF slots

(***************************************************************************)
(* A run of slots of a rule costs what its slots cost, for any rule; only  *)
(* a slot cut short at the end of the day is free behind others.           *)
(***************************************************************************)
THEOREM RunsCostTheirSlots == Spec => []RunCostsItsSlots
  <1>1. IInv => RunCostsItsSlots
    <2> SUFFICES ASSUME IInv, NEW rule \in Rules,
                        NEW first \in SlotsOf(rule), NEW last \in SlotsOf(rule),
                        first.start <= last.start
                 PROVE  LET run == [start |-> first.start, end |-> last.end]
                            slots == Cardinality({s \in SlotsOf(rule) : Within(s, run)})
                            free == IF slots > 1 /\ CutShort(rule, last) THEN 1 ELSE 0
                        IN  RulePrice(rule, run) = rule.price * (slots - free)
      BY DEF RunCostsItsSlots
    <2>1. /\ rule \in RuleRow
          /\ rule.start \in Int /\ rule.end \in Int /\ rule.duration \in Nat \ {0}
          /\ rule.price \in Int
      BY RulesTyped, LastMinuteAssumption DEF IInv, Typed, RuleRow, TimeOfDay
    <2>2. PICK i \in Nat : first = SlotAt(rule, i) /\ StartOf(rule, i) < rule.end
      BY <2>1, SlotAtStep
    <2>3. PICK j \in Nat : last = SlotAt(rule, j) /\ StartOf(rule, j) < rule.end
      BY <2>1, SlotAtStep
    <2>4. /\ first.start = rule.start + rule.duration * i
          /\ first.start \in Int /\ first.end \in Int
      BY <2>1, <2>2, SlotFacts
    <2>5. /\ last.start = rule.start + rule.duration * j
          /\ last.start \in Int /\ last.end \in Int
          /\ last.start < last.end /\ last.end - last.start <= rule.duration
      BY <2>1, <2>3, SlotFacts
    <2>6. i <= j
      BY <2>1, <2>4, <2>5
    <2> DEFINE run == [start |-> first.start, end |-> last.end]
               slots == Cardinality({s \in SlotsOf(rule) : Within(s, run)})
               n == last.end - first.start
    <2>7. slots = j - i + 1
      BY <2>1, <2>2, <2>3, <2>6, SlotsOfRun
    <2>8. RulePrice(rule, run) = rule.price * Greatest(1, n \div rule.duration)
      BY <2>1 DEF RulePrice, Greatest
    <2>9. n = rule.duration * (j - i) + (last.end - last.start)
      BY <2>1, <2>4, <2>5
    <2> HIDE DEF slots, run, n
    <2>10. CASE CutShort(rule, last)
      <3>1. last.end - last.start < rule.duration
        BY <2>10 DEF CutShort
      <3>2. n \div rule.duration = j - i
        <4>1. last.end - last.start \in Nat /\ j - i \in Int
          BY <2>5
        <4>2. QED
          BY <2>1, <2>9, <3>1, <4>1, Quotient
      <3>3. Greatest(1, n \div rule.duration) = slots - (IF slots > 1 THEN 1 ELSE 0)
        BY <2>6, <2>7, <3>2 DEF Greatest
      <3>4. QED
        BY <2>8, <2>10, <3>3 DEF slots, run
    <2>11. CASE ~CutShort(rule, last)
      <3>1. last.end - last.start = rule.duration
        BY <2>1, <2>5, <2>11 DEF CutShort
      <3>2. n = rule.duration * (j - i + 1)
        BY <2>1, <2>6, <2>9, <3>1
      <3>3. n \div rule.duration = j - i + 1
        BY <2>1, <2>6, <3>2
      <3>4. Greatest(1, n \div rule.duration) = slots - 0
        BY <2>6, <2>7, <3>3 DEF Greatest
      <3>5. QED
        BY <2>8, <2>11, <3>4 DEF slots, run
    <2>12. QED
      BY <2>10, <2>11
  <1>2. QED
    BY <1>1, TurfInvariant, PTL

=============================================================================
