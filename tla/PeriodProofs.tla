---------------------------- MODULE PeriodProofs ----------------------------
(***************************************************************************)
(* What holds of Period for every household, every sequence of intervals    *)
(* and every granularity: the types and the lot basis, then the funding     *)
(* waterfall, the tax accounts over the years, and double entry.  For the   *)
(* last, every posting of every phase moves the two sides of the books by   *)
(* the same amount.  The sides are sums over the holdings, so the proof     *)
(* first shows what such a total does when one balance, or every balance,   *)
(* moves; the sweep needs more: the portions, each the rise of a rounded    *)
(* target over its holding's band, add up to the surplus because the bands  *)
(* tile the whole.  Last, the annual limits of Contributions.               *)
(***************************************************************************)
EXTENDS Period, Contributions, MoneyProofs
-----------------------------------------------------------------------------
(* The operators of Money and Books: what the rounding rules bound, and what each *)
(* posting preserves.                                                             *)

\* A share of a holding's cost is at most the cost.
LEMMA ShareOfCost ==
    ASSUME NEW c \in Nat, NEW m \in Nat \ {0}, NEW p \in 0 .. m
    PROVE  Quantize(c * p, m) \in 0 .. c
BY DEF Quantize

LEMMA ElementOfSeq ==
    ASSUME NEW S, NEW s \in Seq(S), NEW k \in Nat \ {0}, k <= Len(s)
    PROVE  s[k] \in S
OBVIOUS

LEMMA ChangeOnType ==
    ASSUME NEW r \in [num : Int, den : Nat \ {0}], NEW a \in Int
    PROVE  ChangeOn(r, a) \in Int
BY QuantizeType DEF ChangeOn

\* A rate not below -1 does not take more than the whole.
LEMMA ChangeOnBounded ==
    ASSUME NEW r \in [num : Int, den : Nat \ {0}], r.num >= -r.den, NEW a \in Nat
    PROVE  a + ChangeOn(r, a) >= 0
<1>1. r.num * a >= -(r.den * a)
  OBVIOUS
<1>2. CASE r.num * a >= 0
  BY <1>2 DEF ChangeOn, Quantize
<1>3. CASE r.num * a < 0
  <2> DEFINE n == -(r.num * a)
  <2>1. n \in Nat /\ n <= r.den * a
    BY <1>1, <1>3
  <2>2. (2 * n + r.den) \div (2 * r.den) <= a
    BY <2>1
  <2> QED BY <1>3, <2>2 DEF ChangeOn, Quantize
<1> QED BY <1>2, <1>3
-----------------------------------------------------------------------------
LEMMA ReceiveType ==
    ASSUME NEW b \in BooksOfAccount, NEW x \in Holdings \cup {Cash}, NEW a \in Int
    PROVE  Receive(b, x, a) \in BooksOfAccount
BY DEF Receive, BooksOfAccount

LEMMA TransferType ==
    ASSUME NEW b \in BooksOfAccount, NEW x \in Holdings \cup {Cash},
           NEW y \in Holdings \cup {Cash}, NEW a \in Int
    PROVE  Transfer(b, x, y, a) \in BooksOfAccount
<1> DEFINE b1 == Receive(b, x, -a)
<1>1. b1 \in BooksOfAccount
  BY -a \in Int, ReceiveType
<1> HIDE DEF b1
<1>2. Receive(b1, y, a) \in BooksOfAccount
  BY <1>1, ReceiveType
<1> QED BY <1>2 DEF b1, Transfer

LEMMA LoanPayoffType ==
    ASSUME NEW b \in BooksOfAccount, NEW h \in Holdings
    PROVE  LoanPayoff(b, h) \in BooksOfAccount
<1> DEFINE b1 == [b EXCEPT !.debt[h] = 0]
<1>1. b1 \in BooksOfAccount
  BY DEF BooksOfAccount
<1>2. b.debt[h] \in Int
  BY DEF BooksOfAccount
<1> HIDE DEF b1
<1>3. [b1 EXCEPT !.cash = @ - b.debt[h]] \in BooksOfAccount
  BY <1>1, <1>2 DEF BooksOfAccount
<1> QED BY <1>3 DEF b1, LoanPayoff

LEMMA OriginationLegs ==
    ASSUME NEW b \in BooksOfAccount, NEW h \in Holdings, NEW a \in Int
    PROVE  [b EXCEPT !.debt[h] = @ + a, !.cash = @ + a] \in BooksOfAccount
<1> DEFINE b1 == [b EXCEPT !.debt[h] = @ + a]
<1>1. b1 \in BooksOfAccount
  BY DEF BooksOfAccount
<1> HIDE DEF b1
<1>2. [b1 EXCEPT !.cash = @ + a] \in BooksOfAccount
  BY <1>1 DEF BooksOfAccount
<1> QED BY <1>2 DEF b1

LEMMA LoanOriginationType ==
    ASSUME NEW b \in BooksOfAccount, NEW h \in Holdings, NEW a \in Int
    PROVE  LoanOrigination(b, h, a) \in BooksOfAccount
BY OriginationLegs DEF LoanOrigination

LEMMA ExternalLegs ==
    ASSUME NEW b \in BooksOfAccount, NEW a \in Int
    PROVE  [b EXCEPT !.cash = @ + a, !.external = @ + a] \in BooksOfAccount
<1> DEFINE b1 == [b EXCEPT !.cash = @ + a]
<1>1. b1 \in BooksOfAccount
  BY DEF BooksOfAccount
<1> HIDE DEF b1
<1>2. [b1 EXCEPT !.external = @ + a] \in BooksOfAccount
  BY <1>1 DEF BooksOfAccount
<1> QED BY <1>2 DEF b1

LEMMA ExternalType ==
    ASSUME NEW b \in BooksOfAccount, NEW a \in Int
    PROVE  External(b, a) \in BooksOfAccount
BY ExternalLegs DEF External

LEMMA MarketType ==
    ASSUME NEW b \in BooksOfAccount, NEW h \in Holdings
    PROVE  Market(b, h) \in Int
BY DEF Market, BooksOfAccount

LEMMA CostSoldType ==
    ASSUME NEW b \in BooksOfAccount, NEW h \in Holdings, NEW p \in Int, Market(b, h) > 0
    PROVE  CostSold(b, h, p) \in Int
<1>1. b.cost[h] \in Int /\ Market(b, h) \in Nat \ {0}
  BY MarketType DEF BooksOfAccount
<1>2. Quantize(b.cost[h] * p, Market(b, h)) \in Int
  BY <1>1, QuantizeType
<1> QED BY <1>1, <1>2 DEF CostSold, Lesser
LEMMA RealizationLegs ==
    ASSUME NEW b \in BooksOfAccount, NEW h \in Holdings, NEW c \in Int,
           NEW g \in Int, NEW r \in Int
    PROVE  [b EXCEPT !.cost[h] = @ - c, !.val[h] = @ - g, !.unrealized = @ - r, !.income = @ + r] \in BooksOfAccount
<1> DEFINE b1 == [b EXCEPT !.cost[h] = @ - c]
<1>1. b1 \in BooksOfAccount
  BY DEF BooksOfAccount
<1> HIDE DEF b1
<1> DEFINE b2 == [b1 EXCEPT !.val[h] = @ - g]
<1>2. b2 \in BooksOfAccount
  BY <1>1 DEF BooksOfAccount
<1> HIDE DEF b2
<1> DEFINE b3 == [b2 EXCEPT !.unrealized = @ - r]
<1>3. b3 \in BooksOfAccount
  BY <1>2 DEF BooksOfAccount
<1> HIDE DEF b3
<1>4. [b3 EXCEPT !.income = @ + r] \in BooksOfAccount
  BY <1>3 DEF BooksOfAccount
<1> QED BY <1>4 DEF b1, b2, b3

LEMMA RealizeType ==
    ASSUME NEW b \in BooksOfAccount, NEW h \in Holdings, NEW a \in Int,
           NEW x \in Holdings \cup {Cash}
    PROVE  Realize(b, h, a, x) \in BooksOfAccount
<1>1. CASE Market(b, h) <= 0
  BY <1>1 DEF Realize
<1>2. CASE Market(b, h) > 0
  <2> DEFINE proceeds   == Lesser(a, Market(b, h))
             gain       == proceeds - CostSold(b, h, proceeds)
             recognized == IF RecognizesGain(h) THEN gain ELSE 0
             drawn == [b EXCEPT !.cost[h] = @ - (proceeds - gain), !.val[h] = @ - gain,
                                !.unrealized = @ - recognized, !.income = @ + recognized]
  <2>1. proceeds \in Int
    BY MarketType DEF Lesser
  <2>2. CostSold(b, h, proceeds) \in Int
    BY <2>1, <1>2, CostSoldType
  <2>3. gain \in Int /\ recognized \in Int /\ proceeds - gain \in Int
    BY <2>1, <2>2
  <2>4. drawn \in BooksOfAccount
    <3> HIDE DEF proceeds, gain, recognized
    <3> QED BY <2>3, RealizationLegs
  <2>5. Receive(drawn, x, proceeds) \in BooksOfAccount
    <3> HIDE DEF proceeds, drawn
    <3> QED BY <2>1, <2>4, ReceiveType
  <2>6. Realize(b, h, a, x) = Receive(drawn, x, proceeds)
    BY <1>2, MarketType DEF Realize
  <2> QED BY <2>5, <2>6
<1> QED BY <1>1, <1>2, MarketType
-----------------------------------------------------------------------------
(* The postings of an interval, leg by leg. *)

LEMMA GainLegs ==
    ASSUME NEW b \in BooksOfAccount, NEW h \in Holdings, NEW a \in Int
    PROVE  [b EXCEPT !.val[h] = @ + a, !.unrealized = @ + a] \in BooksOfAccount
<1> DEFINE b1 == [b EXCEPT !.val[h] = @ + a]
<1>1. b1 \in BooksOfAccount
  BY DEF BooksOfAccount
<1> HIDE DEF b1
<1>2. [b1 EXCEPT !.unrealized = @ + a] \in BooksOfAccount
  BY <1>1 DEF BooksOfAccount
<1> QED BY <1>2 DEF b1

LEMMA IncomeLegs ==
    ASSUME NEW b \in BooksOfAccount, NEW a \in Int, NEW c \in Int
    PROVE  [b EXCEPT !.cash = @ + a + c, !.wages = @ + a, !.income = @ + c] \in BooksOfAccount
<1> DEFINE b1 == [b EXCEPT !.cash = @ + a + c]
<1>1. b1 \in BooksOfAccount
  BY DEF BooksOfAccount
<1> HIDE DEF b1
<1> DEFINE b2 == [b1 EXCEPT !.wages = @ + a]
<1>2. b2 \in BooksOfAccount
  BY <1>1 DEF BooksOfAccount
<1> HIDE DEF b2
<1>3. [b2 EXCEPT !.income = @ + c] \in BooksOfAccount
  BY <1>2 DEF BooksOfAccount
<1> QED BY <1>3 DEF b1, b2

LEMMA WithholdingLegs ==
    ASSUME NEW b \in BooksOfAccount, NEW a \in Int
    PROVE  [b EXCEPT !.fica = @ + a, !.cash = @ - a] \in BooksOfAccount
<1> DEFINE b1 == [b EXCEPT !.fica = @ + a]
<1>1. b1 \in BooksOfAccount
  BY DEF BooksOfAccount
<1> HIDE DEF b1
<1>2. [b1 EXCEPT !.cash = @ - a] \in BooksOfAccount
  BY <1>1 DEF BooksOfAccount
<1> QED BY <1>2 DEF b1

LEMMA LoanLegs ==
    ASSUME NEW b \in BooksOfAccount, NEW h \in Holdings, NEW a \in Int, NEW c \in Int
    PROVE  [b EXCEPT !.debt[h] = @ - a, !.expense = @ + c, !.cash = @ - a - c] \in BooksOfAccount
<1> DEFINE b1 == [b EXCEPT !.debt[h] = @ - a]
<1>1. b1 \in BooksOfAccount
  BY DEF BooksOfAccount
<1> HIDE DEF b1
<1> DEFINE b2 == [b1 EXCEPT !.expense = @ + c]
<1>2. b2 \in BooksOfAccount
  BY <1>1 DEF BooksOfAccount
<1> HIDE DEF b2
<1>3. [b2 EXCEPT !.cash = @ - a - c] \in BooksOfAccount
  BY <1>2 DEF BooksOfAccount
<1> QED BY <1>3 DEF b1, b2

LEMMA ExpenseLegs ==
    ASSUME NEW b \in BooksOfAccount, NEW a \in Int
    PROVE  [b EXCEPT !.expense = @ + a, !.cash = @ - a] \in BooksOfAccount
<1> DEFINE b1 == [b EXCEPT !.expense = @ + a]
<1>1. b1 \in BooksOfAccount
  BY DEF BooksOfAccount
<1> HIDE DEF b1
<1>2. [b1 EXCEPT !.cash = @ - a] \in BooksOfAccount
  BY <1>1 DEF BooksOfAccount
<1> QED BY <1>2 DEF b1

LEMMA SaleCostLegs ==
    ASSUME NEW b \in BooksOfAccount, NEW a \in Int
    PROVE  [b EXCEPT !.income = @ - a, !.cash = @ - a] \in BooksOfAccount
<1> DEFINE b1 == [b EXCEPT !.income = @ - a]
<1>1. b1 \in BooksOfAccount
  BY DEF BooksOfAccount
<1> HIDE DEF b1
<1>2. [b1 EXCEPT !.cash = @ - a] \in BooksOfAccount
  BY <1>1 DEF BooksOfAccount
<1> QED BY <1>2 DEF b1

LEMMA YieldLegs ==
    ASSUME NEW b \in BooksOfAccount, NEW a \in Int
    PROVE  [b EXCEPT !.cash = @ + a, !.income = @ + a] \in BooksOfAccount
<1> DEFINE b1 == [b EXCEPT !.cash = @ + a]
<1>1. b1 \in BooksOfAccount
  BY DEF BooksOfAccount
<1> HIDE DEF b1
<1>2. [b1 EXCEPT !.income = @ + a] \in BooksOfAccount
  BY <1>1 DEF BooksOfAccount
<1> QED BY <1>2 DEF b1

LEMMA PayableLegs ==
    ASSUME NEW b \in BooksOfAccount, NEW a \in Int
    PROVE  [b EXCEPT !.payable = @ - a, !.cash = @ - a] \in BooksOfAccount
<1> DEFINE b1 == [b EXCEPT !.payable = @ - a]
<1>1. b1 \in BooksOfAccount
  BY DEF BooksOfAccount
<1> HIDE DEF b1
<1>2. [b1 EXCEPT !.cash = @ - a] \in BooksOfAccount
  BY <1>1 DEF BooksOfAccount
<1> QED BY <1>2 DEF b1

LEMMA AccrualLegs ==
    ASSUME NEW b \in BooksOfAccount, NEW a \in Int
    PROVE  [b EXCEPT !.taxes = @ + a, !.payable = @ + a] \in BooksOfAccount
<1> DEFINE b1 == [b EXCEPT !.taxes = @ + a]
<1>1. b1 \in BooksOfAccount
  BY DEF BooksOfAccount
<1> HIDE DEF b1
<1>2. [b1 EXCEPT !.payable = @ + a] \in BooksOfAccount
  BY <1>1 DEF BooksOfAccount
<1> QED BY <1>2 DEF b1

LEMMA ReserveLegs ==
    ASSUME NEW b \in BooksOfAccount, NEW a \in Int, NEW c \in Int
    PROVE  [b EXCEPT !.futureTax = a, !.reserve = @ - c] \in BooksOfAccount
<1> DEFINE b1 == [b EXCEPT !.futureTax = a]
<1>1. b1 \in BooksOfAccount
  BY DEF BooksOfAccount
<1> HIDE DEF b1
<1>2. [b1 EXCEPT !.reserve = @ - c] \in BooksOfAccount
  BY <1>1 DEF BooksOfAccount
<1> QED BY <1>2 DEF b1

LEMMA SweepLegs ==
    ASSUME NEW b \in BooksOfAccount, NEW a \in Int, NEW f \in [Holdings -> Int]
    PROVE  [b EXCEPT !.cash = @ - a, !.cost = f] \in BooksOfAccount
<1> DEFINE b1 == [b EXCEPT !.cash = @ - a]
<1>1. b1 \in BooksOfAccount
  BY DEF BooksOfAccount
<1> HIDE DEF b1
<1>2. [b1 EXCEPT !.cost = f] \in BooksOfAccount
  BY <1>1 DEF BooksOfAccount
<1> QED BY <1>2 DEF b1
-----------------------------------------------------------------------------
(* What an operation changes, and what it leaves alone. *)

LEMMA ReceiveEffect ==
    ASSUME NEW b \in BooksOfAccount, NEW x \in Holdings \cup {Cash}, NEW a \in Int, NEW r, r = Receive(b, x, a)
    PROVE  /\ r.debt = b.debt /\ r.payable = b.payable /\ r.taxes = b.taxes
           /\ r.fica = b.fica /\ r.wages = b.wages /\ r.income = b.income /\ r.val = b.val
           /\ x = Cash => r.cash = b.cash + a /\ r.cost = b.cost
           /\ x # Cash => r.cash = b.cash /\ r.cost = [b.cost EXCEPT ![x] = @ + a]
BY CashIsTheHub DEF Receive, BooksOfAccount

LEMMA PayoffEffect ==
    ASSUME NEW b \in BooksOfAccount, NEW h \in Holdings, NEW r, r = LoanPayoff(b, h)
    PROVE  /\ r.payable = b.payable /\ r.taxes = b.taxes /\ r.fica = b.fica /\ r.wages = b.wages
           /\ r.income = b.income /\ r.val = b.val /\ r.cost = b.cost
           /\ b.debt[h] <= 0 => r.debt = b.debt
           /\ b.debt[h] > 0 => r.debt = [b.debt EXCEPT ![h] = 0]
BY DEF LoanPayoff, BooksOfAccount

\* A realization to cash moves exactly its proceeds, and touches no other holding.
LEMMA RealizeToCash ==
    ASSUME NEW b \in BooksOfAccount, NEW h \in Holdings, NEW a \in Int, Market(b, h) > 0
    PROVE  LET r == Realize(b, h, a, Cash)
           IN  /\ r.cash = b.cash + Lesser(a, Market(b, h))
               /\ Market(r, h) = Market(b, h) - Lesser(a, Market(b, h))
               /\ \A g \in Holdings : g # h => Market(r, g) = Market(b, g)
               /\ r.debt = b.debt /\ r.payable = b.payable /\ r.taxes = b.taxes
               /\ r.fica = b.fica /\ r.wages = b.wages
<1> DEFINE proceeds   == Lesser(a, Market(b, h))
           gain       == proceeds - CostSold(b, h, proceeds)
           recognized == IF RecognizesGain(h) THEN gain ELSE 0
           d == [b EXCEPT !.cost[h] = @ - (proceeds - gain), !.val[h] = @ - gain,
                          !.unrealized = @ - recognized, !.income = @ + recognized]
           r == Receive(d, Cash, proceeds)
<1>1. proceeds \in Int
  BY MarketType DEF Lesser
<1>2. CostSold(b, h, proceeds) \in Int
  <2> HIDE DEF proceeds
  <2> QED BY <1>1, CostSoldType
<1>3. gain \in Int /\ recognized \in Int /\ proceeds - gain \in Int
  BY <1>1, <1>2
<1>4. /\ d \in BooksOfAccount
      /\ d.cash = b.cash /\ d.debt = b.debt /\ d.payable = b.payable /\ d.taxes = b.taxes
      /\ d.fica = b.fica /\ d.wages = b.wages
      /\ d.cost = [b.cost EXCEPT ![h] = @ - (proceeds - gain)]
      /\ d.val = [b.val EXCEPT ![h] = @ - gain]
  <2> HIDE DEF proceeds, gain, recognized
  <2>1. d \in BooksOfAccount
    BY <1>3, RealizationLegs
  <2>2. /\ d.cash = b.cash /\ d.debt = b.debt /\ d.payable = b.payable /\ d.taxes = b.taxes
        /\ d.fica = b.fica /\ d.wages = b.wages
        /\ d.cost = [b.cost EXCEPT ![h] = @ - (proceeds - gain)]
        /\ d.val = [b.val EXCEPT ![h] = @ - gain]
    BY DEF BooksOfAccount
  <2> QED BY <2>1, <2>2
<1>5. /\ r.debt = d.debt /\ r.payable = d.payable /\ r.taxes = d.taxes
      /\ r.fica = d.fica /\ r.wages = d.wages /\ r.val = d.val
      /\ r.cash = d.cash + proceeds /\ r.cost = d.cost
  <2> HIDE DEF proceeds, d
  <2>1. d \in BooksOfAccount /\ Cash \in Holdings \cup {Cash} /\ proceeds \in Int
    BY <1>1, <1>4
  <2> QED BY <2>1 DEF Receive, BooksOfAccount
<1>6. /\ b.cost \in [Holdings -> Int] /\ b.val \in [Holdings -> Int]
  BY DEF BooksOfAccount
<1>7. /\ Market(r, h) = Market(b, h) - proceeds
      /\ \A g \in Holdings : g # h => Market(r, g) = Market(b, g)
  <2> HIDE DEF proceeds, gain, d, r
  <2>1. /\ r.cost = [b.cost EXCEPT ![h] = @ - (proceeds - gain)]
        /\ r.val = [b.val EXCEPT ![h] = @ - gain]
    BY <1>4, <1>5
  <2>2. r.cost[h] = b.cost[h] - (proceeds - gain) /\ r.val[h] = b.val[h] - gain
    BY <2>1, <1>6
  <2>3. \A g \in Holdings : g # h => r.cost[g] = b.cost[g] /\ r.val[g] = b.val[g]
    BY <2>1, <1>6
  <2>4. b.cost[h] \in Int /\ b.val[h] \in Int
    BY <1>6
  <2> QED BY <1>1, <1>3, <2>2, <2>3, <2>4 DEF Market
<1>8. Realize(b, h, a, Cash) = r
  BY MarketType DEF Realize
<1> HIDE DEF gain, d, r
<1> QED BY <1>4, <1>5, <1>7, <1>8
-----------------------------------------------------------------------------
(* Type correctness. *)

LEMMA NextPhaseType ==
    ASSUME NEW p \in DOMAIN NextPhase
    PROVE  NextPhase[p] \in Phases
BY DEF NextPhase, PhaseOrder, Phases

LEMMA NoParametersType == NoParameters \in PeriodParameters
<1>1. (CHOOSE h \in Holdings : TRUE) \in Holdings
  BY PeriodAssumption
<1>2. [num |-> 0, den |-> 1] \in GrowthRates \cap Charges
  BY DEF GrowthRates, Charges, Rates
<1>3. <<>> \in Seq([holding : Holdings, amount : Nat, matched : BOOLEAN])
      /\ <<>> \in Seq([holding : Holdings, amount : Nat]) /\ <<>> \in Seq(Events)
  OBVIOUS
<1>4. [h \in Holdings |-> [num |-> 0, den |-> 1]] \in [Holdings -> GrowthRates]
      /\ [x \in Places |-> [num |-> 0, den |-> 1]] \in [Places -> Charges]
  BY <1>2
<1> QED BY <1>1, <1>3, <1>4 DEF NoParameters, PeriodParameters, NoBound

LEMMA ParametersType ==
    ASSUME TypeOK
    PROVE  /\ params \in PeriodParameters
           /\ params.growth \in [Holdings -> GrowthRates]
           /\ params.yield \in [Places -> Charges]
           /\ params.wages \in Nat /\ params.income \in Nat /\ params.expense \in Nat
           /\ params.contributions \in Seq([holding : Holdings, amount : Nat, matched : BOOLEAN])
           /\ params.loan \in Holdings /\ params.declared \in Nat
           /\ params.interest \in Nat /\ params.principal \in Nat
           /\ params.events \in Seq(Events)
           /\ params.forced \in Seq([holding : Holdings, amount : Nat])
           /\ params.estimate \in Int /\ params.penalty \in Nat /\ params.credit \in Nat
           /\ params.floor \in Nat /\ params.ceiling \in Int
<1>1. params \in PeriodParameters
  BY NoParametersType, PeriodAssumption DEF TypeOK
<1> QED BY <1>1 DEF PeriodParameters

LEMMA StateType ==
    ASSUME TypeOK
    PROVE  /\ books \in BooksOfAccount /\ opening \in BooksOfAccount /\ yearOpen \in BooksOfAccount
           /\ i \in Nat \ {0} /\ basis \in [Places -> Nat]
           /\ target \in Int /\ prepaid \in Int /\ assessed \in Int
BY DEF TypeOK

\* The scheduled line the cursor stands on.
LEMMA ScheduledType ==
    ASSUME TypeOK
    PROVE  /\ i <= Len(params.events) => params.events[i] \in Events
           /\ i <= Len(params.forced) => params.forced[i] \in [holding : Holdings, amount : Nat]
           /\ i <= Len(params.contributions) =>
                 params.contributions[i] \in [holding : Holdings, amount : Nat, matched : BOOLEAN]
<1>1. /\ params.events \in Seq(Events) /\ params.forced \in Seq([holding : Holdings, amount : Nat])
      /\ params.contributions \in Seq([holding : Holdings, amount : Nat, matched : BOOLEAN])
  BY ParametersType
<1>2. i \in Nat \ {0}
  BY StateType
<1>3. i <= Len(params.events) => params.events[i] \in Events
  BY <1>1, <1>2, ElementOfSeq
<1>4. i <= Len(params.forced) => params.forced[i] \in [holding : Holdings, amount : Nat]
  BY <1>1, <1>2, ElementOfSeq
<1>5. i <= Len(params.contributions) =>
          params.contributions[i] \in [holding : Holdings, amount : Nat, matched : BOOLEAN]
  BY <1>1, <1>2, ElementOfSeq
<1> QED BY <1>3, <1>4, <1>5

LEMMA RateTypes ==
    /\ TaxRate \in [num : Int, den : Nat \ {0}] /\ FicaRate \in [num : Int, den : Nat \ {0}]
    /\ RealtorFee \in [num : Int, den : Nat \ {0}]
    /\ \A h \in Holdings : LatentRate[h] \in [num : Int, den : Nat \ {0}]
BY PeriodAssumption DEF Charges, Rates

\* The part of type correctness a step that only posts to the books leaves to show.
LEMMA QuietType ==
    ASSUME TypeOK, Quiet, books' \in BooksOfAccount, phase' \in Phases, i' \in Nat \ {0}
    PROVE  TypeOK'
BY DEF TypeOK, Quiet, KeepInterval, KeepTallies

LEMMA StepType ==
    ASSUME NEW p \in DOMAIN NextPhase, Step(p)
    PROVE  phase' \in Phases /\ i' \in Nat \ {0}
BY NextPhaseType DEF Step

LEMMA IterateType ==
    ASSUME TypeOK, NEW p \in DOMAIN NextPhase, NEW n, Iterate(p, n)
    PROVE  phase' \in Phases /\ i' \in Nat \ {0}
<1>1. CASE i < n
  BY <1>1 DEF Iterate, TypeOK
<1>2. CASE ~(i < n)
  BY <1>2, NextPhaseType DEF Iterate
<1> QED BY <1>1, <1>2
-----------------------------------------------------------------------------
(* Each phase posts well-formed amounts. *)

LEMMA GrowthType ==
    ASSUME TypeOK, ApplyGrowth
    PROVE  TypeOK'
<1>1. phase' \in Phases /\ i' \in Nat \ {0}
  BY IterateType DEF ApplyGrowth, NextPhase, PhaseOrder
<1>2. books' \in BooksOfAccount
  <2>1. CASE /\ i <= Len(ChartOrder) /\ ChartOrder[i] # Cash
             /\ AccruesUnrealizedGains(ChartOrder[i])
    <3>1. PICK h \in Holdings : h = ChartOrder[i]
      BY <2>1, PeriodAssumption DEF TypeOK, Places
    <3>2. Market(opening, h) \in Int
      BY MarketType DEF TypeOK
    <3>3. params.growth[h] \in [num : Int, den : Nat \ {0}]
      BY ParametersType DEF GrowthRates, Rates
    <3>4. Appreciation(h) \in Int
      BY <3>2, <3>3, ChangeOnType DEF Appreciation
    <3>5. Grow(books, h) \in BooksOfAccount
      BY <3>4, GainLegs DEF Grow, TypeOK
    <3> QED BY <2>1, <3>1, <3>5 DEF ApplyGrowth
  <2>2. CASE ~(/\ i <= Len(ChartOrder) /\ ChartOrder[i] # Cash
               /\ AccruesUnrealizedGains(ChartOrder[i]))
    BY <2>2 DEF ApplyGrowth, TypeOK
  <2> QED BY <2>1, <2>2
<1> QED BY <1>1, <1>2, QuietType DEF ApplyGrowth

LEMMA IncomeType ==
    ASSUME TypeOK, RecognizeIncome
    PROVE  TypeOK'
<1>1. phase' \in Phases /\ i' \in Nat \ {0}
  BY StepType DEF RecognizeIncome, NextPhase, PhaseOrder
<1>2. books' \in BooksOfAccount
  <2>1. params.wages \in Int /\ params.income \in Int
    BY ParametersType
  <2> QED BY <2>1, StateType, IncomeLegs DEF RecognizeIncome
<1> QED BY <1>1, <1>2, QuietType DEF RecognizeIncome

LEMMA FlowTypes ==
    ASSUME NEW b \in BooksOfAccount
    PROVE  /\ b.cash \in Int /\ b.wages \in Int /\ b.income \in Int /\ b.fica \in Int
           /\ b.taxes \in Int /\ b.payable \in Int /\ b.futureTax \in Int
BY DEF BooksOfAccount

LEMMA WithholdType ==
    ASSUME TypeOK, WithholdEmploymentTax
    PROVE  TypeOK'
<1>1. phase' \in Phases /\ i' \in Nat \ {0}
  BY StepType DEF WithholdEmploymentTax, NextPhase, PhaseOrder
<1>2. books.wages - yearOpen.wages \in Int /\ books.fica - yearOpen.fica \in Int
  BY FlowTypes DEF TypeOK
<1>3. Withholding \in Int
  BY <1>2, ChangeOnType, RateTypes DEF Withholding
<1>4. books' \in BooksOfAccount
  BY <1>3, StateType, WithholdingLegs DEF WithholdEmploymentTax
<1> QED BY <1>1, <1>4, QuietType DEF WithholdEmploymentTax

LEMMA ContributeType ==
    ASSUME NEW b \in BooksOfAccount,
           NEW line \in [holding : Holdings, amount : Nat, matched : BOOLEAN]
    PROVE  Contribute(b, line) \in BooksOfAccount
<1> DEFINE funded == IF line.matched THEN [b EXCEPT !.external = @ + line.amount]
                                     ELSE [b EXCEPT !.cash = @ - line.amount]
<1>1. funded \in BooksOfAccount
  <2>1. CASE line.matched
    BY <2>1 DEF BooksOfAccount
  <2>2. CASE ~line.matched
    BY <2>2 DEF BooksOfAccount
  <2> QED BY <2>1, <2>2
<1> HIDE DEF funded
<1>2. [funded EXCEPT !.val[line.holding] = @ + line.amount] \in BooksOfAccount
  BY <1>1 DEF BooksOfAccount
<1>3. [funded EXCEPT !.cost[line.holding] = @ + line.amount] \in BooksOfAccount
  BY <1>1 DEF BooksOfAccount
<1> QED BY <1>2, <1>3 DEF funded, Contribute

LEMMA ContributionsType ==
    ASSUME TypeOK, ApplyContributions
    PROVE  TypeOK'
<1>1. phase' \in Phases /\ i' \in Nat \ {0}
  BY IterateType DEF ApplyContributions, NextPhase, PhaseOrder
<1>2. books' \in BooksOfAccount
  <2>1. CASE i <= Len(params.contributions)
    <3>1. params.contributions[i] \in [holding : Holdings, amount : Nat, matched : BOOLEAN]
      BY <2>1, ScheduledType
    <3> QED BY <2>1, <3>1, StateType, ContributeType DEF ApplyContributions
  <2>2. CASE ~(i <= Len(params.contributions))
    BY <2>2 DEF ApplyContributions, TypeOK
  <2> QED BY <2>1, <2>2
<1> QED BY <1>1, <1>2, QuietType DEF ApplyContributions

LEMMA AmortizedType ==
    ASSUME TypeOK
    PROVE  Amortized \in Int
<1>1. params.loan \in Holdings /\ params.declared \in Nat
  BY ParametersType
<1> QED BY <1>1, StateType DEF Amortized, BooksOfAccount

LEMMA LiabilitiesType ==
    ASSUME TypeOK, ServiceLiabilities
    PROVE  TypeOK'
<1>1. phase' \in Phases /\ i' \in Nat \ {0}
  BY StepType DEF ServiceLiabilities, NextPhase, PhaseOrder
<1> DEFINE owed      == Amortized
           principal == IF owed > 0 THEN Lesser(params.principal, owed) ELSE 0
           interest  == IF owed > 0 THEN params.interest ELSE 0
<1>2. principal \in Int /\ interest \in Int
  <2>1. params.principal \in Nat /\ params.interest \in Nat
    BY ParametersType
  <2>2. owed \in Int
    BY AmortizedType
  <2> QED BY <2>1, <2>2 DEF Lesser
<1>3. books' = [books EXCEPT !.debt[params.loan] = @ - principal, !.expense = @ + interest,
                             !.cash = @ - principal - interest]
  BY DEF ServiceLiabilities
<1>4. books' \in BooksOfAccount
  <2> HIDE DEF principal, interest
  <2>1. params.loan \in Holdings
    BY ParametersType
  <2> QED BY <2>1, <1>2, <1>3, StateType, LoanLegs
<1> QED BY <1>1, <1>4, QuietType DEF ServiceLiabilities

LEMMA ExpensesType ==
    ASSUME TypeOK, ApplyExpenses
    PROVE  TypeOK'
<1>1. phase' \in Phases /\ i' \in Nat \ {0}
  BY StepType DEF ApplyExpenses, NextPhase, PhaseOrder
<1>2. books' \in BooksOfAccount
  <2>1. params.expense \in Int
    BY ParametersType
  <2> QED BY <2>1, StateType, ExpenseLegs DEF ApplyExpenses
<1> QED BY <1>1, <1>2, QuietType DEF ApplyExpenses

LEMMA SaleCostsType ==
    ASSUME NEW price \in Int
    PROVE  SaleCosts(price) \in Int
<1>1. ChangeOn(RealtorFee, price) \in Int
  BY RateTypes, ChangeOnType
<1>2. FixedSaleCost \in Int
  BY PeriodAssumption
<1> QED BY <1>1, <1>2 DEF SaleCosts

LEMMA SellPropertyType ==
    ASSUME NEW b \in BooksOfAccount, NEW h \in Holdings
    PROVE  SellProperty(b, h) \in BooksOfAccount
<1> DEFINE price    == Market(b, h)
           realized == RealizeWhole(b, h, Cash)
           costed   == BookSaleCosts(realized, price)
<1>1. price \in Int
  BY MarketType
<1>2. realized \in BooksOfAccount
  BY <1>1, RealizeType DEF RealizeWhole
<1>3. costed \in BooksOfAccount
  <2> HIDE DEF price, realized
  <2> QED BY <1>1, <1>2, SaleCostsType, SaleCostLegs DEF BookSaleCosts
<1>4. LoanPayoff(costed, h) \in BooksOfAccount
  <2> HIDE DEF costed
  <2> QED BY <1>3, LoanPayoffType
<1> QED BY <1>4 DEF SellProperty

LEMMA EventType ==
    ASSUME NEW b \in BooksOfAccount, NEW e \in Events
    PROVE  ApplyEvent(b, e) \in BooksOfAccount
<1>1. CASE e.kind = "transfer"
  <2>1. e.from \in Holdings \cup {Cash} /\ e.to \in Holdings \cup {Cash} /\ e.amount \in Int
    BY <1>1 DEF Events, FaceValue, Places
  <2> QED BY <1>1, <2>1, TransferType DEF ApplyEvent
<1>2. CASE e.kind = "external"
  <2>1. e.amount \in Int
    BY <1>2 DEF Events
  <2> QED BY <1>2, <2>1, ExternalType DEF ApplyEvent
<1>3. CASE e.kind = "realize"
  <2>1. e.holding \in Holdings /\ e.to \in Holdings \cup {Cash} /\ e.amount \in Int
    BY <1>3 DEF Events, Places
  <2> QED BY <1>3, <2>1, RealizeType DEF ApplyEvent
<1>4. CASE e.kind = "payoff"
  <2>1. e.holding \in Holdings
    BY <1>4 DEF Events
  <2> QED BY <1>4, <2>1, LoanPayoffType DEF ApplyEvent
<1>5. CASE e.kind = "originate"
  <2>1. e.holding \in Holdings /\ e.principal \in Int
    BY <1>5 DEF Events
  <2> QED BY <1>5, <2>1, LoanOriginationType DEF ApplyEvent
<1>6. CASE e.kind = "sale"
  <2>1. e.holding \in Holdings
    BY <1>6 DEF Events
  <2> QED BY <1>6, <2>1, SellPropertyType DEF ApplyEvent
<1>7. e.kind \in {"transfer", "external", "realize", "payoff", "sale", "originate"}
  BY DEF Events
<1> QED BY <1>1, <1>2, <1>3, <1>4, <1>5, <1>6, <1>7

\* The part left to show of a step that also reports a sale.
LEMMA SaleStepType ==
    ASSUME TypeOK, KeepInterval, UNCHANGED <<basis, target, prepaid, assessed>>,
           books' \in BooksOfAccount, sold' \in SUBSET Holdings,
           phase' \in Phases, i' \in Nat \ {0}
    PROVE  TypeOK'
BY DEF TypeOK, KeepInterval

LEMMA ReportSaleType ==
    ASSUME TypeOK, NEW b, NEW h \in Holdings
    PROVE  ReportSale(b, h) \in SUBSET Holdings /\ sold \in SUBSET Holdings
BY DEF ReportSale, TypeOK

LEMMA EventsType ==
    ASSUME TypeOK, ApplyEvents
    PROVE  TypeOK'
<1>1. phase' \in Phases /\ i' \in Nat \ {0}
  BY IterateType DEF ApplyEvents, NextPhase, PhaseOrder
<1>2. books' \in BooksOfAccount /\ sold' \in SUBSET Holdings
  <2>1. CASE i <= Len(params.events)
    <3> DEFINE e == params.events[i]
    <3>2. e \in Events
      BY <2>1, ScheduledType
    <3>3. books' = ApplyEvent(books, e)
          /\ sold' = IF e.kind = "sale" THEN ReportSale(books, e.holding) ELSE sold
      BY <2>1 DEF ApplyEvents
    <3> HIDE DEF e
    <3>4. e.kind = "sale" => e.holding \in Holdings
      BY <3>2 DEF Events
    <3>5. sold \in SUBSET Holdings
      BY DEF TypeOK
    <3> QED BY <3>2, <3>3, <3>4, <3>5, StateType, EventType, ReportSaleType
  <2>2. CASE ~(i <= Len(params.events))
    BY <2>2 DEF ApplyEvents, TypeOK
  <2> QED BY <2>1, <2>2
<1> QED BY <1>1, <1>2, SaleStepType DEF ApplyEvents

LEMMA SnapshotType ==
    ASSUME TypeOK, SnapshotYieldBasis
    PROVE  TypeOK'
<1>1. phase' \in Phases /\ i' \in Nat \ {0}
  BY StepType DEF SnapshotYieldBasis, NextPhase, PhaseOrder
<1>2. \A x \in Places : YieldBasis(x) \in Nat
  <2> TAKE x \in Places
  <2>1. MarketOf(opening, x) \in Int /\ MarketOf(books, x) \in Int
    BY StateType, MarketType, FlowTypes DEF MarketOf, Places
  <2> QED BY <2>1 DEF YieldBasis, Greater
<1>3. basis' \in [Places -> Nat]
  BY <1>2 DEF SnapshotYieldBasis
<1> QED BY <1>1, <1>3 DEF SnapshotYieldBasis, KeepInterval, TypeOK

LEMMA YieldType ==
    ASSUME TypeOK, ApplyDistributions
    PROVE  TypeOK'
<1>1. phase' \in Phases /\ i' \in Nat \ {0}
  BY IterateType DEF ApplyDistributions, NextPhase, PhaseOrder
<1>2. books' \in BooksOfAccount
  <2>1. CASE i <= Len(ChartOrder)
    <3>1. PICK x \in Places : x = ChartOrder[i]
      BY <2>1, PeriodAssumption, StateType
    <3>2. params.yield[x].num \in Int /\ params.yield[x].den \in Nat \ {0} /\ basis[x] \in Nat
      BY ParametersType, StateType DEF Charges, Rates
    <3>3. params.yield[x].num * basis[x] \in Int /\ 2 * params.yield[x].den \in Nat \ {0}
      BY <3>2
    <3>4. Distribution(x) \in Int
      BY <3>3, QuantizeType DEF Distribution
    <3>5. [books EXCEPT !.cash = @ + Distribution(x), !.income = @ + Distribution(x)]
              \in BooksOfAccount
      BY <3>4, StateType, YieldLegs
    <3> QED BY <2>1, <3>1, <3>5 DEF ApplyDistributions
  <2>2. CASE ~(i <= Len(ChartOrder))
    BY <2>2 DEF ApplyDistributions, TypeOK
  <2> QED BY <2>1, <2>2
<1> QED BY <1>1, <1>2, QuietType DEF ApplyDistributions

LEMMA PayPriorType ==
    ASSUME TypeOK, PayPriorTaxPayable
    PROVE  TypeOK'
<1>1. phase' \in Phases /\ i' \in Nat \ {0}
  BY StepType DEF PayPriorTaxPayable, NextPhase, PhaseOrder
<1>2. PriorPayable \in Int
  BY StateType, FlowTypes DEF PriorPayable
<1>3. books' \in BooksOfAccount
  BY <1>2, StateType, PayableLegs DEF PayPriorTaxPayable
<1> QED BY <1>1, <1>3, QuietType DEF PayPriorTaxPayable

LEMMA ForcedType ==
    ASSUME TypeOK, CheckForcedTransactions
    PROVE  TypeOK'
<1>1. phase' \in Phases /\ i' \in Nat \ {0}
  BY IterateType DEF CheckForcedTransactions, NextPhase, PhaseOrder
<1>2. books' \in BooksOfAccount
  <2>1. CASE i <= Len(params.forced) /\ ClosesTaxYear
    <3>2. params.forced[i] \in [holding : Holdings, amount : Nat]
      BY <2>1, ScheduledType
    <3> QED BY <2>1, <3>2, StateType, RealizeType DEF CheckForcedTransactions
  <2>2. CASE ~(i <= Len(params.forced) /\ ClosesTaxYear)
    BY <2>2 DEF CheckForcedTransactions, TypeOK
  <2> QED BY <2>1, <2>2
<1> QED BY <1>1, <1>2, QuietType DEF CheckForcedTransactions

LEMMA PrepayType ==
    ASSUME TypeOK, PrepayIncomeTaxEstimate
    PROVE  TypeOK'
<1>1. phase' \in Phases /\ i' \in Nat \ {0}
  BY IterateType DEF PrepayIncomeTaxEstimate, NextPhase, PhaseOrder
<1>2. params.estimate * i - 4 * prepaid \in Int
  BY ParametersType, StateType
<1>3. EstimateIncrement(i) \in Int
  BY <1>2, QuantizeType DEF EstimateIncrement
<1>4. books' \in BooksOfAccount /\ prepaid' \in Int
  <2>1. [books EXCEPT !.payable = @ - EstimateIncrement(i), !.cash = @ - EstimateIncrement(i)]
            \in BooksOfAccount
    BY <1>3, StateType, PayableLegs
  <2>2. prepaid + EstimateIncrement(i) \in Int
    BY <1>3, StateType
  <2>3. CASE clock.fullYear /\ i \in QuarterEnds /\ params.estimate > 0
    BY <2>1, <2>2, <2>3 DEF PrepayIncomeTaxEstimate
  <2>4. CASE ~(clock.fullYear /\ i \in QuarterEnds /\ params.estimate > 0)
    BY <2>4, StateType DEF PrepayIncomeTaxEstimate
  <2> QED BY <2>3, <2>4
<1> QED BY <1>1, <1>4 DEF PrepayIncomeTaxEstimate, KeepInterval, TypeOK

LEMMA FracType == Frac \in Nat \ {0} /\ SweepParts \in Nat \ {0}
BY PeriodAssumption

LEMMA ShortfallType ==
    ASSUME TypeOK, NEW b \in BooksOfAccount
    PROVE  Shortfall(b) \in Int
<1>1. b.cash \in Int /\ params.floor \in Int
  BY FlowTypes, ParametersType
<1> QED BY <1>1, FracType DEF Shortfall

LEMMA DrawType ==
    ASSUME NEW b \in BooksOfAccount, NEW h \in Holdings, TypeOK
    PROVE  DrawFrom(b, h) \in BooksOfAccount
<1>1. Shortfall(b) \in Int /\ Frac \in Nat \ {0}
  BY ShortfallType, FracType
<1>2. RoundUp(Shortfall(b), Frac) \in Int
  BY <1>1, RoundUpCovers
<1>3. Realize(b, h, RoundUp(Shortfall(b), Frac), Cash) \in BooksOfAccount
  BY <1>2, RealizeType
<1>4. RealizeWhole(b, h, Cash) \in BooksOfAccount
  BY MarketType, RealizeType DEF RealizeWhole
<1> QED BY <1>3, <1>4, SellPropertyType DEF DrawFrom

LEMMA FundType ==
    ASSUME TypeOK, FundToTarget
    PROVE  TypeOK'
<1>1. phase' \in Phases /\ i' \in Nat \ {0}
  BY IterateType DEF FundToTarget, NextPhase, PhaseOrder
<1>2. books' \in BooksOfAccount /\ sold' \in SUBSET Holdings
  <2>1. CASE i <= Len(DrawPriority)
    <3>1. PICK h \in Holdings : h = DrawPriority[i]
      BY <2>1, PeriodAssumption, StateType
    <3>2. books' = DrawFrom(books, h) /\ sold' \in {ReportSale(books, h), sold}
      BY <2>1, <3>1 DEF FundToTarget
    <3> QED BY <3>2, StateType, DrawType, ReportSaleType
  <2>2. CASE ~(i <= Len(DrawPriority))
    BY <2>2 DEF FundToTarget, TypeOK
  <2> QED BY <2>1, <2>2
<1> QED BY <1>1, <1>2, SaleStepType DEF FundToTarget

LEMMA PenaltiesType ==
    ASSUME TypeOK, AssessPenalties
    PROVE  TypeOK'
<1>1. phase' \in Phases /\ i' \in Nat \ {0}
  BY StepType DEF AssessPenalties, NextPhase, PhaseOrder
<1>2. books' \in BooksOfAccount
  <2>1. params.penalty \in Int
    BY ParametersType
  <2> QED BY <2>1, StateType, AccrualLegs DEF AssessPenalties, Accrue
<1> QED BY <1>1, <1>2, QuietType DEF AssessPenalties

LEMMA SettleType ==
    ASSUME TypeOK, SettleTax
    PROVE  TypeOK'
<1>1. phase' \in Phases /\ i' \in Nat \ {0}
  BY StepType DEF SettleTax, NextPhase, PhaseOrder
<1>2. books' \in BooksOfAccount /\ assessed' \in Int
  <2>1. CASE ClosesTaxYear /\ clock.fullYear
    <3>1. YearIncome(books, yearOpen) \in Int
      BY StateType, FlowTypes DEF YearIncome
    <3>2. assessed' = YearIncome(books, yearOpen)
          /\ books' = Accrue(books, Greater(0, ChangeOn(TaxRate, assessed')) - params.credit)
      BY <2>1 DEF SettleTax
    <3>3. ChangeOn(TaxRate, assessed') \in Int
      BY <3>1, <3>2, RateTypes, ChangeOnType
    <3>4. params.credit \in Int
      BY ParametersType
    <3>5. Greater(0, ChangeOn(TaxRate, assessed')) - params.credit \in Int
      BY <3>3, <3>4 DEF Greater
    <3> QED BY <3>1, <3>2, <3>5, StateType, AccrualLegs DEF Accrue
  <2>2. CASE ~(ClosesTaxYear /\ clock.fullYear)
    BY <2>2 DEF SettleTax, TypeOK
  <2> QED BY <2>1, <2>2
<1> QED BY <1>1, <1>2 DEF SettleTax, KeepInterval, TypeOK

LEMMA SurplusType ==
    ASSUME TypeOK
    PROVE  Surplus \in Nat
<1>1. Frac * books.cash - params.ceiling \in Int /\ Frac \in Nat \ {0}
  <2>1. books.cash \in Int /\ params.ceiling \in Int
    BY StateType, FlowTypes, ParametersType
  <2> QED BY <2>1, FracType
<1>2. Quantize(Frac * books.cash - params.ceiling, Frac) \in Int
  BY <1>1, QuantizeType
<1> QED BY <1>2 DEF Surplus, Greater

LEMMA SweepType ==
    ASSUME TypeOK, SweepToCeiling
    PROVE  TypeOK'
<1>1. phase' \in Phases /\ i' \in Nat \ {0}
  BY StepType DEF SweepToCeiling, NextPhase, PhaseOrder
<1>2. \A h \in Holdings : SweepPortion(h, Surplus) \in Int
  <2> TAKE h \in Holdings
  <2>1. Surplus * SweepBand[h].to \in Int /\ Surplus * SweepBand[h].from \in Int
        /\ SweepParts \in Nat \ {0}
    BY SurplusType, PeriodAssumption
  <2> QED BY <2>1, QuantizeType DEF SweepPortion
<1> DEFINE costs == [h \in Holdings |-> books.cost[h] + SweepPortion(h, Surplus)]
<1>3. costs \in [Holdings -> Int]
  BY <1>2, StateType DEF BooksOfAccount
<1>4. books' = [books EXCEPT !.cash = @ - Surplus, !.cost = costs]
  BY DEF SweepToCeiling
<1>5. books' \in BooksOfAccount
  <2> HIDE DEF costs
  <2>1. Surplus \in Int /\ books \in BooksOfAccount
    BY SurplusType, StateType
  <2> QED BY <2>1, <1>3, <1>4, SweepLegs
<1> QED BY <1>1, <1>5, QuietType DEF SweepToCeiling

LEMMA LatentTaxType ==
    ASSUME NEW b \in BooksOfAccount, NEW h \in Holdings
    PROVE  LatentTax(b, h) \in Int
<1>1. Greater(0, Market(b, h) - b.cost[h]) \in Int
  BY MarketType DEF Greater, BooksOfAccount
<1> QED BY <1>1, RateTypes, ChangeOnType DEF LatentTax

LEMMA ReestimateType ==
    ASSUME TypeOK, ReestimateFutureTaxes
    PROVE  TypeOK'
<1>1. Tally \in Int
  <2>1. i <= Len(ChartOrder) /\ ChartOrder[i] # Cash => ChartOrder[i] \in Holdings
    BY PeriodAssumption, StateType DEF Places
  <2> QED BY <2>1, StateType, LatentTaxType DEF Tally
<1>2. Tally - books.futureTax \in Int
  BY <1>1, StateType, FlowTypes
<1>3. books' \in BooksOfAccount
  <2>1. [books EXCEPT !.futureTax = Tally, !.reserve = @ - (Tally - books.futureTax)]
            \in BooksOfAccount
    BY <1>1, <1>2, StateType, ReserveLegs
  <2> QED BY <2>1, StateType DEF ReestimateFutureTaxes
<1>4. phase' \in Phases /\ i' \in Nat \ {0} /\ target' \in Int
  BY <1>1, StateType DEF ReestimateFutureTaxes, TypeOK, Phases, NextPhase, PhaseOrder
<1> QED BY <1>3, <1>4 DEF ReestimateFutureTaxes, KeepInterval, TypeOK

LEMMA CloseType ==
    ASSUME TypeOK, Close
    PROVE  TypeOK'
<1>1. phase' \in Phases /\ i' \in Nat \ {0} /\ books' \in BooksOfAccount
  BY DEF Close, TypeOK, Phases
<1> QED BY <1>1, QuietType DEF Close

LEMMA OpenType ==
    ASSUME TypeOK, OpenPeriod
    PROVE  TypeOK'
<1>1. params' \in PeriodInputs /\ phase' \in Phases /\ i' \in Nat \ {0}
  BY DEF OpenPeriod, Phases, NextPhase, PhaseOrder
<1>2. clock.perYear \in {1, 2, 4, 12} /\ clock.t \in Nat /\ clock.sub \in 1 .. clock.perYear
      /\ clock.t < LastPeriod[clock.perYear] /\ LastPeriod[clock.perYear] \in Nat
  <2>1. clock.perYear \in Granularities /\ clock.t \in Nat /\ clock.sub \in 1 .. 12
        /\ clock.sub <= clock.perYear /\ clock.t < LastPeriod[clock.perYear]
    BY DEF TypeOK, OpenPeriod
  <2>2. Granularities \subseteq {1, 2, 4, 12} /\ LastPeriod \in [Granularities -> Nat]
    BY PeriodAssumption
  <2>3. clock.perYear \in {1, 2, 4, 12}
    BY <2>1, <2>2
  <2>4. LastPeriod[clock.perYear] \in Nat
    BY <2>1, <2>2
  <2> QED BY <2>1, <2>3, <2>4
<1>3. /\ clock' \in [perYear : Granularities, t : Nat, sub : 1 .. 12, fullYear : BOOLEAN]
      /\ clock'.sub <= clock'.perYear /\ clock'.t <= LastPeriod[clock'.perYear]
  <2>1. clock \in [perYear : Granularities, t : Nat, sub : 1 .. 12, fullYear : BOOLEAN]
    BY DEF TypeOK
  <2>2. CASE ClosesTaxYear
    <3>1. clock' = [clock EXCEPT !.t = @ + 1, !.sub = 1,
                 !.fullYear = clock.t + clock.perYear <= LastPeriod[clock.perYear]]
      BY <2>2 DEF OpenPeriod
    <3>2. clock'.perYear = clock.perYear /\ clock'.sub = 1 /\ clock'.t = clock.t + 1
      BY <2>1, <3>1
    <3>3. clock' \in [perYear : Granularities, t : Nat, sub : 1 .. 12, fullYear : BOOLEAN]
      <4> DEFINE full == clock.t + clock.perYear <= LastPeriod[clock.perYear]
      <4>1. clock.t + 1 \in Nat /\ full \in BOOLEAN
        BY <1>2
      <4> HIDE DEF full
      <4> DEFINE c1 == [clock EXCEPT !.t = @ + 1]
                 c2 == [c1 EXCEPT !.sub = 1]
      <4>2. c1 \in [perYear : Granularities, t : Nat, sub : 1 .. 12, fullYear : BOOLEAN]
        BY <2>1, <4>1
      <4> HIDE DEF c1
      <4>3. c2 \in [perYear : Granularities, t : Nat, sub : 1 .. 12, fullYear : BOOLEAN]
        BY <4>2
      <4> HIDE DEF c2
      <4>4. [c2 EXCEPT !.fullYear = full]
                \in [perYear : Granularities, t : Nat, sub : 1 .. 12, fullYear : BOOLEAN]
        BY <4>1, <4>3
      <4> QED BY <3>1, <4>4 DEF c1, c2, full
    <3> QED BY <1>2, <3>2, <3>3
  <2>3. CASE ~ClosesTaxYear
    <3>1. clock' = [clock EXCEPT !.t = @ + 1, !.sub = @ + 1]
      BY <2>3 DEF OpenPeriod
    <3>2. clock.sub < clock.perYear /\ clock.perYear <= 12
      BY <1>2, <2>3 DEF ClosesTaxYear
    <3>3. clock'.perYear = clock.perYear /\ clock'.sub = clock.sub + 1 /\ clock'.t = clock.t + 1
      BY <2>1, <3>1
    <3>4. clock.sub + 1 \in 1 .. 12 /\ clock.t + 1 \in Nat
      BY <1>2, <3>2
    <3>5. clock' \in [perYear : Granularities, t : Nat, sub : 1 .. 12, fullYear : BOOLEAN]
      BY <2>1, <3>1, <3>4
    <3> QED BY <1>2, <3>2, <3>3, <3>5
  <2> QED BY <2>2, <2>3
<1>4. opening' \in BooksOfAccount /\ yearOpen' \in BooksOfAccount /\ prepaid' \in Int
  BY DEF TypeOK, OpenPeriod
<1> QED BY <1>1, <1>3, <1>4 DEF TypeOK, OpenPeriod

LEMMA InitType == Init => TypeOK
<1> SUFFICES ASSUME Init PROVE TypeOK
  OBVIOUS
<1>1. PICK n \in Granularities : \E s \in 1 .. n :
           clock = [perYear |-> n, t |-> 0, sub |-> s, fullYear |-> FALSE]
  BY DEF Init
<1>2. PICK s \in 1 .. n : clock = [perYear |-> n, t |-> 0, sub |-> s, fullYear |-> FALSE]
  BY <1>1
<1>3. n \in {1, 2, 4, 12} /\ LastPeriod[n] \in Nat /\ OpeningBooks \in BooksOfAccount
  BY PeriodAssumption
<1>4. /\ clock \in [perYear : Granularities, t : Nat, sub : 1 .. 12, fullYear : BOOLEAN]
      /\ clock.sub <= clock.perYear /\ clock.t <= LastPeriod[clock.perYear]
  BY <1>2, <1>3
<1> QED BY <1>3, <1>4 DEF Init, TypeOK, Phases, NextPhase, PhaseOrder

LEMMA NextType == TypeOK /\ [Next]_vars => TypeOK'
<1> SUFFICES ASSUME TypeOK, [Next]_vars PROVE TypeOK'
  OBVIOUS
<1>1. CASE OpenPeriod
  BY <1>1, OpenType
<1>2. CASE Compute
  BY <1>2, GrowthType, IncomeType, WithholdType, ContributionsType, LiabilitiesType,
     ExpensesType, EventsType, SnapshotType, YieldType, PayPriorType, ForcedType, PrepayType,
     FundType, PenaltiesType, SettleType, SweepType, ReestimateType, CloseType DEF Compute
<1>3. CASE Stopped \/ UNCHANGED vars
  BY <1>3 DEF Stopped, vars, TypeOK
<1> QED BY <1>1, <1>2, <1>3 DEF Next

\* Every reachable state is well typed: the postings of every phase keep the books
\* a record of whole money amounts, whatever the rates, the events and the sources.
THEOREM TypeCorrect == Spec => []TypeOK
BY InitType, NextType, PTL DEF Spec
-----------------------------------------------------------------------------
(* The funding waterfall: FundedOrExhausted.  It is not inductive by itself; while the  *)
(* waterfall runs, either cash is at the floor or every source visited so far is        *)
(* exhausted -- a draw from a later source leaves the earlier ones as they are.  And    *)
(* NeverOversold: nothing takes more of a holding, or pays more of a loan, than there   *)
(* is, though growth and loan service are reckoned from the interval's opening books.   *)

Visited(b, n) == Shortfall(b) <= 0 \/ \A j \in 1 .. Len(DrawPriority) :
                                          j < n => Exhausted(b, DrawPriority[j])

FundingInv == FundedOrExhausted /\ (phase = "fund" => Visited(books, i))
-----------------------------------------------------------------------------
(* One source. *)

LEMMA SaleEffect ==
    ASSUME NEW b \in BooksOfAccount, NEW h \in Holdings, Market(b, h) > 0
    PROVE  /\ Market(SellProperty(b, h), h) = 0
           /\ \A g \in Holdings : g # h => Market(SellProperty(b, h), g) = Market(b, g)
<1> DEFINE price    == Market(b, h)
           realized == RealizeWhole(b, h, Cash)
           costed   == BookSaleCosts(realized, price)
           s        == LoanPayoff(costed, h)
<1>1. price \in Int
  BY MarketType
<1>2. /\ realized \in BooksOfAccount /\ Market(realized, h) = 0
      /\ \A g \in Holdings : g # h => Market(realized, g) = Market(b, g)
  BY <1>1, RealizeType, RealizeToCash DEF RealizeWhole, Lesser
<1>3. SaleCosts(price) \in Int
  BY <1>1, SaleCostsType
<1>4. /\ costed \in BooksOfAccount
      /\ \A g \in Holdings : Market(costed, g) = Market(realized, g)
  <2> HIDE DEF realized, price
  <2>1. costed \in BooksOfAccount
    BY <1>2, <1>3, SaleCostLegs DEF BookSaleCosts
  <2>2. costed.cost = realized.cost /\ costed.val = realized.val
    BY <1>2 DEF BookSaleCosts, BooksOfAccount
  <2> QED BY <2>1, <2>2 DEF Market
<1>5. \A g \in Holdings : Market(s, g) = Market(costed, g)
  <2> HIDE DEF costed
  <2>1. s.cost = costed.cost /\ s.val = costed.val
    BY <1>4 DEF LoanPayoff, BooksOfAccount
  <2> QED BY <2>1 DEF Market
<1>6. SellProperty(b, h) = s
  BY <1>1 DEF SellProperty
<1> HIDE DEF s, costed, realized
<1> QED BY <1>2, <1>4, <1>5, <1>6

\* A class is drawn from in one way.
LEMMA OneWay ==
    ASSUME NEW h \in Holdings
    PROVE  /\ ~(SupportsPartialDraw(h) /\ AutoSaleProperty(h))
           /\ ~(SupportsPartialDraw(h) /\ AutoSalePossession(h))
           /\ ~(AutoSaleProperty(h) /\ AutoSalePossession(h))
BY DEF SupportsPartialDraw, AutoSaleProperty, AutoSalePossession

\* What the waterfall does with a source, cash being short.
LEMMA DrawCases ==
    ASSUME NEW b, NEW h \in Holdings, ~(Shortfall(b) <= 0)
    PROVE  /\ SupportsPartialDraw(h) =>
                  DrawFrom(b, h) = Realize(b, h, RoundUp(Shortfall(b), Frac), Cash)
           /\ AutoSaleProperty(h) => DrawFrom(b, h) = SellProperty(b, h)
           /\ AutoSalePossession(h) => DrawFrom(b, h) = Realize(b, h, Market(b, h), Cash)
           /\ ~Handled(h) => DrawFrom(b, h) = b
BY OneWay DEF DrawFrom, Handled, RealizeWhole

\* A divisible source covers the shortfall or gives all it has.
LEMMA PartialDraw ==
    ASSUME TypeOK, NEW b \in BooksOfAccount, NEW h \in Holdings,
           Shortfall(b) > 0, Market(b, h) > 0
    PROVE  LET d == Realize(b, h, RoundUp(Shortfall(b), Frac), Cash)
           IN  Shortfall(d) <= 0 \/ Market(d, h) <= 0
<1> DEFINE need == RoundUp(Shortfall(b), Frac)
           d    == Realize(b, h, need, Cash)
<1>1. Shortfall(b) \in Int /\ Market(b, h) \in Int
  BY ShortfallType, MarketType
<1>2. b.cash \in Int /\ Frac \in Nat \ {0} /\ params.floor \in Int
  BY FlowTypes, FracType, ParametersType
<1>3. need \in Int /\ Frac * need >= Shortfall(b)
  BY <1>1, <1>2, RoundUpCovers
<1>4. /\ d.cash = b.cash + Lesser(need, Market(b, h))
      /\ Market(d, h) = Market(b, h) - Lesser(need, Market(b, h))
  <2> HIDE DEF need
  <2> QED BY <1>3, RealizeToCash
<1> HIDE DEF d, need
<1>5. CASE need <= Market(b, h)
  <2>1. d.cash = b.cash + need
    BY <1>4, <1>5 DEF Lesser
  <2>2. Shortfall(d) <= 0
    BY <1>2, <1>3, <2>1 DEF Shortfall
  <2> QED BY <2>2 DEF d, need
<1>6. CASE ~(need <= Market(b, h))
  <2>1. Market(d, h) <= 0
    BY <1>1, <1>4, <1>6 DEF Lesser
  <2> QED BY <2>1 DEF d, need
<1> QED BY <1>5, <1>6

\* A source that is short of cash either covers the shortfall or is exhausted, and
\* leaves every other source as it was.
LEMMA DrawEffect ==
    ASSUME TypeOK, NEW b \in BooksOfAccount, NEW h \in Holdings, Shortfall(b) > 0
    PROVE  /\ Shortfall(DrawFrom(b, h)) <= 0 \/ Exhausted(DrawFrom(b, h), h)
           /\ \A g \in Holdings : g # h => Market(DrawFrom(b, h), g) = Market(b, g)
<1>1. Shortfall(b) \in Int /\ Market(b, h) \in Int /\ ~(Shortfall(b) <= 0)
  BY ShortfallType, MarketType
<1>2. CASE ~Handled(h)
  BY <1>1, <1>2, DrawCases DEF Exhausted
<1>3. CASE Handled(h) /\ Market(b, h) <= 0
  <2>1. DrawFrom(b, h) = b
    BY <1>1, <1>3, DrawCases DEF Handled, Realize, SellProperty
  <2> QED BY <1>3, <2>1 DEF Exhausted
<1>4. CASE SupportsPartialDraw(h) /\ Market(b, h) > 0
  <2> DEFINE need == RoundUp(Shortfall(b), Frac)
  <2>1. need \in Int
    BY <1>1, FracType, RoundUpCovers
  <2>2. DrawFrom(b, h) = Realize(b, h, need, Cash)
    BY <1>1, <1>4, DrawCases
  <2>3. Shortfall(Realize(b, h, need, Cash)) <= 0 \/ Market(Realize(b, h, need, Cash), h) <= 0
    BY <1>4, PartialDraw
  <2> HIDE DEF need
  <2>4. \A g \in Holdings : g # h => Market(Realize(b, h, need, Cash), g) = Market(b, g)
    BY <1>4, <2>1, RealizeToCash
  <2> QED BY <2>2, <2>3, <2>4 DEF Exhausted
<1>5. CASE AutoSaleProperty(h) /\ Market(b, h) > 0
  <2>1. DrawFrom(b, h) = SellProperty(b, h)
    BY <1>1, <1>5, DrawCases
  <2>2. Market(DrawFrom(b, h), h) <= 0
    BY <1>5, <2>1, SaleEffect
  <2>3. \A g \in Holdings : g # h => Market(DrawFrom(b, h), g) = Market(b, g)
    BY <1>5, <2>1, SaleEffect
  <2> QED BY <2>2, <2>3 DEF Exhausted
<1>6. CASE AutoSalePossession(h) /\ Market(b, h) > 0
  <2>1. DrawFrom(b, h) = Realize(b, h, Market(b, h), Cash)
    BY <1>1, <1>6, DrawCases
  <2>2. /\ Market(DrawFrom(b, h), h) = Market(b, h) - Lesser(Market(b, h), Market(b, h))
        /\ \A g \in Holdings : g # h => Market(DrawFrom(b, h), g) = Market(b, g)
    BY <1>1, <1>6, <2>1, RealizeToCash
  <2>3. Market(DrawFrom(b, h), h) <= 0
    BY <1>1, <2>2 DEF Lesser
  <2> QED BY <2>2, <2>3 DEF Exhausted
<1>7. Market(b, h) <= 0 \/ Market(b, h) > 0
  BY <1>1
<1> QED BY <1>2, <1>3, <1>4, <1>5, <1>6, <1>7 DEF Handled

\* What a source does to the claim about the sources visited.
LEMMA DrawVisits ==
    ASSUME TypeOK, i <= Len(DrawPriority), Visited(books, i)
    PROVE  Visited(DrawFrom(books, DrawPriority[i]), i + 1)
<1> DEFINE h == DrawPriority[i]
           d == DrawFrom(books, h)
<1>1. books \in BooksOfAccount /\ i \in Nat \ {0} /\ Shortfall(books) \in Int
  BY StateType, ShortfallType
<1>2. h \in Holdings
  BY <1>1, PeriodAssumption
<1>3. CASE Shortfall(books) <= 0
  BY <1>3 DEF DrawFrom, Visited
<1>4. CASE Shortfall(books) > 0
  <2>1. /\ Shortfall(d) <= 0 \/ Exhausted(d, h)
        /\ \A g \in Holdings : g # h => Market(d, g) = Market(books, g)
    <3> HIDE DEF h
    <3> QED BY <1>1, <1>2, <1>4, DrawEffect
  <2> HIDE DEF d
  <2>2. ASSUME ~(Shortfall(d) <= 0), NEW j \in 1 .. Len(DrawPriority), j < i + 1
        PROVE  Exhausted(d, DrawPriority[j])
    <3>1. DrawPriority[j] \in Holdings
      BY PeriodAssumption
    <3>2. CASE j = i
      BY <2>1, <2>2, <3>2
    <3>3. CASE j # i /\ DrawPriority[j] = h
      BY <2>1, <2>2, <3>3
    <3>4. CASE j # i /\ DrawPriority[j] # h
      <4>1. j < i
        BY <1>1, <2>2, <3>4
      <4>2. Exhausted(books, DrawPriority[j])
        BY <1>1, <1>4, <4>1 DEF Visited
      <4> QED BY <2>1, <3>1, <3>4, <4>2 DEF Exhausted
    <3> QED BY <3>2, <3>3, <3>4
  <2> QED BY <2>2 DEF Visited, d
<1> QED BY <1>1, <1>3, <1>4
-----------------------------------------------------------------------------
(* The phases. *)

\* A step that keeps cash and every holding keeps what the waterfall has achieved.
LEMMA SameWorth ==
    ASSUME UNCHANGED params, books'.cash = books.cash,
           books'.cost = books.cost, books'.val = books.val
    PROVE  /\ Shortfall(books)' = Shortfall(books)
           /\ AllExhausted(books)' <=> AllExhausted(books)
<1>1. Shortfall(books)' = Shortfall(books)
  BY DEF Shortfall
<1>2. \A h : Market(books, h)' = Market(books, h)
  BY DEF Market
<1> QED BY <1>1, <1>2 DEF AllExhausted, Exhausted

LEMMA BeforeFunding ==
    ASSUME phase' \in Phases \ (Funded \cup Swept), phase' = "fund" => i' = 1
    PROVE  FundingInv'
<1>1. ~(phase' \in Funded) /\ ~(phase' \in Swept)
  OBVIOUS
<1>2. phase' = "fund" => Visited(books, i)'
  <2> SUFFICES ASSUME phase' = "fund" PROVE Visited(books, i)'
    OBVIOUS
  <2>1. \A j \in 1 .. Len(DrawPriority) : ~(j < i')
    OBVIOUS
  <2> QED BY <2>1 DEF Visited
<1>3. FundedOrExhausted'
  BY <1>1 DEF FundedOrExhausted, Funded, Swept
<1> QED BY <1>2, <1>3 DEF FundingInv

LEMMA FundKeeps ==
    ASSUME TypeOK, FundingInv, FundToTarget
    PROVE  FundingInv'
<1>1. phase = "fund" /\ Visited(books, i) /\ params' = params
  BY DEF FundToTarget, Iterate, FundingInv, KeepInterval
<1>2. i \in Nat \ {0} /\ Len(DrawPriority) \in Nat
  BY StateType, PeriodAssumption
<1>3. Shortfall(books)' = Shortfall(books') /\ AllExhausted(books)' = AllExhausted(books')
  BY <1>1 DEF Shortfall, AllExhausted, Exhausted, Market
<1>4. Visited(books', i + 1)
  <2>1. CASE i <= Len(DrawPriority)
    <3>1. books' = DrawFrom(books, DrawPriority[i])
      BY <2>1 DEF FundToTarget
    <3>2. Visited(DrawFrom(books, DrawPriority[i]), i + 1)
      BY <1>1, <2>1, DrawVisits
    <3> QED BY <3>1, <3>2
  <2>2. CASE ~(i <= Len(DrawPriority))
    <3>1. books' = books
      BY <2>2 DEF FundToTarget
    <3>2. \A j \in 1 .. Len(DrawPriority) : j < i + 1 => j < i
      BY <1>2, <2>2
    <3> QED BY <1>1, <3>1, <3>2 DEF Visited
  <2> QED BY <2>1, <2>2
<1>5. CASE i < Len(DrawPriority)
  <2>1. phase' = "fund" /\ i' = i + 1
    BY <1>5 DEF FundToTarget, Iterate
  <2>2. Visited(books, i)'
    BY <1>3, <1>4, <2>1 DEF Visited, Exhausted, Market
  <2> QED BY <2>1, <2>2 DEF FundingInv, FundedOrExhausted, Funded, Swept
<1>6. CASE ~(i < Len(DrawPriority))
  <2>1. phase' = "penalties"
    BY <1>6 DEF FundToTarget, Iterate, NextPhase, PhaseOrder
  <2>2. \A j \in 1 .. Len(DrawPriority) : j < i + 1
    BY <1>2, <1>6
  <2>3. Shortfall(books') <= 0 \/ AllExhausted(books')
    BY <1>4, <2>2 DEF Visited, AllExhausted
  <2> QED BY <1>3, <2>1, <2>3 DEF FundingInv, FundedOrExhausted, Funded, Swept
<1> QED BY <1>5, <1>6

LEMMA AccrueKeeps ==
    ASSUME TypeOK, NEW a
    PROVE  /\ Accrue(books, a).cash = books.cash /\ Accrue(books, a).cost = books.cost
           /\ Accrue(books, a).val = books.val
BY StateType DEF Accrue, BooksOfAccount

LEMMA YearEndKeeps ==
    ASSUME TypeOK, FundingInv, AssessPenalties \/ SettleTax
    PROVE  FundingInv'
<1>1. phase \in Funded /\ phase' \in Funded /\ phase' # "fund" /\ params' = params
  BY DEF AssessPenalties, SettleTax, Step, NextPhase, PhaseOrder, Funded, Quiet, KeepInterval
<1>2. books'.cash = books.cash /\ books'.cost = books.cost /\ books'.val = books.val
  BY AccrueKeeps DEF AssessPenalties, SettleTax
<1>3. Shortfall(books) <= 0 \/ AllExhausted(books)
  BY <1>1 DEF FundingInv, FundedOrExhausted
<1>4. (Shortfall(books) <= 0 \/ AllExhausted(books))'
  BY <1>1, <1>2, <1>3, SameWorth
<1> QED BY <1>1, <1>4 DEF FundingInv, FundedOrExhausted, Funded, Swept

\* The sweep takes only what is above the ceiling, to the nearest unit.
LEMMA SweepLeavesFloor ==
    ASSUME TypeOK, Surplus > 0
    PROVE  2 * (params.floor - Frac * (books.cash - Surplus)) <= Frac
<1>1. books.cash \in Int /\ Frac \in Nat \ {0} /\ params.floor \in Int /\ params.ceiling \in Int
  <2>1. books.cash \in Int
    BY StateType DEF BooksOfAccount
  <2>2. params.floor \in Int /\ params.ceiling \in Int
    BY ParametersType
  <2> QED BY <2>1, <2>2, FracType
<1> DEFINE n == Frac * books.cash - params.ceiling
           q == Quantize(n, Frac)
<1>2. n \in Int
  BY <1>1
<1>3. q \in Int /\ 2 * (Frac * q) <= 2 * n + Frac
  <2> HIDE DEF n
  <2> QED BY <1>1, <1>2, QuantizeType, QuantizeNear
<1>4. params.ceiling # NoBound /\ Surplus = q
  <2> HIDE DEF q
  <2>1. params.ceiling # NoBound /\ Surplus = Greater(0, q)
    BY DEF Surplus, q
  <2> QED BY <1>3, <2>1 DEF Greater
<1>5. params.ceiling >= params.floor
  BY <1>4, SweepAssumption DEF TypeOK, NoParameters
<1> HIDE DEF q
<1>6. Frac * (books.cash - Surplus) = Frac * books.cash - Frac * q
  BY <1>1, <1>3, <1>4
<1> QED BY <1>1, <1>3, <1>5, <1>6

LEMMA SweepKeeps ==
    ASSUME TypeOK, FundingInv, SweepToCeiling
    PROVE  FundingInv'
<1>1. phase = "sweep" /\ phase' = "reestimate" /\ params' = params
  BY DEF SweepToCeiling, Step, NextPhase, PhaseOrder, Quiet, KeepInterval
<1>2. Shortfall(books) <= 0 \/ AllExhausted(books)
  BY <1>1 DEF FundingInv, FundedOrExhausted, Funded
<1>3. books \in BooksOfAccount /\ Surplus \in Int /\ Frac \in Nat \ {0} /\ Shortfall(books) \in Int
  BY StateType, SurplusType, FracType, ShortfallType
<1>4. books'.cash = books.cash - Surplus /\ books'.val = books.val
      /\ books'.cost = [h \in Holdings |-> books.cost[h] + SweepPortion(h, Surplus)]
  BY <1>3 DEF SweepToCeiling, BooksOfAccount
<1>5. CASE Surplus = 0
  <2>1. books'.cash = books.cash
    BY <1>3, <1>4, <1>5 DEF BooksOfAccount
  <2>2. \A h \in Holdings : SweepPortion(h, Surplus) = 0
    <3> SUFFICES ASSUME NEW h \in Holdings PROVE SweepPortion(h, 0) = 0
      BY <1>5
    <3>1. SweepBand[h].to \in Nat /\ SweepBand[h].from \in Nat /\ SweepParts \in Nat \ {0}
      BY PeriodAssumption
    <3>2. Quantize(0, SweepParts) \in Int
      BY <3>1, QuantizeType
    <3>3. 0 * SweepBand[h].to = 0 /\ 0 * SweepBand[h].from = 0
      BY <3>1
    <3> QED BY <3>2, <3>3 DEF SweepPortion
  <2>3. books'.cost = books.cost
    BY <1>3, <1>4, <2>2 DEF BooksOfAccount
  <2>4. Shortfall(books)' = Shortfall(books) /\ (AllExhausted(books)' <=> AllExhausted(books))
    BY <1>1, <1>4, <2>1, <2>3, SameWorth
  <2>5. (2 * Shortfall(books) <= Frac \/ AllExhausted(books))'
    BY <1>2, <1>3, <2>4
  <2> QED BY <1>1, <2>5 DEF FundingInv, FundedOrExhausted, Funded, Swept
<1>6. CASE Surplus > 0
  <2>1. (2 * Shortfall(books) <= Frac)'
    BY <1>1, <1>4, <1>6, SweepLeavesFloor DEF Shortfall
  <2> QED BY <1>1, <2>1 DEF FundingInv, FundedOrExhausted, Funded, Swept
<1>7. Surplus >= 0
  <2>1. params.ceiling # NoBound =>
           Surplus = Greater(0, Quantize(Frac * books.cash - params.ceiling, Frac))
    BY DEF Surplus
  <2>2. params.ceiling = NoBound => Surplus = 0
    BY DEF Surplus
  <2> QED BY <1>3, <2>1, <2>2 DEF Greater
<1> QED BY <1>3, <1>5, <1>6, <1>7

\* The re-estimate and the close leave cash and the holdings alone.
LEMMA RestKeeps ==
    ASSUME TypeOK, FundingInv, ReestimateFutureTaxes \/ Close
    PROVE  FundingInv'
<1>1. /\ phase \in Swept /\ phase' \in Swept /\ phase' # "fund"
      /\ params' = params /\ clock' = clock
  BY DEF ReestimateFutureTaxes, Close, NextPhase, PhaseOrder, Swept, Quiet, KeepInterval
<1>2. books'.cash = books.cash /\ books'.cost = books.cost /\ books'.val = books.val
  BY StateType DEF ReestimateFutureTaxes, Close, BooksOfAccount
<1>3. clock.t > 0 => 2 * Shortfall(books) <= Frac \/ AllExhausted(books)
  BY <1>1 DEF FundingInv, FundedOrExhausted
<1>4. (clock.t > 0 => 2 * Shortfall(books) <= Frac \/ AllExhausted(books))'
  BY <1>1, <1>2, <1>3, SameWorth
<1> QED BY <1>1, <1>4 DEF FundingInv, FundedOrExhausted, Funded, Swept

\* The other phases come before the waterfall.
LEMMA EarlierKeep ==
    ASSUME TypeOK, OpenPeriod \/ Compute,
           ~(FundToTarget \/ AssessPenalties \/ SettleTax \/ SweepToCeiling
             \/ ReestimateFutureTaxes \/ Close)
    PROVE  FundingInv'
<1> DEFINE Here == {"growth", "income", "withhold", "contributions", "liabilities", "expenses",
                    "events", "distributions", "yield", "payPrior", "forced", "prepay"}
<1>1. CASE OpenPeriod
  <2>1. phase' = "growth"
    BY <1>1 DEF OpenPeriod
  <2> QED BY <2>1, BeforeFunding DEF Phases, NextPhase, PhaseOrder, Funded, Swept
<1>2. \A p \in Here : NextPhase[p] \in Here \cup {"fund"}
  BY DEF NextPhase, PhaseOrder
<1>3. ASSUME NEW p \in Here, Step(p)
      PROVE  phase' \in Here \cup {"fund"} /\ i' = 1
  BY <1>2, <1>3 DEF Step
<1>4. ASSUME NEW p \in Here, NEW n, Iterate(p, n)
      PROVE  phase' \in Here \cup {"fund"} /\ (phase' = "fund" => i' = 1)
  BY <1>2, <1>4 DEF Iterate
<1>5. CASE Compute
  <2>1. \/ \E p \in Here : Step(p)
        \/ \E p \in Here : \E n \in {Len(ChartOrder), Len(params.contributions),
               Len(params.events), Len(params.forced), 4} : Iterate(p, n)
    BY <1>5 DEF Compute, ApplyGrowth, RecognizeIncome, WithholdEmploymentTax, ApplyContributions,
       ServiceLiabilities, ApplyExpenses, ApplyEvents, SnapshotYieldBasis, ApplyDistributions,
       PayPriorTaxPayable, CheckForcedTransactions, PrepayIncomeTaxEstimate
  <2>2. phase' \in Here \cup {"fund"} /\ (phase' = "fund" => i' = 1)
    BY <1>3, <1>4, <2>1
  <2> QED BY <2>2, BeforeFunding DEF Phases, NextPhase, PhaseOrder, Funded, Swept
<1> QED BY <1>1, <1>5

LEMMA InitFunding == Init => FundingInv
BY DEF Init, FundingInv, FundedOrExhausted, Funded, Swept

LEMMA NextFunding == TypeOK /\ FundingInv /\ [Next]_vars => FundingInv'
<1> SUFFICES ASSUME TypeOK, FundingInv, [Next]_vars PROVE FundingInv'
  OBVIOUS
<1>1. CASE Stopped \/ UNCHANGED vars
  BY <1>1 DEF Stopped, vars, FundingInv, FundedOrExhausted, Visited, Shortfall, AllExhausted,
     Exhausted, Market
<1>2. CASE OpenPeriod \/ Compute
  BY <1>2, FundKeeps, YearEndKeeps, SweepKeeps, RestKeeps, EarlierKeep
<1> QED BY <1>1, <1>2 DEF Next

\* After the waterfall, either cash is at the floor (to within half a money unit of
\* the sweep's rounding) or no source it may sell is worth anything, for any
\* household, order of sources, floor and ceiling.
THEOREM WaterfallIsThorough == Spec => []FundedOrExhausted
<1>1. Init => TypeOK /\ FundingInv
  BY InitType, InitFunding
<1>2. (TypeOK /\ FundingInv) /\ [Next]_vars => (TypeOK /\ FundingInv)'
  BY NextType, NextFunding
<1>3. FundingInv => FundedOrExhausted
  BY DEF FundingInv
<1> QED BY <1>1, <1>2, <1>3, PTL DEF Spec
-----------------------------------------------------------------------------
(* NeverOversold. *)

\* What the books promise of every holding and loan, where m is still to be borrowed.
Covered(b, m) == \A h \in Holdings : /\ AccruesUnrealizedGains(h) => Market(b, h) >= 0
                                     /\ b.debt[h] + m[h] >= 0

Awaitable == [Holdings -> Nat]
Nothing == [h \in Holdings |-> 0]
Pending == [h \in Holdings |-> ToBorrow(h)]

\* The phases before which nothing has paid a loan this interval.
Unserviced == {"growth", "income", "withhold", "contributions", "liabilities"}

\* While holdings grow, those still to come are worth what they were as the interval opened.
Ungrown == \A j \in 1 .. Len(ChartOrder) :
               i <= j /\ ChartOrder[j] # Cash => Market(books, ChartOrder[j]) = Market(opening, ChartOrder[j])

OversoldInv ==
    /\ Covered(books, Pending) /\ Covered(opening, Nothing)
    /\ phase \in Unserviced => books.debt = opening.debt
    /\ phase = "growth" => Ungrown

-----------------------------------------------------------------------------
(* What the operations of the books do to a covered household. *)

LEMMA SameCover ==
    ASSUME NEW b, NEW c, c.cost = b.cost, c.val = b.val, c.debt = b.debt, NEW m \in Awaitable, Covered(b, m)
    PROVE  Covered(c, m)
BY DEF Covered, Market

LEMMA ReceiveMarket ==
    ASSUME NEW b \in BooksOfAccount, NEW x \in Places, NEW a \in Int, NEW r, r = Receive(b, x, a)
    PROVE  /\ r.debt = b.debt
           /\ \A h \in Holdings : Market(r, h) = IF h = x THEN Market(b, h) + a ELSE Market(b, h)
<1>1. b.cost \in [Holdings -> Int] /\ b.val \in [Holdings -> Int]
  BY DEF BooksOfAccount
<1>2. /\ r.debt = b.debt /\ r.val = b.val
      /\ x = Cash => r.cash = b.cash + a /\ r.cost = b.cost
      /\ x # Cash => r.cash = b.cash /\ r.cost = [b.cost EXCEPT ![x] = @ + a]
  BY ReceiveEffect DEF Places
<1>3. CASE x = Cash
  BY <1>2, <1>3, CashIsTheHub DEF Market
<1>4. CASE x # Cash
  <2>1. \A h \in Holdings : r.cost[h] = IF h = x THEN b.cost[h] + a ELSE b.cost[h]
    BY <1>1, <1>2, <1>4
  <2> QED BY <1>1, <1>2, <2>1 DEF Market
<1> QED BY <1>3, <1>4

LEMMA ReceiveCovers ==
    ASSUME NEW b \in BooksOfAccount, NEW x \in Places, NEW a \in Int, a >= 0 \/ x \in FaceValue,
           NEW m \in Awaitable, Covered(b, m)
    PROVE  Covered(Receive(b, x, a), m)
<1> DEFINE r == Receive(b, x, a)
<1>1. /\ r.debt = b.debt
      /\ \A h \in Holdings : Market(r, h) = IF h = x THEN Market(b, h) + a ELSE Market(b, h)
  BY ReceiveMarket
<1> HIDE DEF r
<1>2. ASSUME NEW h \in Holdings, AccruesUnrealizedGains(h) PROVE Market(r, h) >= 0
  <2>1. Market(b, h) \in Int /\ Market(b, h) >= 0
    BY <1>2, MarketType DEF Covered
  <2>2. h = x => a >= 0
    BY <1>2, CashIsTheHub DEF FaceValue
  <2> QED BY <1>1, <2>1, <2>2
<1>3. Covered(r, m)
  BY <1>1, <1>2 DEF Covered
<1> QED BY <1>3 DEF r

LEMMA TransferCovers ==
    ASSUME NEW b \in BooksOfAccount, NEW x \in FaceValue, NEW y \in Places, NEW a \in Nat,
           NEW m \in Awaitable, Covered(b, m)
    PROVE  Covered(Transfer(b, x, y, a), m)
<1> DEFINE b1 == Receive(b, x, -a)
<1>1. x \in Places /\ -a \in Int
  BY DEF FaceValue, Places
<1>2. b1 \in BooksOfAccount /\ Covered(b1, m)
  BY <1>1, ReceiveType, ReceiveCovers DEF Places
<1> HIDE DEF b1
<1>3. Covered(Receive(b1, y, a), m)
  BY <1>2, ReceiveCovers
<1> QED BY <1>3 DEF b1, Transfer

LEMMA PayoffCovers ==
    ASSUME NEW b \in BooksOfAccount, NEW h \in Holdings, NEW m \in Awaitable, Covered(b, m)
    PROVE  Covered(LoanPayoff(b, h), m)
<1> DEFINE r == LoanPayoff(b, h)
<1>1. /\ r.val = b.val /\ r.cost = b.cost /\ b.debt \in [Holdings -> Int]
      /\ b.debt[h] <= 0 => r.debt = b.debt
      /\ b.debt[h] > 0 => r.debt = [b.debt EXCEPT ![h] = 0]
  BY PayoffEffect DEF BooksOfAccount
<1> HIDE DEF r
<1>2. \A g \in Holdings : r.debt[g] \in {0, b.debt[g]}
  BY <1>1
<1>3. Covered(r, m)
  BY <1>1, <1>2 DEF Covered, Market, Awaitable
<1> QED BY <1>3 DEF r

LEMMA OriginationCovers ==
    ASSUME NEW b \in BooksOfAccount, NEW h \in Holdings, NEW a \in Nat, NEW m \in Awaitable, Covered(b, m)
    PROVE  Covered(LoanOrigination(b, h, a), m)
<1> DEFINE r == LoanOrigination(b, h, a)
<1>1. CASE a <= 0
  BY <1>1 DEF LoanOrigination
<1>2. CASE a > 0
  <2>1. r.cost = b.cost /\ r.val = b.val /\ r.debt = [b.debt EXCEPT ![h] = @ + a]
    BY <1>2 DEF LoanOrigination, BooksOfAccount
  <2>2. b.debt \in [Holdings -> Int]
    BY DEF BooksOfAccount
  <2> HIDE DEF r
  <2>3. \A g \in Holdings : r.debt[g] >= b.debt[g]
    BY <2>1, <2>2
  <2>4. Covered(r, m)
    BY <2>1, <2>2, <2>3 DEF Covered, Market, Awaitable
  <2> QED BY <2>4 DEF r
<1> QED BY <1>1, <1>2

\* What is originated need not be awaited any more.
LEMMA OriginationDelivers ==
    ASSUME NEW b \in BooksOfAccount, NEW h \in Holdings, NEW a \in Nat, NEW m \in Awaitable, Covered(b, m),
           NEW k \in Awaitable, m[h] <= a, \A g \in Holdings : g # h => k[g] = m[g]
    PROVE  Covered(LoanOrigination(b, h, a), k)
<1> DEFINE r == LoanOrigination(b, h, a)
<1>1. b.debt \in [Holdings -> Int]
  BY DEF BooksOfAccount
<1>2. r.cost = b.cost /\ r.val = b.val /\ r.debt[h] = b.debt[h] + a
      /\ \A g \in Holdings : g # h => r.debt[g] = b.debt[g]
  <2>1. CASE a <= 0
    BY <1>1, <2>1 DEF LoanOrigination
  <2>2. CASE a > 0
    BY <1>1, <2>2 DEF LoanOrigination, BooksOfAccount
  <2> QED BY <2>1, <2>2
<1> HIDE DEF r
<1>3. \A g \in Holdings : r.debt[g] + k[g] >= 0
  BY <1>1, <1>2 DEF Covered, Awaitable
<1>4. Covered(r, k)
  BY <1>2, <1>3 DEF Covered, Market
<1> QED BY <1>4 DEF r

\* A realization leaves its holding at zero or above, and what it puts elsewhere is positive.
LEMMA RealizeCovers ==
    ASSUME NEW b \in BooksOfAccount, NEW h \in Holdings, NEW a \in Nat, NEW x \in Places,
           NEW m \in Awaitable, Covered(b, m)
    PROVE  Covered(Realize(b, h, a, x), m)
<1>1. CASE Market(b, h) <= 0
  BY <1>1 DEF Realize
<1>2. CASE Market(b, h) > 0
  <2> DEFINE proceeds   == Lesser(a, Market(b, h))
             gain       == proceeds - CostSold(b, h, proceeds)
             recognized == IF RecognizesGain(h) THEN gain ELSE 0
             d == [b EXCEPT !.cost[h] = @ - (proceeds - gain), !.val[h] = @ - gain,
                            !.unrealized = @ - recognized, !.income = @ + recognized]
  <2>1. proceeds \in Nat /\ proceeds <= Market(b, h) /\ Market(b, h) \in Int
    BY <1>2, MarketType DEF Lesser
  <2>2. CostSold(b, h, proceeds) \in Int
    <3> HIDE DEF proceeds
    <3> QED BY <1>2, <2>1, CostSoldType
  <2>3. gain \in Int /\ recognized \in Int /\ proceeds - gain \in Int
    BY <2>1, <2>2
  <2>4. Realize(b, h, a, x) = Receive(d, x, proceeds)
    BY <1>2, MarketType DEF Realize
  <2> HIDE DEF proceeds, gain, recognized
  <2>5. d \in BooksOfAccount
    <3> DEFINE c == proceeds - gain
    <3>1. c \in Int /\ gain \in Int /\ recognized \in Int
      BY <2>3
    <3> HIDE DEF c
    <3>2. [b EXCEPT !.cost[h] = @ - c, !.val[h] = @ - gain,
                    !.unrealized = @ - recognized, !.income = @ + recognized] \in BooksOfAccount
      BY <3>1, RealizationLegs
    <3> QED BY <3>2 DEF c
  <2>6. /\ d.debt = b.debt
        /\ d.cost = [b.cost EXCEPT ![h] = @ - (proceeds - gain)]
        /\ d.val = [b.val EXCEPT ![h] = @ - gain]
    BY DEF BooksOfAccount
  <2>7. b.cost \in [Holdings -> Int] /\ b.val \in [Holdings -> Int]
    BY DEF BooksOfAccount
  <2> HIDE DEF d
  <2>8. Market(d, h) = Market(b, h) - proceeds
    <3>1. d.cost[h] = b.cost[h] - (proceeds - gain) /\ d.val[h] = b.val[h] - gain
      BY <2>6, <2>7
    <3>2. b.cost[h] \in Int /\ b.val[h] \in Int
      BY <2>7
    <3> QED BY <2>1, <2>3, <3>1, <3>2 DEF Market
  <2>9. \A g \in Holdings : g # h => Market(d, g) = Market(b, g)
    <3>1. \A g \in Holdings : g # h => d.cost[g] = b.cost[g] /\ d.val[g] = b.val[g]
      BY <2>6, <2>7
    <3> QED BY <3>1 DEF Market
  <2>10. Covered(d, m)
    <3>1. Market(d, h) >= 0
      BY <2>1, <2>8
    <3> QED BY <2>6, <2>9, <3>1 DEF Covered
  <2> QED BY <2>1, <2>4, <2>5, <2>10, ReceiveCovers
<1> QED BY <1>1, <1>2, MarketType

LEMMA SaleCovers ==
    ASSUME NEW b \in BooksOfAccount, NEW h \in Holdings, NEW m \in Awaitable, Covered(b, m)
    PROVE  Covered(SellProperty(b, h), m)
<1>1. CASE Market(b, h) <= 0
  BY <1>1 DEF SellProperty
<1>2. CASE Market(b, h) > 0
  <2> DEFINE price    == Market(b, h)
             realized == RealizeWhole(b, h, Cash)
             costed   == BookSaleCosts(realized, price)
  <2>1. price \in Nat
    BY <1>2, MarketType
  <2>2. realized \in BooksOfAccount /\ Covered(realized, m)
    BY <2>1, RealizeType, RealizeCovers DEF RealizeWhole, Places
  <2>3. costed \in BooksOfAccount /\ Covered(costed, m)
    <3> HIDE DEF price, realized
    <3>1. SaleCosts(price) \in Int
      BY <2>1, SaleCostsType
    <3>2. costed \in BooksOfAccount
      <4> DEFINE fees == SaleCosts(price)
      <4>1. fees \in Int /\ realized \in BooksOfAccount
        BY <2>2, <3>1
      <4>2. costed = [realized EXCEPT !.income = @ - fees, !.cash = @ - fees]
        BY DEF BookSaleCosts
      <4> HIDE DEF fees, costed
      <4> QED BY <4>1, <4>2, SaleCostLegs
    <3>3. costed.cost = realized.cost /\ costed.val = realized.val /\ costed.debt = realized.debt
      BY <2>2 DEF BookSaleCosts, BooksOfAccount
    <3> HIDE DEF costed
    <3> QED BY <2>2, <3>2, <3>3, SameCover
  <2>4. Covered(LoanPayoff(costed, h), m)
    <3> HIDE DEF costed
    <3> QED BY <2>3, PayoffCovers
  <2> QED BY <1>2, <2>1, <2>4 DEF SellProperty
<1> QED BY <1>1, <1>2, MarketType

LEMMA EventCovers ==
    ASSUME NEW b \in BooksOfAccount, NEW e \in Events, NEW m \in Awaitable, Covered(b, m)
    PROVE  Covered(ApplyEvent(b, e), m)
<1>1. CASE e.kind = "transfer"
  <2>1. e.from \in FaceValue /\ e.to \in Places /\ e.amount \in Nat
    BY <1>1 DEF Events
  <2> QED BY <1>1, <2>1, TransferCovers DEF ApplyEvent
<1>2. CASE e.kind = "external"
  <2>1. LET r == External(b, e.amount) IN r.cost = b.cost /\ r.val = b.val /\ r.debt = b.debt
    BY DEF External, BooksOfAccount
  <2> QED BY <1>2, <2>1, SameCover DEF ApplyEvent
<1>3. CASE e.kind = "realize"
  <2>1. e.holding \in Holdings /\ e.to \in Places /\ e.amount \in Nat
    BY <1>3 DEF Events
  <2> QED BY <1>3, <2>1, RealizeCovers DEF ApplyEvent
<1>4. CASE e.kind = "payoff"
  <2>1. e.holding \in Holdings
    BY <1>4 DEF Events
  <2> QED BY <1>4, <2>1, PayoffCovers DEF ApplyEvent
<1>5. CASE e.kind = "originate"
  <2>1. e.holding \in Holdings /\ e.principal \in Nat
    BY <1>5 DEF Events
  <2> QED BY <1>5, <2>1, OriginationCovers DEF ApplyEvent
<1>6. CASE e.kind = "sale"
  <2>1. e.holding \in Holdings
    BY <1>6 DEF Events
  <2> QED BY <1>6, <2>1, SaleCovers DEF ApplyEvent
<1>7. e.kind \in {"transfer", "external", "realize", "payoff", "sale", "originate"}
  BY DEF Events
<1> QED BY <1>1, <1>2, <1>3, <1>4, <1>5, <1>6, <1>7

LEMMA DrawCovers ==
    ASSUME TypeOK, NEW b \in BooksOfAccount, NEW h \in Holdings, NEW m \in Awaitable, Covered(b, m)
    PROVE  Covered(DrawFrom(b, h), m)
<1>1. CASE Shortfall(b) <= 0
  BY <1>1 DEF DrawFrom
<1>2. CASE ~(Shortfall(b) <= 0)
  <2>1. Shortfall(b) \in Int /\ Frac \in Nat \ {0} /\ Cash \in Places
    BY ShortfallType, FracType DEF Places
  <2>2. RoundUp(Shortfall(b), Frac) \in Nat
    <3> DEFINE s == Shortfall(b)
               u == RoundUp(s, Frac)
    <3>1. u \in Int /\ Frac * u >= s /\ s > 0 /\ s \in Int
      <4>1. s > 0 /\ s \in Int
        BY <1>2, <2>1
      <4> HIDE DEF s
      <4> QED BY <2>1, <4>1, RoundUpCovers
    <3> HIDE DEF u, s
    <3>2. u > 0
      BY <2>1, <3>1
    <3> QED BY <3>1, <3>2 DEF u, s
  <2>3. Covered(Realize(b, h, RoundUp(Shortfall(b), Frac), Cash), m) /\ Covered(SellProperty(b, h), m)
    BY <2>1, <2>2, RealizeCovers, SaleCovers
  <2>4. Covered(Realize(b, h, Market(b, h), Cash), m)
    <3>1. CASE Market(b, h) <= 0
      BY <3>1 DEF Realize
    <3>2. CASE Market(b, h) > 0
      <4>1. Market(b, h) \in Nat
        BY <3>2, MarketType
      <4> QED BY <2>1, <4>1, RealizeCovers
    <3> QED BY <3>1, <3>2, MarketType
  <2> QED BY <1>2, <2>3, <2>4, DrawCases DEF Handled
<1> QED BY <1>1, <1>2
-----------------------------------------------------------------------------
(* Each phase. *)

\* A borrowing is awaited only between the payment of its loan and the events.
Awaiting == {"expenses", "events"}

LEMMA PendingType ==
    ASSUME TypeOK
    PROVE  Pending \in Awaitable
<1>1. params.declared \in Nat
  BY ParametersType
<1> QED BY <1>1 DEF Pending, ToBorrow, Awaitable

LEMMA NonePending ==
    /\ phase \notin Awaiting => Pending = Nothing
    /\ phase' \notin Awaiting => Pending' = Nothing
BY DEF Awaiting, Pending, ToBorrow, Nothing

\* A phase that leaves every holding and loan alone.
Alone == UNCHANGED opening /\ books'.cost = books.cost /\ books'.val = books.val /\ books'.debt = books.debt

LEMMA AloneKeeps ==
    ASSUME OversoldInv, Alone, Pending' = Pending, phase' # "growth",
           phase' \in Unserviced => phase \in Unserviced
    PROVE  OversoldInv'
<1>1. Covered(books', Pending') /\ Covered(opening', Nothing)
  BY DEF OversoldInv, Alone, Covered, Market
<1>2. phase' \in Unserviced => books'.debt = opening'.debt
  BY DEF OversoldInv, Alone
<1> QED BY <1>1, <1>2 DEF OversoldInv, Covered, Market, Nothing

\* A phase after the loans are serviced.
LEMMA CoveredKeeps ==
    ASSUME OversoldInv, UNCHANGED opening, Covered(books', Pending'), phase' \notin Unserviced
    PROVE  OversoldInv'
<1>1. Covered(opening', Nothing)
  BY DEF OversoldInv
<1>2. phase' # "growth"
  BY DEF Unserviced
<1> QED BY <1>1, <1>2 DEF OversoldInv, Covered, Market, Nothing

\* Where a phase leads.
LEMMA LeadsTo ==
    /\ \A p \in DOMAIN NextPhase : NextPhase[p] # "growth"
    /\ \A p \in DOMAIN NextPhase : NextPhase[p] \in Unserviced => p \in Unserviced
    /\ "liabilities" \in DOMAIN NextPhase /\ NextPhase["liabilities"] \notin Unserviced
    /\ \A p \in {"growth", "income", "withhold", "contributions"} : NextPhase[p] \in Unserviced
BY DEF NextPhase, PhaseOrder, Unserviced

LEMMA GrowthCovers ==
    ASSUME TypeOK, OversoldInv, ApplyGrowth
    PROVE  OversoldInv'
<1>1. /\ phase = "growth" /\ opening' = opening /\ params' = params /\ Ungrown
      /\ Covered(books, Nothing) /\ Covered(opening, Nothing) /\ books.debt = opening.debt
      /\ Pending' = Nothing
  BY NonePending DEF ApplyGrowth, Iterate, Quiet, KeepInterval, OversoldInv, Unserviced, Awaiting,
     NextPhase, PhaseOrder
<1>2. books \in BooksOfAccount /\ opening \in BooksOfAccount /\ i \in Nat \ {0}
  BY StateType
<1>3. Len(ChartOrder) \in Nat /\ ChartOrder \in Seq(Places)
  BY PeriodAssumption
<1>4. CASE /\ i <= Len(ChartOrder) /\ ChartOrder[i] # Cash /\ AccruesUnrealizedGains(ChartOrder[i])
  <2> DEFINE h == ChartOrder[i]
             gain == Appreciation(h)
             value == Market(opening, h)
  <2>1. h \in Holdings /\ AccruesUnrealizedGains(h)
    <3>1. ChartOrder[i] \in Places
      BY <1>2, <1>3, <1>4
    <3> QED BY <1>4, <3>1 DEF Places
  <2>2. books' = Grow(books, h)
    BY <1>4 DEF ApplyGrowth
  <2>3. Market(books, h) = value
    BY <1>1, <1>2, <1>3, <1>4 DEF Ungrown
  <2> HIDE DEF h
  <2>4. value \in Nat
    BY <1>1, <1>2, <2>1, MarketType DEF Covered
  <2>5. gain \in Int /\ value + gain >= 0
    <3>1. params.growth[h] \in [num : Int, den : Nat \ {0}] /\ params.growth[h].num >= -params.growth[h].den
      BY <2>1, ParametersType DEF GrowthRates, Rates
    <3>2. ChangeOn(params.growth[h], value) \in Int /\ value + ChangeOn(params.growth[h], value) >= 0
      BY <2>4, <3>1, ChangeOnType, ChangeOnBounded
    <3>3. gain = -value \/ gain = ChangeOn(params.growth[h], value)
      BY DEF Appreciation
    <3> QED BY <2>4, <3>2, <3>3
  <2> HIDE DEF gain, value
  <2>6. /\ books'.cost = books.cost /\ books'.debt = books.debt
        /\ books'.val = [books.val EXCEPT ![h] = @ + gain]
    BY <1>2, <2>2 DEF Grow, BooksOfAccount, gain
  <2>7. books.cost \in [Holdings -> Int] /\ books.val \in [Holdings -> Int]
    BY <1>2 DEF BooksOfAccount
  <2>8. \A g \in Holdings : Market(books', g) = IF g = h THEN value + gain ELSE Market(books, g)
    <3>1. \A g \in Holdings : books'.val[g] = IF g = h THEN books.val[g] + gain ELSE books.val[g]
      BY <2>6, <2>7
    <3>2. books.cost[h] + books.val[h] = value /\ books.cost[h] \in Int /\ books.val[h] \in Int
      BY <2>1, <2>3, <2>7 DEF Market
    <3> QED BY <2>5, <2>6, <3>1, <3>2 DEF Market
  <2>9. Covered(books', Nothing)
    BY <1>1, <2>5, <2>6, <2>8 DEF Covered
  <2>10. ASSUME phase' = "growth" PROVE Ungrown'
    <3>1. i' = i + 1
      BY <2>10, LeadsTo DEF ApplyGrowth, Iterate, NextPhase, PhaseOrder
    <3> SUFFICES ASSUME NEW j \in 1 .. Len(ChartOrder), i + 1 <= j, ChartOrder[j] # Cash
                 PROVE  Market(books', ChartOrder[j]) = Market(opening, ChartOrder[j])
      BY <1>1, <3>1 DEF Ungrown, Market
    <3>2. i <= j /\ i # j
      BY <1>2
    <3>3. ChartOrder[j] \in Holdings /\ ChartOrder[j] # h
      <4>1. ChartOrder[j] \in Places
        BY <1>3
      <4>2. i \in 1 .. Len(ChartOrder)
        BY <1>2, <1>4
      <4>3. ChartOrder[j] # ChartOrder[i]
        BY <3>2, <4>2, HouseholdAssumption
      <4> QED BY <4>1, <4>3 DEF Places, h
    <3>4. Market(books, ChartOrder[j]) = Market(opening, ChartOrder[j])
      BY <1>1, <3>2 DEF Ungrown
    <3> QED BY <2>8, <3>3, <3>4
  <2> QED BY <1>1, <2>6, <2>9, <2>10 DEF OversoldInv, Covered, Market, Nothing
<1>5. CASE ~(/\ i <= Len(ChartOrder) /\ ChartOrder[i] # Cash /\ AccruesUnrealizedGains(ChartOrder[i]))
  <2>1. books' = books
    BY <1>5 DEF ApplyGrowth
  <2>2. ASSUME phase' = "growth" PROVE Ungrown'
    <3>1. i' = i + 1
      BY <2>2, LeadsTo DEF ApplyGrowth, Iterate, NextPhase, PhaseOrder
    <3>2. \A j \in 1 .. Len(ChartOrder) : i + 1 <= j => i <= j
      BY <1>2
    <3> QED BY <1>1, <2>1, <3>1, <3>2 DEF Ungrown, Market
  <2> QED BY <1>1, <2>1, <2>2 DEF OversoldInv, Covered, Market, Nothing
<1> QED BY <1>4, <1>5

\* What is added to a holding keeps the household covered.
LEMMA Built ==
    ASSUME NEW b \in BooksOfAccount, NEW m \in Awaitable, Covered(b, m), NEW h \in Holdings, NEW a \in Nat, NEW c,
           c.debt = b.debt,
           \/ c.cost = b.cost /\ c.val = [b.val EXCEPT ![h] = @ + a]
           \/ c.val = b.val /\ c.cost = [b.cost EXCEPT ![h] = @ + a]
    PROVE  Covered(c, m) /\ c.debt = b.debt
<1>1. b.cost \in [Holdings -> Int] /\ b.val \in [Holdings -> Int]
  BY DEF BooksOfAccount
<1>2. \A g \in Holdings : Market(c, g) >= Market(b, g) /\ Market(c, g) \in Int /\ Market(b, g) \in Int
  BY <1>1 DEF Market
<1> QED BY <1>2 DEF Covered

LEMMA ContributionCovers ==
    ASSUME TypeOK, OversoldInv, ApplyContributions
    PROVE  OversoldInv'
<1>1. phase = "contributions" /\ opening' = opening /\ books.debt = opening.debt
      /\ Covered(books, Nothing) /\ Covered(opening, Nothing) /\ Pending' = Nothing
  BY NonePending DEF ApplyContributions, Iterate, Quiet, KeepInterval, OversoldInv, Unserviced, Awaiting,
     NextPhase, PhaseOrder
<1>4. Nothing \in Awaitable
  BY DEF Nothing, Awaitable
<1>2. phase' # "growth"
  BY <1>1, LeadsTo DEF ApplyContributions, Iterate, NextPhase, PhaseOrder
<1>3. Covered(books', Nothing) /\ books'.debt = books.debt
  <2>1. CASE i <= Len(params.contributions)
    <3> DEFINE line == params.contributions[i]
               funded == IF line.matched THEN [books EXCEPT !.external = @ + line.amount]
                                         ELSE [books EXCEPT !.cash = @ - line.amount]
    <3>1. line \in [holding : Holdings, amount : Nat, matched : BOOLEAN]
      BY <2>1, ScheduledType
    <3>2. books' = Contribute(books, line)
      BY <2>1 DEF ApplyContributions
    <3> HIDE DEF line
    <3>3. books \in BooksOfAccount /\ line.holding \in Holdings /\ line.amount \in Nat
      BY <3>1, StateType
    <3>4. funded.cost = books.cost /\ funded.val = books.val /\ funded.debt = books.debt
          /\ funded \in BooksOfAccount
      <4>1. CASE line.matched
        BY <3>3, <4>1 DEF BooksOfAccount
      <4>2. CASE ~line.matched
        BY <3>3, <4>2 DEF BooksOfAccount
      <4> QED BY <4>1, <4>2
    <3>8. Covered(funded, Nothing)
      BY <1>1, <1>4, <3>4, SameCover
    <3>5. books' = IF Class[line.holding] = "PRETAX_RETIREMENT"
                   THEN [funded EXCEPT !.val[line.holding] = @ + line.amount]
                   ELSE [funded EXCEPT !.cost[line.holding] = @ + line.amount]
      BY <3>2 DEF Contribute
    <3> HIDE DEF funded
    <3>6. CASE Class[line.holding] = "PRETAX_RETIREMENT"
      <4>1. /\ books'.cost = funded.cost /\ books'.debt = funded.debt
            /\ books'.val = [funded.val EXCEPT ![line.holding] = @ + line.amount]
        BY <3>4, <3>5, <3>6 DEF BooksOfAccount
      <4> QED BY <1>4, <3>3, <3>4, <3>8, <4>1, Built
    <3>7. CASE Class[line.holding] # "PRETAX_RETIREMENT"
      <4>1. /\ books'.val = funded.val /\ books'.debt = funded.debt
            /\ books'.cost = [funded.cost EXCEPT ![line.holding] = @ + line.amount]
        BY <3>4, <3>5, <3>7 DEF BooksOfAccount
      <4> QED BY <1>4, <3>3, <3>4, <3>8, <4>1, Built
    <3> QED BY <3>6, <3>7
  <2>2. CASE ~(i <= Len(params.contributions))
    BY <1>1, <2>2 DEF ApplyContributions
  <2> QED BY <2>1, <2>2
<1> QED BY <1>1, <1>2, <1>3 DEF OversoldInv, Covered, Market, Nothing

\* The payment is clamped to the balance before the interval, which nothing has touched, or
\* to what the interval is still to borrow.
LEMMA ServiceCovers ==
    ASSUME TypeOK, OversoldInv, ServiceLiabilities
    PROVE  OversoldInv'
<1>1. phase = "liabilities" /\ opening' = opening /\ params' = params /\ books.debt = opening.debt
      /\ Covered(books, Nothing) /\ phase' = "expenses"
  BY NonePending DEF ServiceLiabilities, Step, Quiet, KeepInterval, OversoldInv, Unserviced, Awaiting,
     NextPhase, PhaseOrder
<1>2. phase' \notin Unserviced
  BY <1>1 DEF Unserviced
<1> DEFINE h == params.loan
           owed == Amortized
           principal == IF owed > 0 THEN Lesser(params.principal, owed) ELSE 0
           interest == IF owed > 0 THEN params.interest ELSE 0
<1>3. h \in Holdings /\ params.principal \in Nat /\ books \in BooksOfAccount /\ owed \in Int
      /\ params.declared \in Nat /\ books.debt \in [Holdings -> Int]
  BY ParametersType, StateType, AmortizedType DEF BooksOfAccount
<1>4. principal \in Int /\ (owed >= 0 => principal <= owed)
  BY <1>3 DEF Lesser
<1>5. /\ books'.cost = books.cost /\ books'.val = books.val
      /\ books'.debt = [books.debt EXCEPT ![h] = @ - principal]
  <2>1. books' = [books EXCEPT !.debt[h] = @ - principal, !.expense = @ + interest,
                               !.cash = @ - principal - interest]
    BY DEF ServiceLiabilities
  <2> HIDE DEF h, principal, interest
  <2> QED BY <1>3, <2>1 DEF BooksOfAccount
<1>6. \A g \in Holdings : books.debt[g] >= 0
  BY <1>1, <1>3 DEF Covered, Nothing
<1>7. /\ owed >= 0 /\ Pending' \in [Holdings -> Nat]
      /\ owed <= books.debt[h] + Pending'[h]
  <2>1. Pending' = [g \in Holdings |-> IF g = h /\ \E k \in 1 .. Len(params.events) :
                                              params.events[k] = Borrowing(params)
                                       THEN params.declared ELSE 0]
    BY <1>1 DEF Pending, ToBorrow, Borrowing
  <2>2. Pending' \in [Holdings -> Nat]
    BY <1>3, <2>1
  <2>3. CASE params.declared > 0
    <3>1. \E k \in 1 .. Len(params.events) : params.events[k] = Borrowing(params)
      BY <2>3, OriginationAssumption DEF TypeOK, NoParameters
    <3> QED BY <1>3, <1>6, <2>1, <2>2, <2>3, <3>1 DEF Amortized
  <2>4. CASE ~(params.declared > 0)
    <3>1. owed = books.debt[h]
      BY <1>1, <2>4 DEF Amortized
    <3> QED BY <1>3, <1>6, <2>2, <3>1
  <2> QED BY <2>3, <2>4
<1>8. \A g \in Holdings : books'.debt[g] + Pending'[g] >= 0
  <2> HIDE DEF principal, h, owed
  <2> QED BY <1>3, <1>4, <1>5, <1>6, <1>7
<1>9. Covered(books', Pending')
  BY <1>1, <1>5, <1>8 DEF Covered, Market
<1> QED BY <1>1, <1>2, <1>9, CoveredKeeps

\* What an event that is not the awaited borrowing leaves awaited, and what that leaves.
LEMMA EventsAwait ==
    ASSUME TypeOK, ApplyEvents
    PROVE  /\ \A g \in Holdings : g # params.loan => Pending[g] = 0 /\ Pending'[g] = 0
           /\ Pending'[params.loan] \in {0, Pending[params.loan]}
           /\ Pending'[params.loan] # Pending[params.loan] =>
                  /\ i <= Len(params.events) /\ params.events[i] = Borrowing(params)
                  /\ Pending[params.loan] = params.declared
<1>1. phase = "events" /\ params' = params /\ params.loan \in Holdings /\ params.declared \in Nat
      /\ i \in Nat \ {0} /\ params.events \in Seq(Events)
  BY ParametersType, StateType DEF ApplyEvents, Iterate, KeepInterval
<1> DEFINE Awaited(n) == \E k \in 1 .. Len(params.events) : n <= k /\ params.events[k] = Borrowing(params)
<1>2. Pending = [g \in Holdings |-> IF g = params.loan /\ Awaited(i) THEN params.declared ELSE 0]
  BY <1>1 DEF Pending, ToBorrow
<1>3. Pending' = [g \in Holdings |-> IF /\ phase' = "events" /\ g = params.loan /\ Awaited(i')
                                     THEN params.declared ELSE 0]
  <2>1. phase' \in {"events", "distributions"}
    BY DEF ApplyEvents, Iterate, NextPhase, PhaseOrder
  <2> QED BY <1>1, <2>1 DEF Pending, ToBorrow, Borrowing
<1>4. \/ phase' = "events" /\ i' = i + 1
      \/ phase' = "distributions" /\ i >= Len(params.events)
  BY <1>1 DEF ApplyEvents, Iterate, NextPhase, PhaseOrder
<1>5. Len(params.events) \in Nat
  BY <1>1
<1>6. Awaited(i + 1) => Awaited(i)
  BY <1>1, <1>5
<1>7. Awaited(i) => \/ Awaited(i + 1)
                    \/ i <= Len(params.events) /\ params.events[i] = Borrowing(params)
  BY <1>1, <1>5
<1>8. Awaited(i) /\ i >= Len(params.events) =>
          i <= Len(params.events) /\ params.events[i] = Borrowing(params)
  BY <1>1, <1>5
<1>9. ASSUME NEW n PROVE Awaited(n) \in BOOLEAN
  OBVIOUS
<1> HIDE DEF Awaited
<1> QED BY <1>1, <1>2, <1>3, <1>4, <1>6, <1>7, <1>8

LEMMA EventsCover ==
    ASSUME TypeOK, OversoldInv, ApplyEvents
    PROVE  OversoldInv'
<1>1. opening' = opening /\ phase' \notin Unserviced /\ Covered(books, Pending)
  BY DEF ApplyEvents, Iterate, KeepInterval, OversoldInv, Unserviced, NextPhase, PhaseOrder
<1>2. /\ books \in BooksOfAccount /\ params.loan \in Holdings /\ params.declared \in Nat
      /\ Pending \in Awaitable /\ Pending' \in Awaitable
  <2>1. Pending' \in Awaitable
    <3>1. params' = params
      BY DEF ApplyEvents, KeepInterval
    <3> QED BY <3>1, ParametersType DEF Pending, ToBorrow, Awaitable
  <2> QED BY <2>1, StateType, ParametersType, PendingType
<1>3. Covered(books', Pending')
  <2>1. CASE Pending' = Pending
    <3>1. CASE i <= Len(params.events)
      <4>1. params.events[i] \in Events
        BY <3>1, ScheduledType
      <4> QED BY <1>1, <1>2, <2>1, <3>1, <4>1, EventCovers DEF ApplyEvents
    <3>2. CASE ~(i <= Len(params.events))
      BY <1>1, <2>1, <3>2 DEF ApplyEvents
    <3> QED BY <3>1, <3>2
  <2>2. CASE Pending' # Pending
    <3>1. Pending'[params.loan] # Pending[params.loan]
      BY <1>2, <2>2, EventsAwait DEF Awaitable
    <3>2. /\ i <= Len(params.events) /\ params.events[i] = Borrowing(params)
          /\ Pending[params.loan] <= params.declared
          /\ \A g \in Holdings : g # params.loan => Pending'[g] = Pending[g]
      BY <1>2, <3>1, EventsAwait
    <3>3. books' = LoanOrigination(books, params.loan, params.declared)
      BY <3>2 DEF ApplyEvents, ApplyEvent, Borrowing
    <3> QED BY <1>1, <1>2, <3>2, <3>3, OriginationDelivers
  <2> QED BY <2>1, <2>2
<1> QED BY <1>1, <1>3, CoveredKeeps

LEMMA ForcedCovers ==
    ASSUME TypeOK, OversoldInv, CheckForcedTransactions
    PROVE  OversoldInv'
<1>1. opening' = opening /\ phase' \notin Unserviced /\ Covered(books, Nothing)
      /\ Pending' = Nothing /\ Nothing \in Awaitable
  BY NonePending DEF CheckForcedTransactions, Iterate, Quiet, KeepInterval, OversoldInv, Unserviced, NextPhase, PhaseOrder,
     Awaiting, Nothing, Awaitable
<1>2. Covered(books', Nothing)
  <2>1. CASE i <= Len(params.forced) /\ ClosesTaxYear
    <3>1. params.forced[i] \in [holding : Holdings, amount : Nat] /\ Cash \in Places
      BY <2>1, ScheduledType DEF Places
    <3> QED BY <1>1, <2>1, <3>1, StateType, RealizeCovers DEF CheckForcedTransactions
  <2>2. CASE ~(i <= Len(params.forced) /\ ClosesTaxYear)
    BY <1>1, <2>2 DEF CheckForcedTransactions
  <2> QED BY <2>1, <2>2
<1> QED BY <1>1, <1>2, CoveredKeeps

LEMMA FundCovers ==
    ASSUME TypeOK, OversoldInv, FundToTarget
    PROVE  OversoldInv'
<1>1. opening' = opening /\ phase' \notin Unserviced /\ Covered(books, Nothing)
      /\ Pending' = Nothing /\ Nothing \in Awaitable
  BY NonePending DEF FundToTarget, Iterate, KeepInterval, OversoldInv, Unserviced, NextPhase, PhaseOrder,
     Awaiting, Nothing, Awaitable
<1>2. Covered(books', Nothing)
  <2>1. CASE i <= Len(DrawPriority)
    <3>1. PICK h \in Holdings : h = DrawPriority[i]
      BY <2>1, PeriodAssumption, StateType
    <3> QED BY <1>1, <2>1, <3>1, StateType, DrawCovers DEF FundToTarget
  <2>2. CASE ~(i <= Len(DrawPriority))
    BY <1>1, <2>2 DEF FundToTarget
  <2> QED BY <2>1, <2>2
<1> QED BY <1>1, <1>2, CoveredKeeps

\* No portion of a surplus is negative: the bands are in order and rounding keeps it.
LEMMA SweepCovers ==
    ASSUME TypeOK, OversoldInv, SweepToCeiling
    PROVE  OversoldInv'
<1>1. opening' = opening /\ phase' \notin Unserviced /\ Covered(books, Nothing)
      /\ Pending' = Nothing /\ Nothing \in Awaitable
  BY NonePending DEF SweepToCeiling, Step, Quiet, KeepInterval, OversoldInv, Unserviced, NextPhase, PhaseOrder,
     Awaiting, Nothing, Awaitable
<1>2. books \in BooksOfAccount /\ Surplus \in Nat
  BY StateType, SurplusType
<1>3. books'.val = books.val /\ books'.debt = books.debt
      /\ books'.cost = [h \in Holdings |-> books.cost[h] + SweepPortion(h, Surplus)]
  BY <1>2 DEF SweepToCeiling, BooksOfAccount
<1>4. \A h \in Holdings : SweepPortion(h, Surplus) \in Nat
  <2> TAKE h \in Holdings
  <2> DEFINE s == Surplus
             from == SweepBand[h].from
             to == SweepBand[h].to
  <2>1. s \in Nat /\ from \in Nat /\ to \in Nat /\ from <= to /\ SweepParts \in Nat \ {0}
    BY <1>2, PeriodAssumption, SweepAssumption
  <2> HIDE DEF s, from, to
  <2>2. s * from \in Nat /\ s * to \in Nat /\ s * from <= s * to
    BY <2>1
  <2>3. /\ Quantize(s * to, SweepParts) \in Int /\ Quantize(s * from, SweepParts) \in Int
        /\ Quantize(s * from, SweepParts) <= Quantize(s * to, SweepParts)
    <3> DEFINE n == s * from
               m == s * to
    <3> HIDE DEF n, m
    <3>1. n \in Nat /\ m \in Nat /\ n <= m
      BY <2>2 DEF n, m
    <3>2. Quantize(n, SweepParts) \in Int /\ Quantize(m, SweepParts) \in Int
      BY <2>1, <3>1, QuantizeType
    <3>3. Quantize(n, SweepParts) <= Quantize(m, SweepParts)
      BY <2>1, <3>1, QuantizeMonotone
    <3> QED BY <3>2, <3>3 DEF n, m
  <2>4. Quantize(s * to, SweepParts) - Quantize(s * from, SweepParts) \in Nat
    BY <2>3
  <2> QED BY <2>4 DEF SweepPortion, s, from, to
<1>5. books.cost \in [Holdings -> Int] /\ books.val \in [Holdings -> Int]
  BY <1>2 DEF BooksOfAccount
<1>6. \A h \in Holdings : Market(books', h) >= Market(books, h) /\ Market(books, h) \in Int /\ Market(books', h) \in Int
  BY <1>3, <1>4, <1>5 DEF Market
<1>7. Covered(books', Nothing)
  BY <1>1, <1>3, <1>6 DEF Covered
<1> QED BY <1>1, <1>7, CoveredKeeps

\* The other phases touch neither a holding nor a loan.
LEMMA AloneOtherwise ==
    ASSUME TypeOK, OversoldInv,
           \/ RecognizeIncome \/ WithholdEmploymentTax \/ ApplyExpenses \/ SnapshotYieldBasis
           \/ PayPriorTaxPayable \/ AssessPenalties \/ SettleTax
           \/ ApplyDistributions \/ PrepayIncomeTaxEstimate \/ ReestimateFutureTaxes \/ Close
    PROVE  OversoldInv'
<1>1. books'.cost = books.cost /\ books'.val = books.val /\ books'.debt = books.debt
  BY StateType DEF RecognizeIncome, WithholdEmploymentTax, ApplyExpenses, SnapshotYieldBasis,
     PayPriorTaxPayable, AssessPenalties, SettleTax, Accrue, ApplyDistributions,
     PrepayIncomeTaxEstimate, ReestimateFutureTaxes, Close, BooksOfAccount
<1>2. opening' = opening
  BY DEF RecognizeIncome, WithholdEmploymentTax, ApplyExpenses, SnapshotYieldBasis,
     PayPriorTaxPayable, AssessPenalties, SettleTax, ApplyDistributions,
     PrepayIncomeTaxEstimate, ReestimateFutureTaxes, Close, Quiet, KeepInterval
<1>3. phase' # "growth" /\ (phase' \in Unserviced => phase \in Unserviced)
  <2>1. CASE ReestimateFutureTaxes \/ Close
    BY <2>1 DEF ReestimateFutureTaxes, Close, NextPhase, PhaseOrder, Unserviced
  <2>2. CASE RecognizeIncome \/ WithholdEmploymentTax \/ ApplyExpenses \/ SnapshotYieldBasis
             \/ PayPriorTaxPayable \/ AssessPenalties \/ SettleTax
    <3>1. \E p \in DOMAIN NextPhase : Step(p)
      BY <2>2 DEF RecognizeIncome, WithholdEmploymentTax, ApplyExpenses, SnapshotYieldBasis,
         PayPriorTaxPayable, AssessPenalties, SettleTax, NextPhase, PhaseOrder
    <3> QED BY <3>1, LeadsTo DEF Step
  <2>3. CASE ApplyDistributions \/ PrepayIncomeTaxEstimate
    BY <2>3 DEF ApplyDistributions, PrepayIncomeTaxEstimate, Iterate, NextPhase, PhaseOrder, Unserviced
  <2> QED BY <2>1, <2>2, <2>3
<1>4. Pending' = Pending
  <2>1. CASE ApplyExpenses
    <3>1. phase = "expenses" /\ phase' = "events" /\ i' = 1 /\ params' = params
      BY <2>1 DEF ApplyExpenses, Step, Quiet, KeepInterval, NextPhase, PhaseOrder
    <3> QED BY <3>1 DEF Pending, ToBorrow, Borrowing
  <2>2. CASE ~ApplyExpenses
    <3>1. phase \notin Awaiting /\ phase' \notin Awaiting
      BY <2>2 DEF RecognizeIncome, WithholdEmploymentTax, SnapshotYieldBasis,
         PayPriorTaxPayable, AssessPenalties, SettleTax, ApplyDistributions,
         PrepayIncomeTaxEstimate, ReestimateFutureTaxes, Close, Step, Iterate, NextPhase, PhaseOrder, Awaiting
    <3> QED BY <3>1, NonePending
  <2> QED BY <2>1, <2>2
<1> QED BY <1>1, <1>2, <1>3, <1>4, AloneKeeps DEF Alone

LEMMA OpenCovers ==
    ASSUME TypeOK, OversoldInv, OpenPeriod
    PROVE  OversoldInv'
<1>1. opening' = books /\ books' = books /\ Covered(books, Nothing) /\ Pending' = Nothing
  BY NonePending DEF OpenPeriod, OversoldInv, Awaiting
<1> QED BY <1>1 DEF OversoldInv, Ungrown, Covered, Market, Nothing

LEMMA InitCovers == Init => OversoldInv
<1> SUFFICES ASSUME Init PROVE OversoldInv
  OBVIOUS
<1>1. books = OpeningBooks /\ opening = OpeningBooks /\ phase = "reestimate"
  BY DEF Init
<1>2. Pending = Nothing
  BY <1>1, NonePending DEF Awaiting
<1>3. Covered(OpeningBooks, Nothing)
  <2>1. \A h \in Holdings : OpeningBooks.debt[h] \in Int
    BY PeriodAssumption DEF BooksOfAccount
  <2> QED BY <2>1, HouseholdAssumption DEF Covered, Nothing
<1> QED BY <1>1, <1>2, <1>3 DEF OversoldInv, Unserviced

LEMMA NextCovers == TypeOK /\ OversoldInv /\ [Next]_vars => OversoldInv'
<1> SUFFICES ASSUME TypeOK, OversoldInv, [Next]_vars PROVE OversoldInv'
  OBVIOUS
<1>1. CASE OpenPeriod
  BY <1>1, OpenCovers
<1>2. CASE Compute
  BY <1>2, GrowthCovers, ContributionCovers, ServiceCovers, EventsCover, ForcedCovers, FundCovers,
     SweepCovers, AloneOtherwise DEF Compute
<1>3. CASE Stopped \/ UNCHANGED vars
  BY <1>3 DEF Stopped, vars, OversoldInv, Ungrown, Covered, Market, Pending, ToBorrow, Borrowing, Nothing
<1> QED BY <1>1, <1>2, <1>3 DEF Next

\* No draw, forced distribution, sale, transfer or fall of the market takes an appreciating
\* holding below zero, and no payment a loan past its balance or past what the interval is
\* about to borrow of it, for any household whose holdings and loans start at zero or above.
THEOREM NothingIsOversold == Spec => []NeverOversold
<1>1. Init => TypeOK /\ OversoldInv
  BY InitType, InitCovers
<1>2. (TypeOK /\ OversoldInv) /\ [Next]_vars => (TypeOK /\ OversoldInv)'
  BY NextType, NextCovers
<1>3. OversoldInv => NeverOversold
  BY DEF OversoldInv, Covered, NeverOversold, Pending
<1> QED BY <1>1, <1>2, <1>3, PTL DEF Spec
-----------------------------------------------------------------------------
(* The tax accounts over the years: PayableIsThisYearsAccrual and                       *)
(* WithholdingFollowsTheYear.  Both relate four accounts to what they held as the tax    *)
(* year opened; only six phases touch them, and every transfer, sale and payoff leaves   *)
(* them alone.  And NoIncomeLeftUntaxed: what follows the assessment of a year earns     *)
(* nothing.                                                                              *)

PayableKept(b, c) == c.payable = b.payable /\ c.taxes = b.taxes
WagesKept(b, c)   == c.wages = b.wages /\ c.fica = b.fica
TaxSideKept(b, c) == PayableKept(b, c) /\ WagesKept(b, c)

\* Up to the payment of last year's tax; from the withholding on.
Early == {"growth", "income", "withhold", "contributions", "liabilities", "expenses",
          "events", "distributions", "yield", "payPrior"}
Withheld == DOMAIN NextPhase \ {"growth", "income", "withhold"}
-----------------------------------------------------------------------------
(* Operations that keep the tax side. *)

LEMMA ReceiveTax ==
    ASSUME NEW b \in BooksOfAccount, NEW x \in Places, NEW a \in Int
    PROVE  TaxSideKept(b, Receive(b, x, a))
BY DEF Receive, TaxSideKept, PayableKept, WagesKept, BooksOfAccount

LEMMA TransferTax ==
    ASSUME NEW b \in BooksOfAccount, NEW x \in Places, NEW y \in Places, NEW a \in Int
    PROVE  TaxSideKept(b, Transfer(b, x, y, a))
<1> DEFINE b1 == Receive(b, x, -a)
<1>1. b1 \in BooksOfAccount /\ TaxSideKept(b, b1)
  BY -a \in Int, ReceiveType, ReceiveTax DEF Places
<1> HIDE DEF b1
<1>2. TaxSideKept(b1, Receive(b1, y, a))
  BY <1>1, ReceiveTax
<1>3. TaxSideKept(b, Receive(b1, y, a))
  BY <1>1, <1>2 DEF TaxSideKept, PayableKept, WagesKept
<1> QED BY <1>3 DEF b1, Transfer

LEMMA PayoffTax ==
    ASSUME NEW b \in BooksOfAccount, NEW h \in Holdings
    PROVE  TaxSideKept(b, LoanPayoff(b, h))
BY DEF LoanPayoff, TaxSideKept, PayableKept, WagesKept, BooksOfAccount

LEMMA RealizeTax ==
    ASSUME NEW b \in BooksOfAccount, NEW h \in Holdings, NEW a \in Int, NEW x \in Places
    PROVE  TaxSideKept(b, Realize(b, h, a, x))
<1>1. CASE Market(b, h) <= 0
  BY <1>1 DEF Realize, TaxSideKept, PayableKept, WagesKept
<1>2. CASE Market(b, h) > 0
  <2> DEFINE proceeds   == Lesser(a, Market(b, h))
             gain       == proceeds - CostSold(b, h, proceeds)
             recognized == IF RecognizesGain(h) THEN gain ELSE 0
             d == [b EXCEPT !.cost[h] = @ - (proceeds - gain), !.val[h] = @ - gain,
                            !.unrealized = @ - recognized, !.income = @ + recognized]
  <2>1. proceeds \in Int
    BY MarketType DEF Lesser
  <2>2. CostSold(b, h, proceeds) \in Int
    <3> HIDE DEF proceeds
    <3> QED BY <1>2, <2>1, CostSoldType
  <2>3. gain \in Int /\ recognized \in Int /\ proceeds - gain \in Int
    BY <2>1, <2>2
  <2>4. d \in BooksOfAccount /\ TaxSideKept(b, d)
    <3> HIDE DEF proceeds, gain, recognized
    <3>1. d \in BooksOfAccount
      BY <2>3, RealizationLegs
    <3>2. TaxSideKept(b, d)
      BY DEF TaxSideKept, PayableKept, WagesKept, BooksOfAccount
    <3> QED BY <3>1, <3>2
  <2>5. TaxSideKept(d, Receive(d, x, proceeds))
    <3> HIDE DEF d, proceeds
    <3> QED BY <2>1, <2>4, ReceiveTax
  <2>6. Realize(b, h, a, x) = Receive(d, x, proceeds)
    BY <1>2, MarketType DEF Realize
  <2> HIDE DEF d, proceeds
  <2> QED BY <2>4, <2>5, <2>6 DEF TaxSideKept, PayableKept, WagesKept
<1> QED BY <1>1, <1>2, MarketType

LEMMA SaleTax ==
    ASSUME NEW b \in BooksOfAccount, NEW h \in Holdings
    PROVE  TaxSideKept(b, SellProperty(b, h))
<1> DEFINE price    == Market(b, h)
           realized == RealizeWhole(b, h, Cash)
           costed   == BookSaleCosts(realized, price)
<1>1. price \in Int
  BY MarketType
<1>2. realized \in BooksOfAccount /\ TaxSideKept(b, realized)
  BY <1>1, RealizeType, RealizeTax DEF RealizeWhole, Places
<1>3. costed \in BooksOfAccount /\ TaxSideKept(realized, costed)
  <2> HIDE DEF price, realized
  <2>1. SaleCosts(price) \in Int
    BY <1>1, SaleCostsType
  <2>2. costed \in BooksOfAccount
    BY <1>2, <2>1, SaleCostLegs DEF BookSaleCosts
  <2>3. TaxSideKept(realized, costed)
    BY <1>2, <2>1 DEF BookSaleCosts, TaxSideKept, PayableKept, WagesKept, BooksOfAccount
  <2> QED BY <2>2, <2>3
<1>4. TaxSideKept(costed, LoanPayoff(costed, h))
  <2> HIDE DEF costed
  <2> QED BY <1>3, PayoffTax
<1>5. SellProperty(b, h) = IF Market(b, h) <= 0 THEN b ELSE LoanPayoff(costed, h)
  BY DEF SellProperty
<1> HIDE DEF realized, costed, price
<1> QED BY <1>2, <1>3, <1>4, <1>5 DEF TaxSideKept, PayableKept, WagesKept

LEMMA EventTax ==
    ASSUME NEW b \in BooksOfAccount, NEW e \in Events
    PROVE  TaxSideKept(b, ApplyEvent(b, e))
<1>1. CASE e.kind = "transfer"
  <2>1. e.from \in Places /\ e.to \in Places /\ e.amount \in Int
    BY <1>1 DEF Events, FaceValue, Places
  <2> QED BY <1>1, <2>1, TransferTax DEF ApplyEvent
<1>2. CASE e.kind = "external"
  BY <1>2 DEF ApplyEvent, External, TaxSideKept, PayableKept, WagesKept, BooksOfAccount
<1>3. CASE e.kind = "realize"
  <2>1. e.holding \in Holdings /\ e.to \in Places /\ e.amount \in Int
    BY <1>3 DEF Events
  <2> QED BY <1>3, <2>1, RealizeTax DEF ApplyEvent
<1>4. CASE e.kind = "payoff"
  <2>1. e.holding \in Holdings
    BY <1>4 DEF Events
  <2> QED BY <1>4, <2>1, PayoffTax DEF ApplyEvent
<1>5. CASE e.kind = "originate"
  BY <1>5 DEF ApplyEvent, LoanOrigination, TaxSideKept, PayableKept, WagesKept, BooksOfAccount
<1>6. CASE e.kind = "sale"
  <2>1. e.holding \in Holdings
    BY <1>6 DEF Events
  <2> QED BY <1>6, <2>1, SaleTax DEF ApplyEvent
<1>7. e.kind \in {"transfer", "external", "realize", "payoff", "sale", "originate"}
  BY DEF Events
<1> QED BY <1>1, <1>2, <1>3, <1>4, <1>5, <1>6, <1>7

LEMMA DrawTax ==
    ASSUME TypeOK, NEW b \in BooksOfAccount, NEW h \in Holdings
    PROVE  TaxSideKept(b, DrawFrom(b, h))
<1>1. Shortfall(b) \in Int /\ Frac \in Nat \ {0} /\ Cash \in Places
  BY ShortfallType, FracType DEF Places
<1>2. RoundUp(Shortfall(b), Frac) \in Int
  BY <1>1, RoundUpCovers
<1>3. TaxSideKept(b, Realize(b, h, RoundUp(Shortfall(b), Frac), Cash))
  BY <1>1, <1>2, RealizeTax
<1>4. TaxSideKept(b, RealizeWhole(b, h, Cash))
  BY <1>1, MarketType, RealizeTax DEF RealizeWhole
<1>5. TaxSideKept(b, SellProperty(b, h)) /\ TaxSideKept(b, b)
  BY SaleTax DEF TaxSideKept, PayableKept, WagesKept
<1> QED BY <1>3, <1>4, <1>5 DEF DrawFrom
-----------------------------------------------------------------------------
(* Phases that keep the tax side, and the place of a phase in the interval. *)

\* What the phases that do not touch the tax accounts have in common.
Untaxed == /\ TaxSideKept(books, books') /\ KeepInterval /\ prepaid' = prepaid
           /\ (phase' \in Early <=> phase \in Early)
           /\ (phase' \in Withheld => phase \in Withheld)

LEMMA PhaseSide ==
    ASSUME NEW p \in DOMAIN NextPhase, Step(p) \/ \E n : Iterate(p, n)
    PROVE  /\ phase = p
           /\ p # "payPrior" => (phase' \in Early <=> phase \in Early)
           /\ p # "withhold" => (phase' \in Withheld => phase \in Withheld)
<1>1. phase = p /\ phase' \in {p, NextPhase[p]}
  BY DEF Step, Iterate
<1>2. p # "payPrior" => (NextPhase[p] \in Early <=> p \in Early)
  BY DEF NextPhase, PhaseOrder, Early
<1>3. p # "withhold" => (NextPhase[p] \in Withheld => p \in Withheld)
  BY DEF NextPhase, PhaseOrder, Withheld
<1> QED BY <1>1, <1>2, <1>3

\* A phase that posts only what keeps the tax side.
LEMMA UntaxedPhase ==
    ASSUME NEW p \in DOMAIN NextPhase, Step(p) \/ \E n : Iterate(p, n),
           p \notin {"payPrior", "withhold"}, TaxSideKept(books, books'), KeepInterval,
           prepaid' = prepaid
    PROVE  Untaxed
BY PhaseSide DEF Untaxed

LEMMA GrowthUntaxed ==
    ASSUME TypeOK, ApplyGrowth
    PROVE  Untaxed
<1>1. TaxSideKept(books, books')
  BY StateType DEF ApplyGrowth, Grow, TaxSideKept, PayableKept, WagesKept, BooksOfAccount
<1> QED BY <1>1, UntaxedPhase DEF ApplyGrowth, Quiet, KeepTallies, NextPhase, PhaseOrder

LEMMA ContributionsUntaxed ==
    ASSUME TypeOK, ApplyContributions
    PROVE  Untaxed
<1>1. ASSUME NEW line PROVE TaxSideKept(books, Contribute(books, line))
  BY StateType DEF Contribute, TaxSideKept, PayableKept, WagesKept, BooksOfAccount
<1>2. TaxSideKept(books, books')
  BY <1>1 DEF ApplyContributions, TaxSideKept, PayableKept, WagesKept
<1> QED BY <1>2, UntaxedPhase DEF ApplyContributions, Quiet, KeepTallies, NextPhase, PhaseOrder

LEMMA FlowsUntaxed ==
    ASSUME TypeOK, ServiceLiabilities \/ ApplyExpenses \/ ApplyDistributions
    PROVE  Untaxed
<1>1. CASE ServiceLiabilities
  <2>1. TaxSideKept(books, books')
    BY <1>1, StateType DEF ServiceLiabilities, TaxSideKept, PayableKept, WagesKept, BooksOfAccount
  <2> QED BY <1>1, <2>1, UntaxedPhase DEF ServiceLiabilities, Quiet, KeepTallies, NextPhase, PhaseOrder
<1>2. CASE ApplyExpenses
  <2>1. TaxSideKept(books, books')
    BY <1>2, StateType DEF ApplyExpenses, TaxSideKept, PayableKept, WagesKept, BooksOfAccount
  <2> QED BY <1>2, <2>1, UntaxedPhase DEF ApplyExpenses, Quiet, KeepTallies, NextPhase, PhaseOrder
<1>3. CASE ApplyDistributions
  <2>1. TaxSideKept(books, books')
    BY <1>3, StateType DEF ApplyDistributions, TaxSideKept, PayableKept, WagesKept, BooksOfAccount
  <2> QED BY <1>3, <2>1, UntaxedPhase DEF ApplyDistributions, Quiet, KeepTallies, NextPhase, PhaseOrder
<1> QED BY <1>1, <1>2, <1>3

LEMMA EventsUntaxed ==
    ASSUME TypeOK, ApplyEvents
    PROVE  Untaxed
<1>1. TaxSideKept(books, books')
  <2>1. CASE i <= Len(params.events)
    <3>2. params.events[i] \in Events
      BY <2>1, ScheduledType
    <3> QED BY <2>1, <3>2, StateType, EventTax DEF ApplyEvents
  <2>2. CASE ~(i <= Len(params.events))
    BY <2>2 DEF ApplyEvents, TaxSideKept, PayableKept, WagesKept
  <2> QED BY <2>1, <2>2
<1> QED BY <1>1, UntaxedPhase DEF ApplyEvents, NextPhase, PhaseOrder

LEMMA SnapshotUntaxed ==
    ASSUME TypeOK, SnapshotYieldBasis
    PROVE  Untaxed
<1>1. TaxSideKept(books, books')
  BY DEF SnapshotYieldBasis, TaxSideKept, PayableKept, WagesKept
<1> QED BY <1>1, UntaxedPhase DEF SnapshotYieldBasis, NextPhase, PhaseOrder

LEMMA ForcedUntaxed ==
    ASSUME TypeOK, CheckForcedTransactions
    PROVE  Untaxed
<1>1. TaxSideKept(books, books')
  <2>1. CASE i <= Len(params.forced) /\ ClosesTaxYear
    <3>2. params.forced[i] \in [holding : Holdings, amount : Nat] /\ Cash \in Places
      BY <2>1, ScheduledType DEF Places
    <3> QED BY <2>1, <3>2, StateType, RealizeTax DEF CheckForcedTransactions
  <2>2. CASE ~(i <= Len(params.forced) /\ ClosesTaxYear)
    BY <2>2 DEF CheckForcedTransactions, TaxSideKept, PayableKept, WagesKept
  <2> QED BY <2>1, <2>2
<1> QED BY <1>1, UntaxedPhase DEF CheckForcedTransactions, Quiet, KeepTallies, NextPhase, PhaseOrder

LEMMA FundUntaxed ==
    ASSUME TypeOK, FundToTarget
    PROVE  Untaxed
<1>1. TaxSideKept(books, books')
  <2>1. CASE i <= Len(DrawPriority)
    <3>1. PICK h \in Holdings : h = DrawPriority[i]
      BY <2>1, PeriodAssumption, StateType
    <3> QED BY <2>1, <3>1, StateType, DrawTax DEF FundToTarget
  <2>2. CASE ~(i <= Len(DrawPriority))
    BY <2>2 DEF FundToTarget, TaxSideKept, PayableKept, WagesKept
  <2> QED BY <2>1, <2>2
<1> QED BY <1>1, UntaxedPhase DEF FundToTarget, NextPhase, PhaseOrder

LEMMA SweepUntaxed ==
    ASSUME TypeOK, SweepToCeiling
    PROVE  Untaxed
<1>1. TaxSideKept(books, books')
  BY StateType DEF SweepToCeiling, TaxSideKept, PayableKept, WagesKept, BooksOfAccount
<1> QED BY <1>1, UntaxedPhase DEF SweepToCeiling, Quiet, KeepTallies, NextPhase, PhaseOrder

LEMMA RestUntaxed ==
    ASSUME TypeOK, ReestimateFutureTaxes \/ Close
    PROVE  Untaxed
<1>1. TaxSideKept(books, books')
  BY StateType DEF ReestimateFutureTaxes, Close, TaxSideKept, PayableKept, WagesKept, BooksOfAccount
<1>2. KeepInterval /\ prepaid' = prepaid
  BY DEF ReestimateFutureTaxes, Close, Quiet, KeepTallies
<1>3. phase \in {"reestimate", "close"} /\ phase' \in {"reestimate", "open", "close", "stopped"}
      /\ (phase = "close" => phase' \in {"open", "stopped"})
  BY DEF ReestimateFutureTaxes, Close, NextPhase, PhaseOrder
<1> QED BY <1>1, <1>2, <1>3 DEF Untaxed, Early, Withheld, NextPhase, PhaseOrder
-----------------------------------------------------------------------------
(* PayableIsThisYearsAccrual is inductive. *)

LEMMA TaxAmounts ==
    ASSUME TypeOK
    PROVE  /\ books.payable \in Int /\ books.taxes \in Int /\ books.wages \in Int
           /\ books.fica \in Int /\ yearOpen.payable \in Int /\ yearOpen.taxes \in Int
           /\ yearOpen.wages \in Int /\ yearOpen.fica \in Int /\ prepaid \in Int
BY StateType DEF BooksOfAccount

LEMMA SettledBy ==
    PriorSettled <=> clock.sub > PaymentSub \/ (clock.sub = PaymentSub /\ phase \notin Early)
BY DEF PriorSettled, Early

LEMMA SamePayable ==
    ASSUME PayableIsThisYearsAccrual, PayableKept(books, books'), KeepInterval, prepaid' = prepaid,
           phase' \in Early <=> phase \in Early
    PROVE  PayableIsThisYearsAccrual'
<1>1. PaymentSub' = PaymentSub
  BY DEF KeepInterval, PaymentSub, SubHolding
<1>2. PriorSettled' <=> PriorSettled
  BY <1>1 DEF PriorSettled, Early, KeepInterval
<1> QED BY <1>2 DEF PayableIsThisYearsAccrual, KeepInterval, PayableKept

LEMMA IncomePayable ==
    ASSUME TypeOK, PayableIsThisYearsAccrual, RecognizeIncome \/ WithholdEmploymentTax
    PROVE  PayableIsThisYearsAccrual'
<1>1. PayableKept(books, books')
  BY StateType DEF RecognizeIncome, WithholdEmploymentTax, PayableKept, BooksOfAccount
<1>2. KeepInterval /\ prepaid' = prepaid
  BY DEF RecognizeIncome, WithholdEmploymentTax, Quiet, KeepTallies
<1>3. phase' \in Early <=> phase \in Early
  BY DEF RecognizeIncome, WithholdEmploymentTax, Step, NextPhase, PhaseOrder, Early
<1> QED BY <1>1, <1>2, <1>3, SamePayable

\* What was owed as the year opened leaves as its payment date passes.
LEMMA PayPriorPayable ==
    ASSUME TypeOK, PayableIsThisYearsAccrual, PayPriorTaxPayable
    PROVE  PayableIsThisYearsAccrual'
<1>1. phase \in Early /\ phase' \notin Early /\ KeepInterval /\ prepaid' = prepaid
  BY DEF PayPriorTaxPayable, Step, NextPhase, PhaseOrder, Early, Quiet, KeepTallies
<1>2. PaymentSub' = PaymentSub
  BY <1>1 DEF KeepInterval, PaymentSub, SubHolding
<1>3. books'.taxes = books.taxes
  BY StateType DEF PayPriorTaxPayable, BooksOfAccount
<1>4. CASE clock.sub = PaymentSub
  <2>1. books'.payable = books.payable - yearOpen.payable
    BY <1>4, StateType DEF PayPriorTaxPayable, PriorPayable, BooksOfAccount
  <2>2. clock.sub \in Int
    BY DEF TypeOK
  <2>3. ~PriorSettled /\ PriorSettled'
    BY <1>1, <1>2, <1>4, <2>2, SettledBy DEF PriorSettled, Early, KeepInterval
  <2> QED BY <1>1, <1>3, <2>1, <2>3, TaxAmounts DEF PayableIsThisYearsAccrual, KeepInterval
<1>5. CASE clock.sub # PaymentSub
  <2>1. books'.payable = books.payable
    BY <1>5 DEF PayPriorTaxPayable
  <2>2. PriorSettled' <=> PriorSettled
    BY <1>1, <1>2, <1>5 DEF PriorSettled, KeepInterval
  <2> QED BY <1>1, <1>3, <2>1, <2>2 DEF PayableIsThisYearsAccrual, KeepInterval
<1> QED BY <1>4, <1>5

LEMMA PrepayPayable ==
    ASSUME TypeOK, PayableIsThisYearsAccrual, PrepayIncomeTaxEstimate
    PROVE  PayableIsThisYearsAccrual'
<1>1. KeepInterval /\ (phase' \in Early <=> phase \in Early)
  BY DEF PrepayIncomeTaxEstimate, Iterate, NextPhase, PhaseOrder, Early
<1>2. CASE clock.fullYear /\ i \in QuarterEnds /\ params.estimate > 0
  <2>1. EstimateIncrement(i) \in Int
    <3>1. params.estimate * i - 4 * prepaid \in Int
      BY ParametersType, StateType
    <3> QED BY <3>1, QuantizeType DEF EstimateIncrement
  <2>2. /\ books'.payable = books.payable - EstimateIncrement(i)
        /\ books'.taxes = books.taxes /\ prepaid' = prepaid + EstimateIncrement(i)
    BY <1>2, StateType DEF PrepayIncomeTaxEstimate, BooksOfAccount
  <2>3. PaymentSub' = PaymentSub
    BY <1>1 DEF KeepInterval, PaymentSub, SubHolding
  <2>4. PriorSettled' <=> PriorSettled
    BY <1>1, <2>3 DEF PriorSettled, Early, KeepInterval
  <2> QED BY <1>1, <2>1, <2>2, <2>4, TaxAmounts DEF PayableIsThisYearsAccrual, KeepInterval
<1>3. CASE ~(clock.fullYear /\ i \in QuarterEnds /\ params.estimate > 0)
  BY <1>1, <1>3, SamePayable DEF PrepayIncomeTaxEstimate, PayableKept
<1> QED BY <1>2, <1>3

LEMMA AccrualPayable ==
    ASSUME TypeOK, PayableIsThisYearsAccrual, AssessPenalties \/ SettleTax
    PROVE  PayableIsThisYearsAccrual'
<1>1. KeepInterval /\ prepaid' = prepaid /\ (phase' \in Early <=> phase \in Early)
  BY DEF AssessPenalties, SettleTax, Step, NextPhase, PhaseOrder, Early, Quiet, KeepTallies
<1>2. PICK a \in Int : books' = Accrue(books, a) \/ books' = books
  <2>1. CASE AssessPenalties
    BY <2>1, ParametersType DEF AssessPenalties
  <2>2. CASE SettleTax
    <3>1. CASE ClosesTaxYear /\ clock.fullYear
      <4>1. assessed' \in Int
        BY <2>2, <3>1, StateType DEF SettleTax, YearIncome, BooksOfAccount
      <4>2. ChangeOn(TaxRate, assessed') \in Int
        BY <4>1, RateTypes, ChangeOnType
      <4>3. Greater(0, ChangeOn(TaxRate, assessed')) - params.credit \in Int
        BY <4>2, ParametersType DEF Greater
      <4> QED BY <2>2, <3>1, <4>3 DEF SettleTax
    <3>2. CASE ~(ClosesTaxYear /\ clock.fullYear)
      BY <2>2, <3>2 DEF SettleTax
    <3> QED BY <3>1, <3>2
  <2> QED BY <2>1, <2>2
<1>3. CASE books' = Accrue(books, a)
  <2>1. books'.payable = books.payable + a /\ books'.taxes = books.taxes + a
    BY <1>3, StateType DEF Accrue, BooksOfAccount
  <2>2. PaymentSub' = PaymentSub
    BY <1>1 DEF KeepInterval, PaymentSub, SubHolding
  <2>3. PriorSettled' <=> PriorSettled
    BY <1>1, <2>2 DEF PriorSettled, Early, KeepInterval
  <2> QED BY <1>1, <1>2, <2>1, <2>3, TaxAmounts DEF PayableIsThisYearsAccrual, KeepInterval
<1>4. CASE books' = books
  BY <1>1, <1>4, SamePayable DEF PayableKept
<1> QED BY <1>2, <1>3, <1>4

\* A new tax year owes what the last one left, a new interval is one further.
LEMMA OpenPayable ==
    ASSUME TypeOK, PayableIsThisYearsAccrual, OpenPeriod
    PROVE  PayableIsThisYearsAccrual'
<1>1. /\ clock \in [perYear : Granularities, t : Nat, sub : 1 .. 12, fullYear : BOOLEAN]
      /\ clock.perYear \in {1, 2, 4, 12} /\ phase = "open" /\ phase' = "growth" /\ books' = books
  BY PeriodAssumption DEF TypeOK, OpenPeriod
<1>2. PaymentSub \in 1 .. 12
  BY <1>1 DEF PaymentSub, SubHolding
<1>3. CASE ClosesTaxYear
  <2>1. clock'.perYear = clock.perYear /\ clock'.sub = 1 /\ yearOpen' = books /\ prepaid' = 0
    BY <1>1, <1>3 DEF OpenPeriod
  <2>2. PaymentSub' = PaymentSub
    BY <2>1 DEF PaymentSub, SubHolding
  <2>3. ~PriorSettled'
    BY <1>1, <1>2, <2>1, <2>2 DEF PriorSettled
  <2> QED BY <1>1, <2>1, <2>3, TaxAmounts DEF PayableIsThisYearsAccrual
<1>4. CASE ~ClosesTaxYear
  <2>1. clock'.perYear = clock.perYear /\ clock'.sub = clock.sub + 1
        /\ yearOpen' = yearOpen /\ prepaid' = prepaid
    BY <1>1, <1>4 DEF OpenPeriod
  <2>2. PaymentSub' = PaymentSub
    BY <2>1 DEF PaymentSub, SubHolding
  <2>3. PriorSettled' <=> PriorSettled
    BY <1>1, <1>2, <2>1, <2>2 DEF PriorSettled
  <2> QED BY <1>1, <2>1, <2>3 DEF PayableIsThisYearsAccrual
<1> QED BY <1>3, <1>4

LEMMA UntaxedPayable ==
    ASSUME PayableIsThisYearsAccrual, Untaxed
    PROVE  PayableIsThisYearsAccrual'
BY SamePayable DEF Untaxed, TaxSideKept

LEMMA InitPayable == Init => PayableIsThisYearsAccrual
<1>1. OpeningBooks.payable = 0 /\ OpeningBooks.taxes \in Int
  BY PeriodAssumption DEF BooksOfAccount
<1> QED BY <1>1 DEF Init, PayableIsThisYearsAccrual

LEMMA NextPayable == TypeOK /\ PayableIsThisYearsAccrual /\ [Next]_vars => PayableIsThisYearsAccrual'
<1> SUFFICES ASSUME TypeOK, PayableIsThisYearsAccrual, [Next]_vars
             PROVE  PayableIsThisYearsAccrual'
  OBVIOUS
<1>1. CASE OpenPeriod
  BY <1>1, OpenPayable
<1>2. CASE Compute
  <2>1. CASE Untaxed
    BY <2>1, UntaxedPayable
  <2>2. CASE ~Untaxed
    BY <1>2, <2>2, GrowthUntaxed, ContributionsUntaxed, FlowsUntaxed, EventsUntaxed,
       SnapshotUntaxed, ForcedUntaxed, FundUntaxed, SweepUntaxed, RestUntaxed,
       IncomePayable, PayPriorPayable, PrepayPayable, AccrualPayable DEF Compute
  <2> QED BY <2>1, <2>2
<1>3. CASE Stopped \/ UNCHANGED vars
  BY <1>3 DEF Stopped, vars, PayableIsThisYearsAccrual, PriorSettled, PaymentSub, SubHolding
<1> QED BY <1>1, <1>2, <1>3 DEF Next

\* Taxes Payable is the tax charged this tax year less what was prepaid of it, and until
\* the payment date the whole of last year's, for every household, granularity and frame.
THEOREM PayableNeverMixesYears == Spec => []PayableIsThisYearsAccrual
<1>1. Init => TypeOK /\ PayableIsThisYearsAccrual
  BY InitType, InitPayable
<1>2. (TypeOK /\ PayableIsThisYearsAccrual) /\ [Next]_vars => (TypeOK /\ PayableIsThisYearsAccrual)'
  BY NextType, NextPayable
<1> QED BY <1>1, <1>2, PTL DEF Spec
-----------------------------------------------------------------------------
(* WithholdingFollowsTheYear. *)

LEMMA SameWithholding ==
    ASSUME WithholdingFollowsTheYear, WagesKept(books, books'), KeepInterval,
           phase' \in Withheld => phase \in Withheld
    PROVE  WithholdingFollowsTheYear'
BY DEF WithholdingFollowsTheYear, Withheld, WagesKept, KeepInterval

\* Withholding posts what the year-to-date tax lacks.
LEMMA WithholdFollows ==
    ASSUME TypeOK, WithholdEmploymentTax
    PROVE  WithholdingFollowsTheYear'
<1>1. books.wages - yearOpen.wages \in Int /\ books.fica \in Int /\ yearOpen.fica \in Int
  BY TaxAmounts
<1>2. ChangeOn(FicaRate, books.wages - yearOpen.wages) \in Int
  BY <1>1, RateTypes, ChangeOnType
<1>3. books'.fica = books.fica + Withholding /\ books'.wages = books.wages /\ yearOpen' = yearOpen
  BY StateType DEF WithholdEmploymentTax, Quiet, KeepInterval, BooksOfAccount
<1> QED BY <1>1, <1>2, <1>3 DEF WithholdingFollowsTheYear, Withholding

LEMMA TaxPhasesFollow ==
    ASSUME TypeOK, WithholdingFollowsTheYear,
           PayPriorTaxPayable \/ PrepayIncomeTaxEstimate \/ AssessPenalties \/ SettleTax
    PROVE  WithholdingFollowsTheYear'
<1>1. KeepInterval
  BY DEF PayPriorTaxPayable, PrepayIncomeTaxEstimate, AssessPenalties, SettleTax, Quiet
<1>2. WagesKept(books, books')
  BY StateType DEF PayPriorTaxPayable, PrepayIncomeTaxEstimate, AssessPenalties, SettleTax,
     Accrue, WagesKept, BooksOfAccount
<1>3. phase \in Withheld
  BY DEF PayPriorTaxPayable, PrepayIncomeTaxEstimate, AssessPenalties, SettleTax, Step, Iterate,
     Withheld, NextPhase, PhaseOrder
<1> QED BY <1>1, <1>2, <1>3, SameWithholding

LEMMA InitFollows == Init => WithholdingFollowsTheYear
<1>1. OpeningBooks.wages \in Int /\ OpeningBooks.fica \in Int /\ FicaRate.den \in Nat \ {0}
      /\ FicaRate.num \in Int
  BY PeriodAssumption, RateTypes DEF BooksOfAccount
<1>2. ChangeOn(FicaRate, 0) = 0
  BY <1>1 DEF ChangeOn, Quantize
<1> QED BY <1>1, <1>2 DEF Init, WithholdingFollowsTheYear

LEMMA NextFollows == TypeOK /\ WithholdingFollowsTheYear /\ [Next]_vars => WithholdingFollowsTheYear'
<1> SUFFICES ASSUME TypeOK, WithholdingFollowsTheYear, [Next]_vars
             PROVE  WithholdingFollowsTheYear'
  OBVIOUS
<1>1. CASE OpenPeriod \/ RecognizeIncome
  <2>1. phase' \notin Withheld
    BY <1>1 DEF OpenPeriod, RecognizeIncome, Step, NextPhase, PhaseOrder, Withheld
  <2> QED BY <2>1 DEF WithholdingFollowsTheYear, Withheld
<1>2. CASE Untaxed
  BY <1>2, SameWithholding DEF Untaxed, TaxSideKept
<1>3. CASE Compute /\ ~Untaxed /\ ~RecognizeIncome
  BY <1>3, GrowthUntaxed, ContributionsUntaxed, FlowsUntaxed, EventsUntaxed, SnapshotUntaxed,
     ForcedUntaxed, FundUntaxed, SweepUntaxed, RestUntaxed, WithholdFollows, TaxPhasesFollow
     DEF Compute
<1>4. CASE Stopped \/ UNCHANGED vars
  BY <1>4 DEF Stopped, vars, WithholdingFollowsTheYear
<1> QED BY <1>1, <1>2, <1>3, <1>4 DEF Next

\* Once an interval has withheld, the employment tax withheld this tax year is the tax on
\* this year's wages so far, whatever the granularity the year is walked at.
THEOREM WithholdingIsTheYears == Spec => []WithholdingFollowsTheYear
<1>1. Init => TypeOK /\ WithholdingFollowsTheYear
  BY InitType, InitFollows
<1>2. (TypeOK /\ WithholdingFollowsTheYear) /\ [Next]_vars => (TypeOK /\ WithholdingFollowsTheYear)'
  BY NextType, NextFollows
<1> QED BY <1>1, <1>2, PTL DEF Spec
-----------------------------------------------------------------------------
(* NoIncomeLeftUntaxed. *)

\* From the settlement to the end of the interval, what was assessed is the year's income.
Late == {"sweep", "reestimate", "close", "open", "stopped"}

AssessedWhole ==
    phase \in Late /\ clock.t > 0 /\ ClosesTaxYear /\ clock.fullYear
        => assessed = YearIncome(books, yearOpen)

IncomeKept(b, c) == c.wages = b.wages /\ c.income = b.income

\* Only the settlement leads into the late phases.
LEMMA EntersLate ==
    ASSUME Compute, phase' \in Late
    PROVE  SettleTax \/ SweepToCeiling \/ ReestimateFutureTaxes \/ Close
<1> DEFINE Before == DOMAIN NextPhase \ {"settle", "sweep", "reestimate"}
<1>1. \A p \in Before : p \notin Late /\ NextPhase[p] \notin Late
  BY DEF NextPhase, PhaseOrder, Late
<1>2. ASSUME NEW p \in Before, Step(p) \/ \E n : Iterate(p, n) PROVE FALSE
  BY <1>1, <1>2 DEF Step, Iterate
<1>3. CASE RecognizeIncome \/ WithholdEmploymentTax \/ ServiceLiabilities \/ ApplyExpenses
           \/ SnapshotYieldBasis \/ PayPriorTaxPayable \/ AssessPenalties
  <2>1. \E p \in Before : Step(p)
    BY <1>3 DEF RecognizeIncome, WithholdEmploymentTax, ServiceLiabilities, ApplyExpenses,
       SnapshotYieldBasis, PayPriorTaxPayable, AssessPenalties, NextPhase, PhaseOrder
  <2> QED BY <1>2, <2>1
<1>4. CASE ApplyGrowth \/ ApplyContributions \/ ApplyEvents \/ ApplyDistributions
           \/ CheckForcedTransactions \/ PrepayIncomeTaxEstimate \/ FundToTarget
  <2>1. \E p \in Before : \E n : Iterate(p, n)
    BY <1>4 DEF ApplyGrowth, ApplyContributions, ApplyEvents, ApplyDistributions,
       CheckForcedTransactions, PrepayIncomeTaxEstimate, FundToTarget, NextPhase, PhaseOrder
  <2> QED BY <1>2, <2>1
<1> QED BY <1>3, <1>4 DEF Compute

LEMMA SettlesWhole ==
    ASSUME TypeOK, SettleTax
    PROVE  AssessedWhole'
<1>1. clock' = clock /\ yearOpen' = yearOpen /\ (ClosesTaxYear' <=> ClosesTaxYear)
  BY DEF SettleTax, KeepInterval, ClosesTaxYear
<1>2. CASE ClosesTaxYear /\ clock.fullYear
  <2>1. assessed' = YearIncome(books, yearOpen)
        /\ books' = Accrue(books, Greater(0, ChangeOn(TaxRate, assessed')) - params.credit)
    BY <1>2 DEF SettleTax
  <2>2. IncomeKept(books, books')
    BY <2>1, StateType DEF Accrue, IncomeKept, BooksOfAccount
  <2> QED BY <1>1, <2>1, <2>2 DEF AssessedWhole, YearIncome, IncomeKept
<1>3. CASE ~(ClosesTaxYear /\ clock.fullYear)
  BY <1>1, <1>3 DEF AssessedWhole
<1> QED BY <1>2, <1>3

LEMMA LateKeeps ==
    ASSUME TypeOK, AssessedWhole, SweepToCeiling \/ ReestimateFutureTaxes \/ Close
    PROVE  AssessedWhole'
<1>1. /\ clock' = clock /\ yearOpen' = yearOpen /\ assessed' = assessed
      /\ (ClosesTaxYear' <=> ClosesTaxYear) /\ phase \in Late
  BY DEF SweepToCeiling, ReestimateFutureTaxes, Close, Step, Quiet, KeepInterval, KeepTallies,
     ClosesTaxYear, Late
<1>2. IncomeKept(books, books')
  BY StateType DEF SweepToCeiling, ReestimateFutureTaxes, Close, IncomeKept, BooksOfAccount
<1> QED BY <1>1, <1>2 DEF AssessedWhole, YearIncome, IncomeKept

LEMMA NextWhole == TypeOK /\ AssessedWhole /\ [Next]_vars => AssessedWhole'
<1> SUFFICES ASSUME TypeOK, AssessedWhole, [Next]_vars PROVE AssessedWhole'
  OBVIOUS
<1>1. CASE OpenPeriod
  <2>1. phase' \notin Late
    BY <1>1 DEF OpenPeriod, Late
  <2> QED BY <2>1 DEF AssessedWhole
<1>2. CASE Compute /\ phase' \in Late
  BY <1>2, EntersLate, SettlesWhole, LateKeeps
<1>3. CASE phase' \notin Late
  BY <1>3 DEF AssessedWhole
<1>4. CASE Stopped \/ UNCHANGED vars
  BY <1>4 DEF Stopped, vars, AssessedWhole, ClosesTaxYear
<1> QED BY <1>1, <1>2, <1>3, <1>4 DEF Next

\* What a full tax year's settlement assessed is every income the books of the year show
\* when the interval closes: nothing the settlement is followed by earns or realizes
\* anything, whatever the forced distributions, the funding draws and the sweep.
THEOREM AllIncomeAssessed == Spec => []NoIncomeLeftUntaxed
<1>1. Init => TypeOK /\ AssessedWhole
  <2>1. Init => clock.t = 0
    BY DEF Init
  <2> QED BY <2>1, InitType DEF AssessedWhole
<1>2. (TypeOK /\ AssessedWhole) /\ [Next]_vars => (TypeOK /\ AssessedWhole)'
  BY NextType, NextWhole
<1>3. AssessedWhole => NoIncomeLeftUntaxed
  BY DEF AssessedWhole, NoIncomeLeftUntaxed, Late
<1> QED BY <1>1, <1>2, <1>3, PTL DEF Spec
-----------------------------------------------------------------------------
(* What a total does. *)

LEMMA TotalIsSum ==
    ASSUME NEW f
    PROVE  \E g : Sums(f, Holdings, g) /\ Total(f) = g[Holdings]
<1> DEFINE g == CHOOSE iter : iter = [s \in SUBSET Holdings |->
                    IF s = {} THEN 0 ELSE f[CHOOSE x \in s : TRUE] + iter[s \ {CHOOSE x \in s : TRUE}]]
<1>1. Total(f) = g[Holdings]
  BY DEF Total, MapThenSumSet, MapThenFoldSet
<1>2. \E e : Sums(f, Holdings, e)
  BY HoldingsAreFinite, SumExists
<1>3. Sums(f, Holdings, g)
  BY <1>2 DEF Sums, Body, Pick
<1> QED BY <1>1, <1>3

LEMMA TotalWhole ==
    ASSUME NEW f \in [Holdings -> Int]
    PROVE  Total(f) \in Int
<1>1. PICK g : Sums(f, Holdings, g) /\ Total(f) = g[Holdings]
  BY TotalIsSum
<1> QED BY <1>1, HoldingsAreFinite, SumWhole

\* The total of a sum is the sum of the totals.
LEMMA TotalAdds ==
    ASSUME NEW f \in [Holdings -> Int], NEW e \in [Holdings -> Int], NEW d \in [Holdings -> Int],
           \A h \in Holdings : d[h] = f[h] + e[h]
    PROVE  Total(d) = Total(f) + Total(e)
<1>1. PICK g : Sums(f, Holdings, g) /\ Total(f) = g[Holdings]
  BY TotalIsSum
<1>2. PICK k : Sums(e, Holdings, k) /\ Total(e) = k[Holdings]
  BY TotalIsSum
<1>3. PICK l : Sums(d, Holdings, l) /\ Total(d) = l[Holdings]
  BY TotalIsSum
<1>4. \A s \in SUBSET Holdings : l[s] = g[s] + k[s]
  BY <1>1, <1>2, <1>3, HoldingsAreFinite, SumAdds
<1> QED BY <1>1, <1>2, <1>3, <1>4

\* One balance moves, the total moves with it.
LEMMA TotalMoves ==
    ASSUME NEW f \in [Holdings -> Int], NEW h \in Holdings, NEW a \in Int
    PROVE  Total([f EXCEPT ![h] = @ + a]) = Total(f) + a
<1> DEFINE e == [x \in Holdings |-> IF x = h THEN a ELSE 0]
           d == [f EXCEPT ![h] = @ + a]
<1>1. e \in [Holdings -> Int] /\ d \in [Holdings -> Int]
  OBVIOUS
<1>2. \A x \in Holdings : d[x] = f[x] + e[x]
  OBVIOUS
<1>3. e[h] = a /\ \A x \in Holdings : x # h => e[x] = 0
  OBVIOUS
<1> HIDE DEF e, d
<1>4. PICK k : Sums(e, Holdings, k) /\ Total(e) = k[Holdings]
  BY TotalIsSum
<1>5. \A s \in SUBSET Holdings : k[s] = IF h \in s THEN e[h] ELSE 0
  BY <1>1, <1>3, <1>4, HoldingsAreFinite, SumOfOne
<1>6. Total(e) = a
  BY <1>3, <1>4, <1>5
<1>7. Total(d) = Total(f) + Total(e)
  BY <1>1, <1>2, TotalAdds
<1> QED BY <1>6, <1>7 DEF d

LEMMA TotalNothing == Total([h \in Holdings |-> 0]) = 0
<1> DEFINE z == [h \in Holdings |-> 0]
<1>1. z \in [Holdings -> Int] /\ \A h \in Holdings : z[h] = z[h] + z[h]
  OBVIOUS
<1> HIDE DEF z
<1>2. Total(z) = Total(z) + Total(z) /\ Total(z) \in Int
  BY <1>1, TotalAdds, TotalWhole
<1>3. \A t \in Int : t = t + t => t = 0
  OBVIOUS
<1>4. Total(z) = 0
  BY <1>2, <1>3, Zenon
<1> QED BY <1>4 DEF z
-----------------------------------------------------------------------------
(* The two sides of the books. *)

Worth(b) == [h \in Holdings |-> Market(b, h)]
Rest(b)  == b.cash - b.payable - b.futureTax - b.opening - b.unrealized - b.external - b.reserve
            - b.wages - b.income + b.expense + b.fica + b.taxes

\* What the debit side has more than the credit side.
Excess(b) == Rest(b) + Total(Worth(b)) - Total(b.debt)

LEMMA SidesType ==
    ASSUME NEW b \in BooksOfAccount
    PROVE  /\ Worth(b) \in [Holdings -> Int] /\ b.debt \in [Holdings -> Int]
           /\ Total(Worth(b)) \in Int /\ Total(b.debt) \in Int
           /\ Rest(b) \in Int /\ Excess(b) \in Int
<1>1. Worth(b) \in [Holdings -> Int]
  BY MarketType DEF Worth
<1>2. b.debt \in [Holdings -> Int]
  BY DEF BooksOfAccount
<1>3. Total(Worth(b)) \in Int /\ Total(b.debt) \in Int
  BY <1>1, <1>2, TotalWhole
<1>4. Rest(b) \in Int
  BY DEF Rest, BooksOfAccount
<1> QED BY <1>1, <1>2, <1>3, <1>4 DEF Excess

LEMMA BalancedIsEven ==
    ASSUME NEW b \in BooksOfAccount
    PROVE  Balances(b) <=> Excess(b) = 0
<1> DEFINE w == Total(Worth(b))
           d == Total(b.debt)
<1>1. w \in Int /\ d \in Int
  BY SidesType
<1>2. Assets(b) = b.cash + w
  BY DEF Assets, Worth
<1>3. Liabilities(b) = b.payable + b.futureTax + d
  BY DEF Liabilities
<1>4. Excess(b) = Rest(b) + w - d
  BY DEF Excess
<1> HIDE DEF w, d
<1> QED BY <1>1, <1>2, <1>3, <1>4 DEF Balances, NetWorth, Rest, BooksOfAccount

\* A posting that leaves the holdings and their loans alone.
LEMMA NothingMoves ==
    ASSUME NEW b \in BooksOfAccount, NEW c \in BooksOfAccount,
           c.cost = b.cost, c.val = b.val, c.debt = b.debt
    PROVE  Excess(c) = Excess(b) + Rest(c) - Rest(b)
<1>1. Worth(c) = Worth(b)
  BY DEF Worth, Market
<1>2. Total(Worth(b)) \in Int /\ Total(b.debt) \in Int /\ Rest(b) \in Int /\ Rest(c) \in Int
  BY SidesType
<1> QED BY <1>1, <1>2 DEF Excess

LEMMA MovesOne ==
    ASSUME NEW f \in [Holdings -> Int], NEW e \in [Holdings -> Int], NEW h \in Holdings, NEW a \in Int,
           \A k \in Holdings : e[k] = IF k = h THEN f[k] + a ELSE f[k]
    PROVE  Total(e) = Total(f) + a
<1>1. e = [f EXCEPT ![h] = @ + a]
  OBVIOUS
<1> QED BY <1>1, TotalMoves

\* A posting that moves one holding's market value.
LEMMA WorthMoves ==
    ASSUME NEW b \in BooksOfAccount, NEW c \in BooksOfAccount, NEW h \in Holdings, NEW m \in Int,
           \A k \in Holdings : Market(c, k) = IF k = h THEN Market(b, k) + m ELSE Market(b, k),
           c.debt = b.debt
    PROVE  Excess(c) = Excess(b) + Rest(c) - Rest(b) + m
<1>1. /\ Worth(b) \in [Holdings -> Int] /\ Worth(c) \in [Holdings -> Int]
      /\ Total(Worth(b)) \in Int /\ Total(b.debt) \in Int /\ Rest(b) \in Int /\ Rest(c) \in Int
  BY SidesType
<1>2. \A k \in Holdings : Worth(c)[k] = Market(c, k) /\ Worth(b)[k] = Market(b, k)
  BY DEF Worth
<1>3. \A k \in Holdings : Worth(c)[k] = IF k = h THEN Worth(b)[k] + m ELSE Worth(b)[k]
  BY <1>2
<1>4. Total(Worth(c)) = Total(Worth(b)) + m
  <2> DEFINE f == Worth(b)
             e == Worth(c)
  <2>1. f \in [Holdings -> Int] /\ e \in [Holdings -> Int]
    BY <1>1
  <2>2. \A k \in Holdings : e[k] = IF k = h THEN f[k] + m ELSE f[k]
    BY <1>3
  <2> HIDE DEF f, e
  <2>3. Total(e) = Total(f) + m
    BY <2>1, <2>2, MovesOne, Zenon
  <2> QED BY <2>3 DEF f, e
<1> QED BY <1>1, <1>4 DEF Excess

\* A posting that moves the loans one holding secures.
LEMMA DebtMoves ==
    ASSUME NEW b \in BooksOfAccount, NEW c \in BooksOfAccount, NEW h \in Holdings, NEW d \in Int,
           c.cost = b.cost, c.val = b.val, c.debt = [b.debt EXCEPT ![h] = @ + d]
    PROVE  Excess(c) = Excess(b) + Rest(c) - Rest(b) - d
<1>1. /\ b.debt \in [Holdings -> Int]
      /\ Total(Worth(b)) \in Int /\ Total(b.debt) \in Int /\ Rest(b) \in Int /\ Rest(c) \in Int
  BY SidesType
<1>2. Worth(c) = Worth(b)
  BY DEF Worth, Market
<1>3. Total(c.debt) = Total(b.debt) + d
  BY <1>1, TotalMoves
<1> QED BY <1>1, <1>2, <1>3 DEF Excess
-----------------------------------------------------------------------------
(* Each operation posts the same to both sides. *)

LEMMA ReceiveCounts ==
    ASSUME NEW b \in BooksOfAccount, NEW x \in Holdings \cup {Cash}, NEW a \in Int
    PROVE  Excess(Receive(b, x, a)) = Excess(b) + a
<1> DEFINE c == Receive(b, x, a)
<1>1. c \in BooksOfAccount
  BY ReceiveType
<1>2. Excess(b) \in Int /\ Rest(b) \in Int
  BY SidesType
<1>3. CASE x = Cash
  <2>1. c = [b EXCEPT !.cash = @ + a]
    BY <1>3 DEF Receive
  <2>2. c.cost = b.cost /\ c.val = b.val /\ c.debt = b.debt
    BY <2>1 DEF BooksOfAccount
  <2>3. Rest(c) = Rest(b) + a
    BY <2>1 DEF Rest, BooksOfAccount
  <2> HIDE DEF c
  <2>4. Excess(c) = Excess(b) + Rest(c) - Rest(b)
    BY <1>1, <2>2, NothingMoves
  <2> QED BY <1>2, <2>3, <2>4 DEF c
<1>4. CASE x # Cash
  <2>1. c = [b EXCEPT !.cost[x] = @ + a] /\ x \in Holdings
    BY <1>4 DEF Receive
  <2>2. c.cost = [b.cost EXCEPT ![x] = @ + a] /\ c.val = b.val /\ c.debt = b.debt
    BY <2>1 DEF BooksOfAccount
  <2>3. Rest(c) = Rest(b)
    BY <2>1 DEF Rest, BooksOfAccount
  <2>4. b.cost \in [Holdings -> Int] /\ b.val \in [Holdings -> Int] /\ b.debt \in [Holdings -> Int]
    BY DEF BooksOfAccount
  <2> HIDE DEF c
  <2>5. \A k \in Holdings : Market(c, k) = IF k = x THEN Market(b, k) + a ELSE Market(b, k)
    BY <2>1, <2>2, <2>4 DEF Market
  <2>6. Excess(c) = Excess(b) + Rest(c) - Rest(b) + a
    BY <1>1, <2>1, <2>2, <2>5, WorthMoves
  <2> QED BY <1>2, <2>3, <2>6 DEF c
<1> QED BY <1>3, <1>4

LEMMA TransferCounts ==
    ASSUME NEW b \in BooksOfAccount, NEW x \in Holdings \cup {Cash},
           NEW y \in Holdings \cup {Cash}, NEW a \in Int
    PROVE  Excess(Transfer(b, x, y, a)) = Excess(b)
<1> DEFINE c == Receive(b, x, -a)
<1>1. c \in BooksOfAccount /\ Excess(c) = Excess(b) + (-a)
  BY -a \in Int, ReceiveType, ReceiveCounts
<1>2. Excess(b) \in Int
  BY SidesType
<1> HIDE DEF c
<1>3. Excess(Receive(c, y, a)) = Excess(c) + a
  BY <1>1, ReceiveCounts
<1>4. Excess(Receive(c, y, a)) = Excess(b)
  BY <1>1, <1>2, <1>3
<1> QED BY <1>4 DEF c, Transfer

\* A posting between cash and the flow accounts.
LEMMA FlowCounts ==
    ASSUME NEW b \in BooksOfAccount, NEW c \in BooksOfAccount,
           c.cost = b.cost, c.val = b.val, c.debt = b.debt, Rest(c) = Rest(b)
    PROVE  Excess(c) = Excess(b)
<1>1. Excess(c) = Excess(b) + Rest(c) - Rest(b)
  BY NothingMoves
<1>2. Excess(b) \in Int /\ Rest(b) \in Int
  BY SidesType
<1> QED BY <1>1, <1>2

LEMMA ExternalCounts ==
    ASSUME NEW b \in BooksOfAccount, NEW a \in Int
    PROVE  Excess(External(b, a)) = Excess(b)
<1> DEFINE c == External(b, a)
<1>1. c \in BooksOfAccount
  BY ExternalType
<1>2. c.cost = b.cost /\ c.val = b.val /\ c.debt = b.debt
  BY DEF External, BooksOfAccount
<1>3. Rest(c) = Rest(b)
  BY DEF External, Rest, BooksOfAccount
<1> HIDE DEF c
<1>4. Excess(c) = Excess(b)
  BY <1>1, <1>2, <1>3, FlowCounts
<1> QED BY <1>4 DEF c

\* A loan's balance moves, cash with it.
LEMMA LoanCounts ==
    ASSUME NEW b \in BooksOfAccount, NEW c \in BooksOfAccount, NEW h \in Holdings, NEW a \in Int,
           c.cost = b.cost, c.val = b.val, c.debt = [b.debt EXCEPT ![h] = @ + a],
           Rest(c) = Rest(b) + a
    PROVE  Excess(c) = Excess(b)
<1>1. Excess(c) = Excess(b) + Rest(c) - Rest(b) - a
  BY DebtMoves
<1>2. Excess(b) \in Int /\ Rest(b) \in Int
  BY SidesType
<1> QED BY <1>1, <1>2

LEMMA PayoffCounts ==
    ASSUME NEW b \in BooksOfAccount, NEW h \in Holdings
    PROVE  Excess(LoanPayoff(b, h)) = Excess(b)
<1> DEFINE c == LoanPayoff(b, h)
           a == -b.debt[h]
<1>1. CASE b.debt[h] <= 0
  BY <1>1 DEF LoanPayoff
<1>2. CASE ~(b.debt[h] <= 0)
  <2>1. c \in BooksOfAccount /\ b.debt[h] \in Int /\ a \in Int
    BY LoanPayoffType DEF BooksOfAccount
  <2>2. c = [b EXCEPT !.debt[h] = 0, !.cash = @ - b.debt[h]]
    BY <1>2 DEF LoanPayoff
  <2>3. c.cost = b.cost /\ c.val = b.val /\ c.debt = [b.debt EXCEPT ![h] = 0]
    BY <2>2 DEF BooksOfAccount
  <2>4. c.debt = [b.debt EXCEPT ![h] = @ + a]
    BY <2>1, <2>3
  <2>5. Rest(c) = Rest(b) + a
    BY <2>1, <2>2 DEF Rest, BooksOfAccount
  <2> HIDE DEF c, a
  <2>6. Excess(c) = Excess(b)
    BY <2>1, <2>3, <2>4, <2>5, LoanCounts
  <2> QED BY <2>6 DEF c
<1> QED BY <1>1, <1>2

LEMMA OriginationCounts ==
    ASSUME NEW b \in BooksOfAccount, NEW h \in Holdings, NEW a \in Int
    PROVE  Excess(LoanOrigination(b, h, a)) = Excess(b)
<1> DEFINE c == LoanOrigination(b, h, a)
<1>1. CASE a <= 0
  BY <1>1 DEF LoanOrigination
<1>2. CASE ~(a <= 0)
  <2>1. c \in BooksOfAccount
    BY LoanOriginationType
  <2>2. c = [b EXCEPT !.debt[h] = @ + a, !.cash = @ + a]
    BY <1>2 DEF LoanOrigination
  <2>3. c.cost = b.cost /\ c.val = b.val /\ c.debt = [b.debt EXCEPT ![h] = @ + a]
    BY <2>2 DEF BooksOfAccount
  <2>4. Rest(c) = Rest(b) + a
    BY <2>2 DEF Rest, BooksOfAccount
  <2> HIDE DEF c
  <2>5. Excess(c) = Excess(b)
    BY <2>1, <2>3, <2>4, LoanCounts
  <2> QED BY <2>5 DEF c
<1> QED BY <1>1, <1>2

LEMMA RealizeCounts ==
    ASSUME NEW b \in BooksOfAccount, NEW h \in Holdings, NEW a \in Int,
           NEW x \in Holdings \cup {Cash}
    PROVE  Excess(Realize(b, h, a, x)) = Excess(b)
<1> DEFINE proceeds   == Lesser(a, Market(b, h))
           gain       == proceeds - CostSold(b, h, proceeds)
           recognized == IF RecognizesGain(h) THEN gain ELSE 0
           c == [b EXCEPT !.cost[h] = @ - (proceeds - gain), !.val[h] = @ - gain,
                          !.unrealized = @ - recognized, !.income = @ + recognized]
<1>1. CASE Market(b, h) <= 0
  BY <1>1 DEF Realize
<1>2. CASE ~(Market(b, h) <= 0)
  <2>1. proceeds \in Int
    BY MarketType DEF Lesser
  <2>2. CostSold(b, h, proceeds) \in Int
    <3> HIDE DEF proceeds
    <3>1. Market(b, h) > 0
      BY <1>2, MarketType
    <3> QED BY <2>1, <3>1, CostSoldType
  <2>3. gain \in Int /\ recognized \in Int /\ proceeds - gain \in Int
    BY <2>1, <2>2
  <2>4. Realize(b, h, a, x) = Receive(c, x, proceeds)
    BY <1>2 DEF Realize
  <2> HIDE DEF proceeds, gain, recognized
  <2>5. c \in BooksOfAccount
    BY <2>3, RealizationLegs
  <2>6. /\ c.cost = [b.cost EXCEPT ![h] = @ - (proceeds - gain)]
        /\ c.val = [b.val EXCEPT ![h] = @ - gain] /\ c.debt = b.debt
    BY DEF BooksOfAccount
  <2>7. Rest(c) = Rest(b)
    BY <2>3 DEF Rest, BooksOfAccount
  <2>8. b.cost \in [Holdings -> Int] /\ b.val \in [Holdings -> Int]
    BY DEF BooksOfAccount
  <2> HIDE DEF c
  <2>9. \A k \in Holdings : c.cost[k] = (IF k = h THEN b.cost[k] - (proceeds - gain) ELSE b.cost[k])
                            /\ c.val[k] = (IF k = h THEN b.val[k] - gain ELSE b.val[k])
    BY <2>6, <2>8
  <2>10. \A k \in Holdings : Market(c, k) = IF k = h THEN Market(b, k) + (-proceeds) ELSE Market(b, k)
    BY <2>1, <2>3, <2>8, <2>9 DEF Market
  <2>11. Excess(c) = Excess(b) + Rest(c) - Rest(b) + (-proceeds)
    BY <2>1, <2>5, <2>6, <2>10, -proceeds \in Int, WorthMoves
  <2>12. Excess(Receive(c, x, proceeds)) = Excess(c) + proceeds
    BY <2>1, <2>5, ReceiveCounts
  <2>13. Excess(b) \in Int /\ Rest(b) \in Int
    BY SidesType
  <2>14. Excess(Receive(c, x, proceeds)) = Excess(b)
    BY <2>1, <2>7, <2>11, <2>12, <2>13
  <2> QED BY <2>4, <2>14
<1> QED BY <1>1, <1>2

LEMMA SellPropertyCounts ==
    ASSUME NEW b \in BooksOfAccount, NEW h \in Holdings
    PROVE  Excess(SellProperty(b, h)) = Excess(b)
<1> DEFINE price    == Market(b, h)
           realized == RealizeWhole(b, h, Cash)
           costed   == BookSaleCosts(realized, price)
<1>1. price \in Int
  BY MarketType
<1>2. realized \in BooksOfAccount
  BY <1>1, RealizeType DEF RealizeWhole
<1>3. Excess(realized) = Excess(b)
  BY <1>1, RealizeCounts DEF RealizeWhole
<1>4. costed \in BooksOfAccount /\ Excess(costed) = Excess(realized)
  <2> HIDE DEF price, realized
  <2> DEFINE a == SaleCosts(price)
  <2>1. a \in Int
    BY <1>1, SaleCostsType
  <2>2. costed = [realized EXCEPT !.income = @ - a, !.cash = @ - a]
    BY DEF BookSaleCosts
  <2> HIDE DEF a, costed
  <2>3. costed \in BooksOfAccount
    BY <1>2, <2>1, <2>2, SaleCostLegs
  <2>4. costed.cost = realized.cost /\ costed.val = realized.val /\ costed.debt = realized.debt
    BY <1>2, <2>2 DEF BooksOfAccount
  <2>5. Rest(costed) = Rest(realized)
    BY <1>2, <2>1, <2>2 DEF Rest, BooksOfAccount
  <2> QED BY <1>2, <2>3, <2>4, <2>5, FlowCounts
<1>5. Excess(LoanPayoff(costed, h)) = Excess(costed)
  <2> HIDE DEF costed
  <2> QED BY <1>4, PayoffCounts
<1> QED BY <1>3, <1>4, <1>5 DEF SellProperty

LEMMA GrowCounts ==
    ASSUME NEW b \in BooksOfAccount, NEW h \in Holdings, NEW a \in Int
    PROVE  Excess([b EXCEPT !.val[h] = @ + a, !.unrealized = @ + a]) = Excess(b)
<1> DEFINE c == [b EXCEPT !.val[h] = @ + a, !.unrealized = @ + a]
<1>1. c \in BooksOfAccount
  BY GainLegs
<1>2. c.cost = b.cost /\ c.val = [b.val EXCEPT ![h] = @ + a] /\ c.debt = b.debt
  BY DEF BooksOfAccount
<1>3. Rest(c) = Rest(b) - a
  BY DEF Rest, BooksOfAccount
<1>4. b.cost \in [Holdings -> Int] /\ b.val \in [Holdings -> Int]
  BY DEF BooksOfAccount
<1> HIDE DEF c
<1>5. \A k \in Holdings : Market(c, k) = IF k = h THEN Market(b, k) + a ELSE Market(b, k)
  BY <1>2, <1>4 DEF Market
<1>6. Excess(c) = Excess(b) + Rest(c) - Rest(b) + a
  BY <1>1, <1>2, <1>5, WorthMoves
<1>7. Excess(b) \in Int /\ Rest(b) \in Int
  BY SidesType
<1>8. Excess(c) = Excess(b)
  BY <1>3, <1>6, <1>7
<1> QED BY <1>8 DEF c

\* What a line puts into a holding leaves cash or comes from outside.
LEMMA ContributeCounts ==
    ASSUME NEW b \in BooksOfAccount,
           NEW line \in [holding : Holdings, amount : Nat, matched : BOOLEAN]
    PROVE  Excess(Contribute(b, line)) = Excess(b)
<1> DEFINE funded == IF line.matched THEN [b EXCEPT !.external = @ + line.amount]
                                     ELSE [b EXCEPT !.cash = @ - line.amount]
           c == Contribute(b, line)
           h == line.holding
           a == line.amount
<1>1. h \in Holdings /\ a \in Int
  OBVIOUS
<1>2. /\ funded \in BooksOfAccount /\ Rest(funded) = Rest(b) - a
      /\ funded.cost = b.cost /\ funded.val = b.val /\ funded.debt = b.debt
  <2>1. CASE line.matched
    <3> DEFINE f == [b EXCEPT !.external = @ + a]
    <3>1. funded = f
      BY <2>1
    <3> HIDE DEF funded, a
    <3>2. f \in BooksOfAccount
      BY <1>1 DEF BooksOfAccount
    <3>3. f.cost = b.cost /\ f.val = b.val /\ f.debt = b.debt
      BY DEF BooksOfAccount
    <3>4. Rest(f) = Rest(b) - a
      BY <1>1 DEF Rest, BooksOfAccount
    <3> QED BY <3>1, <3>2, <3>3, <3>4
  <2>2. CASE ~line.matched
    <3> DEFINE f == [b EXCEPT !.cash = @ - a]
    <3>1. funded = f
      BY <2>2
    <3> HIDE DEF funded, a
    <3>2. f \in BooksOfAccount
      BY <1>1 DEF BooksOfAccount
    <3>3. f.cost = b.cost /\ f.val = b.val /\ f.debt = b.debt
      BY DEF BooksOfAccount
    <3>4. Rest(f) = Rest(b) - a
      BY <1>1 DEF Rest, BooksOfAccount
    <3> QED BY <3>1, <3>2, <3>3, <3>4
  <2> QED BY <2>1, <2>2
<1>3. c = IF Class[h] = "PRETAX_RETIREMENT" THEN [funded EXCEPT !.val[h] = @ + a]
                                            ELSE [funded EXCEPT !.cost[h] = @ + a]
  BY DEF Contribute
<1>4. c \in BooksOfAccount
  BY ContributeType
<1> HIDE DEF funded, c, h, a
<1>5. c.debt = b.debt /\ Rest(c) = Rest(funded)
  <2>1. CASE Class[h] = "PRETAX_RETIREMENT"
    BY <1>2, <1>3, <2>1 DEF Rest, BooksOfAccount
  <2>2. CASE Class[h] # "PRETAX_RETIREMENT"
    BY <1>2, <1>3, <2>2 DEF Rest, BooksOfAccount
  <2> QED BY <2>1, <2>2
<1>6. funded.cost \in [Holdings -> Int] /\ funded.val \in [Holdings -> Int]
  BY <1>2 DEF BooksOfAccount
<1>7. \A k \in Holdings : Market(c, k) = IF k = h THEN Market(b, k) + a ELSE Market(b, k)
  <2>1. CASE Class[h] = "PRETAX_RETIREMENT"
    <3>1. c.cost = funded.cost /\ c.val = [funded.val EXCEPT ![h] = @ + a]
      BY <1>2, <1>3, <2>1 DEF BooksOfAccount
    <3> QED BY <1>1, <1>2, <1>6, <3>1 DEF Market
  <2>2. CASE Class[h] # "PRETAX_RETIREMENT"
    <3>1. c.val = funded.val /\ c.cost = [funded.cost EXCEPT ![h] = @ + a]
      BY <1>2, <1>3, <2>2 DEF BooksOfAccount
    <3> QED BY <1>1, <1>2, <1>6, <3>1 DEF Market
  <2> QED BY <2>1, <2>2
<1>8. Excess(c) = Excess(b) + Rest(c) - Rest(b) + a
  BY <1>1, <1>4, <1>5, <1>7, WorthMoves
<1>9. Excess(b) \in Int /\ Rest(b) \in Int
  BY SidesType
<1>10. Excess(c) = Excess(b)
  BY <1>1, <1>2, <1>5, <1>8, <1>9
<1> QED BY <1>10 DEF c
-----------------------------------------------------------------------------
(* The sweep: the portions add up to the surplus. *)

LEMMA QuantizeWhole ==
    ASSUME NEW a \in Nat, NEW d \in Nat \ {0}
    PROVE  Quantize(a * d, d) = a
<1> DEFINE q == Quantize(a * d, d)
<1>1. a * d \in Nat
  OBVIOUS
<1>2. q \in Int
  BY <1>1, QuantizeType
<1>3. 2 * (d * q) <= 2 * (a * d) + d /\ 2 * (d * q) >= 2 * (a * d) - d
  BY <1>1, QuantizeNear
<1> HIDE DEF q
<1>4. CASE q >= a + 1
  <2>1. d * q >= d * (a + 1)
    BY <1>2, <1>4
  <2>2. d * (a + 1) = a * d + d
    OBVIOUS
  <2> QED BY <1>1, <1>2, <1>3, <2>1, <2>2
<1>5. CASE q <= a - 1
  <2>1. d * q <= d * (a - 1)
    BY <1>2, <1>5
  <2>2. d * (a - 1) = a * d - d
    OBVIOUS
  <2> QED BY <1>1, <1>2, <1>3, <2>1, <2>2
<1>6. q >= a + 1 \/ q <= a - 1 \/ q = a
  BY <1>2
<1> QED BY <1>4, <1>5, <1>6 DEF q

Rise(s, k)     == Quantize(s * k, SweepParts)      \* the running rounded target
UpTo(s, k)     == [h \in Holdings |-> Rise(s, Lesser(SweepBand[h].to, k))
                                      - Rise(s, Lesser(SweepBand[h].from, k))]
Portions(s)    == [h \in Holdings |-> SweepPortion(h, s)]

LEMMA BandType ==
    /\ SweepParts \in Nat \ {0}
    /\ \A h \in Holdings : /\ SweepBand[h].from \in Nat /\ SweepBand[h].to \in Nat
                           /\ SweepBand[h].from <= SweepBand[h].to /\ SweepBand[h].to <= SweepParts
<1>1. SweepParts \in Nat \ {0} /\ SweepBand \in [Holdings -> [from : Nat, to : Nat]]
  BY PeriodAssumption
<1> QED BY <1>1, SweepAssumption

LEMMA RiseType ==
    ASSUME NEW s \in Nat, NEW k \in Nat
    PROVE  Rise(s, k) \in Int
<1>1. s * k \in Int /\ SweepParts \in Nat \ {0}
  BY BandType
<1> QED BY <1>1, QuantizeType DEF Rise

LEMMA UpToType ==
    ASSUME NEW s \in Nat, NEW k \in Nat
    PROVE  UpTo(s, k) \in [Holdings -> Int]
<1> SUFFICES ASSUME NEW h \in Holdings
             PROVE  Rise(s, Lesser(SweepBand[h].to, k)) - Rise(s, Lesser(SweepBand[h].from, k)) \in Int
  BY DEF UpTo
<1>1. Lesser(SweepBand[h].to, k) \in Nat /\ Lesser(SweepBand[h].from, k) \in Nat
  BY BandType DEF Lesser
<1> QED BY <1>1, RiseType

\* The part after the first k belongs to one band.
LEMMA OneBand ==
    ASSUME NEW k \in 0 .. SweepParts - 1
    PROVE  \E h \in Holdings : \A x \in Holdings :
               (SweepBand[x].from < k + 1 /\ k + 1 <= SweepBand[x].to) <=> x = h
<1> DEFINE B == {h \in Holdings : SweepBand[h].from < k + 1 /\ k + 1 <= SweepBand[h].to}
<1>1. k + 1 \in 1 .. SweepParts
  BY BandType
<1>2. Cardinality(B) = 1
  BY <1>1, SweepAssumption
<1>3. B \subseteq Holdings /\ IsFiniteSet(B)
  BY HoldingsAreFinite, FS_Subset
<1>4. \A x \in Holdings : (SweepBand[x].from < k + 1 /\ k + 1 <= SweepBand[x].to) <=> x \in B
  OBVIOUS
<1> HIDE DEF B
<1>5. PICK h : B = {h}
  BY <1>2, <1>3, FS_Singleton
<1> QED BY <1>3, <1>4, <1>5

LEMMA OnePartMore ==
    ASSUME NEW s \in Nat, NEW k \in 0 .. SweepParts - 1
    PROVE  Total(UpTo(s, k + 1)) = Total(UpTo(s, k)) + (Rise(s, k + 1) - Rise(s, k))
<1>1. PICK h \in Holdings : \A x \in Holdings :
               (SweepBand[x].from < k + 1 /\ k + 1 <= SweepBand[x].to) <=> x = h
  BY OneBand
<1>2. k \in Nat /\ k + 1 \in Nat
  BY BandType
<1> DEFINE f == UpTo(s, k)
           e == UpTo(s, k + 1)
           a == Rise(s, k + 1) - Rise(s, k)
<1>3. f \in [Holdings -> Int] /\ e \in [Holdings -> Int]
  BY <1>2, UpToType
<1>4. a \in Int /\ Rise(s, k) \in Int /\ Rise(s, k + 1) \in Int
  BY <1>2, RiseType
<1>5. ASSUME NEW x \in Holdings PROVE e[x] = IF x = h THEN f[x] + a ELSE f[x]
  <2> DEFINE lo == SweepBand[x].from
             hi == SweepBand[x].to
  <2>1. lo \in Nat /\ hi \in Nat /\ lo <= hi
    BY BandType
  <2>2. e[x] = Rise(s, Lesser(hi, k + 1)) - Rise(s, Lesser(lo, k + 1))
    BY DEF UpTo
  <2>3. f[x] = Rise(s, Lesser(hi, k)) - Rise(s, Lesser(lo, k))
    BY DEF UpTo
  <2>4. (lo < k + 1 /\ k + 1 <= hi) <=> x = h
    BY <1>1
  <2>5. Rise(s, lo) \in Int
    BY <2>1, RiseType
  <2> HIDE DEF e, f, lo, hi
  <2>6. CASE x = h
    <3>1. Lesser(hi, k + 1) = k + 1 /\ Lesser(hi, k) = k
          /\ Lesser(lo, k + 1) = lo /\ Lesser(lo, k) = lo
      BY <1>2, <2>1, <2>4, <2>6 DEF Lesser
    <3> QED BY <1>4, <2>2, <2>3, <2>5, <2>6, <3>1
  <2>7. CASE x # h /\ hi <= k
    <3>1. Lesser(hi, k + 1) = hi /\ Lesser(hi, k) = hi
          /\ Lesser(lo, k + 1) = lo /\ Lesser(lo, k) = lo
      BY <1>2, <2>1, <2>7 DEF Lesser
    <3> QED BY <2>2, <2>3, <2>7, <3>1
  <2>8. CASE x # h /\ ~(hi <= k)
    <3>1. lo >= k + 1 /\ hi >= k + 1
      BY <1>2, <2>1, <2>4, <2>8
    <3>2. Lesser(hi, k + 1) = k + 1 /\ Lesser(hi, k) = k
          /\ Lesser(lo, k + 1) = k + 1 /\ Lesser(lo, k) = k
      BY <1>2, <2>1, <3>1 DEF Lesser
    <3>3. e[x] = 0 /\ f[x] = 0
      BY <1>4, <2>2, <2>3, <3>2
    <3> QED BY <2>8, <3>3
  <2> QED BY <2>6, <2>7, <2>8
<1> HIDE DEF e, f, a
<1>6. \A x \in Holdings : e[x] = IF x = h THEN f[x] + a ELSE f[x]
  BY <1>5
<1>7. e = [f EXCEPT ![h] = f[h] + a]
  BY <1>3, <1>6
<1>8. Total(e) = Total(f) + a
  BY <1>3, <1>4, <1>7, TotalMoves, Zenon
<1> QED BY <1>8 DEF e, f, a

\* What the first k parts take of the surplus is the rounded k parts of it.
LEMMA PartsTaken ==
    ASSUME NEW s \in Nat, NEW k \in 0 .. SweepParts
    PROVE  Total(UpTo(s, k)) = Rise(s, k)
<1> DEFINE Bad == {n \in 0 .. SweepParts : Total(UpTo(s, n)) # Rise(s, n)}
<1>1. Total(UpTo(s, 0)) = 0 /\ Rise(s, 0) = 0
  <2>1. Rise(s, 0) = 0
    <3>1. s * 0 = 0 * SweepParts
      BY BandType
    <3> QED BY <3>1, BandType, QuantizeWhole DEF Rise
  <2>2. \A h \in Holdings : Lesser(SweepBand[h].to, 0) = 0 /\ Lesser(SweepBand[h].from, 0) = 0
    BY BandType DEF Lesser
  <2>3. UpTo(s, 0) = [h \in Holdings |-> 0]
    BY <2>1, <2>2 DEF UpTo
  <2> QED BY <2>1, <2>3, TotalNothing
<1>2. CASE Bad # {}
  <2>1. Bad \subseteq Nat
    OBVIOUS
  <2>2. PICK n \in Bad : \A m \in Bad : n <= m
    <3> HIDE DEF Bad
    <3> QED BY <1>2, <2>1, Smallest
  <2>3. n \in 0 .. SweepParts /\ n # 0
    BY <1>1, <2>2
  <2> DEFINE m == n - 1
  <2>4. m \in 0 .. SweepParts - 1 /\ m + 1 = n /\ m \in 0 .. SweepParts /\ m \in Nat
    BY <2>3, BandType
  <2> HIDE DEF m
  <2>5. m \notin Bad
    BY <2>2, <2>4
  <2>6. Total(UpTo(s, m)) = Rise(s, m)
    BY <2>4, <2>5
  <2>7. Total(UpTo(s, m + 1)) = Total(UpTo(s, m)) + (Rise(s, m + 1) - Rise(s, m))
    BY <2>4, OnePartMore
  <2>8. Rise(s, m) \in Int /\ Rise(s, m + 1) \in Int
    BY <2>4, RiseType
  <2>9. Total(UpTo(s, m + 1)) = Rise(s, m + 1)
    BY <2>6, <2>7, <2>8
  <2> QED BY <2>2, <2>4, <2>9
<1>3. CASE Bad = {}
  BY <1>3
<1> QED BY <1>2, <1>3

LEMMA PortionsAreTheSurplus ==
    ASSUME NEW s \in Nat
    PROVE  Portions(s) \in [Holdings -> Int] /\ Total(Portions(s)) = s
<1>1. \A h \in Holdings : Lesser(SweepBand[h].to, SweepParts) = SweepBand[h].to
                          /\ Lesser(SweepBand[h].from, SweepParts) = SweepBand[h].from
  BY BandType DEF Lesser
<1>2. Portions(s) = UpTo(s, SweepParts)
  BY <1>1 DEF Portions, UpTo, SweepPortion, Rise
<1>3. Rise(s, SweepParts) = s
  BY BandType, QuantizeWhole DEF Rise
<1>4. SweepParts \in Nat /\ SweepParts \in 0 .. SweepParts
  BY BandType
<1>5. Total(UpTo(s, SweepParts)) = s
  BY <1>3, <1>4, PartsTaken
<1> QED BY <1>2, <1>4, <1>5, UpToType

LEMMA SweepCounts ==
    ASSUME NEW b \in BooksOfAccount, NEW s \in Nat, NEW c,
           c = [b EXCEPT !.cash = @ - s, !.cost = [h \in Holdings |-> b.cost[h] + Portions(s)[h]]]
    PROVE  Excess(c) = Excess(b)
<1> DEFINE p == Portions(s)
           f == [h \in Holdings |-> b.cost[h] + p[h]]
<1>1. p \in [Holdings -> Int] /\ Total(p) = s
  BY PortionsAreTheSurplus
<1> HIDE DEF p
<1>2. b.cost \in [Holdings -> Int] /\ b.val \in [Holdings -> Int]
  BY DEF BooksOfAccount
<1>3. f \in [Holdings -> Int] /\ \A h \in Holdings : f[h] = b.cost[h] + p[h]
  BY <1>1, <1>2
<1>4. c = [b EXCEPT !.cash = @ - s, !.cost = f]
  BY DEF p
<1> HIDE DEF f
<1>5. c \in BooksOfAccount
  <2>1. s \in Int
    OBVIOUS
  <2>2. [b EXCEPT !.cash = @ - s, !.cost = f] \in BooksOfAccount
    BY <1>3, <2>1, SweepLegs
  <2> QED BY <1>4, <2>2
<1>6. c.cost = f /\ c.val = b.val /\ c.debt = b.debt
  BY <1>4 DEF BooksOfAccount
<1>7. Rest(c) = Rest(b) - s
  BY <1>4 DEF Rest, BooksOfAccount
<1>8. Worth(b) \in [Holdings -> Int] /\ Worth(c) \in [Holdings -> Int]
  BY <1>5, SidesType
<1>9. \A h \in Holdings : Worth(c)[h] = Worth(b)[h] + p[h]
  BY <1>1, <1>2, <1>3, <1>6 DEF Worth, Market
<1>10. Total(Worth(c)) = Total(Worth(b)) + Total(p)
  BY <1>1, <1>8, <1>9, TotalAdds
<1>11. Total(Worth(b)) \in Int /\ Total(b.debt) \in Int /\ Rest(b) \in Int
  BY SidesType
<1> QED BY <1>1, <1>6, <1>7, <1>10, <1>11 DEF Excess
-----------------------------------------------------------------------------
(* Every phase. *)

LEMMA QuietFlow ==
    ASSUME NEW b \in BooksOfAccount, NEW a \in Int
    PROVE  /\ Excess([b EXCEPT !.fica = @ + a, !.cash = @ - a]) = Excess(b)
           /\ Excess([b EXCEPT !.expense = @ + a, !.cash = @ - a]) = Excess(b)
           /\ Excess([b EXCEPT !.cash = @ + a, !.income = @ + a]) = Excess(b)
           /\ Excess([b EXCEPT !.payable = @ - a, !.cash = @ - a]) = Excess(b)
           /\ Excess([b EXCEPT !.taxes = @ + a, !.payable = @ + a]) = Excess(b)
<1>1. ASSUME NEW c, c = [b EXCEPT !.fica = @ + a, !.cash = @ - a] PROVE Excess(c) = Excess(b)
  <2>1. c \in BooksOfAccount
    BY <1>1, WithholdingLegs
  <2>2. c.cost = b.cost /\ c.val = b.val /\ c.debt = b.debt /\ Rest(c) = Rest(b)
    BY <1>1 DEF Rest, BooksOfAccount
  <2> QED BY <2>1, <2>2, FlowCounts
<1>2. ASSUME NEW c, c = [b EXCEPT !.expense = @ + a, !.cash = @ - a] PROVE Excess(c) = Excess(b)
  <2>1. c \in BooksOfAccount
    BY <1>2, ExpenseLegs
  <2>2. c.cost = b.cost /\ c.val = b.val /\ c.debt = b.debt /\ Rest(c) = Rest(b)
    BY <1>2 DEF Rest, BooksOfAccount
  <2> QED BY <2>1, <2>2, FlowCounts
<1>3. ASSUME NEW c, c = [b EXCEPT !.cash = @ + a, !.income = @ + a] PROVE Excess(c) = Excess(b)
  <2>1. c \in BooksOfAccount
    BY <1>3, YieldLegs
  <2>2. c.cost = b.cost /\ c.val = b.val /\ c.debt = b.debt /\ Rest(c) = Rest(b)
    BY <1>3 DEF Rest, BooksOfAccount
  <2> QED BY <2>1, <2>2, FlowCounts
<1>4. ASSUME NEW c, c = [b EXCEPT !.payable = @ - a, !.cash = @ - a] PROVE Excess(c) = Excess(b)
  <2>1. c \in BooksOfAccount
    BY <1>4, PayableLegs
  <2>2. c.cost = b.cost /\ c.val = b.val /\ c.debt = b.debt /\ Rest(c) = Rest(b)
    BY <1>4 DEF Rest, BooksOfAccount
  <2> QED BY <2>1, <2>2, FlowCounts
<1>5. ASSUME NEW c, c = [b EXCEPT !.taxes = @ + a, !.payable = @ + a] PROVE Excess(c) = Excess(b)
  <2>1. c \in BooksOfAccount
    BY <1>5, AccrualLegs
  <2>2. c.cost = b.cost /\ c.val = b.val /\ c.debt = b.debt /\ Rest(c) = Rest(b)
    BY <1>5 DEF Rest, BooksOfAccount
  <2> QED BY <2>1, <2>2, FlowCounts
<1> QED BY <1>1, <1>2, <1>3, <1>4, <1>5

LEMMA GrowthCounts ==
    ASSUME TypeOK, ApplyGrowth
    PROVE  Excess(books') = Excess(books)
<1>1. CASE /\ i <= Len(ChartOrder) /\ ChartOrder[i] # Cash
           /\ AccruesUnrealizedGains(ChartOrder[i])
  <2>1. PICK h \in Holdings : h = ChartOrder[i]
    BY <1>1, PeriodAssumption DEF TypeOK, Places
  <2>2. Market(opening, h) \in Int
    BY MarketType DEF TypeOK
  <2>3. params.growth[h] \in [num : Int, den : Nat \ {0}]
    BY ParametersType DEF GrowthRates, Rates
  <2>4. Appreciation(h) \in Int
    BY <2>2, <2>3, ChangeOnType DEF Appreciation
  <2>5. Excess(Grow(books, h)) = Excess(books)
    BY <2>4, StateType, GrowCounts DEF Grow
  <2> QED BY <1>1, <2>1, <2>5 DEF ApplyGrowth
<1>2. CASE ~(/\ i <= Len(ChartOrder) /\ ChartOrder[i] # Cash
             /\ AccruesUnrealizedGains(ChartOrder[i]))
  BY <1>2 DEF ApplyGrowth
<1> QED BY <1>1, <1>2

LEMMA IncomeCounts ==
    ASSUME TypeOK, RecognizeIncome
    PROVE  Excess(books') = Excess(books)
<1> DEFINE b == books
           c == books'
           w == params.wages
           n == params.income
<1>1. b \in BooksOfAccount /\ w \in Int /\ n \in Int
  BY StateType, ParametersType
<1>2. c = [b EXCEPT !.cash = @ + w + n, !.wages = @ + w, !.income = @ + n]
  BY DEF RecognizeIncome
<1> HIDE DEF b, c, w, n
<1>3. c \in BooksOfAccount
  BY <1>1, <1>2, IncomeLegs
<1>4. c.cost = b.cost /\ c.val = b.val /\ c.debt = b.debt
  BY <1>1, <1>2 DEF BooksOfAccount
<1>5. Rest(c) = Rest(b)
  BY <1>1, <1>2 DEF Rest, BooksOfAccount
<1>6. Excess(c) = Excess(b)
  BY <1>1, <1>3, <1>4, <1>5, FlowCounts
<1> QED BY <1>6 DEF b, c

LEMMA WithholdCounts ==
    ASSUME TypeOK, WithholdEmploymentTax
    PROVE  Excess(books') = Excess(books)
<1>1. books.wages - yearOpen.wages \in Int /\ books.fica - yearOpen.fica \in Int
  BY FlowTypes DEF TypeOK
<1>2. Withholding \in Int
  BY <1>1, ChangeOnType, RateTypes DEF Withholding
<1> QED BY <1>2, StateType, QuietFlow DEF WithholdEmploymentTax

LEMMA ContributionsCount ==
    ASSUME TypeOK, ApplyContributions
    PROVE  Excess(books') = Excess(books)
<1>1. CASE i <= Len(params.contributions)
  <2>1. params.contributions[i] \in [holding : Holdings, amount : Nat, matched : BOOLEAN]
    BY <1>1, ScheduledType
  <2> QED BY <1>1, <2>1, StateType, ContributeCounts DEF ApplyContributions
<1>2. CASE ~(i <= Len(params.contributions))
  BY <1>2 DEF ApplyContributions
<1> QED BY <1>1, <1>2

LEMMA LiabilitiesCount ==
    ASSUME TypeOK, ServiceLiabilities
    PROVE  Excess(books') = Excess(books)
<1> DEFINE owed      == Amortized
           principal == IF owed > 0 THEN Lesser(params.principal, owed) ELSE 0
           interest  == IF owed > 0 THEN params.interest ELSE 0
           h == params.loan
           b == books
           c == books'
<1>1. principal \in Int /\ interest \in Int /\ h \in Holdings /\ b \in BooksOfAccount
  <2>1. params.loan \in Holdings /\ params.principal \in Nat /\ params.interest \in Nat
    BY ParametersType
  <2>2. owed \in Int
    BY AmortizedType
  <2> QED BY <2>1, <2>2, StateType DEF Lesser
<1>2. c = [b EXCEPT !.debt[h] = @ - principal, !.expense = @ + interest,
                    !.cash = @ - principal - interest]
  BY DEF ServiceLiabilities
<1> HIDE DEF principal, interest, h, b, c
<1>3. c \in BooksOfAccount
  BY <1>1, <1>2, LoanLegs
<1>4. c.cost = b.cost /\ c.val = b.val /\ c.debt = [b.debt EXCEPT ![h] = @ - principal]
  BY <1>1, <1>2 DEF BooksOfAccount
<1>5. Rest(c) = Rest(b) + (-principal)
  BY <1>1, <1>2 DEF Rest, BooksOfAccount
<1>6. -principal \in Int /\ b.debt \in [Holdings -> Int]
  BY <1>1 DEF BooksOfAccount
<1>7. c.debt = [b.debt EXCEPT ![h] = @ + (-principal)]
  BY <1>1, <1>4, <1>6
<1>8. Excess(c) = Excess(b)
  BY <1>1, <1>3, <1>4, <1>5, <1>6, <1>7, LoanCounts
<1> QED BY <1>8 DEF b, c

LEMMA ExpensesCount ==
    ASSUME TypeOK, ApplyExpenses
    PROVE  Excess(books') = Excess(books)
<1>1. params.expense \in Int
  BY ParametersType
<1> QED BY <1>1, StateType, QuietFlow DEF ApplyExpenses

LEMMA EventCounts ==
    ASSUME NEW b \in BooksOfAccount, NEW e \in Events
    PROVE  Excess(ApplyEvent(b, e)) = Excess(b)
<1>1. CASE e.kind = "transfer"
  <2>1. e.from \in Holdings \cup {Cash} /\ e.to \in Holdings \cup {Cash} /\ e.amount \in Int
    BY <1>1 DEF Events, FaceValue, Places
  <2>2. ApplyEvent(b, e) = Transfer(b, e.from, e.to, e.amount)
    BY <1>1 DEF ApplyEvent
  <2>3. Excess(Transfer(b, e.from, e.to, e.amount)) = Excess(b)
    BY <2>1, TransferCounts
  <2> QED BY <2>2, <2>3
<1>2. CASE e.kind = "external"
  <2>1. e.amount \in Int
    BY <1>2 DEF Events
  <2>2. ApplyEvent(b, e) = External(b, e.amount)
    BY <1>2 DEF ApplyEvent
  <2> QED BY <2>1, <2>2, ExternalCounts
<1>3. CASE e.kind = "realize"
  <2>1. e.holding \in Holdings /\ e.amount \in Int /\ e.to \in Holdings \cup {Cash}
    BY <1>3 DEF Events, Places
  <2>2. ApplyEvent(b, e) = Realize(b, e.holding, e.amount, e.to)
    BY <1>3 DEF ApplyEvent
  <2> QED BY <2>1, <2>2, RealizeCounts
<1>4. CASE e.kind = "payoff"
  <2>1. e.holding \in Holdings
    BY <1>4 DEF Events
  <2>2. ApplyEvent(b, e) = LoanPayoff(b, e.holding)
    BY <1>4 DEF ApplyEvent
  <2> QED BY <2>1, <2>2, PayoffCounts
<1>5. CASE e.kind = "originate"
  <2>1. e.holding \in Holdings /\ e.principal \in Int
    BY <1>5 DEF Events
  <2>2. ApplyEvent(b, e) = LoanOrigination(b, e.holding, e.principal)
    BY <1>5 DEF ApplyEvent
  <2> QED BY <2>1, <2>2, OriginationCounts
<1>6. CASE e.kind = "sale"
  <2>1. e.holding \in Holdings
    BY <1>6 DEF Events
  <2>2. ApplyEvent(b, e) = SellProperty(b, e.holding)
    BY <1>6 DEF ApplyEvent
  <2> QED BY <2>1, <2>2, SellPropertyCounts
<1>7. e.kind \in {"transfer", "external", "realize", "payoff", "originate", "sale"}
  BY DEF Events
<1> QED BY <1>1, <1>2, <1>3, <1>4, <1>5, <1>6, <1>7

LEMMA EventsCount ==
    ASSUME TypeOK, ApplyEvents
    PROVE  Excess(books') = Excess(books)
<1>1. CASE i <= Len(params.events)
  <2>1. params.events[i] \in Events
    BY <1>1, ScheduledType
  <2>2. books' = ApplyEvent(books, params.events[i])
    BY <1>1 DEF ApplyEvents
  <2> QED BY <2>1, <2>2, StateType, EventCounts
<1>2. CASE ~(i <= Len(params.events))
  BY <1>2 DEF ApplyEvents
<1> QED BY <1>1, <1>2

LEMMA YieldCounts ==
    ASSUME TypeOK, ApplyDistributions
    PROVE  Excess(books') = Excess(books)
<1>1. CASE i <= Len(ChartOrder)
  <2> DEFINE x == ChartOrder[i]
             a == Distribution(x)
  <2>1. x \in Places
    BY <1>1, StateType, PeriodAssumption
  <2>2. params.yield[x].num \in Int /\ params.yield[x].den \in Nat \ {0} /\ basis[x] \in Nat
    BY <2>1, StateType, ParametersType DEF Charges, Rates
  <2>3. a \in Int
    <3> HIDE DEF x
    <3>1. params.yield[x].num * basis[x] \in Int /\ 2 * params.yield[x].den \in Nat \ {0}
      BY <2>2
    <3> QED BY <3>1, QuantizeType DEF Distribution
  <2>4. books' = [books EXCEPT !.cash = @ + a, !.income = @ + a]
    BY <1>1 DEF ApplyDistributions
  <2> HIDE DEF a
  <2> QED BY <2>3, <2>4, StateType, QuietFlow
<1>2. CASE ~(i <= Len(ChartOrder))
  BY <1>2 DEF ApplyDistributions
<1> QED BY <1>1, <1>2

LEMMA PayPriorCounts ==
    ASSUME TypeOK, PayPriorTaxPayable
    PROVE  Excess(books') = Excess(books)
<1>1. PriorPayable \in Int
  BY StateType, FlowTypes DEF PriorPayable
<1> QED BY <1>1, StateType, QuietFlow DEF PayPriorTaxPayable

LEMMA ForcedCounts ==
    ASSUME TypeOK, CheckForcedTransactions
    PROVE  Excess(books') = Excess(books)
<1>1. CASE i <= Len(params.forced) /\ ClosesTaxYear
  <2> DEFINE f == params.forced[i]
  <2>1. f.holding \in Holdings /\ f.amount \in Int
    BY <1>1, ScheduledType
  <2>2. books' = Realize(books, f.holding, f.amount, Cash)
    BY <1>1 DEF CheckForcedTransactions
  <2> HIDE DEF f
  <2> QED BY <2>1, <2>2, StateType, RealizeCounts
<1>2. CASE ~(i <= Len(params.forced) /\ ClosesTaxYear)
  BY <1>2 DEF CheckForcedTransactions
<1> QED BY <1>1, <1>2

LEMMA PrepayCounts ==
    ASSUME TypeOK, PrepayIncomeTaxEstimate
    PROVE  Excess(books') = Excess(books)
<1>1. CASE clock.fullYear /\ i \in QuarterEnds /\ params.estimate > 0
  <2>1. params.estimate \in Int /\ i \in Int /\ prepaid \in Int
    BY StateType, ParametersType
  <2>2. params.estimate * i - 4 * prepaid \in Int
    BY <2>1
  <2>3. EstimateIncrement(i) \in Int
    BY <2>2, QuantizeType DEF EstimateIncrement
  <2> DEFINE a == EstimateIncrement(i)
  <2>4. books' = [books EXCEPT !.payable = @ - a, !.cash = @ - a]
    BY <1>1 DEF PrepayIncomeTaxEstimate
  <2>5. a \in Int
    BY <2>3
  <2> HIDE DEF a
  <2> QED BY <2>4, <2>5, StateType, QuietFlow
<1>2. CASE ~(clock.fullYear /\ i \in QuarterEnds /\ params.estimate > 0)
  BY <1>2 DEF PrepayIncomeTaxEstimate
<1> QED BY <1>1, <1>2

LEMMA DrawCounts ==
    ASSUME TypeOK, NEW h \in Holdings
    PROVE  Excess(DrawFrom(books, h)) = Excess(books)
<1>1. Shortfall(books) \in Int
  BY StateType, ShortfallType
<1>2. RoundUp(Shortfall(books), Frac) \in Int
  BY <1>1, FracType, RoundUpCovers
<1>3. Market(books, h) \in Int /\ books \in BooksOfAccount
  BY StateType, MarketType
<1>4. /\ Excess(Realize(books, h, RoundUp(Shortfall(books), Frac), Cash)) = Excess(books)
      /\ Excess(RealizeWhole(books, h, Cash)) = Excess(books)
      /\ Excess(SellProperty(books, h)) = Excess(books)
  BY <1>2, <1>3, RealizeCounts, SellPropertyCounts DEF RealizeWhole
<1> QED BY <1>4 DEF DrawFrom

LEMMA FundCounts ==
    ASSUME TypeOK, FundToTarget
    PROVE  Excess(books') = Excess(books)
<1>1. CASE i <= Len(DrawPriority)
  <2>1. DrawPriority[i] \in Holdings
    BY <1>1, StateType, PeriodAssumption
  <2> QED BY <1>1, <2>1, DrawCounts DEF FundToTarget
<1>2. CASE ~(i <= Len(DrawPriority))
  BY <1>2 DEF FundToTarget
<1> QED BY <1>1, <1>2

LEMMA PenaltiesCount ==
    ASSUME TypeOK, AssessPenalties
    PROVE  Excess(books') = Excess(books)
<1>1. params.penalty \in Int
  BY ParametersType
<1> QED BY <1>1, StateType, QuietFlow DEF AssessPenalties, Accrue

LEMMA SettleCounts ==
    ASSUME TypeOK, SettleTax
    PROVE  Excess(books') = Excess(books)
<1>1. CASE ClosesTaxYear /\ clock.fullYear
  <2> DEFINE a == Greater(0, ChangeOn(TaxRate, assessed')) - params.credit
  <2>1. assessed' \in Int
    <3>1. YearIncome(books, yearOpen) \in Int
      BY StateType, FlowTypes DEF YearIncome
    <3> QED BY <1>1, <3>1 DEF SettleTax
  <2>2. ChangeOn(TaxRate, assessed') \in Int /\ params.credit \in Int
    <3>1. ChangeOn(TaxRate, assessed') \in Int
      BY <2>1, RateTypes, ChangeOnType
    <3> QED BY <3>1, ParametersType
  <2>3. a \in Int
    BY <2>2 DEF Greater
  <2>4. books' = [books EXCEPT !.taxes = @ + a, !.payable = @ + a]
    BY <1>1 DEF SettleTax, Accrue
  <2> HIDE DEF a
  <2> QED BY <2>3, <2>4, StateType, QuietFlow
<1>2. CASE ~(ClosesTaxYear /\ clock.fullYear)
  BY <1>2 DEF SettleTax
<1> QED BY <1>1, <1>2

LEMMA SweepToCeilingCounts ==
    ASSUME TypeOK, SweepToCeiling
    PROVE  Excess(books') = Excess(books)
<1>1. Surplus \in Nat /\ books \in BooksOfAccount
  BY SurplusType, StateType
<1>2. books' = [books EXCEPT !.cash = @ - Surplus,
                    !.cost = [h \in Holdings |-> books.cost[h] + Portions(Surplus)[h]]]
  BY DEF SweepToCeiling, Portions
<1> QED BY <1>1, <1>2, SweepCounts

LEMMA ReestimateCounts ==
    ASSUME TypeOK, ReestimateFutureTaxes
    PROVE  Excess(books') = Excess(books)
<1>1. CASE i < Len(ChartOrder)
  BY <1>1 DEF ReestimateFutureTaxes
<1>2. CASE ~(i < Len(ChartOrder))
  <2> DEFINE b == books
             c == books'
             n == Tally
             d == Tally - books.futureTax
  <2>1. Tally \in Int
    <3>1. i <= Len(ChartOrder) /\ ChartOrder[i] # Cash => ChartOrder[i] \in Holdings
      BY PeriodAssumption, StateType DEF Places
    <3> QED BY <3>1, StateType, LatentTaxType DEF Tally
  <2>2. n \in Int /\ d \in Int /\ b \in BooksOfAccount /\ d = n - b.futureTax
    BY <2>1, StateType, FlowTypes
  <2>3. c = [b EXCEPT !.futureTax = n, !.reserve = @ - d]
    BY <1>2 DEF ReestimateFutureTaxes
  <2> HIDE DEF b, c, n, d
  <2>4. c \in BooksOfAccount
    BY <2>2, <2>3, ReserveLegs
  <2>5. c.cost = b.cost /\ c.val = b.val /\ c.debt = b.debt
    BY <2>2, <2>3 DEF BooksOfAccount
  <2>6. Rest(c) = Rest(b)
    BY <2>2, <2>3 DEF Rest, BooksOfAccount
  <2>7. Excess(c) = Excess(b)
    BY <2>2, <2>4, <2>5, <2>6, FlowCounts
  <2> QED BY <2>7 DEF b, c
<1> QED BY <1>1, <1>2

\* Seeding is balanced whatever the household owns and owes.
LEMMA SeedBalances ==
    ASSUME NEW cash \in Int, NEW cost \in [Holdings -> Int], NEW value \in [Holdings -> Int],
           NEW owed \in [Holdings -> Int]
    PROVE  Balances(SeedOpeningBalances(cash, cost, value, owed))
<1> DEFINE b    == SeedOpeningBalances(cash, cost, value, owed)
           gain == [h \in Holdings |-> value[h] - cost[h]]
           own  == [h \in Holdings |-> cost[h] - owed[h]]
<1>1. gain \in [Holdings -> Int] /\ own \in [Holdings -> Int]
  OBVIOUS
<1>2. /\ \A h \in Holdings : value[h] = cost[h] + gain[h]
      /\ \A h \in Holdings : cost[h] = own[h] + owed[h]
  OBVIOUS
<1>3. /\ b.cash = cash /\ b.cost = cost /\ b.val = gain /\ b.debt = owed
      /\ b.payable = 0 /\ b.futureTax = 0
      /\ b.opening = cash + Total(own) /\ b.unrealized = Total(gain)
      /\ b.external = 0 /\ b.reserve = 0 /\ b.wages = 0 /\ b.income = 0
      /\ b.expense = 0 /\ b.fica = 0 /\ b.taxes = 0
  BY DEF SeedOpeningBalances
<1> HIDE DEF b, gain, own
<1>4. Worth(b) = value
  <2>1. \A h \in Holdings : Market(b, h) = value[h]
    BY <1>2, <1>3 DEF Market
  <2> QED BY <2>1 DEF Worth
<1>5. Total(value) = Total(cost) + Total(gain)
  BY <1>1, <1>2, TotalAdds
<1>6. Total(cost) = Total(own) + Total(owed)
  BY <1>1, <1>2, TotalAdds
<1>7. Total(own) \in Int /\ Total(owed) \in Int /\ Total(gain) \in Int /\ Total(value) \in Int
  BY <1>1, TotalWhole
<1>8. Assets(b) = cash + Total(value) /\ Liabilities(b) = 0 + 0 + Total(owed)
  BY <1>3, <1>4 DEF Assets, Liabilities, Worth
<1>9. NetWorth(b) = cash + Total(own) + Total(gain)
  BY <1>5, <1>6, <1>7, <1>8 DEF NetWorth
<1>10. Balances(b)
  BY <1>3, <1>7, <1>9 DEF Balances
<1> QED BY <1>10 DEF b

LEMMA BalanceInit == Init => BooksBalance
BY HouseholdAssumption DEF Init, BooksBalance

LEMMA BalanceStep ==
    ASSUME TypeOK, TypeOK', BooksBalance, [Next]_vars
    PROVE  BooksBalance'
<1>1. ASSUME Excess(books') = Excess(books), opening' = opening, yearOpen' = yearOpen
      PROVE  BooksBalance'
  <2>1. books \in BooksOfAccount /\ books' \in BooksOfAccount
    BY DEF TypeOK
  <2>2. Balances(books) /\ Balances(opening) /\ Balances(yearOpen)
    BY DEF BooksBalance
  <2>3. Balances(books')
    BY <1>1, <2>1, <2>2, BalancedIsEven
  <2> QED BY <1>1, <2>2, <2>3 DEF BooksBalance
<1>2. CASE OpenPeriod
  <2>1. books' = books /\ opening' = books /\ yearOpen' \in {books, yearOpen}
    BY <1>2 DEF OpenPeriod
  <2>2. Balances(books) /\ Balances(opening) /\ Balances(yearOpen)
    BY DEF BooksBalance
  <2> QED BY <2>1, <2>2 DEF BooksBalance
<1>3. CASE Compute
  <2>1. opening' = opening /\ yearOpen' = yearOpen
    BY <1>3 DEF Compute, ApplyGrowth, RecognizeIncome, WithholdEmploymentTax, ApplyContributions,
       ServiceLiabilities, ApplyExpenses, ApplyEvents, SnapshotYieldBasis, ApplyDistributions,
       PayPriorTaxPayable, CheckForcedTransactions, PrepayIncomeTaxEstimate, FundToTarget,
       AssessPenalties, SettleTax, SweepToCeiling, ReestimateFutureTaxes, Close, Quiet, KeepInterval
  <2>2. Excess(books') = Excess(books)
    <3>1. CASE SnapshotYieldBasis \/ Close
      BY <3>1 DEF SnapshotYieldBasis, Close
    <3> QED BY <1>3, <3>1, GrowthCounts, IncomeCounts, WithholdCounts, ContributionsCount,
            LiabilitiesCount, ExpensesCount, EventsCount, YieldCounts, PayPriorCounts,
            ForcedCounts, PrepayCounts, FundCounts, PenaltiesCount, SettleCounts,
            SweepToCeilingCounts, ReestimateCounts DEF Compute
  <2> QED BY <1>1, <2>1, <2>2
<1>4. CASE Stopped \/ UNCHANGED vars
  BY <1>1, <1>4 DEF Stopped, vars
<1> QED BY <1>2, <1>3, <1>4 DEF Next

\* Double entry: whatever the household, the rates, the events and the draws, every posting
\* of every phase -- rounded gains, fees and sweep portions included -- leaves the books, and
\* the openings they are compared with, balanced (Bookkeeper.assert_balanced never raises).
THEOREM BooksAlwaysBalance == Spec => []BooksBalance
<1>1. Init => BooksBalance
  BY BalanceInit
<1>2. TypeOK /\ TypeOK' /\ BooksBalance /\ [Next]_vars => BooksBalance'
  BY BalanceStep
<1> QED BY <1>1, <1>2, TypeCorrect, PTL DEF Spec
-----------------------------------------------------------------------------
(* The annual limits of contributions (the module Contributions), for every  *)
(* steady household: WithinLimit.  An interval counts what the accounts its  *)
(* lines name have received, whatever limit it was for, so the count is no   *)
(* less than what the group has put in unless one of the group that did has  *)
(* stopped: a steady household has none.  The shares of a scaled group add   *)
(* up to the headroom but for the rounding, and only once in a year, for     *)
(* after it there is no headroom left.                                       *)

\* Whoever has contributed this year has run in an interval of it.
Ran(q, m) == plans[q].start <= m /\ m <= plans[q].end
SameYear(m) == m \in 1 .. walked /\ (m - 1) \div PerYear = walked \div PerYear
Counted ==
    /\ plans \in Households /\ walked \in Nat /\ made \in [DOMAIN plans -> Nat]
    /\ \A q \in DOMAIN plans : YearToDate[q] # 0 => \E m \in Nat : SameYear(m) /\ Ran(q, m)
LimitInv == Counted /\ WithinLimit

\* The group's lines in this interval.
Active(p) == Group(p) \cap Lines
Amounts   == [q \in DOMAIN plans |-> LineAmount(q)]
Shares    == [q \in DOMAIN plans |-> ScaledAmount(q)]
Cashed    == [q \in DOMAIN plans |-> ContributionsFromCash(plans[q].account)]
-----------------------------------------------------------------------------
(* The sums. *)

LEMMA GroupFinite ==
    ASSUME Counted, NEW p \in DOMAIN plans
    PROVE  /\ IsFiniteSet(DOMAIN plans) /\ IsFiniteSet(Group(p)) /\ IsFiniteSet(Active(p))
           /\ Group(p) \in SUBSET DOMAIN plans /\ Active(p) \in SUBSET Group(p)
           /\ \A a : IsFiniteSet({q \in DOMAIN plans : plans[q].account = a /\ Capped(q)})
<1>1. plans \in Seq(ContributionPlans)
  BY ContributionAssumption DEF Counted
<1>2. IsFiniteSet(DOMAIN plans)
  <2>1. DOMAIN plans = 1 .. Len(plans) /\ Len(plans) \in Nat
    BY <1>1
  <2> QED BY <2>1, FS_Interval
<1>3. Group(p) \in SUBSET DOMAIN plans /\ Active(p) \in SUBSET Group(p)
  BY DEF Group, Active
<1> QED BY <1>2, <1>3, FS_Subset

LEMMA TotalsAsSums ==
    ASSUME Counted, NEW p \in DOMAIN plans
    PROVE  /\ Intended(p) = Summed(Amounts, Active(p))
           /\ Contributed(p) = Summed(Cashed, Active(p))
           /\ \A a : ContributionsFromCash(a)
                        = Summed(YearToDate, {q \in DOMAIN plans : plans[q].account = a /\ Capped(q)})
<1> DEFINE A == Active(p)
<1>1. IsFiniteSet(A) /\ A \in SUBSET DOMAIN plans
  BY GroupFinite
<1>2. \A a : ContributionsFromCash(a)
                = Summed(YearToDate, {q \in DOMAIN plans : plans[q].account = a /\ Capped(q)})
  BY DEF ContributionsFromCash, Summed, MapThenSumSet, MapThenFoldSet
<1>3. Intended(p) = Summed(Amounts, A)
  <2> DEFINE F(iter) == [s \in SUBSET A |->
                    IF s = {} THEN 0
                    ELSE LineAmount(CHOOSE x \in s : TRUE) + iter[s \ {CHOOSE x \in s : TRUE}]]
             g == CHOOSE iter : iter = F(iter)
  <2>1. Intended(p) = g[A]
    BY DEF Intended, Active, MapThenSumSet, MapThenFoldSet
  <2>2. PICK e : Sums(Amounts, A, e)
    BY <1>1, SumExists
  <2>3. \A s \in SUBSET A : s # {} => Amounts[CHOOSE x \in s : TRUE] = LineAmount(CHOOSE x \in s : TRUE)
    BY <1>1 DEF Amounts
  <2>4. ASSUME NEW k PROVE F(k) = [s \in SUBSET A |-> Body(Amounts, k, s)]
    BY <2>3 DEF Body, Pick
  <2> HIDE DEF F
  <2>5. F(g) = g
    BY <2>2, <2>4 DEF Sums
  <2>6. Sums(Amounts, A, g)
    BY <2>4, <2>5 DEF Sums
  <2> HIDE DEF g, A
  <2> QED BY <1>1, <2>1, <2>6, SummedUnique
<1>4. Contributed(p) = Summed(Cashed, A)
  <2> DEFINE F(iter) == [s \in SUBSET A |->
                    IF s = {} THEN 0
                    ELSE ContributionsFromCash(plans[CHOOSE x \in s : TRUE].account) + iter[s \ {CHOOSE x \in s : TRUE}]]
             g == CHOOSE iter : iter = F(iter)
  <2>1. Contributed(p) = g[A]
    BY DEF Contributed, Active, MapThenSumSet, MapThenFoldSet
  <2>2. PICK e : Sums(Cashed, A, e)
    BY <1>1, SumExists
  <2>3. \A s \in SUBSET A : s # {} =>
            Cashed[CHOOSE x \in s : TRUE] = ContributionsFromCash(plans[CHOOSE x \in s : TRUE].account)
    BY <1>1 DEF Cashed
  <2>4. ASSUME NEW k PROVE F(k) = [s \in SUBSET A |-> Body(Cashed, k, s)]
    BY <2>3 DEF Body, Pick
  <2> HIDE DEF F
  <2>5. F(g) = g
    BY <2>2, <2>4 DEF Sums
  <2>6. Sums(Cashed, A, g)
    BY <2>4, <2>5 DEF Sums
  <2> HIDE DEF g, A
  <2> QED BY <1>1, <2>1, <2>6, SummedUnique
<1> QED BY <1>2, <1>3, <1>4

Within(p) == 2 * Summed(made, Group(p)) <= 2 * Limit[plans[p].kind] + Cardinality(Group(p))
LEMMA WithinEach == WithinLimit <=> \A p \in DOMAIN plans : Capped(p) => Within(p)
BY DEF WithinLimit, Within, GroupTotal, Summed, MapThenSumSet, MapThenFoldSet
LEMMA WithinEachNext == WithinLimit' <=> \A p \in DOMAIN plans' : Capped(p)' => Within(p)'
BY DEF WithinLimit, Within, GroupTotal, Summed, MapThenSumSet, MapThenFoldSet
-----------------------------------------------------------------------------
(* Amounts. *)

\* The year of the interval about to run.
LEMMA YearOf ==
    ASSUME NEW n \in Nat, NEW y \in Nat, NEW d \in Nat \ {0}
    PROVE  /\ n \div d \in Nat
           /\ n < y * d => n \div d < y
           /\ (n + 1) % d # 0 => (n + 1) \div d = n \div d
<1> DEFINE a == n \div d
           r == n % d
           b == (n + 1) \div d
           s == (n + 1) % d
<1>1. /\ a \in Nat /\ r \in 0 .. d - 1 /\ n = d * a + r
      /\ b \in Nat /\ s \in 0 .. d - 1 /\ n + 1 = d * b + s
  OBVIOUS
<1> HIDE DEF a, r, b, s
<1>2. ASSUME n < y * d, a >= y PROVE FALSE
  <2>1. d * a >= d * y
    BY <1>1, <1>2
  <2> QED BY <1>1, <1>2, <2>1
<1>3. ASSUME s # 0 PROVE b = a
  <2>1. n = d * b + (s - 1) /\ s - 1 \in 0 .. d - 1
    BY <1>1, <1>3
  <2>2. ASSUME b < a PROVE FALSE
    <3>1. d * (b + 1) <= d * a
      BY <1>1, <2>2
    <3>2. d * (b + 1) = d * b + d
      BY <1>1
    <3> QED BY <1>1, <2>1, <3>1, <3>2
  <2>3. ASSUME b > a PROVE FALSE
    <3>1. d * (a + 1) <= d * b
      BY <1>1, <2>3
    <3>2. d * (a + 1) = d * a + d
      BY <1>1
    <3> QED BY <1>1, <2>1, <3>1, <3>2
  <2> QED BY <1>1, <2>2, <2>3
<1> QED BY <1>1, <1>2, <1>3 DEF a, b, s

LEMMA AmountsNatural ==
    ASSUME Counted, walked < Years * PerYear
    PROVE  \A p \in DOMAIN plans : plans[p] \in ContributionPlans /\ LineAmount(p) \in Nat
<1>1. plans \in Seq(ContributionPlans)
  BY ContributionAssumption DEF Counted
<1>2. Year \in 1 .. Years
  <2>1. Years \in Nat /\ walked \in Nat /\ PerYear \in Nat \ {0}
    BY ContributionAssumption DEF Years, Counted
  <2>2. walked \div PerYear \in Nat /\ walked \div PerYear < Years
    BY <2>1, YearOf
  <2> QED BY <2>1, <2>2 DEF Year
<1>3. WageGrowth[Year].num \in Nat /\ WageGrowth[Year].den \in Nat \ {0}
  <2> DEFINE R == [num : Nat, den : Nat \ {0}]
             y == Year
  <2>1. WageGrowth \in Seq(R) /\ y \in 1 .. Len(WageGrowth)
    BY <1>2, ContributionAssumption DEF Years
  <2> HIDE DEF R, y
  <2>2. WageGrowth[y] \in R
    BY <2>1
  <2> QED BY <2>2 DEF R, y
<1> SUFFICES ASSUME NEW p \in DOMAIN plans PROVE plans[p] \in ContributionPlans /\ LineAmount(p) \in Nat
  OBVIOUS
<1>4. plans[p] \in ContributionPlans
  BY <1>1
<1>5. plans[p].amount \in Nat
  BY <1>4 DEF ContributionPlans
<1>6. plans[p].amount * WageGrowth[Year].num \in Nat
  BY <1>3, <1>5
<1> QED BY <1>3, <1>4, <1>6, QuantizeNatural DEF LineAmount, GrownAmount

\* A scaled share is no negative amount, and at most half a unit over its fraction.
LEMMA ShareOf ==
    ASSUME NEW x \in Nat, NEW h \in Nat, NEW due \in Nat, due > h
    PROVE  LET y == Quantize(x * h, due) IN y \in Nat /\ 2 * due * y <= 2 * h * x + due /\ (h = 0 => y = 0)
<1>1. x * h \in Nat /\ due \in Nat \ {0}
  OBVIOUS
<1> DEFINE y == Quantize(x * h, due)
<1>2. y \in Nat
  BY <1>1, QuantizeNatural
<1>3. 2 * (due * y) <= 2 * (x * h) + due
  BY <1>1, QuantizeNear
<1>4. h = 0 => y = 0
  <2>1. h = 0 => x * h = 0
    OBVIOUS
  <2> QED BY <1>1, <2>1, QuantizeZero
<1> HIDE DEF y
<1>5. 2 * due * y = 2 * (due * y) /\ 2 * h * x = 2 * (x * h)
  BY <1>2
<1> QED BY <1>2, <1>3, <1>4, <1>5 DEF y
-----------------------------------------------------------------------------
(* One interval. *)

\* What the year's count leaves out has put nothing in.
LEMMA StoppedIsNothing ==
    ASSUME Counted, \A hh \in Households : Steady(hh), walked < Years * PerYear,
           NEW p \in DOMAIN plans, Capped(p), Active(p) # {}
    PROVE  \A q \in Group(p) \ Active(p) : YearToDate[q] = 0
<1> SUFFICES ASSUME NEW q \in Group(p), YearToDate[q] # 0 PROVE q \in Lines
  BY DEF Active
<1>1. PICK o \in Active(p) : TRUE
  OBVIOUS
<1>2. q \in DOMAIN plans /\ o \in DOMAIN plans
  BY DEF Group, Active
<1>3. /\ plans[o].kind # NoKind /\ plans[q].kind = plans[o].kind
      /\ Owner[plans[q].account] = Owner[plans[o].account]
  BY <1>1 DEF Group, Active, Capped
<1>4. PICK m \in Nat : SameYear(m) /\ Ran(q, m)
  BY <1>2 DEF Counted
<1>5. /\ m \in 1 .. Years * PerYear /\ walked + 1 \in 1 .. Years * PerYear /\ m < walked + 1
      /\ (m - 1) \div PerYear = ((walked + 1) - 1) \div PerYear
  <2>1. walked \in Nat /\ PerYear \in Nat /\ Years \in Nat
    BY ContributionAssumption DEF Counted, Years
  <2>2. Years * PerYear \in Nat
    BY <2>1
  <2>3. (walked + 1) - 1 = walked
    BY <2>1
  <2> QED BY <1>4, <2>1, <2>2, <2>3 DEF SameYear
<1>6. plans[o].start <= walked + 1 /\ walked + 1 <= plans[o].end
  BY <1>1 DEF Active, Lines
<1>7. plans[q].start <= walked + 1 /\ walked + 1 <= plans[q].end
  <2> DEFINE n == walked + 1
             last == Years * PerYear
  <2>1. /\ m \in 1 .. last /\ n \in 1 .. last /\ m < n
        /\ (m - 1) \div PerYear = (n - 1) \div PerYear
        /\ plans[o].start <= n /\ n <= plans[o].end
    BY <1>5, <1>6
  <2>2. Steady(plans)
    BY DEF Counted
  <2> HIDE DEF n
  <2>3. plans[q].start <= n /\ n <= plans[q].end
    BY <1>2, <1>3, <1>4, <2>1, <2>2 DEF Steady, Ran
  <2> QED BY <2>3 DEF n
<1> QED BY <1>2, <1>7 DEF Lines

LEMMA YearToDateNatural ==
    ASSUME Counted
    PROVE  \A q \in DOMAIN plans : YearToDate[q] \in Nat
BY DEF Counted, YearToDate

\* The count is no less than what the group has put in.
LEMMA CountCovers ==
    ASSUME Counted, \A hh \in Households : Steady(hh), walked < Years * PerYear,
           NEW p \in DOMAIN plans, Capped(p), Active(p) # {}
    PROVE  /\ Summed(YearToDate, Group(p)) \in Int /\ Contributed(p) \in Int
           /\ Summed(YearToDate, Group(p)) <= Contributed(p)
<1> DEFINE G == Group(p)
           A == Active(p)
<1>1. IsFiniteSet(G) /\ IsFiniteSet(A) /\ A \in SUBSET G /\ G \in SUBSET DOMAIN plans
  BY GroupFinite
<1>2. /\ Contributed(p) = Summed(Cashed, A)
      /\ \A a : ContributionsFromCash(a)
                  = Summed(YearToDate, {q \in DOMAIN plans : plans[q].account = a /\ Capped(q)})
  BY TotalsAsSums
<1>3. \A q \in DOMAIN plans : YearToDate[q] \in Nat
  BY YearToDateNatural
<1>4. ASSUME NEW q \in A PROVE YearToDate[q] \in Int /\ Cashed[q] \in Int /\ YearToDate[q] <= Cashed[q]
  <2> DEFINE S == {o \in DOMAIN plans : plans[o].account = plans[q].account /\ Capped(o)}
  <2>1. q \in DOMAIN plans /\ Capped(q)
    BY <1>1 DEF Active, Group, Capped
  <2>2. q \in S /\ S \in SUBSET DOMAIN plans
    BY <2>1
  <2>3. IsFiniteSet(S)
    BY GroupFinite
  <2>4. Cashed[q] = Summed(YearToDate, S)
    BY <1>2, <2>1 DEF Cashed
  <2> HIDE DEF S
  <2>5. \A o \in S : YearToDate[o] \in Nat /\ YearToDate[o] \in Int
    BY <1>3, <2>2
  <2>6. Summed(YearToDate, S) \in Int
    BY <2>3, <2>5, SummedWhole
  <2>7. Summed(YearToDate, {q}) <= Summed(YearToDate, S)
    BY <2>2, <2>3, <2>5, SummedAtLeast
  <2>8. Summed(YearToDate, {q}) = YearToDate[q]
    BY <2>2, <2>5, SummedOne
  <2> QED BY <2>2, <2>4, <2>5, <2>6, <2>7, <2>8
<1>5. \A q \in G \ A : YearToDate[q] = 0
  BY StoppedIsNothing
<1>6. \A q \in G : YearToDate[q] \in Int
  BY <1>1, <1>3
<1> HIDE DEF G, A
<1>7. Summed(YearToDate, G) = Summed(YearToDate, A)
  BY <1>1, <1>5, <1>6, SummedPart
<1>8. Summed(YearToDate, A) <= Summed(Cashed, A)
  BY <1>1, <1>4, SummedAtMost
<1>9. Summed(YearToDate, A) \in Int /\ Summed(Cashed, A) \in Int
  BY <1>1, <1>4, SummedWhole
<1> QED BY <1>2, <1>7, <1>8, <1>9 DEF G

\* Those that share a limit share the group's sums.
LEMMA OneGroup ==
    ASSUME NEW p \in DOMAIN plans, Capped(p), NEW q \in Group(p)
    PROVE  /\ q \in DOMAIN plans /\ Capped(q) /\ plans[q].kind = plans[p].kind /\ Group(q) = Group(p)
           /\ Intended(q) = Intended(p) /\ Headroom(q) = Headroom(p)
<1>1. q \in DOMAIN plans /\ plans[q].kind = plans[p].kind /\ Owner[plans[q].account] = Owner[plans[p].account]
  BY DEF Group
<1>2. Group(q) = Group(p) /\ Capped(q)
  BY <1>1 DEF Group, Capped
<1>3. Intended(q) = Intended(p) /\ Contributed(q) = Contributed(p)
  BY <1>2 DEF Intended, Contributed
<1> QED BY <1>1, <1>2, <1>3 DEF Headroom

LEMMA GroupAmounts ==
    ASSUME Counted, walked < Years * PerYear, NEW p \in DOMAIN plans, Capped(p)
    PROVE  /\ Intended(p) \in Nat /\ Contributed(p) \in Int /\ Headroom(p) \in Nat
           /\ Limit[plans[p].kind] \in Nat
           /\ \A q \in Active(p) : q \in DOMAIN plans /\ Amounts[q] = LineAmount(q) /\ Amounts[q] \in Nat
<1> DEFINE A == Active(p)
<1>1. IsFiniteSet(A) /\ A \in SUBSET DOMAIN plans
  BY GroupFinite
<1>2. Intended(p) = Summed(Amounts, A) /\ Contributed(p) = Summed(Cashed, A)
  BY TotalsAsSums
<1>3. \A q \in DOMAIN plans : plans[q] \in ContributionPlans /\ LineAmount(q) \in Nat
  BY AmountsNatural
<1>4. \A q \in A : q \in DOMAIN plans /\ Amounts[q] = LineAmount(q) /\ Amounts[q] \in Nat
  BY <1>1, <1>3 DEF Amounts
<1>5. \A q \in A : Cashed[q] \in Int
  <2> SUFFICES ASSUME NEW q \in A PROVE Cashed[q] \in Int
    OBVIOUS
  <2> DEFINE S == {o \in DOMAIN plans : plans[o].account = plans[q].account /\ Capped(o)}
  <2>1. Cashed[q] = Summed(YearToDate, S)
    BY <1>1, TotalsAsSums DEF Cashed
  <2>2. IsFiniteSet(S)
    BY GroupFinite
  <2>3. \A o \in S : YearToDate[o] \in Int
    BY YearToDateNatural
  <2> HIDE DEF S
  <2> QED BY <2>1, <2>2, <2>3, SummedWhole
<1>6. Limit[plans[p].kind] \in Nat
  <2>1. plans[p].kind \in Kinds \cup {NoKind}
    BY <1>3 DEF ContributionPlans
  <2> QED BY <2>1, ContributionAssumption DEF Capped
<1> HIDE DEF A
<1>7. Contributed(p) \in Int
  BY <1>1, <1>2, <1>5, SummedWhole
<1>8. Intended(p) \in Nat
  <2>1. Summed(Amounts, A) \in Int
    BY <1>1, <1>4, SummedWhole
  <2>2. Summed(Amounts, {}) <= Summed(Amounts, A)
    BY <1>1, <1>4, SummedAtLeast
  <2>3. Summed(Amounts, {}) = 0
    BY SummedNothing
  <2> QED BY <1>2, <2>1, <2>2, <2>3
<1>9. Headroom(p) \in Nat
  BY <1>6, <1>7 DEF Headroom, Greater
<1> QED BY <1>4, <1>6, <1>7, <1>8, <1>9 DEF A

LEMMA SharesNatural ==
    ASSUME Counted, walked < Years * PerYear
    PROVE  \A q \in DOMAIN plans : ScaledAmount(q) \in Nat
<1> SUFFICES ASSUME NEW q \in DOMAIN plans PROVE ScaledAmount(q) \in Nat
  OBVIOUS
<1>1. LineAmount(q) \in Nat
  BY AmountsNatural
<1>2. CASE Capped(q) /\ Intended(q) > Headroom(q)
  <2>1. Intended(q) \in Nat /\ Headroom(q) \in Nat
    BY <1>2, GroupAmounts
  <2>2. Quantize(LineAmount(q) * Headroom(q), Intended(q)) \in Nat
    BY <1>1, <1>2, <2>1, ShareOf
  <2> QED BY <1>2, <2>2 DEF ScaledAmount
<1> QED BY <1>1, <1>2 DEF ScaledAmount

\* What an interval adds to a group: nothing once there is no headroom, the headroom and the
\* rounding at most.
LEMMA GroupAdds ==
    ASSUME Counted, walked < Years * PerYear, NEW p \in DOMAIN plans, Capped(p)
    PROVE  /\ Summed(Shares, Active(p)) \in Int
           /\ Headroom(p) = 0 => Summed(Shares, Active(p)) = 0
           /\ 2 * Summed(Shares, Active(p)) <= 2 * Headroom(p) + Cardinality(Active(p))
<1> DEFINE A == Active(p)
           due == Intended(p)
           h == Headroom(p)
           c == Cardinality(A)
<1>1. IsFiniteSet(A) /\ A \in SUBSET Group(p) /\ A \in SUBSET DOMAIN plans
  BY GroupFinite
<1>2. c \in Nat
  BY <1>1, FS_CardinalityType
<1>3. due \in Nat /\ h \in Nat /\ \A q \in A : Amounts[q] = LineAmount(q) /\ Amounts[q] \in Nat
  BY GroupAmounts
<1>4. due = Summed(Amounts, A)
  BY TotalsAsSums
<1>5. \A q \in A : Shares[q] = IF due > h THEN Quantize(Amounts[q] * h, due) ELSE Amounts[q]
  <2> SUFFICES ASSUME NEW q \in A
               PROVE  Shares[q] = IF due > h THEN Quantize(Amounts[q] * h, due) ELSE Amounts[q]
    OBVIOUS
  <2>1. q \in Group(p) /\ q \in DOMAIN plans /\ Amounts[q] = LineAmount(q)
    BY <1>1, <1>3
  <2>2. Capped(q) /\ Intended(q) = due /\ Headroom(q) = h
    BY <2>1, OneGroup
  <2> QED BY <2>1, <2>2 DEF Shares, ScaledAmount
<1> HIDE DEF A, due, h, c
<1>6. CASE due <= h
  <2>1. \A q \in A : Shares[q] = Amounts[q] /\ Shares[q] \in Int /\ Amounts[q] \in Int
    BY <1>3, <1>5, <1>6
  <2>2. A \in SUBSET A /\ \A q \in A \ A : Shares[q] = 0
    OBVIOUS
  <2>3. Summed(Shares, A) = Summed(Amounts, A)
    BY <1>1, <2>1, <2>2, SummedPart
  <2> QED BY <1>2, <1>3, <1>4, <1>6, <2>3 DEF A, h, c
<1>7. CASE due > h
  <2>1. ASSUME NEW q \in A
        PROVE  Shares[q] \in Nat /\ 2 * due * Shares[q] <= 2 * h * Amounts[q] + due /\ (h = 0 => Shares[q] = 0)
    <3> DEFINE x == Amounts[q]
               y == Quantize(x * h, due)
    <3>1. Shares[q] = y /\ x \in Nat
      BY <1>3, <1>5, <1>7
    <3>2. y \in Nat /\ 2 * due * y <= 2 * h * x + due /\ (h = 0 => y = 0)
      BY <1>3, <1>7, <3>1, ShareOf
    <3> QED BY <3>1, <3>2
  <2>2. Summed(Shares, A) \in Int
    BY <1>1, <2>1, SummedWhole
  <2>3. CASE h = 0
    <3>1. \A q \in A : Shares[q] \in Int
      BY <2>1
    <3>2. \A q \in A \ {} : Shares[q] = 0
      BY <2>1, <2>3
    <3>3. Summed(Shares, A) = Summed(Shares, {})
      BY <1>1, <3>1, <3>2, SummedPart
    <3>4. Summed(Shares, A) = 0
      BY <3>3, SummedNothing
    <3> QED BY <1>2, <2>3, <3>4 DEF A, h, c
  <2>4. CASE h # 0
    <3> DEFINE e == [q \in A |-> (2 * due) * Shares[q] + 0]
               d == [q \in A |-> (2 * h) * Amounts[q] + due]
               z == Summed(Shares, A)
    <3>1. \A q \in A : /\ Shares[q] \in Int /\ Amounts[q] \in Int
                       /\ e[q] = (2 * due) * Shares[q] + 0 /\ d[q] = (2 * h) * Amounts[q] + due
      BY <1>3, <2>1
    <3>2. 2 * due \in Int /\ 2 * h \in Int /\ due \in Int /\ 0 \in Int
      BY <1>3
    <3>3. \A q \in A : e[q] \in Int /\ d[q] \in Int /\ e[q] <= d[q]
      <4> SUFFICES ASSUME NEW q \in A PROVE e[q] \in Int /\ d[q] \in Int /\ e[q] <= d[q]
        OBVIOUS
      <4> DEFINE x == Amounts[q]
                 y == Shares[q]
      <4>1. x \in Nat /\ y \in Nat /\ 2 * due * y <= 2 * h * x + due
        BY <1>3, <2>1
      <4>2. e[q] = (2 * due) * y + 0 /\ d[q] = (2 * h) * x + due
        BY <3>1
      <4> HIDE DEF x, y, e, d
      <4> QED BY <1>3, <4>1, <4>2
    <3> HIDE DEF e, d
    <3>4. Summed(e, A) = (2 * due) * Summed(Shares, A) + 0 * Cardinality(A)
      <4>1. \A q \in A : Shares[q] \in Int /\ e[q] = (2 * due) * Shares[q] + 0
        BY <3>1
      <4> QED BY <1>1, <3>2, <4>1, SummedAffine
    <3>5. Summed(d, A) = (2 * h) * Summed(Amounts, A) + due * Cardinality(A)
      <4>1. \A q \in A : Amounts[q] \in Int /\ d[q] = (2 * h) * Amounts[q] + due
        BY <3>1
      <4> QED BY <1>1, <3>2, <4>1, SummedAffine
    <3>6. Summed(e, A) <= Summed(d, A)
      BY <1>1, <3>3, SummedAtMost
    <3>7. (2 * due) * z + 0 * c <= (2 * h) * due + due * c
      BY <1>4, <3>4, <3>5, <3>6 DEF c
    <3>8. due * (2 * z) <= due * (2 * h + c)
      <4>1. z \in Int
        BY <2>2
      <4> HIDE DEF z
      <4>2. (2 * due) * z + 0 * c = due * (2 * z) /\ (2 * h) * due + due * c = due * (2 * h + c)
        BY <1>2, <1>3, <4>1
      <4> QED BY <3>7, <4>2
    <3>9. 2 * z <= 2 * h + c
      <4> DEFINE u == 2 * z
                 w == 2 * h + c
      <4>1. u \in Int /\ w \in Int /\ due * u <= due * w /\ due > 0
        BY <1>2, <1>3, <1>7, <2>2, <3>8
      <4> HIDE DEF u, w, z
      <4>2. u <= w
        BY <1>3, <4>1
      <4> QED BY <4>2 DEF u, w
    <3> QED BY <2>2, <2>4, <3>9 DEF A, h, c
  <2> QED BY <2>3, <2>4
<1> QED BY <1>3, <1>6, <1>7
\* What the year has put into a group before an interval keeps to the limit.
LEMMA YearSoFar ==
    ASSUME Counted, NEW p \in DOMAIN plans, Capped(p), Limit[plans[p].kind] \in Nat, Within(p)
    PROVE  2 * Summed(YearToDate, Group(p)) <= 2 * Limit[plans[p].kind] + Cardinality(Group(p))
<1> DEFINE G == Group(p)
<1>1. IsFiniteSet(G) /\ G \in SUBSET DOMAIN plans
  BY GroupFinite
<1>2. Cardinality(G) \in Nat
  BY <1>1, FS_CardinalityType
<1>3. CASE walked % PerYear = 0
  <2>1. \A q \in G : YearToDate[q] = 0 /\ YearToDate[q] \in Int
    BY <1>1, <1>3 DEF YearToDate
  <2>2. {} \in SUBSET G /\ \A q \in G \ {} : YearToDate[q] = 0
    BY <2>1
  <2> HIDE DEF G
  <2>3. Summed(YearToDate, G) = Summed(YearToDate, {})
    BY <1>1, <2>1, <2>2, SummedPart
  <2>4. Summed(YearToDate, G) = 0
    BY <2>3, SummedNothing
  <2> QED BY <1>2, <2>4 DEF G
<1>4. CASE walked % PerYear # 0
  <2>1. YearToDate = made
    BY <1>4 DEF YearToDate
  <2> QED BY <2>1 DEF Within
<1> QED BY <1>3, <1>4

\* An interval adds its lines' shares to what the year has put in.
LEMMA GroupTotalAdds ==
    ASSUME Counted, ContributeInterval, NEW p \in DOMAIN plans, Capped(p)
    PROVE  Summed(made', Group(p)) = Summed(YearToDate, Group(p)) + Summed(Shares, Active(p))
<1> DEFINE G == Group(p)
           A == Active(p)
           inc == [q \in DOMAIN plans |-> IF q \in Lines THEN ScaledAmount(q) ELSE 0]
<1>1. IsFiniteSet(G) /\ A \in SUBSET G /\ G \in SUBSET DOMAIN plans
  BY GroupFinite
<1>2. \A q \in DOMAIN plans : YearToDate[q] \in Int
  BY YearToDateNatural
<1>3. \A q \in DOMAIN plans : ScaledAmount(q) \in Nat
  BY SharesNatural DEF ContributeInterval
<1>4. \A q \in DOMAIN plans : inc[q] \in Int
  BY <1>3
<1>5. \A q \in DOMAIN plans : made'[q] = YearToDate[q] + inc[q]
  BY DEF ContributeInterval
<1>6. (\A q \in G \ A : inc[q] = 0) /\ (\A q \in A : Shares[q] = inc[q])
  BY <1>1 DEF Active, Shares
<1> HIDE DEF G, A, inc
<1>7. Summed(made', G) = Summed(YearToDate, G) + Summed(inc, G)
  <2>1. \A q \in G : YearToDate[q] \in Int /\ inc[q] \in Int /\ made'[q] = YearToDate[q] + inc[q]
    BY <1>1, <1>2, <1>4, <1>5
  <2> QED BY <1>1, <2>1, SummedAdds
<1>8. Summed(inc, G) = Summed(Shares, A)
  <2>1. \A q \in G : inc[q] \in Int
    BY <1>1, <1>4
  <2> QED BY <1>1, <1>6, <2>1, SummedPart
<1> QED BY <1>7, <1>8 DEF G, A

LEMMA GroupKept ==
    ASSUME Counted, WithinLimit, \A hh \in Households : Steady(hh), ContributeInterval,
           NEW p \in DOMAIN plans, Capped(p)
    PROVE  2 * Summed(made', Group(p)) <= 2 * Limit[plans[p].kind] + Cardinality(Group(p))
<1> DEFINE G == Group(p)
           A == Active(p)
           L == Limit[plans[p].kind]
           T == Summed(YearToDate, G)
           D == Summed(Shares, A)
           N == Summed(made', G)
           g == Cardinality(G)
           a == Cardinality(A)
           h == Headroom(p)
           c == Contributed(p)
<1>1. IsFiniteSet(G) /\ IsFiniteSet(A) /\ A \in SUBSET G /\ G \in SUBSET DOMAIN plans
  BY GroupFinite
<1>2. g \in Nat /\ a \in Nat /\ a <= g
  BY <1>1, FS_CardinalityType, FS_Subset
<1>3. walked < Years * PerYear
  BY DEF ContributeInterval
<1>4. c \in Int /\ h \in Nat /\ L \in Nat
  BY <1>3, GroupAmounts
<1>5. T \in Int
  <2>1. \A q \in G : YearToDate[q] \in Int
    BY <1>1, YearToDateNatural
  <2> HIDE DEF G
  <2> QED BY <1>1, <2>1, SummedWhole DEF T
<1>6. 2 * T <= 2 * L + g
  <2>1. Within(p)
    BY WithinEach
  <2> QED BY <1>4, <2>1, YearSoFar
<1>7. D \in Int /\ (h = 0 => D = 0) /\ 2 * D <= 2 * h + a
  BY <1>3, GroupAdds
<1>8. N = T + D
  BY GroupTotalAdds
<1>9. h = Greater(0, L - c)
  BY DEF Headroom
<1>10. A # {} => T <= c
  BY <1>3, CountCovers
<1>11. A = {} => D = 0
  BY SummedNothing
<1> HIDE DEF G, A, L, T, D, N, g, a, h, c
<1>12. 2 * N <= 2 * L + g
  <2>1. CASE D = 0
    BY <1>5, <1>6, <1>8, <2>1
  <2>2. CASE D # 0
    <3>1. T <= c /\ h # 0
      BY <1>7, <1>10, <1>11, <2>2
    <3>2. h = L - c
      BY <1>4, <1>9, <3>1 DEF Greater
    <3> QED BY <1>2, <1>4, <1>5, <1>7, <1>8, <3>1, <3>2
  <2> QED BY <2>1, <2>2
<1> QED BY <1>12 DEF N, G, L, g

LEMMA CountedKept ==
    ASSUME Counted, ContributeInterval
    PROVE  Counted'
<1>1. plans' = plans /\ walked' = walked + 1 /\ walked \in Nat /\ walked < Years * PerYear
  BY DEF ContributeInterval, Counted
<1>2. \A q \in DOMAIN plans : YearToDate[q] \in Nat /\ ScaledAmount(q) \in Nat
  BY <1>1, YearToDateNatural, SharesNatural
<1>3. made' \in [DOMAIN plans -> Nat]
  BY <1>2 DEF ContributeInterval
<1>4. PerYear \in Nat \ {0}
  BY ContributionAssumption
<1>5. ASSUME NEW q \in DOMAIN plans, YearToDate'[q] # 0
      PROVE  \E m \in Nat : SameYear(m)' /\ Ran(q, m)'
  <2>1. (walked + 1) % PerYear # 0 /\ made'[q] # 0
    BY <1>1, <1>5 DEF YearToDate
  <2>2. (walked + 1) \div PerYear = walked \div PerYear
    BY <1>1, <1>4, <2>1, YearOf
  <2>3. made'[q] = YearToDate[q] + (IF q \in Lines THEN ScaledAmount(q) ELSE 0)
    BY DEF ContributeInterval
  <2>4. CASE q \in Lines
    <3>1. PICK m \in Nat : m = walked + 1
      BY <1>1
    <3>2. SameYear(m)' /\ Ran(q, m)'
      BY <1>1, <2>2, <2>4, <3>1 DEF SameYear, Ran, Lines
    <3> QED BY <3>1, <3>2
  <2>5. CASE q \notin Lines
    <3>1. YearToDate[q] # 0
      BY <1>2, <2>1, <2>3, <2>5
    <3>2. PICK m \in Nat : SameYear(m) /\ Ran(q, m)
      BY <3>1 DEF Counted
    <3>3. m \in 1 .. walked + 1
      BY <1>1, <3>2 DEF SameYear
    <3>4. SameYear(m)' /\ Ran(q, m)'
      BY <1>1, <2>2, <3>2, <3>3 DEF SameYear, Ran
    <3> QED BY <3>4
  <2> QED BY <2>4, <2>5
<1>6. plans' \in Households /\ walked' \in Nat /\ DOMAIN plans' = DOMAIN plans
  BY <1>1 DEF Counted
<1> QED BY <1>3, <1>5, <1>6 DEF Counted
-----------------------------------------------------------------------------

LEMMA LimitStart == ASSUME ContributionInit PROVE LimitInv
<1>1. plans \in Households /\ walked = 0 /\ made = [q \in DOMAIN plans |-> 0]
  BY DEF ContributionInit
<1>2. \A q \in DOMAIN plans : YearToDate[q] = 0
  BY <1>1 DEF YearToDate
<1>3. Counted
  BY <1>1, <1>2 DEF Counted
<1>4. ASSUME NEW p \in DOMAIN plans, Capped(p) PROVE Within(p)
  <2> DEFINE G == Group(p)
  <2>1. IsFiniteSet(G) /\ G \in SUBSET DOMAIN plans
    BY <1>3, GroupFinite
  <2>2. Cardinality(G) \in Nat
    BY <2>1, FS_CardinalityType
  <2>3. plans \in Seq(ContributionPlans)
    BY <1>1, ContributionAssumption
  <2>4. plans[p].kind \in Kinds \cup {NoKind}
    <3>1. plans[p] \in ContributionPlans
      BY <2>3
    <3> QED BY <3>1 DEF ContributionPlans
  <2>5. Limit[plans[p].kind] \in Nat
    BY <1>4, <2>4, ContributionAssumption DEF Capped
  <2>6. \A q \in G : made[q] = 0 /\ made[q] \in Int
    BY <1>1, <2>1
  <2>7. {} \in SUBSET G /\ \A q \in G \ {} : made[q] = 0
    BY <2>6
  <2> HIDE DEF G
  <2>8. Summed(made, G) = Summed(made, {})
    BY <2>1, <2>6, <2>7, SummedPart
  <2>9. Summed(made, G) = 0
    BY <2>8, SummedNothing
  <2> QED BY <2>2, <2>5, <2>9 DEF Within, G
<1> QED BY <1>3, <1>4, WithinEach DEF LimitInv

LEMMA LimitKept ==
    ASSUME LimitInv, \A hh \in Households : Steady(hh), ContributeInterval
    PROVE  LimitInv'
<1>1. Counted /\ WithinLimit /\ Counted'
  BY CountedKept DEF LimitInv
<1>2. plans' = plans
  BY DEF ContributeInterval
<1>3. \A p \in DOMAIN plans' : Capped(p)' => Within(p)'
  <2> SUFFICES ASSUME NEW p \in DOMAIN plans', Capped(p)' PROVE Within(p)'
    OBVIOUS
  <2>1. p \in DOMAIN plans /\ Capped(p) /\ Group(p)' = Group(p)
    BY <1>2 DEF Capped, Group
  <2>2. 2 * Summed(made', Group(p)) <= 2 * Limit[plans[p].kind] + Cardinality(Group(p))
    BY <1>1, <2>1, GroupKept
  <2> QED BY <1>2, <2>1, <2>2 DEF Within
<1> QED BY <1>1, <1>3, WithinEachNext DEF LimitInv

\* The annual limits hold for every household whose contributions to a limit do not stop within
\* a tax year in which another of that limit goes on (period/period.py _contribution_cap_factors:
\* the headroom is counted off the accounts of this interval's lines, so a line that has stopped
\* is forgotten, and its group is given that much again; each scaled line is rounded by itself,
\* to half a unit).
THEOREM LimitsHold == (\A hh \in Households : Steady(hh)) /\ ContributionSpec => []WithinLimit
<1> DEFINE H == \A hh \in Households : Steady(hh)
<1>1. H /\ ContributionSpec => ContributionInit /\ [][ContributeInterval]_contributionVars /\ H
  BY PTL DEF ContributionSpec
<1>2. ContributionInit => LimitInv
  BY LimitStart
<1>3. (LimitInv /\ H) /\ [ContributeInterval]_contributionVars => (LimitInv /\ H)'
  <2> SUFFICES ASSUME LimitInv, H, [ContributeInterval]_contributionVars PROVE LimitInv'
    OBVIOUS
  <2>1. CASE ContributeInterval
    BY <2>1, LimitKept
  <2>2. CASE UNCHANGED contributionVars
    <3>1. plans' = plans /\ walked' = walked /\ made' = made
      BY <2>2 DEF contributionVars
    <3>2. YearToDate' = YearToDate
      BY <3>1 DEF YearToDate
    <3>3. Counted'
      BY <3>1, <3>2 DEF LimitInv, Counted, SameYear, Ran
    <3>4. \A p \in DOMAIN plans' : Capped(p)' => Within(p)'
      BY <3>1, WithinEach DEF LimitInv, Capped, Within, Group
    <3> QED BY <3>3, <3>4, WithinEachNext DEF LimitInv
  <2> QED BY <2>1, <2>2
<1>4. LimitInv => WithinLimit
  BY DEF LimitInv
<1> QED BY <1>1, <1>2, <1>3, <1>4, PTL
=============================================================================
