---------------------------- MODULE TaxYearProofs ----------------------------
(***************************************************************************)
(* What the tax years thread from one to the next, for every law, couple,   *)
(* income and set of rentals: a capital loss is used once, a suspended      *)
(* rental loss is released with the last rental, the recapture of a sale is *)
(* the depreciation that was taken; and what a survivor collects.           *)
(***************************************************************************)
EXTENDS TaxYears, MoneyProofs, SequenceTheorems
-----------------------------------------------------------------------------
(* The gains. *)

LEMMA NettingThreads ==
    ASSUME NEW Law, Law.lossCap \in Nat, NEW short \in Int, NEW long \in Int
    PROVE  LET n == NetCapitalGains(Law, short, long)
           IN  /\ n.ordinary \in Int /\ n.preferential \in Int /\ n.offset \in Nat
               /\ n.short \in Nat /\ n.long \in Nat
               /\ short + long = n.ordinary + n.preferential - n.offset - n.short - n.long
               /\ n.short <= Greater(0, -short) /\ n.long <= Greater(0, -long)
<1> DEFINE total     == short + long
           loss      == Greater(0, -total)
           cap       == Law.lossCap
           offset    == Lesser(cap, loss)
           shortLoss == IF short >= 0 THEN 0 ELSE IF long < 0 THEN -short ELSE loss
           fromShort == Lesser(shortLoss, offset)
           n         == NetCapitalGains(Law, short, long)
<1>1. /\ n.ordinary = IF short <= 0 \/ total < 0 THEN 0 ELSE IF long >= 0 THEN short ELSE total
      /\ n.preferential = IF long <= 0 \/ total < 0 THEN 0 ELSE IF short >= 0 THEN long ELSE total
      /\ n.offset = offset
      /\ n.short = IF total >= 0 THEN 0 ELSE shortLoss - fromShort
      /\ n.long = IF total >= 0 THEN 0 ELSE loss - shortLoss - (offset - fromShort)
  BY DEF NetCapitalGains
<1> DEFINE Threads(m) ==
              /\ m.ordinary \in Int /\ m.preferential \in Int /\ m.offset \in Nat
              /\ m.short \in Nat /\ m.long \in Nat
              /\ short + long = m.ordinary + m.preferential - m.offset - m.short - m.long
              /\ m.short <= Greater(0, -short) /\ m.long <= Greater(0, -long)
<1>2. Greater(0, -long) \in Nat /\ Greater(0, -short) \in Nat
  BY DEF Greater
<1> HIDE DEF n
<1>3. ASSUME total >= 0 PROVE Threads(n)
  <2>1. loss = 0 /\ offset = 0
    BY <1>3 DEF Greater, Lesser
  <2>2. n.offset = 0 /\ n.short = 0 /\ n.long = 0
    BY <1>1, <1>3, <2>1
  <2>3. n.ordinary \in Int /\ n.preferential \in Int /\ n.ordinary + n.preferential = short + long
    BY <1>1, <1>3
  <2> HIDE DEF total
  <2> QED BY <1>2, <2>2, <2>3
<1>4. ASSUME total < 0 PROVE Threads(n)
  <2>1. loss = -total /\ loss \in Nat
    BY <1>4 DEF Greater
  <2>2. offset \in Nat /\ offset <= loss
    BY <2>1 DEF Lesser
  <2>3. shortLoss \in Nat /\ shortLoss <= loss /\ shortLoss <= Greater(0, -short)
        /\ loss - shortLoss <= Greater(0, -long)
    BY <1>4, <2>1 DEF Greater
  <2>4. fromShort \in Nat /\ fromShort <= shortLoss /\ fromShort <= offset
        /\ (fromShort = shortLoss \/ fromShort = offset)
    BY <2>2, <2>3 DEF Lesser
  <2>5. /\ n.ordinary = 0 /\ n.preferential = 0 /\ n.offset = offset
        /\ n.short = shortLoss - fromShort /\ n.long = loss - shortLoss - (offset - fromShort)
    BY <1>1, <1>4
  <2>6. total = short + long
    OBVIOUS
  <2> HIDE DEF total, loss, cap, offset, shortLoss, fromShort
  <2> QED BY <1>2, <2>1, <2>2, <2>3, <2>4, <2>5, <2>6
<1>5. Threads(n)
  <2>1. total \in Int
    OBVIOUS
  <2> HIDE DEF total, Threads
  <2> QED BY <1>3, <1>4, <2>1
<1> QED BY <1>5 DEF n

LEMMA PassiveThreads ==
    ASSUME NEW Law, NEW net \in Int, NEW magi \in Int, NEW suspended \in Int, NEW c,
           LET p == Law.passive IN
           /\ p.allowance \in Nat \ {0} /\ p.start \in Int /\ p.end \in Int
           /\ (p.end - p.start) \div p.allowance \in Nat \ {0}
    PROVE  LET r == Passive(Law, net, magi, suspended, c)
           IN  /\ r.deductible \in Int /\ r.suspended \in Int
               /\ net = r.deductible - r.suspended + suspended
               /\ FullyDisposed(c) \/ net - suspended >= 0 => r.suspended = 0
<1> DEFINE p == Law.passive
           allowance == PassiveAllowance(Law, magi)
           allowed == Lesser(-(net - suspended), IF c.participates THEN allowance ELSE 0)
<1>1. allowance \in Int
  <2>1. Quantize(p.end - magi, (p.end - p.start) \div p.allowance) \in Int
    BY QuantizeType
  <2> QED BY <2>1 DEF PassiveAllowance
<1> HIDE DEF allowance
<1>2. allowed \in Int
  BY <1>1 DEF Lesser
<1>3. Passive(Law, net, magi, suspended, c) =
        IF net - suspended >= 0 \/ FullyDisposed(c)
        THEN [deductible |-> net - suspended, suspended |-> 0]
        ELSE [deductible |-> -allowed, suspended |-> -(net - suspended) - allowed]
  BY DEF Passive, allowance
<1> HIDE DEF allowed
<1> QED BY <1>2, <1>3
-----------------------------------------------------------------------------
(* Depreciation. *)

Depreciable(x) == x.basis \in Int /\ x.acquired \in Int /\ x.recovery \in Nat \ {0} /\ x.sold \in Int

LEMMA AccumulatedType ==
    ASSUME NEW x, x.basis \in Int, x.acquired \in Int, x.recovery \in Nat \ {0}, NEW on \in Int
    PROVE  AccumulatedDepreciation(x, on) \in Int
<1>1. Quantize(x.basis * (on - x.acquired), x.recovery) \in Int
  BY QuantizeType
<1> QED BY <1>1 DEF AccumulatedDepreciation, Lesser

LEMMA DepreciationType ==
    ASSUME NEW x, Depreciable(x), NEW opening \in Int, NEW closing \in Int
    PROVE  DepreciationIn(x, opening, closing) \in Int
<1>1. \A on \in Int : AccumulatedDepreciation(x, on) \in Int
  BY AccumulatedType DEF Depreciable
<1> QED BY <1>1 DEF DepreciationIn, Depreciable

\* The totals over the rentals of a context.
LEMMA RentalTotals ==
    ASSUME NEW c, IsFiniteSet(c.rentals), \A x \in c.rentals : Depreciable(x),
           NEW w, w.opening \in Int, w.closing \in Int
    PROVE  /\ RentalDepreciation(w, c) \in Int /\ Recapture(c) \in Int
           /\ c.rentals = {} => RentalDepreciation(w, c) = 0
<1> DEFINE S == c.rentals
           D == [x \in S |-> DepreciationIn(x, w.opening, w.closing)]
           R == [x \in S |-> IF x.sold = NotSold THEN 0 ELSE AccumulatedDepreciation(x, x.sold)]
<1>1. \A x \in S : D[x] \in Int
  BY DepreciationType
<1>2. \A x \in S : R[x] \in Int
  <2> SUFFICES ASSUME NEW x \in S PROVE R[x] \in Int
    OBVIOUS
  <2>1. AccumulatedDepreciation(x, x.sold) \in Int
    BY AccumulatedType DEF Depreciable
  <2> QED BY <2>1
<1>3. RentalDepreciation(w, c) \in Int /\ (S = {} => RentalDepreciation(w, c) = 0)
  <2> DEFINE F(k) == [T \in SUBSET S |->
                 IF T = {} THEN 0
                 ELSE DepreciationIn(CHOOSE x \in T : TRUE, w.opening, w.closing) + k[T \ {CHOOSE x \in T : TRUE}]]
             g == CHOOSE k : k = F(k)
  <2>1. RentalDepreciation(w, c) = g[S]
    BY DEF RentalDepreciation, SumOver
  <2>2. PICK e : Sums(D, S, e)
    BY SumExists
  <2>3. \A T \in SUBSET S : T # {} => D[CHOOSE x \in T : TRUE]
                                         = DepreciationIn(CHOOSE x \in T : TRUE, w.opening, w.closing)
    OBVIOUS
  <2> HIDE DEF D
  <2>4. ASSUME NEW k PROVE F(k) = [T \in SUBSET S |-> Body(D, k, T)]
    BY <2>3 DEF Body, Pick
  <2> HIDE DEF F
  <2>5. F(g) = g
    BY <2>2, <2>4 DEF Sums
  <2>6. Sums(D, S, g)
    BY <2>4, <2>5 DEF Sums
  <2> HIDE DEF g
  <2>7. g[S] \in Int
    BY <1>1, <2>6, SumWhole
  <2>8. S = {} => g[S] = 0
    BY <2>6, SumEmpty
  <2> QED BY <2>1, <2>7, <2>8
<1>4. Recapture(c) \in Int
  <2> DEFINE F(k) == [T \in SUBSET S |->
                 IF T = {} THEN 0
                 ELSE (IF (CHOOSE x \in T : TRUE).sold = NotSold THEN 0
                       ELSE AccumulatedDepreciation(CHOOSE x \in T : TRUE, (CHOOSE x \in T : TRUE).sold))
                      + k[T \ {CHOOSE x \in T : TRUE}]]
             g == CHOOSE k : k = F(k)
  <2>1. Recapture(c) = g[S]
    BY DEF Recapture, SumOver
  <2>2. PICK e : Sums(R, S, e)
    BY SumExists
  <2>3. \A T \in SUBSET S : T # {} =>
            R[CHOOSE x \in T : TRUE] = IF (CHOOSE x \in T : TRUE).sold = NotSold THEN 0
                       ELSE AccumulatedDepreciation(CHOOSE x \in T : TRUE, (CHOOSE x \in T : TRUE).sold)
    OBVIOUS
  <2> HIDE DEF R
  <2>4. ASSUME NEW k PROVE F(k) = [T \in SUBSET S |-> Body(R, k, T)]
    BY <2>3 DEF Body, Pick
  <2> HIDE DEF F
  <2>5. F(g) = g
    BY <2>2, <2>4 DEF Sums
  <2>6. Sums(R, S, g)
    BY <2>4, <2>5 DEF Sums
  <2> HIDE DEF g
  <2>7. g[S] \in Int
    BY <1>2, <2>6, SumWhole
  <2> QED BY <2>1, <2>7
<1> QED BY <1>3, <1>4

\* What the rentals of S are depreciated from o to z; of one rental, its own.
Taken(S, o, z) == SumOver(S, LAMBDA q : DepreciationIn(q, o, z))

LEMMA TakenOf ==
    ASSUME NEW S, NEW o, NEW z, NEW x, S = {} \/ S = {x}, Depreciable(x), o \in Int, z \in Int
    PROVE  Taken(S, o, z) = IF S = {} THEN 0 ELSE DepreciationIn(x, o, z)
<1> DEFINE D == [q \in S |-> DepreciationIn(q, o, z)]
           F(k) == [T \in SUBSET S |->
                 IF T = {} THEN 0
                 ELSE DepreciationIn(CHOOSE q \in T : TRUE, o, z) + k[T \ {CHOOSE q \in T : TRUE}]]
           g == CHOOSE k : k = F(k)
<1>1. \A q \in S : D[q] \in Int
  BY DepreciationType
<1>2. IsFiniteSet(S)
  BY FS_EmptySet, FS_Singleton
<1>3. Taken(S, o, z) = g[S]
  BY DEF Taken, SumOver
<1>4. PICK e : Sums(D, S, e)
  BY <1>2, SumExists
<1>5. \A T \in SUBSET S : T # {} =>
          D[CHOOSE q \in T : TRUE] = DepreciationIn(CHOOSE q \in T : TRUE, o, z)
  OBVIOUS
<1>6. x \in S => D[x] = DepreciationIn(x, o, z)
  OBVIOUS
<1> HIDE DEF D
<1>7. ASSUME NEW k PROVE F(k) = [T \in SUBSET S |-> Body(D, k, T)]
  BY <1>5 DEF Body, Pick
<1> HIDE DEF F
<1>8. F(g) = g
  BY <1>4, <1>7 DEF Sums
<1>9. Sums(D, S, g)
  BY <1>7, <1>8 DEF Sums
<1> HIDE DEF g
<1>10. CASE S = {}
  BY <1>3, <1>9, <1>10, SumEmpty
<1>11. CASE S = {x}
  <2>1. \A s \in SUBSET S : g[s] = IF x \in s THEN D[x] ELSE 0
    BY <1>1, <1>2, <1>9, <1>11, SumOfOne
  <2> QED BY <1>3, <1>6, <1>11, <2>1
<1> QED BY <1>10, <1>11
-----------------------------------------------------------------------------
(* The books of a year. *)

\* The couple, as it stays.
Couple ==
    /\ household \in Households /\ year \in Nat /\ year >= BaseYear
    /\ soldOn \in [DOMAIN Rentals -> Nat \cup {NotSold}]

LEMMA OwnerType ==
    ASSUME Couple, Present(year) # {}
    PROVE  Owner(year).age \in Int /\ Owner(year).born \in Int
<1> DEFINE o == CHOOSE i \in Present(year) : \A j \in Present(year) : i <= j
<1>1. \E i \in Present(year) : \A j \in Present(year) : i <= j
  <2>1. Present(year) \in SUBSET {1, 2}
    BY DEF Present
  <2>2. CASE 1 \in Present(year)
    BY <2>1, <2>2
  <2>3. CASE 1 \notin Present(year)
    BY <2>1, <2>3
  <2> QED BY <2>2, <2>3
<1>2. o \in 1 .. 2
  BY <1>1 DEF Present
<1>3. Owner(year) = Subject(o, year)
  BY DEF Owner
<1> HIDE DEF o
<1>4. household.earners[o].born \in Nat
  <2>1. household.earners \in [1 .. 2 -> [born : Nat, pia : Nat]]
    BY CoupleAssumption DEF Couple
  <2> QED BY <1>2, <2>1
<1>5. YearOf(household.earners[o].born) \in Int
  BY <1>4 DEF YearOf
<1> QED BY <1>3, <1>5 DEF Subject, Couple

LEMMA ForcedType ==
    ASSUME NEW w, w.pretaxOpening \in Int, w.pretaxWithdrawn \in Int,
           NEW owner, owner.age \in Int, owner.born \in Int
    PROVE  ForcedDistribution(BaseLaw, w, owner) \in Int
<1> DEFINE age == Lesser(owner.age, BaseLaw.lifetimeTop)
           required == RequiredDistribution(BaseLaw, w.pretaxOpening, owner.age, owner.born)
<1>1. required \in Int
  <2>1. CASE owner.age < RmdStartAge(owner.born)
    BY <2>1 DEF RequiredDistribution
  <2>2. CASE ~(owner.age < RmdStartAge(owner.born))
    <3>1. age \in 72 .. BaseLaw.lifetimeTop
      BY <2>2, LawAssumption DEF RmdStartAge, Lesser
    <3>2. BaseLaw.lifetimeTable[age] \in Nat \ {0}
      BY <3>1, LawAssumption
    <3>3. Quantize(10 * w.pretaxOpening, BaseLaw.lifetimeTable[age]) \in Int
      BY <3>2, QuantizeType
    <3> QED BY <2>2, <3>3 DEF RequiredDistribution
  <2> QED BY <2>1, <2>2
<1> HIDE DEF required
<1> QED BY <1>1 DEF ForcedDistribution, Greater, required

Drawn(f, sales, factor) ==
    DrawnIn(year, [Grown(f, factor) EXCEPT !.rentalGain = IF sales = {} THEN 0 ELSE @], factor)

LEMMA DrawnFigures ==
    ASSUME NEW f \in Incomes, NEW factor \in Nat, NEW sales, NEW d, d = Drawn(f, sales, factor)
    PROVE  /\ Earnings \subseteq DOMAIN d
           /\ \A k \in Earnings \ {"socialSecurity"} : d[k] \in Int
           /\ (\A r \in DOMAIN Rentals : soldOn[r] # NotSold) => d.rent = 0 /\ d.rentalExpense = 0
<1> DEFINE e == Grown(f, factor)
           h == [e EXCEPT !.rentalGain = IF sales = {} THEN 0 ELSE @]
<1>1. Earnings \subseteq DOMAIN e /\ \A k \in Earnings : e[k] \in Int
  BY IncomeAssumption DEF Grown
<1> HIDE DEF e
<1>2. Earnings \subseteq DOMAIN h /\ \A k \in Earnings : h[k] \in Int
  BY <1>1
<1>3. d = DrawnIn(year, h, factor)
  BY DEF e, Drawn
<1> HIDE DEF h
<1> DEFINE letting == \E r \in DOMAIN Rentals : soldOn[r] = NotSold
           benefit == HouseholdBenefit(Members, YearStart(year)) * factor
<1>4. d = [h EXCEPT !.socialSecurity = benefit, !.rent = IF letting THEN @ ELSE 0,
                    !.rentalExpense = IF letting THEN @ ELSE 0]
  BY <1>3 DEF DrawnIn
<1> HIDE DEF benefit, letting
<1>5. /\ DOMAIN d = DOMAIN h
      /\ \A k \in DOMAIN h \ {"socialSecurity", "rent", "rentalExpense"} : d[k] = h[k]
  BY <1>4
<1>6. /\ d.rent = IF letting THEN h["rent"] ELSE 0
      /\ d.rentalExpense = IF letting THEN h["rentalExpense"] ELSE 0
  BY <1>2, <1>4 DEF Earnings
<1>7. h["rent"] \in Int /\ h["rentalExpense"] \in Int
  BY <1>2 DEF Earnings
<1>8. \A k \in Earnings \ {"socialSecurity"} : d[k] \in Int
  <2> SUFFICES ASSUME NEW k \in Earnings \ {"socialSecurity"} PROVE d[k] \in Int
    OBVIOUS
  <2>1. CASE k = "rent"
    BY <1>6, <1>7, <2>1
  <2>2. CASE k = "rentalExpense"
    BY <1>6, <1>7, <2>2
  <2>3. CASE k \notin {"rent", "rentalExpense"}
    BY <1>2, <1>5, <2>3
  <2> QED BY <2>1, <2>2, <2>3
<1> QED BY <1>2, <1>5, <1>6, <1>8 DEF letting

LEMMA WindowFigures ==
    ASSUME Couple, year <= LastYear, Present(year) # {}, NEW f \in Incomes, NEW sales,
           NEW w, w = WindowOf(year, f, sales, ColaFactor(year))
    PROVE  /\ w.opening = 2 * year /\ w.closing = 2 * year + 2
           /\ \A k \in Earnings \ {"socialSecurity"} : w[k] \in Int
           /\ (\A r \in DOMAIN Rentals : soldOn[r] # NotSold) => w.rent = 0 /\ w.rentalExpense = 0
<1> DEFINE factor == ColaFactor(year)
           d == Drawn(f, sales, factor)
           forced == ForcedDistribution(BaseLaw, d, Owner(year))
<1>1. factor \in Nat
  BY IncomeAssumption, CoupleAssumption DEF ColaFactor, Couple
<1>2. w = Windowed(year, d, forced)
  BY DEF WindowOf, WindowOfDrawn, Drawn
<1> HIDE DEF factor
<1>3. d = Drawn(f, sales, factor)
  OBVIOUS
<1> HIDE DEF d
<1>4. /\ Earnings \subseteq DOMAIN d /\ \A k \in Earnings \ {"socialSecurity"} : d[k] \in Int
      /\ (\A r \in DOMAIN Rentals : soldOn[r] # NotSold) => d.rent = 0 /\ d.rentalExpense = 0
  BY <1>1, <1>3, DrawnFigures
<1>5. d["pretaxOpening"] \in Int /\ d["pretaxWithdrawn"] \in Int
  BY <1>4 DEF Earnings
<1>6. forced \in Int
  BY <1>5, OwnerType, ForcedType
<1> HIDE DEF forced
<1>7. w = [k \in DOMAIN d \cup {"opening", "closing"} |->
              CASE k = "opening"      -> 2 * year
                [] k = "closing"      -> 2 * year + 2
                [] k = "distribution" -> d["pretaxWithdrawn"] + forced
                [] OTHER              -> d[k]]
  BY <1>2 DEF Windowed
<1>8. w.opening = 2 * year /\ w.closing = 2 * year + 2
  BY <1>7
<1>9. \A k \in Earnings \ {"distribution"} : w[k] = d[k]
  <2>1. "opening" \notin Earnings /\ "closing" \notin Earnings
    BY DEF Earnings
  <2> QED BY <1>4, <1>7, <2>1
<1>10. w["distribution"] \in Int
  <2>1. "distribution" \in DOMAIN d
    BY <1>4 DEF Earnings
  <2>2. w["distribution"] = d["pretaxWithdrawn"] + forced
    BY <1>7, <2>1
  <2> QED BY <1>5, <1>6, <2>2
<1>11. w.rent = d["rent"] /\ w.rentalExpense = d["rentalExpense"]
  BY <1>9 DEF Earnings
<1> QED BY <1>4, <1>8, <1>9, <1>10, <1>11
-----------------------------------------------------------------------------
(* One return. *)

LEMMA LawKept ==
    ASSUME NEW law, law = EngineFor(year, household.projection)
    PROVE  /\ law.lossCap = BaseLaw.lossCap /\ law.exclusion = BaseLaw.exclusion
           /\ law.passive = BaseLaw.passive /\ law.penaltyAge = BaseLaw.penaltyAge
<1>1. {"lossCap", "exclusion", "passive", "penaltyAge"} \subseteq DOMAIN BaseLaw
  BY LawAssumption DEF Figures
<1> QED BY <1>1 DEF EngineFor, Indexed

LEMMA ContextRentals ==
    ASSUME Couple, NEW sales \in SUBSET {r \in DOMAIN Rentals : soldOn[r] = NotSold},
           NEW c, c = ContextOf(year, sales)
    PROVE  /\ IsFiniteSet(c.rentals) /\ \A x \in c.rentals : Depreciable(x)
           /\ c.rentals = {} <=> \A r \in DOMAIN Rentals : soldOn[r] # NotSold
           /\ c.rentals # {} /\ (\A r \in DOMAIN Rentals : soldOn[r] = NotSold => r \in sales) => FullyDisposed(c)
           /\ c.filing = "joint" /\ c.owner = Owner(year) /\ c.year = year
<1> DEFINE U == {r \in DOMAIN Rentals : soldOn[r] = NotSold}
           rental(r) == [id |-> r, basis |-> Rentals[r].basis, acquired |-> Rentals[r].acquired,
                         recovery |-> Rentals[r].recovery,
                         sold |-> IF r \in sales THEN 2 * year + 1 ELSE NotSold]
<1>1. c.rentals = {rental(r) : r \in U}
  BY DEF ContextOf
<1>2. IsFiniteSet(U)
  BY IncomeAssumption, FS_Subset
<1>3. IsFiniteSet(c.rentals)
  <2> DEFINE f == [r \in U |-> rental(r)]
  <2> HIDE DEF rental
  <2>1. f \in Surjection(U, c.rentals)
    BY <1>1 DEF Surjection
  <2> QED BY <1>2, <2>1, FS_Surjection
<1>4. \A r \in U : Depreciable(rental(r))
  BY IncomeAssumption DEF Depreciable, NotSold, Couple
<1>5. \A r \in sales : rental(r).sold # NotSold
  BY DEF NotSold, Couple
<1>6. c.filing = "joint" /\ c.owner = Owner(year) /\ c.year = year
  BY DEF ContextOf
<1> HIDE DEF rental
<1>7. c.rentals # {} /\ U \subseteq sales => FullyDisposed(c)
  BY <1>1, <1>5 DEF FullyDisposed
<1> QED BY <1>1, <1>3, <1>4, <1>6, <1>7

\* A figure of the books, whichever.
LEMMA Figure ==
    ASSUME NEW w, \A k \in Earnings \ {"socialSecurity"} : w[k] \in Int
    PROVE  /\ w.wages \in Int /\ w.ordinary \in Int /\ w.pension \in Int /\ w.distribution \in Int
           /\ w.rothEarnings \in Int /\ w.interest \in Int /\ w.dividends \in Int
           /\ w.shortGains \in Int /\ w.longGains \in Int /\ w.residenceGain \in Int
           /\ w.secondHomeGain \in Int /\ w.rentalGain \in Int /\ w.collectiblesGain \in Int
           /\ w.pretaxContributed \in Int /\ w.rent \in Int /\ w.rentalExpense \in Int
BY DEF Earnings

\* What of a return is carried, and what it is made of.
LEMMA ReturnThreads ==
    ASSUME Couple, Present(year) # {}, NEW w, NEW c, NEW opening, NEW law, NEW a,
           law = EngineFor(year, household.projection), a = Assess(law, w, c, opening),
           w.opening \in Int, w.closing \in Int, \A k \in Earnings \ {"socialSecurity"} : w[k] \in Int,
           IsFiniteSet(c.rentals), \A x \in c.rentals : Depreciable(x),
           c.filing = "joint", c.owner = Owner(year),
           opening.short \in Int, opening.long \in Int, opening.suspended \in Int
    PROVE  /\ a.netted = NetCapitalGains(law, w.shortGains - opening.short, a.grossLong - opening.long)
           /\ a.grossShort = w.shortGains /\ a.grossShort \in Int /\ a.grossLong \in Int
           /\ a.netRental = w.rent - w.rentalExpense - RentalDepreciation(w, c) /\ a.netRental \in Int
           /\ \E magi \in Int : a.passive = Passive(law, a.netRental, magi, opening.suspended, c)
           /\ a.closing.short = a.netted.short /\ a.closing.long = a.netted.long
           /\ a.closing.suspended = a.passive.suspended
<1> DEFINE status == FilingStatus(c.filing, c.deathYear, c.year)
           g == GainsOf(law, status, w, c, opening)
           magi == NonrentalIncome(law, w, c, g) + TotalGains(w, g)
           passive == PassiveResult(law, w, c, opening, g)
           income == AdjustedGross(law, status, w, c, g, passive)
           net == NetTax(law, status, w, c, g, passive, income,
                         StateIncomeTax(law, w, income.agi, income.benefits))
           long == g.long
           netted == g.netted
<1>1. a = Assessed(w, c, g, passive, income, net)
  BY DEF Assess, AssessGains, AssessRentals, AssessIncome
<1>2. status \in {"joint", "single"}
  BY DEF FilingStatus
<1>3. /\ law.lossCap = BaseLaw.lossCap /\ law.exclusion = BaseLaw.exclusion
      /\ law.passive = BaseLaw.passive /\ law.penaltyAge = BaseLaw.penaltyAge
  BY LawKept
<1>4. law.lossCap \in Nat /\ law.exclusion[status] \in Int
  BY <1>2, <1>3, LawAssumption
<1> HIDE DEF status
<1>5. RentalDepreciation(w, c) \in Int /\ Recapture(c) \in Int
  BY RentalTotals
<1>6. /\ w.wages \in Int /\ w.ordinary \in Int /\ w.pension \in Int /\ w.distribution \in Int
      /\ w.rothEarnings \in Int /\ w.interest \in Int /\ w.dividends \in Int
      /\ w.shortGains \in Int /\ w.longGains \in Int /\ w.residenceGain \in Int
      /\ w.secondHomeGain \in Int /\ w.rentalGain \in Int /\ w.collectiblesGain \in Int
      /\ w.pretaxContributed \in Int /\ w.rent \in Int /\ w.rentalExpense \in Int
  BY Figure
<1>7. /\ long \in Int /\ g.s1250 \in Int /\ g.collectibles \in Int
      /\ netted = NetCapitalGains(law, w.shortGains - opening.short, long - opening.long)
  BY <1>4, <1>5, <1>6 DEF GainsOf, SplitRentalGain, Greater, Lesser
<1>8. netted.ordinary \in Int /\ netted.preferential \in Int /\ netted.offset \in Int
  <2>1. w.shortGains - opening.short \in Int /\ long - opening.long \in Int
    BY <1>6, <1>7
  <2> HIDE DEF netted, long
  <2> QED BY <1>4, <1>7, <2>1, NettingThreads
<1>9. NetRental(w, c) \in Int /\ NetRental(w, c) = w.rent - w.rentalExpense - RentalDepreciation(w, c)
  BY <1>5, <1>6 DEF NetRental
<1>10. magi \in Int
  <2>1. RothEarlyEarnings(law, w, c.owner) \in Int
    BY <1>6 DEF RothEarlyEarnings, Greater
  <2>2. g.netted.ordinary \in Int /\ g.netted.preferential \in Int /\ g.netted.offset \in Int
    BY <1>8
  <2> HIDE DEF g
  <2> QED BY <1>6, <1>7, <2>1, <2>2 DEF NonrentalIncome, TotalGains, Preferential
<1>11. passive = Passive(law, NetRental(w, c), magi, opening.suspended, c)
  BY DEF PassiveResult
<1> HIDE DEF g, passive, income, net, magi
<1>12. /\ a.netted = netted /\ a.passive = passive /\ a.grossShort = w.shortGains /\ a.grossLong = long
       /\ a.netRental = NetRental(w, c)
       /\ a.closing.short = netted.short /\ a.closing.long = netted.long
       /\ a.closing.suspended = passive.suspended
  BY <1>1 DEF Assessed
<1> HIDE DEF long, netted
<1> QED BY <1>6, <1>7, <1>9, <1>10, <1>11, <1>12
-----------------------------------------------------------------------------
(* The years. *)

\* Up to when a rental's depreciation has been taken.
Until(r) == IF soldOn[r] = NotSold THEN 2 * year ELSE soldOn[r]

Histories == [short : Int, long : Int, rental : Int, deducted : Int, offset : Int, shortLost : Nat,
              longLost : Nat, depreciated : [DOMAIN Rentals -> Int]]

Threaded ==
    /\ Couple /\ history \in Histories /\ carried.suspended \in Int
    /\ LossesUsedOnce /\ SuspendedReleased
    /\ \A r \in DOMAIN Rentals :
          history.depreciated[r] = AccumulatedDepreciation(Rentals[r], Until(r))
                                     - AccumulatedDepreciation(Rentals[r], 2 * BaseYear)

\* The depreciation of one rental in the year.
LEMMA YearOfRental ==
    ASSUME Couple, NEW sales \in SUBSET {r \in DOMAIN Rentals : soldOn[r] = NotSold},
           NEW c, c = ContextOf(year, sales), NEW w, w.opening = 2 * year, w.closing = 2 * year + 2,
           NEW r \in DOMAIN Rentals
    PROVE  Taken({x \in c.rentals : x.id = r}, w.opening, w.closing) =
               IF soldOn[r] # NotSold THEN 0
               ELSE AccumulatedDepreciation(Rentals[r], IF r \in sales THEN 2 * year + 1 ELSE 2 * year + 2)
                      - AccumulatedDepreciation(Rentals[r], 2 * year)
<1> DEFINE U == {q \in DOMAIN Rentals : soldOn[q] = NotSold}
           rental(q) == [id |-> q, basis |-> Rentals[q].basis, acquired |-> Rentals[q].acquired,
                         recovery |-> Rentals[q].recovery,
                         sold |-> IF q \in sales THEN 2 * year + 1 ELSE NotSold]
           x == rental(r)
           S == {y \in c.rentals : y.id = r}
<1>1. c.rentals = {rental(q) : q \in U}
  BY DEF ContextOf
<1>2. \A q \in U : rental(q).id = q
  OBVIOUS
<1>3. S = IF r \in U THEN {x} ELSE {}
  <2> HIDE DEF rental
  <2> QED BY <1>1, <1>2
<1>4. Depreciable(x)
  BY IncomeAssumption DEF Depreciable, NotSold, Couple
<1>5. \A on : AccumulatedDepreciation(x, on) = AccumulatedDepreciation(Rentals[r], on)
  BY DEF AccumulatedDepreciation
<1>6. x.sold = IF r \in sales THEN 2 * year + 1 ELSE NotSold
  OBVIOUS
<1> HIDE DEF x
<1>7. year \in Nat /\ w.opening \in Int /\ w.closing \in Int
  BY DEF Couple
<1>8. DepreciationIn(x, w.opening, w.closing) =
          AccumulatedDepreciation(Rentals[r], IF r \in sales THEN 2 * year + 1 ELSE 2 * year + 2)
            - AccumulatedDepreciation(Rentals[r], 2 * year)
  <2>1. CASE r \in sales
    <3>1. x.sold = 2 * year + 1 /\ x.sold # NotSold /\ x.sold < w.closing
      BY <1>6, <1>7, <2>1 DEF NotSold
    <3> QED BY <1>5, <2>1, <3>1 DEF DepreciationIn
  <2>2. CASE r \notin sales
    BY <1>5, <1>6, <2>2 DEF DepreciationIn
  <2> QED BY <2>1, <2>2
<1>9. S = {} \/ S = {x}
  BY <1>3
<1> HIDE DEF S
<1>10. Taken(S, w.opening, w.closing) = IF S = {} THEN 0 ELSE DepreciationIn(x, w.opening, w.closing)
  <2> DEFINE o == w.opening
             z == w.closing
  <2>1. o \in Int /\ z \in Int
    BY <1>7
  <2> HIDE DEF o, z
  <2>2. Taken(S, o, z) = IF S = {} THEN 0 ELSE DepreciationIn(x, o, z)
    BY <1>4, <1>9, <2>1, TakenOf
  <2> QED BY <2>2 DEF o, z
<1> QED BY <1>3, <1>8, <1>10 DEF S

LEMMA YearFiled ==
    ASSUME Threaded, NEW f \in Incomes, NEW sales \in SUBSET DOMAIN Rentals, FileYear(f, sales)
    PROVE  Threaded'
<1> DEFINE w == WindowOf(year, f, sales, ColaFactor(year))
           c == ContextOf(year, sales)
           law == EngineFor(year, household.projection)
           a == Assess(law, w, c, carried)
           short == w.shortGains - carried.short
           long == a.grossLong - carried.long
<1>1. /\ year <= LastYear /\ Present(year) # {} /\ household' = household /\ year' = year + 1
      /\ sales \in SUBSET {r \in DOMAIN Rentals : soldOn[r] = NotSold}
      /\ soldOn' = [r \in DOMAIN Rentals |-> IF r \in sales THEN 2 * year + 1 ELSE soldOn[r]]
      /\ Filed(f, w, c, law, a)
  BY DEF FileYear, Return
<1>2. Couple /\ history \in Histories /\ carried.suspended \in Int /\ carried.short \in Nat /\ carried.long \in Nat
  BY DEF Threaded, LossesUsedOnce, Histories
<1>3. year \in Nat /\ soldOn \in [DOMAIN Rentals -> Nat \cup {NotSold}]
  BY <1>2 DEF Couple
<1>4. Couple'
  <2>1. soldOn' \in [DOMAIN Rentals -> Nat \cup {NotSold}]
    BY <1>1, <1>3
  <2>2. year + 1 \in Nat /\ year + 1 >= BaseYear
    BY <1>2, <1>3, CoupleAssumption DEF Couple
  <2> QED BY <1>1, <1>2, <2>1, <2>2 DEF Couple
<1>5. /\ w.opening = 2 * year /\ w.closing = 2 * year + 2
      /\ \A k \in Earnings \ {"socialSecurity"} : w[k] \in Int
      /\ (\A r \in DOMAIN Rentals : soldOn[r] # NotSold) => w.rent = 0 /\ w.rentalExpense = 0
  BY <1>1, <1>2, WindowFigures
<1>6. /\ IsFiniteSet(c.rentals) /\ \A x \in c.rentals : Depreciable(x)
      /\ c.rentals = {} <=> \A r \in DOMAIN Rentals : soldOn[r] # NotSold
      /\ c.rentals # {} /\ (\A r \in DOMAIN Rentals : soldOn[r] = NotSold => r \in sales) => FullyDisposed(c)
      /\ c.filing = "joint" /\ c.owner = Owner(year)
  BY <1>1, <1>2, ContextRentals
<1> HIDE DEF w, c
<1>7. w.opening \in Int /\ w.closing \in Int /\ w.shortGains \in Int
  BY <1>3, <1>5, Figure
<1>8. /\ a.netted = NetCapitalGains(law, short, long)
      /\ a.grossShort = w.shortGains /\ a.grossShort \in Int /\ a.grossLong \in Int
      /\ a.netRental = w.rent - w.rentalExpense - RentalDepreciation(w, c) /\ a.netRental \in Int
      /\ \E magi \in Int : a.passive = Passive(law, a.netRental, magi, carried.suspended, c)
      /\ a.closing.short = a.netted.short /\ a.closing.long = a.netted.long
      /\ a.closing.suspended = a.passive.suspended
  BY <1>1, <1>2, <1>5, <1>6, <1>7, ReturnThreads
<1> HIDE DEF a
<1>9. /\ law.lossCap \in Nat
      /\ LET p == law.passive IN
         /\ p.allowance \in Nat \ {0} /\ p.start \in Int /\ p.end \in Int
         /\ (p.end - p.start) \div p.allowance \in Nat \ {0}
  BY LawKept, LawAssumption
<1> HIDE DEF law
<1>10. short \in Int /\ long \in Int
  BY <1>2, <1>7, <1>8
<1>11. /\ a.netted.ordinary \in Int /\ a.netted.preferential \in Int /\ a.netted.offset \in Nat
       /\ a.netted.short \in Nat /\ a.netted.long \in Nat
       /\ short + long = a.netted.ordinary + a.netted.preferential - a.netted.offset
                           - a.netted.short - a.netted.long
       /\ a.netted.short <= Greater(0, -short) /\ a.netted.long <= Greater(0, -long)
  <2> HIDE DEF short, long
  <2> QED BY <1>8, <1>9, <1>10, NettingThreads
<1>12. /\ a.passive.deductible \in Int /\ a.passive.suspended \in Int
       /\ a.netRental = a.passive.deductible - a.passive.suspended + carried.suspended
       /\ FullyDisposed(c) \/ a.netRental - carried.suspended >= 0 => a.passive.suspended = 0
  BY <1>2, <1>8, <1>9, PassiveThreads
<1> DEFINE taken(r) == Taken({x \in c.rentals : x.id = r}, w.opening, w.closing)
           past(r, on) == AccumulatedDepreciation(Rentals[r], on)
           lostShort == Greater(0, -a.grossShort)
           lostLong == Greater(0, -a.grossLong)
           offset == a.netted.ordinary + a.netted.preferential - a.netted.offset
           e == [r \in DOMAIN Rentals |-> history.depreciated[r] + taken(r)]
<1>13. /\ carried' = a.closing
       /\ history' = [history EXCEPT !.short = @ + a.grossShort, !.long = @ + a.grossLong,
                         !.shortLost = @ + lostShort, !.longLost = @ + lostLong,
                         !.offset = @ + a.netted.ordinary + a.netted.preferential - a.netted.offset,
                         !.rental = @ + a.netRental, !.deducted = @ + a.passive.deductible,
                         !.depreciated = [r \in DOMAIN Rentals |-> @[r] + taken(r)]]
  BY <1>1 DEF Filed, Taken
<1> HIDE DEF taken
<1>14. \A r \in DOMAIN Rentals :
           taken(r) = IF soldOn[r] # NotSold THEN 0
                      ELSE past(r, IF r \in sales THEN 2 * year + 1 ELSE 2 * year + 2) - past(r, 2 * year)
  <2>1. c = ContextOf(year, sales)
    BY DEF c
  <2>2. ASSUME NEW r \in DOMAIN Rentals
        PROVE  Taken({x \in c.rentals : x.id = r}, w.opening, w.closing) =
                   IF soldOn[r] # NotSold THEN 0
                   ELSE past(r, IF r \in sales THEN 2 * year + 1 ELSE 2 * year + 2) - past(r, 2 * year)
    <3>1. /\ w.opening = 2 * year /\ w.closing = 2 * year + 2 /\ Couple
          /\ sales \in SUBSET {q \in DOMAIN Rentals : soldOn[q] = NotSold}
      BY <1>1, <1>2, <1>5
    <3> QED BY <2>1, <2>2, <3>1, YearOfRental
  <2> HIDE DEF past
  <2> QED BY <2>2 DEF taken
<1>15. \A r \in DOMAIN Rentals : \A on \in Int : past(r, on) \in Int
  BY IncomeAssumption, AccumulatedType
<1> HIDE DEF past
<1>16. \A r \in DOMAIN Rentals : taken(r) \in Int
  BY <1>3, <1>14, <1>15
<1>17. \A r \in DOMAIN Rentals : history.depreciated[r] \in Int
  BY <1>2 DEF Histories
<1>18. lostShort \in Nat /\ lostLong \in Nat /\ lostShort >= -a.grossShort /\ lostLong >= -a.grossLong
  BY <1>8 DEF Greater
<1> HIDE DEF lostShort, lostLong
<1>19. e \in [DOMAIN Rentals -> Int]
  BY <1>16, <1>17
<1>20. /\ history' \in Histories
       /\ history'.short = history.short + a.grossShort /\ history'.long = history.long + a.grossLong
       /\ history'.shortLost = history.shortLost + lostShort /\ history'.longLost = history.longLost + lostLong
       /\ history'.offset = history.offset + offset /\ history'.rental = history.rental + a.netRental
       /\ history'.deducted = history.deducted + a.passive.deductible /\ history'.depreciated = e
  <2>1. /\ history.offset \in Int
        /\ history.offset + a.netted.ordinary + a.netted.preferential - a.netted.offset
             = history.offset + offset /\ offset \in Int
    BY <1>2, <1>11 DEF Histories
  <2>2. history' = [history EXCEPT !.short = @ + a.grossShort, !.long = @ + a.grossLong,
                       !.shortLost = @ + lostShort, !.longLost = @ + lostLong, !.offset = @ + offset,
                       !.rental = @ + a.netRental, !.deducted = @ + a.passive.deductible,
                       !.depreciated = e]
    BY <1>2, <1>13, <2>1 DEF Histories
  <2> HIDE DEF offset, e
  <2> DEFINE x == a.grossShort
             y == a.grossLong
             n == a.netRental
             d == a.passive.deductible
  <2>3. x \in Int /\ y \in Int /\ n \in Int /\ d \in Int /\ offset \in Int
    BY <1>8, <1>12, <2>1
  <2> HIDE DEF x, y, n, d
  <2>4. /\ history.short \in Int /\ history.long \in Int /\ history.rental \in Int /\ history.deducted \in Int
        /\ history.offset \in Int /\ history.shortLost \in Nat /\ history.longLost \in Nat
    BY <1>2 DEF Histories
  <2>5. history' = [history EXCEPT !.short = @ + x, !.long = @ + y, !.shortLost = @ + lostShort,
                       !.longLost = @ + lostLong, !.offset = @ + offset, !.rental = @ + n,
                       !.deducted = @ + d, !.depreciated = e]
    BY <2>2 DEF x, y, n, d
  <2>6. history' = [short |-> history.short + x, long |-> history.long + y, rental |-> history.rental + n,
                    deducted |-> history.deducted + d, offset |-> history.offset + offset,
                    shortLost |-> history.shortLost + lostShort,
                    longLost |-> history.longLost + lostLong, depreciated |-> e]
    BY <1>2, <2>5 DEF Histories
  <2> QED BY <1>18, <1>19, <2>3, <2>4, <2>6 DEF x, y, n, d, Histories
<1>21. /\ carried'.short = a.netted.short /\ carried'.long = a.netted.long
       /\ carried'.suspended = a.passive.suspended
  BY <1>8, <1>13
<1>22. LossesUsedOnce'
  <2>1. /\ history.short \in Int /\ history.long \in Int /\ history.offset \in Int
        /\ history.shortLost \in Nat /\ history.longLost \in Nat
    BY <1>2 DEF Histories
  <2>2. /\ history.short + history.long = history.offset - carried.short - carried.long
        /\ carried.short <= history.shortLost /\ carried.long <= history.longLost
    BY <1>2, <2>1 DEF Threaded, LossesUsedOnce
  <2>3. short = a.grossShort - carried.short /\ long = a.grossLong - carried.long
    BY <1>8
  <2> HIDE DEF short, long
  <2>4. history'.short + history'.long = history'.offset - carried'.short - carried'.long
    <3>1. /\ a.grossShort \in Int /\ a.grossLong \in Int /\ carried.short \in Int /\ carried.long \in Int
          /\ a.netted.short \in Int /\ a.netted.long \in Int
      BY <1>2, <1>8, <1>11
    <3>2. /\ a.grossShort - carried.short + (a.grossLong - carried.long)
               = offset - a.netted.short - a.netted.long
          /\ offset \in Int
      BY <1>11, <2>3
    <3> HIDE DEF offset
    <3>3. history.short + a.grossShort + (history.long + a.grossLong)
              = history.offset + offset - a.netted.short - a.netted.long
      <4> DEFINE hs == history.short
                 hl == history.long
                 ho == history.offset
                 cs == carried.short
                 cl == carried.long
                 gs == a.grossShort
                 gl == a.grossLong
                 ns == a.netted.short
                 nl == a.netted.long
      <4>1. /\ hs \in Int /\ hl \in Int /\ ho \in Int /\ cs \in Int /\ cl \in Int /\ gs \in Int /\ gl \in Int
            /\ ns \in Int /\ nl \in Int /\ offset \in Int
        BY <2>1, <3>1, <3>2
      <4>2. hs + hl = ho - cs - cl /\ gs - cs + (gl - cl) = offset - ns - nl
        BY <2>2, <3>2
      <4> HIDE DEF hs, hl, ho, cs, cl, gs, gl, ns, nl
      <4>3. hs + gs + (hl + gl) = ho + offset - ns - nl
        BY <4>1, <4>2
      <4> QED BY <4>3 DEF hs, hl, ho, cs, cl, gs, gl, ns, nl
    <3>4. /\ history'.short = history.short + a.grossShort /\ history'.long = history.long + a.grossLong
          /\ history'.offset = history.offset + offset
          /\ carried'.short = a.netted.short /\ carried'.long = a.netted.long
      BY <1>20, <1>21
    <3>5. /\ history'.short \in Int /\ history'.long \in Int /\ history'.offset \in Int
          /\ carried'.short \in Int /\ carried'.long \in Int
      BY <2>1, <3>1, <3>2, <3>4
    <3> QED BY <2>1, <3>1, <3>2, <3>3, <3>4, <3>5, SMT
  <2>5. carried'.short \in 0 .. history'.shortLost
    <3>1. a.netted.short <= Greater(0, carried.short - a.grossShort)
      BY <1>2, <1>8, <1>11, <2>3
    <3> QED BY <1>2, <1>8, <1>11, <1>18, <1>20, <1>21, <2>1, <2>2, <3>1 DEF Greater
  <2>6. carried'.long \in 0 .. history'.longLost
    <3>1. a.netted.long <= Greater(0, carried.long - a.grossLong)
      BY <1>2, <1>8, <1>11, <2>3
    <3> QED BY <1>2, <1>8, <1>11, <1>18, <1>20, <1>21, <2>1, <2>2, <3>1 DEF Greater
  <2> QED BY <2>4, <2>5, <2>6 DEF LossesUsedOnce
<1>23. SuspendedReleased'
  <2>1. history'.rental = history'.deducted - carried'.suspended
    <3>1. history.rental = history.deducted - carried.suspended /\ history.rental \in Int /\ history.deducted \in Int
      BY <1>2 DEF Threaded, SuspendedReleased, Histories
    <3> QED BY <1>2, <1>8, <1>12, <1>20, <1>21, <3>1
  <2>2. ASSUME DOMAIN Rentals # {}, \A r \in DOMAIN Rentals : soldOn'[r] # NotSold PROVE carried'.suspended = 0
    <3>1. \A r \in DOMAIN Rentals : soldOn[r] = NotSold => r \in sales
      BY <1>1, <2>2
    <3>2. CASE c.rentals # {}
      BY <1>6, <1>12, <1>21, <3>1, <3>2
    <3>3. CASE c.rentals = {}
      <4>1. \A r \in DOMAIN Rentals : soldOn[r] # NotSold
        BY <1>6, <3>3
      <4>2. carried.suspended = 0
        BY <2>2, <4>1 DEF Threaded, SuspendedReleased
      <4>3. w.rent = 0 /\ w.rentalExpense = 0
        BY <1>5, <4>1
      <4>4. RentalDepreciation(w, c) = 0
        BY <1>6, <1>7, <3>3, RentalTotals
      <4>5. a.netRental = 0
        BY <1>8, <4>3, <4>4
      <4> QED BY <1>12, <1>21, <4>2, <4>5
    <3> QED BY <3>2, <3>3
  <2> QED BY <2>1, <2>2 DEF SuspendedReleased
<1>24. ASSUME NEW r \in DOMAIN Rentals
       PROVE  history'.depreciated[r] = past(r, Until(r)') - past(r, 2 * BaseYear)
  <2>1. history'.depreciated[r] = history.depreciated[r] + taken(r)
    BY <1>20
  <2>2. history.depreciated[r] = past(r, Until(r)) - past(r, 2 * BaseYear)
    BY DEF Threaded, past
  <2>3. past(r, 2 * year) \in Int /\ past(r, 2 * year + 1) \in Int /\ past(r, 2 * year + 2) \in Int
        /\ past(r, 2 * BaseYear) \in Int
    BY <1>3, <1>15, CoupleAssumption
  <2>4. CASE soldOn[r] # NotSold
    <3>1. Until(r)' = Until(r) /\ taken(r) = 0
      BY <1>1, <1>14, <2>4 DEF Until
    <3> QED BY <1>17, <2>1, <2>2, <3>1
  <2>5. CASE soldOn[r] = NotSold /\ r \in sales
    <3>1. Until(r)' = 2 * year + 1 /\ Until(r) = 2 * year /\ taken(r) = past(r, 2 * year + 1) - past(r, 2 * year)
      BY <1>1, <1>3, <1>14, <2>5 DEF Until, NotSold
    <3> QED BY <2>1, <2>2, <2>3, <3>1
  <2>6. CASE soldOn[r] = NotSold /\ r \notin sales
    <3>1. Until(r)' = 2 * year + 2 /\ Until(r) = 2 * year /\ taken(r) = past(r, 2 * year + 2) - past(r, 2 * year)
      BY <1>1, <1>3, <1>14, <2>6 DEF Until, NotSold
    <3> QED BY <2>1, <2>2, <2>3, <3>1
  <2> QED BY <2>4, <2>5, <2>6
<1>25. carried'.suspended \in Int
  BY <1>12, <1>21
<1> QED BY <1>4, <1>20, <1>22, <1>23, <1>24, <1>25 DEF Threaded, past

LEMMA YearsStart == Init => Threaded
<1> SUFFICES ASSUME Init PROVE Threaded
  OBVIOUS
<1>1. Couple
  BY CoupleAssumption DEF Init, Couple, NotSold
<1>2. /\ carried.short = 0 /\ carried.long = 0 /\ carried.suspended = 0
  BY DEF Init, NoCarryover
<1>3. history = [short |-> 0, long |-> 0, rental |-> 0, deducted |-> 0, offset |-> 0,
                 shortLost |-> 0, longLost |-> 0, depreciated |-> [r \in DOMAIN Rentals |-> 0]]
  BY DEF Init
<1>4. history \in Histories
  BY <1>3 DEF Histories
<1>5. LossesUsedOnce
  BY <1>2, <1>3 DEF LossesUsedOnce
<1>6. SuspendedReleased
  BY <1>2, <1>3 DEF SuspendedReleased, Init
<1>7. ASSUME NEW r \in DOMAIN Rentals
      PROVE  history.depreciated[r] = AccumulatedDepreciation(Rentals[r], Until(r))
                                        - AccumulatedDepreciation(Rentals[r], 2 * BaseYear)
  <2>1. Until(r) = 2 * BaseYear /\ history.depreciated[r] = 0 /\ 2 * BaseYear \in Int
    BY <1>3, CoupleAssumption DEF Init, Until
  <2>2. AccumulatedDepreciation(Rentals[r], 2 * BaseYear) \in Int
    BY <2>1, IncomeAssumption, AccumulatedType
  <2> QED BY <2>1, <2>2
<1> QED BY <1>1, <1>2, <1>4, <1>5, <1>6, <1>7 DEF Threaded

LEMMA YearsThread == Threaded /\ [Next]_vars => Threaded'
<1> SUFFICES ASSUME Threaded, [Next]_vars PROVE Threaded'
  OBVIOUS
<1>1. CASE UNCHANGED vars
  BY <1>1 DEF vars, Threaded, Couple, LossesUsedOnce, SuspendedReleased, Until
<1>2. CASE Ended
  BY <1>1, <1>2 DEF Ended
<1>3. ASSUME NEW f \in Incomes, NEW sales \in SUBSET DOMAIN Rentals, FileYear(f, sales) PROVE Threaded'
  BY <1>3, YearFiled
<1> QED BY <1>1, <1>2, <1>3 DEF Next

LEMMA AlwaysThreaded == Spec => []Threaded
BY YearsStart, YearsThread, PTL DEF Spec

\* A capital loss is used once: what was taxed as gain or taken off other income, and what is
\* still carried, add up to the gains and losses there were, and no more of either term is
\* carried than was lost (us/engine.py _net_capital_gains; us/state.py CapitalLossCarryover).
THEOREM LossesAreUsedOnce == Spec => []LossesUsedOnce
<1>1. Threaded => LossesUsedOnce
  BY DEF Threaded
<1> QED BY <1>1, AlwaysThreaded, PTL

\* A rental loss is deducted once, and nothing stays suspended after the last sale
\* (us/engine.py _passive_activity_result, _rental_activity_fully_disposed).
THEOREM SuspendedLossesAreReleased == Spec => []SuspendedReleased
<1>1. Threaded => SuspendedReleased
  BY DEF Threaded
<1> QED BY <1>1, AlwaysThreaded, PTL

\* What a sale recaptures is what was depreciated, over the years of the forecast and those
\* before it (us/depreciation.py; us/engine.py _rental_depreciation, _depreciation_recapture).
THEOREM RecaptureMatches == Spec => []RecaptureIsDepreciation
<1>1. Threaded => RecaptureIsDepreciation
  BY DEF Threaded, RecaptureIsDepreciation, Until
<1> QED BY <1>1, AlwaysThreaded, PTL
-----------------------------------------------------------------------------
(* The survivor's check. *)

LEMMA NormalAge == ASSUME NEW y \in Int PROVE FullRetirementAge(y) \in 780 .. 804
BY DEF FullRetirementAge

Claimant(m) ==
    m.born \in Nat /\ m.pia \in Nat /\ m.claims \in Int /\ m.claims >= m.born + 24 * EarliestClaimAge

LEMMA MonthsLost ==
    ASSUME NEW early \in Nat, early <= 60
    PROVE  /\ Reduction(early, 20) \in Nat /\ Reduction(early, 20) <= 1080
           /\ Reduction(early, 25) \in Nat /\ Reduction(early, 25) <= 1260
<1>1. CASE early <= 36
  BY <1>1 DEF Reduction, Lesser, Greater
<1>2. CASE early > 36
  BY <1>2 DEF Reduction, Lesser, Greater
<1> QED BY <1>1, <1>2

\* A claim is five years early or five years late at most.
Full(x) == x \in Nat /\ 2520 <= x /\ x <= 5040
Part(x) == x \in Nat /\ x <= 3600
InFiveYears(m) == Full(AdjustmentFactor(m.born, m.claims)) /\ Part(SpousalFactor(m.born, m.claims))

LEMMA ClaimFactors == ASSUME NEW m, Claimant(m) PROVE InFiveYears(m)
<1> DEFINE y == YearOf(m.born)
           normal == FullRetirementAge(y)
           age == AgeInMonths(m.born, m.claims)
<1>1. y \in Int
  BY DEF Claimant, YearOf
<1>2. normal \in 780 .. 804
  <2> HIDE DEF y
  <2> QED BY <1>1, NormalAge
<1>3. age \in Int /\ age >= 12 * EarliestClaimAge /\ EarliestClaimAge \in Nat /\ EarliestClaimAge >= 62
  <2>1. EarliestClaimAge \in Nat /\ EarliestClaimAge >= 62
    BY CoupleAssumption
  <2>2. PICK b \in Nat, e \in Int : b = m.born /\ e = m.claims /\ e >= b + 24 * EarliestClaimAge
    BY DEF Claimant
  <2>3. e \div 2 \in Int /\ b \div 2 \in Int /\ e \div 2 - b \div 2 >= 12 * EarliestClaimAge
    BY <2>1, <2>2
  <2> QED BY <2>1, <2>2, <2>3 DEF AgeInMonths, MonthOf
<1>4. DelayCeilingAge \in 67 .. 70
  BY CoupleAssumption
<1>5. AdjustmentFactor(m.born, m.claims) =
          IF age - normal < 0 THEN 3600 - Reduction(-(age - normal), 20)
          ELSE 3600 + 24 * Lesser(age - normal, 12 * DelayCeilingAge - normal)
  BY DEF AdjustmentFactor
<1>6. SpousalFactor(m.born, m.claims) =
          IF normal - age <= 0 THEN 3600
          ELSE 3600 - Reduction(Lesser(normal - age, normal - 12 * EarliestClaimAge), 25)
  BY DEF SpousalFactor
<1> HIDE DEF y, normal, age
<1>7. PICK n \in 780 .. 804, g \in Int : n = normal /\ g = age
  BY <1>2, <1>3
<1>8. Full(AdjustmentFactor(m.born, m.claims))
  <2>1. CASE g - n < 0
    <3>1. PICK early \in Nat : early = -(g - n) /\ early <= 60
      BY <1>3, <1>7, <2>1
    <3>2. Reduction(early, 20) \in Nat /\ Reduction(early, 20) <= 1080
      BY <3>1, MonthsLost
    <3> QED BY <1>5, <1>7, <2>1, <3>1, <3>2 DEF Full
  <2>2. CASE ~(g - n < 0)
    <3>1. PICK k \in 0 .. 60 : k = Lesser(g - n, 12 * DelayCeilingAge - n)
      BY <1>4, <1>7, <2>2 DEF Lesser
    <3> QED BY <1>5, <1>7, <2>2, <3>1 DEF Full
  <2> QED BY <2>1, <2>2
<1>9. Part(SpousalFactor(m.born, m.claims))
  <2>1. CASE n - g <= 0
    BY <1>6, <1>7, <2>1 DEF Part
  <2>2. CASE ~(n - g <= 0)
    <3>1. PICK early \in Nat : early = n - g /\ early <= 60 /\ early <= n - 12 * EarliestClaimAge
      BY <1>3, <1>7, <2>2
    <3>2. Lesser(n - g, n - 12 * EarliestClaimAge) = early
      BY <3>1 DEF Lesser
    <3>3. Reduction(early, 25) \in Nat /\ Reduction(early, 25) <= 1260
      BY <3>1, MonthsLost
    <3> QED BY <1>6, <1>7, <2>2, <3>2, <3>3 DEF Part
  <2> QED BY <2>1, <2>2
<1> QED BY <1>8, <1>9 DEF InFiveYears

\* Waiting earns at most as much of the lower benefit as claiming early leaves of twice it.
Suited(L, e, F, G, s) == L \in Nat /\ e \in Nat /\ Full(F) /\ Full(G) /\ Part(s)
Covered(L, e, F, G, s) == Quantize(L * F, 300) + Quantize(e * s, 600) <= Quantize((2 * L + e) * G, 300)

LEMMA ExcessCovered ==
    ASSUME NEW L, NEW e, NEW F, NEW G, NEW s, Suited(L, e, F, G, s)
    PROVE  Covered(L, e, F, G, s)
<1>0. /\ L \in Nat /\ e \in Nat /\ F \in Nat /\ G \in Nat /\ s \in Nat
      /\ F <= 5040 /\ 2520 <= G /\ s <= 3600
  BY DEF Suited, Full, Part
<1>1. /\ L * F \in Nat /\ L * F <= 5040 * L
      /\ e * s \in Nat /\ e * s <= 3600 * e
      /\ (2 * L + e) * G \in Nat /\ 2520 * (2 * L + e) <= (2 * L + e) * G
  <2>1. \A a \in Nat, x \in Nat, y \in Nat : x <= y => a * x \in Nat /\ a * x <= y * a
    OBVIOUS
  <2> QED BY <1>0, <2>1
<1> DEFINE lf == L * F
           es == e * s
           hg == (2 * L + e) * G
<1> HIDE DEF lf, es, hg
<1>2. Quantize(lf, 300) <= Quantize(5040 * L, 300)
  BY <1>0, <1>1, QuantizeMonotone DEF lf
<1>3. Quantize(es, 600) <= Quantize(3600 * e, 600)
  BY <1>0, <1>1, QuantizeMonotone DEF es
<1>4. Quantize(2520 * (2 * L + e), 300) <= Quantize(hg, 300)
  BY <1>0, <1>1, QuantizeMonotone DEF hg
<1>5. Quantize(3600 * e, 600) = 6 * e
  BY <1>0 DEF Quantize
<1>6. Quantize(5040 * L, 300) + 8 * e <= Quantize(2520 * (2 * L + e), 300)
  BY <1>0 DEF Quantize
<1>7. /\ Quantize(lf, 300) \in Int /\ Quantize(es, 600) \in Int /\ Quantize(hg, 300) \in Int
      /\ Quantize(5040 * L, 300) \in Int /\ Quantize(2520 * (2 * L + e), 300) \in Int
  <2>1. lf \in Int /\ es \in Int /\ hg \in Int
    BY <1>1 DEF lf, es, hg
  <2>2. 5040 * L \in Int /\ 2520 * (2 * L + e) \in Int
    BY <1>0
  <2>3. ASSUME NEW n \in Int PROVE Quantize(n, 300) \in Int /\ Quantize(n, 600) \in Int
    BY QuantizeType
  <2>4. Quantize(lf, 300) \in Int /\ Quantize(es, 600) \in Int /\ Quantize(hg, 300) \in Int
    BY <2>1, <2>3
  <2>5. Quantize(5040 * L, 300) \in Int /\ Quantize(2520 * (2 * L + e), 300) \in Int
    BY <2>2, <2>3
  <2> QED BY <2>4, <2>5
<1>8. Quantize(lf, 300) + Quantize(es, 600) <= Quantize(hg, 300)
  BY <1>0, <1>2, <1>3, <1>4, <1>5, <1>6, <1>7
<1> QED BY <1>8 DEF lf, es, hg, Covered

LEMMA OwnCoversExcess ==
    ASSUME NEW m, Claimant(m), NEW spouse, Claimant(spouse)
    PROVE  /\ RealizedAnnual(m) \in Nat /\ RealizedAnnual(spouse) \in Nat /\ SpousalAnnual(spouse, m) \in Nat
           /\ \/ SpousalAnnual(spouse, m) = 0
              \/ RealizedAnnual(m) + SpousalAnnual(spouse, m) <= RealizedAnnual(spouse)
<1> DEFINE L == m.pia
           H == spouse.pia
           F == AdjustmentFactor(m.born, m.claims)
           G == AdjustmentFactor(spouse.born, spouse.claims)
           s == SpousalFactor(m.born, m.claims)
<1>1. L \in Nat /\ H \in Nat /\ Full(F) /\ Full(G) /\ Part(s)
  <2>1. L \in Nat /\ H \in Nat
    BY DEF Claimant
  <2>2. InFiveYears(m) /\ InFiveYears(spouse)
    BY ClaimFactors
  <2> QED BY <2>1, <2>2 DEF InFiveYears
<1>2. /\ RealizedAnnual(m) = Quantize(L * F, 300) /\ RealizedAnnual(spouse) = Quantize(H * G, 300)
      /\ SpousalAnnual(spouse, m) = Quantize(Greater(0, H - 2 * L) * s, 600)
  BY DEF RealizedAnnual, SpousalAnnual
<1> HIDE DEF L, H, F, G, s
<1>3. PICK e : e \in Nat /\ e = Greater(0, H - 2 * L)
  BY <1>1 DEF Greater
<1>4. L * F \in Nat /\ H * G \in Nat /\ e * s \in Nat
  <2>1. \A a \in Nat, b \in Nat : a * b \in Nat
    OBVIOUS
  <2>2. F \in Nat /\ G \in Nat /\ s \in Nat
    BY <1>1 DEF Full, Part
  <2> QED BY <1>1, <1>3, <2>1, <2>2
<1>5. Quantize(L * F, 300) \in Nat /\ Quantize(H * G, 300) \in Nat /\ Quantize(e * s, 600) \in Nat
  BY <1>4, QuantizeNatural
<1>6. CASE H - 2 * L <= 0
  <2>1. e = 0
    BY <1>1, <1>3, <1>6 DEF Greater
  <2>2. e * s = 0
    BY <1>1, <2>1 DEF Part
  <2>3. Quantize(e * s, 600) = 0
    BY <2>2, QuantizeZero
  <2> QED BY <1>2, <1>3, <1>5, <2>3
<1>7. CASE H - 2 * L > 0
  <2>1. H = 2 * L + e
    BY <1>1, <1>3, <1>7 DEF Greater
  <2>2. Suited(L, e, F, G, s)
    BY <1>1, <1>3 DEF Suited
  <2>3. Covered(L, e, F, G, s)
    BY <2>2, ExcessCovered
  <2>4. Quantize(L * F, 300) + Quantize(e * s, 600) <= Quantize(H * G, 300)
    BY <2>1, <2>3 DEF Covered
  <2> QED BY <1>2, <1>3, <1>5, <2>4
<1> QED BY <1>1, <1>6, <1>7

\* The claims of a couple, field by field: a spouse who never earned claims on the other.
Claim(b, p, c, d, i) ==
    [born   |-> b[i],
     pia    |-> IF p[i] # Unset \/ p[3 - i] = Unset THEN p[i] ELSE 0,
     claims |-> IF p[i] # Unset \/ p[3 - i] = Unset THEN c[i]
                ELSE Greater(c[3 - i], b[i] + 24 * EarliestClaimAge),
     dies   |-> d[i]]

LEMMA ClaimsOf ==
    ASSUME NEW b, NEW p, NEW c, NEW d, NEW M,
           M = [j \in 1 .. 2 |-> [born |-> b[j], pia |-> p[j], claims |-> c[j], dies |-> d[j]]],
           NEW i \in 1 .. 2
    PROVE  DOMAIN ActiveClaims(M) = 1 .. 2 /\ ActiveClaims(M)[i] = Claim(b, p, c, d, i)
<1> DEFINE others == {j \in DOMAIN M : j # i /\ M[j].pia # Unset}
<1>1. DOMAIN M = 1 .. 2 /\ 3 - i \in 1 .. 2 /\ \A j \in 1 .. 2 : j # i <=> j = 3 - i
  OBVIOUS
<1>2. others = IF p[3 - i] = Unset THEN {} ELSE {3 - i}
  BY <1>1
<1>3. ActiveClaims(M)[i] = IF M[i].pia # Unset \/ others = {} THEN M[i]
                           ELSE SpouseOf(M[CHOOSE j \in others : TRUE], M[i])
  BY <1>1 DEF ActiveClaims
<1>4. DOMAIN ActiveClaims(M) = 1 .. 2
  BY <1>1 DEF ActiveClaims
<1> HIDE DEF others
<1>5. M[i] = [born |-> b[i], pia |-> p[i], claims |-> c[i], dies |-> d[i]] /\ M[3 - i].claims = c[3 - i]
  BY <1>1
<1>6. CASE p[i] # Unset \/ p[3 - i] = Unset
  BY <1>2, <1>3, <1>4, <1>5, <1>6 DEF Claim
<1>7. CASE ~(p[i] # Unset \/ p[3 - i] = Unset)
  <2>1. (CHOOSE j \in others : TRUE) = 3 - i
    BY <1>2, <1>7
  <2>2. ActiveClaims(M)[i] = SpouseOf(M[3 - i], M[i])
    BY <1>2, <1>3, <1>5, <1>7, <2>1
  <2> QED BY <1>4, <1>5, <1>7, <2>2 DEF SpouseOf, Claim
<1> QED BY <1>6, <1>7

LEMMA TwoClaims ==
    ASSUME NEW C, C = [j \in DOMAIN C |-> C[j]], DOMAIN C = 1 .. 2
    PROVE  Len(C) = 2
<1>1. C \in [1 .. 2 -> {C[1], C[2]}]
  OBVIOUS
<1>2. C \in Seq({C[1], C[2]})
  BY <1>1, SeqDef
<1> QED BY <1>2

\* What a member alone with a spouse alive or dead collects.
Alone(m, spouse, on) == Greater(OwnBenefit(m, on), OwnBenefit(spouse, on))
Paired(m, spouse, lower, on) ==
    OwnBenefit(m, on) + (IF lower THEN SpousalExcess(m, spouse, on) ELSE 0)

LEMMA BreakdownOf ==
    ASSUME NEW M, NEW on, NEW i \in 1 .. 2, NEW C, C = ActiveClaims(M), DOMAIN C = 1 .. 2,
           C[i].pia # Unset, ~HasDied(C[i], on), Claimant(C[i]), Claimant(C[3 - i]), on \in Int
    PROVE  TotalOf(Breakdown(M, on)[i]) =
               IF HasDied(C[3 - i], on) THEN Alone(C[i], C[3 - i], on)
               ELSE Paired(C[i], C[3 - i], i = LowerOf(C), on)
<1> DEFINE m == C[i]
           spouse == C[3 - i]
           own == OwnBenefit(m, on)
           theirs == OwnBenefit(spouse, on)
           excess == SpousalExcess(m, spouse, on)
<1>1. C = [j \in DOMAIN C |-> C[j]]
  BY DEF ActiveClaims
<1>2. Len(C) = 2
  BY <1>1, TwoClaims
<1>3. Breakdown(M, on)[i] =
          IF HasDied(spouse, on) THEN PostDeath(m, spouse, on)
          ELSE [NoBenefit EXCEPT !.own = own, !.spousal = IF i = LowerOf(C) THEN excess ELSE 0]
  BY <1>2 DEF Breakdown
<1>4. own \in Nat /\ theirs \in Nat /\ excess \in Nat
  BY OwnCoversExcess DEF OwnBenefit, SpousalExcess
<1>5. PostDeath(m, spouse, on) = IF theirs > own THEN [NoBenefit EXCEPT !.survivor = theirs]
                                 ELSE [NoBenefit EXCEPT !.own = own]
  BY DEF PostDeath
<1>6. Alone(C[i], C[3 - i], on) = Greater(own, theirs)
  BY DEF Alone
<1>7. Paired(C[i], C[3 - i], i = LowerOf(C), on) = own + (IF i = LowerOf(C) THEN excess ELSE 0)
  BY DEF Paired
<1> HIDE DEF m, spouse, own, theirs, excess
<1>8. CASE HasDied(spouse, on)
  <2>1. CASE theirs > own
    <3>1. Breakdown(M, on)[i] = [own |-> 0, spousal |-> 0, survivor |-> theirs]
      BY <1>3, <1>5, <1>8, <2>1 DEF NoBenefit
    <3> QED BY <1>4, <1>6, <1>8, <2>1, <3>1 DEF TotalOf, Greater, spouse
  <2>2. CASE ~(theirs > own)
    <3>1. Breakdown(M, on)[i] = [own |-> own, spousal |-> 0, survivor |-> 0]
      BY <1>3, <1>5, <1>8, <2>2 DEF NoBenefit
    <3> QED BY <1>4, <1>6, <1>8, <2>2, <3>1 DEF TotalOf, Greater, spouse
  <2> QED BY <2>1, <2>2
<1>9. CASE ~HasDied(spouse, on)
  <2>1. Breakdown(M, on)[i] = [own |-> own, spousal |-> IF i = LowerOf(C) THEN excess ELSE 0, survivor |-> 0]
    BY <1>3, <1>9 DEF NoBenefit
  <2>2. TotalOf(Breakdown(M, on)[i]) = own + (IF i = LowerOf(C) THEN excess ELSE 0) + 0
    BY <2>1 DEF TotalOf
  <2> QED BY <1>4, <1>7, <1>9, <2>2 DEF spouse
<1> QED BY <1>8, <1>9

\* Alone, the survivor collects what the two of them brought in to one check.
LEMMA AloneIsNoLess ==
    ASSUME NEW m, NEW spouse, Claimant(m), Claimant(spouse), NEW on \in Int, NEW lower \in BOOLEAN
    PROVE  Alone(m, spouse, on) >= Paired(m, spouse, lower, on)
<1>1. /\ RealizedAnnual(m) \in Nat /\ RealizedAnnual(spouse) \in Nat /\ SpousalAnnual(spouse, m) \in Nat
      /\ \/ SpousalAnnual(spouse, m) = 0
         \/ RealizedAnnual(m) + SpousalAnnual(spouse, m) <= RealizedAnnual(spouse)
  BY OwnCoversExcess
<1>2. m.pia # Unset /\ spouse.pia # Unset
  BY DEF Claimant, Unset
<1>3. CASE on >= m.claims /\ on >= spouse.claims
  <2>1. OwnBenefit(m, on) = RealizedAnnual(m) /\ OwnBenefit(spouse, on) = RealizedAnnual(spouse)
    BY <1>2, <1>3 DEF OwnBenefit, Claimant
  <2>2. SpousalExcess(m, spouse, on) = SpousalAnnual(spouse, m)
    BY <1>3 DEF SpousalExcess
  <2> QED BY <1>1, <2>1, <2>2 DEF Alone, Paired, Greater
<1>4. CASE ~(on >= m.claims /\ on >= spouse.claims)
  <2>1. SpousalExcess(m, spouse, on) = 0
    BY <1>4 DEF SpousalExcess
  <2>2. OwnBenefit(m, on) \in Nat /\ OwnBenefit(spouse, on) \in Nat
    BY <1>1 DEF OwnBenefit
  <2> QED BY <2>1, <2>2 DEF Alone, Paired, Greater
<1> QED BY <1>3, <1>4

LEMMA MembersAs ==
    ASSUME Couple, ClaimedInTime
    PROVE  \E b, p, c :
             /\ Members = [j \in 1 .. 2 |-> [born |-> b[j], pia |-> p[j], claims |-> c[j], dies |-> DeathDates[j]]]
             /\ \A j \in 1 .. 2 :
                   /\ b[j] \in Nat
                   /\ p[j] # Unset => p[j] \in Nat /\ c[j] \in Int /\ c[j] >= b[j] + 24 * EarliestClaimAge
<1> DEFINE e == household.earners
           b == [j \in 1 .. 2 |-> e[j].born]
           p == [j \in 1 .. 2 |-> IF e[j].pia > 0 THEN e[j].pia ELSE Unset]
           c == [j \in 1 .. 2 |-> IF e[j].pia > 0 THEN household.claims[j] ELSE NoDate]
<1>1. /\ e \in [1 .. 2 -> [born : Nat, pia : Nat]] /\ EarliestClaimAge \in Nat
      /\ \A j \in 1 .. 2 : /\ household.claims[j] \in Nat
                           /\ e[j].pia > 0 => household.claims[j] >= e[j].born + 24 * EarliestClaimAge
  BY CoupleAssumption DEF Couple, ClaimedInTime
<1>2. DOMAIN e = 1 .. 2 /\ \A j \in 1 .. 2 : e[j].born \in Nat /\ e[j].pia \in Nat
  BY <1>1
<1>3. Members = [j \in 1 .. 2 |-> [born |-> b[j], pia |-> p[j], claims |-> c[j], dies |-> DeathDates[j]]]
  BY <1>2 DEF Members
<1>4. ASSUME NEW j \in 1 .. 2
      PROVE  /\ b[j] \in Nat
             /\ p[j] # Unset => p[j] \in Nat /\ c[j] \in Int /\ c[j] >= b[j] + 24 * EarliestClaimAge
  <2>1. PICK born \in Nat, pia \in Nat, on \in Nat :
            /\ born = e[j].born /\ pia = e[j].pia /\ on = household.claims[j]
            /\ pia > 0 => on >= born + 24 * EarliestClaimAge
    BY <1>1, <1>2
  <2> QED BY <1>1, <2>1
<1> HIDE DEF b, p, c
<1> QED BY <1>3, <1>4

\* Present, one has not died.
LEMMA PresentIsAlive ==
    ASSUME Couple, NEW i \in Present(year), NEW m, m.dies = DeathDates[i]
    PROVE  i \in 1 .. 2 /\ ~HasDied(m, YearStart(year))
<1>1. i \in 1 .. 2 /\ PresentIn(i, year) /\ household.deaths[i] \in Nat \cup {NoDate} /\ year \in Nat
  BY CoupleAssumption DEF Couple, Present
<1>2. CASE household.deaths[i] = NoDate
  BY <1>1, <1>2 DEF DeathDates, HasDied
<1>3. CASE household.deaths[i] # NoDate
  <2>1. PICK d \in Nat : d = household.deaths[i] /\ year <= d
    BY <1>1, <1>3 DEF PresentIn
  <2>2. m.dies = 24 * d
    BY <1>1, <1>3, <2>1 DEF DeathDates, YearStart
  <2>3. YearOf(YearStart(year)) = year /\ YearOf(m.dies) = d
    BY <1>1, <2>2 DEF YearOf, YearStart
  <2> QED BY <1>1, <2>1, <2>3 DEF HasDied
<1> QED BY <1>1, <1>2, <1>3

\* Who has nothing to claim, on either record, collects nothing.
LEMMA NothingUnset ==
    ASSUME NEW M, NEW on, NEW i, i \in DOMAIN ActiveClaims(M), ActiveClaims(M)[i].pia = Unset
    PROVE  TotalOf(Breakdown(M, on)[i]) = 0
<1>1. Breakdown(M, on)[i] = NoBenefit
  BY DEF Breakdown
<1> QED BY <1>1 DEF TotalOf, NoBenefit

LEMMA Widowed == ASSUME Couple PROVE WidowhoodNeverLowersTheCheck
<1> SUFFICES ASSUME ClaimedInTime, NEW i \in Present(year)
             PROVE  LET both == [j \in 1 .. 2 |-> [Members[j] EXCEPT !.dies = NoDate]]
                    IN  TotalOf(Breakdown(Members, YearStart(year))[i]) >=
                        TotalOf(Breakdown(both, YearStart(year))[i])
  BY DEF WidowhoodNeverLowersTheCheck
<1> DEFINE both == [j \in 1 .. 2 |-> [Members[j] EXCEPT !.dies = NoDate]]
           on == YearStart(year)
           none == [j \in 1 .. 2 |-> NoDate]
           C == ActiveClaims(Members)
           D == ActiveClaims(both)
<1>1. PICK b, p, c :
          /\ Members = [j \in 1 .. 2 |-> [born |-> b[j], pia |-> p[j], claims |-> c[j], dies |-> DeathDates[j]]]
          /\ \A j \in 1 .. 2 :
                /\ b[j] \in Nat
                /\ p[j] # Unset => p[j] \in Nat /\ c[j] \in Int /\ c[j] >= b[j] + 24 * EarliestClaimAge
  BY MembersAs
<1>2. both = [j \in 1 .. 2 |-> [born |-> b[j], pia |-> p[j], claims |-> c[j], dies |-> none[j]]]
  BY <1>1
<1>3. i \in 1 .. 2 /\ 3 - i \in 1 .. 2
  BY DEF Present
<1>4. on \in Int
  BY DEF Couple, YearStart
<1> DEFINE pia(j) == IF p[j] # Unset \/ p[3 - j] = Unset THEN p[j] ELSE 0
           claims(j) == IF p[j] # Unset \/ p[3 - j] = Unset THEN c[j]
                        ELSE Greater(c[3 - j], b[j] + 24 * EarliestClaimAge)
<1>5. ASSUME NEW j \in 1 .. 2
      PROVE  /\ DOMAIN C = 1 .. 2 /\ DOMAIN D = 1 .. 2
             /\ C[j] = [born |-> b[j], pia |-> pia(j), claims |-> claims(j), dies |-> DeathDates[j]]
             /\ D[j] = [born |-> b[j], pia |-> pia(j), claims |-> claims(j), dies |-> none[j]]
  <2> HIDE DEF both, none
  <2>1. DOMAIN C = 1 .. 2 /\ C[j] = Claim(b, p, c, DeathDates, j)
    BY <1>1, ClaimsOf
  <2>2. DOMAIN D = 1 .. 2 /\ D[j] = Claim(b, p, c, none, j)
    BY <1>2, ClaimsOf
  <2> HIDE DEF C, D
  <2> QED BY <2>1, <2>2 DEF Claim
<1>6. \A j \in 1 .. 2 : none[j] = NoDate
  OBVIOUS
<1> HIDE DEF both, none, C, D, on
<1>7. CASE pia(i) = Unset
  <2>1. TotalOf(Breakdown(Members, on)[i]) = 0
    BY <1>3, <1>5, <1>7, NothingUnset DEF C
  <2>2. TotalOf(Breakdown(both, on)[i]) = 0
    BY <1>3, <1>5, <1>7, NothingUnset DEF D
  <2> QED BY <2>1, <2>2 DEF both, on
<1>8. CASE pia(i) # Unset
  <2>1. ASSUME NEW j \in 1 .. 2
        PROVE  b[j] \in Nat /\ pia(j) \in Nat /\ claims(j) \in Int /\ claims(j) >= b[j] + 24 * EarliestClaimAge
    <3>1. EarliestClaimAge \in Nat /\ 3 - j \in 1 .. 2 /\ (j = i \/ j = 3 - i)
      BY <1>3, CoupleAssumption
    <3>2. p[i] # Unset \/ p[3 - i] # Unset
      BY <1>8
    <3>3. p[j] # Unset \/ p[3 - j] # Unset
      BY <1>3, <3>1, <3>2
    <3>4. CASE p[j] # Unset
      BY <1>1, <3>4
    <3>5. CASE p[j] = Unset
      <4>1. p[3 - j] # Unset /\ c[3 - j] \in Int /\ b[j] \in Nat
        BY <1>1, <3>1, <3>3, <3>5
      <4> QED BY <3>1, <3>5, <4>1 DEF Greater
    <3> QED BY <3>4, <3>5
  <2>2. \A j \in 1 .. 2 : Claimant(C[j]) /\ Claimant(D[j])
    <3> HIDE DEF pia, claims
    <3> QED BY <1>5, <2>1 DEF Claimant
  <2>3. C[i].pia # Unset /\ D[i].pia # Unset
    BY <1>3, <1>5, <1>8
  <2>4. ~HasDied(C[i], on)
    BY <1>3, <1>5, PresentIsAlive DEF on
  <2>5. ~HasDied(D[i], on) /\ ~HasDied(D[3 - i], on)
    BY <1>3, <1>5, <1>6 DEF HasDied
  <2>6. TotalOf(Breakdown(Members, on)[i]) = IF HasDied(C[3 - i], on) THEN Alone(C[i], C[3 - i], on)
                                             ELSE Paired(C[i], C[3 - i], i = LowerOf(C), on)
    BY <1>3, <1>4, <1>5, <2>2, <2>3, <2>4, BreakdownOf DEF C
  <2>7. TotalOf(Breakdown(both, on)[i]) = Paired(D[i], D[3 - i], i = LowerOf(D), on)
    BY <1>3, <1>4, <1>5, <2>2, <2>3, <2>5, BreakdownOf DEF D
  <2>8. LowerOf(C) = LowerOf(D)
    <3> HIDE DEF pia, claims
    <3> QED BY <1>5 DEF LowerOf
  <2>9. \A lower \in BOOLEAN : Paired(C[i], C[3 - i], lower, on) = Paired(D[i], D[3 - i], lower, on)
    <3> HIDE DEF pia, claims
    <3>1. \A j \in 1 .. 2 : C[j].born = D[j].born /\ C[j].pia = D[j].pia /\ C[j].claims = D[j].claims
      BY <1>5
    <3>2. \A j \in 1 .. 2 : RealizedAnnual(C[j]) = RealizedAnnual(D[j]) /\ OwnBenefit(C[j], on) = OwnBenefit(D[j], on)
      BY <3>1 DEF RealizedAnnual, OwnBenefit
    <3>3. SpousalExcess(C[i], C[3 - i], on) = SpousalExcess(D[i], D[3 - i], on)
      BY <1>3, <3>1 DEF SpousalExcess, SpousalAnnual
    <3> QED BY <1>3, <3>2, <3>3 DEF Paired
  <2>10. Alone(C[i], C[3 - i], on) >= Paired(C[i], C[3 - i], i = LowerOf(C), on)
    BY <1>3, <1>4, <2>2, AloneIsNoLess
  <2>11. Paired(C[i], C[3 - i], i = LowerOf(C), on) \in Int
    BY <1>3, <2>2, OwnCoversExcess DEF Paired, OwnBenefit, SpousalExcess
  <2>12. Paired(C[i], C[3 - i], i = LowerOf(C), on) = Paired(D[i], D[3 - i], i = LowerOf(D), on)
    BY <2>8, <2>9, Zenon
  <2> DEFINE x == TotalOf(Breakdown(Members, on)[i])
             y == TotalOf(Breakdown(both, on)[i])
             z == Paired(C[i], C[3 - i], i = LowerOf(C), on)
             t == Alone(C[i], C[3 - i], on)
  <2>13. (x = t \/ x = z) /\ y = z /\ t >= z /\ z \in Int
    BY <2>6, <2>7, <2>10, <2>11, <2>12, Zenon
  <2> HIDE DEF x, y, z, t
  <2>14. x >= y
    BY <2>13
  <2> QED BY <2>14 DEF x, y, both, on
<1> QED BY <1>7, <1>8

\* A death never lowers the survivor's own check, however much the two earned and whatever the
\* dates they claimed on, from the earliest age on
\* (social_security_household.py _post_death_benefit, household_benefit_breakdown).
THEOREM WidowsKeepTheirCheck == Spec => []WidowhoodNeverLowersTheCheck
<1>1. Threaded => WidowhoodNeverLowersTheCheck
  BY Widowed DEF Threaded
<1> QED BY <1>1, AlwaysThreaded, PTL
=============================================================================
