----------------------------- MODULE MCTaxYears -----------------------------
(***************************************************************************)
(* A couple of 69 and 63 over four years, with two rentals.  U stands for   *)
(* ten thousand, in units so small that the roundings of a return are lost  *)
(* in it.  Every figure of the law is a round number near the real one.     *)
(***************************************************************************)
EXTENDS TaxYears, TLC

U == 81920

Rate(n, d) == [num |-> n, den |-> d]
Rows(a, b, lo, mid, hi) == <<[from |-> 0, rate |-> lo], [from |-> a, rate |-> mid], [from |-> b, rate |-> hi]>>
PerStatus(a, b) == [joint |-> a, single |-> b]

MCBaseLaw ==
    [brackets |-> PerStatus(Rows(2 * U, 8 * U, Rate(1, 8), Rate(1, 4), Rate(3, 8)),
                            Rows(U, 4 * U, Rate(1, 8), Rate(1, 4), Rate(3, 8))),
     ltcg     |-> PerStatus(Rows(4 * U, 40 * U, Rate(0, 1), Rate(1, 8), Rate(1, 4)),
                            Rows(2 * U, 20 * U, Rate(0, 1), Rate(1, 8), Rate(1, 4))),
     standard |-> PerStatus([base |-> 3 * U, age65 |-> U \div 8, senior |-> U \div 2,
                             start |-> 15 * U, end |-> 23 * U],
                            [base |-> 2 * U, age65 |-> U \div 4, senior |-> U \div 2,
                             start |-> 8 * U, end |-> 16 * U]),
     socialSecurity |-> PerStatus([base |-> 3 * U, additional |-> 4 * U],
                                  [base |-> 2 * U, additional |-> 3 * U]),
     exclusion |-> PerStatus(4 * U, 2 * U),
     niit      |-> PerStatus(10 * U, 8 * U),
     surtaxFrom |-> PerStatus(10 * U, 8 * U),
     medicalFloor |-> Rate(1, 8), saltCap |-> U, charitableLimit |-> Rate(1, 2), lossCap |-> U,
     s1250Rate |-> Rate(1, 4), collectiblesRate |-> Rate(1, 4), niitRate |-> Rate(1, 16),
     penaltyRate |-> Rate(1, 8), penaltyAge |-> 60,
     stateRate |-> Rate(1, 16), stateBenefitsExempt |-> Rate(1, 1), stateRetirementExempt |-> Rate(1, 2),
     ssRate |-> Rate(1, 16), wageBase |-> 6 * U, medicareRate |-> Rate(1, 64), surtaxRate |-> Rate(1, 128),
     aca |-> [firstPerson |-> U, additionalPerson |-> U \div 2, lowerRatio |-> 1,
              slope |-> Rate(1, 32), maxRate |-> Rate(3, 32), upperRatio |-> 4],
     passive |-> [allowance |-> 2 * U, start |-> 10 * U, end |-> 14 * U],
     seniorFinalYear |-> 2028,
     lifetimeTable |-> 72 :> 320 @@ 73 :> 320 @@ 74 :> 256 @@ 75 :> 256, lifetimeTop |-> 75]

MCRentals == [a |-> [basis |-> 16 * U, acquired |-> 2 * 2020, recovery |-> 32, sold |-> NotSold],
              b |-> [basis |-> 8 * U, acquired |-> 2 * 2027 + 1, recovery |-> 4, sold |-> NotSold]]

Couple(high, low) == <<[born |-> YearStart(1957), pia |-> high], [born |-> YearStart(1963), pia |-> low]>>

\* One in two dies at each of two ages, everybody at the third.
MCLifeTable ==
    [age \in 62 .. 70 |->
        [male   |-> [num |-> IF age = 70 THEN 2 ELSE IF age \in {62, 66} THEN 1 ELSE 0, den |-> 2],
         female |-> [num |-> IF age = 70 THEN 2 ELSE IF age \in {65, 68} THEN 1 ELSE 0, den |-> 2]]]

Asker(birthYear, pia, sex, setback) ==
    [born |-> YearStart(birthYear), pia |-> pia, sex |-> sex, setback |-> setback, lifetime |-> Unset]

Shortfall == [num |-> 1, den |-> 2]
NoShortfall == [num |-> 1, den |-> 1]
MCClaimAges == {62, 65, 68}

\* Of one age or not, one or two who earned, alone, the lower earner named first.
MCAsked ==
    <<[claimants |-> <<Asker(1960, 4, "male", 0), Asker(1961, 1, "female", 0)>>,
       assumptions |-> FromInflation(1, NoShortfall, 2032, 2)],
      [claimants |-> <<Asker(1961, 1, "female", 0), Asker(1959, 4, "male", 1)>>,
       assumptions |-> FromInflation(1, Shortfall, 2024, Unset)],
      [claimants |-> <<Asker(1960, 4, "female", 1), Asker(1960, 0, "male", 0)>>,
       assumptions |-> FromInflation(2, NoShortfall, 2032, Unset)],
      [claimants |-> <<Asker(1960, 4, "male", -1)>>,
       assumptions |-> FromInflation(2, NoShortfall, 2032, 2)],
      [claimants |-> <<Asker(1960, 3, Blended, 0)>>,
       assumptions |-> FromInflation(1, Shortfall, 2025, 2)],
      [claimants |-> <<Asker(1960, 4, "female", 0), Asker(1962, 3, "male", 0)>>,
       assumptions |-> FromInflation(1, NoShortfall, 2032, Unset)]>>

\* Claims are given in years of age, and for one couple in the middle of a month.
Lives(earners, ages, deaths, projection, asked) ==
    [earners |-> earners, claims |-> [i \in 1 .. 2 |-> earners[i].born + 24 * ages[i]],
     deaths |-> deaths, projection |-> projection, asked |-> MCAsked[asked]]

MidMonth(lives) == [lives EXCEPT !.claims = [i \in 1 .. 2 |-> @[i] + 9]]

\* Early and late claims, one before the earliest age, a spouse who never earned, and deaths
\* before the decedent's claim, after it, of both and of none.
MCHouseholds ==
    {Lives(Couple(4096, 1024), <<62, 70>>, <<2026, NoDate>>, "indexed", 1),
     Lives(Couple(4096, 1920), <<70, 62>>, <<2026, NoDate>>, "indexed", 2),
     MidMonth(Lives(Couple(4096, 4096), <<66, 65>>, <<NoDate, 2026>>, "current law", 3)),
     Lives(Couple(4096, 0),    <<67, 62>>, <<2027, 2028>>, "current law", 4),
     Lives(Couple(4096, 0),    <<62, 62>>, <<NoDate, NoDate>>, "indexed", 5),
     Lives(Couple(4096, 1024), <<70, 67>>, <<NoDate, NoDate>>, "indexed", 6),
     Lives(Couple(4096, 1024), <<55, 67>>, <<2026, NoDate>>, "current law", 4)}

MCHealth == [size |-> 2, reference |-> 2 * U, actual |-> U]

Nothing ==
    [wages |-> 0, ordinary |-> 0, pension |-> 0, distribution |-> 0, rothEarnings |-> 0, interest |-> 0,
     exemptInterest |-> 0, dividends |-> 0, socialSecurity |-> 0, shortGains |-> 0, longGains |-> 0,
     residenceGain |-> 0, secondHomeGain |-> 0, rentalGain |-> 0, collectiblesGain |-> 0,
     pretaxContributed |-> 0, pretaxOpening |-> 0, pretaxWithdrawn |-> 0, rent |-> 0,
     rentalExpense |-> 0, medical |-> 0, salt |-> 0, mortgageInterest |-> 0, charitable |-> 0]

\* A bad year on the markets, in work; the rentals need repairs.
Slump == [Nothing EXCEPT !.wages = 8 * U, !.shortGains = -3 * U, !.longGains = -2 * U, !.rent = U,
             !.rentalExpense = 5 * U, !.rentalGain = -2 * U, !.pretaxContributed = U,
             !.mortgageInterest = 2 * U, !.salt = U]
\* A good one: gains of every kind, the home among them.
Boom == [Nothing EXCEPT !.wages = 8 * U, !.shortGains = -U, !.longGains = 4 * U, !.residenceGain = 5 * U,
             !.collectiblesGain = 2 * U, !.dividends = U, !.rent = 2 * U, !.rentalExpense = 3 * U,
             !.rentalGain = 6 * U, !.charitable = 12 * U]
\* Retired: distributions, little else, and a hospital.
Retired == [Nothing EXCEPT !.pension = U, !.pretaxOpening = 32 * U, !.pretaxWithdrawn = 0,
             !.shortGains = U, !.interest = U, !.exemptInterest = U, !.rent = 3 * U, !.rentalExpense = U,
             !.rentalGain = 2 * U, !.medical = 3 * U]

MCIncomes == {Slump, Boom, Retired}
=============================================================================
