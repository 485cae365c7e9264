------------------------------ MODULE MCForecast ------------------------------
(***************************************************************************)
(* A frame of thirty months that starts and ends inside a tax year, with    *)
(* two full years between.  A household with a home, a rental, two cars and *)
(* two leases, a card for each way to pay one down, and what it earns,      *)
(* spends and saves; and, past what a plan can say, a loan originated later *)
(* and a cadence with an offset.                                            *)
(***************************************************************************)
EXTENDS Projection

Part(n, d) == [num |-> n, den |-> d]
Day(month) == LastOf(month)        \* some day inside the month

MCMaxPlausibleRate == Part(1, 1)
MCCardRate == Part(1, 2)
MCAutoRate == Part(1, 20)

MCStart == FirstOf(9)
MCEnd   == LastOf(38)

MCOutlook ==
    <<[window |-> [start |-> NoDate, end |-> YearEnd(1)],
       rate |-> [wages |-> Part(1, 10), general |-> Part(1, 5), benefit |-> Part(1, 9), pension |-> Part(1, 10)],
       reductionYear |-> 2, payable |-> Part(3, 4)],
      [window |-> [start |-> YearStart(2), end |-> NoDate],
       rate |-> [wages |-> Part(0, 1), general |-> Part(-1, 10), benefit |-> Part(1, 9), pension |-> Part(0, 1)],
       reductionYear |-> 3, payable |-> Part(3, 4)]>>

H(name) == <<name>>
Ann == H("ann")
Bob == H("bob")
None == <<>>
NoEntries == [x \in {} |-> x]

Asset(name, class, owner) == [handle |-> H(name), class |-> class, owner |-> owner]
Debt(name, kind, balance, secured) ==
    [handle |-> H(name), kind |-> kind, balance |-> balance, secured |-> secured]
Income(name, class, amount, every, property) ==
    [handle |-> H(name), class |-> class, amount |-> amount, every |-> every, property |-> property]

MCFacts ==
    [subjects |-> <<[handle |-> Ann, born |-> FirstOf(3)], [handle |-> Bob, born |-> FirstOf(6)]>>,
     assets   |-> <<Asset("home", "REAL_ESTATE_RESIDENCE", None), Asset("rental", "REAL_ESTATE_RENTAL", None),
                    Asset("van", "DEPRECIATING", None), Asset("wagon", "DEPRECIATING", None),
                    Asset("ira", "PRETAX", Ann), Asset("roth", "ROTH", Ann)>>,
     debts    |-> <<Debt("mortgage", "MORTGAGE", 90, H("home")), Debt("student", "LOAN", 61, None),
                    Debt("van-loan", "AUTO", 47, H("van")),
                    Debt("visa", "CREDIT_CARD", 40, None), Debt("store", "CREDIT_CARD", 30, None),
                    Debt("amex", "CREDIT_CARD", 40, None), Debt("gas", "CREDIT_CARD", 20, None),
                    Debt("diners", "CREDIT_CARD", 20, None), Debt("disco", "CREDIT_CARD", 10, None)>>,
     flows    |-> <<Income("wages", "wages", 40, 0, None), Income("gig", "wages", 9, 5, None),
                    Income("let", "general", 12, 1, H("rental")), Income("garage", "general", 12, 0, H("rental"))>>,
     pensions |-> <<[subject |-> Ann, amount |-> 24]>>,
     entitled |-> <<[subject |-> Bob, amount |-> 24]>>,
     tenure   |-> "OWN"]

Paid(mode, monthly, target) == [mode |-> mode, monthly |-> monthly, target |-> target]

NoVehicle == [handle |-> None, method |-> "CASH", from |-> NoDate, until |-> NoDate, every |-> Blank,
              price |-> Blank, down |-> Blank, monthly |-> Blank, turnIn |-> Blank]
Truck   == [NoVehicle EXCEPT !.handle = H("truck"), !.from = FirstOf(12), !.until = LastOf(30), !.every = 9, !.price = 33]
NextVan == [NoVehicle EXCEPT !.method = "LOAN", !.until = LastOf(24), !.every = 3, !.price = 70, !.down = 20]
NextCoupe == [NoVehicle EXCEPT !.method = "LEASE", !.every = 9, !.monthly = 6, !.down = 4, !.turnIn = 3]
NextSuv == [NoVehicle EXCEPT !.method = "LOAN", !.every = 9, !.price = 80, !.monthly = 20]

Cost(name, amount, every, appliesTo) ==
    [handle |-> name, amount |-> amount, every |-> every, smooth |-> FALSE, invariant |-> FALSE,
     appliesTo |-> appliesTo, overrides |-> NoEntries]
Homes == {"REAL_ESTATE_RESIDENCE", "RENTED_HOME"}

NoEvent == [kind |-> "PAYMENT", at |-> None, on |-> NoDate, amount |-> 0, every |-> 0, finish |-> NoDate,
            indexed |-> FALSE, rentAfter |-> FALSE]

MCIntents ==
    [repayments  |-> (H("mortgage") :> [rate |-> Part(0, 1), term |-> 70]) @@ (H("student") :> [rate |-> Part(1, 10), term |-> 4])
                        @@ (H("van-loan") :> [rate |-> Part(0, 1), term |-> 14]),
     prepayments |-> H("student") :> 36,
     cards       |-> (H("visa") :> Paid("MONTHLY", 27, NoDate)) @@ (H("store") :> Paid("BY_DATE", Blank, FirstOf(13)))
                        @@ (H("amex") :> Paid("COMBO", 22, FirstOf(12))) @@ (H("gas") :> Paid("COMBO", 20, FirstOf(30)))
                        @@ (H("diners") :> Paid("LUMP", Blank, FirstOf(16))),
     vehicles     |-> <<Truck>>,
     dispositions |-> <<[vehicle |-> H("van"), kind |-> "REPLACE", on |-> FirstOf(17), replacement |-> NextVan],
                        [vehicle |-> H("wagon"), kind |-> "SELL", on |-> FirstOf(20), replacement |-> NoVehicle]>>,
     leases       |-> <<[vehicle |-> H("coupe"), kind |-> "RENEW", end |-> FirstOf(17), monthly |-> 5, successor |-> NextCoupe],
                        [vehicle |-> H("suv"), kind |-> "BUY_LOAN", end |-> FirstOf(21), monthly |-> 7, successor |-> NextSuv]>>,
     runningCosts |-> <<[handle |-> "fuel", smooth |-> TRUE, every |-> 1, amount |-> 2],
                        [handle |-> "insurance", smooth |-> FALSE, every |-> 4, amount |-> 3]>>,
     incomeTiming |-> H("gig") :> [start |-> FirstOf(12), end |-> LastOf(29)],
     timing |-> <<[subject |-> Ann, lifetime |-> NoDate, pension |-> FirstOf(14), claims |-> NoDate],
                  [subject |-> Bob, lifetime |-> NoDate, pension |-> NoDate, claims |-> FirstOf(24)]>>,
     spans  |-> <<1, 2>>,
     recurring |-> <<[handle |-> H("food"), smooth |-> TRUE, every |-> 1, amounts |-> <<5, 6, 4>>],
                     [handle |-> H("travel"), smooth |-> FALSE, every |-> 5, amounts |-> <<8, 9>>]>>,
     propertyExpenses |->
        <<Cost("upkeep", 2, 1, {"REAL_ESTATE_RESIDENCE"}), [Cost("heating", 1, 1, Homes) EXCEPT !.invariant = TRUE],
          Cost("rent", 9, 1, {"RENTED_HOME"}), Cost("repairs", 2, 4, {"REAL_ESTATE_RENTAL"}),
          [Cost("roof", 24, 12, {"REAL_ESTATE_RENTAL", "REAL_ESTATE_RESIDENCE"}) EXCEPT
               !.smooth = TRUE, !.overrides = (H("home") :> 0)]>>,
     contributions |-> <<[account |-> H("ira"), amount |-> 6, every |-> 12, from |-> Blank, until |-> 2]>>,
     conversions   |-> <<[source |-> H("ira"), amount |-> 5, every |-> 3, from |-> 1, until |-> 2]>>,
     withdrawals   |-> <<[source |-> H("roth"), amount |-> 8, every |-> 0, from |-> 2, until |-> Blank]>>,
     events |->
        <<[NoEvent EXCEPT !.on = Day(15), !.amount = 3, !.every = 5, !.finish = Day(29)],
          [NoEvent EXCEPT !.on = Day(22), !.amount = 20, !.indexed = TRUE],
          [NoEvent EXCEPT !.kind = "RECEIPT", !.on = Day(28), !.amount = 15],
          [NoEvent EXCEPT !.kind = "TRANSFER", !.on = Day(11), !.amount = 5]>>]

Premium == Item(7, [Every(6) EXCEPT !.offset = 2], Spanning(FirstOf(11), NoDate))
Bridge  == [handle |-> <<H("bridge"), 0>>, principal |-> 47, rate |-> Part(1, 12), term |-> 4,
            extra |-> 0, originates |-> Day(17)]

MCFlow     == (H("premium") :> Premium) @@ MaterializedFlow
MCProperty == MaterializedProperty @@ NoEntries
MCLoans    == SetToSeq(PlainLoans \cup CurrentVehicleLoans \cup {Bridge})
MCRecurring == SetToSeq(VehicleLoanOriginations)

Sale(name, on, rentAfter) ==
    [NoEvent EXCEPT !.kind = "SELL_PROPERTY", !.at = H(name), !.on = on, !.rentAfter = rentAfter]
Payoff(name, on) == [NoEvent EXCEPT !.kind = "LOAN_PAYOFF", !.at = H(name), !.on = on]

Dies(subject, on) == [subject |-> subject, lifetime |-> on]
PlanOf(timing, events) ==
    [household |-> HouseholdOf(timing), loans |-> MCLoans, recurring |-> MCRecurring, flow |-> MCFlow,
     property |-> MCProperty, schedule |-> ScheduleOf(events)]

\* The households and the events a plan may have; the rest of it is MCIntents.
MCPlans ==
    {PlanOf(<<>>, <<>>),
     PlanOf(<<Dies(Ann, Day(10)), Dies(Bob, Day(30))>>, <<Sale("home", FirstOf(18), TRUE), Sale("rental", Day(25), FALSE)>>),
     PlanOf(<<>>, <<Sale("home", Day(13), FALSE), Payoff("student", Day(10)), Sale("rental", FirstOf(36), FALSE)>>)}

\* The costs and the rent of the home are monthly: what the properties of a sale ask for.
ASSUME TenuresOfThePlans == MonthlyTenures

MCOpeningTitles == [ira |-> Ann, roth |-> Ann]
=============================================================================
