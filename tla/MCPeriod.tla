------------------------------ MODULE MCPeriod ------------------------------
(***************************************************************************)
(* A household small enough to enumerate: six holdings, one per behaviour   *)
(* the waterfall and the books tell apart, amounts of two digits, and a few *)
(* intervals chosen so that the interesting cases happen: a flush one that  *)
(* sweeps, a lean one that draws, a ruinous one that sells the house and    *)
(* depletes, one full of scheduled events, and one that finances a car.     *)
(***************************************************************************)
EXTENDS Period

MCHoldings == {"brokerage", "cd", "ira", "roth", "home", "car"}
MCClass == [brokerage |-> "DIVIDEND_STOCKS", cd |-> "CDS", ira |-> "PRETAX_RETIREMENT",
            roth |-> "ROTH", home |-> "REAL_ESTATE_RESIDENCE", car |-> "DEPRECIATING"]

MCOpeningBooks ==
    SeedOpeningBalances(20,
        [brokerage |-> 17, cd |-> 9, ira |-> 0, roth |-> 8, home |-> 60, car |-> 13],
        [brokerage |-> 26, cd |-> 9, ira |-> 31, roth |-> 13, home |-> 75, car |-> 12],
        [brokerage |-> 0, cd |-> 0, ira |-> 0, roth |-> 0, home |-> 50, car |-> 6])

MCChartOrder   == <<"cash", "cd", "brokerage", "home", "car", "ira", "roth">>
MCDrawPriority == <<"cd", "brokerage", "car", "ira", "home", "roth">>
MCSweepBand == [h \in MCHoldings |->
    CASE h = "cd" -> [from |-> 0, to |-> 1] [] h = "brokerage" -> [from |-> 1, to |-> 4]
      [] OTHER -> [from |-> 0, to |-> 0]]

Part(n, d) == [num |-> n, den |-> d]
MCLatentRate == [h \in MCHoldings |->
    CASE h = "ira" -> Part(1, 5) [] h = "brokerage" -> Part(1, 7) [] OTHER -> Part(0, 1)]
MCTaxRate    == Part(1, 4)
MCFicaRate   == Part(1, 13)
MCRealtorFee == Part(1, 16)
MCLastPeriod == [n \in {1, 4} |-> IF n = 1 THEN 4 ELSE 6]

Growth(brokerage, home, car) == [h \in MCHoldings |->
    CASE h = "brokerage" -> brokerage [] h = "home" -> home [] h = "car" -> car
      [] h \in {"ira", "roth"} -> brokerage [] OTHER -> Part(0, 1)]
Yield(x) == [p \in MCHoldings \cup {"cash"} |->
    IF p \in {"cash", "cd", "brokerage"} THEN x ELSE Part(0, 1)]

Quiescent == [NoParameters EXCEPT !.loan = "home", !.floor = 12]

\* Wages and a pre-tax contribution with its match; what is above the ceiling is swept.
Flush == [Quiescent EXCEPT
    !.growth = Growth(Part(1, 8), Part(1, 20), Part(-1, 4)), !.yield = Yield(Part(1, 15)),
    !.wages = 37, !.expense = 9, !.interest = 2, !.principal = 7,
    !.contributions = <<[holding |-> "ira", amount |-> 3, matched |-> FALSE],
                        [holding |-> "ira", amount |-> 2, matched |-> TRUE]>>,
    !.forced = <<[holding |-> "ira", amount |-> 5]>>,
    !.estimate = 10, !.floor = 13, !.ceiling = 37]

\* No wages, a falling market: the floor has to be drawn for.
Lean == [Quiescent EXCEPT
    !.growth = Growth(Part(-1, 3), Part(0, 1), Part(-2, 3)), !.yield = Yield(Part(1, 9)),
    !.income = 6, !.expense = 31, !.interest = 1, !.principal = 6, !.loan = "car",
    !.contributions = <<[holding |-> "roth", amount |-> 2, matched |-> FALSE]>>,
    !.estimate = 3, !.penalty = 2, !.credit = 9]

\* More than everything: the house is sold under its loan, the forecast depletes.
Ruin == [Quiescent EXCEPT
    !.growth = Growth(Part(1, 10), Part(-1, 2), Part(-1, 4)),
    !.expense = 90, !.interest = 2, !.principal = 3, !.penalty = 1]

\* Scheduled events: a conversion, a trade-in financed anew, a move to the CD, a gift,
\* the sale of the house, and the new loan settled.
Moves == [Quiescent EXCEPT
    !.growth = Growth(Part(1, 6), Part(1, 10), Part(-1, 3)), !.yield = Yield(Part(1, 4)),
    !.wages = 25, !.interest = 1, !.principal = 5,
    !.events = <<[kind |-> "originate", holding |-> "car", principal |-> 7],
                 [kind |-> "realize", holding |-> "ira", amount |-> 11, to |-> "roth"],
                 [kind |-> "realize", holding |-> "car", amount |-> 99, to |-> Cash],
                 [kind |-> "transfer", from |-> Cash, to |-> "car", amount |-> 11],
                 [kind |-> "transfer", from |-> Cash, to |-> "cd", amount |-> 3],
                 [kind |-> "external", amount |-> -4],
                 [kind |-> "sale", holding |-> "home"],
                 [kind |-> "payoff", holding |-> "car"]>>,
    !.estimate = 14, !.credit = 3, !.ceiling = 22]

\* A car financed early in the interval: its first payments, its origination, its purchase.
Financed == [Quiescent EXCEPT
    !.income = 14, !.expense = 5, !.loan = "car", !.declared = 8, !.interest = 1, !.principal = 3,
    !.events = <<[kind |-> "originate", holding |-> "car", principal |-> 8],
                 [kind |-> "transfer", from |-> Cash, to |-> "car", amount |-> 10]>>]

MCPeriodInputs == {Flush, Lean, Ruin, Moves, Financed}
=============================================================================
