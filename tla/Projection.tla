------------------------------ MODULE Projection ------------------------------
(***************************************************************************)
(* A plan as the user gave it, projected: the parameters the forecast walks  *)
(* are those the household's facts and choices materialize into.  What the  *)
(* plan promised -- a card paid down, a car replaced, a lease renewed -- is  *)
(* compared with what the walk has charged.                                 *)
(***************************************************************************)
EXTENDS Forecast, Materialization

\* The engine may be given more than a plan can say (a loan originated later, a cadence
\* with an offset); what the plan says it is given as materialized.
ASSUME WalksThePlan ==
    /\ FrameStart = Start /\ FrameEnd = End
    /\ \A p \in Plans :
           /\ \A f \in DOMAIN MaterializedFlow : f \in DOMAIN p.flow /\ p.flow[f] = MaterializedFlow[f]
           /\ p.property = MaterializedProperty
           /\ Range(p.recurring) = VehicleLoanOriginations
           /\ PlainLoans \cup CurrentVehicleLoans \subseteq Range(p.loans)

MonthsWalked == MonthOf(Walked.end) - MonthOf(Start) + 1
Timed(name)  == IF name \in Flows THEN charged[name].times ELSE 0
Spent(name)  == IF name \in Flows THEN charged[name].amount ELSE 0
-----------------------------------------------------------------------------
(* Cards. *)

IsPlanned(d, modes) == d.handle \in DOMAIN Intents.cards /\ CardPlan(d).mode \in modes
PaidDown(d) == IsPlanned(d, {"MONTHLY", "BY_DATE", "COMBO"})

MonthlyPayment(d) ==
    IF IsPlanned(d, {"BY_DATE"}) THEN ByDatePayment(d, CardPlan(d)) ELSE Whole(CardPlan(d).monthly)

\* What is owed after some payments is no more than the lump, to the rounding of the lump.
ClearedBy(d, payments, lump) ==
    LET payment == MonthlyPayment(d)
        left    == Stepped(d.balance, CardRate, payment, payments)
        unit    == payment.den * CardRate.den ^ payments
    IN  IF lump = 0 THEN left <= 0 ELSE Quantize(left, unit) <= lump

\* A card is served every month until it is clear and not for long after: the payments booked
\* stop only when they and the lump have retired the balance at the card's rate, no more
\* than one payment is made beyond that, and a carried balance costs its interest every month
\* until the whole of it is paid (_resolve_card, _resolve_combo, and the windows and cadences
\* the engine walks them by).
CardsClear ==
    Between => \A d \in Cards :
        LET made == Timed(<<"card">> \o d.handle)
            lump == Spent(<<"card-payoff">> \o d.handle)
        IN  IF PaidDown(d)
            THEN /\ made < MonthsWalked => ClearedBy(d, made, lump)
                 /\ made > 2 => ~ClearedBy(d, made - 2, lump)
            ELSE made < MonthsWalked => lump = d.balance
-----------------------------------------------------------------------------
(* Cars. *)

\* root_vehicle: a car, what replaces it and what follows a lease are one.
RootOf(vehicle) == Head(vehicle)
Roots == {RootOf(w.vehicle) : w \in VehicleWindows}
ChainOf(root) == {w \in VehicleWindows : RootOf(w.vehicle) = root}
Begins(root) == CHOOSE date \in {w.window.start : w \in ChainOf(root)} :
                    \A w \in ChainOf(root) : date <= w.window.start
GoesOn(root) == \E w \in ChainOf(root) : w.window.end = NoDate
LastDay(root) ==
    IF GoesOn(root) THEN Walked.end
    ELSE CHOOSE date \in {w.window.end : w \in ChainOf(root)} :
             \A w \in ChainOf(root) : w.window.end <= date

CostCharged(cost, root) ==
    MapThenSumSet(LAMBDA w : Timed(RunningCost(cost.handle, w.vehicle)), ChainOf(root))

\* A car and what it is replaced by cost what one car costs: whatever the dates of the sale or
\* of the end of a lease and wherever they fall in an interval, each date of a running cost is
\* charged once over the two, a smoothed one each month, a lease is paid every month it is
\* renewed through, and once a car is sold nothing is owed on the loan it secured
\* (_vehicle_windows, _operated_until, _lease_window, vehicle_disposition_contributions).
OneCarAtATime ==
    Between => \A root \in Roots :
        /\ \A c \in Range(Intents.runningCosts) :
              IF c.smooth
              THEN GoesOn(root) /\ Begins(root) = Start => CostCharged(c, root) = MonthsWalked
              ELSE CostCharged(c, root) =
                       CountIn(Every(c.every), Begins(root), Lesser(Walked.end, LastDay(root)), Start)
        /\ \A x \in Leases : x.kind = "RENEW" /\ <<root>> = x.vehicle =>
              Timed(<<"car-payments">> \o x.vehicle)
                  + Timed(<<"car-payments">> \o SuccessorOf(x).handle) = MonthsWalked
        /\ \A s \in PossessionSales, d \in DebtsOf({"AUTO"}) :
              d.secured = s.holding /\ s.on <= Walked.end => owed[<<VehicleLoan(d.secured), 0>>] = 0
=============================================================================
