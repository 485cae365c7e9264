------------------------------- MODULE Incomes --------------------------------
(***************************************************************************)
(* The panes about what comes in: the income table, the dates of each       *)
(* income and entitlement, the entitlements' amounts, and the three tables  *)
(* of planned movements of retirement accounts.                             *)
(*                                                                         *)
(* A table is one field, the sequence of the rows posted; a row posted with *)
(* a handle is the row that had it, and one without gets a new handle.  The *)
(* household p holds subjects, income flows, entitlements and accounts; the *)
(* plans q hold the dates, by the handle of the flow or subject, and the    *)
(* movements.                                                               *)
(***************************************************************************)
EXTENDS Records

TableKey == <<"rows">>

\* The complete rows of a posted table: those without a handle get one that no posted
\* row has.
Rebuilt(posted, complete, kind) ==
    LET taken == HandlesOf(posted) \ {None}
        Take(built, row) ==
            Append(built, IF row.handle # None THEN row
                          ELSE [row EXCEPT !.handle = Minted(kind, taken \cup HandlesOf(built))])
    IN  FoldLeft(Take, << >>, complete)
-----------------------------------------------------------------------------
(* The income table. *)

HouseholdWide == <<"household", 1>>      \* earned by no one in particular

General(p) == Where(p.flows, LAMBDA w : w.property = None)
Rentals(p) == Where(p.properties, LAMBDA a : a.class = "RENTAL")
RentOf(p, h) == LET flows == Where(p.flows, LAMBDA w : w.property = h)
                IN  IF flows = << >> THEN None ELSE Last(flows).amount

IncomeShown(p) ==
    (TableKey :> [i \in DOMAIN General(p) |->
        LET w == General(p)[i]
        IN  [handle |-> w.handle, subject |-> Or(w.subject, HouseholdWide), amount |-> w.amount]])
    @@ [k \in {<<"rental", n>> : n \in DOMAIN Rentals(p)} |-> RentOf(p, Rentals(p)[k[2]].handle)]

SoleSubject(p) == IF Len(p.subjects) = 1 THEN p.subjects[1].handle ELSE None
DefaultSubject(p, subject) == Or(subject, SoleSubject(p))

\* Mutant: the handles posted with the rows are not read back.
ForgottenFlows(p, f) ==
    LET rows == Where(Cell(f, TableKey), LAMBDA row : row.amount # None /\ DefaultSubject(p, row.subject) # None)
    IN  [i \in DOMAIN rows |->
            LET s == DefaultSubject(p, rows[i].subject)
            IN  IncomeFlow(<<"income", i>>, IF s = HouseholdWide THEN None ELSE s,
                           IF s = HouseholdWide THEN "ORDINARY" ELSE "WAGES", rows[i].amount, None)]

GeneralFlows(p, f) ==
    LET posted == Cell(f, TableKey)
        rows == Rebuilt(posted, Where(posted, LAMBDA row :
                    row.amount # None /\ DefaultSubject(p, row.subject) # None), "income")
    IN  [i \in DOMAIN rows |->
            LET s == DefaultSubject(p, rows[i].subject)
            IN  IncomeFlow(rows[i].handle, IF s = HouseholdWide THEN None ELSE s,
                           IF s = HouseholdWide THEN "ORDINARY" ELSE "WAGES", rows[i].amount, None)]

RentalFlows(p, f) ==
    LET given == Where([n \in DOMAIN Rentals(p) |->
                           [handle |-> Rentals(p)[n].handle, amount |-> Cell(f, <<"rental", n>>)]],
                       LAMBDA r : r.amount # None)
    IN  [n \in DOMAIN given |-> 
            IncomeFlow(given[n].handle, None, "GROSS_RENTAL", given[n].amount, given[n].handle)]

\* The dates of an income go with it, when it is this table that removes it.
IncomeApplied(p, q, f) ==
    LET flows == GeneralFlows(p, f) \o RentalFlows(p, f)
    IN  [profile |-> [p EXCEPT !.flows = flows],
         plans   |-> [q EXCEPT !.incomeTiming = Dropping(@, HandlesOf(p.flows) \ HandlesOf(flows))]]

WageTotal(p, s) ==
    FoldLeft(LAMBDA sum, w : sum + w.amount, 0,
             Where(p.flows, LAMBDA w : w.subject = s /\ w.taxed = "WAGES"))
-----------------------------------------------------------------------------
(* When each income starts and ends, and when each entitlement does. *)

BornOf(p, s) == IF s \in HandlesOf(p.subjects) THEN Having(p.subjects, s).born ELSE None

WindowOf(q, h) == IF h \in DOMAIN q.incomeTiming THEN q.incomeTiming[h] ELSE IncomeTiming(None, None)
TimingOf(q, s) == IF s \in DOMAIN q.timing THEN q.timing[s] ELSE RetirementTiming

\* A lifetime is an age alone, with no date beside it.
TimingShown(p, q) ==
    Together(
        [i \in DOMAIN General(p) |->
            LET w == General(p)[i]  born == BornOf(p, w.subject)
            IN  WhenShown(<<"from", i>>, born, WindowOf(q, w.handle).from)
                @@ WhenShown(<<"until", i>>, born, WindowOf(q, w.handle).until)]
        \o [m \in DOMAIN p.subjects |->
            LET s == p.subjects[m]  t == TimingOf(q, s.handle)
            IN  WhenShown(<<"claim", m>>, s.born, t.claim) @@ WhenShown(<<"pension", m>>, s.born, t.pension)
                @@ (<<"lifetime", m>> :> IF t.lifetime = None THEN None ELSE AgeOn(s.born, t.lifetime))])

TimingApplied(p, q, f) ==
    LET Window(i) == LET born == BornOf(p, General(p)[i].subject)
                     IN  IncomeTiming(WhenRead(f, <<"from", i>>, born), WhenRead(f, <<"until", i>>, born))
        Elected(m) == LET s == p.subjects[m]  age == Cell(f, <<"lifetime", m>>)
                      IN  [claim |-> WhenRead(f, <<"claim", m>>, s.born),
                           pension |-> WhenRead(f, <<"pension", m>>, s.born),
                           lifetime |-> IF age = None THEN None ELSE AtAge(s.born, age)]
    IN  [q EXCEPT !.incomeTiming = Together([i \in DOMAIN General(p) |-> General(p)[i].handle :> Window(i)]),
                  !.timing = Together([m \in DOMAIN p.subjects |-> p.subjects[m].handle :> Elected(m)])]
-----------------------------------------------------------------------------
(* The entitlements. *)

BenefitsShown(p) == Together([m \in DOMAIN p.subjects |->
    (<<"gov", m>> :> Cell(p.government, p.subjects[m].handle))
    @@ (<<"pension", m>> :> Cell(p.pensions, p.subjects[m].handle))])

BenefitsApplied(p, f) ==
    LET Given(field) == LET filled == {m \in DOMAIN p.subjects : Cell(f, <<field, m>>) # None}
                        IN  Together([n \in DOMAIN p.subjects |->
                                IF n \in filled THEN p.subjects[n].handle :> f[<<field, n>>] ELSE << >>])
    IN  [p EXCEPT !.government = Given("gov"), !.pensions = Given("pension")]

\* The estimator writes the one entitlement it was opened for.
AppliedGovernmentBenefit(p, s, monthly) ==
    [p EXCEPT !.government = Dropping(@, {s}) @@ IF monthly = None THEN << >> ELSE s :> monthly]
-----------------------------------------------------------------------------
(* Contributions to retirement accounts, conversions to Roth, withdrawals.    *)

RetirementClasses == {"PRETAX", "ROTH"}
Movement == [
    contributions |-> [classes |-> RetirementClasses, once |-> FALSE, minted |-> "contribution"],
    conversions   |-> [classes |-> {"PRETAX"}, once |-> TRUE, minted |-> "conversion"],
    withdrawals   |-> [classes |-> {"PRETAX"}, once |-> TRUE, minted |-> "withdrawal"]]
MaxPlanAge == 120

MovementAccounts(p, kind) == Where(p.accounts, LAMBDA a : a.class \in Movement[kind].classes)
SoleAccount(p, kind) ==
    IF Len(MovementAccounts(p, kind)) = 1 THEN MovementAccounts(p, kind)[1].handle ELSE None

\* A row without a cadence shows neither its count nor its unit.
MovementShown(q, kind) == TableKey :> [i \in DOMAIN q.movements[kind] |->
    LET e == q.movements[kind][i]
    IN  [handle |-> e.handle, account |-> e.account, amount |-> e.amount, from |-> e.from, until |-> e.until,
         source |-> e.source, count |-> IF e.every = None THEN None ELSE e.every.count,
         unit |-> IF e.every = None THEN None ELSE e.every.unit]]

\* A conversion or withdrawal without a count happens once.  A contribution always
\* recurs; one left blank is monthly.
IntervalRead(row, kind) ==
    IF Movement[kind].once /\ row.count = None THEN None
    ELSE [count |-> Or(row.count, 1),
          unit |-> Or(row.unit, IF Movement[kind].once THEN UnitsOf.WK_MO_YR[1] ELSE "MONTH")]

PlanAge(age) == IF age # None /\ age > MaxPlanAge THEN None ELSE age

MovementApplied(p, q, f, kind) ==
    LET posted == Cell(f, TableKey)
        Account(row) == Or(row.account, SoleAccount(p, kind))
        rows == Rebuilt(posted, Where(posted, LAMBDA row : Account(row) # None /\ row.amount # None),
                        Movement[kind].minted)
    IN  [q EXCEPT !.movements[kind] = [i \in DOMAIN rows |->
            LET row == rows[i]
            IN  RetirementMovement(row.handle, Account(row), row.amount, IntervalRead(row, kind),
                                   PlanAge(row.from), PlanAge(row.until),
                                   IF kind = "contributions" THEN Or(row.source, "PERSONAL") ELSE None)]]
=============================================================================
