------------------------------- MODULE Policies -------------------------------
(***************************************************************************)
(* The panes of what the household means to do about what it owes, and      *)
(* with its cash, and of the economic assumptions.  Cards and loans are      *)
(* shown by their debt's handle; each kind of payoff is also an event, which *)
(* the pane that makes it replaces whenever it is saved.  And the editor of   *)
(* the plan's events.                                                        *)
(***************************************************************************)
EXTENDS Records

CONSTANTS
    DrawSources,                \* the classes that cash may be drawn from, in their default order
    SweepClasses,               \* the classes that cash may be swept into
    DefaultDrawdown,            \* the cash plan of a household without one
    DefaultEconomics, DefaultCosts, DefaultLatent, DefaultProjection,
    SectionFactors, AdvancedFactors, FundingFactors,    \* the names of the rates on each pane
    RecurringUnits, LiquidClasses                       \* of events: units of recurrence, classes that take transfers

DebtsOf(p, kinds) == Where(p.debts, LAMBDA d : d.kind \in kinds)
PayoffsOf(q, kind, handles) == Where(q.events, LAMBDA e : e.kind = kind /\ e.at \in handles)
WithoutPayoffs(q, kind, handles) == Where(q.events, LAMBDA e : ~(e.kind = kind /\ e.at \in handles))
-----------------------------------------------------------------------------
(* Credit cards. *)

PayoffModes == {"LUMP", "COMBO"}

CardsShown(p, q) == Together([i \in DOMAIN DebtsOf(p, {"CARD"}) |->
    LET h == DebtsOf(p, {"CARD"})[i].handle
        plan == IF h \in DOMAIN q.cards THEN q.cards[h] ELSE CreditCardPlan("carry", None, None)
    IN  [k \in {<<x, h>> : x \in DOMAIN plan} |-> plan[k[1]]]])

\* What a card's fields make: each mode keeps what it needs, or there is no plan.
CardRead(f, h) ==
    LET mode == Cell(f, <<"mode", h>>)
        monthly == IF mode \in {"MONTHLY", "COMBO"} THEN Cell(f, <<"monthly", h>>) ELSE None
        target == IF mode = "MONTHLY" THEN None ELSE Cell(f, <<"target", h>>)
    IN  IF \/ mode \in {None, "carry"}
           \/ mode \in {"MONTHLY", "COMBO"} /\ monthly = None
           \/ mode # "MONTHLY" /\ target = None
        THEN None ELSE CreditCardPlan(mode, monthly, target)

CardsApplied(p, q, f) ==
    LET cards == DebtsOf(p, {"CARD"})
        handles == HandlesOf(cards)
        planned == {h \in handles : CardRead(f, h) # None}
        lumps == Where([i \in DOMAIN cards |-> cards[i].handle],
                       LAMBDA h : h \in planned /\ CardRead(f, h).mode \in PayoffModes)
    IN  [q EXCEPT !.cards = Dropping(@, handles) @@ [h \in planned |-> CardRead(f, h)],
                  !.events = WithoutPayoffs(q, "CARD_PAYOFF", handles)
                             \o [i \in DOMAIN lumps |-> PlanEvent("CARD_PAYOFF", CardRead(f, lumps[i]).target, lumps[i])]]
-----------------------------------------------------------------------------
(* Mortgages and personal loans; a car's loan is planned with the car. *)

NoTerms == LoanRepayment(None, None)
\* What a plan starts from: the terms it has, else those of the household's facts.
SeededTerms(q, d) ==
    IF d.handle \in DOMAIN q.repayments THEN q.repayments[d.handle]
    ELSE IF d.terms = None THEN NoTerms ELSE LoanRepayment(d.terms.rate, d.terms.term)

\* The snapshot of the facts a plan was made from stays while the plan does.
Preserved(q, d) == IF d.handle \in DOMAIN q.snapshots THEN q.snapshots[d.handle] ELSE d.terms

DebtKeys == <<"rate", "term", "extra", "payoff">>
DebtsShown(p, q) == Together([i \in DOMAIN DebtsOf(p, {"MORTGAGE", "LOAN"}) |->
    LET d == DebtsOf(p, {"MORTGAGE", "LOAN"})[i]
        payoffs == PayoffsOf(q, "LOAN_PAYOFF", {d.handle})
    IN  (<<"rate", d.handle>> :> SeededTerms(q, d).rate) @@ (<<"term", d.handle>> :> SeededTerms(q, d).term)
        @@ (<<"extra", d.handle>> :> IF d.handle \in DOMAIN q.prepayments THEN q.prepayments[d.handle] \div 12 ELSE None)
        @@ (<<"payoff", d.handle>> :> IF payoffs = << >> THEN None ELSE Last(payoffs).on)])

\* Without both rate and months there is no plan, so no prepayment and no payoff.
DebtsApplied(p, q, f) ==
    LET debts == DebtsOf(p, {"MORTGAGE", "LOAN"})
        handles == HandlesOf(debts)
        planned == {h \in handles : Cell(f, <<"rate", h>>) # None /\ Cell(f, <<"term", h>>) # None}
        extra == {h \in planned : Cell(f, <<"extra", h>>) \notin {None, 0}}
        ending == Where([i \in DOMAIN debts |-> debts[i].handle],
                        LAMBDA h : h \in planned /\ Cell(f, <<"payoff", h>>) # None)
    IN  [q EXCEPT
        !.repayments = Dropping(@, handles) @@ [h \in planned |-> LoanRepayment(f[<<"rate", h>>], f[<<"term", h>>])],
        !.prepayments = Dropping(@, handles) @@ [h \in extra |-> 12 * f[<<"extra", h>>]],
        !.snapshots = Dropping(@, handles) @@ [h \in planned |-> Preserved(q, Having(debts, h))],
        !.events = WithoutPayoffs(q, "LOAN_PAYOFF", handles)
                   \o [i \in DOMAIN ending |-> PlanEvent("LOAN_PAYOFF", f[<<"payoff", ending[i]>>], ending[i])]]

\* What the first view of a plan pane seeds: loans whose facts give both terms.
SeededRepayments(q, debts) ==
    LET seeds == {d \in ToSet(debts) : d.handle \notin DOMAIN q.repayments
                                       /\ d.terms # None /\ d.terms.rate # None /\ d.terms.term # None}
        handles == {d.handle : d \in seeds}
    IN  [q EXCEPT !.repayments = @ @@ [h \in handles |-> LoanRepayment(Having(debts, h).terms.rate,
                                                                      Having(debts, h).terms.term)],
                  !.snapshots = [h \in handles |-> Having(debts, h).terms] @@ @]
-----------------------------------------------------------------------------
(* Cash: what to keep, where to draw from, and where to put the rest.  Weights *)
(* are in millionths, and are shown as whole percents.                        *)

HalfEven(n, d) ==
    LET q == n \div d  twice == 2 * (n % d)
    IN  IF twice > d \/ (twice = d /\ q % 2 = 1) THEN q + 1 ELSE q
SumOf(weights) == FoldLeft(+, 0, weights)

\* The last row takes what rounding left.
Normalized(weights) ==
    LET Share(i) == HalfEven(1000000 * weights[i], SumOf(weights))
        n == Len(weights)
    IN  [i \in 1..n |-> IF i < n THEN Share(i) ELSE 1000000 - SumOf([k \in 1..(n - 1) |-> Share(k)])]

Drawdown(q) == Or(q.drawdown, DefaultDrawdown)

\* A class saved before it existed comes last.
DrawRows(q) == Drawdown(q).order
               \o Where(DrawSources, LAMBDA c : c \notin ToSet(Drawdown(q).order))
SweepRows(q) == [i \in DOMAIN Drawdown(q).sweep |->
                    [handle |-> Drawdown(q).sweep[i].handle, weight |-> HalfEven(Drawdown(q).sweep[i].weight, 10000)]]

CashShown(q) ==
    (<<"floor">> :> Drawdown(q).floor) @@ (<<"ceiling">> :> Drawdown(q).ceiling)
    @@ (<<"order">> :> DrawRows(q)) @@ (<<"retained">> :> Where(DrawRows(q), LAMBDA c : c \in ToSet(Drawdown(q).retained)))
    @@ (<<"rows">> :> IF SweepRows(q) = << >> THEN <<[handle |-> None, weight |-> None]>> ELSE SweepRows(q))

SweepTargets(p) == HandlesOf(Where(p.accounts, LAMBDA a : a.class \in SweepClasses))

\* A ceiling is kept only with somewhere to sweep, and a sweep only with a ceiling.
CashApplied(p, q, f) ==
    LET order == IF Cell(f, <<"order">>) \in {None, << >>} THEN Drawdown(q).order ELSE f[<<"order">>]
        rows == IF Cell(f, <<"ceiling">>) = None THEN << >>
                ELSE Where(f[<<"rows">>], LAMBDA r : r.handle \in SweepTargets(p) /\ r.weight \notin {None, 0})
        weights == Normalized([i \in DOMAIN rows |-> rows[i].weight])
    IN  [q EXCEPT !.drawdown = DrawdownPolicy(
            f[<<"floor">>], IF rows = << >> THEN None ELSE f[<<"ceiling">>], order,
            Where(f[<<"retained">>], LAMBDA c : c \in ToSet(order)),
            [i \in DOMAIN rows |-> [handle |-> rows[i].handle, weight |-> weights[i]]])]
-----------------------------------------------------------------------------
(* The assumptions: each pane edits its own part; the two that the projection  *)
(* of the tax law is made from make it anew.                                  *)

Economics(a) == Or(a.economics, DefaultEconomics)
ForecastType(a) == IF a.projection = None THEN DefaultProjection ELSE a.projection.type
\* Indexed brackets grow with inflation; current law needs no rate.
Projection(type, economics) == [type |-> type, cola |-> IF type = "INDEXED" THEN economics.inflation ELSE None]

FactorsShown(a, factors) == [k \in {<<x>> : x \in factors} |-> Economics(a)[k[1]]]
EditedEconomics(a, f, factors) ==
    [x \in DOMAIN Economics(a) |-> IF x \in factors THEN f[<<x>>] ELSE Economics(a)[x]]

AssumptionsShown(a, pane) ==
    CASE pane = "factors"   -> FactorsShown(a, SectionFactors)
      [] pane = "economics" -> FactorsShown(a, AdvancedFactors)
      [] pane = "funding"   -> FactorsShown(a, FundingFactors)
      [] pane = "taxes"     -> <<"type">> :> ForecastType(a)
      [] pane = "costs"     -> <<"fee">> :> Or(a.costs, DefaultCosts)
      [] pane = "networth"  -> <<"latent">> :> Or(a.latent, DefaultLatent)

AssumptionsApplied(a, pane, f) ==
    CASE pane = "factors" ->
            LET economics == EditedEconomics(a, f, SectionFactors)
            IN  [a EXCEPT !.economics = economics, !.projection = Projection(ForecastType(a), economics)]
      [] pane = "economics" -> [a EXCEPT !.economics = EditedEconomics(a, f, AdvancedFactors)]
      [] pane = "funding"   -> [a EXCEPT !.economics = EditedEconomics(a, f, FundingFactors)]
      [] pane = "taxes"     -> [a EXCEPT !.projection = Projection(f[<<"type">>], Economics(a))]
      [] pane = "costs"     -> [a EXCEPT !.costs = f[<<"fee">>]]
      [] pane = "networth"  -> [a EXCEPT !.latent = f[<<"latent">>]]
-----------------------------------------------------------------------------
(* Events.  An event of a kind refers to people, accounts or holdings of the *)
(* household, its first reference "at" and, for a transfer, "to"; the list    *)
(* names events by their place in it.  Payoffs are made by the panes above    *)
(* and only removed here.  The three payments, which differ in their tax      *)
(* class, are one kind.                                                      *)

PayoffKinds == {"LOAN_PAYOFF", "CARD_PAYOFF"}

\* What each kind's references may be chosen from.
Offers(p, kind) ==
    CASE kind = "TRANSFER" ->
            [at |-> HandlesOf(Where(p.accounts, LAMBDA a : a.class \in LiquidClasses \cup {"ROTH"})),
             to |-> HandlesOf(Where(p.accounts, LAMBDA a : a.class \in LiquidClasses))]
      [] kind = "SELL_PROPERTY"   -> [at |-> HandlesOf(p.properties)]
      [] kind = "SELL_POSSESSION" -> [at |-> HandlesOf(p.possessions)]
      [] kind = "TAXABLE_RECEIPT" -> [at |-> HandlesOf(p.subjects)]
      [] OTHER                    -> << >>

\* Money goes from one account to another that takes transfers.
Transferable(p, from, into) ==
    from \in Offers(p, "TRANSFER").at /\ into \in Offers(p, "TRANSFER").to /\ from # into

Offerable(p, kind) ==
    /\ kind \notin PayoffKinds
    /\ \A role \in DOMAIN Offers(p, kind) : Offers(p, kind)[role] # {}
    /\ kind = "TRANSFER" => \E s \in Offers(p, kind).at : \E t \in Offers(p, kind).to : Transferable(p, s, t)

HasAmount(kind) == kind \notin {"SELL_PROPERTY", "SELL_POSSESSION"} \cup PayoffKinds
HasRecurrence(kind) == kind = "PAYMENT"
HasRentOption(p, kind) == kind = "SELL_PROPERTY" /\ \E a \in ToSet(p.properties) : a.class = "RESIDENCE"
DefaultRecurrence == [count |-> 1, unit |-> "YEAR"]

\* A blank form of the kind, or one that shows the event.
EventShown(p, kind, e) ==
    (<<"on">> :> IF e = None THEN None ELSE e.on)
    @@ [k \in {<<role>> : role \in DOMAIN Offers(p, kind)} |->
           LET choices == Offers(p, kind)[k[1]]
           IN  IF e # None THEN e[k[1]]
               ELSE IF Cardinality(choices) = 1 THEN CHOOSE h \in choices : TRUE ELSE None]
    @@ (IF HasAmount(kind) THEN <<"amount">> :> IF e = None THEN None ELSE e.amount ELSE << >>)
    @@ (IF HasRecurrence(kind)
        THEN (<<"recurring">> :> (e # None /\ e.every # None))
             @@ (<<"until">> :> IF e = None THEN None ELSE e.until)
             @@ CadenceShown(<<"recur">>, IF e = None \/ e.every = None THEN DefaultRecurrence ELSE e.every, RecurringUnits)
             @@ (<<"indexed">> :> (e = None \/ e.indexed))
        ELSE << >>)
    @@ (IF HasRentOption(p, kind) THEN <<"rents">> :> (e = None \/ e.rents) ELSE << >>)

Recurs(kind, f) == HasRecurrence(kind) /\ Cell(f, <<"recurring">>) = TRUE

EventValid(p, kind, f) ==
    /\ Cell(f, <<"on">>) # None
    /\ HasAmount(kind) => Cell(f, <<"amount">>) # None
    /\ \A role \in DOMAIN Offers(p, kind) : Cell(f, <<role>>) \in Offers(p, kind)[role]
    /\ kind = "TRANSFER" => Transferable(p, f[<<"at">>], f[<<"to">>])
    /\ Recurs(kind, f) => Cell(f, <<"until">>) # None /\ f[<<"until">>] >= f[<<"on">>]

EventRead(p, kind, f) ==
    LET recurs == Recurs(kind, f)
    IN  [PlanEvent(kind, f[<<"on">>], Cell(f, <<"at">>)) EXCEPT
            !.to      = Cell(f, <<"to">>),
            !.amount  = IF HasAmount(kind) THEN f[<<"amount">>] ELSE None,
            !.every   = IF recurs THEN CadenceRead(f, <<"recur">>, DefaultRecurrence, RecurringUnits) ELSE None,
            !.until   = IF recurs THEN f[<<"until">>] ELSE None,
            !.indexed = IF HasRecurrence(kind) THEN Cell(f, <<"indexed">>) = TRUE ELSE @,
            !.rents   = IF HasRentOption(p, kind) THEN Cell(f, <<"rents">>) = TRUE ELSE @]

AddEvent(p, q, kind, f) ==
    IF EventValid(p, kind, f) THEN [q EXCEPT !.events = Append(@, EventRead(p, kind, f))] ELSE q

\* An event may be edited while everything it refers to exists, and not at all if
\* another pane made it.
EventEditable(p, e) ==
    /\ e.kind \notin PayoffKinds
    /\ \A role \in DOMAIN Offers(p, e.kind) : e[role] \in Offers(p, e.kind)[role]
EditableAt(p, q, i) == i \in DOMAIN q.events /\ EventEditable(p, q.events[i])

\* Whatever event stands at the place when the form comes back is replaced; the form
\* is read as one of that event's kind.
EditEvent(p, q, i, f) ==
    IF EditableAt(p, q, i) /\ EventValid(p, q.events[i].kind, f)
    THEN [q EXCEPT !.events[i] = EventRead(p, q.events[i].kind, f)] ELSE q

\* Removing a card's payoff undoes the part of its plan that made it.
Unplanned(cards, h) ==
    IF h \in DOMAIN cards /\ cards[h].mode = "COMBO"
    THEN [cards EXCEPT ![h].mode = "MONTHLY", ![h].target = None]
    ELSE Dropping(cards, {h})

\* Mutant: the plan that made the event stays.
OnlyRemoved(q, i) == IF i \notin DOMAIN q.events THEN q ELSE [q EXCEPT !.events = RemoveAt(@, i)]

DeleteEvent(q, i) ==
    IF i \notin DOMAIN q.events THEN q
    ELSE [q EXCEPT !.events = RemoveAt(@, i),
                   !.cards = IF q.events[i].kind = "CARD_PAYOFF" THEN Unplanned(@, q.events[i].at) ELSE @]
===============================================================================
