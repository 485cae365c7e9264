-------------------------------- MODULE Inputs --------------------------------
(***************************************************************************)
(* The household's facts (Profile) and one scenario's decisions about them  *)
(* (Plans), edited through the forms of the interview.  Plans name facts by *)
(* handle and copy a loan's contract and the rent; nothing ties the two, so *)
(* an edit of the facts leaves plans adrift until a run surface reconciles  *)
(* them, and readiness decides whether a forecast may run.  Amounts, dates  *)
(* and names are left out; the income windows, the sweep and the running    *)
(* costs of vehicles are not modelled.                                      *)
(***************************************************************************)
EXTENDS Integers, FiniteSets, Functions

CONSTANTS
    Households,   \* the settled households edits start from
    Contracts,    \* the terms a loan may be entered with, complete or not
    Rents,        \* the rents a renter may enter
    CatalogRent,  \* the rent an expense row starts with
    MaxEdits,     \* bound: forms saved after the start
    MaxMinted,    \* bound: properties, vehicles and debts of each numbered kind
    None          \* a blank field

ASSUME InputsAssumption ==
    /\ \A c \in Contracts : DOMAIN c = {"rate", "term"}
    /\ None \notin Rents /\ MaxEdits \in Nat /\ MaxMinted \in Nat

VARIABLES
    profile,   \* the facts
    plans,     \* the scenario's plans
    seen,      \* Home Expenses, the one conditional section, has been reviewed
    edits,
    copied     \* history: the debts, and whether the rent, whose plan the program copied from the facts

vars == <<profile, plans, seen, edits, copied>>
-----------------------------------------------------------------------------
(* Handles are pairs of a kind and a number; what a fact secures or owns is   *)
(* named after it.                                                           *)

Primary   == <<"subject", 1>>
Partner   == <<"subject", 2>>
Residence == <<"residence", 1>>
RentedHome == <<"rented", 1>>
Cash      == <<"taxable", 1>>
Stocks    == <<"taxable", 2>>
PreTax(s) == <<"pretax", s[2]>>
Roth(s)   == <<"roth", s[2]>>
LoanOn(h) == <<"loan", h[1], h[2]>>

\* The lowest number free among the handles of a kind.
Minted(kind, taken) ==
    <<kind, CHOOSE n \in 1..(Cardinality(taken) + 1) :
                /\ <<kind, n>> \notin taken
                /\ \A k \in 1..(n - 1) : <<kind, k>> \in taken>>

HandlesOf(S) == {x.handle : x \in S}
Without(S, h) == {x \in S : x.handle # h}

RealEstate == {"RESIDENCE", "RENTAL", "SECOND_HOME"}
Liquid     == {"CASH", "STOCKS"}
Retirement == {"PRETAX", "ROTH"}

Accounts(p) == HandlesOf(p.assets)
Debts(p)    == HandlesOf(p.debts)
Entities(p) == p.subjects \cup Accounts(p) \cup Debts(p)
OfClass(p, classes) == HandlesOf({a \in p.assets : a.class \in classes})
Rentals(p)       == OfClass(p, {"RENTAL"})
OwnedVehicles(p) == OfClass(p, {"VEHICLE"})
Renting(p)  == p.tenure = "RENT"
PropertyHandles(p) == OfClass(p, RealEstate) \cup (IF Renting(p) THEN {RentedHome} ELSE {})
HasProperty(p) == PropertyHandles(p) # {}

Amortizing(d) == d.kind # "CARD"
NoTerms == [rate |-> None, term |-> None]
Complete(t) == t.rate # None /\ t.term # None
TermsOf(p, h) ==
    IF h \in Debts(p) THEN (CHOOSE d \in p.debts : d.handle = h).terms ELSE NoTerms
-----------------------------------------------------------------------------
(* Compatibility: report and prune, category by category. *)

\* What each kind of plan item may name.
Resolvable(p) == [
    contributions |-> Accounts(p), conversions |-> Accounts(p), withdrawals |-> Accounts(p),
    prepayments |-> Debts(p), cards |-> Debts(p), overrides |-> PropertyHandles(p),
    dispositions |-> Accounts(p), leases |-> p.leased]

Selected(e)   == {e.at, e.to} \ {None}
EventResolves(p, e) == Selected(e) \subseteq Entities(p)
EndpointsValid(p, e) ==
    e.kind = "TRANSFER" /\ EventResolves(p, e) =>
        \A a \in p.assets :
            /\ a.handle = e.at => a.class \in Liquid \cup {"ROTH"}
            /\ a.handle = e.to => a.class \in Liquid

Compatible(p, q) ==
    /\ DOMAIN q.timing \subseteq p.subjects
    /\ DOMAIN q.repayments \subseteq Debts(p)
    /\ \A c \in DOMAIN q.named : q.named[c] \subseteq Resolvable(p)[c]
    /\ \A e \in q.events : EventResolves(p, e) /\ EndpointsValid(p, e)

KeepingDebts(f, p) == Restrict(f, DOMAIN f \cap Debts(p))

Reconciled(p, q) == [q EXCEPT
    !.timing = Restrict(@, DOMAIN @ \cap p.subjects),
    !.repayments = KeepingDebts(@, p),
    !.snapshots  = KeepingDebts(@, p),
    !.named  = [c \in DOMAIN @ |-> @[c] \cap Resolvable(p)[c]],
    !.events = {e \in @ : EventResolves(p, e) /\ EndpointsValid(p, e)}]
-----------------------------------------------------------------------------
(* Value drift: the contract or the rent moved since the plan copied it. *)

Over(f, g)   == [x \in DOMAIN f \cup DOMAIN g |-> IF x \in DOMAIN g THEN g[x] ELSE f[x]]
Put(f, h, t) == Over(f, [x \in {h} |-> t])
Drop(f, S)   == Restrict(f, DOMAIN f \ S)

LoanDrift(p, q) == {h \in DOMAIN q.snapshots \cap Debts(p) : q.snapshots[h] # TermsOf(p, h)}

RentDrift(p, q) ==
    Renting(p) /\ p.rent # None /\ q.rentSnapshot # None /\ p.rent # q.rentSnapshot

\* Mutant: the other debts' repayments are not kept.
ResetAlone(p, q, h) == [q EXCEPT
    !.repayments = Put([x \in {} |-> NoTerms], h, TermsOf(p, h)),
    !.snapshots = Put(@, h, TermsOf(p, h))]

ResetLoanTerms(p, q, h) == [q EXCEPT
    !.repayments = IF Complete(TermsOf(p, h)) THEN Put(@, h, TermsOf(p, h)) ELSE Drop(@, {h}),
    !.snapshots = Put(@, h, TermsOf(p, h))]

KeepLoanTerms(p, q, h) == [q EXCEPT !.snapshots = Put(@, h, TermsOf(p, h))]

SetHomeRent(q, rent) == [q EXCEPT !.rent = rent, !.rentSnapshot = rent]

\* The debts a walk of a plan section seeds: those of it that have no repayment and could.
Seedable(q, debts) == HandlesOf({d \in debts : d.handle \notin DOMAIN q.repayments /\ Complete(d.terms)})

Seeded(p, q, debts) ==
    LET seeds == [h \in Seedable(q, debts) |-> TermsOf(p, h)]
    IN  [q EXCEPT !.repayments = Over(@, seeds), !.snapshots = Over(@, seeds)]

SeedsRent(p, q) == q.rentSnapshot = None /\ Renting(p) /\ p.rent # None
-----------------------------------------------------------------------------
(* Readiness. *)

ProfileComplete(p) == p.subjects # {} /\ p.tenure # None
Reviewed == HasProperty(profile) => seen

Unplanned(p, q) == HandlesOf({d \in p.debts : Amortizing(d)}) \ DOMAIN q.repayments
Unclaimed(p, q) == p.entitled \ {s \in DOMAIN q.timing : q.timing[s]}

Blocked ==
    \/ ~Reviewed
    \/ ~ProfileComplete(profile)
    \/ Unplanned(profile, plans) # {} \/ Unclaimed(profile, plans) # {}

Adrift ==
    \/ ~Compatible(profile, plans)
    \/ LoanDrift(profile, plans) # {}
    \/ RentDrift(profile, plans)

Ready == ~Blocked /\ ~Adrift
DriftBlocked == ~Blocked /\ Adrift
-----------------------------------------------------------------------------
(* Editing the facts.  A save that changes nothing is left out.              *)

Edit == edits < MaxEdits /\ edits' = edits + 1

SaveProfile(p) ==
    /\ Edit /\ p # profile
    /\ profile' = p
    /\ UNCHANGED <<plans, seen, copied>>

Held(h, class) == [handle |-> h, class |-> class]
Owed(h, kind, secured, terms) == [handle |-> h, kind |-> kind, secured |-> secured, terms |-> terms]

\* The debt secured by a holding, with its kind, when a balance is entered.
SecuredBy(h, kind, loan) == IF loan = None THEN {} ELSE {Owed(LoanOn(h), kind, h, loan)}

SyncedAccounts(people) ==
    {Held(Cash, "CASH"), Held(Stocks, "STOCKS")}
        \cup {Held(PreTax(s), "PRETAX") : s \in people} \cup {Held(Roth(s), "ROTH") : s \in people}

\* Mutant: a departed person's pension stays.
OwnedButPensions(p, people) == [p EXCEPT
    !.flows = {f \in @ : f.subject \in people \cup {None}},
    !.entitled = @ \cap people]

\* The income, pensions and Social Security that remain when the household is people.
OwnedByCurrent(p, people) == [p EXCEPT
    !.flows = {f \in @ : f.subject \in people \cup {None}},
    !.pensions = @ \cap people,
    !.entitled = @ \cap people]

SubmitSubjects(people) == SaveProfile(
    [OwnedByCurrent(profile, people) EXCEPT
        !.subjects = people,
        !.assets = {a \in @ : a.class \notin Liquid \cup Retirement} \cup SyncedAccounts(people)])

SubmitHome(tenure, rent, valued, mortgage) == SaveProfile([profile EXCEPT
    !.tenure = tenure,
    !.rent = IF tenure = "RENT" THEN rent ELSE None,
    !.assets = Without(@, Residence) \cup
        (IF tenure = "OWN" /\ valued THEN {Held(Residence, "RESIDENCE")} ELSE {}),
    !.debts = Without(@, LoanOn(Residence)) \cup
        (IF tenure = "OWN" THEN SecuredBy(Residence, "MORTGAGE", mortgage) ELSE {})])

Numbered(kind, taken) ==
    {h \in taken : h[1] = kind} \cup {h \in {Minted(kind, taken)} : h[2] <= MaxMinted}

SubmitProperty(h, class, mortgage) == SaveProfile([profile EXCEPT
    !.assets = Without(@, h) \cup {Held(h, class)},
    !.debts  = Without(@, LoanOn(h)) \cup SecuredBy(h, "MORTGAGE", mortgage),
    !.flows  = {f \in @ : f.property = h => class = "RENTAL"}])

\* Removing a property, or an owned vehicle, with what hangs on it.
DeleteHolding(h) == SaveProfile([profile EXCEPT
    !.assets = Without(@, h),
    !.flows  = {f \in @ : f.property # h},
    !.debts  = {d \in @ : d.secured # h}])

SubmitOwnedVehicle(h, loan) == SaveProfile([profile EXCEPT
    !.assets = Without(@, h) \cup {Held(h, "VEHICLE")},
    !.debts  = Without(@, LoanOn(h)) \cup SecuredBy(h, "AUTO", loan),
    !.leased = @ \ {h}])

SubmitLeasedVehicle(h) == SaveProfile([profile EXCEPT
    !.leased = @ \cup {h},
    !.assets = Without(@, h),
    !.debts  = Without(@, LoanOn(h))])

DeleteLeasedVehicle(h) == SaveProfile([profile EXCEPT !.leased = @ \ {h}])

Editable(d) == d.kind \in {"LOAN", "CARD"}

SubmitDebt(h, kind, terms) ==
    /\ \A d \in profile.debts : d.handle = h => Editable(d)
    /\ SaveProfile([profile EXCEPT !.debts =
            Without(@, h) \cup {Owed(h, kind, None, IF kind = "LOAN" THEN terms ELSE NoTerms)}])

DeleteDebt(h) == SaveProfile([profile EXCEPT !.debts = Without(@, h)])

\* The table rebuilds every flow: wages of some subjects, rents of some rentals.
SubmitIncome(earners, let) == SaveProfile([profile EXCEPT !.flows =
    {[subject |-> s, property |-> None] : s \in earners}
        \cup {[subject |-> None, property |-> h] : h \in let}])

SubmitBenefits(entitled, pensions) ==
    SaveProfile([profile EXCEPT !.entitled = entitled, !.pensions = pensions])
-----------------------------------------------------------------------------
(* Editing the plans through their forms. *)

SavePlans(q, c) ==
    /\ Edit /\ q # plans
    /\ plans' = q
    /\ copied' = c
    /\ UNCHANGED <<profile, seen>>

PlanRetirement(claiming) ==
    SavePlans([plans EXCEPT !.timing = [s \in profile.subjects |-> s \in claiming]], copied)

\* What a form shows for a debt: its plan once there is one, else its contract.
Shown(h) == IF h \in DOMAIN plans.repayments THEN plans.repayments[h] ELSE TermsOf(profile, h)

\* Mutant: a repayment is rewritten under today's contract.
PreservedNever(h) == TermsOf(profile, h)

\* A repayment is rewritten under the snapshot it had, if it had one.
Preserved(h) == IF h \in DOMAIN plans.snapshots THEN plans.snapshots[h] ELSE TermsOf(profile, h)

Repaying(q, posted) ==
    LET planned == {h \in DOMAIN posted : Complete(posted[h])}
    IN  [q EXCEPT
            !.repayments = Over(Drop(@, DOMAIN posted), [h \in planned |-> posted[h]]),
            !.snapshots  = Over(Drop(@, DOMAIN posted), [h \in planned |-> Preserved(h)])]

\* Terms the user typed are his; terms accepted as shown copy the contract once.
CopiedWhen(posted) ==
    LET shown == {h \in DOMAIN posted : posted[h] = Shown(h) /\ Complete(posted[h])}
        fresh == {h \in shown \ DOMAIN plans.repayments : Preserved(h) = TermsOf(profile, h)}
    IN  [copied EXCEPT !.debts =
            (@ \ DOMAIN posted) \cup (@ \cap shown \cap DOMAIN plans.repayments) \cup fresh]

DebtPlanDebts == HandlesOf({d \in profile.debts : d.kind \in {"MORTGAGE", "LOAN"}})
AutoDebts     == HandlesOf({d \in profile.debts : d.kind = "AUTO"})

Payoff(kind, h) == [kind |-> kind, at |-> h, to |-> None]
Payoffs(q, kind, debts) == {e \in q.events : e.kind = kind /\ e.at \in debts}

\* The whole pane is saved; one debt's row differs from what it showed.
PlanDebts(h, terms, extra, payoff) ==
    LET posted  == [d \in DebtPlanDebts |-> IF d = h THEN terms ELSE Shown(d)]
        planned == {d \in DebtPlanDebts : Complete(posted[d])}
        extras  == IF extra THEN {h} ELSE {}
        old     == Payoffs(plans, "LOAN_PAYOFF", DebtPlanDebts)
        kept    == {e \in old : e.at \in planned \ {h}}
        payoffs == kept \cup (IF payoff /\ h \in planned THEN {Payoff("LOAN_PAYOFF", h)} ELSE {})
    IN  SavePlans(
            [Repaying(plans, posted) EXCEPT
                !.named.prepayments = (@ \ DebtPlanDebts) \cup
                                      (planned \cap ((@ \ {h}) \cup extras)),
                !.events = (@ \ old) \cup payoffs],
            CopiedWhen(posted))

Listed(S, h, on) == IF on THEN S \cup {h} ELSE S \ {h}

\* A vehicle's disposition and, when it is financed, the terms of its loan.
PlanVehicle(h, disposed, terms) ==
    LET posted == [d \in AutoDebts \cap {LoanOn(h)} |-> terms]
    IN  SavePlans(
            [Repaying(plans, posted) EXCEPT !.named.dispositions = Listed(@, h, disposed)],
            CopiedWhen(posted))

\* One row more, or one less, of a table that names accounts, debts or vehicles.
Offered(p) == [
    contributions |-> OfClass(p, Retirement), conversions |-> OfClass(p, {"PRETAX"}),
    withdrawals |-> OfClass(p, {"PRETAX"}), leases |-> p.leased]

PlanTable(c, h, on) ==
    /\ on => h \in Offered(profile)[c]
    /\ SavePlans([plans EXCEPT !.named[c] = Listed(@, h, on)], copied)

Cards == HandlesOf({d \in profile.debts : d.kind = "CARD"})

PlanCard(h, paid, lump) ==
    SavePlans([plans EXCEPT
        !.named.cards = Listed(@, h, paid),
        !.events = (@ \ Payoffs(plans, "CARD_PAYOFF", {h}))
                    \cup {e \in {Payoff("CARD_PAYOFF", h)} : paid /\ lump}], copied)

Offerable(p) ==
    [kind : {"TRANSFER"}, at : OfClass(p, Liquid \cup {"ROTH"}), to : OfClass(p, Liquid)]
        \cup [kind : {"SELL_PROPERTY"}, at : OfClass(p, RealEstate), to : {None}]
        \cup [kind : {"TAXABLE_RECEIPT"}, at : p.subjects, to : {None}]

AddEvent(e) ==
    /\ e.at # e.to
    /\ SavePlans([plans EXCEPT !.events = @ \cup {e}], copied)

\* Taking a card's payoff off the list clears its plan, or leaves the monthly part.
RemoveEvent(e, monthly) == SavePlans([plans EXCEPT
    !.events = @ \ {e},
    !.named.cards = IF e.kind = "CARD_PAYOFF" /\ ~monthly THEN @ \ {e.at} ELSE @], copied)

\* Walking a section that owns debts plans those that have none by their contract.
WalkLoans(kinds) ==
    LET debts == {d \in profile.debts : d.kind \in kinds}
    IN  SavePlans(Seeded(profile, plans, debts),
                  [copied EXCEPT !.debts = @ \cup Seedable(plans, debts)])

\* The expense rows: overrides of live properties, and a rent row from the catalog.
Merged(p, q) == [q EXCEPT
    !.named.overrides = (@ \cap PropertyHandles(p)) \cup Rentals(p),
    !.rent = IF @ = None THEN CatalogRent ELSE @]

WalkHomeExpenses ==
    LET rows == Merged(profile, plans)
        q == IF SeedsRent(profile, rows) THEN SetHomeRent(rows, profile.rent) ELSE rows
    IN  /\ Edit /\ HasProperty(profile)
        /\ q # plans \/ ~seen
        /\ plans' = q
        /\ seen' = TRUE
        /\ copied' = [copied EXCEPT !.rent = @ \/ SeedsRent(profile, rows)]
        /\ UNCHANGED profile

EditHomeExpenses(rent, overridden) ==
    LET typed == Renting(profile) /\ rent # plans.rent
    IN  /\ HasProperty(profile)
        /\ SavePlans([Merged(profile, plans) EXCEPT
                !.rent = IF typed THEN rent ELSE @,
                !.named.overrides = IF Cardinality(PropertyHandles(profile)) > 1
                                    THEN overridden ELSE {}],
                [copied EXCEPT !.rent = @ /\ ~typed])
-----------------------------------------------------------------------------
(* Resolving drift from a page, which may be stale: nothing is done unless   *)
(* the profile is complete.                                                  *)

Resolve(q, c) ==
    /\ ProfileComplete(profile)
    /\ plans' = q
    /\ copied' = c
    /\ UNCHANGED <<profile, seen, edits>>

Reconcile == Resolve(Reconciled(profile, plans), copied)

ResetLoan(h) == Resolve(ResetLoanTerms(profile, plans, h),
    [copied EXCEPT !.debts = Listed(@, h, Complete(TermsOf(profile, h)))])

\* A plan kept though it differs from the contract is the user's from then on.
KeepLoan(h) == Resolve(KeepLoanTerms(profile, plans, h),
    [copied EXCEPT !.debts = IF Shown(h) = TermsOf(profile, h) THEN @ ELSE @ \ {h}])

ResetRent == Resolve(SetHomeRent(plans, profile.rent), [copied EXCEPT !.rent = profile.rent # None])

KeepRent == Resolve([plans EXCEPT !.rentSnapshot = profile.rent],
                    [copied EXCEPT !.rent = @ /\ plans.rent = profile.rent])
-----------------------------------------------------------------------------
(* What every household the program can hold keeps, and so those edits start   *)
(* from: what belongs together is changed together.                          *)

ClassesOf == [
    taxable |-> Liquid, pretax |-> {"PRETAX"}, roth |-> {"ROTH"},
    residence |-> {"RESIDENCE"}, property |-> {"RENTAL", "SECOND_HOME"}, vehicle |-> {"VEHICLE"}]

PlansFields == {"timing", "named", "repayments", "snapshots", "events", "rent", "rentSnapshot"}
ProfileFields == {"subjects", "assets", "debts", "leased", "flows", "pensions", "entitled",
                  "tenure", "rent"}

AssetCoheres(a) ==
    /\ a.handle[1] \in DOMAIN ClassesOf /\ a.class \in ClassesOf[a.handle[1]]
    /\ a.class \in Liquid \cup Retirement => a.handle \in HandlesOf(SyncedAccounts({Primary, Partner}))

DebtCoheres(p, d) ==
    /\ d.handle[1] \in {"loan", "debt"}
    /\ d.kind = "AUTO" => d.handle = LoanOn(d.secured) /\ d.secured \in OwnedVehicles(p)

FlowCoheres(p, f) ==
    /\ f.subject \in p.subjects \cup {None}
    /\ f.property \in Rentals(p) \cup {None}

FactsCohere(p) ==
    /\ DOMAIN p = ProfileFields
    /\ p.subjects \subseteq {Primary, Partner}
    /\ p.pensions \cup p.entitled \subseteq p.subjects
    /\ \A a \in p.assets : AssetCoheres(a)
    /\ \A d \in p.debts : DebtCoheres(p, d)
    /\ \A d, e \in p.debts : d.handle = e.handle => d = e
    /\ \A f \in p.flows : FlowCoheres(p, f)

\* An item is of a kind of plan that can name it.
Names(h, kinds) == h # None /\ h[1] \in kinds

EventCoheres(e) ==
    /\ e.kind = "TAXABLE_RECEIPT" => Names(e.at, {"subject"})
    /\ e.kind = "SELL_PROPERTY" => Names(e.at, {"residence", "property"})
    /\ e.kind = "TRANSFER" => \A h \in {e.at, e.to} : Names(h, {"taxable", "pretax", "roth"})

PlansCohere(q) ==
    /\ DOMAIN q = PlansFields
    /\ "contributions" \in DOMAIN q.named
    /\ \A h \in q.named.contributions : h[1] \in {"pretax", "roth"}
    /\ \A h \in DOMAIN q.repayments : Complete(q.repayments[h])
    /\ \A e \in q.events : EventCoheres(e)

ASSUME HouseholdAssumption ==
    /\ None \notin HandlesOf(SyncedAccounts({Primary, Partner}))
    /\ \A hh \in Households : FactsCohere(hh.profile) /\ PlansCohere(hh.plans)
-----------------------------------------------------------------------------
Loans == Contracts \cup {None}

EditProfile ==
    \/ \E people \in {{}, {Primary}, {Primary, Partner}} : SubmitSubjects(people)
    \/ \E tenure \in {"OWN", "RENT", "NEITHER", None}, rent \in Rents \cup {None},
          valued \in BOOLEAN, mortgage \in Loans : SubmitHome(tenure, rent, valued, mortgage)
    \/ \E h \in Numbered("property", Accounts(profile)), class \in {"RENTAL", "SECOND_HOME"},
          mortgage \in Loans : SubmitProperty(h, class, mortgage)
    \/ \E h \in OfClass(profile, {"RENTAL", "SECOND_HOME", "VEHICLE"}) : DeleteHolding(h)
    \/ \E h \in Numbered("vehicle", Accounts(profile) \cup profile.leased), loan \in Loans :
          SubmitOwnedVehicle(h, loan)
    \/ \E h \in Numbered("vehicle", Accounts(profile) \cup profile.leased) : SubmitLeasedVehicle(h)
    \/ \E h \in profile.leased : DeleteLeasedVehicle(h)
    \/ \E h \in Numbered("debt", Debts(profile)), kind \in {"LOAN", "CARD"}, terms \in Contracts :
          SubmitDebt(h, kind, terms)
    \/ \E h \in HandlesOf({d \in profile.debts : Editable(d)}) : DeleteDebt(h)
    \/ \E earners \in SUBSET profile.subjects, let \in SUBSET Rentals(profile) :
          SubmitIncome(earners, let)
    \/ \E entitled, pensions \in SUBSET profile.subjects : SubmitBenefits(entitled, pensions)

EditPlans ==
    \/ \E claiming \in SUBSET profile.subjects : PlanRetirement(claiming)
    \/ \E h \in DebtPlanDebts, terms \in Contracts, extra, payoff \in BOOLEAN :
          PlanDebts(h, terms, extra, payoff)
    \/ \E h \in OwnedVehicles(profile), disposed \in BOOLEAN, terms \in Contracts :
          PlanVehicle(h, disposed, terms)
    \/ \E c \in DOMAIN Offered(profile) :
          \E h \in Offered(profile)[c] \cup plans.named[c], on \in BOOLEAN : PlanTable(c, h, on)
    \/ \E h \in Cards, paid, lump \in BOOLEAN : PlanCard(h, paid, lump)
    \/ \E e \in Offerable(profile) : AddEvent(e)
    \/ \E e \in plans.events, monthly \in BOOLEAN : RemoveEvent(e, monthly)
    \/ WalkLoans({"MORTGAGE", "LOAN"})
    \/ WalkLoans({"AUTO"})
    \/ WalkHomeExpenses
    \/ \E rent \in Rents, overridden \in SUBSET PropertyHandles(profile) :
          EditHomeExpenses(rent, overridden)

ResolveDrift ==
    \/ Reconcile
    \/ \E h \in DOMAIN plans.snapshots : ResetLoan(h) \/ KeepLoan(h)
    \/ plans.rentSnapshot # None /\ (ResetRent \/ KeepRent)

Init ==
    \E hh \in Households :
        /\ profile = hh.profile
        /\ plans = hh.plans
        /\ seen = hh.seen
        /\ edits = 0
        /\ copied = [debts |-> {h \in DOMAIN hh.plans.repayments \cap DOMAIN hh.plans.snapshots :
                                    hh.plans.repayments[h] = hh.plans.snapshots[h]},
                     rent |-> hh.plans.rentSnapshot # None /\ hh.plans.rent = hh.plans.rentSnapshot]

Next == EditProfile \/ EditPlans \/ ResolveDrift

Spec == Init /\ [][Next]_vars
-----------------------------------------------------------------------------
(* Properties. *)

\* What materialization and the engine's build look up or refuse.
Materializes(p, q) ==
    /\ p.subjects # {}
    /\ Compatible(p, q)
    /\ \A f \in p.flows : f.subject \in p.subjects \cup {None}
    /\ \A f \in p.flows : f.property \in Rentals(p) \cup {None}
    /\ p.pensions \subseteq p.subjects
    /\ \A s \in p.entitled : s \in DOMAIN q.timing /\ q.timing[s]
    /\ q.named.contributions \subseteq OfClass(p, Retirement)
    /\ \A e \in q.events :
        /\ e.kind = "TAXABLE_RECEIPT" => e.at \in p.subjects
        /\ e.kind = "SELL_PROPERTY" => e.at \in OfClass(p, RealEstate)
        /\ e.kind = "TRANSFER" => {e.at, e.to} \subseteq Accounts(p)
    /\ \A d \in p.debts : Amortizing(d) =>
        /\ d.handle \in DOMAIN q.repayments
        /\ Complete(q.repayments[d.handle])
        /\ d.kind = "AUTO" => d.secured \in OwnedVehicles(p)

\* A bundle readiness lets through materializes: whatever edits and resolutions led to
\* it, every handle materialize() and the engine's build look up without a guard is
\* there, nothing they refuse is left, and no loan is dropped for want of terms.
ReadyInputsMaterialize == Ready => Materializes(profile, plans)

\* A plan the program copied from the facts, and the user never changed, never runs on
\* facts that moved since: whatever edits, resolutions and re-used handles came between,
\* a ready bundle repays such a debt by its contract of now and charges the rent of now.
ReadyFollowsFacts ==
    Ready =>
        /\ \A h \in copied.debts \cap DOMAIN plans.repayments \cap Debts(profile) :
               plans.repayments[h] = TermsOf(profile, h)
        /\ copied.rent /\ Renting(profile) /\ profile.rent # None => plans.rent = profile.rent

DropsAnIncompletePlan ==
    \E h \in DOMAIN plans.repayments \ DOMAIN plans'.repayments :
        h \in Debts(profile) /\ ~Complete(TermsOf(profile, h))

\* A scenario blocked by drift alone is resolved in place (planning/gating.py): no
\* resolution leaves it waiting on the interview or raises a drift that was not there,
\* except a reset to an incomplete contract, which drops the plan.
ResolvedInPlace ==
    DriftBlocked /\ edits' = edits /\ ~DropsAnIncompletePlan =>
        /\ Ready' \/ DriftBlocked'
        /\ LoanDrift(profile, plans)' \subseteq LoanDrift(profile, plans)
        /\ RentDrift(profile, plans)' => RentDrift(profile, plans)
        /\ Compatible(profile, plans) => Compatible(profile, plans)'

ResolvingRuns == [][ResolvedInPlace]_vars
=============================================================================
