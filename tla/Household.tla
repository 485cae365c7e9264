------------------------------ MODULE Household ------------------------------
(***************************************************************************)
(* The panes about what the household owns and who it is.  Financial        *)
(* accounts, rentals and second homes, possessions and current vehicles,    *)
(* with the loans that two of them carry: a holding saved again goes to the *)
(* end of its list.  Then SubjectsForm and HomeForm of interview.py, and    *)
(* the debts that no holding secures (debts.py); a name is only there or    *)
(* not.                                                                     *)
(***************************************************************************)
EXTENDS Records

CONSTANTS
    LevelPaymentOf(_, _, _),   \* balance, rate, months: the payment, in whole dollars
    RateImplied(_, _, _),      \* balance, payment, months: the rate, or None if implausible
    TermImplied(_, _, _)       \* balance, rate, payment: the months, or None if implausible

Named == "name"

Resaved(rows, row) == Append(Where(rows, LAMBDA r : r.handle # row.handle), row)
Removed(rows, handles) == Where(rows, LAMBDA r : r.handle \notin handles)
-----------------------------------------------------------------------------
(* The terms of a loan: any two of rate, months and payment give the third.   *)

ResolvedRate(entered, balance, payment, months) ==
    CASE entered # None -> entered
      [] payment = None \/ balance = None \/ balance = 0 -> None
      [] OTHER -> RateImplied(balance, payment, months)

\* A payment that the rate and months contradict gives way to the one they make.
SolvedTerms(balance, entered, given, payment) ==
    LET rate == IF given # None THEN ResolvedRate(entered, balance, payment, given) ELSE entered
        months == IF given # None \/ rate = None \/ payment = None \/ balance = None \/ balance = 0 THEN given
                  ELSE TermImplied(balance, rate, payment)
        paid == IF balance # None /\ balance > 0 /\ rate # None /\ months # None
                THEN LevelPaymentOf(balance, rate, months) ELSE payment
    IN  IF rate = None /\ months = None /\ paid = None THEN None
        ELSE LoanTerms(rate, months, paid)

LoanKeys == {"rate", "term", "payment"}
LoanShown(loan) ==
    IF loan = None THEN <<"balance">> :> None @@ [k \in {<<x>> : x \in LoanKeys} |-> None]
    ELSE <<"balance">> :> loan.balance
         @@ [k \in {<<x>> : x \in LoanKeys} |-> IF loan.terms = None THEN None ELSE loan.terms[k[1]]]

LoanRead(f) == SolvedTerms(Cell(f, <<"balance">>), Cell(f, <<"rate">>), Cell(f, <<"term">>), Cell(f, <<"payment">>))

\* One loan per holding, under a handle made from the holding's.
LoanHandle(h) == <<"loan">> \o h
LoanOn(p, h) == LET loans == Where(p.debts, LAMBDA d : d.handle = LoanHandle(h))
                IN  IF loans = << >> THEN None ELSE loans[1]

\* No balance, no loan; a loan saved again keeps its kind.
WithLoan(p, h, kind, f) ==
    LET others == Removed(p.debts, {LoanHandle(h)})
        balance == Cell(f, <<"balance">>)
    IN  IF balance = None THEN others
        ELSE Append(others, Debt(LoanHandle(h), IF LoanOn(p, h) = None THEN kind ELSE LoanOn(p, h).kind,
                                 balance, h, LoanRead(f)))
-----------------------------------------------------------------------------
(* Financial accounts: every one is rewritten, with nothing in it when blank.  *)

TaxableAccounts == <<"CASH", "STOCKS", "DIVIDEND_STOCKS", "BONDS", "CDS">>
RetirementAccounts == <<"PRETAX", "ROTH">>
AccountHandle(class, owner) == IF owner = None THEN <<"account", class>> ELSE <<"account", class>> \o owner

AllAccounts(p) ==
    [i \in DOMAIN TaxableAccounts |-> [class |-> TaxableAccounts[i], owner |-> None]]
    \o FlattenSeq([m \in DOMAIN p.subjects |-> [i \in DOMAIN RetirementAccounts |->
           [class |-> RetirementAccounts[i], owner |-> p.subjects[m].handle]]])

\* An empty account shows as a blank.
AccountsShown(p) == Together([i \in DOMAIN AllAccounts(p) |->
    LET h == AccountHandle(AllAccounts(p)[i].class, AllAccounts(p)[i].owner)
    IN  <<"account", h>> :> IF h \in HandlesOf(p.accounts) /\ Having(p.accounts, h).balance # 0
                            THEN Having(p.accounts, h).balance ELSE None])

AccountsApplied(p, f) == [p EXCEPT !.accounts = [i \in DOMAIN AllAccounts(p) |->
    LET a == AllAccounts(p)[i]  h == AccountHandle(a.class, a.owner)
    IN  AccountProfile(h, a.class, a.owner, Or(Cell(f, <<"account", h>>), 0))]]
-----------------------------------------------------------------------------
(* Rentals and second homes. *)

MintedProperty(p) == Minted("property", HandlesOf(p.properties))

\* The type of a property chooses its class, and the depreciation of a rental.
RentalTypes == {"RENTAL_RESIDENTIAL", "RENTAL_COMMERCIAL"}
CommonFields == {<<"named">>, <<"value">>, <<"price">>}
RentalFields == {<<"basis">>, <<"acquired">>}

PropertyShown(p, h) ==
    IF h \notin HandlesOf(p.properties)
    THEN (<<"type">> :> "RENTAL_RESIDENTIAL") @@ [k \in CommonFields \cup RentalFields |-> None] @@ LoanShown(None)
    ELSE LET a == Having(p.properties, h)
             let == IF a.class = "RENTAL" /\ a.property # None THEN a.property
                    ELSE PropertyProfile(None, None, "SECOND_HOME")
         IN  (<<"type">> :> let.type) @@ (<<"named">> :> Named) @@ (<<"value">> :> a.value) @@ (<<"price">> :> a.price)
             @@ (<<"basis">> :> let.basis) @@ (<<"acquired">> :> let.acquired) @@ LoanShown(LoanOn(p, h))

PropertyComplete(f) ==
    \A k \in CommonFields \cup (IF f[<<"type">>] \in RentalTypes THEN RentalFields ELSE {}) : Cell(f, k) # None

PropertyAsset(h, f) ==
    IF f[<<"type">>] \in RentalTypes
    THEN RealEstate(h, "RENTAL", f[<<"value">>], f[<<"price">>],
                    PropertyProfile(f[<<"acquired">>], f[<<"basis">>], f[<<"type">>]))
    ELSE RealEstate(h, "SECOND_HOME", f[<<"value">>], f[<<"price">>], None)

\* A home no longer let loses its rent.
PropertyApplied(p, h, f) ==
    IF ~PropertyComplete(f) THEN p
    ELSE [p EXCEPT
        !.properties = Resaved(@, PropertyAsset(h, f)),
        !.debts = WithLoan(p, h, "MORTGAGE", f),
        !.flows = IF f[<<"type">>] \in RentalTypes THEN @ ELSE Where(@, LAMBDA w : w.property # h)]

\* A holding goes with its rent and every loan it secures.
DeleteHolding(p, h) == [p EXCEPT
    !.properties = Removed(@, {h}), !.cars = Removed(@, {h}),
    !.flows = Where(@, LAMBDA w : w.property # h),
    !.debts = Where(@, LAMBDA d : d.secured # h)]
-----------------------------------------------------------------------------
(* Possessions: a table, as that of incomes. *)

PossessionTypes == {"METALS", "COLLECTIBLES"}
PossessionsShown(p) == <<"rows">> :> [i \in DOMAIN p.possessions |->
    LET a == p.possessions[i] IN [handle |-> a.handle, named |-> Named, type |-> a.class, value |-> a.value]]

PossessionsApplied(p, f) ==
    LET rows == Cell(f, <<"rows">>)
        taken == (HandlesOf(p.possessions) \cup HandlesOf(rows)) \ {None}
        Take(built, row) ==
            LET h == IF row.handle # None THEN row.handle ELSE Minted("possession", taken \cup HandlesOf(built))
            IN  IF row.named = None \/ row.value = None \/ row.type \notin PossessionTypes THEN built
                ELSE Append(built, [handle |-> h, class |-> row.type, value |-> row.value])
    IN  [p EXCEPT !.possessions = FoldLeft(Take, << >>, rows)]
-----------------------------------------------------------------------------
(* Current vehicles, owned or leased. *)

MintedCar(p) == Minted("vehicle", HandlesOf(p.cars) \cup ToSet(p.leased))

CarShown(p, h) ==
    LET owned == h \in HandlesOf(p.cars)
        leased == h \in ToSet(p.leased)
    IN  (<<"named">> :> IF owned \/ leased THEN Named ELSE None)
        @@ (<<"ownership">> :> IF leased /\ ~owned THEN "LEASED" ELSE "OWNED")
        @@ (<<"value">> :> IF owned THEN Having(p.cars, h).value ELSE None)
        @@ LoanShown(IF owned THEN LoanOn(p, h) ELSE None)

CarComplete(f) == f[<<"named">>] # None /\ (f[<<"ownership">>] = "OWNED" => f[<<"value">>] # None)

CarApplied(p, h, f) ==
    LET unleased == Where(p.leased, LAMBDA v : v # h)
    IN  CASE ~CarComplete(f) -> p
          [] f[<<"ownership">>] = "LEASED" -> [p EXCEPT
                 !.leased = Append(unleased, h), !.cars = Removed(@, {h}),
                 !.debts = Removed(@, {LoanHandle(h)})]
          [] OTHER -> [p EXCEPT
                 !.cars = Resaved(@, [handle |-> h, value |-> f[<<"value">>]]),
                 !.debts = WithLoan(p, h, "AUTO", f), !.leased = unleased]

DeleteCar(p, h) ==
    IF h \in HandlesOf(p.cars) THEN DeleteHolding(p, h)
    ELSE [p EXCEPT !.leased = Where(@, LAMBDA v : v # h)]
-----------------------------------------------------------------------------
(* The people. *)

\* PRIMARY_SUBJECT_HANDLE and PARTNER_SUBJECT_HANDLE.
People == <<<<"subject", 1>>, <<"subject", 2>>>>

\* No state income tax shows as a blank.
SubjectsShown(p) ==
    LET known == HandlesOf(p.subjects)
    IN  (<<"stateRate">> :> IF p.stateRate = 0 THEN None ELSE p.stateRate)
        @@ Together([n \in DOMAIN People |->
              (<<"named", n>> :> IF People[n] \in known THEN Named ELSE None)
              @@ (<<"born", n>> :> IF People[n] \in known THEN Having(p.subjects, People[n]).born ELSE None)])

Entered(f, n) == f[<<"named", n>>] # None /\ f[<<"born", n>>] # None

HalfEntered(f, n) == (f[<<"named", n>>] # None) # (f[<<"born", n>>] # None)

\* A partner half entered is an error of the form; half a primary person is nobody.
SubjectsValid(f) == ~HalfEntered(f, 2)

SubjectsRead(f) ==
    LET Person(n) == SubjectProfile(People[n], f[<<"born", n>>])
    IN  IF ~Entered(f, 1) THEN << >>
        ELSE IF Entered(f, 2) THEN <<Person(1), Person(2)>> ELSE <<Person(1)>>

\* Everybody has an account of each retirement kind and nobody else has; the household
\* has one of each taxable kind.
SyncedAccounts(p) ==
    [i \in DOMAIN AllAccounts(p) |->
        LET a == AllAccounts(p)[i]  h == AccountHandle(a.class, a.owner)
        IN  IF h \in HandlesOf(p.accounts) THEN Having(p.accounts, h)
            ELSE AccountProfile(h, a.class, a.owner, 0)]

\* Income, pensions and Social Security go with the person they belong to.
OwnedByCurrent(p) ==
    LET known == HandlesOf(p.subjects)
    IN  [p EXCEPT !.flows = Where(@, LAMBDA w : w.subject = None \/ w.subject \in known),
                  !.pensions = Keeping(@, known), !.government = Keeping(@, known)]

\* The filing status is the number of people, and is not kept beside them here.
SubjectsApplied(p, f) ==
    LET new == OwnedByCurrent([p EXCEPT !.subjects = SubjectsRead(f),
                                        !.stateRate = Or(f[<<"stateRate">>], 0)])
    IN  IF SubjectsValid(f) THEN [new EXCEPT !.accounts = SyncedAccounts(new)] ELSE p
-----------------------------------------------------------------------------
(* The home. *)

Residence == <<"residence", 1>>

ResidenceShown(p) ==
    LET bought == Residence \in HandlesOf(p.properties)
    IN  (<<"tenure">> :> p.tenure) @@ (<<"rent">> :> p.rent) @@ LoanShown(LoanOn(p, Residence))
        @@ (<<"value">> :> IF bought THEN Having(p.properties, Residence).value ELSE None)
        @@ (<<"price">> :> IF bought THEN Having(p.properties, Residence).price ELSE None)

\* Only who rents has a rent; who does not own has neither home nor mortgage, and a home
\* without a value is none yet.
ResidenceApplied(p, f) ==
    LET owns == f[<<"tenure">>] = "OWN"
    IN  [p EXCEPT
            !.tenure = f[<<"tenure">>],
            !.rent = IF f[<<"tenure">>] = "RENT" THEN f[<<"rent">>] ELSE None,
            !.properties = IF owns /\ f[<<"value">>] # None
                           THEN Resaved(@, RealEstate(Residence, "RESIDENCE", f[<<"value">>], f[<<"price">>], None))
                           ELSE Removed(@, {Residence}),
            !.debts = IF owns THEN WithLoan(p, Residence, "MORTGAGE", f)
                      ELSE Removed(@, {LoanHandle(Residence)})]
-----------------------------------------------------------------------------
(* Debts that no other pane enters. *)

CanonicalElsewhere == {"MORTGAGE", "AUTO"}
OwnDebts(p) == HandlesOf(Where(p.debts, LAMBDA d : d.kind \notin CanonicalElsewhere))

MintedDebt(p) == Minted("debt", HandlesOf(p.debts))

DebtShown(p, h) ==
    IF h \notin OwnDebts(p) THEN (<<"kind">> :> None) @@ (<<"named">> :> None) @@ LoanShown(None)
    ELSE (<<"kind">> :> Having(p.debts, h).kind) @@ (<<"named">> :> Named) @@ LoanShown(Having(p.debts, h))

DebtComplete(f) == \A k \in {<<"kind">>, <<"named">>, <<"balance">>} : f[k] # None

\* A card has no terms; a mortgage or a car loan is not rewritten from here.
DebtApplied(p, h, f) ==
    LET held == Where(p.debts, LAMBDA d : d.handle = h)
    IN  IF ~DebtComplete(f) \/ \E d \in ToSet(held) : d.kind \in CanonicalElsewhere THEN p
        ELSE [p EXCEPT !.debts = Resaved(@,
                Debt(h, f[<<"kind">>], f[<<"balance">>], IF held = << >> THEN None ELSE held[1].secured,
                     IF f[<<"kind">>] = "CARD" THEN None ELSE LoanRead(f)))]

DeleteDebt(p, h) == [p EXCEPT !.debts = Removed(@, {h})]
=============================================================================
