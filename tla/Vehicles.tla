------------------------------- MODULE Vehicles -------------------------------
(***************************************************************************)
(* The vehicle plan: what becomes of each current vehicle, owned or leased,  *)
(* on what terms its loan is repaid, and the vehicles still to be bought.     *)
(* Every editor of it shows the same terms of a purchase.                     *)
(***************************************************************************)
EXTENDS Household, Expenses, Policies

CONSTANTS TypicalPrice, TypicalYears

PurchaseShown(car) == [k \in {<<x>> : x \in PurchaseKeys} |-> car[k[1]]]
PurchaseRead(f) == [k \in PurchaseKeys |-> IF k = "method" THEN Or(Cell(f, <<k>>), "CASH") ELSE Cell(f, <<k>>)]

WithPlan(q, v) == [q EXCEPT !.vehicle = Collapse(v)]
PutFate(q, field, h, fate) ==
    LET v == VehiclePlanOf(q)
        others == Dropping(v[field], {h})
    IN  WithPlan(q, [v EXCEPT ![field] = IF fate = None THEN others ELSE others @@ (h :> fate)])
-----------------------------------------------------------------------------
(* A future vehicle. *)

MintedFuture(q) == Minted("vehicle", HandlesOf(VehiclePlanOf(q).future))

VehicleShown(q, h) ==
    IF h \in HandlesOf(VehiclePlanOf(q).future)
    THEN LET car == Having(VehiclePlanOf(q).future, h) IN (<<"on">> :> car.on) @@ PurchaseShown(car)
    ELSE (<<"on">> :> None) @@ PurchaseShown([Vehicle EXCEPT !.price = TypicalPrice, !.years = TypicalYears])

\* Nothing is stored before the date, price and years are given.
VehicleComplete(f) == Cell(f, <<"on">>) # None /\ Cell(f, <<"price">>) # None /\ Cell(f, <<"years">>) # None
VehicleValid(f) ==
    Cell(f, <<"end">>) # None /\ Cell(f, <<"on">>) # None => f[<<"end">>] >= f[<<"on">>]

VehicleApplied(q, h, f) ==
    LET v == VehiclePlanOf(q)
        car == [x \in PurchaseKeys \cup {"handle", "on"} |->
                    CASE x = "handle" -> h [] x = "on" -> f[<<"on">>] [] OTHER -> PurchaseRead(f)[x]]
    IN  IF ~VehicleComplete(f) \/ ~VehicleValid(f) THEN q
        ELSE [q EXCEPT !.vehicle = [v EXCEPT !.future = Resaved(@, car)]]

DeleteVehicle(q, h) ==
    IF q.vehicle = None THEN q
    ELSE WithPlan(q, [q.vehicle EXCEPT !.future = Removed(@, {h})])
-----------------------------------------------------------------------------
(* The fate of an owned vehicle, and the terms of its loan. *)

Financed(p, h) == \E d \in ToSet(p.debts) : d.kind = "AUTO" /\ d.secured = h
CarLoan(p, h) == CHOOSE d \in ToSet(p.debts) : d.kind = "AUTO" /\ d.secured = h

\* With a rate the page shows the payment it makes, which is not stored.
LoanTermsShown(p, q, h) ==
    LET terms == IF Financed(p, h) THEN SeededTerms(q, CarLoan(p, h)) ELSE NoTerms
        known == terms.term # None /\ terms.rate # None
    IN  (<<"months">> :> terms.term) @@ (<<"rate">> :> IF known THEN terms.rate ELSE None)
        @@ (<<"paying">> :> IF known /\ CarLoan(p, h).balance > 0
                            THEN LevelPaymentOf(CarLoan(p, h).balance, terms.rate, terms.term) ELSE None)

FateShown(p, q, h) ==
    LET fates == VehiclePlanOf(q).fates
        fate == IF h \in DOMAIN fates THEN fates[h] ELSE VehicleDisposition("KEEP", None, None)
    IN  (<<"kind">> :> fate.kind) @@ (<<"on">> :> fate.on)
        @@ PurchaseShown(Or(fate.next, Vehicle)) @@ LoanTermsShown(p, q, h)

LoanTermsApplied(p, q, h, f) ==
    LET loan == CarLoan(p, h)
        months == Cell(f, <<"months">>)
        rate == IF months = None THEN None
                ELSE ResolvedRate(Cell(f, <<"rate">>), loan.balance, Cell(f, <<"paying">>), months)
        Put(fn, value) == Dropping(fn, {loan.handle}) @@ IF rate = None THEN << >> ELSE loan.handle :> value
    IN  IF ~Financed(p, h) THEN q
        ELSE [q EXCEPT !.repayments = Put(@, LoanRepayment(rate, months)),
                       !.snapshots = Put(@, Preserved(q, loan))]

FateApplied(p, q, h, f) ==
    LET kind == f[<<"kind">>]
        fate == IF kind = "KEEP" THEN None
                ELSE VehicleDisposition(kind, Cell(f, <<"on">>), IF kind = "REPLACE" THEN PurchaseRead(f) ELSE None)
    IN  LoanTermsApplied(p, PutFate(q, "fates", h, fate), h, f)
-----------------------------------------------------------------------------
(* The fate of a lease: what follows it is paid for as its kind says. *)

SuccessorMethod == [RENEW |-> "LEASE", BUY_CASH |-> "CASH", BUY_LOAN |-> "LOAN"]

LeaseShown(q, h) ==
    LET leases == VehiclePlanOf(q).leases
        fate == IF h \in DOMAIN leases THEN leases[h]
                ELSE LeasedVehicleDisposition("RETURN", None, None, None)
    IN  (<<"kind">> :> fate.kind) @@ (<<"paying">> :> fate.paying) @@ (<<"ends">> :> fate.ends)
        @@ [PurchaseShown(Or(fate.next, Vehicle)) EXCEPT ![<<"method">>] = "CASH"]

LeaseApplied(q, h, f) ==
    LET kind == f[<<"kind">>]
        next == IF kind \in DOMAIN SuccessorMethod
                THEN [PurchaseRead(f) EXCEPT !.method = SuccessorMethod[kind]] ELSE None
        blank == kind = "RETURN" /\ Cell(f, <<"paying">>) = None /\ Cell(f, <<"ends">>) = None
    IN  PutFate(q, "leases", h,
                IF blank THEN None
                ELSE LeasedVehicleDisposition(kind, Cell(f, <<"paying">>), Cell(f, <<"ends">>), next))
=============================================================================
