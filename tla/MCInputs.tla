------------------------------ MODULE MCInputs ------------------------------
(***************************************************************************)
(* Three settled households: a couple that rents, a landlord and a debtor.  *)
(***************************************************************************)
EXTENDS Inputs, TLC

Low        == [rate |-> 4, term |-> 10]
High       == [rate |-> 5, term |-> 10]
Unfinished == [rate |-> 4, term |-> None]
MCContracts == {Low, High, Unfinished}

One == (Primary :> TRUE)
Nothing == [contributions |-> {}, conversions |-> {}, withdrawals |-> {}, prepayments |-> {},
            cards |-> {}, overrides |-> {}, dispositions |-> {}, leases |-> {}]
NoLoans == [h \in {} |-> None]
FirstProperty == <<"property", 1>>
FirstVehicle  == <<"vehicle", 1>>
FirstDebt     == <<"debt", 1>>

Event(kind, at, to) == [kind |-> kind, at |-> at, to |-> to]

Couple == [
    profile |-> [
        subjects |-> {Primary, Partner}, assets |-> SyncedAccounts({Primary, Partner}),
        debts |-> {}, leased |-> {},
        flows |-> {[subject |-> Partner, property |-> None]},
        pensions |-> {Partner}, entitled |-> {Partner}, tenure |-> "RENT", rent |-> 1],
    plans |-> [
        timing |-> (Primary :> FALSE) @@ (Partner :> TRUE),
        named |-> [Nothing EXCEPT !.contributions = {Roth(Partner)}],
        repayments |-> NoLoans, snapshots |-> NoLoans,
        events |-> {Event("TRANSFER", Roth(Partner), Cash), Event("TRANSFER", PreTax(Primary), Cash)},
        rent |-> 1, rentSnapshot |-> 1],
    seen |-> TRUE]

Landlord == [
    profile |-> [
        subjects |-> {Primary},
        assets |-> SyncedAccounts({Primary}) \cup
            {Held(Residence, "RESIDENCE"), Held(FirstProperty, "RENTAL")},
        debts |-> {Owed(LoanOn(FirstProperty), "MORTGAGE", FirstProperty, Low)}, leased |-> {},
        flows |-> {[subject |-> None, property |-> FirstProperty]},
        pensions |-> {}, entitled |-> {}, tenure |-> "OWN", rent |-> None],
    plans |-> [
        timing |-> One,
        named |-> [Nothing EXCEPT !.overrides = {FirstProperty}, !.prepayments = {LoanOn(FirstProperty)}],
        repayments |-> (LoanOn(FirstProperty) :> Low), snapshots |-> (LoanOn(FirstProperty) :> Low),
        events |-> {Event("SELL_PROPERTY", FirstProperty, None)},
        rent |-> CatalogRent, rentSnapshot |-> None],
    seen |-> TRUE]

Debtor == [
    profile |-> [
        subjects |-> {Primary},
        assets |-> SyncedAccounts({Primary}) \cup {Held(FirstVehicle, "VEHICLE")},
        debts |-> {Owed(FirstDebt, "LOAN", None, Low), Owed(LoanOn(FirstVehicle), "AUTO", FirstVehicle, Low)},
        leased |-> {}, flows |-> {}, pensions |-> {}, entitled |-> {},
        tenure |-> "NEITHER", rent |-> None],
    plans |-> [
        timing |-> One, named |-> [Nothing EXCEPT !.dispositions = {FirstVehicle}],
        repayments |-> (FirstDebt :> Low) @@ (LoanOn(FirstVehicle) :> Low),
        snapshots |-> (FirstDebt :> Low) @@ (LoanOn(FirstVehicle) :> Low),
        events |-> {}, rent |-> None, rentSnapshot |-> None],
    seen |-> FALSE]

MCHouseholds == {Couple, Landlord, Debtor}
=============================================================================
