------------------------------- MODULE Records -------------------------------
(***************************************************************************)
(* What the panes of the interview share, and what they write.  A pane is   *)
(* shown as a function from field names to values; what comes back names    *)
(* its rows by position.  A field name is a tuple that begins with the kind *)
(* of field.  Amounts and ages are integers, and a date is a count of       *)
(* months, since every pane stores the month only.  The records are those   *)
(* of profile/schemas.py and plans/schemas.py, in the fields a pane can     *)
(* change: whatever the code keeps in a list and finds by its handle, and   *)
(* the panes never order, is a function from the handle; what an optional   *)
(* part leaves out is None.                                                 *)
(***************************************************************************)
EXTENDS Integers, Sequences, SequencesExt, FiniteSets, TLC

CONSTANTS None   \* a blank field, an absent value

Or(v, fallback) == IF v = None THEN fallback ELSE v

\* What the form read of a field: nothing when the page did not hold it.
Cell(f, key) == IF key \in DOMAIN f THEN f[key] ELSE None

Over(f, g) == g @@ f
Keeping(f, S) == [x \in DOMAIN f \cap S |-> f[x]]
Dropping(f, S) == [x \in DOMAIN f \ S |-> f[x]]
Together(fs) == FoldLeft(Over, << >>, fs)
HandlesOf(rows) == {rows[i].handle : i \in DOMAIN rows}
Having(rows, handle) == CHOOSE r \in ToSet(rows) : r.handle = handle
Where(rows, Test(_)) == SelectSeq(rows, Test)

\* The lowest number that no handle of the kind has.
Minted(kind, taken) ==
    <<kind, CHOOSE n \in 1..(Cardinality(taken) + 1) :
                /\ <<kind, n>> \notin taken
                /\ \A k \in 1..(n - 1) : <<kind, k>> \in taken>>
-----------------------------------------------------------------------------
(* Cadences: a count of units.  The domain of an expense says which units it *)
(* may be entered in; a fixed one offers none and shows no field.            *)

UnitsOf == [
    FIXED |-> << >>, WK_MO |-> <<"WEEK", "MONTH">>, MO_YR |-> <<"MONTH", "YEAR">>,
    WK_MO_YR |-> <<"WEEK", "MONTH", "YEAR">>, N_YEARS |-> <<"YEAR">>]

Editable(domain) == UnitsOf[domain] # << >>

CadenceShown(row, every, domain) ==
    IF ~Editable(domain) THEN << >>
    ELSE (<<"count">> \o row :> IF every = None THEN 1 ELSE every.count)
         @@ (<<"unit">> \o row :> IF every = None THEN UnitsOf[domain][1] ELSE every.unit)

CadenceRead(f, row, every, domain) ==
    IF ~Editable(domain) THEN every
    ELSE [count |-> Or(Cell(f, <<"count">> \o row), IF every = None THEN 1 ELSE every.count),
          unit  |-> Or(Cell(f, <<"unit">> \o row), IF every = None THEN UnitsOf[domain][1] ELSE every.unit)]

\* The optional cadence: a blank count is a plan that happens once.
OnceShown(row, every, domain) ==
    IF ~Editable(domain) THEN << >>
    ELSE (<<"count">> \o row :> IF every = None THEN None ELSE every.count)
         @@ (<<"unit">> \o row :> IF every = None THEN Last(UnitsOf[domain]) ELSE every.unit)

OnceRead(f, row, domain) ==
    IF ~Editable(domain) \/ Cell(f, <<"count">> \o row) = None THEN None
    ELSE [count |-> Cell(f, <<"count">> \o row),
          unit  |-> Or(Cell(f, <<"unit">> \o row), Last(UnitsOf[domain]))]

\* The calculator's inputs are remembered beside the amount they may have filled in.
CalculatorShown(row, calc) == IF calc = None THEN << >> ELSE <<"calc">> \o row :> calc
CalculatorRead(f, row, calc) == IF calc = None THEN None ELSE Cell(f, <<"calc">> \o row)
-----------------------------------------------------------------------------
(* A date that may be entered as an age: the page holds both fields and the  *)
(* browser keeps them in step while the user types.                          *)

AtAge(born, age) == born + 12 * age
AgeOn(born, on)  == on \div 12 - born \div 12

WhenShown(row, born, on) ==
    (<<"date">> \o row :> on)
    @@ (IF born = None THEN << >> ELSE <<"age">> \o row :> IF on = None THEN None ELSE AgeOn(born, on))

\* The date field is authoritative; the age is read only where the date is blank.
WhenRead(f, row, born) ==
    IF Cell(f, <<"date">> \o row) # None THEN f[<<"date">> \o row]
    ELSE IF Cell(f, <<"age">> \o row) # None /\ born # None THEN AtAge(born, f[<<"age">> \o row])
    ELSE None

\* Typing an age fills in its date, typing a date refreshes its age.  An emptied
\* date empties the age; an emptied age leaves the date, which then still stands.
Typed(f, key, value, born) ==
    LET row == Tail(key)
        new == [f EXCEPT ![key] = value]
    IN  CASE key[1] = "age" /\ <<"date">> \o row \in DOMAIN f /\ value # None ->
                 [new EXCEPT ![<<"date">> \o row] = AtAge(born, value)]
          [] key[1] = "date" /\ <<"age">> \o row \in DOMAIN f ->
                 [new EXCEPT ![<<"age">> \o row] = IF value = None THEN None ELSE AgeOn(born, value)]
          [] OTHER -> new
-----------------------------------------------------------------------------
(* The facts. *)

SubjectProfile(handle, born) == [handle |-> handle, born |-> born]

\* What depreciates of a rental; a holding that is an account; and one that is real estate.
PropertyProfile(acquired, basis, type) == [acquired |-> acquired, basis |-> basis, type |-> type]
AccountProfile(handle, class, owner, balance) ==
    [handle |-> handle, class |-> class, owner |-> owner, balance |-> balance]
RealEstate(handle, class, value, price, property) ==
    [handle |-> handle, class |-> class, value |-> value, price |-> price, property |-> property]

LoanTerms(rate, term, payment) == [rate |-> rate, term |-> term, payment |-> payment]
Debt(handle, kind, balance, secured, terms) ==
    [handle |-> handle, kind |-> kind, balance |-> balance, secured |-> secured, terms |-> terms]

IncomeFlow(handle, subject, taxed, amount, property) ==
    [handle |-> handle, subject |-> subject, taxed |-> taxed, amount |-> amount, property |-> property]

\* The household before any answer; pensions and benefits by person.
Profile == [
    subjects |-> << >>, tenure |-> None, rent |-> None, stateRate |-> 0,
    accounts |-> << >>, properties |-> << >>, possessions |-> << >>, cars |-> << >>, leased |-> << >>,
    debts |-> << >>, flows |-> << >>, pensions |-> << >>, government |-> << >>]
-----------------------------------------------------------------------------
(* The plans. *)

RetirementTiming == [claim |-> None, pension |-> None, lifetime |-> None]
IncomeTiming(from, until) == [from |-> from, until |-> until]

RecurringExpense(amounts, every, calc) == [amounts |-> amounts, every |-> every, calc |-> calc]
PropertyExpense(default, overrides, every, calc) ==
    [default |-> default, overrides |-> overrides, every |-> every, calc |-> calc]

\* A Contribution, a RothConversion or a Withdrawal: only the first has a source, only the
\* others may have no cadence.
RetirementMovement(handle, account, amount, every, from, until, source) ==
    [handle |-> handle, account |-> account, amount |-> amount, every |-> every,
     from |-> from, until |-> until, source |-> source]

LoanRepayment(rate, term) == [rate |-> rate, term |-> term]
CreditCardPlan(mode, monthly, target) == [mode |-> mode, monthly |-> monthly, target |-> target]

VehicleRunningCost(amount, every) == [amount |-> amount, every |-> every]

\* The terms of a purchase; its date is that of what it follows, or stands beside it.
PurchaseKeys == {"price", "years", "end", "method", "down", "monthly", "due"}
Vehicle == [k \in PurchaseKeys |-> IF k = "method" THEN "CASH" ELSE None]

VehicleDisposition(kind, on, next) == [kind |-> kind, on |-> on, next |-> next]
LeasedVehicleDisposition(kind, paying, ends, next) ==
    [kind |-> kind, paying |-> paying, ends |-> ends, next |-> next]
VehiclePlan == [running |-> << >>, fates |-> << >>, leases |-> << >>, future |-> << >>]

DrawdownPolicy(floor, ceiling, order, retained, sweep) ==
    [floor |-> floor, ceiling |-> ceiling, order |-> order, retained |-> retained, sweep |-> sweep]

PlanEvent(kind, on, at) ==
    [kind |-> kind, on |-> on, at |-> at, to |-> None, amount |-> None,
     every |-> None, until |-> None, indexed |-> TRUE, rents |-> TRUE]

\* The plans before any; a contract's terms as they were when a repayment was seeded
\* from them stand in snapshots.
Plans(movements) == [
    spans |-> <<None>>, living |-> << >>, home |-> << >>, rentSnapshot |-> None, vehicle |-> None,
    incomeTiming |-> << >>, timing |-> << >>, movements |-> [kind \in movements |-> << >>],
    cards |-> << >>, repayments |-> << >>, snapshots |-> << >>, prepayments |-> << >>,
    events |-> << >>, drawdown |-> None]
=============================================================================
