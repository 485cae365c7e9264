------------------------------- MODULE Expenses -------------------------------
(***************************************************************************)
(* The three expense tables.  Living expenses are a matrix of catalog rows  *)
(* by age spans; home expenses one of rows by properties, each cell a       *)
(* departure from the row's default; running costs one amount per car.  Each *)
(* table is seeded from the catalog over what was saved, shown, and read     *)
(* back by position.  Saved rows are functions from the rows' handles.       *)
(***************************************************************************)
EXTENDS Records

CONSTANTS LivingCatalog, HomeCatalog, VehicleCatalog   \* the curated rows, in display order

CatalogRow == {"handle", "default", "every", "domain", "calc"}
ASSUME CatalogAssumption ==
    /\ \A r \in ToSet(LivingCatalog) \cup ToSet(VehicleCatalog) : CatalogRow \subseteq DOMAIN r
    /\ \A r \in ToSet(HomeCatalog) : CatalogRow \cup {"applies", "tenantPaid"} \subseteq DOMAIN r

Saved(rows, c) == c.handle \in DOMAIN rows

KeptInterval(rows, c) ==
    IF Saved(rows, c) /\ rows[c.handle].every # None THEN rows[c.handle].every ELSE c.every
KeptCalc(rows, c) ==
    IF Saved(rows, c) THEN Or(rows[c.handle].calc, c.calc) ELSE c.calc

ByHandle(catalog, Row(_)) ==
    Together([i \in DOMAIN catalog |-> catalog[i].handle :> Row(i)])
-----------------------------------------------------------------------------
(* Living expenses. *)

\* The amounts of a row over n spans: cut, or padded with the last of them.
Aligned(amounts, default, n) ==
    [s \in 1..n |-> CASE s <= Len(amounts) -> amounts[s]
                      [] amounts = << >>   -> default
                      [] OTHER             -> Last(amounts)]

Living(q) == [i \in DOMAIN LivingCatalog |->
    LET c == LivingCatalog[i]
    IN  [handle |-> c.handle, domain |-> c.domain,
         every |-> KeptInterval(q.living, c), calc |-> KeptCalc(q.living, c),
         amounts |-> Aligned(IF Saved(q.living, c) THEN q.living[c.handle].amounts ELSE << >>,
                             c.default, Len(q.spans))]]

LivingShown(q) ==
    LET rows == Living(q) IN
    Together(
        [s \in DOMAIN q.spans |-> <<"until", s>> :> q.spans[s]]
        \o [i \in DOMAIN rows |->
               CadenceShown(<<"living", i>>, rows[i].every, rows[i].domain)
               @@ CalculatorShown(<<"living", i>>, rows[i].calc)
               @@ [k \in {<<"amount", i, s>> : s \in DOMAIN q.spans} |-> rows[i].amounts[k[3]]]])

\* The columns as they come back: one may be deleted by its index, or else the
\* open span, given an age, is split.
ColumnsRead(q, f) ==
    [s \in DOMAIN q.spans |->
        [until   |-> Cell(f, <<"until", s>>),
         amounts |-> [i \in DOMAIN LivingCatalog |-> Or(Cell(f, <<"amount", i, s>>), 0)]]]
Reshaped(columns, delete) ==
    CASE delete \in DOMAIN columns       -> RemoveAt(columns, delete)
      [] Last(columns).until # None      -> Append(columns, [Last(columns) EXCEPT !.until = None])
      [] OTHER                           -> columns
Posted(q, f) == Reshaped(ColumnsRead(q, f), Cell(f, <<"delete">>))

\* Never no column; the last is open, one without an age before it is dropped, and
\* the others are sorted by age, those of equal age in the order they stood.
OpenEnded(columns) ==
    IF columns = << >> THEN <<[until |-> None, amounts |-> [i \in DOMAIN LivingCatalog |-> 0]]>>
    ELSE [columns EXCEPT ![Len(columns)].until = None]
Sorted(columns) ==
    LET aged == {s \in DOMAIN columns : columns[s].until # None}
        Before(s, t) == columns[s].until < columns[t].until \/ (columns[s].until = columns[t].until /\ s < t)
    IN  [s \in 1..Cardinality(aged) |->
             columns[CHOOSE t \in aged : Cardinality({u \in aged : Before(u, t)}) = s - 1]]
        \o <<Last(columns)>>
Columns(q, f) == Sorted(OpenEnded(Posted(q, f)))
SpansOf(columns) == [s \in DOMAIN columns |-> columns[s].until]

LivingRowRead(f, columns, r, i) ==
    RecurringExpense([s \in DOMAIN columns |-> columns[s].amounts[i]],
                     CadenceRead(f, <<"living", i>>, r.every, r.domain), CalculatorRead(f, <<"living", i>>, r.calc))
WithColumns(q, f, columns) ==
    [q EXCEPT !.spans = SpansOf(columns),
              !.living = ByHandle(LivingCatalog, LAMBDA i : LivingRowRead(f, columns, Living(q)[i], i))]
LivingApplied(q, f) == WithColumns(q, f, Columns(q, f))

\* The pane is rendered anew only when the spans moved.
SpansChanged(q, f) == SpansOf(Columns(q, f)) # q.spans
-----------------------------------------------------------------------------
(* Home expenses. *)

\* The columns: the rented home first, then the dwellings owned, by class and handle.
RentedHome == <<"rented-home", 1>>
Dwellings == <<"RESIDENCE", "SECOND_HOME", "RENTAL">>

Owned(p, class) ==
    SortSeq(Where(p.properties, LAMBDA a : a.class = class), LAMBDA a, b : a.handle[2] < b.handle[2])
HandleList(homes) == [i \in DOMAIN homes |-> homes[i].handle]
PropertyColumns(p) ==
    (IF p.tenure = "RENT" THEN <<RentedHome>> ELSE << >>)
    \o FlattenSeq([d \in DOMAIN Dwellings |-> HandleList(Owned(p, Dwellings[d]))])
ContextOf(p, h) == IF h = RentedHome THEN "RENTED_HOME" ELSE Having(p.properties, h).class
Collapsed(p) == Len(PropertyColumns(p)) <= 1
Applies(p, c, h) == ContextOf(p, h) \in c.applies

\* What a merge keeps of the overrides, and the zero it gives every rental on a row
\* that tenants pay.
LiveOverrides(p, q, c) ==
    LET live == {h \in ToSet(PropertyColumns(p)) : Applies(p, c, h)}
        kept == IF Saved(q.home, c) THEN Keeping(q.home[c.handle].overrides, live) ELSE << >>
        zero == {h \in live \ DOMAIN kept : c.tenantPaid /\ ContextOf(p, h) = "RENTAL"}
    IN  Over(kept, [h \in zero |-> 0])

Home(p, q) == IF PropertyColumns(p) = << >> THEN << >> ELSE
    [i \in DOMAIN HomeCatalog |->
        LET c == HomeCatalog[i]
        IN  [handle |-> c.handle, domain |-> c.domain, applies |-> c.applies,
             every |-> KeptInterval(q.home, c), calc |-> KeptCalc(q.home, c),
             default |-> IF Saved(q.home, c) THEN q.home[c.handle].default ELSE c.default,
             overrides |-> LiveOverrides(p, q, c)]]

\* The rows shown are those that some property has; the others keep what they hold.
HomeRows(p, q) ==
    Where(Home(p, q), LAMBDA r : \E h \in ToSet(PropertyColumns(p)) : Applies(p, r, h))

\* With one property the default column shows what that property pays.
HomeRowShown(p, columns, r, i) ==
    LET keys == IF Collapsed(p) THEN {}
                ELSE {<<"override", i, n>> : n \in {m \in DOMAIN columns : Applies(p, r, columns[m])}}
    IN  (<<"default", i>> :> IF Collapsed(p) THEN Or(Cell(r.overrides, columns[1]), r.default) ELSE r.default)
        @@ CadenceShown(<<"home", i>>, r.every, r.domain) @@ CalculatorShown(<<"home", i>>, r.calc)
        @@ [k \in keys |-> Cell(r.overrides, columns[k[3]])]

HomeRowsShown(p, rows) == Together([i \in DOMAIN rows |-> HomeRowShown(p, PropertyColumns(p), rows[i], i)])
HomeShown(p, q) == HomeRowsShown(p, HomeRows(p, q))

\* A blank cell drops back to the default; collapsed, there are no overrides.
OverridesRead(p, columns, f, r, i) ==
    LET filled == {n \in DOMAIN columns : Applies(p, r, columns[n]) /\ Cell(f, <<"override", i, n>>) # None}
    IN  IF Collapsed(p) THEN << >>
        ELSE [h \in {columns[n] : n \in filled} |-> f[<<"override", i, CHOOSE n \in filled : columns[n] = h>>]]

HomeRowRead(p, f, r, i) ==
    PropertyExpense(Cell(f, <<"default", i>>), OverridesRead(p, PropertyColumns(p), f, r, i),
                    CadenceRead(f, <<"home", i>>, r.every, r.domain), CalculatorRead(f, <<"home", i>>, r.calc))
HomeRowsRead(p, f, rows) == ByHandle(rows, LAMBDA i : HomeRowRead(p, f, rows[i], i))

HomeRowsKept(rows) ==
    LET Kept(r) == PropertyExpense(r.default, r.overrides, r.every, r.calc)
    IN  ByHandle(rows, LAMBDA i : Kept(rows[i]))

HomeApplied(p, q, f) ==
    [q EXCEPT !.home = HomeRowsRead(p, f, HomeRows(p, q)) @@ HomeRowsKept(Home(p, q))]

\* The rent of the household's facts seeds its row, once.
WithHomeRent(q, rent) == [q EXCEPT
    !.home = IF "rent" \in DOMAIN @ THEN [@ EXCEPT !["rent"].default = rent] ELSE @,
    !.rentSnapshot = rent]
SeededHomeRent(p, q) ==
    IF q.rentSnapshot # None \/ p.tenure # "RENT" \/ p.rent = None THEN q ELSE WithHomeRent(q, p.rent)
-----------------------------------------------------------------------------
(* The running costs of a car, kept on the vehicle plan. *)

PlanHasContent(v) ==
    \/ v.fates # << >> \/ v.leases # << >> \/ v.future # << >>
    \/ \E h \in DOMAIN v.running : v.running[h].amount # None
Collapse(v) == IF PlanHasContent(v) THEN v ELSE None
VehiclePlanOf(q) == Or(q.vehicle, VehiclePlan)

Running(q) == [i \in DOMAIN VehicleCatalog |->
    LET c == VehicleCatalog[i]
        saved == VehiclePlanOf(q).running
    IN  [handle |-> c.handle, domain |-> c.domain, every |-> KeptInterval(saved, c),
         amount |-> IF Saved(saved, c) THEN saved[c.handle].amount ELSE c.default]]

RunningShown(q) == Together([i \in DOMAIN Running(q) |->
    (<<"running", i>> :> Running(q)[i].amount)
    @@ CadenceShown(<<"vehicle", i>>, Running(q)[i].every, Running(q)[i].domain)])

RunningApplied(q, f) ==
    LET rows == Running(q)
        Edited(i) == VehicleRunningCost(Cell(f, <<"running", i>>),
                                        CadenceRead(f, <<"vehicle", i>>, rows[i].every, rows[i].domain))
    IN  [q EXCEPT !.vehicle = Collapse([VehiclePlanOf(q) EXCEPT !.running = ByHandle(VehicleCatalog, Edited)])]
=============================================================================
