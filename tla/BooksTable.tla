----------------------------- MODULE BooksTable -----------------------------
(***************************************************************************)
(* The drill-down table over the books of a captured run, and the lens the    *)
(* user sees it through: accounts/books_table.py, planning/books_table.py and  *)
(* the run pages of planning/views.py.                                         *)
(*                                                                          *)
(* The lens is one per session: the columns on show in order, those hidden     *)
(* and the empty ones kept visible.  It outlives a run.  Each page fits it to  *)
(* the books of its own run, an operation on a page is applied to that fit     *)
(* and saved, and the page is drawn again.  A new run mints every account      *)
(* anew, so a column keyed by an account is gone from the next run's table;    *)
(* a rung of the display hierarchy keeps its key.                              *)
(*                                                                          *)
(* A key is a record: "derived", "type" and "class" keys are the same in every *)
(* run, an "account" key holds the account's uuid.  A catalog maps a key to    *)
(* its column: the parent, the members in order and the keys above, top first. *)
(***************************************************************************)
EXTENDS DisplayPlacement

CONSTANTS
    Tabs,           \* the browser tabs of the session
    Lives,          \* the states of the household a run may be captured in
    LifeOf(_),      \* LifeOf(l): its accounts, its postings, its profile
    Unread,         \* the lives in which the expense catalog may fail to be read
    Spans,          \* the periods of a run's table, the opening one first
    Worked,         \* the account types whose columns the user works on
    MaxRuns, MaxOperations   \* bounds on the captures and on the column operations

VARIABLES
    lens,           \* the session's stored lens, or None
    runs,           \* the captured runs: what their books offer and say
    pages,          \* pages[t]: the run a tab shows, the lens fitted to it, the columns drawn
    operations      \* column operations so far

vars == <<lens, runs, pages, operations>>

TypeKey(type)       == [kind |-> "type", type |-> type, path |-> << >>, uuid |-> None]
ClassKey(type, p)   == [kind |-> "class", type |-> type, path |-> p, uuid |-> None]
AccountKey(uuid)    == [kind |-> "account", type |-> None, path |-> << >>, uuid |-> uuid]
NetWorthKey         == [kind |-> "derived", type |-> None, path |-> << >>, uuid |-> None]

HasClasses(type)  == type \in {"ASSET", "REVENUE", "EXPENSE"}
Suppressed        == {"EQUITY"}        \* from the default view
FALLBACK_ORDER    == 1000000           \* in lockstep with UNMAPPED_ORDER
-----------------------------------------------------------------------------
(* The catalog of a books. *)

\* Every account but the roots and the valuation companions.
Displayable(b, type) ==
    SelectSeq(AccountsOf(b, type),
              LAMBDA i : b.accounts[i].parent # 0 /\ ~b.accounts[i].valuation)

\* The stamped placement, else one rung named by the engine class, else none.
PlacementOf(account) ==
    CASE account.placement # None -> account.placement
      [] account.placement = None /\ account.class # None ->
            [path |-> <<Rung(<<"", account.class>>, FALLBACK_ORDER)>>, order |-> FALLBACK_ORDER]
      [] OTHER -> [path |-> << >>, order |-> FALLBACK_ORDER]

\* The columns met on the way down to one account, each with the keys above it.
Descent(type, account) ==
    LET placement  == PlacementOf(account)
        n          == Len(placement.path)
        group(d)   == ClassKey(type, [k \in 1..d |-> placement.path[k].key])
        above(d)   == <<TypeKey(type)>> \o [k \in 1..d |-> group(k)]
    IN  Append([d \in 1..n |-> [key |-> group(d), order |-> placement.path[d].order,
                                above |-> above(d - 1)]],
               [key |-> AccountKey(account.uuid), order |-> placement.order, above |-> above(n)])

TypeColumns(b, type) ==
    LET shown == SelectSeq(Displayable(b, type),
                           LAMBDA i : HasClasses(type) => PlacementOf(b.accounts[i]).path # << >>)
    IN  <<[key |-> TypeKey(type), order |-> 0, above |-> << >>]>>
        \o FlattenSeq([n \in DOMAIN shown |-> Descent(type, b.accounts[shown[n]])])

\* BooksTableColumnCatalog.build: a rung is created when first met; the members of
\* a column are in placement order, and among equals in the order first met.
Catalog(b) ==
    LET met      == Listed(<<[key |-> NetWorthKey, order |-> 0, above |-> << >>]>>
                           \o FlattenSeq([n \in DOMAIN AccountTypes |->
                                            TypeColumns(b, AccountTypes[n])]))
        firsts   == {n \in DOMAIN met : \A m \in 1..n - 1 : met[m].key # met[n].key}
        parent(n) == IF met[n].above = << >> THEN None ELSE Last(met[n].above)
        rank(n)  == met[n].order * Len(met) + n
        members(key) == InOrder({n \in firsts : parent(n) = key}, rank)
        columnOf(key) ==
            LET n == CHOOSE n \in firsts : met[n].key = key
            IN  [parent |-> parent(n), above |-> met[n].above,
                 members |-> LET m == members(key) IN Listed([k \in DOMAIN m |-> met[m[k]].key])]
    IN  [key \in {met[n].key : n \in firsts} |-> columnOf(key)] @@ << >>

IsSummary(key)  == key.kind \in {"type", "class"}
IsAccount(key)  == key.kind = "account"
Offers(cat, key)              == key \in DOMAIN cat
DescendsFrom(cat, key, above) == Offers(cat, key) /\ above \in ToSet(cat[key].above)
Members(cat, key)             == ToSet(cat[key].members)
\* _account_leaf_keys.
LeavesUnder(cat, key) == IF ~IsSummary(key) THEN {key}
                         ELSE {k \in DOMAIN cat : IsAccount(k) /\ DescendsFrom(cat, k, key)}
-----------------------------------------------------------------------------
(* The lens. *)

Definition(columns, removed, revealed) ==
    [columns |-> columns, removed |-> removed, revealed |-> revealed]

DefaultDefinition ==
    Definition(<<NetWorthKey>> \o
               SelectSeq([n \in DOMAIN AccountTypes |-> TypeKey(AccountTypes[n])],
                         LAMBDA key : key.type \notin Suppressed), {}, {})

\* _subtree_block: one past the last of the descendants that follow a column.
BlockStart(columns, key) == CHOOSE n \in DOMAIN columns : columns[n] = key
BlockEnd(cat, columns, key) ==
    LET start == BlockStart(columns, key)
    IN  Min({n \in start + 1 .. Len(columns) + 1 :
               n = Len(columns) + 1 \/ ~DescendsFrom(cat, columns[n], key)})

Spliced(columns, at, keys) ==
    SubSeq(columns, 1, at - 1) \o keys \o SubSeq(columns, at, Len(columns))

\* _reveal_newcomers: under each summary with a member on show, the members that
\* were not, collapsed at the tail of its group.
RevealNewcomers(cat, kept) ==
    FoldLeft(LAMBDA columns, key :
        LET newcomers == IF ~IsSummary(key) \/ Members(cat, key) \cap ToSet(kept) = {} THEN << >>
                         ELSE SelectSeq(cat[key].members, LAMBDA m : m \notin ToSet(kept))
        IN  Spliced(columns, BlockEnd(cat, columns, key), newcomers),
        kept, kept)

\* BooksTableDefinition.adapt: what this run does not offer is dropped; nothing
\* left is the default view; what appeared under an expanded summary is revealed.
Adapt(cat, d) ==
    LET kept == SelectSeq(d.columns, LAMBDA key : Offers(cat, key))
    IN  IF kept = << >> THEN DefaultDefinition
        ELSE Definition(RevealNewcomers(cat, kept),
                        {key \in d.removed : Offers(cat, key)},
                        {key \in d.revealed : Offers(cat, key)})

\* _present_anchor: the key itself if it is on show, else the nearest above it that is.
PresentAnchor(cat, columns, key) ==
    LET chain   == Append(cat[key].above, key)
        present == {n \in DOMAIN chain : chain[n] \in ToSet(columns)}
    IN  IF present = {} THEN None ELSE chain[Max(present)]

Expand(cat, d, key) ==
    LET members == SelectSeq(cat[key].members, LAMBDA m : m \notin ToSet(d.columns))
        anchor  == PresentAnchor(cat, d.columns, key)
    IN  IF key \in d.removed \/ ~IsSummary(key) \/ members = << >> \/ anchor = None THEN d
        ELSE [d EXCEPT !.columns = Spliced(@, BlockStart(@, anchor) + 1, members)]

\* Mutant of Collapse: the members go, what is drilled below them stays.
CollapseOneLevel(cat, d, key) ==
    IF ~IsSummary(key) THEN d
    ELSE [d EXCEPT !.columns = SelectSeq(@, LAMBDA k : k \notin Members(cat, key)),
                   !.removed = {k \in @ : k \notin Members(cat, key)}]

Collapse(cat, d, key) ==
    IF ~IsSummary(key) THEN d
    ELSE [d EXCEPT !.columns = SelectSeq(@, LAMBDA k : ~DescendsFrom(cat, k, key)),
                   !.removed = {k \in @ : ~DescendsFrom(cat, k, key)}]

\* Removing a summary folds its group first: one sliver, not one for each member.
RemoveColumn(cat, d, key) ==
    IF key \notin ToSet(d.columns) \/ key \in d.removed THEN d
    ELSE [Collapse(cat, d, key) EXCEPT !.removed = @ \cup {key}]

Restore(d, key) == [d EXCEPT !.removed = @ \ {key}]
Reveal(d, key)  == [d EXCEPT !.revealed = @ \cup {key}]

\* The frontier columns under the same parent, in order.
Siblings(cat, columns, key) ==
    SelectSeq(columns, LAMBDA k : Offers(cat, k) /\ cat[k].parent = cat[key].parent)

\* move: a column and its block trade places with the sibling next to it and its block.
Move(cat, d, key, offset) ==
    LET columns  == d.columns
        siblings == Siblings(cat, columns, key)
        target   == (CHOOSE n \in DOMAIN siblings : siblings[n] = key) + offset
        left     == siblings[IF offset < 0 THEN target ELSE target - 1]
        right    == siblings[IF offset < 0 THEN target + 1 ELSE target]
        l == BlockStart(columns, left)    lEnd == BlockEnd(cat, columns, left)
        r == BlockStart(columns, right)   rEnd == BlockEnd(cat, columns, right)
    IN  IF key \notin ToSet(columns) \/ target \notin DOMAIN siblings THEN d
        ELSE [d EXCEPT !.columns =
                SubSeq(@, 1, l - 1) \o SubSeq(@, r, rEnd - 1) \o SubSeq(@, lEnd, r - 1)
                \o SubSeq(@, l, lEnd - 1) \o SubSeq(@, rEnd, Len(@))]

\* planning/books_table.py _operate.
Operate(cat, d, op, key) ==
    CASE op = "expand"     -> Expand(cat, d, key)
      [] op = "collapse"   -> Collapse(cat, d, key)
      [] op = "remove"     -> RemoveColumn(cat, d, key)
      [] op = "restore"    -> Restore(d, key)
      [] op = "reveal"     -> Reveal(d, key)
      [] op = "move_left"  -> Move(cat, d, key, -1)
      [] op = "move_right" -> Move(cat, d, key, 1)
-----------------------------------------------------------------------------
(* The drawn table. *)

\* _compressible: a rung below the type with one member says nothing of its own.
Compressible(cat, key) ==
    IsSummary(key) /\ Len(cat[key].members) = 1 /\ cat[key].parent # None

\* _chain_bottom: down the rungs with one member, to a leaf or a rung that branches.
ChainBottom(cat, key) ==
    LET bottom[k \in DOMAIN cat] == IF Compressible(cat, k) THEN bottom[Head(cat[k].members)]
                                    ELSE k
    IN  bottom[key]

Shown(d) == ToSet(d.columns) \ d.removed

\* _absorbed: a shown one-member parent already stands for this column.
Absorbed(cat, d, key) ==
    cat[key].parent # None /\ cat[key].parent \in Shown(d) /\ Compressible(cat, cat[key].parent)

\* An account without a figure of half a cent in any period is hidden until revealed.
Hidden(run, d, key, terminal) ==
    /\ key \notin d.removed
    /\ IsAccount(terminal)
    /\ key \notin d.revealed
    /\ \A s \in DOMAIN Spans : run.figures[terminal][s] = 0

\* One column as drawn, with the controls its header offers.
DrawnColumn(run, d, key) ==
    LET cat      == run.catalog
        removed  == key \in d.removed
        terminal == IF removed THEN key ELSE ChainBottom(cat, key)
        expanded == IsSummary(terminal) /\ Members(cat, terminal) \cap ToSet(d.columns) # {}
        siblings == Siblings(cat, d.columns, key)
    IN  [column       |-> terminal,
         opKey        |-> key,
         removed      |-> removed,
         empty        |-> Hidden(run, d, key, terminal),
         canExpand    |-> ~removed /\ IsSummary(terminal) /\ cat[terminal].members # << >>
                                   /\ ~expanded,
         canCollapse  |-> ~removed /\ expanded,
         canMoveLeft  |-> siblings # << >> /\ Head(siblings) # key,
         canMoveRight |-> siblings # << >> /\ Last(siblings) # key]

\* _render_columns: the frontier, each chain once.  d is fitted to the run.
Drawn(run, d) ==
    LET kept == SelectSeq(d.columns, LAMBDA key :
                             key \in d.removed \/ ~Absorbed(run.catalog, d, key))
    IN  [n \in DOMAIN kept |-> DrawnColumn(run, d, kept[n])]

\* The requests the header of a column can make (run_books_table.html).
Controls(c) ==
    CASE c.removed -> {[op |-> "restore", key |-> c.column]}
      [] c.empty   -> {[op |-> "reveal", key |-> c.opKey]}
      [] OTHER     -> {[op |-> op, key |-> IF op = "expand" THEN c.column ELSE c.opKey] :
                          op \in {"remove"}
                                 \cup (IF c.canExpand    THEN {"expand"}     ELSE {})
                                 \cup (IF c.canCollapse  THEN {"collapse"}   ELSE {})
                                 \cup (IF c.canMoveLeft  THEN {"move_left"}  ELSE {})
                                 \cup (IF c.canMoveRight THEN {"move_right"} ELSE {})}
-----------------------------------------------------------------------------
(* What a captured run says. *)

\* _cell_value: what one leaf says of one period.
CellValue(l, key, i, span) ==
    LET type == EffectiveType(l.books.accounts, i)
    IN  CASE key = NetWorthKey    -> NetWorthThrough(l, span.end)
          [] type \in FlowTypes   -> NaturalFlow(l, i, span.start, span.end)
          [] type = "ASSET"       -> MarketValue(l, i, span.end)
          [] OTHER                -> NaturalBalance(l, i, span.end)

Figures(b, cat) ==
    LET l        == SnapshotLedger(b)
        leaves   == {key \in DOMAIN cat : ~IsSummary(key)}
        position(key) == IF key = NetWorthKey THEN 1
                         ELSE CHOOSE i \in DOMAIN b.accounts : b.accounts[i].uuid = key.uuid
    IN  [key \in leaves |-> [s \in DOMAIN Spans |-> CellValue(l, key, position(key), Spans[s])]]
        @@ << >>

\* _column_value: a rollup is the sum over the accounts beneath it.
ColumnValue(run, key, s) ==
    MapThenSumSet(LAMBDA leaf : run.figures[leaf][s], LeavesUnder(run.catalog, key))

\* The books a household comes to: its accounts on the standard chart, then its postings.
Posted(l, run) ==
    LET life    == LifeOf(l)
        charted == FoldLeft(CreateAccount, StandardChart(run), life.accounts)
        sideOf(p) == [account |-> IF p.companion THEN ValuationOf(charted, AccountNamed(charted, p.name))
                                  ELSE AccountNamed(charted, p.name), amount |-> p.amount]
    IN  FoldLeft(LAMBDA b, t : Record(b, t.date, [n \in DOMAIN t.postings |-> sideOf(t.postings[n])]),
                 charted, life.postings)

\* The keys the tables have used before a run is saved: a new run's go on from there.
RowsBefore(run) == 1000 * (run - 1)

\* A run as its pages read it back: books saved, loaded, catalogued and measured.
Captured(l, run, catalogRead) ==
    LET stamped == StampDisplayPlacements(Posted(l, run), LifeOf(l).profile, catalogRead)
        books   == Load(Save(stamped, RowsBefore(run)))
        catalog == Catalog(books)
    IN  [life |-> l, catalogRead |-> catalogRead, catalog |-> catalog,
         figures |-> Figures(books, catalog),
         closing |-> [i \in {i \in DOMAIN books.accounts : ~books.accounts[i].valuation} |->
                        LET balances == JournalBalances(books, i)
                        IN  IF balances = << >> THEN 0 ELSE Last(balances)]]
-----------------------------------------------------------------------------
(* Actions. *)

Init ==
    /\ lens = None
    /\ runs = << >>
    /\ pages = [t \in Tabs |-> None]
    /\ operations = 0

\* _current_definition: the stored lens, or the default view, fitted to a run.
CurrentDefinition(stored, cat) ==
    Adapt(cat, IF stored = None THEN DefaultDefinition ELSE stored)

\* A forecast of the household as it now is; its books are stamped and saved.
Capture(l, catalogRead) ==
    /\ Len(runs) < MaxRuns
    /\ runs' = Append(runs, Captured(l, Len(runs) + 1, catalogRead))
    /\ UNCHANGED <<lens, pages, operations>>

\* _fragment_context: the page of a run, drawn through a definition fitted to it.
Page(i, d) == [run |-> i, view |-> d, columns |-> Drawn(runs[i], d)]

\* run_books_table_context: drawing a table leaves the stored lens alone.
ViewRun(t, i) ==
    /\ pages' = [pages EXCEPT ![t] = Page(i, CurrentDefinition(lens, runs[i].catalog))]
    /\ UNCHANGED <<lens, runs, operations>>

\* The user works on the columns of some types; the others stay as they are.
WorkedOn(cat, key) ==
    \/ IsSummary(key) /\ key.type \in Worked
    \/ \E type \in Worked : DescendsFrom(cat, key, TypeKey(type))

\* apply_run_books_operation: a control of the drawn page, on the lens as it is now.
OperateOnColumn(t) ==
    /\ operations < MaxOperations
    /\ pages[t] # None
    /\ LET i   == pages[t].run
           cat == runs[i].catalog
       IN  \E n \in DOMAIN pages[t].columns : \E c \in Controls(pages[t].columns[n]) :
              /\ WorkedOn(cat, c.key)
              /\ LET d == Operate(cat, CurrentDefinition(lens, cat), c.op, c.key)
                 IN  /\ lens' = d
                     /\ pages' = [pages EXCEPT ![t] = Page(i, d)]
    /\ operations' = operations + 1
    /\ UNCHANGED runs

Next ==
    \/ \E l \in Lives : Capture(l, TRUE)
    \/ \E l \in Unread : Capture(l, FALSE)
    \/ \E t \in Tabs, i \in DOMAIN runs : ViewRun(t, i)
    \/ \E t \in Tabs : OperateOnColumn(t)

Spec == Init /\ [][Next]_vars
=============================================================================
