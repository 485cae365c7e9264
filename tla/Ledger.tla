------------------------------- MODULE Ledger -------------------------------
(***************************************************************************)
(* The books of account as the program keeps, stores and reads them:         *)
(* accounts/books.py and bookkeeper.py (a tree of accounts and balanced       *)
(* transactions), repository.py (the rows they are saved in and rebuilt       *)
(* from), chart.py (the structure), ledger.py (balances, live and from a      *)
(* cumulative index) and journal.py (entries in order).                       *)
(*                                                                          *)
(* An account is named by its position in books.accounts; its parent is a     *)
(* position too, 0 for a root.  The three class taxonomies are one field: an   *)
(* account has the taxonomy of its type.  An amount is credit-positive, as    *)
(* Entry.signed_amount is.                                                    *)
(***************************************************************************)
EXTENDS Integers, SequencesExt, FiniteSetsExt

CONSTANT None       \* Python's None

AccountTypes == <<"ASSET", "LIABILITY", "EQUITY", "REVENUE", "EXPENSE">>
DebitNormal  == {"ASSET", "EXPENSE"}            \* AccountType.normal_side
FlowTypes    == {"REVENUE", "EXPENSE"}

Summed(s) == FoldLeft(+, 0, s)
Positions(s) == [n \in 1..Len(s) |-> n]

\* The same sequence, each element worked out once and kept.
Listed(s) == s \o << >>

\* The members of S by a number each has of its own.
InOrder(S, Key(_)) ==
    Listed([n \in 1..Cardinality(S) |->
              CHOOSE x \in S : Cardinality({y \in S : Key(y) <= Key(x)}) = n])
-----------------------------------------------------------------------------
(* The chart: building it, and finding one's way in it. *)

\* The type of an account: its own for a root, else that of its root.
EffectiveType(accounts, i) ==
    LET typeOf[k \in 1..i] == IF accounts[k].parent = 0 THEN accounts[k].type
                              ELSE typeOf[accounts[k].parent]
    IN  typeOf[i]

\* A set of books never posted to; run tells the uuids of one capture from another's.
EmptyBooks(run) == [run |-> run, accounts |-> << >>, txns |-> << >>]

\* An account minted under `parent` with an identity of its own.
Minted(b, name, parent) ==
    [name |-> name, uuid |-> <<b.run, Len(b.accounts) + 1>>, parent |-> parent,
     type |-> None, class |-> None, valuation |-> FALSE, handle |-> None,
     owner |-> None, placement |-> None]

AddAccount(b, account) == [b EXCEPT !.accounts = Append(@, account)]

\* Account._assert_valid_structure: a root declares its type, another inherits it,
\* and a class is set on assets, income and expenses only.
WellStructured(accounts, i) ==
    /\ (accounts[i].parent = 0) <=> (accounts[i].type # None)
    /\ accounts[i].class # None =>
          /\ accounts[i].parent # 0
          /\ EffectiveType(accounts, i) \in {"ASSET", "REVENUE", "EXPENSE"}

RootOf(type) == CHOOSE n \in DOMAIN AccountTypes : AccountTypes[n] = type

SystemAccounts ==
    << <<"Opening Balances", "EQUITY">>,        <<"Unrealized Gains", "EQUITY">>,
       <<"External Receipts", "EQUITY">>,       <<"External Disbursements", "EQUITY">>,
       <<"Deferred Tax Reserve", "EQUITY">>,    <<"Taxes Payable", "LIABILITY">>,
       <<"Estimated Future Taxes", "LIABILITY">> >>

\* Bookkeeper.build_standard_chart: a root per type, then the system accounts.
StandardChart(run) ==
    LET rooted == FoldLeft(LAMBDA b, type :
                              AddAccount(b, [Minted(b, type, 0) EXCEPT !.type = type]),
                           EmptyBooks(run), AccountTypes)
    IN  FoldLeft(LAMBDA b, s : AddAccount(b, Minted(b, s[1], RootOf(s[2]))),
                 rooted, SystemAccounts)

NonAppreciating == {"CASH", "CDS"}

\* An account of the household, described by [name, type, class, handle, owner]:
\* Bookkeeper.create_holding for an asset, whose class may call for a valuation
\* companion; a plain account under the root of its type otherwise.
CreateAccount(b, d) ==
    LET here  == Len(b.accounts) + 1
        added == AddAccount(b, [Minted(b, d.name, RootOf(d.type)) EXCEPT
                                  !.class = d.class, !.handle = d.handle, !.owner = d.owner])
    IN  IF d.type = "ASSET" /\ d.class # None /\ d.class \notin NonAppreciating
        THEN AddAccount(added, [Minted(added, d.name, here) EXCEPT !.valuation = TRUE])
        ELSE added

AccountNamed(b, name) ==
    CHOOSE i \in DOMAIN b.accounts : b.accounts[i].name = name /\ ~b.accounts[i].valuation

\* Chart.valuation_of: the valuation companion of a holding, or None.
ValuationOf(b, i) ==
    IF \E k \in DOMAIN b.accounts : b.accounts[k].parent = i /\ b.accounts[k].valuation
    THEN CHOOSE k \in DOMAIN b.accounts : b.accounts[k].parent = i /\ b.accounts[k].valuation
    ELSE None

\* Chart.accounts of one type, in account order.
AccountsOf(b, type) ==
    SelectSeq(Positions(b.accounts), LAMBDA i : EffectiveType(b.accounts, i) = type)
-----------------------------------------------------------------------------
(* Posting. *)

SignedAmount(entry) == IF entry.side = "CREDIT" THEN entry.amount ELSE -entry.amount

\* Bookkeeper.record: the postings that move something become entries of one
\* transaction, which is held only if it balances (it raises otherwise).
Record(b, date, postings) ==
    LET moving  == SelectSeq(postings, LAMBDA p : p.amount # 0)
        entries == Listed([n \in DOMAIN moving |->
                      [account |-> moving[n].account,
                       amount  |-> IF moving[n].amount > 0 THEN moving[n].amount
                                                           ELSE -moving[n].amount,
                       side    |-> IF moving[n].amount > 0 THEN "CREDIT" ELSE "DEBIT"]])
    IN  IF Summed([n \in DOMAIN entries |-> SignedAmount(entries[n])]) # 0 THEN b
        ELSE [b EXCEPT !.txns = Append(@, [date |-> date, entries |-> entries,
                                           uuid |-> <<b.run, Len(@) + 1>>])]

\* Bookkeeper.postings: what one account took part in, in posting order.
Postings(b, i) ==
    LET its == SelectSeq(b.txns, LAMBDA t : \E n \in DOMAIN t.entries : t.entries[n].account = i)
    IN  FlattenSeq([t \in DOMAIN its |->
            LET own == SelectSeq(its[t].entries, LAMBDA e : e.account = i)
            IN  [n \in DOMAIN own |-> [date |-> its[t].date, signed |-> SignedAmount(own[n])]]])
-----------------------------------------------------------------------------
(* The rows: BooksOfAccountRepository. *)

\* save: an account row per account, parents first, with the primary key of its
\* parent; then the transactions; then the entries, each with the key of its
\* transaction read back by uuid.  Keys go on from whatever was stored before.
Save(b, used) ==
    LET keyOf(i)    == used + i
        txnKey(n)   == used + n
        txnRows     == {[id |-> txnKey(n), uuid |-> b.txns[n].uuid, date |-> b.txns[n].date] :
                           n \in DOMAIN b.txns}
        idOfUuid(u) == (CHOOSE row \in txnRows : row.uuid = u).id
    IN  [run      |-> b.run,
         accounts |-> {[id |-> keyOf(i),
                        parent |-> IF b.accounts[i].parent = 0 THEN None
                                   ELSE keyOf(b.accounts[i].parent),
                        account |-> b.accounts[i]] : i \in DOMAIN b.accounts},
         txns     |-> txnRows,
         entries  |-> UNION {{[txn |-> idOfUuid(b.txns[n].uuid), line |-> k,
                               account |-> keyOf(b.txns[n].entries[k].account),
                               amount |-> b.txns[n].entries[k].amount,
                               side |-> b.txns[n].entries[k].side] :
                                  k \in DOMAIN b.txns[n].entries} : n \in DOMAIN b.txns}]

\* load: the accounts rebuilt from their rows, each pointing at its rebuilt parent,
\* and every transaction with the entries that carry its key.
Load(rows) ==
    LET accountRows  == InOrder(rows.accounts, LAMBDA row : row.id)
        txnRows      == InOrder(rows.txns, LAMBDA row : row.id)
        positionOf(id) == CHOOSE i \in DOMAIN accountRows : accountRows[i].id = id
        entriesOf(id) == InOrder({e \in rows.entries : e.txn = id}, LAMBDA e : e.line)
    IN  [run      |-> rows.run,
         accounts |-> Listed([i \in DOMAIN accountRows |->
                         [accountRows[i].account EXCEPT
                            !.parent = IF accountRows[i].parent = None THEN 0
                                       ELSE positionOf(accountRows[i].parent)]]),
         txns     |-> Listed([n \in DOMAIN txnRows |->
                         LET lines == entriesOf(txnRows[n].id)
                         IN  [date |-> txnRows[n].date, uuid |-> txnRows[n].uuid,
                              entries |-> Listed([k \in DOMAIN lines |->
                                             [account |-> positionOf(lines[k].account),
                                              amount |-> lines[k].amount,
                                              side |-> lines[k].side]])]])]
-----------------------------------------------------------------------------
(* Balances.  A ledger is a view over books: the live one rescans the postings  *)
(* of an account, the snapshot one searches an index built from them once.      *)

\* SnapshotLedger._cumulative: the posting dates in order, and the balance through each.
Cumulative(b, i) ==
    LET postings == Postings(b, i)
        sorted   == SortSeq(postings, LAMBDA p, q : p.date < q.date)
    IN  [dates  |-> [n \in DOMAIN sorted |-> sorted[n].date],
         prefix |-> [n \in DOMAIN sorted |->
                       Summed([k \in 1..n |-> sorted[k].signed])]]

LiveLedger(b)     == [books |-> b, index |-> None]
SnapshotLedger(b) == [books |-> b, index |-> [i \in DOMAIN b.accounts |-> Cumulative(b, i)]]

\* SnapshotLedger._prefix_through: the balance at a boundary, with the postings
\* dated exactly there or without.
PrefixThrough(index, boundary, inclusive) ==
    LET cut == Cardinality({n \in DOMAIN index.dates :
                              index.dates[n] < boundary
                                 \/ (inclusive /\ index.dates[n] = boundary)})
    IN  IF cut > 0 THEN index.prefix[cut] ELSE 0

\* Credit-positive balance through a date, that day included.
SignedBalance(l, i, through) ==
    IF l.index # None THEN PrefixThrough(l.index[i], through, TRUE)
    ELSE LET held == SelectSeq(Postings(l.books, i), LAMBDA p : p.date <= through)
         IN  Summed([n \in DOMAIN held |-> held[n].signed])

\* Mutant of Flows: a posting dated on the first day of the window is left out.
FlowsAfterTheStart(l, i, start, end) ==
    PrefixThrough(Cumulative(l.books, i), end, TRUE)
        - PrefixThrough(Cumulative(l.books, i), start, TRUE)

\* Credit-positive movement within a window, both ends included.
Flows(l, i, start, end) ==
    IF l.index # None
    THEN PrefixThrough(l.index[i], end, TRUE) - PrefixThrough(l.index[i], start, FALSE)
    ELSE LET held == SelectSeq(Postings(l.books, i), LAMBDA p : start <= p.date /\ p.date <= end)
         IN  Summed([n \in DOMAIN held |-> held[n].signed])

Natural(l, i, signed) ==
    IF EffectiveType(l.books.accounts, i) \in DebitNormal THEN -signed ELSE signed

NaturalBalance(l, i, through)  == Natural(l, i, SignedBalance(l, i, through))
NaturalFlow(l, i, start, end)  == Natural(l, i, Flows(l, i, start, end))

\* Cost and accumulated appreciation.
MarketValue(l, i, through) ==
    LET valuation == ValuationOf(l.books, i)
    IN  NaturalBalance(l, i, through)
        + (IF valuation = None THEN 0 ELSE NaturalBalance(l, valuation, through))

Over(l, type, F(_)) ==
    LET held == AccountsOf(l.books, type) IN Summed([n \in DOMAIN held |-> F(held[n])])

TypeTotal(l, type, through)   == Over(l, type, LAMBDA i : NaturalBalance(l, i, through))
TypeFlow(l, type, start, end) == Over(l, type, LAMBDA i : NaturalFlow(l, i, start, end))

NetWorthThrough(l, through) ==
    TypeTotal(l, "ASSET", through) - TypeTotal(l, "LIABILITY", through)
-----------------------------------------------------------------------------
(* The journal of an account, its valuation companion's entries folded in. *)
JournalBalances(b, i) ==
    LET own     == {i} \cup ({ValuationOf(b, i)} \ {None})
        ordered == SortSeq(b.txns, LAMBDA s, t : s.date < t.date)
        lines   == FlattenSeq([t \in DOMAIN ordered |->
                      SelectSeq(ordered[t].entries, LAMBDA e : e.account \in own)])
        running(n) == Summed([k \in 1..n |-> SignedAmount(lines[k])])
    IN  [n \in DOMAIN lines |-> IF EffectiveType(b.accounts, i) \in DebitNormal
                                THEN -running(n) ELSE running(n)]
=============================================================================
