---------------------------- MODULE MCBooksTable ----------------------------
(***************************************************************************)
(* A couple with two jobs, two pensions, a home and a financed car.  In the  *)
(* "settled" life they hold cash, a retirement account and two stock funds;   *)
(* in the "invested" life they also hold a third fund and bonds, and have     *)
(* dividends.  Alone, one of them has a pension and withdrawals, and later    *)
(* income from a Roth account.  Amounts are in half cents, periods are two,   *)
(* with postings on their first and last days.                              *)
(***************************************************************************)
EXTENDS BooksTable, TLC

MCSpans == << [start |-> 0, end |-> 0], [start |-> 1, end |-> 3], [start |-> 4, end |-> 6] >>

MCExpenseCatalog ==
    "groceries"    :> [class |-> "LIVING", category |-> "EVERYDAY", order |-> 10] @@
    "dining"       :> [class |-> "LIVING", category |-> "DISCRETIONARY", order |-> 20] @@
    "property-tax" :> [class |-> "PROPERTY", category |-> "TAXES_INSURANCE", order |-> 10] @@
    "insurance"    :> [class |-> "VEHICLE", category |-> "VEHICLE", order |-> 10]

Account(name, type, class, handle, owner) ==
    [name |-> name, type |-> type, class |-> class, handle |-> handle, owner |-> owner]

Holding(name, class)       == Account(name, "ASSET", class, Plain(name), None)
Income(name, class, owner) == Account(name, "REVENUE", class, None, owner)
Expense(base, class)       == Account(base, "EXPENSE", class, Plain(base), None)

CarLoan(name, cycle)     == Account(name, "LIABILITY", None,
                              VehicleAccount("vehicle-loan", "vehicle-1", cycle), None)
CarInterest(name, cycle) == Account(name, "EXPENSE", "NON_DEDUCTIBLE_INTEREST",
                              VehicleAccount("vehicle-loan-interest", "vehicle-1", cycle), None)

Possessions ==
    << Holding("cash", "CASH"), Holding("ira", "PRETAX_RETIREMENT"),
       Holding("fund-b", "STOCKS"), Holding("fund-a", "STOCKS"),
       Holding("home", "REAL_ESTATE_RESIDENCE"),
       Account("car", "ASSET", "DEPRECIATING",
               VehicleAccount("vehicle-holding", "vehicle-1", None), None),
       CarLoan("loan", None), CarLoan("next loan", 1), Account("debt", "LIABILITY", None, Plain("debt"), None) >>

Spending ==
    << Expense("dining", "LIVING"), Expense("groceries", "LIVING"),
       Account("property-tax", "EXPENSE", "SALT", Scoped("property-tax", "home"), None),
       Expense("insurance", "LIVING"), CarInterest("loan interest", None), CarInterest("next loan interest", 1),
       Account("payment", "EXPENSE", "LIVING", Plain("payment"), None),
       Account("income tax", "EXPENSE", "ORDINARY_INCOME_TAX", None, None),
       Account("state tax", "EXPENSE", "STATE_INCOME_TAX", None, None) >>

IncomeOf(s) ==
    << Income("wages of " \o s, "WAGES", s), Income("pension of " \o s, "PENSION", s),
       Income("withdrawals of " \o s, "RETIREMENT_DISTRIBUTION", s) >>

Investments == << Income("interest", "TAXABLE_INTEREST", None),
                  Income("gains", "LONG_TERM_GAINS", None) >>

Post(name, amount)      == [name |-> name, amount |-> amount, companion |-> FALSE]
PostGrowth(name, amount) == [name |-> name, amount |-> amount, companion |-> TRUE]
On(date, postings)      == [date |-> date, postings |-> postings]
Paid(date, to, from, amount) == On(date, <<Post(to, -amount), Post(from, amount)>>)

Openings ==
    [n \in 1..6 |-> Paid(0, <<"cash", "ira", "fund-b", "fund-a", "home", "car">>[n],
                         "Opening Balances", 10 * n)]
    \o << On(0, <<Post("Opening Balances", -30), Post("debt", 20), Post("loan", 10)>>) >>

Year(s) ==
    << Paid(1, "cash", "wages of " \o s, 7), Paid(3, "groceries", "cash", 3),
       Paid(4, "property-tax", "cash", 2), Paid(4, "cash", "withdrawals of " \o s, 5),
       Paid(6, "income tax", "cash", 1), Paid(2, "cash", "interest", 1),
       On(3, <<PostGrowth("fund-a", -4), Post("Unrealized Gains", 4)>>),
       On(5, <<Post("loan", -3), Post("loan interest", -1), Post("cash", 4)>>) >>

Life(subjects, assets, accounts, postings) ==
    [accounts |-> accounts, postings |-> postings,
     profile  |-> [subjects |-> subjects, leased |-> << >>, tenure |-> "OWN",
                   assets |-> [n \in DOMAIN assets |-> [handle |-> assets[n][1], class |-> assets[n][2]]]]]

Assets == << <<"fund-a", "STOCKS">>, <<"fund-b", "STOCKS">>, <<"cash", "CASH">>,
             <<"ira", "PRETAX_RETIREMENT">>, <<"home", "REAL_ESTATE_RESIDENCE">>,
             <<"vehicle-1", "DEPRECIATING">> >>

Couple == Possessions \o IncomeOf("you") \o IncomeOf("partner") \o Investments \o Spending
Alone  == Possessions \o IncomeOf("you") \o Investments \o Spending

MCLifeOf(l) ==
    CASE l = "settled"  -> Life(<<"you", "partner">>, Assets, Couple, Openings \o Year("you"))
      [] l = "invested" -> Life(<<"you", "partner">>,
                                Assets \o << <<"bonds", "BONDS">>, <<"fund-c", "STOCKS">> >>,
                                Couple \o << Holding("fund-c", "STOCKS"), Holding("bonds", "BONDS"),
                                             Income("dividends", "QUALIFIED_DIVIDENDS", None) >>,
                                Openings \o Year("partner")
                                \o << Paid(6, "cash", "dividends", 2), Paid(4, "bonds", "cash", 5) >>)
      [] l = "alone"    -> Life(<<"you">>, Assets, Alone, Openings \o Year("you"))
      [] l = "roth"     -> Life(<<"you">>, Assets,
                                Append(Alone, Income("roth income", "ROTH_EARNINGS", "you")),
                                Openings \o Year("you") \o << Paid(4, "cash", "roth income", 3) >>)
-----------------------------------------------------------------------------
(* Properties. *)

Drawings == {pages[t] : t \in Tabs} \ {None}

\* The columns of a page that carry the money of an account: those it lies under,
\* an expanded header excepted, whose members carry it.
CarriedBy(page, account) ==
    {n \in DOMAIN page.columns :
        /\ ~page.columns[n].canCollapse
        /\ \/ page.columns[n].column = account
           \/ DescendsFrom(runs[page.run].catalog, account, page.columns[n].column)}

\* Whatever was expanded, hidden, moved and captured since, the table of a run shows
\* each account of a type on show under exactly one of its columns: no money is lost
\* between the columns or counted in two of them.
EachAccountOnce ==
    \A page \in Drawings :
        LET cat == runs[page.run].catalog
        IN  \A account \in {key \in DOMAIN cat : IsAccount(key)} :
               cat[account].above[1] \in ToSet(page.view.columns)
                  => Cardinality(CarriedBy(page, account)) = 1

\* A drawn column by what it is in any run of the household: its rung, or the place
\* of its account among the accounts.
Identity(key) == IF IsAccount(key) THEN <<"account", key.uuid[2]>>
                 ELSE <<key.kind, key.type, key.path>>

\* The asset and income columns of a page, and those of the taxes paid.
KeptColumns(page) ==
    LET cat  == runs[page.run].catalog
        tree(key) == {key} \cup ToSet(cat[key].above)
        kept == SelectSeq(page.columns, LAMBDA c :
                    \E key \in tree(c.opKey) :
                          key.type \in {"ASSET", "REVENUE"} \/ key.path = << <<"", "taxes-and-fees">> >>)
    IN  [n \in DOMAIN kept |-> <<Identity(kept[n].column), kept[n].removed, kept[n].canCollapse>>]

\* Two runs of the same household are read alike through one lens: though each minted
\* its accounts anew, the same asset, income and tax columns are shown, hidden and
\* expanded when the user turns from one run's table to the other's.
ViewSurvivesRerun ==
    [][\A t \in Tabs :
          (/\ pages[t] # None /\ pages'[t] # None /\ lens' = lens
           /\ LET run == runs[pages[t].run]  rerun == runs'[pages'[t].run]
              IN  <<run.life, run.catalogRead>> = <<rerun.life, rerun.catalogRead>>)
             => KeptColumns(pages[t]) = KeptColumns(pages'[t])]_vars

\* What the pages of a run say is what the engine's live ledger said when it posted
\* the books: each type column its total or its flow, the net worth its change by
\* income, spending and equity, the journal of each account its closing balance.
SaysWhatWasPosted ==
    LET n        == Len(runs')
        run      == runs'[n]
        live     == LiveLedger(Posted(run.life, n))
        last     == Spans[Len(Spans)].end
        change(F(_), s) == F(Spans[s].end) - F(Spans[s].start - 1)
    IN  /\ \A s \in DOMAIN Spans : \A type \in ToSet(AccountTypes) :
              ColumnValue(run, TypeKey(type), s) =
                  IF type \in FlowTypes THEN TypeFlow(live, type, Spans[s].start, Spans[s].end)
                                        ELSE TypeTotal(live, type, Spans[s].end)
        /\ \A s \in DOMAIN Spans :
              change(LAMBDA d : NetWorthThrough(live, d), s) =
                  ColumnValue(run, TypeKey("REVENUE"), s) - ColumnValue(run, TypeKey("EXPENSE"), s)
                  + change(LAMBDA d : TypeTotal(live, "EQUITY", d), s)
        /\ \A i \in DOMAIN run.closing :
              run.closing[i] = IF EffectiveType(live.books.accounts, i) = "ASSET"
                               THEN MarketValue(live, i, last) ELSE NaturalBalance(live, i, last)

\* Asked of the captures made before the lens is first touched: the books of a run
\* depend on the household alone.
TableReadsTheLedger == [][(Len(runs') > Len(runs) /\ lens = None) => SaysWhatWasPosted]_vars
=============================================================================
