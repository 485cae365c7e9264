# Verification of Landfall (`ucfp`)

TLA+ models of the forecaster's engine and of the application around it, the TLC
configurations that check them on small instances, and TLAPS proofs of the theorems that
matter most. `PROJECT.json` lists the runs, the mutants each property is tried against,
and, under `map`, the source lines every definition stands for.

Landfall is a Django application. A person (a guest until they confirm an email) works in a
household (`Organization`), describes it through an interview, and asks for projections. A
projection turns the inputs into parameters, walks the forecast interval by interval over
double-entry books, and stores the books with the run. Requests run on the threads of one
server against one database (MySQL in the cloud, SQLite self-hosted), without a transaction
around a request.

## 1. Inventory

| component (source) | state | operations | interacts with | hard behaviour | what makes it correct |
|---|---|---|---|---|---|
| Period (`ucfp/period`) | none of its own: the running books, this interval's parameters | `compute`: accrue, settle and fund, close, seventeen phases in a fixed order | posts to the bookkeeper, reads the ledger through dates, asks the tax engine | what each phase reads has been changed by those before it; rounding; one code path for every granularity | tax of the right year, a thorough waterfall, nothing left of what is sold, no income untaxed |
| Accounts (`ucfp/accounts`) | accounts, transactions, a posting index | record, realize, balances and flows through a date, snapshot index, store and reload | everything financial | rounding of shares and gains, a posting dated in the past | the books balance; a realization conserves value; the snapshot answers as the ledger does |
| Forecast driver (`ucfp/forecast`) | the running books, working copies of the streams, the carried tax state | build the baseline, resolve an interval, run, react to a sale | builds a period per interval | what is carried from one interval to the next; loans and streams that start or end inside one | the walk covers the frame; a loan pays off exactly; a sold property stops costing |
| Contribution limits (`period.py`, `forecast.py`) | what the year's transactions show | scale the lines of an interval | period, fiscal window | year-to-date read back from the books | never above a limit, never clamped below it |
| Tax law (`ucfp/jurisdiction`) | statutory tables; a carried tax state | assess, estimate, withhold, force, penalize | called by the period | phase-outs, thresholds, carry-overs | monotone, non-negative, same at every granularity |
| Organization (`organization`) | organizations, memberships, invitations | invite, accept, leave, promote, demote, delete, delete account, provision | sign-in, every view | concurrent requests, guards that read before they write, locks and deadlocks | an organization retains an owner |
| Reconciliation (`ucfp/onboarding`) | memberships | keep the guest's work, or the account's | organization, sign-in | requests of the two identities at once | what was to be kept is kept, by the right user |
| Sign-in (`user`) | session code, cooldown, throttle; pending and verified email | attach, send, check, promote, merge | session, organization | a late code, two tabs, a counter in a session | a code proves the address it was sent to |
| Exploration (`ucfp/inputs/scenarios`) | sandbox copies of plans and assumptions, the anchor | enter, tweak, save, branch, revert | planning runs, session | read outside the transaction, several tabs | what is saved is what was explored |
| Interview (`ucfp/inputs/interview.py`, `views.py`) | monthly profile records, plans and assumptions sets, the acknowledged sections of each; the session's target | walk the sections, save a pane, compose, copy, pair, delete scenarios | session, every form | a page kept over the end of a month, two tabs, what a section saves besides its own set | history stays; what is acknowledged is what was shown and saved |
| Forms (`ucfp/inputs/*.py`) | none: rows rebuilt from facts, plans and the post | open, type, add, remove, split, save | interview | positions and generated handles that shift under a page | only what was typed changes |
| Inputs (`ucfp/inputs/compatibility.py`, `state.py`) | plans copied from facts | readiness, drift, reconciliation | exploration, planning | stale inputs, dangling references | no plan refers to what the profile has dropped |
| Planning (`ucfp/planning`) | run records, a cache of run books | run and capture, gate, compare, display | forecast, accounts | not atomic capture, bounded cache under threads | a run has its books; the cache keeps its bound |
| Session state (`session_state.py`) | one document per session | read at start, rewrite whole | every view | last writer wins | no change of a request is undone by another |
| Background, common (`background`, `common`) | lock rows, timers, singletons, counters | acquire, release, schedule, initialize, count | startup | expiry and takeover, rollback, two kinds of lock | one holder, one load, no lost trigger |
| Calculators, notify, settings, templates | none, or configuration | pages and pure functions | - | - | not modelled, see section 8 |

`PROJECT.json` lists the hazards of each at its line.

## 2. Modules

| module | models | built on |
|---|---|---|
| `Money` | the money scale and its two roundings (`money_utils.py`) | |
| `Dates` | recurrences, spans, windows, schedules on a calendar of half months | |
| `Loans` | level payments, payoff schedules, the loan solver, in exact fractions | `Money` |
| `Books` | the books as a record of balances; postings, realization, seeding (`bookkeeper.py`, `ledger.py`, `enums.py`, `events.py`) | `Money` |
| `Period` | `Period.compute` phase by phase inside `Forecast.run` | `Books` |
| `Contributions` | the annual limits over the walk of the years | `Money` |
| `Forecast` | the driver: spans, loans, streams, items, moves, purchases, the reaction to a sale, retitling, the return | `Dates`, `Loans` |
| `Materialization` | facts and plans into the parameters of a forecast | `Dates`, `Loans` |
| `Projection` | a materialized plan walked by the driver, and what the plan promised | `Forecast`, `Materialization` |
| `TaxLaw` | the federal return of one year, with its carryovers | `Money` |
| `SocialSecurity` | claiming, spousal and survivor benefits, the weighting of the calculator | `Money`, `Dates` |
| `Claiming` | the claiming calculator: its horizons, one forecast and what it books by year, forecasts weighted over the years of death, strategies valued and compared, the drill-in's parts (`calculators/ss_timing`) | `SocialSecurity` |
| `TaxYears` | consecutive returns of a couple, the carried tax state, a death, an indexed law | `Claiming`, `TaxLaw` |
| `Organization` | membership, account deletion, provisioning, reconciliation | |
| `Workspace` | Explore: the sandbox, saving, running, keeping and pruning, as concurrent requests that may die | |
| `RunShelf` | what the planning layer promises of captured runs (abstract) | |
| `Inputs` | the forms over facts and plans, drift, reconciliation, readiness | |
| `Interview` | the records behind the interview: monthly profiles, sets, acknowledgments, scenarios, and the session that says which are edited | |
| `Records` | what a field, a row, a table and a grid of a page do with what is posted, and a blank record for each dataclass of the profile and the plans | |
| `Expenses`, `Incomes`, `Household`, `Policies`, `Vehicles` | the panes by subject: what each shows of facts and plans, and what it makes of a post | `Records` |
| `Forms` | one person with a page open on one pane of a section: open, type, add, remove, dismiss, go to the next section | the pane modules |
| `Ledger` | chart, live ledger, snapshot ledger, journal, storage of the books | |
| `DisplayPlacement` | where an account of a run is shown, as the inputs group it | `Ledger` |
| `BooksTable` | the drill-down table of a run and the lens that outlives a run | `DisplayPlacement` |
| `MoneyProofs` | lemmas on rounding, and on sums over finite sets | `Money` |
| `PeriodProofs` | lemmas on the operators, type correctness; thoroughness of the waterfall, nothing oversold; the tax accounts over the years; the books balance; the annual limits | `Books`, `Period`, `Contributions`, `MoneyProofs` |
| `ForecastProofs` | spans, sales and returns, loans and their cycles, charges and tenures over the walk: the proofs | `Forecast`, `MoneyProofs` |
| `TaxYearProofs` | capital losses, suspended losses and recapture over the years, a survivor's check: the proofs | `TaxYears`, `MoneyProofs` |
| `InterviewProofs` | completed months are history, reviews are of their month; builds edit their scenario, what is reviewed is recorded: the proofs | `Interview` |
| `OrganizationProofs` | a household keeps an owner: the proof | `Organization` |
| `InputsProofs` | drift, readiness and materialization: the proofs | `Inputs` |
| `WorkspaceProofs` | the sandbox stays whole, the runs implement `RunShelf`: the proofs | `Workspace` |
| `MC...` | the instances TLC checks | |

### Money and Books

Money is an integer count of the smallest unit (the source's Decimals are quantized to five
places); an amount off the scale is a fraction, and `Quantize` and `RoundUp` are the only
two ways back. Cash bounds are inflated by the source without rounding, so they are in parts
`1/Frac` of a unit.

A books value has one natural balance per account group that some property tells apart: cost and
valuation of every holding, the loan secured by it, taxes payable, estimated future taxes,
the equity accounts, wages, other income, expenses, withheld employment tax, other tax. Each
operator is a balanced transaction or a few, and takes and returns a books value, so that a
phase of the period is written as what it does to the books. `CostSold` carries the three
basis rules (pro rata, basis first, face value); a realization takes at most the market
value, and a gain leaves unrealized for realized.

### Period

One action per phase of `compute`, or one per iteration where the source loops over accounts,
lines or sources: what an iteration reads is what those before it posted. `phase` and `i` say
where in `compute` the interval is. Two copies of the books stand for dated reads: `opening`,
a balance through the day before the interval, and `yearOpen`, one through the last day of
the previous tax year; every posting of an interval is dated inside it. `prepaid` is the sum the
source finds back by the memo of its transactions; `assessed` and `sold` are what the period
reports. `OpenPeriod` resolves an interval from `PeriodInputs`; `Close` stops the forecast
on negative cash or at the end of the frame.

The interval's position in the tax year is `clock`: a granularity that divides the year, and
the position `sub`, from which quarter ends and the payment date (April 15) follow by
arithmetic. A frame may start anywhere in a tax year; a year it does not hold whole is not
assessed and not prepaid.

The tax engine is external: a flat rate on the year's income, another on wages, a credit, a
penalty, an estimate and the forced distributions as inputs of the interval. No property
depends on the shape of the tax, only on which income and which year it is taken of.

### Contributions

The walk of two tax years in which only the amounts of contribution lines are followed: what
`_contribution_cap_factors` reads back of the year, how it scales the group of lines of one
owner and one limit, and what a build rejects. The grouping, the scaling and the reading back
are the code's; the postings themselves are in `Period`.

### Organization

Every statement that reads or writes is a step, because another request can run in between.
A statement reads what is committed and what its own transaction has written; the guard
(`_assert_another_active_owner_exists`) locks the organization's row until the transaction
ends; a deletion locks the row it deletes; the database aborts one transaction of a cycle of
waiting ones. `tx[r]` holds what request `r` has in its hands: the memberships as loaded
(`seen`, which the guard trusts), the loop (`todo`), and what it has deleted and not yet
committed (`gone`, `left`). Atomic requests that take no decision between two statements
(creation of an organization, the two reconciliations) write in one step, after the step that
reads.

### Dates, Loans, Forecast

A date is a number of half months, so that it knows its month and year and whether it is
the first of a month, which is all the engine's date arithmetic tells apart. A rate is a fraction
per month and a level payment a fraction that is never rounded; what is booked of it is.

`Forecast` is the loop of `Forecast.run` with the `Period` seen from outside: it books the terms
and the lines it is given, may sell a property to fund cash, settles a full year, and may
deplete. `OpenInterval` is everything the driver resolves before a period is computed: loans
amortized over the months of the span, streams and items charged by recurrence, timing and
window, recurring moves and purchases, the titles as of the day; `ComputeInterval` is what the period
does of it, `CloseInterval` what the driver does with what the period reports: above all the
re-windowing of what depends on a sold property. The granularity is drawn at the start, so that one run compares the same plan
walked by month, by quarter and by year.

### Materialization and Projection

`Materialization` is `planning/materialization.py` with what the events and the vehicle plan
contribute: each operator is one section of the materializer (people, incomes, expenses, leases,
mortgages, cards, vehicles and their replacements, property sales). A handle is a sequence of
words whose prefix is the handle it is derived from. `CardCap` bounds the months a card's schedule
may take. Left out: opening values and holdings, interest and tax classes, and a second sale of
one possession (`Forecast` too reports the first of a property alone, `FirstSale`).

`Projection` gives the materialized plan to `Forecast` and compares what was charged with what
the plan says, computed anew from facts and plans.

### TaxLaw, SocialSecurity, TaxYears

`TaxLaw` is the engine's return: netting of gains with the carryover, passive losses with the
allowance and their release on a sale, depreciation and unrecaptured gain, benefits taxable by
the provisional income, deductions, the brackets, the stacked rates, employment tax, the premium
credit, penalties, required distributions and the filing status after a death. `SocialSecurity` is the
schedule and the couple's benefits on a date; `Claiming` is the calculator over them: for each choice
of claiming ages it runs a forecast (`Run`), over certain lives or one for each pair of years of death, and
adds them up by weight; the drill-in is one forecast of the representative lives. `TaxYears` walks consecutive
years: the law projected to the year, the year's income drawn from a small set, the return, and what
`TaxState` threads to the next. Left out: state tables, Medicare premiums, the worksheet pages; the
life table is a small one.

### Workspace and RunShelf

A request is a program of database round trips kept in `req[r]`; each is an action, a block under
`transaction.atomic` is one, and a worker may die between any two (`Die`). `db` is what is
committed, `cache` the process's bounded cache of run books, `session` what the browser's session
remembers. Which jobs overlap is `Rounds`: any one, then two at once, then any again, so that what
a race leaves behind is used. Abstractions: the two reads of `load_scenario` are one step, so are a
run record and its result; the session is written with the response, and not at all by a
request that fails; labels, curation and renaming are left out.

`RunShelf` has no request, row or cache: a run is captured with its figures, may be kept, and
goes only when it was picked for removal; what is shown of it is what was captured. `Workspace`
implements it (`ImplementsShelf`) by a mapping of rows to roles, of the pending deletions of all
requests to `doomed`, and of the recorded figures to `shelf`.

### Inputs

Facts and plans as sets of records named by handles, one disjunct per form, each with the
whole of its `apply` and what saving reconciles; the run surfaces resolve drift (`Reconcile`,
`ResetLoan`, `KeepLoan`, `ResetRent`, `KeepRent`) from pages that may be stale; `Ready` is
readiness, `Materializes` what the materializer and the engine look up or refuse. `copied` is history: which
plans were copied from the facts by the program and not edited since. Amounts, names, dates, income
windows, the sweep, possessions and vehicle running costs are left out.

### Interview

`db` holds the profile records by month, the plans and assumptions sets with what is acknowledged on
each, and the scenarios that pair them; `session` the sets the browser edits and the scenario being
built; `req[q]` a request that has read and not yet written. A view of a section (`ViewSection`, then
`ShowSection`) and a post of one (`SubmitSection`, then `Advance` for Next or `SavePane` for a pane that
saves itself) are each two steps: what is read, through the session as it was when the request
started, and what is saved of it; other requests run in between. Any page may be posted in any month. Every
section is an element of `Sections`, with the records its Next and its pane save, and what they seed.
Entering a flow, following an edit link (the flow it redirects to is a request of its own), composing,
copying, pairing and deleting a scenario are one step each; entering a plans or assumptions flow outside a build
changes nothing and is left out.
`mixed` and `strayed` are history: the sets saved from readings another request had overtaken, and whether an
edit link has been followed out of the build in progress. Contents are reduced to
what decides: of a profile its people and its housing, of a set the sections that recorded something;
names, renames, the blockers of a walked set, read-only members and the example organization are left
out.

### Forms

`Forms` is one person, one household and one browser page. `Open` shows a pane or an editor (`Shown`);
every change of a field or a row posts the whole pane (`Post`), and `Posting` is what the view makes of
it; the page is drawn anew only where rows may have come or gone (`Lines`), so what it holds may be older
than what is stored. A person half entered is not posted (`PairMidEntry`); a partner or a loan is
dismissed as a whole (`Dismiss`). Lists beside an editor remove holdings and events under it, which
`page.gone` remembers. `Sections` says which section shows a pane: shown for the first time, a section on
spending stores its defaults (`Presented`); Next (`Advance`) stores it and leads on along `Flows`, past sections
that do not apply. `Records` holds what fields, tables and grids do with blanks, defaults and unchanged values; a
pane module has, for each form class, the operator that reads its fields out of facts and plans and the
one that puts a post back, with whatever else the form writes (an event beside a plan, timing beside an
income). `Policies` ends with the catalog of event kinds, their offers and their forms. Amounts are a few values;
names and labels are constants; validation is modelled where it decides what is saved. What the browser fills
into other fields before it posts is left out but for ages and dates: the missing term of a loan, which the
server solves again (`SolvedTerms`), a state's typical rate, a vehicle's financing.

### Ledger, DisplayPlacement, BooksTable

`Ledger` holds books as sequences of accounts and transactions, the two ledgers that answer
from them, and the rows they are stored in and rebuilt from. `DisplayPlacement` computes the path
of rungs of every account from the inputs. `BooksTable` is the table: each column operation is an
action of a tab on the page it shows, with the lens fitted to that page's run and stored for the
session. Abstractions: the order of accounts after a load is that of their keys; a session update lost
to a concurrent request is not modelled; tints, depth and wording are left out.

## 3. Runs

| run | instance | result |
|---|---|---|
| `period` | six holdings, five intervals to draw from, yearly and quarterly, four years or six quarters, 1.16 million states | holds |
| `contributions` | two owners, three accounts, all steady pairs of contributions of three amounts and three windows, 21,833 states | holds |
| `forecast` | one household with some fifty flows, 30 months by month, quarter and year, a funding sale of either property at any interval, 63 thousand states | holds |
| `taxyears` | a couple of 69 and 63, two rentals, four years, 15,832 states | holds |
| `organization` | six users, four first households, three requests, 83,774 states | holds |
| `workspace` | two scenarios over shared assumptions, seventeen jobs, five rounds of which one is two at once, one death, 1.68 million states | holds |
| `inputs` | three settled households, three forms, drift resolved at any time, 378,457 states | holds |
| `table` | two captures of a household in two lives, three column operations, 15 thousand states | holds |
| `interview` | a new household, one that lacks one section, one settled a month ago with two scenarios over shared assumptions; three requests, two in flight; two months pass; 498,987 states | holds |
| `forms` | a couple with two properties, two vehicles, loans and a card, and a tenant with little; two changes anywhere and the sections around them; 29,836 states | holds |
| `contributions_moved` | one account after another | `WithinLimit` violated |
| `organization_newcomer` | account deletion and a first request | `OwnerRetained` violated |

What the passing runs show:

- `period`. The books balance after every step, roundings included (`BooksBalance`); after the waterfall cash is at the floor or nothing is left to sell (`FundedOrExhausted`);
  the tax payable never mixes two years (`PayableIsThisYearsAccrual`), and the withholding comes to the
  year's employment tax at any granularity (`WithholdingFollowsTheYear`); all of a full year's income
  is assessed (`NoIncomeLeftUntaxed`); no mixture of events, forced distributions and draws oversells a holding or overpays a loan;
  the first payments of a loan, posted before its origination is, stay within what it is about to borrow
  (`NeverOversold`).
- `contributions`. Where no line of a limit stops within a tax year in which another of its owner's
  and that limit goes on (`Steady`), a year stays within it (`WithinLimit`), whatever else goes into
  the accounts. The rounding of shares may exceed a limit by half a unit per line.
- `forecast`. Whatever the length of the intervals, a loan amortizes along one schedule
  (`AmortizesAlike`), recurring vehicle loans owe exactly the cycle running (`OneCycleOwed`), each
  flow is charged as often and as much by any boundary (`ChargedAlike`). Leases and tenancies hand over without a gap
  (`TenureCovered`), a card planned to be paid down is, and nothing is charged after
  (`CardsClear`), one car follows the other (`OneCarAtATime`). A sale stops what the property costs
  from its own date and never makes it cost more (`SoldPropertyCostsNoMore`), and its depreciation is
  recaptured on one return (`RecapturedOnce`).
- `taxyears`. A capital loss is used or carried, once, over any number of years
  (`LossesUsedOnce`); a suspended passive loss is released with its rental and not before
  (`SuspendedReleased`); what recapture taxes is the depreciation that was claimable
  (`RecaptureIsDepreciation`); a household whose income only keeps up with the projection never
  owes less, in the money of the base year, whether the law is indexed or frozen
  (`IndexingNeverCutsRealTax`); where both claimed at 62 or later, a survivor's own check is never below
  what it would be had the other lived (`WidowhoodNeverLowersTheCheck`); the value the calculator gives a
  choice of claiming ages, weighted over the ages of death, is the weighted sum of what the household
  is paid month by month, each discounted to the end of the horizon (`CalculatorAddsUp`).
- `organization`. However the members leave at the same time, every organization that a
  reconciliation did not orphan on purpose has an owner (`OwnerRetained`), and every request ends
  (`RequestsAnswered`: refused guards and aborted transactions let go of their locks).
- `workspace`. With the races of section 7 set aside, two overlapping requests and a death leave
  an exploration with both of its working copies (`SandboxWhole`), runs of one comparison made
  from one profile (`PileIsComparable`), a saved scenario holding what was in the sandbox
  (`SaveLeavesTheAnchor`), and the shelf implemented.
- `inputs`. What readiness admits materializes without a dangling reference
  (`ReadyInputsMaterialize`), and follows the facts it was copied from (`ReadyFollowsFacts`);
  resolving drift on a run surface leaves nothing that blocks the run (`ResolvingRuns`).
- `table`. Through any column operations and a second capture, every account stands in exactly
  one leaf (`EachAccountOnce`), the lens shows the rungs of the second run as it showed the
  first's (`ViewSurvivesRerun`), and the figures are those of the live ledger
  (`TableReadsTheLedger`).

- `interview`. A completed month is history, whatever is posted later and from however old a page
  (`SnapshotsAreHistory`); in a profile with a month behind it, a section that ages counts as
  reviewed only if it was presented in that month or later (`ReviewedInItsMonth`); while a scenario is
  built its own sets are the ones edited, whichever tab wrote the session last, unless an edit link was
  followed out of the build and no flow entered since (`strayed`, `BuildEditsItsScenario`); an acknowledged spending section is never empty, unless two saves of one
  set overlapped (`AcknowledgedIsRecorded`).
- `forms`. A change on a page changes, in facts and plans, what was typed and what is declared to
  follow from it, and nothing else, though rows are named by position and handles are minted; being shown a
  section, and leaving it, stores defaults and changes nothing that was decided (`OnlyTheTypedRowChanges`); a payoff is scheduled as an event exactly where a plan of its card or loan
  asks for it (`PayoffsMirrorPlans`).

What the violated ones show is quoted under `findings` in `PROJECT.json`: a contribution limit that
misses what went to another account of the same owner; an organization left ownerless by the cascade
of a user's deletion.

### Bounds, and why they are enough

`period`: each class behaviour that the code branches on has a holding: pro-rata with yield
(brokerage), face value (cd), zero basis (ira), basis first (roth), whole sale with a loan
(home), and one that the waterfall passes by (car, underwater). The five intervals are a year
that sweeps, one that draws, one that sells the house and depletes, one with every kind of
event, and one that finances a car and pays on it at once; any sequence of them is walked. Four years let a payable be carried and paid twice and a
partial year stand at either end; six quarters hold a whole tax year wherever the frame begins.
Amounts are two digits long so that every rounding bites (rates with odd denominators). Two
granularities are enough to compare: one interval with all four quarter ends, and one each.

`contributions`: two lines are enough for a group to be shared or split, three accounts of two
owners for two accounts of one owner and one of another, two years for the reset and for
growth past a limit.

`forecast`: thirty months hold two whole tax years and a part of one, several loan cycles
(`AutoTerm` is four months), and a yearly interval with starts, ends and a sale inside it. The
household has one flow per way the materializer makes one; three variants add the events. The
frame is walked once per granularity and choice of sale.

`taxyears`: four years let a loss be carried past one year, a rental be sold in any of them, and
a death change the filing status two years later; one couple claims before 62, where a survivor's check does
fall, one in the middle of a month. `Rounding` is what the roundings of one return
may add up to. The calculator is tried at claiming ages 62, 65 and 68 against a life table with deaths at a
few ages up to 71, which hold a death before, between and after the claims; growth factors are whole, so
that values are exact.

`workspace`: two requests at once are what a browser with two tabs makes; the rounds before bring
the workspace into each of its states, those after use what the pair left. One cached run and two
retained ones make both bounds bite. A second death adds no new order of statements.

`inputs`: three forms reach a handle removed, minted again and referred to by a plan that was not
there when it was removed; one minted handle of each kind is what makes it the same handle. `table`: two captures
are what the lens can be carried between; an operation of each kind on a group, a member and a
removed column takes three.

`interview`: two requests in flight are two tabs; the third is there to use what they left. Two months make a
page two months old, a profile with a month behind it and a second advance. One section of each kind
the code tells apart: of the profile with a pane that edits the plans too, of profile and plans, seeded,
conditional and seeded, of the plans with a pane that edits the profile, of the assumptions and folded from others. Requests are
interchangeable, and the run uses it (`SYMMETRY`).

`forms`: one change makes the page older than what is stored, the second is posted from it. Two
properties, vehicles, people and events are what positions can be confused among; a page is left for
another only after steps that remove or add something, or Next, after which only the section it led to is
opened (`LeftAfter`, `Open`). Rates are whole percents and loan
terms at most three months, so that the exact fractions of the loan solver stay small.

`organization`: the guard relates two owners; a third request is there to make, undo or observe.
Two shared households are needed for a deadlock of two account deletions. Requests come from
lists of plans as sorted choices, since which of equal requests is which does not matter.
Workloads in which somebody becomes an owner while on the way out are excluded from the
passing run: the guard of `delete` asks the membership as loaded and that of `save` the row before
the lock, so neither is reached (a hazard of its own, listed); `organization_newcomer` is the
variant of it that needs no administrator.

Bounds inside guards: `MaxOrganizations`, `LastPeriod`, `MaxDeaths`, `MaxEdits`, `MaxMinted`,
`MaxRuns`, `MaxOperations`, `MaxRequests`, `MaxMonths`, and the length of `Rounds`.

### Fairness

`Period`: weak fairness of the step of `run`, which is a synchronous loop; none of the
properties needs it. `Organization`: weak fairness of each request: each runs on a thread of its own
and the server does not stop one. A request that waits for a row gets it or is aborted,
because no request keeps a lock after its answer, which is what `RequestsAnswered` checks. The other
modules state no fairness: `Forecast` and `TaxYears` are loops of known length, `Workspace` lets a
worker die, and in `Inputs`, `Interview`, `Forms` and `BooksTable` every step is a user's.

Deadlock is not checked where the program really may stop: `MCContributions` (the walk ends with
the last year), `MCOrganization`, `MCWorkspace` and `MCInterview` (the requests end), `MCInputs`,
`MCForms` and `MCBooksTable` (the user stops at the bound). `Forecast` and `TaxYears` end in an explicit stutter.

## 4. Proofs

`TypeCorrect` (`PeriodProofs`): `Spec => []TypeOK`, for any set of holdings,
classes, rates, granularities and inputs. Its first part states what each operator on the books
returns; the step lemma has one step per phase. The invariant is inductive as it stands.

`BooksAlwaysBalance` (`PeriodProofs`): `Spec => []BooksBalance`, inductive together with `TypeOK`. The balance is
a sum over the holdings, so the proof starts from what a sum over a finite set does (`MoneyProofs`): it is defined, it adds, and
it moves with the one number that moves. The fold it is written with is unfolded to its recursive function, and
what needs induction is proved from a smallest counterexample, which the well-foundedness of the naturals provides: the
induction theorems themselves are of no use here (below). `Excess` is what the debit side has more than the credit
side; each operation keeps it, or, for one side of a posting, changes it by the amount (`ReceiveCounts`), so that what is
composed of them keeps it, whatever is rounded to whatever amount. Only the sweep depends on how it rounds: each
holding gets the rise of a rounded running target over its band. Taking the parts of the whole one by one, each part belongs to
exactly one band (`OneBand`), so after k parts the portions add up to the rounded k parts of the surplus (`PartsTaken`),
and after all of them to the surplus, which is not rounded. `SeedBalances` shows that seeding balances for any holdings,
which is what `HouseholdAssumption` asks of the opening books.

`WaterfallIsThorough` (`PeriodProofs`): `Spec => []FundedOrExhausted`. It is not inductive:
while the waterfall runs nothing is funded yet. The inductive invariant
adds `Visited`: in phase `fund`, cash has reached the floor or every source before `i`
in the draw priority is exhausted. Three facts carry the step. A draw never refills a
source: no operator of the waterfall raises a market value. A partial draw is rounded up, so
either it covers the shortfall or it takes the whole holding. A property sale may lower cash
below the floor again, and then the sources before it were already exhausted, for the sale
happened only because cash was short. After the waterfall, penalties and assessment move
no cash, and the sweep takes at most the rounded surplus above the ceiling, which is not below
the floor.

`NothingIsOversold` (`PeriodProofs`): `Spec => []NeverOversold`. A sale or a draw is capped by the holding it reads
live, but growth and loan service are computed from the books as the interval opened, so the property is not inductive.
`OversoldInv` adds the link: the opening books are covered too; until liabilities are serviced the debt is that of
the opening, so a principal clamped to the opening balance fits; where the loan originates in the interval, the principal is clamped
to what it declares, and the debt and what is still to be borrowed (`Pending`) are covered together, until the event phase comes to
the origination (`OriginationDelivers`), which `OriginationAssumption` says it does; and while growth runs each holding that the chart has not
reached yet is what it was (`Ungrown`), so a rate not below -1 takes at most the whole. The chart naming each holding
once is needed here: twice grown, a holding could lose twice its value. A realization's rounded share of
cost leaves cost and valuation adding up to what is left (`RealizeToCash`), so rounding cannot take more than the market value.

`AllIncomeAssessed` (`PeriodProofs`): `Spec => []NoIncomeLeftUntaxed`. `AssessedWhole` extends the property back to the
moment of the assessment: only `SettleTax` leads into the late phases (`EntersLate`), and what runs in them, the sweep,
the re-estimate and the close, recognizes no income.

`PayableNeverMixesYears` and `WithholdingIsTheYears` (`PeriodProofs`): `Spec =>
[]PayableIsThisYearsAccrual` and `Spec => []WithholdingFollowsTheYear`. Each is inductive
together with `TypeOK`. Only six phases write the payable, the taxes, the wages or the employment
tax; each other phase has a lemma that it is `Untaxed` (every transfer, sale and payoff it makes
keeps the four accounts, and it does not cross the payment or the withholding), so the two
invariants follow for it at once. Of the six, the payment of last year's tax is the step at which
`PriorSettled` turns true and exactly the opening payable leaves; a prepayment lowers the payable
and raises the prepaid amount together; an accrual raises the payable and the taxes together. At
the rollover the opening books become the current ones and the prepaid amount returns to zero.

`LimitsHold` (`PeriodProofs`): `(\A hh \in Households : Steady(hh)) /\ ContributionSpec => []WithinLimit`, for any
accounts, owners, limits, wage growth, number of contributions and intervals per year. The hypothesis is the
one `contributions_moved` shows to be needed: the code counts the year so far off the accounts that the interval's lines
name, so a line that has stopped is forgotten. `LimitInv` adds `Counted`: whoever has put anything in this year ran in an earlier
interval of it, and so, in a steady household, still runs when another of the group does. Then the code's count, which takes in all
that an account has received for whatever limit, and once per line, is at least what the group has put in (`CountCovers`). Each share
of a scaled group is within half a unit of its fraction, so the shares exceed the headroom by half a unit per line at most
(`GroupAdds`); and no second interval of a year rounds on top of that, since once a group is over its limit there is no
headroom and every share is zero.

`MonthsAreHistory` and `ReviewsAreOfTheMonth` (`InterviewProofs`): `Spec => SnapshotsAreHistory` and `Spec
=> []ReviewedInItsMonth`, for any sections, households, number of requests and length of time. Neither
property is inductive: a request writes what it read in an earlier month, to the record it read then. `IInv`
adds that the profiles are in order of strictly increasing months up to now (`Sound`); that all but the
first count as reviewed only what was presented in their month or later; and that each request in flight
aims at a record that exists, with acknowledgments as fresh as that record demands (`Aims`), which stays
true because months are never taken back from a record other than the first. Each step composes changes of
the rows that leave completed past months whole (`Kept`), the acknowledgment, which may touch an old record
but only what is acknowledged on it, coming last (`History`). The first profile is the exception
throughout: it is re-dated while it is incomplete, which is why it may count earlier reviews.

`BuildsStayTheirOwn` and `ReviewedIsRecorded` (`InterviewProofs`): `Spec => []BuildEditsItsScenario` and `Spec =>
[]AcknowledgedIsRecorded`. A request writes the session it read at its start, and acknowledges and saves a set by what it
read of it, so the invariant (`SetsInv`) says of the readings in flight what the properties say of the session and the rows. Ids are
given once and never again (`Numbered`), and from one state to the next a scenario keeps its pair and the rows
of a set only grow, unless the set is `mixed` (`Follows`): so a session that agreed with its
scenario does when it is written (`Coherent`), even if the scenario was deleted meanwhile, and acknowledgments that
were covered by rows when they were read still are (`Aimed`). A session that strayed need not agree, and requests in
flight may hold it: all that is ever written back of one is a session that builds nothing (`AdvanceStepped`). A save finds the rows it read or is one
of two that overlapped, and then both sets are mixed (`OvertakenOrAsRead`); what a section seeds goes to the set it is
acknowledged on (`SeedAndAcknowledgeGrows`), and where Next leads, reading and acknowledging are one step (`FollowingGrows`).

`OwnersAreRetained` (`OrganizationProofs`): `Spec => []OwnerRetained`, for any users, organizations and
number of requests. What could go wrong is that two owners each see the other and both go. The
invariant says when a request may still act on what it read. `SeenStands`: of what a request read of a user's
ownership, only losses may have happened since. `Keeps`: a request past its check holds
the lock of the row, and an owner other than the one it is about to remove is left. Locks are exclusive,
and nobody on the way out is made an owner meanwhile: that last is `Settled`, a hypothesis on the
workload, which the instance of the passing run meets and `organization_newcomer` violates, where the
property fails. Each commit is then one of three: it keeps the owners, gains one, or loses one under its lock.

`CopiesFollowFacts`, `ReadyInputsRun` and `DriftResolvesInPlace` (`InputsProofs`): `ReadyFollowsFacts` and
`ReadyInputsMaterialize` are invariants and `ResolvingRuns` holds of every step, for any households and any length of
editing. The invariant says of the facts that a handle tells its class, that a loan is secured by what is owned
and a flow names an account (`FactsCohere`); of the plans that each names what the forms let it name (`PlansCohere`);
and of what the program copied that it equals the snapshot taken with it (`Stands`): so if nothing has
drifted, the copy is the contract of now. Every form that saves a holding with its debt is an instance of one
lemma (`FormCoheres`); a deletion leaves dangling names, which the invariant tolerates and readiness does not. That
drift is resolved in place is then a fact about each resolution (`Resolves`). `HouseholdAssumption` says that the
households editing starts from cohere; it holds of a new household, which has neither facts nor plans.

`SandboxStaysWhole` (`WorkspaceProofs`): `Spec => []SandboxWhole`, for any workload of the pages, any retention, cache
and number of deaths. `SandboxWhole` speaks of the rows at each commit; what could break it is a request that
acts on rows it read before another request deleted them. The invariant `Working` has three parts. `Ordered`: what is
left of each request's program is orderly, so that a step is only taken after those whose reading it
relies on (`Follows`); the pages' programs are orderly (`Programs`), and so is what remains where a request
turns aside or inserts a run. `Whole`: `SandboxWhole`, with every set in use accounted for and no primary key used twice,
so that a key a request still holds never names a row made since. `Stays`: the scenario a request has chosen, the anchor of the
exploration it read and the sets it is about to delete are, if they are still there, saved ones. Stale readings
stay true because rows only age: nothing below the next free key appears or changes its role (`Ages`). A cascade passes
through rows that are not whole, a scenario without its set, or a set without its sandbox: `Halved` says
of which scenarios that may be so, and `DroppedWhole` that the receivers end with none.

`RunsAreShelved` (`WorkspaceProofs`): `Spec => ImplementsShelf`, the refinement itself. The
mapping reads a run's role off its row, "gone" where it has none (`OnShelf`), and calls doomed what a request about
to delete has listed (`Doomed`). The invariant `Shelving` adds to `Working` what links rows, cache and requests: a run
has one row at most, its books, and figures (`Shelved`); every entry of the cache is a captured run with its
figures, or with nothing if the run is gone (`Entries`), and since a run that is gone does not come back, an entry stays
true however the rows change after it was loaded (`Grows`, `EntriesGrow`); what a request holds is a captured run,
books that are faithful, or a run number whose books are saved and which nobody else captures (`Holds`). Each action is
then one step of the shelf: what only reads or edits scenarios, and whatever deletes rows, removes doomed or transient
runs or none (`Removing`); listing picks (`Picking`), capturing adds (`Capturing`), a hit or a reload shows (`Showing`).

`SavesLeaveTheAnchor` (`WorkspaceProofs`): `Spec => SaveLeavesTheAnchor`. The anchor's sets are overwritten with
what a request loaded of the sandbox several steps before, and only the components it found diverged are copied. The invariant
(`Tracks`) adds to `Working` that no set serves as the plans of one scenario and the assumptions of another (`Sorted`: a save
would write one value over the other), that what is left of every request is a stretch of its own page (`Path`), and
that a save nothing overtook holds what the rows hold (`Informed`, `Current`): the sandbox's values as they are, the
exploration as it is, and where it copies, the components in which the two differ. The theorem
compares what the two scenarios resolve to after the write and the re-anchoring with that (`SavesStep`).

`RunsCompare` (`WorkspaceProofs`): `Spec => []PileIsComparable`, for any workload, retention and number of requests at once.
A re-run is refused on the newest run alone, and the household is read again after that check; and the sandbox is seeded in
one transaction, the old runs listed in another and dropped in a third. So between the requests the pile is comparable, in them it
need not be. The invariant (`Piled`) says: whoever passed the check and was not overtaken joins runs that match the
household (`Joining`, `Matching`), and carries it as it is (`Bearing`); a pile that does not compare is about to be emptied by
a request that seeded (`Clears`), which overtook every other at work (`Seeding`). Only a capture adds to the pile
(`Dwindles`, `StepsDwindle`), so each step either leaves fewer runs on the same terms, adds one that matches, or
changes the terms and overtakes the others.

`LossesAreUsedOnce`, `SuspendedLossesAreReleased`, `RecaptureMatches` (`TaxYearProofs`): `Spec => []LossesUsedOnce`,
`[]SuspendedReleased`, `[]RecaptureIsDepreciation`, for any law, couple, incomes, rentals and sales. One
invariant carries the three, `Threaded`: the two ledgers the carried state keeps (what the years made is what they were taxed for or
deducted, and what is still carried), and for each rental, sold or not, that what was depreciated is its accumulated depreciation up to
the sale or to the year (`Until`), which `RecaptureIsDepreciation` says of the sold alone and so is not inductive. A year is taken apart the
way the engine builds it: what of a return is carried is the netting of its gains (`NettingThreads`) and the passive limitation
(`PassiveThreads`) over the year's figures (`WindowFigures`, `ReturnThreads`), whatever the rest of the return computes. The
depreciation of a year is a sum over the rentals of the context, where each rental still held has one entry (`YearOfRental`).

`WidowsKeepTheirCheck` (`TaxYearProofs`): `Spec => []WidowhoodNeverLowersTheCheck`. A death replaces the survivor's own
benefit and spousal part by the higher of the two own benefits, and only where the other record is more than
twice the survivor's could that be less. There the schedule decides: the lower benefit claimed as late as can be is worth
5040 parts in 3600 of its record, the higher one claimed as early as can be 2520 (`ClaimFactors`), so twice the lower record is covered exactly, and
of the excess, 2520 parts cover the half the spousal part pays, with enough left for both roundings (`ExcessCovered`). That
both claimed at 62 or later (`ClaimedInTime`) is a hypothesis of the property: the form takes earlier dates, and there it fails.

`SaleRecaptured` (`ForecastProofs`): `Spec => []RecapturedOnce`. The spans of a run are built by a recursion over the years and the
steps of each; `SpansTile` proves that they tile the frame, each inside one calendar year, whatever the frame and the granularity, and
`WalkInv` says where in them the run is, on which every proof about the driver rests. The property speaks of the years settled; the
invariant (`SalesInv`, `ReturnsInv`) says what the recorded sales are between two of them: one per property, each in an interval
that has run, and on the return of its own year alone.

`LoansAmortizeAlike` (`ForecastProofs`): `Spec => []AmortizesAlike`, for any loans and any granularity. The driver restarts the
amortization in each interval from the balance on the books; that this is the monthly schedule is `AmortizeCompose` (m months and then n
more are m + n months), from which `LoanInv` follows, with the interest booked so far, over spans cut anywhere and a borrowing
anywhere in one (`TermIs`).

`CyclesSettle` (`ForecastProofs`): `Spec => []OneCycleOwed`. A cycle pays off the loan of the one before it, on the day it
borrows itself, so both are in one interval at any granularity. The invariant (`CycleInv`) counts: the purchases made are the
cycles begun (`Rank`), and what is paid off stays so (`StaysPaid`). It needs that no sale moves the window of a purchase
(`WindowInv`; a flow that a sale ends is an item or a stream).

`ChargedOnEachDate` (`ForecastProofs`): `Spec => []ChargedAlike`. What is due is a set of days fixed by the plan (`DueDays`) and what
has been charged is how many of them have come (`ChargedInv`); an interval charges those inside it, for items by `ItemDue` and for
streams by `StreamDue`. The property leaves out the flows whose window a sale has moved and those without an amount in some interval that ran,
where the count is granular in the code too.

`SoldIsSettled` and `TenureIsCovered` (`ForecastProofs`): `MonthlyTenures => (Spec => SoldPropertyCostsNoMore)` and `MonthlyTenures =>
(Spec => []TenureCovered)`. A sale ends the costs of owning and opens the rent by moving their
windows, once the interval it falls in has been charged. `WindowInv` says of each flow what the recorded sales have made of its window, at most one of them
(`OneRole`, `TouchedOnce`); `TenureInv` that home and rent together have been charged once for each month so far, which a sale
keeps wherever in the interval it falls (`EndedCostsNoMore`, `MonthlyCount`). `MonthlyTenures` says that the costs a sale moves are charged each month and that the frame ends with a month: a cost due each quarter has
months it is not charged in, whoever lives there, and then the two properties do not speak of it. `MCForecast` asserts it of its plans.

Assumptions: `ClassAssumption`, `HoldingsAreFinite`, `CashIsTheHub`, `PeriodAssumption` (types of the constants),
`HouseholdAssumption` (the opening books balance, no appreciating holding and no loan starts below zero, which the forms refuse,
and the chart names a place once), `SweepAssumption` (a ceiling is not below the floor and the sweep bands tile
the whole, which the build validates) and `OriginationAssumption` (an interval that amortizes from a declared principal has the
origination among its events, `_loan_origination_events_for`). TLC evaluates all of them in every run of `MCPeriod`. `ContributionAssumption` (types of the
constants, finitely many accounts), in `MCContributions`. `InterviewAssumption` (what a section and its pane may
edit, read off the registry of `interview.py`: keys are unique, a section that seeds edits plans alone and absorbed no other)
and `HouseholdAssumption` (a household starts with at most one profile, of the first month, ids
below the next, and in its plans the rows of what it counts as reviewed); TLC evaluates them in `MCInterview`.
`CoupleAssumption` (types of a couple, who claim on any date; the credit for waiting stops between full retirement and 70),
`IncomeAssumption` (types of the years' figures; every rental has a recovery period) and `LawAssumption` (the caps and thresholds the
threading reads are numbers, the allowance phases out upwards, the table of lives covers the ages of required distributions), in `MCTaxYears`.
`HouseholdAssumption` of `Inputs` (starting households cohere, and no account is called `None`), in `MCInputs`.
`WorkspaceAssumption` (positive retention and cache; NULL is no key) and `WorkloadAssumption` (the opening rows are saved
scenarios over sets of their own keys, below those to come; plans and assumptions are two tables in the code, here one,
so no key serves as both; jobs are pages there are), in `MCWorkspace`.
`ParametersAssumption` (what `ForecastParameters` validates, and the opening loans it may be given), `OutlookAssumption` and `FlowsAssumption`
(types; a purchase or an event has an amount), `ReplacementsAssumption` (a replaced vehicle and its loan have one schedule),
`PropertiesAssumption` (a flow belongs to one property and is an item or a stream; only properties are sold) and `LoansAssumption` (a
rate is not negative, the level payment, a power, is a fraction, and no two loans share an account), in `MCForecast`.

Every property of `Period`, `Contributions`, `Inputs`, `Interview`, `Workspace` and `Forecast` is proved, the safety of `Organization`, and
four of the six of `TaxYears`. Only model-checked: `CardsClear` and `OneCarAtATime`, which compare the walk with the materializer and so
speak of `Materialization`, folds over facts and plans; `IndexingNeverCutsRealTax`, which
holds up to the roundings of a return and would need the growth of every bracket, floor and phase-out it is made of; `CalculatorAddsUp`, an
equality of two nested sums over life tables; and the properties of `Forms` and of `Ledger` with `BooksTable`, modules made of folds throughout, each of which
would need an argument of its own like that of `BooksAlwaysBalance`. Liveness (`RequestsAnswered`) is out of the prover's reach.

## 5. Abstract specifications

- `RunShelf` is stated and implemented by `Workspace`: model-checked as `ImplementsShelf`, proved as `RunsAreShelved`.
- A ledger answers from its postings; that the snapshot index does is `TableReadsTheLedger`.
- Left to state: a limit is a counter per owner, kind and year; a household has an owner.

## 6. Plan

1. Sign-in (codes, throttle, cooldown, pending email, collision) composed with the reconciliation of
   `Organization`; invitations.
2. The rest of the return: the state tables, Medicare premiums.
3. Proofs about the modules made of folds, where one is worth its argument: `CardsClear`
   first, from what `ForecastProofs` says of loans and charges.

## 7. What the models carve out, and where the code and its words part

Each of these was met while modelling. Where no run shows it, the passing runs leave the case out,
and the hazard list names the line.

Period and forecast. The comments at `parameters.py:151` and `period.py:505` describe depletion by
net worth; `_close` (`period.py:907`) stops on negative cash whatever the net worth. An `ExpenseStream` is
described as the same at any granularity (`parameters.py:238`), but its window is tested at the start
of the interval. Coarse intervals apply events in the order they were authored. In the interval a loan originates in, its term is
computed from the declared principal (`forecast.py:675`) and posted in the liabilities phase (`period.py:325`), before the event
phase books the borrowing: the loan's balance is negative in between, by no more than it is about to borrow, which is all
that `NeverOversold` says of that stretch. It speaks of the running books: in a yearly interval with a borrowing after
its midpoint, the payments are also dated before the loan, so that a balance read at a date in between is negative for good.
A principal inflated to a fraction of a cent, which the payments in whole cents cannot meet exactly, is left out. An account that serves
two contribution limits counts, for each, all it received, so that what fits both limits is clamped
early; `contributions` takes accounts that serve one.

Materialization. The windows of a card paid down are inclusive of both ends, one payment more than
the schedule holds; card payments are inflated though the debt is nominal; a card with a past
target date disappears. A vehicle disposed of before the frame is neither sold nor paid off,
while its running costs stop. A lease with a blank rent leaves a gap. `_lease_window` speaks of
the horizon for a lease that renews; the code ends it the day before. A Roth conversion planned once is
not inflated to its date, as the recurring ones are.

Organization. Two first requests of one user each provision a household (`decorators.py:142`), and a
reconciliation orphans only the oldest of them.

Social Security. The plan's claim is any date after birth (`inputs/retirement.py:152`), and an own
benefit goes on shrinking below 62 (`us/social_security.py:100`), where a spousal one stops (`:122`), until it is negative. Couples of `taxyears` and of its
theorems claim on any date, but `WidowhoodNeverLowersTheCheck` says nothing of a claim before 62 (`ClaimedInTime`): a higher
earner who claimed at 55 leaves the survivor less than the two checks' spousal part paid. The calculator's grid starts at 62.

Workspace. Keeping a run while a stale clear or prune has picked it deletes a kept run
(`explore.py`, `delete_runs`). Two autosaves of two sections write both components each
(`exploration.py:74`). An autosave between the two steps of saving as new overwrites the anchor
(`exploration.py:108`). Two Enters with different scenarios (`:62`) interleave. A worker killed between the
books and the run record leaves orphan books. `profile_changes` does not compare a debt's terms,
though the pile is said to stay on one Profile (`views.py:571`). `ResetExploreView` says that re-entering
from the hub resumes rather than resets (`planning/views.py:753-755`); `EnterExploreView` always starts afresh.

Inputs. Orphaned income timing is reaped at "the only place a flow is removed" (`income.py:158`),
but deleting a property, making it a second home and dropping a person remove flows too.
The lowest free handle is minted again, so plans of a removed fact apply to the next; only loan terms
and rent detect it. Rent entered after Home Expenses was reviewed is never seeded. A stale page of the
Home-Expenses pane, posted when the household has no property left, wipes the property expenses; a stale
income tab raises a `KeyError`. Resetting a loan to a contract that is not complete drops its plan.

Interview.
- The first profile, completed by *viewing* its last section in a later month, reads as outdated at
  once: the view acknowledges without saving (`views.py:798`), and only saving re-dates the record
  (`profile/repository.py:82-84`).
- Editing the vehicle plan in a later month mints an unreviewed profile of that month
  (`views.py:1280`, `:1298`), though a new month is said to begin by acknowledging the review
  (`profile/repository.py:8-9`).
- `advance_profile` checks, then creates (`views.py:639-643`): two acknowledgments at once can mint two
  records of a month. The model takes it in one step. So can two Pairs make one pairing twice, and a Pair
  racing a Delete lose its new scenario to the cascade.
- Overlapping saves of one set overwrite each other; where the session's target was deleted meanwhile,
  the form lands in the latest set, and the acknowledged and the saved record may differ (`mixed`).
- An edit link selects its set and leaves `editing_scenario` as it is (`views.py:683-698`); only the flow it
  redirects to clears that (`:622-623`). In between, or for good if the redirect is not followed, the session edits
  another set while the scenario still counts as being built, and Next leads on as in a build. `BuildEditsItsScenario` says nothing of that stretch (`strayed`); the proof shows that the
  sessions read in it do no harm after it.
- A first profile advanced into a new month before it is complete loses every acknowledgment when saved.
- Home Expenses viewed while it does not apply is acknowledged unseeded; posted, it ends the flow early.

Forms.
- A blank rental override on a row the tenant pays is seeded again as $0, though a blank is said to drop
  back to the default; a saved collapsed home-expense row turns the only property's override into the
  default.
- Autosaves in flight when a span is deleted or split apply to other columns.
- An income row minted again under a freed handle re-binds the window of the one removed, which
  comments at `income.py:162` and `:200` rule out.
- `CurrentVehicleDeleteView` (`views.py:1772`) and the comment in `CurrentVehicleFormView.post` speak of the
  plans; the code touches the profile only, so a removed vehicle's plan stays until reconciled.
- An editor left open on a holding or debt that the list beside it removed creates it again with the next
  change (`views.py:2159`). With the editor open on one event and an earlier one removed beside it,
  saving replaces another event, or nothing, while `_editable_event` says a stale URL "degrades to a no-op"
  (`views.py:2315-2317`). `OnlyTheTypedRowChanges` leaves out what is posted from such a page (`page.gone`).
- While the primary person's name or birth is blank nothing typed there is posted, but whatever else is posted
  takes the half person along, who is then not held: accounts and incomes go with them. The pane says so ("an
  incomplete person is simply not held"), and the property counts it as meant.
- A lifetime is typed as an age and stored as a date, told anew at every save; the property compares the ages.
- Clearing the last running cost of a vehicle plan that holds nothing else makes the plan empty, and the
  catalog's amounts show again (`vehicle_expenses.py:40`, `:114`); the property leaves that step out.

Table. Under an expanded group drawn as a chain of only children, an account of a later run does not
surface (`_reveal_newcomers`), which the docstring of `adapt` says it does; a chain that narrows or
widens after an expansion renders a leaf twice or out of order. Instances avoid turning a group
of one into several.

Sign-in (not modelled): two tabs that attach and confirm leave a verified account with a pending
claim (`user_state.py:20`); a collision page adopts while another tab saves (`onboarding/views.py:46`).

## 8. Not modelled, and why

Templates, charts and formatting (presentation); notices (derived); settings, middleware and
deployment scripts (configuration); email (I/O); the statutory tables (data). The database
lock has no caller in this repository, nor has the signal processor; there are no interleavings to
model. Sign-in: the resolutions of its collisions enter `Organization`; the magic codes, the throttle, the
cooldown and the pending email do not. Inside the modelled parts: inactive memberships and invitations, the example household, sessions
of a deleted user, tax classes beyond wages and other income in `Period`, and the split of a mixed
loan payment, which the period receives as one principal and one interest amount.
