-------------------------------- MODULE Books --------------------------------
(***************************************************************************)
(* The double-entry books of one forecast and the operations that post to   *)
(* them: accounts/bookkeeper.py, accounts/enums.py (what an asset class     *)
(* does) and the self-applying events of period/events.py.                  *)
(*                                                                          *)
(* A books value is a record of NATURAL balances (positive on the normal    *)
(* side of the account's type, Ledger.natural_balance).  The revenue        *)
(* accounts are kept as wages, on which employment tax is due, and income,  *)
(* every other taxable class; the expense accounts as expense, fica         *)
(* (employment tax) and taxes (income tax and penalties); the receipts and  *)
(* disbursements equity accounts as one signed external.  A holding has its *)
(* cost account, its valuation companion and the loans it secures, kept as  *)
(* one balance.  Every operator is a balanced transaction, or a few.        *)
(***************************************************************************)
EXTENDS Money, FiniteSetsExt

CONSTANTS
    Holdings,   \* the asset holdings other than the cash hub
    Class       \* Class[h]: the AssetClass of holding h

AssetClasses == {"STOCKS", "DIVIDEND_STOCKS", "BONDS", "CDS",
                 "REAL_ESTATE_RESIDENCE", "REAL_ESTATE_RENTAL", "REAL_ESTATE_SECOND_HOME",
                 "PRETAX_RETIREMENT", "ROTH", "PRECIOUS_METALS", "COLLECTIBLES", "DEPRECIATING"}

ASSUME ClassAssumption == Class \in [Holdings -> AssetClasses]
ASSUME HoldingsAreFinite == IsFiniteSet(Holdings)

Cash == "cash"          \* the cash hub, as a place proceeds go to
ASSUME CashIsTheHub == Cash \notin Holdings

AccruesUnrealizedGains(h) == Class[h] # "CDS"
WithdrawsBasisFirst(h)    == Class[h] = "ROTH"
RecognizesGain(h)         == Class[h] \notin {"CDS", "DEPRECIATING"}
Distributes(h)            == Class[h] \in {"BONDS", "CDS", "DIVIDEND_STOCKS"}
SupportsPartialDraw(h)    == Class[h] \in {"CDS", "BONDS", "STOCKS", "DIVIDEND_STOCKS",
                                           "ROTH", "PRETAX_RETIREMENT"}
AutoSaleProperty(h)   == Class[h] \in {"REAL_ESTATE_RESIDENCE", "REAL_ESTATE_SECOND_HOME",
                                       "REAL_ESTATE_RENTAL"}
AutoSalePossession(h) == Class[h] \in {"PRECIOUS_METALS", "COLLECTIBLES"}

BooksOfAccount ==
    [cash : Int, cost : [Holdings -> Int], val : [Holdings -> Int],
     debt : [Holdings -> Int], payable : Int, futureTax : Int,
     opening : Int, unrealized : Int, external : Int, reserve : Int,
     wages : Int, income : Int, expense : Int, fica : Int, taxes : Int]

Market(b, h) == b.cost[h] + b.val[h]                       \* Ledger.market_value
MarketOf(b, x) == IF x = Cash THEN b.cash ELSE Market(b, x)

\* The sum of a balance over the holdings.
Total(f) == MapThenSumSet(LAMBDA h : f[h], Holdings)

Assets(b)      == b.cash + Total([h \in Holdings |-> Market(b, h)])
Liabilities(b) == b.payable + b.futureTax + Total(b.debt)
NetWorth(b)    == Assets(b) - Liabilities(b)

\* Bookkeeper.assert_balanced: the signed entries of the whole books sum to zero.
Balances(b) == NetWorth(b) = b.opening + b.unrealized + b.external + b.reserve
                             + b.wages + b.income - b.expense - b.fica - b.taxes
-----------------------------------------------------------------------------
(* Movements between asset accounts, and with the outside. *)

\* One side of a posting: amount lands in (or, negative, leaves) an asset account.
Receive(b, x, amount) == IF x = Cash THEN [b EXCEPT !.cash = @ + amount]
                                     ELSE [b EXCEPT !.cost[x] = @ + amount]

\* A Transfer between asset accounts, or a Purchase of an asset at cost.
Transfer(b, from, to, amount) == Receive(Receive(b, from, -amount), to, amount)

\* An ExternalReceipt; an ExternalDisbursement is one of a negative amount.
External(b, amount) == [b EXCEPT !.cash = @ + amount, !.external = @ + amount]

\* The whole balance still owed on h, read live; a retired loan posts nothing.
LoanPayoff(b, h) ==
    IF b.debt[h] <= 0 THEN b ELSE [b EXCEPT !.debt[h] = 0, !.cash = @ - b.debt[h]]

LoanOrigination(b, h, principal) ==
    IF principal <= 0 THEN b
    ELSE [b EXCEPT !.debt[h] = @ + principal, !.cash = @ + principal]
-----------------------------------------------------------------------------
(* Realizing a holding. *)

\* The cost drawn down by `proceeds` of h: face value for a holding with no
\* valuation companion, basis before earnings for a Roth, else pro rata.
CostSold(b, h, proceeds) ==
    CASE ~AccruesUnrealizedGains(h) -> proceeds
      [] WithdrawsBasisFirst(h)     -> IF proceeds = Market(b, h)
                                       THEN b.cost[h] ELSE Lesser(proceeds, b.cost[h])
      [] OTHER                      -> Quantize(b.cost[h] * proceeds, Market(b, h))

\* Mutant of Realize: the amount asked for, whatever the holding is worth.
RealizeUncapped(b, h, amount, to) ==
    LET gain       == amount - CostSold(b, h, amount)
        recognized == IF RecognizesGain(h) THEN gain ELSE 0
    IN  IF Market(b, h) <= 0 THEN b
        ELSE Receive([b EXCEPT !.cost[h] = @ - (amount - gain), !.val[h] = @ - gain,
                               !.unrealized = @ - recognized, !.income = @ + recognized],
                     to, amount)

\* Bookkeeper.realize with the accounts Realization.apply resolves: at most the
\* market value leaves h for `to`; the valuation part is the gain, moved from
\* unrealized to realized unless the class recognizes none.
Realize(b, h, amount, to) ==
    LET proceeds   == Lesser(amount, Market(b, h))
        gain       == proceeds - CostSold(b, h, proceeds)
        recognized == IF RecognizesGain(h) THEN gain ELSE 0
    IN  IF Market(b, h) <= 0 THEN b
        ELSE Receive([b EXCEPT !.cost[h]     = @ - (proceeds - gain),
                               !.val[h]      = @ - gain,
                               !.unrealized  = @ - recognized,
                               !.income      = @ + recognized], to, proceeds)

RealizeWhole(b, h, to) == Realize(b, h, Market(b, h), to)
-----------------------------------------------------------------------------
(* The books a forecast starts from. *)

\* BaselineBuilder._seed_opening_balances: every holding at its market value, the
\* basis as cost and the embedded gain as valuation against Unrealized Gains,
\* every loan at its balance; Opening Balances absorbs the residual of each.
SeedOpeningBalances(cash, basis, value, owed) ==
    [cash |-> cash, cost |-> basis, val |-> [h \in Holdings |-> value[h] - basis[h]],
     debt |-> owed, payable |-> 0, futureTax |-> 0,
     opening    |-> cash + Total([h \in Holdings |-> basis[h] - owed[h]]),
     unrealized |-> Total([h \in Holdings |-> value[h] - basis[h]]),
     external |-> 0, reserve |-> 0,
     wages |-> 0, income |-> 0, expense |-> 0, fica |-> 0, taxes |-> 0]
=============================================================================
