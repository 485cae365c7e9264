SPECIFICATION Spec
CONSTANTS
    Holdings <- MCHoldings
    Class <- MCClass
    OpeningBooks <- MCOpeningBooks
    ChartOrder <- MCChartOrder
    DrawPriority <- MCDrawPriority
    SweepBand <- MCSweepBand
    SweepParts = 4
    Frac = 2
    Granularities = {1, 4}
    PeriodInputs <- MCPeriodInputs
    LastPeriod <- MCLastPeriod
    LatentRate <- MCLatentRate
    TaxRate <- MCTaxRate
    FicaRate <- MCFicaRate
    RealtorFee <- MCRealtorFee
    FixedSaleCost = 2
    WriteOffFloor = 2
INVARIANTS
    TypeOK
    BooksBalance
    FundedOrExhausted
    PayableIsThisYearsAccrual
    NoIncomeLeftUntaxed
    WithholdingFollowsTheYear
    NeverOversold
