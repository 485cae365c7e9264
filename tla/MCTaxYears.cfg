SPECIFICATION Spec
CONSTANTS
    EarliestClaimAge = 62
    DelayCeilingAge = 70
    ClaimAges <- MCClaimAges
    HorizonCapAge = 71
    ColaLag = 1
    LifeTable <- MCLifeTable
    Cohort = 4
    Blended = Blended
    BaseYear = 2026
    LastYear = 2029
    BaseLaw <- MCBaseLaw
    Cola = 2
    Households <- MCHouseholds
    Rentals <- MCRentals
    Incomes <- MCIncomes
    Health <- MCHealth
    Rounding = 16
INVARIANTS
    LossesUsedOnce
    SuspendedReleased
    RecaptureIsDepreciation
    IndexingNeverCutsRealTax
    WidowhoodNeverLowersTheCheck
    CalculatorAddsUp
