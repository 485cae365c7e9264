SPECIFICATION Spec
CONSTANTS
    None = None
    LivingCatalog <- MCLiving
    HomeCatalog <- MCHome
    VehicleCatalog <- MCVehicle
    LevelPaymentOf <- MCLevelPayment
    RateImplied <- MCRateImplied
    TermImplied <- MCTermImplied
    DrawSources <- MCDrawSources
    SweepClasses <- MCSweepClasses
    LiquidClasses <- MCLiquidClasses
    RecurringUnits = "MO_YR"
    DefaultDrawdown <- MCDrawdown
    DefaultEconomics <- MCEconomics
    DefaultCosts = 5
    DefaultLatent = FALSE
    DefaultProjection = "INDEXED"
    SectionFactors <- MCSectionFactors
    AdvancedFactors <- MCAdvancedFactors
    FundingFactors <- MCFundingFactors
    TypicalPrice = 35
    TypicalYears = 9
    Founding <- MCFounding
    Typeable <- MCTypeable
    NewRows <- MCNewRows
    Filled <- MCFilled
    MaxEdits = 2
    LeftAfter <- MCLeftAfter
CHECK_DEADLOCK FALSE
INVARIANT PayoffsMirrorPlans
PROPERTY OnlyTheTypedRowChanges
