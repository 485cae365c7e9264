SPECIFICATION ContributionSpec
CONSTANTS
    Accounts <- MCAccounts
    Owner <- MCOwner
    Limit <- MCLimit
    PerYear = 3
    WageGrowth <- MCWageGrowth
    Households <- ChangedJobs
INVARIANTS
    WithinLimit
CHECK_DEADLOCK FALSE
