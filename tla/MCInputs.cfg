SPECIFICATION Spec
CONSTANTS
    Households <- MCHouseholds
    Contracts <- MCContracts
    Rents = {1, 2}
    CatalogRent = 9
    MaxEdits = 3
    MaxMinted = 1
    None = None
CHECK_DEADLOCK FALSE
INVARIANTS
    ReadyInputsMaterialize
    ReadyFollowsFacts
PROPERTIES
    ResolvingRuns
