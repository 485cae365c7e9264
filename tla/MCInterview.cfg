SPECIFICATION Spec
CONSTANTS
    Sections <- MCSections
    Sticky = {"subjects"}
    Folded <- MCFolded
    Households <- MCHouseholds
    Requests = {q1, q2}
    MaxRequests = 3
    MaxMonths = 2
    None = None
SYMMETRY Interchangeable
CHECK_DEADLOCK FALSE
INVARIANTS
    ReviewedInItsMonth
    
    AcknowledgedIsRecorded
PROPERTIES
    SnapshotsAreHistory
