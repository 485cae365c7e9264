SPECIFICATION Spec
CONSTANTS
    Tabs = {t1}
    Lives = {"settled", "invested"}
    Unread = {"settled"}
    LifeOf <- MCLifeOf
    Spans <- MCSpans
    ExpenseCatalog <- MCExpenseCatalog
    Worked = {"REVENUE", "EXPENSE"}
    MaxRuns = 2
    MaxOperations = 3
    None = None
CHECK_DEADLOCK FALSE
INVARIANTS
    EachAccountOnce
PROPERTIES
    ViewSurvivesRerun
    TableReadsTheLedger
