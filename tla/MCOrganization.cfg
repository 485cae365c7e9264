SPECIFICATION Spec
CONSTANTS
    Users <- MCUsers
    MaxOrganizations = 7
    FirstMembers <- MCFirstMembers
    Requests <- MCRequests
    Workloads <- SettledWorkloads
INVARIANTS
    OwnerRetained
PROPERTIES
    RequestsAnswered
CHECK_DEADLOCK FALSE
