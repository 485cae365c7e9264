SPECIFICATION Spec
CONSTANTS
    Users <- MCUsers
    MaxOrganizations = 7
    FirstMembers <- MCFirstMembers
    Requests <- MCRequests
    Workloads <- NewcomerWorkloads
INVARIANTS
    OwnerRetained
CHECK_DEADLOCK FALSE
