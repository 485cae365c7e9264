----------------------------- MODULE Organization -----------------------------
(***************************************************************************)
(* Who belongs to which household: organization/models.py (the guarded      *)
(* membership), organization/deletion.py, organization/decorators.py (a     *)
(* household provisioned on first use) and ucfp/onboarding's reconciliation *)
(* of a guest with the account they turn out to own.                        *)
(*                                                                          *)
(* Requests run on threads of one server against one database, and each     *)
(* statement of a request is a step of its own.  A statement reads what is  *)
(* committed and what its own transaction wrote (READ COMMITTED); a row     *)
(* lock taken by a transaction is held until it ends, and the database      *)
(* aborts a transaction of a cycle of waiting ones.                         *)
(***************************************************************************)
EXTENDS Integers, FiniteSets, FiniteSetsExt

CONSTANTS
    Users, MaxOrganizations,
    FirstMembers,    \* FirstMembers[o][u]: the standing of u in o, for the first organizations
    Requests,
    Workloads        \* the plans the requests may have, one per request

Organizations == 1 .. MaxOrganizations        \* in order of creation

\* An active owner, any other active role, or no membership.
Standings == {"owner", "other", "none"}

\* user is whom the request is about: who leaves, is deleted, is given a role in the
\* admin, needs an organization, or the guest who keeps or drops their work for `target`.
Plans ==
         [kind : {"leave", "deleteOrganization", "promote", "demote"},
          user : Users, organization : Organizations]
    \cup [kind : {"deleteAccount"}, user : Users, keep : SUBSET Organizations]
    \cup [kind : {"provision"}, user : Users]
    \cup [kind : {"keepWork", "dropWork"}, user : Users, target : Users]

ASSUME OrganizationAssumption ==
    /\ IsFiniteSet(Users) /\ IsFiniteSet(Requests)
    /\ MaxOrganizations \in Nat /\ DOMAIN FirstMembers \subseteq Organizations
    /\ \A o \in DOMAIN FirstMembers : /\ FirstMembers[o] \in [Users -> Standings]
                                      /\ \E u \in Users : FirstMembers[o][u] = "owner"
    /\ Workloads \subseteq [Requests -> Plans]

VARIABLES
    organizations, users,   \* the rows committed
    members,      \* members[o][u]: the standing committed
    created,      \* how many organizations there have been
    orphaned,     \* those a reconciliation left without members on purpose
    lock,         \* lock[o]: the requests whose transaction holds the row of o (one or none)
    plan,         \* plan[r]: what request r is to do
    tx            \* tx[r]: where it is, what it has read, what it has yet to commit

vars == <<organizations, users, members, created, orphaned, lock, plan, tx>>

Rows     == <<organizations, users, members, created, orphaned>>
Nobody   == [u \in Users |-> "none"]
NotBegun == [pc |-> "read", seen |-> [o \in Organizations |-> "none"], at |-> 0, todo |-> {},
             gone |-> {}, left |-> {}, mine |-> {}, prior |-> {}]

Kind(r)   == plan[r].kind
User(r)   == plan[r].user
Answered(r) == tx[r].pc = "answered"

Goto(r, pc)    == tx' = [tx EXCEPT ![r].pc = pc]
UnlockedBy(r)  == [o \in Organizations |-> lock[o] \ {r}]
Free(r, o)     == lock[o] \subseteq {r}

\* Mutant: an error leaves the transaction open.
LeaveOpen(r) == Goto(r, "answered") /\ UNCHANGED <<Rows, plan, lock>>

\* The request ends with nothing written, its transaction rolled back; or committed.
RollBack(r) == Goto(r, "answered") /\ lock' = UnlockedBy(r) /\ UNCHANGED <<Rows, plan>>
Commit(r)   == Goto(r, "answered") /\ lock' = UnlockedBy(r) /\ UNCHANGED plan

\* What r's own transaction sees.
Standing(r, o, u) ==
    IF o \in tx[r].gone \/ (o \in tx[r].left /\ u = User(r)) THEN "none" ELSE members[o][u]
AnotherOwner(r, o) == \E u \in Users \ {User(r)} : Standing(r, o, u) = "owner"
StandingsOf(r)     == [o \in Organizations |-> Standing(r, o, User(r))]

Owned(u)   == {o \in Organizations : members[o][u] = "owner"}
Joined(u)  == {o \in Organizations : members[o][u] # "none"}

\* default_organization_for: one they own before one they belong to, the oldest first.
Landing(u) == IF Owned(u) # {} THEN {Min(Owned(u))}
              ELSE {o \in Joined(u) : o = Min(Joined(u))}

Init ==
    /\ organizations = DOMAIN FirstMembers /\ users = Users
    /\ members = [o \in Organizations |-> IF o \in DOMAIN FirstMembers THEN FirstMembers[o] ELSE Nobody]
    /\ created = Cardinality(DOMAIN FirstMembers) /\ orphaned = {}
    /\ lock = [o \in Organizations |-> {}]
    /\ plan \in Workloads /\ tx = [r \in Requests |-> NotBegun]
-----------------------------------------------------------------------------
(* OrganizationMember.delete and .save: the guard on the last active owner. *)

\* Mutant: the row is read, not locked.
ReadOrganization(r) ==
    /\ tx[r].pc = "lock" /\ tx[r].at \in organizations
    /\ Goto(r, "assert") /\ UNCHANGED <<Rows, plan, lock>>

LockOrganization(r) ==
    /\ tx[r].pc = "lock" /\ tx[r].at \in organizations /\ Free(r, tx[r].at)
    /\ lock' = [lock EXCEPT ![tx[r].at] = {r}]
    /\ Goto(r, "assert") /\ UNCHANGED <<Rows, plan>>

OrganizationIsGone(r) ==
    /\ tx[r].pc = "lock" /\ tx[r].at \notin organizations /\ RollBack(r)

\* LastActiveOwnerError, or the write the guard was for.
AssertAnotherActiveOwner(r) ==
    /\ tx[r].pc = "assert"
    /\ IF AnotherOwner(r, tx[r].at)
       THEN /\ Goto(r, IF Kind(r) = "demote" THEN "write" ELSE "remove")
            /\ UNCHANGED <<Rows, plan, lock>>
       ELSE RollBack(r)

\* The guard is for the membership as this request had read it.
BeginDelete(r, o) == IF tx[r].seen[o] = "owner" THEN "lock" ELSE "remove"
-----------------------------------------------------------------------------
(* Leaving an organization, and deleting one. *)

\* _active_membership_or_404.
ReadMembership(r) ==
    /\ tx[r].pc = "read" /\ Kind(r) \in {"leave", "deleteOrganization"}
    /\ LET o == plan[r].organization IN
       IF members[o][User(r)] = "none" THEN RollBack(r)
       ELSE /\ tx' = [tx EXCEPT ![r].pc = "check", ![r].at = o, ![r].seen = StandingsOf(r)]
            /\ UNCHANGED <<Rows, plan, lock>>

CheckSoleOwner(r) ==
    /\ tx[r].pc = "check" /\ Kind(r) = "leave"
    /\ IF tx[r].seen[tx[r].at] = "owner" /\ ~AnotherOwner(r, tx[r].at) THEN RollBack(r)
       ELSE Goto(r, BeginDelete(r, tx[r].at)) /\ UNCHANGED <<Rows, plan, lock>>

LeaveOrganization(r) ==
    /\ tx[r].pc = "remove" /\ Kind(r) = "leave"
    /\ members' = [members EXCEPT ![tx[r].at][User(r)] = "none"]
    /\ Commit(r) /\ UNCHANGED <<organizations, users, created, orphaned>>

DeleteOrganization(r) ==
    /\ tx[r].pc = "check" /\ Kind(r) = "deleteOrganization"
    /\ IF tx[r].seen[tx[r].at] # "owner" THEN RollBack(r)
       ELSE /\ Free(r, tx[r].at)
            /\ organizations' = organizations \ {tx[r].at}
            /\ members' = [members EXCEPT ![tx[r].at] = Nobody]
            /\ Commit(r) /\ UNCHANGED <<users, created, orphaned>>
-----------------------------------------------------------------------------
(* The admin's form gives a member a role: OrganizationMember.save. *)

LoadMember(r) ==
    /\ tx[r].pc = "read" /\ Kind(r) \in {"promote", "demote"}
    /\ LET o == plan[r].organization IN
       IF members[o][User(r)] = "none" THEN RollBack(r)
       ELSE /\ tx' = [tx EXCEPT ![r].pc = "save", ![r].at = o]
            /\ UNCHANGED <<Rows, plan, lock>>

\* Only an update that strips an active owner is guarded.
SaveMember(r) ==
    /\ tx[r].pc = "save"
    /\ Goto(r, IF Kind(r) = "demote" /\ members[tx[r].at][User(r)] = "owner" THEN "lock" ELSE "write")
    /\ UNCHANGED <<Rows, plan, lock>>

\* An update that finds no row inserts it again, unless what it refers to is gone.
WriteMember(r) ==
    /\ tx[r].pc = "write"
    /\ IF tx[r].at \notin organizations \/ User(r) \notin users THEN RollBack(r)
       ELSE /\ members[tx[r].at][User(r)] = "none" => Free(r, tx[r].at)
            /\ members' = [members EXCEPT ![tx[r].at][User(r)] =
                               IF Kind(r) = "promote" THEN "owner" ELSE "other"]
            /\ Commit(r) /\ UNCHANGED <<organizations, users, created, orphaned>>
-----------------------------------------------------------------------------
(* delete_account: one transaction. *)

ListOwned(r) ==
    /\ tx[r].pc = "read" /\ Kind(r) = "deleteAccount"
    /\ tx' = [tx EXCEPT ![r].pc = "owned", ![r].todo = Owned(User(r))]
    /\ UNCHANGED <<Rows, plan, lock>>

\* A co-owned organization may be kept, a solely owned one is deleted.
DecideOwned(r) ==
    /\ tx[r].pc = "owned" /\ tx[r].todo # {}
    /\ \E o \in tx[r].todo :
           tx' = [tx EXCEPT ![r].todo = @ \ {o}, ![r].at = o,
                            ![r].pc = IF AnotherOwner(r, o) /\ o \in plan[r].keep THEN "owned" ELSE "drop"]
    /\ UNCHANGED <<Rows, plan, lock>>

DropOwned(r) ==
    /\ tx[r].pc = "drop"
    /\ tx[r].at \in organizations => Free(r, tx[r].at)
    /\ lock' = IF tx[r].at \in organizations THEN [lock EXCEPT ![tx[r].at] = {r}] ELSE lock
    /\ tx' = [tx EXCEPT ![r].pc = "owned", ![r].gone = @ \cup {tx[r].at}]
    /\ UNCHANGED <<Rows, plan>>

ListRemaining(r) ==
    /\ tx[r].pc = "owned" /\ tx[r].todo = {}
    /\ tx' = [tx EXCEPT ![r].pc = "members", ![r].seen = StandingsOf(r),
                        ![r].todo = {o \in Organizations : Standing(r, o, User(r)) # "none"}]
    /\ UNCHANGED <<Rows, plan, lock>>

NextRemaining(r) ==
    /\ tx[r].pc = "members" /\ tx[r].todo # {}
    /\ \E o \in tx[r].todo :
           tx' = [tx EXCEPT ![r].todo = @ \ {o}, ![r].at = o, ![r].pc = BeginDelete(r, o)]
    /\ UNCHANGED <<Rows, plan, lock>>

RemoveRemaining(r) ==
    /\ tx[r].pc = "remove" /\ Kind(r) = "deleteAccount"
    /\ tx' = [tx EXCEPT ![r].pc = "members", ![r].left = @ \cup {tx[r].at}]
    /\ UNCHANGED <<Rows, plan, lock>>

Without(u) == [o \in Organizations |-> [members[o] EXCEPT ![u] = "none"]]

\* user.delete() takes along whatever memberships there are by now, unguarded.
AfterAccount(r) == [o \in Organizations |-> IF o \in tx[r].gone THEN Nobody ELSE Without(User(r))[o]]

DeleteUser(r) ==
    /\ tx[r].pc = "members" /\ tx[r].todo = {}
    /\ organizations' = organizations \ tx[r].gone
    /\ members' = AfterAccount(r)
    /\ users' = users \ {User(r)}
    /\ Commit(r) /\ UNCHANGED <<created, orphaned>>
-----------------------------------------------------------------------------
(* ensure_organization: an organization of their own for a user who has none. *)

LookForOrganization(r) ==
    /\ tx[r].pc = "read" /\ Kind(r) = "provision"
    /\ IF Joined(User(r)) # {} THEN RollBack(r)
       ELSE Goto(r, "create") /\ UNCHANGED <<Rows, plan, lock>>

CreateForOwner(r) ==
    /\ tx[r].pc = "create"
    /\ IF User(r) \notin users THEN RollBack(r)
       ELSE /\ created < MaxOrganizations           \* bound
            /\ created' = created + 1
            /\ organizations' = organizations \cup {created'}
            /\ members' = [members EXCEPT ![created'][User(r)] = "owner"]
            /\ Commit(r) /\ UNCHANGED <<users, orphaned>>
-----------------------------------------------------------------------------
(* A guest proves to own an account: the two resolutions of the collision. *)

ReadWorking(r) ==
    /\ tx[r].pc = "read" /\ Kind(r) \in {"keepWork", "dropWork"}
    /\ tx' = [tx EXCEPT ![r].pc = "resolve", ![r].mine = Landing(User(r)),
                  ![r].prior = IF Kind(r) = "keepWork" THEN Landing(plan[r].target) ELSE {}]
    /\ UNCHANGED <<Rows, plan, lock>>

\* keep_current_discard_previous: every membership of the guest's organization is
\* replaced by the target's, every one of the target's own is dropped.
KeepWork(r) ==
    /\ tx[r].pc = "resolve" /\ Kind(r) = "keepWork"
    /\ IF tx[r].mine # {} /\ (~(tx[r].mine \subseteq organizations) \/ plan[r].target \notin users)
       THEN RollBack(r)
       ELSE /\ \A o \in tx[r].mine : Free(r, o)
            /\ members' = [o \in Organizations |->
                   CASE o \in tx[r].prior -> Nobody
                     [] o \in tx[r].mine \ tx[r].prior -> [Nobody EXCEPT ![plan[r].target] = "owner"]
                     [] o \notin tx[r].mine \cup tx[r].prior -> Without(User(r))[o]]
            /\ orphaned' = (orphaned \ tx[r].mine) \cup tx[r].prior
            /\ users' = users \ {User(r)}
            /\ Commit(r) /\ UNCHANGED <<organizations, created>>

\* discard_current_keep_previous.
DropWork(r) ==
    /\ tx[r].pc = "resolve" /\ Kind(r) = "dropWork"
    /\ members' = [o \in Organizations |-> IF o \in tx[r].mine THEN Nobody ELSE Without(User(r))[o]]
    /\ orphaned' = orphaned \cup tx[r].mine
    /\ users' = users \ {User(r)}
    /\ Commit(r) /\ UNCHANGED <<organizations, created>>
-----------------------------------------------------------------------------
(* The database aborts one transaction of a cycle of waiting ones. *)

WaitsFor(r, s) ==
    /\ r # s /\ tx[r].pc \in {"lock", "drop"} /\ r \notin lock[tx[r].at] /\ s \in lock[tx[r].at]
Victim(r) ==
    tx[r].pc \in {"lock", "drop"} /\ \E cycle \in SUBSET Requests :
        /\ r \in cycle
        /\ \A s \in cycle : (\E q \in cycle : WaitsFor(s, q)) /\ (\E q \in cycle : WaitsFor(q, s))
AbortVictim(r) == Victim(r) /\ RollBack(r)

Handle(r) ==
    \/ LockOrganization(r) \/ OrganizationIsGone(r) \/ AssertAnotherActiveOwner(r)
    \/ ReadMembership(r) \/ CheckSoleOwner(r) \/ LeaveOrganization(r) \/ DeleteOrganization(r)
    \/ LoadMember(r) \/ SaveMember(r) \/ WriteMember(r)
    \/ ListOwned(r) \/ DecideOwned(r) \/ DropOwned(r) \/ ListRemaining(r) \/ NextRemaining(r)
    \/ RemoveRemaining(r) \/ DeleteUser(r)
    \/ LookForOrganization(r) \/ CreateForOwner(r)
    \/ ReadWorking(r) \/ KeepWork(r) \/ DropWork(r)
    \/ AbortVictim(r)

Next == \E r \in Requests : Handle(r)

Spec == Init /\ [][Next]_vars /\ \A r \in Requests : WF_vars(Handle(r))
-----------------------------------------------------------------------------
(* Properties. *)

\* Who may become an owner by a plan, and who may stop being one.
Gains(p) == IF p.kind \in {"promote", "provision"} THEN {p.user}
            ELSE IF p.kind = "keepWork" THEN {p.target} ELSE {}
Leaves(p) == IF p.kind \in {"leave", "demote", "deleteAccount", "keepWork", "dropWork"} THEN {p.user} ELSE {}

\* Nobody becomes an owner while on their way out, and a guest who reconciles comes with at
\* most one household of their own.
Settled ==
    \A w \in Workloads : \A r \in Requests :
        /\ \A s \in Requests : Gains(w[r]) \cap Leaves(w[s]) = {}
        /\ w[r].kind \in {"keepWork", "dropWork"} =>
              \A o, p \in DOMAIN FirstMembers :
                  FirstMembers[o][w[r].user] = "owner" /\ FirstMembers[p][w[r].user] = "owner" => o = p

\* The invariant OrganizationMember and delete_account document: an organization always
\* retains at least one active owner (but for those a reconciliation orphans), however
\* the members leave, are demoted, or delete their accounts at the same time.
OwnerRetained ==
    \A o \in organizations \ orphaned : \E u \in Users : members[o][u] = "owner"

\* Every request is answered: a guarded change that is refused does not leave the
\* organization's row locked under the others.
RequestsAnswered == \A r \in Requests : <>Answered(r)
===============================================================================
