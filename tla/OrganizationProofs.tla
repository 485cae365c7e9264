-------------------------- MODULE OrganizationProofs --------------------------
(***************************************************************************)
(* However many requests leave, demote, delete their accounts, provision    *)
(* and reconcile at once, a household keeps an owner (OwnerRetained), as    *)
(* long as nobody becomes an owner while on their way out (Settled).        *)
(***************************************************************************)
EXTENDS Organization, FiniteSetTheorems, WellFoundedInduction, TLAPS

Steps == {"read", "check", "lock", "assert", "remove", "save", "write", "owned", "drop", "members",
          "create", "resolve", "answered"}
Transactions ==
    [pc : Steps, seen : [Organizations -> Standings], at : Organizations \cup {0},
     todo : SUBSET Organizations, gone : SUBSET Organizations, left : SUBSET Organizations,
     mine : SUBSET Organizations, prior : SUBSET Organizations]

Types ==
    /\ organizations \subseteq Organizations /\ created \in Nat
    /\ members \in [Organizations -> [Users -> Standings]]
    /\ lock \in [Organizations -> SUBSET Requests]
    /\ plan \in Workloads
    /\ tx \in [Requests -> Transactions]

Exclusive == \A o \in Organizations : \A r, s \in lock[o] : r = s

Owns(u, o) == members[o][u] = "owner"

\* r holds o, and once its user has gone from o another owner is left.
Keeps(r, o) ==
    /\ o \in Organizations /\ r \in lock[o]
    /\ o \in organizations \ orphaned => \E u \in Users \ {User(r)} : Owns(u, o)

\* What the request read of its user's ownership can only have gone away since.
SeenStands(r) ==
    \A o \in Organizations : Owns(User(r), o) => tx[r].seen[o] = "owner" \/ o \in tx[r].gone

KindOfStep(r) ==
    /\ tx[r].pc \in {"owned", "drop", "members"} => Kind(r) = "deleteAccount"
    /\ tx[r].pc \in {"save", "write"} => Kind(r) \in {"promote", "demote"}
    /\ tx[r].pc = "create" => Kind(r) = "provision"
    /\ tx[r].pc = "read" => tx[r] = NotBegun

Guarding(r) ==
    tx[r].pc = "assert" => tx[r].at \in Organizations /\ r \in lock[tx[r].at]

Leaving(r) ==
    Kind(r) = "leave" =>
        /\ tx[r].gone = {}
        /\ tx[r].pc \in {"check", "lock", "assert", "remove"} => SeenStands(r) /\ tx[r].at \in Organizations
        /\ tx[r].pc = "remove" => tx[r].seen[tx[r].at] # "owner" \/ Keeps(r, tx[r].at)

Demoting(r) ==
    Kind(r) = "demote" =>
        /\ tx[r].pc \in {"save", "lock", "assert", "write"} => tx[r].at \in Organizations
        /\ tx[r].pc = "write" => ~Owns(User(r), tx[r].at) \/ Keeps(r, tx[r].at)

Deleting(r) ==
    Kind(r) = "deleteAccount" =>
        /\ tx[r].pc \in {"read", "owned", "drop"} => tx[r].left = {}
        /\ tx[r].pc \in {"members", "lock", "assert", "remove"} =>
              /\ SeenStands(r)
              /\ \A o \in tx[r].left : tx[r].seen[o] = "owner" => Keeps(r, o)
              /\ \A o \in Organizations : tx[r].seen[o] = "owner" =>
                    o \in tx[r].todo \cup tx[r].left \/ (tx[r].pc # "members" /\ o = tx[r].at)
        /\ tx[r].pc \in {"drop", "lock", "assert", "remove"} => tx[r].at \in Organizations
        /\ tx[r].pc = "remove" => tx[r].seen[tx[r].at] # "owner" \/ Keeps(r, tx[r].at)

\* The guest's household is the one read first.
Reconciling(r) ==
    Kind(r) \in {"keepWork", "dropWork"} =>
        /\ tx[r].pc = "read" => \A o, p \in Organizations : Owns(User(r), o) /\ Owns(User(r), p) => o = p
        /\ tx[r].pc = "resolve" => \A o \in Organizations : Owns(User(r), o) => o \in tx[r].mine

Request(r) ==
    /\ KindOfStep(r) /\ Guarding(r)
    /\ Leaving(r) /\ Demoting(r) /\ Deleting(r) /\ Reconciling(r)

IInv == Types /\ Exclusive /\ OwnerRetained /\ \A r \in Requests : Request(r)

-----------------------------------------------------------------------------
(* What a step does to the others. *)

\* Only r moves, and of the locks only r's come and go, a new one on a free row.
OnlyItself(r) ==
    /\ plan' = plan
    /\ \A s \in Requests \ {r} : tx'[s] = tx[s]
    /\ \A o \in Organizations :
          /\ lock[o] \ {r} \subseteq lock'[o] /\ lock'[o] \subseteq lock[o] \cup {r}
          /\ r \in lock'[o] => r \in lock[o] \/ lock[o] = {}

OnlyGains(r) == \A o \in Organizations, u \in Users : Owns(u, o)' => Owns(u, o) \/ u \in Gains(plan[r])

\* A household keeps its owners, or has a new one, or loses r's user under r's lock and has another.
KeepsOwner(r, o) ==
    \/ \E u \in Users : Owns(u, o)' /\ u \in Gains(plan[r])
    \/ /\ o \in organizations \ orphaned
       /\ \/ \A u \in Users : Owns(u, o) => Owns(u, o)'
          \/ /\ r \in lock[o]
             /\ \E u \in Users \ {User(r)} : Owns(u, o)'

Effect(r) ==
    /\ OnlyItself(r) /\ OnlyGains(r)
    /\ \A o \in organizations' \ orphaned' : o \in Organizations => KeepsOwner(r, o)

Step(r) == Effect(r) /\ Types' /\ Request(r)'

LEMMA PlansAre ==
    ASSUME plan \in Workloads, NEW r \in Requests
    PROVE  /\ plan[r] \in Plans
           /\ Gains(plan[r]) \subseteq Users
           /\ Kind(r) \in {"leave", "demote", "deleteAccount", "keepWork", "dropWork"} =>
                 Leaves(plan[r]) = {User(r)}
<1>1. plan[r] \in Plans
  BY OrganizationAssumption
<1> QED BY <1>1 DEF Plans, Gains, Leaves, Kind, User

\* A household that r leaves or demotes in, another request holds no more than before.
LEMMA KeepsStands ==
    ASSUME IInv, Settled, NEW r \in Requests, Effect(r), Types',
           NEW s \in Requests \ {r}, User(s) \in Leaves(plan[s]), NEW o, Keeps(s, o)
    PROVE  Keeps(s, o)'
<1>1. o \in Organizations /\ s \in lock'[o] /\ User(s)' = User(s)
  BY DEF Effect, OnlyItself, Keeps, User
<1>2. ASSUME o \in organizations' \ orphaned'
      PROVE  \E u \in Users \ {User(s)} : Owns(u, o)'
  <2>1. CASE \E u \in Users : Owns(u, o)' /\ u \in Gains(plan[r])
    <3>1. Gains(plan[r]) \cap Leaves(plan[s]) = {}
      BY DEF Settled, IInv, Types
    <3> QED BY <2>1, <3>1
  <2>2. CASE o \in organizations \ orphaned /\ \A u \in Users : Owns(u, o) => Owns(u, o)'
    BY <2>2 DEF Keeps
  <2>3. CASE r \in lock[o]
    <3>1. r = s
      BY <2>3, <1>1 DEF IInv, Exclusive, Keeps
    <3> QED BY <3>1
  <2> QED BY <1>1, <1>2, <2>1, <2>2, <2>3 DEF Effect, KeepsOwner
<1> QED BY <1>1, <1>2 DEF Keeps

LEMMA RequestStands ==
    ASSUME IInv, Settled, NEW r \in Requests, Effect(r), Types', NEW s \in Requests \ {r}
    PROVE  Request(s)'
<1>1. tx'[s] = tx[s] /\ plan' = plan /\ Kind(s)' = Kind(s) /\ User(s)' = User(s)
  BY DEF Effect, OnlyItself, Kind, User
<1>2. Request(s) /\ plan[s] \in Plans /\ User(s) \in Users
  BY PlansAre DEF IInv, Types, Plans, User
<1>3. \A o \in Organizations : s \in lock[o] => s \in lock'[o]
  BY DEF Effect, OnlyItself
<1>4. KindOfStep(s)' /\ Guarding(s)'
  BY <1>1, <1>2, <1>3 DEF Request, KindOfStep, Guarding
<1>5. ASSUME Kind(s) \in {"leave", "demote", "deleteAccount", "keepWork", "dropWork"}
      PROVE  /\ User(s) \in Leaves(plan[s])
             /\ \A o \in Organizations : Owns(User(s), o)' => Owns(User(s), o)
             /\ \A o : Keeps(s, o) => Keeps(s, o)'
  <2>1. User(s) \in Leaves(plan[s])
    BY <1>5, PlansAre DEF IInv, Types
  <2>2. Gains(plan[r]) \cap Leaves(plan[s]) = {}
    BY DEF Settled, IInv, Types
  <2>3. \A o : Keeps(s, o) => Keeps(s, o)'
    BY <2>1, KeepsStands
  <2>4. \A o \in Organizations : Owns(User(s), o)' => Owns(User(s), o)
    <3> SUFFICES ASSUME NEW o \in Organizations, members'[o][User(s)] = "owner"
                 PROVE  members[o][User(s)] = "owner"
      BY <1>1 DEF Owns
    <3>1. members[o][User(s)] = "owner" \/ User(s) \in Gains(plan[r])
      BY <1>2 DEF Effect, OnlyGains, Owns
    <3> QED BY <2>1, <2>2, <3>1
  <2> QED BY <2>1, <2>3, <2>4
<1>6. SeenStands(s) /\ Kind(s) \in {"leave", "deleteAccount"} => SeenStands(s)'
  BY <1>1, <1>5 DEF SeenStands
<1>7. Leaving(s)'
  BY <1>1, <1>2, <1>5, <1>6 DEF Request, Leaving
<1>8. Demoting(s)'
  BY <1>1, <1>2, <1>5 DEF Request, Demoting
<1>9. Deleting(s)'
  BY <1>1, <1>2, <1>5, <1>6 DEF Request, Deleting
<1>10. Reconciling(s)'
  BY <1>1, <1>2, <1>5 DEF Request, Reconciling
<1> QED BY <1>4, <1>7, <1>8, <1>9, <1>10 DEF Request

LEMMA StepKeeps ==
    ASSUME IInv, Settled, NEW r \in Requests, Step(r)
    PROVE  IInv'
<1>1. Exclusive'
  <2> SUFFICES ASSUME NEW o \in Organizations, NEW p \in lock'[o], NEW q \in lock'[o]
               PROVE  p = q
    BY DEF Exclusive
  <2>1. lock'[o] \subseteq lock[o] \cup {r} /\ (r \in lock'[o] => r \in lock[o] \/ lock[o] = {})
    BY DEF Step, Effect, OnlyItself
  <2> QED BY <2>1 DEF IInv, Exclusive
<1>2. OwnerRetained'
  <2> SUFFICES ASSUME NEW o \in organizations' \ orphaned'
               PROVE  \E u \in Users : Owns(u, o)'
    BY DEF OwnerRetained, Owns
  <2>1. KeepsOwner(r, o)
    BY DEF Step, Effect, Types
  <2> QED BY <2>1 DEF KeepsOwner, IInv, OwnerRetained, Owns
<1>3. \A s \in Requests : Request(s)'
  BY RequestStands DEF Step
<1> QED BY <1>1, <1>2, <1>3 DEF IInv, Step
-----------------------------------------------------------------------------
(* Requests that end, and steps that write no rows. *)

LEMMA Ended ==
    ASSUME IInv, NEW r \in Requests, Goto(r, "answered"), lock' = UnlockedBy(r), UNCHANGED plan
    PROVE  /\ OnlyItself(r) /\ Request(r)'
           /\ tx' \in [Requests -> Transactions] /\ lock' \in [Organizations -> SUBSET Requests]
<1>1. tx[r] \in Transactions /\ Request(r)
  BY DEF IInv, Types
<1>2. /\ tx' \in [Requests -> Transactions] /\ \A s \in Requests \ {r} : tx'[s] = tx[s]
      /\ tx'[r].pc = "answered" /\ tx'[r].gone = tx[r].gone
  BY <1>1 DEF Goto, IInv, Types, Transactions, Steps
<1>3. Request(r)'
  BY <1>1, <1>2 DEF Request, KindOfStep, Guarding, Leaving, Demoting, Deleting, Reconciling, Kind
<1>4. lock' \in [Organizations -> SUBSET Requests]
  BY DEF UnlockedBy, IInv, Types
<1> QED BY <1>2, <1>3, <1>4 DEF OnlyItself, UnlockedBy

LEMMA RowsStand ==
    ASSUME IInv, NEW r \in Requests, UNCHANGED Rows
    PROVE  OnlyGains(r) /\ \A o \in organizations' \ orphaned' : o \in Organizations => KeepsOwner(r, o)
BY DEF Rows, OnlyGains, KeepsOwner, Owns

LEMMA RolledBack ==
    ASSUME IInv, NEW r \in Requests, RollBack(r)
    PROVE  Step(r)
<1>1. Goto(r, "answered") /\ lock' = UnlockedBy(r) /\ UNCHANGED plan /\ UNCHANGED Rows
  BY DEF RollBack
<1> QED BY <1>1, Ended, RowsStand DEF Step, Effect, Types, IInv, Rows

LEMMA Moved ==
    ASSUME IInv, NEW r \in Requests, UNCHANGED <<Rows, plan>>,
           tx' \in [Requests -> Transactions], \A s \in Requests \ {r} : tx'[s] = tx[s],
           \/ lock' = lock
           \/ \E o \in Organizations : lock[o] \subseteq {r} /\ lock' = [lock EXCEPT ![o] = {r}],
           Request(r)'
    PROVE  Step(r)
<1>1. OnlyItself(r) /\ lock' \in [Organizations -> SUBSET Requests]
  <2>1. CASE lock' = lock
    BY <2>1 DEF OnlyItself, IInv, Types
  <2>2. CASE \E o \in Organizations : lock[o] \subseteq {r} /\ lock' = [lock EXCEPT ![o] = {r}]
    <3>1. PICK p \in Organizations : lock[p] \subseteq {r} /\ lock' = [lock EXCEPT ![p] = {r}]
      BY <2>2
    <3>2. lock' \in [Organizations -> SUBSET Requests]
      BY <3>1 DEF IInv, Types
    <3>3. ASSUME NEW o \in Organizations
          PROVE  /\ lock[o] \ {r} \subseteq lock'[o] /\ lock'[o] \subseteq lock[o] \cup {r}
                 /\ r \in lock'[o] => r \in lock[o] \/ lock[o] = {}
      BY <3>1 DEF IInv, Types
    <3> QED BY <3>2, <3>3 DEF OnlyItself
  <2> QED BY <2>1, <2>2
<1>2. UNCHANGED Rows
  OBVIOUS
<1> QED BY <1>1, <1>2, RowsStand DEF Step, Effect, Types, IInv, Rows

\* What a request reads, and whom it finds.
LEMMA Readings ==
    ASSUME IInv, NEW r \in Requests
    PROVE  /\ StandingsOf(r) \in [Organizations -> Standings]
           /\ \A o \in Organizations :
                 Owns(User(r), o) /\ o \notin tx[r].left => StandingsOf(r)[o] = "owner" \/ o \in tx[r].gone
           /\ \A o \in Organizations : AnotherOwner(r, o) => \E u \in Users \ {User(r)} : Owns(u, o)
<1>1. User(r) \in Users
  BY PlansAre DEF IInv, Types, Plans, User
<1> QED BY <1>1 DEF StandingsOf, Standing, AnotherOwner, Owns, Standings, IInv, Types

\* A request keeps what it holds while nothing is written.
LEMMA StillKeeps ==
    ASSUME NEW r \in Requests, UNCHANGED <<Rows, plan>>, NEW o, Keeps(r, o), r \in lock'[o]
    PROVE  Keeps(r, o)'
BY DEF Keeps, Rows, Owns, User
-----------------------------------------------------------------------------
(* The guard. *)

LEMMA LockStep ==
    ASSUME IInv, NEW r \in Requests, LockOrganization(r)
    PROVE  Step(r)
<1>1. tx[r] \in Transactions /\ Request(r) /\ tx[r].at \in Organizations
  BY DEF IInv, Types, LockOrganization
<1>2. /\ tx' \in [Requests -> Transactions] /\ \A s \in Requests \ {r} : tx'[s] = tx[s]
      /\ tx'[r] = [tx[r] EXCEPT !.pc = "assert"]
  BY <1>1 DEF LockOrganization, Goto, IInv, Types, Transactions, Steps
<1>3. tx[r].pc = "lock" /\ lock[tx[r].at] \subseteq {r} /\ lock' = [lock EXCEPT ![tx[r].at] = {r}]
  BY DEF LockOrganization, Free
<1>4. UNCHANGED <<Rows, plan>>
  BY DEF LockOrganization
<1>5. ASSUME NEW o, Keeps(r, o) PROVE Keeps(r, o)'
  <2>1. r \in lock'[o]
    BY <1>1, <1>3, <1>5 DEF Keeps, IInv, Types
  <2> QED BY <1>4, <1>5, <2>1, StillKeeps
<1>6. tx'[r].pc = "assert" /\ tx'[r].at = tx[r].at /\ tx'[r].seen = tx[r].seen
      /\ tx'[r].gone = tx[r].gone /\ tx'[r].left = tx[r].left /\ tx'[r].todo = tx[r].todo
  BY <1>1, <1>2 DEF Transactions
<1>7. SeenStands(r) => SeenStands(r)'
  BY <1>4, <1>6 DEF SeenStands, Rows, Owns, User
<1>8. r \in lock'[tx[r].at]
  BY <1>1, <1>3 DEF IInv, Types
<1>9. Request(r)'
  BY <1>1, <1>3, <1>4, <1>5, <1>6, <1>7, <1>8
     DEF Request, KindOfStep, Guarding, Leaving, Demoting, Deleting, Reconciling, Kind
<1> QED BY <1>1, <1>2, <1>3, <1>4, <1>9, Moved

LEMMA AssertStep ==
    ASSUME IInv, NEW r \in Requests, AssertAnotherActiveOwner(r)
    PROVE  Step(r)
<1>1. CASE ~AnotherOwner(r, tx[r].at)
  BY <1>1, RolledBack DEF AssertAnotherActiveOwner
<1>2. CASE AnotherOwner(r, tx[r].at)
  <2> DEFINE pc == IF Kind(r) = "demote" THEN "write" ELSE "remove"
  <2>1. tx[r] \in Transactions /\ Request(r) /\ tx[r].pc = "assert"
    BY DEF IInv, Types, AssertAnotherActiveOwner
  <2>2. tx[r].at \in Organizations /\ r \in lock[tx[r].at]
    BY <2>1 DEF Request, Guarding
  <2>3. Goto(r, pc) /\ UNCHANGED <<Rows, plan, lock>>
    BY <1>2 DEF AssertAnotherActiveOwner
  <2>4. /\ tx' \in [Requests -> Transactions] /\ \A s \in Requests \ {r} : tx'[s] = tx[s]
        /\ tx'[r] = [tx[r] EXCEPT !.pc = pc]
    BY <2>1, <2>3 DEF Goto, IInv, Types, Transactions, Steps
  <2>5. tx'[r].pc = pc /\ tx'[r].at = tx[r].at /\ tx'[r].seen = tx[r].seen
        /\ tx'[r].gone = tx[r].gone /\ tx'[r].left = tx[r].left /\ tx'[r].todo = tx[r].todo
    BY <2>1, <2>4 DEF Transactions
  <2>6. \A o : Keeps(r, o) => Keeps(r, o)'
    BY <2>3, StillKeeps DEF Keeps
  <2>7. Keeps(r, tx[r].at)
    BY <1>2, <2>2, Readings DEF Keeps
  <2>8. SeenStands(r) => SeenStands(r)'
    BY <2>3, <2>5 DEF SeenStands, Rows, Owns, User
  <2>9. Request(r)'
    BY <2>1, <2>2, <2>3, <2>5, <2>6, <2>7, <2>8
       DEF Request, KindOfStep, Guarding, Leaving, Demoting, Deleting, Reconciling, Kind
  <2> QED BY <2>3, <2>4, <2>9, Moved
<1> QED BY <1>1, <1>2
-----------------------------------------------------------------------------
(* Steps that only read. *)

\* Of r nothing changed but the transaction, now t.
Only(r, t) ==
    /\ tx'[r] = t /\ Kind(r)' = Kind(r) /\ User(r)' = User(r)
    /\ \A o : Keeps(r, o) => Keeps(r, o)'
    /\ \A o : Owns(User(r), o)' <=> Owns(User(r), o)

LEMMA Quiet ==
    ASSUME IInv, NEW r \in Requests, NEW t \in Transactions, tx' = [tx EXCEPT ![r] = t],
           UNCHANGED <<Rows, plan, lock>>
    PROVE  Only(r, t) /\ (Request(r)' => Step(r))
<1>1. tx' \in [Requests -> Transactions] /\ \A s \in Requests \ {r} : tx'[s] = tx[s]
  BY DEF IInv, Types
<1>2. tx'[r] = t /\ Kind(r)' = Kind(r) /\ User(r)' = User(r)
  BY DEF IInv, Types, Kind, User
<1>3. \A o : Keeps(r, o) => Keeps(r, o)'
  BY StillKeeps DEF Keeps
<1>4. \A o : Owns(User(r), o)' <=> Owns(User(r), o)
  BY <1>2 DEF Rows, Owns
<1>5. Request(r)' => Step(r)
  BY <1>1, Moved
<1> QED BY <1>2, <1>3, <1>4, <1>5 DEF Only

LEMMA ReadMembershipStep ==
    ASSUME IInv, NEW r \in Requests, ReadMembership(r)
    PROVE  Step(r)
<1> DEFINE o == plan[r].organization
           t == [tx[r] EXCEPT !.pc = "check", !.at = o, !.seen = StandingsOf(r)]
<1>1. CASE RollBack(r)
  BY <1>1, RolledBack
<1>2. CASE tx' = [tx EXCEPT ![r].pc = "check", ![r].at = o, ![r].seen = StandingsOf(r)]
           /\ UNCHANGED <<Rows, plan, lock>>
  <2>1. tx[r] = NotBegun /\ tx[r] \in Transactions /\ Request(r) /\ Kind(r) \in {"leave", "deleteOrganization"}
    BY DEF IInv, Types, Request, KindOfStep, ReadMembership
  <2>2. o \in Organizations
    BY <2>1, PlansAre DEF IInv, Types, Plans, Kind
  <2>3. t \in Transactions /\ tx' = [tx EXCEPT ![r] = t]
    BY <1>2, <2>1, <2>2, Readings DEF IInv, Types, Transactions, Steps
  <2>4. t.pc = "check" /\ t.at = o /\ t.seen = StandingsOf(r) /\ t.gone = {} /\ t.left = {}
    BY <2>1 DEF NotBegun
  <2>still. Only(r, t) /\ (Request(r)' => Step(r))
    BY <1>2, <2>3, Quiet
  <2> HIDE DEF t
  <2>5. SeenStands(r)'
    <3>1. tx[r].left = {} /\ tx[r].gone = {}
      BY <2>1 DEF NotBegun
    <3> QED BY <1>2, <2>3, <2>4, <3>1, Readings, <2>still DEF Only, SeenStands
  <2>6. Request(r)'
    BY <1>2, <2>1, <2>2, <2>3, <2>4, <2>5, <2>still
       DEF Only, Request, KindOfStep, Guarding, Leaving, Demoting, Deleting, Reconciling
  <2> QED BY <2>6, <2>still
<1> QED BY <1>1, <1>2 DEF ReadMembership

\* Steps that only go on to another.
LEMMA CheckSoleOwnerStep ==
    ASSUME IInv, NEW r \in Requests, CheckSoleOwner(r)
    PROVE  Step(r)
<1>1. CASE RollBack(r)
  BY <1>1, RolledBack
<1>2. CASE Goto(r, BeginDelete(r, tx[r].at)) /\ UNCHANGED <<Rows, plan, lock>>
  <2> DEFINE t == [tx[r] EXCEPT !.pc = BeginDelete(r, tx[r].at)]
  <2>1. tx[r] \in Transactions /\ Request(r) /\ Kind(r) = "leave" /\ tx[r].pc = "check"
    BY DEF IInv, Types, CheckSoleOwner
  <2>2. t \in Transactions /\ tx' = [tx EXCEPT ![r] = t]
    BY <1>2, <2>1 DEF Goto, BeginDelete, IInv, Types, Transactions, Steps
  <2>3. /\ t.pc = BeginDelete(r, tx[r].at) /\ t.at = tx[r].at /\ t.seen = tx[r].seen
        /\ t.gone = tx[r].gone
    BY <2>1 DEF Transactions
  <2>still. Only(r, t) /\ (Request(r)' => Step(r))
    BY <1>2, <2>2, Quiet
  <2> HIDE DEF t
  <2>4. SeenStands(r)'
    BY <1>2, <2>1, <2>2, <2>3, <2>still DEF Only, SeenStands, Request, Leaving
  <2>5. Request(r)'
    BY <1>2, <2>1, <2>2, <2>3, <2>4, <2>still
       DEF Only, Request, KindOfStep, Guarding, Leaving, Demoting, Deleting, Reconciling, BeginDelete
  <2> QED BY <2>5, <2>still
<1> QED BY <1>1, <1>2 DEF CheckSoleOwner

LEMMA LoadMemberStep ==
    ASSUME IInv, NEW r \in Requests, LoadMember(r)
    PROVE  Step(r)
<1> DEFINE o == plan[r].organization
           t == [tx[r] EXCEPT !.pc = "save", !.at = o]
<1>1. CASE RollBack(r)
  BY <1>1, RolledBack
<1>2. CASE tx' = [tx EXCEPT ![r].pc = "save", ![r].at = o] /\ UNCHANGED <<Rows, plan, lock>>
  <2>1. tx[r] \in Transactions /\ Request(r) /\ Kind(r) \in {"promote", "demote"}
    BY DEF IInv, Types, LoadMember
  <2>2. o \in Organizations
    BY <2>1, PlansAre DEF IInv, Types, Plans, Kind
  <2>3. t \in Transactions /\ tx' = [tx EXCEPT ![r] = t] /\ t.pc = "save" /\ t.at = o
    BY <1>2, <2>1, <2>2 DEF IInv, Types, Transactions, Steps
  <2>still. Only(r, t) /\ (Request(r)' => Step(r))
    BY <1>2, <2>3, Quiet
  <2> HIDE DEF t
  <2>4. Request(r)'
    BY <1>2, <2>1, <2>2, <2>3, <2>still
       DEF Only, Request, KindOfStep, Guarding, Leaving, Demoting, Deleting, Reconciling
  <2> QED BY <2>4, <2>still
<1> QED BY <1>1, <1>2 DEF LoadMember

LEMMA SaveMemberStep ==
    ASSUME IInv, NEW r \in Requests, SaveMember(r)
    PROVE  Step(r)
<1> DEFINE pc == IF Kind(r) = "demote" /\ Owns(User(r), tx[r].at) THEN "lock" ELSE "write"
           t == [tx[r] EXCEPT !.pc = pc]
<1>1. tx[r] \in Transactions /\ Request(r) /\ tx[r].pc = "save"
  BY DEF IInv, Types, SaveMember
<1>2. t \in Transactions /\ tx' = [tx EXCEPT ![r] = t] /\ UNCHANGED <<Rows, plan, lock>>
  BY <1>1 DEF SaveMember, Goto, Owns, IInv, Types, Transactions, Steps
<1>3. t.pc = pc /\ t.at = tx[r].at
  BY <1>1 DEF Transactions
<1>still. Only(r, t) /\ (Request(r)' => Step(r))
  BY <1>2, Quiet
<1> HIDE DEF t
<1>4. Request(r)'
  BY <1>1, <1>2, <1>3, <1>still
     DEF Only, Request, KindOfStep, Guarding, Leaving, Demoting, Deleting, Reconciling
<1> QED BY <1>4, <1>still

LEMMA LookStep ==
    ASSUME IInv, NEW r \in Requests, LookForOrganization(r)
    PROVE  Step(r)
<1> DEFINE t == [tx[r] EXCEPT !.pc = "create"]
<1>1. CASE RollBack(r)
  BY <1>1, RolledBack
<1>2. CASE Goto(r, "create") /\ UNCHANGED <<Rows, plan, lock>>
  <2>1. tx[r] \in Transactions /\ Request(r) /\ Kind(r) = "provision"
    BY DEF IInv, Types, LookForOrganization
  <2>2. t \in Transactions /\ tx' = [tx EXCEPT ![r] = t] /\ t.pc = "create"
    BY <1>2, <2>1 DEF Goto, IInv, Types, Transactions, Steps
  <2>still. Only(r, t) /\ (Request(r)' => Step(r))
    BY <1>2, <2>2, Quiet
  <2> HIDE DEF t
  <2>3. Request(r)'
    BY <1>2, <2>1, <2>2, <2>still
       DEF Only, Request, KindOfStep, Guarding, Leaving, Demoting, Deleting, Reconciling
  <2> QED BY <2>3, <2>still
<1> QED BY <1>1, <1>2 DEF LookForOrganization

LEMMA Least ==
    ASSUME NEW S, S \subseteq Nat, S # {}
    PROVE  Min(S) \in S
<1> DEFINE R == OpToRel(<, Nat)
<1>1. IsWellFoundedOn(R, Nat)
  BY NatLessThanWellFounded
<1>2. \A x, y \in Nat : x < y => <<x, y>> \in R
  BY DEF OpToRel
<1> HIDE DEF R
<1>3. PICK x \in S : \A y \in S : ~(<<y, x>> \in R)
  BY <1>1, WFMin
<1>4. \A y \in S : x =< y
  <2> SUFFICES ASSUME NEW y \in S, ~(x =< y) PROVE FALSE
    OBVIOUS
  <2>1. x \in Nat /\ y \in Nat
    OBVIOUS
  <2>2. y < x
    BY <2>1
  <2> QED BY <1>2, <1>3, <2>1, <2>2
<1> QED BY <1>4 DEF Min

LEMMA LandingIs ==
    ASSUME NEW u
    PROVE  /\ Landing(u) \subseteq Organizations
           /\ \A o \in Organizations :
                 Owns(u, o) /\ (\A p \in Organizations : Owns(u, p) => p = o) => o \in Landing(u)
<1>1. Owned(u) \subseteq Organizations /\ Organizations \subseteq Nat
  BY OrganizationAssumption DEF Owned, Organizations
<1>2. Owned(u) # {} => Min(Owned(u)) \in Owned(u)
  BY <1>1, Least
<1>3. Landing(u) \subseteq Organizations
  BY <1>1, <1>2 DEF Landing, Joined
<1>4. ASSUME NEW o \in Organizations, Owns(u, o), \A p \in Organizations : Owns(u, p) => p = o
      PROVE  o \in Landing(u)
  <2>1. Owned(u) = {o}
    BY <1>4 DEF Owned, Owns
  <2>2. Min(Owned(u)) = o /\ Owned(u) # {}
    BY <1>2, <2>1
  <2> QED BY <2>2 DEF Landing
<1> QED BY <1>3, <1>4

\* A guest owns at most one household, and lands in one they own before any other.
LEMMA ReadWorkingStep ==
    ASSUME IInv, NEW r \in Requests, ReadWorking(r)
    PROVE  Step(r)
<1> DEFINE prior == IF Kind(r) = "keepWork" THEN Landing(plan[r].target) ELSE {}
           t == [tx[r] EXCEPT !.pc = "resolve", !.mine = Landing(User(r)), !.prior = prior]
<1>1. tx[r] \in Transactions /\ Request(r) /\ tx[r].pc = "read" /\ Kind(r) \in {"keepWork", "dropWork"}
  BY DEF IInv, Types, ReadWorking
<1>2. Landing(User(r)) \subseteq Organizations /\ prior \subseteq Organizations
  BY LandingIs
<1>3. tx' = [tx EXCEPT ![r].pc = "resolve", ![r].mine = Landing(User(r)), ![r].prior = prior]
      /\ UNCHANGED <<Rows, plan, lock>>
  BY DEF ReadWorking
<1> HIDE DEF prior
<1>4. t \in Transactions /\ tx' = [tx EXCEPT ![r] = t] /\ t.pc = "resolve" /\ t.mine = Landing(User(r))
  BY <1>1, <1>2, <1>3 DEF IInv, Types, Transactions, Steps
<1>still. Only(r, t) /\ (Request(r)' => Step(r))
  BY <1>3, <1>4, Quiet
<1> HIDE DEF t
<1>5. \A o \in Organizations : Owns(User(r), o) => o \in t.mine
  BY <1>1, <1>4, LandingIs DEF Request, Reconciling
<1>6. Request(r)'
  BY <1>1, <1>3, <1>4, <1>5, <1>still
     DEF Only, Request, KindOfStep, Guarding, Leaving, Demoting, Deleting, Reconciling
<1> QED BY <1>6, <1>still
-----------------------------------------------------------------------------
(* Deleting an account. *)

LEMMA ListOwnedStep ==
    ASSUME IInv, NEW r \in Requests, ListOwned(r)
    PROVE  Step(r)
<1> DEFINE t == [tx[r] EXCEPT !.pc = "owned", !.todo = Owned(User(r))]
<1>1. tx[r] \in Transactions /\ Request(r) /\ tx[r].pc = "read" /\ Kind(r) = "deleteAccount"
  BY DEF IInv, Types, ListOwned
<1>2. t \in Transactions /\ tx' = [tx EXCEPT ![r] = t] /\ UNCHANGED <<Rows, plan, lock>>
  BY <1>1 DEF ListOwned, Owned, IInv, Types, Transactions, Steps
<1>3. t.pc = "owned" /\ t.left = tx[r].left
  BY <1>1 DEF Transactions
<1>still. Only(r, t) /\ (Request(r)' => Step(r))
  BY <1>2, Quiet
<1> HIDE DEF t
<1>4. Request(r)'
  BY <1>1, <1>2, <1>3, <1>still
     DEF Only, Request, KindOfStep, Guarding, Leaving, Demoting, Deleting, Reconciling
<1> QED BY <1>4, <1>still

LEMMA DecideOwnedStep ==
    ASSUME IInv, NEW r \in Requests, DecideOwned(r)
    PROVE  Step(r)
<1>1. tx[r] \in Transactions /\ Request(r) /\ tx[r].pc = "owned" /\ Kind(r) = "deleteAccount"
  BY DEF IInv, Types, DecideOwned, Request, KindOfStep
<1>2. PICK o \in tx[r].todo :
           tx' = [tx EXCEPT ![r].todo = @ \ {o}, ![r].at = o,
                            ![r].pc = IF AnotherOwner(r, o) /\ o \in plan[r].keep THEN "owned" ELSE "drop"]
  BY DEF DecideOwned
<1> DEFINE t == [tx[r] EXCEPT !.todo = @ \ {o}, !.at = o,
                     !.pc = IF AnotherOwner(r, o) /\ o \in plan[r].keep THEN "owned" ELSE "drop"]
<1>3. t \in Transactions /\ tx' = [tx EXCEPT ![r] = t] /\ UNCHANGED <<Rows, plan, lock>>
  BY <1>1, <1>2 DEF DecideOwned, IInv, Types, Transactions, Steps
<1>4. t.pc \in {"owned", "drop"} /\ t.left = tx[r].left /\ t.at \in Organizations
  BY <1>1 DEF Transactions
<1>still. Only(r, t) /\ (Request(r)' => Step(r))
  BY <1>3, Quiet
<1> HIDE DEF t
<1>5. Request(r)'
  BY <1>1, <1>3, <1>4, <1>still
     DEF Only, Request, KindOfStep, Guarding, Leaving, Demoting, Deleting, Reconciling
<1> QED BY <1>5, <1>still

LEMMA DropOwnedStep ==
    ASSUME IInv, NEW r \in Requests, DropOwned(r)
    PROVE  Step(r)
<1> DEFINE t == [tx[r] EXCEPT !.pc = "owned", !.gone = @ \cup {tx[r].at}]
<1>1. tx[r] \in Transactions /\ Request(r) /\ tx[r].pc = "drop" /\ Kind(r) = "deleteAccount"
  BY DEF IInv, Types, DropOwned, Request, KindOfStep
<1>2. tx[r].at \in Organizations
  BY <1>1 DEF Request, Deleting
<1>3. t \in Transactions /\ tx' = [tx EXCEPT ![r] = t]
  BY <1>1, <1>2 DEF DropOwned, IInv, Types, Transactions, Steps
<1>4. /\ tx' \in [Requests -> Transactions] /\ \A s \in Requests \ {r} : tx'[s] = tx[s]
      /\ tx'[r].pc = "owned" /\ tx'[r].left = {}
  BY <1>1, <1>3 DEF IInv, Types, Request, Deleting, Transactions
<1>5. \/ lock' = lock
      \/ \E o \in Organizations : lock[o] \subseteq {r} /\ lock' = [lock EXCEPT ![o] = {r}]
  BY DEF DropOwned, Free, IInv, Types
<1>6. UNCHANGED <<Rows, plan>>
  BY DEF DropOwned
<1>7. Request(r)'
  BY <1>1, <1>4, <1>6
     DEF Request, KindOfStep, Guarding, Leaving, Demoting, Deleting, Reconciling, Kind
<1> QED BY <1>4, <1>5, <1>6, <1>7, Moved

LEMMA ListRemainingStep ==
    ASSUME IInv, NEW r \in Requests, ListRemaining(r)
    PROVE  Step(r)
<1> DEFINE seen == StandingsOf(r)
           todo == {o \in Organizations : Standing(r, o, User(r)) # "none"}
           t == [tx[r] EXCEPT !.pc = "members", !.seen = seen, !.todo = todo]
<1>1. tx[r] \in Transactions /\ Request(r) /\ tx[r].pc = "owned" /\ Kind(r) = "deleteAccount"
  BY DEF IInv, Types, ListRemaining, Request, KindOfStep
<1>2. seen \in [Organizations -> Standings]
  BY Readings
<1>3. tx' = [tx EXCEPT ![r].pc = "members", ![r].seen = seen, ![r].todo = todo]
      /\ UNCHANGED <<Rows, plan, lock>>
  BY DEF ListRemaining
<1>4. \A o \in Organizations : seen[o] = "owner" => o \in todo
  BY DEF StandingsOf
<1>5. \A o \in Organizations : Owns(User(r), o) => seen[o] = "owner" \/ o \in tx[r].gone
  BY <1>1, Readings DEF Request, Deleting
<1>6. todo \subseteq Organizations
  OBVIOUS
<1> HIDE DEF seen, todo
<1>7. t \in Transactions /\ tx' = [tx EXCEPT ![r] = t]
  BY <1>1, <1>2, <1>3, <1>6 DEF IInv, Types, Transactions, Steps
<1>8. t.pc = "members" /\ t.seen = seen /\ t.todo = todo /\ t.left = {} /\ t.gone = tx[r].gone
  BY <1>1 DEF Transactions, Request, Deleting
<1>still. Only(r, t) /\ (Request(r)' => Step(r))
  BY <1>3, <1>7, Quiet
<1> HIDE DEF t
<1>9. SeenStands(r)'
  BY <1>3, <1>5, <1>7, <1>8, <1>still DEF Only, SeenStands
<1>10. Request(r)'
  BY <1>1, <1>3, <1>4, <1>7, <1>8, <1>9, <1>still
     DEF Only, Request, KindOfStep, Guarding, Leaving, Demoting, Deleting, Reconciling
<1> QED BY <1>10, <1>still

LEMMA NextRemainingStep ==
    ASSUME IInv, NEW r \in Requests, NextRemaining(r)
    PROVE  Step(r)
<1>1. tx[r] \in Transactions /\ Request(r) /\ tx[r].pc = "members" /\ Kind(r) = "deleteAccount"
  BY DEF IInv, Types, NextRemaining, Request, KindOfStep
<1>2. PICK o \in tx[r].todo :
           tx' = [tx EXCEPT ![r].todo = @ \ {o}, ![r].at = o, ![r].pc = BeginDelete(r, o)]
  BY DEF NextRemaining
<1> DEFINE t == [tx[r] EXCEPT !.todo = @ \ {o}, !.at = o, !.pc = BeginDelete(r, o)]
<1>3. t \in Transactions /\ tx' = [tx EXCEPT ![r] = t] /\ UNCHANGED <<Rows, plan, lock>>
  BY <1>1, <1>2 DEF NextRemaining, BeginDelete, IInv, Types, Transactions, Steps
<1>4. /\ t.pc = BeginDelete(r, o) /\ t.at = o /\ t.todo = tx[r].todo \ {o} /\ t.left = tx[r].left
      /\ t.seen = tx[r].seen /\ t.gone = tx[r].gone /\ o \in Organizations
  BY <1>1 DEF Transactions
<1>still. Only(r, t) /\ (Request(r)' => Step(r))
  BY <1>3, Quiet
<1> HIDE DEF t
<1>5. SeenStands(r)'
  BY <1>1, <1>3, <1>4, <1>still DEF Only, SeenStands, Request, Deleting
<1>6. Deleting(r)'
  BY <1>1, <1>3, <1>4, <1>5, <1>still DEF Only, Request, Deleting, BeginDelete
<1>7. Request(r)'
  BY <1>1, <1>3, <1>4, <1>6, <1>still
     DEF Only, Request, KindOfStep, Guarding, Leaving, Demoting, Reconciling, BeginDelete
<1> QED BY <1>7, <1>still

LEMMA RemoveRemainingStep ==
    ASSUME IInv, NEW r \in Requests, RemoveRemaining(r)
    PROVE  Step(r)
<1> DEFINE t == [tx[r] EXCEPT !.pc = "members", !.left = @ \cup {tx[r].at}]
<1>1. tx[r] \in Transactions /\ Request(r) /\ tx[r].pc = "remove" /\ Kind(r) = "deleteAccount"
  BY DEF IInv, Types, RemoveRemaining
<1>2. tx[r].at \in Organizations
  BY <1>1 DEF Request, Deleting
<1>3. t \in Transactions /\ tx' = [tx EXCEPT ![r] = t] /\ UNCHANGED <<Rows, plan, lock>>
  BY <1>1, <1>2 DEF RemoveRemaining, IInv, Types, Transactions, Steps
<1>4. /\ t.pc = "members" /\ t.todo = tx[r].todo /\ t.left = tx[r].left \cup {tx[r].at}
      /\ t.seen = tx[r].seen /\ t.gone = tx[r].gone
  BY <1>1 DEF Transactions
<1>still. Only(r, t) /\ (Request(r)' => Step(r))
  BY <1>3, Quiet
<1> HIDE DEF t
<1>5. SeenStands(r)'
  BY <1>1, <1>3, <1>4, <1>still DEF Only, SeenStands, Request, Deleting
<1>6. Deleting(r)'
  BY <1>1, <1>3, <1>4, <1>5, <1>still DEF Only, Request, Deleting
<1>7. Request(r)'
  BY <1>1, <1>3, <1>4, <1>6, <1>still
     DEF Only, Request, KindOfStep, Guarding, Leaving, Demoting, Reconciling
<1> QED BY <1>7, <1>still
-----------------------------------------------------------------------------
(* Steps that write rows and end. *)

\* What is left to show of them.
LEMMA Written ==
    ASSUME IInv, NEW r \in Requests, Commit(r),
           organizations' \subseteq Organizations, created' \in Nat,
           members' \in [Organizations -> [Users -> Standings]],
           OnlyGains(r),
           \A o \in organizations' \ orphaned' : o \in Organizations => KeepsOwner(r, o)
    PROVE  Step(r)
<1>1. Goto(r, "answered") /\ lock' = UnlockedBy(r) /\ UNCHANGED plan
  BY DEF Commit
<1> QED BY <1>1, Ended DEF Step, Effect, Types, IInv

LEMMA LeaveStep ==
    ASSUME IInv, NEW r \in Requests, LeaveOrganization(r)
    PROVE  Step(r)
<1> DEFINE at == tx[r].at
<1>1. Request(r) /\ tx[r].pc = "remove" /\ Kind(r) = "leave" /\ Types
  BY DEF IInv, LeaveOrganization
<1>2. /\ at \in Organizations /\ User(r) \in Users /\ SeenStands(r) /\ tx[r].gone = {}
      /\ tx[r].seen[at] # "owner" \/ Keeps(r, at)
  BY <1>1, PlansAre DEF Request, Leaving, Types, Plans, User
<1>3. /\ members' = [members EXCEPT ![at][User(r)] = "none"]
      /\ Commit(r) /\ UNCHANGED <<organizations, users, created, orphaned>>
  BY DEF LeaveOrganization
<1>4. members' \in [Organizations -> [Users -> Standings]]
  BY <1>1, <1>2, <1>3 DEF Types, Standings
<1>5. \A o \in Organizations, u \in Users :
          /\ Owns(u, o)' => Owns(u, o)
          /\ (o # at \/ u # User(r)) /\ Owns(u, o) => Owns(u, o)'
  BY <1>1, <1>2, <1>3 DEF Types, Owns
<1>6. OnlyGains(r)
  BY <1>5 DEF OnlyGains
<1>7. ASSUME NEW o \in organizations' \ orphaned', o \in Organizations
      PROVE  KeepsOwner(r, o)
  <2>1. CASE o # at \/ ~Owns(User(r), at)
    BY <1>3, <1>5, <1>7, <2>1 DEF KeepsOwner
  <2>2. CASE o = at /\ Owns(User(r), at)
    BY <1>2, <1>3, <1>5, <1>7, <2>2 DEF KeepsOwner, Keeps, SeenStands
  <2> QED BY <2>1, <2>2
<1> QED BY <1>1, <1>3, <1>4, <1>6, <1>7, Written DEF Types

LEMMA DeleteStep ==
    ASSUME IInv, NEW r \in Requests, DeleteOrganization(r)
    PROVE  Step(r)
<1>1. CASE RollBack(r)
  BY <1>1, RolledBack
<1>2. CASE /\ organizations' = organizations \ {tx[r].at}
           /\ members' = [members EXCEPT ![tx[r].at] = Nobody]
           /\ Commit(r) /\ UNCHANGED <<users, created, orphaned>>
  <2>1. Types
    BY DEF IInv
  <2>2. members' \in [Organizations -> [Users -> Standings]]
    BY <1>2, <2>1 DEF Types, Nobody, Standings
  <2>3. \A o \in Organizations : members'[o] = IF o = tx[r].at THEN Nobody ELSE members[o]
    BY <1>2, <2>1 DEF Types
  <2>4. OnlyGains(r)
    BY <2>3 DEF OnlyGains, Owns, Nobody
  <2>5. \A o \in organizations' \ orphaned' : o \in Organizations => KeepsOwner(r, o)
    BY <1>2, <2>3 DEF KeepsOwner, Owns
  <2> QED BY <1>2, <2>1, <2>2, <2>4, <2>5, Written DEF Types
<1> QED BY <1>1, <1>2 DEF DeleteOrganization

\* The admin's form: a promotion gains, a demotion was guarded or is of no owner.
LEMMA WriteStep ==
    ASSUME IInv, NEW r \in Requests, WriteMember(r)
    PROVE  Step(r)
<1> DEFINE at == tx[r].at
           role == IF Kind(r) = "promote" THEN "owner" ELSE "other"
<1>1. CASE RollBack(r)
  BY <1>1, RolledBack
<1>2. CASE /\ at \in organizations
           /\ members' = [members EXCEPT ![at][User(r)] = role]
           /\ Commit(r) /\ UNCHANGED <<organizations, users, created, orphaned>>
  <2>1. Types /\ Request(r) /\ tx[r].pc = "write" /\ Kind(r) \in {"promote", "demote"}
    BY DEF IInv, WriteMember, Request, KindOfStep
  <2>2. User(r) \in Users /\ at \in Organizations
    BY <1>2, <2>1, PlansAre DEF Types, Plans, User
  <2>3. members' \in [Organizations -> [Users -> Standings]]
    BY <1>2, <2>1, <2>2 DEF Types, Standings
  <2>4. \A o \in Organizations, u \in Users :
            members'[o][u] = IF o = at /\ u = User(r) THEN role ELSE members[o][u]
    BY <1>2, <2>1, <2>2 DEF Types
  <2>5. Kind(r) = "promote" => User(r) \in Gains(plan[r])
    BY DEF Gains, Kind, User
  <2>6. OnlyGains(r)
    BY <2>4, <2>5 DEF OnlyGains, Owns
  <2>7. ASSUME NEW o \in organizations' \ orphaned', o \in Organizations
        PROVE  KeepsOwner(r, o)
    <3>1. CASE o # at \/ ~Owns(User(r), at) \/ Kind(r) = "promote"
      BY <1>2, <2>4, <2>7, <3>1 DEF KeepsOwner, Owns
    <3>2. CASE o = at /\ Owns(User(r), at) /\ Kind(r) = "demote"
      <4>1. Keeps(r, at)
        BY <2>1, <3>2 DEF Request, Demoting
      <4>2. r \in lock[o] /\ \E u \in Users \ {User(r)} : Owns(u, o)
        BY <1>2, <2>7, <3>2, <4>1 DEF Keeps
      <4>3. \A u \in Users \ {User(r)} : Owns(u, o) => Owns(u, o)'
        BY <2>4, <2>7 DEF Owns
      <4> QED BY <1>2, <2>7, <4>2, <4>3 DEF KeepsOwner
    <3> QED BY <2>1, <3>1, <3>2
  <2> QED BY <1>2, <2>1, <2>3, <2>6, <2>7, Written DEF Types
<1> QED BY <1>1, <1>2 DEF WriteMember

\* A user leaves every household with the account, the guarded ones under their locks.
LEMMA DeleteUserStep ==
    ASSUME IInv, NEW r \in Requests, DeleteUser(r)
    PROVE  Step(r)
<1>1. /\ Types /\ Request(r) /\ tx[r] \in Transactions
      /\ tx[r].pc = "members" /\ tx[r].todo = {} /\ Kind(r) = "deleteAccount"
  BY DEF IInv, Types, DeleteUser, Request, KindOfStep
<1>2. User(r) \in Users
  BY <1>1, PlansAre DEF Types, Plans, User
<1>3. /\ organizations' = organizations \ tx[r].gone /\ members' = AfterAccount(r)
      /\ Commit(r) /\ UNCHANGED <<created, orphaned>>
  BY DEF DeleteUser
<1>4. members' \in [Organizations -> [Users -> Standings]]
  BY <1>1, <1>2, <1>3 DEF AfterAccount, Without, Nobody, Types, Standings
<1>5. \A o \in Organizations, u \in Users :
          members'[o][u] = IF o \in tx[r].gone \/ u = User(r) THEN "none" ELSE members[o][u]
  BY <1>1, <1>2, <1>3 DEF AfterAccount, Without, Nobody, Types
<1>6. OnlyGains(r)
  BY <1>5 DEF OnlyGains, Owns
<1>7. ASSUME NEW o \in organizations' \ orphaned', o \in Organizations
      PROVE  KeepsOwner(r, o)
  <2>1. o \in organizations \ orphaned /\ o \notin tx[r].gone
    BY <1>3, <1>7
  <2>2. \A u \in Users \ {User(r)} : Owns(u, o) => Owns(u, o)'
    BY <1>5, <1>7, <2>1 DEF Owns
  <2>3. CASE ~Owns(User(r), o)
    BY <2>1, <2>2, <2>3 DEF KeepsOwner
  <2>4. CASE Owns(User(r), o)
    <3>1. tx[r].seen[o] = "owner"
      BY <1>1, <1>7, <2>1, <2>4 DEF Request, Deleting, SeenStands
    <3>2. o \in tx[r].left /\ Keeps(r, o)
      BY <1>1, <1>7, <3>1 DEF Request, Deleting
    <3> QED BY <2>1, <2>2, <3>2 DEF KeepsOwner, Keeps
  <2> QED BY <2>3, <2>4
<1> QED BY <1>1, <1>3, <1>4, <1>6, <1>7, Written DEF Types

LEMMA CreateStep ==
    ASSUME IInv, NEW r \in Requests, CreateForOwner(r)
    PROVE  Step(r)
<1>1. CASE RollBack(r)
  BY <1>1, RolledBack
<1>2. CASE /\ created < MaxOrganizations
           /\ created' = created + 1
           /\ organizations' = organizations \cup {created'}
           /\ members' = [members EXCEPT ![created'][User(r)] = "owner"]
           /\ Commit(r) /\ UNCHANGED <<users, orphaned>>
  <2>1. Types /\ Request(r) /\ Kind(r) = "provision"
    BY DEF IInv, CreateForOwner, Request, KindOfStep
  <2>2. User(r) \in Users /\ User(r) \in Gains(plan[r])
    BY <2>1, PlansAre DEF Types, Plans, User, Gains, Kind
  <2>3. created' \in Organizations /\ created' \in Nat
    BY <1>2, <2>1, OrganizationAssumption DEF Types, Organizations
  <2>4. members' \in [Organizations -> [Users -> Standings]]
    BY <1>2, <2>1, <2>2, <2>3 DEF Types, Standings
  <2>5. \A o \in Organizations, u \in Users :
            members'[o][u] = IF o = created' /\ u = User(r) THEN "owner" ELSE members[o][u]
    BY <1>2, <2>1, <2>2, <2>3 DEF Types
  <2>6. OnlyGains(r)
    BY <2>2, <2>5 DEF OnlyGains, Owns
  <2>7. \A o \in organizations' \ orphaned' : o \in Organizations => KeepsOwner(r, o)
    BY <1>2, <2>2, <2>3, <2>5 DEF KeepsOwner, Owns
  <2> QED BY <1>2, <2>1, <2>3, <2>4, <2>6, <2>7, Written DEF Types
<1> QED BY <1>1, <1>2 DEF CreateForOwner
-----------------------------------------------------------------------------
(* A guest's account proven to be another's. *)

LEMMA KeepWorkStep ==
    ASSUME IInv, NEW r \in Requests, KeepWork(r)
    PROVE  Step(r)
<1> DEFINE mine == tx[r].mine
           prior == tx[r].prior
           target == plan[r].target
<1>1. CASE RollBack(r)
  BY <1>1, RolledBack
<1>2. CASE /\ members' = [o \in Organizations |->
                   CASE o \in prior -> Nobody
                     [] o \in mine \ prior -> [Nobody EXCEPT ![target] = "owner"]
                     [] o \notin mine \cup prior -> Without(User(r))[o]]
           /\ orphaned' = (orphaned \ mine) \cup prior
           /\ Commit(r) /\ UNCHANGED <<organizations, created>>
  <2>1. Types /\ Request(r) /\ tx[r].pc = "resolve" /\ Kind(r) = "keepWork"
    BY DEF IInv, KeepWork
  <2>2. User(r) \in Users /\ target \in Users /\ target \in Gains(plan[r])
    BY <2>1, PlansAre DEF Types, Plans, User, Gains, Kind
  <2>3. \A o \in Organizations :
            members'[o] = IF o \in prior THEN Nobody
                          ELSE IF o \in mine THEN [Nobody EXCEPT ![target] = "owner"]
                          ELSE [members[o] EXCEPT ![User(r)] = "none"]
    BY <1>2 DEF Without
  <2>4. members' \in [Organizations -> [Users -> Standings]]
    <3>1. members' = [o \in Organizations |-> members'[o]]
      BY <1>2
    <3>2. ASSUME NEW o \in Organizations PROVE members'[o] \in [Users -> Standings]
      <4>1. members[o] \in [Users -> Standings] /\ Nobody \in [Users -> Standings]
        BY <2>1 DEF Types, Nobody, Standings
      <4>2. members'[o] \in {Nobody, [Nobody EXCEPT ![target] = "owner"], [members[o] EXCEPT ![User(r)] = "none"]}
        BY <2>3
      <4> QED BY <4>1, <4>2, <2>2 DEF Standings
    <3> QED BY <3>1, <3>2
  <2>5. OnlyGains(r)
    <3> SUFFICES ASSUME NEW o \in Organizations, NEW u \in Users, members'[o][u] = "owner"
                 PROVE  members[o][u] = "owner" \/ u \in Gains(plan[r])
      BY DEF OnlyGains, Owns
    <3>1. CASE o \in prior \cup mine
      BY <2>2, <2>3, <3>1 DEF Nobody
    <3>2. CASE o \notin prior \cup mine
      <4>1. members'[o] = [members[o] EXCEPT ![User(r)] = "none"] /\ members[o] \in [Users -> Standings]
        BY <2>1, <2>3, <3>2 DEF Types
      <4> QED BY <4>1
    <3> QED BY <3>1, <3>2
  <2>6. ASSUME NEW o \in organizations' \ orphaned', o \in Organizations
        PROVE  KeepsOwner(r, o)
    <3>1. CASE o \in mine
      BY <1>2, <2>2, <2>3, <2>6, <3>1 DEF KeepsOwner, Owns, Nobody
    <3>2. CASE o \notin mine
      <4>1. o \in organizations \ orphaned /\ o \notin prior
        BY <1>2, <2>6, <3>2
      <4>2. ~Owns(User(r), o)
        BY <2>1, <2>6, <3>2 DEF Request, Reconciling
      <4>3. \A u \in Users : Owns(u, o) => Owns(u, o)'
        <5>1. members'[o] = [members[o] EXCEPT ![User(r)] = "none"] /\ members[o] \in [Users -> Standings]
          BY <2>1, <2>3, <2>6, <3>2, <4>1 DEF Types
        <5> QED BY <4>2, <5>1 DEF Owns
      <4> QED BY <4>1, <4>3 DEF KeepsOwner
    <3> QED BY <3>1, <3>2
  <2> QED BY <1>2, <2>1, <2>4, <2>5, <2>6, Written DEF Types
<1> QED BY <1>1, <1>2 DEF KeepWork

LEMMA DropWorkStep ==
    ASSUME IInv, NEW r \in Requests, DropWork(r)
    PROVE  Step(r)
<1> DEFINE mine == tx[r].mine
<1>1. Types /\ Request(r) /\ tx[r].pc = "resolve" /\ Kind(r) = "dropWork"
  BY DEF IInv, DropWork
<1>2. /\ members' = [o \in Organizations |-> IF o \in mine THEN Nobody ELSE Without(User(r))[o]]
      /\ orphaned' = orphaned \cup mine
      /\ Commit(r) /\ UNCHANGED <<organizations, created>>
  BY DEF DropWork
<1>3. \A o \in Organizations :
          members'[o] = IF o \in mine THEN Nobody ELSE [members[o] EXCEPT ![User(r)] = "none"]
  BY <1>2 DEF Without
<1>4. members' \in [Organizations -> [Users -> Standings]]
  <2>1. members' = [o \in Organizations |-> members'[o]]
    BY <1>2
  <2>2. ASSUME NEW o \in Organizations PROVE members'[o] \in [Users -> Standings]
    <3>1. members[o] \in [Users -> Standings] /\ Nobody \in [Users -> Standings]
      BY <1>1 DEF Types, Nobody, Standings
    <3>2. members'[o] \in {Nobody, [members[o] EXCEPT ![User(r)] = "none"]}
      BY <1>3
    <3> QED BY <3>1, <3>2 DEF Standings
  <2> QED BY <2>1, <2>2
<1>5. OnlyGains(r)
  BY <1>1, <1>3 DEF OnlyGains, Owns, Nobody, Types
<1>6. ASSUME NEW o \in organizations' \ orphaned', o \in Organizations
      PROVE  KeepsOwner(r, o)
  <2>1. o \in organizations \ orphaned /\ o \notin mine
    BY <1>2, <1>6
  <2>2. ~Owns(User(r), o)
    BY <1>1, <1>6, <2>1 DEF Request, Reconciling
  <2>3. \A u \in Users : Owns(u, o) => Owns(u, o)'
    <3>1. members'[o] = [members[o] EXCEPT ![User(r)] = "none"] /\ members[o] \in [Users -> Standings]
      BY <1>1, <1>3, <1>6, <2>1 DEF Types
    <3> QED BY <2>2, <3>1 DEF Owns
  <2> QED BY <2>1, <2>3 DEF KeepsOwner
<1> QED BY <1>1, <1>2, <1>4, <1>5, <1>6, Written DEF Types
-----------------------------------------------------------------------------
(* The theorem. *)

LEMMA HandleStep ==
    ASSUME IInv, NEW r \in Requests, Handle(r)
    PROVE  Step(r)
<1>1. CASE LockOrganization(r) \/ OrganizationIsGone(r) \/ AssertAnotherActiveOwner(r)
  BY <1>1, LockStep, AssertStep, RolledBack DEF OrganizationIsGone
<1>2. CASE ReadMembership(r) \/ CheckSoleOwner(r) \/ LeaveOrganization(r) \/ DeleteOrganization(r)
  BY <1>2, ReadMembershipStep, CheckSoleOwnerStep, LeaveStep, DeleteStep
<1>3. CASE LoadMember(r) \/ SaveMember(r) \/ WriteMember(r)
  BY <1>3, LoadMemberStep, SaveMemberStep, WriteStep
<1>4. CASE ListOwned(r) \/ DecideOwned(r) \/ DropOwned(r) \/ ListRemaining(r) \/ NextRemaining(r)
  BY <1>4, ListOwnedStep, DecideOwnedStep, DropOwnedStep, ListRemainingStep, NextRemainingStep
<1>5. CASE RemoveRemaining(r) \/ DeleteUser(r)
  BY <1>5, RemoveRemainingStep, DeleteUserStep
<1>6. CASE LookForOrganization(r) \/ CreateForOwner(r)
  BY <1>6, LookStep, CreateStep
<1>7. CASE ReadWorking(r) \/ KeepWork(r) \/ DropWork(r)
  BY <1>7, ReadWorkingStep, KeepWorkStep, DropWorkStep
<1>8. CASE AbortVictim(r)
  BY <1>8, RolledBack DEF AbortVictim
<1> QED BY <1>1, <1>2, <1>3, <1>4, <1>5, <1>6, <1>7, <1>8 DEF Handle

LEMMA InitInductive == Init /\ Settled => IInv
<1> SUFFICES ASSUME Init, Settled PROVE IInv
  OBVIOUS
<1>1. /\ organizations = DOMAIN FirstMembers /\ DOMAIN FirstMembers \subseteq Organizations
      /\ \A o \in Organizations :
            members[o] = IF o \in DOMAIN FirstMembers THEN FirstMembers[o] ELSE Nobody
      /\ members = [o \in Organizations |-> members[o]]
  BY OrganizationAssumption DEF Init
<1>2. members \in [Organizations -> [Users -> Standings]]
  <2>1. \A o \in Organizations : members[o] \in [Users -> Standings]
    BY <1>1, OrganizationAssumption DEF Nobody, Standings
  <2> QED BY <1>1, <2>1
<1>3. created \in Nat
  <2>1. IsFiniteSet(Organizations)
    BY OrganizationAssumption, FS_Interval DEF Organizations
  <2>2. IsFiniteSet(DOMAIN FirstMembers)
    BY <1>1, <2>1, FS_Subset
  <2> QED BY <2>2, FS_CardinalityType DEF Init
<1>4. NotBegun \in Transactions
  BY DEF NotBegun, Transactions, Steps, Standings
<1>5. \A r \in Requests : tx[r] = NotBegun
  BY DEF Init
<1>6. Types
  BY <1>1, <1>2, <1>3, <1>4 DEF Types, Init
<1>7. Exclusive
  BY DEF Exclusive, Init
<1>8. OwnerRetained
  BY <1>1, OrganizationAssumption DEF OwnerRetained
<1>9. ASSUME NEW r \in Requests
      PROVE  Request(r)
  <2>1. tx[r].pc = "read" /\ tx[r].gone = {} /\ tx[r].left = {}
    BY <1>5 DEF NotBegun
  <2>2. Reconciling(r)
    <3> SUFFICES ASSUME Kind(r) \in {"keepWork", "dropWork"},
                        NEW o \in Organizations, NEW p \in Organizations,
                        members[o][User(r)] = "owner", members[p][User(r)] = "owner"
                 PROVE  o = p
      BY <2>1 DEF Reconciling, Owns
    <3>1. User(r) \in Users
      BY <1>6, PlansAre DEF Types, Plans, User
    <3>2. o \in DOMAIN FirstMembers /\ p \in DOMAIN FirstMembers
      BY <1>1, <3>1 DEF Nobody
    <3> QED BY <1>1, <1>6, <3>2 DEF Settled, Types, Kind, User
  <2> QED BY <1>5, <2>1, <2>2
          DEF Request, KindOfStep, Guarding, Leaving, Demoting, Deleting
<1> QED BY <1>6, <1>7, <1>8, <1>9 DEF IInv

LEMMA NextInductive == IInv /\ Settled /\ [Next]_vars => IInv' /\ Settled'
<1> SUFFICES ASSUME IInv, Settled, [Next]_vars PROVE IInv' /\ Settled'
  OBVIOUS
<1>1. Settled'
  BY DEF Settled, Gains, Leaves
<1>2. CASE Next
  BY <1>2, HandleStep, StepKeeps DEF Next
<1>3. CASE UNCHANGED vars
  BY <1>3 DEF vars, IInv, Types, Exclusive, OwnerRetained, Request, KindOfStep, Guarding, Leaving,
              Demoting, Deleting, Reconciling, SeenStands, Keeps, Owns, Kind, User
<1> QED BY <1>1, <1>2, <1>3

\* However many requests leave, demote, delete, provision and reconcile at once, and wherever the
\* database aborts one of them, an organization that is not orphaned on purpose has an active owner,
\* as long as nobody becomes an owner while on their way out.
THEOREM OwnersAreRetained == Settled /\ Spec => []OwnerRetained
<1>1. Settled /\ Spec => Init /\ [][Next]_vars /\ Settled
  BY PTL DEF Spec
<1>2. IInv => OwnerRetained
  BY DEF IInv
<1> QED BY <1>1, <1>2, InitInductive, NextInductive, PTL
===============================================================================
