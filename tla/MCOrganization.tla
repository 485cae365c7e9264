---------------------------- MODULE MCOrganization ----------------------------
(***************************************************************************)
(* Two households with the same two owners, one of them with a member; a    *)
(* guest with a household of their own, the account they own with another,  *)
(* and a user who has none.  Three requests at a time.                      *)
(***************************************************************************)
EXTENDS Organization, Sequences

MCUsers == {"ann", "bob", "cam", "guest", "host", "new"}

Household(owners, others) == [u \in MCUsers |->
    IF u \in owners THEN "owner" ELSE IF u \in others THEN "other" ELSE "none"]
MCFirstMembers == <<Household({"ann", "bob"}, {"cam"}), Household({"ann", "bob"}, {}),
                    Household({"guest"}, {}), Household({"host"}, {})>>

On(kind, user, o) == [kind |-> kind, user |-> user, organization |-> o]
DeleteAccount(user, keep) == [kind |-> "deleteAccount", user |-> user, keep |-> keep]
Provision(user) == [kind |-> "provision", user |-> user]
Reconcile(kind, user, target) == [kind |-> kind, user |-> user, target |-> target]

\* The plans that meet in the two shared households, and those of the users alone with
\* theirs, each in an order, so that a workload is a sorted choice of one of the lists.
Sharing ==
    <<On("leave", "ann", 1), On("leave", "bob", 1), On("leave", "cam", 1),
      On("deleteOrganization", "bob", 1), On("demote", "ann", 1), On("promote", "cam", 1),
      DeleteAccount("ann", {1, 2}), DeleteAccount("bob", {2})>>
Alone ==
    <<Provision("new"), Reconcile("keepWork", "guest", "host"), Reconcile("dropWork", "guest", "host"),
      DeleteAccount("guest", {}), On("leave", "host", 4)>>

MCRequests == 1 .. 3
SortedChoices(plans) ==
    {[r \in MCRequests |-> plans[w[r]]] : w \in
        {v \in [MCRequests -> DOMAIN plans] : v[1] <= v[2] /\ v[2] <= v[3]}}

\* Nobody becomes an owner while on their way out (Settled), nor an owner twice over.
SettledWorkloads ==
    {w \in SortedChoices(Sharing) \cup SortedChoices(Alone) : \A r, s \in MCRequests : Gains(w[r]) \cap Leaves(w[s]) = {}}

\* An account deleted while its user, who has no organization, asks for one.
NewcomerWorkloads == {<<DeleteAccount("new", {}), Provision("new"), On("leave", "cam", 1)>>}
=============================================================================
