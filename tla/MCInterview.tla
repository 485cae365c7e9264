----------------------------- MODULE MCInterview -----------------------------
(***************************************************************************)
(* A household that is new, one whose profile lacks one section, and one    *)
(* that is settled since the month before and runs two scenarios over       *)
(* shared assumptions.                                                      *)
(***************************************************************************)
EXTENDS Interview

Sec(key, edits, seeds, pane, field) ==
    [key |-> key, edits |-> edits, seeds |-> seeds, pane |-> pane, field |-> field]

MCSections == <<
    Sec("subjects", {"profile"}, FALSE, {"profile", "plans"}, "people"),
    Sec("home", {"profile", "plans"}, FALSE, {"profile", "plans"}, "housing"),
    Sec("living-expenses", {"plans"}, TRUE, {"plans"}, None),
    Sec("home-expenses", {"plans"}, TRUE, {"plans"}, None),
    Sec("vehicle-plan", {"plans"}, FALSE, {"profile", "plans"}, None),
    Sec("advanced", {"assumptions"}, FALSE, {"assumptions"}, None)>>

MCFolded == [advanced |-> {"transaction-costs", "net-worth"}]

Reviewed(keys) == [k \in keys |-> 0]
Settled   == [people |-> TRUE, housing |-> "RENT"]
PlansKeys == {"living-expenses", "home-expenses", "vehicle-plan"}

New == [profiles |-> <<>>, sets |-> <<>>, scenarios |-> <<>>, next |-> 1]

InProgress ==
    [profiles  |-> <<[month |-> 0, facts |-> [people |-> TRUE, housing |-> None],
                      acks |-> Reviewed({"subjects"})]>>,
     sets      |-> (1 :> [kind |-> "plans", acks |-> <<>>, rows |-> {}]) @@
                   (2 :> [kind |-> "assumptions", acks |-> <<>>, rows |-> {}]),
     scenarios |-> (3 :> [plans |-> 1, assumptions |-> 2]), next |-> 4]

Running ==
    [profiles  |-> <<[month |-> 0, facts |-> Settled, acks |-> Reviewed({"subjects", "home"})]>>,
     sets      |-> (1 :> [kind |-> "plans", acks |-> Reviewed(PlansKeys), rows |-> PlansKeys]) @@
                   (2 :> [kind |-> "assumptions", acks |-> Reviewed(MCFolded.advanced), rows |-> {}]) @@
                   (4 :> [kind |-> "plans", acks |-> <<>>, rows |-> {}]),
     scenarios |-> (3 :> [plans |-> 1, assumptions |-> 2]) @@ (5 :> [plans |-> 4, assumptions |-> 2]),
     next |-> 6]

MCHouseholds == {New, InProgress, Running}

Interchangeable == Permutations(Requests)
=============================================================================
