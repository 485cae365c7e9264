----------------------------- MODULE MCWorkspace -----------------------------
(***************************************************************************)
(* Two saved scenarios that share their assumptions.  One is entered and    *)
(* viewed; then any job; then any two jobs at once; then one more look.     *)
(***************************************************************************)
EXTENDS Workspace

MCOpeningScenarios ==
    (1 :> [role |-> "SAVED", plans |-> 3, assumptions |-> 5]) @@
    (2 :> [role |-> "SAVED", plans |-> 4, assumptions |-> 5])

Job(kind) == [kind |-> kind]
Enter(s, f) == [kind |-> "enter", scenario |-> s, frame |-> f]
Hub(s, f)   == [kind |-> "hub", scenario |-> s, frame |-> f]
DeleteScenario(s) == [kind |-> "deleteScenario", scenario |-> s]
Tune(c) == [kind |-> "tune", dial |-> c, value |-> 1]
Profile(part) == [kind |-> "profile", part |-> part]

Jobs == <<Enter(1, "ten"), Enter(2, "five"), Job("view"), Job("rerun"), Job("reset"),
          Tune("plans"), Tune("assumptions"), Job("update"), Job("branch"), Job("keep"),
          Job("deleteRun"), Job("show"), Hub(1, "five"), DeleteScenario(1), DeleteScenario(2),
          Profile("facts"), Profile("terms")>>

Alone == {<<Jobs[i]>> : i \in DOMAIN Jobs}
Two   == {<<Jobs[p[1]], Jobs[p[2]]>> : p \in {p \in (DOMAIN Jobs) \X (DOMAIN Jobs) : p[1] <= p[2]}}

MCRounds == <<{<<Enter(1, "five")>>}, {<<Job("view")>>}, Alone, Two, Alone, {<<Job("view")>>}>>
=============================================================================
