------------------------------- MODULE RunShelf -------------------------------
(***************************************************************************)
(* What the planning layer promises of captured runs, with no request, row  *)
(* or cache in sight: a run is captured with its figures and these never    *)
(* change; a transient run may be kept, and then goes only because the user *)
(* deleted it or because it had been picked for removal while it was still  *)
(* transient; what is shown of a run is what was captured.                  *)
(***************************************************************************)
EXTENDS Naturals

CONSTANT Nothing    \* no run, or no figures

VARIABLES
    shelf,     \* every run ever captured: its role, or "gone", and its figures
    doomed,    \* the runs picked for removal, not yet removed
    screen     \* the run last shown

shelfVars == <<shelf, doomed, screen>>

Captured == DOMAIN shelf

Init ==
    /\ shelf  = [r \in {} |-> Nothing]
    /\ doomed = {}
    /\ screen = Nothing

\* A run never captured before, whatever its figures.
Capture ==
    /\ \E r \in DOMAIN shelf' \ Captured :
          /\ DOMAIN shelf' = Captured \cup {r}
          /\ shelf'[r].role \in {"WORKING", "SAVED"}
          /\ \A s \in Captured : shelf'[s] = shelf[s]
    /\ UNCHANGED <<doomed, screen>>

Keep(r) ==
    /\ shelf[r].role = "WORKING"
    /\ shelf' = [shelf EXCEPT ![r].role = "SAVED"]
    /\ UNCHANGED <<doomed, screen>>

Transient == {r \in Captured : shelf[r].role = "WORKING"}

\* What is picked: transient runs, any number of them, or one kept run.
Pick ==
    /\ \/ \E runs \in SUBSET Transient : doomed' = doomed \cup runs
       \/ \E r \in Captured : shelf[r].role = "SAVED" /\ doomed' = doomed \cup {r}
    /\ UNCHANGED <<shelf, screen>>

\* A removal takes picked or still transient runs; picks may also be forgotten.
Remove ==
    /\ doomed' \in SUBSET doomed
    /\ \E gone \in SUBSET (doomed \cup Transient) :
          shelf' = [r \in Captured |-> IF r \in gone THEN [shelf[r] EXCEPT !.role = "gone"] ELSE shelf[r]]
    /\ UNCHANGED screen

\* A run shown while it is being removed may show less than its figures, a run that stays
\* never does.
Show(r) ==
    /\ \/ screen' = [run |-> r, figures |-> shelf[r].figures]
       \/ shelf[r].role = "gone" /\ screen' = [run |-> r, figures |-> Nothing]
    /\ UNCHANGED <<shelf, doomed>>

Next ==
    \/ Capture
    \/ Pick
    \/ Remove
    \/ \E r \in Captured : Keep(r) \/ Show(r)

Spec == Init /\ [][Next]_shelfVars
=============================================================================
