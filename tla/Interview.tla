------------------------------ MODULE Interview ------------------------------
(***************************************************************************)
(* The walk of the interview and the records it fills: inputs/interview.py  *)
(* (the sections and their flows), inputs/views.py (entering a flow, a      *)
(* section's page, its Next and its self-saving pane, creating and deleting *)
(* scenarios), profile/repository.py (one profile a month) and              *)
(* scenarios/repository.py.                                                 *)
(*                                                                          *)
(* A request that reads, builds a form and saves what it read is two        *)
(* actions, so that two of them may overlap; the others are one.  Any page  *)
(* may be posted at any time: it may have been open for months.  The        *)
(* session is read when a request starts and written whole when it ends.    *)
(* What the forms hold is in Inputs; here a set knows which sections        *)
(* recorded something, and a profile its people and its housing.            *)
(***************************************************************************)
EXTENDS Integers, SequencesExt, FiniteSetsExt, TLC

CONSTANTS
    Sections,      \* SECTIONS: [key, edits, seeds, pane, field]; edits and pane say which
                   \* records Next and the section's pane save, field what the pane answers
    Sticky,        \* PROFILE_STICKY_SECTION_KEYS
    Folded,        \* _FOLDED_SECTION_KEYS
    Households,    \* the households to start from: their rows
    Requests,      \* the requests that may be in flight at once
    MaxRequests,   \* bound: requests that change something
    MaxMonths,     \* bound: months that pass
    None           \* None

Conditional == "home-expenses"
Blank == [people |-> FALSE, housing |-> None]

ASSUME InterviewAssumption ==
    /\ Sections \in Seq(Range(Sections)) /\ \E n \in DOMAIN Sections : Sections[n].edits = {"assumptions"}
    /\ \A n \in DOMAIN Sections :
          /\ ~({"plans", "assumptions"} \subseteq Sections[n].edits)
          /\ Sections[n].field \in DOMAIN Blank \cup {None}
          /\ Sections[n].field # None => "profile" \in Sections[n].pane
          /\ Sections[n].edits # {} /\ Sections[n].edits \subseteq {"profile", "plans", "assumptions"}
          /\ "assumptions" \in Sections[n].pane =>
                "profile" \notin Sections[n].edits /\ "plans" \notin Sections[n].edits
          /\ Sections[n].seeds => Sections[n].edits = {"plans"} /\ Sections[n].key \notin DOMAIN Folded
          /\ \A m \in DOMAIN Sections : Sections[m].key = Sections[n].key => m = n
    /\ MaxRequests \in Nat /\ MaxMonths \in Nat /\ None \notin Nat

\* A household starts with one profile of the first month, or with none yet; its rows have the
\* ids of the past, and what its plans count as reviewed they record.
ASSUME HouseholdAssumption ==
    \A d \in Households :
        /\ d = [x \in DOMAIN d |-> d[x]]
        /\ DOMAIN d = {"profiles", "sets", "scenarios", "next"} /\ d.next \in Nat
        /\ \/ d.profiles = <<>>
           \/ d.profiles = <<[month |-> 0, facts |-> d.profiles[1].facts, acks |-> d.profiles[1].acks]>>
        /\ DOMAIN d.sets \cup DOMAIN d.scenarios \subseteq 0 .. d.next - 1
        /\ d.sets = [id \in DOMAIN d.sets |-> [kind |-> d.sets[id].kind, acks |-> d.sets[id].acks,
                                               rows |-> d.sets[id].rows]]
        /\ \A id \in DOMAIN d.sets, n \in DOMAIN Sections :
              d.sets[id].kind = "plans" /\ Sections[n].seeds /\ Sections[n].key # Conditional
                  /\ Sections[n].key \in DOMAIN d.sets[id].acks => Sections[n].key \in d.sets[id].rows

VARIABLES
    db,        \* the rows: profiles in order of creation, sets, scenarios, the next id
    month,     \* the current month
    session,   \* the set being edited, of each kind, and the scenario being built
    req,       \* what each request in flight has read
    served,    \* requests so far
    mixed,     \* history: the sets saved from a reading that another save had overtaken
    strayed    \* history: an edit link has been followed out of the build in progress

vars == <<db, month, session, req, served, mixed, strayed>>

Idle == [kind |-> "idle"]
-----------------------------------------------------------------------------
(* Sections and flows. *)

HasProperty(facts) == facts.housing = "RENT"

\* flow_of: the section's primary aggregate.
FlowOf(s) == IF "profile" \in s.edits THEN "profile"
             ELSE IF "plans" \in s.edits THEN "plans" ELSE "assumptions"

\* _flow_sections over applicable_sections: the steps of the walk of each flow.
Steps(flow, housed) ==
    {n \in DOMAIN Sections : FlowOf(Sections[n]) = flow /\ (Sections[n].key = Conditional => housed)}
Flows(housed) == [profile     |-> Steps("profile", housed), plans |-> Steps("plans", housed),
                  assumptions |-> Steps("assumptions", housed)]
Spine == [housed |-> Flows(TRUE), other |-> Flows(FALSE)]
FlowSections(facts, flow) == IF HasProperty(facts) THEN Spine.housed[flow] ELSE Spine.other[flow]

FirstOf(flow) == Sections[Min(Spine.housed[flow])]

\* next_section_after.
NextAfter(steps, s) ==
    LET later == {n \in steps : \E m \in steps : Sections[m] = s /\ m < n}
    IN  IF later = {} THEN None ELSE Sections[Min(later)]

\* acknowledged_section_keys: a section that absorbed others counts once they all do. The
\* acknowledgments keep the month they were made in, as history.
Acknowledged(acks) == DOMAIN acks \cup {k \in DOMAIN Folded : Folded[k] \subseteq DOMAIN acks}

FlowReviewed(facts, acks, flow) ==
    \A n \in FlowSections(facts, flow) : Sections[n].key \in Acknowledged(acks)
-----------------------------------------------------------------------------
(* The profile: at most one record a month. *)

ProfileComplete(p) ==
    FlowReviewed(p.facts, p.acks, "profile") /\ p.facts.people /\ p.facts.housing # None

\* latest_profile: by effective date, then by creation.
LatestAt(d) == CHOOSE n \in DOMAIN d.profiles : \A k \in DOMAIN d.profiles :
                   d.profiles[k].month < d.profiles[n].month
                   \/ (d.profiles[k].month = d.profiles[n].month /\ k <= n)
Latest(d)   == d.profiles[LatestAt(d)]

CompletedProfile(d) == d.profiles # <<>> /\ ProfileComplete(Latest(d))
RefreshRequired(d, now) == CompletedProfile(d) /\ Latest(d).month < now

OfMonth(d, now) == {n \in DOMAIN d.profiles : d.profiles[n].month = now}
NewRecord(d, now, facts, acks) ==
    [d EXCEPT !.profiles = Append(@, [month |-> now, facts |-> facts, acks |-> acks])]

\* Mutants: any sole record is written in place; an advance keeps every acknowledgment.
WriteInPlaceSole(d) == Len(d.profiles) = 1
CarriedAll(acks)    == acks

\* allow_profile_write_in_place.
WriteInPlace(d) == Len(d.profiles) = 1 /\ ~ProfileComplete(Latest(d))

SaveProfile(d, facts, now) ==
    IF WriteInPlace(d) THEN [d EXCEPT !.profiles[1] = [@ EXCEPT !.month = now, !.facts = facts]]
    ELSE IF OfMonth(d, now) # {}
         THEN [d EXCEPT !.profiles[CHOOSE n \in OfMonth(d, now) : TRUE].facts = facts]
         ELSE NewRecord(d, now, facts, <<>>)

\* _carried_acknowledgments.
Carried(acks) == Restrict(acks, DOMAIN acks \cap Sticky)

AdvanceProfile(d, now) ==
    IF OfMonth(d, now) # {} THEN d
    ELSE NewRecord(d, now, Latest(d).facts, Carried(Latest(d).acks))
-----------------------------------------------------------------------------
(* Plans, assumptions, and the scenarios that pair them. *)

Kinds == {"plans", "assumptions"}
OfKind(d, kind) == {id \in DOMAIN d.sets : d.sets[id].kind = kind}
Adding(rows, id, row) == [x \in DOMAIN rows \cup {id} |-> IF x = id THEN row ELSE rows[x]]
NewSet(d, kind, acks, rows) ==
    [d EXCEPT !.sets = Adding(@, d.next, [kind |-> kind, acks |-> acks, rows |-> rows]), !.next = @ + 1]
Clone(d, id) == NewSet(d, d.sets[id].kind, d.sets[id].acks, d.sets[id].rows)
NewScenario(d, plans, assumptions) ==
    [d EXCEPT !.scenarios = Adding(@, d.next, [plans |-> plans, assumptions |-> assumptions]),
              !.next = @ + 1]

\* create_fresh_scenario.
FreshScenario(d) ==
    NewScenario(NewSet(NewSet(d, "plans", <<>>, {}), "assumptions", <<>>, {}), d.next, d.next + 1)

\* default_scenario: the oldest.
EnsureDefault(d)   == IF d.scenarios = <<>> THEN FreshScenario(d) ELSE d
DefaultScenario(d) == d.scenarios[Min(DOMAIN d.scenarios)]

\* current_plans_record and current_assumptions_record: the selected one, else the latest.
Target(d, s, kind) == IF s[kind] \in DOMAIN d.sets THEN s[kind] ELSE Max(OfKind(d, kind))

\* What Next or the pane of a section saves, and the one kind of set the section works on.
Saves(kind, section) == IF kind = "pane" THEN section.pane ELSE section.edits
KindOf(section) == IF "assumptions" \in section.edits \cup section.pane THEN "assumptions" ELSE "plans"

\* The records such a request cannot do without, minted if the household has none: a pane reads
\* a set even when it saves none.
WithRecords(d, kind, section, now) ==
    LET p == IF d.profiles = <<>> /\ ~(kind = "pane" /\ section.pane = {"assumptions"})
             THEN SaveProfile(d, Blank, now) ELSE d
    IN  IF (kind = "pane" \/ section.edits \cap Kinds # {}) /\ OfKind(d, KindOf(section)) = {}
        THEN NewSet(p, KindOf(section), <<>>, {}) ELSE p

\* plans_is_complete and assumptions_is_complete.
SetComplete(d, id, kind) == FlowReviewed(Latest(d).facts, d.sets[id].acks, kind)

\* What ScenarioComposeView offers: the components to pair, the scenarios to copy.
CompleteSets(d, kind) == {id \in OfKind(d, kind) : SetComplete(d, id, kind)}
CompleteScenarios(d) ==
    {id \in DOMAIN d.scenarios :
        \A kind \in Kinds : d.scenarios[id][kind] \in CompleteSets(d, kind)}

\* CopyScenarioForm: a side is copied or shared, and one at least is copied.
CopiedSides == (SUBSET Kinds) \ {{}}

\* PairScenarioForm: a combination that no scenario makes yet.
Pairings(d) ==
    {pair \in [plans : CompleteSets(d, "plans"), assumptions : CompleteSets(d, "assumptions")] :
        \A s \in Range(d.scenarios) : s.plans # pair.plans \/ s.assumptions # pair.assumptions}

\* delete_scenario, with _delete_if_orphaned of each component.
Orphans(d, pair) ==
    {pair[kind] : kind \in {k \in Kinds :
        /\ \A s \in Range(d.scenarios) : s[k] # pair[k]
        /\ Cardinality(OfKind(d, k)) > 1}}
WithoutScenario(d, id) ==
    LET e == [d EXCEPT !.scenarios = Restrict(@, DOMAIN @ \ {id})]
    IN  [e EXCEPT !.sets = Restrict(@, DOMAIN @ \ Orphans(e, d.scenarios[id]))]
-----------------------------------------------------------------------------
(* What a section saves and acknowledges. *)

\* _load and _current_profile_and_plans: what the form is bound to, and the set it came from.
Reading(d, s, section) ==
    LET kind == KindOf(section)
        from == IF OfKind(d, kind) = {} THEN None ELSE Target(d, s, kind)
    IN  [facts |-> IF d.profiles = <<>> THEN Blank ELSE Latest(d).facts,
         rows  |-> IF from = None THEN {} ELSE d.sets[from].rows, from |-> from]

\* _flow_record: the record a section is acknowledged on.
FlowRecord(d, s, section) ==
    IF FlowOf(section) = "profile" THEN <<"profile", LatestAt(d)>>
    ELSE <<"set", Target(d, s, FlowOf(section))>>
AcksOf(d, record) == IF record[1] = "profile" THEN d.profiles[record[2]].acks
                     ELSE d.sets[record[2]].acks
Stands(d, record) == record[1] = "profile" \/ record[2] \in DOMAIN d.sets

\* apply, of a section's form: nothing but the seeds.
Seeds(section, facts) ==
    IF section.seeds /\ (section.key = Conditional => HasProperty(facts)) THEN {section.key} ELSE {}

SaveRows(d, s, kind, rows) == [d EXCEPT !.sets[Target(d, s, kind)].rows = rows]

\* _save_profile_and_plans, save_profile, save_plans, save_assumptions: the records that are saved.
SaveRecords(d, s, records, kind, facts, rows, now) ==
    LET p == IF "profile" \in records THEN SaveProfile(d, facts, now) ELSE d
    IN  IF Kinds \cap records = {} THEN p ELSE SaveRows(p, s, kind, rows)

\* _store.
Store(d, s, section, read, now) ==
    SaveRecords(d, s, section.edits, KindOf(section), read.facts,
                read.rows \cup Seeds(section, read.facts), now)

\* acknowledge, of a record whose acknowledgments were read as acks; nothing of a row that is gone.
Acknowledge(d, record, acks, section, now) ==
    LET more == [key \in DOMAIN acks \cup {section.key} |->
                    IF key \in DOMAIN acks THEN acks[key] ELSE now]
    IN  IF section.key \in Acknowledged(acks) \/ ~Stands(d, record) THEN d
        ELSE IF record[1] = "profile" THEN [d EXCEPT !.profiles[record[2]].acks = more]
        ELSE [d EXCEPT !.sets[record[2]].acks = more]

\* Mutant: the section is acknowledged, and seeded only on the next view.
SeedAndAcknowledgeUnseeded(d, s, section, record, acks, read, now) ==
    Acknowledge(d, record, acks, section, now)

\* _seed_and_acknowledge.
SeedAndAcknowledge(d, s, section, record, acks, read, now) ==
    IF section.key \in Acknowledged(acks) THEN d
    ELSE Acknowledge(IF section.seeds THEN Store(d, s, section, read, now) ELSE d,
                     record, acks, section, now)

\* _following_section.
Following(section, facts, s) ==
    LET next == NextAfter(FlowSections(facts, FlowOf(section)), section)
    IN  IF next = None /\ s.editing # None /\ FlowOf(section) = "plans"
        THEN FirstOf("assumptions") ELSE next
-----------------------------------------------------------------------------
(* The requests of a section's page. *)

Free(q) == req[q] = Idle /\ served < MaxRequests
Starts(q, request) ==
    /\ req' = [req EXCEPT ![q] = request]
    /\ served' = served + 1
    /\ UNCHANGED <<month, session, mixed, strayed>>

\* What a request holds after its readings.
Held(kind, section, d) ==
    LET record == FlowRecord(d, session, section)
    IN  [kind |-> kind, section |-> section, session |-> session, record |-> record,
         acks |-> AcksOf(d, record), read |-> Reading(d, session, section)]

\* InterviewView.get: an outdated profile is not walked, and a section once seen is only shown.
ViewSection(q) ==
    /\ Free(q)
    /\ \E section \in Range(Sections) :
        LET d == WithRecords(db, "view", section, month) IN
        /\ ~(FlowOf(section) = "profile" /\ RefreshRequired(db, month))
        /\ section.key \notin Acknowledged(Held("view", section, d).acks)
        /\ Starts(q, Held("view", section, d))
        /\ db' = d

\* InterviewView.post and SelfSavingPaneView.post, up to the save.
SubmitSection(q) ==
    /\ Free(q)
    /\ \E section \in Range(Sections), kind \in {"next", "pane"} :
        LET d == WithRecords(db, kind, section, month) IN
        /\ Starts(q, Held(kind, section, d))
        /\ db' = d

Ends(q) == req' = [req EXCEPT ![q] = Idle] /\ UNCHANGED <<month, served, strayed>>

\* The set a save fills from a reading that is no longer its own, with the set that was read.
Overtaken(d, r) ==
    LET into == Target(d, r.session, KindOf(r.section))
    IN  IF Saves(r.kind, r.section) \cap Kinds # {}
            /\ (into # r.read.from \/ d.sets[into].rows # r.read.rows)
        THEN {into, r.read.from} ELSE {}

ShowSection(q) ==
    LET r == req[q] IN
    /\ r.kind = "view"
    /\ db' = SeedAndAcknowledge(db, r.session, r.section, r.record, r.acks, r.read, month)
    /\ mixed' = mixed \cup IF r.section.seeds THEN Overtaken(db, r) ELSE {}
    /\ Ends(q) /\ UNCHANGED session

Advance(q) ==
    LET r         == req[q]
        stored    == Store(db, r.session, r.section, r.read, month)
        following == Following(r.section, r.read.facts, r.session)
    IN
    /\ r.kind = "next"
    /\ IF following = None
       THEN /\ db' = stored
            /\ session' = IF r.session.editing = None THEN session
                          ELSE [r.session EXCEPT !.editing = None]
       ELSE LET d      == WithRecords(stored, "next", following, month)
                record == FlowRecord(d, r.session, following)
            IN  /\ db' = SeedAndAcknowledge(d, r.session, following, record, AcksOf(d, record),
                                            Reading(d, r.session, following), month)
                /\ UNCHANGED session
    /\ mixed' = mixed \cup Overtaken(db, r)
    /\ Ends(q)

\* persist of a section's pane: its field is answered, its rows are recorded, the rest is
\* saved as it was read.
Answers(field, facts) ==
    CASE field = "people"  -> {[facts EXCEPT !.people = v] : v \in BOOLEAN}
      [] field = "housing" -> {[facts EXCEPT !.housing = v] : v \in {"RENT", "NEITHER"}}
      [] field = None      -> {facts}

SavePane(q) ==
    LET r    == req[q]
        rows == IF FlowOf(r.section) = "profile" THEN r.read.rows ELSE r.read.rows \cup {r.section.key}
    IN
    /\ r.kind = "pane"
    /\ \E facts \in Answers(r.section.field, r.read.facts) :
          db' = SaveRecords(db, r.session, r.section.pane, KindOf(r.section), facts, rows, month)
    /\ mixed' = mixed \cup Overtaken(db, r)
    /\ Ends(q) /\ UNCHANGED session
-----------------------------------------------------------------------------
(* The other requests, each one step. *)

Served ==
    /\ served < MaxRequests /\ served' = served + 1
    /\ UNCHANGED <<month, req>>

Selected(s, pair) == [s EXCEPT !.plans = pair.plans, !.assumptions = pair.assumptions]

\* FlowEntryView.post: the review prompt acknowledged.
AcknowledgeRefresh ==
    /\ RefreshRequired(db, month)
    /\ db' = AdvanceProfile(db, month)
    /\ Served /\ UNCHANGED <<session, mixed, strayed>>

\* FlowEntryView.get of the Profile flow, unless it prompts.
EnterProfileFlow ==
    /\ ~RefreshRequired(db, month)
    /\ db' = EnsureDefault(db)
    /\ session' = [Selected(session, DefaultScenario(db')) EXCEPT !.editing = None]
    /\ strayed' = FALSE
    /\ Served /\ UNCHANGED mixed

\* Mutant: a build that was left stays in progress.
EnterFlowInBuild ==
    /\ session.editing # None
    /\ strayed' = FALSE
    /\ Served /\ UNCHANGED <<db, session, mixed>>

\* FlowEntryView.get of the Plans and the Assumptions flow, as a page of its own or where an
\* edit link redirects to: a lone edit is no build.  Outside a build it changes nothing.
EnterFlow ==
    /\ session.editing # None
    /\ session' = [session EXCEPT !.editing = None]
    /\ strayed' = FALSE
    /\ Served /\ UNCHANGED <<db, mixed>>

\* PlansEditView and AssumptionsEditView: the set is selected, a build stays in progress. The
\* redirect is a request of its own (EnterFlow), which others may precede and none need follow.
EditComponent(kind) ==
    /\ \E id \in OfKind(db, kind) : session' = [session EXCEPT ![kind] = id]
    /\ strayed' = (session.editing # None)
    /\ Served /\ UNCHANGED <<db, mixed>>

\* _enter_scenario_build, from ScenarioEditView and from the only card of ScenariosHomeView.
Building(s, d, id) == [Selected(s, d.scenarios[id]) EXCEPT !.editing = id]

EnterBuild ==
    /\ \E id \in DOMAIN db.scenarios : session' = Building(session, db, id)
    /\ strayed' = FALSE
    /\ Served /\ UNCHANGED <<db, mixed>>

\* ScenarioComposeView, of a household whose profile is complete.
StartFresh ==
    /\ CompletedProfile(db)
    /\ db' = FreshScenario(db)
    /\ session' = Building(session, db', db.next + 2)
    /\ strayed' = FALSE
    /\ Served /\ UNCHANGED mixed

\* clone_scenario.
CopyScenario ==
    /\ CompletedProfile(db)
    /\ \E id \in CompleteScenarios(db), copied \in CopiedSides :
          LET pair  == db.scenarios[id]
              plans == IF "plans" \in copied THEN Clone(db, pair.plans) ELSE db
              both  == IF "assumptions" \in copied THEN Clone(plans, pair.assumptions) ELSE plans
          IN
          /\ db' = NewScenario(both, IF "plans" \in copied THEN db.next ELSE pair.plans,
                               IF "assumptions" \in copied THEN plans.next ELSE pair.assumptions)
          /\ mixed' = mixed \cup
                 (IF "plans" \in copied /\ pair.plans \in mixed THEN {db.next} ELSE {})
    /\ Served /\ UNCHANGED <<session, strayed>>

PairScenario ==
    /\ CompletedProfile(db)
    /\ \E pair \in Pairings(db) : db' = NewScenario(db, pair.plans, pair.assumptions)
    /\ Served /\ UNCHANGED <<session, mixed, strayed>>

DeleteScenario ==
    /\ Cardinality(DOMAIN db.scenarios) > 1
    /\ \E id \in DOMAIN db.scenarios : db' = WithoutScenario(db, id)
    /\ Served /\ UNCHANGED <<session, mixed, strayed>>

MonthPasses ==
    /\ month < MaxMonths /\ month' = month + 1
    /\ UNCHANGED <<db, session, req, served, mixed, strayed>>
-----------------------------------------------------------------------------
Init ==
    /\ db \in Households
    /\ month = 0
    /\ session = [plans |-> None, assumptions |-> None, editing |-> None]
    /\ req = [q \in Requests |-> Idle]
    /\ served = 0
    /\ mixed = {}
    /\ strayed = FALSE

Next ==
    \/ \E q \in Requests : ViewSection(q) \/ SubmitSection(q) \/ ShowSection(q) \/ Advance(q) \/ SavePane(q)
    \/ AcknowledgeRefresh \/ EnterProfileFlow \/ EnterFlow
    \/ \E kind \in Kinds : EditComponent(kind)
    \/ EnterBuild \/ StartFresh \/ CopyScenario \/ PairScenario \/ DeleteScenario
    \/ MonthPasses

Spec == Init /\ [][Next]_vars
-----------------------------------------------------------------------------
(* Properties. *)

\* A completed month is history: whatever is posted later, from however old a page, its facts
\* and its date stay (profile/repository.py save_profile).
SnapshotsAreHistory ==
    [][\A n \in DOMAIN db.profiles :
          LET p == db.profiles[n]
          IN  ProfileComplete(p) /\ p.month < month =>
                  db'.profiles[n].facts = p.facts /\ db'.profiles[n].month = p.month]_vars

\* In a profile with a month behind it, a section that ages counts as reviewed only if it was
\* presented in the profile's own month or later (advance_profile, InterviewView.get).
ReviewedInItsMonth ==
    \A n \in DOMAIN db.profiles :
        (\E k \in DOMAIN db.profiles : db.profiles[k].month < db.profiles[n].month) =>
            \A key \in DOMAIN db.profiles[n].acks \ Sticky :
                db.profiles[n].acks[key] >= db.profiles[n].month

\* While a scenario is being built, its own sets are the ones edited, whichever tab entered,
\* left or finished a flow, and whichever request wrote the session last (session_state.py) --
\* unless an edit link was followed out of the build and the flow it leads to not entered yet.
BuildEditsItsScenario ==
    session.editing \in DOMAIN db.scenarios /\ ~strayed =>
        \A kind \in Kinds : session[kind] = db.scenarios[session.editing][kind]

\* An acknowledged spending section is never empty, unless two saves of the set overlapped
\* (InterviewView._seed_and_acknowledge).
AcknowledgedIsRecorded ==
    \A id \in DOMAIN db.sets \ mixed, s \in Range(Sections) :
        s.seeds /\ s.key # Conditional /\ FlowOf(s) = db.sets[id].kind
            /\ s.key \in Acknowledged(db.sets[id].acks) => s.key \in db.sets[id].rows
=============================================================================
