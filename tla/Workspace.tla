------------------------------ MODULE Workspace ------------------------------
(***************************************************************************)
(* The Explore workspace: saved scenarios over shared component sets, the   *)
(* one exploration with its WORKING sandbox, the captured runs and the      *)
(* cache of their books, served to requests that overlap.  A request is a   *)
(* program of database round trips; each is an action, a block under        *)
(* transaction.atomic is one action, and a worker may die between any two.  *)
(* Adjacent reads that no single write of another request separates are     *)
(* one action.                                                              *)
(***************************************************************************)
EXTENDS Integers, SequencesExt

CONSTANTS
    Rounds,           \* the sets of jobs served together, round after round
    OpeningScenarios, \* the saved scenarios and their component sets at the start
    Retained,         \* _TRANSIENT_KEEP
    MaxCachedRuns,    \* _MAX_CACHED_RUNS
    MaxDeaths,        \* bound: workers killed in mid-request
    DefaultFrame,     \* the frame of an exploration that has none recorded
    None              \* NULL: no frame recorded, nothing read yet

ASSUME WorkspaceAssumption ==
    /\ Retained \in Nat \ {0} /\ MaxCachedRuns \in Nat \ {0} /\ MaxDeaths \in Nat
    /\ None \notin Nat

Pairs == {"plans", "assumptions"}      \* the components a scenario pairs
Kinds == {"enter", "reset", "view", "rerun", "tune", "update", "branch", "keep", "deleteRun",
          "show", "hub", "deleteScenario", "profile"}
NoRow == <<>>                          \* what is read where there is no exploration
FirstNew == 10                         \* the first primary key not in use at the start

\* The rows to start from are saved scenarios and their sets, of plans and of assumptions
\* (two tables, here one); the jobs are pages there are.
ASSUME WorkloadAssumption ==
    /\ \A id \in DOMAIN OpeningScenarios : LET s == OpeningScenarios[id] IN
           /\ DOMAIN s = Pairs \cup {"role"} /\ s.role = "SAVED"
           /\ {id, s.plans, s.assumptions} \subseteq 1 .. FirstNew - 1
           /\ \A other \in DOMAIN OpeningScenarios : s.plans # OpeningScenarios[other].assumptions
    /\ \A n \in DOMAIN Rounds : \A jobs \in Rounds[n] : \A q \in DOMAIN jobs : jobs[q].kind \in Kinds

VARIABLES
    db,         \* the rows: scenarios, sets, exploration, profile, results, books, ids
    cache,      \* the process-local cache of books, least recently used first
    session,    \* what the browser's session remembers: the scenario and the frame chosen
    req,        \* per request: the steps left to do and what it has read
    round, deaths,
    screen,     \* the run last shown
    captured,   \* history: the figures of every run ever captured
    overtaken,  \* history: requests during which another changed what they may have read
    raced       \* history: an overtaken request captured a run, or a worker died

vars == <<db, cache, session, req, round, deaths, screen, captured, overtaken, raced>>

Requests == {1, 2}
Idle == [job |-> [kind |-> "idle"], todo |-> <<>>]
-----------------------------------------------------------------------------
(* Rows. *)

Scenarios(d)  == DOMAIN d.scenarios
Saved(d)      == {s \in Scenarios(d) : d.scenarios[s].role = "SAVED"}
SetsOf(d, s)  == {d.scenarios[s][c] : c \in Pairs}
SetIds(d)     == DOMAIN d.sets

\* load_scenario: the values of the two sets, as they are now.
Resolvable(d, s) == s \in Scenarios(d) /\ SetsOf(d, s) \subseteq SetIds(d)
Resolve(d, s)    == [c \in Pairs |-> d.sets[d.scenarios[s][c]].value]

\* The rows a deletion leaves: a set takes the scenarios that use it, a scenario the
\* exploration it anchors or is the sandbox of.
Transient(d)   == Restrict(d.results, {n \in DOMAIN d.results : d.results[n].role = "WORKING"})
RunsIn(rows)   == {rows[n].run : n \in DOMAIN rows}
Newest(rows)   == rows[Max(DOMAIN rows)]
Adding(rows, n, row) == [m \in DOMAIN rows \cup {n} |-> IF m = n THEN row ELSE rows[m]]
WithoutRuns(d, runs) ==
    [d EXCEPT !.books = @ \ runs,
              !.results = Restrict(@, {n \in DOMAIN @ : @[n].run \notin runs})]

\* Mutant: the post_delete receiver of the input layer is not connected.
TeardownRunsOnly(d) ==
    [WithoutRuns(d, RunsIn(Transient(d))) EXCEPT !.exploration = NoRow]

\* teardown_owned_working_copy and clear_transient_runs_on_exploration_delete.
Teardown(d) ==
    LET w == d.exploration.working
        e == WithoutRuns(d, RunsIn(Transient(d)))
    IN  [e EXCEPT !.exploration = NoRow,
                  !.scenarios = Restrict(@, DOMAIN @ \ {w}),
                  !.sets = Restrict(@, DOMAIN @ \ SetsOf(d, w))]

WithoutScenarios(d, gone) ==
    LET e == [d EXCEPT !.scenarios = Restrict(@, DOMAIN @ \ gone)]
    IN  IF d.exploration # NoRow /\ d.exploration.source \in gone THEN Teardown(e) ELSE e

WithoutSet(d, id) ==
    WithoutScenarios([d EXCEPT !.sets = Restrict(@, DOMAIN @ \ {id})],
                     {s \in Saved(d) : id \in SetsOf(d, s)})

\* save_plans and save_assumptions over the sets of scenario row s.
Written(d, s, components, values) ==
    [d EXCEPT !.sets = [id \in DOMAIN @ |->
        IF \E c \in components : id = d.scenarios[s][c]
        THEN [@[id] EXCEPT !.value = values[CHOOSE c \in components : id = d.scenarios[s][c]]]
        ELSE @[id]]]

\* Two new sets and the scenario that pairs them with, or in place of, the given ones.
FreshSet(d, c)  == d.next + (IF c = "plans" THEN 0 ELSE 1)
Minted(d, role, components, given, values) ==
    LET fresh == {FreshSet(d, c) : c \in components}
        id    == d.next + 2
    IN  [d EXCEPT !.next = @ + 3,
                  !.sets = [x \in DOMAIN @ \cup fresh |->
                      IF x \in fresh
                      THEN LET c == CHOOSE k \in components : x = FreshSet(d, k)
                           IN  [kind |-> c, role |-> role, value |-> values[c]]
                      ELSE @[x]],
                  !.scenarios = [x \in DOMAIN @ \cup {id} |->
                      IF x = id
                      THEN [role        |-> role,
                            plans       |-> IF "plans" \in components
                                            THEN FreshSet(d, "plans") ELSE given.plans,
                            assumptions |-> IF "assumptions" \in components
                                            THEN FreshSet(d, "assumptions") ELSE given.assumptions]
                      ELSE @[x]]]

\* enter_exploration's block: the sandbox overwritten, or minted with the exploration.
Seeded(d, source, values) ==
    IF d.exploration # NoRow
    THEN [Written(d, d.exploration.working, Pairs, values)
             EXCEPT !.exploration.source = source, !.seedings = @ + 1]
    ELSE [Minted(d, "WORKING", Pairs, <<>>, values)
             EXCEPT !.exploration = [id |-> d.next + 2, working |-> d.next + 2,
                                     source |-> source, frame |-> None],
                    !.seedings = @ + 1]

\* ScenarioExploration.save() of a row read earlier: every column, the unread ones as read.
ExplorationSaved(d, row) == [d EXCEPT !.exploration = row]
Stands(d, row) ==       \* else the foreign keys refuse the re-inserted row
    d.exploration # NoRow /\ d.exploration.id = row.id /\ row.source \in Scenarios(d)

\* run_and_capture: the figures are a function of what the run was given.
Figures(inputs, frame, profile) == [inputs |-> inputs, frame |-> frame, profile |-> profile]
FrameOf(exploration) == IF exploration.frame = None THEN DefaultFrame ELSE exploration.frame
-----------------------------------------------------------------------------
(* Requests. *)

At(q, step) == req[q].todo # <<>> /\ Head(req[q].todo) = step
Kind(q)     == req[q].job.kind

Proceed(q, r, steps) == req' = [req EXCEPT ![q] = IF steps = <<>> THEN Idle ELSE [r EXCEPT !.todo = steps]]
Continue(q, r) == Proceed(q, r, Tail(req[q].todo))
\* An early return; the session is written with the response, but not with a 500.
Leave(q) == Proceed(q, req[q], IF req[q].dirty THEN <<"respond">> ELSE <<>>)
Fail(q)  == Proceed(q, req[q], <<>>)

RunSteps == <<"sandbox", "loadWorking", "saveBooks", "capture", "beyond", "drop">>

\* start_fresh_exploration, from the hub and from the workspace.
FreshSteps == <<"loadSource", "seed", "all", "drop">>
EnterSteps == <<"choose">> \o FreshSteps \o <<"again", "frame", "respond">>
ResetSteps == <<"find">> \o FreshSteps

\* RunResultsView: the run, then its books.
ShowSteps == <<"get", "lookup">>

\* delete_scenario ends with its two sets, if nothing else uses them.
OrphanSteps == <<"planUsers", "plans", "assumptionUsers", "assumptions">>

Program == [
    enter     |-> EnterSteps,
    reset     |-> ResetSteps,
    view      |-> <<"find", "resolve", "strip", "inputs", "lookup">>,
    rerun     |-> <<"find", "drift", "resolve">> \o RunSteps,
    tune      |-> <<"find", "loadWorking", "find", "overwrite">>,
    update    |-> <<"find", "again", "loadWorking", "save">>,
    branch    |-> <<"find", "diverge", "again", "loadWorking", "save">>,
    keep      |-> <<"get", "keep">>,
    deleteRun |-> <<"get", "drop">>,
    show      |-> ShowSteps,
    hub       |-> <<"choose", "loadSource", "captureSaved", "respond">>,
    deleteScenario |-> <<"choose", "count", "delete">> \o OrphanSteps \o <<"respond">>,
    profile   |-> <<"edit">>]

Served(job, run) ==
    [job |-> job, todo |-> Program[job.kind], run |-> run, session |-> session, dirty |-> FALSE,
     source |-> None, working |-> None, seen |-> None, inputs |-> None, copies |-> {}, listed |-> <<>>,
     frame |-> None, profile |-> None, books |-> None]

Begin ==
    /\ \A q \in Requests : req[q].todo = <<>>
    /\ round \in DOMAIN Rounds
    /\ \E jobs \in Rounds[round] :
       \E runs \in [DOMAIN jobs -> RunsIn(db.results) \cup {None}] :
          /\ \A q \in DOMAIN jobs :
                (runs[q] # None) = (jobs[q].kind \in {"keep", "deleteRun", "show"})
          /\ req' = [q \in Requests |-> IF q \in DOMAIN jobs THEN Served(jobs[q], runs[q]) ELSE Idle]
    /\ round' = round + 1
    /\ overtaken' = {}
    /\ UNCHANGED <<db, cache, session, deaths, screen, captured, raced>>

\* What a step leaves alone: a read everything but its request, a write all but the rows too.
Reads(q) == UNCHANGED <<db, cache, session, screen, captured, raced>>
Writes(q) == UNCHANGED <<cache, session, screen, captured, raced>>
-----------------------------------------------------------------------------
(* Reading. *)

\* scenario_exploration, at the head of a view that gives up quietly without one.
Find(q) ==
    /\ At(q, "find")
    /\ IF db.exploration = NoRow THEN Leave(q)
       ELSE Continue(q, [req[q] EXCEPT !.seen = db.exploration, !.source = db.exploration.source,
                                       !.working = db.exploration.working])
    /\ Reads(q)

\* ... and where None is dereferenced, or refused by save_working.
Again(q) ==
    /\ At(q, "again")
    /\ IF db.exploration = NoRow THEN Fail(q) ELSE Continue(q, [req[q] EXCEPT !.seen = db.exploration])
    /\ Reads(q)

\* _remember_selection, _forget_if_current.
Remembered(r) ==
    IF r.job.kind # "deleteScenario" THEN [scenario |-> r.job.scenario, frame |-> r.job.frame]
    ELSE [r.session EXCEPT !.scenario = IF @ = r.job.scenario THEN None ELSE @]

\* The scenario a form names, 404 when it is gone.
Choose(q) ==
    LET job == req[q].job IN
    /\ At(q, "choose")
    /\ IF job.scenario \notin Saved(db) THEN Leave(q)
       ELSE Continue(q, [req[q] EXCEPT !.source  = job.scenario,
                                       !.dirty   = TRUE,
                                       !.seen    = db.scenarios[job.scenario],
                                       !.profile = db.profile,
                                       !.session = Remembered(req[q])])
    /\ Reads(q)

LoadSource(q) ==
    /\ At(q, "loadSource")
    /\ IF ~Resolvable(db, req[q].source) THEN Fail(q)
       ELSE Continue(q, [req[q] EXCEPT !.inputs = Resolve(db, req[q].source)])
    /\ Reads(q)

LoadWorking(q) ==
    /\ At(q, "loadWorking")
    /\ IF ~Resolvable(db, req[q].seen.working) THEN Fail(q)
       ELSE Continue(q, [req[q] EXCEPT !.inputs = Resolve(db, req[q].seen.working)])
    /\ Reads(q)

\* Mutant: the destinations are swapped.
DivergedSwapped(source, working) == {c \in Pairs : working[c] = source[c]}

\* branch_destinations: the components to copy are those that diverged from the anchor.
Diverged(source, working) == {c \in Pairs : working[c] # source[c]}

Diverge(q) ==
    LET r == req[q] IN
    /\ At(q, "diverge")
    /\ IF ~Resolvable(db, r.source) \/ ~Resolvable(db, r.seen.working) THEN Fail(q)
       ELSE Continue(q, [r EXCEPT
                !.copies = Diverged(Resolve(db, r.source), Resolve(db, r.seen.working))])
    /\ Reads(q)
-----------------------------------------------------------------------------
(* The sandbox: enter and re-seed, tweak, save back. *)

Seed(q) ==
    /\ At(q, "seed")
    /\ IF req[q].source \notin Scenarios(db) THEN Fail(q) /\ UNCHANGED db
       ELSE /\ db' = Seeded(db, req[q].source, req[q].inputs)
            /\ Continue(q, req[q])
    /\ Writes(q)

\* record_exploration_frame saves the row as it was read.
RecordFrame(q) ==
    LET row == [req[q].seen EXCEPT !.frame = req[q].job.frame] IN
    /\ At(q, "frame")
    /\ IF ~Stands(db, row) THEN Fail(q) /\ UNCHANGED db
       ELSE db' = ExplorationSaved(db, row) /\ Continue(q, req[q])
    /\ Writes(q)

\* overwrite_working: the dial that was turned, over the values loaded before.
Overwrite(q) ==
    LET r == req[q] IN
    /\ At(q, "overwrite")
    /\ IF ~Resolvable(db, r.seen.working) THEN Fail(q) /\ UNCHANGED db
       ELSE /\ db' = Written(db, r.seen.working, Pairs, [r.inputs EXCEPT ![r.job.dial] = r.job.value])
            /\ Continue(q, r)
    /\ Writes(q)

\* save_working's block: overwrite the anchor's sets, copy the rest, re-anchor.
Save(q) ==
    LET r       == req[q]
        kept    == Written(db, r.source, Pairs \ r.copies, r.inputs)
        branch  == r.copies # {}
        d       == IF branch THEN Minted(kept, "SAVED", r.copies, db.scenarios[r.source], r.inputs)
                   ELSE kept
        row     == [r.seen EXCEPT !.source = IF branch THEN db.next + 2 ELSE r.source]
    IN
    /\ At(q, "save")
    /\ IF r.source \notin Scenarios(db) \/ ~Stands(db, r.seen) THEN Fail(q) /\ UNCHANGED db
       ELSE db' = ExplorationSaved(d, row) /\ Continue(q, r)
    /\ Writes(q)
-----------------------------------------------------------------------------
(* Runs. *)

\* _frame: the frame recorded on the exploration, found again.
Framed(q, exploration) == FrameOf(exploration)

ResolveFrame(q) ==
    /\ At(q, "resolve")
    /\ IF db.exploration = NoRow THEN Fail(q)
       ELSE Continue(q, [req[q] EXCEPT !.frame = Framed(q, db.exploration)])
    /\ Reads(q)

\* profile_changes: the facts it lists; the terms of a loan, say, are not among them.
FactsDiffer(before, after) == before.facts # after.facts

\* Mutant: the profile a run embeds is taken for the current one.
DriftedNever(runs, profile) == FALSE

\* _profile_drift: the facts profile_changes compares, against the newest transient run.
Drifted(runs, profile) == DOMAIN runs # {} /\ FactsDiffer(Newest(runs).profile, profile)

\* ExploreView.get: a run when there is none yet or the frame changed, unless drifted.
Strip(q) ==
    LET runs  == Transient(db)
        stale == \/ DOMAIN runs = {}
                 \/ Newest(runs).frame # req[q].frame /\ ~Drifted(runs, db.profile)
    IN
    /\ At(q, "strip")
    /\ Proceed(q, [req[q] EXCEPT !.listed = runs],
               (IF stale THEN RunSteps \o <<"relist">> ELSE <<>>) \o Tail(req[q].todo))
    /\ Reads(q)

Relist(q) ==
    /\ At(q, "relist")
    /\ IF DOMAIN Transient(db) = {} THEN Fail(q)
       ELSE Continue(q, [req[q] EXCEPT !.listed = Transient(db)])
    /\ Reads(q)

\* ExploreView.post: Re-run is refused while the profile has drifted.
Drift(q) ==
    /\ At(q, "drift")
    /\ IF Drifted(Transient(db), db.profile) THEN Leave(q) ELSE Continue(q, req[q])
    /\ Reads(q)

\* run_working_scenario returns without a run when there is nothing to run.
Sandbox(q) ==
    LET r == req[q] IN
    /\ At(q, "sandbox")
    /\ IF db.exploration = NoRow
       THEN Proceed(q, r, SubSeq(r.todo, Len(RunSteps) + 1, Len(r.todo)))
       ELSE Continue(q, [r EXCEPT !.seen = db.exploration, !.profile = db.profile])
    /\ Reads(q)

\* run_and_capture commits the books before the run that refers to them.
SaveBooks(q) ==
    /\ At(q, "saveBooks")
    /\ db' = [db EXCEPT !.runs = @ + 1, !.books = @ \cup {db.runs + 1}]
    /\ Continue(q, [req[q] EXCEPT !.run = db.runs + 1])
    /\ Writes(q)

Captured(d, run, role, r) ==
    [d EXCEPT !.rows = @ + 1,
              !.results = Adding(@, d.rows + 1, [run |-> run, role |-> role, frame |-> r.frame,
                                                 profile |-> r.profile, seeding |-> d.seedings])]

Capture(q) ==
    LET r == req[q] IN
    /\ At(q, "capture")
    /\ db' = Captured(db, r.run, "WORKING", r)
    /\ captured' = Adding(captured, r.run, Figures(r.inputs, r.frame, r.profile))
    /\ raced' = (raced \/ q \in overtaken)
    /\ Continue(q, r)
    /\ UNCHANGED <<cache, session, screen>>

\* FinancialForecastView.post: books and run in one block, kept from the start.
CaptureSaved(q) ==
    LET r == [req[q] EXCEPT !.frame = req[q].job.frame]
        n == db.runs + 1
    IN
    /\ At(q, "captureSaved")
    /\ db' = Captured([db EXCEPT !.runs = n, !.books = @ \cup {n}], n, "SAVED", r)
    /\ captured' = Adding(captured, n, Figures(r.inputs, r.frame, r.profile))
    /\ Continue(q, r)
    /\ UNCHANGED <<cache, session, screen, raced>>

\* Mutant: the listing forgets the role.
ListedWhateverRole(d) == d.results

\* clear_transient_runs and _prune_transient_runs list, then delete what they listed.
Listed(d) == Transient(d)
AllBut(rows, newest) ==
    Restrict(rows, {n \in DOMAIN rows : Cardinality({m \in DOMAIN rows : m > n}) >= newest})

All(q) ==
    /\ At(q, "all")
    /\ Continue(q, [req[q] EXCEPT !.listed = Listed(db)])
    /\ Reads(q)

Beyond(q) ==
    /\ At(q, "beyond")
    /\ Continue(q, [req[q] EXCEPT !.listed = AllBut(Listed(db), Retained)])
    /\ Reads(q)

\* delete_runs.
Drop(q) ==
    /\ At(q, "drop")
    /\ db' = WithoutRuns(db, RunsIn(req[q].listed))
    /\ Continue(q, req[q])
    /\ Writes(q)

\* get_object_or_404 on a run: DeleteRunView looks among the kept ones only.
Get(q) ==
    LET wanted == Restrict(db.results, {n \in DOMAIN db.results :
                      /\ db.results[n].run = req[q].run
                      /\ Kind(q) = "deleteRun" => db.results[n].role = "SAVED"})
    IN
    /\ At(q, "get")
    /\ IF DOMAIN wanted = {} THEN Leave(q) ELSE Continue(q, [req[q] EXCEPT !.listed = wanted])
    /\ Reads(q)

\* An update of a row that is gone raises.
Keep(q) ==
    LET rows == {n \in DOMAIN db.results : db.results[n].run = req[q].run} IN
    /\ At(q, "keep")
    /\ IF rows = {} THEN Fail(q) /\ UNCHANGED db
       ELSE /\ db' = [db EXCEPT !.results = [n \in DOMAIN @ |->
                          IF n \in rows THEN [@[n] EXCEPT !.role = "SAVED"] ELSE @[n]]]
            /\ Continue(q, req[q])
    /\ Writes(q)
-----------------------------------------------------------------------------
(* Showing a run through the cache of books. *)

\* What the rest of the page is rendered from, and the run to show: the newest.
Inputs(q) ==
    LET r == req[q] IN
    /\ At(q, "inputs")
    /\ IF ~Resolvable(db, r.working) \/ ~Resolvable(db, r.source) THEN Fail(q)
       ELSE Continue(q, [r EXCEPT !.run = Newest(r.listed).run])
    /\ Reads(q)

Cached(run)   == {n \in DOMAIN cache : cache[n].run = run}
Place(run)    == CHOOSE n \in Cached(run) : TRUE
Uncached(run) == IF Cached(run) = {} THEN cache ELSE RemoveAt(cache, Place(run))
Shown(run, books) == [run |-> run, figures |-> books]

\* load_run_books: a hit is moved to the end and shown; a miss reloads outside the lock.
Lookup(q) ==
    LET r == req[q] IN
    /\ At(q, "lookup")
    /\ IF Cached(r.run) = {} THEN Proceed(q, r, <<"reload", "insert">>) /\ UNCHANGED <<cache, screen>>
       ELSE /\ cache'  = Append(Uncached(r.run), cache[Place(r.run)])
            /\ screen' = Shown(r.run, cache[Place(r.run)].books)
            /\ Continue(q, r)
    /\ UNCHANGED <<db, session, captured, raced>>

\* The books of a run deleted meanwhile load as far as rows are left, here as nothing.
Reload(q) ==
    LET r == req[q] IN
    /\ At(q, "reload")
    /\ Continue(q, [r EXCEPT !.books = IF r.run \in db.books THEN captured[r.run] ELSE None])
    /\ Reads(q)

Evicted(entries) == SubSeq(entries, Len(entries) - Min({Len(entries), MaxCachedRuns}) + 1, Len(entries))
Entry(r) == [run |-> r.run, books |-> r.books]

Insert(q) ==
    LET r == req[q] IN
    /\ At(q, "insert")
    /\ cache'  = Evicted(Append(Uncached(r.run), Entry(r)))
    /\ screen' = Shown(r.run, r.books)
    /\ Continue(q, r)
    /\ UNCHANGED <<db, session, captured, raced>>
-----------------------------------------------------------------------------
(* Deleting a scenario: the row, then the sets nothing uses any more. *)

Count(q) ==
    /\ At(q, "count")
    /\ IF Cardinality(Saved(db)) <= 1 THEN Leave(q) ELSE Continue(q, req[q])
    /\ Reads(q)

\* record.delete(), with its cascade and the receivers in one transaction.
Delete(q) ==
    LET r == req[q] IN
    /\ At(q, "delete")
    /\ IF \E c \in Pairs : r.seen[c] \notin SetIds(db) THEN Fail(q) /\ UNCHANGED db
       ELSE db' = WithoutScenarios(db, {r.source}) /\ Continue(q, r)
    /\ Writes(q)

\* _delete_if_orphaned asks, then deletes; the last of its kind is kept.
Users(q, step, c) ==
    LET id == req[q].seen[c] IN
    /\ At(q, step)
    /\ IF \/ \E s \in Saved(db) : db.scenarios[s][c] = id
          \/ Cardinality({x \in SetIds(db) : db.sets[x].kind = c /\ db.sets[x].role = "SAVED"}) <= 1
       THEN Proceed(q, req[q], Tail(Tail(req[q].todo)))
       ELSE Continue(q, req[q])
    /\ Reads(q)

Orphan(q, c) ==
    /\ At(q, c)
    /\ db' = WithoutSet(db, req[q].seen[c])
    /\ Continue(q, req[q])
    /\ Writes(q)
-----------------------------------------------------------------------------
\* save_profile: facts profile_changes compares, or terms it does not look at.
EditProfile(q) ==
    /\ At(q, "edit")
    /\ db' = [db EXCEPT !.profile[req[q].job.part] = @ + 1]
    /\ Continue(q, req[q])
    /\ Writes(q)

\* SessionMiddleware.process_response: the whole session as the request has it.
Respond(q) ==
    /\ At(q, "respond")
    /\ session' = req[q].session
    /\ Continue(q, req[q])
    /\ UNCHANGED <<db, cache, screen, captured, raced>>

Step(q) ==
    \/ Find(q) \/ Again(q) \/ Choose(q) \/ LoadSource(q) \/ LoadWorking(q) \/ Diverge(q)
    \/ Seed(q) \/ RecordFrame(q) \/ Overwrite(q) \/ Save(q)
    \/ ResolveFrame(q) \/ Strip(q) \/ Relist(q) \/ Drift(q) \/ Sandbox(q)
    \/ SaveBooks(q) \/ Capture(q) \/ CaptureSaved(q) \/ All(q) \/ Beyond(q) \/ Drop(q)
    \/ Get(q) \/ Keep(q) \/ Inputs(q) \/ Lookup(q) \/ Reload(q) \/ Insert(q)
    \/ Count(q) \/ Delete(q)
    \/ Users(q, "planUsers", "plans") \/ Users(q, "assumptionUsers", "assumptions")
    \/ \E c \in Pairs : Orphan(q, c)
    \/ EditProfile(q) \/ Respond(q)

Editable(d) == <<d.scenarios, d.sets, d.exploration, d.profile, d.seedings>>

Serve(q) ==
    /\ Step(q)
    /\ overtaken' = overtaken \cup
          {p \in Requests \ {q} : req[p].todo # <<>> /\ Editable(db') # Editable(db)}
    /\ UNCHANGED <<round, deaths>>

\* The worker is killed: nothing more of the request happens.
Die(q) ==
    /\ req[q].todo # <<>> /\ deaths < MaxDeaths
    /\ Fail(q)
    /\ deaths' = deaths + 1
    /\ raced' = TRUE
    /\ UNCHANGED <<db, cache, session, screen, round, captured, overtaken>>

Init ==
    /\ db = [scenarios   |-> OpeningScenarios,
             sets        |-> [id \in UNION {{OpeningScenarios[s][c] : c \in Pairs} :
                                              s \in DOMAIN OpeningScenarios} |->
                                 [kind  |-> IF \E s \in DOMAIN OpeningScenarios :
                                                  OpeningScenarios[s].plans = id
                                            THEN "plans" ELSE "assumptions",
                                  role  |-> "SAVED", value |-> 0]],
             exploration |-> NoRow, profile |-> [facts |-> 0, terms |-> 0],
             results |-> <<>>, rows |-> 0, books |-> {}, runs |-> 0, seedings |-> 0,
             next    |-> FirstNew]
    /\ cache = <<>> /\ session = [scenario |-> None, frame |-> None]
    /\ req = [q \in Requests |-> Idle]
    /\ round = 1 /\ deaths = 0 /\ raced = FALSE
    /\ screen = None /\ captured = <<>> /\ overtaken = {}

Next == Begin \/ \E q \in Requests : Serve(q) \/ Die(q)
Spec == Init /\ [][Next]_vars
-----------------------------------------------------------------------------
(* The promise of the planning layer, and what this module's state means to it. *)

RoleOf(d, run) == IF run \in RunsIn(d.results)
                  THEN d.results[CHOOSE n \in DOMAIN d.results : d.results[n].run = run].role
                  ELSE "gone"

OnShelf == [run \in DOMAIN captured |-> [role |-> RoleOf(db, run), figures |-> captured[run]]]
Doomed  == UNION {RunsIn(req[q].listed) : q \in {p \in Requests : At(p, "drop")}}

Shelf == INSTANCE RunShelf WITH
    Nothing <- None, shelf <- OnShelf, doomed <- Doomed, screen <- screen
-----------------------------------------------------------------------------
(* Properties. *)

\* At every commit: scenarios have their sets, and there is an exploration exactly when
\* there is its sandbox -- one WORKING scenario over two WORKING sets of its own, beside
\* an anchor that is a saved scenario.  No deletion, re-entry, save or death in between
\* leaves a sandbox without its exploration or the other way round.
SandboxWhole ==
    LET e       == db.exploration
        sandbox == Scenarios(db) \ Saved(db)
    IN
    /\ \A s \in Scenarios(db) : Resolvable(db, s)
    /\ IF e = NoRow THEN sandbox = {} ELSE sandbox = {e.working} /\ e.source \in Saved(db)
    /\ {x \in SetIds(db) : db.sets[x].role = "WORKING"} = UNION {SetsOf(db, s) : s \in sandbox}
    /\ \A s \in Saved(db) : \A x \in SetsOf(db, s) : db.sets[x].role = "SAVED"

\* Between requests, the transient runs can be compared with one another: all were made
\* since the sandbox was last seeded, and none of the household facts the workspace
\* compares differs between two of them -- unless the sandbox or the profile changed
\* under a request that captured a run, or a worker died.
PileIsComparable ==
    ~raced /\ (\A q \in Requests : req[q].todo = <<>>) =>
        \A m, n \in DOMAIN Transient(db) :
            LET a == Transient(db)[m]  b == Transient(db)[n]
            IN  a.seeding = db.seedings /\ ~FactsDiffer(a.profile, b.profile)

\* A save nothing overtook leaves the exploration anchored to a scenario that holds what
\* the sandbox holds, and a save as new changes what no other scenario resolves to,
\* however the sets are shared.
SaveLeavesTheAnchor ==
    [][\A q \in Requests : At(q, "save") /\ req'[q] # req[q] /\ q \notin overtaken /\ deaths' = deaths =>
          /\ Resolve(db', db'.exploration.source) = Resolve(db', db'.exploration.working)
          /\ Kind(q) = "branch" =>
                \A s \in Saved(db) : Resolve(db', s) = Resolve(db, s)]_vars

\* Requests, rows and cache together implement the shelf of runs: figures never change,
\* a kept run goes only if the user deletes it or if it was listed for removal before it
\* was kept, and what is shown is what was captured.
ImplementsShelf == Shelf!Spec
=============================================================================
