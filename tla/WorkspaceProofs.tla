--------------------------- MODULE WorkspaceProofs ---------------------------
(***************************************************************************)
(* What holds of the Explore workspace for every workload, every retention  *)
(* and every number of deaths: requests keep to their programs, the rows    *)
(* are whole at every commit, what a request read is stale only in the ways *)
(* its next steps allow for, and the whole implements the shelf of runs.    *)
(***************************************************************************)
EXTENDS Workspace, SequenceTheorems, WellFoundedInduction, TLAPS

\* A record with at least some fields.
IsRow(x, fields) == x = [f \in DOMAIN x |-> x[f]] /\ fields \subseteq DOMAIN x

RequestFields == {"job", "todo", "run", "session", "dirty", "source", "working", "seen",
                  "inputs", "copies", "listed", "frame", "profile", "books"}
-----------------------------------------------------------------------------
(* What may follow what in a request's program. *)

Steps == {"find", "again", "choose", "loadSource", "loadWorking", "diverge", "seed", "frame",
          "overwrite", "save", "resolve", "strip", "relist", "drift", "sandbox", "saveBooks",
          "capture", "captureSaved", "all", "beyond", "drop", "get", "keep", "inputs", "lookup",
          "reload", "insert", "count", "delete", "planUsers", "plans", "assumptionUsers",
          "assumptions", "edit", "respond"}
Deleting == {"count", "delete", "planUsers", "plans", "assumptionUsers", "assumptions"}
Follows(a, b) ==
    /\ b = "drop" => a \in {"all", "beyond", "get"}
    /\ b = "inputs" => a \in {"strip", "relist"}
    /\ b = "lookup" => a \in {"inputs", "get"}
    /\ b = "insert" => a = "reload"
    /\ b = "capture" => a = "saveBooks"
    /\ b = "loadWorking" => a \in {"find", "again", "sandbox"}
    /\ b = "save" => a = "loadWorking"
    /\ b = "frame" => a = "again"
    /\ b \in Deleting => a \in Deleting \cup {"choose"}
    /\ b # "reload"
    /\ a = "planUsers" => b = "plans"
    /\ a = "plans" => b = "assumptionUsers"
    /\ a = "assumptionUsers" => b = "assumptions"
    /\ a = "assumptions" => b = "respond"
    /\ a = "drop" => b \in {"relist", "again"}

Asks(a) == a \in {"planUsers", "assumptionUsers"}

Orderly(t) ==
    /\ t \in Seq(Steps)
    /\ \A n \in 1 .. Len(t) - 1 : Follows(t[n], t[n + 1])
    /\ \A n \in 1 .. Len(t) :
          /\ t[n] = "sandbox" => n + 5 <= Len(t) /\ t[n + 5] = "drop"
          /\ Asks(t[n]) => n # Len(t)

\* What is left of an orderly program is orderly.
LEMMA TailOrderly ==
    ASSUME NEW t, Orderly(t), t # <<>>
    PROVE  /\ Orderly(Tail(t))
           /\ Tail(t) # <<>> => Follows(Head(t), Head(Tail(t)))
<1>1. t \in Seq(Steps) /\ Len(t) \in Nat /\ Len(t) >= 1 /\ Len(Tail(t)) = Len(t) - 1
  BY DEF Orderly
<1>2. \A n \in 1 .. Len(Tail(t)) : Tail(t)[n] = t[n + 1]
  BY <1>1
<1>3. Tail(t) \in Seq(Steps)
  BY <1>1
<1>8. ASSUME NEW n \in 1 .. Len(Tail(t)) - 1 PROVE Follows(Tail(t)[n], Tail(t)[n + 1])
  <2>1. n + 1 \in 1 .. Len(t) - 1 /\ n \in 1 .. Len(Tail(t)) /\ n + 1 \in 1 .. Len(Tail(t))
    BY <1>1
  <2>2. Follows(t[n + 1], t[n + 1 + 1])
    BY <2>1 DEF Orderly
  <2> QED BY <2>1, <2>2, <1>2
<1>9. ASSUME NEW n \in 1 .. Len(Tail(t))
      PROVE  /\ Tail(t)[n] = "sandbox" => n + 5 <= Len(Tail(t)) /\ Tail(t)[n + 5] = "drop"
             /\ Asks(Tail(t)[n]) => n # Len(Tail(t))
  <2>1. n + 1 \in 1 .. Len(t) /\ Tail(t)[n] = t[n + 1]
    BY <1>1, <1>2
  <2>5. Asks(t[n + 1]) => n + 1 # Len(t)
    BY <2>1 DEF Orderly
  <2>7. n = Len(Tail(t)) => n + 1 = Len(t)
    BY <1>1
  <2>2. Asks(Tail(t)[n]) => n # Len(Tail(t))
    BY <2>1, <2>5, <2>7
  <2>3. Tail(t)[n] = "sandbox" => n + 1 + 5 <= Len(t) /\ t[n + 1 + 5] = "drop"
    BY <2>1 DEF Orderly
  <2>4. n + 1 + 5 <= Len(t) => n + 5 \in 1 .. Len(Tail(t)) /\ n + 1 + 5 = n + 5 + 1
    BY <1>1
  <2>6. n + 5 \in 1 .. Len(Tail(t)) => Tail(t)[n + 5] = t[n + 5 + 1] /\ n + 5 <= Len(Tail(t))
    BY <1>1, <1>2
  <2> QED BY <2>1, <2>2, <2>3, <2>4, <2>6
<1>4. Orderly(Tail(t))
  BY <1>1, <1>3, <1>8, <1>9 DEF Orderly
<1>5. Tail(t) # <<>> => Head(Tail(t)) = t[2] /\ Head(t) = t[1] /\ 1 \in 1 .. Len(t) - 1
  BY <1>1, <1>2, <1>3
<1> QED BY <1>4, <1>5 DEF Orderly

\* Two orderly programs in a row, when the second may follow the first.
LEMMA Joined ==
    ASSUME NEW s, NEW t, Orderly(s), Orderly(t), s # <<>>, t # <<>>, Follows(s[Len(s)], t[1])
    PROVE  Orderly(s \o t) /\ s \o t # <<>> /\ (s \o t)[Len(s \o t)] = t[Len(t)]
<1>1. /\ s \in Seq(Steps) /\ Len(s) \in Nat /\ Len(s) >= 1
      /\ t \in Seq(Steps) /\ Len(t) \in Nat /\ Len(t) >= 1
  BY DEF Orderly
<1>2. s \o t \in Seq(Steps) /\ Len(s \o t) = Len(s) + Len(t)
  BY <1>1
<1>3. \A n \in 1 .. Len(s) : (s \o t)[n] = s[n]
  BY <1>1
<1>4. \A n \in 1 .. Len(t) : (s \o t)[Len(s) + n] = t[n]
  BY <1>1
<1>5. ASSUME NEW n \in 1 .. Len(s \o t) - 1 PROVE Follows((s \o t)[n], (s \o t)[n + 1])
  <2>1. CASE n < Len(s)
    BY <2>1, <1>1, <1>3 DEF Orderly
  <2>2. CASE n = Len(s)
    BY <2>2, <1>1, <1>3, <1>4
  <2>3. CASE n > Len(s)
    <3>1. n - Len(s) \in 1 .. Len(t) - 1 /\ n - Len(s) + 1 \in 1 .. Len(t)
          /\ n = Len(s) + (n - Len(s)) /\ n + 1 = Len(s) + (n - Len(s) + 1)
      BY <2>3, <1>1, <1>2
    <3> QED BY <3>1, <1>4 DEF Orderly
  <2> QED BY <2>1, <2>2, <2>3, <1>1
<1>6. ASSUME NEW n \in 1 .. Len(s \o t), (s \o t)[n] = "sandbox"
      PROVE  n + 5 <= Len(s \o t) /\ (s \o t)[n + 5] = "drop"
  <2>1. CASE n <= Len(s)
    <3>1. n \in 1 .. Len(s) /\ s[n] = "sandbox"
      BY <2>1, <1>1, <1>3, <1>6
    <3>2. n + 5 <= Len(s) /\ s[n + 5] = "drop" /\ n + 5 \in 1 .. Len(s)
      BY <3>1, <1>1 DEF Orderly
    <3> QED BY <3>2, <1>1, <1>2, <1>3
  <2>2. CASE n > Len(s)
    <3>1. n - Len(s) \in 1 .. Len(t) /\ n = Len(s) + (n - Len(s))
      BY <2>2, <1>1, <1>2
    <3>2. t[n - Len(s)] = "sandbox"
      BY <3>1, <1>4, <1>6
    <3>3. n - Len(s) + 5 <= Len(t) /\ t[n - Len(s) + 5] = "drop" /\ n - Len(s) + 5 \in 1 .. Len(t)
      BY <3>1, <3>2, <1>1 DEF Orderly
    <3>4. n + 5 = Len(s) + (n - Len(s) + 5) /\ n + 5 <= Len(s \o t)
      BY <3>3, <3>1, <1>1, <1>2
    <3> QED BY <3>3, <3>4, <1>4
  <2> QED BY <2>1, <2>2, <1>1
<1>8. ASSUME NEW n \in 1 .. Len(s \o t), Asks((s \o t)[n]) PROVE n # Len(s \o t)
  BY <1>8, <1>1, <1>2, <1>4 DEF Orderly
<1>7. (s \o t)[Len(s \o t)] = t[Len(t)]
  BY <1>1, <1>2, <1>4
<1> QED BY <1>1, <1>2, <1>5, <1>6, <1>7, <1>8 DEF Orderly

LEMMA One == ASSUME NEW a \in Steps, a # "sandbox", ~Asks(a) PROVE Orderly(<<a>>) /\ <<a>> # <<>>
BY DEF Orderly

LEMMA Two ==
    ASSUME NEW a \in Steps, NEW b \in Steps, Follows(a, b), "sandbox" \notin {a, b}, ~Asks(b)
    PROVE  Orderly(<<a, b>>) /\ <<a, b>> # <<>>
BY DEF Orderly

LEMMA Three ==
    ASSUME NEW a \in Steps, NEW b \in Steps, NEW c \in Steps, Follows(a, b), Follows(b, c),
           "sandbox" \notin {a, b, c}, ~Asks(c)
    PROVE  Orderly(<<a, b, c>>) /\ <<a, b, c>> # <<>>
BY DEF Orderly

LEMMA Four ==
    ASSUME NEW a \in Steps, NEW b \in Steps, NEW c \in Steps, NEW d \in Steps, Follows(a, b),
           Follows(b, c), Follows(c, d), "sandbox" \notin {a, b, c, d}, ~Asks(d)
    PROVE  Orderly(<<a, b, c, d>>) /\ <<a, b, c, d>> # <<>>
BY DEF Orderly

LEMMA Five ==
    ASSUME NEW a \in Steps, NEW b \in Steps, NEW c \in Steps, NEW d \in Steps, NEW e \in Steps,
           Follows(a, b), Follows(b, c), Follows(c, d), Follows(d, e),
           "sandbox" \notin {a, b, c, d, e}, ~Asks(e)
    PROVE  Orderly(<<a, b, c, d, e>>) /\ <<a, b, c, d, e>> # <<>>
BY DEF Orderly

LEMMA Runs ==
    /\ Orderly(RunSteps) /\ RunSteps # <<>> /\ Len(RunSteps) = 6
    /\ RunSteps[1] = "sandbox" /\ RunSteps[Len(RunSteps)] = "drop"
<1> DEFINE t == <<"sandbox", "loadWorking", "saveBooks", "capture", "beyond", "drop">>
<1>1. t \in Seq(Steps) /\ Len(t) = 6
  BY DEF Steps
<1>2. /\ Follows(t[1], t[2]) /\ Follows(t[2], t[3]) /\ Follows(t[3], t[4])
      /\ Follows(t[4], t[5]) /\ Follows(t[5], t[6])
  BY DEF Follows, Deleting
<1>3. /\ t[1] = "sandbox" /\ t[2] # "sandbox" /\ t[3] # "sandbox" /\ t[4] # "sandbox"
      /\ t[5] # "sandbox" /\ t[6] = "drop"
  OBVIOUS
<1>4. t # <<>> /\ RunSteps = t
  BY DEF RunSteps
<1> HIDE DEF t
<1>5. \A n \in 1 .. Len(t) - 1 : n = 1 \/ n = 2 \/ n = 3 \/ n = 4 \/ n = 5
  BY <1>1
<1>6. \A n \in 1 .. Len(t) - 1 : Follows(t[n], t[n + 1])
  BY <1>2, <1>5
<1>7. \A n \in 1 .. Len(t) : n = 1 \/ n = 2 \/ n = 3 \/ n = 4 \/ n = 5 \/ n = 6
  BY <1>1
<1>8. \A n \in 1 .. Len(t) : /\ t[n] = "sandbox" => n + 5 <= Len(t) /\ t[n + 5] = "drop"
                             /\ Asks(t[n]) => n # Len(t)
  BY <1>1, <1>3, <1>7 DEF Asks
<1> QED BY <1>1, <1>3, <1>4, <1>6, <1>8 DEF Orderly

LEMMA Parts ==
    /\ Orderly(FreshSteps) /\ FreshSteps # <<>>
    /\ Orderly(OrphanSteps) /\ OrphanSteps # <<>>
    /\ Orderly(ShowSteps) /\ ShowSteps # <<>>
<1>1. Orderly(FreshSteps) /\ FreshSteps # <<>>
  <2>1. FreshSteps = <<"loadSource", "seed", "all", "drop">>
    BY DEF FreshSteps
  <2>4. ~Asks("drop")
    BY DEF Asks
  <2>3. {"loadSource", "seed", "all", "drop"} \subseteq Steps
    BY DEF Steps
  <2>2. Follows("loadSource", "seed") /\ Follows("seed", "all") /\ Follows("all", "drop")
    BY DEF Follows, Deleting
  <2> QED BY <2>1, <2>2, <2>3, <2>4, Four
<1>2. Orderly(OrphanSteps) /\ OrphanSteps # <<>>
  <2>1. OrphanSteps = <<"planUsers", "plans", "assumptionUsers", "assumptions">>
    BY DEF OrphanSteps
  <2>4. ~Asks("assumptions")
    BY DEF Asks
  <2>3. {"planUsers", "plans", "assumptionUsers", "assumptions"} \subseteq Steps
    BY DEF Steps
  <2>2. /\ Follows("planUsers", "plans") /\ Follows("plans", "assumptionUsers")
        /\ Follows("assumptionUsers", "assumptions")
    BY DEF Follows, Deleting
  <2> QED BY <2>1, <2>2, <2>3, <2>4, Four
<1>3. Orderly(ShowSteps) /\ ShowSteps # <<>>
  <2>1. ShowSteps = <<"get", "lookup">>
    BY DEF ShowSteps
  <2>4. ~Asks("lookup")
    BY DEF Asks
  <2>3. {"get", "lookup"} \subseteq Steps
    BY DEF Steps
  <2>2. Follows("get", "lookup")
    BY DEF Follows, Deleting
  <2> QED BY <2>1, <2>2, <2>3, <2>4, Two
<1> QED BY <1>1, <1>2, <1>3

\* Every page starts an orderly program.
LEMMA Programs == \A kind \in Kinds : Orderly(Program[kind]) /\ Program[kind] # <<>>
<1>1. Orderly(Program.view) /\ Program.view # <<>>
  <2>1. Program.view = <<"find", "resolve", "strip", "inputs", "lookup">>
    BY DEF Program
  <2>4. ~Asks("lookup")
    BY DEF Asks
  <2>3. {"find", "resolve", "strip", "inputs", "lookup"} \subseteq Steps
    BY DEF Steps
  <2>2. /\ Follows("find", "resolve") /\ Follows("resolve", "strip")
        /\ Follows("strip", "inputs") /\ Follows("inputs", "lookup")
    BY DEF Follows, Deleting
  <2> QED BY <2>1, <2>2, <2>3, <2>4, Five
<1>2. Orderly(Program.tune) /\ Program.tune # <<>>
  <2>1. Program.tune = <<"find", "loadWorking", "find", "overwrite">>
    BY DEF Program
  <2>4. ~Asks("overwrite")
    BY DEF Asks
  <2>3. {"find", "loadWorking", "overwrite"} \subseteq Steps
    BY DEF Steps
  <2>2. Follows("find", "loadWorking") /\ Follows("loadWorking", "find") /\ Follows("find", "overwrite")
    BY DEF Follows, Deleting
  <2> QED BY <2>1, <2>2, <2>3, <2>4, Four
<1>3. Orderly(Program.update) /\ Program.update # <<>>
  <2>1. Program.update = <<"find", "again", "loadWorking", "save">>
    BY DEF Program
  <2>4. ~Asks("save")
    BY DEF Asks
  <2>3. {"find", "again", "loadWorking", "save"} \subseteq Steps
    BY DEF Steps
  <2>2. Follows("find", "again") /\ Follows("again", "loadWorking") /\ Follows("loadWorking", "save")
    BY DEF Follows, Deleting
  <2> QED BY <2>1, <2>2, <2>3, <2>4, Four
<1>4. Orderly(Program.branch) /\ Program.branch # <<>>
  <2>1. Program.branch = <<"find", "diverge", "again", "loadWorking", "save">>
    BY DEF Program
  <2>4. ~Asks("save")
    BY DEF Asks
  <2>3. {"find", "diverge", "again", "loadWorking", "save"} \subseteq Steps
    BY DEF Steps
  <2>2. /\ Follows("find", "diverge") /\ Follows("diverge", "again")
        /\ Follows("again", "loadWorking") /\ Follows("loadWorking", "save")
    BY DEF Follows, Deleting
  <2> QED BY <2>1, <2>2, <2>3, <2>4, Five
<1>5. Orderly(Program.keep) /\ Program.keep # <<>>
  <2>1. Program.keep = <<"get", "keep">>
    BY DEF Program
  <2>4. ~Asks("keep")
    BY DEF Asks
  <2>3. {"get", "keep"} \subseteq Steps
    BY DEF Steps
  <2>2. Follows("get", "keep")
    BY DEF Follows, Deleting
  <2> QED BY <2>1, <2>2, <2>3, <2>4, Two
<1>6. Orderly(Program.deleteRun) /\ Program.deleteRun # <<>>
  <2>1. Program.deleteRun = <<"get", "drop">>
    BY DEF Program
  <2>4. ~Asks("drop")
    BY DEF Asks
  <2>3. {"get", "drop"} \subseteq Steps
    BY DEF Steps
  <2>2. Follows("get", "drop")
    BY DEF Follows, Deleting
  <2> QED BY <2>1, <2>2, <2>3, <2>4, Two
<1>7. Orderly(Program.hub) /\ Program.hub # <<>>
  <2>1. Program.hub = <<"choose", "loadSource", "captureSaved", "respond">>
    BY DEF Program
  <2>4. ~Asks("respond")
    BY DEF Asks
  <2>3. {"choose", "loadSource", "captureSaved", "respond"} \subseteq Steps
    BY DEF Steps
  <2>2. /\ Follows("choose", "loadSource") /\ Follows("loadSource", "captureSaved")
        /\ Follows("captureSaved", "respond")
    BY DEF Follows, Deleting
  <2> QED BY <2>1, <2>2, <2>3, <2>4, Four
<1>8. Orderly(Program.profile) /\ Program.profile # <<>>
  <2>1. Program.profile = <<"edit">>
    BY DEF Program
  <2>4. ~Asks("edit")
    BY DEF Asks
  <2>3. {"edit"} \subseteq Steps
    BY DEF Steps
  <2> QED BY <2>1, <2>3, <2>4, One
<1>20. Orderly(Program.show) /\ Program.show # <<>>
  BY Parts DEF Program
<1>21. Orderly(Program.reset) /\ Program.reset # <<>>
  <2> DEFINE a == <<"find">>
  <2>1. Orderly(a) /\ a # <<>> /\ a[Len(a)] = "find"
    BY One DEF Steps, Asks
  <2>2. FreshSteps[1] = "loadSource" /\ Follows("find", "loadSource")
    BY DEF FreshSteps, Follows, Deleting
  <2>3. Program.reset = a \o FreshSteps
    BY DEF Program, ResetSteps
  <2> HIDE DEF a
  <2> QED BY <2>1, <2>2, <2>3, Parts, Joined
<1>22. Orderly(Program.enter) /\ Program.enter # <<>>
  <2> DEFINE a == <<"choose">>
             b == <<"again", "frame", "respond">>
             c == a \o FreshSteps
  <2>1. Orderly(a) /\ a # <<>> /\ a[Len(a)] = "choose" /\ Len(a) = 1
    BY One DEF Steps, Asks
  <2>2. /\ FreshSteps[1] = "loadSource" /\ Follows("choose", "loadSource")
        /\ FreshSteps[Len(FreshSteps)] = "drop" /\ Follows("drop", "again")
        /\ Follows("again", "frame") /\ Follows("frame", "respond") /\ Len(FreshSteps) = 4
    BY DEF FreshSteps, Follows, Deleting
  <2>3. {"again", "frame", "respond"} \subseteq Steps /\ ~Asks("respond")
    BY DEF Steps, Asks
  <2>4. Orderly(b) /\ b # <<>>
    BY <2>2, <2>3, Three
  <2>5. b[1] = "again"
    OBVIOUS
  <2>6. Program.enter = c \o b
    BY DEF Program, EnterSteps
  <2> HIDE DEF a, b
  <2>7. Orderly(c) /\ c # <<>> /\ c[Len(c)] = "drop"
    BY <2>1, <2>2, Parts, Joined
  <2> HIDE DEF c
  <2> QED BY <2>2, <2>4, <2>5, <2>6, <2>7, Joined
<1>23. Orderly(Program.deleteScenario) /\ Program.deleteScenario # <<>>
  <2> DEFINE a == <<"choose", "count", "delete">>
             b == <<"respond">>
             c == a \o OrphanSteps
  <2>1. {"choose", "count", "delete"} \subseteq Steps /\ ~Asks("delete")
    BY DEF Steps, Asks
  <2>2. Follows("choose", "count") /\ Follows("count", "delete")
    BY DEF Follows, Deleting
  <2>3. Orderly(a) /\ a # <<>>
    BY <2>1, <2>2, Three
  <2>4. a[Len(a)] = "delete" /\ Len(a) = 3
    OBVIOUS
  <2>5. Orderly(b) /\ b # <<>> /\ b[1] = "respond"
    BY One DEF Steps, Asks
  <2>6. /\ OrphanSteps[1] = "planUsers" /\ Follows("delete", "planUsers") /\ Len(OrphanSteps) = 4
        /\ OrphanSteps[Len(OrphanSteps)] = "assumptions" /\ Follows("assumptions", "respond")
    BY DEF OrphanSteps, Follows, Deleting
  <2>7. Program.deleteScenario = c \o b
    BY DEF Program
  <2> HIDE DEF a, b
  <2>8. Orderly(c) /\ c # <<>> /\ c[Len(c)] = "assumptions"
    BY <2>3, <2>4, <2>6, Parts, Joined
  <2> HIDE DEF c
  <2> QED BY <2>5, <2>6, <2>7, <2>8, Joined
<1>24. Orderly(Program.rerun) /\ Program.rerun # <<>>
  <2> DEFINE a == <<"find", "drift", "resolve">>
  <2>1. {"find", "drift", "resolve"} \subseteq Steps /\ ~Asks("resolve")
    BY DEF Steps, Asks
  <2>2. Follows("find", "drift") /\ Follows("drift", "resolve") /\ Follows("resolve", "sandbox")
    BY DEF Follows, Deleting
  <2>3. Orderly(a) /\ a # <<>>
    BY <2>1, <2>2, Three
  <2>4. a[Len(a)] = "resolve"
    OBVIOUS
  <2>5. Program.rerun = a \o RunSteps
    BY DEF Program
  <2> HIDE DEF a
  <2> QED BY <2>2, <2>3, <2>4, <2>5, Runs, Joined
<1> QED BY <1>1, <1>2, <1>3, <1>4, <1>5, <1>6, <1>7, <1>8, <1>20, <1>21, <1>22, <1>23, <1>24 DEF Kinds
-----------------------------------------------------------------------------
(* How a step moves a request on. *)

Tidy(r)  == r.todo # <<>> => Orderly(r.todo) /\ IsRow(r, RequestFields)
Ordered  == IsRow(req, Requests) /\ DOMAIN req = Requests /\ \A q \in Requests : Tidy(req[q])

After(r, t) == IF t = <<>> THEN Idle ELSE [r EXCEPT !.todo = t]

LEMMA Idles == Idle.todo = <<>>
BY DEF Idle

\* A request moves on; the others stay where they are.
LEMMA Moved ==
    ASSUME Ordered, NEW q \in Requests, NEW r, NEW t, Proceed(q, r, t)
    PROVE  /\ IsRow(req', Requests) /\ DOMAIN req' = Requests
           /\ req'[q] = After(r, t)
           /\ \A p \in Requests : p # q => req'[p] = req[p]
BY DEF Ordered, IsRow, Proceed, After

LEMMA Advanced ==
    ASSUME Ordered, NEW q \in Requests, NEW r, NEW t, Proceed(q, r, t),
           IsRow(r, RequestFields), t = <<>> \/ Orderly(t)
    PROVE  Ordered'
<1>1. Tidy(After(r, t))
  BY Idles DEF After, Tidy, IsRow, RequestFields
<1> QED BY <1>1, Moved DEF Ordered

LEMMA Active ==
    ASSUME Ordered, NEW q \in Requests, NEW step, At(q, step)
    PROVE  /\ IsRow(req[q], RequestFields) /\ Orderly(req[q].todo) /\ req[q].todo # <<>>
           /\ Head(req[q].todo) = step
           /\ Tail(req[q].todo) = <<>> \/ Orderly(Tail(req[q].todo))
BY TailOrderly DEF At, Ordered, Tidy

LEMMA Continued ==
    ASSUME Ordered, NEW q \in Requests, NEW step, At(q, step), NEW r, Continue(q, r), IsRow(r, RequestFields)
    PROVE  Ordered'
BY Active, Advanced DEF Continue

LEMMA Responds == Orderly(<<"respond">>) /\ <<"respond">> # <<>>
BY One DEF Steps, Asks

LEMMA Left ==
    ASSUME Ordered, NEW q \in Requests, IsRow(req[q], RequestFields), Leave(q) \/ Fail(q)
    PROVE  Ordered'
BY Advanced, Responds DEF Leave, Fail

LEMMA Reloads == Orderly(<<"reload", "insert">>) /\ <<"reload", "insert">> # <<>>
<1>1. Follows("reload", "insert")
  BY DEF Follows, Deleting
<1>2. {"reload", "insert"} \subseteq Steps /\ ~Asks("insert")
  BY DEF Steps, Asks
<1> QED BY <1>1, <1>2, Two

LEMMA ReadsInOrder ==
    ASSUME Ordered, NEW q \in Requests,
           \/ Find(q) \/ Again(q) \/ Choose(q) \/ LoadSource(q) \/ LoadWorking(q) \/ Diverge(q)
           \/ ResolveFrame(q) \/ Relist(q) \/ Drift(q) \/ All(q) \/ Beyond(q) \/ Get(q)
           \/ Inputs(q) \/ Reload(q) \/ Count(q)
    PROVE  Ordered'
<1>1. CASE Find(q)
  <2> DEFINE r == [req[q] EXCEPT !.seen = db.exploration, !.source = db.exploration.source,
                                 !.working = db.exploration.working]
  <2>1. IsRow(req[q], RequestFields) /\ At(q, "find")
    BY <1>1, Active DEF Find
  <2>2. IsRow(r, RequestFields)
    BY <2>1 DEF IsRow, RequestFields
  <2>3. Leave(q) \/ Continue(q, r)
    BY <1>1 DEF Find
  <2> HIDE DEF r
  <2> QED BY <2>1, <2>2, <2>3, Continued, Left
<1>9. CASE Again(q)
  BY <1>9, Active, Continued, Left DEF Again, IsRow, RequestFields
<1>2. CASE Choose(q)
  <2> DEFINE r == [req[q] EXCEPT !.source  = req[q].job.scenario,
                                 !.dirty   = TRUE,
                                 !.seen    = db.scenarios[req[q].job.scenario],
                                 !.profile = db.profile,
                                 !.session = Remembered(req[q])]
  <2>1. IsRow(req[q], RequestFields) /\ At(q, "choose")
    BY <1>2, Active DEF Choose
  <2>2. IsRow(r, RequestFields)
    BY <2>1 DEF IsRow, RequestFields
  <2>3. Leave(q) \/ Continue(q, r)
    BY <1>2 DEF Choose
  <2> HIDE DEF r
  <2> QED BY <2>1, <2>2, <2>3, Continued, Left
<1>3. CASE LoadSource(q) \/ LoadWorking(q)
  BY <1>3, Active, Continued, Left DEF LoadSource, LoadWorking, IsRow, RequestFields
<1>4. CASE Diverge(q)
  BY <1>4, Active, Continued, Left DEF Diverge, IsRow, RequestFields
<1>5. CASE ResolveFrame(q) \/ Relist(q) \/ Drift(q)
  BY <1>5, Active, Continued, Left DEF ResolveFrame, Relist, Drift, IsRow, RequestFields
<1>6. CASE All(q) \/ Beyond(q)
  BY <1>6, Active, Continued, Left DEF All, Beyond, IsRow, RequestFields
<1>7. CASE Get(q)
  BY <1>7, Active, Continued, Left DEF Get, IsRow, RequestFields
<1>8. CASE Inputs(q)
  BY <1>8, Active, Continued, Left DEF Inputs, IsRow, RequestFields
<1>11. CASE Reload(q)
  <2> DEFINE r == [req[q] EXCEPT !.books = IF req[q].run \in db.books THEN captured[req[q].run] ELSE None]
  <2>1. IsRow(req[q], RequestFields) /\ At(q, "reload")
    BY <1>11, Active DEF Reload
  <2>2. IsRow(r, RequestFields)
    BY <2>1 DEF IsRow, RequestFields
  <2>3. Continue(q, r)
    BY <1>11 DEF Reload
  <2> HIDE DEF r
  <2> QED BY <2>1, <2>2, <2>3, Continued
<1>10. CASE Count(q)
  BY <1>10, Active, Continued, Left DEF Count, IsRow, RequestFields
<1> QED BY <1>1, <1>2, <1>3, <1>4, <1>5, <1>6, <1>7, <1>8, <1>9, <1>10, <1>11

LEMMA WritesInOrder ==
    ASSUME Ordered, NEW q \in Requests,
           \/ Seed(q) \/ RecordFrame(q) \/ Overwrite(q) \/ Save(q) \/ SaveBooks(q) \/ Capture(q)
           \/ CaptureSaved(q) \/ Drop(q) \/ Keep(q) \/ Insert(q) \/ Delete(q)
           \/ (\E c \in Pairs : Orphan(q, c)) \/ EditProfile(q) \/ Respond(q)
    PROVE  Ordered'
<1>1. CASE Seed(q) \/ RecordFrame(q) \/ Overwrite(q)
  BY <1>1, Active, Continued, Left DEF Seed, RecordFrame, Overwrite
<1>2. CASE Save(q)
  BY <1>2, Active, Continued, Left DEF Save
<1>3. CASE SaveBooks(q)
  BY <1>3, Active, Continued DEF SaveBooks, IsRow, RequestFields
<1>4. CASE Capture(q)
  BY <1>4, Active, Continued DEF Capture
<1>5. CASE CaptureSaved(q)
  BY <1>5, Active, Continued DEF CaptureSaved, IsRow, RequestFields
<1>6. CASE Drop(q) \/ EditProfile(q) \/ Respond(q) \/ \E c \in Pairs : Orphan(q, c)
  BY <1>6, Active, Continued DEF Drop, EditProfile, Respond, Orphan
<1>7. CASE Keep(q) \/ Delete(q)
  BY <1>7, Active, Continued, Left DEF Keep, Delete
<1>8. CASE Insert(q)
  BY <1>8, Active, Continued DEF Insert
<1> QED BY <1>1, <1>2, <1>3, <1>4, <1>5, <1>6, <1>7, <1>8

\* What strip and sandbox leave of the program, and what _delete_if_orphaned skips.
LEMMA Reordered ==
    ASSUME NEW t, Orderly(t), t # <<>>
    PROVE  /\ Head(t) = "strip" => Orderly(RunSteps \o <<"relist">> \o Tail(t))
           /\ Head(t) = "sandbox" =>
                LET rest == SubSeq(t, Len(RunSteps) + 1, Len(t))
                IN  rest = <<>> \/ (Orderly(rest) /\ Head(rest) \in {"relist", "again"})
           /\ Head(t) \in {"planUsers", "assumptionUsers"} =>
                \/ Tail(Tail(t)) = <<>>
                \/ /\ Orderly(Tail(Tail(t)))
                   /\ Head(Tail(Tail(t))) \in {"assumptionUsers", "respond"}
<1>1. t \in Seq(Steps) /\ Len(t) \in Nat /\ Len(t) >= 1 /\ Head(t) = t[1]
  BY DEF Orderly
<1>2. ASSUME Head(t) = "sandbox", SubSeq(t, 7, Len(t)) # <<>>
      PROVE  Orderly(SubSeq(t, 7, Len(t))) /\ Head(SubSeq(t, 7, Len(t))) \in {"relist", "again"}
  <2> DEFINE u == SubSeq(t, 7, Len(t))
  <2>1. 6 <= Len(t) /\ t[6] = "drop"
    BY <1>1, <1>2 DEF Orderly
  <2>2. Len(t) >= 7 /\ Len(u) = Len(t) - 6 /\ u \in Seq(Steps) /\ \A n \in 1 .. Len(u) : u[n] = t[n + 6]
    BY <1>1, <1>2, <2>1
  <2> HIDE DEF u
  <2>3. \A n \in 1 .. Len(u) - 1 : Follows(u[n], u[n + 1])
    <3> SUFFICES ASSUME NEW n \in 1 .. Len(u) - 1 PROVE Follows(u[n], u[n + 1])
      OBVIOUS
    <3>1. n + 6 \in 1 .. Len(t) - 1 /\ n + 1 + 6 = n + 6 + 1 /\ n \in 1 .. Len(u) /\ n + 1 \in 1 .. Len(u)
      BY <1>1, <2>2
    <3> QED BY <3>1, <2>2 DEF Orderly
  <2>4. \A n \in 1 .. Len(u) :
           /\ u[n] = "sandbox" => n + 5 <= Len(u) /\ u[n + 5] = "drop"
           /\ Asks(u[n]) => n # Len(u)
    <3> SUFFICES ASSUME NEW n \in 1 .. Len(u)
                 PROVE  /\ u[n] = "sandbox" => n + 5 <= Len(u) /\ u[n + 5] = "drop"
                        /\ Asks(u[n]) => n # Len(u)
      OBVIOUS
    <3>4. Asks(u[n]) => n # Len(u)
      <4>1. n + 6 \in 1 .. Len(t) /\ u[n] = t[n + 6]
        BY <1>1, <2>2
      <4>2. Asks(t[n + 6]) => n + 6 # Len(t)
        BY <4>1 DEF Orderly
      <4> QED BY <4>1, <4>2, <1>1, <2>2
    <3> SUFFICES ASSUME u[n] = "sandbox" PROVE n + 5 <= Len(u) /\ u[n + 5] = "drop"
      BY <3>4
    <3>1. n + 6 \in 1 .. Len(t) /\ t[n + 6] = "sandbox"
      BY <1>1, <2>2
    <3>2. n + 6 + 5 <= Len(t) /\ t[n + 6 + 5] = "drop"
      BY <3>1 DEF Orderly
    <3>3. n + 5 \in 1 .. Len(u) /\ n + 5 + 6 = n + 6 + 5
      BY <1>1, <2>2, <3>2
    <3> QED BY <3>2, <3>3, <2>2
  <2>5. Head(u) = t[7]
    BY <2>2
  <2>6. Follows(t[6], t[7])
    BY <1>1, <2>2 DEF Orderly
  <2>7. t[7] \in {"relist", "again"}
    BY <2>1, <2>6 DEF Follows
  <2>8. Orderly(u)
    BY <2>2, <2>3, <2>4 DEF Orderly
  <2> QED BY <2>5, <2>7, <2>8 DEF u
<1>3. ASSUME Head(t) = "strip", Tail(t) # <<>> PROVE Orderly(RunSteps \o <<"relist">> \o Tail(t))
  <2> DEFINE a == <<"relist">>
             b == RunSteps \o a
  <2>1. Orderly(a) /\ a # <<>> /\ a[1] = "relist" /\ a[Len(a)] = "relist"
    BY One DEF Steps, Asks
  <2>2. Follows("drop", "relist")
    BY DEF Follows, Deleting
  <2> HIDE DEF a
  <2>3. Orderly(b) /\ b # <<>> /\ b[Len(b)] = "relist"
    BY <2>1, <2>2, Runs, Joined
  <2>4. Orderly(Tail(t)) /\ Follows("strip", Head(Tail(t)))
    BY <1>3, TailOrderly
  <2>5. Follows("relist", Head(Tail(t)))
    BY <2>4 DEF Follows, Deleting
  <2>6. Head(Tail(t)) = Tail(t)[1]
    BY <2>4, <1>3 DEF Orderly
  <2> HIDE DEF b
  <2>7. Orderly(b \o Tail(t))
    BY <2>3, <2>4, <2>5, <2>6, <1>3, Joined
  <2> QED BY <2>7 DEF a, b
<1>4. ASSUME Head(t) = "strip", Tail(t) = <<>> PROVE Orderly(RunSteps \o <<"relist">> \o Tail(t))
  <2> DEFINE a == <<"relist">>
             b == RunSteps \o a
  <2>1. Orderly(a) /\ a # <<>> /\ a[1] = "relist"
    BY One DEF Steps, Asks
  <2>2. Follows("drop", "relist")
    BY DEF Follows, Deleting
  <2> HIDE DEF a
  <2>3. Orderly(b)
    BY <2>1, <2>2, Runs, Joined
  <2> HIDE DEF b
  <2>4. b \o <<>> = b
    BY <2>3 DEF Orderly
  <2> QED BY <2>3, <2>4, <1>4 DEF a, b
<1>5. ASSUME Head(t) \in {"planUsers", "assumptionUsers"}
      PROVE  \/ Tail(Tail(t)) = <<>>
             \/ /\ Orderly(Tail(Tail(t)))
                /\ Head(Tail(Tail(t))) \in {"assumptionUsers", "respond"}
  <2>1. 1 # Len(t)
    BY <1>1, <1>5 DEF Orderly, Asks
  <2>2. Len(t) \in Nat /\ Len(t) >= 1
    BY <1>1
  <2>3. Tail(t) # <<>>
    <3>1. Len(Tail(t)) = Len(t) - 1
      BY <1>1
    <3>2. Len(Tail(t)) # 0
      BY <3>1, <2>1, <2>2
    <3>3. Len(<<>>) = 0
      OBVIOUS
    <3> QED BY <3>2, <3>3
  <2>4. Head(Tail(t)) \in {"plans", "assumptions"}
    BY <2>3, <1>5, TailOrderly DEF Follows
  <2>5. Tail(Tail(t)) # <<>> => Follows(Head(Tail(t)), Head(Tail(Tail(t))))
    BY <2>3, TailOrderly
  <2>6. Tail(Tail(t)) # <<>> => Head(Tail(Tail(t))) \in {"assumptionUsers", "respond"}
    BY <2>4, <2>5 DEF Follows
  <2> QED BY <2>3, <2>6, TailOrderly
<1>6. Len(RunSteps) + 1 = 7
  BY Runs
<1>7. Head(t) = "strip" => Orderly(RunSteps \o <<"relist">> \o Tail(t))
  BY <1>3, <1>4
<1> QED BY <1>2, <1>5, <1>6, <1>7

LEMMA Turns ==
    ASSUME Ordered, NEW q \in Requests,
           \/ Strip(q) \/ Sandbox(q) \/ Lookup(q)
           \/ Users(q, "planUsers", "plans") \/ Users(q, "assumptionUsers", "assumptions")
    PROVE  Ordered'
<1>1. CASE Strip(q)
  <2>1. /\ IsRow(req[q], RequestFields) /\ Orderly(req[q].todo) /\ req[q].todo # <<>>
        /\ Head(req[q].todo) = "strip"
    BY <1>1, Active DEF Strip
  <2>2. <<>> \o Tail(req[q].todo) = <<>> \/ Orderly(<<>> \o Tail(req[q].todo))
    <3>1. Tail(req[q].todo) \in Seq(Steps)
      BY <2>1 DEF Orderly
    <3> QED BY <3>1, <2>1, TailOrderly
  <2>3. PICK r, t : Proceed(q, r, t) /\ IsRow(r, RequestFields) /\ (t = <<>> \/ Orderly(t))
    BY <1>1, <2>1, <2>2, Reordered DEF Strip, IsRow, RequestFields
  <2> QED BY <2>3, Advanced
<1>2. CASE Sandbox(q)
  BY <1>2, Active, Continued, Reordered, Advanced DEF Sandbox, IsRow, RequestFields
<1>3. CASE Lookup(q)
  BY <1>3, Active, Continued, Reloads, Advanced DEF Lookup
<1>4. CASE Users(q, "planUsers", "plans") \/ Users(q, "assumptionUsers", "assumptions")
  BY <1>4, Active, Continued, Reordered, Advanced DEF Users
<1> QED BY <1>1, <1>2, <1>3, <1>4

LEMMA Begins == ASSUME Ordered, Begin PROVE Ordered'
<1>1. PICK jobs, runs :
         /\ jobs \in Rounds[round]
         /\ req' = [q \in Requests |-> IF q \in DOMAIN jobs THEN Served(jobs[q], runs[q]) ELSE Idle]
  BY DEF Begin
<1>2. \A q \in Requests \cap DOMAIN jobs : Tidy(Served(jobs[q], runs[q]))
  <2>1. \A q \in DOMAIN jobs : jobs[q].kind \in Kinds
    BY <1>1, WorkloadAssumption DEF Begin
  <2> QED BY <2>1, Programs DEF Tidy, Served, IsRow, RequestFields
<1> QED BY <1>1, <1>2, Idles DEF Ordered, Tidy, IsRow

\* At any time, what is left of a request's program is orderly: no step is taken but after
\* those it relies on, wherever the requests turned aside.
LEMMA InOrder == Spec => []Ordered
<1>1. Init => Ordered
  BY Idles DEF Init, Ordered, Tidy, IsRow
<1>2. Ordered /\ [Next]_vars => Ordered'
  <2> SUFFICES ASSUME Ordered, [Next]_vars PROVE Ordered'
    OBVIOUS
  <2>1. CASE Begin
    BY <2>1, Begins
  <2>2. ASSUME NEW q \in Requests, Step(q) PROVE Ordered'
    BY <2>2, ReadsInOrder, WritesInOrder, Turns DEF Step
  <2>3. ASSUME NEW q \in Requests, Die(q) PROVE Ordered'
    BY <2>3, Left DEF Die, Ordered, Tidy
  <2>4. CASE UNCHANGED vars
    BY <2>4 DEF vars, Ordered, Tidy
  <2> QED BY <2>1, <2>2, <2>3, <2>4 DEF Next, Serve
<1> QED BY <1>1, <1>2, PTL DEF Spec
-----------------------------------------------------------------------------
(* The rows: what each of their operations leaves whole. *)

DbFields == {"scenarios", "sets", "exploration", "profile", "results", "rows", "books", "runs",
             "seedings", "next"}
IsExploration(e) == IsRow(e, {"id", "working", "source", "frame"}) /\ e.id = e.working
Drafts(d) == Scenarios(d) \ Saved(d)

\* SandboxWhole of any rows, save that the scenarios of gone may have lost a set; and no
\* primary key is used twice.
Halved(d, gone) ==
    /\ IsRow(d, DbFields) /\ d.next \in Nat
    /\ \A s \in Scenarios(d) : s \in Nat /\ s < d.next
    /\ \A x \in SetIds(d) : x \in Nat /\ x < d.next /\ IsRow(d.sets[x], {"kind", "role", "value"})
    /\ \A s \in Scenarios(d) \ gone : \A c \in Pairs : d.scenarios[s][c] \in SetIds(d)
    /\ \A s \in Saved(d) \ gone : \A c \in Pairs : d.sets[d.scenarios[s][c]].role = "SAVED"
    /\ \A s \in Drafts(d) : \A c \in Pairs : d.sets[d.scenarios[s][c]].role = "WORKING"
    /\ \A x \in SetIds(d) : d.sets[x].role = "WORKING" =>
          \E s \in Drafts(d) : \E c \in Pairs : x = d.scenarios[s][c]
    /\ d.exploration = NoRow => Drafts(d) = {}
    /\ d.exploration # NoRow =>
          /\ IsExploration(d.exploration)
          /\ Drafts(d) = {d.exploration.working}
          /\ d.exploration.source \in Saved(d)
Whole(d) == Halved(d, {})

\* Nothing older than e's keys appears or changes its role from d to e.
Ages(d, e) ==
    /\ d.next <= e.next
    /\ \A s \in Scenarios(e) : s < d.next => s \in Scenarios(d) /\ e.scenarios[s].role = d.scenarios[s].role
    /\ \A x \in SetIds(e) : x < d.next => x \in SetIds(d) /\ e.sets[x].role = d.sets[x].role

\* Rows are whole by the scenarios, sets, exploration and keys alone.
LEMMA Unseen ==
    ASSUME NEW d, NEW e, Whole(d), IsRow(e, DbFields), e.scenarios = d.scenarios, e.sets = d.sets,
           e.exploration = d.exploration, e.next = d.next
    PROVE  Whole(e) /\ Ages(d, e)
BY DEF Whole, Halved, Ages, Scenarios, Saved, SetIds, Drafts

\* Writing the values of sets leaves the rows whole.
LEMMA WrittenWhole ==
    ASSUME NEW d, Whole(d), NEW s, NEW components, NEW values
    PROVE  LET e == Written(d, s, components, values)
           IN  /\ Whole(e) /\ Ages(d, e)
               /\ e.scenarios = d.scenarios /\ e.exploration = d.exploration /\ e.next = d.next
<1> DEFINE e == Written(d, s, components, values)
<1>0. IsRow(d, DbFields)
  BY DEF Whole, Halved
<1>1. /\ IsRow(e, DbFields) /\ e.scenarios = d.scenarios /\ e.exploration = d.exploration
      /\ e.next = d.next /\ DOMAIN e.sets = DOMAIN d.sets
  BY <1>0 DEF Written, IsRow, DbFields
<1>2. \A x \in DOMAIN d.sets : e.sets[x].role = d.sets[x].role /\ IsRow(e.sets[x], {"kind", "role", "value"})
  <2> SUFFICES ASSUME NEW x \in DOMAIN d.sets
               PROVE  e.sets[x].role = d.sets[x].role /\ IsRow(e.sets[x], {"kind", "role", "value"})
    OBVIOUS
  <2> DEFINE v == values[CHOOSE c \in components : x = d.scenarios[s][c]]
  <2>1. e.sets[x] = [d.sets[x] EXCEPT !.value = v] \/ e.sets[x] = d.sets[x]
    BY <1>0 DEF Written, IsRow, DbFields
  <2> HIDE DEF v, e
  <2> QED BY <2>1 DEF Whole, Halved, IsRow, SetIds
<1> HIDE DEF e
<1>3. Scenarios(e) = Scenarios(d) /\ Saved(e) = Saved(d) /\ SetIds(e) = SetIds(d) /\ Drafts(e) = Drafts(d)
  BY <1>1 DEF Scenarios, Saved, SetIds, Drafts
<1>4. \A t \in Scenarios(d) : \A c \in Pairs : d.scenarios[t][c] \in DOMAIN d.sets
  BY DEF Whole, Halved, SetIds
<1>5. Whole(e)
  BY <1>1, <1>2, <1>3, <1>4 DEF Whole, Halved, SetIds, Saved, Drafts
<1>6. Ages(d, e)
  BY <1>1, <1>2, <1>3 DEF Ages, SetIds, Whole, Halved
<1> QED BY <1>1, <1>5, <1>6 DEF e

\* A saved row over, and maybe beside, sets of its own.
LEMMA MintedSaved ==
    ASSUME NEW d, Whole(d), NEW components \in SUBSET Pairs, NEW s \in Saved(d), NEW values
    PROVE  LET e == Minted(d, "SAVED", components, d.scenarios[s], values)
           IN  /\ Whole(e) /\ Ages(d, e) /\ e.exploration = d.exploration
               /\ d.next + 2 \in Saved(e) /\ Saved(d) \subseteq Saved(e) /\ Drafts(e) = Drafts(d)
<1> DEFINE e == Minted(d, "SAVED", components, d.scenarios[s], values)
           n == d.next + 2
           fresh == {FreshSet(d, c) : c \in components}
<1>1. d.next \in Nat /\ IsRow(d, DbFields)
  BY DEF Whole, Halved
<1>2. \A c \in Pairs : FreshSet(d, c) \in Nat /\ FreshSet(d, c) >= d.next /\ FreshSet(d, c) < n
  BY <1>1 DEF FreshSet, Pairs
<1>3. /\ IsRow(e, DbFields) /\ e.exploration = d.exploration /\ e.next = d.next + 3
      /\ DOMAIN e.sets = DOMAIN d.sets \cup fresh
      /\ DOMAIN e.scenarios = DOMAIN d.scenarios \cup {n}
  BY <1>1 DEF Minted, IsRow, DbFields
<1>4. \A x \in fresh : x \notin DOMAIN d.sets
  BY <1>1, <1>2 DEF Whole, Halved, SetIds
<1>5. n \notin DOMAIN d.scenarios
  BY <1>1 DEF Whole, Halved, Scenarios
<1>6. \A x \in fresh : e.sets[x].role = "SAVED" /\ IsRow(e.sets[x], {"kind", "role", "value"})
  BY <1>1 DEF Minted, IsRow, DbFields
<1>7. \A x \in DOMAIN d.sets : e.sets[x] = d.sets[x]
  BY <1>1, <1>4 DEF Minted, IsRow, DbFields
<1>8. \A t \in DOMAIN d.scenarios : e.scenarios[t] = d.scenarios[t]
  BY <1>1, <1>5 DEF Minted, IsRow, DbFields
<1>9. /\ e.scenarios[n].role = "SAVED"
      /\ \A c \in Pairs : e.scenarios[n][c] \in fresh \cup {d.scenarios[s][c]}
  BY <1>1 DEF Minted, IsRow, DbFields, Pairs
<1> HIDE DEF e, fresh
<1>10. /\ Scenarios(e) = Scenarios(d) \cup {n} /\ Saved(e) = Saved(d) \cup {n}
       /\ Drafts(e) = Drafts(d) /\ SetIds(e) = SetIds(d) \cup fresh
  BY <1>3, <1>5, <1>8, <1>9 DEF Scenarios, Saved, Drafts, SetIds
<1>11. \A c \in Pairs : d.scenarios[s][c] \in SetIds(d) /\ d.sets[d.scenarios[s][c]].role = "SAVED"
  BY DEF Whole, Halved, Saved
<1>12. \A x \in fresh : x \in Nat /\ x < d.next + 3 /\ x >= d.next
  BY <1>1, <1>2 DEF fresh
<1>13. \A c \in Pairs : e.scenarios[n][c] \in SetIds(e) /\ e.sets[e.scenarios[n][c]].role = "SAVED"
  BY <1>6, <1>7, <1>9, <1>10, <1>11 DEF SetIds
<1>14. \A t \in Scenarios(d) : \A c \in Pairs :
          /\ e.scenarios[t][c] = d.scenarios[t][c] /\ d.scenarios[t][c] \in SetIds(d)
          /\ e.sets[d.scenarios[t][c]] = d.sets[d.scenarios[t][c]]
  BY <1>7, <1>8 DEF Whole, Halved, Scenarios, SetIds
<1>15. \A t \in Drafts(d) : t \in Scenarios(d)
  BY DEF Drafts
<1>16. \A t \in Saved(d) : t \in Scenarios(d)
  BY DEF Saved
<1>17. \A t \in Scenarios(e) : t \in Nat /\ t < e.next
  BY <1>1, <1>3, <1>10 DEF Whole, Halved
<1>18. \A x \in SetIds(e) : x \in Nat /\ x < e.next /\ IsRow(e.sets[x], {"kind", "role", "value"})
  BY <1>1, <1>3, <1>6, <1>7, <1>10, <1>12 DEF Whole, Halved, SetIds
<1>19. \A x \in SetIds(e) : e.sets[x].role = "WORKING" =>
          \E t \in Drafts(e) : \E c \in Pairs : x = e.scenarios[t][c]
  BY <1>6, <1>7, <1>10, <1>14, <1>15 DEF Whole, Halved, SetIds
<1>20. \A t \in Scenarios(e) : \A c \in Pairs : e.scenarios[t][c] \in SetIds(e)
  BY <1>10, <1>13, <1>14
<1>21. /\ \A t \in Saved(e) : \A c \in Pairs : e.sets[e.scenarios[t][c]].role = "SAVED"
       /\ \A t \in Drafts(e) : \A c \in Pairs : e.sets[e.scenarios[t][c]].role = "WORKING"
  BY <1>10, <1>13, <1>14, <1>15, <1>16 DEF Whole, Halved
<1>22. Whole(e)
  BY <1>1, <1>3, <1>10, <1>17, <1>18, <1>19, <1>20, <1>21 DEF Whole, Halved
<1>23. Ages(d, e)
  BY <1>1, <1>3, <1>7, <1>8, <1>10, <1>12 DEF Ages, Scenarios, SetIds
<1> QED BY <1>3, <1>10, <1>22, <1>23 DEF e

\* A sandbox where there is none.
LEMMA MintedWorking ==
    ASSUME NEW d, Whole(d), d.exploration = NoRow, NEW values, NEW source \in Saved(d), NEW given
    PROVE  LET m == Minted(d, "WORKING", Pairs, given, values)
               row == [id |-> d.next + 2, working |-> d.next + 2, source |-> source, frame |-> None]
               e == [m EXCEPT !.exploration = row, !.seedings = @ + 1]
           IN  Whole(e) /\ Ages(d, e)
<1> DEFINE m == Minted(d, "WORKING", Pairs, given, values)
           n == d.next + 2
           row == [id |-> n, working |-> n, source |-> source, frame |-> None]
           e == [m EXCEPT !.exploration = row, !.seedings = @ + 1]
           fresh == {FreshSet(d, c) : c \in Pairs}
<1>1. d.next \in Nat /\ IsRow(d, DbFields)
  BY DEF Whole, Halved
<1>2. \A c \in Pairs : FreshSet(d, c) \in Nat /\ FreshSet(d, c) >= d.next /\ FreshSet(d, c) < n
  BY <1>1 DEF FreshSet, Pairs
<1>3. /\ IsRow(m, DbFields) /\ m.next = d.next + 3
      /\ DOMAIN m.sets = DOMAIN d.sets \cup fresh
      /\ DOMAIN m.scenarios = DOMAIN d.scenarios \cup {n}
  BY <1>1 DEF Minted, IsRow, DbFields
<1>4. \A x \in fresh : x \notin DOMAIN d.sets
  BY <1>1, <1>2 DEF Whole, Halved, SetIds
<1>5. n \notin DOMAIN d.scenarios
  BY <1>1 DEF Whole, Halved, Scenarios
<1>6. \A x \in fresh : m.sets[x].role = "WORKING" /\ IsRow(m.sets[x], {"kind", "role", "value"})
  BY <1>1 DEF Minted, IsRow, DbFields
<1>7. \A x \in DOMAIN d.sets : m.sets[x] = d.sets[x]
  BY <1>1, <1>4 DEF Minted, IsRow, DbFields
<1>8. \A t \in DOMAIN d.scenarios : m.scenarios[t] = d.scenarios[t]
  BY <1>1, <1>5 DEF Minted, IsRow, DbFields
<1>9. /\ m.scenarios[n].role = "WORKING"
      /\ \A c \in Pairs : m.scenarios[n][c] = FreshSet(d, c)
  BY <1>1 DEF Minted, IsRow, DbFields, Pairs
<1> HIDE DEF m
<1>10. /\ IsRow(e, DbFields) /\ e.next = d.next + 3 /\ e.exploration = row
       /\ e.scenarios = m.scenarios /\ e.sets = m.sets
  BY <1>3 DEF IsRow, DbFields
<1>11. row # NoRow /\ IsExploration(row) /\ row.working = n /\ row.source = source
  BY DEF IsExploration, IsRow, NoRow
<1> HIDE DEF e, row, fresh
<1>12. Drafts(d) = {} /\ Scenarios(d) = Saved(d)
  BY DEF Whole, Halved, Drafts, Saved
<1>13. /\ Scenarios(e) = Scenarios(d) \cup {n} /\ Saved(e) = Saved(d) /\ Drafts(e) = {n}
       /\ SetIds(e) = SetIds(d) \cup fresh
  BY <1>3, <1>5, <1>8, <1>9, <1>10, <1>12 DEF Scenarios, Saved, Drafts, SetIds
<1>14. \A x \in fresh : x \in Nat /\ x < d.next + 3 /\ x >= d.next
  BY <1>1, <1>2 DEF fresh
<1>15. \A x \in fresh : \E c \in Pairs : x = e.scenarios[n][c]
  BY <1>9, <1>10 DEF fresh
<1>16. \A c \in Pairs : e.scenarios[n][c] \in fresh
  BY <1>9, <1>10 DEF fresh
<1>17. \A t \in Scenarios(d) : \A c \in Pairs :
          /\ e.scenarios[t][c] = d.scenarios[t][c] /\ d.scenarios[t][c] \in SetIds(d)
          /\ e.sets[d.scenarios[t][c]] = d.sets[d.scenarios[t][c]]
  BY <1>7, <1>8, <1>10 DEF Whole, Halved, Scenarios, SetIds
<1>18. \A t \in Scenarios(e) : t \in Nat /\ t < e.next
  BY <1>1, <1>10, <1>13 DEF Whole, Halved
<1>19. \A x \in SetIds(e) : x \in Nat /\ x < e.next /\ IsRow(e.sets[x], {"kind", "role", "value"})
  BY <1>1, <1>6, <1>7, <1>10, <1>13, <1>14 DEF Whole, Halved, SetIds
<1>20. \A x \in SetIds(e) : e.sets[x].role = "WORKING" => x \in fresh
  BY <1>7, <1>10, <1>12, <1>13 DEF Whole, Halved, SetIds
<1>21. \A t \in Scenarios(e) : \A c \in Pairs : e.scenarios[t][c] \in SetIds(e)
  BY <1>13, <1>16, <1>17
<1>22. /\ \A t \in Saved(e) : \A c \in Pairs : e.sets[e.scenarios[t][c]].role = "SAVED"
       /\ \A t \in Drafts(e) : \A c \in Pairs : e.sets[e.scenarios[t][c]].role = "WORKING"
  BY <1>6, <1>10, <1>12, <1>13, <1>16, <1>17 DEF Whole, Halved
<1>23. Whole(e)
  BY <1>1, <1>10, <1>11, <1>13, <1>15, <1>18, <1>19, <1>20, <1>21, <1>22 DEF Whole, Halved
<1>24. Ages(d, e)
  BY <1>1, <1>7, <1>8, <1>10, <1>13, <1>14 DEF Ages, Scenarios, SetIds
<1> QED BY <1>23, <1>24 DEF e, m, row

\* An exploration re-anchored to a saved scenario, its sandbox the same.
LEMMA Rerooted ==
    ASSUME NEW d, Whole(d), d.exploration # NoRow, NEW row, IsExploration(row), row # NoRow,
           row.working = d.exploration.working, row.source \in Saved(d)
    PROVE  Whole([d EXCEPT !.exploration = row]) /\ Ages(d, [d EXCEPT !.exploration = row])
<1> DEFINE e == [d EXCEPT !.exploration = row]
<1>1. /\ IsRow(e, DbFields) /\ e.exploration = row /\ e.scenarios = d.scenarios /\ e.sets = d.sets
      /\ e.next = d.next
  BY DEF Whole, Halved, IsRow, DbFields
<1> HIDE DEF e
<1>2. Scenarios(e) = Scenarios(d) /\ Saved(e) = Saved(d) /\ Drafts(e) = Drafts(d) /\ SetIds(e) = SetIds(d)
  BY <1>1 DEF Scenarios, Saved, Drafts, SetIds
<1>3. Whole(e)
  BY <1>1, <1>2 DEF Whole, Halved
<1>4. Ages(d, e)
  BY <1>1, <1>2 DEF Ages, Whole, Halved
<1> QED BY <1>3, <1>4 DEF e

\* Ageing twice is ageing.
LEMMA Aged ==
    ASSUME NEW d, NEW e, NEW f, Whole(d), Whole(e), Whole(f), Ages(d, e), Ages(e, f)
    PROVE  Ages(d, f)
<1>1. d.next \in Nat /\ e.next \in Nat /\ f.next \in Nat
  BY DEF Whole, Halved
<1>2. \A x \in Scenarios(f) \cup SetIds(f) : x \in Nat
  BY DEF Whole, Halved
<1> QED BY <1>1, <1>2 DEF Ages

\* Entering a saved scenario, with or without a sandbox to overwrite.
LEMMA SeededWhole ==
    ASSUME NEW d, Whole(d), NEW source \in Saved(d), NEW values
    PROVE  Whole(Seeded(d, source, values)) /\ Ages(d, Seeded(d, source, values))
<1>1. CASE d.exploration = NoRow
  BY <1>1, MintedWorking DEF Seeded
<1>2. CASE d.exploration # NoRow
  <2> DEFINE w == Written(d, d.exploration.working, Pairs, values)
             row == [w.exploration EXCEPT !.source = source]
             m == [w EXCEPT !.exploration = row]
             e == Seeded(d, source, values)
  <2>1. Whole(w) /\ Ages(d, w) /\ w.scenarios = d.scenarios /\ w.exploration = d.exploration
    BY WrittenWhole
  <2>2. Saved(w) = Saved(d)
    BY <2>1 DEF Saved, Scenarios
  <2> HIDE DEF w
  <2>3. IsExploration(row) /\ row # NoRow /\ row.working = w.exploration.working /\ row.source = source
    BY <1>2, <2>1 DEF IsExploration, IsRow, NoRow, Whole, Halved
  <2>4. /\ e.scenarios = m.scenarios /\ e.sets = m.sets /\ e.exploration = m.exploration
        /\ e.next = m.next /\ IsRow(e, DbFields)
    <3>1. IsRow(w, DbFields)
      BY <2>1 DEF Whole, Halved
    <3>2. e = [w EXCEPT !.exploration.source = source, !.seedings = @ + 1]
      BY <1>2 DEF Seeded, w
    <3> HIDE DEF e
    <3> QED BY <3>1, <3>2 DEF IsRow, DbFields
  <2> HIDE DEF row
  <2>5. Whole(m) /\ Ages(w, m)
    BY <1>2, <2>1, <2>2, <2>3, Rerooted
  <2> HIDE DEF m, e
  <2>6. Whole(e) /\ Ages(m, e)
    BY <2>4, <2>5, Unseen
  <2> QED BY <2>1, <2>5, <2>6, Aged DEF e
<1> QED BY <1>1, <1>2

\* A deletion: the scenarios of gone go, and the sandbox with its anchor.
LEMMA DroppedWhole ==
    ASSUME NEW d, NEW gone, Halved(d, gone), gone \cap Scenarios(d) \subseteq Saved(d)
    PROVE  /\ Whole(WithoutScenarios(d, gone))
           /\ \A c : Ages(c, d) => Ages(c, WithoutScenarios(d, gone))
<1> DEFINE e == [d EXCEPT !.scenarios = Restrict(@, DOMAIN @ \ gone)]
<1>1. /\ IsRow(e, DbFields) /\ e.sets = d.sets /\ e.exploration = d.exploration /\ e.next = d.next
      /\ DOMAIN e.scenarios = DOMAIN d.scenarios \ gone
      /\ \A s \in DOMAIN e.scenarios : e.scenarios[s] = d.scenarios[s]
  <2>1. IsRow(d, DbFields)
    BY DEF Halved
  <2>2. /\ IsRow(e, DbFields) /\ e.sets = d.sets /\ e.exploration = d.exploration /\ e.next = d.next
        /\ e.scenarios = Restrict(d.scenarios, DOMAIN d.scenarios \ gone)
    BY <2>1 DEF IsRow, DbFields
  <2> HIDE DEF e
  <2> QED BY <2>2 DEF Restrict
<1> HIDE DEF e
<1>2. /\ Scenarios(e) = Scenarios(d) \ gone /\ Saved(e) = Saved(d) \ gone /\ Drafts(e) = Drafts(d)
      /\ SetIds(e) = SetIds(d)
  BY <1>1 DEF Scenarios, Saved, Drafts, SetIds
<1>3. CASE ~(d.exploration # NoRow /\ d.exploration.source \in gone)
  <2>1. WithoutScenarios(d, gone) = e
    BY <1>3 DEF WithoutScenarios, e
  <2>2. Whole(e)
    <3>1. \A s \in Scenarios(e) : \A c \in Pairs : e.scenarios[s][c] = d.scenarios[s][c]
      BY <1>1 DEF Scenarios
    <3>2. Drafts(e) \subseteq Scenarios(e) /\ Saved(e) \subseteq Scenarios(e)
      BY DEF Drafts, Saved
    <3> QED BY <1>1, <1>2, <1>3, <3>1, <3>2 DEF Whole, Halved
  <2>3. \A c : Ages(c, d) => Ages(c, e)
    BY <1>1, <1>2 DEF Ages, Scenarios
  <2> QED BY <2>1, <2>2, <2>3
<1>4. CASE d.exploration # NoRow /\ d.exploration.source \in gone
  <2> DEFINE w == e.exploration.working
             f == Teardown(e)
  <2>1. WithoutScenarios(d, gone) = f
    BY <1>4 DEF WithoutScenarios, e
  <2>2. Drafts(d) = {w} /\ w \in Scenarios(e) /\ w \notin Saved(e)
    BY <1>1, <1>2, <1>4 DEF Halved, Drafts, Saved, Scenarios
  <2>3. /\ IsRow(f, DbFields) /\ f.exploration = NoRow /\ f.next = d.next
        /\ DOMAIN f.scenarios = DOMAIN e.scenarios \ {w}
        /\ \A s \in DOMAIN f.scenarios : f.scenarios[s] = e.scenarios[s]
        /\ DOMAIN f.sets = DOMAIN e.sets \ SetsOf(e, w)
        /\ \A x \in DOMAIN f.sets : f.sets[x] = e.sets[x]
    BY <1>1 DEF Teardown, WithoutRuns, IsRow, DbFields, Restrict
  <2>4. SetsOf(e, w) = {d.scenarios[w][c] : c \in Pairs}
    BY <1>1, <2>2 DEF SetsOf, Scenarios
  <2> HIDE DEF w, f
  <2>5. /\ Scenarios(f) = Saved(e) /\ Saved(f) = Saved(e) /\ Drafts(f) = {}
        /\ SetIds(f) = SetIds(d) \ SetsOf(e, w)
    BY <1>1, <1>2, <2>2, <2>3 DEF Scenarios, Saved, Drafts, SetIds
  <2>6. \A s \in Saved(e) : \A c \in Pairs :
           /\ d.scenarios[s][c] \in SetIds(d) /\ d.sets[d.scenarios[s][c]].role = "SAVED"
           /\ f.scenarios[s][c] = d.scenarios[s][c]
    BY <1>1, <1>2, <2>3, <2>5 DEF Halved, Saved, Scenarios
  <2>7. \A x \in SetsOf(e, w) : d.sets[x].role = "WORKING"
    BY <2>2, <2>4 DEF Halved
  <2>8. \A x \in SetIds(d) : d.sets[x].role = "WORKING" => x \in SetsOf(e, w)
    BY <2>2, <2>4 DEF Halved
  <2>9. \A x \in SetIds(f) : f.sets[x] = d.sets[x]
    BY <1>1, <2>3, <2>5 DEF SetIds
  <2>10. \A s \in Saved(e) : \A c \in Pairs : d.scenarios[s][c] \in SetIds(f)
    BY <2>5, <2>6, <2>7
  <2>13. \A x \in SetIds(f) : f.sets[x].role # "WORKING"
    BY <2>5, <2>8, <2>9
  <2>14. \A s \in Saved(f) : \A c \in Pairs :
            f.scenarios[s][c] \in SetIds(f) /\ f.sets[f.scenarios[s][c]].role = "SAVED"
    BY <2>5, <2>6, <2>9, <2>10
  <2>15. \A s \in Scenarios(f) : s \in Nat /\ s < f.next
    BY <1>2, <2>3, <2>5 DEF Halved, Saved
  <2>16. \A x \in SetIds(f) : x \in Nat /\ x < f.next /\ IsRow(f.sets[x], {"kind", "role", "value"})
    BY <2>3, <2>5, <2>9 DEF Halved
  <2>17. f.next \in Nat /\ Scenarios(f) = Saved(f)
    BY <2>3, <2>5 DEF Halved
  <2>11. Whole(f)
    BY <2>3, <2>5, <2>13, <2>14, <2>15, <2>16, <2>17 DEF Whole, Halved
  <2>12. \A c : Ages(c, d) => Ages(c, f)
    BY <1>1, <1>2, <2>3, <2>5, <2>9 DEF Ages, Scenarios, SetIds
  <2> QED BY <2>1, <2>11, <2>12
<1> QED BY <1>3, <1>4

LEMMA AgesSelf == ASSUME NEW d, Whole(d) PROVE Ages(d, d)
BY DEF Ages, Whole, Halved

\* Deleting scenarios, the sandbox not among them, with what their deletion cascades to.
LEMMA DeletedWhole ==
    ASSUME NEW d, Whole(d), NEW gone, gone \cap Scenarios(d) \subseteq Saved(d)
    PROVE  Whole(WithoutScenarios(d, gone)) /\ Ages(d, WithoutScenarios(d, gone))
<1>1. Halved(d, gone)
  BY DEF Whole, Halved
<1> QED BY <1>1, DroppedWhole, AgesSelf

\* Deleting a saved set, with the scenarios it takes along.
LEMMA OrphanedWhole ==
    ASSUME NEW d, Whole(d), NEW id, id \in SetIds(d) => d.sets[id].role = "SAVED"
    PROVE  Whole(WithoutSet(d, id)) /\ Ages(d, WithoutSet(d, id))
<1> DEFINE e == [d EXCEPT !.sets = Restrict(@, DOMAIN @ \ {id})]
           gone == {s \in Saved(d) : id \in SetsOf(d, s)}
<1>1. /\ IsRow(e, DbFields) /\ e.scenarios = d.scenarios /\ e.exploration = d.exploration
      /\ e.next = d.next /\ DOMAIN e.sets = DOMAIN d.sets \ {id}
      /\ \A x \in DOMAIN e.sets : e.sets[x] = d.sets[x]
  <2>1. IsRow(d, DbFields)
    BY DEF Whole, Halved
  <2>2. /\ IsRow(e, DbFields) /\ e.scenarios = d.scenarios /\ e.exploration = d.exploration
        /\ e.next = d.next /\ e.sets = Restrict(d.sets, DOMAIN d.sets \ {id})
    BY <2>1 DEF IsRow, DbFields
  <2> HIDE DEF e
  <2> QED BY <2>2 DEF Restrict
<1>2. \A s \in Saved(d) \ gone : \A c \in Pairs : d.scenarios[s][c] # id
  BY DEF SetsOf
<1>3. gone \subseteq Saved(d)
  OBVIOUS
<1>4. WithoutSet(d, id) = WithoutScenarios(e, gone)
  BY DEF WithoutSet
<1> HIDE DEF e, gone
<1>5. Scenarios(e) = Scenarios(d) /\ Saved(e) = Saved(d) /\ Drafts(e) = Drafts(d) /\ SetIds(e) = SetIds(d) \ {id}
  BY <1>1 DEF Scenarios, Saved, Drafts, SetIds
<1>6. \A s \in Drafts(d) : \A c \in Pairs : d.scenarios[s][c] \in SetIds(e)
  BY <1>5 DEF Whole, Halved, Drafts
<1>7. \A s \in Saved(d) \ gone : \A c \in Pairs : d.scenarios[s][c] \in SetIds(e)
  BY <1>2, <1>5 DEF Whole, Halved, Saved
<1>8. \A x \in SetIds(e) : e.sets[x] = d.sets[x]
  BY <1>1 DEF SetIds
<1>9. Scenarios(d) = Saved(d) \cup Drafts(d)
  BY DEF Drafts, Saved
<1>10. Halved(e, gone)
  BY <1>1, <1>5, <1>6, <1>7, <1>8, <1>9 DEF Whole, Halved
<1>11. Ages(d, e)
  BY <1>1, <1>5, <1>8 DEF Ages, Scenarios, Whole, Halved
<1> QED BY <1>3, <1>4, <1>5, <1>10, <1>11, DroppedWhole
-----------------------------------------------------------------------------
(* What a request holds of rows it read: a scenario or a set that is still there is saved. *)

StaleScenario(d, s) == s \in Nat /\ s < d.next /\ (s \in Scenarios(d) => s \in Saved(d))
StaleSet(d, x) == x \in Nat /\ x < d.next /\ (x \in SetIds(d) => d.sets[x].role = "SAVED")

Base(d, r) == (r.source = None \/ StaleScenario(d, r.source)) /\ r.copies \subseteq Pairs
Facts(d, r, step) ==
    /\ step \in {"loadWorking", "save", "frame"} =>
          r.seen # NoRow /\ IsExploration(r.seen) /\ StaleScenario(d, r.seen.source)
    /\ step \in Deleting => \A c \in Pairs : StaleSet(d, r.seen[c])
Stays(d, r) == r.todo # <<>> => Base(d, r) /\ Facts(d, r, Head(r.todo))

\* What a request holds stays good while others write.
LEMMA StaysOn == ASSUME NEW d, NEW e, Whole(d), Whole(e), Ages(d, e), NEW r, Stays(d, r) PROVE Stays(e, r)
<1>1. d.next \in Nat /\ e.next \in Nat /\ d.next <= e.next
  BY DEF Whole, Halved, Ages
<1>2. \A s : StaleScenario(d, s) => StaleScenario(e, s)
  BY <1>1 DEF StaleScenario, Ages, Saved
<1>3. \A x : StaleSet(d, x) => StaleSet(e, x)
  BY <1>1 DEF StaleSet, Ages
<1> QED BY <1>2, <1>3 DEF Stays, Base, Facts

Working == Ordered /\ Whole(db) /\ \A q \in Requests : Stays(db, req[q])

\* A request that goes on with its program after a step, or turns elsewhere.
Ready(d, r, step) ==
    IsRow(r, RequestFields) /\ Base(d, r) /\ \A b : Follows(step, b) => Facts(d, r, b)

\* A request goes on, having left the rows whole and holding what its next step uses.
LEMMA Onward ==
    ASSUME Working, NEW q \in Requests, NEW step, At(q, step), NEW r, Continue(q, r),
           Whole(db'), Ages(db, db'), Ready(db', r, step)
    PROVE  Working'
<1> USE DEF Ready
<1>1. Ordered /\ Whole(db) /\ \A p \in Requests : Stays(db, req[p])
  BY DEF Working
<1>2. Ordered'
  BY <1>1, Continued
<1>3. /\ req'[q] = After(r, Tail(req[q].todo))
      /\ \A p \in Requests : p # q => req'[p] = req[p]
  BY <1>1, Moved DEF Continue
<1>4. Tail(req[q].todo) # <<>> => Follows(step, Head(Tail(req[q].todo)))
  BY <1>1, Active, TailOrderly
<1>5. Stays(db', After(r, Tail(req[q].todo)))
  BY <1>4, Idles DEF Stays, After, Base, Facts, IsRow, RequestFields
<1>6. \A p \in Requests : Stays(db', req[p])
  BY <1>1, StaysOn
<1>7. \A p \in Requests : Stays(db', req'[p])
  BY <1>3, <1>5, <1>6
<1> QED BY <1>2, <1>7 DEF Working

\* A request turns to other steps, having changed no row.
LEMMA TurnedTo ==
    ASSUME Working, NEW q \in Requests, req[q].todo # <<>>, NEW r, NEW t, Proceed(q, r, t), UNCHANGED db,
           IsRow(r, RequestFields), Base(db, r),
           t = <<>> \/ (Orderly(t) /\ Facts(db, r, Head(t)))
    PROVE  Working'
<1>1. Ordered /\ Whole(db) /\ \A p \in Requests : Stays(db, req[p])
  BY DEF Working
<1>2. Ordered'
  BY <1>1, Advanced
<1>3. /\ req'[q] = After(r, t)
      /\ \A p \in Requests : p # q => req'[p] = req[p]
  BY <1>1, Moved
<1>4. Stays(db, After(r, t))
  BY Idles DEF Stays, After, Base, Facts, IsRow, RequestFields
<1>5. \A p \in Requests : Stays(db, req'[p])
  BY <1>1, <1>3, <1>4
<1> QED BY <1>1, <1>2, <1>5 DEF Working

\* Steps that use nothing a request may hold stale.
Plain == {"respond", "sandbox", "reload", "relist", "again"}
LEMMA Turned ==
    ASSUME Working, NEW q \in Requests, req[q].todo # <<>>, NEW r, NEW t, Proceed(q, r, t), UNCHANGED db,
           IsRow(r, RequestFields), Base(db, r),
           t = <<>> \/ (Orderly(t) /\ Head(t) \in Plain)
    PROVE  Working'
<1>1. Orderly(t) /\ Head(t) \in Plain => Facts(db, r, Head(t))
  BY DEF Facts, Plain, Deleting
<1> QED BY <1>1, TurnedTo

\* What a request that is about to take a step has.
LEMMA Here ==
    ASSUME Working, NEW q \in Requests, NEW step, At(q, step)
    PROVE  /\ IsRow(req[q], RequestFields) /\ req[q].todo # <<>> /\ Base(db, req[q]) /\ Facts(db, req[q], step)
           /\ Whole(db) /\ Ages(db, db) /\ Ordered
BY Active, AgesSelf DEF Working, Stays

LEMMA LeftWorking ==
    ASSUME Working, NEW q \in Requests, req[q].todo # <<>>, Leave(q) \/ Fail(q), UNCHANGED db
    PROVE  Working'
<1>1. IsRow(req[q], RequestFields) /\ Base(db, req[q])
  BY DEF Working, Ordered, Tidy, Stays
<1>2. Head(<<"respond">>) \in Plain
  BY DEF Plain
<1> QED BY <1>1, <1>2, Turned, Responds DEF Leave, Fail

\* A row of the exploration, or of a saved scenario, when it is read.
LEMMA ReadRows ==
    ASSUME Whole(db)
    PROVE  /\ db.exploration # NoRow =>
                IsExploration(db.exploration) /\ StaleScenario(db, db.exploration.source)
           /\ \A s \in Saved(db) : /\ StaleScenario(db, s)
                                   /\ \A c \in Pairs : StaleSet(db, db.scenarios[s][c])
BY DEF Whole, Halved, StaleScenario, StaleSet, Saved, Scenarios

\* Most steps change nothing of what a request holds of scenarios and sets.
Same(r, s) == r.source = s.source /\ r.copies = s.copies /\ r.seen = s.seen
LEMMA Carries ==
    ASSUME NEW d, NEW r, NEW s, NEW step, Base(d, r), Facts(d, r, step), IsRow(s, RequestFields), Same(r, s),
           step \notin {"find", "again", "sandbox", "choose"}
    PROVE  Ready(d, s, step)
BY DEF Ready, Base, Facts, Same, Follows, Deleting

LEMMA Finds ==
    ASSUME NEW d, NEW r, Base(d, r), IsRow(r, RequestFields), NEW step \in {"find", "again", "sandbox"},
           r.seen # NoRow, IsExploration(r.seen), StaleScenario(d, r.seen.source)
    PROVE  Ready(d, r, step)
BY DEF Ready, Facts, Follows, Deleting

LEMMA Chooses ==
    ASSUME NEW d, NEW r, Base(d, r), IsRow(r, RequestFields), \A c \in Pairs : StaleSet(d, r.seen[c])
    PROVE  Ready(d, r, "choose")
BY DEF Ready, Facts, Follows, Deleting

\* A step that reads and learns nothing of scenarios or sets.
LEMMA GoesOn ==
    ASSUME Working, NEW q \in Requests, NEW step, At(q, step), NEW r, Continue(q, r), UNCHANGED db,
           IsRow(r, RequestFields), Same(req[q], r), step \notin {"find", "again", "sandbox", "choose"}
    PROVE  Working'
<1>1. Ready(db, r, step)
  BY Here, Carries
<1> QED BY <1>1, Here, Onward

LEMMA ReadsWorking ==
    ASSUME Working, NEW q \in Requests,
           \/ Find(q) \/ Again(q) \/ Choose(q) \/ LoadSource(q) \/ LoadWorking(q) \/ Diverge(q)
           \/ ResolveFrame(q) \/ Relist(q) \/ Drift(q) \/ All(q) \/ Beyond(q) \/ Get(q)
           \/ Inputs(q) \/ Reload(q) \/ Count(q)
    PROVE  Working'
<1>0. Whole(db) /\ UNCHANGED db
  BY DEF Working, Reads, Find, Again, Choose, LoadSource, LoadWorking, Diverge, ResolveFrame, Relist,
         Drift, All, Beyond, Get, Inputs, Reload, Count
<1>1. CASE Find(q)
  <2>1. At(q, "find")
    BY <1>1 DEF Find
  <2>2. CASE db.exploration = NoRow
    BY <1>0, <1>1, <2>1, <2>2, Here, LeftWorking DEF Find
  <2>3. CASE db.exploration # NoRow
    <3> DEFINE r == [req[q] EXCEPT !.seen = db.exploration, !.source = db.exploration.source,
                                   !.working = db.exploration.working]
    <3>1. Continue(q, r)
      BY <1>1, <2>3 DEF Find
    <3>2. IsRow(r, RequestFields) /\ Base(db, r) /\ r.seen = db.exploration
      BY <1>0, <2>1, <2>3, Here, ReadRows DEF IsRow, RequestFields, Base
    <3> HIDE DEF r
    <3>3. Ready(db, r, "find")
      BY <1>0, <2>3, <3>2, ReadRows, Finds
    <3> QED BY <1>0, <2>1, <3>1, <3>3, Here, Onward
  <2> QED BY <2>2, <2>3
<1>2. CASE Again(q)
  <2>1. At(q, "again")
    BY <1>2 DEF Again
  <2>2. CASE db.exploration = NoRow
    BY <1>0, <1>2, <2>1, <2>2, Here, LeftWorking DEF Again
  <2>3. CASE db.exploration # NoRow
    <3> DEFINE r == [req[q] EXCEPT !.seen = db.exploration]
    <3>1. Continue(q, r)
      BY <1>2, <2>3 DEF Again
    <3>2. IsRow(r, RequestFields) /\ Base(db, r) /\ r.seen = db.exploration
      BY <2>1, Here DEF IsRow, RequestFields, Base
    <3> HIDE DEF r
    <3>3. Ready(db, r, "again")
      BY <1>0, <2>3, <3>2, ReadRows, Finds
    <3> QED BY <1>0, <2>1, <3>1, <3>3, Here, Onward
  <2> QED BY <2>2, <2>3
<1>3. CASE Choose(q)
  <2> DEFINE s == req[q].job.scenario
  <2>1. At(q, "choose")
    BY <1>3 DEF Choose
  <2>2. CASE s \notin Saved(db)
    BY <1>0, <1>3, <2>1, <2>2, Here, LeftWorking DEF Choose
  <2>3. CASE s \in Saved(db)
    <3> DEFINE r == [req[q] EXCEPT !.source = s, !.dirty = TRUE, !.seen = db.scenarios[s],
                                   !.profile = db.profile, !.session = Remembered(req[q])]
    <3>1. Continue(q, r)
      BY <1>3, <2>3 DEF Choose
    <3>2. /\ IsRow(r, RequestFields) /\ r.seen = db.scenarios[s] /\ r.source = s
          /\ r.copies = req[q].copies
      BY <2>1, Here DEF IsRow, RequestFields
    <3> HIDE DEF r
    <3>3. Base(db, r) /\ \A c \in Pairs : StaleSet(db, r.seen[c])
      BY <1>0, <2>1, <2>3, <3>2, Here, ReadRows DEF Base
    <3>4. Ready(db, r, "choose")
      BY <3>2, <3>3, Chooses
    <3> QED BY <1>0, <2>1, <3>1, <3>4, Here, Onward
  <2> QED BY <2>2, <2>3
<1>40. CASE LoadSource(q)
  <2> DEFINE r == [req[q] EXCEPT !.inputs = Resolve(db, req[q].source)]
  <2>1. At(q, "loadSource") /\ (Leave(q) \/ Fail(q) \/ Continue(q, r))
    BY <1>40 DEF LoadSource
  <2>2. IsRow(r, RequestFields) /\ Same(req[q], r)
    BY <2>1, Here DEF IsRow, RequestFields, Same
  <2> HIDE DEF r
  <2> QED BY <1>0, <2>1, <2>2, Here, GoesOn, LeftWorking
<1>41. CASE LoadWorking(q)
  <2> DEFINE r == [req[q] EXCEPT !.inputs = Resolve(db, req[q].seen.working)]
  <2>1. At(q, "loadWorking") /\ (Leave(q) \/ Fail(q) \/ Continue(q, r))
    BY <1>41 DEF LoadWorking
  <2>2. IsRow(r, RequestFields) /\ Same(req[q], r)
    BY <2>1, Here DEF IsRow, RequestFields, Same
  <2> HIDE DEF r
  <2> QED BY <1>0, <2>1, <2>2, Here, GoesOn, LeftWorking
<1>6. CASE Diverge(q)
  <2> DEFINE r == [req[q] EXCEPT !.copies = Diverged(Resolve(db, req[q].source), Resolve(db, req[q].seen.working))]
  <2>1. At(q, "diverge")
    BY <1>6 DEF Diverge
  <2>2. (Leave(q) \/ Fail(q)) \/ Continue(q, r)
    BY <1>6 DEF Diverge
  <2>3. IsRow(r, RequestFields) /\ Base(db, r) /\ Facts(db, r, "diverge")
    BY <2>1, Here DEF IsRow, RequestFields, Base, Facts, Deleting, Diverged
  <2> HIDE DEF r
  <2>4. Ready(db, r, "diverge")
    BY <2>3, Carries DEF Same
  <2> QED BY <1>0, <2>1, <2>2, <2>4, Here, Onward, LeftWorking
<1>70. CASE ResolveFrame(q)
  <2> DEFINE r == [req[q] EXCEPT !.frame = Framed(q, db.exploration)]
  <2>1. At(q, "resolve") /\ (Leave(q) \/ Fail(q) \/ Continue(q, r))
    BY <1>70 DEF ResolveFrame
  <2>2. IsRow(r, RequestFields) /\ Same(req[q], r)
    BY <2>1, Here DEF IsRow, RequestFields, Same
  <2> HIDE DEF r
  <2> QED BY <1>0, <2>1, <2>2, Here, GoesOn, LeftWorking
<1>71. CASE Relist(q)
  <2> DEFINE r == [req[q] EXCEPT !.listed = Transient(db)]
  <2>1. At(q, "relist") /\ (Leave(q) \/ Fail(q) \/ Continue(q, r))
    BY <1>71 DEF Relist
  <2>2. IsRow(r, RequestFields) /\ Same(req[q], r)
    BY <2>1, Here DEF IsRow, RequestFields, Same
  <2> HIDE DEF r
  <2> QED BY <1>0, <2>1, <2>2, Here, GoesOn, LeftWorking
<1>72. CASE Drift(q)
  <2>1. At(q, "drift") /\ (Leave(q) \/ Fail(q) \/ Continue(q, req[q]))
    BY <1>72 DEF Drift
  <2>2. IsRow(req[q], RequestFields) /\ Same(req[q], req[q])
    BY <2>1, Here DEF IsRow, RequestFields, Same
  <2> QED BY <1>0, <2>1, <2>2, Here, GoesOn, LeftWorking
<1>80. CASE All(q)
  <2> DEFINE r == [req[q] EXCEPT !.listed = Listed(db)]
  <2>1. At(q, "all") /\ Continue(q, r)
    BY <1>80 DEF All
  <2>2. IsRow(r, RequestFields) /\ Same(req[q], r)
    BY <2>1, Here DEF IsRow, RequestFields, Same
  <2> HIDE DEF r
  <2> QED BY <1>0, <2>1, <2>2, Here, GoesOn
<1>81. CASE Beyond(q)
  <2> DEFINE r == [req[q] EXCEPT !.listed = AllBut(Listed(db), Retained)]
  <2>1. At(q, "beyond") /\ Continue(q, r)
    BY <1>81 DEF Beyond
  <2>2. IsRow(r, RequestFields) /\ Same(req[q], r)
    BY <2>1, Here DEF IsRow, RequestFields, Same
  <2> HIDE DEF r
  <2> QED BY <1>0, <2>1, <2>2, Here, GoesOn
<1>90. CASE Get(q)
  <2> DEFINE r == [req[q] EXCEPT !.listed = Restrict(db.results, {n \in DOMAIN db.results :
                      /\ db.results[n].run = req[q].run
                      /\ Kind(q) = "deleteRun" => db.results[n].role = "SAVED"})]
  <2>1. At(q, "get") /\ (Leave(q) \/ Fail(q) \/ Continue(q, r))
    BY <1>90 DEF Get
  <2>2. IsRow(r, RequestFields) /\ Same(req[q], r)
    BY <2>1, Here DEF IsRow, RequestFields, Same
  <2> HIDE DEF r
  <2> QED BY <1>0, <2>1, <2>2, Here, GoesOn, LeftWorking
<1>100. CASE Inputs(q)
  <2> DEFINE r == [req[q] EXCEPT !.run = Newest(req[q].listed).run]
  <2>1. At(q, "inputs") /\ (Leave(q) \/ Fail(q) \/ Continue(q, r))
    BY <1>100 DEF Inputs
  <2>2. IsRow(r, RequestFields) /\ Same(req[q], r)
    BY <2>1, Here DEF IsRow, RequestFields, Same
  <2> HIDE DEF r
  <2> QED BY <1>0, <2>1, <2>2, Here, GoesOn, LeftWorking
<1>101. CASE Reload(q)
  <2> DEFINE r == [req[q] EXCEPT !.books = IF req[q].run \in db.books THEN captured[req[q].run] ELSE None]
  <2>1. At(q, "reload") /\ Continue(q, r)
    BY <1>101 DEF Reload
  <2>2. IsRow(r, RequestFields) /\ Same(req[q], r)
    BY <2>1, Here DEF IsRow, RequestFields, Same
  <2> HIDE DEF r
  <2> QED BY <1>0, <2>1, <2>2, Here, GoesOn
<1>102. CASE Count(q)
  <2>1. At(q, "count") /\ (Leave(q) \/ Fail(q) \/ Continue(q, req[q]))
    BY <1>102 DEF Count
  <2>2. IsRow(req[q], RequestFields) /\ Same(req[q], req[q])
    BY <2>1, Here DEF IsRow, RequestFields, Same
  <2> QED BY <1>0, <2>1, <2>2, Here, GoesOn, LeftWorking
<1> QED BY <1>1, <1>2, <1>3, <1>6, <1>40, <1>41, <1>70, <1>71, <1>72, <1>80, <1>81, <1>90, <1>100, <1>101, <1>102

LEMMA HeadJoined == ASSUME NEW s \in Seq(Steps), s # <<>>, NEW t \in Seq(Steps) PROVE Head(s \o t) = Head(s)
<1>1. Len(s) \in Nat /\ Len(s) >= 1 /\ Len(t) \in Nat
  OBVIOUS
<1>2. Len(s \o t) = Len(s) + Len(t) /\ s \o t \in Seq(Steps) /\ (s \o t)[1] = s[1]
  BY <1>1
<1> QED BY <1>1, <1>2

LEMMA TurnsWorking ==
    ASSUME Working, NEW q \in Requests,
           \/ Strip(q) \/ Sandbox(q) \/ Lookup(q)
           \/ Users(q, "planUsers", "plans") \/ Users(q, "assumptionUsers", "assumptions")
    PROVE  Working'
<1>0. Whole(db) /\ UNCHANGED db
  BY DEF Working, Reads, Strip, Sandbox, Lookup, Users
<1>1. CASE Strip(q)
  <2> DEFINE r == [req[q] EXCEPT !.listed = Transient(db)]
             t == Tail(req[q].todo)
             u == RunSteps \o <<"relist">>
  <2>1. At(q, "strip")
    BY <1>1 DEF Strip
  <2>2. IsRow(r, RequestFields) /\ Same(req[q], r) /\ Base(db, r)
    BY <2>1, Here DEF IsRow, RequestFields, Same, Base
  <2>3. Orderly(req[q].todo) /\ req[q].todo # <<>> /\ Head(req[q].todo) = "strip"
    BY <2>1, Active, Here
  <2>4. t \in Seq(Steps)
    BY <2>3 DEF Orderly
  <2>5. Proceed(q, r, <<>> \o t) \/ Proceed(q, r, u \o t)
    BY <1>1 DEF Strip
  <2>6. <<>> \o t = t
    BY <2>4
  <2>7. CASE Proceed(q, r, <<>> \o t)
    <3>1. Continue(q, r)
      BY <2>6, <2>7 DEF Continue
    <3> HIDE DEF r
    <3> QED BY <1>0, <2>1, <2>2, <3>1, GoesOn
  <2>8. CASE Proceed(q, r, u \o t)
    <3>1. Orderly(u \o t)
      BY <2>3, Reordered
    <3>2. RunSteps \in Seq(Steps) /\ <<"relist">> \in Seq(Steps)
      BY Runs DEF Orderly, Steps
    <3>3. u \in Seq(Steps) /\ u # <<>> /\ Head(u) = Head(RunSteps)
      <4>1. Head(u) = Head(RunSteps) /\ u \in Seq(Steps)
        BY <3>2, Runs, HeadJoined
      <4>2. Len(u) = Len(RunSteps) + 1
        BY <3>2
      <4> QED BY <4>1, <4>2, Runs
    <3>4. Head(RunSteps) = "sandbox"
      BY DEF RunSteps
    <3> HIDE DEF u
    <3>5. Head(u \o t) \in Plain
      BY <2>4, <3>3, <3>4, HeadJoined DEF Plain
    <3> HIDE DEF r, t
    <3> QED BY <1>0, <2>2, <2>3, <2>8, <3>1, <3>5, Turned
  <2> QED BY <2>5, <2>7, <2>8
<1>2. CASE Sandbox(q)
  <2> DEFINE r == [req[q] EXCEPT !.seen = db.exploration, !.profile = db.profile]
             u == SubSeq(req[q].todo, Len(RunSteps) + 1, Len(req[q].todo))
  <2>1. At(q, "sandbox")
    BY <1>2 DEF Sandbox
  <2>2. CASE db.exploration = NoRow
    <3>1. Proceed(q, req[q], u)
      BY <1>2, <2>2 DEF Sandbox
    <3>2. u = <<>> \/ (Orderly(u) /\ Head(u) \in Plain)
      BY <2>1, Active, Here, Reordered DEF Plain
    <3> HIDE DEF u
    <3> QED BY <1>0, <2>1, <3>1, <3>2, Here, Turned
  <2>3. CASE db.exploration # NoRow
    <3>1. Continue(q, r)
      BY <1>2, <2>3 DEF Sandbox
    <3>2. IsRow(r, RequestFields) /\ Base(db, r) /\ r.seen = db.exploration
      BY <2>1, Here DEF IsRow, RequestFields, Base
    <3> HIDE DEF r
    <3>3. Ready(db, r, "sandbox")
      BY <1>0, <2>3, <3>2, ReadRows, Finds
    <3> QED BY <1>0, <2>1, <3>1, <3>3, Here, Onward
  <2> QED BY <2>2, <2>3
<1>3. CASE Lookup(q)
  <2>1. At(q, "lookup") /\ (Proceed(q, req[q], <<"reload", "insert">>) \/ Continue(q, req[q]))
    BY <1>3 DEF Lookup
  <2>2. Head(<<"reload", "insert">>) \in Plain
    BY DEF Plain
  <2>3. Same(req[q], req[q])
    BY DEF Same
  <2> QED BY <1>0, <2>1, <2>2, <2>3, Here, GoesOn, Turned, Reloads
<1>4. ASSUME NEW step \in {"planUsers", "assumptionUsers"}, NEW c \in Pairs, Users(q, step, c) PROVE Working'
  <2> DEFINE u == Tail(Tail(req[q].todo))
  <2>1. At(q, step) /\ (Proceed(q, req[q], u) \/ Continue(q, req[q]))
    BY <1>4 DEF Users
  <2>2. u = <<>> \/ (Orderly(u) /\ Head(u) \in {"assumptionUsers", "respond"})
    BY <2>1, Active, Here, Reordered
  <2>3. Same(req[q], req[q])
    BY DEF Same
  <2> HIDE DEF u
  <2>4. Head(u) \in {"assumptionUsers", "respond"} => Facts(db, req[q], Head(u))
    BY <2>1, Here DEF Facts, Deleting
  <2> QED BY <1>0, <2>1, <2>2, <2>3, <2>4, Here, GoesOn, TurnedTo
<1> QED BY <1>1, <1>2, <1>3, <1>4 DEF Pairs

LEMMA Kept ==
    ASSUME NEW row, IsExploration(row), NEW x
    PROVE  /\ IsExploration([row EXCEPT !.frame = x]) /\ [row EXCEPT !.frame = x] # NoRow
           /\ [row EXCEPT !.frame = x].source = row.source
           /\ [row EXCEPT !.frame = x].working = row.working
           /\ [row EXCEPT !.frame = x].id = row.id
<1>1. IsRow(row, {"id", "working", "source", "frame"}) /\ row.id = row.working
  BY DEF IsExploration
<1>2. "id" \notin DOMAIN NoRow
  BY DEF NoRow
<1> QED BY <1>1, <1>2 DEF IsExploration, IsRow

LEMMA Reanchored ==
    ASSUME NEW row, IsExploration(row), NEW x
    PROVE  /\ IsExploration([row EXCEPT !.source = x]) /\ [row EXCEPT !.source = x] # NoRow
           /\ [row EXCEPT !.source = x].source = x
           /\ [row EXCEPT !.source = x].working = row.working
<1>1. IsRow(row, {"id", "working", "source", "frame"}) /\ row.id = row.working
  BY DEF IsExploration
<1>2. "id" \notin DOMAIN NoRow
  BY DEF NoRow
<1> QED BY <1>1, <1>2 DEF IsExploration, IsRow

\* A step that writes and learns nothing of scenarios or sets.
LEMMA WroteOn ==
    ASSUME Working, NEW q \in Requests, NEW step, At(q, step), NEW r, Continue(q, r),
           Whole(db'), Ages(db, db'), IsRow(r, RequestFields), Same(req[q], r),
           step \notin {"find", "again", "sandbox", "choose"}
    PROVE  Working'
<1>1. Stays(db, req[q]) /\ req[q].todo # <<>> /\ Head(req[q].todo) = step /\ Whole(db)
  BY Active, Here DEF Working
<1>2. Stays(db', req[q])
  BY <1>1, StaysOn
<1>3. Base(db', req[q]) /\ Facts(db', req[q], step)
  BY <1>1, <1>2 DEF Stays
<1>4. Ready(db', r, step)
  BY <1>3, Carries
<1> QED BY <1>4, Onward

\* A source still among the scenarios is a saved one.
LEMMA SourceSaved ==
    ASSUME Whole(db), NEW r, Base(db, r), r.source \in Scenarios(db) PROVE r.source \in Saved(db)
BY WorkspaceAssumption DEF Whole, Halved, Base, StaleScenario

\* Saving the sandbox onto its anchor or beside it, the row of the exploration as read before.
LEMMA SaveWhole ==
    ASSUME Whole(db), NEW r, Base(db, r), Facts(db, r, "save"), r.source \in Scenarios(db), Stands(db, r.seen)
    PROVE  LET kept == Written(db, r.source, Pairs \ r.copies, r.inputs)
               d    == IF r.copies # {} THEN Minted(kept, "SAVED", r.copies, db.scenarios[r.source], r.inputs)
                       ELSE kept
               row  == [r.seen EXCEPT !.source = IF r.copies # {} THEN db.next + 2 ELSE r.source]
           IN  Whole(ExplorationSaved(d, row)) /\ Ages(db, ExplorationSaved(d, row))
<1> DEFINE kept == Written(db, r.source, Pairs \ r.copies, r.inputs)
           d    == IF r.copies # {} THEN Minted(kept, "SAVED", r.copies, db.scenarios[r.source], r.inputs)
                   ELSE kept
           x    == IF r.copies # {} THEN db.next + 2 ELSE r.source
           row  == [r.seen EXCEPT !.source = x]
<1>1. /\ Whole(kept) /\ Ages(db, kept)
      /\ kept.scenarios = db.scenarios /\ kept.exploration = db.exploration /\ kept.next = db.next
  BY WrittenWhole
<1> HIDE DEF kept
<1>2. r.source \in Saved(kept)
  BY <1>1, SourceSaved DEF Saved, Scenarios
<1>3. Whole(d) /\ Ages(kept, d) /\ d.exploration = db.exploration /\ x \in Saved(d)
  <2>1. CASE r.copies = {}
    BY <1>1, <1>2, <2>1, AgesSelf
  <2>2. CASE r.copies # {}
    <3> DEFINE m == Minted(kept, "SAVED", r.copies, kept.scenarios[r.source], r.inputs)
    <3>1. r.copies \in SUBSET Pairs
      BY DEF Base
    <3>2. Whole(m) /\ Ages(kept, m) /\ m.exploration = kept.exploration /\ kept.next + 2 \in Saved(m)
      BY <1>1, <1>2, <3>1, MintedSaved
    <3>3. m = d
      BY <1>1, <2>2
    <3> HIDE DEF m, d
    <3> QED BY <1>1, <2>2, <3>2, <3>3
  <2> QED BY <2>1, <2>2
<1>4. IsExploration(r.seen) /\ db.exploration # NoRow /\ r.seen.id = db.exploration.id
  BY DEF Facts, Stands
<1>5. IsExploration(db.exploration)
  BY <1>4, ReadRows
<1> HIDE DEF d, x
<1>10. IsExploration(row) /\ row # NoRow /\ row.source = x /\ row.working = r.seen.working
  BY <1>4, Reanchored
<1>6. row.working = db.exploration.working
  BY <1>4, <1>5, <1>10 DEF IsExploration
<1> HIDE DEF row
<1>7. Whole([d EXCEPT !.exploration = row]) /\ Ages(d, [d EXCEPT !.exploration = row])
  BY <1>3, <1>4, <1>6, <1>10, Rerooted
<1>8. Whole(ExplorationSaved(d, row)) /\ Ages(d, ExplorationSaved(d, row))
  BY <1>7 DEF ExplorationSaved
<1>9. Ages(db, ExplorationSaved(d, row))
  BY <1>1, <1>3, <1>8, Aged
<1> QED BY <1>8, <1>9 DEF row, x, d, kept

LEMMA WritesWorking ==
    ASSUME Working, NEW q \in Requests,
           \/ Seed(q) \/ RecordFrame(q) \/ Overwrite(q) \/ Save(q) \/ Delete(q)
           \/ (\E c \in Pairs : Orphan(q, c))
    PROVE  Working'
<1> USE DEF Same
<1>0. Whole(db)
  BY DEF Working
<1>1. CASE Seed(q)
  <2>1. At(q, "seed")
    BY <1>1 DEF Seed
  <2>2. CASE req[q].source \notin Scenarios(db)
    BY <1>1, <2>1, <2>2, Here, LeftWorking DEF Seed
  <2>3. CASE req[q].source \in Scenarios(db)
    <3>1. Continue(q, req[q]) /\ db' = Seeded(db, req[q].source, req[q].inputs)
      BY <1>1, <2>3 DEF Seed
    <3>2. req[q].source \in Saved(db)
      BY <1>0, <2>1, <2>3, Here, SourceSaved
    <3>3. Whole(db') /\ Ages(db, db')
      BY <1>0, <3>1, <3>2, SeededWhole
    <3> QED BY <2>1, <3>1, <3>3, Here, WroteOn
  <2> QED BY <2>2, <2>3
<1>2. CASE RecordFrame(q)
  <2> DEFINE row == [req[q].seen EXCEPT !.frame = req[q].job.frame]
  <2>1. At(q, "frame")
    BY <1>2 DEF RecordFrame
  <2>2. CASE ~Stands(db, row)
    BY <1>2, <2>1, <2>2, Here, LeftWorking DEF RecordFrame
  <2>3. CASE Stands(db, row)
    <3>1. Continue(q, req[q]) /\ db' = [db EXCEPT !.exploration = row]
      BY <1>2, <2>3 DEF RecordFrame, ExplorationSaved
    <3>2. IsExploration(req[q].seen) /\ StaleScenario(db, req[q].seen.source)
      BY <2>1, Here DEF Facts
    <3>3. /\ IsExploration(row) /\ row # NoRow /\ row.source = req[q].seen.source
          /\ row.working = req[q].seen.working /\ row.id = req[q].seen.id
      BY <3>2, Kept
    <3>4. db.exploration # NoRow /\ row.id = db.exploration.id /\ row.source \in Scenarios(db)
      BY <2>3 DEF Stands
    <3>5. IsExploration(db.exploration) /\ row.source \in Saved(db)
      BY <1>0, <3>2, <3>3, <3>4, ReadRows DEF StaleScenario
    <3>6. row.working = db.exploration.working
      BY <3>3, <3>4, <3>5 DEF IsExploration
    <3> HIDE DEF row
    <3>7. Whole(db') /\ Ages(db, db')
      BY <1>0, <3>1, <3>3, <3>4, <3>5, <3>6, Rerooted
    <3> QED BY <2>1, <3>1, <3>7, Here, WroteOn
  <2> QED BY <2>2, <2>3
<1>3. CASE Overwrite(q)
  <2> DEFINE v == [req[q].inputs EXCEPT ![req[q].job.dial] = req[q].job.value]
  <2>1. At(q, "overwrite")
    BY <1>3 DEF Overwrite
  <2>2. CASE ~Resolvable(db, req[q].seen.working)
    BY <1>3, <2>1, <2>2, Here, LeftWorking DEF Overwrite
  <2>3. CASE Resolvable(db, req[q].seen.working)
    <3>1. Continue(q, req[q]) /\ db' = Written(db, req[q].seen.working, Pairs, v)
      BY <1>3, <2>3 DEF Overwrite
    <3> HIDE DEF v
    <3>2. Whole(db') /\ Ages(db, db')
      BY <1>0, <3>1, WrittenWhole
    <3> QED BY <2>1, <3>1, <3>2, Here, WroteOn
  <2> QED BY <2>2, <2>3
<1>4. CASE Save(q)
  <2> DEFINE r == req[q]
             kept == Written(db, r.source, Pairs \ r.copies, r.inputs)
             d    == IF r.copies # {} THEN Minted(kept, "SAVED", r.copies, db.scenarios[r.source], r.inputs)
                     ELSE kept
             row  == [r.seen EXCEPT !.source = IF r.copies # {} THEN db.next + 2 ELSE r.source]
  <2>1. At(q, "save")
    BY <1>4 DEF Save
  <2>2. CASE r.source \notin Scenarios(db) \/ ~Stands(db, r.seen)
    BY <1>4, <2>1, <2>2, Here, LeftWorking DEF Save
  <2>3. CASE r.source \in Scenarios(db) /\ Stands(db, r.seen)
    <3>1. Continue(q, req[q]) /\ db' = ExplorationSaved(d, row)
      BY <1>4, <2>3 DEF Save
    <3>2. Base(db, r) /\ Facts(db, r, "save")
      BY <2>1, Here
    <3>3. Whole(ExplorationSaved(d, row)) /\ Ages(db, ExplorationSaved(d, row))
      BY <1>0, <2>3, <3>2, SaveWhole
    <3> HIDE DEF d, row
    <3> QED BY <2>1, <3>1, <3>3, Here, WroteOn
  <2> QED BY <2>2, <2>3
<1>5. CASE Delete(q)
  <2>1. At(q, "delete") /\ ((Fail(q) /\ UNCHANGED db)
                            \/ (db' = WithoutScenarios(db, {req[q].source}) /\ Continue(q, req[q])))
    BY <1>5 DEF Delete
  <2>2. {req[q].source} \cap Scenarios(db) \subseteq Saved(db)
    BY <1>0, <2>1, Here, SourceSaved
  <2>3. Whole(WithoutScenarios(db, {req[q].source})) /\ Ages(db, WithoutScenarios(db, {req[q].source}))
    BY <1>0, <2>2, DeletedWhole
  <2> QED BY <2>1, <2>3, Here, LeftWorking, WroteOn
<1>6. ASSUME NEW c \in Pairs, Orphan(q, c) PROVE Working'
  <2>1. At(q, c) /\ Continue(q, req[q]) /\ db' = WithoutSet(db, req[q].seen[c])
    BY <1>6 DEF Orphan
  <2>2. c \in Deleting
    BY DEF Pairs, Deleting
  <2>3. StaleSet(db, req[q].seen[c])
    BY <2>1, <2>2, Here DEF Facts
  <2>4. Whole(db') /\ Ages(db, db')
    BY <1>0, <2>1, <2>3, OrphanedWhole DEF StaleSet
  <2> QED BY <2>1, <2>2, <2>4, Here, WroteOn DEF Deleting
<1> QED BY <1>1, <1>2, <1>3, <1>4, <1>5, <1>6

LEMMA RunsWorking ==
    ASSUME Working, NEW q \in Requests,
           \/ SaveBooks(q) \/ Capture(q) \/ CaptureSaved(q) \/ Drop(q) \/ Keep(q) \/ Insert(q)
           \/ EditProfile(q) \/ Respond(q)
    PROVE  Working'
<1> DEFINE Leaves(e) == /\ IsRow(e, DbFields) /\ e.scenarios = db.scenarios /\ e.sets = db.sets
                        /\ e.exploration = db.exploration /\ e.next = db.next
<1>0. Whole(db) /\ IsRow(db, DbFields)
  BY DEF Working, Whole, Halved
<1>1. ASSUME NEW step, At(q, step), NEW r, Continue(q, r), IsRow(r, RequestFields), Same(req[q], r),
             Leaves(db'), step \notin {"find", "again", "sandbox", "choose"}
      PROVE  Working'
  BY <1>0, <1>1, Unseen, WroteOn
<1>2. CASE SaveBooks(q)
  <2> DEFINE r == [req[q] EXCEPT !.run = db.runs + 1]
  <2>1. At(q, "saveBooks") /\ Continue(q, r)
    BY <1>2 DEF SaveBooks
  <2>2. IsRow(r, RequestFields) /\ Same(req[q], r)
    BY <2>1, Here DEF IsRow, RequestFields, Same
  <2>3. Leaves(db')
    BY <1>0, <1>2 DEF SaveBooks, IsRow, DbFields
  <2> HIDE DEF r, Leaves
  <2> QED BY <2>1, <2>2, <2>3, <1>1
<1>3. CASE Capture(q)
  <2>1. At(q, "capture") /\ Continue(q, req[q]) /\ db' = Captured(db, req[q].run, "WORKING", req[q])
    BY <1>3 DEF Capture
  <2>2. IsRow(req[q], RequestFields) /\ Same(req[q], req[q])
    BY <2>1, Here DEF Same
  <2>3. Leaves(db')
    BY <1>0, <2>1 DEF Captured, IsRow, DbFields
  <2> HIDE DEF Leaves
  <2> QED BY <2>1, <2>2, <2>3, <1>1
<1>4. CASE CaptureSaved(q)
  <2> DEFINE r == [req[q] EXCEPT !.frame = req[q].job.frame]
             n == db.runs + 1
             b == [db EXCEPT !.runs = n, !.books = @ \cup {n}]
  <2>1. At(q, "captureSaved") /\ Continue(q, r) /\ db' = Captured(b, n, "SAVED", r)
    BY <1>4 DEF CaptureSaved
  <2>2. IsRow(r, RequestFields) /\ Same(req[q], r)
    BY <2>1, Here DEF IsRow, RequestFields, Same
  <2>4. Leaves(b)
    BY <1>0 DEF IsRow, DbFields
  <2> HIDE DEF b, n, r
  <2>3. Leaves(db')
    BY <2>1, <2>4 DEF Captured, IsRow, DbFields
  <2> HIDE DEF Leaves
  <2> QED BY <2>1, <2>2, <2>3, <1>1
<1>5. CASE Drop(q)
  <2>1. At(q, "drop") /\ Continue(q, req[q]) /\ db' = WithoutRuns(db, RunsIn(req[q].listed))
    BY <1>5 DEF Drop
  <2>2. IsRow(req[q], RequestFields) /\ Same(req[q], req[q])
    BY <2>1, Here DEF Same
  <2>3. Leaves(db')
    BY <1>0, <2>1 DEF WithoutRuns, IsRow, DbFields
  <2> HIDE DEF Leaves
  <2> QED BY <2>1, <2>2, <2>3, <1>1
<1>6. CASE Keep(q)
  <2> DEFINE rows == {n \in DOMAIN db.results : db.results[n].run = req[q].run}
  <2>1. At(q, "keep")
    BY <1>6 DEF Keep
  <2>2. IsRow(req[q], RequestFields) /\ Same(req[q], req[q])
    BY <2>1, Here DEF Same
  <2>3. CASE rows = {}
    BY <1>6, <2>1, <2>3, Here, LeftWorking DEF Keep
  <2>4. CASE rows # {}
    <3>1. Continue(q, req[q])
      BY <1>6, <2>4 DEF Keep
    <3>2. db' = [db EXCEPT !.results = db'.results]
      <4>1. PICK x : db' = [db EXCEPT !.results = x]
        BY <1>6, <2>4 DEF Keep
      <4> QED BY <4>1, <1>0 DEF IsRow, DbFields
    <3>3. Leaves(db')
      BY <1>0, <3>2 DEF IsRow, DbFields
    <3> HIDE DEF Leaves
    <3> QED BY <2>1, <2>2, <3>1, <3>3, <1>1
  <2> QED BY <2>3, <2>4
<1>7. CASE Insert(q)
  BY <1>7, Here, GoesOn DEF Insert, Same
<1>8. CASE EditProfile(q)
  <2>1. At(q, "edit") /\ Continue(q, req[q])
    BY <1>8 DEF EditProfile
  <2>2. IsRow(req[q], RequestFields) /\ Same(req[q], req[q])
    BY <2>1, Here DEF Same
  <2>3. Leaves(db')
    <3>1. PICK x : db' = [db EXCEPT !.profile = x]
      BY <1>8 DEF EditProfile
    <3> QED BY <3>1, <1>0 DEF IsRow, DbFields
  <2> HIDE DEF Leaves
  <2> QED BY <2>1, <2>2, <2>3, <1>1
<1>9. CASE Respond(q)
  BY <1>9, Here, GoesOn DEF Respond, Same
<1> QED BY <1>2, <1>3, <1>4, <1>5, <1>6, <1>7, <1>8, <1>9

\* No page starts with a step that uses what was read before.
LEMMA Openings == \A kind \in Kinds : Head(Program[kind]) \in {"choose", "find", "get", "edit"}
<1>1. Head(Program.enter) = "choose" /\ Head(Program.reset) = "find"
  BY DEF Program, EnterSteps, ResetSteps, FreshSteps
<1>2. Head(Program.rerun) = "find"
  BY DEF Program, RunSteps
<1>3. Head(Program.deleteScenario) = "choose"
  BY DEF Program, OrphanSteps
<1>4. Head(Program.show) = "get"
  BY DEF Program, ShowSteps
<1>5. /\ Head(Program.view) = "find" /\ Head(Program.tune) = "find" /\ Head(Program.update) = "find"
      /\ Head(Program.branch) = "find" /\ Head(Program.keep) = "get" /\ Head(Program.deleteRun) = "get"
      /\ Head(Program.hub) = "choose" /\ Head(Program.profile) = "edit"
  BY DEF Program
<1> QED BY <1>1, <1>2, <1>3, <1>4, <1>5 DEF Kinds

LEMMA BeginsWorking == ASSUME Working, Begin PROVE Working'
<1>1. PICK jobs, runs :
         /\ jobs \in Rounds[round]
         /\ req' = [q \in Requests |-> IF q \in DOMAIN jobs THEN Served(jobs[q], runs[q]) ELSE Idle]
  BY DEF Begin
<1>2. \A q \in DOMAIN jobs : jobs[q].kind \in Kinds
  BY <1>1, WorkloadAssumption DEF Begin
<1>4. ASSUME NEW q \in Requests PROVE Stays(db, req'[q])
  <2>1. CASE q \in DOMAIN jobs
    <3> DEFINE r == Served(jobs[q], runs[q])
    <3>1. req'[q] = r /\ Head(r.todo) \in {"choose", "find", "get", "edit"}
      BY <1>1, <1>2, Openings, <2>1 DEF Served
    <3>2. r.source = None /\ r.copies = {}
      BY DEF Served
    <3> HIDE DEF r
    <3> QED BY <3>1, <3>2 DEF Stays, Base, Facts, Deleting
  <2>2. CASE q \notin DOMAIN jobs
    BY <1>1, <2>2, Idles DEF Stays
  <2> QED BY <2>1, <2>2
<1>5. UNCHANGED db
  BY DEF Begin
<1> QED BY <1>4, <1>5, Begins DEF Working

LEMMA OpensWhole == Init => Working
<1> SUFFICES ASSUME Init PROVE Working
  OBVIOUS
<1>1. Ordered
  BY Idles DEF Init, Ordered, Tidy, IsRow
<1>2. /\ db.scenarios = OpeningScenarios /\ db.exploration = NoRow /\ db.next = FirstNew
      /\ IsRow(db, DbFields)
      /\ DOMAIN db.sets = UNION {{OpeningScenarios[s][c] : c \in Pairs} : s \in DOMAIN OpeningScenarios}
  BY DEF Init, IsRow, DbFields
<1>3. \A x \in DOMAIN db.sets : db.sets[x].role = "SAVED" /\ IsRow(db.sets[x], {"kind", "role", "value"})
  BY DEF Init, IsRow
<1>4. \A s \in Scenarios(db) : \A c \in Pairs : db.scenarios[s][c] \in SetIds(db)
  BY <1>2 DEF Scenarios, SetIds
<1>5. FirstNew \in Nat /\ \A x \in 1 .. FirstNew - 1 : x \in Nat /\ x < FirstNew
  BY DEF FirstNew
<1>6. \A s \in Scenarios(db) : /\ db.scenarios[s].role = "SAVED" /\ s \in 1 .. FirstNew - 1
                               /\ \A c \in Pairs : db.scenarios[s][c] \in 1 .. FirstNew - 1
  BY <1>2, WorkloadAssumption DEF Scenarios, Pairs
<1>7. \A x \in SetIds(db) : x \in 1 .. FirstNew - 1
  <2> SUFFICES ASSUME NEW x \in SetIds(db) PROVE x \in 1 .. FirstNew - 1
    OBVIOUS
  <2>1. PICK s \in DOMAIN OpeningScenarios : x \in {OpeningScenarios[s][c] : c \in Pairs}
    BY <1>2 DEF SetIds
  <2> QED BY <2>1, <1>2, <1>6 DEF Scenarios
<1>8. Saved(db) = Scenarios(db) /\ Drafts(db) = {}
  BY <1>6 DEF Saved, Drafts
<1>9. Whole(db)
  BY <1>2, <1>3, <1>4, <1>5, <1>6, <1>7, <1>8 DEF Whole, Halved, SetIds
<1>10. \A q \in Requests : req[q].todo = <<>>
  BY Idles DEF Init
<1> QED BY <1>1, <1>9, <1>10 DEF Working, Stays

\* Whole rows keep the promise.
LEMMA WholeEnough == Whole(db) => SandboxWhole
<1> SUFFICES ASSUME Whole(db) PROVE SandboxWhole
  OBVIOUS
<1> DEFINE sandbox == Scenarios(db) \ Saved(db)
<1>1. \A s \in Scenarios(db) : Resolvable(db, s)
  BY DEF Whole, Halved, Resolvable, SetsOf
<1>2. IF db.exploration = NoRow THEN sandbox = {}
      ELSE sandbox = {db.exploration.working} /\ db.exploration.source \in Saved(db)
  BY DEF Whole, Halved, Drafts
<1>3. {x \in SetIds(db) : db.sets[x].role = "WORKING"} = UNION {SetsOf(db, s) : s \in sandbox}
  <2>1. \A x \in SetIds(db) : db.sets[x].role = "WORKING" => \E s \in sandbox : x \in SetsOf(db, s)
    BY DEF Whole, Halved, Drafts, SetsOf
  <2>2. \A s \in sandbox : \A x \in SetsOf(db, s) : x \in SetIds(db) /\ db.sets[x].role = "WORKING"
    BY DEF Whole, Halved, Drafts, SetsOf
  <2> HIDE DEF sandbox
  <2> QED BY <2>1, <2>2
<1>4. \A s \in Saved(db) : \A x \in SetsOf(db, s) : db.sets[x].role = "SAVED"
  BY DEF Whole, Halved, SetsOf
<1> QED BY <1>1, <1>2, <1>3, <1>4 DEF SandboxWhole

LEMMA StepsWorking == ASSUME Working, [Next]_vars PROVE Working'
<1>1. CASE Begin
  BY <1>1, BeginsWorking
<1>2. ASSUME NEW q \in Requests, Step(q) PROVE Working'
  BY <1>2, ReadsWorking, TurnsWorking, WritesWorking, RunsWorking DEF Step
<1>3. ASSUME NEW q \in Requests, Die(q) PROVE Working'
  BY <1>3, LeftWorking DEF Die
<1>4. CASE UNCHANGED vars
  BY <1>4 DEF vars, Working, Ordered, Tidy
<1> QED BY <1>1, <1>2, <1>3, <1>4 DEF Next, Serve

\* The sandbox stays whole: every commit leaves the saved scenarios with their sets, and an
\* exploration exactly when there are its one WORKING scenario and the two WORKING sets of
\* that scenario, anchored to a saved one -- however the requests overlap, whatever rows
\* they read before others deleted them, and wherever a worker dies.
THEOREM SandboxStaysWhole == Spec => []SandboxWhole
<1>1. Init => Working
  BY OpensWhole
<1>2. Working /\ [Next]_vars => Working'
  BY StepsWorking
<1>3. Working => SandboxWhole
  BY WholeEnough DEF Working
<1> QED BY <1>1, <1>2, <1>3, PTL DEF Spec
-----------------------------------------------------------------------------
(* The runs: their rows, what was captured of them, and what requests and cache hold of them. *)

\* A row per run, never twice, each with its books and captured before.
Shelved(d, c) ==
    /\ d.rows \in Nat /\ d.runs \in Nat /\ DOMAIN c \subseteq 1 .. d.runs
    /\ DOMAIN d.results \subseteq 1 .. d.rows
    /\ \A n \in DOMAIN d.results :
          /\ IsRow(d.results[n], {"run", "role", "frame", "profile", "seeding"})
          /\ d.results[n].run \in DOMAIN c /\ d.results[n].run \in d.books
          /\ d.results[n].role \in {"WORKING", "SAVED"}
    /\ \A m, n \in DOMAIN d.results : d.results[m].run = d.results[n].run => m = n

\* Books are those captured, or nothing of a run that is gone.
Faithful(d, c, run, books) == books = c[run] \/ (books = None /\ run \notin RunsIn(d.results))
Entries(d, c) ==
    {e \in [run : DOMAIN c, books : {c[run] : run \in DOMAIN c} \cup {None}] : Faithful(d, c, e.run, e.books)}

Holds(d, c, r, step) ==
    /\ step = "capture" => r.run \in ((1 .. d.runs) \cap d.books) \ DOMAIN c
    /\ step = "drop" => RunsIn(r.listed) \subseteq DOMAIN c
    /\ step \in {"lookup", "reload", "insert"} => r.run \in DOMAIN c
    /\ step = "insert" => Faithful(d, c, r.run, r.books)
    /\ step = "inputs" => /\ DOMAIN r.listed # {} /\ DOMAIN r.listed \subseteq 1 .. d.rows
                          /\ RunsIn(r.listed) \subseteq DOMAIN c
Holding(d, c, r) == r.todo # <<>> => Holds(d, c, r, Head(r.todo))

Shelving ==
    /\ Working /\ Shelved(db, captured) /\ cache \in Seq(Entries(db, captured))
    /\ \A q \in Requests : Holding(db, captured, req[q])
    /\ \A p, q \in Requests : p # q /\ At(p, "capture") /\ At(q, "capture") => req[p].run # req[q].run

\* Captured runs keep their figures, and a run that is gone does not come back.
Grows(d, c, e, f) ==
    /\ d.runs <= e.runs /\ d.rows <= e.rows /\ d.books \ DOMAIN c \subseteq e.books
    /\ DOMAIN c \subseteq DOMAIN f /\ \A run \in DOMAIN c : f[run] = c[run]
    /\ RunsIn(e.results) \cap DOMAIN c \subseteq RunsIn(d.results)

LEMMA EntriesGrow ==
    ASSUME NEW d, NEW c, NEW e, NEW f, Grows(d, c, e, f) PROVE Entries(d, c) \subseteq Entries(e, f)
<1> SUFFICES ASSUME NEW x \in Entries(d, c) PROVE x \in Entries(e, f)
  OBVIOUS
<1>1. /\ x \in [run : DOMAIN c, books : {c[run] : run \in DOMAIN c} \cup {None}]
      /\ Faithful(d, c, x.run, x.books)
  BY DEF Entries
<1>2. x.run \in DOMAIN c /\ x.run \in DOMAIN f
  BY <1>1 DEF Grows
<1>3. Faithful(e, f, x.run, x.books)
  BY <1>1, <1>2 DEF Faithful, Grows
<1>4. {c[run] : run \in DOMAIN c} \subseteq {f[run] : run \in DOMAIN f}
  BY DEF Grows
<1>5. x \in [run : DOMAIN f, books : {f[run] : run \in DOMAIN f} \cup {None}]
  BY <1>1, <1>2, <1>4
<1> QED BY <1>3, <1>5 DEF Entries

LEMMA HoldsOn ==
    ASSUME NEW d, NEW c, NEW e, NEW f, Grows(d, c, e, f), Shelved(d, c), Shelved(e, f),
           NEW r, NEW step, Holds(d, c, r, step), step = "capture" => r.run \notin DOMAIN f
    PROVE  Holds(e, f, r, step)
<1>1. d.runs \in Nat /\ e.runs \in Nat /\ d.rows \in Nat /\ e.rows \in Nat /\ d.runs <= e.runs /\ d.rows <= e.rows
  BY DEF Shelved, Grows
<1>2. 1 .. d.runs \subseteq 1 .. e.runs /\ 1 .. d.rows \subseteq 1 .. e.rows
  BY <1>1
<1>3. step = "insert" => Faithful(e, f, r.run, r.books)
  BY DEF Holds, Faithful, Grows
<1> QED BY <1>2, <1>3 DEF Holds, Grows

LEMMA Runners ==
    ASSUME Ordered, NEW q \in Requests, NEW r, NEW t, Proceed(q, r, t)
    PROVE  /\ \A p \in Requests : p # q => /\ req'[p] = req[p]
                                           /\ \A step : At(p, step)' <=> At(p, step)
           /\ req'[q] = After(r, t)
           /\ \A step : At(q, step)' <=> t # <<>> /\ Head(t) = step
           /\ t # <<>> => /\ req'[q].todo = t
                          /\ IsRow(r, RequestFields) => req'[q].run = r.run /\ req'[q].listed = r.listed
                                                       /\ req'[q].books = r.books
<1>1. /\ req'[q] = After(r, t)
      /\ \A p \in Requests : p # q => req'[p] = req[p]
  BY Moved
<1>2. ASSUME t # <<>> PROVE req'[q] = [r EXCEPT !.todo = t]
  BY <1>1, <1>2 DEF After
<1> QED BY <1>1, <1>2, Idles DEF At, After, IsRow, RequestFields

LEMMA Sheltered ==
    ASSUME Shelving, Working', NEW q \in Requests, NEW r, NEW t, Proceed(q, r, t), IsRow(r, RequestFields),
           Shelved(db', captured'), Grows(db, captured, db', captured'),
           cache' \in Seq(Entries(db', captured')),
           t = <<>> \/ Holds(db', captured', r, Head(t)),
           t # <<>> /\ Head(t) = "capture" => r.run \notin 1 .. db.runs,
           \A p \in Requests : p # q /\ At(p, "capture") => req[p].run \notin DOMAIN captured'
    PROVE  Shelving'
<1>1. Ordered /\ Shelved(db, captured)
  BY DEF Shelving, Working
<1>2. \A p \in Requests : p # q => /\ req'[p] = req[p]
                                   /\ \A step : At(p, step)' <=> At(p, step)
  BY <1>1, Runners
<1>3. \A step : At(q, step)' <=> t # <<>> /\ Head(t) = step
  BY <1>1, Runners
<1>4. t # <<>> => req'[q].todo = t /\ req'[q].run = r.run /\ req'[q].listed = r.listed /\ req'[q].books = r.books
  BY <1>1, Runners
<1>10. req'[q] = After(r, t)
  BY <1>1, Runners
<1>5. t = <<>> => req'[q] = Idle
  BY <1>10 DEF After
<1>6. ASSUME NEW p \in Requests PROVE Holding(db', captured', req'[p])
  <2>1. CASE p = q
    <3>1. CASE t = <<>>
      BY <2>1, <3>1, <1>5, Idles DEF Holding
    <3>2. CASE t # <<>>
      BY <2>1, <3>2, <1>4 DEF Holding, Holds
    <3> QED BY <3>1, <3>2
  <2>2. CASE p # q
    <3>1. req'[p] = req[p] /\ Holding(db, captured, req[p])
      BY <2>2, <1>2 DEF Shelving
    <3>2. req[p].todo # <<>> /\ Head(req[p].todo) = "capture" => req[p].run \notin DOMAIN captured'
      BY <2>2 DEF At
    <3> QED BY <3>1, <3>2, <1>1, HoldsOn DEF Holding
  <2> QED BY <2>1, <2>2
<1>7. ASSUME NEW p \in Requests, p # q, At(p, "capture")', At(q, "capture")'
      PROVE  req'[p].run # req'[q].run
  <2>1. At(p, "capture") /\ req'[p] = req[p]
    BY <1>2, <1>7
  <2>2. req[p].run \in 1 .. db.runs
    BY <2>1 DEF Shelving, Holding, Holds, At
  <2>3. req'[q].run \notin 1 .. db.runs
    BY <1>3, <1>4, <1>7
  <2> QED BY <2>1, <2>2, <2>3
<1>8. ASSUME NEW p \in Requests, NEW o \in Requests, p # o, p # q, o # q, At(p, "capture")', At(o, "capture")'
      PROVE  req'[p].run # req'[o].run
  <2>1. At(p, "capture") /\ At(o, "capture") /\ req'[p] = req[p] /\ req'[o] = req[o]
    BY <1>2, <1>8
  <2> QED BY <2>1, <1>8 DEF Shelving
<1>9. \A p, o \in Requests : p # o /\ At(p, "capture")' /\ At(o, "capture")' => req'[p].run # req'[o].run
  BY <1>7, <1>8
<1> QED BY <1>6, <1>9 DEF Shelving

LEMMA RoleIs ==
    ASSUME NEW d, NEW c, Shelved(d, c)
    PROVE  /\ \A n \in DOMAIN d.results : RoleOf(d, d.results[n].run) = d.results[n].role
           /\ \A run : run \notin RunsIn(d.results) => RoleOf(d, run) = "gone"
<1>1. ASSUME NEW n \in DOMAIN d.results PROVE RoleOf(d, d.results[n].run) = d.results[n].role
  <2> DEFINE m == CHOOSE m \in DOMAIN d.results : d.results[m].run = d.results[n].run
  <2>1. m \in DOMAIN d.results /\ d.results[m].run = d.results[n].run
    OBVIOUS
  <2>2. m = n
    BY <2>1 DEF Shelved
  <2>3. d.results[n].run \in RunsIn(d.results)
    BY DEF RunsIn
  <2> QED BY <2>2, <2>3 DEF RoleOf
<1> QED BY <1>1 DEF RoleOf

\* What is doomed when a request moves on.
LEMMA DoomedNext ==
    ASSUME Ordered, NEW q \in Requests, NEW r, NEW t, Proceed(q, r, t), IsRow(r, RequestFields)
    PROVE  /\ t = <<>> \/ Head(t) # "drop" => Doomed' \subseteq Doomed
           /\ (t = <<>> \/ Head(t) # "drop") /\ ~At(q, "drop") => Doomed' = Doomed
           /\ t # <<>> /\ Head(t) = "drop" /\ ~At(q, "drop") => Doomed' = Doomed \cup RunsIn(r.listed)
<1>1. \A p \in Requests : p # q => req'[p] = req[p] /\ (At(p, "drop")' <=> At(p, "drop"))
  BY Runners
<1>2. At(q, "drop")' <=> t # <<>> /\ Head(t) = "drop"
  BY Runners
<1>3. t # <<>> => req'[q].listed = r.listed
  BY Runners
<1>4. \A run : run \in Doomed <=> \E p \in Requests : At(p, "drop") /\ run \in RunsIn(req[p].listed)
  BY DEF Doomed
<1>5. \A run : run \in Doomed' <=> \E p \in Requests : At(p, "drop")' /\ run \in RunsIn(req'[p].listed)
  BY DEF Doomed, RunsIn
<1> QED BY <1>1, <1>2, <1>3, <1>4, <1>5

\* From d to e exactly the rows and the books of runs go.
Removed(d, e, runs) ==
    /\ e.rows = d.rows /\ e.runs \in Nat /\ d.runs <= e.runs /\ d.books \ runs \subseteq e.books
    /\ DOMAIN e.results = {n \in DOMAIN d.results : d.results[n].run \notin runs}
    /\ \A n \in DOMAIN e.results : e.results[n] = d.results[n]

LEMMA RemovedShelved ==
    ASSUME NEW d, NEW e, NEW c, NEW runs \in SUBSET DOMAIN c, Shelved(d, c), Removed(d, e, runs)
    PROVE  /\ Shelved(e, c) /\ Grows(d, c, e, c)
           /\ \A run : RoleOf(e, run) = IF run \in runs THEN "gone" ELSE RoleOf(d, run)
<1>1. d.rows \in Nat /\ d.runs \in Nat /\ e.runs \in Nat /\ d.runs <= e.runs /\ e.rows = d.rows
  BY DEF Shelved, Removed
<1>2. DOMAIN c \subseteq 1 .. e.runs
  BY <1>1 DEF Shelved
<1>3. \A n \in DOMAIN e.results : n \in DOMAIN d.results /\ e.results[n] = d.results[n] /\ d.results[n].run \notin runs
  BY DEF Removed
<1>4. Shelved(e, c)
  BY <1>1, <1>2, <1>3 DEF Shelved, Removed
<1>5. RunsIn(e.results) = RunsIn(d.results) \ runs
  BY <1>3 DEF RunsIn, Removed
<1>6. Grows(d, c, e, c)
  BY <1>1, <1>5 DEF Grows, Removed
<1>7. ASSUME NEW run PROVE RoleOf(e, run) = IF run \in runs THEN "gone" ELSE RoleOf(d, run)
  <2>1. CASE run \notin RunsIn(e.results)
    BY <2>1, <1>4, <1>5, RoleIs DEF Shelved
  <2>2. CASE run \in RunsIn(e.results)
    <3>1. PICK n \in DOMAIN e.results : e.results[n].run = run
      BY <2>2 DEF RunsIn
    <3> QED BY <3>1, <1>3, <1>4, RoleIs
  <2> QED BY <2>1, <2>2
<1> QED BY <1>4, <1>6, <1>7
-----------------------------------------------------------------------------
(* Each step as a step of the shelf. *)

Transients == {run \in DOMAIN OnShelf : OnShelf[run].role = "WORKING"}

LEMMA AsRemove ==
    ASSUME Doomed' \subseteq Doomed, NEW gone \in SUBSET (Doomed \cup Transients), UNCHANGED screen,
           OnShelf' = [run \in DOMAIN OnShelf |->
                          IF run \in gone THEN [OnShelf[run] EXCEPT !.role = "gone"] ELSE OnShelf[run]]
    PROVE  Shelf!Next
BY DEF Shelf!Next, Shelf!Remove, Shelf!Captured, Shelf!Transient, Transients

LEMMA AsPick ==
    ASSUME UNCHANGED <<OnShelf, screen>>, NEW runs, Doomed' = Doomed \cup runs,
           \/ runs \subseteq Transients
           \/ \E run \in DOMAIN OnShelf : runs = {run} /\ OnShelf[run].role = "SAVED"
    PROVE  Shelf!Next
<1>1. runs \in SUBSET Transients \/ \E run \in DOMAIN OnShelf : OnShelf[run].role = "SAVED" /\ Doomed' = Doomed \cup {run}
  OBVIOUS
<1> QED BY <1>1 DEF Shelf!Next, Shelf!Pick, Shelf!Captured, Shelf!Transient, Transients

LEMMA AsShow ==
    ASSUME UNCHANGED <<OnShelf, Doomed>>, NEW run \in DOMAIN OnShelf,
           \/ screen' = [run |-> run, figures |-> OnShelf[run].figures]
           \/ OnShelf[run].role = "gone" /\ screen' = [run |-> run, figures |-> None]
    PROVE  Shelf!Next
BY DEF Shelf!Next, Shelf!Show, Shelf!Captured

LEMMA AsKeep ==
    ASSUME UNCHANGED <<Doomed, screen>>, NEW run \in DOMAIN OnShelf, OnShelf[run].role = "WORKING",
           OnShelf' = [OnShelf EXCEPT ![run].role = "SAVED"]
    PROVE  Shelf!Next
BY DEF Shelf!Next, Shelf!Keep, Shelf!Captured

LEMMA AsCapture ==
    ASSUME UNCHANGED <<Doomed, screen>>, NEW run, run \notin DOMAIN OnShelf,
           DOMAIN OnShelf' = DOMAIN OnShelf \cup {run}, OnShelf'[run].role \in {"WORKING", "SAVED"},
           \A other \in DOMAIN OnShelf : OnShelf'[other] = OnShelf[other]
    PROVE  Shelf!Next
BY DEF Shelf!Next, Shelf!Capture, Shelf!Captured

LEMMA SeqGrows == ASSUME NEW S, NEW T, S \subseteq T, NEW s \in Seq(S) PROVE s \in Seq(T)
<1>1. Len(s) \in Nat /\ s \in [1 .. Len(s) -> S]
  BY LenProperties
<1>2. s \in [1 .. Len(s) -> T]
  BY <1>1
<1> QED BY <1>1, <1>2, SeqDef

LEMMA PendingStays ==
    ASSUME Shelving, NEW p \in Requests, At(p, "capture")
    PROVE  req[p].run \in ((1 .. db.runs) \cap db.books) \ DOMAIN captured
BY DEF Shelving, Holding, Holds, At

LEMMA DoomedCaptured == ASSUME Shelving PROVE Doomed \cup RunsIn(Transient(db)) \subseteq DOMAIN captured
<1>1. \A q \in Requests : At(q, "drop") => RunsIn(req[q].listed) \subseteq DOMAIN captured
  BY DEF Shelving, Holding, Holds, At
<1>2. RunsIn(Transient(db)) \subseteq DOMAIN captured
  <2>1. Shelved(db, captured)
    BY DEF Shelving
  <2> QED BY <2>1 DEF Transient, Restrict, RunsIn, Shelved
<1> QED BY <1>1, <1>2 DEF Doomed

LEMMA ShelfIs ==
    ASSUME Shelving
    PROVE  /\ DOMAIN OnShelf = DOMAIN captured
           /\ \A run \in DOMAIN captured : /\ OnShelf[run].role = RoleOf(db, run)
                                           /\ OnShelf[run].figures = captured[run]
           /\ RunsIn(Transient(db)) \subseteq Transients
<1>1. /\ DOMAIN OnShelf = DOMAIN captured
      /\ \A run \in DOMAIN captured : /\ OnShelf[run].role = RoleOf(db, run)
                                      /\ OnShelf[run].figures = captured[run]
  BY DEF OnShelf
<1>2. ASSUME NEW run \in RunsIn(Transient(db)) PROVE run \in Transients
  <2>1. PICK n \in DOMAIN db.results : db.results[n].role = "WORKING" /\ db.results[n].run = run
    BY DEF RunsIn, Transient, Restrict
  <2>2. Shelved(db, captured)
    BY DEF Shelving
  <2>3. RoleOf(db, run) = "WORKING"
    BY <2>1, <2>2, RoleIs
  <2>4. run \in DOMAIN captured
    BY <2>1, <2>2 DEF Shelved
  <2> QED BY <1>1, <2>3, <2>4 DEF Transients
<1> QED BY <1>1, <1>2

\* A step that takes rows away, or none, and moves on to what it then holds.
LEMMA Removing ==
    ASSUME Shelving, Working', NEW q \in Requests, NEW r, NEW t, Proceed(q, r, t), IsRow(r, RequestFields),
           NEW runs, Removed(db, db', runs), runs \subseteq Doomed \cup RunsIn(Transient(db)),
           UNCHANGED <<captured, cache, screen>>,
           t = <<>> \/ (Head(t) # "drop" /\ Holds(db', captured, r, Head(t))),
           t # <<>> /\ Head(t) = "capture" => r.run \notin 1 .. db.runs
    PROVE  Shelving' /\ Shelf!Next
<1>1. Ordered /\ Shelved(db, captured) /\ cache \in Seq(Entries(db, captured))
  BY DEF Shelving, Working
<1>2. /\ Shelved(db', captured') /\ Grows(db, captured, db', captured')
      /\ \A run : RoleOf(db', run) = IF run \in runs THEN "gone" ELSE RoleOf(db, run)
  BY <1>1, DoomedCaptured, RemovedShelved
<1>3. cache' \in Seq(Entries(db', captured'))
  BY <1>1, <1>2, EntriesGrow, SeqGrows
<1>4. Shelving'
  BY <1>2, <1>3, PendingStays, Sheltered
<1>5. Doomed' \subseteq Doomed
  BY <1>1, DoomedNext
<1> DEFINE gone == runs \cap (Doomed \cup Transients)
<1>6. runs \subseteq Doomed \cup Transients
  BY ShelfIs
<1>7. OnShelf' = [run \in DOMAIN OnShelf |->
                     IF run \in gone THEN [OnShelf[run] EXCEPT !.role = "gone"] ELSE OnShelf[run]]
  <2>1. OnShelf' = [run \in DOMAIN captured |-> [role |-> RoleOf(db', run), figures |-> captured[run]]]
    BY DEF OnShelf
  <2>2. ASSUME NEW run \in DOMAIN captured
        PROVE  [role |-> RoleOf(db', run), figures |-> captured[run]]
                   = IF run \in gone THEN [OnShelf[run] EXCEPT !.role = "gone"] ELSE OnShelf[run]
    BY <1>2, <1>6 DEF OnShelf
  <2>3. DOMAIN OnShelf = DOMAIN captured
    BY ShelfIs
  <2> HIDE DEF gone
  <2> QED BY <2>1, <2>2, <2>3
<1> HIDE DEF gone
<1>8. gone \in SUBSET (Doomed \cup Transients)
  BY DEF gone
<1> QED BY <1>4, <1>5, <1>7, <1>8, AsRemove

LEMMA Untouched ==
    ASSUME Shelved(db, captured), db'.results = db.results, db'.rows = db.rows, db'.runs = db.runs,
           db'.books = db.books
    PROVE  Removed(db, db', {})
BY DEF Removed, Shelved

\* Steps after which a request may need none of what it holds of runs.
Special == {"drop", "capture", "insert", "inputs", "lookup", "reload"}
Bringing == {"all", "beyond", "get", "strip", "relist", "inputs", "reload", "saveBooks"}

LEMMA NothingHeld == ASSUME NEW d, NEW c, NEW r, NEW step, step \notin Special PROVE Holds(d, c, r, step)
BY DEF Holds, Special

LEMMA NextPlain ==
    ASSUME Ordered, NEW q \in Requests, NEW step, At(q, step), step \notin Bringing
    PROVE  Tail(req[q].todo) = <<>> \/ Head(Tail(req[q].todo)) \notin Special
<1>1. Tail(req[q].todo) # <<>> => Follows(step, Head(Tail(req[q].todo)))
  BY Active, TailOrderly
<1> QED BY <1>1 DEF Follows, Special, Bringing

\* A step that takes rows away, or none, and moves on to a step that uses no run.
LEMMA Plainly ==
    ASSUME Shelving, Working', NEW q \in Requests, NEW r, NEW t, Proceed(q, r, t), IsRow(r, RequestFields),
           NEW runs, Removed(db, db', runs), runs \subseteq Doomed \cup RunsIn(Transient(db)),
           UNCHANGED <<captured, cache, screen>>,
           t = <<>> \/ Head(t) \notin Special
    PROVE  Shelving' /\ Shelf!Next
<1>1. t # <<>> => Head(t) # "drop" /\ Head(t) # "capture" /\ Holds(db', captured, r, Head(t))
  BY NothingHeld DEF Special
<1> QED BY <1>1, Removing

Quiet ==
    /\ db'.results = db.results /\ db'.rows = db.rows /\ db'.runs = db.runs /\ db'.books = db.books
    /\ UNCHANGED <<captured, cache, screen>>

LEMMA QuietlyOn ==
    ASSUME Shelving, Working', NEW q \in Requests, NEW step, At(q, step), step \notin Bringing, Quiet,
           NEW s, IsRow(s, RequestFields), Leave(q) \/ Fail(q) \/ Continue(q, s)
    PROVE  Shelving' /\ Shelf!Next
<1>1. Ordered /\ Shelved(db, captured)
  BY DEF Shelving, Working
<1>2. Removed(db, db', {}) /\ UNCHANGED <<captured, cache, screen>>
  BY <1>1, Untouched DEF Quiet
<1>3. IsRow(req[q], RequestFields)
  BY <1>1, Active
<1>4. Head(<<"respond">>) \notin Special
  BY DEF Special
<1>5. PICK r, t : Proceed(q, r, t) /\ IsRow(r, RequestFields) /\ (t = <<>> \/ Head(t) \notin Special)
  BY <1>1, <1>3, <1>4, NextPlain DEF Leave, Fail, Continue
<1>6. {} \subseteq Doomed \cup RunsIn(Transient(db))
  OBVIOUS
<1> QED BY <1>2, <1>5, <1>6, Plainly

LEMMA ReadsQuietly ==
    ASSUME Shelving, Working', NEW q \in Requests,
           \/ Find(q) \/ Again(q) \/ Choose(q) \/ LoadSource(q) \/ LoadWorking(q) \/ Diverge(q)
           \/ ResolveFrame(q) \/ Drift(q) \/ Count(q) \/ Respond(q)
    PROVE  Shelving' /\ Shelf!Next
<1>1. Quiet
  BY DEF Quiet, Reads, Find, Again, Choose, LoadSource, LoadWorking, Diverge, ResolveFrame, Drift, Count, Respond
<1>2. Ordered
  BY DEF Shelving, Working
<1>3. CASE Find(q)
  <2> DEFINE r == [req[q] EXCEPT !.seen = db.exploration, !.source = db.exploration.source,
                                   !.working = db.exploration.working]
  <2>1. At(q, "find") /\ "find" \notin Bringing
    BY <1>3 DEF Find, Bringing
  <2>2. Leave(q) \/ Fail(q) \/ Continue(q, r)
    BY <1>3 DEF Find
  <2>3. IsRow(r, RequestFields)
    BY <1>2, <2>1, Active DEF IsRow, RequestFields
  <2> HIDE DEF r
  <2> QED BY <1>1, <2>1, <2>2, <2>3, QuietlyOn
<1>4. CASE Again(q)
  <2> DEFINE r == [req[q] EXCEPT !.seen = db.exploration]
  <2>1. At(q, "again") /\ "again" \notin Bringing
    BY <1>4 DEF Again, Bringing
  <2>2. Leave(q) \/ Fail(q) \/ Continue(q, r)
    BY <1>4 DEF Again
  <2>3. IsRow(r, RequestFields)
    BY <1>2, <2>1, Active DEF IsRow, RequestFields
  <2> HIDE DEF r
  <2> QED BY <1>1, <2>1, <2>2, <2>3, QuietlyOn
<1>5. CASE Choose(q)
  <2> DEFINE r == [req[q] EXCEPT !.source = req[q].job.scenario, !.dirty = TRUE,
                                 !.seen = db.scenarios[req[q].job.scenario],
                                 !.profile = db.profile, !.session = Remembered(req[q])]
  <2>1. At(q, "choose") /\ "choose" \notin Bringing
    BY <1>5 DEF Choose, Bringing
  <2>2. Leave(q) \/ Fail(q) \/ Continue(q, r)
    BY <1>5 DEF Choose
  <2>3. IsRow(r, RequestFields)
    BY <1>2, <2>1, Active DEF IsRow, RequestFields
  <2> HIDE DEF r
  <2> QED BY <1>1, <2>1, <2>2, <2>3, QuietlyOn
<1>6. CASE LoadSource(q)
  <2> DEFINE r == [req[q] EXCEPT !.inputs = Resolve(db, req[q].source)]
  <2>1. At(q, "loadSource") /\ "loadSource" \notin Bringing
    BY <1>6 DEF LoadSource, Bringing
  <2>2. Leave(q) \/ Fail(q) \/ Continue(q, r)
    BY <1>6 DEF LoadSource
  <2>3. IsRow(r, RequestFields)
    BY <1>2, <2>1, Active DEF IsRow, RequestFields
  <2> HIDE DEF r
  <2> QED BY <1>1, <2>1, <2>2, <2>3, QuietlyOn
<1>7. CASE LoadWorking(q)
  <2> DEFINE r == [req[q] EXCEPT !.inputs = Resolve(db, req[q].seen.working)]
  <2>1. At(q, "loadWorking") /\ "loadWorking" \notin Bringing
    BY <1>7 DEF LoadWorking, Bringing
  <2>2. Leave(q) \/ Fail(q) \/ Continue(q, r)
    BY <1>7 DEF LoadWorking
  <2>3. IsRow(r, RequestFields)
    BY <1>2, <2>1, Active DEF IsRow, RequestFields
  <2> HIDE DEF r
  <2> QED BY <1>1, <2>1, <2>2, <2>3, QuietlyOn
<1>8. CASE Diverge(q)
  <2> DEFINE r == [req[q] EXCEPT
                       !.copies = Diverged(Resolve(db, req[q].source), Resolve(db, req[q].seen.working))]
  <2>1. At(q, "diverge") /\ "diverge" \notin Bringing
    BY <1>8 DEF Diverge, Bringing
  <2>2. Leave(q) \/ Fail(q) \/ Continue(q, r)
    BY <1>8 DEF Diverge
  <2>3. IsRow(r, RequestFields)
    BY <1>2, <2>1, Active DEF IsRow, RequestFields
  <2> HIDE DEF r
  <2> QED BY <1>1, <2>1, <2>2, <2>3, QuietlyOn
<1>9. CASE ResolveFrame(q)
  <2> DEFINE r == [req[q] EXCEPT !.frame = Framed(q, db.exploration)]
  <2>1. At(q, "resolve") /\ "resolve" \notin Bringing
    BY <1>9 DEF ResolveFrame, Bringing
  <2>2. Leave(q) \/ Fail(q) \/ Continue(q, r)
    BY <1>9 DEF ResolveFrame
  <2>3. IsRow(r, RequestFields)
    BY <1>2, <2>1, Active DEF IsRow, RequestFields
  <2> HIDE DEF r
  <2> QED BY <1>1, <2>1, <2>2, <2>3, QuietlyOn
<1>10. CASE Drift(q)
  <2>1. At(q, "drift") /\ "drift" \notin Bringing
    BY <1>10 DEF Drift, Bringing
  <2>2. Leave(q) \/ Fail(q) \/ Continue(q, req[q])
    BY <1>10 DEF Drift
  <2>3. IsRow(req[q], RequestFields)
    BY <1>2, <2>1, Active
  <2> QED BY <1>1, <2>1, <2>2, <2>3, QuietlyOn
<1>11. CASE Count(q)
  <2>1. At(q, "count") /\ "count" \notin Bringing
    BY <1>11 DEF Count, Bringing
  <2>2. Leave(q) \/ Fail(q) \/ Continue(q, req[q])
    BY <1>11 DEF Count
  <2>3. IsRow(req[q], RequestFields)
    BY <1>2, <2>1, Active
  <2> QED BY <1>1, <2>1, <2>2, <2>3, QuietlyOn
<1>12. CASE Respond(q)
  <2>1. At(q, "respond") /\ "respond" \notin Bringing
    BY <1>12 DEF Respond, Bringing
  <2>2. Leave(q) \/ Fail(q) \/ Continue(q, req[q])
    BY <1>12 DEF Respond
  <2>3. IsRow(req[q], RequestFields)
    BY <1>2, <2>1, Active
  <2> QED BY <1>1, <2>1, <2>2, <2>3, QuietlyOn
<1> QED BY <1>3, <1>4, <1>5, <1>6, <1>7, <1>8, <1>9, <1>10, <1>11, <1>12

SameRuns(d, e) == e.results = d.results /\ e.rows = d.rows /\ e.runs = d.runs /\ e.books = d.books

LEMMA RowsOnly ==
    ASSUME NEW d, IsRow(d, DbFields)
    PROVE  /\ \A s, components, values : /\ IsRow(Written(d, s, components, values), DbFields)
                                         /\ SameRuns(d, Written(d, s, components, values))
           /\ \A role, components, given, values :
                 /\ IsRow(Minted(d, role, components, given, values), DbFields)
                 /\ SameRuns(d, Minted(d, role, components, given, values))
           /\ \A row : /\ IsRow([d EXCEPT !.exploration = row], DbFields)
                       /\ SameRuns(d, [d EXCEPT !.exploration = row])
           /\ \A source, values : SameRuns(d, Seeded(d, source, values))
<1>1. ASSUME NEW s, NEW components, NEW values
      PROVE  IsRow(Written(d, s, components, values), DbFields) /\ SameRuns(d, Written(d, s, components, values))
  BY DEF Written, SameRuns, IsRow, DbFields
<1>2. ASSUME NEW role, NEW components, NEW given, NEW values
      PROVE  /\ IsRow(Minted(d, role, components, given, values), DbFields)
             /\ SameRuns(d, Minted(d, role, components, given, values))
  BY DEF Minted, SameRuns, IsRow, DbFields
<1>3. ASSUME NEW row
      PROVE  IsRow([d EXCEPT !.exploration = row], DbFields) /\ SameRuns(d, [d EXCEPT !.exploration = row])
  BY DEF SameRuns, IsRow, DbFields
<1>4. ASSUME NEW source, NEW values PROVE SameRuns(d, Seeded(d, source, values))
  <2>1. CASE d.exploration # NoRow
    <3> DEFINE w == Written(d, d.exploration.working, Pairs, values)
    <3>1. IsRow(w, DbFields) /\ SameRuns(d, w)
      BY <1>1
    <3>2. Seeded(d, source, values) = [w EXCEPT !.exploration.source = source, !.seedings = @ + 1]
      BY <2>1 DEF Seeded
    <3> HIDE DEF w
    <3> QED BY <3>1, <3>2 DEF SameRuns, IsRow, DbFields
  <2>2. CASE d.exploration = NoRow
    <3> DEFINE w == Minted(d, "WORKING", Pairs, <<>>, values)
               row == [id |-> d.next + 2, working |-> d.next + 2, source |-> source, frame |-> None]
    <3>1. IsRow(w, DbFields) /\ SameRuns(d, w)
      BY <1>2
    <3>2. Seeded(d, source, values) = [w EXCEPT !.exploration = row, !.seedings = @ + 1]
      BY <2>2 DEF Seeded
    <3> HIDE DEF w, row
    <3> QED BY <3>1, <3>2 DEF SameRuns, IsRow, DbFields
  <2> QED BY <2>1, <2>2
<1> QED BY <1>1, <1>2, <1>3, <1>4

LEMMA EditsQuietly ==
    ASSUME Shelving, Working', NEW q \in Requests,
           Seed(q) \/ RecordFrame(q) \/ Overwrite(q) \/ Save(q) \/ EditProfile(q)
    PROVE  Shelving' /\ Shelf!Next
<1>1. IsRow(db, DbFields) /\ Ordered
  BY DEF Shelving, Working, Whole, Halved
<1>2. ASSUME SameRuns(db, db'), Writes(q) PROVE Quiet
  BY <1>2 DEF SameRuns, Writes, Quiet
<1>3. SameRuns(db, db)
  BY DEF SameRuns
<1>4. CASE Seed(q)
  <2>1. At(q, "seed") /\ "seed" \notin Bringing /\ Writes(q)
    BY <1>4 DEF Seed, Bringing
  <2>2. (Leave(q) \/ Fail(q) \/ Continue(q, req[q])) /\ SameRuns(db, db')
    BY <1>1, <1>3, <1>4, RowsOnly DEF Seed
  <2> QED BY <1>1, <1>2, <2>1, <2>2, Active, QuietlyOn
<1>5. CASE RecordFrame(q)
  <2>1. At(q, "frame") /\ "frame" \notin Bringing /\ Writes(q)
    BY <1>5 DEF RecordFrame, Bringing
  <2>2. PICK row : UNCHANGED db \/ db' = [db EXCEPT !.exploration = row]
    BY <1>5 DEF RecordFrame, ExplorationSaved
  <2>3. SameRuns(db, db')
    BY <1>1, <1>3, <2>2, RowsOnly
  <2>4. Leave(q) \/ Fail(q) \/ Continue(q, req[q])
    BY <1>5 DEF RecordFrame
  <2> QED BY <1>1, <1>2, <2>1, <2>3, <2>4, Active, QuietlyOn
<1>6. CASE Overwrite(q)
  <2>1. At(q, "overwrite") /\ "overwrite" \notin Bringing /\ Writes(q)
    BY <1>6 DEF Overwrite, Bringing
  <2>2. PICK s, v : UNCHANGED db \/ db' = Written(db, s, Pairs, v)
    BY <1>6 DEF Overwrite
  <2>3. SameRuns(db, db')
    BY <1>1, <1>3, <2>2, RowsOnly
  <2>4. Leave(q) \/ Fail(q) \/ Continue(q, req[q])
    BY <1>6 DEF Overwrite
  <2> QED BY <1>1, <1>2, <2>1, <2>3, <2>4, Active, QuietlyOn
<1>7. CASE Save(q)
  <2> DEFINE r == req[q]
             kept == Written(db, r.source, Pairs \ r.copies, r.inputs)
             minted == Minted(kept, "SAVED", r.copies, db.scenarios[r.source], r.inputs)
             d == IF r.copies # {} THEN minted ELSE kept
             row == [r.seen EXCEPT !.source = IF r.copies # {} THEN db.next + 2 ELSE r.source]
  <2>1. At(q, "save") /\ "save" \notin Bringing /\ Writes(q)
    BY <1>7 DEF Save, Bringing
  <2>2. UNCHANGED db \/ db' = ExplorationSaved(d, row)
    BY <1>7 DEF Save
  <2>3. Leave(q) \/ Fail(q) \/ Continue(q, req[q])
    BY <1>7 DEF Save
  <2>4. IsRow(kept, DbFields) /\ SameRuns(db, kept)
    BY <1>1, RowsOnly
  <2> HIDE DEF kept
  <2>5. IsRow(minted, DbFields) /\ SameRuns(kept, minted)
    BY <2>4, RowsOnly
  <2> HIDE DEF minted, row
  <2>6. IsRow(d, DbFields) /\ SameRuns(db, d)
    BY <2>4, <2>5 DEF SameRuns
  <2> HIDE DEF d
  <2>7. SameRuns(d, [d EXCEPT !.exploration = row])
    BY <2>6, RowsOnly
  <2>8. SameRuns(db, db')
    BY <1>3, <2>2, <2>6, <2>7 DEF SameRuns, ExplorationSaved
  <2> QED BY <1>1, <1>2, <2>1, <2>3, <2>8, Active, QuietlyOn
<1>8. CASE EditProfile(q)
  <2>1. At(q, "edit") /\ "edit" \notin Bringing /\ Writes(q) /\ Continue(q, req[q])
    BY <1>8 DEF EditProfile, Bringing
  <2>2. PICK x : db' = [db EXCEPT !.profile = x]
    BY <1>8 DEF EditProfile
  <2>3. SameRuns(db, db')
    BY <1>1, <2>2 DEF SameRuns, IsRow, DbFields
  <2> QED BY <1>1, <1>2, <2>1, <2>3, Active, QuietlyOn
<1> QED BY <1>4, <1>5, <1>6, <1>7, <1>8

LEMMA TurnsQuietly ==
    ASSUME Shelving, Working', NEW q \in Requests,
           Sandbox(q) \/ Users(q, "planUsers", "plans") \/ Users(q, "assumptionUsers", "assumptions")
    PROVE  Shelving' /\ Shelf!Next
<1>1. Ordered /\ Shelved(db, captured)
  BY DEF Shelving, Working
<1>2. /\ UNCHANGED <<db, captured, cache, screen>> /\ Quiet
  BY DEF Sandbox, Users, Reads, Quiet
<1>3. Removed(db, db', {}) /\ {} \subseteq Doomed \cup RunsIn(Transient(db))
  BY <1>1, <1>2, Untouched
<1>4. CASE Sandbox(q)
  <2> DEFINE r == [req[q] EXCEPT !.seen = db.exploration, !.profile = db.profile]
             u == SubSeq(req[q].todo, Len(RunSteps) + 1, Len(req[q].todo))
  <2>1. At(q, "sandbox") /\ "sandbox" \notin Bringing
    BY <1>4 DEF Sandbox, Bringing
  <2>2. Proceed(q, req[q], u) \/ Continue(q, r)
    BY <1>4 DEF Sandbox
  <2>3. IsRow(req[q], RequestFields) /\ IsRow(r, RequestFields)
    BY <1>1, <2>1, Active DEF IsRow, RequestFields
  <2>4. u = <<>> \/ Head(u) \notin Special
    BY <1>1, <2>1, Active, Reordered DEF Special
  <2> HIDE DEF r, u
  <2> QED BY <1>2, <1>3, <2>1, <2>2, <2>3, <2>4, QuietlyOn, Plainly
<1>5. ASSUME NEW step \in {"planUsers", "assumptionUsers"}, NEW c, Users(q, step, c)
      PROVE  Shelving' /\ Shelf!Next
  <2> DEFINE u == Tail(Tail(req[q].todo))
  <2>1. At(q, step) /\ step \notin Bringing
    BY <1>5 DEF Users, Bringing
  <2>2. Proceed(q, req[q], u) \/ Continue(q, req[q])
    BY <1>5 DEF Users
  <2>3. IsRow(req[q], RequestFields)
    BY <1>1, <2>1, Active
  <2>4. u = <<>> \/ Head(u) \notin Special
    BY <1>1, <2>1, Active, Reordered DEF Special
  <2> HIDE DEF u
  <2> QED BY <1>2, <1>3, <2>1, <2>2, <2>3, <2>4, QuietlyOn, Plainly
<1> QED BY <1>4, <1>5

\* Deleting a scenario or a set takes the transient runs of the exploration along, or none.
LEMMA CascadeRemoves ==
    ASSUME NEW d, NEW c, IsRow(d, DbFields), Shelved(d, c)
    PROVE  /\ \A gone : \E runs \in {{}, RunsIn(Transient(d))} : Removed(d, WithoutScenarios(d, gone), runs)
           /\ \A id : \E runs \in {{}, RunsIn(Transient(d))} : Removed(d, WithoutSet(d, id), runs)
<1>1. ASSUME NEW b, IsRow(b, DbFields), SameRuns(d, b)
      PROVE  Removed(d, Teardown(b), RunsIn(Transient(d)))
  <2> DEFINE runs == RunsIn(Transient(b))
             e == WithoutRuns(b, runs)
  <2>1. /\ IsRow(e, DbFields) /\ e.rows = b.rows /\ e.runs = b.runs /\ e.books = b.books \ runs
        /\ DOMAIN e.results = {n \in DOMAIN b.results : b.results[n].run \notin runs}
        /\ \A n \in DOMAIN e.results : e.results[n] = b.results[n]
    BY <1>1 DEF WithoutRuns, Restrict, IsRow, DbFields
  <2> HIDE DEF e
  <2>2. SameRuns(e, Teardown(b))
    BY <2>1 DEF Teardown, SameRuns, IsRow, DbFields, e
  <2>3. Transient(b) = Transient(d)
    BY <1>1 DEF SameRuns, Transient
  <2>4. d.runs \in Nat
    BY DEF Shelved
  <2> QED BY <1>1, <2>1, <2>2, <2>3, <2>4 DEF SameRuns, Removed
<1>2. ASSUME NEW b, IsRow(b, DbFields), SameRuns(d, b), NEW gone
      PROVE  \E runs \in {{}, RunsIn(Transient(d))} : Removed(d, WithoutScenarios(b, gone), runs)
  <2> DEFINE e == [b EXCEPT !.scenarios = Restrict(@, DOMAIN @ \ gone)]
  <2>1. IsRow(e, DbFields) /\ SameRuns(d, e)
    BY <1>2 DEF IsRow, DbFields, SameRuns
  <2>2. WithoutScenarios(b, gone) \in {e, Teardown(e)}
    BY DEF WithoutScenarios
  <2> HIDE DEF e
  <2>3. Removed(d, e, {})
    BY <2>1 DEF Removed, SameRuns, Shelved
  <2> QED BY <1>1, <2>1, <2>2, <2>3
<1>3. SameRuns(d, d)
  BY DEF SameRuns
<1>4. ASSUME NEW id PROVE \E runs \in {{}, RunsIn(Transient(d))} : Removed(d, WithoutSet(d, id), runs)
  <2> DEFINE b == [d EXCEPT !.sets = Restrict(@, DOMAIN @ \ {id})]
             gone == {s \in Saved(d) : id \in SetsOf(d, s)}
  <2>1. IsRow(b, DbFields) /\ SameRuns(d, b) /\ WithoutSet(d, id) = WithoutScenarios(b, gone)
    BY DEF IsRow, DbFields, SameRuns, WithoutSet
  <2> HIDE DEF b, gone
  <2> QED BY <1>2, <2>1
<1> QED BY <1>2, <1>3, <1>4

LEMMA CascadesQuietly ==
    ASSUME Shelving, Working', NEW q \in Requests, Delete(q) \/ \E c \in Pairs : Orphan(q, c)
    PROVE  Shelving' /\ Shelf!Next
<1>1. Ordered /\ Shelved(db, captured) /\ IsRow(db, DbFields)
  BY DEF Shelving, Working, Whole, Halved
<1>2. PICK step : At(q, step) /\ step \notin Bringing
  BY DEF Delete, Orphan, Pairs, Bringing
<1>3. UNCHANGED <<captured, cache, screen>>
  BY DEF Delete, Orphan, Writes
<1>4. (Fail(q) /\ UNCHANGED db) \/ (Continue(q, req[q]) /\ \E gone, id : db' \in {WithoutScenarios(db, gone), WithoutSet(db, id)})
  BY DEF Delete, Orphan
<1>5. CASE Fail(q) /\ UNCHANGED db
  <2>1. Quiet
    BY <1>3, <1>5 DEF Quiet
  <2> QED BY <1>1, <1>2, <1>5, <2>1, Active, QuietlyOn
<1>6. CASE Continue(q, req[q]) /\ \E gone, id : db' \in {WithoutScenarios(db, gone), WithoutSet(db, id)}
  <2>1. PICK runs \in {{}, RunsIn(Transient(db))} : Removed(db, db', runs)
    BY <1>1, <1>6, CascadeRemoves
  <2>2. runs \subseteq Doomed \cup RunsIn(Transient(db))
    OBVIOUS
  <2> QED BY <1>1, <1>2, <1>3, <1>6, <2>1, <2>2, Active, NextPlain, Plainly DEF Continue
<1> QED BY <1>4, <1>5, <1>6
-----------------------------------------------------------------------------
(* The steps that bring a request to a run. *)

LEMMA Greatest == ASSUME NEW n \in Nat, NEW S \in SUBSET (1 .. n), S # {} PROVE Max(S) \in S
<1> DEFINE R == OpToRel(<, Nat)
           T == {n - x : x \in S}
<1>1. IsWellFoundedOn(R, Nat)
  BY NatLessThanWellFounded
<1>2. \A x, y \in Nat : x < y => <<x, y>> \in R
  BY DEF OpToRel
<1> HIDE DEF R
<1>3. T \in SUBSET Nat /\ T # {}
  <2>1. \A x \in S : n - x \in Nat
    OBVIOUS
  <2>2. PICK x \in S : TRUE
    OBVIOUS
  <2> QED BY <2>1, <2>2
<1>4. PICK z \in T : \A y \in T : ~(<<y, z>> \in R)
  BY <1>1, <1>3, WFMin
<1>5. PICK x \in S : z = n - x
  BY <1>4
<1>6. \A y \in S : x >= y
  <2> SUFFICES ASSUME NEW y \in S, ~(x >= y) PROVE FALSE
    OBVIOUS
  <2>1. x \in Nat /\ y \in Nat /\ n - y \in Nat /\ n - x \in Nat /\ n - y < n - x /\ n - y \in T
    OBVIOUS
  <2> QED BY <1>2, <1>4, <1>5, <2>1
<1> QED BY <1>6 DEF Max

LEMMA NewestIn ==
    ASSUME NEW rows, NEW n \in Nat, DOMAIN rows \subseteq 1 .. n, DOMAIN rows # {}
    PROVE  Newest(rows).run \in RunsIn(rows)
BY Greatest DEF Newest, RunsIn

\* The rows that are listed, all transient ones or the older of these.
LEMMA Listings ==
    ASSUME NEW d, NEW c, Shelved(d, c)
    PROVE  /\ DOMAIN Transient(d) \subseteq 1 .. d.rows /\ RunsIn(Transient(d)) \subseteq DOMAIN c
           /\ RunsIn(Listed(d)) \subseteq RunsIn(Transient(d))
           /\ RunsIn(AllBut(Listed(d), Retained)) \subseteq RunsIn(Transient(d))
           /\ RunsIn(d.results) \subseteq DOMAIN c /\ RunsIn(d.results) \subseteq d.books
<1>1. /\ DOMAIN Transient(d) \subseteq DOMAIN d.results
      /\ \A n \in DOMAIN Transient(d) : Transient(d)[n] = d.results[n]
  BY DEF Transient, Restrict
<1>2. /\ DOMAIN AllBut(Transient(d), Retained) \subseteq DOMAIN Transient(d)
      /\ \A n \in DOMAIN AllBut(Transient(d), Retained) : AllBut(Transient(d), Retained)[n] = Transient(d)[n]
  BY DEF AllBut, Restrict
<1>3. RunsIn(AllBut(Transient(d), Retained)) \subseteq RunsIn(Transient(d))
  BY <1>2 DEF RunsIn
<1>4. /\ RunsIn(d.results) \subseteq DOMAIN c /\ RunsIn(d.results) \subseteq d.books
      /\ DOMAIN d.results \subseteq 1 .. d.rows
  BY DEF Shelved, RunsIn
<1>5. RunsIn(Transient(d)) \subseteq RunsIn(d.results)
  BY <1>1 DEF RunsIn
<1>6. Listed(d) = Transient(d)
  BY DEF Listed
<1> QED BY <1>1, <1>3, <1>4, <1>5, <1>6

\* A step that changes no row, and moves on to what it then holds.
LEMMA Brought ==
    ASSUME Shelving, Working', NEW q \in Requests, NEW r, NEW t, Proceed(q, r, t), IsRow(r, RequestFields),
           UNCHANGED <<db, captured, cache, screen>>,
           t = <<>> \/ (Head(t) \notin {"drop", "capture"} /\ Holds(db, captured, r, Head(t)))
    PROVE  Shelving' /\ Shelf!Next
<1>1. Shelved(db, captured)
  BY DEF Shelving
<1>2. Removed(db, db', {})
  BY <1>1, Untouched
<1>3. {} \subseteq Doomed \cup RunsIn(Transient(db))
  OBVIOUS
<1>4. Holds(db, captured, r, Head(t)) => Holds(db', captured, r, Head(t))
  OBVIOUS
<1> QED BY <1>2, <1>3, <1>4, Removing

\* What follows the steps that bring a request to a run.
LEMMA NextBrought ==
    ASSUME Ordered, NEW q \in Requests, NEW step, At(q, step), Tail(req[q].todo) # <<>>
    PROVE  LET next == Head(Tail(req[q].todo))
           IN  /\ step \in {"strip", "relist"} => next \notin Special \ {"inputs"}
               /\ step \in {"inputs", "get"} => next \notin Special \ {"lookup", "drop"}
               /\ step = "inputs" => next # "drop"
               /\ step = "reload" => next \notin Special \ {"insert"}
               /\ step = "saveBooks" => next \notin Special \ {"capture"}
               /\ step \in {"all", "beyond"} => next \notin Special \ {"drop"}
<1>1. Follows(step, Head(Tail(req[q].todo)))
  BY Active, TailOrderly
<1> QED BY <1>1 DEF Follows, Special

LEMMA ListsQuietly ==
    ASSUME Shelving, Working', NEW q \in Requests, Strip(q) \/ Relist(q) \/ Inputs(q)
    PROVE  Shelving' /\ Shelf!Next
<1>1. Ordered /\ Shelved(db, captured) /\ UNCHANGED <<db, captured, cache, screen>>
  BY DEF Shelving, Working, Strip, Relist, Inputs, Reads
<1> DEFINE listing == [req[q] EXCEPT !.listed = Transient(db)]
           t == Tail(req[q].todo)
<1>2. ASSUME NEW step \in {"strip", "relist"}, At(q, step), DOMAIN Transient(db) # {}, Proceed(q, listing, t)
      PROVE  Shelving' /\ Shelf!Next
  <2>1. IsRow(listing, RequestFields) /\ listing.listed = Transient(db)
    BY <1>1, <1>2, Active DEF IsRow, RequestFields
  <2>2. t # <<>> => Head(t) \notin Special \ {"inputs"}
    BY <1>1, <1>2, NextBrought
  <2> HIDE DEF listing, t
  <2>3. Holds(db, captured, listing, "inputs")
    BY <1>1, <1>2, <2>1, Listings DEF Holds
  <2>4. t = <<>> \/ (Head(t) \notin {"drop", "capture"} /\ Holds(db, captured, listing, Head(t)))
    BY <2>2, <2>3, NothingHeld DEF Special
  <2> QED BY <1>1, <1>2, <2>1, <2>4, Brought
<1>3. CASE Strip(q)
  <2> DEFINE u == RunSteps \o <<"relist">>
  <2>1. At(q, "strip")
    BY <1>3 DEF Strip
  <2>2. (DOMAIN Transient(db) # {} /\ Proceed(q, listing, <<>> \o t)) \/ Proceed(q, listing, u \o t)
    BY <1>3 DEF Strip
  <2>3. t \in Seq(Steps) /\ IsRow(listing, RequestFields)
    <3>1. IsRow(listing, RequestFields)
      BY <1>1, <2>1, Active DEF IsRow, RequestFields
    <3>2. Orderly(req[q].todo) /\ req[q].todo # <<>>
      BY <1>1, <2>1, Active
    <3> QED BY <3>1, <3>2 DEF Orderly
  <2>4. <<>> \o t = t
    BY <2>3
  <2>5. CASE DOMAIN Transient(db) # {} /\ Proceed(q, listing, <<>> \o t)
    BY <1>2, <2>1, <2>4, <2>5
  <2>6. CASE Proceed(q, listing, u \o t)
    <3>1. RunSteps \in Seq(Steps) /\ <<"relist">> \in Seq(Steps)
      BY Runs DEF Orderly, Steps
    <3>2. u \in Seq(Steps) /\ u # <<>> /\ Head(u) = "sandbox"
      <4>1. Head(u) = Head(RunSteps) /\ u \in Seq(Steps)
        BY <3>1, Runs, HeadJoined
      <4>2. Len(u) = Len(RunSteps) + 1
        BY <3>1
      <4>3. Head(RunSteps) = "sandbox"
        BY DEF RunSteps
      <4> QED BY <4>1, <4>2, <4>3, Runs
    <3> HIDE DEF u
    <3>3. Head(u \o t) = "sandbox"
      BY <2>3, <3>2, HeadJoined
    <3> HIDE DEF listing, t
    <3>4. Head(u \o t) \notin {"drop", "capture"} /\ Holds(db, captured, listing, Head(u \o t))
      BY <3>3, NothingHeld DEF Special
    <3> QED BY <1>1, <2>3, <2>6, <3>4, Brought
  <2> QED BY <2>2, <2>5, <2>6
<1>4. CASE Relist(q)
  <2>1. At(q, "relist")
    BY <1>4 DEF Relist
  <2>2. Fail(q) \/ (DOMAIN Transient(db) # {} /\ Proceed(q, listing, t))
    BY <1>4 DEF Relist, Continue
  <2>3. CASE Fail(q)
    BY <1>1, <2>1, <2>3, Active, Brought DEF Fail
  <2> QED BY <1>2, <2>1, <2>2, <2>3
<1>5. CASE Inputs(q)
  <2> DEFINE r == [req[q] EXCEPT !.run = Newest(req[q].listed).run]
  <2>1. At(q, "inputs")
    BY <1>5 DEF Inputs
  <2>2. Fail(q) \/ Proceed(q, r, t)
    BY <1>5 DEF Inputs, Continue
  <2>3. CASE Fail(q)
    BY <1>1, <2>1, <2>3, Active, Brought DEF Fail
  <2>4. CASE Proceed(q, r, t)
    <3>1. IsRow(r, RequestFields) /\ r.run = Newest(req[q].listed).run
      BY <1>1, <2>1, Active DEF IsRow, RequestFields
    <3>2. t # <<>> => Head(t) \notin Special \ {"lookup"}
      BY <1>1, <2>1, NextBrought DEF Special
    <3>3. /\ DOMAIN req[q].listed # {} /\ DOMAIN req[q].listed \subseteq 1 .. db.rows
          /\ RunsIn(req[q].listed) \subseteq DOMAIN captured
      BY <2>1 DEF Shelving, Holding, Holds, At
    <3>4. r.run \in DOMAIN captured
      BY <1>1, <3>1, <3>3, NewestIn DEF Shelved
    <3> HIDE DEF r, t
    <3>5. Holds(db, captured, r, "lookup")
      BY <3>4 DEF Holds
    <3>6. t = <<>> \/ (Head(t) \notin {"drop", "capture"} /\ Holds(db, captured, r, Head(t)))
      BY <3>2, <3>5, NothingHeld DEF Special
    <3> QED BY <1>1, <2>4, <3>1, <3>6, Brought
  <2> QED BY <2>2, <2>3, <2>4
<1> QED BY <1>3, <1>4, <1>5

LEMMA BooksQuietly ==
    ASSUME Shelving, Working', NEW q \in Requests,
           Reload(q) \/ SaveBooks(q) \/ (Lookup(q) /\ Cached(req[q].run) = {})
    PROVE  Shelving' /\ Shelf!Next
<1>1. Ordered /\ Shelved(db, captured) /\ IsRow(db, DbFields)
  BY DEF Shelving, Working, Whole, Halved
<1> DEFINE t == Tail(req[q].todo)
<1>2. CASE Reload(q)
  <2> DEFINE books == IF req[q].run \in db.books THEN captured[req[q].run] ELSE None
             r == [req[q] EXCEPT !.books = books]
  <2>1. At(q, "reload") /\ Proceed(q, r, t) /\ UNCHANGED <<db, captured, cache, screen>>
    BY <1>2 DEF Reload, Continue, Reads
  <2>2. req[q].run \in DOMAIN captured
    BY <2>1 DEF Shelving, Holding, Holds, At
  <2>3. IsRow(r, RequestFields) /\ r.run = req[q].run /\ r.books = books
    BY <1>1, <2>1, Active DEF IsRow, RequestFields
  <2>4. t # <<>> => Head(t) \notin Special \ {"insert"}
    BY <1>1, <2>1, NextBrought
  <2>5. Faithful(db, captured, req[q].run, books)
    BY <1>1, Listings DEF Faithful
  <2> HIDE DEF r, t, books
  <2>6. Holds(db, captured, r, "insert")
    BY <2>2, <2>3, <2>5 DEF Holds
  <2>7. t = <<>> \/ (Head(t) \notin {"drop", "capture"} /\ Holds(db, captured, r, Head(t)))
    BY <2>4, <2>6, NothingHeld DEF Special
  <2> QED BY <2>1, <2>3, <2>7, Brought
<1>3. CASE SaveBooks(q)
  <2> DEFINE r == [req[q] EXCEPT !.run = db.runs + 1]
  <2>1. At(q, "saveBooks") /\ Proceed(q, r, t) /\ UNCHANGED <<captured, cache, screen>>
    BY <1>3 DEF SaveBooks, Continue, Writes
  <2>2. /\ db'.runs = db.runs + 1 /\ db'.books = db.books \cup {db.runs + 1}
        /\ db'.results = db.results /\ db'.rows = db.rows
    BY <1>1, <1>3 DEF SaveBooks, IsRow, DbFields
  <2>3. IsRow(r, RequestFields) /\ r.run = db.runs + 1
    BY <1>1, <2>1, Active DEF IsRow, RequestFields
  <2>4. t # <<>> => Head(t) \notin Special \ {"capture"}
    BY <1>1, <2>1, NextBrought
  <2>5. db.runs \in Nat /\ DOMAIN captured \subseteq 1 .. db.runs
    BY <1>1 DEF Shelved
  <2>6. Removed(db, db', {})
    BY <2>2, <2>5 DEF Removed
  <2> HIDE DEF r, t
  <2>7. r.run \in ((1 .. db'.runs) \cap db'.books) \ DOMAIN captured /\ r.run \notin 1 .. db.runs
    BY <2>2, <2>3, <2>5
  <2>8. Holds(db', captured, r, "capture")
    BY <2>7 DEF Holds
  <2>9. t = <<>> \/ (Head(t) # "drop" /\ Holds(db', captured, r, Head(t)))
    BY <2>4, <2>8, NothingHeld DEF Special
  <2>10. {} \subseteq Doomed \cup RunsIn(Transient(db))
    OBVIOUS
  <2> QED BY <2>1, <2>3, <2>6, <2>7, <2>9, <2>10, Removing
<1>4. CASE Lookup(q) /\ Cached(req[q].run) = {}
  <2> DEFINE u == <<"reload", "insert">>
  <2>1. At(q, "lookup") /\ Proceed(q, req[q], u) /\ UNCHANGED <<db, captured, cache, screen>>
    BY <1>4 DEF Lookup
  <2>2. req[q].run \in DOMAIN captured
    BY <2>1 DEF Shelving, Holding, Holds, At
  <2>3. Head(u) = "reload"
    OBVIOUS
  <2>4. Holds(db, captured, req[q], "reload")
    BY <2>2 DEF Holds
  <2> HIDE DEF u
  <2> QED BY <1>1, <2>1, <2>3, <2>4, Active, Brought
<1> QED BY <1>2, <1>3, <1>4

LEMMA DropsQuietly ==
    ASSUME Shelving, Working', NEW q \in Requests, Drop(q) \/ Die(q)
    PROVE  Shelving' /\ Shelf!Next
<1>1. Ordered /\ Shelved(db, captured) /\ IsRow(db, DbFields)
  BY DEF Shelving, Working, Whole, Halved
<1>2. CASE Drop(q)
  <2> DEFINE runs == RunsIn(req[q].listed)
  <2>1. At(q, "drop") /\ Continue(q, req[q]) /\ UNCHANGED <<captured, cache, screen>> /\ db' = WithoutRuns(db, runs)
    BY <1>2 DEF Drop, Writes
  <2>2. runs \subseteq Doomed
    BY <2>1 DEF Doomed
  <2> HIDE DEF runs
  <2>3. /\ db'.rows = db.rows /\ db'.runs = db.runs /\ db'.books = db.books \ runs
        /\ DOMAIN db'.results = {n \in DOMAIN db.results : db.results[n].run \notin runs}
        /\ \A n \in DOMAIN db'.results : db'.results[n] = db.results[n]
    BY <1>1, <2>1 DEF WithoutRuns, Restrict, IsRow, DbFields
  <2>4. Removed(db, db', runs)
    BY <1>1, <2>3 DEF Removed, Shelved
  <2>5. "drop" \notin Bringing
    BY DEF Bringing
  <2> QED BY <1>1, <2>1, <2>2, <2>4, <2>5, Active, NextPlain, Plainly DEF Continue
<1>3. CASE Die(q)
  <2>1. req[q].todo # <<>> /\ Proceed(q, req[q], <<>>) /\ UNCHANGED <<db, captured, cache, screen>>
    BY <1>3 DEF Die, Fail
  <2>2. IsRow(req[q], RequestFields)
    BY <1>1, <2>1 DEF Ordered, Tidy
  <2> QED BY <2>1, <2>2, Brought
<1> QED BY <1>2, <1>3

\* A step that lists runs to delete.
LEMMA Picking ==
    ASSUME Shelving, Working', NEW q \in Requests, NEW r, NEW t, Proceed(q, r, t), IsRow(r, RequestFields),
           UNCHANGED <<db, captured, cache, screen>>, ~At(q, "drop"), t # <<>>, Head(t) = "drop",
           \/ RunsIn(r.listed) \subseteq Transients
           \/ \E run \in DOMAIN OnShelf : RunsIn(r.listed) = {run} /\ OnShelf[run].role = "SAVED"
    PROVE  Shelving' /\ Shelf!Next
<1>1. Ordered /\ Shelved(db, captured) /\ cache \in Seq(Entries(db, captured))
  BY DEF Shelving, Working
<1>2. Removed(db, db', {}) /\ {} \in SUBSET DOMAIN captured
  BY <1>1, Untouched
<1>3. Shelved(db', captured') /\ Grows(db, captured, db', captured')
  BY <1>1, <1>2, RemovedShelved
<1>4. cache' \in Seq(Entries(db', captured'))
  BY <1>1
<1>5. Holds(db', captured', r, Head(t))
  BY ShelfIs DEF Holds, Transients
<1>6. Shelving'
  BY <1>3, <1>4, <1>5, PendingStays, Sheltered
<1>7. Doomed' = Doomed \cup RunsIn(r.listed)
  BY <1>1, DoomedNext
<1>8. UNCHANGED OnShelf
  BY DEF OnShelf, RoleOf, RunsIn
<1> QED BY <1>6, <1>7, <1>8, AsPick

LEMMA PicksQuietly ==
    ASSUME Shelving, Working', NEW q \in Requests, All(q) \/ Beyond(q) \/ Get(q)
    PROVE  Shelving' /\ Shelf!Next
<1>1. Ordered /\ Shelved(db, captured) /\ UNCHANGED <<db, captured, cache, screen>>
  BY DEF Shelving, Working, All, Beyond, Get, Reads
<1> DEFINE t == Tail(req[q].todo)
<1>2. ASSUME NEW step \in {"all", "beyond"}, At(q, step), NEW rows, RunsIn(rows) \subseteq RunsIn(Transient(db)),
             Proceed(q, [req[q] EXCEPT !.listed = rows], t)
      PROVE  Shelving' /\ Shelf!Next
  <2> DEFINE r == [req[q] EXCEPT !.listed = rows]
  <2>1. IsRow(r, RequestFields) /\ r.listed = rows /\ Proceed(q, r, t)
    BY <1>1, <1>2, Active DEF IsRow, RequestFields
  <2>2. t # <<>> => Head(t) \notin Special \ {"drop"}
    BY <1>1, <1>2, NextBrought
  <2>3. ~At(q, "drop")
    BY <1>2 DEF At
  <2> HIDE DEF r, t
  <2>4. CASE t # <<>> /\ Head(t) = "drop"
    <3>1. RunsIn(r.listed) \subseteq Transients
      BY <1>2, <2>1, ShelfIs
    <3> QED BY <1>1, <2>1, <2>3, <2>4, <3>1, Picking
  <2>5. CASE t = <<>> \/ Head(t) # "drop"
    <3>1. t = <<>> \/ (Head(t) \notin {"drop", "capture"} /\ Holds(db, captured, r, Head(t)))
      BY <2>2, <2>5, NothingHeld DEF Special
    <3> QED BY <1>1, <2>1, <3>1, Brought
  <2> QED BY <2>4, <2>5
<1>3. CASE All(q)
  <2>1. At(q, "all") /\ Proceed(q, [req[q] EXCEPT !.listed = Listed(db)], t)
    BY <1>3 DEF All, Continue
  <2> QED BY <1>1, <1>2, <2>1, Listings
<1>4. CASE Beyond(q)
  <2>1. At(q, "beyond") /\ Proceed(q, [req[q] EXCEPT !.listed = AllBut(Listed(db), Retained)], t)
    BY <1>4 DEF Beyond, Continue
  <2> QED BY <1>1, <1>2, <2>1, Listings
<1>5. CASE Get(q)
  <2> DEFINE ids == {n \in DOMAIN db.results : /\ db.results[n].run = req[q].run
                                               /\ Kind(q) = "deleteRun" => db.results[n].role = "SAVED"}
             wanted == Restrict(db.results, ids)
             r == [req[q] EXCEPT !.listed = wanted]
  <2>1. At(q, "get")
    BY <1>5 DEF Get
  <2>2. Leave(q) \/ (DOMAIN wanted # {} /\ Proceed(q, r, t))
    BY <1>5 DEF Get, Continue
  <2>3. CASE Leave(q)
    <3> DEFINE u == IF req[q].dirty THEN <<"respond">> ELSE <<>>
    <3>1. Proceed(q, req[q], u)
      BY <2>3 DEF Leave
    <3>2. u = <<>> \/ Head(u) = "respond"
      OBVIOUS
    <3> HIDE DEF u
    <3>3. u = <<>> \/ (Head(u) \notin {"drop", "capture"} /\ Holds(db, captured, req[q], Head(u)))
      BY <3>2, NothingHeld DEF Special
    <3> QED BY <1>1, <2>1, <3>1, <3>3, Active, Brought
  <2>4. CASE DOMAIN wanted # {} /\ Proceed(q, r, t)
    <3>1. IsRow(r, RequestFields) /\ r.listed = wanted /\ r.run = req[q].run
      BY <1>1, <2>1, Active DEF IsRow, RequestFields
    <3>2. DOMAIN wanted = ids /\ \A n \in ids : wanted[n] = db.results[n]
      BY DEF Restrict
    <3>3. PICK n \in DOMAIN db.results : n \in ids /\ db.results[n].run = req[q].run
      BY <2>4, <3>2
    <3>4. RunsIn(wanted) = {req[q].run}
      BY <3>2, <3>3 DEF RunsIn
    <3>5. /\ req[q].run \in DOMAIN captured
          /\ RoleOf(db, req[q].run) \in {"WORKING", "SAVED"}
      <4>1. RoleOf(db, req[q].run) = db.results[n].role
        BY <1>1, <3>3, RoleIs
      <4> QED BY <1>1, <3>3, <4>1 DEF Shelved
    <3>6. t # <<>> => Head(t) \notin Special \ {"lookup", "drop"}
      BY <1>1, <2>1, NextBrought
    <3>7. ~At(q, "drop")
      BY <2>1 DEF At
    <3> HIDE DEF ids, wanted, r, t
    <3>8. CASE t # <<>> /\ Head(t) = "drop"
      <4>1. \/ RunsIn(r.listed) \subseteq Transients
            \/ \E run \in DOMAIN OnShelf : RunsIn(r.listed) = {run} /\ OnShelf[run].role = "SAVED"
        BY <3>1, <3>4, <3>5, ShelfIs DEF Transients
      <4> QED BY <1>1, <2>4, <3>1, <3>7, <3>8, <4>1, Picking
    <3>9. CASE t = <<>> \/ Head(t) # "drop"
      <4>1. Holds(db, captured, r, "lookup")
        BY <3>1, <3>5 DEF Holds
      <4>2. t = <<>> \/ (Head(t) \notin {"drop", "capture"} /\ Holds(db, captured, r, Head(t)))
        BY <3>6, <3>9, <4>1, NothingHeld DEF Special
      <4> QED BY <1>1, <2>4, <3>1, <4>2, Brought
    <3> QED BY <3>8, <3>9
  <2> QED BY <2>2, <2>3, <2>4
<1> QED BY <1>3, <1>4, <1>5
-----------------------------------------------------------------------------
(* The steps that capture, keep and show. *)

\* The row of a run the database gains, and its figures.
Gains(row) ==
    /\ IsRow(row, {"run", "role", "frame", "profile", "seeding"}) /\ row.role \in {"WORKING", "SAVED"}
    /\ row.run \notin DOMAIN captured /\ row.run \in 1 .. db'.runs /\ row.run \in db'.books
    /\ db'.runs \in Nat /\ db.runs <= db'.runs /\ db.books \subseteq db'.books /\ db'.rows = db.rows + 1
    /\ db'.results = Adding(db.results, db.rows + 1, row)
    /\ \E figures : captured' = Adding(captured, row.run, figures)

\* A request that goes on to a step that does not look at the shelf, to which no other adds the run.
Adds(q, r, t, run) ==
    /\ Proceed(q, r, t) /\ IsRow(r, RequestFields)
    /\ t = <<>> \/ Head(t) \notin Special
    /\ ~At(q, "drop") /\ UNCHANGED <<cache, screen>>
    /\ \A p \in Requests : p # q /\ At(p, "capture") => req[p].run # run

\* A step that adds the row of a run and its figures.
LEMMA Capturing ==
    ASSUME Shelving, Working', NEW q \in Requests, NEW r, NEW t, NEW row, Adds(q, r, t, row.run), Gains(row)
    PROVE  Shelving' /\ Shelf!Next
<1>1. Ordered /\ Shelved(db, captured) /\ cache \in Seq(Entries(db, captured))
  BY DEF Shelving, Working
<1> DEFINE m == db.rows + 1
           run == row.run
<1>20. /\ IsRow(row, {"run", "role", "frame", "profile", "seeding"}) /\ row.role \in {"WORKING", "SAVED"}
      /\ row.run \notin DOMAIN captured /\ row.run \in 1 .. db'.runs /\ row.run \in db'.books
      /\ db'.runs \in Nat /\ db.runs <= db'.runs /\ db.books \subseteq db'.books /\ db'.rows = db.rows + 1
      /\ db'.results = Adding(db.results, db.rows + 1, row)
  BY DEF Gains
<1>21. PICK figures : captured' = Adding(captured, row.run, figures)
  BY DEF Gains
<1>22. /\ Proceed(q, r, t) /\ IsRow(r, RequestFields) /\ (t = <<>> \/ Head(t) \notin Special)
      /\ ~At(q, "drop") /\ UNCHANGED <<cache, screen>>
      /\ \A p \in Requests : p # q /\ At(p, "capture") => req[p].run # row.run
  BY DEF Adds
<1> USE <1>20, <1>21, <1>22
<1>2. db.rows \in Nat /\ db.runs \in Nat /\ m \notin 1 .. db.rows /\ 1 .. db.rows \subseteq 1 .. m /\ m \in 1 .. m
      /\ 1 .. db.runs \subseteq 1 .. db'.runs
  BY <1>1 DEF Shelved
<1>3. m \notin DOMAIN db.results
  BY <1>1, <1>2 DEF Shelved
<1>4. /\ DOMAIN db'.results = DOMAIN db.results \cup {m} /\ db'.results[m] = row
      /\ \A n \in DOMAIN db.results : db'.results[n] = db.results[n]
  BY <1>3 DEF Adding
<1>5. /\ DOMAIN captured' = DOMAIN captured \cup {run} /\ captured'[run] = figures
      /\ \A o \in DOMAIN captured : captured'[o] = captured[o]
  BY DEF Adding
<1> HIDE DEF m
<1>6. \A n \in DOMAIN db.results : db.results[n].run \in DOMAIN captured /\ db.results[n].run # run
  BY <1>1 DEF Shelved
<1>7. \A n \in DOMAIN db'.results :
         (n \in DOMAIN db.results /\ db'.results[n] = db.results[n]) \/ (n = m /\ db'.results[n] = row)
  BY <1>4
<1>8. Shelved(db', captured')
  <2>1. /\ db'.rows \in Nat /\ db'.runs \in Nat /\ DOMAIN captured' \subseteq 1 .. db'.runs
        /\ DOMAIN db'.results \subseteq 1 .. db'.rows
    BY <1>1, <1>2, <1>4, <1>5 DEF Shelved, m
  <2>2. \A n \in DOMAIN db'.results :
           /\ IsRow(db'.results[n], {"run", "role", "frame", "profile", "seeding"})
           /\ db'.results[n].run \in DOMAIN captured' /\ db'.results[n].run \in db'.books
           /\ db'.results[n].role \in {"WORKING", "SAVED"}
    BY <1>1, <1>5, <1>7 DEF Shelved
  <2>3. \A n, o \in DOMAIN db'.results : db'.results[n].run = db'.results[o].run => n = o
    BY <1>1, <1>6, <1>7 DEF Shelved
  <2> QED BY <2>1, <2>2, <2>3 DEF Shelved
<1>9. RunsIn(db'.results) = RunsIn(db.results) \cup {run}
  BY <1>4, <1>7 DEF RunsIn
<1>10. Grows(db, captured, db', captured')
  BY <1>2, <1>5, <1>9 DEF Grows
<1>11. cache' \in Seq(Entries(db', captured'))
  BY <1>1, <1>10, EntriesGrow, SeqGrows
<1>12. t # <<>> => Head(t) # "drop" /\ Head(t) # "capture" /\ Holds(db', captured', r, Head(t))
  BY NothingHeld DEF Special
<1>13. Shelving'
  <2>1. \A p \in Requests : p # q /\ At(p, "capture") => req[p].run \notin DOMAIN captured'
    BY <1>5, PendingStays
  <2> QED BY <2>1, <1>8, <1>10, <1>11, <1>12, Sheltered
<1>14. Doomed' = Doomed
  BY <1>1, <1>12, DoomedNext
<1>15. \A o \in DOMAIN captured : RoleOf(db', o) = RoleOf(db, o)
  <2> SUFFICES ASSUME NEW o \in DOMAIN captured PROVE RoleOf(db', o) = RoleOf(db, o)
    OBVIOUS
  <2>1. CASE o \in RunsIn(db.results)
    <3>1. PICK n \in DOMAIN db.results : db.results[n].run = o
      BY <2>1 DEF RunsIn
    <3> QED BY <3>1, <1>1, <1>4, <1>8, RoleIs
  <2>2. CASE o \notin RunsIn(db.results)
    BY <2>2, <1>1, <1>8, <1>9, RoleIs
  <2> QED BY <2>1, <2>2
<1>16. RoleOf(db', run) \in {"WORKING", "SAVED"}
  BY <1>4, <1>8, RoleIs
<1>17. OnShelf' = [o \in DOMAIN captured \cup {run} |-> [role |-> RoleOf(db', o), figures |-> captured'[o]]]
  BY <1>5 DEF OnShelf
<1> HIDE DEF run
<1>18. /\ run \notin DOMAIN OnShelf /\ DOMAIN OnShelf' = DOMAIN OnShelf \cup {run}
       /\ OnShelf'[run].role \in {"WORKING", "SAVED"}
       /\ \A o \in DOMAIN OnShelf : OnShelf'[o] = OnShelf[o]
  BY <1>5, <1>15, <1>16, <1>17 DEF OnShelf, run
<1> QED BY <1>13, <1>14, <1>18, AsCapture

LEMMA CapturesQuietly ==
    ASSUME Shelving, Working', NEW q \in Requests, Capture(q) \/ CaptureSaved(q)
    PROVE  Shelving' /\ Shelf!Next
<1>1. Ordered /\ Shelved(db, captured) /\ IsRow(db, DbFields)
  BY DEF Shelving, Working, Whole, Halved
<1>2. db.runs \in Nat /\ DOMAIN captured \subseteq 1 .. db.runs
  BY <1>1 DEF Shelved
<1>3. CASE Capture(q)
  <2> DEFINE r == req[q]
             row == [run |-> r.run, role |-> "WORKING", frame |-> r.frame, profile |-> r.profile,
                     seeding |-> db.seedings]
             t == Tail(req[q].todo)
             f == Figures(r.inputs, r.frame, r.profile)
  <2>1. At(q, "capture") /\ "capture" \notin Bringing /\ ~At(q, "drop")
    BY <1>3 DEF Capture, Bringing, At
  <2>2. t = <<>> \/ Head(t) \notin Special
    BY <1>1, <2>1, NextPlain
  <2>3. IsRow(r, RequestFields) /\ Proceed(q, r, t) /\ UNCHANGED <<cache, screen>>
    BY <1>1, <1>3, <2>1, Active DEF Capture, Continue
  <2>4. db' = [db EXCEPT !.rows = @ + 1, !.results = Adding(@, db.rows + 1, row)]
    BY <1>3 DEF Capture, Captured
  <2>5. captured' = Adding(captured, r.run, f)
    BY <1>3 DEF Capture
  <2>6. IsRow(row, {"run", "role", "frame", "profile", "seeding"}) /\ row.role \in {"WORKING", "SAVED"} /\ row.run = r.run
    BY DEF IsRow
  <2> HIDE DEF row, f, t
  <2>7. /\ db'.rows = db.rows + 1 /\ db'.results = Adding(db.results, db.rows + 1, row)
        /\ db'.runs = db.runs /\ db'.books = db.books
    BY <1>1, <2>4 DEF IsRow, DbFields
  <2>8. r.run \notin DOMAIN captured /\ r.run \in 1 .. db'.runs /\ r.run \in db'.books
    BY <2>1, <2>7, PendingStays
  <2>9. \A p \in Requests : p # q /\ At(p, "capture") => req[p].run # r.run
    BY <2>1 DEF Shelving
  <2>10. db'.runs \in Nat /\ db.runs <= db'.runs /\ db.books \subseteq db'.books
    BY <1>2, <2>7
  <2>11. /\ row.run \notin DOMAIN captured /\ row.run \in 1 .. db'.runs /\ row.run \in db'.books
         /\ captured' = Adding(captured, row.run, f)
         /\ \A p \in Requests : p # q /\ At(p, "capture") => req[p].run # row.run
    BY <2>5, <2>6, <2>8, <2>9
  <2>12. db'.rows = db.rows + 1 /\ db'.results = Adding(db.results, db.rows + 1, row)
    BY <2>7
  <2> HIDE DEF r
  <2>13. Gains(row)
    BY <2>6, <2>10, <2>11, <2>12 DEF Gains
  <2>14. Adds(q, r, t, row.run)
    BY <2>1, <2>2, <2>3, <2>11 DEF Adds
  <2> QED BY <2>13, <2>14, Capturing
<1>4. CASE CaptureSaved(q)
  <2> DEFINE r == [req[q] EXCEPT !.frame = req[q].job.frame]
             n == db.runs + 1
             row == [run |-> n, role |-> "SAVED", frame |-> r.frame, profile |-> r.profile,
                     seeding |-> db.seedings]
             t == Tail(req[q].todo)
             f == Figures(r.inputs, r.frame, r.profile)
  <2>1. At(q, "captureSaved") /\ "captureSaved" \notin Bringing /\ ~At(q, "drop")
    BY <1>4 DEF CaptureSaved, Bringing, At
  <2>2. t = <<>> \/ Head(t) \notin Special
    BY <1>1, <2>1, NextPlain
  <2>3. IsRow(r, RequestFields) /\ Proceed(q, r, t) /\ UNCHANGED <<cache, screen>>
    <3>1. IsRow(r, RequestFields)
      BY <1>1, <2>1, Active DEF IsRow, RequestFields
    <3> QED BY <1>4, <3>1 DEF CaptureSaved, Continue
  <2>4. db' = Captured([db EXCEPT !.runs = n, !.books = @ \cup {n}], n, "SAVED", r)
        /\ captured' = Adding(captured, n, f)
    BY <1>4 DEF CaptureSaved
  <2>6. IsRow(row, {"run", "role", "frame", "profile", "seeding"}) /\ row.role \in {"WORKING", "SAVED"} /\ row.run = n
    BY DEF IsRow
  <2> HIDE DEF r, f, t
  <2>7. /\ db'.rows = db.rows + 1 /\ db'.results = Adding(db.results, db.rows + 1, row)
        /\ db'.runs = n /\ db'.books = db.books \cup {n}
    BY <1>1, <2>4 DEF Captured, IsRow, DbFields
  <2> HIDE DEF row
  <2>8. n \notin DOMAIN captured /\ n \in 1 .. db'.runs /\ n \in db'.books
    BY <1>2, <2>7
  <2>9. \A p \in Requests : p # q /\ At(p, "capture") => req[p].run # n
    BY <1>2, PendingStays
  <2>10. db'.runs \in Nat /\ db.runs <= db'.runs /\ db.books \subseteq db'.books
    BY <1>2, <2>7
  <2>11. /\ row.run \notin DOMAIN captured /\ row.run \in 1 .. db'.runs /\ row.run \in db'.books
         /\ captured' = Adding(captured, row.run, f)
         /\ \A p \in Requests : p # q /\ At(p, "capture") => req[p].run # row.run
    BY <2>4, <2>6, <2>8, <2>9
  <2> HIDE DEF n
  <2>13. Gains(row)
    BY <2>6, <2>7, <2>10, <2>11 DEF Gains
  <2>14. Adds(q, r, t, row.run)
    BY <2>1, <2>2, <2>3, <2>11 DEF Adds
  <2> QED BY <2>13, <2>14, Capturing
<1> QED BY <1>3, <1>4

LEMMA KeepsQuietly ==
    ASSUME Shelving, Working', NEW q \in Requests, Keep(q)
    PROVE  Shelving' /\ Shelf!Next
<1> DEFINE run == req[q].run
           rows == {n \in DOMAIN db.results : db.results[n].run = run}
           t == Tail(req[q].todo)
<1>1. /\ Ordered /\ Shelved(db, captured) /\ IsRow(db, DbFields) /\ cache \in Seq(Entries(db, captured))
      /\ At(q, "keep") /\ "keep" \notin Bringing /\ UNCHANGED <<captured, cache, screen>>
  BY DEF Shelving, Working, Whole, Halved, Keep, Writes, Bringing
<1>2. IsRow(req[q], RequestFields) /\ (t = <<>> \/ Head(t) \notin Special)
  BY <1>1, Active, NextPlain
<1>3. CASE rows = {}
  <2>1. Fail(q) /\ UNCHANGED db
    BY <1>3 DEF Keep
  <2>2. Quiet
    BY <1>1, <2>1 DEF Quiet
  <2> QED BY <1>1, <1>2, <2>1, <2>2, QuietlyOn
<1>4. CASE rows # {}
  <2>1. PICK n \in DOMAIN db.results : db.results[n].run = run
    BY <1>4
  <2>2. rows = {n}
    BY <1>1, <2>1 DEF Shelved
  <2>3. Proceed(q, req[q], t)
    BY <1>4 DEF Keep, Continue
  <2>4. /\ db'.rows = db.rows /\ db'.runs = db.runs /\ db'.books = db.books
        /\ db'.results = [m \in DOMAIN db.results |-> IF m \in rows THEN [db.results[m] EXCEPT !.role = "SAVED"]
                                                      ELSE db.results[m]]
    BY <1>1, <1>4 DEF Keep, IsRow, DbFields
  <2> HIDE DEF rows
  <2>5. /\ DOMAIN db'.results = DOMAIN db.results
        /\ db'.results[n] = [db.results[n] EXCEPT !.role = "SAVED"]
        /\ \A m \in DOMAIN db.results : m # n => db'.results[m] = db.results[m]
    BY <2>1, <2>2, <2>4
  <2>6. /\ IsRow(db'.results[n], {"run", "role", "frame", "profile", "seeding"})
        /\ db'.results[n].role = "SAVED" /\ db'.results[n].run = run
    <3> DEFINE row == db.results[n]
    <3>1. IsRow(row, {"run", "role", "frame", "profile", "seeding"}) /\ row.run = run
      BY <1>1, <2>1 DEF Shelved
    <3>2. db'.results[n] = [row EXCEPT !.role = "SAVED"]
      BY <2>5
    <3> HIDE DEF row, run
    <3> QED BY <3>1, <3>2 DEF IsRow
  <2>7. \A m \in DOMAIN db.results : db'.results[m].run = db.results[m].run
    BY <2>1, <2>5, <2>6
  <2> HIDE DEF run
  <2>8. Shelved(db', captured')
    <3>1. /\ db'.rows \in Nat /\ db'.runs \in Nat /\ DOMAIN captured' \subseteq 1 .. db'.runs
          /\ DOMAIN db'.results \subseteq 1 .. db'.rows
      BY <1>1, <2>4, <2>5 DEF Shelved
    <3>2. \A m \in DOMAIN db'.results :
             /\ IsRow(db'.results[m], {"run", "role", "frame", "profile", "seeding"})
             /\ db'.results[m].run \in DOMAIN captured' /\ db'.results[m].run \in db'.books
             /\ db'.results[m].role \in {"WORKING", "SAVED"}
      BY <1>1, <2>4, <2>5, <2>6, <2>7 DEF Shelved
    <3>3. \A m, o \in DOMAIN db'.results : db'.results[m].run = db'.results[o].run => m = o
      BY <1>1, <2>5, <2>7 DEF Shelved
    <3> QED BY <3>1, <3>2, <3>3 DEF Shelved
  <2>9. RunsIn(db'.results) = RunsIn(db.results)
    BY <2>5, <2>7 DEF RunsIn
  <2>10. Grows(db, captured, db', captured')
    <3>1. db.runs \in Nat /\ db.rows \in Nat
      BY <1>1 DEF Shelved
    <3> QED BY <1>1, <2>4, <2>9, <3>1 DEF Grows
  <2>11. cache' \in Seq(Entries(db', captured'))
    BY <1>1, <2>10, EntriesGrow, SeqGrows
  <2>12. t # <<>> => Head(t) # "drop" /\ Head(t) # "capture" /\ Holds(db', captured', req[q], Head(t))
    BY <1>2, NothingHeld DEF Special
  <2> HIDE DEF t
  <2>13. Shelving'
    <3>1. \A p \in Requests : p # q /\ At(p, "capture") => req[p].run \notin DOMAIN captured'
      BY <1>1, PendingStays
    <3> QED BY <1>2, <2>3, <2>8, <2>10, <2>11, <2>12, <3>1, Sheltered
  <2>14. Doomed' = Doomed
    <3>1. ~At(q, "drop")
      BY <1>1 DEF At
    <3> QED BY <1>1, <1>2, <2>3, <2>12, <3>1, DoomedNext
  <2>15. RoleOf(db', run) = "SAVED" /\ RoleOf(db, run) = db.results[n].role
    <3>1. RoleOf(db, run) = db.results[n].role
      BY <1>1, <2>1, RoleIs
    <3>2. n \in DOMAIN db'.results
      BY <2>1, <2>5
    <3>3. RoleOf(db', db'.results[n].run) = db'.results[n].role
      BY <2>8, <3>2, RoleIs
    <3> QED BY <2>6, <3>1, <3>3
  <2>16. ASSUME NEW o \in DOMAIN captured, o # run PROVE RoleOf(db', o) = RoleOf(db, o)
    <3>1. CASE o \in RunsIn(db.results)
      <4>1. PICK m \in DOMAIN db.results : db.results[m].run = o
        BY <3>1 DEF RunsIn
      <4>2. m # n
        BY <2>1, <2>16, <4>1
      <4> QED BY <1>1, <2>5, <2>8, <4>1, <4>2, RoleIs
    <3>2. CASE o \notin RunsIn(db.results)
      BY <3>2, <1>1, <2>8, <2>9, RoleIs
    <3> QED BY <3>1, <3>2
  <2>17. run \in DOMAIN captured /\ RoleOf(db, run) \in {"WORKING", "SAVED"}
    BY <1>1, <2>1, <2>15 DEF Shelved
  <2>18. OnShelf' = [o \in DOMAIN captured |-> [role |-> RoleOf(db', o), figures |-> captured[o]]]
    BY <1>1 DEF OnShelf
  <2>19. CASE RoleOf(db, run) = "WORKING"
    <3>1. OnShelf' = [OnShelf EXCEPT ![run].role = "SAVED"]
      BY <2>15, <2>16, <2>17, <2>18 DEF OnShelf
    <3>2. run \in DOMAIN OnShelf /\ OnShelf[run].role = "WORKING"
      BY <2>17, <2>19, ShelfIs
    <3> QED BY <1>1, <2>13, <2>14, <3>1, <3>2, AsKeep
  <2>20. CASE RoleOf(db, run) = "SAVED"
    <3> DEFINE gone == {}
    <3>1. OnShelf' = OnShelf
      BY <2>15, <2>16, <2>18, <2>20 DEF OnShelf
    <3>2. OnShelf' = [o \in DOMAIN OnShelf |->
                        IF o \in gone THEN [OnShelf[o] EXCEPT !.role = "gone"] ELSE OnShelf[o]]
      BY <3>1 DEF OnShelf
    <3>3. gone \in SUBSET (Doomed \cup Transients) /\ Doomed' \subseteq Doomed
      BY <2>14
    <3> HIDE DEF gone
    <3> QED BY <1>1, <2>13, <3>2, <3>3, AsRemove
  <2> QED BY <2>17, <2>19, <2>20
<1> QED BY <1>3, <1>4

\* A step that shows the books of a run.
LEMMA Showing ==
    ASSUME Shelving, Working', NEW q \in Requests, NEW step \in {"lookup", "insert"}, At(q, step),
           Continue(q, req[q]), UNCHANGED <<db, captured>>, NEW run \in DOMAIN captured, NEW books,
           Faithful(db, captured, run, books), screen' = Shown(run, books),
           cache' \in Seq(Entries(db, captured))
    PROVE  Shelving' /\ Shelf!Next
<1> DEFINE t == Tail(req[q].todo)
<1>1. Ordered /\ Shelved(db, captured) /\ step \notin Bringing /\ step # "drop"
  BY DEF Shelving, Working, Bringing
<1>2. IsRow(req[q], RequestFields) /\ (t = <<>> \/ Head(t) \notin Special) /\ Proceed(q, req[q], t)
  BY <1>1, Active, NextPlain DEF Continue
<1>3. Removed(db, db', {}) /\ {} \in SUBSET DOMAIN captured
  BY <1>1, Untouched
<1>4. Shelved(db', captured') /\ Grows(db, captured, db', captured')
  BY <1>1, <1>3, RemovedShelved
<1>5. cache' \in Seq(Entries(db', captured'))
  OBVIOUS
<1>6. t # <<>> => Head(t) # "drop" /\ Head(t) # "capture" /\ Holds(db', captured', req[q], Head(t))
  BY <1>2, NothingHeld DEF Special
<1> HIDE DEF t
<1>7. Shelving'
  BY <1>2, <1>4, <1>5, <1>6, PendingStays, Sheltered
<1>8. Doomed' = Doomed
  <2>1. ~At(q, "drop")
    BY <1>1 DEF At
  <2> QED BY <1>1, <1>2, <1>6, <2>1, DoomedNext
<1>9. UNCHANGED OnShelf
  BY DEF OnShelf, RoleOf, RunsIn
<1>10. \/ screen' = [run |-> run, figures |-> OnShelf[run].figures]
       \/ OnShelf[run].role = "gone" /\ screen' = [run |-> run, figures |-> None]
  BY <1>1, RoleIs, ShelfIs DEF Faithful, Shown
<1>11. run \in DOMAIN OnShelf
  BY ShelfIs
<1> QED BY <1>7, <1>8, <1>9, <1>10, <1>11, AsShow

LEMMA RemovedOne == ASSUME NEW S, NEW s \in Seq(S), NEW i \in 1 .. Len(s) PROVE RemoveAt(s, i) \in Seq(S)
<1>1. Len(s) \in Nat /\ \A n \in 1 .. Len(s) : s[n] \in S
  BY ElementOfSeq, LenProperties
<1>2. SubSeq(s, 1, i - 1) \in Seq(S)
  BY <1>1, SubSeqProperties
<1>3. SubSeq(s, i + 1, Len(s)) \in Seq(S)
  BY <1>1, SubSeqProperties
<1> QED BY <1>2, <1>3, ConcatProperties DEF RemoveAt

LEMMA Smaller == ASSUME NEW a \in Nat, NEW b \in Nat PROVE Min({a, b}) \in Nat /\ Min({a, b}) <= a
<1>1. \E x \in {a, b} : \A y \in {a, b} : x <= y
  OBVIOUS
<1>2. Min({a, b}) \in {a, b} /\ \A y \in {a, b} : Min({a, b}) <= y
  BY <1>1 DEF Min
<1> QED BY <1>2

LEMMA EvictedEntries == ASSUME NEW S, NEW s \in Seq(S) PROVE Evicted(s) \in Seq(S)
<1>1. Len(s) \in Nat /\ \A n \in 1 .. Len(s) : s[n] \in S
  BY ElementOfSeq, LenProperties
<1> DEFINE m == Min({Len(s), MaxCachedRuns})
<1>2. m \in Nat /\ m <= Len(s)
  BY <1>1, Smaller, WorkspaceAssumption
<1> HIDE DEF m
<1>3. Len(s) - m + 1 \in Int /\ \A n \in Len(s) - m + 1 .. Len(s) : s[n] \in S
  BY <1>1, <1>2
<1>4. SubSeq(s, Len(s) - m + 1, Len(s)) \in Seq(S)
  BY <1>1, <1>3, SubSeqProperties
<1> QED BY <1>4 DEF Evicted, m

\* What the cache is without the entry of a run.
LEMMA UncachedEntries ==
    ASSUME Shelving, NEW run
    PROVE  /\ Uncached(run) \in Seq(Entries(db, captured))
           /\ Cached(run) # {} => /\ cache[Place(run)] \in Entries(db, captured)
                                  /\ cache[Place(run)].run = run
<1>1. cache \in Seq(Entries(db, captured))
  BY DEF Shelving
<1>2. Cached(run) # {} => Place(run) \in 1 .. Len(cache) /\ cache[Place(run)].run = run
  <2>1. DOMAIN cache = 1 .. Len(cache)
    BY <1>1, LenProperties
  <2> QED BY <2>1 DEF Place, Cached
<1> QED BY <1>1, <1>2, RemovedOne, ElementOfSeq DEF Uncached

LEMMA ShowsQuietly ==
    ASSUME Shelving, Working', NEW q \in Requests, Insert(q) \/ (Lookup(q) /\ Cached(req[q].run) # {})
    PROVE  Shelving' /\ Shelf!Next
<1> DEFINE run == req[q].run
           S == Entries(db, captured)
<1>1. CASE Lookup(q) /\ Cached(run) # {}
  <2> DEFINE e == cache[Place(run)]
  <2>1. /\ At(q, "lookup") /\ Continue(q, req[q]) /\ UNCHANGED <<db, captured>>
        /\ screen' = Shown(run, e.books) /\ cache' = Append(Uncached(run), e)
    BY <1>1 DEF Lookup
  <2>2. e \in S /\ e.run = run /\ Uncached(run) \in Seq(S)
    BY <1>1, UncachedEntries
  <2> HIDE DEF e, run
  <2>3. run \in DOMAIN captured /\ Faithful(db, captured, run, e.books)
    BY <2>2 DEF Entries
  <2> HIDE DEF S
  <2>4. cache' \in Seq(S)
    BY <2>1, <2>2, AppendProperties
  <2> QED BY <2>1, <2>3, <2>4, Showing DEF S
<1>2. CASE Insert(q)
  <2> DEFINE e == Entry(req[q])
             books == req[q].books
  <2>1. /\ At(q, "insert") /\ Continue(q, req[q]) /\ UNCHANGED <<db, captured>>
        /\ screen' = Shown(run, books) /\ cache' = Evicted(Append(Uncached(run), e))
    BY <1>2 DEF Insert
  <2>2. run \in DOMAIN captured /\ Faithful(db, captured, run, books)
    BY <2>1 DEF Shelving, Holding, Holds, At
  <2>3. e \in S
    <3>1. e = [run |-> run, books |-> books]
      BY DEF Entry
    <3> HIDE DEF e, run, books
    <3> QED BY <2>2, <3>1 DEF Entries, Faithful
  <2>4. Uncached(run) \in Seq(S)
    BY UncachedEntries
  <2> HIDE DEF e, run, books, S
  <2>5. cache' \in Seq(S)
    BY <2>1, <2>3, <2>4, AppendProperties, EvictedEntries
  <2> QED BY <2>1, <2>2, <2>5, Showing DEF S
<1> QED BY <1>1, <1>2
-----------------------------------------------------------------------------
(* The shelf. *)

LEMMA BeginsShelving ==
    ASSUME Shelving, Working', Begin PROVE Shelving' /\ UNCHANGED <<OnShelf, Doomed, screen>>
<1>1. PICK jobs, runs :
         /\ jobs \in Rounds[round]
         /\ req' = [q \in Requests |-> IF q \in DOMAIN jobs THEN Served(jobs[q], runs[q]) ELSE Idle]
  BY DEF Begin
<1>2. \A q \in DOMAIN jobs : jobs[q].kind \in Kinds
  BY <1>1, WorkloadAssumption DEF Begin
<1>3. \A q \in Requests : req'[q].todo = <<>> \/ Head(req'[q].todo) \notin Special
  BY <1>1, <1>2, Openings, Idles DEF Served, Special
<1>4. \A q \in Requests : ~At(q, "drop")' /\ ~At(q, "capture")'
  BY <1>3 DEF At, Special
<1>5. \A q \in Requests : ~At(q, "drop")
  BY DEF Begin, At
<1>6. UNCHANGED <<db, cache, captured, screen>>
  BY DEF Begin
<1>7. Doomed = {} /\ Doomed' = {}
  BY <1>4, <1>5 DEF Doomed
<1>8. UNCHANGED OnShelf
  BY <1>6 DEF OnShelf, RoleOf, RunsIn
<1>9. \A q \in Requests : Holding(db', captured', req'[q])
  BY <1>3, NothingHeld DEF Holding
<1>10. Shelved(db', captured') /\ cache' \in Seq(Entries(db', captured'))
  BY <1>6 DEF Shelving
<1> QED BY <1>4, <1>6, <1>7, <1>8, <1>9, <1>10 DEF Shelving

LEMMA OpensShelving == Init => Shelving /\ Shelf!Init
<1> SUFFICES ASSUME Init PROVE Shelving /\ Shelf!Init
  OBVIOUS
<1>1. Working
  BY OpensWhole
<1>2. /\ db.results = <<>> /\ db.rows = 0 /\ db.runs = 0 /\ captured = <<>> /\ cache = <<>> /\ screen = None
      /\ \A q \in Requests : req[q].todo = <<>>
  BY Idles DEF Init
<1>3. Shelved(db, captured)
  BY <1>2 DEF Shelved
<1>4. \A q \in Requests : Holding(db, captured, req[q]) /\ ~At(q, "capture") /\ ~At(q, "drop")
  BY <1>2 DEF Holding, At
<1>5. Shelving
  BY <1>1, <1>2, <1>3, <1>4 DEF Shelving
<1>6. Doomed = {}
  BY <1>4 DEF Doomed
<1>7. OnShelf = [run \in {} |-> None]
  BY <1>2 DEF OnShelf
<1> QED BY <1>2, <1>5, <1>6, <1>7 DEF Shelf!Init

LEMMA StepsShelving ==
    ASSUME Shelving, [Next]_vars PROVE Shelving' /\ [Shelf!Next]_(Shelf!shelfVars)
<1>1. Working'
  BY StepsWorking DEF Shelving
<1>2. CASE Begin
  BY <1>1, <1>2, BeginsShelving DEF Shelf!shelfVars
<1>3. ASSUME NEW q \in Requests, Step(q) PROVE Shelving' /\ Shelf!Next
  <2>1. CASE \/ Find(q) \/ Again(q) \/ Choose(q) \/ LoadSource(q) \/ LoadWorking(q) \/ Diverge(q)
             \/ ResolveFrame(q) \/ Drift(q) \/ Count(q) \/ Respond(q)
    BY <1>1, <2>1, ReadsQuietly
  <2>2. CASE Seed(q) \/ RecordFrame(q) \/ Overwrite(q) \/ Save(q) \/ EditProfile(q)
    BY <1>1, <2>2, EditsQuietly
  <2>3. CASE Sandbox(q) \/ Users(q, "planUsers", "plans") \/ Users(q, "assumptionUsers", "assumptions")
    BY <1>1, <2>3, TurnsQuietly
  <2>4. CASE Delete(q) \/ \E c \in Pairs : Orphan(q, c)
    BY <1>1, <2>4, CascadesQuietly
  <2>5. CASE Strip(q) \/ Relist(q) \/ Inputs(q)
    BY <1>1, <2>5, ListsQuietly
  <2>6. CASE Reload(q) \/ SaveBooks(q) \/ (Lookup(q) /\ Cached(req[q].run) = {})
    BY <1>1, <2>6, BooksQuietly
  <2>7. CASE Drop(q)
    BY <1>1, <2>7, DropsQuietly
  <2>8. CASE All(q) \/ Beyond(q) \/ Get(q)
    BY <1>1, <2>8, PicksQuietly
  <2>9. CASE Capture(q) \/ CaptureSaved(q)
    BY <1>1, <2>9, CapturesQuietly
  <2>10. CASE Keep(q)
    BY <1>1, <2>10, KeepsQuietly
  <2>11. CASE Insert(q) \/ (Lookup(q) /\ Cached(req[q].run) # {})
    BY <1>1, <2>11, ShowsQuietly
  <2> QED BY <1>3, <2>1, <2>2, <2>3, <2>4, <2>5, <2>6, <2>7, <2>8, <2>9, <2>10, <2>11 DEF Step
<1>4. ASSUME NEW q \in Requests, Die(q) PROVE Shelving' /\ Shelf!Next
  BY <1>1, <1>4, DropsQuietly
<1>5. CASE UNCHANGED vars
  <2>1. UNCHANGED <<OnShelf, Doomed, screen>>
    BY <1>5 DEF vars, OnShelf, RoleOf, RunsIn, Doomed, At
  <2>2. Shelving'
    BY <1>1, <1>5 DEF vars, Shelving, At
  <2> QED BY <2>1, <2>2 DEF Shelf!shelfVars
<1> QED BY <1>2, <1>3, <1>4, <1>5 DEF Next, Serve

\* Requests, rows and cache implement the shelf of runs, for every workload, retention and
\* number of deaths: figures never change once captured; a kept run goes only if the user
\* deletes it or if a prune or a re-seed listed it while it was transient; and what is shown
\* of a run is what was captured of it, whether it comes from the cache or is loaded again,
\* or nothing where the run was deleted meanwhile.
THEOREM RunsAreShelved == Spec => ImplementsShelf
<1>1. Init => Shelving /\ Shelf!Init
  BY OpensShelving
<1>2. Shelving /\ [Next]_vars => Shelving' /\ [Shelf!Next]_(Shelf!shelfVars)
  BY StepsShelving
<1> QED BY <1>1, <1>2, PTL DEF Spec, ImplementsShelf, Shelf!Spec
-----------------------------------------------------------------------------
(* The programs page by page: what each goes through, and what comes before what. *)

Savers     == {"update", "branch"}
RunPages   == {"view", "rerun"}
FreshPages == {"enter", "reset"}

Visits(kind, a) ==
    /\ a = "save" => kind \in Savers
    /\ a \in {"resolve", "sandbox", "saveBooks", "capture"} => kind \in RunPages
    /\ a = "strip" => kind = "view"
    /\ a = "drift" => kind = "rerun"
    /\ a \in {"seed", "all"} => kind \in FreshPages
    /\ a = "diverge" => kind = "branch"
    /\ kind \in Savers => a \in {"find", "diverge", "again", "loadWorking", "save", "respond"}
Leads(kind, a, b) ==
    /\ kind \in Savers =>
          /\ b # "find"
          /\ b = "diverge" => a = "find"
          /\ b = "again" => a = IF kind = "branch" THEN "diverge" ELSE "find"
          /\ b = "loadWorking" => a = "again"
          /\ b = "save" => a = "loadWorking"
    /\ kind \in RunPages =>
          /\ b = "resolve" /\ kind = "rerun" => a = "drift"
          /\ b = "sandbox" => a = "resolve" /\ kind = "rerun"
          /\ b = "loadWorking" => a = "sandbox"
          /\ b = "saveBooks" => a = "loadWorking"
          /\ b = "capture" => a = "saveBooks"
    /\ kind \in FreshPages => (a = "seed" <=> b = "all") /\ (a = "all" <=> b = "drop")
Path(kind, t) ==
    /\ \A n \in 1 .. Len(t) : Visits(kind, t[n])
    /\ \A n \in 1 .. Len(t) - 1 : Leads(kind, t[n], t[n + 1])
    /\ t[Len(t)] \notin {"seed", "all"}

LEMMA TailPath ==
    ASSUME NEW kind, NEW t, Orderly(t), t # <<>>, Path(kind, t)
    PROVE  /\ Visits(kind, Head(t))
           /\ Tail(t) = <<>> => Head(t) \notin {"seed", "all"}
           /\ Tail(t) # <<>> => Path(kind, Tail(t)) /\ Leads(kind, Head(t), Head(Tail(t)))
<1>1. t \in Seq(Steps) /\ Len(t) \in Nat /\ Len(t) >= 1 /\ Len(Tail(t)) = Len(t) - 1 /\ Head(t) = t[1]
  BY DEF Orderly
<1>2. \A n \in 1 .. Len(Tail(t)) : Tail(t)[n] = t[n + 1]
  BY <1>1
<1>3. Visits(kind, Head(t))
  BY <1>1 DEF Path
<1>4. ASSUME Tail(t) = <<>> PROVE Head(t) \notin {"seed", "all"}
  <2>1. Len(<<>>) = 0
    OBVIOUS
  <2>3. Len(Tail(t)) = 0
    BY <1>4, <2>1, Zenon
  <2>4. \A m \in Nat : 0 = m - 1 => m = 1
    OBVIOUS
  <2>2. Len(t) = 1
    BY <1>1, <2>3, <2>4, Zenon
  <2> QED BY <2>2, <1>1 DEF Path
<1>5. ASSUME Tail(t) # <<>> PROVE Path(kind, Tail(t)) /\ Leads(kind, Head(t), Head(Tail(t)))
  <2>6. Tail(t) \in Seq(Steps) /\ Tail(t) # <<>>
    BY <1>1, <1>5
  <2>1. Len(Tail(t)) >= 1 /\ Head(Tail(t)) = t[2]
    BY <1>1, <1>2, <2>6
  <2>2. \A n \in 1 .. Len(Tail(t)) : Visits(kind, Tail(t)[n])
    <3> SUFFICES ASSUME NEW n \in 1 .. Len(Tail(t)) PROVE Visits(kind, Tail(t)[n])
      OBVIOUS
    <3>1. n + 1 \in 1 .. Len(t)
      BY <1>1
    <3> QED BY <3>1, <1>2 DEF Path
  <2>3. \A n \in 1 .. Len(Tail(t)) - 1 : Leads(kind, Tail(t)[n], Tail(t)[n + 1])
    <3> SUFFICES ASSUME NEW n \in 1 .. Len(Tail(t)) - 1 PROVE Leads(kind, Tail(t)[n], Tail(t)[n + 1])
      OBVIOUS
    <3>1. n + 1 \in 1 .. Len(t) - 1 /\ n \in 1 .. Len(Tail(t)) /\ n + 1 \in 1 .. Len(Tail(t))
      BY <1>1
    <3>2. Leads(kind, t[n + 1], t[n + 1 + 1])
      BY <3>1 DEF Path
    <3> QED BY <3>1, <3>2, <1>2
  <2>4. Tail(t)[Len(Tail(t))] = t[Len(t)]
    BY <1>1, <1>2, <2>1
  <2>5. Leads(kind, t[1], t[2])
    <3>1. 1 \in 1 .. Len(t) - 1
      BY <1>1, <2>1
    <3>2. Leads(kind, t[1], t[1 + 1])
      BY <3>1 DEF Path
    <3> QED BY <3>2
  <2> QED BY <1>1, <2>1, <2>2, <2>3, <2>4, <2>5 DEF Path
<1> QED BY <1>3, <1>4, <1>5

LEMMA JoinedPath ==
    ASSUME NEW kind, NEW s, NEW t, Orderly(s), Orderly(t), s # <<>>, t # <<>>,
           Path(kind, s), Path(kind, t), Leads(kind, s[Len(s)], t[1])
    PROVE  Path(kind, s \o t)
<1>1. /\ s \in Seq(Steps) /\ Len(s) \in Nat /\ Len(s) >= 1
      /\ t \in Seq(Steps) /\ Len(t) \in Nat /\ Len(t) >= 1
  BY DEF Orderly
<1>2. s \o t \in Seq(Steps) /\ Len(s \o t) = Len(s) + Len(t)
  BY <1>1
<1>3. \A n \in 1 .. Len(s) : (s \o t)[n] = s[n]
  BY <1>1
<1>4. \A n \in 1 .. Len(t) : (s \o t)[Len(s) + n] = t[n]
  BY <1>1
<1>5. ASSUME NEW n \in 1 .. Len(s \o t) - 1 PROVE Leads(kind, (s \o t)[n], (s \o t)[n + 1])
  <2>1. CASE n < Len(s)
    BY <2>1, <1>1, <1>3 DEF Path
  <2>2. CASE n = Len(s)
    BY <2>2, <1>1, <1>3, <1>4
  <2>3. CASE n > Len(s)
    <3>1. n - Len(s) \in 1 .. Len(t) - 1 /\ n - Len(s) + 1 \in 1 .. Len(t)
          /\ n = Len(s) + (n - Len(s)) /\ n + 1 = Len(s) + (n - Len(s) + 1)
      BY <2>3, <1>1, <1>2
    <3>2. Leads(kind, t[n - Len(s)], t[n - Len(s) + 1])
      BY <3>1 DEF Path
    <3> QED BY <3>1, <3>2, <1>4, <1>1
  <2> QED BY <2>1, <2>2, <2>3, <1>1
<1>6. ASSUME NEW n \in 1 .. Len(s \o t) PROVE Visits(kind, (s \o t)[n])
  <2>1. CASE n <= Len(s)
    BY <2>1, <1>1, <1>3 DEF Path
  <2>2. CASE n > Len(s)
    <3>1. n - Len(s) \in 1 .. Len(t) /\ n = Len(s) + (n - Len(s))
      BY <2>2, <1>1, <1>2
    <3>2. Visits(kind, t[n - Len(s)])
      BY <3>1 DEF Path
    <3> QED BY <3>1, <3>2, <1>4, <1>1
  <2> QED BY <2>1, <2>2, <1>1, <1>2
<1>7. (s \o t)[Len(s \o t)] = t[Len(t)]
  BY <1>1, <1>2, <1>4
<1> QED BY <1>5, <1>6, <1>7 DEF Path

LEMMA OnePath == ASSUME NEW kind, NEW a, Visits(kind, a), a \notin {"seed", "all"} PROVE Path(kind, <<a>>)
BY DEF Path

LEMMA TwoPath ==
    ASSUME NEW kind, NEW a, NEW b, Visits(kind, a), Visits(kind, b), Leads(kind, a, b), b \notin {"seed", "all"}
    PROVE  Path(kind, <<a, b>>)
BY DEF Path

LEMMA ThreePath ==
    ASSUME NEW kind, NEW a, NEW b, NEW c, Visits(kind, a), Visits(kind, b), Visits(kind, c),
           Leads(kind, a, b), Leads(kind, b, c), c \notin {"seed", "all"}
    PROVE  Path(kind, <<a, b, c>>)
BY DEF Path

LEMMA FourPath ==
    ASSUME NEW kind, NEW a, NEW b, NEW c, NEW d,
           Visits(kind, a), Visits(kind, b), Visits(kind, c), Visits(kind, d),
           Leads(kind, a, b), Leads(kind, b, c), Leads(kind, c, d), d \notin {"seed", "all"}
    PROVE  Path(kind, <<a, b, c, d>>)
BY DEF Path

LEMMA FivePath ==
    ASSUME NEW kind, NEW a, NEW b, NEW c, NEW d, NEW e,
           Visits(kind, a), Visits(kind, b), Visits(kind, c), Visits(kind, d), Visits(kind, e),
           Leads(kind, a, b), Leads(kind, b, c), Leads(kind, c, d), Leads(kind, d, e), e \notin {"seed", "all"}
    PROVE  Path(kind, <<a, b, c, d, e>>)
BY DEF Path

LEMMA RunsPath == \A kind \in RunPages : Path(kind, RunSteps)
<1> SUFFICES ASSUME NEW kind \in RunPages PROVE Path(kind, RunSteps)
  OBVIOUS
<1> DEFINE t == <<"sandbox", "loadWorking", "saveBooks", "capture", "beyond", "drop">>
<1>1. Len(t) = 6
  OBVIOUS
<1>2. /\ Leads(kind, t[1], t[2]) /\ Leads(kind, t[2], t[3]) /\ Leads(kind, t[3], t[4])
      /\ Leads(kind, t[4], t[5]) /\ Leads(kind, t[5], t[6])
  BY DEF Leads, RunPages, Savers, FreshPages
<1>3. /\ Visits(kind, t[1]) /\ Visits(kind, t[2]) /\ Visits(kind, t[3]) /\ Visits(kind, t[4])
      /\ Visits(kind, t[5]) /\ Visits(kind, t[6])
  BY DEF Visits, RunPages, Savers
<1>4. t[6] = "drop" /\ RunSteps = t
  BY DEF RunSteps
<1> HIDE DEF t
<1>5. \A n \in 1 .. Len(t) - 1 : n = 1 \/ n = 2 \/ n = 3 \/ n = 4 \/ n = 5
  BY <1>1
<1>6. \A n \in 1 .. Len(t) : n = 1 \/ n = 2 \/ n = 3 \/ n = 4 \/ n = 5 \/ n = 6
  BY <1>1
<1>7. \A n \in 1 .. Len(t) - 1 : Leads(kind, t[n], t[n + 1])
  BY <1>2, <1>5
<1>8. \A n \in 1 .. Len(t) : Visits(kind, t[n])
  BY <1>3, <1>6
<1> QED BY <1>1, <1>4, <1>7, <1>8 DEF Path

\* What is left of a program after a step, wherever the request turns.
Turn(s, t) ==
    \/ t \in {<<>>, <<"respond">>, Tail(s)}
    \/ Head(s) = "strip" /\ t \in {RunSteps \o <<"relist">> \o Tail(s), <<>> \o Tail(s)}
    \/ Head(s) = "sandbox" /\ t = SubSeq(s, Len(RunSteps) + 1, Len(s))
    \/ Head(s) = "lookup" /\ t = <<"reload", "insert">>
    \/ Head(s) \in {"planUsers", "assumptionUsers"} /\ t = Tail(Tail(s))

Elsewhere == {"respond", "relist", "again", "reload", "assumptionUsers"}
LEMMA TurnPath ==
    ASSUME NEW kind, NEW s, Orderly(s), s # <<>>, Path(kind, s), NEW t, Turn(s, t), t # <<>>
    PROVE  /\ Path(kind, t)
           /\ \/ Leads(kind, Head(s), Head(t)) /\ t = Tail(s)
              \/ Head(t) \in Elsewhere /\ (Head(t) = "again" => kind \in RunPages)
              \/ kind = "view" /\ Head(s) = "strip" /\ Head(t) = "sandbox"
<1>1. s \in Seq(Steps) /\ Len(s) \in Nat /\ Len(s) >= 1 /\ Head(s) = s[1] /\ Tail(s) \in Seq(Steps)
  BY DEF Orderly
<1>2. CASE t = Tail(s)
  BY <1>2, TailPath
<1>3. CASE t = <<"respond">>
  <2>1. Visits(kind, "respond")
    BY DEF Visits
  <2>2. Path(kind, <<"respond">>) /\ Head(<<"respond">>) = "respond"
    BY <2>1, OnePath
  <2> QED BY <1>3, <2>2 DEF Elsewhere
<1>4. CASE Head(s) = "lookup" /\ t = <<"reload", "insert">>
  <2>0. kind \notin Savers
    BY <1>4, TailPath DEF Visits
  <2>1. Visits(kind, "reload") /\ Visits(kind, "insert") /\ Leads(kind, "reload", "insert")
    BY <2>0 DEF Visits, Leads
  <2>2. Path(kind, <<"reload", "insert">>) /\ Head(<<"reload", "insert">>) = "reload"
    BY <2>1, TwoPath
  <2> QED BY <1>4, <2>2 DEF Elsewhere
<1>5. CASE Head(s) = "strip" /\ t \in {RunSteps \o <<"relist">> \o Tail(s), <<>> \o Tail(s)}
  <2>0. kind = "view" /\ kind \in RunPages
    BY <1>5, TailPath DEF Visits, RunPages
  <2>1. <<>> \o Tail(s) = Tail(s)
    BY <1>1
  <2>2. CASE t = <<>> \o Tail(s)
    BY <1>2, <2>1, <2>2
  <2>3. CASE t = RunSteps \o <<"relist">> \o Tail(s)
    <3> DEFINE a == <<"relist">>
               b == RunSteps \o a
    <3>1. Orderly(a) /\ a # <<>> /\ a[1] = "relist" /\ a[Len(a)] = "relist"
      BY One DEF Steps, Asks
    <3>2. Path(kind, a)
      <4>1. Visits(kind, "relist")
        BY <2>0 DEF Visits, Savers
      <4> QED BY <4>1, OnePath
    <3>3. Follows("drop", "relist") /\ Leads(kind, "drop", "relist")
      BY <2>0 DEF Follows, Deleting, Leads, Savers, FreshPages
    <3> HIDE DEF a
    <3>4. Orderly(b) /\ b # <<>> /\ b[Len(b)] = "relist" /\ Path(kind, b)
      BY <2>0, <3>1, <3>2, <3>3, Runs, RunsPath, Joined, JoinedPath
    <3>5. b[1] = "sandbox" /\ Head(b) = b[1]
      <4>1. RunSteps \in Seq(Steps) /\ a \in Seq(Steps) /\ Len(RunSteps) = 6 /\ RunSteps[1] = "sandbox"
        BY <3>1, Runs DEF Orderly
      <4> QED BY <4>1
    <3> HIDE DEF b
    <3>6. CASE Tail(s) = <<>>
      <4>1. b \o <<>> = b
        BY <3>4 DEF Orderly
      <4> QED BY <4>1, <3>4, <3>5, <3>6, <2>0, <2>3, <1>5 DEF b, a
    <3>7. CASE Tail(s) # <<>>
      <4>6. Head(Tail(s)) = Tail(s)[1]
        <5>1. Tail(s) \in Seq(Steps) /\ Tail(s) # <<>>
          BY <1>1, <3>7, Zenon
        <5> QED BY <5>1
      <4>7. Path(kind, Tail(s)) /\ Leads(kind, Head(s), Head(Tail(s)))
        BY <3>7, TailPath
      <4>1. Path(kind, Tail(s)) /\ Leads(kind, "strip", Head(Tail(s))) /\ Head(Tail(s)) = Tail(s)[1]
        BY <4>6, <4>7, <1>5, Zenon
      <4>2. Leads(kind, "relist", Tail(s)[1])
        BY <2>0, <4>1 DEF Leads, Savers, FreshPages
      <4>3. Orderly(Tail(s))
        BY <3>7, TailOrderly
      <4>4. Path(kind, b \o Tail(s))
        BY <3>4, <3>7, <4>1, <4>2, <4>3, JoinedPath
      <4>5. (b \o Tail(s))[1] = b[1] /\ Head(b \o Tail(s)) = (b \o Tail(s))[1]
        <5>1. b \in Seq(Steps) /\ Len(b) >= 1 /\ Len(b) \in Nat
          BY <3>4 DEF Orderly
        <5> QED BY <5>1, <1>1
      <4> QED BY <4>4, <4>5, <3>5, <2>0, <2>3, <1>5 DEF b, a
    <3> QED BY <3>6, <3>7
  <2> QED BY <1>5, <2>2, <2>3
<1>6. CASE Head(s) = "sandbox" /\ t = SubSeq(s, Len(RunSteps) + 1, Len(s))
  <2>0. kind \in RunPages
    BY <1>6, TailPath DEF Visits
  <2>1. t = SubSeq(s, 7, Len(s)) /\ Head(t) \in {"relist", "again"}
    BY <1>6, Runs, Reordered
  <2>2. 6 <= Len(s)
    BY <1>1, <1>6 DEF Orderly
  <2>3. Len(s) >= 7 /\ Len(t) = Len(s) - 6 /\ t \in Seq(Steps) /\ \A n \in 1 .. Len(t) : t[n] = s[n + 6]
    BY <1>1, <2>1, <2>2
  <2>4. \A n \in 1 .. Len(t) - 1 : Leads(kind, t[n], t[n + 1])
    <3> SUFFICES ASSUME NEW n \in 1 .. Len(t) - 1 PROVE Leads(kind, t[n], t[n + 1])
      OBVIOUS
    <3>1. n + 6 \in 1 .. Len(s) - 1 /\ n + 1 + 6 = n + 6 + 1 /\ n \in 1 .. Len(t) /\ n + 1 \in 1 .. Len(t)
      BY <1>1, <2>3
    <3>2. Leads(kind, s[n + 6], s[n + 6 + 1])
      BY <3>1 DEF Path
    <3> QED BY <3>1, <3>2, <2>3
  <2>5. \A n \in 1 .. Len(t) : Visits(kind, t[n])
    <3> SUFFICES ASSUME NEW n \in 1 .. Len(t) PROVE Visits(kind, t[n])
      OBVIOUS
    <3>1. n + 6 \in 1 .. Len(s)
      BY <1>1, <2>3
    <3>2. Visits(kind, s[n + 6])
      BY <3>1 DEF Path
    <3> QED BY <3>2, <2>3
  <2>6. t[Len(t)] = s[Len(s)]
    <3>1. Len(t) \in 1 .. Len(t) /\ Len(t) + 6 = Len(s)
      BY <1>1, <2>3
    <3> QED BY <3>1, <2>3
  <2>7. Path(kind, t)
    BY <2>4, <2>5, <2>6 DEF Path
  <2> QED BY <2>0, <2>1, <2>7 DEF Elsewhere
<1>7. CASE Head(s) \in {"planUsers", "assumptionUsers"} /\ t = Tail(Tail(s))
  <2>1. Orderly(t) /\ Head(t) \in {"assumptionUsers", "respond"}
    BY <1>7, Reordered
  <2>2. Tail(s) # <<>>
    <3>1. \A m \in Nat : m >= 1 /\ m # 1 => m - 1 # 0
      OBVIOUS
    <3>2. 1 # Len(s)
      BY <1>1, <1>7 DEF Orderly, Asks
    <3>3. Len(Tail(s)) = Len(s) - 1
      BY <1>1
    <3>4. Len(<<>>) = 0
      OBVIOUS
    <3> QED BY <3>1, <3>2, <3>3, <3>4, <1>1, Zenon
  <2>3. Orderly(Tail(s)) /\ Path(kind, Tail(s))
    BY <2>2, TailOrderly, TailPath
  <2>4. Path(kind, t)
    BY <1>7, <2>2, <2>3, TailPath
  <2> QED BY <2>1, <2>4 DEF Elsewhere
<1> QED BY <1>2, <1>3, <1>4, <1>5, <1>6, <1>7 DEF Turn

\* Every page starts on its path.
LEMMA PagePaths == \A kind \in Kinds : Path(kind, Program[kind])
<1>1. Path("view", Program.view)
  <2>1. Program.view = <<"find", "resolve", "strip", "inputs", "lookup">>
    BY DEF Program
  <2>2. /\ Visits("view", "find") /\ Visits("view", "resolve") /\ Visits("view", "strip")
        /\ Visits("view", "inputs") /\ Visits("view", "lookup")
    BY DEF Visits, Savers, RunPages
  <2>3. /\ Leads("view", "find", "resolve") /\ Leads("view", "resolve", "strip")
        /\ Leads("view", "strip", "inputs") /\ Leads("view", "inputs", "lookup")
    BY DEF Leads, Savers, FreshPages
  <2> QED BY <2>1, <2>2, <2>3, FivePath
<1>2. Path("tune", Program.tune)
  <2>1. Program.tune = <<"find", "loadWorking", "find", "overwrite">>
    BY DEF Program
  <2>2. Visits("tune", "find") /\ Visits("tune", "loadWorking") /\ Visits("tune", "overwrite")
    BY DEF Visits, Savers
  <2>3. \A a, b : Leads("tune", a, b)
    BY DEF Leads, Savers, RunPages, FreshPages
  <2> QED BY <2>1, <2>2, <2>3, FourPath
<1>3. Path("update", Program.update)
  <2>1. Program.update = <<"find", "again", "loadWorking", "save">>
    BY DEF Program
  <2>2. /\ Visits("update", "find") /\ Visits("update", "again") /\ Visits("update", "loadWorking")
        /\ Visits("update", "save")
    BY DEF Visits, Savers
  <2>3. /\ Leads("update", "find", "again") /\ Leads("update", "again", "loadWorking")
        /\ Leads("update", "loadWorking", "save")
    BY DEF Leads, RunPages, FreshPages
  <2> QED BY <2>1, <2>2, <2>3, FourPath
<1>4. Path("branch", Program.branch)
  <2>1. Program.branch = <<"find", "diverge", "again", "loadWorking", "save">>
    BY DEF Program
  <2>2. /\ Visits("branch", "find") /\ Visits("branch", "diverge") /\ Visits("branch", "again")
        /\ Visits("branch", "loadWorking") /\ Visits("branch", "save")
    BY DEF Visits, Savers
  <2>3. /\ Leads("branch", "find", "diverge") /\ Leads("branch", "diverge", "again")
        /\ Leads("branch", "again", "loadWorking") /\ Leads("branch", "loadWorking", "save")
    BY DEF Leads, RunPages, FreshPages
  <2> QED BY <2>1, <2>2, <2>3, FivePath
<1>5. Path("keep", Program.keep) /\ Path("deleteRun", Program.deleteRun) /\ Path("show", Program.show)
  <2>1. /\ Program.keep = <<"get", "keep">> /\ Program.deleteRun = <<"get", "drop">>
        /\ Program.show = <<"get", "lookup">>
    BY DEF Program, ShowSteps
  <2>2. \A kind \in {"keep", "deleteRun", "show"} : \A a, b \in {"get", "keep", "drop", "lookup"} :
           Visits(kind, a) /\ Leads(kind, a, b) /\ b \notin {"seed", "all"}
    BY DEF Visits, Leads, Savers, RunPages, FreshPages
  <2> QED BY <2>1, <2>2, TwoPath
<1>6. Path("hub", Program.hub)
  <2>1. Program.hub = <<"choose", "loadSource", "captureSaved", "respond">>
    BY DEF Program
  <2>2. /\ Visits("hub", "choose") /\ Visits("hub", "loadSource") /\ Visits("hub", "captureSaved")
        /\ Visits("hub", "respond")
    BY DEF Visits, Savers
  <2>3. \A a, b : Leads("hub", a, b)
    BY DEF Leads, Savers, RunPages, FreshPages
  <2> QED BY <2>1, <2>2, <2>3, FourPath
<1>7. Path("profile", Program.profile)
  <2>1. Program.profile = <<"edit">>
    BY DEF Program
  <2>2. Visits("profile", "edit")
    BY DEF Visits, Savers
  <2> QED BY <2>1, <2>2, OnePath
<1>8. \A kind \in FreshPages : Path(kind, FreshSteps)
  <2>1. FreshSteps = <<"loadSource", "seed", "all", "drop">>
    BY DEF FreshSteps
  <2>2. \A kind \in FreshPages : /\ Visits(kind, "loadSource") /\ Visits(kind, "seed")
                                 /\ Visits(kind, "all") /\ Visits(kind, "drop")
    BY DEF Visits, Savers, FreshPages
  <2>3. \A kind \in FreshPages : /\ Leads(kind, "loadSource", "seed") /\ Leads(kind, "seed", "all")
                                 /\ Leads(kind, "all", "drop")
    BY DEF Leads, Savers, RunPages, FreshPages
  <2> QED BY <2>1, <2>2, <2>3, FourPath
<1>9. Path("reset", Program.reset)
  <2> DEFINE a == <<"find">>
  <2>1. Orderly(a) /\ a # <<>> /\ a[Len(a)] = "find"
    BY One DEF Steps, Asks
  <2>2. FreshSteps[1] = "loadSource" /\ Leads("reset", "find", "loadSource") /\ Visits("reset", "find")
    BY DEF FreshSteps, Leads, Visits, Savers, RunPages, FreshPages
  <2>3. Program.reset = a \o FreshSteps
    BY DEF Program, ResetSteps
  <2>4. Path("reset", a) /\ Path("reset", FreshSteps)
    BY <1>8, <2>2, OnePath DEF FreshPages
  <2> HIDE DEF a
  <2> QED BY <2>1, <2>2, <2>3, <2>4, Parts, JoinedPath
<1>10. Path("enter", Program.enter)
  <2> DEFINE a == <<"choose">>
             b == <<"again", "frame", "respond">>
             c == a \o FreshSteps
  <2>1. Orderly(a) /\ a # <<>> /\ a[Len(a)] = "choose" /\ Len(a) = 1
    BY One DEF Steps, Asks
  <2>2. /\ FreshSteps[1] = "loadSource" /\ Follows("choose", "loadSource")
        /\ FreshSteps[Len(FreshSteps)] = "drop" /\ Follows("drop", "again")
        /\ Follows("again", "frame") /\ Follows("frame", "respond") /\ Len(FreshSteps) = 4
    BY DEF FreshSteps, Follows, Deleting
  <2>3. {"again", "frame", "respond"} \subseteq Steps /\ ~Asks("respond")
    BY DEF Steps, Asks
  <2>4. Orderly(b) /\ b # <<>> /\ b[1] = "again"
    BY <2>2, <2>3, Three
  <2>5. /\ Visits("enter", "choose") /\ Visits("enter", "again") /\ Visits("enter", "frame")
        /\ Visits("enter", "respond")
    BY DEF Visits, Savers
  <2>6. /\ Leads("enter", "choose", "loadSource") /\ Leads("enter", "drop", "again")
        /\ Leads("enter", "again", "frame") /\ Leads("enter", "frame", "respond")
    BY DEF Leads, Savers, RunPages
  <2>7. Path("enter", a) /\ Path("enter", b) /\ Path("enter", FreshSteps)
    BY <1>8, <2>5, <2>6, OnePath, ThreePath DEF FreshPages
  <2>8. Program.enter = c \o b
    BY DEF Program, EnterSteps
  <2> HIDE DEF a, b
  <2>9. Orderly(c) /\ c # <<>> /\ c[Len(c)] = "drop"
    BY <2>1, <2>2, Parts, Joined
  <2>10. Path("enter", c)
    BY <2>1, <2>2, <2>6, <2>7, Parts, JoinedPath
  <2> HIDE DEF c
  <2> QED BY <2>4, <2>6, <2>7, <2>8, <2>9, <2>10, JoinedPath
<1>11. Path("deleteScenario", Program.deleteScenario)
  <2> DEFINE a == <<"choose", "count", "delete">>
             b == <<"respond">>
             c == a \o OrphanSteps
             kind == "deleteScenario"
  <2>1. {"choose", "count", "delete"} \subseteq Steps /\ ~Asks("delete")
    BY DEF Steps, Asks
  <2>2. Follows("choose", "count") /\ Follows("count", "delete")
    BY DEF Follows, Deleting
  <2>3. Orderly(a) /\ a # <<>>
    BY <2>1, <2>2, Three
  <2>4. a[Len(a)] = "delete" /\ Len(a) = 3
    OBVIOUS
  <2>5. Orderly(b) /\ b # <<>> /\ b[1] = "respond"
    BY One DEF Steps, Asks
  <2>6. /\ OrphanSteps[1] = "planUsers" /\ Follows("delete", "planUsers")
        /\ OrphanSteps[Len(OrphanSteps)] = "assumptions" /\ Follows("assumptions", "respond")
    BY DEF OrphanSteps, Follows, Deleting
  <2>7. \A x, y : Leads(kind, x, y)
    BY DEF Leads, Savers, RunPages, FreshPages
  <2>8. \A x \in {"choose", "count", "delete", "respond", "planUsers", "plans", "assumptionUsers", "assumptions"} :
           Visits(kind, x) /\ x \notin {"seed", "all"}
    BY DEF Visits, Savers
  <2>9. OrphanSteps = <<"planUsers", "plans", "assumptionUsers", "assumptions">>
    BY DEF OrphanSteps
  <2>10. Program.deleteScenario = c \o b
    BY DEF Program
  <2> HIDE DEF kind
  <2>11. Path(kind, a)
    BY <2>7, <2>8, ThreePath
  <2>15. Path(kind, b)
    BY <2>8, OnePath
  <2>16. Path(kind, OrphanSteps)
    BY <2>7, <2>8, <2>9, FourPath
  <2> HIDE DEF a, b
  <2>12. Orderly(c) /\ c # <<>>
    BY <2>3, <2>4, <2>6, Parts, Joined
  <2>13. Path(kind, c)
    BY <2>3, <2>7, <2>11, <2>16, Parts, JoinedPath
  <2> HIDE DEF c
  <2>14. Path(kind, c \o b)
    BY <2>5, <2>7, <2>12, <2>13, <2>15, JoinedPath
  <2> QED BY <2>10, <2>14 DEF kind
<1>12. Path("rerun", Program.rerun)
  <2> DEFINE a == <<"find", "drift", "resolve">>
  <2>1. {"find", "drift", "resolve"} \subseteq Steps /\ ~Asks("resolve")
    BY DEF Steps, Asks
  <2>2. Follows("find", "drift") /\ Follows("drift", "resolve")
    BY DEF Follows, Deleting
  <2>3. Orderly(a) /\ a # <<>>
    BY <2>1, <2>2, Three
  <2>4. a[Len(a)] = "resolve"
    OBVIOUS
  <2>5. Visits("rerun", "find") /\ Visits("rerun", "drift") /\ Visits("rerun", "resolve")
    BY DEF Visits, Savers, RunPages
  <2>6. /\ Leads("rerun", "find", "drift") /\ Leads("rerun", "drift", "resolve")
        /\ Leads("rerun", "resolve", "sandbox")
    BY DEF Leads, Savers, FreshPages
  <2>7. Path("rerun", a) /\ Path("rerun", RunSteps)
    BY <2>5, <2>6, ThreePath, RunsPath DEF RunPages
  <2>8. Program.rerun = a \o RunSteps
    BY DEF Program
  <2> HIDE DEF a
  <2> QED BY <2>3, <2>4, <2>6, <2>7, <2>8, Runs, JoinedPath
<1> QED BY <1>1, <1>2, <1>3, <1>4, <1>5, <1>6, <1>7, <1>9, <1>10, <1>11, <1>12 DEF Kinds

\* Whatever its step, a request moves on along its path; the others stay where they are.
Onwards(q) ==
    \E r, t : Proceed(q, r, t) /\ IsRow(r, RequestFields) /\ r.job = req[q].job /\ Turn(req[q].todo, t)
LEMMA Proceeds ==
    ASSUME Ordered, NEW q \in Requests, Step(q)
    PROVE  /\ req[q].todo # <<>> /\ Orderly(req[q].todo)
           /\ Onwards(q)
<1>1. \A step : At(q, step) => req[q].todo # <<>> /\ Head(req[q].todo) = step
  BY DEF At
<1>2. req[q].todo # <<>> => IsRow(req[q], RequestFields) /\ Orderly(req[q].todo)
  BY DEF Ordered, Tidy
<1>10. \E step : At(q, step)
  BY DEF Step, Find, Again, Choose, LoadSource, LoadWorking, Diverge, Seed, RecordFrame, Overwrite, Save,
     ResolveFrame, Strip, Relist, Drift, Sandbox, SaveBooks, Capture, CaptureSaved, All, Beyond, Drop, Get,
     Keep, Inputs, Lookup, Reload, Insert, Count, Delete, Users, Orphan, EditProfile, Respond
<1> SUFFICES Onwards(q)
  BY <1>1, <1>2, <1>10
<1>3. ASSUME NEW r, req[q].todo # <<>>, Continue(q, r), IsRow(r, RequestFields), r.job = req[q].job PROVE Onwards(q)
  BY <1>3 DEF Onwards, Turn, Continue
<1>4. ASSUME req[q].todo # <<>>, Leave(q) \/ Fail(q) PROVE Onwards(q)
  BY <1>4, <1>2 DEF Onwards, Turn, Leave, Fail
<1>5. ASSUME NEW step, At(q, step), Leave(q) \/ Fail(q) \/ Continue(q, req[q]) PROVE Onwards(q)
  BY <1>1, <1>2, <1>3, <1>4, <1>5
<1>11. CASE Find(q)
  <2> DEFINE r == [req[q] EXCEPT !.seen = db.exploration, !.source = db.exploration.source,
                                   !.working = db.exploration.working]
  <2>1. At(q, "find") /\ (Leave(q) \/ Fail(q) \/ Continue(q, r))
    BY <1>11 DEF Find
  <2>2. IsRow(r, RequestFields) /\ r.job = req[q].job
    BY <1>1, <1>2, <2>1 DEF IsRow, RequestFields
  <2> HIDE DEF r
  <2> QED BY <1>1, <1>3, <1>4, <2>1, <2>2
<1>12. CASE Again(q)
  <2> DEFINE r == [req[q] EXCEPT !.seen = db.exploration]
  <2>1. At(q, "again") /\ (Leave(q) \/ Fail(q) \/ Continue(q, r))
    BY <1>12 DEF Again
  <2>2. IsRow(r, RequestFields) /\ r.job = req[q].job
    BY <1>1, <1>2, <2>1 DEF IsRow, RequestFields
  <2> HIDE DEF r
  <2> QED BY <1>1, <1>3, <1>4, <2>1, <2>2
<1>13. CASE Choose(q)
  <2> DEFINE r == [req[q] EXCEPT !.source = req[q].job.scenario, !.dirty = TRUE,
                                 !.seen = db.scenarios[req[q].job.scenario],
                                 !.profile = db.profile, !.session = Remembered(req[q])]
  <2>1. At(q, "choose") /\ (Leave(q) \/ Fail(q) \/ Continue(q, r))
    BY <1>13 DEF Choose
  <2>2. IsRow(r, RequestFields) /\ r.job = req[q].job
    BY <1>1, <1>2, <2>1 DEF IsRow, RequestFields
  <2> HIDE DEF r
  <2> QED BY <1>1, <1>3, <1>4, <2>1, <2>2
<1>14. CASE LoadSource(q)
  <2> DEFINE r == [req[q] EXCEPT !.inputs = Resolve(db, req[q].source)]
  <2>1. At(q, "loadSource") /\ (Leave(q) \/ Fail(q) \/ Continue(q, r))
    BY <1>14 DEF LoadSource
  <2>2. IsRow(r, RequestFields) /\ r.job = req[q].job
    BY <1>1, <1>2, <2>1 DEF IsRow, RequestFields
  <2> HIDE DEF r
  <2> QED BY <1>1, <1>3, <1>4, <2>1, <2>2
<1>15. CASE LoadWorking(q)
  <2> DEFINE r == [req[q] EXCEPT !.inputs = Resolve(db, req[q].seen.working)]
  <2>1. At(q, "loadWorking") /\ (Leave(q) \/ Fail(q) \/ Continue(q, r))
    BY <1>15 DEF LoadWorking
  <2>2. IsRow(r, RequestFields) /\ r.job = req[q].job
    BY <1>1, <1>2, <2>1 DEF IsRow, RequestFields
  <2> HIDE DEF r
  <2> QED BY <1>1, <1>3, <1>4, <2>1, <2>2
<1>16. CASE Diverge(q)
  <2> DEFINE r == [req[q] EXCEPT 
                       !.copies = Diverged(Resolve(db, req[q].source), Resolve(db, req[q].seen.working))]
  <2>1. At(q, "diverge") /\ (Leave(q) \/ Fail(q) \/ Continue(q, r))
    BY <1>16 DEF Diverge
  <2>2. IsRow(r, RequestFields) /\ r.job = req[q].job
    BY <1>1, <1>2, <2>1 DEF IsRow, RequestFields
  <2> HIDE DEF r
  <2> QED BY <1>1, <1>3, <1>4, <2>1, <2>2
<1>17. CASE ResolveFrame(q)
  <2> DEFINE r == [req[q] EXCEPT !.frame = Framed(q, db.exploration)]
  <2>1. At(q, "resolve") /\ (Leave(q) \/ Fail(q) \/ Continue(q, r))
    BY <1>17 DEF ResolveFrame
  <2>2. IsRow(r, RequestFields) /\ r.job = req[q].job
    BY <1>1, <1>2, <2>1 DEF IsRow, RequestFields
  <2> HIDE DEF r
  <2> QED BY <1>1, <1>3, <1>4, <2>1, <2>2
<1>18. CASE Relist(q)
  <2> DEFINE r == [req[q] EXCEPT !.listed = Transient(db)]
  <2>1. At(q, "relist") /\ (Leave(q) \/ Fail(q) \/ Continue(q, r))
    BY <1>18 DEF Relist
  <2>2. IsRow(r, RequestFields) /\ r.job = req[q].job
    BY <1>1, <1>2, <2>1 DEF IsRow, RequestFields
  <2> HIDE DEF r
  <2> QED BY <1>1, <1>3, <1>4, <2>1, <2>2
<1>19. CASE All(q)
  <2> DEFINE r == [req[q] EXCEPT !.listed = Listed(db)]
  <2>1. At(q, "all") /\ (Leave(q) \/ Fail(q) \/ Continue(q, r))
    BY <1>19 DEF All
  <2>2. IsRow(r, RequestFields) /\ r.job = req[q].job
    BY <1>1, <1>2, <2>1 DEF IsRow, RequestFields
  <2> HIDE DEF r
  <2> QED BY <1>1, <1>3, <1>4, <2>1, <2>2
<1>20. CASE Beyond(q)
  <2> DEFINE r == [req[q] EXCEPT !.listed = AllBut(Listed(db), Retained)]
  <2>1. At(q, "beyond") /\ (Leave(q) \/ Fail(q) \/ Continue(q, r))
    BY <1>20 DEF Beyond
  <2>2. IsRow(r, RequestFields) /\ r.job = req[q].job
    BY <1>1, <1>2, <2>1 DEF IsRow, RequestFields
  <2> HIDE DEF r
  <2> QED BY <1>1, <1>3, <1>4, <2>1, <2>2
<1>21. CASE Inputs(q)
  <2> DEFINE r == [req[q] EXCEPT !.run = Newest(req[q].listed).run]
  <2>1. At(q, "inputs") /\ (Leave(q) \/ Fail(q) \/ Continue(q, r))
    BY <1>21 DEF Inputs
  <2>2. IsRow(r, RequestFields) /\ r.job = req[q].job
    BY <1>1, <1>2, <2>1 DEF IsRow, RequestFields
  <2> HIDE DEF r
  <2> QED BY <1>1, <1>3, <1>4, <2>1, <2>2
<1>22. CASE Reload(q)
  <2> DEFINE r == [req[q] EXCEPT 
                       !.books = IF req[q].run \in db.books THEN captured[req[q].run] ELSE None]
  <2>1. At(q, "reload") /\ (Leave(q) \/ Fail(q) \/ Continue(q, r))
    BY <1>22 DEF Reload
  <2>2. IsRow(r, RequestFields) /\ r.job = req[q].job
    BY <1>1, <1>2, <2>1 DEF IsRow, RequestFields
  <2> HIDE DEF r
  <2> QED BY <1>1, <1>3, <1>4, <2>1, <2>2
<1>23. CASE SaveBooks(q)
  <2> DEFINE r == [req[q] EXCEPT !.run = db.runs + 1]
  <2>1. At(q, "saveBooks") /\ (Leave(q) \/ Fail(q) \/ Continue(q, r))
    BY <1>23 DEF SaveBooks
  <2>2. IsRow(r, RequestFields) /\ r.job = req[q].job
    BY <1>1, <1>2, <2>1 DEF IsRow, RequestFields
  <2> HIDE DEF r
  <2> QED BY <1>1, <1>3, <1>4, <2>1, <2>2
<1>24. CASE CaptureSaved(q)
  <2> DEFINE r == [req[q] EXCEPT !.frame = req[q].job.frame]
  <2>1. At(q, "captureSaved") /\ (Leave(q) \/ Fail(q) \/ Continue(q, r))
    BY <1>24 DEF CaptureSaved
  <2>2. IsRow(r, RequestFields) /\ r.job = req[q].job
    BY <1>1, <1>2, <2>1 DEF IsRow, RequestFields
  <2> HIDE DEF r
  <2> QED BY <1>1, <1>3, <1>4, <2>1, <2>2
<1>25. CASE Get(q)
  <2> DEFINE r == [req[q] EXCEPT !.listed = Restrict(db.results, {n \in DOMAIN db.results :
                      /\ db.results[n].run = req[q].run
                      /\ Kind(q) = "deleteRun" => db.results[n].role = "SAVED"})]
  <2>1. At(q, "get") /\ (Leave(q) \/ Fail(q) \/ Continue(q, r))
    BY <1>25 DEF Get
  <2>2. IsRow(r, RequestFields) /\ r.job = req[q].job
    BY <1>1, <1>2, <2>1 DEF IsRow, RequestFields
  <2> HIDE DEF r
  <2> QED BY <1>1, <1>3, <1>4, <2>1, <2>2
<1>26. CASE \/ Seed(q) \/ RecordFrame(q) \/ Overwrite(q) \/ Save(q) \/ Drift(q) \/ Capture(q) \/ Drop(q)
            \/ Keep(q) \/ Insert(q) \/ Count(q) \/ Delete(q) \/ EditProfile(q) \/ Respond(q)
            \/ (\E c \in Pairs : Orphan(q, c))
  <2>1. (\E step : At(q, step)) /\ (Leave(q) \/ Fail(q) \/ Continue(q, req[q]))
    BY <1>26, Zenon DEF Seed, RecordFrame, Overwrite, Save, Drift, Capture, Drop, Keep, Insert, Count, Delete,
       EditProfile, Respond, Orphan
  <2> QED BY <1>1, <1>5, <2>1
<1>6. CASE Strip(q)
  <2> DEFINE r == [req[q] EXCEPT !.listed = Transient(db)]
  <2>1. IsRow(r, RequestFields) /\ r.job = req[q].job
    BY <1>6, <1>1, <1>2 DEF Strip, IsRow, RequestFields
  <2>2. /\ Head(req[q].todo) = "strip" /\ req[q].todo # <<>>
        /\ \E t : t \in {RunSteps \o <<"relist">> \o Tail(req[q].todo), <<>> \o Tail(req[q].todo)} /\ Proceed(q, r, t)
    BY <1>6, <1>1 DEF Strip
  <2> HIDE DEF r
  <2> QED BY <2>1, <2>2, <1>2 DEF Onwards, Turn
<1>7. CASE Sandbox(q)
  <2> DEFINE r == [req[q] EXCEPT !.seen = db.exploration, !.profile = db.profile]
  <2>1. /\ At(q, "sandbox")
        /\ \/ Proceed(q, req[q], SubSeq(req[q].todo, Len(RunSteps) + 1, Len(req[q].todo)))
           \/ Continue(q, r)
    BY <1>7 DEF Sandbox
  <2>2. IsRow(r, RequestFields) /\ r.job = req[q].job
    BY <1>1, <1>2, <2>1 DEF IsRow, RequestFields
  <2> HIDE DEF r
  <2>3. req[q].todo # <<>> /\ Head(req[q].todo) = "sandbox" /\ IsRow(req[q], RequestFields)
    BY <1>1, <1>2, <2>1, Zenon
  <2> DEFINE t == SubSeq(req[q].todo, Len(RunSteps) + 1, Len(req[q].todo))
  <2>4. Turn(req[q].todo, t)
    BY <2>3 DEF Turn
  <2> HIDE DEF t
  <2>5. Proceed(q, req[q], t) \/ Continue(q, r)
    BY <2>1 DEF t
  <2> QED BY <1>3, <2>2, <2>3, <2>4, <2>5 DEF Onwards
<1>9. CASE Lookup(q) \/ Users(q, "planUsers", "plans") \/ Users(q, "assumptionUsers", "assumptions")
  <2>1. /\ req[q].todo # <<>>
        /\ \/ Continue(q, req[q])
           \/ Head(req[q].todo) = "lookup" /\ Proceed(q, req[q], <<"reload", "insert">>)
           \/ /\ Head(req[q].todo) \in {"planUsers", "assumptionUsers"}
              /\ Proceed(q, req[q], Tail(Tail(req[q].todo)))
    BY <1>9, <1>1 DEF Lookup, Users
  <2> QED BY <1>2, <1>3, <2>1 DEF Onwards, Turn
<1>8. Onwards(q)
  BY <1>6, <1>7, <1>9, <1>11, <1>12, <1>13, <1>14, <1>15, <1>16, <1>17, <1>18, <1>19, <1>20, <1>21, <1>22,
     <1>23, <1>24, <1>25, <1>26 DEF Step
<1> QED BY <1>8
-----------------------------------------------------------------------------
(* What a request that nothing overtook knows of the rows, and the pile of transient runs. *)

\* No set serves one scenario as its plans and another as its assumptions.
Sorted(d) == \A s, t \in Scenarios(d) : d.scenarios[s].plans # d.scenarios[t].assumptions

\* A request that saves the sandbox back holds what the rows hold.
Current(d, r) ==
    /\ d.exploration # NoRow /\ r.seen = d.exploration /\ r.source = d.exploration.source
    /\ r.copies = IF r.job.kind = "branch" /\ Head(r.todo) # "diverge"
                  THEN Diverged(Resolve(d, r.source), Resolve(d, r.seen.working)) ELSE {}
    /\ Head(r.todo) = "save" => r.inputs = Resolve(d, r.seen.working)
Informed(d, r) ==
    r.todo # <<>> /\ r.job.kind \in Savers =>
        /\ Head(r.todo) = "find" => r.copies = {}
        /\ Head(r.todo) \notin {"find", "respond"} => Current(d, r)

Tracked ==
    /\ Sorted(db) /\ deaths \in Nat
    /\ \A q \in Requests : req[q].todo # <<>> => Path(req[q].job.kind, req[q].todo)
    /\ \A q \in Requests \ overtaken : Informed(db, req[q])
Tracks == Working /\ Tracked

\* Rows that only go.
Fewer(d, e) == \A s \in Scenarios(e) : s \in Scenarios(d) /\ e.scenarios[s] = d.scenarios[s]

LEMMA FewerSorted == ASSUME NEW d, NEW e, Sorted(d), Fewer(d, e) PROVE Sorted(e)
BY DEF Fewer, Sorted

LEMMA MintedSorted ==
    ASSUME NEW d, Whole(d), Sorted(d), NEW role, NEW components \in SUBSET Pairs, NEW given, NEW values,
           components = Pairs \/ \E s \in Scenarios(d) : given = d.scenarios[s]
    PROVE  Sorted(Minted(d, role, components, given, values))
<1> DEFINE e == Minted(d, role, components, given, values)
           n == d.next + 2
<1>1. d.next \in Nat /\ IsRow(d, DbFields) /\ n \notin Scenarios(d)
  BY DEF Whole, Halved
<1>2. Scenarios(e) = Scenarios(d) \cup {n} /\ \A s \in Scenarios(d) : e.scenarios[s] = d.scenarios[s]
  BY <1>1 DEF Minted, IsRow, DbFields, Scenarios
<1>3. /\ e.scenarios[n].plans = IF "plans" \in components THEN d.next ELSE given.plans
      /\ e.scenarios[n].assumptions = IF "assumptions" \in components THEN d.next + 1 ELSE given.assumptions
  BY <1>1 DEF Minted, IsRow, DbFields, FreshSet
<1> HIDE DEF e
<1>4. \A s \in Scenarios(d) : /\ d.scenarios[s].plans \in Nat /\ d.scenarios[s].plans < d.next
                              /\ d.scenarios[s].assumptions \in Nat /\ d.scenarios[s].assumptions < d.next
  BY DEF Whole, Halved, Pairs
<1>5. d.next # d.next + 1 /\ \A m \in Nat : m < d.next => m # d.next /\ m # d.next + 1
  BY <1>1
<1>6. e.scenarios[n].plans = d.next \/ \E s \in Scenarios(d) : e.scenarios[n].plans = d.scenarios[s].plans
  BY <1>3 DEF Pairs
<1>7. \/ e.scenarios[n].assumptions = d.next + 1
      \/ \E s \in Scenarios(d) : e.scenarios[n].assumptions = d.scenarios[s].assumptions
  BY <1>3 DEF Pairs
<1>8. e.scenarios[n].plans # e.scenarios[n].assumptions
  BY <1>4, <1>5, <1>6, <1>7 DEF Sorted
<1>9. \A s \in Scenarios(d) : /\ e.scenarios[s].plans # e.scenarios[n].assumptions
                              /\ e.scenarios[n].plans # e.scenarios[s].assumptions
  BY <1>2, <1>4, <1>5, <1>6, <1>7 DEF Sorted
<1>10. \A s, t \in Scenarios(d) : e.scenarios[s].plans # e.scenarios[t].assumptions
  BY <1>2 DEF Sorted
<1> QED BY <1>2, <1>8, <1>9, <1>10 DEF Sorted, e

\* What each write does to the scenarios.
LEMMA ScenariosFewer ==
    ASSUME NEW d, IsRow(d, DbFields)
    PROVE  /\ \A gone : Fewer(d, WithoutScenarios(d, gone))
           /\ \A id : Fewer(d, WithoutSet(d, id))
<1>1. ASSUME NEW e, IsRow(e, DbFields), NEW gone
      PROVE  Fewer(e, WithoutScenarios(e, gone))
  <2> DEFINE f == [e EXCEPT !.scenarios = Restrict(@, DOMAIN @ \ gone)]
  <2>1. /\ IsRow(f, DbFields) /\ DOMAIN f.scenarios \subseteq DOMAIN e.scenarios
        /\ \A s \in DOMAIN f.scenarios : f.scenarios[s] = e.scenarios[s]
    <3>1. IsRow(f, DbFields) /\ f.scenarios = Restrict(e.scenarios, DOMAIN e.scenarios \ gone)
      BY <1>1 DEF IsRow, DbFields
    <3> HIDE DEF f
    <3> QED BY <3>1 DEF Restrict
  <2>2. WithoutScenarios(e, gone) \in {f, Teardown(f)}
    BY DEF WithoutScenarios
  <2> HIDE DEF f
  <2>3. /\ DOMAIN Teardown(f).scenarios \subseteq DOMAIN f.scenarios
        /\ \A s \in DOMAIN Teardown(f).scenarios : Teardown(f).scenarios[s] = f.scenarios[s]
    <3>1. Teardown(f).scenarios = Restrict(f.scenarios, DOMAIN f.scenarios \ {f.exploration.working})
      BY <2>1 DEF Teardown, WithoutRuns, IsRow, DbFields
    <3> QED BY <3>1 DEF Restrict
  <2> QED BY <2>1, <2>2, <2>3 DEF Fewer, Scenarios
<1>2. ASSUME NEW id PROVE Fewer(d, WithoutSet(d, id))
  <2> DEFINE e == [d EXCEPT !.sets = Restrict(@, DOMAIN @ \ {id})]
             gone == {s \in Saved(d) : id \in SetsOf(d, s)}
  <2>1. IsRow(e, DbFields) /\ e.scenarios = d.scenarios
    BY DEF IsRow, DbFields
  <2>2. WithoutSet(d, id) = WithoutScenarios(e, gone)
    BY DEF WithoutSet
  <2> HIDE DEF e, gone
  <2>3. Fewer(e, WithoutScenarios(e, gone))
    BY <1>1, <2>1
  <2> QED BY <2>1, <2>2, <2>3 DEF Fewer, Scenarios
<1> QED BY <1>1, <1>2

\* Writing values, minting rows beside others or deleting some, the sets stay sorted.
LEMMA StaysSorted ==
    ASSUME Working, Sorted(db), NEW q \in Requests, Step(q) PROVE Sorted(db')
<1>0. Whole(db) /\ IsRow(db, DbFields)
  BY DEF Working, Whole, Halved
<1>1. db'.scenarios = db.scenarios => Sorted(db')
  BY DEF Sorted, Scenarios
<1>2. CASE Seed(q)
  <2>1. db' = db \/ db' = Seeded(db, req[q].source, req[q].inputs)
    BY <1>2 DEF Seed
  <2>2. CASE db' = Seeded(db, req[q].source, req[q].inputs) /\ db.exploration # NoRow
    <3> DEFINE w == Written(db, db.exploration.working, Pairs, req[q].inputs)
    <3>1. IsRow(w, DbFields) /\ w.scenarios = db.scenarios
      BY <1>0, WrittenWhole, RowsOnly
    <3>2. db' = [w EXCEPT !.exploration.source = req[q].source, !.seedings = @ + 1]
      BY <2>2 DEF Seeded
    <3> HIDE DEF w
    <3>3. db'.scenarios = db.scenarios
      BY <3>1, <3>2 DEF IsRow, DbFields
    <3> QED BY <3>3, <1>1
  <2>3. CASE db' = Seeded(db, req[q].source, req[q].inputs) /\ db.exploration = NoRow
    <3> DEFINE m == Minted(db, "WORKING", Pairs, <<>>, req[q].inputs)
               row == [id |-> db.next + 2, working |-> db.next + 2, source |-> req[q].source, frame |-> None]
    <3>1. Sorted(m) /\ IsRow(m, DbFields)
      BY <1>0, MintedSorted, RowsOnly
    <3>2. db' = [m EXCEPT !.exploration = row, !.seedings = @ + 1]
      BY <2>3 DEF Seeded
    <3> HIDE DEF m, row
    <3>3. db'.scenarios = m.scenarios
      BY <3>1, <3>2 DEF IsRow, DbFields
    <3> QED BY <3>1, <3>3 DEF Sorted, Scenarios
  <2> QED BY <1>1, <2>1, <2>2, <2>3
<1>3. CASE Save(q)
  <2> DEFINE r == req[q]
             kept == Written(db, r.source, Pairs \ r.copies, r.inputs)
             m    == Minted(kept, "SAVED", r.copies, db.scenarios[r.source], r.inputs)
             d    == IF r.copies # {} THEN m ELSE kept
             row  == [r.seen EXCEPT !.source = IF r.copies # {} THEN db.next + 2 ELSE r.source]
  <2>1. db' = db \/ (r.source \in Scenarios(db) /\ db' = [d EXCEPT !.exploration = row])
    BY <1>3 DEF Save, ExplorationSaved
  <2>2. Whole(kept) /\ IsRow(kept, DbFields) /\ kept.scenarios = db.scenarios
    BY <1>0, WrittenWhole, RowsOnly
  <2>3. r.copies \in SUBSET Pairs
    BY <1>3, Here DEF Save, Base
  <2> HIDE DEF kept
  <2>4. Sorted(kept)
    BY <2>2 DEF Sorted, Scenarios
  <2>5. r.source \in Scenarios(db) => Sorted(m) /\ IsRow(m, DbFields)
    BY <2>2, <2>3, <2>4, MintedSorted, RowsOnly DEF Scenarios
  <2> HIDE DEF m
  <2>6. r.source \in Scenarios(db) => Sorted(d) /\ IsRow(d, DbFields)
    BY <2>2, <2>4, <2>5
  <2> HIDE DEF d, row
  <2>7. r.source \in Scenarios(db) => [d EXCEPT !.exploration = row].scenarios = d.scenarios
    BY <2>6 DEF IsRow, DbFields
  <2> QED BY <1>1, <2>1, <2>6, <2>7 DEF Sorted, Scenarios
<1>4. CASE Delete(q) \/ \E c \in Pairs : Orphan(q, c)
  <2>1. db' = db \/ Fewer(db, db')
    BY <1>0, <1>4, ScenariosFewer DEF Delete, Orphan
  <2> QED BY <1>1, <2>1, FewerSorted
<1>5. CASE RecordFrame(q) \/ Overwrite(q)
  <2>1. \/ db' = db \/ (\E row : db' = [db EXCEPT !.exploration = row])
        \/ \E s, values : db' = Written(db, s, Pairs, values)
    BY <1>5 DEF RecordFrame, Overwrite, ExplorationSaved
  <2>2. db'.scenarios = db.scenarios
    BY <1>0, <2>1, WrittenWhole DEF IsRow, DbFields
  <2> QED BY <1>1, <2>2
<1>6. CASE SaveBooks(q) \/ Capture(q) \/ CaptureSaved(q) \/ Drop(q) \/ Keep(q) \/ EditProfile(q)
  <2>1. db'.scenarios = db.scenarios
    BY <1>0, <1>6 DEF SaveBooks, Capture, CaptureSaved, Captured, Drop, WithoutRuns, Keep, EditProfile, IsRow, DbFields
  <2> QED BY <1>1, <2>1
<1>7. CASE \/ Find(q) \/ Again(q) \/ Choose(q) \/ LoadSource(q) \/ LoadWorking(q) \/ Diverge(q)
           \/ ResolveFrame(q) \/ Strip(q) \/ Relist(q) \/ Drift(q) \/ Sandbox(q) \/ All(q) \/ Beyond(q)
           \/ Get(q) \/ Inputs(q) \/ Lookup(q) \/ Reload(q) \/ Insert(q) \/ Count(q)
           \/ Users(q, "planUsers", "plans") \/ Users(q, "assumptionUsers", "assumptions") \/ Respond(q)
  <2>1. db' = db
    BY <1>7, Zenon DEF Reads, Find, Again, Choose, LoadSource, LoadWorking, Diverge, ResolveFrame, Strip, Relist,
       Drift, Sandbox, All, Beyond, Get, Inputs, Lookup, Reload, Insert, Count, Users, Respond
  <2> QED BY <1>1, <2>1
<1> QED BY <1>2, <1>3, <1>4, <1>5, <1>6, <1>7 DEF Step

\* A request takes the step its program is at.
LEMMA Taken ==
    ASSUME NEW q, Step(q)
    PROVE  /\ At(q, "find") => Find(q)
           /\ At(q, "again") => Again(q)
           /\ At(q, "diverge") => Diverge(q)
           /\ At(q, "loadWorking") => LoadWorking(q)
           /\ At(q, "save") => Save(q)
           /\ At(q, "respond") => Respond(q)
           /\ At(q, "resolve") => ResolveFrame(q)
           /\ At(q, "strip") => Strip(q)
           /\ At(q, "drift") => Drift(q)
           /\ At(q, "sandbox") => Sandbox(q)
           /\ At(q, "saveBooks") => SaveBooks(q)
           /\ At(q, "capture") => Capture(q)
           /\ At(q, "seed") => Seed(q)
           /\ At(q, "all") => All(q)
           /\ At(q, "drop") => Drop(q)
<1>1. \A a, b : At(q, a) /\ At(q, b) => a = b
  BY DEF At
<1>2. /\ Find(q) => At(q, "find")
      /\ Again(q) => At(q, "again")
      /\ Choose(q) => At(q, "choose")
      /\ LoadSource(q) => At(q, "loadSource")
      /\ LoadWorking(q) => At(q, "loadWorking")
      /\ Diverge(q) => At(q, "diverge")
      /\ Seed(q) => At(q, "seed")
      /\ RecordFrame(q) => At(q, "frame")
      /\ Overwrite(q) => At(q, "overwrite")
      /\ Save(q) => At(q, "save")
      /\ ResolveFrame(q) => At(q, "resolve")
      /\ Strip(q) => At(q, "strip")
      /\ Relist(q) => At(q, "relist")
      /\ Drift(q) => At(q, "drift")
      /\ Sandbox(q) => At(q, "sandbox")
      /\ SaveBooks(q) => At(q, "saveBooks")
  BY DEF Find, Again, Choose, LoadSource, LoadWorking, Diverge, Seed, RecordFrame, Overwrite, Save, ResolveFrame, Strip, Relist, Drift, Sandbox, SaveBooks
<1>3. /\ Capture(q) => At(q, "capture")
      /\ CaptureSaved(q) => At(q, "captureSaved")
      /\ All(q) => At(q, "all")
      /\ Beyond(q) => At(q, "beyond")
      /\ Drop(q) => At(q, "drop")
      /\ Get(q) => At(q, "get")
      /\ Keep(q) => At(q, "keep")
      /\ Inputs(q) => At(q, "inputs")
      /\ Lookup(q) => At(q, "lookup")
      /\ Reload(q) => At(q, "reload")
      /\ Insert(q) => At(q, "insert")
      /\ Count(q) => At(q, "count")
      /\ Delete(q) => At(q, "delete")
      /\ EditProfile(q) => At(q, "edit")
      /\ Respond(q) => At(q, "respond")
  BY DEF Capture, CaptureSaved, All, Beyond, Drop, Get, Keep, Inputs, Lookup, Reload, Insert, Count, Delete, EditProfile, Respond
<1>4. /\ Users(q, "planUsers", "plans") => At(q, "planUsers")
      /\ Users(q, "assumptionUsers", "assumptions") => At(q, "assumptionUsers")
      /\ \A c \in Pairs : Orphan(q, c) => At(q, "plans") \/ At(q, "assumptions")
  BY DEF Users, Orphan, Pairs
<1> QED BY <1>1, <1>2, <1>3, <1>4 DEF Step

\* A request that is moved on, and the others.
LEMMA Others ==
    ASSUME Ordered, NEW q \in Requests, Serve(q), NEW p \in Requests, p # q
    PROVE  /\ req'[p] = req[p]
           /\ p \notin overtaken' /\ req[p].todo # <<>> => p \notin overtaken /\ Editable(db') = Editable(db)
<1>1. req'[p] = req[p]
  BY Proceeds, Moved DEF Serve, Onwards
<1>2. overtaken' = overtaken \cup {o \in Requests \ {q} : req[o].todo # <<>> /\ Editable(db') # Editable(db)}
  BY DEF Serve
<1> QED BY <1>1, <1>2

LEMMA InformedOn ==
    ASSUME NEW d, NEW e, Editable(d) = Editable(e), NEW r, Informed(d, r) PROVE Informed(e, r)
<1>1. e.scenarios = d.scenarios /\ e.sets = d.sets /\ e.exploration = d.exploration
  BY DEF Editable
<1>2. \A s : Resolve(e, s) = Resolve(d, s)
  BY <1>1 DEF Resolve
<1> QED BY <1>1, <1>2 DEF Informed, Current

\* What a request is left with.
LEMMA Retains ==
    ASSUME NEW r, NEW t, IsRow(r, RequestFields), t # <<>>
    PROVE  /\ After(r, t).todo = t
           /\ After(r, t).job = r.job
           /\ After(r, t).seen = r.seen
           /\ After(r, t).source = r.source
           /\ After(r, t).copies = r.copies
           /\ After(r, t).inputs = r.inputs
           /\ After(r, t).profile = r.profile
           /\ After(r, t).listed = r.listed
           /\ After(r, t).run = r.run
BY DEF After, IsRow, RequestFields

LEMMA PathsOn ==
    ASSUME Ordered, NEW q \in Requests, Step(q),
           \A p \in Requests : req[p].todo # <<>> => Path(req[p].job.kind, req[p].todo)
    PROVE  /\ \A p \in Requests : req'[p].todo # <<>> => Path(req'[p].job.kind, req'[p].todo)
           /\ req'[q].todo # <<>> => /\ req'[q].job = req[q].job
                                     /\ Turn(req[q].todo, req'[q].todo)
<1>1. PICK r, t : Proceed(q, r, t) /\ IsRow(r, RequestFields) /\ r.job = req[q].job /\ Turn(req[q].todo, t)
  BY Proceeds DEF Onwards
<1>2. req[q].todo # <<>> /\ Orderly(req[q].todo)
  BY Proceeds
<1>3. req'[q] = After(r, t) /\ \A p \in Requests : p # q => req'[p] = req[p]
  BY <1>1, Moved
<1>4. t # <<>> => req'[q].todo = t /\ req'[q].job = req[q].job
  BY <1>1, <1>3, Retains
<1>5. t = <<>> => req'[q].todo = <<>>
  BY <1>3, Idles DEF After
<1>6. t # <<>> => Path(req[q].job.kind, t)
  BY <1>1, <1>2, TurnPath
<1> QED BY <1>1, <1>3, <1>4, <1>5, <1>6

\* A request that saves back, and that nothing overtook, learns what the rows hold.
LEMMA Informs ==
    ASSUME Tracks, NEW q \in Requests, Serve(q), q \notin overtaken', req'[q].todo # <<>>,
           req[q].job.kind \in Savers
    PROVE  Informed(db', req'[q])
<1> DEFINE s == req[q].todo
           u == req'[q]
           a == Head(req[q].todo)
           b == Head(req'[q].todo)
           kind == req[q].job.kind
<1>0. Ordered /\ Step(q) /\ q \notin overtaken /\ Informed(db, req[q]) /\ Whole(db)
  BY DEF Tracks, Tracked, Working, Serve
<1>1. s # <<>> /\ Orderly(s) /\ Path(kind, s) /\ IsRow(req[q], RequestFields)
  BY <1>0, Proceeds DEF Tracks, Tracked, Ordered, Tidy
<1>2. /\ u.job = req[q].job /\ Turn(s, u.todo) /\ Path(kind, u.todo)
  BY <1>0, PathsOn DEF Tracks, Tracked
<1>3. At(q, a) /\ Visits(kind, a)
  BY <1>1, TailPath DEF At
<1>4. a \in {"find", "diverge", "again", "loadWorking", "save", "respond"}
  BY <1>3 DEF Visits
<1>5. /\ Leads(kind, a, b) /\ u.todo = Tail(s)
      \/ b \in Elsewhere \ {"again"}
  <2>1. kind \notin RunPages /\ kind # "view"
    BY DEF RunPages, Savers
  <2>2. s # <<>> /\ u.todo # <<>>
    BY <1>1
  <2>3. \/ Leads(kind, Head(s), Head(u.todo)) /\ u.todo = Tail(s)
        \/ Head(u.todo) \in Elsewhere /\ (Head(u.todo) = "again" => kind \in RunPages)
        \/ kind = "view" /\ Head(s) = "strip" /\ Head(u.todo) = "sandbox"
    BY <1>1, <1>2, <2>2, TurnPath
  <2> HIDE DEF s, u, kind
  <2> QED BY <2>1, <2>3 DEF s, u
<1>6. kind \notin RunPages /\ Orderly(u.todo)
  <2>1. Ordered'
    BY <1>0, StepsWorking DEF Tracks, Working, Next, Serve
  <2> QED BY <2>1 DEF Ordered, Tidy, RunPages, Savers
<1>7. Visits(kind, b)
  BY <1>2, <1>6, TailPath
<1>8. b = "respond" \/ (Leads(kind, a, b) /\ u.todo = Tail(s) /\ b \in {"diverge", "again", "loadWorking", "save"})
  BY <1>5, <1>7 DEF Elsewhere, Visits, Leads
<1>9. CASE b = "respond"
  BY <1>9 DEF Informed
<1>10. ASSUME Leads(kind, a, b), u.todo = Tail(s), b \in {"diverge", "again", "loadWorking", "save"}, a = "find"
       PROVE  Current(db', u)
  <2> DEFINE r == [req[q] EXCEPT !.seen = db.exploration, !.source = db.exploration.source,
                                   !.working = db.exploration.working]
  <2>1. Find(q) /\ db' = db
    BY <1>0, <1>3, <1>10, Taken DEF Find, Reads
  <2>2. req[q].copies = {}
    BY <1>0, <1>1, <1>10 DEF Informed
  <2>3. IsRow(r, RequestFields) /\ r.seen = db.exploration /\ r.source = db.exploration.source /\ r.copies = {}
    BY <1>1, <2>2 DEF IsRow, RequestFields
  <2>4. (Leave(q) /\ db.exploration = NoRow) \/ (Continue(q, r) /\ db.exploration # NoRow)
    BY <2>1 DEF Find
  <2> HIDE DEF r
  <2>5. ~Leave(q)
    <3> SUFFICES ASSUME Leave(q) PROVE FALSE
      OBVIOUS
    <3>1. Proceed(q, req[q], <<"respond">>) \/ Proceed(q, req[q], <<>>)
      BY DEF Leave
    <3>2. <<"respond">> # <<>> /\ Head(<<"respond">>) = "respond"
      OBVIOUS
    <3>3. u = After(req[q], <<"respond">>) \/ u = Idle
      BY <1>0, <3>1, Moved DEF After
    <3>4. After(req[q], <<"respond">>).todo = <<"respond">>
      BY <1>1, <3>2, Retains
    <3>5. u.todo = <<"respond">> \/ u.todo = <<>>
      BY <3>3, <3>4, Idles
    <3> QED BY <3>2, <3>5, <1>10
  <2>6. \E t : u = After(r, t) /\ t # <<>>
    <3>1. Proceed(q, r, Tail(s))
      BY <2>4, <2>5 DEF Continue
    <3>2. u = After(r, Tail(s))
      BY <1>0, <3>1, Moved
    <3> QED BY <1>10, <3>2
  <2>7. u.seen = db.exploration /\ u.source = db.exploration.source /\ u.copies = {}
    BY <2>3, <2>6, Retains
  <2>8. b # "save" /\ (kind = "branch" => b = "diverge")
    BY <1>10 DEF Leads
  <2> QED BY <1>2, <2>1, <2>4, <2>5, <2>7, <2>8 DEF Current
<1>11. ASSUME a \notin {"find", "respond"} PROVE Current(db, req[q])
  BY <1>0, <1>1, <1>11 DEF Informed
<1>12. ASSUME Leads(kind, a, b), u.todo = Tail(s), b \in {"diverge", "again", "loadWorking", "save"}, a = "again"
       PROVE  Current(db', u)
  <2> DEFINE r == [req[q] EXCEPT !.seen = db.exploration]
  <2>1. Again(q) /\ db' = db /\ Current(db, req[q])
    BY <1>0, <1>3, <1>11, <1>12, Taken DEF Again, Reads
  <2>2. /\ IsRow(r, RequestFields) /\ r.seen = db.exploration /\ r.source = req[q].source
        /\ r.copies = req[q].copies
    BY <1>1 DEF IsRow, RequestFields
  <2>3. Continue(q, r)
    BY <2>1 DEF Again, Current
  <2> HIDE DEF r
  <2>4. \E t : u = After(r, t) /\ t # <<>>
    <3>1. Proceed(q, r, Tail(s))
      BY <2>3 DEF Continue
    <3>2. u = After(r, Tail(s))
      BY <1>0, <3>1, Moved
    <3> QED BY <1>12, <3>2
  <2>5. u.seen = db.exploration /\ u.source = req[q].source /\ u.copies = req[q].copies
    BY <2>2, <2>4, Retains
  <2>6. b = "loadWorking"
    BY <1>12 DEF Leads
  <2> QED BY <1>2, <1>12, <2>1, <2>5, <2>6 DEF Current
<1>13. ASSUME Leads(kind, a, b), u.todo = Tail(s), b \in {"diverge", "again", "loadWorking", "save"}, a = "diverge"
       PROVE  Current(db', u)
  <2> DEFINE x == Diverged(Resolve(db, req[q].source), Resolve(db, req[q].seen.working))
             r == [req[q] EXCEPT !.copies = x]
  <2>1. Diverge(q) /\ db' = db /\ Current(db, req[q])
    BY <1>0, <1>3, <1>11, <1>13, Taken DEF Diverge, Reads
  <2>2. IsRow(r, RequestFields) /\ r.seen = req[q].seen /\ r.source = req[q].source /\ r.copies = x
    BY <1>1 DEF IsRow, RequestFields
  <2>3. Fail(q) \/ Continue(q, r)
    BY <2>1 DEF Diverge
  <2> HIDE DEF r, x
  <2>4. Continue(q, r)
    <3>1. Fail(q) => req'[q] = Idle
      BY <1>0, Moved DEF Fail, After
    <3> QED BY <3>1, <2>3, Idles
  <2>5. \E t : u = After(r, t) /\ t # <<>>
    <3>1. Proceed(q, r, Tail(s))
      BY <2>4 DEF Continue
    <3>2. u = After(r, Tail(s))
      BY <1>0, <3>1, Moved
    <3> QED BY <1>13, <3>2
  <2>6. u.seen = req[q].seen /\ u.source = req[q].source /\ u.copies = x
    BY <2>2, <2>5, Retains
  <2>7. b = "again" /\ kind = "branch"
    BY <1>3, <1>13 DEF Leads, Visits
  <2> QED BY <1>2, <2>1, <2>6, <2>7 DEF Current, x
<1>14. ASSUME Leads(kind, a, b), u.todo = Tail(s), b \in {"diverge", "again", "loadWorking", "save"}, a = "loadWorking"
       PROVE  Current(db', u)
  <2> DEFINE x == Resolve(db, req[q].seen.working)
             r == [req[q] EXCEPT !.inputs = x]
  <2>1. LoadWorking(q) /\ db' = db /\ Current(db, req[q])
    BY <1>0, <1>3, <1>11, <1>14, Taken DEF LoadWorking, Reads
  <2>2. /\ IsRow(r, RequestFields) /\ r.seen = req[q].seen /\ r.source = req[q].source
        /\ r.copies = req[q].copies /\ r.inputs = x
    BY <1>1 DEF IsRow, RequestFields
  <2>3. Fail(q) \/ Continue(q, r)
    BY <2>1 DEF LoadWorking
  <2> HIDE DEF r, x
  <2>4. Continue(q, r)
    <3>1. Fail(q) => req'[q] = Idle
      BY <1>0, Moved DEF Fail, After
    <3> QED BY <3>1, <2>3, Idles
  <2>5. \E t : u = After(r, t) /\ t # <<>>
    <3>1. Proceed(q, r, Tail(s))
      BY <2>4 DEF Continue
    <3>2. u = After(r, Tail(s))
      BY <1>0, <3>1, Moved
    <3> QED BY <1>14, <3>2
  <2>6. u.seen = req[q].seen /\ u.source = req[q].source /\ u.copies = req[q].copies /\ u.inputs = x
    BY <2>2, <2>5, Retains
  <2>7. b # "diverge"
    BY <1>14 DEF Leads
  <2> QED BY <1>2, <1>14, <2>1, <2>6, <2>7 DEF Current, x
<1>15. ASSUME Leads(kind, a, b), b \in {"diverge", "again", "loadWorking", "save"}
       PROVE  a \notin {"save", "respond"}
  BY <1>15 DEF Leads
<1>16. CASE Leads(kind, a, b) /\ u.todo = Tail(s) /\ b \in {"diverge", "again", "loadWorking", "save"}
  <2>1. Current(db', u)
    BY <1>4, <1>10, <1>12, <1>13, <1>14, <1>15, <1>16
  <2> QED BY <1>16, <2>1 DEF Informed
<1> QED BY <1>8, <1>9, <1>16

LEMMA StepsTracked ==
    ASSUME Tracks, NEW q \in Requests, Serve(q) PROVE Tracked'
<1>0. Ordered /\ Working /\ Step(q) /\ Sorted(db) /\ deaths \in Nat /\ deaths' = deaths
  BY DEF Tracks, Tracked, Working, Serve
<1>1. Sorted(db')
  BY <1>0, StaysSorted
<1>2. \A p \in Requests : req'[p].todo # <<>> => Path(req'[p].job.kind, req'[p].todo)
  BY <1>0, PathsOn DEF Tracks, Tracked
<1>3. ASSUME NEW p \in Requests, p \notin overtaken', p # q PROVE Informed(db', req'[p])
  <2>1. CASE req[p].todo = <<>>
    BY <1>0, <1>3, <2>1, Others DEF Informed
  <2>2. CASE req[p].todo # <<>>
    <3>1. p \notin overtaken /\ Editable(db') = Editable(db) /\ req'[p] = req[p]
      BY <1>0, <1>3, <2>2, Others
    <3>2. Informed(db, req[p])
      BY <3>1 DEF Tracks, Tracked
    <3> QED BY <3>1, <3>2, InformedOn
  <2> QED BY <2>1, <2>2
<1>4. ASSUME q \notin overtaken' PROVE Informed(db', req'[q])
  <2>1. CASE req'[q].todo = <<>>
    BY <2>1 DEF Informed
  <2>2. CASE req'[q].todo # <<>> /\ req[q].job.kind \notin Savers
    <3>1. req'[q].job = req[q].job
      BY <1>0, <2>2, PathsOn DEF Tracks, Tracked
    <3> QED BY <2>2, <3>1 DEF Informed
  <2>3. CASE req'[q].todo # <<>> /\ req[q].job.kind \in Savers
    BY <1>4, <2>3, Informs
  <2> QED BY <2>1, <2>2, <2>3
<1> QED BY <1>0, <1>1, <1>2, <1>3, <1>4 DEF Tracked

LEMMA BeginsTracked ==
    ASSUME Tracks, Begin PROVE Tracked'
<1>1. PICK jobs, runs :
         /\ jobs \in Rounds[round]
         /\ req' = [q \in Requests |-> IF q \in DOMAIN jobs THEN Served(jobs[q], runs[q]) ELSE Idle]
  BY DEF Begin
<1>2. \A q \in DOMAIN jobs : jobs[q].kind \in Kinds
  BY <1>1, WorkloadAssumption DEF Begin
<1>3. db' = db /\ deaths' = deaths
  BY DEF Begin
<1>4. ASSUME NEW q \in Requests, req'[q].todo # <<>>
      PROVE  Path(req'[q].job.kind, req'[q].todo) /\ Informed(db', req'[q])
  <2>1. q \in DOMAIN jobs
    BY <1>1, <1>4, Idles
  <2> DEFINE r == Served(jobs[q], runs[q])
  <2>2. req'[q] = r
    BY <1>1, <2>1
  <2>3. r.job = jobs[q] /\ r.todo = Program[jobs[q].kind] /\ r.copies = {}
    BY DEF Served
  <2> HIDE DEF r
  <2>4. Path(r.job.kind, r.todo)
    BY <1>2, <2>1, <2>3, PagePaths
  <2>5. r.job.kind \in Savers => Head(r.todo) = "find"
    <3>1. Program.update = <<"find", "again", "loadWorking", "save">>
          /\ Program.branch = <<"find", "diverge", "again", "loadWorking", "save">>
      BY DEF Program
    <3>2. Head(Program.update) = "find" /\ Head(Program.branch) = "find"
      BY <3>1
    <3> QED BY <2>3, <3>2 DEF Savers
  <2> QED BY <2>2, <2>3, <2>4, <2>5 DEF Informed
<1>5. \A q \in Requests : req'[q].todo = <<>> => Informed(db', req'[q])
  BY DEF Informed
<1> QED BY <1>3, <1>4, <1>5 DEF Tracks, Tracked, Sorted

LEMMA DiesTracked ==
    ASSUME Tracks, NEW q \in Requests, Die(q) PROVE Tracked'
<1>0. Ordered /\ req[q].todo # <<>>
  BY DEF Tracks, Working, Die
<1>1. req'[q] = Idle /\ \A p \in Requests : p # q => req'[p] = req[p]
  BY <1>0, Moved DEF Die, Fail, After
<1>2. db' = db /\ overtaken' = overtaken /\ deaths' = deaths + 1
  BY DEF Die
<1>3. Idle.todo = <<>> /\ Informed(db', Idle)
  BY Idles DEF Informed
<1> QED BY <1>1, <1>2, <1>3 DEF Tracks, Tracked

LEMMA StepsTracks == ASSUME Tracks, [Next]_vars PROVE Tracks'
<1>1. Working'
  BY StepsWorking DEF Tracks
<1>2. ASSUME UNCHANGED vars PROVE Tracked'
  BY <1>2 DEF vars, Tracks, Tracked
<1>3. Tracked'
  BY <1>2, StepsTracked, BeginsTracked, DiesTracked DEF Next, Tracks
<1> QED BY <1>1, <1>3 DEF Tracks

LEMMA OpensTracks == Init => Tracks
<1> SUFFICES ASSUME Init PROVE Tracks
  OBVIOUS
<1>1. db.scenarios = OpeningScenarios /\ deaths = 0 /\ \A q \in Requests : req[q] = Idle
  BY DEF Init
<1>2. Sorted(db)
  BY <1>1, WorkloadAssumption DEF Sorted, Scenarios
<1>3. \A q \in Requests : req[q].todo = <<>>
  BY <1>1, Idles
<1> QED BY <1>1, <1>2, <1>3, OpensWhole DEF Tracks, Tracked, Informed
-----------------------------------------------------------------------------
(* What a save writes. *)

Overwrites(d, e, s, components, values) ==
    /\ e.scenarios = d.scenarios /\ e.exploration = d.exploration /\ e.next = d.next
    /\ DOMAIN e.sets = DOMAIN d.sets
    /\ \A c \in components : e.sets[d.scenarios[s][c]].value = values[c]
    /\ \A x \in SetIds(d) : (\A c \in components : x # d.scenarios[s][c]) => e.sets[x] = d.sets[x]
Mints(d, e, n, components, given, values) ==
    /\ \A s \in Scenarios(d) : e.scenarios[s] = d.scenarios[s]
    /\ \A x \in SetIds(d) : e.sets[x] = d.sets[x]
    /\ \A c \in components : e.sets[e.scenarios[n][c]].value = values[c]
    /\ \A c \in Pairs \ components : e.scenarios[n][c] = given[c]

LEMMA WrittenValues ==
    ASSUME NEW d, Whole(d), Sorted(d), NEW s \in Scenarios(d), NEW components \in SUBSET Pairs, NEW values
    PROVE  Overwrites(d, Written(d, s, components, values), s, components, values)
<1> DEFINE e == Written(d, s, components, values)
           id(c) == d.scenarios[s][c]
<1>0. IsRow(d, DbFields)
  BY DEF Whole, Halved
<1>1. /\ e.scenarios = d.scenarios /\ e.exploration = d.exploration /\ e.next = d.next
      /\ DOMAIN e.sets = DOMAIN d.sets
  BY <1>0 DEF Written, IsRow, DbFields
<1>2. \A x \in DOMAIN d.sets :
         e.sets[x] = IF \E c \in components : x = id(c)
                     THEN [d.sets[x] EXCEPT !.value = values[CHOOSE c \in components : x = id(c)]]
                     ELSE d.sets[x]
  BY <1>0 DEF Written, IsRow, DbFields
<1>3. id("plans") # id("assumptions")
  BY DEF Sorted
<1>4. \A c \in Pairs : id(c) \in DOMAIN d.sets /\ IsRow(d.sets[id(c)], {"kind", "role", "value"})
  BY DEF Whole, Halved, SetIds
<1> HIDE DEF e, id
<1>5. ASSUME NEW c \in components PROVE e.sets[id(c)].value = values[c]
  <2>1. \A k \in components : id(c) = id(k) => k = c
    BY <1>3 DEF Pairs
  <2>2. (CHOOSE k \in components : id(c) = id(k)) = c
    BY <2>1
  <2>3. e.sets[id(c)] = [d.sets[id(c)] EXCEPT !.value = values[c]]
    BY <1>2, <1>4, <2>2
  <2> DEFINE x == d.sets[id(c)]
  <2>4. IsRow(x, {"kind", "role", "value"})
    BY <1>4
  <2> HIDE DEF x
  <2>5. [x EXCEPT !.value = values[c]].value = values[c]
    BY <2>4 DEF IsRow
  <2> QED BY <2>3, <2>5 DEF x
<1> QED BY <1>1, <1>2, <1>5 DEF Overwrites, e, id, SetIds

LEMMA MintedValues ==
    ASSUME NEW d, Whole(d), NEW role, NEW components \in SUBSET Pairs, NEW given, NEW values
    PROVE  Mints(d, Minted(d, role, components, given, values), d.next + 2, components, given, values)
<1> DEFINE e == Minted(d, role, components, given, values)
           n == d.next + 2
           fresh == {FreshSet(d, c) : c \in components}
           id(c) == FreshSet(d, c)
<1>1. d.next \in Nat /\ IsRow(d, DbFields) /\ n \notin Scenarios(d)
  BY DEF Whole, Halved
<1>2. \A x \in SetIds(d) : x \in Nat /\ x < d.next
  BY DEF Whole, Halved
<1>3. \A c \in Pairs : id(c) \in Nat /\ id(c) >= d.next
  BY <1>1 DEF FreshSet, Pairs
<1>4. id("plans") # id("assumptions")
  BY <1>1 DEF FreshSet
<1>5. \A s \in Scenarios(d) : e.scenarios[s] = d.scenarios[s]
  BY <1>1 DEF Minted, IsRow, DbFields, Scenarios
<1>6. \A x \in DOMAIN d.sets \cup fresh :
         e.sets[x] = IF x \in fresh
                     THEN LET c == CHOOSE k \in components : x = FreshSet(d, k)
                          IN  [kind |-> c, role |-> role, value |-> values[c]]
                     ELSE d.sets[x]
  BY <1>1 DEF Minted, IsRow, DbFields
<1>7. /\ "plans" \in components => e.scenarios[n]["plans"] = id("plans")
      /\ "plans" \notin components => e.scenarios[n]["plans"] = given["plans"]
      /\ "assumptions" \in components => e.scenarios[n]["assumptions"] = id("assumptions")
      /\ "assumptions" \notin components => e.scenarios[n]["assumptions"] = given["assumptions"]
  BY <1>1 DEF Minted, IsRow, DbFields
<1> HIDE DEF e
<1>8. \A x \in SetIds(d) : x \notin fresh
  <2>1. \A x \in fresh : x \in Nat /\ x >= d.next
    BY <1>3
  <2> HIDE DEF fresh
  <2>2. \A x \in SetIds(d) : ~(x >= d.next)
    BY <1>1, <1>2
  <2> QED BY <2>1, <2>2
<1>9. \A x \in SetIds(d) : e.sets[x] = d.sets[x]
  BY <1>6, <1>8 DEF SetIds
<1>10. ASSUME NEW c \in components PROVE e.sets[id(c)].value = values[c]
  <2>0. id(c) \in fresh
    OBVIOUS
  <2> HIDE DEF id, fresh
  <2>1. \A k \in components : id(c) = id(k) => k = c
    BY <1>4 DEF Pairs
  <2> DEFINE j == CHOOSE k \in components : id(c) = id(k)
  <2>2. j = c
    BY <2>1
  <2>3. e.sets[id(c)] = [kind |-> j, role |-> role, value |-> values[j]]
    BY <1>6, <2>0 DEF id
  <2> HIDE DEF j
  <2> QED BY <2>2, <2>3
<1>11. \A c \in components : e.scenarios[n][c] = id(c)
  BY <1>7 DEF Pairs
<1>12. \A c \in Pairs \ components : e.scenarios[n][c] = given[c]
  BY <1>7 DEF Pairs
<1> HIDE DEF id, fresh, n
<1>13. \A c \in components : e.sets[e.scenarios[n][c]].value = values[c]
  BY <1>10, <1>11
<1> QED BY <1>5, <1>9, <1>12, <1>13 DEF Mints, e, n

SavedOver(d, copies, values) ==
    LET source == d.exploration.source
        kept   == Written(d, source, Pairs \ copies, values)
        e      == IF copies # {} THEN Minted(kept, "SAVED", copies, d.scenarios[source], values) ELSE kept
        row    == [d.exploration EXCEPT !.source = IF copies # {} THEN d.next + 2 ELSE source]
    IN  [e EXCEPT !.exploration = row]
Anchored(f) == Resolve(f, f.exploration.source) = Resolve(f, f.exploration.working)
Beside(d, f) == \A s \in Saved(d) : Resolve(f, s) = Resolve(d, s)

\* Saved back, the sandbox is what its anchor holds; saved as new, nothing else has changed.
LEMMA SavedBack ==
    ASSUME NEW d, Whole(d), Sorted(d), d.exploration # NoRow, NEW copies \in SUBSET Pairs, NEW values,
           values = Resolve(d, d.exploration.working),
           copies \in {{}, Diverged(Resolve(d, d.exploration.source), values)}
    PROVE  /\ Anchored(SavedOver(d, copies, values))
           /\ copies = Diverged(Resolve(d, d.exploration.source), values) =>
                 Beside(d, SavedOver(d, copies, values))
<1> DEFINE source == d.exploration.source
           working == d.exploration.working
           kept == Written(d, source, Pairs \ copies, values)
           minted == Minted(kept, "SAVED", copies, d.scenarios[source], values)
           e == IF copies # {} THEN minted ELSE kept
           row == [d.exploration EXCEPT !.source = IF copies # {} THEN d.next + 2 ELSE source]
           f == [e EXCEPT !.exploration = row]
           n == d.next + 2
<1>1. /\ IsRow(d, DbFields) /\ IsExploration(d.exploration)
      /\ source \in Saved(d) /\ source \in Scenarios(d) /\ working \in Drafts(d) /\ working \in Scenarios(d)
  BY DEF Whole, Halved, Drafts, Saved
<1>2. \A s \in Scenarios(d) : \A c \in Pairs : d.scenarios[s][c] \in SetIds(d)
  BY DEF Whole, Halved
<1>3. /\ \A s \in Saved(d) : \A c \in Pairs : d.sets[d.scenarios[s][c]].role = "SAVED"
      /\ \A c \in Pairs : d.sets[d.scenarios[working][c]].role = "WORKING"
  BY <1>1 DEF Whole, Halved
<1>4. \A c, k \in Pairs : d.scenarios[working][c] # d.scenarios[source][k]
  BY <1>1, <1>3
<1>5. /\ kept.scenarios = d.scenarios /\ kept.exploration = d.exploration /\ kept.next = d.next
      /\ DOMAIN kept.sets = DOMAIN d.sets
      /\ \A c \in Pairs \ copies : kept.sets[d.scenarios[source][c]].value = values[c]
      /\ \A x \in SetIds(d) :
            (\A c \in Pairs \ copies : x # d.scenarios[source][c]) => kept.sets[x] = d.sets[x]
  <2> DEFINE written == Pairs \ copies
  <2>1. source \in Scenarios(d) /\ written \in SUBSET Pairs /\ kept = Written(d, source, written, values)
    BY <1>1
  <2> HIDE DEF source, written, kept
  <2>2. Overwrites(d, kept, source, written, values)
    BY <2>1, WrittenValues
  <2> QED BY <2>2 DEF written, Overwrites
<1>6. Whole(kept) /\ IsRow(kept, DbFields)
  BY <1>1, WrittenWhole, RowsOnly
<1> HIDE DEF kept
<1>7. /\ \A s \in Scenarios(d) : minted.scenarios[s] = d.scenarios[s]
      /\ \A x \in SetIds(d) : minted.sets[x] = kept.sets[x]
      /\ \A c \in copies : minted.sets[minted.scenarios[n][c]].value = values[c]
      /\ \A c \in Pairs \ copies : minted.scenarios[n][c] = d.scenarios[source][c]
  <2> DEFINE given == d.scenarios[source]
  <2>1. minted = Minted(kept, "SAVED", copies, given, values) /\ n = kept.next + 2
    BY <1>5
  <2> HIDE DEF given, minted, n
  <2>2. Mints(kept, minted, n, copies, given, values)
    BY <1>6, <2>1, MintedValues
  <2>3. Scenarios(kept) = Scenarios(d) /\ SetIds(kept) = SetIds(d)
    BY <1>5 DEF Scenarios, SetIds
  <2> QED BY <1>5, <2>2, <2>3 DEF given, Mints
<1>8. IsRow(minted, DbFields)
  BY <1>6, RowsOnly
<1> HIDE DEF minted
<1>9. /\ IsRow(e, DbFields)
      /\ \A s \in Scenarios(d) : e.scenarios[s] = d.scenarios[s]
      /\ \A x \in SetIds(d) : e.sets[x] = kept.sets[x]
  BY <1>5, <1>6, <1>7, <1>8
<1> HIDE DEF e
<1>10. f.scenarios = e.scenarios /\ f.sets = e.sets /\ f.exploration = row
  BY <1>9 DEF IsRow, DbFields
<1>11. row.working = working /\ row.source = IF copies # {} THEN n ELSE source
  BY <1>1 DEF IsExploration, IsRow
<1> HIDE DEF f, row
<1>12. \A c \in Pairs : values[c] = d.sets[d.scenarios[working][c]].value
  BY DEF Resolve
<1>13. \A c \in Pairs : kept.sets[d.scenarios[working][c]] = d.sets[d.scenarios[working][c]]
  BY <1>1, <1>2, <1>4, <1>5
<1> HIDE DEF working
<1>14. ASSUME NEW c \in Pairs PROVE f.sets[f.scenarios[working][c]].value = values[c]
  <2>1. f.scenarios[working] = d.scenarios[working] /\ d.scenarios[working][c] \in SetIds(d)
    BY <1>1, <1>2, <1>9, <1>10
  <2>2. f.sets[d.scenarios[working][c]] = d.sets[d.scenarios[working][c]]
    BY <1>9, <1>10, <1>13, <2>1
  <2> QED BY <1>12, <2>1, <2>2
<1>15. ASSUME NEW c \in Pairs PROVE f.sets[f.scenarios[row.source][c]].value = values[c]
  <2>1. CASE copies = {}
    <3>1. e = kept /\ row.source = source
      BY <2>1, <1>11 DEF e
    <3>2. kept.sets[d.scenarios[source][c]].value = values[c]
      BY <2>1, <1>5
    <3> QED BY <3>1, <3>2, <1>5, <1>10
  <2>2. CASE copies # {}
    <3>1. e = minted /\ row.source = n
      BY <2>2, <1>11 DEF e
    <3>2. CASE c \in copies
      BY <3>1, <3>2, <1>7, <1>10
    <3>3. CASE c \notin copies
      <4>1. minted.scenarios[n][c] = d.scenarios[source][c] /\ d.scenarios[source][c] \in SetIds(d)
        BY <3>3, <1>1, <1>2, <1>7
      <4>2. kept.sets[d.scenarios[source][c]].value = values[c]
        BY <3>3, <1>5
      <4> QED BY <3>1, <4>1, <4>2, <1>7, <1>10
    <3> QED BY <3>2, <3>3
  <2> QED BY <2>1, <2>2
<1>16. Resolve(f, f.exploration.source) = Resolve(f, f.exploration.working)
  <2> DEFINE a == f.exploration.source
             b == f.exploration.working
  <2>1. a = row.source /\ b = working
    BY <1>10, <1>11
  <2> HIDE DEF a, b
  <2>2. \A c \in Pairs : f.sets[f.scenarios[a][c]].value = f.sets[f.scenarios[b][c]].value
    BY <1>14, <1>15, <2>1
  <2>3. Resolve(f, a) = Resolve(f, b)
    BY <2>2 DEF Resolve
  <2> QED BY <2>3 DEF a, b
<1>17. ASSUME copies = Diverged(Resolve(d, source), values), NEW s \in Saved(d)
       PROVE  Resolve(f, s) = Resolve(d, s)
  <2>1. \A c \in Pairs \ copies : values[c] = d.sets[d.scenarios[source][c]].value
    BY <1>17 DEF Diverged, Resolve
  <2>2. \A x \in SetIds(d) : kept.sets[x].value = d.sets[x].value
    BY <2>1, <1>5
  <2>3. s \in Scenarios(d)
    BY DEF Saved
  <2>4. \A c \in Pairs : f.sets[f.scenarios[s][c]].value = d.sets[d.scenarios[s][c]].value
    BY <2>2, <2>3, <1>2, <1>9, <1>10
  <2> QED BY <2>4 DEF Resolve
<1> QED BY <1>16, <1>17 DEF SavedOver, Anchored, Beside, f, row, e, minted, kept, working

LEMMA SavesAnchor ==
    ASSUME Tracks, NEW q \in Requests, At(q, "save"), Step(q), q \notin overtaken
    PROVE  Anchored(db') /\ (Kind(q) = "branch" => Beside(db, db'))
<1> DEFINE r == req[q]
<1>1. /\ Working /\ Ordered /\ Whole(db) /\ Sorted(db) /\ Save(q)
      /\ r.todo # <<>> /\ Head(r.todo) = "save" /\ Informed(db, r)
  BY Taken DEF Tracks, Tracked, Working, At
<1>2. Orderly(r.todo) /\ Path(r.job.kind, r.todo)
  BY <1>1 DEF Ordered, Tidy, Tracks, Tracked
<1>3. r.job.kind \in Savers
  <2>1. Visits(r.job.kind, "save")
    BY <1>1, <1>2, TailPath
  <2> QED BY <2>1 DEF Visits
<1>4. Current(db, r)
  BY <1>1, <1>3 DEF Informed
<1>5. /\ db.exploration # NoRow /\ r.seen = db.exploration /\ r.source = db.exploration.source
      /\ r.inputs = Resolve(db, db.exploration.working)
      /\ r.copies = IF r.job.kind = "branch" THEN Diverged(Resolve(db, db.exploration.source), r.inputs) ELSE {}
  BY <1>1, <1>4 DEF Current
<1>6. db.exploration.source \in Scenarios(db) /\ Stands(db, db.exploration)
  BY <1>1, <1>5 DEF Whole, Halved, Saved, Stands
<1>7. db' = SavedOver(db, r.copies, r.inputs)
  BY <1>1, <1>5, <1>6 DEF Save, SavedOver, ExplorationSaved
<1>8. r.copies \in SUBSET Pairs
  BY <1>5 DEF Diverged
<1>9. Kind(q) = r.job.kind
  BY DEF Kind
<1> HIDE DEF r
<1> QED BY <1>1, <1>5, <1>7, <1>8, <1>9, SavedBack

\* A request whose turn it is to save moves only by saving, or dies.
LEMMA SavesStep ==
    ASSUME Tracks, [Next]_vars, NEW q \in Requests, At(q, "save"), req'[q] # req[q], deaths' = deaths
    PROVE  Step(q)
<1>1. Ordered /\ deaths \in Nat /\ deaths # deaths + 1
  BY DEF Tracks, Tracked, Working
<1>2. ~Begin
  BY DEF Begin, At
<1>3. ~UNCHANGED vars
  BY DEF vars
<1>4. ASSUME NEW p \in Requests, Die(p) PROVE FALSE
  BY <1>1, <1>4 DEF Die
<1>5. ASSUME NEW p \in Requests, Serve(p) PROVE p = q
  BY <1>1, <1>5, Others
<1> QED BY <1>2, <1>3, <1>4, <1>5 DEF Next, Serve

\* A save nothing overtook leaves the exploration anchored to a scenario that holds what the
\* sandbox holds, and a save as new changes what no other scenario resolves to -- however
\* sets are shared among scenarios, whatever diverged, and whatever other requests did
\* before the pages that save.
THEOREM SavesLeaveTheAnchor == Spec => SaveLeavesTheAnchor
<1>1. Init => Tracks
  BY OpensTracks
<1>2. Tracks /\ [Next]_vars => Tracks'
  BY StepsTracks
<1>3. Tracks /\ [Next]_vars =>
        \A q \in Requests : At(q, "save") /\ req'[q] # req[q] /\ q \notin overtaken /\ deaths' = deaths =>
          /\ Resolve(db', db'.exploration.source) = Resolve(db', db'.exploration.working)
          /\ Kind(q) = "branch" => \A s \in Saved(db) : Resolve(db', s) = Resolve(db, s)
  BY SavesStep, SavesAnchor DEF Anchored, Beside
<1> QED BY <1>1, <1>2, <1>3, PTL DEF Spec, SaveLeavesTheAnchor
-----------------------------------------------------------------------------
(* The pile of transient runs, and who may add to it. *)

\* The transient runs agree with one another, or with the household as it is.
Comparable(d) == \A m, n \in DOMAIN Transient(d) :
    /\ Transient(d)[m].seeding = d.seedings
    /\ ~FactsDiffer(Transient(d)[m].profile, Transient(d)[n].profile)
Matching(d) == \A n \in DOMAIN Transient(d) :
    /\ Transient(d)[n].seeding = d.seedings
    /\ ~FactsDiffer(Transient(d)[n].profile, d.profile)

\* A request that found the pile fit to be added to; one that has seeded the sandbox and
\* has the pile yet to empty; one that will empty it.
Joining(r) ==
    /\ r.todo # <<>> /\ r.job.kind \in RunPages
    /\ \/ Head(r.todo) \in {"sandbox", "loadWorking", "saveBooks", "capture"}
       \/ r.job.kind = "rerun" /\ Head(r.todo) = "resolve"
Seeding(r) == r.todo # <<>> /\ r.job.kind \in FreshPages /\ Head(r.todo) \in {"all", "drop"}
Clears(d, r) == Seeding(r) /\ (Head(r.todo) = "drop" => RunsIn(Transient(d)) \subseteq RunsIn(r.listed))
Bearing(r) ==
    r.todo # <<>> /\ r.job.kind \in RunPages /\ Head(r.todo) \in {"loadWorking", "saveBooks", "capture"}

Piled ==
    /\ db.seedings \in Nat
    /\ \A q \in Requests \ overtaken : Bearing(req[q]) => req[q].profile = db.profile
    /\ \A q \in Requests : Seeding(req[q]) => \A p \in Requests \ {q} : req[p].todo # <<>> => p \in overtaken
    /\ ~raced => /\ \A q \in Requests \ overtaken : Joining(req[q]) => Matching(db)
                 /\ Comparable(db) \/ \E q \in Requests : Clears(db, req[q])
Piles == Shelving /\ Tracked /\ Piled

LEMMA TransientRows ==
    ASSUME NEW d
    PROVE  /\ DOMAIN Transient(d) = {n \in DOMAIN d.results : d.results[n].role = "WORKING"}
           /\ \A n \in DOMAIN Transient(d) : Transient(d)[n] = d.results[n]
BY DEF Transient, Restrict

\* No transient run appears from d to e.
Dwindles(d, e) ==
    /\ DOMAIN Transient(e) \subseteq DOMAIN Transient(d)
    /\ \A n \in DOMAIN Transient(e) : Transient(e)[n] = Transient(d)[n]

LEMMA Dwindling ==
    ASSUME NEW d, NEW e, Dwindles(d, e), e.seedings = d.seedings
    PROVE  /\ Comparable(d) => Comparable(e)
           /\ e.profile = d.profile /\ Matching(d) => Matching(e)
           /\ RunsIn(Transient(e)) \subseteq RunsIn(Transient(d))
BY DEF Dwindles, Comparable, Matching, RunsIn

LEMMA DwindlesWhere ==
    ASSUME NEW d, NEW e,
           \A n \in DOMAIN e.results :
              e.results[n].role = "WORKING" => n \in DOMAIN d.results /\ e.results[n] = d.results[n]
    PROVE  Dwindles(d, e)
<1>1. /\ DOMAIN Transient(d) = {n \in DOMAIN d.results : d.results[n].role = "WORKING"}
      /\ \A n \in DOMAIN Transient(d) : Transient(d)[n] = d.results[n]
  BY TransientRows
<1>2. /\ DOMAIN Transient(e) = {n \in DOMAIN e.results : e.results[n].role = "WORKING"}
      /\ \A n \in DOMAIN Transient(e) : Transient(e)[n] = e.results[n]
  BY TransientRows
<1>3. \A n \in DOMAIN Transient(e) : n \in DOMAIN Transient(d)
  BY <1>1, <1>2
<1> QED BY <1>1, <1>2, <1>3 DEF Dwindles

LEMMA SameResults == ASSUME NEW d, NEW e, e.results = d.results PROVE Dwindles(d, e)
BY DEF Dwindles, Transient

LEMMA RemovedDwindles == ASSUME NEW d, NEW e, NEW runs, Removed(d, e, runs) PROVE Dwindles(d, e)
<1>1. \A n \in DOMAIN e.results : n \in DOMAIN d.results /\ e.results[n] = d.results[n]
  BY DEF Removed
<1> QED BY <1>1, DwindlesWhere

\* What the runs were made since, and for.
SameTerms(d, e) == e.seedings = d.seedings /\ e.profile = d.profile

LEMMA TermsOnly ==
    ASSUME NEW d, IsRow(d, DbFields)
    PROVE  /\ \A s, components, values : SameTerms(d, Written(d, s, components, values))
           /\ \A role, components, given, values : SameTerms(d, Minted(d, role, components, given, values))
           /\ \A row : SameTerms(d, [d EXCEPT !.exploration = row])
           /\ \A runs : SameTerms(d, WithoutRuns(d, runs))
           /\ \A gone : SameTerms(d, WithoutScenarios(d, gone))
           /\ \A id : SameTerms(d, WithoutSet(d, id))
<1> USE DEF SameTerms
<1>1. \A s, components, values : SameTerms(d, Written(d, s, components, values))
  BY DEF Written, IsRow, DbFields
<1>2. \A role, components, given, values : SameTerms(d, Minted(d, role, components, given, values))
  BY DEF Minted, IsRow, DbFields
<1>3. \A row : SameTerms(d, [d EXCEPT !.exploration = row])
  BY DEF IsRow, DbFields
<1>4. ASSUME NEW e, IsRow(e, DbFields), NEW runs
      PROVE  IsRow(WithoutRuns(e, runs), DbFields) /\ SameTerms(e, WithoutRuns(e, runs))
  BY <1>4 DEF WithoutRuns, IsRow, DbFields
<1>5. ASSUME NEW e, IsRow(e, DbFields), NEW gone PROVE SameTerms(e, WithoutScenarios(e, gone))
  <2> DEFINE f == [e EXCEPT !.scenarios = Restrict(@, DOMAIN @ \ gone)]
             w == WithoutRuns(f, RunsIn(Transient(f)))
  <2>1. IsRow(f, DbFields) /\ SameTerms(e, f)
    BY <1>5 DEF IsRow, DbFields
  <2>2. WithoutScenarios(e, gone) \in {f, Teardown(f)}
    BY DEF WithoutScenarios
  <2> HIDE DEF f
  <2>3. IsRow(w, DbFields) /\ SameTerms(f, w)
    BY <1>4, <2>1
  <2> HIDE DEF w
  <2>4. SameTerms(w, Teardown(f))
    BY <2>3 DEF Teardown, w, IsRow, DbFields
  <2> QED BY <2>1, <2>2, <2>3, <2>4
<1>6. ASSUME NEW id PROVE SameTerms(d, WithoutSet(d, id))
  <2> DEFINE e == [d EXCEPT !.sets = Restrict(@, DOMAIN @ \ {id})]
             gone == {s \in Saved(d) : id \in SetsOf(d, s)}
  <2>1. IsRow(e, DbFields) /\ SameTerms(d, e) /\ WithoutSet(d, id) = WithoutScenarios(e, gone)
    BY DEF IsRow, DbFields, WithoutSet
  <2> HIDE DEF e, gone
  <2> QED BY <2>1, <1>5
<1> QED BY <1>1, <1>2, <1>3, <1>4, <1>5, <1>6

\* What a seeding does to the pile.
LEMMA SeedsPile ==
    ASSUME NEW d, IsRow(d, DbFields), NEW source, NEW values
    PROVE  LET e == Seeded(d, source, values)
           IN  e.results = d.results /\ e.seedings = d.seedings + 1 /\ e.profile = d.profile
<1> DEFINE w == Written(d, d.exploration.working, Pairs, values)
           m == Minted(d, "WORKING", Pairs, <<>>, values)
           row == [id |-> d.next + 2, working |-> d.next + 2, source |-> source, frame |-> None]
<1>1. IsRow(w, DbFields) /\ SameRuns(d, w) /\ SameTerms(d, w)
  BY RowsOnly, TermsOnly
<1>2. IsRow(m, DbFields) /\ SameRuns(d, m) /\ SameTerms(d, m)
  BY RowsOnly, TermsOnly
<1>3. Seeded(d, source, values) \in {[w EXCEPT !.exploration.source = source, !.seedings = @ + 1],
                                     [m EXCEPT !.exploration = row, !.seedings = @ + 1]}
  BY DEF Seeded
<1> HIDE DEF w, m, row
<1>4. ASSUME NEW e, e = [w EXCEPT !.exploration.source = source, !.seedings = @ + 1]
      PROVE  e.results = d.results /\ e.seedings = d.seedings + 1 /\ e.profile = d.profile
  BY <1>1, <1>4 DEF SameRuns, SameTerms, IsRow, DbFields
<1>5. ASSUME NEW e, e = [m EXCEPT !.exploration = row, !.seedings = @ + 1]
      PROVE  e.results = d.results /\ e.seedings = d.seedings + 1 /\ e.profile = d.profile
  BY <1>2, <1>5 DEF SameRuns, SameTerms, IsRow, DbFields
<1> QED BY <1>3, <1>4, <1>5

\* Only a capture adds to the pile, only a seeding or an edit of the profile changes the terms.
LEMMA StepsDwindle ==
    ASSUME Shelving, NEW q \in Requests, Step(q)
    PROVE  /\ Dwindles(db, db') \/ Capture(q)
           /\ db'.seedings = db.seedings \/ (Seed(q) /\ Continue(q, req[q]) /\ db'.seedings = db.seedings + 1)
           /\ db'.profile = db.profile \/ EditProfile(q)
           /\ raced' = raced \/ Capture(q)
<1>0. Whole(db) /\ IsRow(db, DbFields) /\ Shelved(db, captured)
  BY DEF Shelving, Working, Whole, Halved
<1>1. CASE Seed(q)
  <2>1. \/ UNCHANGED db
        \/ Continue(q, req[q]) /\ db' = Seeded(db, req[q].source, req[q].inputs)
    BY <1>1 DEF Seed
  <2>2. raced' = raced
    BY <1>1 DEF Seed, Writes
  <2>3. CASE UNCHANGED db
    BY <2>2, <2>3, SameResults
  <2>4. CASE Continue(q, req[q]) /\ db' = Seeded(db, req[q].source, req[q].inputs)
    <3>1. db'.results = db.results /\ db'.seedings = db.seedings + 1 /\ db'.profile = db.profile
      BY <1>0, <2>4, SeedsPile
    <3> QED BY <1>1, <2>2, <2>4, <3>1, SameResults
  <2> QED BY <2>1, <2>3, <2>4
<1>2. CASE RecordFrame(q) \/ Overwrite(q)
  <2>1. raced' = raced
    BY <1>2 DEF RecordFrame, Overwrite, Writes
  <2>2. \/ db' = db \/ (\E row : db' = [db EXCEPT !.exploration = row])
        \/ \E s, values : db' = Written(db, s, Pairs, values)
    BY <1>2 DEF RecordFrame, Overwrite, ExplorationSaved
  <2>3. SameTerms(db, db') /\ db'.results = db.results
    <3>1. db' = db => SameTerms(db, db') /\ db'.results = db.results
      BY DEF SameTerms
    <3>2. (\E row : db' = [db EXCEPT !.exploration = row]) => SameTerms(db, db') /\ db'.results = db.results
      BY <1>0 DEF SameTerms, IsRow, DbFields
    <3>3. ASSUME NEW s, NEW values, db' = Written(db, s, Pairs, values)
          PROVE  SameTerms(db, db') /\ db'.results = db.results
      BY <1>0, <3>3 DEF Written, SameTerms, IsRow, DbFields
    <3> QED BY <2>2, <3>1, <3>2, <3>3
  <2> QED BY <2>1, <2>3, SameResults DEF SameTerms
<1>10. CASE Save(q)
  <2> DEFINE r    == req[q]
             kept == Written(db, r.source, Pairs \ r.copies, r.inputs)
             m    == Minted(kept, "SAVED", r.copies, db.scenarios[r.source], r.inputs)
             d    == IF r.copies # {} THEN m ELSE kept
             row  == [r.seen EXCEPT !.source = IF r.copies # {} THEN db.next + 2 ELSE r.source]
  <2>1. (db' = db \/ db' = [d EXCEPT !.exploration = row]) /\ raced' = raced
    BY <1>10 DEF Save, ExplorationSaved, Writes
  <2>2. IsRow(kept, DbFields) /\ SameTerms(db, kept) /\ SameRuns(db, kept)
    BY <1>0, RowsOnly, TermsOnly
  <2> HIDE DEF kept
  <2>3. IsRow(m, DbFields) /\ SameTerms(kept, m) /\ SameRuns(kept, m)
    BY <2>2, RowsOnly, TermsOnly
  <2> HIDE DEF m
  <2>4. IsRow(d, DbFields) /\ SameTerms(db, d) /\ SameRuns(db, d)
    BY <2>2, <2>3 DEF SameTerms, SameRuns
  <2> HIDE DEF d, row
  <2>5. SameTerms(d, [d EXCEPT !.exploration = row]) /\ SameRuns(d, [d EXCEPT !.exploration = row])
    BY <2>4, RowsOnly, TermsOnly
  <2>6. SameTerms(db, db') /\ db'.results = db.results
    BY <2>1, <2>4, <2>5 DEF SameTerms, SameRuns
  <2> QED BY <2>1, <2>6, SameResults DEF SameTerms
<1>3. CASE Delete(q) \/ \E c \in Pairs : Orphan(q, c)
  <2>1. raced' = raced
    BY <1>3 DEF Delete, Orphan, Writes
  <2>2. UNCHANGED db \/ (\E gone : db' = WithoutScenarios(db, gone)) \/ (\E id : db' = WithoutSet(db, id))
    BY <1>3 DEF Delete, Orphan
  <2>3. UNCHANGED db \/ \E runs : Removed(db, db', runs)
    BY <1>0, <2>2, CascadeRemoves
  <2>4. SameTerms(db, db')
    BY <1>0, <2>2, TermsOnly DEF SameTerms
  <2> QED BY <2>1, <2>3, <2>4, SameResults, RemovedDwindles DEF SameTerms
<1>4. CASE Drop(q)
  <2> DEFINE runs == RunsIn(req[q].listed)
  <2>1. db' = WithoutRuns(db, runs) /\ raced' = raced
    BY <1>4 DEF Drop, Writes
  <2> HIDE DEF runs
  <2>2. /\ DOMAIN db'.results = {n \in DOMAIN db.results : db.results[n].run \notin runs}
        /\ \A n \in DOMAIN db'.results : db'.results[n] = db.results[n]
    BY <1>0, <2>1 DEF WithoutRuns, Restrict, IsRow, DbFields
  <2>3. Dwindles(db, db')
    BY <2>2, DwindlesWhere
  <2>4. SameTerms(db, db')
    BY <1>0, <2>1, TermsOnly
  <2> QED BY <2>1, <2>3, <2>4 DEF SameTerms
<1>5. CASE Keep(q)
  <2> DEFINE rows == {n \in DOMAIN db.results : db.results[n].run = req[q].run}
  <2>1. /\ raced' = raced
        /\ \/ UNCHANGED db
           \/ db' = [db EXCEPT !.results = [n \in DOMAIN @ |->
                          IF n \in rows THEN [@[n] EXCEPT !.role = "SAVED"] ELSE @[n]]]
    BY <1>5 DEF Keep, Writes
  <2> HIDE DEF rows
  <2>2. CASE UNCHANGED db
    BY <2>1, <2>2, SameResults
  <2>3. CASE db' = [db EXCEPT !.results = [n \in DOMAIN @ |->
                          IF n \in rows THEN [@[n] EXCEPT !.role = "SAVED"] ELSE @[n]]]
    <3>1. /\ SameTerms(db, db')
          /\ db'.results = [n \in DOMAIN db.results |-> IF n \in rows THEN [db.results[n] EXCEPT !.role = "SAVED"]
                                                        ELSE db.results[n]]
      BY <1>0, <2>3 DEF SameTerms, IsRow, DbFields
    <3>2. \A n \in DOMAIN db.results : IsRow(db.results[n], {"run", "role", "frame", "profile", "seeding"})
      BY <1>0 DEF Shelved
    <3>3. \A n \in DOMAIN db.results : n \in rows => db'.results[n].role = "SAVED"
      <4> SUFFICES ASSUME NEW n \in DOMAIN db.results, n \in rows PROVE db'.results[n].role = "SAVED"
        OBVIOUS
      <4> DEFINE x == db.results[n]
      <4>1. db'.results[n] = [x EXCEPT !.role = "SAVED"] /\ IsRow(x, {"role"})
        BY <3>1, <3>2 DEF IsRow
      <4> HIDE DEF x
      <4> QED BY <4>1 DEF IsRow
    <3>4. /\ DOMAIN db'.results = DOMAIN db.results
          /\ \A n \in DOMAIN db.results : n \notin rows => db'.results[n] = db.results[n]
      BY <3>1
    <3>5. "SAVED" # "WORKING"
      OBVIOUS
    <3>6. Dwindles(db, db')
      BY <3>3, <3>4, <3>5, DwindlesWhere
    <3> QED BY <2>1, <3>1, <3>6 DEF SameTerms
  <2> QED BY <2>1, <2>2, <2>3
<1>6. CASE CaptureSaved(q)
  <2> DEFINE r == [req[q] EXCEPT !.frame = req[q].job.frame]
             n == db.runs + 1
             m == db.rows + 1
             row == [run |-> n, role |-> "SAVED", frame |-> r.frame, profile |-> r.profile, seeding |-> db.seedings]
  <2>1. SameTerms(db, db') /\ db'.results = Adding(db.results, m, row) /\ raced' = raced
    BY <1>0, <1>6 DEF CaptureSaved, Captured, SameTerms, IsRow, DbFields
  <2>2. row.role = "SAVED" /\ m \notin DOMAIN db.results
    BY <1>0 DEF Shelved
  <2> HIDE DEF row, m
  <2>3. /\ DOMAIN db'.results = DOMAIN db.results \cup {m} /\ db'.results[m] = row
        /\ \A i \in DOMAIN db.results : db'.results[i] = db.results[i]
    BY <2>1, <2>2 DEF Adding
  <2>4. Dwindles(db, db')
    BY <2>2, <2>3, DwindlesWhere
  <2> QED BY <2>1, <2>4 DEF SameTerms
<1>7. CASE SaveBooks(q) \/ EditProfile(q)
  <2>1. db'.results = db.results /\ db'.seedings = db.seedings /\ raced' = raced
    BY <1>0, <1>7 DEF SaveBooks, EditProfile, Writes, IsRow, DbFields
  <2>2. db'.profile = db.profile \/ EditProfile(q)
    BY <1>0, <1>7 DEF SaveBooks, IsRow, DbFields
  <2> QED BY <2>1, <2>2, SameResults
<1>8. CASE Capture(q)
  <2>1. SameTerms(db, db')
    BY <1>0, <1>8 DEF Capture, Captured, SameTerms, IsRow, DbFields
  <2> QED BY <1>8, <2>1 DEF SameTerms
<1>9. CASE \/ Find(q) \/ Again(q) \/ Choose(q) \/ LoadSource(q) \/ LoadWorking(q) \/ Diverge(q)
           \/ ResolveFrame(q) \/ Strip(q) \/ Relist(q) \/ Drift(q) \/ Sandbox(q) \/ All(q) \/ Beyond(q)
           \/ Get(q) \/ Inputs(q) \/ Lookup(q) \/ Reload(q) \/ Insert(q) \/ Count(q)
           \/ Users(q, "planUsers", "plans") \/ Users(q, "assumptionUsers", "assumptions") \/ Respond(q)
  <2>1. db' = db /\ raced' = raced
    BY <1>9, Zenon DEF Reads, Find, Again, Choose, LoadSource, LoadWorking, Diverge, ResolveFrame, Strip, Relist,
       Drift, Sandbox, All, Beyond, Get, Inputs, Lookup, Reload, Insert, Count, Users, Respond
  <2> QED BY <2>1, SameResults
<1> QED BY <1>1, <1>2, <1>3, <1>4, <1>5, <1>6, <1>7, <1>8, <1>9, <1>10 DEF Step

\* What a request has just done, by what it is about to do.
Precedes(kind, a, b) ==
    /\ kind \in RunPages =>
          /\ b = "loadWorking" => a = "sandbox"
          /\ b = "saveBooks" => a = "loadWorking"
          /\ b = "capture" => a = "saveBooks"
          /\ b = "sandbox" => (a = "resolve" /\ kind = "rerun") \/ (a = "strip" /\ kind = "view")
          /\ b = "resolve" /\ kind = "rerun" => a = "drift"
    /\ kind \in FreshPages => (b = "all" => a = "seed") /\ (b = "drop" => a = "all")

LEMMA LeadsPrecede ==
    ASSUME NEW kind, NEW a, NEW b
    PROVE  /\ Leads(kind, a, b) => Precedes(kind, a, b)
           /\ b \in Elsewhere => Precedes(kind, a, b)
<1>1. Leads(kind, a, b) => Precedes(kind, a, b)
  BY DEF Leads, Precedes
<1>2. b \in Elsewhere => b \notin {"loadWorking", "saveBooks", "capture", "sandbox", "resolve", "all", "drop"}
  BY DEF Elsewhere
<1>3. b \in Elsewhere => Precedes(kind, a, b)
  BY <1>2 DEF Precedes
<1> QED BY <1>1, <1>3

LEMMA LastPage ==
    ASSUME Ordered, Tracked, NEW q \in Requests, Step(q)
    PROVE  /\ req[q].todo # <<>> /\ At(q, Head(req[q].todo)) /\ IsRow(req[q], RequestFields)
           /\ Visits(req[q].job.kind, Head(req[q].todo))
           /\ req'[q].todo # <<>> =>
                 /\ req'[q].job = req[q].job
                 /\ Precedes(req[q].job.kind, Head(req[q].todo), Head(req'[q].todo))
<1> DEFINE s == req[q].todo
           t == req'[q].todo
           kind == req[q].job.kind
<1>1. /\ s # <<>> /\ Orderly(s) /\ Path(kind, s) /\ IsRow(req[q], RequestFields)
  BY Proceeds DEF Tracked, Ordered, Tidy
<1>2. t # <<>> => req'[q].job = req[q].job /\ Turn(s, t)
  BY PathsOn DEF Tracked
<1>3. Visits(kind, Head(s)) /\ At(q, Head(s))
  BY <1>1, TailPath DEF At
<1>4. ASSUME t # <<>> PROVE Precedes(kind, Head(s), Head(t))
  <2> DEFINE a == Head(s)
             b == Head(t)
  <2> SUFFICES Precedes(kind, a, b)
    OBVIOUS
  <2> HIDE DEF s, t, kind
  <2>1. \/ Leads(kind, a, b) /\ t = Tail(s)
        \/ b \in Elsewhere /\ (b = "again" => kind \in RunPages)
        \/ kind = "view" /\ a = "strip" /\ b = "sandbox"
    BY <1>1, <1>2, <1>4, TurnPath DEF s, t, kind
  <2> HIDE DEF a, b
  <2>2. b \in Elsewhere => Precedes(kind, a, b)
    BY LeadsPrecede
  <2>3. Leads(kind, a, b) => Precedes(kind, a, b)
    BY LeadsPrecede
  <2>4. kind = "view" /\ a = "strip" /\ b = "sandbox" => Precedes(kind, a, b)
    BY DEF Precedes, RunPages, FreshPages
  <2> QED BY <2>1, <2>2, <2>3, <2>4
<1> QED BY <1>1, <1>2, <1>3, <1>4

\* A page that has seeded the sandbox goes on to empty the pile.
LEMMA EmptiesNext ==
    ASSUME Ordered, Tracked, NEW q \in Requests, NEW r, IsRow(r, RequestFields), r.job = req[q].job, Continue(q, r),
           At(q, "seed") \/ At(q, "all"), req[q].job.kind \in FreshPages
    PROVE  /\ req'[q].todo # <<>> /\ req'[q].job = req[q].job /\ req'[q].listed = r.listed
           /\ Head(req'[q].todo) = IF At(q, "seed") THEN "all" ELSE "drop"
<1> DEFINE s == req[q].todo
           kind == req[q].job.kind
<1>1. s # <<>> /\ Orderly(s) /\ Path(kind, s) /\ Head(s) \in {"seed", "all"} /\ (At(q, "seed") <=> Head(s) = "seed")
  BY DEF At, Tracked, Ordered, Tidy
<1>2. Proceed(q, r, Tail(s))
  BY DEF Continue
<1> HIDE DEF s, kind
<1>3. Tail(s) # <<>> /\ Leads(kind, Head(s), Head(Tail(s)))
  BY <1>1, TailPath
<1>4. Head(Tail(s)) = IF Head(s) = "seed" THEN "all" ELSE "drop"
  BY <1>1, <1>3 DEF Leads, kind
<1> DEFINE t == Tail(s)
<1>5. t # <<>> /\ Proceed(q, r, t)
  BY <1>2, <1>3
<1>7. Head(t) = IF Head(s) = "seed" THEN "all" ELSE "drop"
  BY <1>4
<1> HIDE DEF t
<1>8. req'[q] = After(r, t)
  BY <1>5, Moved
<1>6. req'[q].todo = t /\ req'[q].job = r.job /\ req'[q].listed = r.listed
  BY <1>5, <1>8, Retains
<1> QED BY <1>1, <1>5, <1>6, <1>7

\* A request that has read the household carries it as it is.
LEMMA BearersKnow ==
    ASSUME Piles, NEW q \in Requests, Step(q), q \notin overtaken, Bearing(req'[q])
    PROVE  req'[q].profile = db'.profile
<1> DEFINE a == Head(req[q].todo)
           b == Head(req'[q].todo)
           kind == req[q].job.kind
<1>0. Ordered /\ Tracked /\ IsRow(db, DbFields)
  BY DEF Piles, Shelving, Working, Whole, Halved
<1>1. /\ req[q].todo # <<>> /\ At(q, a) /\ IsRow(req[q], RequestFields) /\ req'[q].todo # <<>>
      /\ kind \in RunPages /\ b \in {"loadWorking", "saveBooks", "capture"} /\ Precedes(kind, a, b)
  BY <1>0, LastPage DEF Bearing
<1>2. Orderly(req[q].todo)
  BY <1>0, <1>1 DEF Ordered, Tidy
<1>3. Bearing(req[q]) => req[q].profile = db.profile
  BY DEF Piles, Piled
<1>4. ~(Fail(q))
  BY <1>0, <1>1, Moved, Idles DEF Fail, After
<1>5. ASSUME NEW r, IsRow(r, RequestFields), Continue(q, r) PROVE req'[q].profile = r.profile
  <2>1. \E t : t # <<>> /\ req'[q] = After(r, t)
    <3>1. req'[q] = After(r, Tail(req[q].todo))
      BY <1>0, <1>5, Moved DEF Continue
    <3>2. Tail(req[q].todo) # <<>>
      BY <1>1, <3>1, Idles DEF After
    <3> QED BY <3>1, <3>2
  <2> QED BY <1>5, <2>1, Retains
<1>6. CASE a = "sandbox"
  <2> DEFINE r == [req[q] EXCEPT !.seen = db.exploration, !.profile = db.profile]
             t == SubSeq(req[q].todo, Len(RunSteps) + 1, Len(req[q].todo))
  <2>1. (Proceed(q, req[q], t) \/ Continue(q, r)) /\ db' = db
    BY <1>1, <1>6, Taken DEF Sandbox, Reads
  <2>2. IsRow(r, RequestFields) /\ r.profile = db.profile
    BY <1>1 DEF IsRow, RequestFields
  <2>3. t = <<>> \/ Head(t) \in {"relist", "again"}
    BY <1>1, <1>2, <1>6, Reordered
  <2> HIDE DEF r, t
  <2>4. ~Proceed(q, req[q], t)
    <3> SUFFICES ASSUME Proceed(q, req[q], t) PROVE FALSE
      OBVIOUS
    <3>1. req'[q] = After(req[q], t)
      BY <1>0, Moved
    <3>2. t # <<>>
      BY <1>1, <3>1, Idles DEF After
    <3>3. req'[q].todo = t
      BY <1>1, <3>1, <3>2, Retains
    <3> QED BY <1>1, <2>3, <3>2, <3>3
  <2> QED BY <2>1, <2>2, <2>4, <1>5
<1>7. CASE a = "loadWorking"
  <2> DEFINE r == [req[q] EXCEPT !.inputs = Resolve(db, req[q].seen.working)]
  <2>1. Continue(q, r) /\ db' = db
    BY <1>1, <1>4, <1>7, Taken DEF LoadWorking, Reads
  <2>2. IsRow(r, RequestFields) /\ r.profile = req[q].profile
    BY <1>1 DEF IsRow, RequestFields
  <2> HIDE DEF r
  <2>3. Bearing(req[q])
    BY <1>1, <1>7 DEF Bearing
  <2> QED BY <2>1, <2>2, <2>3, <1>3, <1>5
<1>8. CASE a = "saveBooks"
  <2> DEFINE r == [req[q] EXCEPT !.run = db.runs + 1]
  <2>1. Continue(q, r) /\ db' = [db EXCEPT !.runs = @ + 1, !.books = @ \cup {db.runs + 1}]
    BY <1>1, <1>8, Taken DEF SaveBooks
  <2>2. IsRow(r, RequestFields) /\ r.profile = req[q].profile
    BY <1>1 DEF IsRow, RequestFields
  <2> HIDE DEF r
  <2>3. Bearing(req[q]) /\ db'.profile = db.profile
    BY <1>0, <1>1, <1>8, <2>1 DEF Bearing, IsRow, DbFields
  <2> QED BY <2>1, <2>2, <2>3, <1>3, <1>5
<1> QED BY <1>1, <1>6, <1>7, <1>8 DEF Precedes

\* A run that is not refused for the drift joins runs that match the household.
LEMMA Undrifted ==
    ASSUME Piles, ~raced, NEW q \in Requests \ overtaken, req[q].todo # <<>>, req[q].job.kind \in RunPages,
           ~Drifted(Transient(db), db.profile)
    PROVE  Matching(db)
<1>1. ASSUME NEW p \in Requests PROVE ~Clears(db, req[p])
  <2>1. p = q => ~Seeding(req[p])
    BY DEF Seeding, RunPages, FreshPages
  <2>2. p # q => ~Seeding(req[p])
    BY DEF Piles, Piled
  <2> QED BY <2>1, <2>2 DEF Clears
<1>2. Comparable(db)
  BY <1>1 DEF Piles, Piled
<1>3. CASE DOMAIN Transient(db) = {}
  BY <1>3 DEF Matching
<1>4. CASE DOMAIN Transient(db) # {}
  <2> DEFINE n == Max(DOMAIN Transient(db))
  <2>1. db.rows \in Nat /\ DOMAIN Transient(db) \subseteq 1 .. db.rows
    BY Listings DEF Piles, Shelving, Shelved
  <2>2. n \in DOMAIN Transient(db)
    BY <1>4, <2>1, Greatest
  <2>3. Newest(Transient(db)) = Transient(db)[n]
    BY DEF Newest
  <2> HIDE DEF n
  <2>4. ~FactsDiffer(Transient(db)[n].profile, db.profile)
    BY <1>4, <2>3 DEF Drifted
  <2> QED BY <1>2, <2>2, <2>4 DEF Comparable, Matching, FactsDiffer
<1> QED BY <1>3, <1>4

LEMMA JoinersMatch ==
    ASSUME Piles, ~raced, NEW q \in Requests, Step(q), q \notin overtaken, Joining(req'[q])
    PROVE  Matching(db')
<1> DEFINE a == Head(req[q].todo)
           b == Head(req'[q].todo)
           kind == req[q].job.kind
<1>0. Ordered /\ Tracked
  BY DEF Piles, Shelving, Working
<1>1. /\ req[q].todo # <<>> /\ At(q, a) /\ IsRow(req[q], RequestFields) /\ req'[q].todo # <<>>
      /\ kind \in RunPages /\ Precedes(kind, a, b)
      /\ b \in {"sandbox", "loadWorking", "saveBooks", "capture"} \/ (b = "resolve" /\ kind = "rerun")
  BY <1>0, LastPage DEF Joining
<1>2. a \in {"sandbox", "loadWorking", "saveBooks", "strip", "drift"} \/ (a = "resolve" /\ kind = "rerun")
  BY <1>1 DEF Precedes
<1>3. a \notin {"seed", "edit", "capture"}
  BY <1>2
<1>4. ~Seed(q) /\ ~EditProfile(q) /\ ~Capture(q)
  BY <1>1, <1>3 DEF Seed, EditProfile, Capture, At
<1>5. Dwindles(db, db') /\ db'.seedings = db.seedings /\ db'.profile = db.profile
  BY <1>4, StepsDwindle DEF Piles
<1> SUFFICES Matching(db)
  BY <1>5, Dwindling
<1>6. CASE a \in {"sandbox", "loadWorking", "saveBooks"} \/ (a = "resolve" /\ kind = "rerun")
  <2>1. Joining(req[q])
    BY <1>1, <1>6 DEF Joining
  <2> QED BY <2>1 DEF Piles, Piled
<1>7. CASE a = "drift"
  <2>1. Drift(q) /\ ~(b = "respond")
    BY <1>1, <1>7, Taken
  <2>2. ~Leave(q)
    <3> SUFFICES ASSUME Leave(q) PROVE FALSE
      OBVIOUS
    <3>1. Proceed(q, req[q], <<"respond">>) \/ Proceed(q, req[q], <<>>)
      BY DEF Leave
    <3>2. <<"respond">> # <<>> /\ Head(<<"respond">>) = "respond"
      OBVIOUS
    <3>3. req'[q] = After(req[q], <<"respond">>) \/ req'[q] = Idle
      BY <1>0, <3>1, Moved DEF After
    <3>4. req'[q] = After(req[q], <<"respond">>) => req'[q].todo = <<"respond">>
      BY <1>1, <3>2, Retains
    <3>5. req'[q].todo = <<"respond">> \/ req'[q].todo = <<>>
      BY <3>3, <3>4, Idles
    <3> QED BY <3>2, <3>5, <1>1, <2>1
  <2>3. ~Drifted(Transient(db), db.profile)
    BY <2>1, <2>2 DEF Drift
  <2> QED BY <1>1, <2>3, Undrifted
<1>8. CASE a = "strip"
  <2>1. Strip(q) /\ b = "sandbox"
    BY <1>1, <1>8, Taken DEF Precedes
  <2> DEFINE runs == Transient(db)
             stale == DOMAIN runs = {} \/ (Newest(runs).frame # req[q].frame /\ ~Drifted(runs, db.profile))
             r == [req[q] EXCEPT !.listed = runs]
  <2>2. ~stale => Proceed(q, r, <<>> \o Tail(req[q].todo))
    BY <2>1 DEF Strip
  <2>3. kind = "view"
    BY <1>1, <1>8, <2>1 DEF Precedes
  <2>4. IsRow(r, RequestFields)
    BY <1>1 DEF IsRow, RequestFields
  <2> HIDE DEF stale, r, runs
  <2>5. stale
    <3> SUFFICES ASSUME ~stale PROVE FALSE
      OBVIOUS
    <3> DEFINE s == req[q].todo
               t == Tail(s)
    <3>1. Orderly(s) /\ Path(kind, s) /\ s # <<>>
      BY <1>0, <1>1 DEF Tracked, Ordered, Tidy
    <3>2. <<>> \o t = t
      BY <3>1 DEF Orderly
    <3> HIDE DEF t
    <3>3. req'[q] = After(r, t)
      BY <1>0, <2>2, <3>2, Moved DEF t
    <3>4. t # <<>>
      BY <1>1, <3>3, Idles DEF After
    <3>5. req'[q].todo = t
      BY <2>4, <3>3, <3>4, Retains
    <3>6. Leads(kind, Head(s), Head(t))
      BY <3>1, <3>4, TailPath DEF t
    <3>7. Head(t) = "sandbox" /\ kind \in RunPages /\ kind # "rerun"
      BY <1>1, <2>1, <2>3, <3>5
    <3> QED BY <3>6, <3>7 DEF Leads
  <2>6. DOMAIN Transient(db) = {} \/ ~Drifted(Transient(db), db.profile)
    BY <2>5 DEF stale, runs
  <2> QED BY <1>1, <2>6, Undrifted DEF Matching
<1> QED BY <1>2, <1>6, <1>7, <1>8

\* Who is still at work with the household and the pile's terms as they were.
LEMMA Standing ==
    ASSUME Piles, NEW q \in Requests, Serve(q), NEW p \in Requests, p # q, req[p].todo # <<>>, p \notin overtaken'
    PROVE  /\ req'[p] = req[p] /\ p \notin overtaken
           /\ db'.seedings = db.seedings /\ db'.profile = db.profile
<1>1. Ordered
  BY DEF Piles, Shelving, Working
<1>2. Editable(db') = Editable(db) /\ req'[p] = req[p] /\ p \notin overtaken
  BY <1>1, Others
<1> QED BY <1>2 DEF Editable

\* A seeding overtakes whoever is at work.
LEMMA SeedsOvertake ==
    ASSUME Piles, NEW q \in Requests, Serve(q), Seed(q), req'[q].todo # <<>>,
           NEW o \in Requests, o # q, req[o].todo # <<>>
    PROVE  o \in overtaken'
<1>0. Ordered /\ IsRow(db, DbFields) /\ db.seedings \in Nat
  BY DEF Piles, Shelving, Working, Whole, Halved, Piled
<1>1. ~Fail(q)
  BY <1>0, Moved, Idles DEF Fail, After
<1>2. db' = Seeded(db, req[q].source, req[q].inputs)
  BY <1>1 DEF Seed
<1>3. db'.seedings = db.seedings + 1
  BY <1>0, <1>2, SeedsPile
<1>4. Editable(db') # Editable(db)
  BY <1>0, <1>3 DEF Editable
<1> QED BY <1>4 DEF Serve

LEMMA SeedersAlone ==
    ASSUME Piles, NEW q \in Requests, Serve(q), NEW p \in Requests, Seeding(req'[p]),
           NEW o \in Requests, o # p, req'[o].todo # <<>>
    PROVE  o \in overtaken'
<1>0. Ordered /\ Tracked /\ Step(q)
  BY DEF Piles, Shelving, Working, Serve
<1>1. overtaken \subseteq overtaken'
  BY DEF Serve
<1>2. ASSUME NEW x \in Requests, x # q PROVE req'[x] = req[x]
  BY <1>0, <1>2, Others
<1>3. req[q].todo # <<>> /\ At(q, Head(req[q].todo))
  BY <1>0, LastPage
<1>4. ASSUME NEW x \in Requests, Seeding(req[x]), NEW y \in Requests, y # x, req[y].todo # <<>>
      PROVE  y \in overtaken'
  BY <1>1, <1>4 DEF Piles, Piled
<1>5. CASE p # q
  BY <1>2, <1>3, <1>4, <1>5
<1>6. CASE p = q
  <2> DEFINE a == Head(req[q].todo)
             b == Head(req'[q].todo)
             kind == req[q].job.kind
  <2>1. req'[q].todo # <<>> /\ b \in {"all", "drop"} /\ req'[q].job.kind \in FreshPages
    BY <1>6 DEF Seeding
  <2>2. kind \in FreshPages /\ Precedes(kind, a, b)
    BY <1>0, <2>1, LastPage
  <2>3. a = "seed" \/ a = "all"
    BY <2>1, <2>2 DEF Precedes
  <2>4. req[o].todo # <<>>
    BY <1>2, <1>6
  <2>5. CASE a = "all"
    BY <1>3, <1>4, <1>6, <2>2, <2>4, <2>5 DEF Seeding
  <2>6. CASE a = "seed"
    BY <1>0, <1>3, <1>6, <2>1, <2>4, <2>6, Taken, SeedsOvertake
  <2> QED BY <2>3, <2>5, <2>6
<1> QED BY <1>5, <1>6

\* A run joins a pile that matches the household it was made for.
LEMMA CaptureMatches ==
    ASSUME Piles, ~raced, NEW q \in Requests, Step(q), Capture(q), q \notin overtaken
    PROVE  Matching(db')
<1>0. Ordered /\ Tracked /\ IsRow(db, DbFields) /\ Shelved(db, captured)
  BY DEF Piles, Shelving, Working, Whole, Halved
<1>1. At(q, "capture")
  BY DEF Capture
<1>2. req[q].todo # <<>> /\ Head(req[q].todo) = "capture" /\ req[q].job.kind \in RunPages
  BY <1>0, <1>1, LastPage DEF At, Visits
<1>3. Matching(db) /\ req[q].profile = db.profile
  BY <1>2 DEF Piles, Piled, Joining, Bearing
<1> DEFINE r == req[q]
           m == db.rows + 1
           row == [run |-> r.run, role |-> "WORKING", frame |-> r.frame, profile |-> r.profile,
                   seeding |-> db.seedings]
<1>4. SameTerms(db, db') /\ db'.results = Adding(db.results, m, row)
  BY <1>0 DEF Capture, Captured, SameTerms, IsRow, DbFields
<1>5. row.profile = db.profile /\ row.seeding = db.seedings
  BY <1>3
<1>6. m \notin DOMAIN db.results
  BY <1>0 DEF Shelved
<1> HIDE DEF row, m
<1>7. \A n \in DOMAIN db'.results : db'.results[n] = row \/ (n \in DOMAIN db.results /\ db'.results[n] = db.results[n])
  BY <1>4, <1>6 DEF Adding
<1>8. ASSUME NEW n \in DOMAIN Transient(db')
      PROVE  Transient(db')[n].seeding = db'.seedings /\ ~FactsDiffer(Transient(db')[n].profile, db'.profile)
  <2>1. n \in DOMAIN db'.results /\ db'.results[n].role = "WORKING" /\ Transient(db')[n] = db'.results[n]
    BY <1>8, TransientRows
  <2>2. CASE db'.results[n] = row
    BY <1>4, <1>5, <2>1, <2>2 DEF SameTerms, FactsDiffer
  <2>3. CASE n \in DOMAIN db.results /\ db'.results[n] = db.results[n]
    <3>1. n \in DOMAIN Transient(db) /\ Transient(db)[n] = db.results[n]
      BY <2>1, <2>3, TransientRows
    <3> QED BY <1>3, <1>4, <2>1, <2>3, <3>1 DEF Matching, SameTerms
  <2> QED BY <1>7, <2>1, <2>2, <2>3
<1> QED BY <1>8 DEF Matching

LEMMA MatchingCompares == ASSUME NEW d, Matching(d) PROVE Comparable(d)
BY DEF Matching, Comparable, FactsDiffer

\* A pile that does not compare is about to be emptied, until it has been.
LEMMA StaysComparable ==
    ASSUME Piles, ~raced, NEW q \in Requests, Serve(q), ~Capture(q)
    PROVE  Comparable(db') \/ \E p \in Requests : Clears(db', req'[p])
<1>0. Ordered /\ Tracked /\ IsRow(db, DbFields) /\ Step(q) /\ Shelving
  BY DEF Piles, Shelving, Working, Whole, Halved, Serve
<1>1. /\ Dwindles(db, db')
      /\ db'.seedings = db.seedings \/ (Seed(q) /\ Continue(q, req[q]))
  BY <1>0, StepsDwindle
<1>2. /\ At(q, Head(req[q].todo)) /\ IsRow(req[q], RequestFields)
      /\ Visits(req[q].job.kind, Head(req[q].todo))
  BY <1>0, LastPage
<1>3. CASE db'.seedings # db.seedings
  <2>1. At(q, "seed") /\ Continue(q, req[q])
    BY <1>1, <1>3 DEF Seed
  <2>2. req[q].job.kind \in FreshPages
    BY <1>2, <2>1 DEF At, Visits
  <2>3. req'[q].todo # <<>> /\ req'[q].job = req[q].job /\ Head(req'[q].todo) = "all"
    BY <1>0, <1>2, <2>1, <2>2, EmptiesNext
  <2>4. "all" # "drop"
    OBVIOUS
  <2> QED BY <2>2, <2>3, <2>4 DEF Clears, Seeding
<1>4. CASE db'.seedings = db.seedings /\ Comparable(db)
  BY <1>1, <1>4, Dwindling
<1>5. ASSUME db'.seedings = db.seedings, NEW p \in Requests, Clears(db, req[p])
      PROVE  Comparable(db') \/ \E o \in Requests : Clears(db', req'[o])
  <2>1. CASE p # q
    <3>1. req'[p] = req[p]
      BY <2>1, Others, <1>0
    <3>2. RunsIn(Transient(db')) \subseteq RunsIn(Transient(db))
      BY <1>1, <1>5, Dwindling
    <3> QED BY <1>5, <3>1, <3>2 DEF Clears
  <2>2. CASE p = q /\ Head(req[q].todo) = "all"
    <3> DEFINE r == [req[q] EXCEPT !.listed = Listed(db)]
    <3>1. At(q, "all") /\ All(q) /\ req[q].job.kind \in FreshPages
      BY <1>0, <1>2, <1>5, <2>2, Taken DEF Clears, Seeding
    <3>2. Continue(q, r) /\ db' = db
      BY <3>1 DEF All, Reads
    <3>3. IsRow(r, RequestFields) /\ r.job = req[q].job /\ r.listed = Transient(db)
      BY <1>2 DEF IsRow, RequestFields, Listed
    <3> HIDE DEF r
    <3>4. ~At(q, "seed")
      BY <3>1 DEF At
    <3>5. /\ req'[q].todo # <<>> /\ req'[q].job = req[q].job /\ req'[q].listed = Transient(db)
          /\ Head(req'[q].todo) = "drop"
      BY <1>0, <3>1, <3>2, <3>3, <3>4, EmptiesNext
    <3> QED BY <3>1, <3>2, <3>5 DEF Clears, Seeding
  <2>3. CASE p = q /\ Head(req[q].todo) = "drop"
    <3>1. Drop(q) /\ RunsIn(Transient(db)) \subseteq RunsIn(req[q].listed)
      BY <1>0, <1>2, <1>5, <2>3, Taken DEF Clears
    <3> DEFINE runs == RunsIn(req[q].listed)
    <3>2. db' = WithoutRuns(db, runs)
      BY <3>1 DEF Drop
    <3>6. RunsIn(Transient(db)) \subseteq runs
      BY <3>1
    <3> HIDE DEF runs
    <3>3. \A n \in DOMAIN db'.results : db'.results[n] = db.results[n] /\ db.results[n].run \notin runs
      BY <1>0, <3>2 DEF WithoutRuns, Restrict, IsRow, DbFields
    <3>4. ASSUME NEW n \in DOMAIN Transient(db') PROVE FALSE
      <4>1. n \in DOMAIN db'.results /\ Transient(db')[n] = db'.results[n]
        BY <3>4, TransientRows
      <4>2. n \in DOMAIN Transient(db) /\ Transient(db')[n] = Transient(db)[n]
        BY <1>1, <3>4 DEF Dwindles
      <4>3. Transient(db)[n].run \in runs
        BY <3>6, <4>2 DEF RunsIn
      <4> QED BY <3>3, <4>1, <4>2, <4>3
    <3>5. Comparable(db')
      BY <3>4 DEF Comparable
    <3> QED BY <3>5
  <2> QED BY <1>5, <2>1, <2>2, <2>3 DEF Clears, Seeding
<1> QED BY <1>3, <1>4, <1>5 DEF Piles, Piled

LEMMA StepsPiled ==
    ASSUME Piles, NEW q \in Requests, Serve(q) PROVE Piled'
<1>0. Ordered /\ Tracked /\ Shelving /\ Step(q) /\ overtaken \subseteq overtaken'
  BY DEF Piles, Shelving, Working, Serve
<1>1. /\ Dwindles(db, db') \/ Capture(q)
      /\ db'.seedings = db.seedings \/ db'.seedings = db.seedings + 1
      /\ raced' = raced \/ Capture(q)
  BY <1>0, StepsDwindle
<1>2. db'.seedings \in Nat
  BY <1>1 DEF Piles, Piled
<1>3. ASSUME NEW p \in Requests \ overtaken', Bearing(req'[p]) PROVE req'[p].profile = db'.profile
  <2>1. CASE p = q
    BY <1>0, <1>3, <2>1, BearersKnow
  <2>2. CASE p # q
    <3>1. req'[p] = req[p]
      BY <1>0, <2>2, Others
    <3>2. req[p].todo # <<>>
      BY <1>3, <3>1 DEF Bearing
    <3>3. p \notin overtaken /\ db'.profile = db.profile
      BY <1>3, <2>2, <3>2, Standing
    <3> QED BY <1>3, <3>1, <3>3 DEF Piles, Piled
  <2> QED BY <2>1, <2>2
<1>4. ASSUME NEW p \in Requests, Seeding(req'[p]), NEW o \in Requests \ {p}, req'[o].todo # <<>>
      PROVE  o \in overtaken'
  BY <1>4, SeedersAlone
<1>5. ASSUME ~raced'
      PROVE  /\ \A p \in Requests \ overtaken' : Joining(req'[p]) => Matching(db')
             /\ Comparable(db') \/ \E p \in Requests : Clears(db', req'[p])
  <2>1. CASE Capture(q)
    <3>1. ~raced /\ q \notin overtaken
      BY <1>5, <2>1 DEF Capture
    <3>2. Matching(db')
      BY <1>0, <2>1, <3>1, CaptureMatches
    <3> QED BY <3>2, MatchingCompares
  <2>2. CASE ~Capture(q)
    <3>1. ~raced /\ Dwindles(db, db')
      BY <1>1, <1>5, <2>2
    <3>2. ASSUME NEW p \in Requests \ overtaken', Joining(req'[p]) PROVE Matching(db')
      <4>1. CASE p = q
        BY <1>0, <3>1, <3>2, <4>1, JoinersMatch
      <4>2. CASE p # q
        <5>1. req'[p] = req[p]
          BY <1>0, <4>2, Others
        <5>2. req[p].todo # <<>> /\ Joining(req[p])
          BY <3>2, <5>1 DEF Joining
        <5>3. p \notin overtaken /\ db'.profile = db.profile /\ db'.seedings = db.seedings
          BY <3>2, <4>2, <5>2, Standing
        <5>4. Matching(db)
          BY <3>1, <5>2, <5>3 DEF Piles, Piled
        <5> QED BY <3>1, <5>3, <5>4, Dwindling
      <4> QED BY <4>1, <4>2
    <3> QED BY <2>2, <3>1, <3>2, StaysComparable
  <2> QED BY <2>1, <2>2
<1> QED BY <1>2, <1>3, <1>4, <1>5 DEF Piled

LEMMA BeginsPiled == ASSUME Piles, Begin PROVE Piled'
<1>1. PICK jobs, runs :
         /\ jobs \in Rounds[round]
         /\ req' = [q \in Requests |-> IF q \in DOMAIN jobs THEN Served(jobs[q], runs[q]) ELSE Idle]
  BY DEF Begin
<1>2. \A q \in DOMAIN jobs : jobs[q].kind \in Kinds
  BY <1>1, WorkloadAssumption DEF Begin
<1>3. \A q \in Requests : req'[q].todo = <<>> \/ Head(req'[q].todo) \in {"choose", "find", "get", "edit"}
  BY <1>1, <1>2, Openings, Idles DEF Served
<1>4. \A q \in Requests : ~Joining(req'[q]) /\ ~Seeding(req'[q]) /\ ~Bearing(req'[q])
  BY <1>3 DEF Joining, Seeding, Bearing
<1>5. db' = db /\ raced' = raced
  BY DEF Begin
<1>6. \A q \in Requests : ~Clears(db, req[q])
  BY DEF Begin, Clears, Seeding
<1>7. ~raced => Comparable(db)
  BY <1>6 DEF Piles, Piled
<1> QED BY <1>4, <1>5, <1>7 DEF Piles, Piled

LEMMA DiesPiled ==
    ASSUME Piles, NEW q \in Requests, Die(q) PROVE Piled'
<1>0. Ordered /\ req[q].todo # <<>>
  BY DEF Piles, Shelving, Working, Die
<1>1. req'[q] = Idle /\ \A p \in Requests : p # q => req'[p] = req[p]
  BY <1>0, Moved DEF Die, Fail, After
<1>2. db' = db /\ overtaken' = overtaken /\ raced' = TRUE
  BY DEF Die
<1>3. ~Seeding(req'[q]) /\ ~Bearing(req'[q]) /\ req'[q].todo = <<>>
  BY <1>1, Idles DEF Seeding, Bearing
<1>4. \A p \in Requests \ overtaken' : Bearing(req'[p]) => req'[p].profile = db'.profile
  BY <1>1, <1>2, <1>3 DEF Piles, Piled
<1>5. \A p \in Requests : Seeding(req'[p]) => \A o \in Requests \ {p} : req'[o].todo # <<>> => o \in overtaken'
  BY <1>1, <1>2, <1>3 DEF Piles, Piled
<1> QED BY <1>2, <1>4, <1>5 DEF Piles, Piled

LEMMA StepsPiles == ASSUME Piles, [Next]_vars PROVE Piles'
<1>1. Shelving'
  BY StepsShelving DEF Piles
<1>2. Tracked'
  BY StepsTracks DEF Piles, Shelving, Tracks
<1>3. ASSUME UNCHANGED vars PROVE Piled'
  BY <1>3 DEF vars, Piles, Piled
<1>4. Piled'
  BY <1>3, StepsPiled, BeginsPiled, DiesPiled DEF Next
<1> QED BY <1>1, <1>2, <1>4 DEF Piles

LEMMA OpensPiles == Init => Piles
<1> SUFFICES ASSUME Init PROVE Piles
  OBVIOUS
<1>1. db.seedings = 0 /\ db.results = <<>> /\ \A q \in Requests : req[q].todo = <<>>
  BY Idles DEF Init
<1>2. DOMAIN Transient(db) = {}
  <2>1. DOMAIN Transient(db) = {n \in DOMAIN db.results : db.results[n].role = "WORKING"}
    BY TransientRows
  <2>2. DOMAIN db.results = {}
    BY <1>1
  <2> QED BY <2>1, <2>2
<1>3. Comparable(db) /\ Matching(db)
  BY <1>2 DEF Comparable, Matching
<1>4. \A q \in Requests : ~Bearing(req[q]) /\ ~Seeding(req[q])
  BY <1>1 DEF Bearing, Seeding
<1>5. Piled
  BY <1>1, <1>3, <1>4 DEF Piled
<1> QED BY <1>5, OpensShelving, OpensTracks DEF Piles, Tracks

LEMMA PiledCompare == Piles => PileIsComparable
<1> SUFFICES ASSUME Piles, ~raced, \A q \in Requests : req[q].todo = <<>> PROVE Comparable(db)
  BY DEF PileIsComparable, Comparable
<1>1. \A q \in Requests : ~Clears(db, req[q])
  BY DEF Clears, Seeding
<1> QED BY <1>1 DEF Piles, Piled

\* Whatever the workload, the retention and the number of requests at once: between requests
\* the transient runs the workspace lists were all made since the sandbox was last seeded,
\* for households whose facts agree, unless a run was captured by a request that the sandbox
\* or the profile changed under, or a worker died.  A re-run is refused on the newest run
\* alone, and a new sandbox is seeded in one transaction and the old runs dropped in another.
THEOREM RunsCompare == Spec => []PileIsComparable
<1>1. Init => Piles
  BY OpensPiles
<1>2. Piles /\ [Next]_vars => Piles'
  BY StepsPiles
<1> QED BY <1>1, <1>2, PiledCompare, PTL DEF Spec
=============================================================================
