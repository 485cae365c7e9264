--------------------------- MODULE InterviewProofs ---------------------------
(***************************************************************************)
(* For any sections, households, number of requests and length of time.     *)
(* What months do to the profile: a completed month is history              *)
(* (SnapshotsAreHistory), and what counts as reviewed in a profile that has *)
(* one behind it was presented in its month or later (ReviewedInItsMonth).  *)
(* What overlapping requests do to the sets: a build edits its own scenario *)
(* (BuildEditsItsScenario), and an acknowledged spending section is         *)
(* recorded (AcknowledgedIsRecorded).                                       *)
(***************************************************************************)
EXTENDS Interview, SequenceTheorems, NaturalsInduction, WellFoundedInduction, TLAPS

\* A record with at least some fields, a sequence.
IsRow(x, fields) == x = [f \in DOMAIN x |-> x[f]] /\ fields \subseteq DOMAIN x
IsSeq(p) == Len(p) \in Nat /\ p = [n \in 1 .. Len(p) |-> p[n]]

IsProfile(p) == IsRow(p, {"month", "facts", "acks"}) /\ p.month \in Nat

\* What ages was presented in month since, or later.
Fresh(acks, since) == \A key \in DOMAIN acks \ Sticky : acks[key] >= since

\* The profiles are of different months up to now, in order.  Only the first may count what
\* was reviewed before its month: it is re-dated as long as it is incomplete and alone.
Sound(d, now) ==
    /\ IsRow(d, {"profiles"}) /\ IsSeq(d.profiles)
    /\ \A n \in 1 .. Len(d.profiles) :
          /\ IsProfile(d.profiles[n]) /\ d.profiles[n].month <= now
          /\ \A k \in 1 .. n - 1 : d.profiles[k].month < d.profiles[n].month
          /\ n # 1 => Fresh(d.profiles[n].acks, d.profiles[n].month)

\* What a request may do to the profiles d leaves e; what saving one may.
Past(p, now) == ProfileComplete(p) /\ p.month < now
History(d, e, now) ==
    /\ Len(d.profiles) <= Len(e.profiles)
    /\ \A n \in 1 .. Len(d.profiles) :
          /\ n # 1 => e.profiles[n].month = d.profiles[n].month
          /\ Past(d.profiles[n], now) =>
                e.profiles[n].facts = d.profiles[n].facts /\ e.profiles[n].month = d.profiles[n].month
Kept(d, e, now) ==
    /\ History(d, e, now)
    /\ \A n \in 1 .. Len(d.profiles) : Past(d.profiles[n], now) => e.profiles[n] = d.profiles[n]

\* A record a request means to acknowledge, with the acknowledgments it read there.
Aims(d, record, acks) ==
    record[1] = "profile" =>
        /\ record[2] \in 1 .. Len(d.profiles)
        /\ record[2] # 1 => Fresh(acks, d.profiles[record[2]].month)

IInv ==
    /\ month \in Nat
    /\ Sound(db, month)
    /\ DOMAIN req = Requests
    /\ \A q \in Requests : req[q] # Idle => Aims(db, req[q].record, req[q].acks)
-----------------------------------------------------------------------------
(* Sequences and records. *)

LEMMA SeqIs ==
    ASSUME NEW S, NEW p \in Seq(S)
    PROVE  IsSeq(p)
BY LenProperties DEF IsSeq

LEMMA AppendSeq ==
    ASSUME NEW p, IsSeq(p), NEW x
    PROVE  /\ IsSeq(Append(p, x)) /\ Len(Append(p, x)) = Len(p) + 1
           /\ \A n \in 1 .. Len(p) : Append(p, x)[n] = p[n]
           /\ Append(p, x)[Len(p) + 1] = x
<1> DEFINE S == {p[n] : n \in 1 .. Len(p)} \cup {x}
<1>1. p \in Seq(S) /\ x \in S
  BY DEF IsSeq
<1> HIDE DEF S
<1>2. Append(p, x) \in Seq(S)
  BY <1>1, AppendProperties
<1>3. IsSeq(Append(p, x))
  BY ONLY <1>2, SeqIs
<1> QED BY <1>1, <1>3, AppendProperties

LEMMA UpdateSeq ==
    ASSUME NEW p, IsSeq(p), NEW k \in 1 .. Len(p), NEW x
    PROVE  /\ IsSeq([p EXCEPT ![k] = x]) /\ Len([p EXCEPT ![k] = x]) = Len(p)
           /\ \A n \in 1 .. Len(p) : [p EXCEPT ![k] = x][n] = IF n = k THEN x ELSE p[n]
<1> DEFINE S == {p[n] : n \in 1 .. Len(p)} \cup {x}
<1>1. p \in Seq(S) /\ x \in S
  BY DEF IsSeq
<1> HIDE DEF S
<1>2. [p EXCEPT ![k] = x] \in Seq(S)
  BY <1>1, ExceptSeq
<1>3. IsSeq([p EXCEPT ![k] = x])
  BY ONLY <1>2, SeqIs
<1> QED BY <1>1, <1>3, ExceptSeq

\* Rows of another table changed.
LEMMA SameProfiles ==
    ASSUME NEW now, NEW d, Sound(d, now), NEW e, IsRow(e, {"profiles"}), e.profiles = d.profiles
    PROVE  Sound(e, now) /\ Kept(d, e, now)
BY DEF Sound, Kept, History, IsSeq

\* The latest profile is the last.
LEMMA LatestIsLast ==
    ASSUME NEW now \in Nat, NEW d, Sound(d, now), d.profiles # <<>>
    PROVE  LatestAt(d) = Len(d.profiles) /\ Len(d.profiles) \in 1 .. Len(d.profiles)
<1> DEFINE last == Len(d.profiles)
           IsLatest(n) == \A k \in DOMAIN d.profiles :
               d.profiles[k].month < d.profiles[n].month
               \/ (d.profiles[k].month = d.profiles[n].month /\ k <= n)
<1>1. DOMAIN d.profiles = 1 .. last /\ last \in Nat /\ last # 0
  BY DEF Sound, IsSeq
<1>2. \A n \in 1 .. last : d.profiles[n].month \in Nat
  BY DEF Sound, IsProfile
<1>3. \A n \in 1 .. last, k \in 1 .. last : k < n => d.profiles[k].month < d.profiles[n].month
  BY <1>1 DEF Sound
<1>4. last \in 1 .. last
  BY <1>1
<1> HIDE DEF last
<1>5. IsLatest(last)
  BY <1>1, <1>2, <1>3, <1>4
<1>6. \A n \in DOMAIN d.profiles : IsLatest(n) => n = last
  <2> SUFFICES ASSUME NEW n \in 1 .. last, IsLatest(n), n # last PROVE FALSE
    BY <1>1
  <2>1. n < last /\ last \in DOMAIN d.profiles
    BY <1>1, <1>4
  <2>2. d.profiles[n].month < d.profiles[last].month
    BY <1>3, <1>4, <2>1
  <2> QED BY <1>1, <1>2, <1>4, <2>1, <2>2
<1>7. LatestAt(d) = CHOOSE n \in DOMAIN d.profiles : IsLatest(n)
  BY DEF LatestAt
<1> HIDE DEF IsLatest
<1> QED BY <1>1, <1>4, <1>5, <1>6, <1>7 DEF last
-----------------------------------------------------------------------------
(* One profile replaced, or one more. *)

LEMMA ProfilesOf ==
    ASSUME NEW d, IsRow(d, {"profiles"}), NEW X
    PROVE  IsRow([d EXCEPT !.profiles = X], {"profiles"}) /\ [d EXCEPT !.profiles = X].profiles = X
BY DEF IsRow

LEMMA FactsAnew ==
    ASSUME NEW p, IsProfile(p), NEW facts
    PROVE  LET x == [p EXCEPT !.facts = facts]
           IN  IsProfile(x) /\ x.month = p.month /\ x.acks = p.acks
BY DEF IsProfile, IsRow

LEMMA Redated ==
    ASSUME NEW p, IsProfile(p), NEW facts, NEW now \in Nat
    PROVE  LET x == [p EXCEPT !.month = now, !.facts = facts]
           IN  IsProfile(x) /\ x.month = now
BY DEF IsProfile, IsRow

LEMMA AcksAnew ==
    ASSUME NEW p, IsProfile(p), NEW acks
    PROVE  LET x == [p EXCEPT !.acks = acks]
           IN  IsProfile(x) /\ x.month = p.month /\ x.facts = p.facts /\ x.acks = acks
BY DEF IsProfile, IsRow

LEMMA Replaced ==
    ASSUME NEW now \in Nat, NEW d, Sound(d, now), NEW k \in 1 .. Len(d.profiles),
           NEW x, IsProfile(x), x.month <= now,
           x.month = d.profiles[k].month \/ Len(d.profiles) = 1,
           k # 1 => Fresh(x.acks, x.month),
           ~Past(d.profiles[k], now) \/ (x.facts = d.profiles[k].facts /\ x.month = d.profiles[k].month)
    PROVE  LET e == [d EXCEPT !.profiles = [d.profiles EXCEPT ![k] = x]]
           IN  /\ Sound(e, now) /\ History(d, e, now) /\ Len(e.profiles) = Len(d.profiles)
               /\ ~Past(d.profiles[k], now) => Kept(d, e, now)
<1> DEFINE e == [d EXCEPT !.profiles = [d.profiles EXCEPT ![k] = x]]
<1>1. IsRow(e, {"profiles"}) /\ e.profiles = [d.profiles EXCEPT ![k] = x]
  BY ProfilesOf DEF Sound
<1> HIDE DEF e
<1>2. /\ IsSeq(e.profiles) /\ Len(e.profiles) = Len(d.profiles) /\ Len(d.profiles) \in Nat
      /\ \A n \in 1 .. Len(d.profiles) : e.profiles[n] = IF n = k THEN x ELSE d.profiles[n]
  <2>1. IsSeq(d.profiles) /\ Len(d.profiles) \in Nat
    BY DEF Sound, IsSeq
  <2> QED BY <1>1, <2>1, UpdateSeq
<1>3. \A n \in 1 .. Len(d.profiles) : \A m \in 1 .. n - 1 : e.profiles[m].month < e.profiles[n].month
  <2> SUFFICES ASSUME NEW n \in 1 .. Len(d.profiles), NEW m \in 1 .. n - 1
               PROVE  e.profiles[m].month < e.profiles[n].month
    OBVIOUS
  <2>1. d.profiles[m].month < d.profiles[n].month
    BY DEF Sound
  <2>2. Len(d.profiles) # 1 /\ m \in 1 .. Len(d.profiles)
    BY <1>2
  <2> QED BY <1>2, <2>1, <2>2
<1>4. Sound(e, now)
  BY <1>1, <1>2, <1>3 DEF Sound
<1>5. History(d, e, now)
  BY <1>2 DEF History
<1>6. ~Past(d.profiles[k], now) => Kept(d, e, now)
  BY <1>2, <1>5 DEF Kept
<1> QED BY <1>2, <1>4, <1>5, <1>6 DEF e

LEMMA Added ==
    ASSUME NEW now \in Nat, NEW d, Sound(d, now), OfMonth(d, now) = {},
           NEW facts, NEW acks, Fresh(acks, now)
    PROVE  LET e == NewRecord(d, now, facts, acks)
           IN  Sound(e, now) /\ Kept(d, e, now) /\ Len(e.profiles) \in Nat \ {0}
<1> DEFINE x == [month |-> now, facts |-> facts, acks |-> acks]
           e == NewRecord(d, now, facts, acks)
           last == Len(d.profiles)
<1>1. IsRow(e, {"profiles"}) /\ e.profiles = Append(d.profiles, x)
  BY ProfilesOf DEF Sound, NewRecord
<1>2. IsProfile(x) /\ x.month = now /\ x.acks = acks
  BY DEF IsProfile, IsRow
<1> HIDE DEF e, x
<1>3. /\ IsSeq(e.profiles) /\ Len(e.profiles) = last + 1 /\ last \in Nat
      /\ \A n \in 1 .. last : e.profiles[n] = d.profiles[n]
      /\ e.profiles[last + 1] = x
  BY <1>1, AppendSeq DEF Sound, IsSeq
<1>4. \A n \in 1 .. last : d.profiles[n].month < now
  <2> SUFFICES ASSUME NEW n \in 1 .. last PROVE d.profiles[n].month # now
    BY DEF Sound, IsProfile
  <2>1. n \in DOMAIN d.profiles
    BY DEF Sound, IsSeq
  <2> QED BY <2>1 DEF OfMonth
<1> HIDE DEF last
<1>5. \A n \in 1 .. last + 1 : \A m \in 1 .. n - 1 : e.profiles[m].month < e.profiles[n].month
  <2> SUFFICES ASSUME NEW n \in 1 .. last + 1, NEW m \in 1 .. n - 1
               PROVE  e.profiles[m].month < e.profiles[n].month
    OBVIOUS
  <2>1. CASE n = last + 1
    BY <1>2, <1>3, <1>4, <2>1
  <2>2. CASE n # last + 1
    <3>1. n \in 1 .. last /\ m \in 1 .. last
      BY <1>3, <2>2
    <3> QED BY <1>3, <3>1 DEF Sound, last
  <2> QED BY <2>1, <2>2
<1>6. \A n \in 1 .. last + 1 :
          /\ IsProfile(e.profiles[n]) /\ e.profiles[n].month <= now
          /\ n # 1 => Fresh(e.profiles[n].acks, e.profiles[n].month)
  <2> SUFFICES ASSUME NEW n \in 1 .. last + 1
               PROVE  /\ IsProfile(e.profiles[n]) /\ e.profiles[n].month <= now
                      /\ n # 1 => Fresh(e.profiles[n].acks, e.profiles[n].month)
    OBVIOUS
  <2>1. CASE n = last + 1
    BY <1>2, <1>3, <2>1
  <2>2. CASE n # last + 1
    <3>1. n \in 1 .. last
      BY <1>3, <2>2
    <3> QED BY <1>3, <3>1 DEF Sound, last
  <2> QED BY <2>1, <2>2
<1>7. Sound(e, now)
  BY <1>1, <1>3, <1>5, <1>6 DEF Sound
<1>8. Kept(d, e, now)
  BY <1>3 DEF Kept, History, last
<1> QED BY <1>3, <1>7, <1>8 DEF e
-----------------------------------------------------------------------------
(* Saving and advancing the profile. *)

LEMMA SaveProfileKeeps ==
    ASSUME NEW now \in Nat, NEW d, Sound(d, now), NEW facts
    PROVE  LET e == SaveProfile(d, facts, now)
           IN  Sound(e, now) /\ Kept(d, e, now) /\ Len(e.profiles) \in Nat \ {0}
<1> DEFINE e == SaveProfile(d, facts, now)
<1>0. Len(d.profiles) \in Nat /\ DOMAIN d.profiles = 1 .. Len(d.profiles)
  BY DEF Sound, IsSeq
<1>1. CASE WriteInPlace(d)
  <2> DEFINE p == d.profiles[1]
             x == [p EXCEPT !.month = now, !.facts = facts]
  <2>1. Len(d.profiles) = 1 /\ 1 \in 1 .. Len(d.profiles) /\ ~ProfileComplete(d.profiles[LatestAt(d)])
    BY <1>1 DEF WriteInPlace, Latest
  <2>2. d.profiles # <<>>
    BY <1>0, <2>1
  <2>3. ~Past(p, now)
    <3>1. LatestAt(d) = 1
      BY <2>1, <2>2, LatestIsLast
    <3> QED BY <2>1, <3>1 DEF Past
  <2>4. IsProfile(p)
    BY <2>1 DEF Sound
  <2>5. IsProfile(x) /\ x.month = now
    <3> HIDE DEF p
    <3> QED BY <2>4, Redated
  <2>6. e = [d EXCEPT !.profiles = [d.profiles EXCEPT ![1] = x]]
    BY <1>1 DEF SaveProfile
  <2> HIDE DEF e, x
  <2>7. x.month <= now /\ ~Past(d.profiles[1], now)
    BY <2>3, <2>5
  <2> HIDE DEF p
  <2>8. Sound(e, now) /\ Kept(d, e, now) /\ Len(e.profiles) = 1
    BY <2>1, <2>5, <2>6, <2>7, Replaced
  <2> QED BY <2>8 DEF e
<1>2. CASE ~WriteInPlace(d) /\ OfMonth(d, now) # {}
  <2> DEFINE k == CHOOSE n \in OfMonth(d, now) : TRUE
             p == d.profiles[k]
             x == [p EXCEPT !.facts = facts]
  <2>1. k \in 1 .. Len(d.profiles) /\ p.month = now
    BY <1>0, <1>2 DEF OfMonth
  <2>2. e = [d EXCEPT !.profiles = [d.profiles EXCEPT ![k] = x]]
    BY <1>2 DEF SaveProfile
  <2> HIDE DEF e, k
  <2>3. IsProfile(p) /\ (k # 1 => Fresh(p.acks, p.month))
    BY <2>1 DEF Sound
  <2>4. IsProfile(x) /\ x.month = now /\ x.acks = p.acks
    BY <2>1, <2>3, FactsAnew
  <2>5. ~Past(p, now)
    BY <2>1 DEF Past
  <2> HIDE DEF x
  <2>6. Sound(e, now) /\ Kept(d, e, now) /\ Len(e.profiles) = Len(d.profiles)
    BY <2>1, <2>2, <2>3, <2>4, <2>5, Replaced
  <2> QED BY <1>0, <2>1, <2>6 DEF e
<1>3. CASE ~WriteInPlace(d) /\ OfMonth(d, now) = {}
  <2>1. e = NewRecord(d, now, facts, <<>>)
    BY <1>3 DEF SaveProfile
  <2>2. Fresh(<<>>, now)
    BY DEF Fresh
  <2> QED BY <1>3, <2>1, <2>2, Added
<1> QED BY <1>1, <1>2, <1>3

LEMMA AdvanceProfileKeeps ==
    ASSUME NEW now \in Nat, NEW d, Sound(d, now)
    PROVE  LET e == AdvanceProfile(d, now) IN Sound(e, now) /\ Kept(d, e, now)
<1>1. CASE OfMonth(d, now) # {}
  BY <1>1, SameProfiles DEF AdvanceProfile, Sound
<1>2. CASE OfMonth(d, now) = {}
  <2> DEFINE acks == Carried(Latest(d).acks)
  <2>1. Fresh(acks, now)
    BY DEF Fresh, Carried, Restrict
  <2>2. AdvanceProfile(d, now) = NewRecord(d, now, Latest(d).facts, acks)
    BY <1>2 DEF AdvanceProfile
  <2> QED BY <1>2, <2>1, <2>2, Added
<1> QED BY <1>1, <1>2

LEMMA KeptTransitive ==
    ASSUME NEW now \in Nat, NEW c, NEW d, NEW e, Sound(c, now), Sound(d, now), Sound(e, now),
           Kept(c, d, now)
    PROVE  /\ History(d, e, now) => History(c, e, now)
           /\ Kept(d, e, now) => Kept(c, e, now)
<1>1. /\ Len(c.profiles) \in Nat /\ Len(d.profiles) \in Nat /\ Len(e.profiles) \in Nat
      /\ Len(c.profiles) <= Len(d.profiles)
  BY DEF Sound, IsSeq, Kept, History
<1>2. \A n \in 1 .. Len(c.profiles) : n \in 1 .. Len(d.profiles)
  BY <1>1
<1>3. ASSUME History(d, e, now) PROVE History(c, e, now)
  <2> SUFFICES ASSUME NEW n \in 1 .. Len(c.profiles)
               PROVE  /\ n # 1 => e.profiles[n].month = c.profiles[n].month
                      /\ Past(c.profiles[n], now) => /\ e.profiles[n].facts = c.profiles[n].facts
                                                     /\ e.profiles[n].month = c.profiles[n].month
    BY <1>1, <1>3 DEF History
  <2>1. n # 1 => e.profiles[n].month = c.profiles[n].month
    BY <1>2, <1>3 DEF Kept, History
  <2>2. CASE Past(c.profiles[n], now)
    <3>1. d.profiles[n] = c.profiles[n]
      BY <2>2 DEF Kept
    <3> QED BY <1>2, <1>3, <2>2, <3>1 DEF History
  <2> QED BY <2>1, <2>2
<1>4. ASSUME Kept(d, e, now) PROVE Kept(c, e, now)
  <2> SUFFICES ASSUME NEW n \in 1 .. Len(c.profiles), Past(c.profiles[n], now)
               PROVE  e.profiles[n] = c.profiles[n]
    BY <1>3, <1>4 DEF Kept
  <2>1. d.profiles[n] = c.profiles[n]
    BY DEF Kept
  <2> QED BY <1>2, <1>4, <2>1 DEF Kept
<1> QED BY <1>3, <1>4
-----------------------------------------------------------------------------
(* Plans, assumptions, and what a request takes along. *)

LEMMA NewSetKeeps ==
    ASSUME NEW now, NEW d, Sound(d, now), NEW kind, NEW acks, NEW rows
    PROVE  LET e == NewSet(d, kind, acks, rows)
           IN  Sound(e, now) /\ Kept(d, e, now) /\ e.profiles = d.profiles
<1> DEFINE e == NewSet(d, kind, acks, rows)
<1>1. IsRow(e, {"profiles"}) /\ e.profiles = d.profiles
  BY DEF NewSet, Sound, IsRow
<1> QED BY <1>1, SameProfiles

LEMMA CloneKeeps ==
    ASSUME NEW now, NEW d, Sound(d, now), NEW id
    PROVE  Sound(Clone(d, id), now) /\ Clone(d, id).profiles = d.profiles
<1>1. PICK kind, acks, rows : Clone(d, id) = NewSet(d, kind, acks, rows)
  BY DEF Clone
<1> QED BY <1>1, NewSetKeeps

LEMMA NewScenarioKeeps ==
    ASSUME NEW now, NEW d, Sound(d, now), NEW plans, NEW assumptions
    PROVE  LET e == NewScenario(d, plans, assumptions)
           IN  Sound(e, now) /\ Kept(d, e, now) /\ e.profiles = d.profiles
<1> DEFINE e == NewScenario(d, plans, assumptions)
<1>1. IsRow(e, {"profiles"}) /\ e.profiles = d.profiles
  BY DEF NewScenario, Sound, IsRow
<1> QED BY <1>1, SameProfiles

LEMMA SaveRowsKeeps ==
    ASSUME NEW now, NEW d, Sound(d, now), NEW s, NEW kind, NEW rows
    PROVE  LET e == SaveRows(d, s, kind, rows)
           IN  Sound(e, now) /\ Kept(d, e, now) /\ e.profiles = d.profiles
<1> DEFINE e == SaveRows(d, s, kind, rows)
<1>1. IsRow(e, {"profiles"}) /\ e.profiles = d.profiles
  BY DEF SaveRows, Sound, IsRow
<1> QED BY <1>1, SameProfiles

LEMMA WithoutScenarioKeeps ==
    ASSUME NEW now, NEW d, Sound(d, now), NEW id
    PROVE  LET e == WithoutScenario(d, id)
           IN  Sound(e, now) /\ Kept(d, e, now) /\ e.profiles = d.profiles
<1> DEFINE e == WithoutScenario(d, id)
<1>1. IsRow(e, {"profiles"}) /\ e.profiles = d.profiles
  BY DEF WithoutScenario, Sound, IsRow
<1> QED BY <1>1, SameProfiles

LEMMA EnsureDefaultKeeps ==
    ASSUME NEW now \in Nat, NEW d, Sound(d, now)
    PROVE  LET e == EnsureDefault(d)
           IN  Sound(e, now) /\ Kept(d, e, now) /\ e.profiles = d.profiles
<1>1. CASE d.scenarios = <<>>
  <2> DEFINE a == NewSet(d, "plans", <<>>, {})
             b == NewSet(a, "assumptions", <<>>, {})
             e == FreshScenario(d)
  <2>1. e = NewScenario(b, d.next, d.next + 1) /\ EnsureDefault(d) = e
    BY <1>1 DEF FreshScenario, EnsureDefault
  <2>2. Sound(a, now) /\ a.profiles = d.profiles
    BY NewSetKeeps
  <2> HIDE DEF a
  <2>3. Sound(b, now) /\ b.profiles = d.profiles
    BY <2>2, NewSetKeeps
  <2> HIDE DEF b, e
  <2>4. Sound(e, now) /\ e.profiles = d.profiles
    BY <2>1, <2>3, NewScenarioKeeps
  <2>5. Kept(d, e, now)
    BY <2>4, SameProfiles DEF Sound
  <2> QED BY <2>1, <2>4, <2>5
<1>2. CASE d.scenarios # <<>>
  BY <1>2, SameProfiles DEF EnsureDefault, Sound
<1> QED BY <1>1, <1>2

LEMMA WithRecordsKeeps ==
    ASSUME NEW now \in Nat, NEW d, Sound(d, now), NEW kind, NEW section
    PROVE  LET e == WithRecords(d, kind, section, now)
           IN  /\ Sound(e, now) /\ Kept(d, e, now)
               /\ ~(kind = "pane" /\ section.pane = {"assumptions"}) => e.profiles # <<>>
<1> DEFINE p == IF d.profiles = <<>> /\ ~(kind = "pane" /\ section.pane = {"assumptions"})
                THEN SaveProfile(d, Blank, now) ELSE d
           e == WithRecords(d, kind, section, now)
<1>1. e = p \/ e = NewSet(p, KindOf(section), <<>>, {})
  BY DEF WithRecords
<1>2. /\ Sound(p, now) /\ Kept(d, p, now)
      /\ ~(kind = "pane" /\ section.pane = {"assumptions"}) => p.profiles # <<>>
  <2>1. LET c == SaveProfile(d, Blank, now)
        IN  Sound(c, now) /\ Kept(d, c, now) /\ c.profiles # <<>>
    <3> DEFINE c == SaveProfile(d, Blank, now)
    <3>1. Sound(c, now) /\ Kept(d, c, now) /\ Len(c.profiles) \in Nat \ {0}
      BY SaveProfileKeeps
    <3> HIDE DEF c
    <3>2. c.profiles # <<>>
      BY <3>1
    <3> QED BY <3>1, <3>2 DEF c
  <2>2. Sound(d, now) /\ Kept(d, d, now)
    BY SameProfiles DEF Sound
  <2> QED BY <2>1, <2>2
<1> HIDE DEF p, e
<1>3. CASE e = p
  BY <1>2, <1>3 DEF e
<1>4. CASE e = NewSet(p, KindOf(section), <<>>, {})
  <2>1. Sound(e, now) /\ Kept(p, e, now) /\ e.profiles = p.profiles
    BY <1>2, <1>4, NewSetKeeps
  <2>2. Kept(d, e, now)
    BY <1>2, <2>1, KeptTransitive
  <2> QED BY <1>2, <2>1, <2>2 DEF e
<1> QED BY <1>1, <1>3, <1>4
-----------------------------------------------------------------------------
(* Storing and acknowledging a section. *)

LEMMA SaveRecordsKeeps ==
    ASSUME NEW now \in Nat, NEW d, Sound(d, now), NEW s, NEW records, NEW kind, NEW facts, NEW rows
    PROVE  LET e == SaveRecords(d, s, records, kind, facts, rows, now) IN Sound(e, now) /\ Kept(d, e, now)
<1> DEFINE p == IF "profile" \in records THEN SaveProfile(d, facts, now) ELSE d
           e == SaveRecords(d, s, records, kind, facts, rows, now)
<1>1. e = p \/ e = SaveRows(p, s, kind, rows)
  BY DEF SaveRecords
<1>2. Sound(p, now) /\ Kept(d, p, now)
  <2>1. Sound(d, now) /\ Kept(d, d, now)
    BY SameProfiles DEF Sound
  <2> QED BY <2>1, SaveProfileKeeps
<1> HIDE DEF p, e
<1>3. CASE e = p
  BY <1>2, <1>3 DEF e
<1>4. CASE e = SaveRows(p, s, kind, rows)
  <2>1. Sound(e, now) /\ Kept(p, e, now)
    BY <1>2, <1>4, SaveRowsKeeps
  <2>2. Kept(d, e, now)
    BY <1>2, <2>1, KeptTransitive
  <2> QED BY <2>1, <2>2 DEF e
<1> QED BY <1>1, <1>3, <1>4

LEMMA StoreKeeps ==
    ASSUME NEW now \in Nat, NEW d, Sound(d, now), NEW s, NEW section, NEW read
    PROVE  LET e == Store(d, s, section, read, now) IN Sound(e, now) /\ Kept(d, e, now)
BY SaveRecordsKeeps DEF Store

\* A request may acknowledge the profile it read, however long ago.
LEMMA AcknowledgeKeeps ==
    ASSUME NEW now \in Nat, NEW d, Sound(d, now), NEW record, NEW acks, Aims(d, record, acks),
           NEW section
    PROVE  LET e == Acknowledge(d, record, acks, section, now)
           IN  Sound(e, now) /\ History(d, e, now)
<1> DEFINE more == [key \in DOMAIN acks \cup {section.key} |->
                       IF key \in DOMAIN acks THEN acks[key] ELSE now]
           e == Acknowledge(d, record, acks, section, now)
<1>0. Sound(d, now) /\ History(d, d, now)
  BY SameProfiles DEF Sound, Kept
<1>1. CASE section.key \in Acknowledged(acks) \/ ~Stands(d, record)
  BY <1>0, <1>1 DEF Acknowledge
<1>2. CASE ~(section.key \in Acknowledged(acks) \/ ~Stands(d, record)) /\ record[1] = "profile"
  <2> DEFINE k == record[2]
             p == d.profiles[k]
             x == [p EXCEPT !.acks = more]
  <2>1. e = [d EXCEPT !.profiles = [d.profiles EXCEPT ![k] = x]]
    BY <1>2 DEF Acknowledge
  <2>2. k \in 1 .. Len(d.profiles) /\ (k # 1 => Fresh(acks, p.month))
    BY <1>2 DEF Aims
  <2>3. IsProfile(p) /\ p.month <= now
    BY <2>2 DEF Sound
  <2> HIDE DEF e, k, p, more
  <2>4. IsProfile(x) /\ x.month = p.month /\ x.facts = p.facts /\ x.acks = more
    BY <2>3, AcksAnew
  <2>5. k # 1 => Fresh(more, p.month)
    BY <2>2, <2>3 DEF Fresh, more, IsProfile
  <2> HIDE DEF x
  <2>6. Sound(e, now) /\ History(d, e, now)
    BY <2>1, <2>2, <2>3, <2>4, <2>5, Replaced DEF p
  <2> QED BY <2>6 DEF e
<1>3. CASE ~(section.key \in Acknowledged(acks) \/ ~Stands(d, record)) /\ record[1] # "profile"
  <2>1. e = [d EXCEPT !.sets[record[2]].acks = more]
    BY <1>3 DEF Acknowledge
  <2> HIDE DEF e, more
  <2>2. IsRow(e, {"profiles"}) /\ e.profiles = d.profiles
    BY <2>1 DEF Sound, IsRow
  <2> QED BY <2>2, SameProfiles DEF Kept, e
<1> QED BY <1>1, <1>2, <1>3

LEMMA AimsKept ==
    ASSUME NEW now, NEW d, NEW e, Sound(d, now), Sound(e, now), History(d, e, now),
           NEW record, NEW acks, Aims(d, record, acks)
    PROVE  Aims(e, record, acks)
<1>1. Len(d.profiles) \in Nat /\ Len(e.profiles) \in Nat /\ Len(d.profiles) <= Len(e.profiles)
  BY DEF Sound, IsSeq, History
<1>2. CASE record[1] = "profile"
  <2>1. record[2] \in 1 .. Len(d.profiles) /\ record[2] \in 1 .. Len(e.profiles)
    BY <1>1, <1>2 DEF Aims
  <2>2. record[2] # 1 => e.profiles[record[2]].month = d.profiles[record[2]].month
    BY <2>1 DEF History
  <2> QED BY <1>2, <2>1, <2>2 DEF Aims
<1>3. CASE record[1] # "profile"
  BY <1>3 DEF Aims
<1> QED BY <1>2, <1>3

LEMMA SeedAndAcknowledgeKeeps ==
    ASSUME NEW now \in Nat, NEW d, Sound(d, now), NEW s, NEW section, NEW record, NEW acks,
           Aims(d, record, acks), NEW read
    PROVE  LET e == SeedAndAcknowledge(d, s, section, record, acks, read, now)
           IN  Sound(e, now) /\ History(d, e, now)
<1> DEFINE p == IF section.seeds THEN Store(d, s, section, read, now) ELSE d
           e == SeedAndAcknowledge(d, s, section, record, acks, read, now)
<1>0. Sound(d, now) /\ Kept(d, d, now) /\ History(d, d, now)
  BY SameProfiles DEF Sound, Kept
<1>1. CASE section.key \in Acknowledged(acks)
  BY <1>0, <1>1 DEF SeedAndAcknowledge
<1>2. CASE section.key \notin Acknowledged(acks)
  <2>1. e = Acknowledge(p, record, acks, section, now)
    BY <1>2 DEF SeedAndAcknowledge
  <2>2. Sound(p, now) /\ Kept(d, p, now)
    BY <1>0, StoreKeeps
  <2> HIDE DEF p, e
  <2>3. Aims(p, record, acks)
    BY <2>2, AimsKept DEF Kept
  <2>4. Sound(e, now) /\ History(p, e, now)
    BY <2>1, <2>2, <2>3, AcknowledgeKeeps
  <2>5. History(d, e, now)
    BY <2>2, <2>4, KeptTransitive
  <2> QED BY <2>4, <2>5 DEF e
<1> QED BY <1>1, <1>2

\* What a request reads, once its records are there.
LEMMA ReadsAim ==
    ASSUME NEW now \in Nat, NEW d, Sound(d, now), NEW s, NEW section,
           FlowOf(section) = "profile" => d.profiles # <<>>
    PROVE  LET record == FlowRecord(d, s, section) IN Aims(d, record, AcksOf(d, record))
<1> DEFINE record == FlowRecord(d, s, section)
<1>1. CASE FlowOf(section) = "profile"
  <2>1. record = <<"profile", LatestAt(d)>>
    BY <1>1 DEF FlowRecord
  <2>2. LatestAt(d) \in 1 .. Len(d.profiles)
    BY <1>1, LatestIsLast
  <2>3. AcksOf(d, record) = d.profiles[LatestAt(d)].acks
    BY <2>1 DEF AcksOf
  <2>4. LatestAt(d) # 1 => Fresh(d.profiles[LatestAt(d)].acks, d.profiles[LatestAt(d)].month)
    BY <2>2 DEF Sound
  <2> QED BY <2>1, <2>2, <2>3, <2>4 DEF Aims
<1>2. CASE FlowOf(section) # "profile"
  BY <1>2 DEF FlowRecord, Aims
<1> QED BY <1>1, <1>2
-----------------------------------------------------------------------------
(* The steps. *)

\* What every request keeps to: q is answered, holds what it read, or does not concern itself.
Allowed ==
    /\ month' = month /\ Sound(db', month) /\ History(db, db', month)
    /\ DOMAIN req' = Requests
    /\ \A q \in Requests :
          req'[q] = req[q] \/ req'[q] = Idle \/ Aims(db', req'[q].record, req'[q].acks)

LEMMA AllowedKeeps == IInv /\ Allowed => IInv'
<1> SUFFICES ASSUME IInv, Allowed, NEW q \in Requests, req'[q] # Idle
             PROVE  Aims(db', req'[q].record, req'[q].acks)
  BY DEF IInv, Allowed
<1>1. CASE req'[q] = req[q]
  <2>1. Aims(db, req[q].record, req[q].acks)
    BY <1>1 DEF IInv
  <2> QED BY <1>1, <2>1, AimsKept DEF IInv, Allowed
<1> QED BY <1>1 DEF Allowed

LEMMA AnswerAllowed ==
    ASSUME IInv, NEW q \in Requests, Ends(q), Sound(db', month), History(db, db', month)
    PROVE  Allowed
BY DEF Ends, Allowed, IInv

LEMMA ServedAllowed ==
    ASSUME IInv, Served, Sound(db', month), History(db, db', month)
    PROVE  Allowed
BY DEF Served, Allowed, IInv

LEMMA ReadAllowed ==
    ASSUME IInv, NEW q \in Requests, NEW kind, NEW section,
           db' = WithRecords(db, kind, section, month), Starts(q, Held(kind, section, db')),
           FlowOf(section) = "profile" => ~(kind = "pane" /\ section.pane = {"assumptions"})
    PROVE  Allowed
<1>1. /\ Sound(db', month) /\ Kept(db, db', month)
      /\ ~(kind = "pane" /\ section.pane = {"assumptions"}) => db'.profiles # <<>>
  BY WithRecordsKeeps DEF IInv
<1> DEFINE r == Held(kind, section, db')
<1>2. Aims(db', r.record, r.acks)
  BY <1>1, ReadsAim DEF IInv, Held
<1> HIDE DEF r
<1>3. req' = [req EXCEPT ![q] = r] /\ month' = month
  BY DEF Starts, r
<1> QED BY <1>1, <1>2, <1>3 DEF Allowed, IInv, Kept

LEMMA ViewSectionAllowed ==
    ASSUME IInv, NEW q \in Requests, ViewSection(q)
    PROVE  Allowed
<1> PICK section \in Range(Sections) :
        /\ db' = WithRecords(db, "view", section, month)
        /\ Starts(q, Held("view", section, db'))
  BY DEF ViewSection
<1> QED BY ReadAllowed

LEMMA SubmitSectionAllowed ==
    ASSUME IInv, NEW q \in Requests, SubmitSection(q)
    PROVE  Allowed
<1> PICK section \in Range(Sections), kind \in {"next", "pane"} :
        /\ db' = WithRecords(db, kind, section, month)
        /\ Starts(q, Held(kind, section, db'))
  BY DEF SubmitSection
<1>1. FlowOf(section) = "profile" => section.pane # {"assumptions"}
  BY InterviewAssumption DEF FlowOf, Range
<1> QED BY <1>1, ReadAllowed

LEMMA ShowSectionAllowed ==
    ASSUME IInv, NEW q \in Requests, ShowSection(q)
    PROVE  Allowed
<1>1. Aims(db, req[q].record, req[q].acks)
  BY DEF IInv, ShowSection, Idle
<1>2. Sound(db', month) /\ History(db, db', month) /\ Ends(q)
  BY <1>1, SeedAndAcknowledgeKeeps DEF IInv, ShowSection
<1> QED BY <1>2, AnswerAllowed

LEMMA AdvanceAllowed ==
    ASSUME IInv, NEW q \in Requests, Advance(q)
    PROVE  Allowed
<1> DEFINE r         == req[q]
           stored    == Store(db, r.session, r.section, r.read, month)
           following == Following(r.section, r.read.facts, r.session)
           d         == WithRecords(stored, "next", following, month)
           record    == FlowRecord(d, r.session, following)
<1>1. Sound(stored, month) /\ Kept(db, stored, month)
  BY StoreKeeps DEF IInv
<1>2. Ends(q) /\ (db' = stored \/
          db' = SeedAndAcknowledge(d, r.session, following, record, AcksOf(d, record),
                                   Reading(d, r.session, following), month))
  BY DEF Advance
<1> HIDE DEF stored, following
<1>3. Sound(d, month) /\ Kept(stored, d, month) /\ d.profiles # <<>>
  BY <1>1, WithRecordsKeeps DEF IInv
<1> HIDE DEF d
<1>4. Aims(d, record, AcksOf(d, record))
  BY <1>3, ReadsAim DEF IInv
<1> HIDE DEF record
<1>5. CASE db' = stored
  BY <1>1, <1>2, <1>5, AnswerAllowed DEF Kept
<1>6. CASE db' = SeedAndAcknowledge(d, r.session, following, record, AcksOf(d, record),
                                    Reading(d, r.session, following), month)
  <2>1. Sound(db', month) /\ History(d, db', month)
    BY <1>3, <1>4, <1>6, SeedAndAcknowledgeKeeps DEF IInv
  <2>2. History(stored, db', month)
    BY <1>1, <1>3, <2>1, KeptTransitive DEF IInv
  <2>3. History(db, db', month)
    BY <1>1, <2>1, <2>2, KeptTransitive DEF IInv
  <2> QED BY <1>2, <2>1, <2>3, AnswerAllowed
<1> QED BY <1>2, <1>5, <1>6

LEMMA SavePaneAllowed ==
    ASSUME IInv, NEW q \in Requests, SavePane(q)
    PROVE  Allowed
<1>1. PICK s, records, kind, facts, rows : db' = SaveRecords(db, s, records, kind, facts, rows, month)
  BY DEF SavePane
<1>2. Sound(db', month) /\ Kept(db, db', month)
  BY <1>1, SaveRecordsKeeps DEF IInv
<1>3. Ends(q)
  BY DEF SavePane
<1> QED BY <1>2, <1>3, AnswerAllowed DEF Kept

\* Requests of one step that leave the profiles alone.
LEMMA UnchangedAllowed ==
    ASSUME IInv, Served, Sound(db', month), db'.profiles = db.profiles
    PROVE  Allowed
<1>1. History(db, db', month)
  BY SameProfiles DEF Sound, Kept, IInv
<1> QED BY <1>1, ServedAllowed

LEMMA AcknowledgeRefreshAllowed ==
    ASSUME IInv, AcknowledgeRefresh
    PROVE  Allowed
<1>1. Sound(db', month) /\ Kept(db, db', month) /\ Served
  BY AdvanceProfileKeeps DEF AcknowledgeRefresh, IInv
<1> QED BY <1>1, ServedAllowed DEF Kept

LEMMA EnterProfileFlowAllowed ==
    ASSUME IInv, EnterProfileFlow
    PROVE  Allowed
<1>1. Sound(db', month) /\ Kept(db, db', month) /\ Served
  BY EnsureDefaultKeeps DEF EnterProfileFlow, IInv
<1> QED BY <1>1, ServedAllowed DEF Kept

LEMMA StartFreshAllowed ==
    ASSUME IInv, StartFresh
    PROVE  Allowed
<1> DEFINE a == NewSet(db, "plans", <<>>, {})
           b == NewSet(a, "assumptions", <<>>, {})
<1>1. Served /\ db' = NewScenario(b, db.next, db.next + 1)
  BY DEF StartFresh, FreshScenario
<1>2. Sound(a, month) /\ a.profiles = db.profiles
  BY NewSetKeeps DEF IInv
<1> HIDE DEF a
<1>3. Sound(b, month) /\ b.profiles = db.profiles
  BY <1>2, NewSetKeeps
<1> HIDE DEF b
<1>4. Sound(db', month) /\ db'.profiles = db.profiles
  BY <1>1, <1>3, NewScenarioKeeps
<1> QED BY <1>1, <1>4, UnchangedAllowed

LEMMA CopyScenarioAllowed ==
    ASSUME IInv, CopyScenario
    PROVE  Allowed
<1> PICK id \in CompleteScenarios(db), copied \in CopiedSides :
        LET pair  == db.scenarios[id]
            plans == IF "plans" \in copied THEN Clone(db, pair.plans) ELSE db
            both  == IF "assumptions" \in copied THEN Clone(plans, pair.assumptions) ELSE plans
        IN  \E p, a : db' = NewScenario(both, p, a)
  BY DEF CopyScenario
<1> DEFINE pair  == db.scenarios[id]
           plans == IF "plans" \in copied THEN Clone(db, pair.plans) ELSE db
           both  == IF "assumptions" \in copied THEN Clone(plans, pair.assumptions) ELSE plans
<1> PICK p, a : db' = NewScenario(both, p, a)
  OBVIOUS
<1>1. Sound(plans, month) /\ plans.profiles = db.profiles
  BY CloneKeeps DEF IInv
<1> HIDE DEF plans
<1>2. Sound(both, month) /\ both.profiles = db.profiles
  BY <1>1, CloneKeeps
<1> HIDE DEF both
<1>3. Sound(db', month) /\ db'.profiles = db.profiles
  BY <1>2, NewScenarioKeeps
<1>4. Served
  BY DEF CopyScenario
<1> QED BY <1>3, <1>4, UnchangedAllowed

LEMMA PairScenarioAllowed ==
    ASSUME IInv, PairScenario
    PROVE  Allowed
<1>1. Sound(db', month) /\ db'.profiles = db.profiles /\ Served
  BY NewScenarioKeeps DEF PairScenario, IInv
<1> QED BY <1>1, UnchangedAllowed

LEMMA DeleteScenarioAllowed ==
    ASSUME IInv, DeleteScenario
    PROVE  Allowed
<1>1. Sound(db', month) /\ db'.profiles = db.profiles /\ Served
  BY WithoutScenarioKeeps DEF DeleteScenario, IInv
<1> QED BY <1>1, UnchangedAllowed

\* Every step but the turn of the month is a request's.
LEMMA NextAllowed ==
    ASSUME IInv, Next
    PROVE  Allowed \/ MonthPasses
<1>1. ASSUME NEW q \in Requests,
             ViewSection(q) \/ SubmitSection(q) \/ ShowSection(q) \/ Advance(q) \/ SavePane(q)
      PROVE  Allowed
  BY <1>1, ViewSectionAllowed, SubmitSectionAllowed, ShowSectionAllowed, AdvanceAllowed,
     SavePaneAllowed
<1>2. ASSUME AcknowledgeRefresh \/ EnterProfileFlow \/ StartFresh \/ CopyScenario \/ PairScenario
             \/ DeleteScenario
      PROVE  Allowed
  BY <1>2, AcknowledgeRefreshAllowed, EnterProfileFlowAllowed, StartFreshAllowed,
     CopyScenarioAllowed, PairScenarioAllowed, DeleteScenarioAllowed
<1>3. ASSUME EnterFlow \/ EnterBuild \/ \E kind \in Kinds : EditComponent(kind)
      PROVE  Allowed
  <2>1. Served /\ db' = db
    BY <1>3 DEF EnterFlow, EnterBuild, EditComponent
  <2> QED BY <2>1, UnchangedAllowed DEF IInv
<1> QED BY <1>1, <1>2, <1>3 DEF Next
-----------------------------------------------------------------------------
(* The theorems. *)

LEMMA InitInductive == Init => IInv
<1> SUFFICES ASSUME Init PROVE IInv
  OBVIOUS
<1>1. Sound(db, 0)
  <2>1. IsRow(db, {"profiles"}) /\ db \in Households
    BY HouseholdAssumption DEF Init, IsRow
  <2>2. CASE db.profiles = <<>>
    BY <2>1, <2>2 DEF Sound, IsSeq
  <2>3. CASE db.profiles # <<>>
    <3> DEFINE p == [month |-> 0, facts |-> db.profiles[1].facts, acks |-> db.profiles[1].acks]
    <3>1. db.profiles = <<p>>
      BY <2>1, <2>3, HouseholdAssumption
    <3>2. IsProfile(p) /\ p.month = 0
      BY DEF IsProfile, IsRow
    <3> HIDE DEF p
    <3>3. IsSeq(<<p>>) /\ Len(<<p>>) = 1 /\ <<p>>[1] = p
      <4>1. <<p>> \in Seq({p})
        OBVIOUS
      <4> QED BY <4>1, SeqIs
    <3> QED BY <2>1, <3>1, <3>2, <3>3 DEF Sound
  <2> QED BY <2>2, <2>3
<1>2. month = 0 /\ DOMAIN req = Requests /\ \A q \in Requests : req[q] = Idle
  BY DEF Init
<1> QED BY <1>1, <1>2 DEF IInv

LEMMA NextInductive == IInv /\ [Next]_vars => IInv'
<1> SUFFICES ASSUME IInv, [Next]_vars PROVE IInv'
  OBVIOUS
<1>1. CASE Allowed
  BY <1>1, AllowedKeeps
<1>2. CASE MonthPasses
  <2>1. month' = month + 1 /\ db' = db /\ req' = req /\ month \in Nat
    BY <1>2 DEF MonthPasses, IInv
  <2>2. Sound(db, month + 1)
    <3> SUFFICES ASSUME NEW n \in 1 .. Len(db.profiles) PROVE db.profiles[n].month <= month + 1
      BY DEF IInv, Sound
    <3>1. db.profiles[n].month \in Nat /\ db.profiles[n].month <= month
      BY DEF IInv, Sound, IsProfile
    <3> QED BY <2>1, <3>1
  <2> QED BY <2>1, <2>2 DEF IInv
<1>3. CASE UNCHANGED vars
  BY <1>3 DEF IInv, vars
<1> QED BY <1>1, <1>2, <1>3, NextAllowed

\* The months of the profiles, and what each request in flight aims at, are as IInv says throughout.
THEOREM Inductive == Spec => []IInv
BY InitInductive, NextInductive, PTL DEF Spec

\* A completed month is history: no request, however old the page it was posted from, changes
\* the facts or the date of a completed profile of a month gone by.
THEOREM MonthsAreHistory == Spec => SnapshotsAreHistory
<1> DEFINE Unchanged ==
        \A n \in DOMAIN db.profiles :
            LET p == db.profiles[n]
            IN  ProfileComplete(p) /\ p.month < month =>
                    db'.profiles[n].facts = p.facts /\ db'.profiles[n].month = p.month
<1>1. IInv /\ [Next]_vars => [Unchanged]_vars
  <2> SUFFICES ASSUME IInv, Next PROVE Unchanged
    OBVIOUS
  <2>1. DOMAIN db.profiles = 1 .. Len(db.profiles)
    BY DEF IInv, Sound, IsSeq
  <2>2. CASE Allowed
    BY <2>1, <2>2 DEF Allowed, History, Past
  <2>3. CASE MonthPasses
    BY <2>3 DEF MonthPasses
  <2> QED BY <2>2, <2>3, NextAllowed
<1> QED BY <1>1, Inductive, PTL DEF Spec, SnapshotsAreHistory

\* In a profile with a month behind it, what ages counts as reviewed only since its month.
THEOREM ReviewsAreOfTheMonth == Spec => []ReviewedInItsMonth
<1>1. IInv => ReviewedInItsMonth
  <2> SUFFICES ASSUME IInv, NEW n \in DOMAIN db.profiles, NEW k \in DOMAIN db.profiles,
                      db.profiles[k].month < db.profiles[n].month
               PROVE  Fresh(db.profiles[n].acks, db.profiles[n].month)
    BY DEF ReviewedInItsMonth, Fresh
  <2>1. DOMAIN db.profiles = 1 .. Len(db.profiles) /\ Len(db.profiles) \in Nat
    BY DEF IInv, Sound, IsSeq
  <2>2. db.profiles[k].month \in Nat /\ db.profiles[n].month \in Nat
    BY <2>1 DEF IInv, Sound, IsProfile
  <2>3. n # 1
    <3> SUFFICES ASSUME n = 1 PROVE FALSE
      OBVIOUS
    <3>1. k # 1
      BY <2>2
    <3>2. 1 \in 1 .. k - 1
      BY <2>1, <3>1
    <3>3. db.profiles[1].month < db.profiles[k].month
      BY <2>1, <3>2 DEF IInv, Sound
    <3> QED BY <2>2, <3>3
  <2> QED BY <2>1, <2>3 DEF IInv, Sound
<1> QED BY <1>1, Inductive, PTL
-----------------------------------------------------------------------------
(* Sets, scenarios and sessions.                                           *)
(*                                                                         *)
(* The rest is about the other tables: ids are given once, a scenario      *)
(* never changes its pair, and the rows of a set only grow unless a save   *)
(* was overtaken.  It needs nothing of the profiles.                       *)

Tables == {"profiles", "sets", "scenarios", "next"}

Numbered(d) ==
    /\ IsRow(d, Tables) /\ d.next \in Nat
    /\ \A id \in DOMAIN d.sets : id \in Nat /\ id < d.next /\ IsRow(d.sets[id], {"kind", "acks", "rows"})
    /\ \A id \in DOMAIN d.scenarios : id \in Nat /\ id < d.next

\* The sections that leave a row of their own whenever they are acknowledged.
Spending == {Sections[n].key : n \in {k \in DOMAIN Sections : Sections[k].seeds /\ Sections[k].key # Conditional}}
Covers(rows, acks) == DOMAIN acks \cap Spending \subseteq rows
Recorded(d, m) == \A id \in DOMAIN d.sets \ m : d.sets[id].kind = "plans" => Covers(d.sets[id].rows, d.sets[id].acks)

Good(d, m) == Numbered(d) /\ Recorded(d, m)

\* What became of the rows of d in e; m are the sets whose saves overlapped.
Follows(d, e, m) ==
    /\ d.next <= e.next
    /\ \A id \in DOMAIN e.scenarios : id < d.next =>
          id \in DOMAIN d.scenarios /\ e.scenarios[id] = d.scenarios[id]
    /\ \A id \in DOMAIN e.sets \ m : id < d.next =>
          /\ id \in DOMAIN d.sets /\ e.sets[id].kind = d.sets[id].kind
          /\ d.sets[id].rows \subseteq e.sets[id].rows

Grown(d, e, m) == Good(e, m) /\ Follows(d, e, m)

\* A session edits the pair of the scenario it builds, if that is still there.
Session(s) == IsRow(s, {"plans", "assumptions", "editing"})
Coherent(s, d) ==
    /\ Session(s)
    /\ s.editing = None \/ (s.editing \in Nat /\ s.editing < d.next)
    /\ s.editing \in DOMAIN d.scenarios =>
          s.plans = d.scenarios[s.editing].plans /\ s.assumptions = d.scenarios[s.editing].assumptions

\* A section about to be shown is acknowledged on the set its rows were read from, and what was
\* acknowledged there is recorded there.
Aimed(r, d, m) ==
    IF r.record[1] = "profile" THEN ~r.section.seeds
    ELSE /\ r.record[2] \in Nat /\ r.record[2] < d.next
         /\ r.section.seeds => r.record[2] = r.read.from
         /\ r.record[2] \in DOMAIN d.sets \ m /\ d.sets[r.record[2]].kind = "plans" =>
               Covers(d.sets[r.record[2]].rows, r.acks)
Holds(r, d, m) ==
    /\ Session(r.session) /\ r.section \in Range(Sections)
    /\ r.kind = "view" => Aimed(r, d, m)

\* A request in flight may hold a session that strayed: all that is ever written back of it is
\* a session that builds nothing.
SetsInv ==
    /\ Good(db, mixed) /\ Session(session) /\ (~strayed => Coherent(session, db))
    /\ DOMAIN req = Requests
    /\ \A q \in Requests : req[q] # Idle => Holds(req[q], db, mixed)
-----------------------------------------------------------------------------
(* Tables. *)

LEMMA FollowsTransitive ==
    ASSUME NEW c, NEW d, NEW e, NEW m, Numbered(c), Numbered(d), Numbered(e),
           Follows(c, d, m), Follows(d, e, m)
    PROVE  Follows(c, e, m)
<1>1. c.next \in Nat /\ d.next \in Nat /\ e.next \in Nat /\ c.next <= d.next /\ d.next <= e.next
  BY DEF Numbered, Follows
<1>2. ASSUME NEW id \in DOMAIN e.scenarios, id < c.next
      PROVE  id \in DOMAIN c.scenarios /\ e.scenarios[id] = c.scenarios[id]
  <2>1. id \in Nat /\ id < d.next
    BY <1>1, <1>2 DEF Numbered
  <2>2. id \in DOMAIN d.scenarios /\ e.scenarios[id] = d.scenarios[id]
    BY <2>1 DEF Follows
  <2> QED BY <1>2, <2>2 DEF Follows
<1>3. ASSUME NEW id \in DOMAIN e.sets \ m, id < c.next
      PROVE  /\ id \in DOMAIN c.sets /\ e.sets[id].kind = c.sets[id].kind
             /\ c.sets[id].rows \subseteq e.sets[id].rows
  <2>1. id \in Nat /\ id < d.next
    BY <1>1, <1>3 DEF Numbered
  <2>2. id \in DOMAIN d.sets /\ e.sets[id].kind = d.sets[id].kind /\ d.sets[id].rows \subseteq e.sets[id].rows
    BY <2>1 DEF Follows
  <2> QED BY <1>3, <2>2 DEF Follows
<1>4. c.next <= e.next
  BY <1>1
<1> QED BY <1>2, <1>3, <1>4 DEF Follows

LEMMA GrownTransitive ==
    ASSUME NEW c, NEW d, NEW e, NEW m, Good(c, m), Grown(c, d, m), Grown(d, e, m)
    PROVE  Grown(c, e, m)
BY FollowsTransitive DEF Grown, Good

LEMMA GrownSelf ==
    ASSUME NEW d, NEW m, Good(d, m)
    PROVE  Grown(d, d, m)
BY DEF Grown, Follows, Good, Numbered

\* Overlapping saves may only be more.
LEMMA MoreMixed ==
    ASSUME NEW m, NEW n, m \subseteq n, NEW d
    PROVE  /\ Good(d, m) => Good(d, n)
           /\ \A r : Holds(r, d, m) => Holds(r, d, n)
<1>1. Good(d, m) => Good(d, n)
  BY DEF Good, Recorded
<1>2. ASSUME NEW r, Holds(r, d, m) PROVE Holds(r, d, n)
  BY <1>2 DEF Holds, Aimed
<1> QED BY <1>1, <1>2

LEMMA CoherentKept ==
    ASSUME NEW s, NEW d, NEW e, NEW m, Numbered(d), Numbered(e), Follows(d, e, m), Coherent(s, d)
    PROVE  Coherent(s, e)
<1>1. d.next \in Nat /\ e.next \in Nat /\ d.next <= e.next
  BY DEF Numbered, Follows
<1>2. s.editing = None \/ (s.editing \in Nat /\ s.editing < e.next)
  BY <1>1 DEF Coherent
<1>3. ASSUME s.editing \in DOMAIN e.scenarios
      PROVE  s.plans = e.scenarios[s.editing].plans /\ s.assumptions = e.scenarios[s.editing].assumptions
  <2>1. s.editing \in Nat
    BY <1>3 DEF Numbered
  <2>2. s.editing < d.next
    BY <2>1, InterviewAssumption DEF Coherent
  <2>3. s.editing \in DOMAIN d.scenarios /\ e.scenarios[s.editing] = d.scenarios[s.editing]
    BY <1>3, <2>2 DEF Follows
  <2> QED BY <2>3 DEF Coherent
<1> QED BY <1>2, <1>3 DEF Coherent

LEMMA HoldsKept ==
    ASSUME NEW r, NEW d, NEW e, NEW m, Numbered(d), Numbered(e), Follows(d, e, m), Holds(r, d, m)
    PROVE  Holds(r, e, m)
<1>1. Session(r.session)
  BY DEF Holds
<1>2. ASSUME Aimed(r, d, m) PROVE Aimed(r, e, m)
  <2>1. CASE r.record[1] = "profile"
    BY <1>2, <2>1 DEF Aimed
  <2>2. CASE r.record[1] # "profile"
    <3> DEFINE id == r.record[2]
    <3>1. id \in Nat /\ id < d.next /\ (r.section.seeds => id = r.read.from)
      BY <1>2, <2>2 DEF Aimed
    <3>2. id < e.next
      BY <3>1 DEF Follows, Numbered
    <3>3. ASSUME id \in DOMAIN e.sets \ m, e.sets[id].kind = "plans"
          PROVE  Covers(e.sets[id].rows, r.acks)
      <4>1. id \in DOMAIN d.sets \ m /\ d.sets[id].kind = "plans" /\ d.sets[id].rows \subseteq e.sets[id].rows
        BY <3>1, <3>3 DEF Follows
      <4>2. Covers(d.sets[id].rows, r.acks)
        BY <1>2, <2>2, <4>1 DEF Aimed
      <4> QED BY <4>1, <4>2 DEF Covers
    <3> QED BY <2>2, <3>1, <3>2, <3>3 DEF Aimed
  <2> QED BY <2>1, <2>2
<1> QED BY <1>1, <1>2 DEF Holds

\* The profiles are another table.
LEMMA OtherTable ==
    ASSUME NEW m, NEW d, Good(d, m), NEW X
    PROVE  Grown(d, [d EXCEPT !.profiles = X], m)
<1> DEFINE e == [d EXCEPT !.profiles = X]
<1>1. IsRow(e, Tables) /\ e.sets = d.sets /\ e.scenarios = d.scenarios /\ e.next = d.next
  BY DEF Good, Numbered, IsRow, Tables
<1> HIDE DEF e
<1>2. Good(e, m) /\ Follows(d, e, m)
  BY <1>1 DEF Good, Numbered, Recorded, Follows
<1> QED BY <1>2 DEF Grown, e

LEMMA SaveProfileGrows ==
    ASSUME NEW m, NEW d, Good(d, m), NEW facts, NEW now
    PROVE  Grown(d, SaveProfile(d, facts, now), m)
<1>1. \E X : SaveProfile(d, facts, now) = [d EXCEPT !.profiles = X]
  BY DEF SaveProfile, NewRecord
<1> QED BY <1>1, OtherTable

LEMMA AdvanceProfileGrows ==
    ASSUME NEW m, NEW d, Good(d, m), NEW now
    PROVE  Grown(d, AdvanceProfile(d, now), m)
<1>1. AdvanceProfile(d, now) = d \/ \E X : AdvanceProfile(d, now) = [d EXCEPT !.profiles = X]
  BY DEF AdvanceProfile, NewRecord
<1> QED BY <1>1, OtherTable, GrownSelf

\* A new row, of a new id.
LEMMA NewSetGrows ==
    ASSUME NEW m, NEW d, Good(d, m), NEW kind, NEW acks, NEW rows,
           d.next \in m \/ (kind = "plans" => Covers(rows, acks))
    PROVE  LET e == NewSet(d, kind, acks, rows)
           IN  /\ Grown(d, e, m) /\ e.next = d.next + 1
               /\ d.next \in DOMAIN e.sets /\ e.sets[d.next].kind = kind
<1> DEFINE row == [kind |-> kind, acks |-> acks, rows |-> rows]
           e == NewSet(d, kind, acks, rows)
<1>1. /\ IsRow(e, Tables) /\ e.sets = Adding(d.sets, d.next, row)
      /\ e.scenarios = d.scenarios /\ e.next = d.next + 1
  BY DEF Good, Numbered, IsRow, Tables, NewSet
<1>2. IsRow(row, {"kind", "acks", "rows"}) /\ row.kind = kind /\ row.acks = acks /\ row.rows = rows
  BY DEF IsRow
<1> HIDE DEF e, row
<1>3. /\ DOMAIN e.sets = DOMAIN d.sets \cup {d.next} /\ e.sets[d.next] = row
      /\ \A id \in DOMAIN d.sets : id # d.next => e.sets[id] = d.sets[id]
  BY <1>1 DEF Adding
<1>4. d.next \in Nat /\ \A id \in DOMAIN d.sets : id \in Nat /\ id < d.next /\ id # d.next
  BY DEF Good, Numbered
<1>5. Numbered(e)
  BY <1>1, <1>2, <1>3, <1>4 DEF Good, Numbered
<1>6. Recorded(e, m)
  BY <1>2, <1>3, <1>4 DEF Good, Recorded
<1>7. Follows(d, e, m)
  BY <1>1, <1>3, <1>4 DEF Follows
<1> QED BY <1>1, <1>2, <1>3, <1>5, <1>6, <1>7 DEF Grown, Good, e

LEMMA NewScenarioGrows ==
    ASSUME NEW m, NEW d, Good(d, m), NEW plans, NEW assumptions
    PROVE  LET e == NewScenario(d, plans, assumptions) IN Grown(d, e, m) /\ e.next = d.next + 1
<1> DEFINE row == [plans |-> plans, assumptions |-> assumptions]
           e == NewScenario(d, plans, assumptions)
<1>1. /\ IsRow(e, Tables) /\ e.scenarios = Adding(d.scenarios, d.next, row)
      /\ e.sets = d.sets /\ e.next = d.next + 1
  BY DEF Good, Numbered, IsRow, Tables, NewScenario
<1> HIDE DEF e, row
<1>2. /\ DOMAIN e.scenarios = DOMAIN d.scenarios \cup {d.next}
      /\ \A id \in DOMAIN d.scenarios : id # d.next => e.scenarios[id] = d.scenarios[id]
  BY <1>1 DEF Adding
<1>3. d.next \in Nat /\ \A id \in DOMAIN d.scenarios : id \in Nat /\ id < d.next /\ id # d.next
  BY DEF Good, Numbered
<1>4. Numbered(e) /\ Recorded(e, m)
  BY <1>1, <1>2, <1>3 DEF Good, Numbered, Recorded
<1>5. Follows(d, e, m)
  BY <1>1, <1>2, <1>3 DEF Follows
<1> QED BY <1>1, <1>4, <1>5 DEF Grown, Good, e

LEMMA FreshScenarioGrows ==
    ASSUME NEW m, NEW d, Good(d, m)
    PROVE  Grown(d, FreshScenario(d), m) /\ FreshScenario(d).next = d.next + 3
<1> DEFINE a == NewSet(d, "plans", <<>>, {})
           b == NewSet(a, "assumptions", <<>>, {})
           e == NewScenario(b, d.next, d.next + 1)
<1>1. Covers({}, <<>>)
  BY DEF Covers
<1>2. Grown(d, a, m) /\ a.next = d.next + 1
  BY <1>1, NewSetGrows
<1>3. d.next \in Nat
  BY DEF Good, Numbered
<1> HIDE DEF a
<1>4. Grown(a, b, m) /\ b.next = a.next + 1
  BY <1>2, NewSetGrows DEF Grown
<1> HIDE DEF b
<1>5. Grown(b, e, m) /\ e.next = b.next + 1
  BY <1>4, NewScenarioGrows DEF Grown
<1>6. FreshScenario(d) = e
  BY DEF FreshScenario, a, b
<1> HIDE DEF e
<1>7. Grown(d, b, m)
  BY <1>2, <1>4, GrownTransitive
<1>8. Grown(d, e, m)
  BY <1>5, <1>7, GrownTransitive
<1> QED BY <1>2, <1>3, <1>4, <1>5, <1>6, <1>8
-----------------------------------------------------------------------------
(* The set a request works on. *)

LEMMA Smallest ==
    ASSUME NEW T, T \subseteq Nat, T # {}
    PROVE  \E n \in T : \A m \in T : n <= m
<1>1. PICK n \in T : \A m \in T : ~(<<m, n>> \in OpToRel(<, Nat))
  BY NatLessThanWellFounded, WFMin
<1>2. \A m \in T : ~(m < n)
  BY <1>1 DEF OpToRel
<1> QED BY <1>2

LEMMA MinIsIn ==
    ASSUME NEW T, T \subseteq Nat, T # {}
    PROVE  Min(T) \in T
BY Smallest DEF Min

LEMMA MaxIsIn ==
    ASSUME NEW T, NEW top \in Nat, T \subseteq Nat, T # {}, \A n \in T : n < top
    PROVE  Max(T) \in T
<1> DEFINE Bounds == {n \in Nat : \A m \in T : m <= n}
<1>1. Bounds \subseteq Nat /\ top \in Bounds
  OBVIOUS
<1>2. PICK n \in Bounds : \A m \in Bounds : n <= m
  BY <1>1, Smallest
<1>3. n \in Nat /\ \A m \in T : m <= n
  BY <1>2
<1>4. n \in T
  <2> SUFFICES ASSUME n \notin T PROVE FALSE
    OBVIOUS
  <2>1. PICK t \in T : t \in Nat
    OBVIOUS
  <2>2. n - 1 \in Nat
    BY <1>3, <2>1
  <2>3. \A m \in T : m <= n - 1
    BY <1>3, <2>2
  <2>4. n - 1 \in Bounds
    BY <2>2, <2>3
  <2> HIDE DEF Bounds
  <2> QED BY <1>2, <1>3, <2>2, <2>4
<1> QED BY <1>3, <1>4 DEF Max

LEMMA TargetIs ==
    ASSUME NEW d, Numbered(d), NEW s, NEW kind, OfKind(d, kind) # {}
    PROVE  LET id == Target(d, s, kind)
           IN  id \in DOMAIN d.sets /\ id \in Nat /\ id < d.next /\ id # None
<1>1. Max(OfKind(d, kind)) \in OfKind(d, kind)
  <2>1. d.next \in Nat /\ OfKind(d, kind) \subseteq Nat /\ \A n \in OfKind(d, kind) : n < d.next
    BY DEF Numbered, OfKind
  <2> QED BY <2>1, MaxIsIn
<1>2. Target(d, s, kind) \in DOMAIN d.sets
  BY <1>1 DEF Target, OfKind
<1> QED BY <1>2, InterviewAssumption DEF Numbered

\* What the registry says of a section.
LEMMA Registry ==
    ASSUME NEW section \in Range(Sections)
    PROVE  /\ section.edits # {} /\ section.edits \subseteq {"profile", "plans", "assumptions"}
           /\ "assumptions" \in section.pane => "profile" \notin section.edits /\ "plans" \notin section.edits
           /\ section.key \in Spending => section.seeds /\ section.key # Conditional
           /\ section.seeds => section.edits = {"plans"} /\ section.key \notin DOMAIN Folded
<1>1. PICK n \in DOMAIN Sections : section = Sections[n]
  BY DEF Range
<1> QED BY <1>1, InterviewAssumption DEF Spending

LEMMA FlowKind ==
    ASSUME NEW section \in Range(Sections)
    PROVE  /\ FlowOf(section) # "profile" => FlowOf(section) = KindOf(section) /\ section.edits \cap Kinds # {}
           /\ KindOf(section) \in Kinds
           /\ section.seeds => FlowOf(section) = "plans"
<1>1. /\ section.edits # {} /\ section.edits \subseteq {"profile", "plans", "assumptions"}
      /\ "assumptions" \in section.pane => "profile" \notin section.edits /\ "plans" \notin section.edits
      /\ section.seeds => section.edits = {"plans"}
  BY Registry
<1>2. ~({"plans", "assumptions"} \subseteq section.edits)
  BY InterviewAssumption DEF Range
<1> QED BY <1>1, <1>2 DEF FlowOf, KindOf, Kinds

\* What Next leads to is another section, or nothing.
LEMMA StepsAre ==
    ASSUME NEW flow \in {"profile", "plans", "assumptions"}, NEW facts
    PROVE  FlowSections(facts, flow) \subseteq DOMAIN Sections
BY DEF FlowSections, Spine, Flows, Steps

LEMMA FirstIsSection == FirstOf("assumptions") \in Range(Sections)
<1> DEFINE steps == Steps("assumptions", TRUE)
<1>1. DOMAIN Sections \subseteq Nat
  BY InterviewAssumption
<1>2. PICK n \in DOMAIN Sections : Sections[n].edits = {"assumptions"}
  BY InterviewAssumption
<1>3. n \in steps
  BY <1>2 DEF Steps, FlowOf
<1>4. steps \subseteq DOMAIN Sections
  BY DEF Steps
<1>5. FirstOf("assumptions") = Sections[Min(steps)]
  BY DEF FirstOf, Spine, Flows
<1> HIDE DEF steps
<1>6. Min(steps) \in steps
  BY <1>1, <1>3, <1>4, MinIsIn
<1> QED BY <1>4, <1>5, <1>6 DEF Range

LEMMA FollowingIsSection ==
    ASSUME NEW section, NEW facts, NEW s, Following(section, facts, s) # None
    PROVE  Following(section, facts, s) \in Range(Sections)
<1> DEFINE steps == FlowSections(facts, FlowOf(section))
           later == {n \in steps : \E m \in steps : Sections[m] = section /\ m < n}
           next == NextAfter(steps, section)
<1>1. DOMAIN Sections \subseteq Nat
  BY InterviewAssumption
<1>2. later \subseteq DOMAIN Sections
  <2>1. FlowOf(section) \in {"profile", "plans", "assumptions"}
    BY DEF FlowOf
  <2> QED BY <2>1, StepsAre
<1>3. next = IF later = {} THEN None ELSE Sections[Min(later)]
  BY DEF NextAfter
<1>4. Following(section, facts, s) \in {next, FirstOf("assumptions")}
  BY DEF Following
<1> HIDE DEF later, next
<1>5. ASSUME next # None PROVE next \in Range(Sections)
  <2>1. Min(later) \in later
    BY <1>1, <1>2, <1>3, <1>5, MinIsIn
  <2> QED BY <1>2, <1>3, <1>5, <2>1 DEF Range
<1> QED BY <1>4, <1>5, FirstIsSection
-----------------------------------------------------------------------------
(* Records minted, rows saved, sections acknowledged. *)

LEMMA WithRecordsGrows ==
    ASSUME NEW m, NEW d, Good(d, m), NEW kind, NEW section, NEW now
    PROVE  LET e == WithRecords(d, kind, section, now)
           IN  /\ Grown(d, e, m)
               /\ kind = "pane" \/ section.edits \cap Kinds # {} => OfKind(e, KindOf(section)) # {}
<1> DEFINE p == IF d.profiles = <<>> /\ ~(kind = "pane" /\ section.pane = {"assumptions"})
                THEN SaveProfile(d, Blank, now) ELSE d
           minted == NewSet(p, KindOf(section), <<>>, {})
           e == WithRecords(d, kind, section, now)
<1>1. Grown(d, p, m)
  BY SaveProfileGrows, GrownSelf
<1>2. p.sets = d.sets
  <2>1. IsRow(d, Tables)
    BY DEF Good, Numbered
  <2>2. SaveProfile(d, Blank, now) = d \/ \E X : SaveProfile(d, Blank, now) = [d EXCEPT !.profiles = X]
    BY DEF SaveProfile, NewRecord
  <2> QED BY <2>1, <2>2 DEF IsRow, Tables
<1>3. e = IF (kind = "pane" \/ section.edits \cap Kinds # {}) /\ OfKind(d, KindOf(section)) = {}
          THEN minted ELSE p
  BY DEF WithRecords
<1> HIDE DEF p, e
<1>4. Grown(p, minted, m) /\ p.next \in DOMAIN minted.sets /\ minted.sets[p.next].kind = KindOf(section)
  <2>1. Covers({}, <<>>)
    BY DEF Covers
  <2> QED BY <1>1, <2>1, NewSetGrows DEF Grown
<1> HIDE DEF minted
<1>5. Grown(d, minted, m)
  BY <1>1, <1>4, GrownTransitive
<1>6. OfKind(minted, KindOf(section)) # {}
  BY <1>4 DEF OfKind
<1>7. OfKind(p, KindOf(section)) = OfKind(d, KindOf(section))
  BY <1>2 DEF OfKind
<1> QED BY <1>1, <1>3, <1>5, <1>6, <1>7 DEF e

\* Rows saved over those that are there lose none, unless the save was overtaken.
LEMMA SaveRowsGrows ==
    ASSUME NEW m, NEW d, Good(d, m), NEW s, NEW kind, NEW rows,
           Target(d, s, kind) \in DOMAIN d.sets \ m => d.sets[Target(d, s, kind)].rows \subseteq rows
    PROVE  LET e == SaveRows(d, s, kind, rows)
           IN  /\ Grown(d, e, m) /\ DOMAIN e.sets = DOMAIN d.sets
               /\ Target(d, s, kind) \in DOMAIN d.sets => e.sets[Target(d, s, kind)].rows = rows
<1> DEFINE into == Target(d, s, kind)
           sets == [d.sets EXCEPT ![into].rows = rows]
           e == SaveRows(d, s, kind, rows)
<1>1. IsRow(e, Tables) /\ e.sets = sets /\ e.scenarios = d.scenarios /\ e.next = d.next
  BY DEF Good, Numbered, IsRow, Tables, SaveRows
<1>2. DOMAIN sets = DOMAIN d.sets /\ \A id \in DOMAIN d.sets : id # into => sets[id] = d.sets[id]
  OBVIOUS
<1>3. ASSUME into \in DOMAIN d.sets
      PROVE  /\ IsRow(sets[into], {"kind", "acks", "rows"}) /\ sets[into].rows = rows
             /\ sets[into].kind = d.sets[into].kind /\ sets[into].acks = d.sets[into].acks
  <2>1. sets[into] = [d.sets[into] EXCEPT !.rows = rows]
    BY <1>3
  <2>2. IsRow(d.sets[into], {"kind", "acks", "rows"})
    BY <1>3 DEF Good, Numbered
  <2> HIDE DEF sets, into
  <2> QED BY <2>1, <2>2 DEF IsRow
<1>4. into \in DOMAIN d.sets \ m => d.sets[into].rows \subseteq rows
  OBVIOUS
<1> HIDE DEF e, sets, into
<1>5. Numbered(e)
  BY <1>1, <1>2, <1>3 DEF Good, Numbered
<1>6. Recorded(e, m)
  <2> SUFFICES ASSUME NEW id \in DOMAIN d.sets \ m, sets[id].kind = "plans"
               PROVE  Covers(sets[id].rows, sets[id].acks)
    BY <1>1, <1>2 DEF Recorded
  <2>1. CASE id # into
    BY <1>2, <2>1 DEF Good, Recorded
  <2>2. CASE id = into
    <3>1. Covers(d.sets[into].rows, d.sets[into].acks)
      BY <1>3, <2>2 DEF Good, Recorded
    <3> QED BY <1>3, <1>4, <2>2, <3>1 DEF Covers
  <2> QED BY <2>1, <2>2
<1>7. Follows(d, e, m)
  <2>1. d.next <= e.next
    BY <1>1 DEF Good, Numbered
  <2>2. ASSUME NEW id \in DOMAIN e.sets \ m
        PROVE  id \in DOMAIN d.sets /\ e.sets[id].kind = d.sets[id].kind /\ d.sets[id].rows \subseteq e.sets[id].rows
    BY <1>1, <1>2, <1>3, <1>4
  <2> QED BY <1>1, <2>1, <2>2 DEF Follows
<1> QED BY <1>1, <1>2, <1>3, <1>5, <1>6, <1>7 DEF Grown, Good, e, into

LEMMA SaveRecordsGrows ==
    ASSUME NEW m, NEW d, Good(d, m), NEW s, NEW records, NEW kind, NEW facts, NEW rows, NEW now,
           Kinds \cap records # {} /\ Target(d, s, kind) \in DOMAIN d.sets \ m =>
               d.sets[Target(d, s, kind)].rows \subseteq rows
    PROVE  LET e == SaveRecords(d, s, records, kind, facts, rows, now)
           IN  /\ Grown(d, e, m) /\ DOMAIN e.sets = DOMAIN d.sets
               /\ Kinds \cap records # {} /\ Target(d, s, kind) \in DOMAIN d.sets =>
                     e.sets[Target(d, s, kind)].rows = rows
<1> DEFINE p == IF "profile" \in records THEN SaveProfile(d, facts, now) ELSE d
           e == SaveRecords(d, s, records, kind, facts, rows, now)
<1>1. Grown(d, p, m)
  BY SaveProfileGrows, GrownSelf
<1>2. p.sets = d.sets
  <2>1. IsRow(d, Tables)
    BY DEF Good, Numbered
  <2>2. p = d \/ \E X : p = [d EXCEPT !.profiles = X]
    BY DEF SaveProfile, NewRecord
  <2> HIDE DEF p
  <2> QED BY <2>1, <2>2 DEF IsRow, Tables
<1>3. e = IF Kinds \cap records = {} THEN p ELSE SaveRows(p, s, kind, rows)
  BY DEF SaveRecords
<1> HIDE DEF p, e
<1>4. Target(p, s, kind) = Target(d, s, kind)
  BY <1>2 DEF Target, OfKind
<1>5. CASE Kinds \cap records = {}
  BY <1>1, <1>2, <1>3, <1>5 DEF e
<1>6. CASE Kinds \cap records # {}
  <2> DEFINE saved == SaveRows(p, s, kind, rows)
  <2>1. Target(p, s, kind) \in DOMAIN p.sets \ m => p.sets[Target(p, s, kind)].rows \subseteq rows
    BY <1>2, <1>4, <1>6
  <2>2. /\ Grown(p, saved, m) /\ DOMAIN saved.sets = DOMAIN p.sets
        /\ Target(p, s, kind) \in DOMAIN p.sets => saved.sets[Target(p, s, kind)].rows = rows
    BY <1>1, <2>1, SaveRowsGrows DEF Grown
  <2>3. e = saved
    BY <1>3, <1>6
  <2> HIDE DEF saved
  <2>4. Grown(d, saved, m)
    BY <1>1, <2>2, GrownTransitive
  <2> QED BY <1>2, <1>4, <2>2, <2>3, <2>4 DEF e
<1> QED BY <1>5, <1>6

\* A section is acknowledged on a set that records all the set then counts as acknowledged.
LEMMA AcknowledgeGrows ==
    ASSUME NEW m, NEW d, Good(d, m), NEW record, NEW acks, NEW section, NEW now,
           record[1] # "profile" /\ record[2] \in DOMAIN d.sets \ m /\ d.sets[record[2]].kind = "plans" =>
               /\ Covers(d.sets[record[2]].rows, acks)
               /\ section.key \in Spending => section.key \in d.sets[record[2]].rows
    PROVE  Grown(d, Acknowledge(d, record, acks, section, now), m)
<1> DEFINE more == [key \in DOMAIN acks \cup {section.key} |->
                       IF key \in DOMAIN acks THEN acks[key] ELSE now]
           e == Acknowledge(d, record, acks, section, now)
<1>1. CASE e = d \/ \E X : e = [d EXCEPT !.profiles = X]
  BY <1>1, OtherTable, GrownSelf
<1>2. CASE record[1] # "profile" /\ record[2] \in DOMAIN d.sets /\ e = [d EXCEPT !.sets[record[2]].acks = more]
  <2> DEFINE into == record[2]
             sets == [d.sets EXCEPT ![into].acks = more]
  <2>1. IsRow(e, Tables) /\ e.sets = sets /\ e.scenarios = d.scenarios /\ e.next = d.next
    BY <1>2 DEF Good, Numbered, IsRow, Tables
  <2>2. DOMAIN sets = DOMAIN d.sets /\ \A id \in DOMAIN d.sets : id # into => sets[id] = d.sets[id]
    OBVIOUS
  <2>3. DOMAIN more = DOMAIN acks \cup {section.key}
    OBVIOUS
  <2>4. into \in DOMAIN d.sets \ m /\ d.sets[into].kind = "plans" =>
            Covers(d.sets[into].rows, acks) /\ (section.key \in Spending => section.key \in d.sets[into].rows)
    BY <1>2
  <2>5. sets[into] = [d.sets[into] EXCEPT !.acks = more]
    BY <1>2
  <2> HIDE DEF e, sets, into, more
  <2>6. /\ IsRow(sets[into], {"kind", "acks", "rows"}) /\ sets[into].rows = d.sets[into].rows
        /\ sets[into].kind = d.sets[into].kind /\ sets[into].acks = more
    <3>1. IsRow(d.sets[into], {"kind", "acks", "rows"})
      BY <1>2 DEF Good, Numbered, into
    <3> QED BY <2>5, <3>1 DEF IsRow
  <2>7. Numbered(e)
    BY <2>1, <2>2, <2>6 DEF Good, Numbered
  <2>8. Recorded(e, m)
    <3> SUFFICES ASSUME NEW id \in DOMAIN d.sets \ m, sets[id].kind = "plans"
                 PROVE  Covers(sets[id].rows, sets[id].acks)
      BY <2>1, <2>2 DEF Recorded
    <3>1. CASE id # into
      BY <2>2, <3>1 DEF Good, Recorded
    <3>2. CASE id = into
      BY <2>3, <2>4, <2>6, <3>2 DEF Covers
    <3> QED BY <3>1, <3>2
  <2>9. Follows(d, e, m)
    <3>1. d.next <= e.next
      BY <2>1 DEF Good, Numbered
    <3>2. \A id \in DOMAIN d.sets : e.sets[id].kind = d.sets[id].kind /\ d.sets[id].rows \subseteq e.sets[id].rows
      BY <2>1, <2>2, <2>6
    <3> QED BY <2>1, <2>2, <3>1, <3>2 DEF Follows
  <2> QED BY <2>7, <2>8, <2>9 DEF Grown, Good, e
<1> QED BY <1>1, <1>2 DEF Acknowledge, Stands
LEMMA ReadingIs ==
    ASSUME NEW d, Numbered(d), NEW s, NEW section, OfKind(d, KindOf(section)) # {}
    PROVE  LET read == Reading(d, s, section)
           IN  read.from = Target(d, s, KindOf(section)) /\ read.rows = d.sets[read.from].rows
<1> DEFINE id == Target(d, s, KindOf(section))
<1>1. id # None
  BY TargetIs
<1> QED BY <1>1 DEF Reading

\* What a section seeds goes to the set it is acknowledged on, unless another save of it overlapped.
LEMMA SeedAndAcknowledgeGrows ==
    ASSUME NEW m, NEW d, Good(d, m), NEW s, NEW section \in Range(Sections), NEW record, NEW acks,
           NEW read, NEW now,
           record[1] = "profile" => ~section.seeds,
           record[1] # "profile" /\ record[2] \in DOMAIN d.sets \ m /\ d.sets[record[2]].kind = "plans" =>
               Covers(d.sets[record[2]].rows, acks),
           section.seeds /\ Target(d, s, "plans") \in DOMAIN d.sets \ m =>
               d.sets[Target(d, s, "plans")].rows \subseteq read.rows,
           section.seeds /\ record[2] \in DOMAIN d.sets \ m => record[2] = Target(d, s, "plans")
    PROVE  Grown(d, SeedAndAcknowledge(d, s, section, record, acks, read, now), m)
<1> DEFINE seeds == Seeds(section, read.facts)
           stored == Store(d, s, section, read, now)
           p == IF section.seeds THEN stored ELSE d
           into == record[2]
<1>1. CASE section.key \in Acknowledged(acks)
  BY <1>1, GrownSelf DEF SeedAndAcknowledge
<1>2. CASE section.key \notin Acknowledged(acks)
  <2>1. SeedAndAcknowledge(d, s, section, record, acks, read, now)
            = Acknowledge(p, record, acks, section, now)
    BY <1>2 DEF SeedAndAcknowledge
  <2>2. section.key \in Spending => section.seeds /\ section.key # Conditional
    BY Registry
  <2>3. ASSUME section.seeds
        PROVE  /\ Grown(d, stored, m) /\ DOMAIN stored.sets = DOMAIN d.sets
               /\ Target(d, s, "plans") \in DOMAIN d.sets =>
                     stored.sets[Target(d, s, "plans")].rows = read.rows \cup seeds
    <3>1. section.edits = {"plans"} /\ KindOf(section) = "plans" /\ Kinds \cap section.edits # {}
      BY <2>3, Registry DEF KindOf, Kinds
    <3>2. stored = SaveRecords(d, s, section.edits, "plans", read.facts, read.rows \cup seeds, now)
      BY <3>1 DEF Store
    <3>3. Target(d, s, "plans") \in DOMAIN d.sets \ m =>
              d.sets[Target(d, s, "plans")].rows \subseteq read.rows \cup seeds
      BY <2>3
    <3> HIDE DEF seeds, stored
    <3> QED BY <3>1, <3>2, <3>3, SaveRecordsGrows
  <2>4. Grown(d, p, m)
    BY <2>3, GrownSelf
  <2>5. section.seeds /\ section.key # Conditional => section.key \in seeds
    BY DEF Seeds
  <2>6. ASSUME record[1] # "profile", into \in DOMAIN p.sets \ m, p.sets[into].kind = "plans"
        PROVE  /\ Covers(p.sets[into].rows, acks)
               /\ section.key \in Spending => section.key \in p.sets[into].rows
    <3> HIDE DEF seeds, stored
    <3>1. DOMAIN p.sets = DOMAIN d.sets
      BY <2>3
    <3> HIDE DEF p
    <3>2. into \in DOMAIN d.sets \ m /\ into < d.next
      BY <2>6, <3>1 DEF Good, Numbered
    <3>3. d.sets[into].kind = "plans" /\ d.sets[into].rows \subseteq p.sets[into].rows
      BY <2>4, <2>6, <3>2 DEF Grown, Follows
    <3>4. Covers(p.sets[into].rows, acks)
      <4>1. Covers(d.sets[into].rows, acks)
        BY <2>6, <3>2, <3>3
      <4> QED BY <3>3, <4>1 DEF Covers
    <3>5. ASSUME section.key \in Spending PROVE section.key \in p.sets[into].rows
      <4>1. section.seeds /\ section.key \in seeds
        BY <2>2, <2>5, <3>5
      <4>2. into = Target(d, s, "plans")
        BY <3>2, <4>1
      <4>3. p = stored
        BY <4>1 DEF p
      <4>4. stored.sets[into].rows = read.rows \cup seeds
        BY <2>3, <3>2, <4>1, <4>2
      <4> QED BY <4>1, <4>3, <4>4
    <3> QED BY <3>4, <3>5
  <2> HIDE DEF p
  <2>7. Grown(p, Acknowledge(p, record, acks, section, now), m)
    BY <2>4, <2>6, AcknowledgeGrows DEF Grown
  <2> QED BY <2>1, <2>4, <2>7, GrownTransitive
<1> QED BY <1>1, <1>2

\* What a request holds once its records are there.
LEMMA HeldHolds ==
    ASSUME NEW m, NEW d, Good(d, m), NEW kind, NEW section \in Range(Sections), Session(session),
           kind = "view" /\ section.edits \cap Kinds # {} => OfKind(d, KindOf(section)) # {}
    PROVE  Holds(Held(kind, section, d), d, m)
<1> DEFINE r == Held(kind, section, d)
           record == FlowRecord(d, session, section)
<1>1. /\ r.kind = kind /\ r.section = section /\ r.session = session /\ r.record = record
      /\ r.acks = AcksOf(d, record) /\ r.read = Reading(d, session, section)
  BY DEF Held
<1> HIDE DEF r
<1>2. ASSUME kind = "view" PROVE Aimed(r, d, m)
  <2>1. CASE FlowOf(section) = "profile"
    BY <1>1, <2>1, FlowKind DEF FlowRecord, Aimed
  <2>2. CASE FlowOf(section) # "profile"
    <3> DEFINE id == Target(d, session, KindOf(section))
    <3>1. FlowOf(section) = KindOf(section) /\ section.edits \cap Kinds # {}
      BY <2>2, FlowKind
    <3>2. OfKind(d, KindOf(section)) # {}
      BY <1>2, <3>1
    <3>3. record = <<"set", id>>
      BY <2>2, <3>1 DEF FlowRecord
    <3>4. id \in DOMAIN d.sets /\ id \in Nat /\ id < d.next
      BY <3>2, TargetIs DEF Good
    <3>5. r.read.from = id
      BY <1>1, <3>2, ReadingIs DEF Good
    <3>6. r.acks = d.sets[id].acks
      BY <1>1, <3>3 DEF AcksOf
    <3> HIDE DEF id, record
    <3>7. id \notin m /\ d.sets[id].kind = "plans" => Covers(d.sets[id].rows, r.acks)
      BY <3>4, <3>6 DEF Good, Recorded
    <3>8. r.record[1] # "profile" /\ r.record[2] = id
      BY <1>1, <3>3
    <3> QED BY <3>4, <3>5, <3>7, <3>8 DEF Aimed
  <2> QED BY <2>1, <2>2
<1> QED BY <1>1, <1>2 DEF Holds, r
-----------------------------------------------------------------------------
(* The steps, for the sets and the scenarios. *)

Stepped ==
    /\ mixed \subseteq mixed' /\ Grown(db, db', mixed')
    /\ Session(session') /\ (~strayed' => Coherent(session', db'))
    /\ DOMAIN req' = Requests
    /\ \A q \in Requests :
          req'[q] = req[q] \/ req'[q] = Idle \/ Holds(req'[q], db', mixed')

LEMMA SteppedKeeps == SetsInv /\ Stepped => SetsInv'
<1> SUFFICES ASSUME SetsInv, Stepped PROVE SetsInv'
  OBVIOUS
<1>1. ASSUME NEW q \in Requests, req'[q] # Idle PROVE Holds(req'[q], db', mixed')
  <2>1. CASE req'[q] = req[q]
    <3>1. Holds(req[q], db, mixed')
      BY <1>1, <2>1, MoreMixed DEF SetsInv, Stepped
    <3>2. Holds(req[q], db', mixed')
      BY <3>1, HoldsKept DEF SetsInv, Stepped, Grown, Good
    <3> QED BY <2>1, <3>2
  <2> QED BY <1>1, <2>1 DEF Stepped
<1> QED BY <1>1 DEF SetsInv, Stepped, Grown

\* The session of before is as good as it was.
LEMMA SessionKept ==
    ASSUME SetsInv, mixed \subseteq mixed', Grown(db, db', mixed')
    PROVE  Session(session) /\ (~strayed => Coherent(session, db'))
<1>1. Numbered(db) /\ Numbered(db') /\ Follows(db, db', mixed')
  BY DEF SetsInv, Grown, Good
<1> QED BY <1>1, CoherentKept DEF SetsInv

LEMMA ReadStepped ==
    ASSUME SetsInv, NEW q \in Requests, NEW kind, NEW section \in Range(Sections),
           db' = WithRecords(db, kind, section, month), Starts(q, Held(kind, section, db'))
    PROVE  Stepped
<1>1. /\ Grown(db, db', mixed)
      /\ kind = "pane" \/ section.edits \cap Kinds # {} => OfKind(db', KindOf(section)) # {}
  BY WithRecordsGrows DEF SetsInv
<1>2. /\ mixed' = mixed /\ session' = session /\ strayed' = strayed
      /\ req' = [req EXCEPT ![q] = Held(kind, section, db')]
  BY DEF Starts
<1>3. Session(session) /\ (~strayed => Coherent(session, db'))
  BY <1>1, <1>2, SessionKept
<1>4. Holds(Held(kind, section, db'), db', mixed)
  BY <1>1, <1>3, HeldHolds DEF Grown
<1> QED BY <1>1, <1>2, <1>3, <1>4 DEF Stepped, SetsInv

LEMMA ViewSectionStepped ==
    ASSUME SetsInv, NEW q \in Requests, ViewSection(q)
    PROVE  Stepped
<1> PICK section \in Range(Sections) :
        /\ db' = WithRecords(db, "view", section, month)
        /\ Starts(q, Held("view", section, db'))
  BY DEF ViewSection
<1> QED BY ReadStepped

LEMMA SubmitSectionStepped ==
    ASSUME SetsInv, NEW q \in Requests, SubmitSection(q)
    PROVE  Stepped
<1> PICK section \in Range(Sections), kind \in {"next", "pane"} :
        /\ db' = WithRecords(db, kind, section, month)
        /\ Starts(q, Held(kind, section, db'))
  BY DEF SubmitSection
<1> QED BY ReadStepped

LEMMA AnswerStepped ==
    ASSUME SetsInv, NEW q \in Requests, Ends(q), mixed \subseteq mixed', Grown(db, db', mixed'),
           session' = session \/ Coherent(session', db')
    PROVE  Stepped
<1>1. strayed' = strayed
  BY DEF Ends
<1>2. Session(session') /\ (~strayed' => Coherent(session', db'))
  BY <1>1, SessionKept DEF Coherent
<1> QED BY <1>2 DEF Ends, Stepped, SetsInv

\* A save finds the rows it read, or is one of two that overlapped.
LEMMA OvertakenOrAsRead ==
    ASSUME NEW d, NEW r, Saves(r.kind, r.section) \cap Kinds # {}, NEW m, Overtaken(d, r) \subseteq m
    PROVE  LET into == Target(d, r.session, KindOf(r.section))
           IN  \/ into \in m /\ r.read.from \in m
               \/ into = r.read.from /\ d.sets[into].rows = r.read.rows
BY DEF Overtaken

LEMMA ShowSectionStepped ==
    ASSUME SetsInv, NEW q \in Requests, ShowSection(q)
    PROVE  Stepped
<1> DEFINE r == req[q]
           more == IF r.section.seeds THEN Overtaken(db, r) ELSE {}
<1>1. /\ r.kind = "view" /\ Ends(q) /\ session' = session /\ mixed' = mixed \cup more
      /\ db' = SeedAndAcknowledge(db, r.session, r.section, r.record, r.acks, r.read, month)
  BY DEF ShowSection
<1>2. Holds(r, db, mixed) /\ Good(db, mixed)
  BY <1>1 DEF SetsInv, Idle
<1>3. Good(db, mixed') /\ Holds(r, db, mixed')
  BY <1>1, <1>2, MoreMixed
<1>4. r.section \in Range(Sections) /\ Aimed(r, db, mixed')
  BY <1>1, <1>3 DEF Holds
<1>5. ASSUME r.section.seeds
      PROVE  LET into == Target(db, r.session, "plans")
             IN  \/ into \in mixed' /\ r.read.from \in mixed'
                 \/ into = r.read.from /\ db.sets[into].rows = r.read.rows
  <2>1. r.section.edits = {"plans"} /\ KindOf(r.section) = "plans"
    BY <1>4, <1>5, Registry DEF KindOf
  <2>2. Saves(r.kind, r.section) \cap Kinds # {}
    BY <1>1, <2>1 DEF Saves, Kinds
  <2>3. Overtaken(db, r) \subseteq mixed'
    BY <1>1, <1>5
  <2> HIDE DEF r
  <2> QED BY <2>1, <2>2, <2>3, OvertakenOrAsRead
<1> HIDE DEF r
<1>6. r.record[1] = "profile" => ~r.section.seeds
  BY <1>4 DEF Aimed
<1>7. r.record[1] # "profile" /\ r.record[2] \in DOMAIN db.sets \ mixed' /\ db.sets[r.record[2]].kind = "plans" =>
          Covers(db.sets[r.record[2]].rows, r.acks)
  BY <1>4 DEF Aimed
<1>8. r.section.seeds /\ Target(db, r.session, "plans") \in DOMAIN db.sets \ mixed' =>
          db.sets[Target(db, r.session, "plans")].rows \subseteq r.read.rows
  BY <1>5
<1>9. r.section.seeds /\ r.record[2] \in DOMAIN db.sets \ mixed' => r.record[2] = Target(db, r.session, "plans")
  BY <1>4, <1>5 DEF Aimed
<1>10. Grown(db, db', mixed')
  BY <1>1, <1>3, <1>4, <1>6, <1>7, <1>8, <1>9, SeedAndAcknowledgeGrows
<1> QED BY <1>1, <1>10, AnswerStepped

\* Where Next leads, the section is acknowledged on what is read there and then.
LEMMA FollowingGrows ==
    ASSUME NEW m, NEW d, Good(d, m), NEW s, NEW section \in Range(Sections), NEW now,
           section.edits \cap Kinds # {} => OfKind(d, KindOf(section)) # {}
    PROVE  LET record == FlowRecord(d, s, section)
           IN  Grown(d, SeedAndAcknowledge(d, s, section, record, AcksOf(d, record),
                                           Reading(d, s, section), now), m)
<1> DEFINE record == FlowRecord(d, s, section)
           acks == AcksOf(d, record)
           read == Reading(d, s, section)
           into == Target(d, s, KindOf(section))
<1>1. record[1] = "profile" => ~section.seeds
  BY FlowKind DEF FlowRecord
<1>2. record[1] # "profile" /\ record[2] \in DOMAIN d.sets \ m /\ d.sets[record[2]].kind = "plans" =>
          Covers(d.sets[record[2]].rows, acks)
  BY DEF AcksOf, Good, Recorded
<1>3. ASSUME section.seeds
      PROVE  KindOf(section) = "plans" /\ record[2] = into /\ d.sets[into].rows = read.rows
  <2>1. section.edits = {"plans"} /\ KindOf(section) = "plans" /\ FlowOf(section) = "plans"
    BY <1>3, Registry, FlowKind DEF KindOf
  <2>2. OfKind(d, KindOf(section)) # {}
    BY <2>1 DEF Kinds
  <2>3. read.from = into /\ read.rows = d.sets[read.from].rows
    BY <2>2, ReadingIs DEF Good
  <2>4. record = <<"set", into>>
    BY <2>1 DEF FlowRecord
  <2> QED BY <2>1, <2>3, <2>4
<1>4. section.seeds /\ Target(d, s, "plans") \in DOMAIN d.sets \ m =>
          d.sets[Target(d, s, "plans")].rows \subseteq read.rows
  BY <1>3
<1>5. section.seeds /\ record[2] \in DOMAIN d.sets \ m => record[2] = Target(d, s, "plans")
  BY <1>3
<1> HIDE DEF record, acks, read
<1>6. Grown(d, SeedAndAcknowledge(d, s, section, record, acks, read, now), m)
  BY <1>1, <1>2, <1>4, <1>5, SeedAndAcknowledgeGrows
<1> QED BY <1>6 DEF record, acks, read

LEMMA AdvanceStepped ==
    ASSUME SetsInv, NEW q \in Requests, Advance(q)
    PROVE  Stepped
<1> DEFINE r         == req[q]
           rows      == r.read.rows \cup Seeds(r.section, r.read.facts)
           stored    == Store(db, r.session, r.section, r.read, month)
           following == Following(r.section, r.read.facts, r.session)
           d         == WithRecords(stored, "next", following, month)
           record    == FlowRecord(d, r.session, following)
           shown     == SeedAndAcknowledge(d, r.session, following, record, AcksOf(d, record),
                                           Reading(d, r.session, following), month)
<1>1. /\ r.kind = "next" /\ Ends(q) /\ mixed' = mixed \cup Overtaken(db, r)
      /\ IF following = None
         THEN /\ db' = stored
              /\ session' = IF r.session.editing = None THEN session ELSE [r.session EXCEPT !.editing = None]
         ELSE db' = shown /\ session' = session
  BY DEF Advance
<1>2. Holds(r, db, mixed) /\ Good(db, mixed)
  BY <1>1 DEF SetsInv, Idle
<1>3. Good(db, mixed') /\ mixed \subseteq mixed'
  BY <1>1, <1>2, MoreMixed
<1>4. Grown(db, stored, mixed')
  <2>1. stored = SaveRecords(db, r.session, r.section.edits, KindOf(r.section), r.read.facts, rows, month)
    BY DEF Store
  <2>2. Kinds \cap r.section.edits # {} /\ Target(db, r.session, KindOf(r.section)) \in DOMAIN db.sets \ mixed' =>
            db.sets[Target(db, r.session, KindOf(r.section))].rows \subseteq r.read.rows
    <3> HIDE DEF r
    <3> SUFFICES ASSUME Kinds \cap r.section.edits # {} PROVE
            Target(db, r.session, KindOf(r.section)) \in mixed'
            \/ db.sets[Target(db, r.session, KindOf(r.section))].rows = r.read.rows
      OBVIOUS
    <3>1. Saves(r.kind, r.section) \cap Kinds # {} /\ Overtaken(db, r) \subseteq mixed'
      BY <1>1 DEF Saves
    <3> QED BY <3>1, OvertakenOrAsRead
  <2>3. r.read.rows \subseteq rows
    OBVIOUS
  <2> HIDE DEF r, rows, stored
  <2>4. Kinds \cap r.section.edits # {} /\ Target(db, r.session, KindOf(r.section)) \in DOMAIN db.sets \ mixed' =>
            db.sets[Target(db, r.session, KindOf(r.section))].rows \subseteq rows
    BY <2>2, <2>3
  <2> QED BY <1>3, <2>1, <2>4, SaveRecordsGrows
<1> HIDE DEF stored
<1>5. CASE following = None
  <2>1. Session(r.session)
    BY <1>2 DEF Holds
  <2>2. session' = session \/ session' = [r.session EXCEPT !.editing = None]
    BY <1>1, <1>5
  <2> DEFINE left == [r.session EXCEPT !.editing = None]
  <2>3. Coherent(left, db')
    <3>1. Session(left) /\ left.editing = None
      BY <2>1 DEF Session, IsRow
    <3>2. None \notin DOMAIN db'.scenarios
      BY <1>1, <1>4, <1>5, InterviewAssumption DEF Grown, Good, Numbered
    <3> HIDE DEF left
    <3> QED BY <3>1, <3>2 DEF Coherent
  <2>4. session' = session \/ Coherent(session', db')
    BY <2>2, <2>3
  <2> QED BY <1>1, <1>3, <1>4, <1>5, <2>4, AnswerStepped
<1>6. CASE following # None
  <2>1. following \in Range(Sections)
    BY <1>6, FollowingIsSection
  <2>2. db' = shown /\ session' = session
    BY <1>1, <1>6
  <2> HIDE DEF following
  <2>3. Grown(stored, d, mixed') /\ (following.edits \cap Kinds # {} => OfKind(d, KindOf(following)) # {})
    BY <1>4, WithRecordsGrows DEF Grown
  <2> HIDE DEF d
  <2>4. Grown(d, shown, mixed')
    BY <2>1, <2>3, FollowingGrows DEF Grown
  <2> HIDE DEF shown
  <2>5. Grown(db, d, mixed')
    BY <1>3, <1>4, <2>3, GrownTransitive
  <2>6. Grown(db, db', mixed')
    BY <1>3, <2>2, <2>4, <2>5, GrownTransitive
  <2> QED BY <1>1, <1>3, <2>2, <2>6, AnswerStepped
<1> QED BY <1>5, <1>6

LEMMA SavePaneStepped ==
    ASSUME SetsInv, NEW q \in Requests, SavePane(q)
    PROVE  Stepped
<1> DEFINE r    == req[q]
           into == Target(db, r.session, KindOf(r.section))
           rows == IF FlowOf(r.section) = "profile" THEN r.read.rows ELSE r.read.rows \cup {r.section.key}
<1>1. r.kind = "pane" /\ Ends(q) /\ session' = session /\ mixed' = mixed \cup Overtaken(db, r)
  BY DEF SavePane
<1>2. PICK facts :
          db' = SaveRecords(db, r.session, r.section.pane, KindOf(r.section), facts, rows, month)
  BY DEF SavePane
<1>3. Good(db, mixed') /\ mixed \subseteq mixed'
  BY <1>1, MoreMixed DEF SetsInv
<1>4. Kinds \cap r.section.pane # {} /\ into \in DOMAIN db.sets \ mixed' => db.sets[into].rows \subseteq rows
  <2> SUFFICES ASSUME Kinds \cap r.section.pane # {}
               PROVE  into \in mixed' \/ db.sets[into].rows = r.read.rows
    OBVIOUS
  <2>1. Saves(r.kind, r.section) \cap Kinds # {} /\ Overtaken(db, r) \subseteq mixed'
    BY <1>1 DEF Saves
  <2> HIDE DEF r
  <2> QED BY <2>1, OvertakenOrAsRead DEF into
<1> HIDE DEF r, rows
<1>5. Grown(db, db', mixed')
  BY <1>2, <1>3, <1>4, SaveRecordsGrows
<1> QED BY <1>1, <1>3, <1>5, AnswerStepped
\* The requests of one step.
LEMMA ServedStepped ==
    ASSUME SetsInv, Served, mixed \subseteq mixed', Grown(db, db', mixed'),
           (session' = session /\ strayed' = strayed) \/ Coherent(session', db')
    PROVE  Stepped
<1>1. Session(session') /\ (~strayed' => Coherent(session', db'))
  BY SessionKept DEF Coherent
<1> QED BY <1>1 DEF Served, Stepped, SetsInv

\* A session that turns to a component alone, or to a scenario that is there.
LEMMA LeavesBuild ==
    ASSUME NEW d, Numbered(d), NEW s, Session(s), NEW plans, NEW assumptions
    PROVE  Coherent([s EXCEPT !.plans = plans, !.assumptions = assumptions, !.editing = None], d)
<1> DEFINE left == [s EXCEPT !.plans = plans, !.assumptions = assumptions, !.editing = None]
<1>1. Session(left) /\ left.editing = None
  BY DEF Session, IsRow
<1>2. None \notin DOMAIN d.scenarios
  BY InterviewAssumption DEF Numbered
<1> HIDE DEF left
<1>3. Coherent(left, d)
  BY <1>1, <1>2 DEF Coherent
<1> QED BY <1>3 DEF left

LEMMA BuildingCoheres ==
    ASSUME NEW d, NEW s, Session(s),
           NEW id \in Nat, id < d.next
    PROVE  Coherent(Building(s, d, id), d)
<1> DEFINE built == Building(s, d, id)
<1>1. /\ Session(built) /\ built.editing = id
      /\ built.plans = d.scenarios[id].plans /\ built.assumptions = d.scenarios[id].assumptions
  BY DEF Session, IsRow, Building, Selected
<1> HIDE DEF built
<1>2. Coherent(built, d)
  BY <1>1 DEF Coherent
<1> QED BY <1>2 DEF built

LEMMA AcknowledgeRefreshStepped ==
    ASSUME SetsInv, AcknowledgeRefresh
    PROVE  Stepped
<1>1. Grown(db, db', mixed)
  BY AdvanceProfileGrows DEF AcknowledgeRefresh, SetsInv
<1>2. Served /\ mixed' = mixed /\ session' = session /\ strayed' = strayed
  BY DEF AcknowledgeRefresh
<1> QED BY <1>1, <1>2, ServedStepped

LEMMA EnterProfileFlowStepped ==
    ASSUME SetsInv, EnterProfileFlow
    PROVE  Stepped
<1>1. /\ Served /\ mixed' = mixed
      /\ session' = [Selected(session, DefaultScenario(db')) EXCEPT !.editing = None]
  BY DEF EnterProfileFlow
<1>2. Grown(db, db', mixed)
  BY FreshScenarioGrows, GrownSelf DEF EnterProfileFlow, EnsureDefault, SetsInv
<1>3. Session(session) /\ Numbered(db')
  BY <1>2 DEF SetsInv, Grown, Good
<1> DEFINE pair == DefaultScenario(db')
           left == [session EXCEPT !.plans = pair.plans, !.assumptions = pair.assumptions, !.editing = None]
<1>4. Coherent(left, db')
  BY <1>3, LeavesBuild
<1>5. session' = left
  <2>1. IsRow(session, {"plans", "assumptions", "editing"})
    BY <1>3 DEF Session
  <2> QED BY <1>1, <2>1 DEF Selected, IsRow
<1> HIDE DEF left
<1> QED BY <1>1, <1>2, <1>4, <1>5, ServedStepped

\* A lone edit builds nothing, whatever was being edited.
LEMMA EnterFlowStepped ==
    ASSUME SetsInv, EnterFlow
    PROVE  Stepped
<1>1. Served /\ mixed' = mixed /\ db' = db /\ session' = [session EXCEPT !.editing = None]
  BY DEF EnterFlow
<1> DEFINE left == [session EXCEPT !.plans = session.plans, !.assumptions = session.assumptions,
                                   !.editing = None]
<1>2. session' = left
  <2>1. IsRow(session, {"plans", "assumptions", "editing"})
    BY DEF SetsInv, Session
  <2> QED BY <1>1, <2>1 DEF IsRow
<1>3. Coherent(left, db)
  BY LeavesBuild DEF SetsInv, Good
<1>4. Grown(db, db, mixed)
  BY GrownSelf DEF SetsInv
<1> HIDE DEF left
<1> QED BY <1>1, <1>2, <1>3, <1>4, ServedStepped

\* An edit link leads astray only out of a build.
LEMMA EditComponentStepped ==
    ASSUME SetsInv, NEW kind \in Kinds, EditComponent(kind)
    PROVE  Stepped
<1> PICK id : session' = [session EXCEPT ![kind] = id]
  BY DEF EditComponent
<1>1. Served /\ mixed' = mixed /\ db' = db /\ strayed' = (session.editing # None)
  BY DEF EditComponent
<1>2. Session(session') /\ session'.editing = session.editing
  <2>1. IsRow(session, {"plans", "assumptions", "editing"})
    BY DEF SetsInv, Session
  <2> QED BY <2>1 DEF Session, Kinds, IsRow
<1>3. ASSUME ~strayed' PROVE Coherent(session', db)
  <2>1. session'.editing = None
    BY <1>1, <1>2, <1>3
  <2>2. None \notin DOMAIN db.scenarios
    BY InterviewAssumption DEF SetsInv, Good, Numbered
  <2> QED BY <1>2, <2>1, <2>2 DEF Coherent
<1>4. Grown(db, db, mixed)
  BY GrownSelf DEF SetsInv
<1> QED BY <1>1, <1>2, <1>3, <1>4 DEF Served, Stepped, SetsInv

LEMMA EnterBuildStepped ==
    ASSUME SetsInv, EnterBuild
    PROVE  Stepped
<1> PICK id \in DOMAIN db.scenarios : session' = Building(session, db, id)
  BY DEF EnterBuild
<1>1. Served /\ mixed' = mixed /\ db' = db
  BY DEF EnterBuild
<1>2. id \in Nat /\ id < db.next
  BY DEF SetsInv, Good, Numbered
<1>3. Coherent(session', db)
  <2>1. Session(session)
    BY DEF SetsInv
  <2> QED BY <1>2, <2>1, BuildingCoheres
<1>4. Grown(db, db, mixed)
  BY GrownSelf DEF SetsInv
<1> QED BY <1>1, <1>3, <1>4, ServedStepped

LEMMA StartFreshStepped ==
    ASSUME SetsInv, StartFresh
    PROVE  Stepped
<1>1. Served /\ mixed' = mixed /\ db' = FreshScenario(db) /\ session' = Building(session, db', db.next + 2)
  BY DEF StartFresh
<1>2. Grown(db, db', mixed) /\ db'.next = db.next + 3
  BY <1>1, FreshScenarioGrows DEF SetsInv
<1>3. db.next + 2 \in Nat /\ db.next + 2 < db'.next
  BY <1>2 DEF SetsInv, Good, Numbered
<1>4. Coherent(session', db')
  <2>1. Session(session)
    BY DEF SetsInv
  <2>2. Coherent(Building(session, db', db.next + 2), db')
    BY <1>3, <2>1, BuildingCoheres
  <2> QED BY <1>1, <2>2
<1> QED BY <1>1, <1>2, <1>4, ServedStepped

\* A copy of plans whose saves overlapped is as good as they are.
LEMMA CopyScenarioStepped ==
    ASSUME SetsInv, CopyScenario
    PROVE  Stepped
<1> PICK id \in CompleteScenarios(db), copied \in CopiedSides :
        LET pair  == db.scenarios[id]
            plans == IF "plans" \in copied THEN Clone(db, pair.plans) ELSE db
            both  == IF "assumptions" \in copied THEN Clone(plans, pair.assumptions) ELSE plans
        IN  /\ \E p, a : db' = NewScenario(both, p, a)
            /\ mixed' = mixed \cup (IF "plans" \in copied /\ pair.plans \in mixed THEN {db.next} ELSE {})
  BY DEF CopyScenario
<1> DEFINE pair  == db.scenarios[id]
           plans == IF "plans" \in copied THEN Clone(db, pair.plans) ELSE db
           both  == IF "assumptions" \in copied THEN Clone(plans, pair.assumptions) ELSE plans
<1> PICK p, a : db' = NewScenario(both, p, a)
  OBVIOUS
<1>1. /\ pair.plans \in DOMAIN db.sets /\ db.sets[pair.plans].kind = "plans"
      /\ pair.assumptions \in DOMAIN db.sets /\ db.sets[pair.assumptions].kind = "assumptions"
  BY DEF CompleteScenarios, CompleteSets, OfKind, Kinds
<1>2. /\ mixed \subseteq mixed' /\ Good(db, mixed')
      /\ "plans" \in copied /\ pair.plans \in mixed => db.next \in mixed'
  <2>1. mixed \subseteq mixed' /\ ("plans" \in copied /\ pair.plans \in mixed => db.next \in mixed')
    OBVIOUS
  <2> QED BY <2>1, MoreMixed DEF SetsInv
<1>3. Served /\ session' = session /\ strayed' = strayed
  BY DEF CopyScenario
<1> HIDE DEF pair
<1>4. /\ Grown(db, plans, mixed')
      /\ plans.sets[pair.assumptions].kind = "assumptions"
  <2>1. CASE "plans" \notin copied
    BY <1>1, <1>2, <2>1, GrownSelf
  <2>2. CASE "plans" \in copied
    <3> DEFINE x == db.sets[pair.plans]
    <3>1. plans = NewSet(db, x.kind, x.acks, x.rows)
      BY <2>2 DEF Clone
    <3>2. pair.plans \notin mixed => Covers(x.rows, x.acks)
      BY <1>1 DEF SetsInv, Good, Recorded
    <3>3. db.next \in mixed' \/ (x.kind = "plans" => Covers(x.rows, x.acks))
      BY <1>2, <2>2, <3>2
    <3> HIDE DEF x, plans
    <3>4. Grown(db, plans, mixed')
      BY <1>2, <3>1, <3>3, NewSetGrows
    <3>5. plans.sets = Adding(db.sets, db.next, [kind |-> x.kind, acks |-> x.acks, rows |-> x.rows])
      BY <3>1 DEF NewSet, SetsInv, Good, Numbered, IsRow, Tables
    <3>6. pair.assumptions # db.next
      BY <1>1 DEF SetsInv, Good, Numbered
    <3>7. plans.sets[pair.assumptions] = db.sets[pair.assumptions]
      BY <1>1, <3>5, <3>6 DEF Adding
    <3> QED BY <1>1, <3>4, <3>7
  <2> QED BY <2>1, <2>2
<1> HIDE DEF plans
<1>5. Grown(plans, both, mixed')
  <2>1. CASE "assumptions" \notin copied
    BY <1>4, <2>1, GrownSelf DEF Grown
  <2>2. CASE "assumptions" \in copied
    <3> DEFINE y == plans.sets[pair.assumptions]
    <3>1. both = NewSet(plans, y.kind, y.acks, y.rows)
      BY <2>2 DEF Clone
    <3>2. y.kind = "assumptions"
      BY <1>4
    <3> HIDE DEF y, both
    <3> QED BY <1>4, <3>1, <3>2, NewSetGrows DEF Grown
  <2> QED BY <2>1, <2>2
<1> HIDE DEF both
<1>6. Grown(db, both, mixed')
  BY <1>2, <1>4, <1>5, GrownTransitive
<1>7. Grown(both, db', mixed')
  BY <1>5, NewScenarioGrows DEF Grown
<1>8. Grown(db, db', mixed')
  BY <1>2, <1>6, <1>7, GrownTransitive
<1> QED BY <1>2, <1>3, <1>8, ServedStepped

LEMMA PairScenarioStepped ==
    ASSUME SetsInv, PairScenario
    PROVE  Stepped
<1>1. Grown(db, db', mixed)
  BY NewScenarioGrows DEF PairScenario, SetsInv
<1>2. Served /\ mixed' = mixed /\ session' = session /\ strayed' = strayed
  BY DEF PairScenario
<1> QED BY <1>1, <1>2, ServedStepped

LEMMA DeleteScenarioStepped ==
    ASSUME SetsInv, DeleteScenario
    PROVE  Stepped
<1>1. /\ Served /\ mixed' = mixed /\ session' = session /\ strayed' = strayed
      /\ \E id : db' = WithoutScenario(db, id)
  BY DEF DeleteScenario
<1>2. \E S, T : /\ IsRow(db', Tables) /\ db'.next = db.next /\ db'.profiles = db.profiles
                /\ db'.scenarios = [id \in S |-> db.scenarios[id]] /\ S \subseteq DOMAIN db.scenarios
                /\ db'.sets = [id \in T |-> db.sets[id]] /\ T \subseteq DOMAIN db.sets
  <2>1. PICK id : db' = WithoutScenario(db, id)
    BY <1>1
  <2> DEFINE S == DOMAIN db.scenarios \ {id}
             e == [db EXCEPT !.scenarios = Restrict(@, S)]
             T == DOMAIN e.sets \ Orphans(e, db.scenarios[id])
  <2>2. db' = [e EXCEPT !.sets = Restrict(@, T)]
    BY <2>1 DEF WithoutScenario
  <2>3. IsRow(db, Tables)
    BY DEF SetsInv, Good, Numbered
  <2>4. /\ IsRow(e, Tables) /\ e.next = db.next /\ e.profiles = db.profiles /\ e.sets = db.sets
        /\ e.scenarios = Restrict(db.scenarios, S) /\ S \subseteq DOMAIN db.scenarios
    BY <2>3 DEF IsRow, Tables
  <2>5. T \subseteq DOMAIN db.sets
    BY <2>4
  <2> HIDE DEF e, S, T
  <2>6. /\ IsRow(db', Tables) /\ db'.next = e.next /\ db'.profiles = e.profiles
        /\ db'.scenarios = e.scenarios /\ db'.sets = Restrict(e.sets, T)
    BY <2>2, <2>4 DEF IsRow, Tables
  <2> QED BY <2>4, <2>5, <2>6 DEF Restrict
<1>3. Grown(db, db', mixed)
  <2> PICK S, T : /\ IsRow(db', Tables) /\ db'.next = db.next
                  /\ db'.scenarios = [id \in S |-> db.scenarios[id]] /\ S \subseteq DOMAIN db.scenarios
                  /\ db'.sets = [id \in T |-> db.sets[id]] /\ T \subseteq DOMAIN db.sets
    BY <1>2
  <2>1. Numbered(db')
    BY DEF SetsInv, Good, Numbered
  <2>2. Recorded(db', mixed)
    BY DEF SetsInv, Good, Recorded
  <2>3. Follows(db, db', mixed)
    BY DEF SetsInv, Good, Numbered, Follows
  <2> QED BY <2>1, <2>2, <2>3 DEF Grown, Good
<1> QED BY <1>1, <1>3, ServedStepped

LEMMA NextStepped ==
    ASSUME SetsInv, Next
    PROVE  Stepped \/ MonthPasses
<1>1. ASSUME NEW q \in Requests,
             ViewSection(q) \/ SubmitSection(q) \/ ShowSection(q) \/ Advance(q) \/ SavePane(q)
      PROVE  Stepped
  BY <1>1, ViewSectionStepped, SubmitSectionStepped, ShowSectionStepped, AdvanceStepped,
     SavePaneStepped
<1>2. ASSUME AcknowledgeRefresh \/ EnterProfileFlow \/ EnterFlow \/ EnterBuild \/ StartFresh
      PROVE  Stepped
  BY <1>2, AcknowledgeRefreshStepped, EnterProfileFlowStepped, EnterFlowStepped, EnterBuildStepped,
     StartFreshStepped
<1>3. ASSUME CopyScenario \/ PairScenario \/ DeleteScenario
      PROVE  Stepped
  BY <1>3, CopyScenarioStepped, PairScenarioStepped, DeleteScenarioStepped
<1>4. ASSUME NEW kind \in Kinds, EditComponent(kind)
      PROVE  Stepped
  BY <1>4, EditComponentStepped
<1> QED BY <1>1, <1>2, <1>3, <1>4 DEF Next
-----------------------------------------------------------------------------
(* The theorems about sets and scenarios. *)

LEMMA SetsInit == Init => SetsInv
<1> SUFFICES ASSUME Init PROVE SetsInv
  OBVIOUS
<1>1. db \in Households /\ mixed = {} /\ req = [q \in Requests |-> Idle]
  BY DEF Init
<1>2. Numbered(db)
  <2>1. IsRow(db, Tables) /\ db.next \in Nat
    BY <1>1, HouseholdAssumption DEF IsRow, Tables
  <2>2. \A id \in DOMAIN db.sets \cup DOMAIN db.scenarios : id \in 0 .. db.next - 1
    BY <1>1, HouseholdAssumption
  <2>3. \A id \in DOMAIN db.sets : IsRow(db.sets[id], {"kind", "acks", "rows"})
    <3> SUFFICES ASSUME NEW id \in DOMAIN db.sets PROVE IsRow(db.sets[id], {"kind", "acks", "rows"})
      OBVIOUS
    <3>1. db.sets = [x \in DOMAIN db.sets |-> [kind |-> db.sets[x].kind, acks |-> db.sets[x].acks,
                                              rows |-> db.sets[x].rows]]
      BY <1>1, HouseholdAssumption
    <3>2. db.sets[id] = [kind |-> db.sets[id].kind, acks |-> db.sets[id].acks, rows |-> db.sets[id].rows]
      BY <3>1
    <3> QED BY <3>2 DEF IsRow
  <2>4. \A id \in 0 .. db.next - 1 : id \in Nat /\ id < db.next
    BY <2>1
  <2>5. /\ \A id \in DOMAIN db.sets : id \in Nat /\ id < db.next
        /\ \A id \in DOMAIN db.scenarios : id \in Nat /\ id < db.next
    BY <2>2, <2>4
  <2> QED BY <2>1, <2>3, <2>5 DEF Numbered
<1>3. Recorded(db, mixed)
  <2>1. \A id \in DOMAIN db.sets, n \in DOMAIN Sections :
            db.sets[id].kind = "plans" /\ Sections[n].seeds /\ Sections[n].key # Conditional
                /\ Sections[n].key \in DOMAIN db.sets[id].acks => Sections[n].key \in db.sets[id].rows
    BY <1>1, HouseholdAssumption
  <2> QED BY <2>1 DEF Recorded, Covers, Spending
<1>4. Coherent(session, db)
  <2>1. session = [plans |-> None, assumptions |-> None, editing |-> None]
    BY DEF Init
  <2>2. Session(session) /\ session.editing = None
    BY <2>1 DEF Session, IsRow
  <2>3. None \notin DOMAIN db.scenarios
    BY <1>2, InterviewAssumption DEF Numbered
  <2> QED BY <2>2, <2>3 DEF Coherent
<1> QED BY <1>1, <1>2, <1>3, <1>4 DEF SetsInv, Good, Coherent

LEMMA SetsNext == SetsInv /\ [Next]_vars => SetsInv'
<1> SUFFICES ASSUME SetsInv, [Next]_vars PROVE SetsInv'
  OBVIOUS
<1>1. CASE Stepped
  BY <1>1, SteppedKeeps
<1>2. CASE MonthPasses \/ UNCHANGED vars
  BY <1>2 DEF MonthPasses, vars, SetsInv
<1> QED BY <1>1, <1>2, NextStepped

\* Ids are given once, scenarios keep their pair, and what every request in flight holds of the
\* sets it read stays true of them unless saves overlapped.
THEOREM SetsInductive == Spec => []SetsInv
BY SetsInit, SetsNext, PTL DEF Spec

\* While a scenario is being built its own sets are the ones edited, whichever request wrote the
\* session last and from however old a reading -- one that strayed among them -- unless an edit
\* link was followed out of the build and the flow it leads to not entered yet.
THEOREM BuildsStayTheirOwn == Spec => []BuildEditsItsScenario
<1>1. SetsInv => BuildEditsItsScenario
  BY DEF SetsInv, Coherent, BuildEditsItsScenario, Kinds
<1> QED BY <1>1, SetsInductive, PTL

\* An acknowledged spending section has its row, in every set whose saves did not overlap.
THEOREM ReviewedIsRecorded == Spec => []AcknowledgedIsRecorded
<1>1. SetsInv => AcknowledgedIsRecorded
  <2> SUFFICES ASSUME SetsInv, NEW id \in DOMAIN db.sets \ mixed, NEW s \in Range(Sections),
                      s.seeds, s.key # Conditional, FlowOf(s) = db.sets[id].kind,
                      s.key \in Acknowledged(db.sets[id].acks)
               PROVE  s.key \in db.sets[id].rows
    BY DEF AcknowledgedIsRecorded
  <2>1. s.key \notin DOMAIN Folded /\ FlowOf(s) = "plans"
    BY Registry, FlowKind
  <2>2. s.key \in DOMAIN db.sets[id].acks
    BY <2>1 DEF Acknowledged
  <2>3. s.key \in Spending
    BY DEF Spending, Range
  <2> QED BY <2>1, <2>2, <2>3 DEF SetsInv, Good, Recorded, Covers
<1> QED BY <1>1, SetsInductive, PTL
=============================================================================
