----------------------------- MODULE InputsProofs -----------------------------
(***************************************************************************)
(* The three promises of Inputs, for every set of households, contracts and *)
(* rents and any number of edits: ReadyFollowsFacts, ReadyInputsMaterialize *)
(* and ResolvingRuns.                                                       *)
(***************************************************************************)
EXTENDS Inputs, TLAPS

\* What the program copied from the facts still stands beside what it was copied from:
\* only the user, or a reset, takes the two apart.
Stands(q, c) ==
    /\ DOMAIN c = {"debts", "rent"}
    /\ \A h \in c.debts \cap DOMAIN q.repayments :
          h \in DOMAIN q.snapshots /\ q.repayments[h] = q.snapshots[h]
    /\ c.rent => q.rentSnapshot # None /\ q.rent = q.rentSnapshot

IInv ==
    /\ FactsCohere(profile)
    /\ PlansCohere(plans)
    /\ Stands(plans, copied)
    /\ edits \in Nat
-----------------------------------------------------------------------------
(* What each change of the plans does to the copies.                         *)

\* The copies are told by four fields of the plans.
LEMMA StandsAlike ==
    ASSUME NEW q, NEW r, NEW c, Stands(q, c), DOMAIN q = PlansFields, DOMAIN r = PlansFields,
           r.repayments = q.repayments, r.snapshots = q.snapshots,
           r.rent = q.rent, r.rentSnapshot = q.rentSnapshot
    PROVE  Stands(r, c)
BY DEF Stands

\* Saving a pane of repayments: a row typed is the user's, a row accepted as shown still copies.
LEMMA RepayingStands ==
    ASSUME NEW posted, Stands(plans, copied), PlansCohere(plans)
    PROVE  /\ Stands(Repaying(plans, posted), CopiedWhen(posted))
           /\ \A h \in DOMAIN Repaying(plans, posted).repayments : Complete(Repaying(plans, posted).repayments[h])
           /\ DOMAIN Repaying(plans, posted) = PlansFields
           /\ \A f \in {"timing", "named", "events", "rent", "rentSnapshot"} :
                 Repaying(plans, posted)[f] = plans[f]
<1> DEFINE q       == Repaying(plans, posted)
           c       == CopiedWhen(posted)
           planned == {h \in DOMAIN posted : Complete(posted[h])}
           rows    == [h \in planned |-> posted[h]]
           under   == [h \in planned |-> Preserved(h)]
           shown   == {h \in DOMAIN posted : posted[h] = Shown(h) /\ Complete(posted[h])}
           fresh   == {h \in shown \ DOMAIN plans.repayments : Preserved(h) = TermsOf(profile, h)}
<1>1. /\ DOMAIN q = PlansFields
      /\ q.repayments = Over(Drop(plans.repayments, DOMAIN posted), rows)
      /\ q.snapshots = Over(Drop(plans.snapshots, DOMAIN posted), under)
      /\ \A f \in {"timing", "named", "events", "rent", "rentSnapshot"} : q[f] = plans[f]
  BY DEF Repaying, PlansFields, PlansCohere
<1>2. /\ DOMAIN c = {"debts", "rent"} /\ c.rent = copied.rent
      /\ c.debts = (copied.debts \ DOMAIN posted)
                   \cup (copied.debts \cap shown \cap DOMAIN plans.repayments) \cup fresh
  BY DEF CopiedWhen, Stands
<1>3. DOMAIN rows = planned /\ DOMAIN under = planned
      /\ \A h \in planned : rows[h] = posted[h] /\ under[h] = Preserved(h)
  OBVIOUS
<1> HIDE DEF q, c, rows, under
<1>4. /\ DOMAIN q.repayments = (DOMAIN plans.repayments \ DOMAIN posted) \cup planned
      /\ \A h \in planned : q.repayments[h] = posted[h]
      /\ \A h \in DOMAIN plans.repayments \ DOMAIN posted : q.repayments[h] = plans.repayments[h]
  BY <1>1, <1>3 DEF Over, Drop, Restrict
<1>5. /\ DOMAIN q.snapshots = (DOMAIN plans.snapshots \ DOMAIN posted) \cup planned
      /\ \A h \in planned : q.snapshots[h] = Preserved(h)
      /\ \A h \in DOMAIN plans.snapshots \ DOMAIN posted : q.snapshots[h] = plans.snapshots[h]
  BY <1>1, <1>3 DEF Over, Drop, Restrict
<1>6. ASSUME NEW h \in c.debts \cap DOMAIN q.repayments
      PROVE  h \in DOMAIN q.snapshots /\ q.repayments[h] = q.snapshots[h]
  <2>1. CASE h \notin DOMAIN posted
    <3>1. /\ h \in copied.debts /\ h \in DOMAIN plans.repayments
          /\ q.repayments[h] = plans.repayments[h]
      BY <1>2, <1>6, <1>4, <2>1
    <3>2. h \in DOMAIN plans.snapshots /\ plans.repayments[h] = plans.snapshots[h]
      BY <3>1 DEF Stands
    <3> QED BY <1>5, <2>1, <3>1, <3>2
  <2>2. CASE h \in DOMAIN posted
    <3>1. h \in planned
      BY <1>6, <1>4, <2>2
    <3>2. q.repayments[h] = posted[h] /\ h \in DOMAIN q.snapshots /\ q.snapshots[h] = Preserved(h)
      BY <1>4, <1>5, <3>1
    <3>3. CASE h \in copied.debts \cap shown \cap DOMAIN plans.repayments
      BY <3>2, <3>3 DEF Shown, Preserved, Stands
    <3>4. CASE h \in fresh
      BY <3>2, <3>4 DEF Shown
    <3> QED BY <1>2, <1>6, <2>2, <3>3, <3>4
  <2> QED BY <2>1, <2>2
<1>7. c.rent => q.rentSnapshot # None /\ q.rent = q.rentSnapshot
  BY <1>1, <1>2 DEF Stands
<1>8. Stands(q, c)
  BY <1>2, <1>6, <1>7 DEF Stands
<1>9. \A h \in DOMAIN q.repayments : Complete(q.repayments[h])
  BY <1>4 DEF PlansCohere
<1> QED BY <1>1, <1>8, <1>9 DEF q, c

\* Walking a section copies the contracts of the debts it seeds, and only those.
LEMMA SeededStands ==
    ASSUME Stands(plans, copied), DOMAIN plans = PlansFields, NEW debts,
           NEW c, c = [copied EXCEPT !.debts = @ \cup Seedable(plans, debts)]
    PROVE  /\ Stands(Seeded(profile, plans, debts), c)
           /\ DOMAIN Seeded(profile, plans, debts) = PlansFields
           /\ \A f \in {"timing", "named", "events", "rent", "rentSnapshot"} :
                 Seeded(profile, plans, debts)[f] = plans[f]
           /\ DOMAIN Seeded(profile, plans, debts).repayments
                  = DOMAIN plans.repayments \cup Seedable(plans, debts)
           /\ \A h \in DOMAIN plans.repayments \ Seedable(plans, debts) :
                  Seeded(profile, plans, debts).repayments[h] = plans.repayments[h]
           /\ \A h \in Seedable(plans, debts) :
                  Seeded(profile, plans, debts).repayments[h] = TermsOf(profile, h)
<1> DEFINE q     == Seeded(profile, plans, debts)
           S     == Seedable(plans, debts)
           seeds == [h \in S |-> TermsOf(profile, h)]
<1>1. /\ DOMAIN q = PlansFields
      /\ q.repayments = Over(plans.repayments, seeds)
      /\ q.snapshots = Over(plans.snapshots, seeds)
      /\ \A f \in {"timing", "named", "events", "rent", "rentSnapshot"} : q[f] = plans[f]
  BY DEF Seeded, PlansFields
<1>2. DOMAIN c = {"debts", "rent"} /\ c.rent = copied.rent /\ c.debts = copied.debts \cup S
  BY DEF Stands
<1>3. DOMAIN seeds = S /\ \A h \in S : seeds[h] = TermsOf(profile, h)
  OBVIOUS
<1> HIDE DEF q, S, seeds
<1>4. /\ DOMAIN q.repayments = DOMAIN plans.repayments \cup S
      /\ DOMAIN q.snapshots = DOMAIN plans.snapshots \cup S
      /\ \A h \in S : q.repayments[h] = TermsOf(profile, h) /\ q.snapshots[h] = TermsOf(profile, h)
      /\ \A h \in DOMAIN plans.repayments \ S : q.repayments[h] = plans.repayments[h]
      /\ \A h \in DOMAIN plans.snapshots \ S : q.snapshots[h] = plans.snapshots[h]
  BY <1>1, <1>3 DEF Over
<1>5. ASSUME NEW h \in c.debts \cap DOMAIN q.repayments
      PROVE  h \in DOMAIN q.snapshots /\ q.repayments[h] = q.snapshots[h]
  <2>1. CASE h \in S
    BY <1>4, <2>1
  <2>2. CASE h \notin S
    <3>1. h \in copied.debts \cap DOMAIN plans.repayments
      BY <1>2, <1>4, <1>5, <2>2
    <3>2. h \in DOMAIN plans.snapshots /\ plans.repayments[h] = plans.snapshots[h]
      BY <3>1 DEF Stands
    <3> QED BY <1>4, <2>2, <3>1, <3>2
  <2> QED BY <2>1, <2>2
<1>6. c.rent => q.rentSnapshot # None /\ q.rent = q.rentSnapshot
  BY <1>1, <1>2 DEF Stands
<1>7. Stands(q, c)
  BY <1>2, <1>5, <1>6 DEF Stands
<1> QED BY <1>1, <1>4, <1>7 DEF q, S

\* Pruning what the facts no longer have keeps the copies of what they have.
LEMMA ReconciledStands ==
    ASSUME Stands(plans, copied), PlansCohere(plans)
    PROVE  Stands(Reconciled(profile, plans), copied) /\ PlansCohere(Reconciled(profile, plans))
<1> DEFINE q == Reconciled(profile, plans)
<1>1. /\ DOMAIN q = PlansFields
      /\ q.repayments = KeepingDebts(plans.repayments, profile)
      /\ q.snapshots = KeepingDebts(plans.snapshots, profile)
      /\ q.named = [c \in DOMAIN plans.named |-> plans.named[c] \cap Resolvable(profile)[c]]
      /\ q.events \subseteq plans.events
      /\ q.rent = plans.rent /\ q.rentSnapshot = plans.rentSnapshot
  BY DEF Reconciled, PlansFields, PlansCohere
<1> HIDE DEF q
<1>2. /\ DOMAIN q.repayments = DOMAIN plans.repayments \cap Debts(profile)
      /\ DOMAIN q.snapshots = DOMAIN plans.snapshots \cap Debts(profile)
      /\ \A h \in DOMAIN q.repayments : q.repayments[h] = plans.repayments[h]
      /\ \A h \in DOMAIN q.snapshots : q.snapshots[h] = plans.snapshots[h]
  BY <1>1 DEF KeepingDebts, Restrict
<1>3. Stands(q, copied)
  BY <1>1, <1>2 DEF Stands
<1>4. "contributions" \in DOMAIN q.named /\ q.named.contributions \subseteq plans.named.contributions
  BY <1>1 DEF PlansCohere
<1>5. PlansCohere(q)
  BY <1>1, <1>2, <1>4 DEF PlansCohere
<1> QED BY <1>3, <1>5 DEF q

\* A reset copies the contract where it is complete, and drops the plan where it is not.
LEMMA ResetStands ==
    ASSUME Stands(plans, copied), PlansCohere(plans), NEW h,
           NEW c, c = [copied EXCEPT !.debts = Listed(@, h, Complete(TermsOf(profile, h)))]
    PROVE  /\ Stands(ResetLoanTerms(profile, plans, h), c)
           /\ PlansCohere(ResetLoanTerms(profile, plans, h))
<1> DEFINE q    == ResetLoanTerms(profile, plans, h)
           term == TermsOf(profile, h)
<1>1. /\ DOMAIN q = PlansFields
      /\ q.repayments = IF Complete(term) THEN Put(plans.repayments, h, term)
                                          ELSE Drop(plans.repayments, {h})
      /\ q.snapshots = Put(plans.snapshots, h, term)
      /\ \A f \in {"timing", "named", "events", "rent", "rentSnapshot"} : q[f] = plans[f]
  BY DEF ResetLoanTerms, PlansFields, PlansCohere
<1>2. /\ DOMAIN c = {"debts", "rent"} /\ c.rent = copied.rent
      /\ c.debts = IF Complete(term) THEN copied.debts \cup {h} ELSE copied.debts \ {h}
  BY DEF Stands, Listed
<1> HIDE DEF q, term
<1>3. /\ h \in DOMAIN q.snapshots /\ q.snapshots[h] = term
      /\ \A x \in DOMAIN plans.snapshots : x # h => x \in DOMAIN q.snapshots /\ q.snapshots[x] = plans.snapshots[x]
  BY <1>1 DEF Put, Over
<1>4. /\ \A x \in DOMAIN q.repayments : x # h => x \in DOMAIN plans.repayments /\ q.repayments[x] = plans.repayments[x]
      /\ h \in DOMAIN q.repayments => Complete(term) /\ q.repayments[h] = term
  <2>1. CASE Complete(term)
    BY <1>1, <2>1 DEF Put, Over
  <2>2. CASE ~Complete(term)
    BY <1>1, <2>2 DEF Drop, Restrict
  <2> QED BY <2>1, <2>2
<1>5. \A x \in c.debts \cap DOMAIN q.repayments :
         x \in DOMAIN q.snapshots /\ q.repayments[x] = q.snapshots[x]
  BY <1>2, <1>3, <1>4 DEF Stands
<1>6. Stands(q, c)
  BY <1>1, <1>2, <1>5 DEF Stands
<1>7. PlansCohere(q)
  BY <1>1, <1>4 DEF PlansCohere
<1> QED BY <1>6, <1>7 DEF q

\* What is kept against a contract that moved is no copy any more.
LEMMA KeepStands ==
    ASSUME Stands(plans, copied), PlansCohere(plans), NEW h,
           NEW c, c = [copied EXCEPT !.debts = IF Shown(h) = TermsOf(profile, h) THEN @ ELSE @ \ {h}]
    PROVE  /\ Stands(KeepLoanTerms(profile, plans, h), c)
           /\ PlansCohere(KeepLoanTerms(profile, plans, h))
<1> DEFINE q    == KeepLoanTerms(profile, plans, h)
           term == TermsOf(profile, h)
<1>1. /\ DOMAIN q = PlansFields
      /\ q.snapshots = Put(plans.snapshots, h, term)
      /\ \A f \in {"timing", "named", "repayments", "events", "rent", "rentSnapshot"} : q[f] = plans[f]
  BY DEF KeepLoanTerms, PlansFields, PlansCohere
<1>2. /\ DOMAIN c = {"debts", "rent"} /\ c.rent = copied.rent
      /\ c.debts = IF Shown(h) = term THEN copied.debts ELSE copied.debts \ {h}
  BY DEF Stands
<1> HIDE DEF q, term
<1>3. /\ h \in DOMAIN q.snapshots /\ q.snapshots[h] = term
      /\ \A x \in DOMAIN plans.snapshots : x # h => x \in DOMAIN q.snapshots /\ q.snapshots[x] = plans.snapshots[x]
  BY <1>1 DEF Put, Over
<1>4. \A x \in c.debts \cap DOMAIN q.repayments :
         x \in DOMAIN q.snapshots /\ q.repayments[x] = q.snapshots[x]
  BY <1>1, <1>2, <1>3 DEF Stands, Shown
<1>5. Stands(q, c)
  BY <1>1, <1>2, <1>4 DEF Stands
<1>6. PlansCohere(q)
  BY <1>1 DEF PlansCohere
<1> QED BY <1>5, <1>6 DEF q
-----------------------------------------------------------------------------
(* What a handle says of the fact it names.                                  *)

LEMMA KindsAndClasses ==
    ASSUME NEW k \in DOMAIN ClassesOf, NEW c \in ClassesOf[k]
    PROVE  /\ k \in {"taxable", "pretax", "roth", "residence", "property", "vehicle"}
           /\ k = "taxable" <=> c \in Liquid
           /\ k = "pretax" <=> c = "PRETAX"
           /\ k = "roth" <=> c = "ROTH"
           /\ k \in {"residence", "property"} <=> c \in RealEstate
           /\ k = "property" <=> c \in {"RENTAL", "SECOND_HOME"}
           /\ k = "vehicle" <=> c = "VEHICLE"
<1>1. DOMAIN ClassesOf = {"taxable", "pretax", "roth", "residence", "property", "vehicle"}
  BY DEF ClassesOf
<1>2. /\ ClassesOf["taxable"] = Liquid /\ ClassesOf["pretax"] = {"PRETAX"}
      /\ ClassesOf["roth"] = {"ROTH"} /\ ClassesOf["residence"] = {"RESIDENCE"}
      /\ ClassesOf["property"] = {"RENTAL", "SECOND_HOME"} /\ ClassesOf["vehicle"] = {"VEHICLE"}
  BY DEF ClassesOf
<1> QED BY <1>1, <1>2 DEF Liquid, RealEstate

LEMMA Holding ==
    ASSUME NEW p, FactsCohere(p), NEW classes, NEW h \in OfClass(p, classes)
    PROVE  \E a \in p.assets :
              /\ a.handle = h /\ a.class \in classes
              /\ h[1] \in DOMAIN ClassesOf /\ a.class \in ClassesOf[h[1]]
              /\ a.class \in Liquid \cup Retirement => h # None
<1>1. PICK a \in p.assets : a.handle = h /\ a.class \in classes
  BY DEF OfClass, HandlesOf
<1>2. a.handle[1] \in DOMAIN ClassesOf /\ a.class \in ClassesOf[a.handle[1]]
  BY DEF FactsCohere, AssetCoheres
<1>3. a.class \in Liquid \cup Retirement => a.handle \in HandlesOf(SyncedAccounts({Primary, Partner}))
  BY DEF FactsCohere, AssetCoheres
<1>4. a.class \in Liquid \cup Retirement => h # None
  BY <1>1, <1>3, HouseholdAssumption
<1> QED BY <1>1, <1>2, <1>4

LEMMA TermsOfDebt ==
    ASSUME NEW p, FactsCohere(p), NEW d \in p.debts
    PROVE  TermsOf(p, d.handle) = d.terms
<1>1. d.handle \in Debts(p)
  BY DEF Debts, HandlesOf
<1>2. \A e \in p.debts : e.handle = d.handle => e = d
  BY DEF FactsCohere
<1>3. (CHOOSE e \in p.debts : e.handle = d.handle) = d
  BY <1>2
<1> QED BY <1>1, <1>3 DEF TermsOf

\* An event the editor offers is of a kind that its choices fit.
LEMMA OffersCohere ==
    ASSUME FactsCohere(profile), NEW e \in Offerable(profile), e.at # e.to
    PROVE  EventCoheres(e)
<1>1. CASE e \in [kind : {"TRANSFER"}, at : OfClass(profile, Liquid \cup {"ROTH"}), to : OfClass(profile, Liquid)]
  <2>1. e.kind = "TRANSFER" /\ e.at \in OfClass(profile, Liquid \cup {"ROTH"}) /\ e.to \in OfClass(profile, Liquid)
    BY <1>1
  <2>2. e.at # None /\ e.at[1] \in {"taxable", "roth"}
    BY <2>1, Holding, KindsAndClasses DEF Retirement
  <2>3. e.to # None /\ e.to[1] = "taxable"
    BY <2>1, Holding, KindsAndClasses
  <2> QED BY <2>1, <2>2, <2>3 DEF EventCoheres, Names
<1>2. CASE e \in [kind : {"SELL_PROPERTY"}, at : OfClass(profile, RealEstate), to : {None}]
  <2>1. e.kind = "SELL_PROPERTY" /\ e.at \in OfClass(profile, RealEstate) /\ e.to = None
    BY <1>2
  <2>2. e.at[1] \in {"residence", "property"}
    BY <2>1, Holding, KindsAndClasses
  <2> QED BY <2>1, <2>2 DEF EventCoheres, Names
<1>3. CASE e \in [kind : {"TAXABLE_RECEIPT"}, at : profile.subjects, to : {None}]
  <2>1. e.kind = "TAXABLE_RECEIPT" /\ e.at \in {Primary, Partner} /\ e.to = None
    BY <1>3 DEF FactsCohere
  <2>2. e.at[1] = "subject"
    BY <2>1 DEF Primary, Partner
  <2> QED BY <2>1, <2>2 DEF EventCoheres, Names
<1> QED BY <1>1, <1>2, <1>3 DEF Offerable
-----------------------------------------------------------------------------
(* A form of the plans.                                                      *)

PlansKept == PlansCohere(plans') /\ Stands(plans', copied')

\* A change of the other fields: the copies stay, and so does what coheres with them.
LEMMA OtherFields ==
    ASSUME IInv, copied' = copied, DOMAIN plans' = PlansFields,
           \A f \in {"repayments", "snapshots", "rent", "rentSnapshot"} : plans'[f] = plans[f],
           "contributions" \in DOMAIN plans'.named,
           \A h \in plans'.named.contributions : h[1] \in {"pretax", "roth"},
           \A e \in plans'.events : EventCoheres(e)
    PROVE  PlansKept
<1>1. PlansCohere(plans')
  BY DEF IInv, PlansCohere
<1>2. Stands(plans', copied')
  BY DEF IInv, Stands
<1> QED BY <1>1, <1>2 DEF PlansKept

LEMMA RetirementKept ==
    ASSUME IInv, NEW claiming, PlanRetirement(claiming)
    PROVE  PlansKept
<1>1. copied' = copied /\ plans' = [plans EXCEPT !.timing = [s \in profile.subjects |-> s \in claiming]]
  BY DEF PlanRetirement, SavePlans
<1>2. /\ DOMAIN plans' = PlansFields
      /\ \A f \in {"named", "events", "repayments", "snapshots", "rent", "rentSnapshot"} : plans'[f] = plans[f]
  BY <1>1 DEF IInv, PlansCohere, PlansFields
<1> QED BY <1>1, <1>2, OtherFields DEF IInv, PlansCohere

LEMMA TableKept ==
    ASSUME IInv, NEW c \in DOMAIN Offered(profile), NEW h, NEW on, PlanTable(c, h, on)
    PROVE  PlansKept
<1> DEFINE N == [plans.named EXCEPT ![c] = Listed(@, h, on)]
<1>1. copied' = copied /\ plans' = [plans EXCEPT !.named = N]
  BY DEF PlanTable, SavePlans
<1>2. on => h \in Offered(profile)[c]
  BY DEF PlanTable
<1>3. /\ DOMAIN N = DOMAIN plans.named
      /\ \A x \in DOMAIN plans.named : N[x] = IF x = c THEN Listed(plans.named[c], h, on) ELSE plans.named[x]
  OBVIOUS
<1> HIDE DEF N
<1>4. /\ DOMAIN plans' = PlansFields /\ plans'.named = N
      /\ \A f \in {"events", "repayments", "snapshots", "rent", "rentSnapshot"} : plans'[f] = plans[f]
  BY <1>1 DEF IInv, PlansCohere, PlansFields
<1>5. Offered(profile).contributions = OfClass(profile, Retirement)
  BY DEF Offered
<1>6. ASSUME NEW x \in N.contributions
      PROVE  x[1] \in {"pretax", "roth"}
  <2>1. CASE x \in plans.named.contributions
    BY <2>1 DEF IInv, PlansCohere
  <2>2. CASE x \notin plans.named.contributions
    <3>1. c = "contributions" /\ x = h /\ on
      BY <1>3, <1>6, <2>2 DEF IInv, PlansCohere, Listed
    <3>2. x \in OfClass(profile, Retirement)
      BY <1>2, <1>5, <3>1
    <3> QED BY <3>2, Holding, KindsAndClasses DEF IInv, Retirement
  <2> QED BY <2>1, <2>2
<1> QED BY <1>1, <1>3, <1>4, <1>6, OtherFields DEF IInv, PlansCohere

\* The other categories of named items.
LEMMA NamedElsewhere ==
    ASSUME NEW n, NEW c, c # "contributions", NEW S, "contributions" \in DOMAIN n
    PROVE  /\ "contributions" \in DOMAIN [n EXCEPT ![c] = S]
           /\ [n EXCEPT ![c] = S].contributions = n.contributions
OBVIOUS

LEMMA CardKept ==
    ASSUME IInv, NEW h, NEW paid, NEW lump, PlanCard(h, paid, lump)
    PROVE  PlansKept
<1> DEFINE N == [plans.named EXCEPT !.cards = Listed(@, h, paid)]
           E == (plans.events \ Payoffs(plans, "CARD_PAYOFF", {h}))
                    \cup {e \in {Payoff("CARD_PAYOFF", h)} : paid /\ lump}
<1>1. copied' = copied /\ plans' = [plans EXCEPT !.named = N, !.events = E]
  BY DEF PlanCard, SavePlans
<1>2. "contributions" \in DOMAIN N /\ N.contributions = plans.named.contributions
  BY NamedElsewhere DEF IInv, PlansCohere
<1>3. \A e \in E : EventCoheres(e)
  BY DEF IInv, PlansCohere, Payoff, EventCoheres
<1> HIDE DEF N, E
<1>4. /\ DOMAIN plans' = PlansFields /\ plans'.named = N /\ plans'.events = E
      /\ \A f \in {"repayments", "snapshots", "rent", "rentSnapshot"} : plans'[f] = plans[f]
  BY <1>1 DEF IInv, PlansCohere, PlansFields
<1> QED BY <1>1, <1>2, <1>3, <1>4, OtherFields DEF IInv, PlansCohere

LEMMA AddEventKept ==
    ASSUME IInv, NEW e \in Offerable(profile), AddEvent(e)
    PROVE  PlansKept
<1>1. copied' = copied /\ plans' = [plans EXCEPT !.events = @ \cup {e}] /\ e.at # e.to
  BY DEF AddEvent, SavePlans
<1>2. EventCoheres(e)
  BY <1>1, OffersCohere DEF IInv
<1>3. /\ DOMAIN plans' = PlansFields /\ plans'.events = plans.events \cup {e}
      /\ \A f \in {"named", "repayments", "snapshots", "rent", "rentSnapshot"} : plans'[f] = plans[f]
  BY <1>1 DEF IInv, PlansCohere, PlansFields
<1> QED BY <1>1, <1>2, <1>3, OtherFields DEF IInv, PlansCohere

LEMMA RemoveEventKept ==
    ASSUME IInv, NEW e, NEW monthly, RemoveEvent(e, monthly)
    PROVE  PlansKept
<1> DEFINE N == [plans.named EXCEPT !.cards = IF e.kind = "CARD_PAYOFF" /\ ~monthly THEN @ \ {e.at} ELSE @]
<1>1. copied' = copied /\ plans' = [plans EXCEPT !.events = @ \ {e}, !.named = N]
  BY DEF RemoveEvent, SavePlans
<1>2. "contributions" \in DOMAIN N /\ N.contributions = plans.named.contributions
  BY NamedElsewhere DEF IInv, PlansCohere
<1> HIDE DEF N
<1>3. /\ DOMAIN plans' = PlansFields /\ plans'.named = N /\ plans'.events = plans.events \ {e}
      /\ \A f \in {"repayments", "snapshots", "rent", "rentSnapshot"} : plans'[f] = plans[f]
  BY <1>1 DEF IInv, PlansCohere, PlansFields
<1> QED BY <1>1, <1>2, <1>3, OtherFields DEF IInv, PlansCohere

\* Repayments saved together with other fields of the plans.
LEMMA RepayingKept ==
    ASSUME IInv, NEW posted, NEW N, NEW E,
           plans' = [Repaying(plans, posted) EXCEPT !.named = N, !.events = E],
           copied' = CopiedWhen(posted),
           "contributions" \in DOMAIN N, N.contributions = plans.named.contributions,
           \A e \in E : EventCoheres(e)
    PROVE  PlansKept
<1> DEFINE q == Repaying(plans, posted)
<1>1. /\ Stands(q, copied')
      /\ \A h \in DOMAIN q.repayments : Complete(q.repayments[h])
      /\ DOMAIN q = PlansFields
  BY RepayingStands DEF IInv
<1> HIDE DEF q
<1>2. /\ DOMAIN plans' = PlansFields /\ plans'.named = N /\ plans'.events = E
      /\ \A f \in {"repayments", "snapshots", "rent", "rentSnapshot"} : plans'[f] = q[f]
  <2>1. plans' = [q EXCEPT !.named = N, !.events = E]
    BY DEF q
  <2> QED BY <1>1, <2>1 DEF PlansFields
<1>3. Stands(plans', copied')
  BY <1>1, <1>2 DEF Stands
<1>4. PlansCohere(plans')
  BY <1>1, <1>2 DEF IInv, PlansCohere
<1> QED BY <1>3, <1>4 DEF PlansKept

LEMMA DebtsKept ==
    ASSUME IInv, NEW h, NEW terms, NEW extra, NEW payoff, PlanDebts(h, terms, extra, payoff)
    PROVE  PlansKept
<1> DEFINE posted  == [d \in DebtPlanDebts |-> IF d = h THEN terms ELSE Shown(d)]
           planned == {d \in DebtPlanDebts : Complete(posted[d])}
           extras  == IF extra THEN {h} ELSE {}
           old     == Payoffs(plans, "LOAN_PAYOFF", DebtPlanDebts)
           kept    == {e \in old : e.at \in planned \ {h}}
           payoffs == kept \cup (IF payoff /\ h \in planned THEN {Payoff("LOAN_PAYOFF", h)} ELSE {})
           N       == [plans.named EXCEPT !.prepayments =
                          (@ \ DebtPlanDebts) \cup (planned \cap ((@ \ {h}) \cup extras))]
           E       == (plans.events \ old) \cup payoffs
<1>1. Repaying(plans, posted).named = plans.named /\ Repaying(plans, posted).events = plans.events
      /\ DOMAIN Repaying(plans, posted) = PlansFields
  BY RepayingStands DEF IInv
<1>2. copied' = CopiedWhen(posted) /\ plans' = [Repaying(plans, posted) EXCEPT !.named = N, !.events = E]
  <2>1. /\ copied' = CopiedWhen(posted)
        /\ plans' = [Repaying(plans, posted) EXCEPT
                !.named.prepayments = (@ \ DebtPlanDebts) \cup
                                      (planned \cap ((@ \ {h}) \cup extras)),
                !.events = (@ \ old) \cup payoffs]
    BY DEF PlanDebts, SavePlans
  <2> HIDE DEF posted, planned, extras, old, payoffs
  <2> QED BY <1>1, <2>1
<1>3. "contributions" \in DOMAIN N /\ N.contributions = plans.named.contributions
  BY NamedElsewhere DEF IInv, PlansCohere
<1>4. \A e \in kept : e \in plans.events
  BY DEF Payoffs
<1>5. EventCoheres(Payoff("LOAN_PAYOFF", h))
  BY DEF Payoff, EventCoheres
<1> HIDE DEF kept, old, planned, posted
<1>6. \A e \in E : EventCoheres(e)
  BY <1>4, <1>5 DEF IInv, PlansCohere
<1> HIDE DEF N, E
<1> QED BY <1>2, <1>3, <1>6, RepayingKept

LEMMA VehicleKept ==
    ASSUME IInv, NEW h, NEW disposed, NEW terms, PlanVehicle(h, disposed, terms)
    PROVE  PlansKept
<1> DEFINE posted == [d \in AutoDebts \cap {LoanOn(h)} |-> terms]
           N      == [plans.named EXCEPT !.dispositions = Listed(@, h, disposed)]
           E      == plans.events
<1>1. Repaying(plans, posted).named = plans.named /\ Repaying(plans, posted).events = plans.events
      /\ DOMAIN Repaying(plans, posted) = PlansFields
  BY RepayingStands DEF IInv
<1>2. copied' = CopiedWhen(posted) /\ plans' = [Repaying(plans, posted) EXCEPT !.named = N]
  <2>1. /\ copied' = CopiedWhen(posted)
        /\ plans' = [Repaying(plans, posted) EXCEPT !.named.dispositions = Listed(@, h, disposed)]
    BY DEF PlanVehicle, SavePlans
  <2> HIDE DEF posted
  <2> QED BY <1>1, <2>1
<1>3. "contributions" \in DOMAIN N /\ N.contributions = plans.named.contributions
  BY NamedElsewhere DEF IInv, PlansCohere
<1>4. \A e \in E : EventCoheres(e)
  BY DEF IInv, PlansCohere
<1> HIDE DEF N, posted
<1>5. [Repaying(plans, posted) EXCEPT !.named = N] = [Repaying(plans, posted) EXCEPT !.named = N, !.events = E]
  BY <1>1
<1> HIDE DEF E
<1> QED BY <1>2, <1>3, <1>4, <1>5, RepayingKept

LEMMA WalkLoansKept ==
    ASSUME IInv, NEW kinds, WalkLoans(kinds)
    PROVE  PlansKept
<1> DEFINE debts == {d \in profile.debts : d.kind \in kinds}
           S     == Seedable(plans, debts)
           q     == Seeded(profile, plans, debts)
<1>1. plans' = q /\ copied' = [copied EXCEPT !.debts = @ \cup S]
  BY DEF WalkLoans, SavePlans
<1>2. ASSUME NEW h \in S
      PROVE  Complete(TermsOf(profile, h))
  <2>1. PICK d \in debts : d.handle = h /\ Complete(d.terms)
    BY DEF Seedable, HandlesOf
  <2> QED BY <2>1, TermsOfDebt DEF IInv
<1> HIDE DEF debts
<1>3. /\ Stands(q, copied')
      /\ DOMAIN q = PlansFields
      /\ \A f \in {"timing", "named", "events", "rent", "rentSnapshot"} : q[f] = plans[f]
      /\ DOMAIN q.repayments = DOMAIN plans.repayments \cup S
      /\ \A h \in DOMAIN plans.repayments \ S : q.repayments[h] = plans.repayments[h]
      /\ \A h \in S : q.repayments[h] = TermsOf(profile, h)
  BY <1>1, SeededStands DEF IInv, PlansCohere
<1> HIDE DEF q, S
<1>4. \A h \in DOMAIN q.repayments : Complete(q.repayments[h])
  BY <1>2, <1>3 DEF IInv, PlansCohere
<1>5. PlansCohere(q)
  BY <1>3, <1>4 DEF IInv, PlansCohere
<1> QED BY <1>1, <1>3, <1>5 DEF PlansKept

\* The rows of Home Expenses: a rent that was copied is no blank, so the catalog leaves it.
LEMMA MergedRows ==
    ASSUME IInv
    PROVE  /\ DOMAIN Merged(profile, plans) = PlansFields
           /\ \A f \in {"timing", "events", "repayments", "snapshots", "rentSnapshot"} :
                 Merged(profile, plans)[f] = plans[f]
           /\ "contributions" \in DOMAIN Merged(profile, plans).named
           /\ Merged(profile, plans).named.contributions = plans.named.contributions
           /\ Merged(profile, plans).rent = IF plans.rent = None THEN CatalogRent ELSE plans.rent
           /\ copied.rent => Merged(profile, plans).rent = plans.rent
<1> DEFINE N == [plans.named EXCEPT !.overrides = (@ \cap PropertyHandles(profile)) \cup Rentals(profile)]
           q == Merged(profile, plans)
<1>1. q = [plans EXCEPT !.named = N, !.rent = IF @ = None THEN CatalogRent ELSE @]
  BY DEF Merged
<1>2. "contributions" \in DOMAIN N /\ N.contributions = plans.named.contributions
  BY NamedElsewhere DEF IInv, PlansCohere
<1> HIDE DEF N, q
<1>3. /\ DOMAIN q = PlansFields /\ q.named = N
      /\ q.rent = IF plans.rent = None THEN CatalogRent ELSE plans.rent
      /\ \A f \in {"timing", "events", "repayments", "snapshots", "rentSnapshot"} : q[f] = plans[f]
  BY <1>1 DEF IInv, PlansCohere, PlansFields
<1>4. copied.rent => q.rent = plans.rent
  BY <1>3 DEF IInv, Stands
<1> QED BY <1>2, <1>3, <1>4 DEF q

LEMMA RentKept ==
    ASSUME IInv, NEW q, DOMAIN q = PlansFields,
           \A f \in {"repayments", "snapshots", "events"} : q[f] = plans[f],
           "contributions" \in DOMAIN q.named, q.named.contributions = plans.named.contributions,
           plans' = q, DOMAIN copied' = {"debts", "rent"}, copied'.debts = copied.debts,
           copied'.rent => q.rentSnapshot # None /\ q.rent = q.rentSnapshot
    PROVE  PlansKept
<1>1. PlansCohere(q)
  BY DEF IInv, PlansCohere
<1>2. Stands(q, copied')
  BY DEF IInv, Stands
<1> QED BY <1>1, <1>2 DEF PlansKept

LEMMA WalkHomeExpensesKept ==
    ASSUME IInv, WalkHomeExpenses
    PROVE  PlansKept
<1> DEFINE rows == Merged(profile, plans)
           seeds == SeedsRent(profile, rows)
           q == IF seeds THEN SetHomeRent(rows, profile.rent) ELSE rows
<1>1. plans' = q /\ copied' = [copied EXCEPT !.rent = @ \/ seeds]
  BY DEF WalkHomeExpenses
<1>2. DOMAIN copied' = {"debts", "rent"} /\ copied'.debts = copied.debts /\ copied'.rent = (copied.rent \/ seeds)
  BY <1>1 DEF IInv, Stands
<1>3. CASE seeds
  <2>1. q = [rows EXCEPT !.rent = profile.rent, !.rentSnapshot = profile.rent]
    BY <1>3 DEF SetHomeRent
  <2> HIDE DEF rows, q
  <2>2. /\ DOMAIN q = PlansFields /\ q.named = rows.named
        /\ \A f \in {"events", "repayments", "snapshots"} : q[f] = rows[f]
        /\ q.rent = profile.rent /\ q.rentSnapshot = profile.rent
    BY <2>1, MergedRows DEF rows, PlansFields
  <2>3. profile.rent # None
    BY <1>3 DEF SeedsRent
  <2>4. /\ \A f \in {"events", "repayments", "snapshots"} : q[f] = plans[f]
        /\ "contributions" \in DOMAIN q.named /\ q.named.contributions = plans.named.contributions
    BY <2>2, MergedRows DEF rows
  <2> QED BY <1>1, <1>2, <2>2, <2>3, <2>4, RentKept
<1>4. CASE ~seeds
  <2>1. q = rows /\ (copied'.rent => copied.rent)
    BY <1>2, <1>4
  <2> HIDE DEF q
  <2>2. copied'.rent => q.rentSnapshot # None /\ q.rent = q.rentSnapshot
    BY <2>1, MergedRows DEF IInv, Stands
  <2>3. /\ \A f \in {"events", "repayments", "snapshots"} : q[f] = plans[f]
        /\ "contributions" \in DOMAIN q.named /\ q.named.contributions = plans.named.contributions
        /\ DOMAIN q = PlansFields
    BY <2>1, MergedRows
  <2> QED BY <1>1, <1>2, <2>2, <2>3, RentKept
<1> QED BY <1>3, <1>4

LEMMA EditHomeExpensesKept ==
    ASSUME IInv, NEW rent, NEW overridden, EditHomeExpenses(rent, overridden)
    PROVE  PlansKept
<1> DEFINE rows == Merged(profile, plans)
           typed == Renting(profile) /\ rent # plans.rent
           S == IF Cardinality(PropertyHandles(profile)) > 1 THEN overridden ELSE {}
           N == [rows.named EXCEPT !.overrides = S]
           q == [rows EXCEPT !.rent = IF typed THEN rent ELSE @, !.named = N]
<1>1. plans' = q /\ copied' = [copied EXCEPT !.rent = @ /\ ~typed]
  BY DEF EditHomeExpenses, SavePlans
<1>2. DOMAIN copied' = {"debts", "rent"} /\ copied'.debts = copied.debts /\ copied'.rent = (copied.rent /\ ~typed)
  BY <1>1 DEF IInv, Stands
<1>3. "contributions" \in DOMAIN N /\ N.contributions = rows.named.contributions
  BY NamedElsewhere, MergedRows
<1> HIDE DEF rows, N, typed
<1>4. /\ DOMAIN q = PlansFields /\ q.named = N
      /\ \A f \in {"events", "repayments", "snapshots", "rentSnapshot"} : q[f] = rows[f]
      /\ q.rent = IF typed THEN rent ELSE rows.rent
  BY MergedRows DEF rows, PlansFields
<1> HIDE DEF q
<1>5. /\ \A f \in {"events", "repayments", "snapshots", "rentSnapshot"} : q[f] = plans[f]
      /\ q.named.contributions = plans.named.contributions
  BY <1>3, <1>4, MergedRows DEF rows
<1>6. copied'.rent => q.rentSnapshot # None /\ q.rent = q.rentSnapshot
  BY <1>2, <1>4, <1>5, MergedRows DEF rows, IInv, Stands
<1> QED BY <1>1, <1>2, <1>3, <1>4, <1>5, <1>6, RentKept

LEMMA EditPlansKept ==
    ASSUME IInv, EditPlans
    PROVE  PlansKept /\ profile' = profile /\ edits' = edits + 1
<1>1. PlansKept
  BY RetirementKept, DebtsKept, VehicleKept, TableKept, CardKept, AddEventKept, RemoveEventKept,
     WalkLoansKept, WalkHomeExpensesKept, EditHomeExpensesKept DEF EditPlans
<1>2. profile' = profile /\ edits' = edits + 1
  <2>2. CASE \E claiming \in SUBSET profile.subjects : PlanRetirement(claiming)
    BY <2>2 DEF PlanRetirement, SavePlans, Edit
  <2>3. CASE \E h \in DebtPlanDebts, terms \in Contracts, extra, payoff \in BOOLEAN :
                PlanDebts(h, terms, extra, payoff)
    <3>1. PICK h \in DebtPlanDebts, terms \in Contracts, extra \in BOOLEAN, payoff \in BOOLEAN :
                PlanDebts(h, terms, extra, payoff)
      BY <2>3
    <3> QED BY <3>1 DEF PlanDebts, SavePlans, Edit
  <2>4. CASE \E h \in OwnedVehicles(profile), disposed \in BOOLEAN, terms \in Contracts :
                PlanVehicle(h, disposed, terms)
    BY <2>4 DEF PlanVehicle, SavePlans, Edit
  <2>5. CASE \E c \in DOMAIN Offered(profile) :
                \E h \in Offered(profile)[c] \cup plans.named[c], on \in BOOLEAN : PlanTable(c, h, on)
    BY <2>5 DEF PlanTable, SavePlans, Edit
  <2>6. CASE \E h \in Cards, paid, lump \in BOOLEAN : PlanCard(h, paid, lump)
    BY <2>6 DEF PlanCard, SavePlans, Edit
  <2>7. CASE \/ \E e \in Offerable(profile) : AddEvent(e)
             \/ \E e \in plans.events, monthly \in BOOLEAN : RemoveEvent(e, monthly)
    BY <2>7 DEF AddEvent, RemoveEvent, SavePlans, Edit
  <2>8. CASE WalkLoans({"MORTGAGE", "LOAN"}) \/ WalkLoans({"AUTO"})
    BY <2>8 DEF WalkLoans, SavePlans, Edit
  <2>9. CASE WalkHomeExpenses
    BY <2>9 DEF WalkHomeExpenses, Edit
  <2>10. CASE \E rent \in Rents, overridden \in SUBSET PropertyHandles(profile) :
                EditHomeExpenses(rent, overridden)
    BY <2>10 DEF EditHomeExpenses, SavePlans, Edit
  <2> QED BY <2>2, <2>3, <2>4, <2>5, <2>6, <2>7, <2>8, <2>9, <2>10 DEF EditPlans
<1> QED BY <1>1, <1>2 DEF IInv
-----------------------------------------------------------------------------
(* A form of the facts.                                                      *)

LEMMA NumberedKind ==
    ASSUME NEW kind, NEW taken, NEW h \in Numbered(kind, taken)
    PROVE  h[1] = kind
<1>1. Minted(kind, taken)[1] = kind
  BY DEF Minted
<1> HIDE DEF Minted
<1> QED BY <1>1 DEF Numbered

\* Saving a holding under its handle touches no other holding.
LEMMA OtherHoldings ==
    ASSUME NEW p, NEW r, NEW h, NEW A, r.assets = Without(p.assets, h) \cup A,
           NEW x, x # h
    PROVE  /\ x \in Rentals(p) => x \in Rentals(r)
           /\ x \in OwnedVehicles(p) => x \in OwnedVehicles(r)
BY DEF Rentals, OwnedVehicles, OfClass, HandlesOf, Without

\* Rentals and vehicles are told by their handles.
LEMMA HandlesTell ==
    ASSUME NEW p, FactsCohere(p), NEW h
    PROVE  /\ h \in Rentals(p) => h[1] = "property"
           /\ h \in OwnedVehicles(p) => h[1] = "vehicle"
BY Holding, KindsAndClasses DEF Rentals, OwnedVehicles

\* Saving a debt under its handle keeps the others, as long as the vehicles they are
\* secured by stay.
SavesDebt(p, r, g, D) ==
    /\ r.debts = Without(p.debts, g) \cup D
    /\ \A d \in D : d.handle = g /\ DebtCoheres(r, d)
    /\ \A d, e \in D : d = e
    /\ \A d \in p.debts : d.handle # g /\ d.kind = "AUTO" => d.secured \in OwnedVehicles(r)

DebtsCohere(r) ==
    /\ \A d \in r.debts : DebtCoheres(r, d)
    /\ \A d, e \in r.debts : d.handle = e.handle => d = e

LEMMA DebtSaved ==
    ASSUME NEW p, FactsCohere(p), NEW r, NEW g, NEW D, SavesDebt(p, r, g, D)
    PROVE  DebtsCohere(r)
<1>1. ASSUME NEW d \in r.debts
      PROVE  DebtCoheres(r, d)
  BY DEF Without, FactsCohere, DebtCoheres, SavesDebt
<1>2. ASSUME NEW d \in r.debts, NEW e \in r.debts, d.handle = e.handle
      PROVE  d = e
  BY <1>2 DEF Without, FactsCohere, SavesDebt
<1> QED BY <1>1, <1>2 DEF DebtsCohere

LEMMA SecuredDebt ==
    ASSUME NEW h, NEW kind, NEW loan
    PROVE  /\ \A d \in SecuredBy(h, kind, loan) :
                 d.handle = LoanOn(h) /\ d.handle[1] = "loan" /\ d.kind = kind /\ d.secured = h
           /\ \A d, e \in SecuredBy(h, kind, loan) : d = e
BY DEF SecuredBy, Owed, LoanOn

\* A form that saves the holding h as A and the debt g as D: what named h before finds it,
\* or goes with it.
SavesForm(h, A, g, D) ==
    /\ DOMAIN profile' = ProfileFields
    /\ profile'.subjects = profile.subjects
    /\ profile'.pensions = profile.pensions
    /\ profile'.entitled = profile.entitled
    /\ profile'.assets = Without(profile.assets, h) \cup A
    /\ profile'.debts = Without(profile.debts, g) \cup D
    /\ profile'.flows \subseteq profile.flows
    /\ \A a \in A : AssetCoheres(a)
    /\ \A d \in D : d.handle = g /\ DebtCoheres(profile', d)
    /\ \A d, e \in D : d = e
    /\ h \in OwnedVehicles(profile) => h \in OwnedVehicles(profile') \/ g = LoanOn(h)
    /\ h \in Rentals(profile) =>
           h \in Rentals(profile') \/ \A f \in profile'.flows : f.property # h

LEMMA FormCoheres ==
    ASSUME IInv, NEW h, NEW A, NEW g, NEW D, SavesForm(h, A, g, D)
    PROVE  FactsCohere(profile')
<1>1. ASSUME NEW x, x # h
      PROVE  /\ x \in Rentals(profile) => x \in Rentals(profile')
             /\ x \in OwnedVehicles(profile) => x \in OwnedVehicles(profile')
  BY <1>1, OtherHoldings DEF SavesForm
<1>2. \A a \in profile'.assets : AssetCoheres(a)
  BY DEF SavesForm, IInv, FactsCohere, Without
<1>3. ASSUME NEW d \in profile.debts, d.handle # g, d.kind = "AUTO"
      PROVE  d.secured \in OwnedVehicles(profile')
  <2>1. d.handle = LoanOn(d.secured) /\ d.secured \in OwnedVehicles(profile)
    BY <1>3 DEF IInv, FactsCohere, DebtCoheres
  <2>2. CASE d.secured = h
    BY <1>3, <2>1, <2>2 DEF SavesForm
  <2>3. CASE d.secured # h
    BY <1>1, <2>1, <2>3
  <2> QED BY <2>2, <2>3
<1>4. SavesDebt(profile, profile', g, D)
  BY <1>3 DEF SavesForm, SavesDebt
<1>5. DebtsCohere(profile')
  BY <1>4, DebtSaved DEF IInv
<1>6. ASSUME NEW f \in profile'.flows
      PROVE  FlowCoheres(profile', f)
  <2>1. f \in profile.flows /\ f.subject \in profile.subjects \cup {None}
        /\ f.property \in Rentals(profile) \cup {None}
    BY DEF SavesForm, IInv, FactsCohere, FlowCoheres
  <2>2. f.property \in Rentals(profile') \cup {None}
    BY <1>1, <2>1 DEF SavesForm
  <2> QED BY <2>1, <2>2 DEF SavesForm, FlowCoheres
<1> QED BY <1>2, <1>5, <1>6 DEF SavesForm, IInv, FactsCohere, DebtsCohere

LEMMA HomeCoheres ==
    ASSUME IInv, NEW tenure, NEW rent, NEW valued, NEW mortgage, SubmitHome(tenure, rent, valued, mortgage)
    PROVE  FactsCohere(profile')
<1> DEFINE A == IF tenure = "OWN" /\ valued THEN {Held(Residence, "RESIDENCE")} ELSE {}
           D == IF tenure = "OWN" THEN SecuredBy(Residence, "MORTGAGE", mortgage) ELSE {}
           lease == IF tenure = "RENT" THEN rent ELSE None
<1>1. profile' = [profile EXCEPT !.tenure = tenure, !.rent = lease,
                     !.assets = Without(@, Residence) \cup A, !.debts = Without(@, LoanOn(Residence)) \cup D]
  BY DEF SubmitHome, SaveProfile
<1>2. \A a \in A : AssetCoheres(a)
  BY DEF Held, Residence, AssetCoheres, ClassesOf, Liquid, Retirement
<1>3. /\ \A d \in D : d.handle = LoanOn(Residence) /\ DebtCoheres(profile', d)
      /\ \A d, e \in D : d = e
  BY SecuredDebt DEF DebtCoheres
<1> HIDE DEF A, D, lease
<1>4. /\ DOMAIN profile' = ProfileFields
      /\ profile'.assets = Without(profile.assets, Residence) \cup A
      /\ profile'.debts = Without(profile.debts, LoanOn(Residence)) \cup D
      /\ \A f \in {"subjects", "leased", "flows", "pensions", "entitled"} : profile'[f] = profile[f]
  BY <1>1 DEF IInv, FactsCohere, ProfileFields
<1>5. Residence \notin Rentals(profile) /\ Residence \notin OwnedVehicles(profile)
  <2>1. Residence[1] = "residence"
    BY DEF Residence
  <2> QED BY <2>1, HandlesTell DEF IInv
<1>6. SavesForm(Residence, A, LoanOn(Residence), D)
  BY <1>2, <1>3, <1>4, <1>5 DEF SavesForm
<1> QED BY <1>6, FormCoheres

LEMMA PropertyCoheres ==
    ASSUME IInv, NEW h \in Numbered("property", Accounts(profile)),
           NEW class \in {"RENTAL", "SECOND_HOME"}, NEW mortgage, SubmitProperty(h, class, mortgage)
    PROVE  FactsCohere(profile')
<1> DEFINE A == {Held(h, class)}
           D == SecuredBy(h, "MORTGAGE", mortgage)
           F == {f \in profile.flows : f.property = h => class = "RENTAL"}
<1>1. profile' = [profile EXCEPT !.assets = Without(@, h) \cup A,
                                 !.debts = Without(@, LoanOn(h)) \cup D, !.flows = F]
  BY DEF SubmitProperty, SaveProfile
<1>2. h[1] = "property"
  BY NumberedKind
<1>3. \A a \in A : a.handle = h /\ a.class = class /\ AssetCoheres(a)
  BY <1>2 DEF Held, AssetCoheres, ClassesOf, Liquid, Retirement
<1>4. /\ \A d \in D : d.handle = LoanOn(h) /\ DebtCoheres(profile', d)
      /\ \A d, e \in D : d = e
  BY SecuredDebt DEF DebtCoheres
<1>5. F \subseteq profile.flows /\ \A f \in F : f.property = h => class = "RENTAL"
  OBVIOUS
<1>6. Held(h, class) \in A
  OBVIOUS
<1> HIDE DEF A, D, F
<1>7. /\ DOMAIN profile' = ProfileFields /\ profile'.flows = F
      /\ profile'.assets = Without(profile.assets, h) \cup A
      /\ profile'.debts = Without(profile.debts, LoanOn(h)) \cup D
      /\ \A f \in {"subjects", "pensions", "entitled"} : profile'[f] = profile[f]
  BY <1>1 DEF IInv, FactsCohere, ProfileFields
<1>8. class = "RENTAL" => h \in Rentals(profile')
  BY <1>3, <1>6, <1>7 DEF Rentals, OfClass, HandlesOf
<1>9. h \notin OwnedVehicles(profile)
  BY <1>2, HandlesTell DEF IInv
<1>10. SavesForm(h, A, LoanOn(h), D)
  BY <1>3, <1>4, <1>5, <1>7, <1>8, <1>9 DEF SavesForm
<1> QED BY <1>10, FormCoheres

LEMMA OwnedVehicleCoheres ==
    ASSUME IInv, NEW h \in Numbered("vehicle", Accounts(profile) \cup profile.leased), NEW loan,
           SubmitOwnedVehicle(h, loan)
    PROVE  FactsCohere(profile')
<1> DEFINE A == {Held(h, "VEHICLE")}
           D == SecuredBy(h, "AUTO", loan)
<1>1. profile' = [profile EXCEPT !.assets = Without(@, h) \cup A,
                                 !.debts = Without(@, LoanOn(h)) \cup D, !.leased = @ \ {h}]
  BY DEF SubmitOwnedVehicle, SaveProfile
<1>2. h[1] = "vehicle"
  BY NumberedKind
<1>3. \A a \in A : a.handle = h /\ a.class = "VEHICLE" /\ AssetCoheres(a)
  BY <1>2 DEF Held, AssetCoheres, ClassesOf, Liquid, Retirement
<1>4. Held(h, "VEHICLE") \in A
  OBVIOUS
<1>5. /\ \A d \in D : d.handle = LoanOn(h) /\ d.handle[1] = "loan" /\ d.secured = h
      /\ \A d, e \in D : d = e
  BY SecuredDebt
<1> HIDE DEF A, D
<1>6. /\ DOMAIN profile' = ProfileFields
      /\ profile'.assets = Without(profile.assets, h) \cup A
      /\ profile'.debts = Without(profile.debts, LoanOn(h)) \cup D
      /\ \A f \in {"subjects", "flows", "pensions", "entitled"} : profile'[f] = profile[f]
  BY <1>1 DEF IInv, FactsCohere, ProfileFields
<1>7. h \in OwnedVehicles(profile')
  BY <1>3, <1>4, <1>6 DEF OwnedVehicles, OfClass, HandlesOf
<1>8. \A d \in D : DebtCoheres(profile', d)
  BY <1>5, <1>7 DEF DebtCoheres
<1>9. h \notin Rentals(profile)
  BY <1>2, HandlesTell DEF IInv
<1>10. SavesForm(h, A, LoanOn(h), D)
  BY <1>3, <1>5, <1>6, <1>7, <1>8, <1>9 DEF SavesForm
<1> QED BY <1>10, FormCoheres

LEMMA LeasedVehicleCoheres ==
    ASSUME IInv, NEW h \in Numbered("vehicle", Accounts(profile) \cup profile.leased),
           SubmitLeasedVehicle(h)
    PROVE  FactsCohere(profile')
<1>1. profile' = [profile EXCEPT !.leased = @ \cup {h}, !.assets = Without(@, h),
                                 !.debts = Without(@, LoanOn(h))]
  BY DEF SubmitLeasedVehicle, SaveProfile
<1>2. h \notin Rentals(profile)
  BY NumberedKind, HandlesTell DEF IInv
<1>3. /\ DOMAIN profile' = ProfileFields
      /\ profile'.assets = Without(profile.assets, h) \cup {}
      /\ profile'.debts = Without(profile.debts, LoanOn(h)) \cup {}
      /\ \A f \in {"subjects", "flows", "pensions", "entitled"} : profile'[f] = profile[f]
  BY <1>1 DEF IInv, FactsCohere, ProfileFields
<1>4. SavesForm(h, {}, LoanOn(h), {})
  BY <1>2, <1>3 DEF SavesForm
<1> QED BY <1>4, FormCoheres

LEMMA DeletedHoldingCoheres ==
    ASSUME IInv, NEW h, DeleteHolding(h)
    PROVE  FactsCohere(profile')
<1>1. /\ DOMAIN profile' = ProfileFields
      /\ profile'.assets = Without(profile.assets, h) \cup {}
      /\ profile'.flows = {f \in profile.flows : f.property # h}
      /\ profile'.debts = {d \in profile.debts : d.secured # h}
      /\ \A f \in {"subjects", "pensions", "entitled"} : profile'[f] = profile[f]
  BY DEF DeleteHolding, SaveProfile, IInv, FactsCohere, ProfileFields
<1>2. ASSUME NEW x, x # h
      PROVE  /\ x \in Rentals(profile) => x \in Rentals(profile')
             /\ x \in OwnedVehicles(profile) => x \in OwnedVehicles(profile')
  BY <1>1, <1>2, OtherHoldings
<1>3. \A a \in profile'.assets : AssetCoheres(a)
  BY <1>1 DEF IInv, FactsCohere, Without
<1>4. ASSUME NEW d \in profile'.debts
      PROVE  DebtCoheres(profile', d)
  <2>1. d \in profile.debts /\ d.secured # h /\ DebtCoheres(profile, d)
    BY <1>1 DEF IInv, FactsCohere
  <2> QED BY <1>2, <2>1 DEF DebtCoheres
<1>5. ASSUME NEW f \in profile'.flows
      PROVE  FlowCoheres(profile', f)
  <2>1. f \in profile.flows /\ f.property # h /\ FlowCoheres(profile, f)
    BY <1>1 DEF IInv, FactsCohere
  <2> QED BY <1>1, <1>2, <2>1 DEF FlowCoheres
<1> QED BY <1>1, <1>3, <1>4, <1>5 DEF IInv, FactsCohere

LEMMA SameAssets ==
    ASSUME profile'.assets = profile.assets
    PROVE  Rentals(profile') = Rentals(profile) /\ OwnedVehicles(profile') = OwnedVehicles(profile)
BY DEF Rentals, OwnedVehicles, OfClass

\* A form of the debts alone.
LEMMA DebtFormCoheres ==
    ASSUME IInv, NEW h, NEW D, profile' = [profile EXCEPT !.debts = Without(@, h) \cup D],
           \A d \in D : d.handle = h /\ d.handle[1] = "debt" /\ d.kind # "AUTO",
           \A d, e \in D : d = e
    PROVE  FactsCohere(profile')
<1>1. /\ DOMAIN profile' = ProfileFields
      /\ profile'.debts = Without(profile.debts, h) \cup D
      /\ \A f \in {"subjects", "assets", "flows", "pensions", "entitled"} : profile'[f] = profile[f]
  BY DEF IInv, FactsCohere, ProfileFields
<1>2. Rentals(profile') = Rentals(profile) /\ OwnedVehicles(profile') = OwnedVehicles(profile)
  BY <1>1, SameAssets
<1>3. SavesDebt(profile, profile', h, D)
  BY <1>1, <1>2 DEF SavesDebt, DebtCoheres, IInv, FactsCohere
<1>4. DebtsCohere(profile')
  BY <1>3, DebtSaved DEF IInv
<1> QED BY <1>1, <1>2, <1>4 DEF IInv, FactsCohere, FlowCoheres, DebtsCohere

LEMMA DebtCoheresAfter ==
    ASSUME IInv, NEW h \in Numbered("debt", Debts(profile)), NEW kind \in {"LOAN", "CARD"}, NEW terms,
           SubmitDebt(h, kind, terms)
    PROVE  FactsCohere(profile')
<1> DEFINE t == IF kind = "LOAN" THEN terms ELSE NoTerms
           D == {Owed(h, kind, None, t)}
<1>1. profile' = [profile EXCEPT !.debts = Without(@, h) \cup D]
  BY DEF SubmitDebt, SaveProfile
<1>2. h[1] = "debt"
  BY NumberedKind
<1> HIDE DEF t
<1>3. /\ \A d \in D : d.handle = h /\ d.handle[1] = "debt" /\ d.kind # "AUTO"
      /\ \A d, e \in D : d = e
  BY <1>2 DEF Owed
<1> HIDE DEF D
<1> QED BY <1>1, <1>3, DebtFormCoheres

LEMMA DeletedDebtCoheres ==
    ASSUME IInv, NEW h, DeleteDebt(h)
    PROVE  FactsCohere(profile')
<1> DEFINE D == {}
<1>1. profile' = [profile EXCEPT !.debts = Without(@, h) \cup D]
  BY DEF DeleteDebt, SaveProfile
<1>2. \A d \in D : FALSE
  OBVIOUS
<1> HIDE DEF D
<1> QED BY <1>1, <1>2, DebtFormCoheres

LEMMA OtherFactsCohere ==
    ASSUME IInv, DOMAIN profile' = ProfileFields,
           \A f \in {"subjects", "assets", "debts"} : profile'[f] = profile[f],
           profile'.pensions \cup profile'.entitled \subseteq profile.subjects,
           \A f \in profile'.flows : FlowCoheres(profile, f)
    PROVE  FactsCohere(profile')
<1>1. Rentals(profile') = Rentals(profile) /\ OwnedVehicles(profile') = OwnedVehicles(profile)
  BY SameAssets
<1>2. \A d \in profile'.debts : DebtCoheres(profile', d)
  BY <1>1 DEF IInv, FactsCohere, DebtCoheres
<1>3. \A f \in profile'.flows : FlowCoheres(profile', f)
  BY <1>1 DEF FlowCoheres
<1> QED BY <1>2, <1>3 DEF IInv, FactsCohere

LEMMA IncomeCoheres ==
    ASSUME IInv, NEW earners \in SUBSET profile.subjects, NEW let \in SUBSET Rentals(profile),
           SubmitIncome(earners, let)
    PROVE  FactsCohere(profile')
<1> DEFINE F == {[subject |-> s, property |-> None] : s \in earners}
                    \cup {[subject |-> None, property |-> h] : h \in let}
<1>1. profile' = [profile EXCEPT !.flows = F]
  BY DEF SubmitIncome, SaveProfile
<1>2. \A f \in F : FlowCoheres(profile, f)
  BY DEF FlowCoheres
<1> HIDE DEF F
<1>3. /\ DOMAIN profile' = ProfileFields /\ profile'.flows = F
      /\ \A f \in {"subjects", "assets", "debts", "pensions", "entitled"} : profile'[f] = profile[f]
  BY <1>1 DEF IInv, FactsCohere, ProfileFields
<1> QED BY <1>2, <1>3, OtherFactsCohere DEF IInv, FactsCohere

LEMMA BenefitsCohere ==
    ASSUME IInv, NEW entitled \in SUBSET profile.subjects, NEW pensions \in SUBSET profile.subjects,
           SubmitBenefits(entitled, pensions)
    PROVE  FactsCohere(profile')
<1>1. /\ DOMAIN profile' = ProfileFields /\ profile'.entitled = entitled /\ profile'.pensions = pensions
      /\ \A f \in {"subjects", "assets", "debts", "flows"} : profile'[f] = profile[f]
  BY DEF SubmitBenefits, SaveProfile, IInv, FactsCohere, ProfileFields
<1> QED BY <1>1, OtherFactsCohere DEF IInv, FactsCohere

LEMMA DeletedLeaseCoheres ==
    ASSUME IInv, NEW h, DeleteLeasedVehicle(h)
    PROVE  FactsCohere(profile')
<1>1. /\ DOMAIN profile' = ProfileFields
      /\ \A f \in {"subjects", "assets", "debts", "flows", "pensions", "entitled"} : profile'[f] = profile[f]
  BY DEF DeleteLeasedVehicle, SaveProfile, IInv, FactsCohere, ProfileFields
<1> QED BY <1>1, OtherFactsCohere DEF IInv, FactsCohere

\* Everybody's own accounts are held under the handles of their kinds.
LEMMA SyncedCohere ==
    ASSUME NEW people, people \subseteq {Primary, Partner}, NEW a \in SyncedAccounts(people)
    PROVE  AssetCoheres(a)
<1>1. SyncedAccounts(people) \subseteq SyncedAccounts({Primary, Partner})
  BY DEF SyncedAccounts
<1>2. a.handle \in HandlesOf(SyncedAccounts({Primary, Partner}))
  BY <1>1 DEF HandlesOf
<1>3. \/ a = Held(Cash, "CASH") \/ a = Held(Stocks, "STOCKS")
      \/ \E s \in people : a = Held(PreTax(s), "PRETAX")
      \/ \E s \in people : a = Held(Roth(s), "ROTH")
  BY DEF SyncedAccounts
<1>4. a.handle[1] \in DOMAIN ClassesOf /\ a.class \in ClassesOf[a.handle[1]]
  <2>1. CASE a = Held(Cash, "CASH") \/ a = Held(Stocks, "STOCKS")
    BY <2>1 DEF Held, Cash, Stocks, ClassesOf, Liquid
  <2>2. CASE \E s \in people : a = Held(PreTax(s), "PRETAX")
    BY <2>2 DEF Held, PreTax, ClassesOf
  <2>3. CASE \E s \in people : a = Held(Roth(s), "ROTH")
    BY <2>3 DEF Held, Roth, ClassesOf
  <2> QED BY <1>3, <2>1, <2>2, <2>3
<1> QED BY <1>2, <1>4 DEF AssetCoheres

LEMMA SubjectsCohere ==
    ASSUME IInv, NEW people, people \subseteq {Primary, Partner}, SubmitSubjects(people)
    PROVE  FactsCohere(profile')
<1> DEFINE kept == {a \in profile.assets : a.class \notin Liquid \cup Retirement}
           A    == kept \cup SyncedAccounts(people)
<1>1. profile' = [OwnedByCurrent(profile, people) EXCEPT
                     !.subjects = people,
                     !.assets = {a \in @ : a.class \notin Liquid \cup Retirement} \cup SyncedAccounts(people)]
  BY DEF SubmitSubjects, SaveProfile
<1>2. /\ DOMAIN OwnedByCurrent(profile, people) = ProfileFields
      /\ OwnedByCurrent(profile, people).flows = {f \in profile.flows : f.subject \in people \cup {None}}
      /\ OwnedByCurrent(profile, people).pensions = profile.pensions \cap people
      /\ OwnedByCurrent(profile, people).entitled = profile.entitled \cap people
      /\ OwnedByCurrent(profile, people).debts = profile.debts
      /\ OwnedByCurrent(profile, people).assets = profile.assets
  BY DEF OwnedByCurrent, IInv, FactsCohere, ProfileFields
<1>3. /\ DOMAIN profile' = ProfileFields /\ profile'.subjects = people /\ profile'.assets = A
      /\ profile'.flows = {f \in profile.flows : f.subject \in people \cup {None}}
      /\ profile'.pensions = profile.pensions \cap people
      /\ profile'.entitled = profile.entitled \cap people
      /\ profile'.debts = profile.debts
  BY <1>1, <1>2 DEF ProfileFields
<1>4. \A a \in A : AssetCoheres(a)
  BY SyncedCohere DEF IInv, FactsCohere
<1>5. /\ Rentals(profile) \subseteq Rentals(profile')
      /\ OwnedVehicles(profile) \subseteq OwnedVehicles(profile')
  BY <1>3 DEF Rentals, OwnedVehicles, OfClass, HandlesOf, Liquid, Retirement
<1>6. \A f \in profile'.flows : FlowCoheres(profile', f)
  BY <1>3, <1>5 DEF IInv, FactsCohere, FlowCoheres
<1>7. \A d \in profile'.debts : DebtCoheres(profile', d)
  BY <1>3, <1>5 DEF IInv, FactsCohere, DebtCoheres
<1> HIDE DEF A
<1> QED BY <1>3, <1>4, <1>6, <1>7 DEF IInv, FactsCohere

LEMMA EditProfileKept ==
    ASSUME IInv, EditProfile
    PROVE  FactsCohere(profile') /\ plans' = plans /\ copied' = copied /\ edits' = edits + 1
<1>1. FactsCohere(profile')
  BY SubjectsCohere, HomeCoheres, PropertyCoheres, DeletedHoldingCoheres, OwnedVehicleCoheres,
     LeasedVehicleCoheres, DeletedLeaseCoheres, DebtCoheresAfter, DeletedDebtCoheres,
     IncomeCoheres, BenefitsCohere DEF EditProfile
<1>2. plans' = plans /\ copied' = copied /\ edits' = edits + 1
  BY DEF EditProfile, SubmitSubjects, SubmitHome, SubmitProperty, DeleteHolding, SubmitOwnedVehicle,
         SubmitLeasedVehicle, DeleteLeasedVehicle, SubmitDebt, DeleteDebt, SubmitIncome,
         SubmitBenefits, SaveProfile, Edit
<1> QED BY <1>1, <1>2 DEF IInv
-----------------------------------------------------------------------------
(* A resolution of drift.                                                    *)

LEMMA ResolveDriftKept ==
    ASSUME IInv, ResolveDrift
    PROVE  PlansKept /\ profile' = profile /\ seen' = seen /\ edits' = edits
<1>1. CASE Reconcile
  BY <1>1, ReconciledStands DEF Reconcile, Resolve, PlansKept, IInv
<1>2. CASE \E h \in DOMAIN plans.snapshots : ResetLoan(h)
  BY <1>2, ResetStands DEF ResetLoan, Resolve, PlansKept, IInv
<1>3. CASE \E h \in DOMAIN plans.snapshots : KeepLoan(h)
  BY <1>3, KeepStands DEF KeepLoan, Resolve, PlansKept, IInv
<1>4. CASE ResetRent
  <2>1. /\ plans' = [plans EXCEPT !.rent = profile.rent, !.rentSnapshot = profile.rent]
        /\ copied' = [copied EXCEPT !.rent = profile.rent # None]
        /\ profile' = profile /\ seen' = seen /\ edits' = edits
    BY <1>4 DEF ResetRent, Resolve, SetHomeRent
  <2>2. /\ DOMAIN plans' = PlansFields /\ plans'.rent = profile.rent /\ plans'.rentSnapshot = profile.rent
        /\ \A f \in {"named", "events", "repayments", "snapshots"} : plans'[f] = plans[f]
    BY <2>1 DEF IInv, PlansCohere, PlansFields
  <2>3. DOMAIN copied' = {"debts", "rent"} /\ copied'.debts = copied.debts /\ copied'.rent = (profile.rent # None)
    BY <2>1 DEF IInv, Stands
  <2>4. "contributions" \in DOMAIN plans'.named /\ plans'.named.contributions = plans.named.contributions
    BY <2>2 DEF IInv, PlansCohere
  <2> DEFINE q == plans'
  <2> HIDE DEF q
  <2> QED BY <2>1, <2>2, <2>3, <2>4, RentKept
<1>5. CASE KeepRent
  <2>1. /\ plans' = [plans EXCEPT !.rentSnapshot = profile.rent]
        /\ copied' = [copied EXCEPT !.rent = @ /\ plans.rent = profile.rent]
        /\ profile' = profile /\ seen' = seen /\ edits' = edits
    BY <1>5 DEF KeepRent, Resolve
  <2>2. /\ DOMAIN plans' = PlansFields /\ plans'.rentSnapshot = profile.rent
        /\ \A f \in {"named", "events", "repayments", "snapshots", "rent"} : plans'[f] = plans[f]
    BY <2>1 DEF IInv, PlansCohere, PlansFields
  <2>3. DOMAIN copied' = {"debts", "rent"} /\ copied'.debts = copied.debts
        /\ copied'.rent = (copied.rent /\ plans.rent = profile.rent)
    BY <2>1 DEF IInv, Stands
  <2>4. "contributions" \in DOMAIN plans'.named /\ plans'.named.contributions = plans.named.contributions
    BY <2>2 DEF IInv, PlansCohere
  <2>5. copied'.rent => plans'.rentSnapshot # None /\ plans'.rent = plans'.rentSnapshot
    BY <2>2, <2>3 DEF IInv, Stands
  <2> QED BY <2>1, <2>2, <2>3, <2>4, <2>5, RentKept
<1> QED BY <1>1, <1>2, <1>3, <1>4, <1>5 DEF ResolveDrift
-----------------------------------------------------------------------------
LEMMA Inductive ==
    /\ Init => IInv
    /\ IInv /\ [Next]_vars => IInv'
<1>1. ASSUME Init
      PROVE  IInv
  <2>1. PICK hh \in Households :
            /\ profile = hh.profile /\ plans = hh.plans /\ edits = 0
            /\ copied = [debts |-> {h \in DOMAIN hh.plans.repayments \cap DOMAIN hh.plans.snapshots :
                                       hh.plans.repayments[h] = hh.plans.snapshots[h]},
                         rent |-> hh.plans.rentSnapshot # None /\ hh.plans.rent = hh.plans.rentSnapshot]
    BY <1>1 DEF Init
  <2>2. FactsCohere(profile) /\ PlansCohere(plans)
    BY <2>1, HouseholdAssumption
  <2>3. /\ DOMAIN copied = {"debts", "rent"}
        /\ \A h \in copied.debts : h \in DOMAIN plans.snapshots /\ plans.repayments[h] = plans.snapshots[h]
        /\ copied.rent => plans.rentSnapshot # None /\ plans.rent = plans.rentSnapshot
    BY <2>1
  <2>4. Stands(plans, copied)
    BY <2>3 DEF Stands
  <2> QED BY <2>1, <2>2, <2>4 DEF IInv
<1>2. ASSUME IInv, [Next]_vars
      PROVE  IInv'
  <2>1. CASE EditProfile
    BY <1>2, <2>1, EditProfileKept DEF IInv
  <2>2. CASE EditPlans
    BY <1>2, <2>2, EditPlansKept DEF IInv, PlansKept
  <2>3. CASE ResolveDrift
    BY <1>2, <2>3, ResolveDriftKept DEF IInv, PlansKept
  <2>4. CASE UNCHANGED vars
    BY <1>2, <2>4 DEF vars, IInv
  <2> QED BY <1>2, <2>1, <2>2, <2>3, <2>4 DEF Next
<1> QED BY <1>1, <1>2

\* The inductive invariant: facts and plans cohere, each on its own side, and what the
\* program copied still stands beside its snapshot.
THEOREM InputsCohere == Spec => []IInv
BY Inductive, PTL DEF Spec

LEMMA CopiesFollow == IInv => ReadyFollowsFacts
<1> SUFFICES ASSUME IInv, Ready
             PROVE  /\ \A h \in copied.debts \cap DOMAIN plans.repayments \cap Debts(profile) :
                           plans.repayments[h] = TermsOf(profile, h)
                    /\ copied.rent /\ Renting(profile) /\ profile.rent # None => plans.rent = profile.rent
  BY DEF ReadyFollowsFacts
<1>1. LoanDrift(profile, plans) = {} /\ ~RentDrift(profile, plans)
  BY DEF Ready, Adrift
<1>2. \A h \in DOMAIN plans.snapshots \cap Debts(profile) : plans.snapshots[h] = TermsOf(profile, h)
  BY <1>1 DEF LoanDrift
<1>3. \A h \in copied.debts \cap DOMAIN plans.repayments \cap Debts(profile) :
          plans.repayments[h] = TermsOf(profile, h)
  BY <1>2 DEF IInv, Stands
<1>4. copied.rent /\ Renting(profile) /\ profile.rent # None => plans.rent = profile.rent
  BY <1>1 DEF RentDrift, IInv, Stands
<1> QED BY <1>3, <1>4

\* Whatever edits and resolutions led to a bundle readiness lets through, what was
\* copied from the facts and never changed is what the facts say now.
THEOREM CopiesFollowFacts == Spec => []ReadyFollowsFacts
<1>1. Spec => []IInv
  BY InputsCohere
<1> QED BY <1>1, CopiesFollow, PTL
-----------------------------------------------------------------------------
(* What materialization and the engine's build look up.                      *)

\* A person, a debt and an asset never share a handle.
LEMMA EntityKinds ==
    ASSUME NEW p, FactsCohere(p), NEW h \in Entities(p)
    PROVE  /\ h[1] = "subject" => h \in p.subjects
           /\ h[1] \in DOMAIN ClassesOf => h \in Accounts(p)
<1>1. CASE h \in p.subjects
  <2>1. h[1] = "subject"
    BY <1>1 DEF FactsCohere, Primary, Partner
  <2> QED BY <1>1, <2>1 DEF ClassesOf
<1>2. CASE h \in Accounts(p)
  <2>1. h[1] \in DOMAIN ClassesOf
    BY <1>2 DEF Accounts, HandlesOf, FactsCohere, AssetCoheres
  <2> QED BY <1>2, <2>1 DEF ClassesOf
<1>3. CASE h \in Debts(p)
  <2>1. h[1] \in {"loan", "debt"}
    BY <1>3 DEF Debts, HandlesOf, FactsCohere, DebtCoheres
  <2> QED BY <2>1 DEF ClassesOf
<1> QED BY <1>1, <1>2, <1>3 DEF Entities

\* A holding whose handle is of a kind is of the classes of that kind.
LEMMA AccountClass ==
    ASSUME NEW p, FactsCohere(p), NEW h \in Accounts(p)
    PROVE  /\ h[1] \in {"pretax", "roth"} => h \in OfClass(p, Retirement)
           /\ h[1] \in {"residence", "property"} => h \in OfClass(p, RealEstate)
<1>1. PICK a \in p.assets : a.handle = h
  BY DEF Accounts, HandlesOf
<1>2. h[1] \in DOMAIN ClassesOf /\ a.class \in ClassesOf[h[1]]
  BY <1>1 DEF FactsCohere, AssetCoheres
<1>3. /\ h[1] \in {"pretax", "roth"} => a.class \in Retirement
      /\ h[1] \in {"residence", "property"} => a.class \in RealEstate
  BY <1>2, KindsAndClasses DEF Retirement
<1> QED BY <1>1, <1>3 DEF OfClass, HandlesOf

LEMMA ReadyMaterializes == IInv => ReadyInputsMaterialize
<1> SUFFICES ASSUME IInv, Ready
             PROVE  Materializes(profile, plans)
  BY DEF ReadyInputsMaterialize
<1>1. /\ ProfileComplete(profile) /\ Compatible(profile, plans)
      /\ Unplanned(profile, plans) = {} /\ Unclaimed(profile, plans) = {}
  BY DEF Ready, Blocked, Adrift
<1>2. \A s \in profile.entitled : s \in DOMAIN plans.timing /\ plans.timing[s]
  BY <1>1 DEF Unclaimed
<1>3. plans.named.contributions \subseteq OfClass(profile, Retirement)
  <2>1. Resolvable(profile).contributions = Accounts(profile)
    BY DEF Resolvable
  <2>2. plans.named.contributions \subseteq Accounts(profile)
    BY <1>1, <2>1 DEF Compatible, IInv, PlansCohere
  <2> QED BY <2>2, AccountClass DEF IInv, PlansCohere
<1>4. ASSUME NEW e \in plans.events
      PROVE  /\ e.kind = "TAXABLE_RECEIPT" => e.at \in profile.subjects
             /\ e.kind = "SELL_PROPERTY" => e.at \in OfClass(profile, RealEstate)
             /\ e.kind = "TRANSFER" => {e.at, e.to} \subseteq Accounts(profile)
  <2>1. EventCoheres(e) /\ EventResolves(profile, e)
    BY <1>1 DEF IInv, PlansCohere, Compatible
  <2>2. \A h \in {e.at, e.to} : h # None => h \in Entities(profile)
    BY <2>1 DEF EventResolves, Selected
  <2>3. CASE e.kind = "TAXABLE_RECEIPT"
    <3>1. e.at # None /\ e.at[1] = "subject"
      BY <2>1, <2>3 DEF EventCoheres, Names
    <3> QED BY <2>2, <2>3, <3>1, EntityKinds DEF IInv
  <2>4. CASE e.kind = "SELL_PROPERTY"
    <3>1. e.at # None /\ e.at[1] \in {"residence", "property"}
      BY <2>1, <2>4 DEF EventCoheres, Names
    <3>2. e.at \in Accounts(profile)
      BY <2>2, <3>1, EntityKinds DEF IInv, ClassesOf
    <3> QED BY <2>4, <3>1, <3>2, AccountClass DEF IInv
  <2>5. CASE e.kind = "TRANSFER"
    <3>1. \A h \in {e.at, e.to} : h # None /\ h[1] \in {"taxable", "pretax", "roth"}
      BY <2>1, <2>5 DEF EventCoheres, Names
    <3>2. \A h \in {e.at, e.to} : h \in Accounts(profile)
      BY <2>2, <3>1, EntityKinds DEF IInv, ClassesOf
    <3> QED BY <2>5, <3>2
  <2> QED BY <2>3, <2>4, <2>5
<1>5. ASSUME NEW d \in profile.debts, Amortizing(d)
      PROVE  /\ d.handle \in DOMAIN plans.repayments
             /\ Complete(plans.repayments[d.handle])
             /\ d.kind = "AUTO" => d.secured \in OwnedVehicles(profile)
  <2>1. d.handle \in DOMAIN plans.repayments
    BY <1>1, <1>5 DEF Unplanned, HandlesOf
  <2> QED BY <2>1 DEF IInv, PlansCohere, FactsCohere, DebtCoheres
<1>6. /\ profile.subjects # {} /\ profile.pensions \subseteq profile.subjects
      /\ \A f \in profile.flows : f.subject \in profile.subjects \cup {None}
      /\ \A f \in profile.flows : f.property \in Rentals(profile) \cup {None}
  BY <1>1 DEF ProfileComplete, IInv, FactsCohere, FlowCoheres
<1> QED BY <1>1, <1>2, <1>3, <1>4, <1>5, <1>6 DEF Materializes

\* Whatever edits and resolutions led to a bundle readiness lets through, every handle the
\* forecast's build looks up is there and no loan is dropped for want of terms.
THEOREM ReadyInputsRun == Spec => []ReadyInputsMaterialize
<1>1. Spec => []IInv
  BY InputsCohere
<1> QED BY <1>1, ReadyMaterializes, PTL
-----------------------------------------------------------------------------
(* Drift is resolved in place.                                               *)

Resolves(q) ==
    /\ Unplanned(profile, q) = {} /\ Unclaimed(profile, q) = {}
    /\ LoanDrift(profile, q) \subseteq LoanDrift(profile, plans)
    /\ RentDrift(profile, q) => RentDrift(profile, plans)
    /\ Compatible(profile, plans) => Compatible(profile, q)

\* Whatever no longer resolves is dropped; what readiness asks for does resolve.
LEMMA ReconcileResolves ==
    ASSUME IInv, ~Blocked
    PROVE  Resolves(Reconciled(profile, plans))
<1> DEFINE q == Reconciled(profile, plans)
<1>1. /\ q.timing = Restrict(plans.timing, DOMAIN plans.timing \cap profile.subjects)
      /\ q.repayments = KeepingDebts(plans.repayments, profile)
      /\ q.snapshots = KeepingDebts(plans.snapshots, profile)
      /\ q.named = [c \in DOMAIN plans.named |-> plans.named[c] \cap Resolvable(profile)[c]]
      /\ q.events = {e \in plans.events : EventResolves(profile, e) /\ EndpointsValid(profile, e)}
      /\ q.rent = plans.rent /\ q.rentSnapshot = plans.rentSnapshot
  BY DEF Reconciled, PlansFields, PlansCohere, IInv
<1>2. Unplanned(profile, plans) = {} /\ Unclaimed(profile, plans) = {}
  BY DEF Blocked
<1> HIDE DEF q
<1>3. /\ DOMAIN q.repayments = DOMAIN plans.repayments \cap Debts(profile)
      /\ DOMAIN q.snapshots = DOMAIN plans.snapshots \cap Debts(profile)
      /\ \A h \in DOMAIN q.snapshots : q.snapshots[h] = plans.snapshots[h]
      /\ DOMAIN q.timing = DOMAIN plans.timing \cap profile.subjects
      /\ \A s \in DOMAIN q.timing : q.timing[s] = plans.timing[s]
  BY <1>1 DEF KeepingDebts, Restrict
<1>4. Unplanned(profile, q) = {}
  BY <1>2, <1>3 DEF Unplanned, Debts, HandlesOf
<1>5. Unclaimed(profile, q) = {}
  BY <1>2, <1>3 DEF Unclaimed, IInv, FactsCohere
<1>6. LoanDrift(profile, q) \subseteq LoanDrift(profile, plans)
  BY <1>3 DEF LoanDrift
<1>7. RentDrift(profile, q) => RentDrift(profile, plans)
  BY <1>1 DEF RentDrift
<1>8. Compatible(profile, q)
  BY <1>1, <1>3 DEF Compatible
<1> QED BY <1>4, <1>5, <1>6, <1>7, <1>8 DEF Resolves, q

\* A reset to a complete contract plans the debt; to one that is not complete it drops the
\* plan, and only that step is exempt.
LEMMA ResetResolves ==
    ASSUME IInv, ~Blocked, NEW h,
           \A x \in DOMAIN plans.repayments \ DOMAIN ResetLoanTerms(profile, plans, h).repayments :
               ~(x \in Debts(profile) /\ ~Complete(TermsOf(profile, x)))
    PROVE  Resolves(ResetLoanTerms(profile, plans, h))
<1> DEFINE q    == ResetLoanTerms(profile, plans, h)
           term == TermsOf(profile, h)
<1>1. /\ q.repayments = IF Complete(term) THEN Put(plans.repayments, h, term)
                                          ELSE Drop(plans.repayments, {h})
      /\ q.snapshots = Put(plans.snapshots, h, term)
      /\ \A f \in {"timing", "named", "events", "rent", "rentSnapshot"} : q[f] = plans[f]
  BY DEF ResetLoanTerms, PlansFields, PlansCohere, IInv
<1>2. Unplanned(profile, plans) = {} /\ Unclaimed(profile, plans) = {}
  BY DEF Blocked
<1>3. Complete(term) => h \in Debts(profile)
  BY DEF TermsOf, Complete, NoTerms
<1>4. ~Complete(term) /\ h \in Debts(profile) /\ h \in DOMAIN plans.repayments => h \in DOMAIN q.repayments
  BY DEF q, term
<1> HIDE DEF q
<1>5. /\ DOMAIN q.snapshots = DOMAIN plans.snapshots \cup {h}
      /\ q.snapshots[h] = term
      /\ \A x \in DOMAIN plans.snapshots : x # h => q.snapshots[x] = plans.snapshots[x]
  BY <1>1 DEF Put, Over
<1>6. /\ Complete(term) => DOMAIN q.repayments = DOMAIN plans.repayments \cup {h}
      /\ ~Complete(term) => DOMAIN q.repayments = DOMAIN plans.repayments \ {h}
  BY <1>1 DEF Put, Over, Drop, Restrict
<1>7. Unplanned(profile, q) = {}
  <2>1. ASSUME NEW d \in profile.debts, Amortizing(d)
        PROVE  d.handle \in DOMAIN q.repayments
    <3>1. d.handle \in DOMAIN plans.repayments /\ d.handle \in Debts(profile)
      BY <1>2, <2>1 DEF Unplanned, Debts, HandlesOf
    <3> QED BY <1>4, <1>6, <3>1
  <2> QED BY <2>1 DEF Unplanned, HandlesOf
<1>8. Unclaimed(profile, q) = {}
  BY <1>1, <1>2 DEF Unclaimed
<1>9. LoanDrift(profile, q) \subseteq LoanDrift(profile, plans)
  BY <1>5 DEF LoanDrift
<1>10. RentDrift(profile, q) => RentDrift(profile, plans)
  BY <1>1 DEF RentDrift
<1>11. Compatible(profile, plans) => Compatible(profile, q)
  <2>1. DOMAIN plans.repayments \subseteq Debts(profile) => DOMAIN q.repayments \subseteq Debts(profile)
    BY <1>3, <1>6
  <2> QED BY <1>1, <2>1 DEF Compatible
<1> QED BY <1>7, <1>8, <1>9, <1>10, <1>11 DEF Resolves, q

LEMMA KeepResolves ==
    ASSUME IInv, ~Blocked, NEW h
    PROVE  Resolves(KeepLoanTerms(profile, plans, h))
<1> DEFINE q    == KeepLoanTerms(profile, plans, h)
           term == TermsOf(profile, h)
<1>1. /\ q.snapshots = Put(plans.snapshots, h, term)
      /\ \A f \in {"timing", "named", "repayments", "events", "rent", "rentSnapshot"} : q[f] = plans[f]
  BY DEF KeepLoanTerms, PlansFields, PlansCohere, IInv
<1> HIDE DEF q
<1>2. /\ DOMAIN q.snapshots = DOMAIN plans.snapshots \cup {h}
      /\ q.snapshots[h] = term
      /\ \A x \in DOMAIN plans.snapshots : x # h => q.snapshots[x] = plans.snapshots[x]
  BY <1>1 DEF Put, Over
<1>3. Unplanned(profile, q) = {} /\ Unclaimed(profile, q) = {}
  BY <1>1 DEF Blocked, Unplanned, Unclaimed
<1>4. LoanDrift(profile, q) \subseteq LoanDrift(profile, plans)
  BY <1>2 DEF LoanDrift
<1>5. /\ RentDrift(profile, q) => RentDrift(profile, plans)
      /\ Compatible(profile, plans) => Compatible(profile, q)
  BY <1>1 DEF RentDrift, Compatible
<1> QED BY <1>3, <1>4, <1>5 DEF Resolves, q

\* The rent, taken from the facts or kept, is no drift any more.
LEMMA RentResolves ==
    ASSUME IInv, ~Blocked, NEW q, q.rentSnapshot = profile.rent,
           \A f \in {"timing", "named", "repayments", "snapshots", "events"} : q[f] = plans[f]
    PROVE  Resolves(q)
BY DEF Resolves, Blocked, Unplanned, Unclaimed, LoanDrift, RentDrift, Compatible

LEMMA ResolvesInPlace ==
    ASSUME Resolves(plans'), profile' = profile, seen' = seen, DriftBlocked
    PROVE  /\ Ready' \/ DriftBlocked'
           /\ LoanDrift(profile, plans)' \subseteq LoanDrift(profile, plans)
           /\ RentDrift(profile, plans)' => RentDrift(profile, plans)
           /\ Compatible(profile, plans) => Compatible(profile, plans)'
<1>1. ~Blocked'
  BY DEF Resolves, DriftBlocked, Blocked, Reviewed
<1>2. Ready' \/ DriftBlocked'
  BY <1>1 DEF Ready, DriftBlocked
<1>3. /\ LoanDrift(profile, plans)' \subseteq LoanDrift(profile, plans)
      /\ RentDrift(profile, plans)' => RentDrift(profile, plans)
      /\ Compatible(profile, plans) => Compatible(profile, plans)'
  BY DEF Resolves
<1> QED BY <1>2, <1>3

LEMMA StepsResolve ==
    ASSUME IInv, [Next]_vars
    PROVE  ResolvedInPlace
<1> SUFFICES ASSUME DriftBlocked, edits' = edits, ~DropsAnIncompletePlan
             PROVE  /\ Ready' \/ DriftBlocked'
                    /\ LoanDrift(profile, plans)' \subseteq LoanDrift(profile, plans)
                    /\ RentDrift(profile, plans)' => RentDrift(profile, plans)
                    /\ Compatible(profile, plans) => Compatible(profile, plans)'
  BY DEF ResolvedInPlace
<1>1. ~Blocked
  BY DEF DriftBlocked
<1>2. CASE EditProfile \/ EditPlans
  BY <1>2, EditProfileKept, EditPlansKept DEF IInv
<1>3. CASE ResolveDrift
  <2>1. profile' = profile /\ seen' = seen
    BY <1>3, ResolveDriftKept
  <2>2. CASE Reconcile
    BY <1>1, <2>1, <2>2, ReconcileResolves, ResolvesInPlace DEF Reconcile, Resolve
  <2>3. CASE \E h \in DOMAIN plans.snapshots : ResetLoan(h)
    <3>1. PICK h \in DOMAIN plans.snapshots : plans' = ResetLoanTerms(profile, plans, h)
      BY <2>3 DEF ResetLoan, Resolve
    <3>2. Resolves(plans')
      BY <1>1, <3>1, ResetResolves DEF DropsAnIncompletePlan
    <3> QED BY <2>1, <3>2, ResolvesInPlace
  <2>4. CASE \E h \in DOMAIN plans.snapshots : KeepLoan(h)
    BY <1>1, <2>1, <2>4, KeepResolves, ResolvesInPlace DEF KeepLoan, Resolve
  <2>5. CASE ResetRent \/ KeepRent
    <3>1. /\ plans'.rentSnapshot = profile.rent
          /\ \A f \in {"timing", "named", "repayments", "snapshots", "events"} : plans'[f] = plans[f]
      BY <2>5 DEF ResetRent, KeepRent, Resolve, SetHomeRent, IInv, PlansCohere, PlansFields
    <3>2. Resolves(plans')
      BY <1>1, <3>1, RentResolves
    <3> QED BY <2>1, <3>2, ResolvesInPlace
  <2> QED BY <1>3, <2>2, <2>3, <2>4, <2>5 DEF ResolveDrift
<1>4. CASE UNCHANGED vars
  <2>1. profile' = profile /\ seen' = seen /\ plans' = plans
    BY <1>4 DEF vars
  <2>2. Resolves(plans')
    BY <1>1, <2>1 DEF Resolves, Blocked
  <2> QED BY <2>1, <2>2, ResolvesInPlace
<1> QED BY <1>2, <1>3, <1>4 DEF Next

\* A scenario blocked by drift alone is resolved in place: no resolution sends it back to
\* the interview or raises a drift that was not there, a reset to an incomplete contract apart.
THEOREM DriftResolvesInPlace == Spec => ResolvingRuns
<1>1. Spec => []IInv
  BY InputsCohere
<1>2. IInv /\ [Next]_vars => ResolvedInPlace
  BY StepsResolve
<1> QED BY <1>1, <1>2, PTL DEF Spec, ResolvingRuns
=============================================================================
