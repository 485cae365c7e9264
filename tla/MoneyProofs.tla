----------------------------- MODULE MoneyProofs -----------------------------
(***************************************************************************)
(* What the other proofs know of amounts.  Rounding: how far a rounded      *)
(* amount is from the fraction, and which way.  Sums over a finite set, as  *)
(* MapThenSumSet of the community modules makes them, one element at a      *)
(* time: what such a sum does when every value, one value or the set        *)
(* changes.                                                                 *)
(***************************************************************************)
EXTENDS Money, FiniteSetsExt, FiniteSetTheorems, WellFoundedInduction, TLAPS
-----------------------------------------------------------------------------
(* Rounding. *)

LEMMA QuantizeType ==
    ASSUME NEW n \in Int, NEW d \in Nat \ {0}
    PROVE  Quantize(n, d) \in Int
BY DEF Quantize

\* round_money_up never falls short of the fraction, and exceeds it by less than a unit.
LEMMA RoundUpCovers ==
    ASSUME NEW n \in Int, NEW d \in Nat \ {0}
    PROVE  RoundUp(n, d) \in Int /\ d * RoundUp(n, d) >= n /\ d * RoundUp(n, d) < n + d
BY DEF RoundUp

\* quantize_money is within half a unit of the fraction.
LEMMA QuantizeNear ==
    ASSUME NEW n \in Int, NEW d \in Nat \ {0}
    PROVE  2 * (d * Quantize(n, d)) <= 2 * n + d /\ 2 * (d * Quantize(n, d)) >= 2 * n - d
BY DEF Quantize

\* ... and is no debt where the fraction is none.
LEMMA QuantizeNatural ==
    ASSUME NEW n \in Nat, NEW d \in Nat \ {0}
    PROVE  Quantize(n, d) \in Nat
BY DEF Quantize

LEMMA QuantizeZero == ASSUME NEW d \in Nat \ {0} PROVE Quantize(0, d) = 0
BY DEF Quantize

\* quantize_money keeps the order of two fractions.
LEMMA QuantizeMonotone ==
    ASSUME NEW n \in Nat, NEW m \in Nat, n <= m, NEW d \in Nat \ {0}
    PROVE  Quantize(n, d) <= Quantize(m, d)
<1> DEFINE D == 2 * d
           a == (2 * n + d) \div D
           b == (2 * m + d) \div D
<1>1. D \in Nat \ {0} /\ a \in Int /\ b \in Int
  OBVIOUS
<1>2. D * a <= 2 * n + d /\ 2 * m + d < D * b + D
  OBVIOUS
<1>3. D * a < D * (b + 1)
  <2> HIDE DEF a, b
  <2>1. D * (b + 1) = D * b + D
    BY <1>1
  <2> HIDE DEF D
  <2> QED BY <1>1, <1>2, <2>1
<1>4. a <= b
  <2> HIDE DEF a, b, D
  <2> QED BY <1>1, <1>3
<1> QED BY <1>4 DEF Quantize
-----------------------------------------------------------------------------
(* Sums over a finite set. *)

Pick(s) == CHOOSE x \in s : TRUE

\* g is the sum of f over every subset of S, one element at a time.
Body(f, g, s) == IF s = {} THEN 0 ELSE f[Pick(s)] + g[s \ {Pick(s)}]
Sums(f, S, g) == g = [s \in SUBSET S |-> Body(f, g, s)]

LEMMA PickIsIn == ASSUME NEW s, s # {} PROVE Pick(s) \in s
BY DEF Pick

LEMMA Smallest ==
    ASSUME NEW T, T \subseteq Nat, T # {}
    PROVE  \E n \in T : \A m \in T : n <= m
<1>1. PICK n \in T : \A m \in T : ~(<<m, n>> \in OpToRel(<, Nat))
  BY NatLessThanWellFounded, WFMin
<1>2. \A m \in T : ~(m < n)
  BY <1>1 DEF OpToRel
<1> QED BY <1>2

\* What removing the picked element does to the size.
LEMMA Smaller ==
    ASSUME NEW S, IsFiniteSet(S), NEW s \in SUBSET S, s # {}
    PROVE  /\ s \ {Pick(s)} \in SUBSET S /\ Pick(s) \in S
           /\ Cardinality(s) \in Nat /\ Cardinality(s \ {Pick(s)}) \in Nat
           /\ Cardinality(s \ {Pick(s)}) = Cardinality(s) - 1
<1>1. IsFiniteSet(s) /\ Pick(s) \in s
  BY FS_Subset, PickIsIn
<1>2. Cardinality(s) \in Nat
  BY <1>1, FS_CardinalityType
<1>3. IsFiniteSet(s \ {Pick(s)}) /\ Cardinality(s \ {Pick(s)}) = Cardinality(s) - 1
  BY <1>1, FS_RemoveElement
<1>4. Cardinality(s \ {Pick(s)}) \in Nat
  BY <1>3, FS_CardinalityType
<1> QED BY <1>1, <1>2, <1>3, <1>4

\* What holds of the empty set, and of a set when it holds of the set without its picked
\* element, holds of every subset.
LEMMA EverySubset ==
    ASSUME NEW S, IsFiniteSet(S), NEW Q, {} \in Q,
           \A s \in SUBSET S : s # {} /\ s \ {Pick(s)} \in Q => s \in Q
    PROVE  \A s \in SUBSET S : s \in Q
<1> DEFINE Bad == {n \in Nat : \E s \in SUBSET S : s \notin Q /\ Cardinality(s) = n}
<1>1. CASE Bad # {}
  <2>1. PICK n \in Bad : \A m \in Bad : n <= m
    BY <1>1, Smallest
  <2>2. PICK s \in SUBSET S : s \notin Q /\ Cardinality(s) = n
    BY <2>1
  <2>3. s # {} /\ s \ {Pick(s)} \notin Q
    BY <2>2
  <2>4. /\ s \ {Pick(s)} \in SUBSET S /\ Cardinality(s \ {Pick(s)}) \in Nat /\ Cardinality(s) \in Nat
        /\ Cardinality(s \ {Pick(s)}) = Cardinality(s) - 1
    BY <2>3, Smaller
  <2>5. Cardinality(s \ {Pick(s)}) \in Bad
    BY <2>3, <2>4
  <2>6. n <= Cardinality(s \ {Pick(s)})
    BY <2>1, <2>5
  <2> QED BY <2>2, <2>4, <2>6
<1>2. CASE Bad = {}
  <2> SUFFICES ASSUME NEW s \in SUBSET S PROVE s \in Q
    OBVIOUS
  <2>1. Cardinality(s) \in Nat
    BY FS_Subset, FS_CardinalityType
  <2> QED BY <1>2, <2>1
<1> QED BY <1>1, <1>2

\* The sum is defined.
LEMMA SumExists ==
    ASSUME NEW S, IsFiniteSet(S), NEW f
    PROVE  \E g : Sums(f, S, g)
<1> DEFINE Good(g, n) == /\ g = [s \in SUBSET S |-> g[s]]
                         /\ \A s \in SUBSET S : Cardinality(s) <= n => g[s] = Body(f, g, s)
           Bad == {n \in Nat : ~ \E g : Good(g, n)}
<1>1. \E g : Good(g, 0)
  <2> DEFINE g == [s \in SUBSET S |-> 0]
  <2>1. \A s \in SUBSET S : Cardinality(s) <= 0 => s = {}
    <3> SUFFICES ASSUME NEW s \in SUBSET S, Cardinality(s) <= 0 PROVE s = {}
      OBVIOUS
    <3>1. IsFiniteSet(s)
      BY FS_Subset
    <3>2. Cardinality(s) \in Nat
      BY <3>1, FS_CardinalityType
    <3>3. Cardinality(s) = 0
      BY <3>2
    <3> QED BY <3>1, <3>3, FS_EmptySet
  <2>2. Good(g, 0)
    BY <2>1 DEF Body
  <2> HIDE DEF g, Good
  <2> QED BY <2>2
<1>2. ASSUME NEW n \in Nat, \E g : Good(g, n) PROVE \E g : Good(g, n + 1)
  <2>1. PICK g : Good(g, n)
    BY <1>2
  <2> DEFINE e == [s \in SUBSET S |-> IF Cardinality(s) <= n THEN g[s] ELSE Body(f, g, s)]
  <2>2. \A s \in SUBSET S : e[s] = Body(f, g, s)
    BY <2>1
  <2>3. ASSUME NEW s \in SUBSET S, Cardinality(s) <= n + 1
        PROVE  Body(f, e, s) = Body(f, g, s)
    <3>1. CASE s = {}
      BY <3>1 DEF Body
    <3>2. CASE s # {}
      <4> DEFINE t == s \ {Pick(s)}
      <4>1. /\ t \in SUBSET S /\ Cardinality(t) \in Nat /\ Cardinality(s) \in Nat
            /\ Cardinality(t) = Cardinality(s) - 1
        BY <3>2, Smaller
      <4>2. Cardinality(t) <= n
        BY <2>3, <4>1
      <4>3. e[t] = g[t]
        <5> HIDE DEF t
        <5> QED BY <4>1, <4>2
      <4> QED BY <3>2, <4>3 DEF Body
    <3> QED BY <3>1, <3>2
  <2>4. Good(e, n + 1)
    <3>1. e = [s \in SUBSET S |-> e[s]]
      OBVIOUS
    <3> HIDE DEF e
    <3> QED BY <2>2, <2>3, <3>1
  <2> HIDE DEF e, Good
  <2> QED BY <2>4
<1>3. Bad = {}
  <2> SUFFICES ASSUME Bad # {} PROVE FALSE
    OBVIOUS
  <2>1. PICK n \in Bad : \A m \in Bad : n <= m
    <3> HIDE DEF Good
    <3> QED BY Smallest
  <2> HIDE DEF Good
  <2>2. n \in Nat /\ n # 0
    BY <1>1, <2>1
  <2>3. n - 1 \in Nat /\ n - 1 \notin Bad
    BY <2>1, <2>2
  <2>4. \E g : Good(g, n - 1)
    BY <2>3
  <2>5. \E g : Good(g, (n - 1) + 1)
    BY <1>2, <2>3, <2>4
  <2>6. (n - 1) + 1 = n
    BY <2>2
  <2> QED BY <2>1, <2>5, <2>6
<1>4. Cardinality(S) \in Nat
  BY FS_CardinalityType
<1>5. PICK g : Good(g, Cardinality(S))
  <2> HIDE DEF Good
  <2> QED BY <1>3, <1>4
<1>6. \A s \in SUBSET S : Cardinality(s) <= Cardinality(S)
  BY FS_Subset
<1>7. \A s \in SUBSET S : g[s] = Body(f, g, s)
  BY <1>5, <1>6
<1>8. g = [s \in SUBSET S |-> g[s]]
  BY <1>5
<1>9. g = [s \in SUBSET S |-> Body(f, g, s)]
  <2> HIDE DEF Good
  <2> QED BY <1>7, <1>8
<1> QED BY <1>9 DEF Sums
LEMMA SumEmpty == ASSUME NEW f, NEW S, NEW g, Sums(f, S, g) PROVE g[{}] = 0
BY DEF Sums, Body

LEMMA SumWhole ==
    ASSUME NEW S, IsFiniteSet(S), NEW f, \A x \in S : f[x] \in Int, NEW g, Sums(f, S, g)
    PROVE  \A s \in SUBSET S : g[s] \in Int
<1> DEFINE Q == {s \in SUBSET S : g[s] \in Int}
<1>1. {} \in Q
  BY SumEmpty
<1>2. ASSUME NEW s \in SUBSET S, s # {}, s \ {Pick(s)} \in Q PROVE s \in Q
  <2>1. Pick(s) \in S
    BY <1>2, PickIsIn
  <2>2. g[s] = f[Pick(s)] + g[s \ {Pick(s)}]
    BY <1>2 DEF Sums, Body
  <2> QED BY <1>2, <2>1, <2>2
<1>3. \A s \in SUBSET S : s \in Q
  <2> HIDE DEF Q
  <2> QED BY <1>1, <1>2, EverySubset
<1> QED BY <1>3

LEMMA SumAdds ==
    ASSUME NEW S, IsFiniteSet(S), NEW f, NEW e, NEW d,
           \A x \in S : f[x] \in Int /\ e[x] \in Int /\ d[x] = f[x] + e[x],
           NEW g, Sums(f, S, g), NEW k, Sums(e, S, k), NEW l, Sums(d, S, l)
    PROVE  \A s \in SUBSET S : l[s] = g[s] + k[s]
<1> DEFINE Q == {s \in SUBSET S : l[s] = g[s] + k[s]}
<1>1. {} \in Q
  <2>1. l[{}] = 0 /\ g[{}] = 0 /\ k[{}] = 0
    BY SumEmpty
  <2> QED BY <2>1
<1>2. ASSUME NEW s \in SUBSET S, s # {}, s \ {Pick(s)} \in Q PROVE s \in Q
  <2> DEFINE x == Pick(s)
             t == s \ {x}
  <2>1. x \in S /\ t \in SUBSET S
    BY <1>2, PickIsIn
  <2>2. l[s] = d[x] + l[t] /\ g[s] = f[x] + g[t] /\ k[s] = e[x] + k[t]
    <3>1. l[s] = d[x] + l[t]
      BY <1>2 DEF Sums, Body
    <3>2. g[s] = f[x] + g[t]
      BY <1>2 DEF Sums, Body
    <3>3. k[s] = e[x] + k[t]
      BY <1>2 DEF Sums, Body
    <3> QED BY <3>1, <3>2, <3>3
  <2> HIDE DEF x, t
  <2>3. l[t] = g[t] + k[t]
    BY <1>2 DEF t, x
  <2>4. g[t] \in Int /\ k[t] \in Int
    BY <2>1, SumWhole
  <2>5. d[x] = f[x] + e[x] /\ f[x] \in Int /\ e[x] \in Int
    BY <2>1
  <2>6. l[s] = g[s] + k[s]
    BY <2>2, <2>3, <2>4, <2>5
  <2> QED BY <2>6
<1>3. \A s \in SUBSET S : s \in Q
  <2> HIDE DEF Q
  <2> QED BY <1>1, <1>2, EverySubset
<1> QED BY <1>3

LEMMA SumOfOne ==
    ASSUME NEW S, IsFiniteSet(S), NEW f, \A x \in S : f[x] \in Int, NEW h \in S,
           \A x \in S : x # h => f[x] = 0, NEW g, Sums(f, S, g)
    PROVE  \A s \in SUBSET S : g[s] = IF h \in s THEN f[h] ELSE 0
<1> DEFINE Q == {s \in SUBSET S : g[s] = IF h \in s THEN f[h] ELSE 0}
<1>1. {} \in Q
  BY SumEmpty
<1>2. ASSUME NEW s \in SUBSET S, s # {}, s \ {Pick(s)} \in Q PROVE s \in Q
  <2> DEFINE x == Pick(s)
             t == s \ {x}
  <2>1. x \in s /\ x \in S /\ f[h] \in Int
    BY <1>2, PickIsIn
  <2>2. g[s] = f[x] + g[t]
    BY <1>2 DEF Sums, Body
  <2>3. g[t] = IF h \in t THEN f[h] ELSE 0
    BY <1>2
  <2> HIDE DEF x
  <2>4. CASE x = h
    BY <2>1, <2>2, <2>3, <2>4
  <2>5. CASE x # h
    BY <2>1, <2>2, <2>3, <2>5
  <2> QED BY <2>4, <2>5
<1>3. \A s \in SUBSET S : s \in Q
  <2> HIDE DEF Q
  <2> QED BY <1>1, <1>2, EverySubset
<1> QED BY <1>3
\* What holds of a set when it holds of every smaller one holds of every subset.
LEMMA EverySmaller ==
    ASSUME NEW S, IsFiniteSet(S), NEW Q,
           \A s \in SUBSET S : (\A t \in SUBSET s : t # s => t \in Q) => s \in Q
    PROVE  \A s \in SUBSET S : s \in Q
<1> DEFINE Bad == {n \in Nat : \E s \in SUBSET S : s \notin Q /\ Cardinality(s) = n}
<1>1. CASE Bad # {}
  <2>1. PICK n \in Bad : \A m \in Bad : n <= m
    BY <1>1, Smallest
  <2>2. PICK s \in SUBSET S : s \notin Q /\ Cardinality(s) = n
    BY <2>1
  <2>3. PICK t \in SUBSET s : t # s /\ t \notin Q
    BY <2>2
  <2>4. IsFiniteSet(s) /\ Cardinality(s) \in Nat
    BY FS_Subset, FS_CardinalityType
  <2>5. /\ t \in SUBSET S /\ Cardinality(t) \in Nat
        /\ Cardinality(t) < Cardinality(s)
    BY <2>3, <2>4, FS_Subset, FS_CardinalityType
  <2>6. Cardinality(t) \in Bad
    BY <2>3, <2>5
  <2>7. n <= Cardinality(t)
    BY <2>1, <2>6
  <2> QED BY <2>2, <2>4, <2>5, <2>7
<1>2. CASE Bad = {}
  <2> SUFFICES ASSUME NEW s \in SUBSET S PROVE s \in Q
    OBVIOUS
  <2>1. Cardinality(s) \in Nat
    BY FS_Subset, FS_CardinalityType
  <2> QED BY <1>2, <2>1
<1> QED BY <1>1, <1>2

\* Any element may be the one taken out first.
LEMMA SumRemove ==
    ASSUME NEW S, IsFiniteSet(S), NEW f, \A x \in S : f[x] \in Int, NEW g, Sums(f, S, g)
    PROVE  \A s \in SUBSET S : \A x \in s : g[s] = f[x] + g[s \ {x}]
<1> DEFINE Q == {s \in SUBSET S : \A x \in s : g[s] = f[x] + g[s \ {x}]}
<1>1. ASSUME NEW s \in SUBSET S, \A t \in SUBSET s : t # s => t \in Q PROVE s \in Q
  <2> SUFFICES ASSUME NEW x \in s PROVE g[s] = f[x] + g[s \ {x}]
    OBVIOUS
  <2> DEFINE y == Pick(s)
  <2>1. y \in s /\ y \in S /\ x \in S
    BY PickIsIn
  <2>2. g[s] = f[y] + g[s \ {y}]
    BY DEF Sums, Body
  <2> HIDE DEF y
  <2>3. CASE x = y
    BY <2>2, <2>3
  <2>4. CASE x # y
    <3> DEFINE t == s \ {y}
               u == s \ {x}
               v == s \ {x, y}
    <3>1. t \in SUBSET s /\ u \in SUBSET s /\ t # s /\ u # s /\ x \in t /\ y \in u /\ v \in SUBSET S
      BY <2>1, <2>4
    <3>2. t \ {x} = v /\ u \ {y} = v
      OBVIOUS
    <3> HIDE DEF t, u, v
    <3>3. t \in Q /\ u \in Q
      BY <1>1, <3>1
    <3>4. g[t] = f[x] + g[v] /\ g[u] = f[y] + g[v]
      BY <3>1, <3>2, <3>3
    <3>5. g[v] \in Int /\ f[x] \in Int /\ f[y] \in Int
      BY <2>1, <3>1, SumWhole
    <3>6. g[s] = f[y] + g[t]
      BY <2>2 DEF t
    <3>7. g[s] = f[x] + g[u]
      BY <3>4, <3>5, <3>6
    <3> QED BY <3>7 DEF u
  <2> QED BY <2>3, <2>4
<1>2. \A s \in SUBSET S : s \in Q
  <2> HIDE DEF Q
  <2> QED BY <1>1, EverySmaller
<1> QED BY <1>2

\* What is zero outside a part sums to the sum over the part.
LEMMA SumOnPart ==
    ASSUME NEW S, IsFiniteSet(S), NEW f, \A x \in S : f[x] \in Int, NEW T \in SUBSET S,
           \A x \in S \ T : f[x] = 0, NEW g, Sums(f, S, g)
    PROVE  g[S] = g[T]
<1> DEFINE Q == {s \in SUBSET S : g[s] = g[s \cap T]}
<1>1. {} \in Q
  OBVIOUS
<1>2. ASSUME NEW s \in SUBSET S, s # {}, s \ {Pick(s)} \in Q PROVE s \in Q
  <2>0. g[s] = f[Pick(s)] + g[s \ {Pick(s)}]
    BY <1>2 DEF Sums, Body
  <2> DEFINE x == Pick(s)
             t == s \ {x}
             u == s \cap T
  <2>1. x \in s /\ x \in S /\ f[x] \in Int /\ t \in SUBSET S /\ u \in SUBSET S
    BY <1>2, PickIsIn
  <2>2. g[s] = f[x] + g[t]
    BY <2>0
  <2>3. g[t] = g[t \cap T] /\ g[t] \in Int
    BY <1>2, <2>1, SumWhole
  <2> HIDE DEF x
  <2>4. CASE x \in T
    <3>1. t \cap T = u \ {x} /\ x \in u
      BY <2>1, <2>4
    <3> HIDE DEF t, u
    <3>2. g[u] = f[x] + g[u \ {x}]
      BY <2>1, <3>1, SumRemove
    <3>3. g[s] = g[u]
      BY <2>2, <2>3, <3>1, <3>2
    <3> QED BY <3>3 DEF u
  <2>5. CASE x \notin T
    <3>1. t \cap T = u /\ f[x] = 0
      BY <2>1, <2>5
    <3> HIDE DEF t, u
    <3>3. g[t] = g[u]
      BY <2>3, <3>1
    <3>2. g[s] = g[u]
      BY <2>2, <2>3, <3>1, <3>3
    <3> QED BY <3>2 DEF u
  <2> QED BY <2>4, <2>5
<1>3. \A s \in SUBSET S : s \in Q
  <2> HIDE DEF Q
  <2> QED BY <1>1, <1>2, EverySubset
<1>4. S \cap T = T
  OBVIOUS
<1> QED BY <1>3, <1>4

\* A sum looks at no other values than those of its set.
Agree(g, k, T) == \A s \in SUBSET T : k[s] = g[s]

LEMMA SumOfPart ==
    ASSUME NEW S, IsFiniteSet(S), NEW T \in SUBSET S, NEW f, NEW e, \A x \in T : e[x] = f[x],
           NEW g, Sums(f, S, g), NEW k, Sums(e, T, k)
    PROVE  Agree(g, k, T)
<1> DEFINE Q == {s \in SUBSET T : k[s] = g[s]}
<1>0. IsFiniteSet(T)
  BY FS_Subset
<1>1. {} \in Q
  BY SumEmpty
<1>2. ASSUME NEW s \in SUBSET T, s # {}, s \ {Pick(s)} \in Q PROVE s \in Q
  <2>0. s \in SUBSET S /\ s # {}
    BY <1>2
  <2>2. g[s] = f[Pick(s)] + g[s \ {Pick(s)}]
    BY <2>0 DEF Sums, Body
  <2> DEFINE x == Pick(s)
             t == s \ {x}
  <2>1. x \in T
    BY <1>2, PickIsIn
  <2>3. k[s] = e[x] + k[t]
    BY <1>2 DEF Sums, Body
  <2> HIDE DEF x
  <2> QED BY <1>2, <2>1, <2>2, <2>3 DEF x
<1>3. \A s \in SUBSET T : s \in Q
  <2> HIDE DEF Q
  <2> QED BY <1>0, <1>1, <1>2, EverySubset
<1> QED BY <1>3 DEF Agree

\* A value bounded on every element bounds the sum.
LEMMA SumAtMost ==
    ASSUME NEW S, IsFiniteSet(S), NEW f, NEW e, \A x \in S : f[x] \in Int /\ e[x] \in Int /\ f[x] <= e[x],
           NEW g, Sums(f, S, g), NEW k, Sums(e, S, k)
    PROVE  \A s \in SUBSET S : g[s] <= k[s]
<1> DEFINE Q == {s \in SUBSET S : g[s] <= k[s]}
<1>1. {} \in Q
  <2>1. g[{}] = 0 /\ k[{}] = 0
    BY SumEmpty
  <2> QED BY <2>1
<1>2. ASSUME NEW s \in SUBSET S, s # {}, s \ {Pick(s)} \in Q PROVE s \in Q
  <2> DEFINE x == Pick(s)
             t == s \ {x}
  <2>1. x \in S /\ t \in SUBSET S
    BY <1>2, PickIsIn
  <2>2. g[s] = f[x] + g[t] /\ k[s] = e[x] + k[t]
    BY <1>2 DEF Sums, Body
  <2>3. g[t] <= k[t]
    BY <1>2
  <2> HIDE DEF x, t
  <2>4. g[t] \in Int /\ k[t] \in Int
    BY <2>1, SumWhole
  <2>5. f[x] \in Int /\ e[x] \in Int /\ f[x] <= e[x]
    BY <2>1
  <2>6. g[s] <= k[s]
    BY <2>2, <2>3, <2>4, <2>5
  <2> QED BY <2>6
<1>3. \A s \in SUBSET S : s \in Q
  <2> HIDE DEF Q
  <2> QED BY <1>1, <1>2, EverySubset
<1> QED BY <1>3

\* A straight line of every value.
Affine(g, k, a, b, S) == \A s \in SUBSET S : k[s] = a * g[s] + b * Cardinality(s)

LEMMA SumAffine ==
    ASSUME NEW S, IsFiniteSet(S), NEW f, NEW e, NEW a \in Int, NEW b \in Int,
           \A x \in S : f[x] \in Int /\ e[x] = a * f[x] + b,
           NEW g, Sums(f, S, g), NEW k, Sums(e, S, k)
    PROVE  Affine(g, k, a, b, S)
<1> DEFINE Q == {s \in SUBSET S : k[s] = a * g[s] + b * Cardinality(s)}
<1>1. {} \in Q
  <2>1. g[{}] = 0 /\ k[{}] = 0 /\ Cardinality({}) = 0
    BY SumEmpty, FS_EmptySet
  <2> QED BY <2>1
<1>2. ASSUME NEW s \in SUBSET S, s # {}, s \ {Pick(s)} \in Q PROVE s \in Q
  <2> DEFINE x == Pick(s)
             t == s \ {x}
             c == Cardinality(t)
             d == Cardinality(s)
  <2>1. x \in S /\ t \in SUBSET S
    BY <1>2, PickIsIn
  <2>2. g[s] = f[x] + g[t] /\ k[s] = e[x] + k[t]
    BY <1>2 DEF Sums, Body
  <2>3. k[t] = a * g[t] + b * c
    BY <1>2
  <2>4. c \in Nat /\ d \in Nat /\ c = d - 1
    BY <1>2, Smaller
  <2> HIDE DEF x, t, c, d
  <2>5. g[t] \in Int /\ f[x] \in Int /\ e[x] = a * f[x] + b
    BY <2>1, SumWhole
  <2>6. ASSUME NEW u \in Int, NEW w \in Int, NEW m \in Int
        PROVE  (a * u + b) + (a * w + b * (m - 1)) = a * (u + w) + b * m
    BY <2>6
  <2>7. (a * f[x] + b) + (a * g[t] + b * (d - 1)) = a * (f[x] + g[t]) + b * d
    BY <2>4, <2>5, <2>6
  <2>8. k[s] = a * g[s] + b * d
    BY <2>2, <2>3, <2>4, <2>5, <2>7
  <2> QED BY <2>8 DEF d
<1>3. \A s \in SUBSET S : s \in Q
  <2> HIDE DEF Q
  <2> QED BY <1>1, <1>2, EverySubset
<1> QED BY <1>3 DEF Affine
-----------------------------------------------------------------------------
(* The sum of a function over a set. *)

Summed(f, S) == MapThenSumSet(LAMBDA x : f[x], S)

LEMMA SummedIs ==
    ASSUME NEW S, IsFiniteSet(S), NEW f
    PROVE  \E g : Sums(f, S, g) /\ Summed(f, S) = g[S]
<1> DEFINE g == CHOOSE iter : iter = [s \in SUBSET S |->
                    IF s = {} THEN 0 ELSE f[CHOOSE x \in s : TRUE] + iter[s \ {CHOOSE x \in s : TRUE}]]
<1>1. Summed(f, S) = g[S]
  BY DEF Summed, MapThenSumSet, MapThenFoldSet
<1>2. \E e : Sums(f, S, e)
  BY SumExists
<1>3. Sums(f, S, g)
  BY <1>2 DEF Sums, Body, Pick
<1> QED BY <1>1, <1>3

LEMMA SummedUnique ==
    ASSUME NEW S, IsFiniteSet(S), NEW f, NEW g, Sums(f, S, g)
    PROVE  g[S] = Summed(f, S)
<1>1. PICK k : Sums(f, S, k) /\ Summed(f, S) = k[S]
  BY SummedIs
<1>2. Agree(g, k, S)
  BY <1>1, SumOfPart
<1> QED BY <1>1, <1>2 DEF Agree

LEMMA SummedWhole ==
    ASSUME NEW S, IsFiniteSet(S), NEW f, \A x \in S : f[x] \in Int
    PROVE  Summed(f, S) \in Int
BY SummedIs, SumWhole

LEMMA SummedAdds ==
    ASSUME NEW S, IsFiniteSet(S), NEW f, NEW e, NEW d,
           \A x \in S : f[x] \in Int /\ e[x] \in Int /\ d[x] = f[x] + e[x]
    PROVE  Summed(d, S) = Summed(f, S) + Summed(e, S)
<1>1. PICK g : Sums(f, S, g) /\ Summed(f, S) = g[S]
  BY SummedIs
<1>2. PICK k : Sums(e, S, k) /\ Summed(e, S) = k[S]
  BY SummedIs
<1>3. PICK l : Sums(d, S, l) /\ Summed(d, S) = l[S]
  BY SummedIs
<1>4. \A s \in SUBSET S : l[s] = g[s] + k[s]
  BY <1>1, <1>2, <1>3, SumAdds
<1> QED BY <1>1, <1>2, <1>3, <1>4

LEMMA SummedAtMost ==
    ASSUME NEW S, IsFiniteSet(S), NEW f, NEW e, \A x \in S : f[x] \in Int /\ e[x] \in Int /\ f[x] <= e[x]
    PROVE  Summed(f, S) <= Summed(e, S)
<1>1. PICK g : Sums(f, S, g) /\ Summed(f, S) = g[S]
  BY SummedIs
<1>2. PICK k : Sums(e, S, k) /\ Summed(e, S) = k[S]
  BY SummedIs
<1>3. \A s \in SUBSET S : g[s] <= k[s]
  BY <1>1, <1>2, SumAtMost
<1> QED BY <1>1, <1>2, <1>3

LEMMA SummedAffine ==
    ASSUME NEW S, IsFiniteSet(S), NEW f, NEW e, NEW a \in Int, NEW b \in Int,
           \A x \in S : f[x] \in Int /\ e[x] = a * f[x] + b
    PROVE  Summed(e, S) = a * Summed(f, S) + b * Cardinality(S)
<1>1. PICK g : Sums(f, S, g) /\ Summed(f, S) = g[S]
  BY SummedIs
<1>2. PICK k : Sums(e, S, k) /\ Summed(e, S) = k[S]
  BY SummedIs
<1>3. Affine(g, k, a, b, S)
  BY <1>1, <1>2, SumAffine
<1> QED BY <1>1, <1>2, <1>3 DEF Affine

LEMMA SummedPart ==
    ASSUME NEW S, IsFiniteSet(S), NEW T \in SUBSET S, NEW f, NEW e, \A x \in S : f[x] \in Int,
           \A x \in S \ T : f[x] = 0, \A x \in T : e[x] = f[x]
    PROVE  Summed(f, S) = Summed(e, T)
<1>1. PICK g : Sums(f, S, g) /\ Summed(f, S) = g[S]
  BY SummedIs
<1>2. IsFiniteSet(T)
  BY FS_Subset
<1>3. PICK k : Sums(e, T, k) /\ Summed(e, T) = k[T]
  BY <1>2, SummedIs
<1>4. g[S] = g[T]
  BY <1>1, SumOnPart
<1>5. Agree(g, k, T)
  BY <1>1, <1>3, SumOfPart
<1> QED BY <1>1, <1>3, <1>4, <1>5 DEF Agree

\* No less than what a part sums to, where nothing is negative.
LEMMA SummedAtLeast ==
    ASSUME NEW S, IsFiniteSet(S), NEW T \in SUBSET S, NEW f, \A x \in S : f[x] \in Nat
    PROVE  Summed(f, T) <= Summed(f, S)
<1> DEFINE e == [x \in S |-> IF x \in T THEN f[x] ELSE 0]
<1>1. \A x \in S : e[x] \in Int /\ f[x] \in Int /\ e[x] <= f[x]
  OBVIOUS
<1>2. /\ \A x \in S \ T : e[x] = 0
      /\ \A x \in T : f[x] = e[x]
  OBVIOUS
<1> HIDE DEF e
<1>3. Summed(e, S) = Summed(f, T)
  BY <1>1, <1>2, SummedPart
<1>4. Summed(e, S) <= Summed(f, S)
  BY <1>1, SummedAtMost
<1> QED BY <1>3, <1>4

LEMMA SummedNothing == ASSUME NEW f PROVE Summed(f, {}) = 0
<1>1. IsFiniteSet({})
  BY FS_EmptySet
<1>2. PICK g : Sums(f, {}, g) /\ Summed(f, {}) = g[{}]
  BY <1>1, SummedIs
<1> QED BY <1>2, SumEmpty

LEMMA SummedOne == ASSUME NEW x, NEW f, f[x] \in Int PROVE Summed(f, {x}) = f[x]
<1>1. IsFiniteSet({x})
  BY FS_Singleton
<1>2. PICK g : Sums(f, {x}, g) /\ Summed(f, {x}) = g[{x}]
  BY <1>1, SummedIs
<1>3. \A s \in SUBSET {x} : g[s] = IF x \in s THEN f[x] ELSE 0
  BY <1>1, <1>2, SumOfOne
<1> QED BY <1>2, <1>3
=============================================================================
