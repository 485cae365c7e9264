---------------------------- MODULE ForecastProofs ----------------------------
(***************************************************************************)
(* What holds of Forecast for every frame, granularity and plan.  The       *)
(* intervals tile the frame, each inside one calendar year (SpansTile):     *)
(* what is due on a date is due in one interval.  On that rest, in order:   *)
(* the sales and the returns that show them, the loans and their monthly    *)
(* schedule, the cycles of a replaced vehicle, the flows charged on each of *)
(* their dates, and the costs that a sale of a property ends and opens.     *)
(***************************************************************************)
EXTENDS Forecast, MoneyProofs, FunctionTheorems

\* A recursion over the integers of an interval has its function.
Recursion(f, lo, hi, V, base, step) ==
    /\ f \in [lo .. hi -> V] /\ f[lo] = base
    /\ \A n \in lo + 1 .. hi : f[n] = step[<<n, f[n - 1]>>]

LEMMA RecursionExists ==
    ASSUME NEW lo \in Int, NEW hi \in Int, lo <= hi,
           NEW V, NEW base \in V, NEW step \in [Int \X V -> V]
    PROVE  \E f : Recursion(f, lo, hi, V, base, step)
<1> DEFINE Good(f, m) == /\ f \in [lo .. lo + m -> V] /\ f[lo] = base
                         /\ \A n \in lo + 1 .. lo + m : f[n] = step[<<n, f[n - 1]>>]
           Bad == {m \in Nat : ~ \E f : Good(f, m)}
<1>1. \E f : Good(f, 0)
  <2>1. Good([n \in lo .. lo + 0 |-> base], 0)
    OBVIOUS
  <2> QED BY <2>1
<1>2. ASSUME NEW m \in Nat, \E f : Good(f, m) PROVE \E f : Good(f, m + 1)
  <2>1. PICK f : Good(f, m)
    BY <1>2
  <2> DEFINE g == [n \in lo .. lo + (m + 1) |-> IF n = lo + (m + 1) THEN step[<<n, f[n - 1]>>] ELSE f[n]]
  <2>2. \A n \in lo .. lo + m : g[n] = f[n] /\ f[n] \in V
    BY <2>1
  <2>3. lo + m \in lo .. lo + m /\ lo + (m + 1) \in Int /\ (lo + (m + 1)) - 1 = lo + m
    OBVIOUS
  <2>4. g[lo + (m + 1)] = step[<<lo + (m + 1), f[lo + m]>>]
    BY <2>3
  <2>5. step[<<lo + (m + 1), f[lo + m]>>] \in V
    BY <2>2, <2>3
  <2>6. g \in [lo .. lo + (m + 1) -> V]
    <3>1. ASSUME NEW n \in lo .. lo + (m + 1) PROVE g[n] \in V
      <4>1. n = lo + (m + 1) \/ n \in lo .. lo + m
        OBVIOUS
      <4> HIDE DEF g
      <4> QED BY <4>1, <2>2, <2>4, <2>5
    <3> HIDE DEF Good
    <3> QED BY <3>1
  <2>7. ASSUME NEW n \in lo + 1 .. lo + (m + 1) PROVE g[n] = step[<<n, g[n - 1]>>]
    <3>1. n - 1 \in lo .. lo + m
      OBVIOUS
    <3>2. g[n - 1] = f[n - 1]
      BY <2>2, <3>1
    <3>3. CASE n = lo + (m + 1)
      BY <2>4, <3>2, <3>3, <2>3
    <3>4. CASE n # lo + (m + 1)
      BY <2>1, <2>2, <3>1, <3>2, <3>4
    <3> QED BY <3>3, <3>4
  <2>8. g[lo] = base
    BY <2>1, <2>2
  <2>9. Good(g, m + 1)
    <3> HIDE DEF g
    <3> QED BY <2>6, <2>7, <2>8
  <2> HIDE DEF g, Good
  <2> QED BY <2>9
<1>3. Bad = {}
  <2> SUFFICES ASSUME Bad # {} PROVE FALSE
    OBVIOUS
  <2>1. PICK n \in Bad : \A m \in Bad : n <= m
    <3> HIDE DEF Good
    <3> QED BY Smallest
  <2> HIDE DEF Good
  <2>2. n \in Nat /\ n # 0
    BY <1>1, <2>1
  <2>3. n - 1 \in Nat /\ n - 1 \notin Bad
    BY <2>1, <2>2
  <2>4. \E f : Good(f, (n - 1) + 1)
    BY <1>2, <2>3
  <2>5. (n - 1) + 1 = n
    BY <2>2
  <2> QED BY <2>1, <2>4, <2>5
<1>4. hi - lo \in Nat /\ lo + (hi - lo) = hi
  OBVIOUS
<1>5. PICK f : Good(f, hi - lo)
  <2> HIDE DEF Good
  <2> QED BY <1>3, <1>4
<1> QED BY <1>4, <1>5 DEF Recursion
-----------------------------------------------------------------------------
(* The intervals tile the frame. *)

Interval == [start : Int, end : Int]

\* An interval starts on the first of a month, and ends in the same year, on the last day
\* of a month or where the frame ends.
Cut(s) == /\ s.start <= s.end /\ s.start % 2 = 0 /\ YearOf(s.start) = YearOf(s.end)
          /\ s.end % 2 = 1 \/ s.end = End

Tiles(q, a, b) ==
    /\ q \in Seq(Interval) /\ Len(q) >= 1
    /\ q[1].start = a /\ q[Len(q)].end = b
    /\ \A n \in 1 .. Len(q) : Cut(q[n])
    /\ \A n \in 1 .. Len(q) : n > 1 => q[n].start = q[n - 1].end + 1

LEMMA TilesAppend ==
    ASSUME NEW p, NEW q, NEW a \in Int, NEW b \in Int, NEW c \in Int,
           Tiles(p, a, b), Tiles(q, b + 1, c)
    PROVE  Tiles(p \o q, a, c)
<1> DEFINE r == p \o q
           P == Len(p)
           Q == Len(q)
<1>1. /\ p \in Seq(Interval) /\ q \in Seq(Interval) /\ P \in Nat \ {0} /\ Q \in Nat \ {0}
  BY DEF Tiles
<1>2. /\ r \in Seq(Interval) /\ Len(r) = P + Q
      /\ \A n \in 1 .. P : r[n] = p[n]
      /\ \A n \in P + 1 .. P + Q : r[n] = q[n - P]
  BY <1>1
<1>3. r[1].start = a /\ r[Len(r)].end = c
  <2>1. 1 \in 1 .. P /\ P + Q \in P + 1 .. P + Q /\ (P + Q) - P = Q
    BY <1>1
  <2> QED BY <1>2, <2>1 DEF Tiles
<1>4. ASSUME NEW n \in 1 .. P + Q PROVE Cut(r[n])
  <2>1. CASE n \in 1 .. P
    BY <1>2, <2>1 DEF Tiles
  <2>2. CASE n \notin 1 .. P
    <3>1. n \in P + 1 .. P + Q /\ n - P \in 1 .. Q
      BY <1>1, <2>2
    <3> QED BY <1>2, <3>1 DEF Tiles
  <2> QED BY <2>1, <2>2
<1>5. ASSUME NEW n \in 1 .. P + Q, n > 1 PROVE r[n].start = r[n - 1].end + 1
  <2>1. CASE n \in 1 .. P
    <3>1. n - 1 \in 1 .. P
      BY <1>5, <2>1, <1>1
    <3> QED BY <1>2, <1>5, <2>1, <3>1 DEF Tiles
  <2>2. CASE n = P + 1
    <3>1. n \in P + 1 .. P + Q /\ n - P = 1 /\ n - 1 = P /\ P \in 1 .. P
      BY <1>1, <2>2
    <3>2. r[n] = q[1] /\ r[n - 1] = p[P]
      BY <1>2, <3>1
    <3> QED BY <3>2 DEF Tiles
  <2>3. CASE n > P + 1
    <3>1. n \in P + 1 .. P + Q /\ n - 1 \in P + 1 .. P + Q /\ n - P \in 1 .. Q /\ n - P > 1
          /\ (n - P) - 1 = (n - 1) - P
      BY <1>1, <2>3
    <3>2. r[n] = q[n - P] /\ r[n - 1] = q[(n - P) - 1]
      BY <1>2, <3>1
    <3> QED BY <3>1, <3>2 DEF Tiles
  <2>4. n \in 1 .. P \/ n = P + 1 \/ n > P + 1
    <3> HIDE DEF P, Q
    <3> QED BY <1>1
  <2> HIDE DEF r, P, Q
  <2> QED BY <2>1, <2>2, <2>3, <2>4
<1>6. Tiles(r, a, c)
  <2> HIDE DEF r, P, Q
  <2>1. Len(r) >= 1 /\ Len(r) = P + Q
    BY <1>1, <1>2
  <2> QED BY <1>2, <1>3, <1>4, <1>5, <2>1 DEF Tiles
<1> QED BY <1>6

\* The part of a year inside the frame, and its slices.
YearFrom(y) == IF Start > YearStart(y) THEN Start ELSE YearStart(y)
YearTo(y)   == IF End < YearEnd(y) THEN End ELSE YearEnd(y)
Slice(every, y, n) ==
    LET cursor == AddMonths(YearFrom(y), n * every) IN
    [start |-> cursor,
     end   |-> IF cursor + 2 * every - 1 < YearTo(y) THEN cursor + 2 * every - 1 ELSE YearTo(y)]
Slices(every, y) ==
    [n \in 1 .. ((YearTo(y) - YearFrom(y) + 2 * every) \div (2 * every)) |-> Slice(every, y, n - 1)]

LEMMA YearInFrame ==
    ASSUME NEW y \in YearOf(Start) .. YearOf(End)
    PROVE  /\ y \in Nat /\ YearFrom(y) \in Nat /\ YearTo(y) \in Nat /\ YearFrom(y) <= YearTo(y)
           /\ YearFrom(y) % 2 = 0 /\ (YearTo(y) % 2 = 1 \/ YearTo(y) = End)
           /\ 24 * y <= YearFrom(y) /\ YearTo(y) <= 24 * y + 23
           /\ (y # YearOf(Start) => YearFrom(y) = 24 * y) /\ (y # YearOf(End) => YearTo(y) = 24 * y + 23)
           /\ YearFrom(YearOf(Start)) = Start /\ YearTo(YearOf(End)) = End
BY ParametersAssumption DEF YearFrom, YearTo, YearOf, YearStart, YearEnd

LEMMA SlicesTile ==
    ASSUME NEW every \in Granularities, NEW y \in YearOf(Start) .. YearOf(End)
    PROVE  Tiles(Slices(every, y), YearFrom(y), YearTo(y))
<1> DEFINE a == YearFrom(y)
           b == YearTo(y)
           e == 2 * every
           c == (b - a + e) \div e
           q == Slices(every, y)
<1>1. every \in Nat \ {0}
  BY ParametersAssumption
<1>2. a \in Nat /\ b \in Nat /\ a <= b /\ a % 2 = 0 /\ (b % 2 = 1 \/ b = End) /\ 24 * y <= a /\ b <= 24 * y + 23 /\ y \in Nat
  BY YearInFrame
<1>3. e \in Nat \ {0}
  BY <1>1
<1>4. c \in Nat \ {0} /\ (c - 1) * e <= b - a /\ b - a < c * e
  <2>1. b - a + e \in Nat /\ b - a + e >= e
    BY <1>2, <1>3
  <2> DEFINE z == b - a + e
  <2>2. c \in Nat /\ c * e <= z /\ z < c * e + e /\ z \in Nat
    <3> HIDE DEF a, b
    <3>1. z \in Nat
      BY <2>1
    <3> HIDE DEF z, e
    <3>2. z \div e \in Nat /\ (z \div e) * e <= z /\ z < (z \div e) * e + e
      BY <3>1, <1>3
    <3> QED BY <3>1, <3>2 DEF z
  <2>3. c # 0
    BY <2>1, <2>2, <1>3
  <2>4. (c - 1) * e = c * e - e
    BY <2>2, <1>3
  <2> HIDE DEF c, e
  <2>5. z = b - a + e
    OBVIOUS
  <2> HIDE DEF z, a, b
  <2> QED BY <2>2, <2>3, <2>4, <2>5, <1>2, <1>3
<1>5. q = [n \in 1 .. c |-> Slice(every, y, n - 1)]
  BY DEF Slices
<1>6. ASSUME NEW n \in 1 .. c
      PROVE  /\ q[n] \in Interval /\ q[n].start = a + (n - 1) * e
             /\ q[n].end = IF n = c THEN b ELSE a + n * e - 1
             /\ a <= q[n].start /\ q[n].start <= q[n].end /\ q[n].end <= b
             /\ q[n].start % 2 = 0 /\ (q[n].end % 2 = 1 \/ q[n].end = b)
  <2> DEFINE x == (n - 1) * every
             u == (n - 1) * e
             v == n * e
  <2>1. x \in Nat /\ u \in Nat /\ v \in Nat /\ u = 2 * x /\ v = u + e
    BY <1>1, <1>3, <1>4
  <2>2. u <= (c - 1) * e
    <3>1. n - 1 \in Nat /\ c - 1 \in Nat /\ n - 1 <= c - 1
      BY <1>4
    <3> HIDE DEF c, e
    <3> QED BY <3>1, <1>3
  <2>3. n # c => v <= (c - 1) * e
    <3>1. n \in Nat /\ c - 1 \in Nat /\ (n # c => n <= c - 1)
      BY <1>4
    <3> HIDE DEF c, e
    <3> QED BY <3>1, <1>3
  <2>4. n = c => v = c * e
    OBVIOUS
  <2>5. q[n] = [start |-> a + 2 * x, end |-> IF a + 2 * x + e - 1 < b THEN a + 2 * x + e - 1 ELSE b]
    BY <1>5 DEF Slice, AddMonths
  <2> HIDE DEF q, c, x, u, v
  <2>6. n # c => a + 2 * x + e - 1 < b
    <3> HIDE DEF a, b, e
    <3> QED BY <1>2, <1>3, <1>4, <2>1, <2>3
  <2>7. n = c => ~(a + 2 * x + e - 1 < b)
    <3> HIDE DEF a, b, e
    <3> QED BY <1>2, <1>3, <1>4, <2>1, <2>4
  <2>8. q[n].start = a + u /\ q[n].end = IF n = c THEN b ELSE a + v - 1
    <3> HIDE DEF a, b, e
    <3> QED BY <1>2, <1>3, <2>1, <2>5, <2>6, <2>7
  <2>9. q[n] \in Interval
    <3> HIDE DEF a, b, e
    <3> QED BY <1>2, <1>3, <2>1, <2>5 DEF Interval
  <2>10. a <= a + u /\ a + u <= b /\ (n # c => a + u <= a + v - 1 /\ a + v - 1 <= b)
    <3> HIDE DEF a, b, e
    <3> QED BY <1>2, <1>3, <1>4, <2>1, <2>2, <2>6
  <2>11. (a + u) % 2 = 0 /\ (n # c => (a + v - 1) % 2 = 1)
    <3>1. a + u = a + 2 * x /\ a + v - 1 = a + 2 * (x + every) - 1 /\ x + every \in Nat
      <4> HIDE DEF a, b
      <4> QED BY <1>1, <1>2, <2>1
    <3> HIDE DEF a, b
    <3> QED BY <3>1, <1>2, <2>1
  <2>12. q[n].start = a + u /\ q[n].end = (IF n = c THEN b ELSE a + v - 1) /\ b <= b
    <3> HIDE DEF a, b, e
    <3> QED BY <2>8, <1>2
  <2>13. /\ a <= q[n].start /\ q[n].start <= q[n].end /\ q[n].end <= b
         /\ q[n].start % 2 = 0 /\ (q[n].end % 2 = 1 \/ q[n].end = b)
    <3> HIDE DEF a, b, e
    <3> QED BY <2>12, <2>10, <2>11
  <2> HIDE DEF a, b, e
  <2> QED BY <2>9, <2>12, <2>13 DEF u, v
<1> HIDE DEF q, c, e, a, b
<1>7. q \in Seq(Interval) /\ Len(q) = c
  <2>1. \A n \in 1 .. c : q[n] \in Interval
    BY <1>6
  <2>2. q = [n \in 1 .. c |-> q[n]]
    BY <1>5
  <2> QED BY <2>1, <2>2, <1>4
<1>8. ASSUME NEW n \in 1 .. c PROVE Cut(q[n])
  <2> DEFINE s == q[n].start
             t == q[n].end
  <2>1. s \in Int /\ t \in Int /\ a <= s /\ s <= t /\ t <= b /\ s % 2 = 0 /\ (t % 2 = 1 \/ t = b)
    BY <1>6 DEF Interval
  <2>2. YearOf(s) = YearOf(t)
    <3> HIDE DEF s, t
    <3>1. 24 * y <= s /\ s <= 24 * y + 23 /\ 24 * y <= t /\ t <= 24 * y + 23
      BY <1>2, <2>1
    <3> QED BY <3>1, <1>2, <2>1 DEF YearOf
  <2>3. t % 2 = 1 \/ t = End
    BY <1>2, <2>1
  <2> QED BY <2>1, <2>2, <2>3 DEF Cut
<1>9. ASSUME NEW n \in 1 .. c, n > 1 PROVE q[n].start = q[n - 1].end + 1
  <2>1. n - 1 \in 1 .. c /\ n - 1 # c
    BY <1>9, <1>4
  <2>2. q[n].start = a + (n - 1) * e /\ q[n - 1].end = a + (n - 1) * e - 1
    BY <2>1, <1>6
  <2>3. (n - 1) * e \in Int
    BY <1>3, <2>1
  <2> QED BY <2>2, <2>3, <1>2
<1>10. q[1].start = a /\ q[c].end = b
  <2>1. 1 \in 1 .. c /\ c \in 1 .. c /\ (1 - 1) * e = 0
    BY <1>3, <1>4
  <2> QED BY <2>1, <1>2, <1>6
<1> QED BY <1>4, <1>7, <1>8, <1>9, <1>10 DEF Tiles, q, a, b

\* The intervals of a frame tile it, at every granularity.
LEMMA SpansTile ==
    ASSUME NEW every \in Granularities
    PROVE  Tiles(SpansOf(Start, End, every), Start, End)
<1> DEFINE lo == YearOf(Start) - 1
           hi == YearOf(End)
           V  == Seq(Interval)
           Part(y) == IF y \in YearOf(Start) .. YearOf(End) THEN Slices(every, y) ELSE <<>>
           step == [yv \in Int \X V |-> yv[2] \o Part(yv[1])]
<1>1. lo \in Int /\ hi \in Int /\ lo < hi /\ lo + 1 = YearOf(Start) /\ YearOf(Start) \in Int
  BY ParametersAssumption DEF YearOf
<1>2. \A y : Part(y) \in V
  BY SlicesTile DEF Tiles
<1>3. step \in [Int \X V -> V]
  <2> HIDE DEF Part
  <2>1. ASSUME NEW yv \in Int \X V PROVE yv[2] \o Part(yv[1]) \in V
    BY <1>2
  <2> QED BY <2>1
<1>4. <<>> \in V
  OBVIOUS
<1>5. PICK f : f \in [lo .. hi -> V] /\ f[lo] = <<>> /\ \A n \in lo + 1 .. hi : f[n] = step[<<n, f[n - 1]>>]
  <2> HIDE DEF lo, hi, V, step
  <2>1. lo <= hi
    BY <1>1
  <2>2. \E f : Recursion(f, lo, hi, V, <<>>, step)
    BY <1>1, <1>3, <1>4, <2>1, RecursionExists
  <2> QED BY <2>2 DEF Recursion
<1>6. ASSUME NEW y \in lo + 1 .. hi PROVE f[y] = f[y - 1] \o Slices(every, y)
  <2>1. y - 1 \in lo .. hi /\ y \in Int /\ y \in YearOf(Start) .. YearOf(End)
    BY <1>1
  <2>2. f[y - 1] \in V
    BY <2>1, <1>5
  <2>3. step[<<y, f[y - 1]>>] = f[y - 1] \o Part(y)
    <3> HIDE DEF Part
    <3> QED BY <2>1, <2>2
  <2> HIDE DEF step
  <2> QED BY <1>5, <2>1, <2>3
<1> DEFINE Equation(g) == g = [y \in lo .. hi |-> IF y < YearOf(Start) THEN <<>> ELSE g[y - 1] \o Slices(every, y)]
<1>7. Equation(f)
  <2>1. ASSUME NEW y \in lo .. hi
        PROVE  f[y] = IF y < YearOf(Start) THEN <<>> ELSE f[y - 1] \o Slices(every, y)
    <3>1. CASE y = lo
      BY <1>1, <1>5, <3>1
    <3>2. CASE y # lo
      <4>1. y \in lo + 1 .. hi /\ ~(y < YearOf(Start))
        BY <1>1, <3>2
      <4> QED BY <4>1, <1>6
    <3> QED BY <3>1, <3>2
  <2>2. f = [y \in lo .. hi |-> f[y]]
    BY <1>5
  <2> HIDE DEF lo, hi, V, step
  <2> QED BY <2>1, <2>2
<1> DEFINE u == CHOOSE upTo : upTo = [y \in lo .. hi |-> IF y < YearOf(Start) THEN <<>> ELSE upTo[y - 1] \o Slices(every, y)]
<1>8. SpansOf(Start, End, every) = u[YearOf(End)]
  BY DEF SpansOf, Slices, Slice, YearFrom, YearTo
<1>9. Equation(u)
  BY <1>7
<1>10. u[lo] = <<>> /\ \A y \in lo + 1 .. hi : u[y] = u[y - 1] \o Slices(every, y)
  <2> HIDE DEF u
  <2>1. lo \in lo .. hi /\ lo < YearOf(Start)
    BY <1>1
  <2>2. \A y \in lo + 1 .. hi : y \in lo .. hi /\ ~(y < YearOf(Start))
    BY <1>1
  <2> HIDE DEF lo, hi
  <2> QED BY <1>9, <2>1, <2>2
<1> HIDE DEF u, Equation, step, Part
<1> DEFINE Bad == {n \in Nat : YearOf(Start) + n <= hi /\ ~Tiles(u[YearOf(Start) + n], Start, YearTo(YearOf(Start) + n))}
<1>11. Bad = {}
  <2> SUFFICES ASSUME Bad # {} PROVE FALSE
    OBVIOUS
  <2>1. PICK n \in Bad : \A m \in Bad : n <= m
    BY Smallest
  <2> DEFINE y == YearOf(Start) + n
  <2>2. n \in Nat /\ y \in lo + 1 .. hi /\ y \in YearOf(Start) .. YearOf(End) /\ ~Tiles(u[y], Start, YearTo(y))
    BY <2>1, <1>1
  <2>3. Tiles(Slices(every, y), YearFrom(y), YearTo(y))
    BY <2>2, SlicesTile
  <2>4. u[y] = u[y - 1] \o Slices(every, y)
    BY <2>2, <1>10
  <2>5. CASE n = 0
    <3>1. y - 1 = lo /\ y = YearOf(Start)
      BY <2>5, <1>1
    <3>2. u[y - 1] = <<>>
      BY <3>1, <1>10
    <3>3. u[y] = Slices(every, y)
      <4>1. Slices(every, y) \in Seq(Interval)
        BY <2>3 DEF Tiles
      <4> QED BY <2>4, <3>2, <4>1
    <3>4. YearFrom(y) = Start
      BY <2>2, <3>1, YearInFrame
    <3> QED BY <2>2, <2>3, <3>3, <3>4
  <2>6. CASE n # 0
    <3>1. n - 1 \in Nat /\ n - 1 \notin Bad
      BY <2>1, <2>2, <2>6
    <3>2. YearOf(Start) + (n - 1) = y - 1 /\ y - 1 \in YearOf(Start) .. YearOf(End) /\ y - 1 # YearOf(End) /\ y # YearOf(Start)
      BY <2>2, <2>6, <1>1
    <3>3. Tiles(u[y - 1], Start, YearTo(y - 1))
      BY <3>1, <3>2, <1>1
    <3>4. YearTo(y - 1) \in Nat /\ YearTo(y - 1) + 1 = YearFrom(y) /\ YearTo(y) \in Nat
      <4> HIDE DEF y
      <4>1. YearTo(y - 1) = 24 * (y - 1) + 23 /\ YearFrom(y) = 24 * y /\ YearTo(y) \in Nat /\ y \in Nat /\ YearTo(y - 1) \in Nat
        BY <2>2, <3>2, YearInFrame
      <4> QED BY <4>1
    <3>5. Tiles(u[y - 1] \o Slices(every, y), Start, YearTo(y))
      <4> HIDE DEF y, u
      <4> QED BY <2>3, <3>3, <3>4, TilesAppend, ParametersAssumption
    <3> QED BY <2>2, <2>4, <3>5
  <2> QED BY <2>5, <2>6
<1>12. YearOf(End) - YearOf(Start) \in Nat /\ YearOf(Start) + (YearOf(End) - YearOf(Start)) = hi
  BY <1>1
<1>13. Tiles(u[hi], Start, YearTo(hi))
  <2> DEFINE n == YearOf(End) - YearOf(Start)
  <2>1. n \in Nat /\ YearOf(Start) + n = hi /\ n \notin Bad
    BY <1>11, <1>12
  <2>2. YearOf(Start) + n <= hi
    BY <1>1, <2>1
  <2>3. Tiles(u[YearOf(Start) + n], Start, YearTo(YearOf(Start) + n))
    <3> HIDE DEF n, hi
    <3> QED BY <2>1, <2>2
  <2> HIDE DEF n
  <2> QED BY <2>1, <2>3
<1>14. YearTo(hi) = End
  <2>1. YearOf(End) \in YearOf(Start) .. YearOf(End)
    BY <1>1
  <2> QED BY <2>1, YearInFrame
<1> QED BY <1>8, <1>13, <1>14
-----------------------------------------------------------------------------
(* The walk. *)

Constructed(p, every) ==
    [spans |-> SpansOf(Start, End, every), household |-> p.household,
     schedule |-> p.schedule \cup AllRollovers(p), recurring |-> p.recurring,
     loans |-> [handle \in {l.handle : l \in AllLoans(p)} |->
                   Resolved(CHOOSE l \in AllLoans(p) : l.handle = handle)],
     flow |-> p.flow, property |-> p.property]

\* The intervals computed so far, and the last day they reach.
Computed == IF stage = "close" THEN k ELSE k - 1
Upto     == IF Computed = 0 THEN Start - 1 ELSE plan.spans[Computed].end

\* The parameters are those of a plan, the intervals tile the frame, and the walk is inside it.
WalkInv ==
    /\ \E p \in Plans, every \in Granularities : plan = Constructed(p, every)
    /\ Tiles(plan.spans, Start, End)
    /\ k \in Nat \ {0} /\ k <= Len(plan.spans) + 1
    /\ stage \in {"open", "compute", "close", "stopped"}
    /\ stage \in {"compute", "close"} => k <= Len(plan.spans)
    /\ stage # "close" => reported = {}
    /\ Upto \in Int /\ Upto >= Start - 1

\* The interval about to be computed follows the last one.
SpanNext ==
    /\ Span \in Interval /\ Cut(Span)
    /\ Span.start \in Nat /\ Span.end \in Nat /\ Span.start <= Span.end
    /\ Span.start = Upto + 1 /\ Span.start >= Start /\ Span.start % 2 = 0
    /\ YearOf(Span.start) = YearOf(Span.end)

LEMMA SpanFollows ==
    ASSUME WalkInv, stage = "compute"
    PROVE  SpanNext
<1>1. k \in 1 .. Len(plan.spans) /\ k \in Nat /\ Computed = k - 1 /\ plan.spans \in Seq(Interval)
  BY DEF WalkInv, Computed, Tiles
<1>2. Span \in Interval /\ Cut(Span)
  BY <1>1 DEF Span, WalkInv, Tiles
<1>3. Span.start = Upto + 1
  <2>1. CASE k = 1
    BY <1>1, <2>1, ParametersAssumption DEF Upto, Span, WalkInv, Tiles
  <2>2. CASE k # 1
    BY <1>1, <2>2 DEF Upto, Span, WalkInv, Tiles
  <2> QED BY <2>1, <2>2
<1>4. Span.start \in Int /\ Span.end \in Int
  BY <1>2 DEF Interval
<1>5. Upto \in Int /\ Upto >= Start - 1 /\ Start \in Nat
  BY ParametersAssumption DEF WalkInv
<1> QED BY <1>2, <1>3, <1>4, <1>5 DEF SpanNext, Cut

LEMMA WalkStart == Init => WalkInv /\ Upto = Start - 1 /\ stage = "open"
<1> SUFFICES ASSUME Init PROVE WalkInv /\ Upto = Start - 1 /\ stage = "open"
  OBVIOUS
<1>1. PICK p \in Plans, every \in Granularities : plan = Constructed(p, every)
  BY DEF Init, Constructed
<1>2. plan.spans = SpansOf(Start, End, every)
  BY <1>1 DEF Constructed
<1>3. Tiles(plan.spans, Start, End) /\ Len(plan.spans) \in Nat
  BY <1>2, SpansTile DEF Tiles
<1>4. k = 1 /\ stage = "open" /\ reported = {}
  BY DEF Init
<1> QED BY <1>1, <1>3, <1>4, ParametersAssumption DEF WalkInv, Computed, Upto

\* Computing an interval reaches its end; no other step moves the walk.
LEMMA WalkCompute ==
    ASSUME WalkInv, ComputeInterval
    PROVE  WalkInv' /\ plan' = plan /\ Span' = Span /\ Upto' = Span.end /\ stage = "compute" /\ stage' = "close"
<1>1. SpanNext /\ stage = "compute" /\ stage' = "close" /\ plan' = plan /\ k' = k
  BY SpanFollows DEF ComputeInterval
<1>2. Span' = Span /\ Computed' = k /\ k # 0
  BY <1>1 DEF Span, Computed, WalkInv
<1>3. Upto' = Span.end
  BY <1>1, <1>2 DEF Upto, Span
<1>4. Span.end \in Int /\ Span.end >= Start - 1
  BY <1>1, ParametersAssumption DEF SpanNext
<1>5. Tiles(plan.spans, Start, End)' /\ (\E p \in Plans, every \in Granularities : plan = Constructed(p, every))'
  <2>1. Tiles(plan.spans, Start, End) /\ \E p \in Plans, every \in Granularities : plan = Constructed(p, every)
    BY DEF WalkInv
  <2> QED BY <1>1, <2>1 DEF Tiles, Cut, Constructed
<1> QED BY <1>1, <1>2, <1>3, <1>4, <1>5 DEF WalkInv

LEMMA WalkOther ==
    ASSUME WalkInv, OpenInterval \/ CloseInterval \/ UNCHANGED vars
    PROVE  WalkInv' /\ plan' = plan /\ Upto' = Upto
<1>1. plan' = plan
  BY DEF OpenInterval, CloseInterval, vars
<1>2. Tiles(plan.spans, Start, End)' /\ (\E p \in Plans, every \in Granularities : plan = Constructed(p, every))'
  <2>1. Tiles(plan.spans, Start, End) /\ \E p \in Plans, every \in Granularities : plan = Constructed(p, every)
    BY DEF WalkInv
  <2> QED BY <1>1, <2>1 DEF Tiles, Cut, Constructed
<1>3. Len(plan.spans) \in Nat
  BY DEF WalkInv, Tiles
<1>4. CASE OpenInterval
  <2>1. stage = "open" /\ k' = k /\ reported' = reported /\ stage' \in {"stopped", "compute"}
    BY <1>4 DEF OpenInterval
  <2>2. stage' = "compute" => k <= Len(plan.spans)
    BY <1>3, <1>4 DEF OpenInterval, WalkInv
  <2>3. Computed' = Computed
    BY <2>1 DEF Computed
  <2>4. Upto' = Upto
    BY <1>1, <2>3 DEF Upto
  <2> QED BY <1>1, <1>2, <2>1, <2>2, <2>4 DEF WalkInv
<1>5. CASE CloseInterval
  <2>1. stage = "close" /\ k' = k + 1 /\ reported' = {} /\ stage' \in {"open", "stopped"} /\ k <= Len(plan.spans) /\ k \in Nat \ {0}
    BY <1>5 DEF CloseInterval, WalkInv
  <2>2. Computed' = Computed
    BY <2>1 DEF Computed
  <2>3. Upto' = Upto
    BY <1>1, <2>2 DEF Upto
  <2> QED BY <1>1, <1>2, <1>3, <2>1, <2>3 DEF WalkInv
<1>6. CASE UNCHANGED vars
  <2>1. k' = k /\ stage' = stage /\ reported' = reported
    BY <1>6 DEF vars
  <2>2. Upto' = Upto
    BY <1>1, <2>1 DEF Upto, Computed
  <2> QED BY <1>1, <1>2, <2>1, <2>2 DEF WalkInv
<1> QED BY <1>1, <1>4, <1>5, <1>6
-----------------------------------------------------------------------------
(* The sales, and the returns they are reported on. *)

ReturnsSet == [settled : SUBSET Int, flagged : SUBSET Int,
               shown : [Properties -> SUBSET Int], recaptured : [Properties -> SUBSET Int]]

\* Every sale so far is of a property and falls in an interval computed; none is sold twice.
SalesInv ==
    /\ \A s \in sales \cup reported : s.property \in Properties /\ s.on \in Nat /\ s.on <= Upto
    /\ \A s, r \in sales \cup reported : s.property = r.property => s = r

\* A rental is on the returns as the sales so far say, those not yet recorded included.
Accrues(p, y) == y \in returns.recaptured[p] <=> \E s \in sales \cup reported : s.property = p /\ YearOf(s.on) = y
ShownAsHeld(p, y) == y \in returns.shown[p] <=> \A s \in sales \cup reported : s.property = p => YearOf(s.on) >= y
ReturnsInv ==
    /\ returns \in ReturnsSet
    /\ \A y \in returns.settled : YearEnd(y) <= Upto
    /\ \A p \in Properties :
           /\ returns.shown[p] \subseteq returns.settled /\ returns.recaptured[p] \subseteq returns.settled
           /\ Property[p].class = "REAL_ESTATE_RENTAL" =>
                 \A y \in returns.settled : Accrues(p, y) /\ ShownAsHeld(p, y)

RecaptureInv == WalkInv /\ SalesInv /\ ReturnsInv

\* What an interval reports is of its own days, and of what was still held.
LEMMA ReportedOf ==
    ASSUME WalkInv, ComputeInterval
    PROVE  /\ \A s \in reported' : /\ s.property \in Properties /\ s.on \in Nat /\ Span.start <= s.on /\ s.on <= Span.end
                                   /\ Held(s.property)
           /\ \A s, r \in reported' : s.property = r.property => s = r
<1>1. SpanNext
  BY SpanFollows DEF ComputeInterval
<1>2. PICK funding \in {{}} \cup {{p} : p \in {q \in Properties : Held(q) /\ \A s \in ScheduledSales : s.property # q}} :
         reported' = ScheduledSales \cup {FundingSale(p) : p \in funding}
  BY DEF ComputeInterval
<1>3. \A p \in funding : p \in Properties /\ Held(p) /\ \A s \in ScheduledSales : s.property # p
  BY <1>2
<1>4. \A p, q \in funding : p = q
  BY <1>2
<1>5. ASSUME NEW s \in ScheduledSales
      PROVE  /\ s = [property |-> s.property, on |-> FirstSale(s.property).on, rentAfter |-> FirstSale(s.property).rentAfter]
             /\ Held(s.property) /\ FirstSale(s.property) \in InSchedule("sale") /\ FirstSale(s.property).property = s.property
  <2>1. PICK e \in InSchedule("sale") : /\ Held(e.property)
                                        /\ s = [property |-> e.property, on |-> FirstSale(e.property).on,
                                                rentAfter |-> FirstSale(e.property).rentAfter]
    BY <1>5 DEF ScheduledSales
  <2>2. FirstSale(e.property) \in InSchedule("sale") /\ FirstSale(e.property).property = e.property
    BY DEF FirstSale
  <2> QED BY <2>1, <2>2
<1>6. ASSUME NEW e \in InSchedule("sale") PROVE e.property \in Properties /\ e.on \in Int /\ InSpan(Span, e.on)
  <2>1. e \in plan.schedule /\ e.kind = "sale" /\ InSpan(Span, e.on)
    BY DEF InSchedule
  <2>2. PICK p \in Plans, every \in Granularities : plan = Constructed(p, every)
    BY DEF WalkInv
  <2>3. plan.schedule = p.schedule \cup AllRollovers(p) /\ plan.property = p.property
    BY <2>2 DEF Constructed
  <2>4. e \notin AllRollovers(p)
    BY <2>1 DEF AllRollovers, Rollovers
  <2>5. e \in p.schedule
    BY <2>1, <2>3, <2>4
  <2> QED BY <2>1, <2>3, <2>5, ParametersAssumption, PropertiesAssumption DEF Properties, Property
<1>7. \A p : FundingSale(p).property = p /\ FundingSale(p).on = Span.start
  BY DEF FundingSale
<1>8. \A s \in ScheduledSales : s.property \in Properties /\ s.on \in Int /\ InSpan(Span, s.on)
  <2> SUFFICES ASSUME NEW s \in ScheduledSales PROVE s.property \in Properties /\ s.on \in Int /\ InSpan(Span, s.on)
    OBVIOUS
  <2> DEFINE e == FirstSale(s.property)
  <2>1. e \in InSchedule("sale") /\ e.property = s.property /\ s.on = e.on
    BY <1>5
  <2> HIDE DEF e
  <2> QED BY <2>1, <1>6
<1>9. ASSUME NEW s \in reported'
      PROVE  /\ s.property \in Properties /\ s.on \in Nat /\ Span.start <= s.on /\ s.on <= Span.end
             /\ Held(s.property)
  <2>1. CASE s \in ScheduledSales
    BY <2>1, <1>1, <1>5, <1>8 DEF InSpan, SpanNext
  <2>2. CASE s \notin ScheduledSales
    <3>1. PICK p \in funding : s = FundingSale(p)
      BY <1>2, <1>9, <2>2
    <3> QED BY <3>1, <1>1, <1>3, <1>7 DEF SpanNext
  <2> QED BY <2>1, <2>2
<1>10. ASSUME NEW s \in reported', NEW r \in reported', s.property = r.property PROVE s = r
  <2>1. (s \in ScheduledSales \/ \E p \in funding : s = FundingSale(p)) /\ (r \in ScheduledSales \/ \E p \in funding : r = FundingSale(p))
    BY <1>2
  <2>2. CASE s \in ScheduledSales /\ r \in ScheduledSales
    <3>1. s = [property |-> s.property, on |-> FirstSale(s.property).on, rentAfter |-> FirstSale(s.property).rentAfter]
      BY <1>5, <2>2
    <3>2. r = [property |-> r.property, on |-> FirstSale(r.property).on, rentAfter |-> FirstSale(r.property).rentAfter]
      BY <1>5, <2>2
    <3> QED BY <1>10, <3>1, <3>2
  <2>3. CASE s \notin ScheduledSales \/ r \notin ScheduledSales
    BY <2>1, <2>3, <1>3, <1>4, <1>7, <1>10
  <2> QED BY <2>2, <2>3
<1> QED BY <1>9, <1>10

LEMMA SalesCompute ==
    ASSUME WalkInv, SalesInv, ComputeInterval
    PROVE  SalesInv'
<1>1. SpanNext /\ stage = "compute"
  BY SpanFollows DEF ComputeInterval
<1>2. sales' = sales /\ reported = {} /\ Upto' = Span.end /\ Upto \in Int /\ Properties' = Properties
  BY <1>1, WalkCompute DEF ComputeInterval, WalkInv, Properties, Property
<1>3. /\ \A s \in reported' : /\ s.property \in Properties /\ s.on \in Nat /\ Span.start <= s.on /\ s.on <= Span.end
                              /\ Held(s.property)
      /\ \A s, r \in reported' : s.property = r.property => s = r
  BY ReportedOf
<1>4. \A s \in sales : s.property \in Properties /\ s.on \in Nat /\ s.on <= Upto
  BY DEF SalesInv
<1>5. ASSUME NEW s \in sales' \cup reported' PROVE s.property \in Properties /\ s.on \in Nat /\ s.on <= Span.end
  <2>1. Span.end \in Nat /\ Upto + 1 <= Span.end
    BY <1>1 DEF SpanNext
  <2> QED BY <1>2, <1>3, <1>4, <2>1
<1>6. ASSUME NEW s \in sales' \cup reported', NEW r \in sales' \cup reported', s.property = r.property
      PROVE  s = r
  <2>1. CASE s \in sales /\ r \in sales
    BY <1>6, <2>1 DEF SalesInv
  <2>2. CASE s \in reported' /\ r \in reported'
    BY <2>2, <1>3, <1>6
  <2>3. ~(s \in sales /\ r \in reported') /\ ~(s \in reported' /\ r \in sales)
    BY <1>3, <1>6 DEF Held
  <2> QED BY <1>2, <2>1, <2>2, <2>3
<1> QED BY <1>2, <1>5, <1>6 DEF SalesInv

LEMMA ReturnsCompute ==
    ASSUME RecaptureInv, ComputeInterval
    PROVE  ReturnsInv'
<1> DEFINE y == YearOf(Span.end)
           full == Span.end = YearEnd(y) /\ IsFullTaxYear(y)
           S == sales \cup reported'
<1>1. SpanNext /\ stage = "compute" /\ WalkInv /\ SalesInv /\ ReturnsInv
  BY SpanFollows DEF ComputeInterval, RecaptureInv
<1>2. sales' = sales /\ reported = {} /\ Upto' = Span.end /\ Upto \in Int /\ plan' = plan
  BY <1>1, WalkCompute DEF ComputeInterval, WalkInv
<1>3. \A s \in reported' : s.on \in Int /\ Span.start <= s.on /\ s.on <= Span.end /\ Held(s.property)
  <2>1. \A s \in reported' : s.on \in Nat /\ Span.start <= s.on /\ s.on <= Span.end /\ Held(s.property)
    BY <1>1, ReportedOf
  <2> QED BY <2>1
<1>4. \A s \in sales : s.on \in Int /\ s.on <= Upto
  BY <1>1 DEF SalesInv
<1>5. y \in Int /\ Span.start \in Nat /\ Span.end \in Nat /\ Span.start = Upto + 1 /\ Span.start <= Span.end
  BY <1>1 DEF SpanNext, YearOf
<1>6. \A x \in Int : Span.start <= x /\ x <= Span.end => YearOf(x) = y
  BY <1>1 DEF SpanNext, YearOf
<1>7. \A x \in Int : x <= Span.end => YearOf(x) <= y
  BY <1>5 DEF YearOf
<1>8. \A s \in reported' : YearOf(s.on) = y
  BY <1>3, <1>6
<1>9. \A z \in returns.settled : z \in Int /\ YearEnd(z) <= Upto /\ z < y
  <2> SUFFICES ASSUME NEW z \in returns.settled PROVE z \in Int /\ YearEnd(z) <= Upto /\ z < y
    OBVIOUS
  <2>1. z \in Int /\ YearEnd(z) <= Upto
    BY <1>1 DEF ReturnsInv, ReturnsSet
  <2>2. 24 * z + 23 <= Upto
    BY <2>1 DEF YearEnd
  <2>3. z < Span.start \div 24
    BY <2>1, <2>2, <1>5, <1>2
  <2>4. Span.start \div 24 = y
    BY <1>6, <1>5 DEF YearOf
  <2> QED BY <2>1, <2>3, <2>4
<1>10. ~full => returns' = returns
  BY DEF ComputeInterval
<1>11. full => /\ returns' \in ReturnsSet
               /\ returns'.settled = returns.settled \cup {y}
               /\ \A p \in Properties :
                     /\ returns'.shown[p] = IF p \in OnReturn(y) THEN returns.shown[p] \cup {y} ELSE returns.shown[p]
                     /\ returns'.recaptured[p] = IF p \in Stamped(y, reported') THEN returns.recaptured[p] \cup {y}
                                                 ELSE returns.recaptured[p]
  <2> SUFFICES ASSUME full
               PROVE  /\ returns' \in ReturnsSet
                      /\ returns'.settled = returns.settled \cup {y}
                      /\ \A p \in Properties :
                            /\ returns'.shown[p] = IF p \in OnReturn(y) THEN returns.shown[p] \cup {y} ELSE returns.shown[p]
                            /\ returns'.recaptured[p] = IF p \in Stamped(y, reported') THEN returns.recaptured[p] \cup {y}
                                                        ELSE returns.recaptured[p]
    OBVIOUS
  <2>1. returns' = [returns EXCEPT !.settled = @ \cup {y},
                       !.shown = [p \in Properties |->
                           IF p \in OnReturn(y) THEN @[p] \cup {y} ELSE @[p]],
                       !.recaptured = [p \in Properties |->
                           IF p \in Stamped(y, reported') THEN @[p] \cup {y} ELSE @[p]]]
    BY DEF ComputeInterval
  <2>2. returns \in ReturnsSet
    BY <1>1 DEF ReturnsInv
  <2> HIDE DEF y
  <2>3. /\ returns'.settled = returns.settled \cup {y} /\ returns'.flagged = returns.flagged
        /\ returns'.shown = [p \in Properties |->
                           IF p \in OnReturn(y) THEN returns.shown[p] \cup {y} ELSE returns.shown[p]]
        /\ returns'.recaptured = [p \in Properties |->
                           IF p \in Stamped(y, reported') THEN returns.recaptured[p] \cup {y} ELSE returns.recaptured[p]]
        /\ returns' = [settled |-> returns'.settled, flagged |-> returns'.flagged,
                       shown |-> returns'.shown, recaptured |-> returns'.recaptured]
    BY <2>1, <2>2 DEF ReturnsSet
  <2>4. returns'.settled \in SUBSET Int /\ returns'.flagged \in SUBSET Int
    BY <2>2, <2>3, <1>5 DEF ReturnsSet
  <2>5. returns'.shown \in [Properties -> SUBSET Int]
    <3>1. \A p \in Properties : returns.shown[p] \in SUBSET Int
      BY <2>2 DEF ReturnsSet
    <3>2. \A p \in Properties : (IF p \in OnReturn(y) THEN returns.shown[p] \cup {y} ELSE returns.shown[p]) \in SUBSET Int
      BY <3>1, <1>5
    <3> QED BY <2>3, <3>2
  <2>6. returns'.recaptured \in [Properties -> SUBSET Int]
    <3>1. \A p \in Properties : returns.recaptured[p] \in SUBSET Int
      BY <2>2 DEF ReturnsSet
    <3>2. \A p \in Properties : (IF p \in Stamped(y, reported') THEN returns.recaptured[p] \cup {y} ELSE returns.recaptured[p]) \in SUBSET Int
      BY <3>1, <1>5
    <3> QED BY <2>3, <3>2
  <2> QED BY <2>3, <2>4, <2>5, <2>6 DEF ReturnsSet
<1>12. Properties' = Properties /\ Property' = Property
  BY <1>2 DEF Properties, Property
<1>13. returns' \in ReturnsSet
  BY <1>1, <1>10, <1>11 DEF ReturnsInv
<1>14. ReturnsSet' = ReturnsSet
  BY <1>12 DEF ReturnsSet
<1>15. ASSUME NEW z \in returns'.settled PROVE YearEnd(z) <= Span.end
  <2>1. CASE z \in returns.settled
    BY <1>2, <1>5, <1>9, <2>1 DEF YearEnd
  <2>2. CASE z \notin returns.settled
    BY <1>10, <1>11, <2>2, <1>5 DEF YearEnd
  <2> QED BY <2>1, <2>2
<1>16. ASSUME NEW p \in Properties
       PROVE  returns'.shown[p] \subseteq returns'.settled /\ returns'.recaptured[p] \subseteq returns'.settled
  <2>1. returns.shown[p] \subseteq returns.settled /\ returns.recaptured[p] \subseteq returns.settled
    BY <1>1 DEF ReturnsInv
  <2> QED BY <2>1, <1>10, <1>11
<1>17. ASSUME NEW p \in Properties, Property[p].class = "REAL_ESTATE_RENTAL", NEW z \in returns'.settled
       PROVE  /\ z \in returns'.recaptured[p] <=> \E s \in S : s.property = p /\ YearOf(s.on) = z
              /\ z \in returns'.shown[p] <=> \A s \in S : s.property = p => YearOf(s.on) >= z
  <2>0. returns.shown[p] \subseteq returns.settled /\ returns.recaptured[p] \subseteq returns.settled
    BY <1>1 DEF ReturnsInv
  <2>1. CASE z \in returns.settled
    <3>1. z \in Int /\ z < y
      BY <1>9, <2>1
    <3>2. (z \in returns'.recaptured[p] <=> z \in returns.recaptured[p]) /\ (z \in returns'.shown[p] <=> z \in returns.shown[p])
      <4> HIDE DEF y, full
      <4>1. z # y
        BY <1>5, <3>1
      <4> QED BY <1>10, <1>11, <4>1
    <3>3. \A s \in reported' : YearOf(s.on) # z /\ YearOf(s.on) >= z
      BY <1>5, <1>8, <3>1
    <3>4. /\ z \in returns.recaptured[p] <=> \E s \in sales : s.property = p /\ YearOf(s.on) = z
          /\ z \in returns.shown[p] <=> \A s \in sales : s.property = p => YearOf(s.on) >= z
      BY <1>1, <1>2, <1>17, <2>1 DEF ReturnsInv, Accrues, ShownAsHeld
    <3> QED BY <3>2, <3>3, <3>4
  <2>2. CASE z \notin returns.settled
    <3>1. full /\ z = y
      BY <1>10, <1>11, <2>2
    <3>2. z \in returns'.recaptured[p] <=> p \in Stamped(y, reported')
      BY <3>1, <1>11, <2>0, <2>2
    <3>3. z \in returns'.shown[p] <=> p \in OnReturn(y)
      BY <3>1, <1>11, <2>0, <2>2
    <3>4. p \in OnReturn(y) <=> ~\E s \in sales : s.property = p /\ YearOf(s.on) < y
      BY <1>17 DEF OnReturn
    <3>5. p \in Stamped(y, reported') <=> p \in OnReturn(y) /\ \E s \in S : s.property = p
      BY DEF Stamped
    <3>6. \A s \in S : YearOf(s.on) \in Int /\ YearOf(s.on) <= y
      BY <1>2, <1>3, <1>4, <1>5, <1>7 DEF YearOf
    <3>7. \A s, r \in S : s.property = r.property => YearOf(s.on) = YearOf(r.on)
      BY <1>1, <1>2, SalesCompute DEF SalesInv
    <3>8. \A s \in S : YearOf(s.on) < y => s \in sales
      BY <1>5, <1>8
    <3> HIDE DEF y, S, full
    <3>9. p \in Stamped(y, reported') <=> \E s \in S : s.property = p /\ YearOf(s.on) = y
      <4>1. ASSUME p \in Stamped(y, reported') PROVE \E s \in S : s.property = p /\ YearOf(s.on) = y
        <5>1. PICK s \in S : s.property = p
          BY <3>5, <4>1
        <5>2. ~(YearOf(s.on) < y)
          BY <3>4, <3>5, <3>8, <4>1, <5>1
        <5> QED BY <5>1, <5>2, <3>6, <1>5
      <4>2. ASSUME NEW s \in S, s.property = p, YearOf(s.on) = y PROVE p \in Stamped(y, reported')
        <5>1. ASSUME NEW r \in sales, r.property = p PROVE ~(YearOf(r.on) < y)
          <6>1. r \in S
            BY DEF S
          <6> QED BY <6>1, <5>1, <4>2, <3>7, <1>5
        <5> QED BY <5>1, <4>2, <3>4, <3>5
      <4> QED BY <4>1, <4>2
    <3>10. p \in OnReturn(y) <=> \A s \in S : s.property = p => YearOf(s.on) >= y
      <4>1. \A s \in sales : s \in S
        BY DEF S
      <4> QED BY <3>4, <3>6, <3>8, <4>1, <1>5
    <3> QED BY <3>1, <3>2, <3>3, <3>9, <3>10
  <2> QED BY <2>1, <2>2
<1>18. S = sales' \cup reported'
  BY <1>2
<1> HIDE DEF S, y, full
<1>19. ASSUME NEW p \in Properties, Property[p].class = "REAL_ESTATE_RENTAL", NEW z \in returns'.settled
       PROVE  Accrues(p, z)' /\ ShownAsHeld(p, z)'
  BY <1>17, <1>18, <1>19 DEF Accrues, ShownAsHeld
<1> QED BY <1>2, <1>12, <1>13, <1>14, <1>15, <1>16, <1>19 DEF ReturnsInv

LEMMA RecaptureKept == ASSUME RecaptureInv, [Next]_vars PROVE RecaptureInv'
<1>1. CASE ComputeInterval
  BY <1>1, WalkCompute, SalesCompute, ReturnsCompute DEF RecaptureInv
<1>2. CASE OpenInterval \/ CloseInterval \/ UNCHANGED vars
  <2>1. WalkInv' /\ plan' = plan /\ Upto' = Upto
    BY <1>2, WalkOther DEF RecaptureInv
  <2>2. Properties' = Properties /\ Property' = Property
    BY <2>1 DEF Properties, Property
  <2>3. sales' \cup reported' = sales \cup reported
    BY <1>2 DEF OpenInterval, CloseInterval, vars
  <2>4. /\ returns'.settled = returns.settled /\ returns'.shown = returns.shown /\ returns'.recaptured = returns.recaptured
        /\ returns' \in ReturnsSet
    <3>1. CASE CloseInterval
      <4>1. returns \in ReturnsSet
        BY DEF RecaptureInv, ReturnsInv
      <4>2. YearOf(Span.end) \in Int
        <5>1. Span.end \in Int
          <6>1. k \in 1 .. Len(plan.spans) /\ plan.spans \in Seq(Interval)
            BY <3>1 DEF CloseInterval, RecaptureInv, WalkInv, Tiles
          <6>2. Span \in Interval
            BY <6>1 DEF Span
          <6> QED BY <6>2 DEF Interval
        <5> QED BY <5>1 DEF YearOf
      <4> DEFINE z == YearOf(Span.end)
      <4>3. returns' = returns \/ returns' = [returns EXCEPT !.flagged = @ \cup {z}]
        BY <3>1 DEF CloseInterval
      <4> HIDE DEF z
      <4> QED BY <4>1, <4>2, <4>3 DEF ReturnsSet, z
    <3>2. CASE ~CloseInterval
      BY <1>2, <3>2 DEF OpenInterval, vars, RecaptureInv, ReturnsInv
    <3> QED BY <3>1, <3>2
  <2>5. SalesInv'
    BY <2>1, <2>2, <2>3 DEF RecaptureInv, SalesInv
  <2>6. ReturnsInv'
    <3>1. ReturnsSet' = ReturnsSet
      BY <2>2 DEF ReturnsSet
    <3>2. \A p, y : (Accrues(p, y)' <=> Accrues(p, y)) /\ (ShownAsHeld(p, y)' <=> ShownAsHeld(p, y))
      BY <2>3, <2>4 DEF Accrues, ShownAsHeld
    <3> QED BY <2>1, <2>2, <2>4, <3>1, <3>2 DEF RecaptureInv, ReturnsInv
  <2> QED BY <2>1, <2>5, <2>6 DEF RecaptureInv
<1> QED BY <1>1, <1>2 DEF Next, Stopped

\* On the returns of the years settled, whatever the frame, the granularity, the plan and the
\* sales the funding of an interval forces (_tax_properties_for, _disposition_stamped_context).
THEOREM SaleRecaptured == Spec => []RecapturedOnce
<1>1. Init => RecaptureInv
  <2> SUFFICES ASSUME Init PROVE RecaptureInv
    OBVIOUS
  <2>1. WalkInv
    BY WalkStart
  <2>2. sales = {} /\ reported = {} /\ returns = [settled |-> {}, flagged |-> {},
                  shown |-> [p \in Properties |-> {}], recaptured |-> [p \in Properties |-> {}]]
    BY DEF Init
  <2>3. SalesInv
    BY <2>2 DEF SalesInv
  <2>4. ReturnsInv
    <3>1. returns.settled = {} /\ returns.flagged = {} /\ \A p \in Properties : returns.shown[p] = {} /\ returns.recaptured[p] = {}
      BY <2>2
    <3>2. returns \in ReturnsSet
      BY <2>2 DEF ReturnsSet
    <3> QED BY <3>1, <3>2 DEF ReturnsInv
  <2> QED BY <2>1, <2>3, <2>4 DEF RecaptureInv
<1>2. RecaptureInv /\ [Next]_vars => RecaptureInv'
  BY RecaptureKept
<1>3. RecaptureInv => RecapturedOnce
  <2> SUFFICES ASSUME RecaptureInv, Between,
                      NEW p \in Properties, NEW y \in returns.settled, Property[p].class = "REAL_ESTATE_RENTAL"
               PROVE  /\ y \in returns.recaptured[p] <=> \E s \in sales : s.property = p /\ YearOf(s.on) = y
                      /\ y \in returns.shown[p] <=> \A s \in sales : s.property = p => YearOf(s.on) >= y
    BY DEF RecapturedOnce
  <2>1. reported = {}
    BY DEF Between, RecaptureInv, WalkInv
  <2> QED BY <2>1 DEF RecaptureInv, ReturnsInv, Accrues, ShownAsHeld
<1> QED BY <1>1, <1>2, <1>3, PTL DEF Spec
-----------------------------------------------------------------------------
(* Dates in order. *)

UpTo(D, x) == {d \in D : d <= x}
Rank(D, x) == Cardinality(UpTo(D, x))
Within(D, lo, hi) == \A d \in D : d \in Int /\ lo <= d /\ d <= hi

LEMMA RankGrows ==
    ASSUME NEW lo \in Int, NEW hi \in Int, NEW D, Within(D, lo, hi)
    PROVE  /\ IsFiniteSet(D) /\ Cardinality(D) \in Nat
           /\ \A x \in Int : IsFiniteSet(UpTo(D, x)) /\ Rank(D, x) \in 0 .. Cardinality(D)
           /\ \A x \in D : Rank(D, x) = Rank(D, x - 1) + 1
           /\ \A x \in Int, y \in Int : x <= y => Rank(D, x) <= Rank(D, y)
           /\ \A x \in Int : x >= hi => Rank(D, x) = Cardinality(D)
           /\ \A x \in Int : x < lo => Rank(D, x) = 0
<1>0. \A d \in D : d \in Int /\ lo <= d /\ d <= hi
  BY DEF Within
<1>1. IsFiniteSet(lo .. hi)
  BY FS_Interval
<1>2. IsFiniteSet(D) /\ Cardinality(D) \in Nat
  <2>1. D \in SUBSET (lo .. hi)
    BY <1>0
  <2> QED BY <1>1, <2>1, FS_Subset, FS_CardinalityType
<1>3. \A x \in Int : IsFiniteSet(UpTo(D, x)) /\ Rank(D, x) \in Nat /\ Rank(D, x) <= Cardinality(D)
  <2> SUFFICES ASSUME NEW x \in Int PROVE IsFiniteSet(UpTo(D, x)) /\ Rank(D, x) \in Nat /\ Rank(D, x) <= Cardinality(D)
    OBVIOUS
  <2>1. UpTo(D, x) \in SUBSET D
    BY DEF UpTo
  <2> QED BY <1>2, <2>1, FS_Subset, FS_CardinalityType DEF Rank
<1>4. ASSUME NEW x \in D PROVE Rank(D, x) = Rank(D, x - 1) + 1
  <2>1. x \in Int /\ x \in UpTo(D, x)
    BY <1>0 DEF UpTo
  <2>2. UpTo(D, x - 1) = UpTo(D, x) \ {x}
    <3>1. \A d \in D : d <= x - 1 <=> d <= x /\ d # x
      BY <1>0, <2>1
    <3> QED BY <3>1 DEF UpTo
  <2>4. IsFiniteSet(UpTo(D, x)) /\ x - 1 \in Int
    BY <1>3, <2>1
  <2>3. Cardinality(UpTo(D, x) \ {x}) = Cardinality(UpTo(D, x)) - 1
    BY <2>1, <2>4, FS_RemoveElement
  <2>5. Rank(D, x) \in Nat /\ Rank(D, x - 1) = Rank(D, x) - 1
    BY <1>3, <2>1, <2>2, <2>3 DEF Rank
  <2> QED BY <2>5
<1>5. ASSUME NEW x \in Int, NEW y \in Int, x <= y PROVE Rank(D, x) <= Rank(D, y)
  <2>1. UpTo(D, x) \in SUBSET UpTo(D, y)
    <3>1. \A d \in D : d <= x => d <= y
      BY <1>0, <1>5
    <3> QED BY <3>1 DEF UpTo
  <2>2. IsFiniteSet(UpTo(D, y))
    BY <1>3
  <2> QED BY <2>1, <2>2, FS_Subset DEF Rank
<1>6. ASSUME NEW x \in Int, x >= hi PROVE Rank(D, x) = Cardinality(D)
  <2>1. UpTo(D, x) = D
    <3>1. \A d \in D : d <= x
      BY <1>0, <1>6
    <3> QED BY <3>1 DEF UpTo
  <2> QED BY <2>1 DEF Rank
<1>7. ASSUME NEW x \in Int, x < lo PROVE Rank(D, x) = 0
  <2>1. UpTo(D, x) = {}
    <3>1. \A d \in D : ~(d <= x)
      BY <1>0, <1>7
    <3> QED BY <3>1 DEF UpTo
  <2> QED BY <2>1, FS_EmptySet DEF Rank
<1>8. \A x \in Int : Rank(D, x) \in 0 .. Cardinality(D)
  BY <1>2, <1>3
<1> QED BY <1>2, <1>3, <1>4, <1>5, <1>6, <1>7, <1>8

LEMMA RankReached ==
    ASSUME NEW lo \in Int, NEW hi \in Int, NEW D, Within(D, lo, hi), NEW n \in 1 .. Cardinality(D)
    PROVE  \E x \in D : Rank(D, x) = n
<1> DEFINE T == {m \in Nat : Rank(D, lo + m) >= n}
<1>1. /\ Cardinality(D) \in Nat /\ \A x \in Int : Rank(D, x) \in Nat
      /\ \A x \in D : Rank(D, x) = Rank(D, x - 1) + 1
      /\ \A x \in Int : x >= hi => Rank(D, x) = Cardinality(D)
      /\ \A x \in Int : x < lo => Rank(D, x) = 0
  <2>1. \A x \in Int : Rank(D, x) \in 0 .. Cardinality(D)
    BY RankGrows
  <2>2. \A x \in Int : Rank(D, x) \in Nat
    BY <2>1
  <2>3. Cardinality(D) \in Nat /\ \A x \in D : Rank(D, x) = Rank(D, x - 1) + 1
    BY RankGrows
  <2>4. \A x \in Int : x >= hi => Rank(D, x) = Cardinality(D)
    BY RankGrows
  <2>5. \A x \in Int : x < lo => Rank(D, x) = 0
    BY RankGrows
  <2> QED BY <2>2, <2>3, <2>4, <2>5
<1>2. n \in Nat \ {0} /\ n <= Cardinality(D)
  BY <1>1
<1>3. T # {}
  <2>1. D # {}
    <3>1. D = {} => Cardinality(D) = 0
      BY FS_EmptySet
    <3> QED BY <1>2, <3>1
  <2>2. lo <= hi
    <3>1. PICK d : d \in D
      BY <2>1
    <3> QED BY <3>1 DEF Within
  <2>3. hi - lo \in Nat /\ lo + (hi - lo) = hi /\ hi >= hi
    BY <2>2
  <2>4. Rank(D, hi) >= n
    BY <1>1, <1>2, <2>3
  <2> QED BY <2>3, <2>4
<1>4. PICK m \in T : \A j \in T : m <= j
  BY <1>3, Smallest
<1> DEFINE x == lo + m
<1>5. m \in Nat /\ x \in Int /\ Rank(D, x) >= n
  BY <1>4
<1>6. Rank(D, x - 1) < n
  <2>1. CASE m = 0
    BY <1>1, <1>2, <1>5, <2>1
  <2>2. CASE m # 0
    <3>1. m - 1 \in Nat /\ m - 1 \notin T /\ lo + (m - 1) = x - 1 /\ x - 1 \in Int
      BY <1>4, <1>5, <2>2
    <3> HIDE DEF x
    <3> QED BY <3>1, <1>1, <1>2
  <2> QED BY <2>1, <2>2
<1>7. x \in D
  <2> SUFFICES ASSUME x \notin D PROVE FALSE
    OBVIOUS
  <2>1. UpTo(D, x) = UpTo(D, x - 1)
    <3>1. \A d \in D : d \in Int
      BY DEF Within
    <3> HIDE DEF x
    <3>2. \A d \in D : d <= x <=> d <= x - 1
      <4> SUFFICES ASSUME NEW d \in D PROVE d <= x <=> d <= x - 1
        OBVIOUS
      <4>1. d \in Int /\ d # x
        BY <3>1
      <4> QED BY <4>1, <1>5
    <3> QED BY <3>2 DEF UpTo
  <2> HIDE DEF x
  <2> QED BY <1>1, <1>2, <1>5, <1>6, <2>1 DEF Rank
<1>8. Rank(D, x) = Rank(D, x - 1) + 1 /\ Rank(D, x) \in Nat /\ Rank(D, x - 1) \in Nat
  <2> HIDE DEF x
  <2> QED BY <1>1, <1>5, <1>7
<1> HIDE DEF x
<1>9. Rank(D, x) = n
  BY <1>2, <1>5, <1>6, <1>8
<1> QED BY <1>7, <1>9

LEMMA InOrderIs ==
    ASSUME NEW lo \in Int, NEW hi \in Int, NEW D, Within(D, lo, hi)
    PROVE  /\ InOrder(D) \in Seq(Int) /\ Len(InOrder(D)) = Cardinality(D) /\ Cardinality(D) \in Nat
           /\ \A n \in 1 .. Cardinality(D) : InOrder(D)[n] \in D /\ Rank(D, InOrder(D)[n]) = n
<1>1. Cardinality(D) \in Nat
  BY RankGrows
<1>2. ASSUME NEW n \in 1 .. Cardinality(D) PROVE InOrder(D)[n] \in D /\ Rank(D, InOrder(D)[n]) = n
  <2>1. InOrder(D)[n] = CHOOSE date \in D : Rank(D, date) = n
    BY DEF InOrder, Rank, UpTo
  <2>2. \E date \in D : Rank(D, date) = n
    BY RankReached
  <2> QED BY <2>1, <2>2
<1>3. InOrder(D) = [n \in 1 .. Cardinality(D) |-> InOrder(D)[n]]
  BY DEF InOrder
<1>4. ASSUME NEW n \in 1 .. Cardinality(D) PROVE InOrder(D)[n] \in Int
  BY <1>2 DEF Within
<1>5. InOrder(D) \in Seq(Int) /\ Len(InOrder(D)) = Cardinality(D)
  BY <1>1, <1>3, <1>4
<1> QED BY <1>1, <1>2, <1>5
-----------------------------------------------------------------------------
(* Amortization. *)

LEMMA RecursionUnique ==
    ASSUME NEW lo \in Int, NEW m \in Int, NEW hi \in Int, m <= hi, NEW V, NEW base, NEW step,
           NEW f, NEW g, Recursion(f, lo, m, V, base, step), Recursion(g, lo, hi, V, base, step)
    PROVE  \A n \in lo .. m : f[n] = g[n]
<1> DEFINE Bad == {j \in Nat : lo + j <= m /\ f[lo + j] # g[lo + j]}
<1>1. Bad = {}
  <2> SUFFICES ASSUME Bad # {} PROVE FALSE
    OBVIOUS
  <2>1. PICK j \in Bad : \A i \in Bad : j <= i
    BY Smallest
  <2> DEFINE n == lo + j
  <2>2. j \in Nat /\ n \in Int /\ n <= m /\ f[n] # g[n]
    BY <2>1
  <2>3. j # 0
    BY <2>2 DEF Recursion
  <2>4. j - 1 \in Nat /\ j - 1 \notin Bad /\ lo + (j - 1) = n - 1 /\ n - 1 <= m
    BY <2>1, <2>2, <2>3
  <2>5. f[n - 1] = g[n - 1]
    BY <2>4
  <2>6. n \in lo + 1 .. m /\ n \in lo + 1 .. hi
    BY <2>2, <2>3
  <2> HIDE DEF n
  <2>7. f[n] = step[<<n, f[n - 1]>>] /\ g[n] = step[<<n, g[n - 1]>>]
    BY <2>6 DEF Recursion
  <2> QED BY <2>2, <2>5, <2>7
<1>2. ASSUME NEW n \in lo .. m PROVE f[n] = g[n]
  <2>1. n - lo \in Nat /\ lo + (n - lo) = n /\ n <= m
    OBVIOUS
  <2>2. n - lo \notin Bad
    BY <1>1
  <2> QED BY <2>1, <2>2
<1> QED BY <1>2

Rates    == [num : Nat, den : Nat \ {0}]
Terms    == [balance : Int, interest : Int, principal : Int]
Opened(b) == [balance |-> b, interest |-> 0, principal |-> 0]

LEMMA AmortizeMonthType ==
    ASSUME NEW term \in Terms, NEW rate \in Rates, NEW payment \in Rates, NEW extra \in Nat
    PROVE  /\ AmortizeMonth(term, rate, payment, extra) \in Terms
           /\ AmortizeMonth(term, rate, payment, extra).balance + AmortizeMonth(term, rate, payment, extra).principal
                  = term.balance + term.principal
           /\ term.balance >= 0 => AmortizeMonth(term, rate, payment, extra).balance >= 0
           /\ term.balance <= 0 => AmortizeMonth(term, rate, payment, extra) = term
<1> DEFINE b == term.balance
           i == ChangeOn(rate, b)
           q == Quantize(payment.num - i * payment.den, payment.den)
           pr == Lesser(Greater(0, q), b)
           m  == Lesser(extra, b - pr)
<1>1. b \in Int /\ term.interest \in Int /\ term.principal \in Int
  BY DEF Terms
<1>2. rate.num \in Nat /\ rate.den \in Nat \ {0} /\ payment.num \in Nat /\ payment.den \in Nat \ {0}
  BY DEF Rates
<1>3. i \in Int
  BY <1>1, <1>2, QuantizeType DEF ChangeOn
<1>4. q \in Int
  <2> HIDE DEF i, b
  <2>1. payment.num - i * payment.den \in Int
    BY <1>2, <1>3
  <2> QED BY <1>2, <2>1, QuantizeType
<1>5. b > 0 => pr \in Int /\ pr >= 0 /\ pr <= b
  <2> HIDE DEF b, q
  <2> QED BY <1>1, <1>4 DEF Lesser, Greater
<1>6. b > 0 => m \in Int /\ m >= 0 /\ m <= b - pr
  <2> HIDE DEF b, pr
  <2> QED BY <1>1, <1>5 DEF Lesser
<1>7. b > 0 => AmortizeMonth(term, rate, payment, extra)
                   = [balance |-> b - pr - m, interest |-> term.interest + i, principal |-> term.principal + pr + m]
  BY <1>1 DEF AmortizeMonth
<1>8. b <= 0 => AmortizeMonth(term, rate, payment, extra) = term
  BY <1>1 DEF AmortizeMonth
<1>9. CASE b > 0
  <2> DEFINE t == AmortizeMonth(term, rate, payment, extra)
  <2>1. t.balance = b - pr - m /\ t.interest = term.interest + i /\ t.principal = term.principal + pr + m
        /\ t = [balance |-> b - pr - m, interest |-> term.interest + i, principal |-> term.principal + pr + m]
    BY <1>7, <1>9
  <2> HIDE DEF t, i, pr, m
  <2>2. t \in Terms
    BY <1>1, <1>3, <1>5, <1>6, <1>9, <2>1 DEF Terms
  <2>3. t.balance >= 0 /\ t.balance + t.principal = b + term.principal
    BY <1>1, <1>3, <1>5, <1>6, <1>9, <2>1
  <2> QED BY <1>1, <1>9, <2>2, <2>3 DEF t
<1>10. CASE ~(b > 0)
  BY <1>1, <1>8, <1>10
<1> QED BY <1>9, <1>10

\* The month depends on the balance only; what was booked before is carried along.
LEMMA AmortizeMonthShift ==
    ASSUME NEW term \in Terms, NEW rate \in Rates, NEW payment \in Rates, NEW extra \in Nat, NEW x \in Int, NEW y \in Int
    PROVE  AmortizeMonth([balance |-> term.balance, interest |-> x + term.interest, principal |-> y + term.principal],
                         rate, payment, extra)
             = [balance   |-> AmortizeMonth(term, rate, payment, extra).balance,
                interest  |-> x + AmortizeMonth(term, rate, payment, extra).interest,
                principal |-> y + AmortizeMonth(term, rate, payment, extra).principal]
<1> DEFINE b == term.balance
           i == ChangeOn(rate, b)
           q == Quantize(payment.num - i * payment.den, payment.den)
           pr == Lesser(Greater(0, q), b)
           m  == Lesser(extra, b - pr)
           moved == [balance |-> term.balance, interest |-> x + term.interest, principal |-> y + term.principal]
<1>1. b \in Int /\ term.interest \in Int /\ term.principal \in Int /\ term = [balance |-> b, interest |-> term.interest, principal |-> term.principal]
  BY DEF Terms
<1>2. rate.num \in Nat /\ rate.den \in Nat \ {0} /\ payment.num \in Nat /\ payment.den \in Nat \ {0}
  BY DEF Rates
<1>3. i \in Int
  <2> HIDE DEF b
  <2>1. rate.num * b \in Int
    BY <1>1, <1>2
  <2> QED BY <1>1, <1>2, <2>1, QuantizeType DEF ChangeOn
<1>4. q \in Int
  <2> HIDE DEF i, b
  <2>1. payment.num - i * payment.den \in Int
    BY <1>2, <1>3
  <2> QED BY <1>2, <2>1, QuantizeType
<1>5. pr \in Int /\ m \in Int
  <2>1. pr \in Int
    <3> HIDE DEF b, q
    <3> QED BY <1>1, <1>4 DEF Lesser, Greater
  <2> HIDE DEF b, pr
  <2> QED BY <1>1, <2>1 DEF Lesser
<1>6. moved.balance = b /\ moved.interest = x + term.interest /\ moved.principal = y + term.principal
  OBVIOUS
<1>7. CASE b > 0
  <2>1. AmortizeMonth(term, rate, payment, extra)
           = [balance |-> b - pr - m, interest |-> term.interest + i, principal |-> term.principal + pr + m]
    BY <1>1, <1>7 DEF AmortizeMonth
  <2>2. AmortizeMonth(moved, rate, payment, extra)
           = [balance |-> b - pr - m, interest |-> (x + term.interest) + i, principal |-> (y + term.principal) + pr + m]
    BY <1>1, <1>6, <1>7 DEF AmortizeMonth
  <2>3. (x + term.interest) + i = x + (term.interest + i) /\ (y + term.principal) + pr + m = y + (term.principal + pr + m)
    <3> HIDE DEF i, pr, m
    <3> QED BY <1>1, <1>3, <1>5
  <2> QED BY <2>1, <2>2, <2>3
<1>8. CASE ~(b > 0)
  <2>1. AmortizeMonth(term, rate, payment, extra) = term /\ AmortizeMonth(moved, rate, payment, extra) = moved
    BY <1>1, <1>6, <1>8 DEF AmortizeMonth
  <2> QED BY <2>1
<1> QED BY <1>7, <1>8

LEMMA AmortizeUnfold ==
    ASSUME NEW opening \in Int, NEW rate \in Rates, NEW payment \in Rates, NEW extra \in Nat
    PROVE  /\ AmortizeMonths(opening, rate, payment, extra, 0) = Opened(opening)
           /\ \A n \in Nat : /\ AmortizeMonths(opening, rate, payment, extra, n) \in Terms
                             /\ AmortizeMonths(opening, rate, payment, extra, n + 1)
                                    = AmortizeMonth(AmortizeMonths(opening, rate, payment, extra, n), rate, payment, extra)
<1> DEFINE step == [nt \in Int \X Terms |-> AmortizeMonth(nt[2], rate, payment, extra)]
           A(n) == AmortizeMonths(opening, rate, payment, extra, n)
<1>1. step \in [Int \X Terms -> Terms] /\ Opened(opening) \in Terms
  <2>1. \A nt \in Int \X Terms : AmortizeMonth(nt[2], rate, payment, extra) \in Terms
    BY AmortizeMonthType
  <2> QED BY <2>1 DEF Opened, Terms
<1>2. \A n \in Int, t \in Terms : step[<<n, t>>] = AmortizeMonth(t, rate, payment, extra)
  OBVIOUS
<1> HIDE DEF step
<1>3. ASSUME NEW n \in Nat
      PROVE  \E f : Recursion(f, 0, n, Terms, Opened(opening), step) /\ A(n) = f[n]
  <2> DEFINE Equation(h) == h = [j \in 0 .. n |-> IF j = 0 THEN Opened(opening) ELSE AmortizeMonth(h[j - 1], rate, payment, extra)]
             f == CHOOSE h : h = [j \in 0 .. n |-> IF j = 0 THEN Opened(opening) ELSE AmortizeMonth(h[j - 1], rate, payment, extra)]
  <2>1. PICK g : Recursion(g, 0, n, Terms, Opened(opening), step)
    <3>1. 0 \in Int /\ n \in Int /\ 0 <= n
      OBVIOUS
    <3> QED BY <1>1, <3>1, RecursionExists
  <2>2. Equation(g)
    <3>1. ASSUME NEW j \in 0 .. n PROVE g[j] = IF j = 0 THEN Opened(opening) ELSE AmortizeMonth(g[j - 1], rate, payment, extra)
      <4>1. CASE j = 0
        BY <2>1, <4>1 DEF Recursion
      <4>2. CASE j # 0
        <5>1. j \in 0 + 1 .. n /\ j - 1 \in 0 .. n
          BY <4>2
        <5>2. g[j - 1] \in Terms /\ g[j] = step[<<j, g[j - 1]>>]
          BY <2>1, <5>1 DEF Recursion
        <5>3. step[<<j, g[j - 1]>>] = AmortizeMonth(g[j - 1], rate, payment, extra)
          BY <1>2, <5>1, <5>2
        <5> QED BY <4>2, <5>2, <5>3
      <4> QED BY <4>1, <4>2
    <3>2. g = [j \in 0 .. n |-> g[j]]
      BY <2>1 DEF Recursion
    <3> QED BY <3>1, <3>2
  <2>3. Equation(f)
    BY <2>2
  <2>4. A(n) = f[n]
    BY DEF AmortizeMonths, Opened
  <2> HIDE DEF f
  <2>5. f[0] = Opened(opening) /\ \A j \in 1 .. n : f[j] = AmortizeMonth(f[j - 1], rate, payment, extra)
    BY <2>3
  <2>6. \A j \in 0 .. n : f[j] \in Terms
    <3> DEFINE Bad == {j \in Nat : j <= n /\ f[j] \notin Terms}
    <3>1. Bad = {}
      <4> SUFFICES ASSUME Bad # {} PROVE FALSE
        OBVIOUS
      <4>1. PICK j \in Bad : \A i \in Bad : j <= i
        BY Smallest
      <4>2. j # 0
        BY <1>1, <2>5
      <4>3. j \in 1 .. n /\ j - 1 \in Nat /\ j - 1 \notin Bad /\ j - 1 <= n
        BY <4>1, <4>2
      <4>4. f[j - 1] \in Terms
        BY <4>3
      <4>5. f[j] \in Terms
        <5>1. f[j] = AmortizeMonth(f[j - 1], rate, payment, extra)
          BY <2>5, <4>3
        <5>2. AmortizeMonth(f[j - 1], rate, payment, extra) \in Terms
          BY <4>4, AmortizeMonthType
        <5> QED BY <5>1, <5>2
      <4> QED BY <4>1, <4>5
    <3> QED BY <3>1
  <2>7. Recursion(f, 0, n, Terms, Opened(opening), step)
    <3>1. f = [j \in 0 .. n |-> f[j]]
      BY <2>3
    <3>2. f \in [0 .. n -> Terms]
      <4> HIDE DEF Equation
      <4> QED BY <2>6, <3>1
    <3>3. ASSUME NEW j \in 0 + 1 .. n PROVE f[j] = step[<<j, f[j - 1]>>]
      <4>1. j \in 1 .. n /\ j - 1 \in 0 .. n /\ j \in Int
        OBVIOUS
      <4> HIDE DEF Equation
      <4> QED BY <4>1, <2>5, <2>6, <1>2
    <3> HIDE DEF Equation
    <3> QED BY <2>5, <3>2, <3>3 DEF Recursion
  <2> QED BY <2>4, <2>7
<1>4. A(0) = Opened(opening)
  BY <1>3 DEF Recursion
<1>5. ASSUME NEW n \in Nat PROVE A(n) \in Terms /\ A(n + 1) = AmortizeMonth(A(n), rate, payment, extra)
  <2>1. PICK f : Recursion(f, 0, n, Terms, Opened(opening), step) /\ A(n) = f[n]
    BY <1>3
  <2>2. n + 1 \in Nat
    OBVIOUS
  <2>3. PICK g : Recursion(g, 0, n + 1, Terms, Opened(opening), step) /\ A(n + 1) = g[n + 1]
    BY <1>3, <2>2
  <2>4. n \in Int /\ n + 1 \in Int /\ n <= n + 1 /\ n \in 0 .. n /\ 0 \in Int
    OBVIOUS
  <2>5. f[n] = g[n]
    BY <2>1, <2>3, <2>4, RecursionUnique
  <2>6. f[n] \in Terms
    BY <2>1, <2>4 DEF Recursion
  <2>7. g[n + 1] = step[<<n + 1, g[n]>>]
    <3>1. n + 1 \in 0 + 1 .. n + 1 /\ (n + 1) - 1 = n
      OBVIOUS
    <3> QED BY <2>3, <3>1 DEF Recursion
  <2> QED BY <2>1, <2>3, <2>5, <2>6, <2>7, <2>4, <1>2
<1> QED BY <1>4, <1>5

LEMMA AmortizeKeeps ==
    ASSUME NEW opening \in Int, NEW rate \in Rates, NEW payment \in Rates, NEW extra \in Nat, NEW n \in Nat
    PROVE  /\ AmortizeMonths(opening, rate, payment, extra, n) \in Terms
           /\ AmortizeMonths(opening, rate, payment, extra, n).balance
                  + AmortizeMonths(opening, rate, payment, extra, n).principal = opening
           /\ opening >= 0 => AmortizeMonths(opening, rate, payment, extra, n).balance >= 0
           /\ opening <= 0 => AmortizeMonths(opening, rate, payment, extra, n) = Opened(opening)
<1> DEFINE A(j) == AmortizeMonths(opening, rate, payment, extra, j)
           Good(j) == /\ A(j).balance + A(j).principal = opening
                      /\ opening >= 0 => A(j).balance >= 0
                      /\ opening <= 0 => A(j) = Opened(opening)
           Bad == {j \in Nat : ~Good(j)}
<1>1. A(0) = Opened(opening) /\ \A j \in Nat : A(j) \in Terms /\ A(j + 1) = AmortizeMonth(A(j), rate, payment, extra)
  BY AmortizeUnfold
<1> HIDE DEF A
<1>2. Bad = {}
  <2> SUFFICES ASSUME Bad # {} PROVE FALSE
    OBVIOUS
  <2>1. PICK j \in Bad : \A i \in Bad : j <= i
    <3> HIDE DEF Good
    <3> QED BY Smallest
  <2>2. Good(0)
    BY <1>1 DEF Opened
  <2>3. j \in Nat /\ j # 0 /\ ~Good(j)
    BY <2>1, <2>2
  <2>4. j - 1 \in Nat /\ j - 1 \notin Bad /\ (j - 1) + 1 = j
    BY <2>1, <2>3
  <2>5. Good(j - 1)
    BY <2>4
  <2>6. A(j - 1) \in Terms /\ A(j) = AmortizeMonth(A(j - 1), rate, payment, extra)
    BY <1>1, <2>4
  <2> DEFINE t == A(j - 1)
             u == A(j)
  <2>7. /\ u.balance + u.principal = t.balance + t.principal
        /\ t.balance >= 0 => u.balance >= 0
        /\ t.balance <= 0 => u = t
    BY <2>6, AmortizeMonthType
  <2>8. Good(j)
    <3>1. opening <= 0 => t.balance <= 0
      BY <2>5 DEF Opened
    <3> QED BY <2>5, <2>7, <3>1
  <2> QED BY <2>3, <2>8
<1>3. Good(n)
  BY <1>2
<1> QED BY <1>1, <1>3 DEF A

\* So many months and then so many more are the months of both.
LEMMA AmortizeCompose ==
    ASSUME NEW opening \in Int, NEW rate \in Rates, NEW payment \in Rates, NEW extra \in Nat, NEW m \in Nat, NEW n \in Nat
    PROVE  LET first == AmortizeMonths(opening, rate, payment, extra, m)
               then  == AmortizeMonths(first.balance, rate, payment, extra, n)
           IN  AmortizeMonths(opening, rate, payment, extra, m + n)
                   = [balance |-> then.balance, interest |-> first.interest + then.interest,
                      principal |-> first.principal + then.principal]
<1> DEFINE A(j) == AmortizeMonths(opening, rate, payment, extra, j)
           first == A(m)
           B(j) == AmortizeMonths(first.balance, rate, payment, extra, j)
           Good(j) == A(m + j) = [balance |-> B(j).balance, interest |-> first.interest + B(j).interest,
                                  principal |-> first.principal + B(j).principal]
           Bad == {j \in Nat : ~Good(j)}
<1>1. \A j \in Nat : A(j) \in Terms /\ A(j + 1) = AmortizeMonth(A(j), rate, payment, extra)
  BY AmortizeUnfold
<1>2. first \in Terms /\ first.balance \in Int /\ first.interest \in Int /\ first.principal \in Int
      /\ first = [balance |-> first.balance, interest |-> first.interest, principal |-> first.principal]
  <2>1. first \in Terms
    BY <1>1
  <2> HIDE DEF first
  <2> QED BY <2>1 DEF Terms
<1> HIDE DEF first
<1>3. B(0) = Opened(first.balance) /\ \A j \in Nat : B(j) \in Terms /\ B(j + 1) = AmortizeMonth(B(j), rate, payment, extra)
  BY <1>2, AmortizeUnfold
<1>4. first = A(m)
  BY DEF first
<1> HIDE DEF A, B
<1>5. Good(0)
  BY <1>2, <1>3, <1>4 DEF Opened
<1>6. Bad = {}
  <2> SUFFICES ASSUME Bad # {} PROVE FALSE
    OBVIOUS
  <2>1. PICK j \in Bad : \A i \in Bad : j <= i
    <3> HIDE DEF Good
    <3> QED BY Smallest
  <2>3. j \in Nat /\ j # 0 /\ ~Good(j)
    BY <2>1, <1>5
  <2>4. j - 1 \in Nat /\ j - 1 \notin Bad /\ (j - 1) + 1 = j /\ m + (j - 1) \in Nat /\ (m + (j - 1)) + 1 = m + j
    BY <2>1, <2>3
  <2>5. Good(j - 1)
    BY <2>4
  <2>6. B(j - 1) \in Terms /\ B(j) = AmortizeMonth(B(j - 1), rate, payment, extra)
        /\ A(m + j) = AmortizeMonth(A(m + (j - 1)), rate, payment, extra)
    BY <1>1, <1>3, <2>4
  <2> DEFINE t == B(j - 1)
  <2>7. A(m + (j - 1)) = [balance |-> t.balance, interest |-> first.interest + t.interest, principal |-> first.principal + t.principal]
    BY <2>5
  <2> HIDE DEF t
  <2>8. AmortizeMonth(A(m + (j - 1)), rate, payment, extra)
           = [balance   |-> AmortizeMonth(t, rate, payment, extra).balance,
              interest  |-> first.interest + AmortizeMonth(t, rate, payment, extra).interest,
              principal |-> first.principal + AmortizeMonth(t, rate, payment, extra).principal]
    <3>1. t \in Terms
      BY <2>6 DEF t
    <3> QED BY <1>2, <2>7, <3>1, AmortizeMonthShift
  <2>9. Good(j)
    BY <2>6, <2>8 DEF t
  <2> QED BY <2>3, <2>9
<1>7. Good(n)
  BY <1>6
<1> QED BY <1>7 DEF A, B, first
-----------------------------------------------------------------------------
(* The loans. *)

\* The occurrences of a replacement schedule.
CycleDays(r) == {on \in OccurrenceDates(r.window, r.every, r.window.start, End) : on >= Start}

LEMMA CycleDatesAre ==
    ASSUME NEW p \in Plans, NEW r \in Range(p.recurring)
    PROVE  /\ CycleDates(r) = InOrder(CycleDays(r)) /\ Within(CycleDays(r), Start, End)
           /\ DOMAIN CycleDates(r) = 1 .. Cardinality(CycleDays(r)) /\ Len(CycleDates(r)) = Cardinality(CycleDays(r))
           /\ Cardinality(CycleDays(r)) \in Nat
           /\ \A c \in DOMAIN CycleDates(r) :
                 CycleDates(r)[c] \in CycleDays(r) /\ CycleDates(r)[c] \in Int /\ CycleDates(r)[c] >= Start
                 /\ Rank(CycleDays(r), CycleDates(r)[c]) = c
<1>1. CycleDates(r) = InOrder(CycleDays(r))
  BY DEF CycleDates, CycleDays
<1>2. Within(CycleDays(r), Start, End)
  <2>1. ASSUME NEW d \in CycleDays(r) PROVE d \in Int /\ Start <= d /\ d <= End
    <3>1. d \in r.window.start .. End /\ d >= Start
      BY DEF CycleDays, OccurrenceDates, Occurrences
    <3> QED BY <3>1, ParametersAssumption
  <2> QED BY <2>1 DEF Within
<1>3. Start \in Int /\ End \in Int
  BY ParametersAssumption
<1> DEFINE D == CycleDays(r)
<1>4. /\ InOrder(D) \in Seq(Int) /\ Len(InOrder(D)) = Cardinality(D) /\ Cardinality(D) \in Nat
      /\ \A n \in 1 .. Cardinality(D) : InOrder(D)[n] \in D /\ Rank(D, InOrder(D)[n]) = n
  <2> HIDE DEF D
  <2>1. Within(D, Start, End)
    BY <1>2 DEF D
  <2> QED BY <1>3, <2>1, InOrderIs
<1>5. DOMAIN InOrder(D) = 1 .. Cardinality(D)
  <2> HIDE DEF D
  <2> QED BY <1>4
<1> QED BY <1>1, <1>2, <1>4, <1>5 DEF Within

LEMMA LoansTyped ==
    ASSUME WalkInv, NEW l \in Handles
    PROVE  /\ Loan(l) \in ResolvedLoans
           /\ (Loan(l).originates = NoDate \/ (Loan(l).originates \in Nat /\ Loan(l).originates >= Start))
<1>1. PICK p \in Plans, every \in Granularities : plan = Constructed(p, every)
  BY DEF WalkInv
<1>2. plan.loans = [handle \in {m.handle : m \in AllLoans(p)} |-> Resolved(CHOOSE m \in AllLoans(p) : m.handle = handle)]
  BY <1>1 DEF Constructed
<1>3. PICK m \in AllLoans(p) : Loan(l) = Resolved(m)
  <2>1. \E m \in AllLoans(p) : m.handle = l
    BY <1>2 DEF Handles
  <2>2. Loan(l) = Resolved(CHOOSE m \in AllLoans(p) : m.handle = l)
    BY <1>2 DEF Handles, Loan
  <2> QED BY <2>1, <2>2
<1>4. Loan(l) \in ResolvedLoans
  BY <1>3, LoansAssumption
<1>5. Loan(l).originates = m.originates
  BY <1>3 DEF Resolved
<1>6. m.originates = NoDate \/ m.originates >= Start
  <2>1. CASE m \in Range(p.loans)
    BY <2>1, ParametersAssumption
  <2>2. CASE m \notin Range(p.loans)
    <3>1. PICK r \in Range(p.recurring) : m \in CycleLoans(r)
      BY <1>3, <2>2 DEF AllLoans
    <3>2. PICK c \in DOMAIN CycleDates(r) : m.originates = CycleDates(r)[c]
      BY <3>1 DEF CycleLoans
    <3> QED BY <3>2, CycleDatesAre
  <2> QED BY <2>1, <2>2
<1>7. Loan(l).originates \in Nat \cup {NoDate}
  BY <1>4 DEF ResolvedLoans
<1> QED BY <1>4, <1>5, <1>6, <1>7

\* The month a loan is borrowed in; one owed at the start, the month before.
Borrowed(l) == IF Loan(l).originates = NoDate THEN MonthOf(Start) - 1 ELSE MonthOf(Loan(l).originates)

\* What a loan owes, and has paid in interest, is what its monthly schedule says.
OnSchedule(l) ==
    LET due == Amortized(l, Loan(l).principal, MonthOf(Upto) - Borrowed(l))
    IN  owed[l] = due.balance /\ interest[l] = due.interest

LoanInv ==
    /\ owed \in [Handles -> Nat] /\ interest \in [Handles -> Int] /\ settled \subseteq Handles
    /\ \A l \in Handles :
           /\ Loan(l).originates > Upto => owed[l] = 0 /\ interest[l] = 0 /\ l \notin settled
           /\ Loan(l).originates <= Upto /\ l \notin settled => OnSchedule(l)
           /\ l \in settled => owed[l] = 0

\* The months of the interval about to be computed.
LEMMA MonthsOfSpan ==
    ASSUME WalkInv, stage = "compute"
    PROVE  /\ Months(Span) \in Nat \ {0} /\ Months(Span) = MonthOf(Span.end) - MonthOf(Upto)
           /\ MonthOf(Upto) \in Int /\ MonthOf(Upto) >= MonthOf(Start) - 1 /\ MonthOf(Start) \in Nat
           /\ MonthOf(Span.start) = MonthOf(Upto) + 1 /\ MonthOf(Span.end) \in Nat
           /\ \A x \in Nat : x <= Span.end => MonthOf(x) \in Nat /\ MonthOf(x) <= MonthOf(Span.end)
           /\ \A x \in Nat : x <= Upto => MonthOf(x) \in Nat /\ MonthOf(x) <= MonthOf(Upto)
<1> DEFINE s == Span.start
           e == Span.end
           u == Upto
<1>1. s \in Nat /\ e \in Nat /\ s <= e /\ u \in Int /\ s = u + 1 /\ s % 2 = 0 /\ s >= Start
  BY SpanFollows DEF SpanNext, WalkInv
<1>2. Start \in Nat /\ Start % 2 = 0
  BY ParametersAssumption
<1>3. Months(Span) = MonthOf(e) - MonthOf(s) + 1
  BY DEF Months, MonthIndexOf
<1> HIDE DEF s, e, u
<1>4. MonthOf(s) = MonthOf(u) + 1 /\ MonthOf(u) \in Int /\ MonthOf(s) \in Int /\ MonthOf(e) \in Nat /\ MonthOf(s) <= MonthOf(e)
  BY <1>1 DEF MonthOf
<1>5. MonthOf(Start) \in Nat /\ MonthOf(u) >= MonthOf(Start) - 1
  BY <1>1, <1>2 DEF MonthOf
<1>6. \A x \in Nat : x <= e => MonthOf(x) \in Nat /\ MonthOf(x) <= MonthOf(e)
  BY <1>1 DEF MonthOf
<1>7. \A x \in Nat : x <= u => MonthOf(x) \in Nat /\ MonthOf(x) <= MonthOf(u)
  BY <1>1 DEF MonthOf
<1> QED BY <1>3, <1>4, <1>5, <1>6, <1>7 DEF s, e, u

LEMMA LoanParts ==
    ASSUME WalkInv, NEW l \in Handles
    PROVE  /\ Loan(l).principal \in Nat /\ Loan(l).rate \in Rates /\ Loan(l).payment \in Rates /\ Loan(l).extra \in Nat
           /\ Loan(l).originates \in Int
           /\ (Loan(l).originates = NoDate \/ (Loan(l).originates \in Nat /\ Loan(l).originates >= Start))
<1>1. Loan(l) \in ResolvedLoans
  BY LoansTyped
<1> DEFINE x == Loan(l)
<1>2. x.principal \in Nat /\ x.rate \in Rates /\ x.payment \in Rates /\ x.extra \in Nat /\ x.originates \in Nat \cup {NoDate}
  <2> HIDE DEF x
  <2>1. x \in ResolvedLoans
    BY <1>1 DEF x
  <2> QED BY <2>1 DEF ResolvedLoans, Rates
<1> QED BY <1>2, LoansTyped DEF NoDate

\* What the interval makes of a loan: nothing before it is borrowed; else the months since,
\* or all the months of the interval, of what is owed.
LEMMA TermIs ==
    ASSUME WalkInv, LoanInv, stage = "compute", NEW l \in Handles
    PROVE  LET on    == Loan(l).originates
               term  == LiabilityTerm(l, Span)
               after == AfterOrigination(l, term)
               due   == IF on <= Upto THEN Amortized(l, owed[l], Months(Span))
                        ELSE Amortized(l, Loan(l).principal, MonthOf(Span.end) - MonthOf(on))
           IN  IF on > Span.end THEN after = 0 /\ term.interest = 0
               ELSE due \in Terms /\ after = due.balance /\ after \in Nat /\ term.interest = due.interest
<1> DEFINE on    == Loan(l).originates
           term  == LiabilityTerm(l, Span)
           after == AfterOrigination(l, term)
           o     == owed[l]
           pr    == Loan(l).principal
           n     == MonthOf(Span.end) - MonthOf(on)
<1>1. SpanNext /\ o \in Nat /\ pr \in Nat
  BY SpanFollows, LoanParts DEF LoanInv
<1>2. on \in Int /\ (on = NoDate \/ (on \in Nat /\ on >= Start)) /\ Start \in Nat
  BY LoanParts, ParametersAssumption
<1>3. /\ Span.start \in Nat /\ Span.end \in Nat /\ Span.start <= Span.end /\ Upto \in Int /\ Span.start = Upto + 1
      /\ Upto >= Start - 1
  BY <1>1 DEF SpanNext, WalkInv
<1>4. Months(Span) \in Nat /\ (on \in Nat /\ on <= Span.end => n \in Nat)
      /\ MonthOf(Span.end) \in Nat /\ MonthOf(Span.start) \in Int /\ (on \in Nat => MonthOf(on) \in Nat)
      /\ Months(Span) = MonthOf(Span.end) - MonthOf(Span.start) + 1
  <2>1. on \in Nat /\ on <= Span.end => MonthOf(on) \in Nat /\ MonthOf(on) <= MonthOf(Span.end)
    BY MonthsOfSpan
  <2>2. Months(Span) \in Nat /\ MonthOf(Span.end) \in Nat
    BY MonthsOfSpan
  <2>3. MonthOf(Span.start) \in Int /\ (on \in Nat => MonthOf(on) \in Nat)
    BY <1>3 DEF MonthOf
  <2> QED BY <2>1, <2>2, <2>3 DEF Months, MonthIndexOf
<1>5. \A b \in Nat, m \in Nat :
         /\ Amortized(l, b, m) \in Terms /\ Amortized(l, b, m).balance + Amortized(l, b, m).principal = b
         /\ Amortized(l, b, m).balance >= 0 /\ (b = 0 => Amortized(l, b, m) = NoTerm) /\ Amortized(l, b, 0) = Opened(b)
  <2> SUFFICES ASSUME NEW b \in Nat, NEW m \in Nat
               PROVE  /\ Amortized(l, b, m) \in Terms /\ Amortized(l, b, m).balance + Amortized(l, b, m).principal = b
                      /\ Amortized(l, b, m).balance >= 0 /\ (b = 0 => Amortized(l, b, m) = NoTerm) /\ Amortized(l, b, 0) = Opened(b)
    OBVIOUS
  <2>1. Loan(l).rate \in Rates /\ Loan(l).payment \in Rates /\ Loan(l).extra \in Nat /\ b \in Int
    BY LoanParts
  <2> DEFINE R == Loan(l).rate
             P == Loan(l).payment
             X == Loan(l).extra
  <2>2. R \in Rates /\ P \in Rates /\ X \in Nat /\ b \in Int
    BY <2>1
  <2> HIDE DEF R, P, X
  <2>3. /\ AmortizeMonths(b, R, P, X, m) \in Terms
        /\ AmortizeMonths(b, R, P, X, m).balance + AmortizeMonths(b, R, P, X, m).principal = b
        /\ b >= 0 => AmortizeMonths(b, R, P, X, m).balance >= 0
        /\ b <= 0 => AmortizeMonths(b, R, P, X, m) = Opened(b)
    BY <2>2, AmortizeKeeps
  <2>4. AmortizeMonths(b, R, P, X, 0) = Opened(b)
    BY <2>2, AmortizeUnfold
  <2> QED BY <2>3, <2>4 DEF Amortized, R, P, X, NoTerm, Opened
<1>6. CASE on > Span.end
  <2>1. on > Upto /\ ~InSpan(Span, on)
    BY <1>2, <1>3, <1>6 DEF InSpan
  <2>2. term = NoTerm /\ o = 0
    BY <1>6, <2>1 DEF LiabilityTerm, LoanInv
  <2>3. after = 0 /\ term.interest = 0
    BY <2>1, <2>2 DEF AfterOrigination, NoTerm
  <2> QED BY <1>6, <2>3
<1>7. CASE on <= Upto
  <2> DEFINE due == Amortized(l, o, Months(Span))
  <2>1. ~(on > Span.end) /\ (on = NoDate \/ on < Span.start) /\ ~InSpan(Span, on)
    BY <1>2, <1>3, <1>7 DEF InSpan
  <2>2. term = IF o <= 0 THEN NoTerm ELSE due
    BY <2>1 DEF LiabilityTerm
  <2>3. due \in Terms /\ due.balance + due.principal = o /\ due.balance >= 0 /\ (o = 0 => due = NoTerm)
    BY <1>1, <1>4, <1>5
  <2>4. term = due
    <3> HIDE DEF due, term
    <3> QED BY <1>1, <2>2, <2>3
  <2>5. after = o - due.principal + 0
    BY <2>1, <2>4 DEF AfterOrigination
  <2> HIDE DEF due, after, term
  <2>6. due.balance \in Int /\ due.principal \in Int
    BY <2>3 DEF Terms
  <2>7. after = due.balance /\ after \in Nat /\ due \in Terms /\ term.interest = due.interest
    BY <1>1, <2>3, <2>4, <2>5, <2>6
  <2> QED BY <1>7, <2>1, <2>7 DEF due, after, term
<1>8. CASE on > Upto /\ on <= Span.end
  <2> DEFINE due == Amortized(l, pr, n)
  <2>1. on \in Nat /\ on >= Span.start /\ InSpan(Span, on) /\ ~(on > Span.end) /\ ~(on = NoDate \/ on < Span.start) /\ n \in Nat
    BY <1>2, <1>3, <1>4, <1>8 DEF InSpan, NoDate
  <2>2. Months(Span) - MonthIndexOf(Span, on) - 1 = n
    BY <1>4, <2>1 DEF MonthIndexOf
  <2>3. term = IF n <= 0 THEN NoTerm ELSE due
    <3> HIDE DEF n
    <3> QED BY <2>1, <2>2 DEF LiabilityTerm
  <2>4. due \in Terms /\ due.balance + due.principal = pr /\ due.balance >= 0 /\ (n = 0 => due = Opened(pr))
    BY <1>1, <2>1, <1>5
  <2>5. term.interest = due.interest /\ term.principal = due.principal
    <3> HIDE DEF due, term, n
    <3> QED BY <2>1, <2>3, <2>4 DEF NoTerm, Opened
  <2>6. o = 0
    BY <1>8 DEF LoanInv
  <2>7. after = 0 - due.principal + pr
    BY <2>1, <2>5, <2>6 DEF AfterOrigination
  <2> HIDE DEF due, after, term
  <2>8. due.balance \in Int /\ due.principal \in Int
    BY <2>4 DEF Terms
  <2>9. after = due.balance /\ after \in Nat /\ due \in Terms /\ term.interest = due.interest /\ ~(on <= Upto)
    BY <1>1, <1>2, <1>3, <1>8, <2>4, <2>5, <2>7, <2>8
  <2> QED BY <2>1, <2>9 DEF due, after, term
<1> QED BY <1>2, <1>3, <1>6, <1>7, <1>8

\* What is paid off is owed no more; everything else is as the interval makes it.
LEMMA LoanStep ==
    ASSUME WalkInv, LoanInv, ComputeInterval
    PROVE  /\ owed' \in [Handles -> Nat] /\ interest' \in [Handles -> Int] /\ settled' \subseteq Handles /\ settled \subseteq settled'
           /\ \A l \in Handles :
                 LET term  == LiabilityTerm(l, Span)
                     after == AfterOrigination(l, term)
                 IN  /\ interest'[l] = interest[l] + term.interest
                     /\ l \in PaidOff(reported') => owed'[l] = 0 /\ (after = 0 \/ l \in settled')
                     /\ l \notin PaidOff(reported') => owed'[l] = after /\ (l \in settled' <=> l \in settled)
                     /\ after = 0 => owed'[l] = 0 /\ (l \in settled' <=> l \in settled)
<1> DEFINE term  == [l \in Handles |-> LiabilityTerm(l, Span)]
           after == [l \in Handles |-> AfterOrigination(l, term[l])]
           paid  == PaidOff(reported')
<1>1. /\ owed' = [l \in Handles |-> IF l \in paid THEN Lesser(0, after[l]) ELSE after[l]]
      /\ settled' = settled \cup {l \in Handles : l \in paid /\ after[l] > 0}
      /\ interest' = [l \in Handles |-> interest[l] + term[l].interest]
  BY DEF ComputeInterval
<1>2. stage = "compute"
  BY DEF ComputeInterval
<1>3. ASSUME NEW l \in Handles PROVE after[l] \in Nat /\ term[l].interest \in Int
  <2>1. term[l] = LiabilityTerm(l, Span) /\ after[l] = AfterOrigination(l, LiabilityTerm(l, Span))
    OBVIOUS
  <2> HIDE DEF term, after
  <2>2. CASE Loan(l).originates > Span.end
    <3>1. AfterOrigination(l, LiabilityTerm(l, Span)) = 0 /\ LiabilityTerm(l, Span).interest = 0
      BY <1>2, <2>2, TermIs
    <3> QED BY <2>1, <3>1
  <2>3. CASE ~(Loan(l).originates > Span.end)
    <3>1. PICK due \in Terms : /\ AfterOrigination(l, LiabilityTerm(l, Span)) \in Nat
                               /\ LiabilityTerm(l, Span).interest = due.interest
      BY <1>2, <2>3, TermIs
    <3>2. due.interest \in Int
      BY DEF Terms
    <3> QED BY <2>1, <3>1, <3>2
  <2> QED BY <2>2, <2>3
<1>4. \A l \in Handles : Lesser(0, after[l]) = 0 /\ (after[l] = 0 \/ after[l] > 0)
  <2> HIDE DEF after
  <2> QED BY <1>3 DEF Lesser
<1>5. \A l \in Handles : interest[l] \in Int
  BY DEF LoanInv
<1>6. \A l \in Handles : term[l] = LiabilityTerm(l, Span) /\ after[l] = AfterOrigination(l, LiabilityTerm(l, Span))
  OBVIOUS
<1> HIDE DEF term, after, paid
<1>7. interest' \in [Handles -> Int] /\ \A l \in Handles : interest'[l] = interest[l] + term[l].interest
  <2>1. \A l \in Handles : interest[l] + term[l].interest \in Int
    BY <1>3, <1>5
  <2> QED BY <1>1, <2>1
<1>8. owed' \in [Handles -> Nat] /\ \A l \in Handles : owed'[l] = IF l \in paid THEN 0 ELSE after[l]
  <2>1. \A l \in Handles : (IF l \in paid THEN Lesser(0, after[l]) ELSE after[l]) = (IF l \in paid THEN 0 ELSE after[l])
                           /\ (IF l \in paid THEN 0 ELSE after[l]) \in Nat
    BY <1>3, <1>4
  <2> QED BY <1>1, <2>1
<1>9. settled' \subseteq Handles /\ settled \subseteq settled' /\ \A l \in Handles : l \in settled' <=> l \in settled \/ (l \in paid /\ after[l] > 0)
  BY <1>1 DEF LoanInv
<1>10. \A l \in Handles : after[l] = 0 => ~(after[l] > 0)
  BY <1>3
<1> QED BY <1>4, <1>6, <1>7, <1>8, <1>9, <1>10 DEF paid

LEMMA LoanCompute ==
    ASSUME WalkInv, LoanInv, ComputeInterval
    PROVE  LoanInv'
<1>1. WalkInv' /\ plan' = plan /\ Upto' = Span.end /\ stage = "compute"
  BY WalkCompute
<1>2. Handles' = Handles /\ \A l : Loan(l)' = Loan(l) /\ Borrowed(l)' = Borrowed(l)
  BY <1>1 DEF Handles, Loan, Borrowed
<1>3. owed' \in [Handles -> Nat] /\ interest' \in [Handles -> Int] /\ settled' \subseteq Handles
  BY LoanStep
<1>4. SpanNext
  BY <1>1, SpanFollows
<1>5. Span.start \in Nat /\ Span.end \in Nat /\ Span.start <= Span.end /\ Upto \in Int /\ Span.start = Upto + 1
  BY <1>4 DEF SpanNext, WalkInv
<1>6. ASSUME NEW l \in Handles
      PROVE  /\ Loan(l).originates > Span.end => owed'[l] = 0 /\ interest'[l] = 0 /\ l \notin settled'
             /\ Loan(l).originates <= Span.end /\ l \notin settled' =>
                   LET due == Amortized(l, Loan(l).principal, MonthOf(Span.end) - Borrowed(l))
                   IN  owed'[l] = due.balance /\ interest'[l] = due.interest
             /\ l \in settled' => owed'[l] = 0
  <2> DEFINE on    == Loan(l).originates
             term  == LiabilityTerm(l, Span)
             after == AfterOrigination(l, term)
  <2>1. on \in Int /\ (on = NoDate \/ (on \in Nat /\ on >= Start)) /\ owed[l] \in Nat /\ interest[l] \in Int
    BY LoanParts DEF LoanInv
  <2>2. /\ interest'[l] = interest[l] + term.interest
        /\ l \in PaidOff(reported') => owed'[l] = 0 /\ (after = 0 \/ l \in settled')
        /\ l \notin PaidOff(reported') => owed'[l] = after /\ (l \in settled' <=> l \in settled)
        /\ after = 0 => owed'[l] = 0 /\ (l \in settled' <=> l \in settled)
    BY LoanStep
  <2>3. CASE on > Span.end
    <3>1. after = 0 /\ term.interest = 0
      BY <1>1, <2>3, TermIs
    <3>2. on > Upto
      BY <1>5, <2>1, <2>3
    <3>3. interest[l] = 0 /\ l \notin settled
      BY <3>2 DEF LoanInv
    <3> HIDE DEF term, after
    <3>4. owed'[l] = 0 /\ interest'[l] = 0 /\ l \notin settled'
      BY <2>2, <3>1, <3>3
    <3>5. ~(on <= Span.end)
      BY <1>5, <2>1, <2>3
    <3> QED BY <3>4, <3>5
  <2>4. CASE on <= Span.end
    <3>1. ~(on > Span.end)
      BY <1>5, <2>1, <2>4
    <3> DEFINE now == IF on <= Upto THEN Amortized(l, owed[l], Months(Span))
                      ELSE Amortized(l, Loan(l).principal, MonthOf(Span.end) - MonthOf(on))
               due == Amortized(l, Loan(l).principal, MonthOf(Span.end) - Borrowed(l))
    <3>2. now \in Terms /\ after = now.balance /\ after \in Nat /\ term.interest = now.interest
      BY <1>1, <3>1, TermIs
    <3>3. l \in settled' => owed'[l] = 0
      <4>1. CASE l \in settled
        <5>1. owed[l] = 0 /\ on <= Upto
          BY <4>1, <2>1, <1>5 DEF LoanInv
        <5>2. now = Opened(0)
          <6>1. /\ Loan(l).rate \in Rates /\ Loan(l).payment \in Rates /\ Loan(l).extra \in Nat /\ 0 \in Int
                /\ Months(Span) \in Nat
            BY <1>1, LoanParts, MonthsOfSpan
          <6>2. Amortized(l, 0, Months(Span)) = Opened(0)
            BY <6>1, AmortizeKeeps DEF Amortized
          <6> QED BY <5>1, <6>2
        <5>3. after = 0
          BY <3>2, <5>2 DEF Opened
        <5> HIDE DEF after, term
        <5> QED BY <2>2, <5>3
      <4>2. CASE l \notin settled
        <5> HIDE DEF after, term
        <5> QED BY <2>2, <4>2
      <4> QED BY <4>1, <4>2
    <3>4. ASSUME l \notin settled' PROVE owed'[l] = due.balance /\ interest'[l] = due.interest
      <4>1. l \notin settled
        BY <3>4, LoanStep
      <4>2. owed'[l] = after
        <5> HIDE DEF after, term
        <5> QED BY <2>2, <3>4
      <4>3. owed'[l] = now.balance /\ interest'[l] = interest[l] + now.interest
        <5>1. interest'[l] = interest[l] + term.interest
          BY <2>2
        <5> HIDE DEF after, term, now
        <5> QED BY <3>2, <4>2, <5>1
      <4>4. CASE on <= Upto
        <5> DEFINE m == MonthOf(Upto) - Borrowed(l)
                   first == Amortized(l, Loan(l).principal, m)
        <5>1. m \in Nat /\ Months(Span) \in Nat /\ m + Months(Span) = MonthOf(Span.end) - Borrowed(l)
          <6>1. /\ Months(Span) \in Nat /\ Months(Span) = MonthOf(Span.end) - MonthOf(Upto)
                /\ MonthOf(Upto) \in Int /\ MonthOf(Upto) >= MonthOf(Start) - 1 /\ MonthOf(Start) \in Nat /\ MonthOf(Span.end) \in Nat
                /\ (on \in Nat => MonthOf(on) \in Nat /\ MonthOf(on) <= MonthOf(Upto))
            BY <1>1, <4>4, MonthsOfSpan
          <6> HIDE DEF on
          <6>2. on = Loan(l).originates
            BY DEF on
          <6>3. Borrowed(l) \in Int /\ Borrowed(l) <= MonthOf(Upto)
            BY <2>1, <6>1, <6>2 DEF Borrowed
          <6> QED BY <6>1, <6>3
        <5>2. owed[l] = first.balance /\ interest[l] = first.interest
          BY <4>1, <4>4 DEF LoanInv, OnSchedule
        <5>3. now = Amortized(l, first.balance, Months(Span))
          BY <4>4, <5>2
        <5>4. due = [balance |-> now.balance, interest |-> first.interest + now.interest, principal |-> first.principal + now.principal]
          <6>1. /\ Loan(l).rate \in Rates /\ Loan(l).payment \in Rates /\ Loan(l).extra \in Nat /\ Loan(l).principal \in Int
            BY LoanParts
          <6> HIDE DEF m
          <6>2. Amortized(l, Loan(l).principal, m + Months(Span))
                   = [balance |-> now.balance, interest |-> first.interest + now.interest, principal |-> first.principal + now.principal]
            BY <5>1, <5>3, <6>1, AmortizeCompose DEF Amortized
          <6> QED BY <5>1, <6>2
        <5> HIDE DEF due, now, first
        <5> QED BY <4>3, <5>2, <5>4
      <4>5. CASE ~(on <= Upto)
        <5>1. on > Upto /\ on \in Nat /\ on # NoDate
          BY <1>5, <2>1, <4>5, ParametersAssumption DEF NoDate, WalkInv
        <5>2. interest[l] = 0
          BY <5>1 DEF LoanInv
        <5>3. now = due
          BY <4>5, <5>1 DEF Borrowed
        <5>4. now.interest \in Int
          <6> HIDE DEF now
          <6> QED BY <3>2 DEF Terms
        <5> HIDE DEF due, now
        <5> QED BY <4>3, <5>2, <5>3, <5>4
      <4> QED BY <4>4, <4>5
    <3> HIDE DEF due, now, term, after
    <3>5. due = Amortized(l, Loan(l).principal, MonthOf(Span.end) - Borrowed(l))
      BY DEF due
    <3> QED BY <3>1, <3>3, <3>4, <3>5
  <2> QED BY <1>5, <2>1, <2>3, <2>4
<1>7. \A l \in Handles : OnSchedule(l)' <=>
         LET due == Amortized(l, Loan(l).principal, MonthOf(Span.end) - Borrowed(l))
         IN  owed'[l] = due.balance /\ interest'[l] = due.interest
  BY <1>1, <1>2 DEF OnSchedule, Amortized
<1> QED BY <1>1, <1>2, <1>3, <1>6, <1>7 DEF LoanInv

LEMMA LoanOther ==
    ASSUME WalkInv, LoanInv, OpenInterval \/ CloseInterval \/ UNCHANGED vars
    PROVE  LoanInv'
<1>1. plan' = plan /\ Upto' = Upto
  BY WalkOther
<1>2. owed' = owed /\ interest' = interest /\ settled' = settled
  BY DEF OpenInterval, CloseInterval, vars
<1>3. Handles' = Handles /\ \A l : Loan(l)' = Loan(l) /\ Borrowed(l)' = Borrowed(l)
  BY <1>1 DEF Handles, Loan, Borrowed
<1>4. \A l \in Handles : OnSchedule(l)' <=> OnSchedule(l)
  BY <1>1, <1>2, <1>3 DEF OnSchedule, Amortized
<1> QED BY <1>1, <1>2, <1>3, <1>4 DEF LoanInv

LEMMA LoanStart == Init => LoanInv
<1> SUFFICES ASSUME Init PROVE LoanInv
  OBVIOUS
<1>1. WalkInv /\ Upto = Start - 1 /\ Start \in Nat /\ Start % 2 = 0
  BY WalkStart, ParametersAssumption
<1>2. /\ owed = [l \in Handles |-> IF Loan(l).originates = NoDate THEN Loan(l).principal ELSE 0]
      /\ interest = [l \in Handles |-> 0] /\ settled = {}
  BY DEF Init
<1>3. \A l \in Handles : Loan(l).principal \in Nat /\ (Loan(l).originates = NoDate \/ (Loan(l).originates \in Nat /\ Loan(l).originates >= Start))
  BY <1>1, LoanParts
<1>4. owed \in [Handles -> Nat] /\ interest \in [Handles -> Int]
  BY <1>2, <1>3
<1>5. ASSUME NEW l \in Handles, Loan(l).originates <= Upto PROVE OnSchedule(l)
  <2>1. Loan(l).originates = NoDate
    BY <1>1, <1>3, <1>5
  <2>2. MonthOf(Upto) - Borrowed(l) = 0
    BY <1>1, <2>1 DEF MonthOf, Borrowed
  <2>3. Amortized(l, Loan(l).principal, 0) = Opened(Loan(l).principal)
    <3>1. Loan(l).rate \in Rates /\ Loan(l).payment \in Rates /\ Loan(l).extra \in Nat /\ Loan(l).principal \in Int
      BY <1>1, LoanParts
    <3> QED BY <3>1, AmortizeUnfold DEF Amortized
  <2>4. owed[l] = Loan(l).principal /\ interest[l] = 0
    BY <1>2, <2>1
  <2> QED BY <2>2, <2>3, <2>4 DEF OnSchedule, Opened
<1>6. ASSUME NEW l \in Handles, Loan(l).originates > Upto PROVE owed[l] = 0 /\ interest[l] = 0
  <2>1. Loan(l).originates # NoDate
    BY <1>1, <1>6 DEF NoDate
  <2> QED BY <1>2, <2>1
<1> QED BY <1>2, <1>4, <1>5, <1>6 DEF LoanInv

\* Every loan an event has not settled is, at the end of every interval, where its monthly schedule
\* is, whatever the frame, the granularity, the loans and the date of the borrowing
\* (_amortize_months, _loan_liability_term).
THEOREM LoansAmortizeAlike == Spec => []AmortizesAlike
<1> DEFINE Inv == WalkInv /\ LoanInv
<1>1. Init => Inv
  BY WalkStart, LoanStart
<1>2. Inv /\ [Next]_vars => Inv'
  <2> SUFFICES ASSUME WalkInv, LoanInv, [Next]_vars PROVE WalkInv' /\ LoanInv'
    OBVIOUS
  <2>1. CASE ComputeInterval
    BY <2>1, WalkCompute, LoanCompute
  <2>2. CASE OpenInterval \/ CloseInterval \/ UNCHANGED vars
    BY <2>2, WalkOther, LoanOther
  <2> QED BY <2>1, <2>2 DEF Next, Stopped
<1>3. Inv => AmortizesAlike
  <2> SUFFICES ASSUME WalkInv, LoanInv, Between, NEW l \in Handles \ settled
               PROVE  LET on     == Loan(l).originates
                          months == MonthOf(Walked.end) - (IF on = NoDate THEN MonthOf(Start) - 1 ELSE MonthOf(on))
                      IN  IF on > Walked.end THEN owed[l] = 0
                          ELSE LET due == Amortized(l, Loan(l).principal, months)
                               IN  owed[l] = due.balance /\ interest[l] = due.interest
    BY DEF AmortizesAlike
  <2>1. Upto = Walked.end /\ Upto \in Int
    <3>1. Computed = k - 1 /\ Computed # 0
      BY DEF Between, Computed, WalkInv
    <3> QED BY <3>1 DEF Upto, Walked, WalkInv
  <2>2. Loan(l).originates \in Int
    BY LoanParts
  <2> QED BY <2>1, <2>2 DEF LoanInv, OnSchedule, Borrowed
<1> QED BY <1>1, <1>2, <1>3, PTL DEF Spec
-----------------------------------------------------------------------------
(* The cycles of a replacement schedule. *)

\* The dates that fall in an interval are those reached by its end and not before it.
LEMMA TilesWithin ==
    ASSUME NEW q, NEW a \in Int, NEW b \in Int, Tiles(q, a, b), NEW n \in 1 .. Len(q)
    PROVE  q[n].end <= b
<1> DEFINE N == Len(q)
           Bad == {m \in Nat : m < N /\ ~(q[N - m].end <= b)}
<1>1. N \in Nat /\ q[N].end = b /\ \A j \in 1 .. N : q[j].start \in Int /\ q[j].end \in Int /\ q[j].start <= q[j].end
  <2>1. q \in Seq(Interval) /\ N \in Nat /\ q[N].end = b /\ \A j \in 1 .. N : Cut(q[j])
    BY DEF Tiles
  <2>2. ASSUME NEW j \in 1 .. N PROVE q[j].start \in Int /\ q[j].end \in Int /\ q[j].start <= q[j].end
    <3>1. q[j] \in Interval
      BY <2>1
    <3> QED BY <2>1, <3>1 DEF Interval, Cut
  <2> QED BY <2>1, <2>2
<1>2. \A j \in 1 .. N : j > 1 => q[j].start = q[j - 1].end + 1
  BY DEF Tiles
<1>3. Bad = {}
  <2> SUFFICES ASSUME Bad # {} PROVE FALSE
    OBVIOUS
  <2>1. PICK m \in Bad : \A j \in Bad : m <= j
    BY Smallest
  <2>2. m # 0
    BY <1>1, <2>1
  <2>3. m - 1 \in Nat /\ m - 1 \notin Bad /\ N - m \in 1 .. N /\ N - (m - 1) \in 1 .. N /\ (N - (m - 1)) - 1 = N - m /\ N - (m - 1) > 1
    BY <1>1, <2>1, <2>2
  <2> DEFINE i == N - (m - 1)
             j == N - m
  <2>4. q[i].end <= b /\ q[i].start = q[j].end + 1 /\ i \in 1 .. N /\ j \in 1 .. N
    <3>1. q[i].end <= b
      <4>1. m - 1 < N
        BY <1>1, <2>1, <2>3
      <4> QED BY <2>3, <4>1
    <3>2. q[i].start = q[i - 1].end + 1 /\ i - 1 = j
      BY <1>2, <2>3
    <3> QED BY <2>3, <3>1, <3>2
  <2>5. q[N - m].end <= b
    <3> HIDE DEF i, j
    <3>1. q[j].end <= b
      <4>1. i \in 1 .. N /\ j \in 1 .. N
        BY <2>4
      <4>2. q[i].start \in Int /\ q[i].end \in Int /\ q[i].start <= q[i].end /\ q[j].end \in Int
        BY <1>1, <4>1
      <4>3. q[i].end <= b /\ q[i].start = q[j].end + 1
        BY <2>4
      <4> QED BY <4>2, <4>3
    <3> QED BY <3>1 DEF j
  <2> QED BY <2>1, <2>5
<1>4. N - n \in Nat /\ N - n < N /\ N - (N - n) = n
  BY <1>1
<1> QED BY <1>3, <1>4

LEMMA RankAdds ==
    ASSUME NEW lo \in Int, NEW hi \in Int, NEW D, Within(D, lo, hi), NEW x \in Int, NEW y \in Int, x <= y
    PROVE  /\ Cardinality({d \in D : x < d /\ d <= y}) \in Nat
           /\ Rank(D, y) = Rank(D, x) + Cardinality({d \in D : x < d /\ d <= y})
<1> DEFINE B == {d \in D : x < d /\ d <= y}
<1>1. IsFiniteSet(UpTo(D, x)) /\ IsFiniteSet(UpTo(D, y)) /\ Rank(D, x) \in Nat /\ Rank(D, y) \in Nat
  <2>1. \A z \in Int : IsFiniteSet(UpTo(D, z)) /\ Rank(D, z) \in 0 .. Cardinality(D)
    BY RankGrows
  <2> QED BY <2>1
<1>2. UpTo(D, y) = UpTo(D, x) \cup B /\ UpTo(D, x) \cap B = {}
  <2>1. \A d \in D : d \in Int
    BY DEF Within
  <2> QED BY <2>1 DEF UpTo
<1>3. IsFiniteSet(B)
  <2>1. B \in SUBSET UpTo(D, y)
    BY DEF UpTo
  <2> QED BY <1>1, <2>1, FS_Subset
<1>4. Cardinality(UpTo(D, y)) = Cardinality(UpTo(D, x)) + Cardinality(B) - Cardinality(UpTo(D, x) \cap B)
  <2> HIDE DEF B
  <2> QED BY <1>1, <1>2, <1>3, FS_Union
<1>5. Cardinality(UpTo(D, x) \cap B) = 0 /\ Cardinality(B) \in Nat
  <2> HIDE DEF B
  <2> QED BY <1>2, <1>3, FS_EmptySet, FS_CardinalityType
<1> HIDE DEF B
<1> QED BY <1>1, <1>4, <1>5 DEF Rank, B

\* A cycle has begun by a date when its rank has been reached.
LEMMA CycleBegun ==
    ASSUME NEW p \in Plans, NEW r \in Range(p.recurring), NEW c \in DOMAIN CycleDates(r), NEW x \in Int
    PROVE  CycleDates(r)[c] <= x <=> c <= Rank(CycleDays(r), x)
<1> DEFINE D == CycleDays(r)
           d == CycleDates(r)[c]
<1>1. Within(D, Start, End) /\ d \in D /\ d \in Int /\ Rank(D, d) = c /\ c \in Nat
  BY CycleDatesAre
<1>2. Start \in Int /\ End \in Int
  BY ParametersAssumption
<1> HIDE DEF D, d
<1>3. /\ \A z \in Int : Rank(D, z) \in 0 .. Cardinality(D)
      /\ \A z \in D : Rank(D, z) = Rank(D, z - 1) + 1
      /\ \A w \in Int, z \in Int : w <= z => Rank(D, w) <= Rank(D, z)
  BY <1>1, <1>2, RankGrows
<1>4. d <= x => c <= Rank(D, x)
  BY <1>1, <1>3
<1>5. ASSUME ~(d <= x) PROVE ~(c <= Rank(D, x))
  <2>1. x <= d - 1 /\ d - 1 \in Int
    BY <1>1, <1>5
  <2>2. Rank(D, x) <= Rank(D, d - 1) /\ c = Rank(D, d - 1) + 1
    BY <1>1, <1>3, <2>1
  <2>3. Rank(D, x) \in Int /\ Rank(D, d - 1) \in Int
    BY <1>3, <2>1
  <2> QED BY <2>2, <2>3
<1>6. d <= x <=> c <= Rank(D, x)
  BY <1>4, <1>5
<1> QED BY <1>6 DEF D, d

\* The loan of a cycle is borrowed on its date, and paid off on the date of the next.
LEMMA CycleLoanIs ==
    ASSUME WalkInv, NEW r \in Range(plan.recurring), NEW c \in DOMAIN CycleDates(r)
    PROVE  /\ <<r.handle, c>> \in Handles /\ Loan(<<r.handle, c>>).originates = CycleDates(r)[c]
           /\ c + 1 \in DOMAIN CycleDates(r) =>
                 [kind |-> "payoff", on |-> CycleDates(r)[c + 1], loan |-> <<r.handle, c>>] \in plan.schedule
<1>1. PICK p \in Plans, every \in Granularities : plan = Constructed(p, every)
  BY DEF WalkInv
<1>2. /\ plan.recurring = p.recurring /\ plan.schedule = p.schedule \cup AllRollovers(p)
      /\ plan.loans = [handle \in {m.handle : m \in AllLoans(p)} |-> Resolved(CHOOSE m \in AllLoans(p) : m.handle = handle)]
  BY <1>1 DEF Constructed
<1>3. r \in Range(p.recurring)
  BY <1>2
<1> DEFINE l == [handle |-> <<r.handle, c>>, principal |-> Inflated(r.principal, YearOf(CycleDates(r)[c])),
                 rate |-> r.rate, term |-> r.term, extra |-> r.extra, originates |-> CycleDates(r)[c]]
<1>4. l \in AllLoans(p)
  <2>1. l \in CycleLoans(r)
    BY DEF CycleLoans
  <2> QED BY <2>1, <1>3 DEF AllLoans
<1>5. l.handle = <<r.handle, c>> /\ l.originates = CycleDates(r)[c]
  OBVIOUS
<1> HIDE DEF l
<1>6. (CHOOSE m \in AllLoans(p) : m.handle = <<r.handle, c>>) = l
  <2>1. \A m \in AllLoans(p) : m.handle = l.handle => m = l
    BY <1>4, LoansAssumption
  <2> QED BY <1>4, <1>5, <2>1
<1>7. <<r.handle, c>> \in Handles /\ Loan(<<r.handle, c>>) = Resolved(l)
  <2>1. <<r.handle, c>> \in {m.handle : m \in AllLoans(p)}
    BY <1>4, <1>5
  <2> QED BY <1>2, <1>6, <2>1 DEF Handles, Loan
<1>8. ASSUME c + 1 \in DOMAIN CycleDates(r)
      PROVE  [kind |-> "payoff", on |-> CycleDates(r)[c + 1], loan |-> <<r.handle, c>>] \in plan.schedule
  <2>1. c \in Nat \ {0} /\ c + 1 \in 2 .. Len(CycleDates(r)) /\ (c + 1) - 1 = c
    BY <1>3, <1>8, CycleDatesAre
  <2>2. [kind |-> "payoff", on |-> CycleDates(r)[c + 1], loan |-> <<r.handle, (c + 1) - 1>>] \in Rollovers(r)
    BY <2>1 DEF Rollovers
  <2> QED BY <1>2, <1>3, <2>1, <2>2 DEF AllRollovers
<1> QED BY <1>5, <1>7, <1>8 DEF Resolved

\* A loan that is paid off in an interval, or owes nothing after it was borrowed, owes nothing after.
LEMMA StaysPaid ==
    ASSUME WalkInv, LoanInv, ComputeInterval, NEW l \in Handles,
           l \in PaidOff(reported') \/ (Loan(l).originates <= Upto /\ owed[l] = 0)
    PROVE  owed'[l] = 0
<1>1. SpanNext /\ stage = "compute"
  BY SpanFollows DEF ComputeInterval
<1> DEFINE on    == Loan(l).originates
           term  == LiabilityTerm(l, Span)
           after == AfterOrigination(l, term)
<1>2. (l \in PaidOff(reported') => owed'[l] = 0) /\ (after = 0 => owed'[l] = 0)
  BY LoanStep
<1>3. CASE l \in PaidOff(reported')
  <2> HIDE DEF after, term
  <2> QED BY <1>2, <1>3
<1>4. CASE on <= Upto /\ owed[l] = 0
  <2>1. on \in Int /\ Upto \in Int /\ Span.end \in Int /\ Upto < Span.end
    BY <1>1, LoanParts DEF SpanNext, WalkInv
  <2>2. ~(on > Span.end)
    <3> HIDE DEF on
    <3> QED BY <1>4, <2>1
  <2>3. after = Amortized(l, owed[l], Months(Span)).balance
    BY <1>1, <1>4, <2>2, TermIs
  <2>4. /\ Loan(l).rate \in Rates /\ Loan(l).payment \in Rates /\ Loan(l).extra \in Nat /\ 0 \in Int
        /\ Months(Span) \in Nat
    BY <1>1, LoanParts, MonthsOfSpan
  <2>5. Amortized(l, 0, Months(Span)) = Opened(0)
    BY <2>4, AmortizeKeeps DEF Amortized
  <2>6. after = 0
    BY <1>4, <2>3, <2>5 DEF Opened
  <2> HIDE DEF after, term
  <2> QED BY <1>2, <2>6
<1> QED BY <1>3, <1>4
-----------------------------------------------------------------------------
(* The working windows, and the lines of an interval. *)

\* The property a flow belongs to, if any, and as what, are its own.
LEMMA OneRole ==
    ASSUME WalkInv, NEW f \in Flows, NEW g \in Properties, NEW h \in Properties
    PROVE  /\ (f \in Property[g].ownership \/ f \in Property[g].invariant \/ f = Property[g].rent \/ Flow[f].source = g)
              /\ (f \in Property[h].ownership \/ f \in Property[h].invariant \/ f = Property[h].rent \/ Flow[f].source = h)
              => g = h
           /\ f \in Property[g].ownership => f \notin Property[g].invariant /\ f # Property[g].rent /\ Flow[f].source # g
           /\ f \in Property[g].invariant => f # Property[g].rent /\ Flow[f].source # g
           /\ f = Property[g].rent => Flow[f].source # g
           /\ (f \in Property[g].ownership \/ f \in Property[g].invariant \/ f = Property[g].rent \/ Flow[f].source = g)
              => Flow[f].kind \in {"item", "stream"}
<1>1. PICK p \in Plans, every \in Granularities : plan = Constructed(p, every)
  BY DEF WalkInv
<1>2. plan.flow = p.flow /\ plan.property = p.property
  BY <1>1 DEF Constructed
<1>3. /\ f \in DOMAIN p.flow /\ g \in DOMAIN p.property /\ h \in DOMAIN p.property
      /\ Flow = p.flow /\ Property = p.property
  BY <1>2 DEF Flows, Properties, Flow, Property
<1>4. /\ \A a, b \in Roles(p, f) : a = b
      /\ Roles(p, f) # {} => p.flow[f].kind \in {"item", "stream"}
  BY <1>3, PropertiesAssumption
<1>5. ASSUME NEW x \in Properties
      PROVE  /\ f \in Property[x].ownership => <<x, "owning">> \in Roles(p, f)
             /\ f \in Property[x].invariant => <<x, "carrying">> \in Roles(p, f)
             /\ f = Property[x].rent => <<x, "renting">> \in Roles(p, f)
             /\ Flow[f].source = x => <<x, "earning">> \in Roles(p, f)
  BY <1>2, <1>3 DEF Roles, Properties, Property
<1> HIDE DEF Roles
<1> QED BY <1>3, <1>4, <1>5

Touches(f, s) == Opens(f, s) \/ Ends(f, s)

\* At most one sale touches a flow, to open it or to end it.
LEMMA TouchedOnce ==
    ASSUME WalkInv, SalesInv, NEW f \in Flows, NEW s \in sales \cup reported, NEW r \in sales \cup reported,
           Touches(f, s), Touches(f, r)
    PROVE  s = r /\ ~(Opens(f, s) /\ Ends(f, s)) /\ Flow[f].kind \in {"item", "stream"}
<1>1. s.property \in Properties /\ r.property \in Properties
  BY DEF SalesInv
<1>2. s.property = r.property /\ Flow[f].kind \in {"item", "stream"}
  BY <1>1, OneRole DEF Touches, Opens, Ends
<1>3. ~(Opens(f, s) /\ Ends(f, s))
  BY <1>1, OneRole DEF Opens, Ends
<1> QED BY <1>2, <1>3 DEF SalesInv

\* The working windows are what the recorded sales, all at once, make of the flows'.
WindowInv ==
    \A f \in Flows :
        /\ \A s \in sales : Opens(f, s) => window[f] = OpenedAt(s.on)
        /\ \A s \in sales : Ends(f, s) => window[f] = EndedAt(Flow[f].window, s.on)
        /\ (\A s \in sales : ~Touches(f, s)) => window[f] = Flow[f].window

LEMMA WindowKept ==
    ASSUME WalkInv, SalesInv, WindowInv, [Next]_vars
    PROVE  WindowInv'
<1>1. plan' = plan
  BY WalkCompute, WalkOther DEF Next, Stopped
<1>2. Flow' = Flow /\ Flows' = Flows /\ Property' = Property
  BY <1>1 DEF Flow, Flows, Property
<1>3. CASE CloseInterval
  <2>1. sales' = sales \cup reported /\ window' = [f \in Flows |-> Rewindowed(f)]
    BY <1>3 DEF CloseInterval
  <2> SUFFICES ASSUME NEW f \in Flows
               PROVE  /\ \A s \in sales \cup reported : Opens(f, s) => window'[f] = OpenedAt(s.on)
                      /\ \A s \in sales \cup reported : Ends(f, s) => window'[f] = EndedAt(Flow[f].window, s.on)
                      /\ (\A s \in sales \cup reported : ~Touches(f, s)) => window'[f] = Flow[f].window
    BY <1>2, <2>1 DEF WindowInv, Touches, Opens, Ends
  <2>2. window'[f] = Rewindowed(f)
    BY <2>1
  <2>3. \A s, r \in sales \cup reported : Touches(f, s) /\ Touches(f, r) => s = r /\ ~(Opens(f, s) /\ Ends(f, s))
    BY TouchedOnce
  <2>4. CASE \E s \in reported : Opens(f, s)
    <3> DEFINE c == CHOOSE s \in reported : Opens(f, s)
    <3>1. c \in reported /\ Opens(f, c) /\ Touches(f, c)
      BY <2>4 DEF Touches
    <3>2. window'[f] = OpenedAt(c.on)
      BY <2>2, <2>4 DEF Rewindowed
    <3> HIDE DEF c
    <3> QED BY <3>1, <3>2, <2>3 DEF Touches
  <2>5. CASE (\A s \in reported : ~Opens(f, s)) /\ \E s \in reported : Ends(f, s)
    <3> DEFINE c == CHOOSE s \in reported : Ends(f, s)
    <3>1. c \in reported /\ Ends(f, c) /\ Touches(f, c)
      BY <2>5 DEF Touches
    <3>2. window'[f] = EndedAt(window[f], c.on)
      BY <2>2, <2>5 DEF Rewindowed
    <3> HIDE DEF c
    <3>3. CASE c \in sales
      <4>1. window[f] = EndedAt(Flow[f].window, c.on)
        BY <3>1, <3>3 DEF WindowInv
      <4>2. window'[f] = EndedAt(Flow[f].window, c.on)
        BY <3>2, <4>1 DEF EndedAt
      <4> QED BY <3>1, <4>2, <2>3 DEF Touches
    <3>4. CASE c \notin sales
      <4>1. \A s \in sales : ~Touches(f, s)
        BY <3>1, <3>4, <2>3
      <4>2. window[f] = Flow[f].window
        BY <4>1 DEF WindowInv
      <4> QED BY <3>1, <3>2, <4>2, <2>3 DEF Touches
    <3> QED BY <3>3, <3>4
  <2>6. CASE \A s \in reported : ~Opens(f, s) /\ ~Ends(f, s)
    <3>1. window'[f] = window[f]
      BY <2>2, <2>6 DEF Rewindowed
    <3>2. \A s \in reported : ~Touches(f, s)
      BY <2>6 DEF Touches
    <3> QED BY <3>1, <3>2 DEF WindowInv, Touches
  <2> QED BY <2>4, <2>5, <2>6
<1>4. CASE sales' = sales /\ window' = window
  BY <1>2, <1>4 DEF WindowInv, Touches, Opens, Ends
<1>5. ComputeInterval \/ OpenInterval \/ UNCHANGED vars => sales' = sales /\ window' = window
  BY DEF ComputeInterval, OpenInterval, vars
<1> QED BY <1>3, <1>4, <1>5 DEF Next, Stopped
-----------------------------------------------------------------------------
(* One cycle owed. *)

\* A cycle is paid off when the next begins, and the vehicle is bought on the same dates.
CycleInv ==
    \A r \in Range(plan.recurring) :
        /\ \A c \in DOMAIN CycleDates(r) :
              c + 1 \in DOMAIN CycleDates(r) /\ CycleDates(r)[c + 1] <= Upto => owed[<<r.handle, c>>] = 0
        /\ charged[r.vehicle].times = Rank(CycleDays(r), Upto)

LEMMA VehicleFlow ==
    ASSUME WalkInv, NEW r \in Range(plan.recurring)
    PROVE  /\ r.vehicle \in Flows /\ Flow[r.vehicle].kind = "purchase" /\ Flow[r.vehicle].window = r.window
           /\ Flow[r.vehicle].cadence.every = r.every /\ r.window.start \in Nat /\ r.window.end \in Int
           /\ \E p \in Plans : r \in Range(p.recurring)
<1>1. PICK p \in Plans, every \in Granularities : plan = Constructed(p, every)
  BY DEF WalkInv
<1>2. plan.recurring = p.recurring /\ plan.flow = p.flow
  BY <1>1 DEF Constructed
<1>3. r \in Range(p.recurring) /\ Flow = p.flow
  BY <1>2 DEF Flow
<1>4. r.window \in Windows /\ r.window.start # NoDate
  BY <1>3, ReplacementsAssumption, ParametersAssumption
<1>5. r.window.start \in Nat /\ r.window.end \in Int
  BY <1>4 DEF Windows, Days, NoDate
<1> QED BY <1>3, <1>5, ReplacementsAssumption DEF Flows

\* The purchases of an interval are the cycles that begin in it.
LEMMA PurchasesAreCycles ==
    ASSUME WalkInv, SalesInv, WindowInv, stage = "compute", NEW r \in Range(plan.recurring)
    PROVE  LineOf(r.vehicle, Span).times = Cardinality({d \in CycleDays(r) : Upto < d /\ d <= Span.end})
<1> DEFINE f == r.vehicle
<1>1. /\ f \in Flows /\ Flow[f].kind = "purchase" /\ Flow[f].window = r.window
      /\ Flow[f].cadence.every = r.every /\ r.window.start \in Nat /\ r.window.end \in Int
  BY VehicleFlow
<1>2. window[f] = r.window
  <2>1. \A s \in sales : ~Touches(f, s)
    BY <1>1, TouchedOnce
  <2> QED BY <1>1, <2>1 DEF WindowInv
<1>3. /\ Span.start \in Nat /\ Span.end \in Nat /\ Span.start <= Span.end /\ Span.start = Upto + 1 /\ Span.start >= Start
      /\ Upto \in Int /\ Span.end <= End /\ Start \in Nat /\ End \in Nat
  <2>1. Span.end <= End
    <3>1. k \in 1 .. Len(plan.spans) /\ Tiles(plan.spans, Start, End)
      BY DEF WalkInv
    <3> QED BY <3>1, TilesWithin, ParametersAssumption DEF Span
  <2> QED BY <2>1, SpanFollows, ParametersAssumption DEF SpanNext, WalkInv
<1>4. OccurrenceDates(r.window, r.every, Span.start, Span.end) = {d \in CycleDays(r) : Upto < d /\ d <= Span.end}
  <2> DEFINE w == r.window.start
             due(d) == d >= w /\ (d - w) % (2 * r.every) = 0
  <2>1. OccurrenceDates(r.window, r.every, Span.start, Span.end) = {d \in Span.start .. Span.end : due(d) /\ Covers(r.window, d)}
    BY DEF OccurrenceDates, Occurrences
  <2>2. CycleDays(r) = {d \in w .. End : due(d) /\ Covers(r.window, d) /\ d >= Start}
    BY DEF CycleDays, OccurrenceDates, Occurrences
  <2>3. \A d : d \in Span.start .. Span.end /\ d >= w <=> d \in w .. End /\ d >= Start /\ Upto < d /\ d <= Span.end
    BY <1>1, <1>3
  <2> HIDE DEF w
  <2> QED BY <2>1, <2>2, <2>3
<1>5. LineOf(f, Span) = PurchaseLine(f, Span)
  BY <1>1 DEF LineOf
<1>6. LineOf(f, Span).times = Cardinality(OccurrenceDates(r.window, r.every, Span.start, Span.end))
  BY <1>1, <1>2, <1>5 DEF PurchaseLine
<1> QED BY <1>4, <1>6

LEMMA ChargedStep ==
    ASSUME ComputeInterval, NEW f \in Flows
    PROVE  /\ charged'[f].times = charged[f].times + LineOf(f, Span).times
           /\ charged'[f] = [times  |-> charged[f].times + LineOf(f, Span).times,
                             amount |-> charged[f].amount + LineOf(f, Span).amount]
<1>1. charged'[f] = [times  |-> charged[f].times + LineOf(f, Span).times,
                     amount |-> charged[f].amount + LineOf(f, Span).amount]
  BY DEF ComputeInterval
<1> QED BY <1>1

LEMMA CycleCompute ==
    ASSUME WalkInv, SalesInv, WindowInv, LoanInv, CycleInv, ComputeInterval
    PROVE  CycleInv'
<1>1. WalkInv' /\ plan' = plan /\ Upto' = Span.end /\ stage = "compute" /\ SpanNext
  BY WalkCompute, SpanFollows
<1>2. /\ Span.end \in Int /\ Upto \in Int /\ Upto <= Span.end
  BY <1>1 DEF SpanNext, WalkInv
<1> SUFFICES ASSUME NEW r \in Range(plan.recurring)
             PROVE  /\ \A c \in DOMAIN CycleDates(r) :
                          c + 1 \in DOMAIN CycleDates(r) /\ CycleDates(r)[c + 1] <= Span.end => owed'[<<r.handle, c>>] = 0
                    /\ charged'[r.vehicle].times = Rank(CycleDays(r), Span.end)
  BY <1>1 DEF CycleInv
<1>3. PICK p \in Plans : r \in Range(p.recurring)
  BY VehicleFlow
<1>4. ASSUME NEW c \in DOMAIN CycleDates(r), c + 1 \in DOMAIN CycleDates(r), CycleDates(r)[c + 1] <= Span.end
      PROVE  owed'[<<r.handle, c>>] = 0
  <2> DEFINE l == <<r.handle, c>>
             next == CycleDates(r)[c + 1]
  <2>1. /\ l \in Handles /\ Loan(l).originates = CycleDates(r)[c]
        /\ [kind |-> "payoff", on |-> next, loan |-> l] \in plan.schedule
    BY <1>4, CycleLoanIs
  <2>2. next \in Int /\ c \in Nat
    BY <1>3, <1>4, CycleDatesAre
  <2>3. CASE next <= Upto
    <3>1. owed[l] = 0
      BY <1>4, <2>3 DEF CycleInv
    <3>2. c + 1 <= Rank(CycleDays(r), Upto)
      BY <1>2, <1>3, <1>4, <2>3, CycleBegun
    <3>3. Rank(CycleDays(r), Upto) \in Int
      <4>1. Within(CycleDays(r), Start, End) /\ Start \in Int /\ End \in Int
        BY <1>3, CycleDatesAre, ParametersAssumption
      <4>2. \A x \in Int : Rank(CycleDays(r), x) \in 0 .. Cardinality(CycleDays(r))
        BY <4>1, RankGrows
      <4> QED BY <4>2, <1>2
    <3>4. CycleDates(r)[c] <= Upto
      BY <1>2, <1>3, <2>2, <3>2, <3>3, CycleBegun
    <3>5. l \in Handles /\ Loan(l).originates <= Upto /\ owed[l] = 0
      BY <2>1, <3>1, <3>4
    <3> HIDE DEF l
    <3>6. owed'[l] = 0
      BY <3>5, StaysPaid
    <3> QED BY <3>6 DEF l
  <2>4. CASE ~(next <= Upto)
    <3>1. InSpan(Span, next)
      <4> HIDE DEF next
      <4>1. next <= Span.end
        BY <1>4 DEF next
      <4> QED BY <1>1, <1>2, <2>2, <2>4, <4>1 DEF InSpan, SpanNext
    <3> DEFINE e == [kind |-> "payoff", on |-> next, loan |-> l]
    <3>2. e \in InSchedule("payoff") /\ e.loan = l
      BY <2>1, <3>1 DEF InSchedule
    <3> HIDE DEF e, l, next
    <3>3. l \in PaidOff(reported')
      BY <3>2 DEF PaidOff
    <3> QED BY <2>1, <3>3, StaysPaid DEF l
  <2> QED BY <2>3, <2>4
<1>5. charged'[r.vehicle].times = Rank(CycleDays(r), Span.end)
  <2>1. r.vehicle \in Flows
    BY VehicleFlow
  <2>2. charged'[r.vehicle].times = charged[r.vehicle].times + LineOf(r.vehicle, Span).times
    BY <2>1, ChargedStep
  <2>3. Within(CycleDays(r), Start, End) /\ Start \in Int /\ End \in Int
    BY <1>3, CycleDatesAre, ParametersAssumption
  <2>4. Rank(CycleDays(r), Span.end) = Rank(CycleDays(r), Upto) + Cardinality({d \in CycleDays(r) : Upto < d /\ d <= Span.end})
    BY <1>2, <2>3, RankAdds
  <2> QED BY <1>1, <2>2, <2>4, PurchasesAreCycles DEF CycleInv
<1> QED BY <1>4, <1>5

\* A settled loan owes nothing, of the cycles only the latest begun does, and the vehicle was bought
\* once for each, whatever the frame, the granularity, the window and the interval of the schedule
\* (_expanded_recurring_loans, RecurringHoldingPurchase.occurrences_in).
THEOREM CyclesSettle == Spec => []OneCycleOwed
<1> DEFINE Inv == WalkInv /\ SalesInv /\ WindowInv /\ LoanInv /\ CycleInv
<1>1. Init => Inv
  <2> SUFFICES ASSUME Init PROVE Inv
    OBVIOUS
  <2>1. WalkInv /\ Upto = Start - 1 /\ LoanInv /\ Start \in Nat
    BY WalkStart, LoanStart, ParametersAssumption
  <2>2. sales = {} /\ reported = {} /\ window = [f \in Flows |-> Flow[f].window] /\ charged = [f \in Flows |-> NoLine]
    BY DEF Init
  <2>3. SalesInv /\ WindowInv
    BY <2>2 DEF SalesInv, WindowInv
  <2>4. CycleInv
    <3> SUFFICES ASSUME NEW r \in Range(plan.recurring)
                 PROVE  /\ \A c \in DOMAIN CycleDates(r) :
                              c + 1 \in DOMAIN CycleDates(r) /\ CycleDates(r)[c + 1] <= Upto => owed[<<r.handle, c>>] = 0
                        /\ charged[r.vehicle].times = Rank(CycleDays(r), Upto)
      BY DEF CycleInv
    <3>1. PICK p \in Plans : r \in Range(p.recurring)
      BY <2>1, VehicleFlow
    <3>2. charged[r.vehicle].times = 0
      BY <2>1, <2>2, VehicleFlow DEF NoLine
    <3>3. Rank(CycleDays(r), Upto) = 0
      <4>1. Within(CycleDays(r), Start, End) /\ Start \in Int /\ End \in Int
        BY <3>1, CycleDatesAre, ParametersAssumption
      <4>2. \A x \in Int : x < Start => Rank(CycleDays(r), x) = 0
        BY <4>1, RankGrows
      <4> QED BY <4>2, <2>1
    <3>4. \A c \in DOMAIN CycleDates(r) : CycleDates(r)[c] \in Int /\ ~(CycleDates(r)[c] <= Upto)
      BY <2>1, <3>1, CycleDatesAre
    <3> QED BY <3>2, <3>3, <3>4
  <2> QED BY <2>1, <2>3, <2>4
<1>2. Inv /\ [Next]_vars => Inv'
  <2> SUFFICES ASSUME Inv, [Next]_vars PROVE Inv'
    OBVIOUS
  <2>1. CASE ComputeInterval
    BY <2>1, WalkCompute, SalesCompute, LoanCompute, CycleCompute, WindowKept
  <2>2. CASE OpenInterval \/ CloseInterval \/ UNCHANGED vars
    <3>1. WalkInv' /\ plan' = plan /\ Upto' = Upto /\ LoanInv' /\ WindowInv'
      BY <2>2, WalkOther, LoanOther, WindowKept
    <3>2. sales' \cup reported' = sales \cup reported /\ owed' = owed /\ charged' = charged
      BY <2>2 DEF OpenInterval, CloseInterval, vars
    <3>3. SalesInv'
      BY <3>1, <3>2 DEF SalesInv, Properties, Property
    <3>4. CycleInv'
      BY <3>1, <3>2 DEF CycleInv
    <3> QED BY <3>1, <3>3, <3>4
  <2> QED BY <2>1, <2>2 DEF Next, Stopped
<1>3. Inv => OneCycleOwed
  <2> SUFFICES ASSUME Inv, Between PROVE OneCycleOwed
    BY DEF OneCycleOwed
  <2>1. Upto = Walked.end /\ Upto \in Int
    <3>1. Computed = k - 1 /\ Computed # 0
      BY DEF Between, Computed, WalkInv
    <3> QED BY <3>1 DEF Upto, Walked, WalkInv
  <2>2. \A l \in settled : owed[l] = 0
    BY DEF LoanInv
  <2>3. ASSUME NEW r \in Range(plan.recurring)
        PROVE  LET dates == CycleDates(r)
                   begun == {c \in DOMAIN dates : dates[c] <= Walked.end}
               IN  /\ \A c \in begun : owed[<<r.handle, c>>] # 0 => \A d \in begun : d <= c
                   /\ charged[r.vehicle].times = Cardinality(begun)
    <3> DEFINE D == CycleDays(r)
               begun == {c \in DOMAIN CycleDates(r) : CycleDates(r)[c] <= Walked.end}
    <3>1. PICK p \in Plans : r \in Range(p.recurring)
      BY VehicleFlow
    <3>2. DOMAIN CycleDates(r) = 1 .. Cardinality(D) /\ Within(D, Start, End) /\ Start \in Int /\ End \in Int
      BY <3>1, CycleDatesAre, ParametersAssumption
    <3>3. \A c \in DOMAIN CycleDates(r) : c \in begun <=> c <= Rank(D, Upto)
      BY <2>1, <3>1, CycleBegun
    <3>4. Rank(D, Upto) \in 0 .. Cardinality(D) /\ Cardinality(D) \in Nat
      BY <2>1, <3>2, RankGrows
    <3> HIDE DEF D
    <3>5. begun = 1 .. Rank(D, Upto)
      <4>1. begun \subseteq 1 .. Cardinality(D)
        BY <3>2
      <4> HIDE DEF begun
      <4>2. ASSUME NEW c PROVE c \in begun <=> c \in 1 .. Rank(D, Upto)
        <5>1. CASE c \in 1 .. Cardinality(D)
          <6>1. c \in begun <=> c <= Rank(D, Upto)
            BY <3>2, <3>3, <5>1
          <6> QED BY <6>1, <3>4, <5>1
        <5>2. CASE c \notin 1 .. Cardinality(D)
          <6>1. c \notin begun
            BY <5>2, <4>1
          <6> DEFINE m == Rank(D, Upto)
                     n == Cardinality(D)
          <6>2. m \in 0 .. n /\ n \in Nat /\ c \notin 1 .. n
            BY <3>4, <5>2
          <6> HIDE DEF m, n
          <6>3. c \notin 1 .. m
            BY <6>2
          <6> QED BY <6>1, <6>3 DEF m
        <5> QED BY <5>1, <5>2
      <4> QED BY <4>2
    <3>6. Cardinality(begun) = Rank(D, Upto)
      <4> HIDE DEF begun
      <4> QED BY <3>4, <3>5, FS_Interval
    <3>7. ASSUME NEW c \in begun, NEW d \in begun, ~(d <= c) PROVE owed[<<r.handle, c>>] = 0
      <4>1. c + 1 \in DOMAIN CycleDates(r) /\ c \in DOMAIN CycleDates(r) /\ c + 1 \in begun
        <5> HIDE DEF begun
        <5> QED BY <3>2, <3>4, <3>5, <3>7
      <4>2. CycleDates(r)[c + 1] <= Upto
        BY <2>1, <4>1
      <4> QED BY <4>1, <4>2 DEF CycleInv
    <3>8. charged[r.vehicle].times = Cardinality(begun)
      BY <3>6 DEF CycleInv, D
    <3> QED BY <3>7, <3>8
  <2> QED BY <2>2, <2>3 DEF OneCycleOwed
<1> QED BY <1>1, <1>2, <1>3, PTL DEF Spec
-----------------------------------------------------------------------------
(* The lines of an interval are amounts and counts. *)

LEMMA SegmentIs ==
    ASSUME NEW V, NEW q \in Seq(V), NEW date
    PROVE  SegmentAt(q, date) = 0 \/ (SegmentAt(q, date) \in DOMAIN q /\ q[SegmentAt(q, date)] \in V)
<1> DEFINE covering == {n \in DOMAIN q : Covers(q[n].window, date)}
<1>1. CASE covering = {}
  BY <1>1 DEF SegmentAt
<1>2. CASE covering # {}
  <2>1. covering \subseteq Nat
    OBVIOUS
  <2>2. \E n \in covering : \A m \in covering : n <= m
    BY <1>2, <2>1, Smallest
  <2>3. SegmentAt(q, date) = CHOOSE n \in covering : \A m \in covering : n <= m
    BY <1>2 DEF SegmentAt
  <2>4. SegmentAt(q, date) \in covering
    <3> HIDE DEF covering
    <3> QED BY <2>2, <2>3
  <2>5. SegmentAt(q, date) \in DOMAIN q
    BY <2>4
  <2> QED BY <2>5
<1> QED BY <1>1, <1>2

LEMMA ParametersTyped ==
    ASSUME NEW date
    PROVE  /\ \A class \in Classes : ParametersAt(date).rate[class] \in Fractions
           /\ ParametersAt(date).payable \in Fractions
<1> DEFINE V == [window : Windows, rate : [Classes -> Fractions], reductionYear : Int, payable : Fractions]
<1>1. Outlook \in Seq(V)
  BY OutlookAssumption
<1>2. CASE SegmentAt(Outlook, date) = 0
  <2>1. ParametersAt(date) = FlatParameters
    BY <1>2 DEF ParametersAt
  <2>2. [num |-> 0, den |-> 1] \in Fractions /\ [num |-> 1, den |-> 1] \in Fractions
    BY DEF Fractions
  <2> QED BY <2>1, <2>2 DEF FlatParameters
<1>3. CASE SegmentAt(Outlook, date) # 0
  <2> DEFINE x == Outlook[SegmentAt(Outlook, date)]
  <2>1. x \in V
    <3> HIDE DEF V
    <3> QED BY <1>1, <1>3, SegmentIs
  <2>2. ParametersAt(date) = x
    BY <1>3 DEF ParametersAt
  <2> HIDE DEF x
  <2>3. x.rate \in [Classes -> Fractions] /\ x.payable \in Fractions
    BY <2>1
  <2> QED BY <2>2, <2>3
<1> QED BY <1>2, <1>3

\* _cumulative_factor is a fraction, in any year.
LEMMA FactorTyped ==
    ASSUME NEW class \in Classes, NEW year \in Int
    PROVE  CumulativeFactor(class, year) \in Fractions
<1> DEFINE Y == YearOf(Start)
           One == [num |-> 1, den |-> 1]
           R(y) == ParametersAt(YearStart(y)).rate[class]
           Grown(y, x) == [num |-> x.num * (R(y).den + R(y).num), den |-> x.den * R(y).den]
           step == [yx \in Int \X Fractions |-> Grown(yx[1], yx[2])]
<1>1. Y \in Int /\ One \in Fractions
  BY ParametersAssumption DEF YearOf, Fractions
<1>2. \A y \in Int, x \in Fractions : Grown(y, x) \in Fractions
  <2> SUFFICES ASSUME NEW y \in Int, NEW x \in Fractions PROVE Grown(y, x) \in Fractions
    OBVIOUS
  <2> DEFINE r == R(y)
  <2>1. r \in Fractions
    BY ParametersTyped
  <2>2. Grown(y, x) = [num |-> x.num * (r.den + r.num), den |-> x.den * r.den]
    OBVIOUS
  <2> HIDE DEF r, Grown
  <2>3. x.num \in Int /\ x.den \in Nat \ {0} /\ r.num \in Int /\ r.den \in Nat \ {0}
    BY <2>1 DEF Fractions
  <2>4. \A a \in Int, b \in Int, c \in Int : a * (b + c) \in Int
    OBVIOUS
  <2>5. \A a \in Nat \ {0}, b \in Nat \ {0} : a * b \in Nat \ {0}
    OBVIOUS
  <2>6. x.num * (r.den + r.num) \in Int
    BY <2>3, <2>4
  <2>7. x.den * r.den \in Nat \ {0}
    BY <2>3, <2>5
  <2> QED BY <2>2, <2>6, <2>7 DEF Fractions
<1>3. CASE year <= Y
  BY <1>1, <1>3 DEF CumulativeFactor
<1>4. CASE ~(year <= Y)
  <2>1. step \in [Int \X Fractions -> Fractions] /\ \A y \in Int, x \in Fractions : step[<<y, x>>] = Grown(y, x)
    <3> HIDE DEF Grown
    <3>1. \A yx \in Int \X Fractions : Grown(yx[1], yx[2]) \in Fractions
      BY <1>2
    <3> QED BY <3>1
  <2> DEFINE Equation(h) == h = [y \in Y .. year |-> IF y = Y THEN One ELSE Grown(y, h[y - 1])]
             f == CHOOSE h : h = [y \in Y .. year |-> IF y = Y THEN One ELSE Grown(y, h[y - 1])]
  <2>2. CumulativeFactor(class, year) = f[year]
    BY <1>4 DEF CumulativeFactor
  <2> HIDE DEF Grown, step
  <2>3. PICK g : Recursion(g, Y, year, Fractions, One, step)
    <3> HIDE DEF Y, One
    <3>1. Y <= year
      BY <1>1, <1>4
    <3> QED BY <1>1, <2>1, <3>1, RecursionExists
  <2>4. Equation(g)
    <3>1. ASSUME NEW y \in Y .. year PROVE g[y] = IF y = Y THEN One ELSE Grown(y, g[y - 1])
      <4>1. CASE y = Y
        BY <2>3, <4>1 DEF Recursion
      <4>2. CASE y # Y
        <5> HIDE DEF Y
        <5>1. y \in Y + 1 .. year /\ y - 1 \in Y .. year /\ y \in Int
          BY <1>1, <4>2
        <5>2. g[y - 1] \in Fractions /\ g[y] = step[<<y, g[y - 1]>>]
          BY <2>3, <5>1 DEF Recursion
        <5>3. step[<<y, g[y - 1]>>] = Grown(y, g[y - 1])
          BY <2>1, <5>1, <5>2
        <5> QED BY <4>2, <5>2, <5>3
      <4> QED BY <4>1, <4>2
    <3>2. g = [y \in Y .. year |-> g[y]]
      BY <2>3 DEF Recursion
    <3> QED BY <3>1, <3>2
  <2>5. Equation(f)
    BY <2>4
  <2> HIDE DEF f
  <2>6. f[Y] = One /\ \A y \in Y + 1 .. year : f[y] = Grown(y, f[y - 1])
    <3> HIDE DEF One
    <3> QED BY <1>1, <1>4, <2>5
  <2> HIDE DEF Equation, Y, One
  <2> DEFINE Bad == {m \in Nat : Y + m <= year /\ f[Y + m] \notin Fractions}
  <2>7. Bad = {}
    <3> SUFFICES ASSUME Bad # {} PROVE FALSE
      OBVIOUS
    <3>1. PICK m \in Bad : \A j \in Bad : m <= j
      BY Smallest
    <3>2. m # 0
      BY <1>1, <2>6, <3>1
    <3>3. Y + m \in Y + 1 .. year /\ m - 1 \in Nat /\ m - 1 \notin Bad /\ Y + (m - 1) = (Y + m) - 1 /\ Y + (m - 1) <= year
      BY <1>1, <3>1, <3>2
    <3>4. f[(Y + m) - 1] \in Fractions
      BY <3>3
    <3>5. f[Y + m] \in Fractions
      BY <1>1, <1>2, <2>6, <3>3, <3>4
    <3> QED BY <3>1, <3>5
  <2>8. year - Y \in Nat /\ Y + (year - Y) = year
    BY <1>1, <1>4
  <2>9. f[year] \in Fractions
    BY <2>7, <2>8
  <2> QED BY <2>2, <2>9
<1> QED BY <1>3, <1>4
-----------------------------------------------------------------------------
(* Charged on each date. *)

\* A flow of the walk, as its parameters are typed.
LEMMA FlowIs ==
    ASSUME WalkInv, NEW f \in Flows
    PROVE  /\ Flow[f].kind \in {"item", "stream", "recurring", "purchase", "event"} /\ Flow[f].class \in Classes
           /\ Flow[f].amounts \in Seq([amount : Int, window : Windows])
           /\ Flow[f].cadence.every \in Nat /\ Flow[f].cadence.on \in Int /\ Flow[f].cadence.offset \in Nat
           /\ Flow[f].window \in Windows /\ Flow[f].anchor \in Int
           /\ Flow[f].window.start \in Days /\ Flow[f].window.end \in Days
<1>1. PICK p \in Plans, every \in Granularities : plan = Constructed(p, every)
  BY DEF WalkInv
<1>2. Flow = p.flow /\ f \in DOMAIN p.flow
  BY <1>1 DEF Constructed, Flow, Flows
<1>3. /\ Flow[f].kind \in {"item", "stream", "recurring", "purchase", "event"} /\ Flow[f].class \in Classes
      /\ Flow[f].amounts \in Seq([amount : Int, window : Windows])
      /\ Flow[f].cadence \in [every : Nat, on : Days, offset : Nat]
      /\ Flow[f].window \in Windows /\ Flow[f].anchor \in Days
  BY <1>2, FlowsAssumption
<1>4. Days \subseteq Int
  BY DEF Days, NoDate
<1>5. Flow[f].cadence.every \in Nat /\ Flow[f].cadence.on \in Days /\ Flow[f].cadence.offset \in Nat
  BY <1>3
<1>6. Flow[f].window.start \in Days /\ Flow[f].window.end \in Days
  BY <1>3 DEF Windows
<1> QED BY <1>3, <1>4, <1>5, <1>6

\* The dates an item is due on, over the frame, within its own window.
DueSince(f) == AddMonths(IF Flow[f].anchor # NoDate THEN Flow[f].anchor
                         ELSE IF Flow[f].window.start # NoDate THEN Flow[f].window.start
                         ELSE Start, Flow[f].cadence.offset)
DueOn(f, date) ==
    IF Flow[f].cadence.every = 0 THEN date = Flow[f].cadence.on
    ELSE date >= DueSince(f) /\ (date - DueSince(f)) % (2 * Flow[f].cadence.every) = 0
DueDays(f) == {date \in Start .. End : Covers(Flow[f].window, date) /\ DueOn(f, date)}

\* The amount of a flow was set in every interval computed so far.
AmountSet(f) == \A n \in 1 .. Computed : SegmentAt(Flow[f].amounts, plan.spans[n].start) # 0

\* An item's line, in an interval its window was not moved in, counts the due dates of the interval.
LEMMA ItemDue ==
    ASSUME WalkInv, stage = "compute", NEW f \in Flows, Flow[f].kind = "item",
           window[f] = Flow[f].window, SegmentAt(Flow[f].amounts, Span.start) # 0
    PROVE  LineOf(f, Span).times = Cardinality({d \in DueDays(f) : Upto < d /\ d <= Span.end})
<1> DEFINE B == {d \in DueDays(f) : Upto < d /\ d <= Span.end}
           w == Flow[f].window
           clip == Clip(Span, w)
           lo == clip.lo
           hi == clip.hi
           c == Flow[f].cadence
           times == IF lo > hi THEN 0 ELSE CountIn(c, lo, hi, CadenceAnchor(f, w))
<1>1. /\ Span.start \in Nat /\ Span.end \in Nat /\ Span.start <= Span.end /\ Span.start = Upto + 1 /\ Span.start >= Start
      /\ Upto \in Int /\ Span.end <= End /\ Start \in Nat /\ End \in Nat
  <2>1. Span.end <= End
    <3>1. k \in 1 .. Len(plan.spans) /\ Tiles(plan.spans, Start, End)
      BY DEF WalkInv
    <3> QED BY <3>1, TilesWithin, ParametersAssumption DEF Span
  <2> QED BY <2>1, SpanFollows, ParametersAssumption DEF SpanNext, WalkInv
<1>2. /\ c.every \in Nat /\ c.on \in Int /\ c.offset \in Nat /\ Flow[f].anchor \in Int
      /\ w.start \in Days /\ w.end \in Days
  BY FlowIs
<1>3. w.start \in Int /\ w.end \in Int /\ (w.start = NoDate \/ w.start \in Nat) /\ (w.end = NoDate \/ w.end \in Nat) /\ NoDate = -1
  BY <1>2 DEF Days, NoDate
<1>4. /\ lo = (IF Span.start >= w.start THEN Span.start ELSE w.start)
      /\ hi = (IF w.end # NoDate THEN (IF Span.end <= w.end THEN Span.end ELSE w.end) ELSE Span.end)
  BY DEF Clip, Greater, Lesser
<1>5. lo \in Int /\ hi \in Int
  <2> HIDE DEF lo, hi, w
  <2> QED BY <1>1, <1>3, <1>4
<1>6. ASSUME NEW d \in Int
      PROVE  lo <= d /\ d <= hi <=> /\ d \in Start .. End /\ Covers(w, d) /\ Upto < d /\ d <= Span.end
  <2> HIDE DEF lo, hi, w
  <2> QED BY <1>1, <1>3, <1>4 DEF Covers
<1>7. B = {d \in lo .. hi : DueOn(f, d)}
  <2>1. ASSUME NEW d PROVE d \in B <=> d \in lo .. hi /\ DueOn(f, d)
    <3>1. d \in B <=> d \in Start .. End /\ Covers(w, d) /\ DueOn(f, d) /\ Upto < d /\ d <= Span.end
      BY DEF DueDays
    <3>2. d \in Start .. End => d \in Int
      BY <1>1
    <3>3. d \in lo .. hi <=> d \in Int /\ lo <= d /\ d <= hi
      <4> HIDE DEF lo, hi
      <4> QED BY <1>5
    <3> HIDE DEF B, lo, hi, w
    <3> QED BY <3>1, <3>2, <3>3, <1>6
  <2> QED BY <2>1
<1>8. times = Cardinality(B)
  <2>1. CASE c.every = 0
    <3>1. \A d : DueOn(f, d) <=> d = c.on
      BY <2>1 DEF DueOn
    <3>2. CountIn(c, lo, hi, CadenceAnchor(f, w)) = IF lo <= c.on /\ c.on <= hi THEN 1 ELSE 0
      BY <2>1 DEF CountIn
    <3>3. CASE lo <= c.on /\ c.on <= hi
      <4>1. B = {c.on}
        <5> HIDE DEF lo, hi, B, c
        <5> QED BY <1>2, <1>5, <1>7, <3>1, <3>3
      <4>2. Cardinality({c.on}) = 1
        BY FS_Singleton
      <4>3. ~(lo > hi)
        <5> HIDE DEF lo, hi, c
        <5> QED BY <1>2, <1>5, <3>3
      <4> QED BY <3>2, <3>3, <4>1, <4>2, <4>3
    <3>4. CASE ~(lo <= c.on /\ c.on <= hi)
      <4>1. B = {}
        <5> HIDE DEF lo, hi, B, c
        <5> QED BY <1>2, <1>5, <1>7, <3>1, <3>4
      <4> HIDE DEF lo, hi, B, c
      <4> QED BY <3>2, <3>4, <4>1, FS_EmptySet
    <3> QED BY <3>3, <3>4
  <2>2. CASE c.every # 0
    <3>1. AddMonths(CadenceAnchor(f, w), c.offset) = DueSince(f)
      BY DEF CadenceAnchor, DueSince
    <3>2. CountIn(c, lo, hi, CadenceAnchor(f, w)) = Cardinality(B)
      <4>1. CountIn(c, lo, hi, CadenceAnchor(f, w)) = Cardinality(Occurrences(DueSince(f), c.every, lo, hi))
        BY <2>2, <3>1 DEF CountIn
      <4>2. Occurrences(DueSince(f), c.every, lo, hi) = {d \in lo .. hi : DueOn(f, d)}
        BY <2>2 DEF Occurrences, DueOn
      <4> QED BY <4>1, <4>2, <1>7
    <3>3. lo > hi => B = {}
      <4> HIDE DEF lo, hi, B
      <4> QED BY <1>5, <1>7
    <3> HIDE DEF lo, hi, B, c
    <3> QED BY <3>2, <3>3, FS_EmptySet
  <2> QED BY <2>1, <2>2
<1>9. LineOf(f, Span) = ItemLine(f, Span)
  BY DEF LineOf
<1>10. LineOf(f, Span).times = times
  <2>1. CASE times = 0
    BY <1>9, <2>1 DEF ItemLine, NoLine
  <2>2. CASE times # 0
    BY <1>9, <2>2 DEF ItemLine
  <2> QED BY <2>1, <2>2
<1> HIDE DEF B, times
<1> QED BY <1>8, <1>10 DEF B

\* Flows whose window no recorded sale has moved, and whose amount was always set: an item has been
\* charged on each due date so far, a stream that always runs for each month.
ChargedInv ==
    \A f \in Flows : window[f] = Flow[f].window /\ AmountSet(f) =>
        /\ Flow[f].kind = "item" => charged[f].times = Rank(DueDays(f), Upto)
        /\ Flow[f].kind = "stream" /\ Flow[f].window = Always =>
              charged[f].times = MonthOf(Upto) - MonthOf(Start) + 1

LEMMA DueWithin == ASSUME NEW f PROVE Within(DueDays(f), Start, End) /\ Start \in Int /\ End \in Int
BY ParametersAssumption DEF Within, DueDays

LEMMA StreamDue ==
    ASSUME WalkInv, stage = "compute", NEW f \in Flows, Flow[f].kind = "stream",
           Covers(window[f], Span.start), SegmentAt(Flow[f].amounts, Span.start) # 0
    PROVE  LineOf(f, Span).times = Months(Span)
<1>1. LineOf(f, Span) = StreamLine(f, Span)
  BY DEF LineOf
<1> QED BY <1>1 DEF StreamLine

LEMMA ChargedCompute ==
    ASSUME WalkInv, ChargedInv, ComputeInterval
    PROVE  ChargedInv'
<1>1. /\ plan' = plan /\ Upto' = Span.end /\ stage = "compute" /\ stage' = "close" /\ k' = k /\ window' = window
      /\ SpanNext /\ k \in Nat \ {0}
  BY WalkCompute, SpanFollows DEF ComputeInterval, WalkInv
<1>2. Flows' = Flows /\ Flow' = Flow /\ Span' = Span
  BY <1>1 DEF Flows, Flow, Span
<1>3. Computed = k - 1 /\ Computed' = k
  BY <1>1 DEF Computed
<1>4. Span.end \in Int /\ Upto \in Int /\ Upto <= Span.end /\ Span.start \in Nat
  BY <1>1 DEF SpanNext, WalkInv
<1> SUFFICES ASSUME NEW f \in Flows, window[f] = Flow[f].window, AmountSet(f)'
             PROVE  /\ Flow[f].kind = "item" => charged'[f].times = Rank(DueDays(f), Span.end)
                    /\ Flow[f].kind = "stream" /\ Flow[f].window = Always =>
                          charged'[f].times = MonthOf(Span.end) - MonthOf(Start) + 1
  <2>1. \A f : DueDays(f)' = DueDays(f)
    BY <1>1 DEF DueDays, DueOn, DueSince, Flow
  <2> QED BY <1>1, <1>2, <2>1 DEF ChargedInv
<1>5. SegmentAt(Flow[f].amounts, Span.start) # 0 /\ AmountSet(f)
  <2>1. \A n \in 1 .. k : SegmentAt(Flow[f].amounts, plan.spans[n].start) # 0
    BY <1>1, <1>2, <1>3 DEF AmountSet
  <2>2. k \in 1 .. k /\ \A n \in 1 .. k - 1 : n \in 1 .. k
    BY <1>1
  <2> QED BY <1>3, <2>1, <2>2 DEF AmountSet, Span
<1>6. charged'[f].times = charged[f].times + LineOf(f, Span).times
  BY ChargedStep
<1>7. ASSUME Flow[f].kind = "item" PROVE charged'[f].times = Rank(DueDays(f), Span.end)
  <2>1. Rank(DueDays(f), Span.end) = Rank(DueDays(f), Upto) + Cardinality({d \in DueDays(f) : Upto < d /\ d <= Span.end})
    BY <1>4, DueWithin, RankAdds
  <2>2. LineOf(f, Span).times = Cardinality({d \in DueDays(f) : Upto < d /\ d <= Span.end})
    BY <1>1, <1>5, <1>7, ItemDue
  <2>3. charged[f].times = Rank(DueDays(f), Upto)
    BY <1>5, <1>7 DEF ChargedInv
  <2> QED BY <1>6, <2>1, <2>2, <2>3
<1>8. ASSUME Flow[f].kind = "stream", Flow[f].window = Always
      PROVE  charged'[f].times = MonthOf(Span.end) - MonthOf(Start) + 1
  <2>1. Covers(window[f], Span.start)
    BY <1>8 DEF Covers, Always
  <2>2. LineOf(f, Span).times = Months(Span)
    BY <1>1, <1>5, <1>8, <2>1, StreamDue
  <2>3. charged[f].times = MonthOf(Upto) - MonthOf(Start) + 1
    BY <1>5, <1>8 DEF ChargedInv
  <2>4. Months(Span) = MonthOf(Span.end) - MonthOf(Upto) /\ MonthOf(Span.end) \in Int /\ MonthOf(Upto) \in Int /\ MonthOf(Start) \in Int
    BY <1>1, MonthsOfSpan
  <2> QED BY <1>6, <2>2, <2>3, <2>4
<1> QED BY <1>7, <1>8

\* A window that is the flow's own after an interval was its own before it.
LEMMA ChargedOther ==
    ASSUME WalkInv, SalesInv, WindowInv, ChargedInv, OpenInterval \/ CloseInterval \/ UNCHANGED vars
    PROVE  ChargedInv'
<1>1. plan' = plan /\ Upto' = Upto /\ charged' = charged /\ WindowInv'
  BY WalkOther, WindowKept DEF OpenInterval, CloseInterval, vars, Next
<1>2. Flows' = Flows /\ Flow' = Flow /\ Computed' = Computed /\ Property' = Property
  <2>1. CASE OpenInterval
    BY <1>1, <2>1 DEF OpenInterval, Computed, Flows, Flow, Property
  <2>2. CASE CloseInterval
    BY <1>1, <2>2 DEF CloseInterval, Computed, Flows, Flow, Property, WalkInv
  <2>3. CASE UNCHANGED vars
    BY <1>1, <2>3 DEF vars, Computed, Flows, Flow, Property
  <2> QED BY <2>1, <2>2, <2>3
<1>3. ASSUME NEW f \in Flows, window'[f] = Flow[f].window PROVE window[f] = Flow[f].window
  <2>1. CASE \A s \in sales : ~Touches(f, s)
    BY <2>1 DEF WindowInv
  <2>2. CASE \E s \in sales : Touches(f, s)
    <3>1. PICK s \in sales : Touches(f, s)
      BY <2>2
    <3>2. s \in sales'
      BY DEF OpenInterval, CloseInterval, vars
    <3>3. CASE Opens(f, s)
      <4>1. window[f] = OpenedAt(s.on)
        BY <3>3 DEF WindowInv
      <4>2. window'[f] = OpenedAt(s.on)
        BY <1>1, <1>2, <3>2, <3>3 DEF WindowInv, Opens
      <4> QED BY <1>3, <4>1, <4>2
    <3>4. CASE Ends(f, s)
      <4>1. window[f] = EndedAt(Flow[f].window, s.on)
        BY <3>4 DEF WindowInv
      <4>2. window'[f] = EndedAt(Flow[f].window, s.on)
        BY <1>1, <1>2, <3>2, <3>4 DEF WindowInv, Ends
      <4> QED BY <1>3, <4>1, <4>2
    <3> QED BY <3>1, <3>3, <3>4 DEF Touches
  <2> QED BY <2>1, <2>2
<1>4. \A f : (AmountSet(f)' <=> AmountSet(f)) /\ DueDays(f)' = DueDays(f)
  BY <1>1, <1>2 DEF AmountSet, DueDays, DueOn, DueSince
<1> QED BY <1>1, <1>2, <1>3, <1>4 DEF ChargedInv

\* Whatever the frame, the granularity and the plan: nothing due is skipped at a boundary between
\* two intervals and nothing is charged twice (_expense_item_lines_for, _expense_stream_lines_for).
THEOREM ChargedOnEachDate == Spec => []ChargedAlike
<1> DEFINE Inv == WalkInv /\ SalesInv /\ WindowInv /\ ChargedInv
<1>1. Init => Inv
  <2> SUFFICES ASSUME Init PROVE Inv
    OBVIOUS
  <2>1. WalkInv /\ Upto = Start - 1 /\ Start \in Nat /\ Start % 2 = 0
    BY WalkStart, ParametersAssumption
  <2>2. sales = {} /\ reported = {} /\ window = [f \in Flows |-> Flow[f].window] /\ charged = [f \in Flows |-> NoLine]
    BY DEF Init
  <2>3. SalesInv /\ WindowInv
    BY <2>2 DEF SalesInv, WindowInv
  <2>4. ASSUME NEW f \in Flows
        PROVE  charged[f].times = Rank(DueDays(f), Upto) /\ charged[f].times = MonthOf(Upto) - MonthOf(Start) + 1
    <3>1. charged[f].times = 0
      BY <2>2 DEF NoLine
    <3>2. \A x \in Int : x < Start => Rank(DueDays(f), x) = 0
      BY DueWithin, RankGrows
    <3>3. Upto \in Int /\ Upto < Start /\ MonthOf(Upto) = MonthOf(Start) - 1 /\ MonthOf(Start) \in Int
      BY <2>1 DEF MonthOf
    <3> QED BY <3>1, <3>2, <3>3
  <2> QED BY <2>1, <2>3, <2>4 DEF ChargedInv
<1>2. Inv /\ [Next]_vars => Inv'
  <2> SUFFICES ASSUME Inv, [Next]_vars PROVE Inv'
    OBVIOUS
  <2>1. CASE ComputeInterval
    BY <2>1, WalkCompute, SalesCompute, ChargedCompute, WindowKept
  <2>2. CASE OpenInterval \/ CloseInterval \/ UNCHANGED vars
    <3>1. WalkInv' /\ plan' = plan /\ Upto' = Upto /\ WindowInv' /\ ChargedInv'
      BY <2>2, WalkOther, ChargedOther, WindowKept
    <3>2. sales' \cup reported' = sales \cup reported
      BY <2>2 DEF OpenInterval, CloseInterval, vars
    <3>3. SalesInv'
      BY <3>1, <3>2 DEF SalesInv, Properties, Property
    <3> QED BY <3>1, <3>3
  <2> QED BY <2>1, <2>2 DEF Next, Stopped
<1>3. Inv => ChargedAlike
  <2> SUFFICES ASSUME Inv, Between,
                      NEW f \in Flows, window[f] = Flow[f].window,
                      \A n \in 1 .. k - 1 : SegmentAt(Flow[f].amounts, plan.spans[n].start) # 0
               PROVE  /\ Flow[f].kind = "item" =>
                            charged[f].times = Cardinality({date \in Start .. Walked.end : Covers(window[f], date) /\ DueOn(f, date)})
                      /\ Flow[f].kind = "stream" /\ window[f] = Always =>
                            charged[f].times = MonthOf(Walked.end) - MonthOf(Start) + 1
    BY DEF ChargedAlike, DueOn, DueSince
  <2>1. Computed = k - 1 /\ Upto = Walked.end /\ Upto \in Int
    <3>1. Computed = k - 1 /\ Computed # 0
      BY DEF Between, Computed, WalkInv
    <3> QED BY <3>1 DEF Upto, Walked, WalkInv
  <2>2. AmountSet(f)
    BY <2>1 DEF AmountSet
  <2>3. Upto <= End /\ Start \in Int /\ End \in Int
    <3>1. Computed \in 1 .. Len(plan.spans) /\ Computed # 0 /\ Tiles(plan.spans, Start, End)
      BY <2>1 DEF Between, WalkInv
    <3>2. plan.spans[Computed].end <= End
      BY <3>1, TilesWithin, ParametersAssumption
    <3> QED BY <3>1, <3>2, ParametersAssumption DEF Upto
  <2>4. {date \in Start .. Upto : Covers(Flow[f].window, date) /\ DueOn(f, date)} = UpTo(DueDays(f), Upto)
    <3>1. \A d : d \in Start .. Upto <=> d \in Start .. End /\ d <= Upto
      BY <2>1, <2>3
    <3> QED BY <3>1 DEF UpTo, DueDays
  <2> QED BY <2>1, <2>2, <2>4 DEF ChargedInv, Rank
<1> QED BY <1>1, <1>2, <1>3, PTL DEF Spec
-----------------------------------------------------------------------------
(* What an interval charges is a count and an amount. *)

Line == [times : Nat, amount : Int]

LEMMA WindowTyped ==
    ASSUME WalkInv, SalesInv, WindowInv, NEW f \in Flows
    PROVE  window[f] \in Windows /\ window[f].start \in Int /\ window[f].end \in Int
<1>1. Flow[f].window \in Windows /\ Nat \subseteq Days /\ NoDate \in Days /\ Days \subseteq Int
  BY FlowIs DEF Days, NoDate
<1>2. \A s \in sales : s.on \in Days
  BY <1>1 DEF SalesInv
<1>3. CASE \A s \in sales : ~Touches(f, s)
  <2>1. window[f] \in Windows
    BY <1>1, <1>3 DEF WindowInv
  <2> QED BY <1>1, <2>1 DEF Windows
<1>4. CASE \E s \in sales : Touches(f, s)
  <2>1. PICK s \in sales : Opens(f, s) \/ Ends(f, s)
    BY <1>4 DEF Touches
  <2>2. CASE Opens(f, s)
    <3>1. window[f] = [start |-> s.on, end |-> NoDate]
      BY <2>2 DEF WindowInv, OpenedAt
    <3> QED BY <1>1, <1>2, <3>1 DEF Windows
  <2>3. CASE Ends(f, s)
    <3>1. window[f] = [Flow[f].window EXCEPT !.end = s.on]
      BY <2>3 DEF WindowInv, EndedAt
    <3>2. window[f] \in Windows
      BY <1>1, <1>2, <3>1 DEF Windows
    <3> QED BY <1>1, <3>2 DEF Windows
  <2> QED BY <2>1, <2>2, <2>3
<1> QED BY <1>3, <1>4

LEMMA CountTyped ==
    ASSUME NEW cadence, NEW lo \in Int, NEW hi \in Int, NEW since
    PROVE  CountIn(cadence, lo, hi, since) \in Nat
<1>1. CASE cadence.every = 0
  BY <1>1 DEF CountIn
<1>2. CASE cadence.every # 0
  <2> DEFINE D == Occurrences(AddMonths(since, cadence.offset), cadence.every, lo, hi)
  <2>1. D \in SUBSET (lo .. hi)
    BY DEF Occurrences
  <2>2. IsFiniteSet(lo .. hi)
    BY FS_Interval
  <2>3. Cardinality(D) \in Nat
    <3> HIDE DEF D
    <3> QED BY <2>1, <2>2, FS_Subset, FS_CardinalityType
  <2> QED BY <1>2, <2>3 DEF CountIn
<1> QED BY <1>1, <1>2

\* A product of amounts and fractions, rounded, is an amount.
LEMMA ScaledTyped ==
    ASSUME NEW a \in Int, NEW b \in Int, NEW c \in Int, NEW d \in Int,
           NEW u \in Nat \ {0}, NEW v \in Nat \ {0}, NEW w \in Nat \ {0}
    PROVE  /\ Quantize(a * b * c * d, u * v * w) \in Int /\ Quantize(a * b * c, u) \in Int
           /\ Quantize(a * b, u) \in Int
<1>1. \A x \in Int, y \in Int : x * y \in Int
  OBVIOUS
<1>2. \A x \in Nat \ {0}, y \in Nat \ {0} : x * y \in Nat \ {0}
  OBVIOUS
<1>3. a * b \in Int /\ a * b * c \in Int /\ a * b * c * d \in Int
  BY <1>1
<1>4. u * v * w \in Nat \ {0}
  BY <1>2
<1> QED BY <1>3, <1>4, QuantizeType

\* The amount in effect, and the factors it grows by.
LEMMA LevelTyped ==
    ASSUME WalkInv, NEW f \in Flows, NEW date \in Int
    PROVE  /\ Level(f, date) \in Int
           /\ CumulativeFactor(Flow[f].class, YearOf(date)).num \in Int
           /\ CumulativeFactor(Flow[f].class, YearOf(date)).den \in Nat \ {0}
           /\ PayableFactor(Flow[f].class, YearOf(date)).num \in Int
           /\ PayableFactor(Flow[f].class, YearOf(date)).den \in Nat \ {0}
           /\ CumulativeFactor("general", YearOf(date)).num \in Int
           /\ CumulativeFactor("general", YearOf(date)).den \in Nat \ {0}
           /\ Flow[f].amounts # <<>> => Flow[f].amounts[1].amount \in Int
<1> DEFINE V == [amount : Int, window : Windows]
<1>1. Flow[f].class \in Classes /\ Flow[f].amounts \in Seq(V) /\ YearOf(date) \in Int /\ "general" \in Classes
  <2>1. Flow[f].class \in Classes /\ Flow[f].amounts \in Seq(V)
    BY FlowIs
  <2>2. YearOf(date) \in Int /\ "general" \in Classes
    BY DEF YearOf, Classes
  <2> QED BY <2>1, <2>2
<1>2. Level(f, date) \in Int
  <2> DEFINE n == SegmentAt(Flow[f].amounts, date)
  <2>1. CASE n = 0
    BY <2>1 DEF Level
  <2>2. CASE n # 0
    <3>1. Flow[f].amounts[n] \in V
      <4> HIDE DEF V
      <4> QED BY <1>1, <2>2, SegmentIs
    <3>2. Level(f, date) = Flow[f].amounts[n].amount
      BY <2>2 DEF Level
    <3> HIDE DEF n
    <3> QED BY <3>1, <3>2
  <2> QED BY <2>1, <2>2
<1>3. CumulativeFactor(Flow[f].class, YearOf(date)) \in Fractions /\ CumulativeFactor("general", YearOf(date)) \in Fractions
  BY <1>1, FactorTyped
<1>4. PayableFactor(Flow[f].class, YearOf(date)) \in Fractions
  <2> DEFINE segment == ParametersAt(YearStart(YearOf(date)))
  <2>1. segment.payable \in Fractions
    BY ParametersTyped
  <2>2. [num |-> 1, den |-> 1] \in Fractions
    BY DEF Fractions
  <2>3. PayableFactor(Flow[f].class, YearOf(date)) \in {segment.payable, [num |-> 1, den |-> 1]}
    BY DEF PayableFactor
  <2> HIDE DEF segment
  <2> QED BY <2>1, <2>2, <2>3
<1>5. Flow[f].amounts # <<>> => Flow[f].amounts[1].amount \in Int
  <2> SUFFICES ASSUME Flow[f].amounts # <<>> PROVE Flow[f].amounts[1].amount \in Int
    OBVIOUS
  <2>1. Flow[f].amounts[1] \in V
    <3> HIDE DEF V
    <3> QED BY <1>1
  <2> QED BY <2>1
<1> QED BY <1>2, <1>3, <1>4, <1>5 DEF Fractions

LEMMA LineTyped ==
    ASSUME WalkInv, SalesInv, WindowInv, stage = "compute", NEW f \in Flows
    PROVE  LineOf(f, Span) \in Line
<1> DEFINE s == Span.start
<1>1. SpanNext /\ Months(Span) \in Nat \ {0}
  BY SpanFollows, MonthsOfSpan
<1>2. s \in Nat /\ Span.end \in Nat
  BY <1>1 DEF SpanNext
<1>3. window[f] \in Windows /\ window[f].start \in Int /\ window[f].end \in Int
  BY WindowTyped
<1>4. /\ Flow[f].kind \in {"item", "stream", "recurring", "purchase", "event"}
      /\ Flow[f].cadence.every \in Nat
      /\ Flow[f].kind \in {"recurring", "purchase", "event"} => Flow[f].amounts # <<>>
      /\ Flow[f].kind \in {"recurring", "purchase"} => Flow[f].cadence.every # 0
  <2>1. PICK p \in Plans, every \in Granularities : plan = Constructed(p, every)
    BY DEF WalkInv
  <2>2. Flow = p.flow /\ f \in DOMAIN p.flow
    BY <2>1 DEF Constructed, Flow, Flows
  <2> QED BY <2>2, FlowIs, FlowsAssumption
<1> DEFINE factor == CumulativeFactor(Flow[f].class, YearOf(s))
           payable == PayableFactor(Flow[f].class, YearOf(s))
           general == CumulativeFactor("general", YearOf(s))
           first == Flow[f].amounts[1].amount
<1>5. /\ Level(f, s) \in Int /\ factor.num \in Int /\ factor.den \in Nat \ {0}
      /\ payable.num \in Int /\ payable.den \in Nat \ {0} /\ general.num \in Int /\ general.den \in Nat \ {0}
      /\ Flow[f].amounts # <<>> => first \in Int
  <2> HIDE DEF s
  <2>1. s \in Int
    BY <1>2
  <2> QED BY <2>1, LevelTyped
<1>6. NoLine \in Line
  BY DEF NoLine, Line
<1> HIDE DEF s
<1>7. CASE Flow[f].kind = "item"
  <2> DEFINE clip  == Clip(Span, window[f])
             times == IF clip.lo > clip.hi THEN 0
                      ELSE CountIn(Flow[f].cadence, clip.lo, clip.hi, CadenceAnchor(f, window[f]))
             grown == IF Flow[f].inflate THEN factor ELSE [num |-> 1, den |-> 1]
  <2>1. LineOf(f, Span) = IF times = 0 \/ SegmentAt(Flow[f].amounts, s) = 0 THEN NoLine
                          ELSE [times |-> times, amount |-> Quantize(times * Level(f, s) * grown.num, grown.den)]
    BY <1>7 DEF LineOf, ItemLine, s
  <2>2. clip.lo \in Int /\ clip.hi \in Int
    BY <1>2, <1>3 DEF Clip, Greater, Lesser, s
  <2>3. times \in Nat
    <3> HIDE DEF clip
    <3>1. CountIn(Flow[f].cadence, clip.lo, clip.hi, CadenceAnchor(f, window[f])) \in Nat
      BY <2>2, CountTyped
    <3> QED BY <3>1
  <2>4. grown.num \in Int /\ grown.den \in Nat \ {0}
    <3> HIDE DEF factor
    <3> QED BY <1>5
  <2> HIDE DEF times, grown
  <2>5. Quantize(times * Level(f, s) * grown.num, grown.den) \in Int
    <3>1. times \in Int
      BY <2>3
    <3> QED BY <3>1, <2>4, <1>5, ScaledTyped, Zenon
  <2> QED BY <2>1, <2>3, <2>5, <1>6 DEF Line
<1>8. CASE Flow[f].kind = "stream"
  <2>1. LineOf(f, Span) = IF ~Covers(window[f], s) \/ SegmentAt(Flow[f].amounts, s) = 0 THEN NoLine
                          ELSE [times  |-> Months(Span),
                                amount |-> Quantize(Level(f, s) * factor.num * payable.num * Months(Span),
                                                    factor.den * payable.den * 12)]
    BY <1>8 DEF LineOf, StreamLine, s
  <2> HIDE DEF factor, payable
  <2>2. Quantize(Level(f, s) * factor.num * payable.num * Months(Span), factor.den * payable.den * 12) \in Int
    <3>1. Months(Span) \in Int /\ 12 \in Nat \ {0}
      BY <1>1
    <3> QED BY <3>1, <1>5, ScaledTyped, Zenon
  <2> QED BY <2>1, <2>2, <1>1, <1>6 DEF Line
<1>9. CASE Flow[f].kind = "recurring"
  <2> DEFINE every == Flow[f].cadence.every
             yearly == OccurrencesPerYear(every)
  <2>1. LineOf(f, Span) = IF ~Covers(window[f], s) THEN NoLine
                          ELSE [times  |-> Months(Span),
                                amount |-> Quantize(first * yearly.num * factor.num * Months(Span),
                                                    yearly.den * factor.den * 12)]
    BY <1>9 DEF LineOf, RecurringLine, s
  <2>2. yearly.num \in Int /\ yearly.den \in Nat \ {0} /\ first \in Int
    <3>1. yearly.num = 12 /\ yearly.den = every
      BY DEF OccurrencesPerYear
    <3> QED BY <3>1, <1>4, <1>5, <1>9
  <2> HIDE DEF factor, yearly, first
  <2>3. Quantize(first * yearly.num * factor.num * Months(Span), yearly.den * factor.den * 12) \in Int
    <3>1. Months(Span) \in Int /\ 12 \in Nat \ {0}
      BY <1>1
    <3> QED BY <3>1, <1>5, <2>2, ScaledTyped, Zenon
  <2> QED BY <2>1, <2>3, <1>1, <1>6 DEF Line
<1>10. CASE Flow[f].kind = "purchase"
  <2> DEFINE dates == OccurrenceDates(window[f], Flow[f].cadence.every, s, Span.end)
  <2>1. LineOf(f, Span) = [times |-> Cardinality(dates), amount |-> Cardinality(dates) * Quantize(first * general.num, general.den)]
    BY <1>10 DEF LineOf, PurchaseLine, Inflated, s
  <2>2. Cardinality(dates) \in Nat
    <3>1. dates \in SUBSET (s .. Span.end)
      BY DEF OccurrenceDates, Occurrences
    <3> HIDE DEF dates
    <3>2. s \in Int /\ Span.end \in Int
      BY <1>2
    <3>3. IsFiniteSet(s .. Span.end)
      BY <3>2, FS_Interval
    <3> QED BY <3>1, <3>3, FS_Subset, FS_CardinalityType
  <2>3. Quantize(first * general.num, general.den) \in Int
    <3> HIDE DEF general, first
    <3> QED BY <1>4, <1>5, <1>10, ScaledTyped
  <2> HIDE DEF dates, general, first
  <2>4. \A x \in Nat, y \in Int : x * y \in Int
    OBVIOUS
  <2> QED BY <2>1, <2>2, <2>3, <2>4 DEF Line
<1>11. CASE Flow[f].kind = "event"
  <2>1. LineOf(f, Span) \in {[times |-> 1, amount |-> first], NoLine}
    BY <1>11 DEF LineOf, EventLine
  <2> QED BY <2>1, <1>4, <1>5, <1>6, <1>11 DEF Line
<1> QED BY <1>4, <1>7, <1>8, <1>9, <1>10, <1>11

\* What has been charged is a count and an amount too.
ChargedTyped == charged \in [Flows -> Line]

LEMMA ChargedTypedKept ==
    ASSUME WalkInv, SalesInv, WindowInv, ChargedTyped, [Next]_vars
    PROVE  ChargedTyped'
<1>1. plan' = plan
  BY WalkCompute, WalkOther DEF Next, Stopped
<1>2. Flows' = Flows
  BY <1>1 DEF Flows, Flow
<1>3. CASE ComputeInterval
  <2>1. charged' = [f \in Flows |-> [times  |-> charged[f].times + LineOf(f, Span).times,
                                     amount |-> charged[f].amount + LineOf(f, Span).amount]]
    BY <1>3 DEF ComputeInterval
  <2>2. ASSUME NEW f \in Flows
        PROVE  [times |-> charged[f].times + LineOf(f, Span).times, amount |-> charged[f].amount + LineOf(f, Span).amount] \in Line
    <3>1. LineOf(f, Span) \in Line /\ charged[f] \in Line
      BY <1>3, LineTyped DEF ChargedTyped, ComputeInterval
    <3> DEFINE x == LineOf(f, Span)
               y == charged[f]
    <3>2. x.times \in Nat /\ y.times \in Nat /\ x.amount \in Int /\ y.amount \in Int
      BY <3>1 DEF Line
    <3> HIDE DEF x, y
    <3>3. y.times + x.times \in Nat /\ y.amount + x.amount \in Int
      BY <3>2
    <3> QED BY <3>3 DEF Line, x, y
  <2> QED BY <1>2, <2>1, <2>2 DEF ChargedTyped
<1>4. CASE charged' = charged
  BY <1>2, <1>4 DEF ChargedTyped
<1> QED BY <1>3, <1>4 DEF Next, Stopped, OpenInterval, CloseInterval, vars
-----------------------------------------------------------------------------
(* Tenures. *)

\* The days one month apart, over whole months, are as many as the months.
LEMMA MonthlyCount ==
    ASSUME NEW a \in Nat, NEW b \in Nat, a <= b, a % 2 = 0,
           NEW since \in Int, since <= a, b % 2 = 1 \/ since % 2 = 0
    PROVE  Cardinality({d \in a .. b : d >= since /\ (d - since) % 2 = 0}) = MonthOf(b) - MonthOf(a) + 1
<1> DEFINE D == {d \in a .. b : d >= since /\ (d - since) % 2 = 0}
           M == MonthOf(a) .. MonthOf(b)
           f == [m \in M |-> 2 * m + (since % 2)]
<1>1. since % 2 \in {0, 1} /\ MonthOf(a) \in Nat /\ MonthOf(b) \in Nat /\ MonthOf(a) <= MonthOf(b) /\ a = 2 * MonthOf(a)
  BY DEF MonthOf
<1>2. \A d \in a .. b : d \in D <=> d % 2 = since % 2
  OBVIOUS
<1>3. ASSUME NEW m \in M PROVE f[m] \in D
  <2> DEFINE d == 2 * m + (since % 2)
  <2>1. m \in Nat /\ MonthOf(a) <= m /\ m <= MonthOf(b)
    BY <1>1
  <2>2. d \in Int /\ a <= d /\ d % 2 = since % 2
    BY <1>1, <2>1
  <2>3. d <= b
    BY <1>1, <2>1 DEF MonthOf
  <2>4. d \in a .. b
    BY <2>2, <2>3
  <2> HIDE DEF d, D
  <2>5. d \in D
    BY <1>2, <2>2, <2>4
  <2> QED BY <2>5 DEF d
<1>4. \A m, n \in M : f[m] = f[n] => m = n
  <2> SUFFICES ASSUME NEW m \in M, NEW n \in M, 2 * m + (since % 2) = 2 * n + (since % 2) PROVE m = n
    OBVIOUS
  <2>1. m \in Int /\ n \in Int /\ since % 2 \in Int
    BY <1>1
  <2> QED BY <2>1
<1>5. ASSUME NEW d \in D PROVE \E m \in M : f[m] = d
  <2>1. d \in Nat /\ a <= d /\ d <= b /\ d % 2 = since % 2 /\ d \in a .. b
    BY <1>2
  <2> DEFINE m == d \div 2
  <2>2. m \in M /\ 2 * m + (since % 2) = d
    BY <2>1, <1>1 DEF MonthOf
  <2> QED BY <2>2
<1>6. f \in [M -> D]
  <2> HIDE DEF D
  <2> QED BY <1>3
<1> HIDE DEF D, f
<1>7. f \in Bijection(M, D)
  BY <1>4, <1>5, <1>6, Fun_IsBij
<1>8. IsFiniteSet(M) /\ Cardinality(M) = MonthOf(b) - MonthOf(a) + 1
  BY <1>1, FS_Interval
<1> HIDE DEF M
<1>9. Cardinality(D) = Cardinality(M)
  <2>1. ExistsBijection(M, D)
    BY <1>7 DEF ExistsBijection
  <2> QED BY <1>8, <2>1, FS_Bijection
<1> QED BY <1>8, <1>9 DEF D

\* The interval about to be computed is inside the frame.
LEMMA SpanInside ==
    ASSUME WalkInv, stage = "compute"
    PROVE  /\ Span.start \in Nat /\ Span.end \in Nat /\ Span.start <= Span.end /\ Span.start = Upto + 1 /\ Span.start >= Start
           /\ Upto \in Int /\ Upto >= -1 /\ Span.end <= End /\ Start \in Nat /\ End \in Nat /\ Start % 2 = 0
           /\ Span.start % 2 = 0 /\ (Span.end % 2 = 1 \/ Span.end = End)
<1>1. Span.end <= End
  <2>1. k \in 1 .. Len(plan.spans) /\ Tiles(plan.spans, Start, End)
    BY DEF WalkInv
  <2> QED BY <2>1, TilesWithin, ParametersAssumption DEF Span
<1> QED BY <1>1, SpanFollows, ParametersAssumption DEF SpanNext, WalkInv, Cut

\* What is charged each month is charged each month of an interval once its window is open ...
LEMMA MonthlyLine ==
    ASSUME WalkInv, stage = "compute", NEW f \in Flows, EachMonth(Flow[f]), End % 2 = 1,
           window[f].start \in Int, window[f].start <= Upto, window[f].end = NoDate
    PROVE  LineOf(f, Span).times = Months(Span)
<1>1. /\ Span.start \in Nat /\ Span.end \in Nat /\ Span.start <= Span.end /\ Span.start = Upto + 1 /\ Span.start >= Start
      /\ Upto \in Int /\ Upto >= -1 /\ Span.end <= End /\ Start \in Nat /\ End \in Nat /\ Start % 2 = 0
      /\ Span.start % 2 = 0 /\ Span.end % 2 = 1
  BY SpanInside
<1>2. SegmentAt(Flow[f].amounts, Span.start) # 0
  <2>1. Span.start \in Start .. End
    BY <1>1
  <2> QED BY <2>1 DEF EachMonth
<1>3. Covers(window[f], Span.start)
  BY <1>1 DEF Covers
<1>4. CASE Flow[f].kind = "stream"
  BY <1>2, <1>3, <1>4, StreamDue
<1>5. CASE Flow[f].kind = "item"
  <2> DEFINE clip  == Clip(Span, window[f])
             times == IF clip.lo > clip.hi THEN 0
                      ELSE CountIn(Flow[f].cadence, clip.lo, clip.hi, CadenceAnchor(f, window[f]))
             since == CadenceAnchor(f, window[f])
  <2>1. Flow[f].anchor = NoDate /\ Flow[f].cadence.every = 1 /\ Flow[f].cadence.offset = 0
    BY <1>5 DEF EachMonth
  <2>2. since \in Int /\ since <= Span.start /\ AddMonths(since, Flow[f].cadence.offset) = since
    BY <1>1, <2>1 DEF CadenceAnchor, AddMonths
  <2>3. clip.lo = Span.start /\ clip.hi = Span.end
    BY <1>1 DEF Clip, Greater, Lesser
  <2>4. times = CountIn(Flow[f].cadence, Span.start, Span.end, since)
    <3>1. ~(Span.start > Span.end)
      BY <1>1
    <3> HIDE DEF since
    <3> QED BY <2>3, <3>1 DEF since
  <2> HIDE DEF since, clip, times
  <2>5. CountIn(Flow[f].cadence, Span.start, Span.end, since)
            = Cardinality({d \in Span.start .. Span.end : d >= since /\ (d - since) % 2 = 0})
    <3>1. 2 * 1 = 2 /\ Flow[f].cadence.every # 0
      BY <2>1
    <3> QED BY <2>1, <2>2, <3>1 DEF CountIn, Occurrences
  <2>6. Cardinality({d \in Span.start .. Span.end : d >= since /\ (d - since) % 2 = 0})
            = MonthOf(Span.end) - MonthOf(Span.start) + 1
    BY <1>1, <2>2, MonthlyCount
  <2>7. times = Months(Span) /\ times # 0
    <3>1. times = Months(Span)
      BY <2>4, <2>5, <2>6 DEF Months, MonthIndexOf
    <3> QED BY <3>1, MonthsOfSpan
  <2>8. LineOf(f, Span) = ItemLine(f, Span)
    BY <1>5 DEF LineOf
  <2>9. LineOf(f, Span).times = times
    BY <1>2, <2>7, <2>8 DEF ItemLine, times, clip
  <2> QED BY <2>7, <2>9
<1> QED BY <1>4, <1>5 DEF EachMonth

\* ... and is not charged in an interval before it opens, or after it ended.
LEMMA QuietLine ==
    ASSUME WalkInv, stage = "compute", NEW f \in Flows, Flow[f].kind \in {"item", "stream"},
           window[f].start \in Int, window[f].end \in Int,
           (window[f].end # NoDate /\ window[f].end <= Upto) \/ window[f].start > Span.end
    PROVE  LineOf(f, Span) = NoLine
<1>1. /\ Span.start \in Nat /\ Span.end \in Nat /\ Span.start <= Span.end /\ Span.start = Upto + 1 /\ Upto \in Int
  BY SpanInside
<1>2. CASE Flow[f].kind = "stream"
  <2>1. ~Covers(window[f], Span.start)
    BY <1>1 DEF Covers, NoDate
  <2>2. LineOf(f, Span) = StreamLine(f, Span)
    BY <1>2 DEF LineOf
  <2> QED BY <2>1, <2>2 DEF StreamLine
<1>3. CASE Flow[f].kind = "item"
  <2> DEFINE clip == Clip(Span, window[f])
  <2>1. clip.lo > clip.hi
    BY <1>1 DEF Clip, Greater, Lesser
  <2>2. LineOf(f, Span) = ItemLine(f, Span)
    BY <1>3 DEF LineOf
  <2> QED BY <2>1, <2>2 DEF ItemLine
<1> QED BY <1>2, <1>3

\* The tenures of the plan walked.
LEMMA TenureIs ==
    ASSUME WalkInv, MonthlyTenures, NEW h \in Properties
    PROVE  /\ End % 2 = 1
           /\ \A f \in Property[h].invariant : f \in Flows /\ EachMonth(Flow[f]) /\ Flow[f].window = Always
           /\ Property[h].rent # NoRent =>
                 /\ \A f \in Property[h].ownership : f \in Flows /\ EachMonth(Flow[f]) /\ Flow[f].window = Always
                 /\ Property[h].rent \in Flows /\ EachMonth(Flow[Property[h].rent])
                 /\ Flow[Property[h].rent].window.start > End
<1>1. PICK p \in Plans, every \in Granularities : plan = Constructed(p, every)
  BY DEF WalkInv
<1>2. Flow = p.flow /\ Property = p.property /\ Flows = DOMAIN p.flow
  BY <1>1 DEF Constructed, Flow, Property, Flows
<1>3. Property[h] \in Range(p.property)
  BY <1>2 DEF Properties, Range
<1> QED BY <1>2, <1>3 DEF MonthlyTenures

\* Only sales of a flow's own property touch it.
LEMMA TouchedByOwn ==
    ASSUME WalkInv, SalesInv, NEW f \in Flows, NEW h \in Properties, NEW s \in sales, Touches(f, s),
           f \in Property[h].ownership \/ f \in Property[h].invariant \/ f = Property[h].rent \/ Flow[f].source = h
    PROVE  s.property = h
<1>1. s.property \in Properties
  BY DEF SalesInv
<1> QED BY <1>1, OneRole DEF Touches, Opens, Ends

\* A flow a recorded sale has ended is charged no more.
LEMMA EndedCostsNoMore ==
    ASSUME WalkInv, SalesInv, WindowInv, ChargedTyped, ComputeInterval, NEW f \in Flows, NEW s \in sales, Ends(f, s)
    PROVE  charged'[f] = charged[f] /\ LineOf(f, Span) = NoLine
<1>1. window[f] = EndedAt(Flow[f].window, s.on) /\ s.on \in Nat /\ s.on <= Upto /\ stage = "compute"
  BY DEF WindowInv, SalesInv, ComputeInterval
<1>2. window[f] \in Windows /\ window[f].start \in Int /\ window[f].end \in Int
  BY WindowTyped
<1>3. window[f].end = s.on /\ s.on # NoDate
  <2>1. Flow[f].window \in Windows
    BY FlowIs
  <2> QED BY <1>1, <2>1 DEF EndedAt, Windows, NoDate
<1>4. Flow[f].kind \in {"item", "stream"}
  BY TouchedOnce DEF Touches
<1>5. LineOf(f, Span) = NoLine
  BY <1>1, <1>2, <1>3, <1>4, QuietLine
<1>6. charged'[f] = [times |-> charged[f].times + 0, amount |-> charged[f].amount + 0]
  BY <1>5, ChargedStep DEF NoLine
<1>7. charged[f] \in Line
  BY DEF ChargedTyped
<1>8. charged[f].times + 0 = charged[f].times /\ charged[f].amount + 0 = charged[f].amount
      /\ charged[f] = [times |-> charged[f].times, amount |-> charged[f].amount]
  BY <1>7 DEF Line
<1> QED BY <1>5, <1>6, <1>8

FlowsInv == WalkInv /\ SalesInv /\ WindowInv /\ ChargedTyped

LEMMA FlowsStart == Init => FlowsInv
<1> SUFFICES ASSUME Init PROVE FlowsInv
  OBVIOUS
<1>1. WalkInv
  BY WalkStart
<1>2. sales = {} /\ reported = {} /\ window = [f \in Flows |-> Flow[f].window] /\ charged = [f \in Flows |-> NoLine]
  BY DEF Init
<1>3. SalesInv /\ WindowInv
  BY <1>2 DEF SalesInv, WindowInv
<1>4. ChargedTyped
  BY <1>2 DEF ChargedTyped, NoLine, Line
<1> QED BY <1>1, <1>3, <1>4 DEF FlowsInv

LEMMA FlowsKept == ASSUME FlowsInv, [Next]_vars PROVE FlowsInv'
<1> USE DEF FlowsInv
<1>1. WindowInv' /\ ChargedTyped'
  BY WindowKept, ChargedTypedKept
<1>2. CASE ComputeInterval
  BY <1>1, <1>2, WalkCompute, SalesCompute
<1>3. CASE OpenInterval \/ CloseInterval \/ UNCHANGED vars
  <2>1. WalkInv' /\ plan' = plan /\ Upto' = Upto
    BY <1>3, WalkOther
  <2>2. sales' \cup reported' = sales \cup reported
    BY <1>3 DEF OpenInterval, CloseInterval, vars
  <2>3. SalesInv'
    BY <2>1, <2>2 DEF SalesInv, Properties, Property
  <2> QED BY <1>1, <2>1, <2>3
<1> QED BY <1>2, <1>3 DEF Next, Stopped

\* For every frame, granularity and plan whose carried costs are monthly, and whatever sales the
\* funding forces (_apply_property_sales, _ended_at).
THEOREM SoldIsSettled == ASSUME MonthlyTenures PROVE Spec => SoldPropertyCostsNoMore
<1> DEFINE A == \A s \in sales, f \in Flows :
                   /\ f \in Property[s.property].ownership \/ Flow[f].source = s.property
                          => charged'[f] = charged[f]
                   /\ f \in Property[s.property].invariant /\ stage = "compute"
                          => (charged'[f] # charged[f] <=> s.rentAfter)
<1>1. FlowsInv /\ [Next]_vars => [A]_vars
  <2> SUFFICES ASSUME FlowsInv, Next,
                      NEW s \in sales, NEW f \in Flows, vars' # vars
               PROVE  /\ f \in Property[s.property].ownership \/ Flow[f].source = s.property
                             => charged'[f] = charged[f]
                      /\ f \in Property[s.property].invariant /\ stage = "compute"
                             => (charged'[f] # charged[f] <=> s.rentAfter)
    OBVIOUS
  <2> USE DEF FlowsInv
  <2>1. CASE OpenInterval \/ CloseInterval
    <3>1. charged' = charged /\ stage # "compute"
      BY <2>1 DEF OpenInterval, CloseInterval
    <3> QED BY <3>1
  <2>2. CASE ComputeInterval
    <3>1. s.property \in Properties /\ stage = "compute"
      BY <2>2 DEF SalesInv, ComputeInterval
    <3>2. ASSUME f \in Property[s.property].ownership \/ Flow[f].source = s.property
          PROVE  charged'[f] = charged[f]
      <4>1. Ends(f, s)
        BY <3>2 DEF Ends
      <4> QED BY <2>2, <4>1, EndedCostsNoMore
    <3>3. ASSUME f \in Property[s.property].invariant, ~s.rentAfter PROVE charged'[f] = charged[f]
      <4>1. Ends(f, s)
        BY <3>3 DEF Ends
      <4> QED BY <2>2, <4>1, EndedCostsNoMore
    <3>4. ASSUME f \in Property[s.property].invariant, s.rentAfter PROVE charged'[f] # charged[f]
      <4>1. ASSUME NEW r \in sales, Touches(f, r) PROVE FALSE
        <5>1. r.property = s.property
          BY <3>1, <3>4, <4>1, TouchedByOwn
        <5>2. r = s
          BY <5>1 DEF SalesInv
        <5>3. Touches(f, s)
          BY <4>1, <5>2
        <5> QED BY <3>1, <3>4, <5>3, OneRole DEF Touches, Opens, Ends
      <4>2. EachMonth(Flow[f]) /\ Flow[f].window = Always /\ End % 2 = 1
        BY <3>1, <3>4, TenureIs
      <4>3. window[f] = Always
        BY <4>1, <4>2 DEF WindowInv
      <4>4. window[f].start \in Int /\ window[f].start <= Upto /\ window[f].end = NoDate
        <5>1. Upto \in Int /\ Upto >= -1
          BY <3>1, SpanInside
        <5> QED BY <4>3, <5>1 DEF Always, NoDate
      <4>5. LineOf(f, Span).times = Months(Span) /\ Months(Span) \in Nat \ {0}
        BY <3>1, <4>2, <4>4, MonthlyLine, MonthsOfSpan
      <4>6. charged'[f].times = charged[f].times + Months(Span)
        BY <2>2, <4>5, ChargedStep
      <4>7. charged[f].times \in Nat
        <5>1. charged[f] \in Line
          BY DEF ChargedTyped
        <5> QED BY <5>1 DEF Line
      <4>8. charged'[f].times # charged[f].times
        BY <4>5, <4>6, <4>7
      <4> QED BY <4>8
    <3> QED BY <3>2, <3>3, <3>4
  <2>3. ~Stopped
    BY DEF Stopped
  <2> QED BY <2>1, <2>2, <2>3 DEF Next
<1>2. Init => FlowsInv
  BY FlowsStart
<1>3. FlowsInv /\ [Next]_vars => FlowsInv'
  BY FlowsKept
<1> QED BY <1>1, <1>2, <1>3, PTL DEF Spec, SoldPropertyCostsNoMore

\* The months of owning and of renting, so far.
TenureInv ==
    \A h \in Properties :
        Property[h].rent # NoRent /\ (\A s \in sales : s.property = h => s.rentAfter) =>
            \A f \in Property[h].ownership :
                charged[f].times + charged[Property[h].rent].times = MonthOf(Upto) - MonthOf(Start) + 1

LEMMA TenureCompute ==
    ASSUME MonthlyTenures, FlowsInv, TenureInv, ComputeInterval
    PROVE  TenureInv'
<1> USE DEF FlowsInv
<1>1. plan' = plan /\ Upto' = Span.end /\ stage = "compute" /\ sales' = sales
  BY WalkCompute DEF ComputeInterval
<1> SUFFICES ASSUME NEW h \in Properties, Property[h].rent # NoRent, \A s \in sales : s.property = h => s.rentAfter,
                    NEW f \in Property[h].ownership
             PROVE  charged'[f].times + charged'[Property[h].rent].times = MonthOf(Span.end) - MonthOf(Start) + 1
  <2>1. Properties' = Properties /\ Property' = Property
    BY <1>1 DEF Properties, Property
  <2> QED BY <1>1, <2>1 DEF TenureInv
<1> DEFINE rent == Property[h].rent
<1>2. /\ f \in Flows /\ EachMonth(Flow[f]) /\ Flow[f].window = Always /\ End % 2 = 1
      /\ rent \in Flows /\ EachMonth(Flow[rent]) /\ Flow[rent].window.start > End
  BY TenureIs
<1>3. Flow[f].kind \in {"item", "stream"} /\ Flow[rent].kind \in {"item", "stream"}
  BY <1>2 DEF EachMonth
<1>4. /\ window[f].start \in Int /\ window[f].end \in Int /\ window[rent].start \in Int /\ window[rent].end \in Int
      /\ Upto \in Int /\ Upto >= -1 /\ Span.end <= End /\ Span.end \in Nat /\ End \in Nat
  BY <1>1, <1>2, WindowTyped, SpanInside
<1>5. LineOf(f, Span).times + LineOf(rent, Span).times = Months(Span)
  <2>0. Months(Span) \in Nat /\ NoLine.times = 0
    BY <1>1, MonthsOfSpan DEF NoLine
  <2>1. CASE \E s \in sales : s.property = h
    <3>1. PICK s \in sales : s.property = h
      BY <2>1
    <3>2. Ends(f, s) /\ Opens(rent, s)
      BY <3>1 DEF Ends, Opens
    <3>3. LineOf(f, Span).times = 0
      BY <1>2, <2>0, <3>2, EndedCostsNoMore
    <3>4. window[rent] = OpenedAt(s.on) /\ s.on \in Nat /\ s.on <= Upto
      BY <1>2, <3>2 DEF WindowInv, SalesInv
    <3>5. window[rent].start <= Upto /\ window[rent].end = NoDate
      BY <3>4 DEF OpenedAt
    <3>6. LineOf(rent, Span).times = Months(Span)
      BY <1>1, <1>2, <1>4, <3>5, MonthlyLine
    <3> QED BY <2>0, <3>3, <3>6
  <2>2. CASE ~\E s \in sales : s.property = h
    <3>1. \A s \in sales : ~Touches(f, s) /\ ~Touches(rent, s)
      BY <1>2, <2>2, TouchedByOwn
    <3>2. window[f] = Always /\ window[rent] = Flow[rent].window
      BY <1>2, <3>1 DEF WindowInv
    <3>3. window[f].start <= Upto /\ window[f].end = NoDate
      BY <1>4, <3>2 DEF Always, NoDate
    <3>4. LineOf(f, Span).times = Months(Span)
      BY <1>1, <1>2, <1>4, <3>3, MonthlyLine
    <3>5. window[rent].start > Span.end
      <4>1. window[rent].start > End
        BY <1>2, <3>2
      <4> QED BY <1>4, <4>1
    <3>6. LineOf(rent, Span).times = 0
      BY <1>1, <1>2, <1>3, <1>4, <2>0, <3>5, QuietLine
    <3> QED BY <2>0, <3>4, <3>6
  <2> QED BY <2>1, <2>2
<1>6. /\ charged'[f].times = charged[f].times + LineOf(f, Span).times
      /\ charged'[rent].times = charged[rent].times + LineOf(rent, Span).times
  BY <1>2, ChargedStep
<1>7. /\ charged[f].times \in Int /\ charged[rent].times \in Int
      /\ LineOf(f, Span).times \in Int /\ LineOf(rent, Span).times \in Int
  <2>1. charged[f] \in Line /\ charged[rent] \in Line /\ LineOf(f, Span) \in Line /\ LineOf(rent, Span) \in Line
    BY <1>1, <1>2, LineTyped DEF ChargedTyped
  <2>2. \A l \in Line : l.times \in Int
    BY DEF Line
  <2> QED BY <2>1, <2>2
<1>8. charged[f].times + charged[rent].times = MonthOf(Upto) - MonthOf(Start) + 1
  BY DEF TenureInv
<1>9. Months(Span) = MonthOf(Span.end) - MonthOf(Upto) /\ MonthOf(Span.end) \in Int /\ MonthOf(Upto) \in Int /\ MonthOf(Start) \in Int
  BY <1>1, MonthsOfSpan
<1> HIDE DEF rent
<1>10. charged'[f].times + charged'[rent].times = MonthOf(Span.end) - MonthOf(Start) + 1
  BY <1>5, <1>6, <1>7, <1>8, <1>9
<1> QED BY <1>10 DEF rent

\* For every frame, granularity and plan whose home and rent are paid monthly: a sale anywhere in
\* an interval, scheduled or forced, passes the household from the one to the other without a gap.
THEOREM TenureIsCovered == ASSUME MonthlyTenures PROVE Spec => []TenureCovered
<1> DEFINE Inv == FlowsInv /\ TenureInv
<1>1. Init => Inv
  <2> SUFFICES ASSUME Init PROVE TenureInv
    BY FlowsStart
  <2>1. WalkInv /\ Upto = Start - 1 /\ Start \in Nat /\ Start % 2 = 0
    BY WalkStart, ParametersAssumption
  <2>2. ASSUME NEW f \in Flows PROVE charged[f].times = 0
    BY DEF Init, NoLine
  <2>3. MonthOf(Upto) - MonthOf(Start) + 1 = 0
    BY <2>1 DEF MonthOf
  <2>4. \A h \in Properties : Property[h].rent # NoRent =>
            Property[h].rent \in Flows /\ \A f \in Property[h].ownership : f \in Flows
    BY <2>1, TenureIs
  <2> QED BY <2>2, <2>3, <2>4 DEF TenureInv
<1>2. Inv /\ [Next]_vars => Inv'
  <2> SUFFICES ASSUME Inv, [Next]_vars PROVE TenureInv'
    BY FlowsKept
  <2>1. CASE ComputeInterval
    BY <2>1, TenureCompute
  <2>2. CASE OpenInterval \/ CloseInterval \/ UNCHANGED vars
    <3>1. plan' = plan /\ Upto' = Upto
      BY <2>2, WalkOther DEF FlowsInv
    <3>2. charged' = charged /\ sales \subseteq sales'
      BY <2>2 DEF OpenInterval, CloseInterval, vars
    <3>3. Properties' = Properties /\ Property' = Property
      BY <3>1 DEF Properties, Property
    <3> QED BY <3>1, <3>2, <3>3 DEF TenureInv
  <2> QED BY <2>1, <2>2 DEF Next, Stopped
<1>3. Inv => TenureCovered
  <2> SUFFICES ASSUME Inv, Between PROVE Upto = Walked.end
    BY DEF TenureCovered, TenureInv
  <2>1. Computed = k - 1 /\ Computed # 0
    BY DEF Between, Computed, FlowsInv, WalkInv
  <2> QED BY <2>1 DEF Upto, Walked
<1> QED BY <1>1, <1>2, <1>3, PTL DEF Spec
=============================================================================
