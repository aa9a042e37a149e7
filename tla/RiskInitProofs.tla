---------------------------- MODULE RiskInitProofs ----------------------------
(***************************************************************************)
(* The initializer and its calculator for any requests and any size of the *)
(* window.  The library states induction with an operator as a parameter,  *)
(* which the provers cannot instantiate; here it is stated with a set, as  *)
(* "every non-empty set of naturals has a smallest element", and a fold or *)
(* a recursive function is shown to satisfy its own equation before it is  *)
(* used.                                                                   *)
(***************************************************************************)
EXTENDS RiskInit, FiniteSetTheorems, WellFoundedInduction, TLAPS

-----------------------------------------------------------------------------
(* Induction                                                               *)

LEMMA NatOrder ==
  \E R : IsWellFoundedOn(R, Nat) /\ \A m, n \in Nat : m < n => <<m, n>> \in R
<1>1. \A m, n \in Nat : m < n => <<m, n>> \in OpToRel(<, Nat)
  BY DEF OpToRel
<1>2. QED
  BY <1>1, NatLessThanWellFounded

LEMMA Smallest ==
  ASSUME NEW S, S \subseteq Nat, S # {}
  PROVE  \E n \in S : \A m \in S : n <= m
<1>1. PICK R : IsWellFoundedOn(R, Nat) /\ \A m, n \in Nat : m < n => <<m, n>> \in R
  BY NatOrder
<1>2. IsWellFoundedOn(R, Nat)
  BY <1>1
<1>3. PICK n \in S : \A m \in S : ~(<<m, n>> \in R)
  BY <1>2, WFMin
<1>4. \A m \in S : ~(m < n)
  BY <1>1, <1>3
<1>5. n \in Nat /\ \A m \in S : m \in Nat
  OBVIOUS
<1>6. \A m \in S : n <= m
  BY <1>4, <1>5
<1>7. QED
  BY <1>6

\* A set with 0 and the successor of each of its naturals holds all of them.
LEMMA SetInduction ==
  ASSUME NEW S, 0 \in S, \A n \in Nat : n \in S => n + 1 \in S
  PROVE  Nat \subseteq S
<1> SUFFICES ASSUME Nat \ S # {} PROVE FALSE
  OBVIOUS
<1>1. PICK n \in Nat \ S : \A m \in Nat \ S : n <= m
  BY Smallest
<1>2. n - 1 \in Nat /\ n - 1 \in S
  BY <1>1
<1>3. QED
  BY <1>1, <1>2

\* g is the recursion over 0..n from base by step.
Recurses(g, n, base, step) ==
  g[0] = base /\ \A i \in 1..n : g[i] = step[<<g[i - 1], i>>]

\* A recursion over 0..n whose step maps values of X to values of X has a solution.
LEMMA RecursionExists ==
  ASSUME NEW X, NEW base \in X, NEW n \in Nat, NEW step \in [X \X (1..n) -> X]
  PROVE  \E g \in [0..n -> X] : Recurses(g, n, base, step)
<1> DEFINE Solves(g, m) == g[0] = base /\ \A i \in 1..m : g[i] = step[<<g[i - 1], i>>]
           S == {m \in Nat : m <= n => \E g \in [0..m -> X] : Solves(g, m)}
<1>1. 0 \in S
  <2>1. [i \in 0..0 |-> base] \in [0..0 -> X] /\ Solves([i \in 0..0 |-> base], 0)
    OBVIOUS
  <2>2. QED
    BY <2>1
<1>2. \A m \in Nat : m \in S => m + 1 \in S
  <2> SUFFICES ASSUME NEW m \in Nat, m \in S, m + 1 <= n
               PROVE  \E g \in [0..(m + 1) -> X] : Solves(g, m + 1)
    OBVIOUS
  <2>1. PICK g \in [0..m -> X] : Solves(g, m)
    OBVIOUS
  <2> DEFINE last == step[<<g[m], m + 1>>]
             h == [i \in 0..(m + 1) |-> IF i = m + 1 THEN last ELSE g[i]]
  <2>2. last \in X
    OBVIOUS
  <2> HIDE DEF last
  <2>3. h \in [0..(m + 1) -> X]
    BY <2>2
  <2>4. h[0] = base /\ h[m + 1] = last /\ \A i \in 0..m : h[i] = g[i]
    BY <2>1
  <2> HIDE DEF h
  <2>5. ASSUME NEW i \in 1..(m + 1) PROVE h[i] = step[<<h[i - 1], i>>]
    <3>1. CASE i = m + 1
      BY <2>4, <3>1 DEF last
    <3>2. CASE i # m + 1
      BY <2>1, <2>4, <3>2
    <3>3. QED
      BY <3>1, <3>2
  <2>6. QED
    BY <2>3, <2>4, <2>5
<1> HIDE DEF S
<1>3. n \in S
  BY <1>1, <1>2, SetInduction
<1>4. QED
  BY <1>3 DEF S, Recurses

\* g is the fold over the subsets of D from base by step, in the order of ch.
IsFold(g, D, base, ch, step) ==
  \A T \in SUBSET D : g[T] = IF T = {} THEN base ELSE step[<<g[T \ {ch[T]}], ch[T]>>]

\* A fold over a finite set that takes its elements as ch chooses them, and whose
\* step maps values of X to values of X, has a solution.
LEMMA FoldExists ==
  ASSUME NEW X, NEW base \in X, NEW D, IsFiniteSet(D),
         NEW ch, \A T \in SUBSET D : T # {} => ch[T] \in T,
         NEW step \in [X \X D -> X]
  PROVE  \E g \in [SUBSET D -> X] : IsFold(g, D, base, ch, step)
<1> DEFINE Below(m) == {T \in SUBSET D : Cardinality(T) <= m}
           Rest(T) == T \ {ch[T]}
           Solves(g, m) == \A T \in Below(m) :
             g[T] = IF T = {} THEN base ELSE step[<<g[Rest(T)], ch[T]>>]
           S == {m \in Nat : \E g \in [Below(m) -> X] : Solves(g, m)}
<1>1. \A T \in SUBSET D : IsFiniteSet(T) /\ Cardinality(T) \in Nat
                           /\ Cardinality(T) <= Cardinality(D)
  BY FS_Subset, FS_CardinalityType
<1>2. \A T \in SUBSET D : Cardinality(T) = 0 <=> T = {}
  BY <1>1, FS_EmptySet
<1>3. \A T \in SUBSET D : T # {} =>
        /\ Rest(T) \in SUBSET D /\ ch[T] \in D
        /\ Cardinality(Rest(T)) = Cardinality(T) - 1
  BY <1>1, FS_RemoveElement
<1>4. Below(0) = {{}}
  BY <1>1, <1>2
<1>5. 0 \in S
  <2>1. [T \in Below(0) |-> base] \in [Below(0) -> X] /\ Solves([T \in Below(0) |-> base], 0)
    BY <1>4
  <2>2. QED
    BY <2>1
<1>6. \A m \in Nat : m \in S => m + 1 \in S
  <2> HIDE DEF Below, Solves
  <2> SUFFICES ASSUME NEW m \in Nat, m \in S
               PROVE  \E g \in [Below(m + 1) -> X] : Solves(g, m + 1)
    OBVIOUS
  <2> USE DEF Below, Solves
  <2>1. PICK g \in [Below(m) -> X] : Solves(g, m)
    OBVIOUS
  <2> DEFINE value(T) == IF T \in Below(m) THEN g[T] ELSE step[<<g[Rest(T)], ch[T]>>]
             h == [T \in Below(m + 1) |-> value(T)]
  <2>2. \A T \in Below(m + 1) : T # {} => Rest(T) \in Below(m) /\ ch[T] \in D
    BY <1>1, <1>3
  <2>3. \A T \in Below(m) : T \in Below(m + 1) /\ h[T] = g[T]
    BY <1>1
  <2>4. {} \in Below(m)
    BY <1>1, <1>2
  <2>5. h \in [Below(m + 1) -> X]
    <3> SUFFICES ASSUME NEW T \in Below(m + 1) PROVE value(T) \in X
      OBVIOUS
    <3>1. CASE T \in Below(m)
      BY <3>1
    <3>2. CASE T \notin Below(m)
      <4>1. T # {}
        BY <2>4, <3>2
      <4>2. g[Rest(T)] \in X /\ ch[T] \in D
        BY <2>2, <4>1
      <4> HIDE DEF Below, Rest
      <4>3. QED
        BY <3>2, <4>2
    <3>3. QED
      BY <3>1, <3>2
  <2>6. ASSUME NEW T \in Below(m + 1)
        PROVE  h[T] = IF T = {} THEN base ELSE step[<<h[Rest(T)], ch[T]>>]
    <3>1. T # {} => h[Rest(T)] = g[Rest(T)]
      BY <2>2, <2>3
    <3>2. h[T] = value(T)
      OBVIOUS
    <3> HIDE DEF h
    <3>3. CASE T \in Below(m)
      BY <2>1, <3>1, <3>2, <3>3
    <3>4. CASE T \notin Below(m)
      <4>1. T # {}
        BY <2>4, <3>4
      <4> HIDE DEF Below, Rest
      <4>2. QED
        BY <3>1, <3>2, <3>4, <4>1
    <3>5. QED
      BY <3>3, <3>4
  <2> HIDE DEF Below, h
  <2>7. QED
    BY <2>5, <2>6
<1> HIDE DEF S
<1>7. Cardinality(D) \in S
  BY <1>1, <1>5, <1>6, SetInduction
<1>8. Below(Cardinality(D)) = SUBSET D
  BY <1>1
<1> HIDE DEF Below
<1>9. QED
  BY <1>7, <1>8 DEF S, IsFold

LEMMA MaxFacts ==
  ASSUME NEW S, S \subseteq Int, S # {}, NEW b \in Int, \A x \in S : x <= b
  PROVE  Max(S) \in S /\ Max(S) \in Int /\ \A x \in S : x <= Max(S)
<1> DEFINE gaps == {b - x : x \in S}
<1>1. gaps \subseteq Nat /\ gaps # {}
  <2>1. \A x \in S : x \in Int /\ x <= b
    OBVIOUS
  <2>2. \A x \in S : b - x \in Nat
    BY <2>1
  <2>3. QED
    BY <2>2
<1>2. PICK d \in gaps : \A e \in gaps : d <= e
  BY <1>1, Smallest
<1>3. PICK x \in S : d = b - x
  OBVIOUS
<1>4. \A y \in S : x >= y
  <2> SUFFICES ASSUME NEW y \in S PROVE x >= y
    OBVIOUS
  <2>1. b - y \in gaps
    OBVIOUS
  <2>2. d <= b - y
    BY <1>2, <2>1
  <2>3. QED
    BY <1>3, <2>2
<1>5. Max(S) \in S /\ \A y \in S : Max(S) >= y
  BY <1>4 DEF Max
<1>6. QED
  BY <1>5

\* The values of a function on 1..n have a bound, and so a greatest one.
LEMMA ValuesBounded ==
  ASSUME NEW n \in Nat, NEW f \in [1..n -> Int]
  PROVE  \E b \in Int : \A i \in 1..n : f[i] <= b
<1> DEFINE Bounds(b, m) == \A i \in 1..m : f[i] <= b
           S == {m \in Nat : m <= n => \E b \in Int : Bounds(b, m)}
<1>1. 0 \in S
  OBVIOUS
<1>2. \A m \in Nat : m \in S => m + 1 \in S
  <2> HIDE DEF Bounds
  <2> SUFFICES ASSUME NEW m \in Nat, m \in S, m + 1 <= n
               PROVE  \E b \in Int : Bounds(b, m + 1)
    OBVIOUS
  <2> USE DEF Bounds
  <2>1. PICK b \in Int : \A i \in 1..m : f[i] <= b
    BY m <= n
  <2>2. f[m + 1] \in Int
    OBVIOUS
  <2> DEFINE c == IF f[m + 1] > b THEN f[m + 1] ELSE b
  <2>3. c \in Int /\ \A i \in 1..(m + 1) : f[i] <= c
    BY <2>1, <2>2
  <2>4. QED
    BY <2>3
<1> HIDE DEF S
<1>3. n \in S
  BY <1>1, <1>2, SetInduction
<1>4. QED
  BY <1>3 DEF S

LEMMA GreatestValue ==
  ASSUME NEW n \in Nat \ {0}, NEW f \in [1..n -> Int]
  PROVE  /\ Max({f[i] : i \in 1..n}) \in Int
         /\ \A i \in 1..n : f[i] <= Max({f[j] : j \in 1..n})
         /\ \E i \in 1..n : f[i] = Max({f[j] : j \in 1..n})
<1> DEFINE S == {f[i] : i \in 1..n}
<1>1. PICK b \in Int : \A i \in 1..n : f[i] <= b
  BY ValuesBounded
<1>2. S \subseteq Int /\ \A x \in S : x <= b
  BY <1>1
<1>3. f[1] \in S
  OBVIOUS
<1>4. Max(S) \in S /\ Max(S) \in Int /\ \A x \in S : x <= Max(S)
  BY <1>2, <1>3, MaxFacts
<1>5. QED
  BY <1>4
-----------------------------------------------------------------------------
(* The calculator                                                          *)

\* The running sum satisfies its equation.
LEMMA RunningSumDef ==
  ASSUME NEW p \in Seq(Int)
  PROVE  /\ RunningSum(p) \in [0..Len(p) -> Int]
         /\ RunningSum(p)[0] = 0
         /\ \A n \in 1..Len(p) : RunningSum(p)[n] = RunningSum(p)[n - 1] + p[n]
<1> DEFINE N == Len(p)
           step == [x \in Int \X (1..N) |-> x[1] + p[x[2]]]
           Equation(g) == g = [n \in 0..N |-> IF n = 0 THEN 0 ELSE g[n - 1] + p[n]]
<1>1. N \in Nat /\ \A n \in 1..N : p[n] \in Int
  OBVIOUS
<1>2. step \in [Int \X (1..N) -> Int]
  BY <1>1
<1>3. PICK g \in [0..N -> Int] : Recurses(g, N, 0, step)
  <2> HIDE DEF N, step
  <2>1. 0 \in Int
    OBVIOUS
  <2>2. QED
    BY <1>1, <1>2, <2>1, RecursionExists
<1>4. ASSUME NEW i \in 1..N PROVE g[i - 1] \in Int /\ g[i] = g[i - 1] + p[i]
  <2>1. i - 1 \in 0..N
    BY <1>1
  <2>2. g[i - 1] \in Int /\ <<g[i - 1], i>> \in Int \X (1..N)
    BY <2>1
  <2>3. step[<<g[i - 1], i>>] = g[i - 1] + p[i]
    BY <2>2
  <2> HIDE DEF step
  <2>4. QED
    BY <1>3, <2>2, <2>3 DEF Recurses
<1>5. Equation(g)
  BY <1>1, <1>3, <1>4 DEF Recurses
<1>6. RunningSum(p) = CHOOSE h : Equation(h)
  BY Zenon DEF RunningSum
<1>7. Equation(RunningSum(p))
  <2> HIDE DEF Equation
  <2>1. QED
    BY <1>5, <1>6
<1> DEFINE S == {m \in Nat : m <= N => RunningSum(p)[m] \in Int}
<1>8. RunningSum(p)[0] = 0 /\ \A n \in 1..N : RunningSum(p)[n] = RunningSum(p)[n - 1] + p[n]
  BY <1>1, <1>7
<1>9. Nat \subseteq S
  <2>1. 0 \in S
    BY <1>8
  <2>2. \A m \in Nat : m \in S => m + 1 \in S
    BY <1>1, <1>8
  <2> HIDE DEF S
  <2>3. QED
    BY <2>1, <2>2, SetInduction
<1>10. \A n \in 0..N : RunningSum(p)[n] \in Int
  BY <1>1, <1>9
<1>11. RunningSum(p) = [n \in 0..N |-> RunningSum(p)[n]]
  BY <1>7
<1>12. QED
  BY <1>8, <1>10, <1>11

\* A function on 1..n is a sequence of length n.
LEMMA IndexedSeq ==
  ASSUME NEW X, NEW n \in Nat, NEW f, f = [i \in 1..n |-> f[i]], \A i \in 1..n : f[i] \in X
  PROVE  f \in Seq(X) /\ Len(f) = n
<1>1. f \in [1..n -> X]
  OBVIOUS
<1>2. f \in Seq(X)
  BY <1>1
<1>3. DOMAIN f = 1..n /\ DOMAIN f = 1..Len(f) /\ Len(f) \in Nat
  BY <1>1, <1>2
<1>4. QED
  BY <1>2, <1>3

LEMMA SumType == ASSUME NEW p \in Seq(Int) PROVE SumOf(p) \in Int
  BY RunningSumDef DEF SumOf

LEMMA SumOfNothing == SumOf(<<>>) = 0
<1>1. <<>> \in Seq(Int) /\ Len(<<>>) = 0
  OBVIOUS
<1>2. RunningSum(<<>>)[0] = 0
  BY <1>1, RunningSumDef
<1>3. QED
  BY <1>1, <1>2 DEF SumOf

\* The running sum depends on the points up to it only.
LEMMA SumsAgree ==
  ASSUME NEW p \in Seq(Int), NEW q \in Seq(Int), NEW n \in Nat,
         n <= Len(p), n <= Len(q), \A i \in 1..n : p[i] = q[i]
  PROVE  RunningSum(p)[n] = RunningSum(q)[n]
<1> DEFINE S == {m \in Nat : m <= n => RunningSum(p)[m] = RunningSum(q)[m]}
<1>1. 0 \in S
  BY RunningSumDef
<1>2. \A m \in Nat : m \in S => m + 1 \in S
  <2> SUFFICES ASSUME NEW m \in Nat, m \in S, m + 1 <= n
               PROVE  RunningSum(p)[m + 1] = RunningSum(q)[m + 1]
    OBVIOUS
  <2>1. m + 1 \in 1..Len(p) /\ m + 1 \in 1..Len(q) /\ p[m + 1] = q[m + 1]
    OBVIOUS
  <2>2. /\ RunningSum(p)[m + 1] = RunningSum(p)[m] + p[m + 1]
        /\ RunningSum(q)[m + 1] = RunningSum(q)[m] + q[m + 1]
    BY <2>1, RunningSumDef
  <2>3. QED
    BY <2>1, <2>2
<1> HIDE DEF S
<1>3. n \in S
  BY <1>1, <1>2, SetInduction
<1>4. QED
  BY <1>3 DEF S

LEMMA SumOfAppend ==
  ASSUME NEW p \in Seq(Int), NEW x \in Int
  PROVE  SumOf(Append(p, x)) = SumOf(p) + x
<1> DEFINE q == Append(p, x)
<1>1. q \in Seq(Int) /\ Len(q) = Len(p) + 1 /\ q[Len(p) + 1] = x
      /\ \A i \in 1..Len(p) : p[i] = q[i]
  OBVIOUS
<1>2. Len(p) \in Nat /\ Len(p) <= Len(p) /\ Len(p) <= Len(q) /\ Len(q) \in 1..Len(q)
  BY <1>1
<1> HIDE DEF q
<1>3. RunningSum(p)[Len(p)] = RunningSum(q)[Len(p)]
  <2> DEFINE n == Len(p)
  <2>1. n \in Nat /\ n <= Len(p) /\ n <= Len(q) /\ \A i \in 1..n : p[i] = q[i]
    BY <1>1, <1>2
  <2>2. q \in Seq(Int)
    BY <1>1
  <2> HIDE DEF n
  <2>3. RunningSum(p)[n] = RunningSum(q)[n]
    BY <2>1, <2>2, SumsAgree
  <2>4. QED
    BY <2>3 DEF n
<1>4. RunningSum(q)[Len(q)] = RunningSum(q)[Len(q) - 1] + q[Len(q)]
  BY <1>1, <1>2, RunningSumDef
<1>5. Len(q) - 1 = Len(p)
  BY <1>1, <1>2
<1>6. SumOf(q) = SumOf(p) + x
  BY <1>1, <1>3, <1>4, <1>5 DEF SumOf
<1>7. QED
  BY <1>6 DEF q

LEMMA SumOfZeros ==
  ASSUME NEW p \in Seq(Int), \A i \in 1..Len(p) : p[i] = 0
  PROVE  SumOf(p) = 0
<1> DEFINE S == {m \in Nat : m <= Len(p) => RunningSum(p)[m] = 0}
<1>1. 0 \in S
  BY RunningSumDef
<1>2. \A m \in Nat : m \in S => m + 1 \in S
  <2> SUFFICES ASSUME NEW m \in Nat, m \in S, m + 1 <= Len(p)
               PROVE  RunningSum(p)[m + 1] = 0
    OBVIOUS
  <2>1. m + 1 \in 1..Len(p) /\ RunningSum(p)[m] = 0
    OBVIOUS
  <2>2. RunningSum(p)[m + 1] = RunningSum(p)[m] + p[m + 1]
    BY <2>1, RunningSumDef
  <2>3. QED
    BY <2>1, <2>2
<1> HIDE DEF S
<1>3. Len(p) \in S
  <2>1. Len(p) \in Nat
    OBVIOUS
  <2>2. QED
    BY <1>1, <1>2, <2>1, SetInduction
<1>4. QED
  BY <1>3 DEF S, SumOf

\* A sequence whose first points are those of another, or zeros, and one point more.
LEMMA SumOfExtended ==
  ASSUME NEW p \in Seq(Int), NEW q \in Seq(Int), NEW n \in Nat, NEW x \in Int,
         Len(p) = n, Len(q) = n + 1, \A i \in 1..n : q[i] = p[i], q[n + 1] = x
  PROVE  SumOf(q) = SumOf(p) + x
<1>1. q = Append(p, x)
  OBVIOUS
<1>2. QED
  BY <1>1, SumOfAppend

LEMMA SumOfOneMore ==
  ASSUME NEW q \in Seq(Int), NEW n \in Nat, NEW x \in Int,
         Len(q) = n + 1, \A i \in 1..n : q[i] = 0, q[n + 1] = x
  PROVE  SumOf(q) = x
<1> DEFINE p == [i \in 1..n |-> 0]
<1>1. p \in Seq(Int) /\ Len(p) = n
  <2>1. p = [i \in 1..n |-> p[i]] /\ \A i \in 1..n : p[i] \in Int
    OBVIOUS
  <2> HIDE DEF p
  <2>2. QED
    BY <2>1, IndexedSeq
<1>2. \A i \in 1..n : p[i] = 0
  OBVIOUS
<1> HIDE DEF p
<1>3. SumOf(p) = 0
  BY <1>1, <1>2, SumOfZeros
<1>4. SumOf(q) = SumOf(p) + x
  BY <1>1, <1>2, SumOfExtended
<1>5. QED
  BY <1>3, <1>4

\* The total is what was won less what was lost.
LEMMA TotalIsProfitLessLoss ==
  ASSUME NEW p \in Seq(Int)
  PROVE  SumOf(p) = SumOf(Profits(p)) - SumOf(Losses(p))
<1> DEFINE g == Profits(p)
           l == Losses(p)
           S == {m \in Nat : m <= Len(p) =>
                   RunningSum(p)[m] = RunningSum(g)[m] - RunningSum(l)[m]}
<1>1. /\ g \in Seq(Int) /\ l \in Seq(Int) /\ Len(g) = Len(p) /\ Len(l) = Len(p)
      /\ \A i \in 1..Len(p) : p[i] = g[i] - l[i] /\ p[i] \in Int /\ g[i] \in Int /\ l[i] \in Int
  <2>1. Len(p) \in Nat /\ DOMAIN p = 1..Len(p) /\ \A i \in 1..Len(p) : p[i] \in Int
    OBVIOUS
  <2>2. g = [i \in 1..Len(p) |-> IF p[i] > 0 THEN p[i] ELSE 0]
        /\ l = [i \in 1..Len(p) |-> IF p[i] < 0 THEN -p[i] ELSE 0]
    BY <2>1 DEF Profits, Losses
  <2> HIDE DEF g, l
  <2>3. \A i \in 1..Len(p) : g[i] \in Int /\ l[i] \in Int /\ p[i] = g[i] - l[i]
    BY <2>1, <2>2
  <2>4. g \in Seq(Int) /\ Len(g) = Len(p)
    BY <2>1, <2>2, <2>3, IndexedSeq
  <2>5. l \in Seq(Int) /\ Len(l) = Len(p)
    BY <2>1, <2>2, <2>3, IndexedSeq
  <2>6. QED
    BY <2>1, <2>3, <2>4, <2>5
<1> HIDE DEF g, l
<1>2. 0 \in S
  BY <1>1, RunningSumDef
<1>3. \A m \in Nat : m \in S => m + 1 \in S
  <2> SUFFICES ASSUME NEW m \in Nat, m \in S, m + 1 <= Len(p)
               PROVE  RunningSum(p)[m + 1] = RunningSum(g)[m + 1] - RunningSum(l)[m + 1]
    OBVIOUS
  <2>1. m + 1 \in 1..Len(p) /\ RunningSum(p)[m] = RunningSum(g)[m] - RunningSum(l)[m]
    OBVIOUS
  <2>2. /\ RunningSum(p)[m + 1] = RunningSum(p)[m] + p[m + 1]
        /\ RunningSum(g)[m + 1] = RunningSum(g)[m] + g[m + 1]
        /\ RunningSum(l)[m + 1] = RunningSum(l)[m] + l[m + 1]
    BY <1>1, <2>1, RunningSumDef
  <2>3. m \in 0..Len(p) /\ m \in 0..Len(g) /\ m \in 0..Len(l)
    BY <1>1, <2>1
  <2>4. RunningSum(p)[m] \in Int /\ RunningSum(g)[m] \in Int /\ RunningSum(l)[m] \in Int
    BY <1>1, <2>3, RunningSumDef
  <2>5. p[m + 1] = g[m + 1] - l[m + 1] /\ p[m + 1] \in Int /\ g[m + 1] \in Int /\ l[m + 1] \in Int
    BY <1>1, <2>1
  <2>6. QED
    BY <2>1, <2>2, <2>4, <2>5
<1> HIDE DEF S
<1>4. Len(p) \in S
  <2>1. Len(p) \in Nat
    OBVIOUS
  <2>2. QED
    BY <1>2, <1>3, <2>1, SetInduction
<1>5. QED
  BY <1>1, <1>4 DEF S, SumOf, g, l

\* The peak satisfies its equation.
LEMMA PeaksDef ==
  ASSUME NEW p \in Seq(Int)
  PROVE  /\ Peaks(p) \in [0..Len(p) -> Int]
         /\ Peaks(p)[0] = 0
         /\ \A n \in 1..Len(p) :
              Peaks(p)[n] = IF RunningSum(p)[n] > Peaks(p)[n - 1] THEN RunningSum(p)[n]
                                                                  ELSE Peaks(p)[n - 1]
<1> DEFINE N == Len(p)
           sum == RunningSum(p)
           Higher(x, n) == IF sum[n] > x THEN sum[n] ELSE x
           step == [x \in Int \X (1..N) |-> Higher(x[1], x[2])]
           Equation(g) ==
             g = [n \in 0..N |-> IF n = 0 THEN 0 ELSE IF sum[n] > g[n - 1] THEN sum[n] ELSE g[n - 1]]
<1>1. N \in Nat /\ \A n \in 1..N : sum[n] \in Int
  BY RunningSumDef
<1> HIDE DEF sum
<1>2. step \in [Int \X (1..N) -> Int]
  BY <1>1
<1>3. PICK g \in [0..N -> Int] : Recurses(g, N, 0, step)
  <2> HIDE DEF N, step
  <2>1. 0 \in Int
    OBVIOUS
  <2>2. QED
    BY <1>1, <1>2, <2>1, RecursionExists
<1>4. ASSUME NEW i \in 1..N PROVE g[i - 1] \in Int /\ g[i] = Higher(g[i - 1], i)
  <2>1. i - 1 \in 0..N
    BY <1>1
  <2>2. g[i - 1] \in Int /\ <<g[i - 1], i>> \in Int \X (1..N)
    BY <2>1
  <2>3. step[<<g[i - 1], i>>] = Higher(g[i - 1], i)
    BY <2>2
  <2> HIDE DEF step, Higher
  <2>4. QED
    BY <1>3, <2>2, <2>3 DEF Recurses
<1>5. Equation(g)
  BY <1>1, <1>3, <1>4 DEF Recurses
<1>6. Peaks(p) = CHOOSE h : Equation(h)
  BY Zenon DEF Peaks, sum
<1>7. Equation(Peaks(p))
  <2> HIDE DEF Equation
  <2>1. QED
    BY <1>5, <1>6
<1> DEFINE S == {m \in Nat : m <= N => Peaks(p)[m] \in Int}
<1>8. Peaks(p)[0] = 0 /\ \A n \in 1..N : Peaks(p)[n] = Higher(Peaks(p)[n - 1], n)
  BY <1>1, <1>7
<1>9. Nat \subseteq S
  <2>1. 0 \in S
    BY <1>8
  <2>2. ASSUME NEW m \in Nat, m \in S PROVE m + 1 \in S
    <3>1. CASE m + 1 <= N
      <4>1. m + 1 \in 1..N /\ (m + 1) - 1 = m /\ Peaks(p)[m] \in Int
        BY <1>1, <2>2, <3>1
      <4>2. Peaks(p)[m + 1] = Higher(Peaks(p)[m], m + 1) /\ sum[m + 1] \in Int
        BY <1>1, <1>8, <4>1
      <4>3. Peaks(p)[m + 1] \in Int
        BY <4>1, <4>2
      <4>4. QED
        BY <4>3
    <3>2. CASE ~(m + 1 <= N)
      BY <3>2
    <3>3. QED
      BY <3>1, <3>2
  <2> HIDE DEF S
  <2>3. QED
    BY <2>1, <2>2, SetInduction
<1>10. \A n \in 0..N : Peaks(p)[n] \in Int
  BY <1>1, <1>9
<1>11. Peaks(p) = [n \in 0..N |-> Peaks(p)[n]]
  BY <1>7
<1>12. QED
  BY <1>8, <1>10, <1>11 DEF sum

\* The peak is the greatest running sum so far.
LEMMA PeakIsGreatest ==
  ASSUME NEW p \in Seq(Int), NEW n \in 0..Len(p)
  PROVE  /\ \A i \in 0..n : RunningSum(p)[i] <= Peaks(p)[n]
         /\ \E i \in 0..n : RunningSum(p)[i] = Peaks(p)[n]
<1> DEFINE sum == RunningSum(p)
           peak == Peaks(p)
           IsPeak(m) == /\ \A i \in 0..m : sum[i] <= peak[m]
                        /\ \E i \in 0..m : sum[i] = peak[m]
           S == {m \in Nat : m <= Len(p) => IsPeak(m)}
<1>1. Len(p) \in Nat /\ \A i \in 0..Len(p) : sum[i] \in Int /\ peak[i] \in Int
  BY RunningSumDef, PeaksDef
<1>2. sum[0] = 0 /\ peak[0] = 0
  BY RunningSumDef, PeaksDef
<1>3. \A i \in 1..Len(p) : peak[i] = IF sum[i] > peak[i - 1] THEN sum[i] ELSE peak[i - 1]
  BY PeaksDef
<1> HIDE DEF sum, peak
<1>4. 0 \in S
  BY <1>2
<1>5. \A m \in Nat : m \in S => m + 1 \in S
  <2> HIDE DEF IsPeak
  <2> SUFFICES ASSUME NEW m \in Nat, m \in S, m + 1 <= Len(p) PROVE IsPeak(m + 1)
    OBVIOUS
  <2>1. m \in 0..Len(p) /\ m + 1 \in 1..Len(p) /\ m + 1 \in 0..Len(p)
    BY <1>1
  <2>2. IsPeak(m) /\ peak[m + 1] = IF sum[m + 1] > peak[m] THEN sum[m + 1] ELSE peak[m]
    BY <1>3, <2>1
  <2>3. sum[m + 1] \in Int /\ peak[m] \in Int
    BY <1>1, <2>1
  <2>4. PICK i \in 0..m : sum[i] = peak[m]
    BY <2>2 DEF IsPeak
  <2>5. \A j \in 0..(m + 1) : sum[j] <= peak[m + 1]
    <3> SUFFICES ASSUME NEW j \in 0..(m + 1) PROVE sum[j] <= peak[m + 1]
      OBVIOUS
    <3>1. CASE j = m + 1
      BY <2>2, <2>3, <3>1
    <3>2. CASE j \in 0..m
      <4>1. sum[j] <= peak[m] /\ sum[j] \in Int
        BY <1>1, <2>1, <2>2, <3>2 DEF IsPeak
      <4>2. QED
        BY <2>2, <2>3, <4>1
    <3>3. QED
      BY <3>1, <3>2
  <2>6. \E j \in 0..(m + 1) : sum[j] = peak[m + 1]
    BY <2>2, <2>3, <2>4
  <2>7. QED
    BY <2>5, <2>6 DEF IsPeak
<1> HIDE DEF S
<1>6. n \in S
  <2>1. n \in Nat
    BY <1>1
  <2>2. QED
    BY <1>4, <1>5, <2>1, SetInduction
<1>7. QED
  BY <1>1, <1>6 DEF S, sum, peak

\* The one pass of calculate_max_drawdown over the window, with a running peak,
\* finds the greatest fall of the running sum, for two points and more.
THEOREM DrawdownIsGreatestFall ==
  ASSUME NEW p \in Seq(Int), Len(p) > 1
  PROVE  IsGreatestFall(DrawdownOf(p), p)
<1> DEFINE sum == RunningSum(p)
           peak == Peaks(p)
           fall == [n \in 1..Len(p) |-> peak[n] - sum[n]]
           d == DrawdownOf(p)
<1>1. Len(p) \in Nat \ {0} /\ \A i \in 0..Len(p) : sum[i] \in Int /\ peak[i] \in Int
  BY RunningSumDef, PeaksDef
<1>2. fall \in [1..Len(p) -> Int]
  BY <1>1
<1>3. d = Max({fall[n] : n \in 1..Len(p)})
  <2>1. {fall[n] : n \in 1..Len(p)} = {peak[n] - sum[n] : n \in 1..Len(p)}
    OBVIOUS
  <2>2. ~(Len(p) < 2)
    BY <1>1
  <2>3. d = Max({peak[n] - sum[n] : n \in 1..Len(p)})
    BY <2>2, Zenon DEF DrawdownOf
  <2> HIDE DEF d, sum, peak, fall
  <2>4. QED
    BY <2>1, <2>3
<1> HIDE DEF d, fall
<1>4. d \in Int /\ (\A n \in 1..Len(p) : fall[n] <= d) /\ \E n \in 1..Len(p) : fall[n] = d
  BY <1>1, <1>2, <1>3, GreatestValue
<1> USE DEF fall
<1>5. /\ \A n \in 0..Len(p) : \A i \in 0..n : sum[i] <= peak[n]
      /\ \A n \in 0..Len(p) : \E i \in 0..n : sum[i] = peak[n]
  BY PeakIsGreatest
<1> HIDE DEF sum, peak
<1>6. ASSUME NEW i \in 0..Len(p), NEW j \in i..Len(p) PROVE sum[i] - sum[j] <= d
  <2>1. i \in 0..j /\ j \in 0..Len(p) /\ sum[i] \in Int /\ sum[j] \in Int /\ peak[j] \in Int
    BY <1>1
  <2>2. sum[i] <= peak[j]
    BY <1>5, <2>1
  <2>3. CASE j # 0
    <3>1. fall[j] = peak[j] - sum[j] /\ fall[j] <= d
      BY <1>1, <1>4, <2>1, <2>3
    <3>2. QED
      BY <1>4, <2>1, <2>2, <3>1
  <2>4. CASE j = 0
    <3>1. i = 0
      BY <2>1, <2>4
    <3>2. 1 \in 0..Len(p) /\ 1 \in 0..1 /\ 1 \in 1..Len(p)
      BY <1>1
    <3>3. sum[1] <= peak[1] /\ sum[1] \in Int /\ peak[1] \in Int
      BY <1>1, <1>5, <3>2
    <3>4. peak[1] - sum[1] <= d
      BY <1>4, <3>2
    <3>5. QED
      BY <1>4, <2>1, <2>4, <3>1, <3>3, <3>4
  <2>5. QED
    BY <2>3, <2>4
<1>7. \E i \in 0..Len(p) : \E j \in i..Len(p) : sum[i] - sum[j] = d
  <2>1. PICK n \in 1..Len(p) : peak[n] - sum[n] = d
    BY <1>4
  <2>2. n \in 0..Len(p)
    BY <1>1
  <2>3. PICK i \in 0..n : sum[i] = peak[n]
    BY <1>5, <2>2
  <2>4. i \in 0..Len(p) /\ n \in i..Len(p)
    BY <1>1, <2>2
  <2>5. QED
    BY <2>1, <2>3, <2>4
<1>8. QED
  BY <1>6, <1>7 DEF IsGreatestFall, sum, d

LEMMA MaxExposureBounds ==
  ASSUME NEW p \in Seq(Nat), p # <<>>
  PROVE  Max(ToSet(p)) \in Int /\ \A e \in ToSet(p) : e <= Max(ToSet(p))
<1>1. Len(p) \in Nat \ {0} /\ DOMAIN p = 1..Len(p) /\ p \in [1..Len(p) -> Int]
  OBVIOUS
<1>2. ToSet(p) = {p[i] : i \in 1..Len(p)}
  BY <1>1 DEF ToSet
<1>3. /\ Max({p[i] : i \in 1..Len(p)}) \in Int
      /\ \A i \in 1..Len(p) : p[i] <= Max({p[j] : j \in 1..Len(p)})
  BY <1>1, GreatestValue
<1>4. QED
  BY <1>2, <1>3

\* The window holds at most MaxHistory points, and no point changes nothing.
LEMMA WindowFacts ==
  ASSUME NEW X, NEW h \in Seq(X), NEW q \in Seq(X)
  PROVE  /\ AddPoints(h, q) \in Seq(X)
         /\ Len(AddPoints(h, q)) <= MaxHistory
         /\ q = <<>> /\ Len(h) <= MaxHistory => AddPoints(h, q) = h
<1> DEFINE all == h \o q
<1>1. MaxHistory \in Nat \ {0}
  BY RequestAssumption
<1>2. all \in Seq(X) /\ Len(all) \in Nat /\ (q = <<>> => all = h)
  OBVIOUS
<1> HIDE DEF all
<1>3. AddPoints(h, q) = IF Len(all) <= MaxHistory THEN all
                        ELSE SubSeq(all, Len(all) - MaxHistory + 1, Len(all))
  BY DEF AddPoints, all
<1>4. CASE Len(all) <= MaxHistory
  BY <1>2, <1>3, <1>4
<1>5. CASE ~(Len(all) <= MaxHistory)
  <2>1. Len(all) - MaxHistory + 1 \in 1..Len(all)
    BY <1>1, <1>2, <1>5
  <2>2. /\ SubSeq(all, Len(all) - MaxHistory + 1, Len(all)) \in Seq(X)
        /\ Len(SubSeq(all, Len(all) - MaxHistory + 1, Len(all))) = MaxHistory
    BY <1>1, <1>2, <2>1
  <2>3. QED
    BY <1>1, <1>2, <1>3, <1>5, <2>2
<1>6. QED
  BY <1>4, <1>5

-----------------------------------------------------------------------------
(* The parts of a request                                                  *)

SymbolRecord == [exists : BOOLEAN, position : Int, trades : Nat, restriction : Restrictions]
SymbolTable == [Names -> SymbolRecord]

\* The record a symbol state leaves.
RecordOf(state) ==
  [exists |-> TRUE, position |-> state.position, trades |-> state.trades,
   restriction |-> state.restriction]

LEMMA LastOfPrefix ==
  ASSUME NEW m \in Nat \ {0}
  PROVE  Max(1..m) = m /\ (1..m) \ {Max(1..m)} = 1..(m - 1)
<1>1. Max(1..m) \in 1..m /\ \A x \in 1..m : x <= Max(1..m)
  <2>1. 1..m \subseteq Int /\ 1..m # {} /\ m \in Int /\ \A x \in 1..m : x <= m
    OBVIOUS
  <2>2. QED
    BY <2>1, MaxFacts
<1>2. Max(1..m) = m
  BY <1>1
<1>3. (1..m) \ {m} = 1..(m - 1)
  OBVIOUS
<1>4. QED
  BY <1>2, <1>3

\* g is the fold over the indices 1..n, the greatest last, as FoldLeft takes them.
FoldsIndices(g, n, base, step) ==
  \A T \in SUBSET (1..n) :
    /\ T = {} => g[T] = base
    /\ T # {} => Max(T) \in T /\ g[T] = step[<<g[T \ {Max(T)}], Max(T)>>]

LEMMA IndicesFold ==
  ASSUME NEW X, NEW base \in X, NEW n \in Nat, NEW step \in [X \X (1..n) -> X]
  PROVE  \E g \in [SUBSET (1..n) -> X] : FoldsIndices(g, n, base, step)
<1> DEFINE D == 1..n
           ch == [T \in SUBSET D |-> Max(T)]
<1>1. IsFiniteSet(D)
  BY FS_Interval
<1>2. \A T \in SUBSET D : T # {} => ch[T] \in T
  <2> SUFFICES ASSUME NEW T \in SUBSET D, T # {} PROVE Max(T) \in T
    OBVIOUS
  <2>1. T \subseteq Int /\ n \in Int /\ \A x \in T : x <= n
    OBVIOUS
  <2>2. QED
    BY <2>1, MaxFacts
<1> HIDE DEF ch
<1>3. PICK g \in [SUBSET D -> X] : IsFold(g, D, base, ch, step)
  <2> HIDE DEF D
  <2>1. step \in [X \X D -> X]
    BY DEF D
  <2>2. QED
    BY <1>1, <1>2, <2>1, FoldExists
<1>4. ASSUME NEW T \in SUBSET D
      PROVE  /\ T = {} => g[T] = base
             /\ T # {} => Max(T) \in T /\ g[T] = step[<<g[T \ {Max(T)}], Max(T)>>]
  <2>1. ch[T] = Max(T)
    BY DEF ch
  <2>2. g[T] = IF T = {} THEN base ELSE step[<<g[T \ {ch[T]}], ch[T]>>]
    BY <1>3 DEF IsFold
  <2>3. QED
    BY <1>2, <2>1, <2>2
<1>5. QED
  BY <1>4 DEF FoldsIndices

\* F is such a fold wherever its values are in X.
FoldsWithin(F, X, n, base, step) ==
  /\ F[{}] = base
  /\ \A T \in SUBSET (1..n) : T # {} /\ F[T \ {Max(T)}] \in X
       => F[T] = step[<<F[T \ {Max(T)}], Max(T)>>]

RecursesTo(f, last, n, base, step) == Recurses(f, n, base, step) /\ f[n] = last

\* It is then a recursion over the prefixes 1..m.
LEMMA PrefixRecursion ==
  ASSUME NEW X, NEW base \in X, NEW n \in Nat, NEW step \in [X \X (1..n) -> X], NEW F,
         FoldsWithin(F, X, n, base, step)
  PROVE  \E f \in [0..n -> X] : RecursesTo(f, F[1..n], n, base, step)
<1> DEFINE S == {m \in Nat : m <= n => F[1..m] \in X}
<1>1. ASSUME NEW m \in 1..n, F[1..(m - 1)] \in X
      PROVE  F[1..m] = step[<<F[1..(m - 1)], m>>] /\ F[1..m] \in X
  <2> DEFINE M == 1..m
  <2>1. m \in Nat \ {0} /\ M \in SUBSET (1..n) /\ M # {}
    OBVIOUS
  <2>2. Max(M) = m /\ M \ {Max(M)} = 1..(m - 1)
    BY <2>1, LastOfPrefix
  <2>3. F[M] = step[<<F[M \ {Max(M)}], Max(M)>>]
    <3> HIDE DEF M
    <3>1. QED
      BY <1>1, <2>1, <2>2 DEF FoldsWithin
  <2>4. F[1..m] = step[<<F[1..(m - 1)], m>>]
    BY <2>2, <2>3
  <2>5. QED
    BY <1>1, <2>4
<1>2. 0 \in S
  <2>1. 1..0 = {}
    OBVIOUS
  <2>2. QED
    BY <2>1 DEF FoldsWithin
<1>3. ASSUME NEW m \in Nat, m \in S PROVE m + 1 \in S
  <2>1. CASE m + 1 <= n
    <3>1. m + 1 \in 1..n /\ (m + 1) - 1 = m /\ F[1..m] \in X
      BY <1>3, <2>1
    <3>2. F[1..(m + 1)] \in X
      BY <1>1, <3>1
    <3>3. QED
      BY <3>2
  <2>2. CASE ~(m + 1 <= n)
    BY <2>2
  <2>3. QED
    BY <2>1, <2>2
<1>4. Nat \subseteq S
  <2> HIDE DEF S
  <2>1. QED
    BY <1>2, <1>3, SetInduction
<1>5. \A m \in 0..n : F[1..m] \in X
  BY <1>4
<1> DEFINE f == [m \in 0..n |-> F[1..m]]
<1>6. f \in [0..n -> X] /\ f[n] = F[1..n]
  BY <1>5
<1>7. f[0] = base
  <2>1. 1..0 = {}
    OBVIOUS
  <2>2. QED
    BY <2>1 DEF FoldsWithin
<1>8. ASSUME NEW i \in 1..n PROVE f[i] = step[<<f[i - 1], i>>]
  <2>1. i - 1 \in 0..n /\ i \in 0..n
    OBVIOUS
  <2>2. f[i - 1] = F[1..(i - 1)] /\ f[i] = F[1..i]
    BY <2>1
  <2>3. F[1..i] = step[<<F[1..(i - 1)], i>>]
    BY <1>1, <1>5, <2>1
  <2> HIDE DEF f
  <2>4. QED
    BY <2>2, <2>3
<1> HIDE DEF f
<1>9. QED
  BY <1>6, <1>7, <1>8 DEF Recurses, RecursesTo

\* What the symbol states of a request leave, one after the other.
LEMMA SymbolStatesStep ==
  ASSUME NEW symbols \in SymbolTable, NEW w \in Seq(SymbolInitState)
  PROVE  \E f \in [0..Len(w) -> SymbolTable] :
           /\ f[0] = symbols
           /\ \A m \in 1..Len(w) : f[m] = WithSymbolState(f[m - 1], w[m])
           /\ f[Len(w)] = FoldLeft(WithSymbolState, symbols, w)
<1> DEFINE n == Len(w)
           step == [x \in SymbolTable \X (1..n) |-> WithSymbolState(x[1], w[x[2]])]
           Equation(g) == g = [T \in SUBSET DOMAIN w |->
             IF T = {} THEN symbols ELSE WithSymbolState(g[T \ {Max(T)}], w[Max(T)])]
           F == CHOOSE g : Equation(g)
<1>1. n \in Nat /\ DOMAIN w = 1..n /\ \A i \in 1..n : w[i] \in SymbolInitState
  OBVIOUS
<1>2. FoldLeft(WithSymbolState, symbols, w) = F[DOMAIN w]
  BY Zenon DEF FoldLeft, MapThenFoldSet
<1>3. \A x \in SymbolTable, i \in 1..n : WithSymbolState(x, w[i]) \in SymbolTable
  BY <1>1 DEF WithSymbolState, SymbolTable, SymbolRecord, SymbolInitState
<1> HIDE DEF n
<1>4. step \in [SymbolTable \X (1..n) -> SymbolTable]
  BY <1>3
<1>5. ASSUME NEW x \in SymbolTable, NEW i \in 1..n PROVE step[<<x, i>>] = WithSymbolState(x, w[i])
  OBVIOUS
<1>6. PICK g \in [SUBSET (1..n) -> SymbolTable] : FoldsIndices(g, n, symbols, step)
  <2> HIDE DEF step
  <2>1. QED
    BY <1>1, <1>4, IndicesFold
<1> HIDE DEF step
<1>7. ASSUME NEW T \in SUBSET (1..n)
      PROVE  /\ T # {} => Max(T) \in 1..n
             /\ g[T] = IF T = {} THEN symbols ELSE WithSymbolState(g[T \ {Max(T)}], w[Max(T)])
  <2>1. CASE T = {}
    BY <1>6, <2>1 DEF FoldsIndices
  <2>2. CASE T # {}
    <3>1. Max(T) \in 1..n /\ g[T \ {Max(T)}] \in SymbolTable
      BY <1>6, <2>2 DEF FoldsIndices
    <3>2. QED
      BY <1>5, <1>6, <2>2, <3>1 DEF FoldsIndices
  <2>3. QED
    BY <2>1, <2>2
<1>8. Equation(g)
  BY <1>1, <1>7, Zenon
<1>9. Equation(F)
  <2> HIDE DEF Equation
  <2>1. QED
    BY <1>8
<1> HIDE DEF F
<1>10. F[{}] = symbols
  BY <1>1, <1>9
<1>11. ASSUME NEW T \in SUBSET (1..n), T # {}, F[T \ {Max(T)}] \in SymbolTable
       PROVE  F[T] = step[<<F[T \ {Max(T)}], Max(T)>>]
  <2>1. F[T] = WithSymbolState(F[T \ {Max(T)}], w[Max(T)])
    BY <1>1, <1>9, <1>11
  <2>2. QED
    BY <1>5, <1>7, <1>11, <2>1
<1>12. PICK f \in [0..n -> SymbolTable] : RecursesTo(f, F[1..n], n, symbols, step)
  <2>1. FoldsWithin(F, SymbolTable, n, symbols, step)
    BY <1>10, <1>11 DEF FoldsWithin
  <2>2. QED
    BY <1>1, <1>4, <2>1, PrefixRecursion
<1>13. ASSUME NEW m \in 1..n PROVE f[m] = WithSymbolState(f[m - 1], w[m])
  <2>1. m - 1 \in 0..n
    BY <1>1
  <2>2. f[m] = step[<<f[m - 1], m>>] /\ f[m - 1] \in SymbolTable
    BY <1>12, <2>1 DEF Recurses, RecursesTo
  <2>3. QED
    BY <1>5, <2>2
<1>14. f[n] = FoldLeft(WithSymbolState, symbols, w)
  BY <1>1, <1>2, <1>12 DEF RecursesTo
<1>15. QED
  BY <1>12, <1>13, <1>14 DEF Recurses, RecursesTo, n

LEMMA SignedType == \A position \in InitialPosition : Signed(position) \in Int
  BY DEF InitialPosition, Signed

\* What its positions leave.
LEMMA PositionsStep ==
  ASSUME NEW symbols \in SymbolTable, NEW w \in Seq(InitialPosition)
  PROVE  \E f \in [0..Len(w) -> SymbolTable] :
           /\ f[0] = symbols
           /\ \A m \in 1..Len(w) : f[m] = WithPosition(f[m - 1], w[m])
           /\ f[Len(w)] = FoldLeft(WithPosition, symbols, w)
<1> DEFINE n == Len(w)
           step == [x \in SymbolTable \X (1..n) |-> WithPosition(x[1], w[x[2]])]
           Equation(g) == g = [T \in SUBSET DOMAIN w |->
             IF T = {} THEN symbols ELSE WithPosition(g[T \ {Max(T)}], w[Max(T)])]
           F == CHOOSE g : Equation(g)
<1>1. n \in Nat /\ DOMAIN w = 1..n /\ \A i \in 1..n : w[i] \in InitialPosition
  OBVIOUS
<1>2. FoldLeft(WithPosition, symbols, w) = F[DOMAIN w]
  BY Zenon DEF FoldLeft, MapThenFoldSet
<1>3. \A x \in SymbolTable, i \in 1..n : WithPosition(x, w[i]) \in SymbolTable
  <2> SUFFICES ASSUME NEW x \in SymbolTable, NEW i \in 1..n
               PROVE  WithPosition(x, w[i]) \in SymbolTable
    OBVIOUS
  <2>1. Signed(w[i]) \in Int /\ w[i].symbol \in Names
    BY <1>1, SignedType DEF InitialPosition
  <2>2. x[w[i].symbol].position + Signed(w[i]) \in Int
    BY <2>1 DEF SymbolTable, SymbolRecord
  <2>3. QED
    BY <2>1, <2>2 DEF WithPosition, SymbolTable, SymbolRecord
<1> HIDE DEF n
<1>4. step \in [SymbolTable \X (1..n) -> SymbolTable]
  BY <1>3
<1>5. ASSUME NEW x \in SymbolTable, NEW i \in 1..n PROVE step[<<x, i>>] = WithPosition(x, w[i])
  OBVIOUS
<1>6. PICK g \in [SUBSET (1..n) -> SymbolTable] : FoldsIndices(g, n, symbols, step)
  <2> HIDE DEF step
  <2>1. QED
    BY <1>1, <1>4, IndicesFold
<1> HIDE DEF step
<1>7. ASSUME NEW T \in SUBSET (1..n)
      PROVE  /\ T # {} => Max(T) \in 1..n
             /\ g[T] = IF T = {} THEN symbols ELSE WithPosition(g[T \ {Max(T)}], w[Max(T)])
  <2>1. CASE T = {}
    BY <1>6, <2>1 DEF FoldsIndices
  <2>2. CASE T # {}
    <3>1. Max(T) \in 1..n /\ g[T \ {Max(T)}] \in SymbolTable
      BY <1>6, <2>2 DEF FoldsIndices
    <3>2. QED
      BY <1>5, <1>6, <2>2, <3>1 DEF FoldsIndices
  <2>3. QED
    BY <2>1, <2>2
<1>8. Equation(g)
  BY <1>1, <1>7, Zenon
<1>9. Equation(F)
  <2> HIDE DEF Equation
  <2>1. QED
    BY <1>8
<1> HIDE DEF F
<1>10. F[{}] = symbols
  BY <1>1, <1>9
<1>11. ASSUME NEW T \in SUBSET (1..n), T # {}, F[T \ {Max(T)}] \in SymbolTable
       PROVE  F[T] = step[<<F[T \ {Max(T)}], Max(T)>>]
  <2>1. F[T] = WithPosition(F[T \ {Max(T)}], w[Max(T)])
    BY <1>1, <1>9, <1>11
  <2>2. QED
    BY <1>5, <1>7, <1>11, <2>1
<1>12. PICK f \in [0..n -> SymbolTable] : RecursesTo(f, F[1..n], n, symbols, step)
  <2>1. FoldsWithin(F, SymbolTable, n, symbols, step)
    BY <1>10, <1>11 DEF FoldsWithin
  <2>2. QED
    BY <1>1, <1>4, <2>1, PrefixRecursion
<1>13. ASSUME NEW m \in 1..n PROVE f[m] = WithPosition(f[m - 1], w[m])
  <2>1. m - 1 \in 0..n
    BY <1>1
  <2>2. f[m] = step[<<f[m - 1], m>>] /\ f[m - 1] \in SymbolTable
    BY <1>12, <2>1 DEF Recurses, RecursesTo
  <2>3. QED
    BY <1>5, <2>2
<1>14. f[n] = FoldLeft(WithPosition, symbols, w)
  BY <1>1, <1>2, <1>12 DEF RecursesTo
<1>15. QED
  BY <1>12, <1>13, <1>14 DEF Recurses, RecursesTo, n

\* The last symbol state of a symbol gives its record; without one it keeps its own.
LEMMA SymbolStatesEffect ==
  ASSUME NEW symbols \in SymbolTable, NEW w \in Seq(SymbolInitState), NEW k \in Names
  PROVE  /\ FoldLeft(WithSymbolState, symbols, w) \in SymbolTable
         /\ (\A i \in DOMAIN w : w[i].symbol # k)
              => FoldLeft(WithSymbolState, symbols, w)[k] = symbols[k]
         /\ \A j \in DOMAIN w :
              w[j].symbol = k /\ (\A i \in DOMAIN w : i > j => w[i].symbol # k)
                => FoldLeft(WithSymbolState, symbols, w)[k] = RecordOf(w[j])
<1>1. PICK f \in [0..Len(w) -> SymbolTable] :
        /\ f[0] = symbols
        /\ \A m \in 1..Len(w) : f[m] = WithSymbolState(f[m - 1], w[m])
        /\ f[Len(w)] = FoldLeft(WithSymbolState, symbols, w)
  BY SymbolStatesStep
<1>2. Len(w) \in Nat /\ DOMAIN w = 1..Len(w)
  OBVIOUS
<1>3. ASSUME NEW m \in 1..Len(w)
      PROVE  f[m][k] = IF w[m].symbol = k THEN RecordOf(w[m]) ELSE f[m - 1][k]
  <2>1. f[m] = WithSymbolState(f[m - 1], w[m]) /\ f[m - 1] \in SymbolTable
    BY <1>1, <1>2
  <2>2. QED
    BY <2>1 DEF WithSymbolState, SymbolTable, RecordOf
<1> DEFINE Kept(m) == (\A i \in 1..m : w[i].symbol # k) => f[m][k] = symbols[k]
           Covered(m) == \A j \in 1..m :
             w[j].symbol = k /\ (\A i \in 1..m : i > j => w[i].symbol # k)
               => f[m][k] = RecordOf(w[j])
           S == {m \in Nat : m <= Len(w) => Kept(m) /\ Covered(m)}
<1>4. 0 \in S
  BY <1>1
<1>5. ASSUME NEW m \in Nat, m \in S PROVE m + 1 \in S
  <2>1. CASE ~(m + 1 <= Len(w))
    BY <2>1
  <2>2. CASE m + 1 <= Len(w)
    <3>1. m + 1 \in 1..Len(w) /\ (m + 1) - 1 = m /\ Kept(m) /\ Covered(m)
      BY <1>2, <1>5, <2>2
    <3>2. f[m + 1][k] = IF w[m + 1].symbol = k THEN RecordOf(w[m + 1]) ELSE f[m][k]
      BY <1>3, <3>1
    <3>3. 1..m \subseteq 1..(m + 1) /\ m + 1 \in 1..(m + 1)
          /\ \A j \in 1..(m + 1) : j = m + 1 \/ (j \in 1..m /\ m + 1 > j)
      OBVIOUS
    <3>4. Kept(m + 1)
      BY <3>1, <3>2, <3>3
    <3>5. Covered(m + 1)
      <4> SUFFICES ASSUME NEW j \in 1..(m + 1), w[j].symbol = k,
                          \A i \in 1..(m + 1) : i > j => w[i].symbol # k
                   PROVE  f[m + 1][k] = RecordOf(w[j])
        OBVIOUS
      <4>1. CASE j = m + 1
        BY <3>2, <4>1
      <4>2. CASE j # m + 1
        <5>1. j \in 1..m /\ w[m + 1].symbol # k
          BY <3>3, <4>2
        <5>2. QED
          BY <3>1, <3>2, <3>3, <5>1
      <4>3. QED
        BY <4>1, <4>2
    <3> HIDE DEF Kept, Covered
    <3>6. QED
      BY <3>4, <3>5
  <2>3. QED
    BY <2>1, <2>2
<1> HIDE DEF S
<1>6. Len(w) \in S
  BY <1>2, <1>4, <1>5, SetInduction
<1>7. Kept(Len(w)) /\ Covered(Len(w))
  BY <1>2, <1>6 DEF S
<1>8. QED
  BY <1>1, <1>2, <1>7

\* What the positions add to a symbol, one by one.
AddsOf(w, k) == [j \in DOMAIN w |-> IF w[j].symbol = k THEN Signed(w[j]) ELSE 0]

LEMMA AddsOfType ==
  ASSUME NEW w \in Seq(InitialPosition), NEW k
  PROVE  AddsOf(w, k) \in Seq(Int) /\ Len(AddsOf(w, k)) = Len(w)
<1>1. Len(w) \in Nat /\ DOMAIN w = 1..Len(w) /\ \A i \in 1..Len(w) : w[i] \in InitialPosition
  OBVIOUS
<1>2. AddsOf(w, k) = [j \in 1..Len(w) |-> IF w[j].symbol = k THEN Signed(w[j]) ELSE 0]
  BY <1>1 DEF AddsOf
<1>3. \A i \in 1..Len(w) : AddsOf(w, k)[i] \in Int
  BY <1>1, <1>2, SignedType
<1>4. QED
  BY <1>1, <1>2, <1>3, IndexedSeq

\* The positions of a symbol are added to its record, which exists from then on.
LEMMA PositionsEffect ==
  ASSUME NEW symbols \in SymbolTable, NEW w \in Seq(InitialPosition), NEW k \in Names
  PROVE  /\ FoldLeft(WithPosition, symbols, w) \in SymbolTable
         /\ FoldLeft(WithPosition, symbols, w)[k] =
              [exists |-> symbols[k].exists \/ \E i \in DOMAIN w : w[i].symbol = k,
               position |-> symbols[k].position + SumOf(AddsOf(w, k)),
               trades |-> symbols[k].trades,
               restriction |-> symbols[k].restriction]
<1>1. PICK f \in [0..Len(w) -> SymbolTable] :
        /\ f[0] = symbols
        /\ \A m \in 1..Len(w) : f[m] = WithPosition(f[m - 1], w[m])
        /\ f[Len(w)] = FoldLeft(WithPosition, symbols, w)
  BY PositionsStep
<1>2. Len(w) \in Nat /\ DOMAIN w = 1..Len(w) /\ \A i \in 1..Len(w) : w[i] \in InitialPosition
  OBVIOUS
<1> DEFINE sum == RunningSum(AddsOf(w, k))
<1>3. /\ \A m \in 0..Len(w) : sum[m] \in Int
      /\ sum[0] = 0
      /\ \A m \in 1..Len(w) : sum[m] = sum[m - 1] + AddsOf(w, k)[m]
      /\ SumOf(AddsOf(w, k)) = sum[Len(w)]
  BY AddsOfType, RunningSumDef DEF SumOf
<1> HIDE DEF sum
<1>4. \A m \in 0..Len(w) : f[m][k] \in SymbolRecord
  BY <1>1 DEF SymbolTable
<1>5. ASSUME NEW m \in 1..Len(w)
      PROVE  /\ f[m][k].exists = (f[m - 1][k].exists \/ w[m].symbol = k)
             /\ f[m][k].position = f[m - 1][k].position + AddsOf(w, k)[m]
             /\ f[m][k].trades = f[m - 1][k].trades
             /\ f[m][k].restriction = f[m - 1][k].restriction
  <2>1. f[m] = WithPosition(f[m - 1], w[m]) /\ f[m - 1] \in SymbolTable
    BY <1>1, <1>2
  <2>2. AddsOf(w, k)[m] = IF w[m].symbol = k THEN Signed(w[m]) ELSE 0
    BY <1>2 DEF AddsOf
  <2>3. f[m - 1][k] \in SymbolRecord /\ DOMAIN f[m - 1] = Names
    BY <2>1 DEF SymbolTable
  <2>4. CASE w[m].symbol = k
    <3>1. f[m][k] = [f[m - 1][k] EXCEPT !.exists = TRUE, !.position = @ + Signed(w[m])]
      BY <2>1, <2>3, <2>4 DEF WithPosition, SymbolTable, SymbolRecord
    <3>2. QED
      BY <2>2, <2>3, <2>4, <3>1 DEF SymbolRecord
  <2>5. CASE w[m].symbol # k
    <3>1. f[m][k] = f[m - 1][k]
      BY <2>1, <2>3, <2>5 DEF WithPosition, SymbolTable
    <3>2. QED
      BY <2>2, <2>3, <2>5, <3>1 DEF SymbolRecord
  <2>6. QED
    BY <2>4, <2>5
<1> DEFINE Holds(m) == /\ f[m][k].exists = (symbols[k].exists \/ \E i \in 1..m : w[i].symbol = k)
                       /\ f[m][k].position = symbols[k].position + sum[m]
                       /\ f[m][k].trades = symbols[k].trades
                       /\ f[m][k].restriction = symbols[k].restriction
           S == {m \in Nat : m <= Len(w) => Holds(m)}
<1>6. 0 \in S
  <2>1. symbols[k] \in SymbolRecord
    BY DEF SymbolTable
  <2>2. QED
    BY <1>1, <1>3, <2>1 DEF SymbolRecord
<1>7. ASSUME NEW m \in Nat, m \in S PROVE m + 1 \in S
  <2>1. CASE ~(m + 1 <= Len(w))
    BY <2>1
  <2>2. CASE m + 1 <= Len(w)
    <3>1. m + 1 \in 1..Len(w) /\ m \in 0..Len(w) /\ (m + 1) - 1 = m /\ Holds(m)
      BY <1>2, <1>7, <2>2
    <3>2. /\ f[m + 1][k].exists = (f[m][k].exists \/ w[m + 1].symbol = k)
          /\ f[m + 1][k].position = f[m][k].position + AddsOf(w, k)[m + 1]
          /\ f[m + 1][k].trades = f[m][k].trades
          /\ f[m + 1][k].restriction = f[m][k].restriction
      BY <1>5, <3>1
    <3>3. sum[m + 1] = sum[m] + AddsOf(w, k)[m + 1] /\ sum[m] \in Int
      BY <1>3, <3>1
    <3>4. symbols[k].position \in Int /\ AddsOf(w, k)[m + 1] \in Int
      BY <3>1, AddsOfType DEF SymbolTable, SymbolRecord
    <3>5. f[m + 1][k].position = symbols[k].position + sum[m + 1]
      BY <3>1, <3>2, <3>3, <3>4
    <3>6. f[m + 1][k].exists = (symbols[k].exists \/ \E i \in 1..(m + 1) : w[i].symbol = k)
      <4>1. \A i : i \in 1..(m + 1) <=> i \in 1..m \/ i = m + 1
        OBVIOUS
      <4>2. (\E i \in 1..(m + 1) : w[i].symbol = k)
              <=> (\E i \in 1..m : w[i].symbol = k) \/ w[m + 1].symbol = k
        BY <4>1
      <4>3. QED
        BY <3>1, <3>2, <4>2
    <3>7. Holds(m + 1)
      BY <3>1, <3>2, <3>5, <3>6
    <3> HIDE DEF Holds
    <3>8. QED
      BY <3>7
  <2>3. QED
    BY <2>1, <2>2
<1> HIDE DEF S
<1>8. Len(w) \in S
  BY <1>2, <1>6, <1>7, SetInduction
<1>9. Holds(Len(w))
  BY <1>2, <1>8 DEF S
<1>10. f[Len(w)] \in SymbolTable /\ f[Len(w)][k] \in SymbolRecord
  BY <1>2, <1>4
<1>11. f[Len(w)][k] =
         [exists |-> symbols[k].exists \/ \E i \in DOMAIN w : w[i].symbol = k,
          position |-> symbols[k].position + SumOf(AddsOf(w, k)),
          trades |-> symbols[k].trades,
          restriction |-> symbols[k].restriction]
  BY <1>2, <1>3, <1>9, <1>10 DEF SymbolRecord
<1>12. QED
  BY <1>1, <1>10, <1>11

-----------------------------------------------------------------------------
(* The requests                                                            *)

LEMMA RequestFacts ==
  ASSUME NEW s \in InitSignals
  PROVE  /\ Written(s) \in Seq(SymbolInitState)
         /\ RequestOf[s].positions \in Seq(InitialPosition)
         /\ RequestOf[s].history \subseteq HistoricalData
         /\ Fails(s) \in BOOLEAN
<1> DEFINE w == RequestOf[s].symbolStates
           I == {i \in 1..Len(w) : IsInvalid(w[i])}
<1>1. /\ w \in Seq(SymbolInitState)
      /\ RequestOf[s].positions \in Seq(InitialPosition)
      /\ RequestOf[s].history \subseteq HistoricalData
  BY RequestAssumption
<1>2. FirstInvalid(s) = IF I # {} THEN Min(I) ELSE 0
  BY DEF FirstInvalid, SelectInSeq
<1>3. ASSUME I # {} PROVE Min(I) \in 1..Len(w)
  <2>1. I \subseteq Nat
    OBVIOUS
  <2>2. PICK i \in I : \A j \in I : i <= j
    BY <1>3, <2>1, Smallest
  <2>3. Min(I) \in I
    BY <2>2 DEF Min
  <2>4. QED
    BY <2>3
<1>4. CASE FirstInvalid(s) = 0
  BY <1>1, <1>4 DEF Written, Fails
<1>5. CASE FirstInvalid(s) # 0
  <2>1. FirstInvalid(s) \in 1..Len(w)
    BY <1>2, <1>3, <1>5
  <2> HIDE DEF w
  <2>2. SubSeq(w, 1, FirstInvalid(s) - 1) \in Seq(SymbolInitState)
    BY <1>1, <2>1
  <2>3. Written(s) = SubSeq(w, 1, FirstInvalid(s) - 1)
    BY <1>5 DEF Written, w
  <2>4. QED
    BY <1>1, <2>2, <2>3 DEF Fails
<1>6. QED
  BY <1>4, <1>5

CoversSymbol(s, k) == \E e \in ToSet(Written(s)) : e.symbol = k

LEMMA TableAfter ==
  ASSUME NEW s \in InitSignals, symbolStates \in SymbolTable
  PROVE  SymbolsAfter(s) \in SymbolTable
<1> DEFINE w == Written(s)
           table == FoldLeft(WithSymbolState, symbolStates, w)
           positions == RequestOf[s].positions
<1>1. w \in Seq(SymbolInitState) /\ positions \in Seq(InitialPosition)
  BY RequestFacts
<1> HIDE DEF w, positions
<1>2. table \in SymbolTable
  <2>1. PICK f \in [0..Len(w) -> SymbolTable] :
          /\ f[0] = symbolStates
          /\ \A m \in 1..Len(w) : f[m] = WithSymbolState(f[m - 1], w[m])
          /\ f[Len(w)] = table
    BY <1>1, SymbolStatesStep
  <2>2. Len(w) \in 0..Len(w)
    BY <1>1
  <2> HIDE DEF table
  <2>3. QED
    BY <2>1, <2>2
<1> HIDE DEF table
<1>3. FoldLeft(WithPosition, table, positions) \in SymbolTable
  <2>1. PICK f \in [0..Len(positions) -> SymbolTable] :
          /\ f[0] = table
          /\ \A m \in 1..Len(positions) : f[m] = WithPosition(f[m - 1], positions[m])
          /\ f[Len(positions)] = FoldLeft(WithPosition, table, positions)
    BY <1>1, <1>2, PositionsStep
  <2>2. Len(positions) \in 0..Len(positions)
    BY <1>1
  <2>3. QED
    BY <2>1, <2>2
<1>4. SymbolsAfter(s) = IF Fails(s) THEN table ELSE FoldLeft(WithPosition, table, positions)
  BY DEF SymbolsAfter, table, w, positions
<1>5. QED
  BY <1>2, <1>3, <1>4

\* What the symbol states of an init make of a symbol's record, and what the init does.
CoveredRecord(record, s, k) == IF CoversSymbol(s, k) THEN RecordOf(CoverOf(s, k)) ELSE record
Uses(s, k) == \E p \in ToSet(RequestOf[s].positions) : p.symbol = k
Recorded(record, s, k) ==
  [exists |-> record.exists \/ (~Fails(s) /\ Uses(s, k)),
   position |-> record.position + IF Fails(s) THEN 0 ELSE Added(s, k),
   trades |-> record.trades,
   restriction |-> record.restriction]

\* The record of a symbol after an init, from the one before it.
LEMMA SymbolsAfterEffect ==
  ASSUME NEW s \in InitSignals, NEW k \in Names, symbolStates \in SymbolTable
  PROVE  /\ SymbolsAfter(s) \in SymbolTable
         /\ SymbolsAfter(s)[k] = Recorded(CoveredRecord(symbolStates[k], s, k), s, k)
<1> DEFINE w == Written(s)
           positions == RequestOf[s].positions
           covered == CoveredRecord(symbolStates[k], s, k)
           table == FoldLeft(WithSymbolState, symbolStates, w)
<1>1. w \in Seq(SymbolInitState) /\ positions \in Seq(InitialPosition) /\ Fails(s) \in BOOLEAN
  BY RequestFacts
<1>2. DOMAIN w = 1..Len(w) /\ Len(w) \in Nat
  BY <1>1
<1> HIDE DEF w, positions, covered
<1>3. table \in SymbolTable /\ table[k] = covered
  <2>1. CASE CoversSymbol(s, k)
    <3> DEFINE I == {i \in DOMAIN w : w[i].symbol = k}
    <3>1. PICK i \in DOMAIN w : w[i].symbol = k
      BY <2>1 DEF CoversSymbol, ToSet, w
    <3>2. I \subseteq Int /\ I # {} /\ Len(w) \in Int /\ \A x \in I : x <= Len(w)
      BY <1>2, <3>1
    <3>3. Max(I) \in I /\ Max(I) \in Int /\ \A x \in I : x <= Max(I)
      BY <3>2, MaxFacts
    <3>4. \A x \in DOMAIN w : x > Max(I) => w[x].symbol # k
      <4> SUFFICES ASSUME NEW x \in DOMAIN w, w[x].symbol = k PROVE ~(x > Max(I))
        OBVIOUS
      <4>1. x \in I /\ x \in Int
        BY <1>2
      <4> HIDE DEF I
      <4>2. QED
        BY <3>3, <4>1
    <3>5. Max(I) \in DOMAIN w /\ w[Max(I)].symbol = k
      BY <3>3
    <3>6. covered = RecordOf(w[Max(I)])
      BY <2>1 DEF covered, CoveredRecord, CoverOf, w
    <3> HIDE DEF I
    <3>7. QED
      BY <1>1, <3>4, <3>5, <3>6, SymbolStatesEffect
  <2>2. CASE ~CoversSymbol(s, k)
    <3>1. \A i \in DOMAIN w : w[i].symbol # k
      BY <2>2 DEF CoversSymbol, ToSet, w
    <3>2. QED
      BY <1>1, <2>2, <3>1, SymbolStatesEffect DEF covered, CoveredRecord
  <2>3. QED
    BY <2>1, <2>2
<1> HIDE DEF table
<1>4. CASE Fails(s)
  <2>1. SymbolsAfter(s) = table
    BY <1>4 DEF SymbolsAfter, table, w
  <2>2. covered \in SymbolRecord
    BY <1>3 DEF SymbolTable
  <2>3. covered = [exists |-> covered.exists, position |-> covered.position + 0,
                   trades |-> covered.trades, restriction |-> covered.restriction]
    BY <2>2 DEF SymbolRecord
  <2>4. Recorded(covered, s, k) = [exists |-> covered.exists, position |-> covered.position + 0,
                                   trades |-> covered.trades, restriction |-> covered.restriction]
    <3>1. (covered.exists \/ (~Fails(s) /\ Uses(s, k))) = covered.exists
      BY <1>4, <2>2 DEF SymbolRecord
    <3>2. QED
      BY <1>4, <3>1 DEF Recorded
  <2>5. QED
    BY <1>3, <2>1, <2>3, <2>4 DEF covered
<1>5. CASE ~Fails(s)
  <2>1. SymbolsAfter(s) = FoldLeft(WithPosition, table, positions)
    BY <1>5 DEF SymbolsAfter, table, w, positions
  <2>2. Added(s, k) = SumOf(AddsOf(positions, k))
    BY DEF Added, AddsOf, positions
  <2>3. (\E i \in DOMAIN positions : positions[i].symbol = k)
          <=> Uses(s, k)
    BY DEF ToSet, Uses, positions
  <2>4. /\ SymbolsAfter(s) \in SymbolTable
        /\ SymbolsAfter(s)[k] =
             [exists |-> covered.exists \/ \E i \in DOMAIN positions : positions[i].symbol = k,
              position |-> covered.position + SumOf(AddsOf(positions, k)),
              trades |-> covered.trades,
              restriction |-> covered.restriction]
    BY <1>1, <1>3, <2>1, PositionsEffect
  <2> DEFINE has == \E i \in DOMAIN positions : positions[i].symbol = k
  <2>5. (covered.exists \/ has) = (covered.exists \/ (~Fails(s) /\ Uses(s, k)))
    BY <1>5, <2>3
  <2>6. SymbolsAfter(s)[k] =
          [exists |-> covered.exists \/ has, position |-> covered.position + SumOf(AddsOf(positions, k)),
           trades |-> covered.trades, restriction |-> covered.restriction]
    BY <2>4
  <2> HIDE DEF has
  <2>7. SymbolsAfter(s)[k] = Recorded(covered, s, k)
    BY <1>5, <2>2, <2>5, <2>6 DEF Recorded
  <2>8. QED
    BY <2>4, <2>7 DEF covered
<1>6. QED
  BY <1>1, <1>4, <1>5

-----------------------------------------------------------------------------
(* The history of the inits                                                *)

\* The greatest of some indices, 0 when there are none.
LEMMA LastIndexFacts ==
  ASSUME NEW n \in Nat, NEW I \in SUBSET (1..n)
  PROVE  /\ Max({0} \cup I) \in 0..n
         /\ Max({0} \cup I) = 0 <=> I = {}
         /\ Max({0} \cup I) # 0 => Max({0} \cup I) \in I
         /\ \A i \in I : i <= Max({0} \cup I)
<1> DEFINE J == {0} \cup I
<1>1. J \subseteq Int /\ J # {} /\ n \in Int /\ \A x \in J : x <= n
  OBVIOUS
<1>2. Max(J) \in J /\ Max(J) \in Int /\ \A x \in J : x <= Max(J)
  <2> HIDE DEF J
  <2>1. QED
    BY <1>1, MaxFacts
<1>3. QED
  BY <1>2

LEMMA LastIndexGrows ==
  ASSUME NEW n \in Nat, NEW I \in SUBSET (1..n)
  PROVE  Max({0} \cup I \cup {n + 1}) = n + 1
<1> DEFINE I2 == I \cup {n + 1}
<1>1. n + 1 \in Nat /\ I2 \in SUBSET (1..(n + 1)) /\ n + 1 \in I2
  OBVIOUS
<1>2. Max({0} \cup I2) \in 0..(n + 1) /\ n + 1 <= Max({0} \cup I2)
  <2> HIDE DEF I2
  <2>1. QED
    BY <1>1, LastIndexFacts
<1>3. {0} \cup I \cup {n + 1} = {0} \cup I2
  OBVIOUS
<1>4. QED
  BY <1>2, <1>3

LEMMA AppendFacts ==
  ASSUME NEW X, NEW h \in Seq(X), NEW s \in X
  PROVE  /\ Append(h, s) \in Seq(X) /\ Len(Append(h, s)) = Len(h) + 1 /\ Len(h) \in Nat
         /\ DOMAIN h = 1..Len(h) /\ DOMAIN Append(h, s) = 1..(Len(h) + 1)
         /\ \A i \in 1..Len(h) : Append(h, s)[i] = h[i] /\ h[i] \in X
         /\ Append(h, s)[Len(h) + 1] = s
  OBVIOUS

LEMMA LastCoverOfAppend ==
  ASSUME NEW h \in Seq(InitSignals), NEW s \in InitSignals, NEW k
  PROVE  /\ LastCover(h, k) \in 0..Len(h)
         /\ LastCover(Append(h, s), k) =
              IF CoversSymbol(s, k) THEN Len(h) + 1 ELSE LastCover(h, k)
<1> DEFINE n == Len(h)
           h2 == Append(h, s)
           I == {i \in DOMAIN h : \E e \in ToSet(Written(h[i])) : e.symbol = k}
           I2 == {i \in DOMAIN h2 : \E e \in ToSet(Written(h2[i])) : e.symbol = k}
<1>1. n \in Nat /\ DOMAIN h = 1..n /\ DOMAIN h2 = 1..(n + 1)
      /\ (\A i \in 1..n : h2[i] = h[i]) /\ h2[n + 1] = s
  BY AppendFacts
<1> HIDE DEF n, h2
<1>2. I \in SUBSET (1..n) /\ I2 = IF CoversSymbol(s, k) THEN I \cup {n + 1} ELSE I
  <2>1. \A i \in 1..n : i \in I2 <=> i \in I
    BY <1>1
  <2>2. n + 1 \in I2 <=> CoversSymbol(s, k)
    BY <1>1 DEF CoversSymbol
  <2>3. \A i \in 1..(n + 1) : i \in 1..n \/ i = n + 1
    BY <1>1
  <2>4. I \subseteq 1..n /\ I2 \subseteq 1..(n + 1)
    BY <1>1
  <2> HIDE DEF I, I2
  <2>5. CASE CoversSymbol(s, k)
    <3>1. \A i : i \in I2 <=> i \in I \cup {n + 1}
      BY <1>1, <2>1, <2>2, <2>3, <2>4, <2>5
    <3>2. QED
      BY <2>4, <2>5, <3>1
  <2>6. CASE ~CoversSymbol(s, k)
    <3>1. \A i : i \in I2 <=> i \in I
      BY <1>1, <2>1, <2>2, <2>3, <2>4, <2>6
    <3>2. QED
      BY <2>4, <2>6, <3>1
  <2>7. QED
    BY <2>5, <2>6
<1>3. LastCover(h, k) = Max({0} \cup I) /\ LastCover(h2, k) = Max({0} \cup I2)
  BY DEF LastCover
<1> HIDE DEF I, I2
<1>4. LastCover(h, k) \in 0..n
  BY <1>1, <1>2, <1>3, LastIndexFacts
<1>5. CASE CoversSymbol(s, k)
  <2>1. {0} \cup I2 = {0} \cup I \cup {n + 1}
    BY <1>2, <1>5
  <2>2. QED
    BY <1>1, <1>2, <1>3, <1>4, <1>5, <2>1, LastIndexGrows DEF n, h2
<1>6. CASE ~CoversSymbol(s, k)
  BY <1>2, <1>3, <1>4, <1>6 DEF n, h2
<1>7. QED
  BY <1>5, <1>6

LEMMA CoverOfType ==
  ASSUME NEW s \in InitSignals, NEW k, CoversSymbol(s, k)
  PROVE  CoverOf(s, k) \in SymbolInitState
<1> DEFINE w == Written(s)
           I == {i \in DOMAIN w : w[i].symbol = k}
<1>1. w \in Seq(SymbolInitState)
  BY RequestFacts
<1>2. Len(w) \in Nat /\ DOMAIN w = 1..Len(w) /\ \A i \in DOMAIN w : w[i] \in SymbolInitState
  BY <1>1
<1>3. PICK i \in DOMAIN w : w[i].symbol = k
  BY DEF CoversSymbol, ToSet
<1> HIDE DEF w
<1>4. I \subseteq Int /\ I # {} /\ Len(w) \in Int /\ \A x \in I : x <= Len(w)
  BY <1>2, <1>3
<1>5. Max(I) \in I
  <2> HIDE DEF I
  <2>1. QED
    BY <1>4, MaxFacts
<1>6. CoverOf(s, k) = w[Max(I)]
  BY DEF CoverOf, w
<1>7. QED
  BY <1>2, <1>5, <1>6

LEMMA AddedType == \A s \in InitSignals : \A k : Added(s, k) \in Int
<1> SUFFICES ASSUME NEW s \in InitSignals, NEW k PROVE Added(s, k) \in Int
  OBVIOUS
<1>1. AddsOf(RequestOf[s].positions, k) \in Seq(Int)
  BY RequestFacts, AddsOfType
<1>2. Added(s, k) = SumOf(AddsOf(RequestOf[s].positions, k))
  BY DEF Added, AddsOf
<1>3. QED
  BY <1>1, <1>2, SumType

\* What each init adds to a symbol after its last cover.
AddedBy(h, k) == [i \in DOMAIN h |-> IF Adds(h, k, i) THEN Added(h[i], k) ELSE 0]
CoverRecord(h, k) ==
  IF LastCover(h, k) = 0 THEN NoSymbol ELSE RecordOf(CoverOf(h[LastCover(h, k)], k))

LEMMA AddedByType ==
  ASSUME NEW h \in Seq(InitSignals), NEW k
  PROVE  AddedBy(h, k) \in Seq(Int) /\ Len(AddedBy(h, k)) = Len(h)
<1>1. Len(h) \in Nat /\ DOMAIN h = 1..Len(h) /\ \A i \in 1..Len(h) : h[i] \in InitSignals
  OBVIOUS
<1>2. AddedBy(h, k) = [i \in 1..Len(h) |-> IF Adds(h, k, i) THEN Added(h[i], k) ELSE 0]
  BY <1>1 DEF AddedBy
<1>3. \A i \in 1..Len(h) : AddedBy(h, k)[i] \in Int
  BY <1>1, <1>2, AddedType
<1>4. QED
  BY <1>1, <1>2, <1>3, IndexedSeq

LEMMA CoverRecordType ==
  ASSUME NEW h \in Seq(InitSignals), NEW k
  PROVE  CoverRecord(h, k) \in SymbolRecord
<1> DEFINE last == LastCover(h, k)
           I == {i \in DOMAIN h : \E e \in ToSet(Written(h[i])) : e.symbol = k}
<1>1. CASE last = 0
  BY <1>1 DEF CoverRecord, NoSymbol, SymbolRecord, Restrictions
<1>2. CASE last # 0
  <2>1. Len(h) \in Nat /\ I \in SUBSET (1..Len(h)) /\ last = Max({0} \cup I)
    BY DEF LastCover
  <2>2. last \in I
    <3> HIDE DEF I, last
    <3>1. QED
      BY <1>2, <2>1, LastIndexFacts
  <2>3. h[last] \in InitSignals /\ CoversSymbol(h[last], k)
    BY <2>2 DEF CoversSymbol
  <2> HIDE DEF last
  <2>4. CoverOf(h[last], k) \in SymbolInitState
    BY <2>3, CoverOfType
  <2>5. QED
    BY <1>2, <2>4 DEF CoverRecord, last, RecordOf, SymbolInitState, SymbolRecord
<1>3. QED
  BY <1>1, <1>2

\* The record expected is the one of the last cover with the adds since.
LEMMA ExpectedIs ==
  ASSUME NEW h \in Seq(InitSignals), NEW k
  PROVE  Expected(h, k) =
           [exists |->
              \/ CoverRecord(h, k).exists
              \/ \E i \in DOMAIN h : /\ Adds(h, k, i)
                                    /\ \E p \in ToSet(RequestOf[h[i]].positions) : p.symbol = k,
            position |-> SumOf(AddedBy(h, k)) + CoverRecord(h, k).position,
            trades |-> CoverRecord(h, k).trades,
            restriction |-> CoverRecord(h, k).restriction]
<1> DEFINE last == LastCover(h, k)
<1>1. /\ CoverRecord(h, k).exists = (last # 0)
      /\ CoverRecord(h, k).position = IF last = 0 THEN 0 ELSE CoverOf(h[last], k).position
      /\ CoverRecord(h, k).trades = IF last = 0 THEN 0 ELSE CoverOf(h[last], k).trades
      /\ CoverRecord(h, k).restriction = IF last = 0 THEN "None" ELSE CoverOf(h[last], k).restriction
  BY DEF CoverRecord, NoSymbol, RecordOf
<1>2. QED
  BY <1>1, Zenon DEF Expected, AddedBy

\* One init more: its cover, when it has one, or what was expected, and its adds.
LEMMA ExpectedOfAppend ==
  ASSUME NEW h \in Seq(InitSignals), NEW s \in InitSignals, NEW k
  PROVE  Expected(Append(h, s), k) = Recorded(CoveredRecord(Expected(h, k), s, k), s, k)
<1> DEFINE n == Len(h)
           h2 == Append(h, s)
           x == IF Fails(s) THEN 0 ELSE Added(s, k)
<1>1. /\ h2 \in Seq(InitSignals) /\ n \in Nat /\ DOMAIN h = 1..n /\ DOMAIN h2 = 1..(n + 1)
      /\ Len(h2) = n + 1 /\ (\A i \in 1..n : h2[i] = h[i]) /\ h2[n + 1] = s
  BY AppendFacts
<1>2. LastCover(h, k) \in 0..n /\ Fails(s) \in BOOLEAN
      /\ LastCover(h2, k) = IF CoversSymbol(s, k) THEN n + 1 ELSE LastCover(h, k)
  BY LastCoverOfAppend, RequestFacts
<1>3. x \in Int
  BY AddedType
<1> HIDE DEF n, h2, x
<1>4. Adds(h2, k, n + 1) <=> ~Fails(s)
  BY <1>1, <1>2 DEF Adds
<1>5. AddedBy(h2, k)[n + 1] = x
  BY <1>1, <1>4 DEF AddedBy, x
<1>6. AddedBy(h2, k) \in Seq(Int) /\ Len(AddedBy(h2, k)) = n + 1
  BY <1>1, AddedByType
<1>7. AddedBy(h, k) \in Seq(Int) /\ Len(AddedBy(h, k)) = n
  BY AddedByType DEF n
<1>8. CASE CoversSymbol(s, k)
  <2>1. \A i \in 1..n : ~Adds(h2, k, i)
    BY <1>1, <1>2, <1>8 DEF Adds
  <2>2. CoverRecord(h2, k) = RecordOf(CoverOf(s, k))
    BY <1>1, <1>2, <1>8 DEF CoverRecord
  <2>3. \A i \in 1..n : AddedBy(h2, k)[i] = 0
    BY <1>1, <2>1 DEF AddedBy
  <2>4. SumOf(AddedBy(h2, k)) = x
    BY <1>1, <1>3, <1>5, <1>6, <2>3, SumOfOneMore
  <2>5. RecordOf(CoverOf(s, k)) \in SymbolRecord /\ RecordOf(CoverOf(s, k)).exists
    BY <1>1, <2>2, CoverRecordType DEF RecordOf
  <2>6. x + RecordOf(CoverOf(s, k)).position = RecordOf(CoverOf(s, k)).position + x
    BY <1>3, <2>5 DEF SymbolRecord
  <2>7. Expected(h2, k) =
          [exists |-> RecordOf(CoverOf(s, k)).exists \/ \E i \in DOMAIN h2 : Adds(h2, k, i) /\ Uses(h2[i], k),
           position |-> RecordOf(CoverOf(s, k)).position + x,
           trades |-> RecordOf(CoverOf(s, k)).trades,
           restriction |-> RecordOf(CoverOf(s, k)).restriction]
    <3>1. Expected(h2, k) =
            [exists |-> CoverRecord(h2, k).exists \/ \E i \in DOMAIN h2 : Adds(h2, k, i) /\ Uses(h2[i], k),
             position |-> SumOf(AddedBy(h2, k)) + CoverRecord(h2, k).position,
             trades |-> CoverRecord(h2, k).trades,
             restriction |-> CoverRecord(h2, k).restriction]
      BY <1>1, ExpectedIs DEF Uses
    <3>2. QED
      BY <2>2, <2>4, <2>6, <3>1
  <2> DEFINE new == RecordOf(CoverOf(s, k))
             now == \E i \in DOMAIN h2 : Adds(h2, k, i) /\ Uses(h2[i], k)
  <2>8. (new.exists \/ now) = (new.exists \/ (~Fails(s) /\ Uses(s, k)))
    <3> HIDE DEF now
    <3>1. QED
      BY <2>5
  <2>9. Expected(h2, k) = [exists |-> new.exists \/ now, position |-> new.position + x,
                          trades |-> new.trades, restriction |-> new.restriction]
    BY <2>7
  <2> HIDE DEF new, now
  <2>10. Expected(h2, k) = Recorded(new, s, k)
    BY <2>8, <2>9 DEF Recorded, x
  <2>11. QED
    BY <1>8, <2>10 DEF CoveredRecord, h2, new
<1>9. CASE ~CoversSymbol(s, k)
  <2>1. CoverRecord(h2, k) = CoverRecord(h, k)
    <3>1. LastCover(h2, k) = LastCover(h, k)
      BY <1>2, <1>9
    <3>2. LastCover(h, k) # 0 => h2[LastCover(h, k)] = h[LastCover(h, k)]
      BY <1>1, <1>2
    <3>3. QED
      BY <3>1, <3>2 DEF CoverRecord
  <2>2. \A i \in 1..n : Adds(h2, k, i) <=> Adds(h, k, i)
    BY <1>1, <1>2, <1>9 DEF Adds
  <2>3. \A i \in 1..n : AddedBy(h2, k)[i] = AddedBy(h, k)[i]
    BY <1>1, <2>2 DEF AddedBy
  <2>4. SumOf(AddedBy(h2, k)) = SumOf(AddedBy(h, k)) + x
    BY <1>1, <1>3, <1>5, <1>6, <1>7, <2>3, SumOfExtended
  <2>5. CoverRecord(h, k) \in SymbolRecord /\ SumOf(AddedBy(h, k)) \in Int
    BY <1>7, CoverRecordType, SumType
  <2>6. Expected(h, k) =
          [exists |-> CoverRecord(h, k).exists \/ \E i \in DOMAIN h : Adds(h, k, i) /\ Uses(h[i], k),
           position |-> SumOf(AddedBy(h, k)) + CoverRecord(h, k).position,
           trades |-> CoverRecord(h, k).trades,
           restriction |-> CoverRecord(h, k).restriction]
    BY ExpectedIs DEF Uses
  <2>7. Expected(h2, k) =
          [exists |-> CoverRecord(h2, k).exists \/ \E i \in DOMAIN h2 : Adds(h2, k, i) /\ Uses(h2[i], k),
           position |-> SumOf(AddedBy(h2, k)) + CoverRecord(h2, k).position,
           trades |-> CoverRecord(h2, k).trades,
           restriction |-> CoverRecord(h2, k).restriction]
    BY <1>1, ExpectedIs DEF Uses
  <2>8. (\E i \in DOMAIN h2 : Adds(h2, k, i) /\ Uses(h2[i], k))
          <=> (\E i \in DOMAIN h : Adds(h, k, i) /\ Uses(h[i], k)) \/ (~Fails(s) /\ Uses(s, k))
    <3>1. \A i : i \in DOMAIN h2 <=> i \in DOMAIN h \/ i = n + 1
      BY <1>1
    <3>2. \A i \in DOMAIN h : Adds(h2, k, i) /\ Uses(h2[i], k) <=> Adds(h, k, i) /\ Uses(h[i], k)
      BY <1>1, <2>2
    <3>3. QED
      BY <1>1, <1>4, <3>1, <3>2
  <2>9. (SumOf(AddedBy(h, k)) + x) + CoverRecord(h, k).position
          = (SumOf(AddedBy(h, k)) + CoverRecord(h, k).position) + x
    BY <1>3, <2>5 DEF SymbolRecord
  <2> DEFINE old == CoverRecord(h, k)
             used == \E i \in DOMAIN h : Adds(h, k, i) /\ Uses(h[i], k)
             now == \E i \in DOMAIN h2 : Adds(h2, k, i) /\ Uses(h2[i], k)
  <2>10. /\ Expected(h, k).exists = (old.exists \/ used)
         /\ Expected(h, k).position = SumOf(AddedBy(h, k)) + old.position
         /\ Expected(h, k).trades = old.trades
         /\ Expected(h, k).restriction = old.restriction
    BY <2>6
  <2>11. Expected(h2, k) = [exists |-> old.exists \/ now,
                           position |-> SumOf(AddedBy(h2, k)) + old.position,
                           trades |-> old.trades, restriction |-> old.restriction]
    BY <2>1, <2>7
  <2>12. now <=> used \/ (~Fails(s) /\ Uses(s, k))
    BY <2>8
  <2> HIDE DEF old, used, now
  <2>13. (old.exists \/ now) = (Expected(h, k).exists \/ (~Fails(s) /\ Uses(s, k)))
    BY <2>10, <2>12, Zenon
  <2>14. SumOf(AddedBy(h2, k)) + old.position = Expected(h, k).position + x
    BY <2>4, <2>9, <2>10 DEF old
  <2>15. Expected(h2, k) = Recorded(Expected(h, k), s, k)
    BY <2>10, <2>11, <2>13, <2>14 DEF Recorded, x
  <2>16. QED
    BY <1>9, <2>15 DEF CoveredRecord, h2
<1>10. QED
  BY <1>8, <1>9

LEMMA LastOfType ==
  ASSUME NEW h \in Seq(InitSignals), NEW reached
  PROVE  LastOf(h, reached) \in InitSignals \cup {Default}
<1> DEFINE n == Len(h)
           I == {i \in DOMAIN h : reached[h[i]]}
           last == Max({0} \cup I)
<1>1. n \in Nat /\ I \in SUBSET (1..n) /\ \A i \in 1..n : h[i] \in InitSignals
  OBVIOUS
<1>2. LastOf(h, reached) = IF last = 0 THEN Default ELSE h[last]
  BY DEF LastOf
<1> HIDE DEF n, I
<1>3. last \in 0..n
  BY <1>1, LastIndexFacts
<1>4. QED
  BY <1>1, <1>2, <1>3

LEMMA LastOfAppend ==
  ASSUME NEW h \in Seq(InitSignals), NEW s \in InitSignals, NEW reached
  PROVE  LastOf(Append(h, s), reached) = IF reached[s] THEN s ELSE LastOf(h, reached)
<1> DEFINE n == Len(h)
           h2 == Append(h, s)
           I == {i \in DOMAIN h : reached[h[i]]}
           I2 == {i \in DOMAIN h2 : reached[h2[i]]}
           last == Max({0} \cup I)
           last2 == Max({0} \cup I2)
<1>1. n \in Nat /\ DOMAIN h = 1..n /\ DOMAIN h2 = 1..(n + 1)
      /\ (\A i \in 1..n : h2[i] = h[i] /\ h[i] \in InitSignals) /\ h2[n + 1] = s
  BY AppendFacts
<1>2. /\ LastOf(h, reached) = IF last = 0 THEN Default ELSE h[last]
      /\ LastOf(h2, reached) = IF last2 = 0 THEN Default ELSE h2[last2]
  BY DEF LastOf
<1> HIDE DEF n, h2
<1>3. I \in SUBSET (1..n) /\ I2 = IF reached[s] THEN I \cup {n + 1} ELSE I
  <2>1. \A i \in 1..n : i \in I2 <=> i \in I
    BY <1>1
  <2>2. n + 1 \in I2 <=> reached[s]
    BY <1>1
  <2>3. \A i \in 1..(n + 1) : i \in 1..n \/ i = n + 1
    BY <1>1
  <2>4. I \subseteq 1..n /\ I2 \subseteq 1..(n + 1)
    BY <1>1
  <2> HIDE DEF I, I2
  <2>5. CASE reached[s]
    <3>1. \A i : i \in I2 <=> i \in I \cup {n + 1}
      BY <1>1, <2>1, <2>2, <2>3, <2>4, <2>5
    <3>2. QED
      BY <2>4, <2>5, <3>1
  <2>6. CASE ~reached[s]
    <3>1. \A i : i \in I2 <=> i \in I
      BY <1>1, <2>1, <2>2, <2>3, <2>4, <2>6
    <3>2. QED
      BY <2>4, <2>6, <3>1
  <2>7. QED
    BY <2>5, <2>6
<1> HIDE DEF I, I2
<1>4. last \in 0..n
  BY <1>1, <1>3, LastIndexFacts
<1>5. CASE reached[s]
  <2>1. {0} \cup I2 = {0} \cup I \cup {n + 1}
    BY <1>3, <1>5
  <2>2. last2 = n + 1
    BY <1>1, <1>3, <2>1, LastIndexGrows
  <2>3. QED
    BY <1>1, <1>2, <1>5, <2>2 DEF h2
<1>6. CASE ~reached[s]
  <2>1. last2 = last
    BY <1>3, <1>6
  <2> HIDE DEF last, last2
  <2>2. last # 0 => h2[last] = h[last]
    BY <1>1, <1>4
  <2>3. QED
    BY <1>2, <1>6, <2>1, <2>2 DEF h2
<1>7. QED
  BY <1>5, <1>6

LEMMA RulesAfterIsExpected ==
  ASSUME NEW h \in Seq(InitSignals), NEW s \in InitSignals, rules = ExpectedRules(h)
  PROVE  RulesAfter(s) = ExpectedRules(Append(h, s))
<1> DEFINE limits == [t \in InitSignals |-> RequestOf[t].globalConfig]
           symbol(k) == [t \in InitSignals |-> \E e \in ToSet(Written(t)) : e.symbol = k /\ e.config]
           kind(r) == [t \in InitSignals |-> ~Fails(t) /\ r \in RequestOf[t].rules]
           configured == {state.symbol : state \in {t \in ToSet(Written(s)) : t.config}}
<1>1. \A reached : LastOf(Append(h, s), reached) = IF reached[s] THEN s ELSE LastOf(h, reached)
  BY LastOfAppend
<1>2. /\ rules.limits = LastOf(h, limits)
      /\ \A k \in Names : rules.symbols[k] = LastOf(h, symbol(k))
      /\ \A r \in RuleKinds : rules.kinds[r] = LastOf(h, kind(r))
  BY DEF ExpectedRules
<1>3. ExpectedRules(Append(h, s)) =
        [limits |-> LastOf(Append(h, s), limits),
         symbols |-> [k \in Names |-> LastOf(Append(h, s), symbol(k))],
         kinds |-> [r \in RuleKinds |-> LastOf(Append(h, s), kind(r))]]
  BY DEF ExpectedRules
<1>4. RulesAfter(s) =
        [limits |-> IF RequestOf[s].globalConfig THEN s ELSE rules.limits,
         symbols |-> [k \in Names |-> IF k \in configured THEN s ELSE rules.symbols[k]],
         kinds |-> [r \in RuleKinds |->
           IF ~Fails(s) /\ r \in RequestOf[s].rules THEN s ELSE rules.kinds[r]]]
  BY DEF RulesAfter
<1>5. LastOf(Append(h, s), limits) = IF RequestOf[s].globalConfig THEN s ELSE rules.limits
  <2>1. limits[s] = RequestOf[s].globalConfig
    OBVIOUS
  <2> HIDE DEF limits
  <2>2. QED
    BY <1>1, <1>2, <2>1
<1>6. ASSUME NEW k \in Names
      PROVE  LastOf(Append(h, s), symbol(k)) = IF k \in configured THEN s ELSE rules.symbols[k]
  <2>1. symbol(k)[s] <=> k \in configured
    OBVIOUS
  <2> HIDE DEF symbol, configured
  <2>2. QED
    BY <1>1, <1>2, <2>1
<1>7. ASSUME NEW r \in RuleKinds
      PROVE  LastOf(Append(h, s), kind(r)) =
               IF ~Fails(s) /\ r \in RequestOf[s].rules THEN s ELSE rules.kinds[r]
  <2>1. kind(r)[s] <=> ~Fails(s) /\ r \in RequestOf[s].rules
    OBVIOUS
  <2> HIDE DEF kind
  <2>2. QED
    BY <1>1, <1>2, <2>1
<1> HIDE DEF limits, symbol, kind, configured
<1>8. QED
  BY <1>3, <1>4, <1>5, <1>6, <1>7

-----------------------------------------------------------------------------
(* The initializer                                                         *)

\* The metrics are those of the window, cached, or there are none yet.
MetricsCurrent ==
  \/ cachedMetrics = {} /\ metrics = NoMetrics
  \/ metrics = MetricsOf(pnlHistory, exposureHistory) /\ cachedMetrics = {metrics}

InitializerTypes ==
  /\ symbolStates \in SymbolTable
  /\ pnlHistory \in Seq(Int) /\ exposureHistory \in Seq(Nat)
  /\ Len(pnlHistory) <= MaxHistory /\ Len(exposureHistory) <= MaxHistory
  /\ inits \in Seq(InitSignals)

InitializerInv ==
  /\ InitializerTypes
  /\ \A k \in Names : symbolStates[k] = Expected(inits, k)
  /\ rules = ExpectedRules(inits)
  /\ MetricsCurrent

LEMMA NothingExpected ==
  /\ \A k : Expected(<<>>, k) = NoSymbol
  /\ \A reached : LastOf(<<>>, reached) = Default
<1>1. <<>> \in Seq(InitSignals) /\ DOMAIN <<>> = {} /\ Len(<<>>) = 0
  OBVIOUS
<1>2. Max({0} \cup {}) = 0
  <2>1. {} \in SUBSET (1..0)
    OBVIOUS
  <2>2. QED
    BY <2>1, LastIndexFacts
<1>3. ASSUME NEW k PROVE Expected(<<>>, k) = NoSymbol
  <2>1. LastCover(<<>>, k) = 0
    <3>1. {i \in DOMAIN <<>> : \E e \in ToSet(Written(<<>>[i])) : e.symbol = k} = {}
      BY <1>1
    <3>2. QED
      BY <1>2, <3>1 DEF LastCover
  <2>2. CoverRecord(<<>>, k) = NoSymbol
    BY <2>1 DEF CoverRecord
  <2>3. SumOf(AddedBy(<<>>, k)) = 0
    <3>1. AddedBy(<<>>, k) \in Seq(Int) /\ Len(AddedBy(<<>>, k)) = 0
      BY <1>1, AddedByType
    <3>2. QED
      BY <3>1, SumOfZeros
  <2> DEFINE used == \E i \in DOMAIN <<>> : /\ Adds(<<>>, k, i)
                                         /\ \E p \in ToSet(RequestOf[<<>>[i]].positions) : p.symbol = k
  <2>4. ~used
    BY <1>1
  <2>5. Expected(<<>>, k) = [exists |-> CoverRecord(<<>>, k).exists \/ used,
                            position |-> SumOf(AddedBy(<<>>, k)) + CoverRecord(<<>>, k).position,
                            trades |-> CoverRecord(<<>>, k).trades,
                            restriction |-> CoverRecord(<<>>, k).restriction]
    BY <1>1, ExpectedIs
  <2> HIDE DEF used
  <2>6. QED
    <3>1. NoSymbol.exists = FALSE /\ NoSymbol.position = 0
      BY DEF NoSymbol
    <3>2. (NoSymbol.exists \/ used) = FALSE /\ 0 + NoSymbol.position = 0
      BY <2>4, <3>1
    <3>3. Expected(<<>>, k) = [exists |-> FALSE, position |-> 0,
                              trades |-> NoSymbol.trades, restriction |-> NoSymbol.restriction]
      BY <2>2, <2>3, <2>5, <3>2
    <3>4. QED
      BY <3>3 DEF NoSymbol
<1>4. ASSUME NEW reached PROVE LastOf(<<>>, reached) = Default
  <2>1. {i \in DOMAIN <<>> : reached[<<>>[i]]} = {}
    BY <1>1
  <2>2. QED
    BY <1>2, <2>1 DEF LastOf
<1>5. QED
  BY <1>3, <1>4

LEMMA InitializerStarts ==
  ASSUME InitRisk
  PROVE  InitializerInv
<1>1. InitializerTypes
  BY RequestAssumption DEF InitRisk, InitializerTypes, SymbolTable, SymbolRecord, NoSymbol, Restrictions
<1>2. \A k \in Names : symbolStates[k] = Expected(inits, k)
  BY NothingExpected DEF InitRisk
<1>3. rules = ExpectedRules(inits)
  <2>1. inits = <<>>
    BY DEF InitRisk
  <2>2. ExpectedRules(<<>>) = [limits |-> Default, symbols |-> [k \in Names |-> Default],
                              kinds |-> [r \in RuleKinds |-> Default]]
    BY NothingExpected, Zenon DEF ExpectedRules
  <2>3. QED
    BY <2>1, <2>2 DEF InitRisk
<1>4. MetricsCurrent
  BY DEF InitRisk, MetricsCurrent
<1>5. QED
  BY <1>1, <1>2, <1>3, <1>4 DEF InitializerInv

LEMMA RestoreHistoryPreserves ==
  ASSUME InitializerTypes, MetricsCurrent, NEW data \in HistoricalData, RestoreHistory(data)
  PROVE  /\ pnlHistory' \in Seq(Int) /\ exposureHistory' \in Seq(Nat)
         /\ Len(pnlHistory') <= MaxHistory /\ Len(exposureHistory') <= MaxHistory
         /\ MetricsCurrent'
<1>1. data.pnl \in Seq(Int) /\ data.exposure \in Seq(Nat)
  BY DEF HistoricalData
<1>2. pnlHistory' = AddPoints(pnlHistory, data.pnl)
      /\ exposureHistory' = AddPoints(exposureHistory, data.exposure)
  BY DEF RestoreHistory
<1>3. PICK m \in StillCached(data) \cup {MetricsOf(pnlHistory', exposureHistory')} :
        metrics' = m /\ cachedMetrics' = {m}
  BY <1>2 DEF RestoreHistory
<1>4. m = MetricsOf(pnlHistory', exposureHistory')
  <2>1. CASE m \in StillCached(data)
    <3>1. data.pnl = <<>> /\ data.exposure = <<>> /\ m \in cachedMetrics
      BY <2>1 DEF StillCached
    <3>2. pnlHistory' = pnlHistory /\ exposureHistory' = exposureHistory
      BY <1>1, <1>2, <3>1, WindowFacts DEF InitializerTypes
    <3>3. QED
      BY <3>1, <3>2 DEF MetricsCurrent
  <2>2. QED
    BY <1>3, <2>1
<1>5. MetricsCurrent'
  BY <1>3, <1>4 DEF MetricsCurrent
<1>6. QED
  BY <1>1, <1>2, <1>5, WindowFacts DEF InitializerTypes

\* Every init leaves the initializer with what is expected of the inits so far.
LEMMA ProcessInitPreserves ==
  ASSUME InitializerInv, NEW s \in InitSignals, ProcessInit(s)
  PROVE  InitializerInv'
<1>1. InitializerTypes /\ MetricsCurrent
  BY DEF InitializerInv
<1>2. /\ inits' = Append(inits, s) /\ inits' \in Seq(InitSignals) /\ inits \in Seq(InitSignals)
      /\ symbolStates' = SymbolsAfter(s) /\ rules' = RulesAfter(s)
  BY <1>1 DEF ProcessInit, InitializerTypes
<1>3. symbolStates' \in SymbolTable
  BY <1>1, <1>2, TableAfter DEF InitializerTypes
<1>4. ASSUME NEW k \in Names PROVE symbolStates'[k] = Expected(inits', k)
  <2>1. symbolStates'[k] = Recorded(CoveredRecord(symbolStates[k], s, k), s, k)
    BY <1>1, <1>2, SymbolsAfterEffect DEF InitializerTypes
  <2>2. symbolStates[k] = Expected(inits, k)
    BY DEF InitializerInv
  <2>3. QED
    BY <1>2, <2>1, <2>2, ExpectedOfAppend
<1>5. rules' = ExpectedRules(inits')
  BY <1>2, RulesAfterIsExpected DEF InitializerInv
<1>6. /\ pnlHistory' \in Seq(Int) /\ exposureHistory' \in Seq(Nat)
      /\ Len(pnlHistory') <= MaxHistory /\ Len(exposureHistory') <= MaxHistory
      /\ MetricsCurrent'
  <2>1. CASE Fails(s) \/ RequestOf[s].history = {}
    <3>1. UNCHANGED calculatorVars
      BY <2>1 DEF ProcessInit
    <3>2. QED
      BY <1>1, <3>1 DEF calculatorVars, InitializerTypes, MetricsCurrent
  <2>2. CASE ~(Fails(s) \/ RequestOf[s].history = {})
    <3>1. PICK data \in RequestOf[s].history : RestoreHistory(data)
      BY <2>2 DEF ProcessInit
    <3>2. data \in HistoricalData
      BY RequestFacts
    <3>3. QED
      BY <1>1, <3>1, <3>2, RestoreHistoryPreserves
  <2>3. QED
    BY <2>1, <2>2
<1>7. QED
  BY <1>2, <1>3, <1>4, <1>5, <1>6 DEF InitializerInv, InitializerTypes

LEMMA InitializerTyped ==
  ASSUME InitializerInv
  PROVE  RiskInitTypeOK
<1>1. rules.limits \in InitSignals \cup {Default}
      /\ rules.symbols \in [Names -> InitSignals \cup {Default}]
      /\ rules.kinds \in [RuleKinds -> InitSignals \cup {Default}]
  <2>1. inits \in Seq(InitSignals) /\ rules = ExpectedRules(inits)
    BY DEF InitializerInv, InitializerTypes
  <2>2. \A reached : LastOf(inits, reached) \in InitSignals \cup {Default}
    BY <2>1, LastOfType
  <2>3. QED
    BY <2>1, <2>2 DEF ExpectedRules
<1>2. QED
  BY <1>1 DEF InitializerInv, InitializerTypes, RiskInitTypeOK, SymbolTable, SymbolRecord

\* What the metrics say of the window.
LEMMA MetricsMeanWhatTheySay ==
  ASSUME InitializerInv, NEW m \in cachedMetrics
  PROVE  /\ cachedMetrics = {metrics}
         /\ m.total = SumOf(pnlHistory) /\ m.total = m.profit - m.loss
         /\ Len(pnlHistory) > 1 => IsGreatestFall(m.drawdown, pnlHistory)
         /\ \A e \in ToSet(exposureHistory) : e <= m.maxExposure
         /\ exposureHistory # <<>> => m.currentExposure = Last(exposureHistory)
<1>1. cachedMetrics = {metrics} /\ m = MetricsOf(pnlHistory, exposureHistory)
      /\ pnlHistory \in Seq(Int) /\ exposureHistory \in Seq(Nat)
  BY DEF InitializerInv, InitializerTypes, MetricsCurrent
<1>2. /\ m.total = SumOf(pnlHistory)
      /\ m.profit = SumOf(Profits(pnlHistory)) /\ m.loss = SumOf(Losses(pnlHistory))
      /\ m.drawdown = DrawdownOf(pnlHistory)
      /\ m.currentExposure = IF exposureHistory = <<>> THEN 0 ELSE Last(exposureHistory)
      /\ m.maxExposure = IF exposureHistory = <<>> THEN 0 ELSE Max(ToSet(exposureHistory))
  BY <1>1 DEF MetricsOf
<1>3. m.total = m.profit - m.loss
  BY <1>1, <1>2, TotalIsProfitLessLoss
<1>4. Len(pnlHistory) > 1 => IsGreatestFall(m.drawdown, pnlHistory)
  BY <1>1, <1>2, DrawdownIsGreatestFall
<1>5. \A e \in ToSet(exposureHistory) : e <= m.maxExposure
  <2>1. CASE exposureHistory = <<>>
    BY <2>1 DEF ToSet
  <2>2. CASE exposureHistory # <<>>
    BY <1>1, <1>2, <2>2, MaxExposureBounds
  <2>3. QED
    BY <2>1, <2>2
<1>6. QED
  BY <1>1, <1>2, <1>3, <1>4, <1>5
=============================================================================
