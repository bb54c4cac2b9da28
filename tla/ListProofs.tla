----------------------------- MODULE ListProofs -----------------------------
(***************************************************************************)
(* What the operators of Lists return, for lists of every length.  The     *)
(* induction theorems of the library take an operator as a parameter; here *)
(* a claim about all lengths is a set of numbers that holds 0 and, with a  *)
(* number, the next one.                                                   *)
(***************************************************************************)
EXTENDS Lists, WellFoundedInduction, FiniteSetTheorems, TLAPS

\* Every set of numbers that is not empty has a least one.
LEMMA LeastNumber ==
  ASSUME NEW T \in SUBSET Nat, T # {}
  PROVE  \E n \in T : \A k \in T : n <= k
<1> DEFINE R == {ss \in Nat \X Nat : ss[1] < ss[2]}
<1>1. IsWellFoundedOn(R, Nat)
  BY NatLessThanWellFounded DEF OpToRel
<1>2. \A x, y \in Nat : x < y => <<x, y>> \in R
  OBVIOUS
<1> HIDE DEF R
<1>3. PICK n \in T : \A k \in T : ~ (<<k, n>> \in R)
  BY <1>1, WFMin, Zenon
<1>4. ASSUME NEW k \in T PROVE n <= k
  <2>1. n \in Nat /\ k \in Nat
    OBVIOUS
  <2>2. ~ (k < n)
    BY <1>2, <1>3, <2>1, Zenon
  <2> QED
    BY <2>1, <2>2
<1> QED
  BY <1>4

\* Induction, for a set of numbers that stands for what is claimed of them.
LEMMA InductiveSet ==
  ASSUME NEW T \in SUBSET Nat, 0 \in T, \A n \in T : n + 1 \in T
  PROVE  Nat \subseteq T
<1> SUFFICES ASSUME Nat \ T # {} PROVE FALSE
  OBVIOUS
<1>1. PICK n \in Nat \ T : \A k \in Nat \ T : n <= k
  <2>1. Nat \ T \in SUBSET Nat
    OBVIOUS
  <2> QED
    BY <2>1, LeastNumber, Zenon
<1>2. n # 0 /\ n \in Nat
  BY <1>1
<1>3. n - 1 \in Nat /\ ~(n <= n - 1) /\ n - 1 + 1 = n
  BY <1>2
<1>4. n - 1 \in T
  BY <1>1, <1>3
<1> QED
  BY <1>1, <1>3, <1>4

\* A set of numbers that is bounded and not empty has a highest one.
LEMMA HighestNumber ==
  ASSUME NEW n \in Nat, NEW S \in SUBSET (0 .. n), S # {}
  PROVE  \E m \in S : \A y \in S : y <= m
<1> DEFINE T == {k \in Nat : \A y \in S : y <= k}
<1>1. n \in T
  OBVIOUS
<1>2. T # {} /\ T \in SUBSET Nat
  BY <1>1
<1>3. PICK m \in T : \A k \in T : m <= k
  BY <1>2, LeastNumber, Zenon
<1>4. m \in S
  <2> SUFFICES ASSUME m \notin S PROVE FALSE
    OBVIOUS
  <2>1. \A y \in S : y \in Nat /\ y <= m /\ y # m
    BY <1>3
  <2>2. m \in Nat /\ m # 0
    <3>1. PICK y \in S : TRUE
      OBVIOUS
    <3>2. m \in Nat
      BY <1>3
    <3> HIDE DEF T
    <3> QED
      BY <2>1, <3>1, <3>2
  <2>3. m - 1 \in T
    BY <2>1, <2>2
  <2> QED
    BY <1>3, <2>2, <2>3
<1> QED
  BY <1>3, <1>4

-----------------------------------------------------------------------------

\* One turn of the loop of KeepIn.
Turn(s, S, f, i) ==
  IF i = 0 THEN <<>> ELSE IF s[i] \in S THEN Append(f[i - 1], s[i]) ELSE f[i - 1]

\* The loop that filters a list has a result for each number of turns.
LEMMA LoopExists ==
  ASSUME NEW s, NEW S, NEW n \in Nat
  PROVE  \E f : f = [i \in 0 .. n |-> Turn(s, S, f, i)]
<1> DEFINE Loop(f, m) == f = [i \in 0 .. m |-> Turn(s, S, f, i)]
           T == {m \in Nat : \E f : Loop(f, m)}
<1>1. 0 \in T
  <2> DEFINE f == [i \in 0 .. 0 |-> <<>>]
  <2>1. \A i \in 0 .. 0 : Turn(s, S, f, i) = <<>>
    BY DEF Turn
  <2>2. Loop(f, 0)
    BY <2>1
  <2> QED
    BY <2>2
<1>2. ASSUME NEW m \in T PROVE m + 1 \in T
  <2>1. m \in Nat /\ m + 1 \in Nat
    OBVIOUS
  <2>2. PICK f : Loop(f, m)
    OBVIOUS
  <2> DEFINE g == [i \in 0 .. m + 1 |-> IF i = m + 1 THEN Turn(s, S, f, i) ELSE f[i]]
  <2>3. \A i \in 0 .. m : i \in 0 .. m + 1 /\ i # m + 1 /\ i + 1 # 0
    BY <2>1
  <2>4. \A i \in 0 .. m : g[i] = f[i]
    BY <2>3
  <2>5. \A i \in 0 .. m : f[i] = Turn(s, S, f, i)
    BY <2>2
  <2>6. \A i \in 0 .. m + 1 : i # 0 => i - 1 \in 0 .. m
    BY <2>1
  <2> HIDE DEF Loop
  <2>7. \A i \in 0 .. m + 1 : Turn(s, S, g, i) = Turn(s, S, f, i)
    BY <2>4, <2>6 DEF Turn
  <2>8. \A i \in 0 .. m + 1 : i = m + 1 \/ i \in 0 .. m
    BY <2>1
  <2>9. \A i \in 0 .. m + 1 : g[i] = Turn(s, S, g, i)
    BY <2>5, <2>7, <2>8
  <2>10. Loop(g, m + 1)
    BY <2>9 DEF Loop
  <2> QED
    BY <2>1, <2>10
<1> HIDE DEF T
<1>3. T \in SUBSET Nat
  BY DEF T
<1>4. n \in T
  BY <1>1, <1>2, <1>3, InductiveSet
<1> QED
  BY <1>4 DEF T

\* What a loop over the first n entries has kept: t has members of S only, all of
\* them, and in the order of s.
Filters(s, S, n, t) ==
  /\ \A k \in 1 .. Len(t) : \E a \in 1 .. n : t[k] = s[a] /\ s[a] \in S
  /\ \A a \in 1 .. n : s[a] \in S => \E k \in 1 .. Len(t) : t[k] = s[a]
  /\ \A j, k \in 1 .. Len(t) :
       j < k => \E a, b \in 1 .. n : a < b /\ t[j] = s[a] /\ t[k] = s[b]

\* One turn of that loop.
LEMMA KeptGrows ==
  ASSUME NEW E, NEW s \in Seq(E), NEW S, NEW n \in Nat, n < Len(s),
         NEW t \in Seq(E), Len(t) <= n, Filters(s, S, n, t)
  PROVE  LET u == IF s[n + 1] \in S THEN Append(t, s[n + 1]) ELSE t
         IN  u \in Seq(E) /\ Len(u) <= n + 1 /\ Filters(s, S, n + 1, u)
<1> DEFINE e == s[n + 1]
<1>0. n + 1 \in 1 .. n + 1 /\ n + 1 \in 1 .. Len(s) /\ Len(t) \in Nat
  OBVIOUS
<1>a. \A a \in 1 .. n : a \in 1 .. n + 1 /\ a < n + 1
  OBVIOUS
<1>b. \A a \in 1 .. n + 1 : a = n + 1 \/ a \in 1 .. n
  OBVIOUS
<1>1. CASE e \notin S
  <2>1. Filters(s, S, n + 1, t)
    BY <1>1, <1>a, <1>b DEF Filters
  <2> QED
    BY <1>0, <1>1, <2>1
<1>2. CASE e \in S
  <2> DEFINE u == Append(t, e)
  <2>1. e \in E
    BY <1>0
  <2>2. /\ u \in Seq(E) /\ Len(u) = Len(t) + 1 /\ u[Len(t) + 1] = e
        /\ \A k \in 1 .. Len(t) : u[k] = t[k]
    BY <2>1
  <2>3. \A k \in 1 .. Len(u) : k = Len(t) + 1 \/ k \in 1 .. Len(t)
    BY <1>0, <2>2
  <2>4. \A k \in 1 .. Len(t) : k \in 1 .. Len(u)
    BY <1>0, <2>2
  <2>5. Len(t) + 1 \in 1 .. Len(u)
    BY <1>0, <2>2
  <2> HIDE DEF u, e
  <2>6. ASSUME NEW k \in 1 .. Len(u) PROVE \E a \in 1 .. n + 1 : u[k] = s[a] /\ s[a] \in S
    <3>1. CASE k = Len(t) + 1
      BY <1>0, <1>2, <2>2, <3>1 DEF e
    <3>2. CASE k \in 1 .. Len(t)
      <4>1. PICK a \in 1 .. n : t[k] = s[a] /\ s[a] \in S
        BY <3>2, Zenon DEF Filters
      <4> QED
        BY <1>a, <2>2, <3>2, <4>1
    <3> QED
      BY <2>3, <3>1, <3>2
  <2>7. ASSUME NEW a \in 1 .. n + 1, s[a] \in S PROVE \E k \in 1 .. Len(u) : u[k] = s[a]
    <3>1. CASE a = n + 1
      BY <2>2, <2>5, <3>1 DEF e
    <3>2. CASE a \in 1 .. n
      BY <2>2, <2>4, <2>7, <3>2 DEF Filters
    <3> QED
      BY <1>b, <3>1, <3>2
  <2>8. ASSUME NEW j \in 1 .. Len(u), NEW k \in 1 .. Len(u), j < k
        PROVE  \E a, b \in 1 .. n + 1 : a < b /\ u[j] = s[a] /\ u[k] = s[b]
    <3>1. j \in 1 .. Len(t)
      BY <1>0, <2>2, <2>8
    <3>2. CASE k = Len(t) + 1
      <4>1. PICK a \in 1 .. n : t[j] = s[a]
        BY <3>1 DEF Filters
      <4> QED
        BY <1>0, <1>a, <2>2, <3>1, <3>2, <4>1 DEF e
    <3>3. CASE k \in 1 .. Len(t)
      <4>1. PICK a \in 1 .. n, b \in 1 .. n : a < b /\ t[j] = s[a] /\ t[k] = s[b]
        BY <2>8, <3>1, <3>3 DEF Filters
      <4> QED
        BY <1>a, <2>2, <3>1, <3>3, <4>1
    <3> QED
      BY <2>3, <3>2, <3>3
  <2>9. Filters(s, S, n + 1, u)
    BY <2>6, <2>7, <2>8 DEF Filters
  <2>10. Len(u) <= n + 1
    BY <1>0, <2>2
  <2> QED
    BY <1>2, <2>2, <2>9, <2>10 DEF e, u
<1> QED
  BY <1>1, <1>2

\* KeepIn keeps exactly the members of S, in their order.
LEMMA KeepInKeeps ==
  ASSUME NEW E, NEW s \in Seq(E), NEW S
  PROVE  /\ KeepIn(s, S) \in Seq(E) /\ Len(KeepIn(s, S)) <= Len(s)
         /\ Filters(s, S, Len(s), KeepIn(s, S))
<1> DEFINE F == CHOOSE f : f = [i \in 0 .. Len(s) |-> Turn(s, S, f, i)]
<1>1. KeepIn(s, S) = F[Len(s)]
  BY DEF KeepIn, Turn
<1>2. F = [i \in 0 .. Len(s) |-> Turn(s, S, F, i)]
  <2>1. \E f : f = [i \in 0 .. Len(s) |-> Turn(s, S, f, i)]
    <3>1. Len(s) \in Nat
      OBVIOUS
    <3> QED
      BY <3>1, LoopExists, Zenon
  <2> QED
    BY <2>1, Zenon
<1> HIDE DEF F
<1>3. F[0] = <<>> /\ Len(s) \in Nat
  BY <1>2 DEF Turn
<1>4. \A n \in Nat : n < Len(s) => F[n + 1] = IF s[n + 1] \in S THEN Append(F[n], s[n + 1]) ELSE F[n]
  <2> SUFFICES ASSUME NEW n \in Nat, n < Len(s)
               PROVE  F[n + 1] = IF s[n + 1] \in S THEN Append(F[n], s[n + 1]) ELSE F[n]
    OBVIOUS
  <2>1. n + 1 \in 0 .. Len(s) /\ n + 1 # 0 /\ n + 1 - 1 = n
    BY <1>3
  <2>2. F[n + 1] = Turn(s, S, F, n + 1)
    BY <1>2, <2>1
  <2> QED
    BY <2>1, <2>2 DEF Turn
<1> DEFINE Good(n) == F[n] \in Seq(E) /\ Len(F[n]) <= n /\ Filters(s, S, n, F[n])
           T == {n \in Nat : n <= Len(s) => Good(n)}
<1>5. 0 \in T
  <2>1. Filters(s, S, 0, <<>>)
    BY DEF Filters
  <2>2. <<>> \in Seq(E) /\ Len(<<>>) <= 0
    OBVIOUS
  <2>3. Good(0)
    BY <1>3, <2>1, <2>2, Zenon
  <2> HIDE DEF Good
  <2> QED
    BY <2>3
<1>6. ASSUME NEW n \in T PROVE n + 1 \in T
  <2>1. CASE n < Len(s)
    <3>1. n \in Nat /\ n <= Len(s) /\ Good(n)
      BY <1>3, <2>1
    <3> DEFINE t == F[n]
               u == IF s[n + 1] \in S THEN Append(t, s[n + 1]) ELSE t
    <3>a. t \in Seq(E) /\ Len(t) <= n /\ Filters(s, S, n, t)
      BY <3>1
    <3>b. F[n + 1] = u
      BY <1>4, <2>1, <3>1
    <3>c. u \in Seq(E) /\ Len(u) <= n + 1 /\ Filters(s, S, n + 1, u)
      <4> HIDE DEF t
      <4> QED
        BY <2>1, <3>1, <3>a, KeptGrows, Zenon
    <3>2. Good(n + 1)
      BY <3>b, <3>c, Zenon
    <3> QED
      BY <3>1, <3>2
  <2>2. CASE ~(n < Len(s))
    BY <1>3, <2>2
  <2> QED
    BY <2>1, <2>2
<1> HIDE DEF T
<1>7. Len(s) \in T
  <2>1. T \in SUBSET Nat
    BY DEF T
  <2> QED
    BY <1>3, <1>5, <1>6, <2>1, InductiveSet
<1> QED
  BY <1>1, <1>3, <1>7 DEF T

-----------------------------------------------------------------------------

\* An entry of a sequence over S is in S.
LEMMA SeqEntry ==
  ASSUME NEW S, NEW s \in Seq(S), NEW k \in 1 .. Len(s)
  PROVE  s[k] \in S
OBVIOUS

\* A sequence without its p-th entry, by where each entry comes from.
LEMMA CutOutEntries ==
  ASSUME NEW S, NEW o \in Seq(S), NEW p \in 1 .. Len(o)
  PROVE  /\ CutOut(o, p) \in Seq(S) /\ Len(CutOut(o, p)) = Len(o) - 1
         /\ \A k \in 1 .. Len(o) - 1 :
              CutOut(o, p)[k] = o[IF k < p THEN k ELSE k + 1]
         /\ \A k \in 1 .. Len(o) - 1 :
              \E i \in 1 .. Len(o) : i # p /\ CutOut(o, p)[k] = o[i]
         /\ \A i \in 1 .. Len(o) :
              i # p => \E k \in 1 .. Len(o) - 1 : CutOut(o, p)[k] = o[i]
<1> DEFINE c == CutOut(o, p)
<1>0. Len(o) \in Nat /\ p \in Nat /\ 1 <= p /\ p <= Len(o) /\ Len(o) - 1 \in Nat
  OBVIOUS
<1>1. c = [k \in 1 .. Len(o) - 1 |-> IF k < p THEN o[k] ELSE o[k + 1]]
  BY DEF CutOut
<1>2. \A k \in 1 .. Len(o) - 1 : k \in 1 .. Len(o) /\ k + 1 \in 1 .. Len(o)
  BY <1>0
<1>3. \A k \in 1 .. Len(o) - 1 : (IF k < p THEN o[k] ELSE o[k + 1]) \in S
  BY <1>0, <1>2, SeqEntry
<1> HIDE DEF c
<1>4. c \in [1 .. Len(o) - 1 -> S]
  BY <1>1, <1>3
<1>5. c \in Seq(S) /\ Len(c) = Len(o) - 1
  BY <1>0, <1>4
<1>6. \A k \in 1 .. Len(o) - 1 : c[k] = o[IF k < p THEN k ELSE k + 1]
  BY <1>1
<1>7. \A k \in 1 .. Len(o) - 1 : \E i \in 1 .. Len(o) : i # p /\ c[k] = o[i]
  BY <1>0, <1>2, <1>6
<1>8. ASSUME NEW i \in 1 .. Len(o), i # p PROVE \E k \in 1 .. Len(o) - 1 : c[k] = o[i]
  <2>1. CASE i < p
    <3>1. i \in 1 .. Len(o) - 1
      BY <1>0, <2>1
    <3> QED
      BY <1>6, <2>1, <3>1
  <2>2. CASE i > p
    <3>1. i - 1 \in 1 .. Len(o) - 1 /\ ~(i - 1 < p) /\ i - 1 + 1 = i
      BY <1>0, <2>2
    <3> QED
      BY <1>6, <3>1
  <2> QED
    BY <1>0, <1>8, <2>1, <2>2
<1> QED
  BY <1>5, <1>6, <1>7, <1>8 DEF c

-----------------------------------------------------------------------------
(* Numbers in ascending order.                                              *)

\* How many numbers of S are below x.
Rank(S, x) == Cardinality({y \in S : y < x})

\* s lists S in ascending order.
Ascends(s, S) ==
  /\ s \in Seq(S)
  /\ \A j, k \in 1 .. Len(s) : j < k => s[j] < s[k]
  /\ \A x \in S : \E k \in 1 .. Len(s) : s[k] = x

\* A number with more below it is further up.
LEMMA RankGrows ==
  ASSUME NEW S \in SUBSET Nat, IsFiniteSet(S)
  PROVE  /\ \A x \in S : Rank(S, x) \in 0 .. Cardinality(S) - 1
         /\ \A x, y \in S : x < y => Rank(S, x) < Rank(S, y)
<1> DEFINE B(x) == {y \in S : y < x}
<1>1. \A x \in S : IsFiniteSet(B(x)) /\ Cardinality(B(x)) \in Nat
  <2> SUFFICES ASSUME NEW x \in S PROVE IsFiniteSet(B(x)) /\ Cardinality(B(x)) \in Nat
    OBVIOUS
  <2>1. B(x) \in SUBSET S
    OBVIOUS
  <2> HIDE DEF B
  <2>2. IsFiniteSet(B(x))
    BY <2>1, FS_Subset
  <2> QED
    BY <2>2, FS_CardinalityType
<1>2. ASSUME NEW T, IsFiniteSet(T), NEW x \in S, x \in T, B(x) \subseteq T
      PROVE  Cardinality(B(x)) < Cardinality(T)
  <2>1. x \notin B(x)
    OBVIOUS
  <2>2. B(x) \cup {x} \in SUBSET T
    BY <1>2
  <2> HIDE DEF B
  <2>3. Cardinality(B(x) \cup {x}) = Cardinality(B(x)) + 1 /\ IsFiniteSet(B(x) \cup {x})
    BY <1>1, <2>1, FS_AddElement
  <2>4. Cardinality(B(x) \cup {x}) <= Cardinality(T) /\ Cardinality(T) \in Nat
    BY <1>2, <2>2, FS_Subset, FS_CardinalityType
  <2> QED
    BY <1>1, <2>3, <2>4
<1>3. ASSUME NEW x \in S PROVE Rank(S, x) \in 0 .. Cardinality(S) - 1
  <2>1. B(x) \subseteq S
    OBVIOUS
  <2> HIDE DEF B
  <2>2. Cardinality(B(x)) < Cardinality(S)
    BY <1>2, <1>3, <2>1
  <2>3. Cardinality(S) \in Nat
    BY FS_CardinalityType
  <2>4. Cardinality(B(x)) \in 0 .. Cardinality(S) - 1
    BY <1>1, <2>2, <2>3
  <2> QED
    BY <2>4 DEF Rank, B
<1>4. ASSUME NEW x \in S, NEW y \in S, x < y PROVE Rank(S, x) < Rank(S, y)
  <2>0. \A z \in S : z < x => z < y
    BY <1>4
  <2>1. B(x) \subseteq B(y) /\ x \in B(y)
    BY <1>4, <2>0
  <2> HIDE DEF B
  <2>2. Cardinality(B(x)) < Cardinality(B(y))
    BY <1>1, <1>2, <2>1
  <2> QED
    BY <2>2 DEF Rank, B
<1> QED
  BY <1>3, <1>4

\* InOrder is the numbers of S in ascending order.
LEMMA InOrderAscends ==
  ASSUME NEW S \in SUBSET Nat, IsFiniteSet(S)
  PROVE  Ascends(InOrder(S), S) /\ Len(InOrder(S)) = Cardinality(S)
<1> DEFINE n == Cardinality(S)
           s == InOrder(S)
           rank == [x \in S |-> Rank(S, x)]
<1>0. n \in Nat
  BY FS_CardinalityType
<1>1. IsFiniteSet(0 .. n - 1) /\ Cardinality(0 .. n - 1) = n
  <2>1. n - 1 \in Int /\ 0 \in Int
    BY <1>0
  <2>2. IsFiniteSet(0 .. n - 1) /\ Cardinality(0 .. n - 1) = IF 0 > n - 1 THEN 0 ELSE n - 1 - 0 + 1
    <3> HIDE DEF n
    <3> QED
      BY <2>1, FS_Interval
  <2> QED
    BY <1>0, <2>2
<1>2. rank \in [S -> 0 .. n - 1]
  BY RankGrows
<1>3. \A x, y \in S : x < y \/ y < x \/ x = y
  OBVIOUS
<1>4. \A x, y \in S : Rank(S, x) = Rank(S, y) => x = y
  <2>1. \A x \in S : Rank(S, x) \in Nat
    BY <1>0, RankGrows
  <2> QED
    BY <1>3, <2>1, RankGrows
<1>5. rank \in Injection(S, 0 .. n - 1)
  BY <1>2, <1>4 DEF Injection, IsInjective
<1>6. rank \in Surjection(S, 0 .. n - 1)
  <2> HIDE DEF rank, n
  <2> QED
    BY <1>1, <1>5, FS_Injection DEF n
<1>7. \A k \in 1 .. n : \E x \in S : Rank(S, x) = k - 1
  <2>1. \A k \in 1 .. n : k - 1 \in 0 .. n - 1
    BY <1>0
  <2> QED
    BY <1>6, <2>1 DEF Surjection
<1>8. s = [k \in 1 .. n |-> CHOOSE x \in S : Rank(S, x) = k - 1]
  BY DEF InOrder, Rank
<1> HIDE DEF s, n, rank
<1>9. \A k \in 1 .. n : s[k] \in S /\ Rank(S, s[k]) = k - 1
  BY <1>7, <1>8
<1>10. s \in Seq(S) /\ Len(s) = n
  <2>1. s \in [1 .. n -> S]
    BY <1>8, <1>9
  <2> QED
    BY <1>0, <2>1
<1>11. ASSUME NEW j \in 1 .. n, NEW k \in 1 .. n, j < k PROVE s[j] < s[k]
  <2>1. s[j] \in S /\ s[k] \in S /\ Rank(S, s[j]) = j - 1 /\ Rank(S, s[k]) = k - 1
    BY <1>9
  <2>2. ~(s[k] < s[j]) /\ s[j] # s[k]
    <3>1. ~(k - 1 < j - 1) /\ j - 1 # k - 1
      BY <1>0, <1>11
    <3> QED
      BY <2>1, <3>1, RankGrows
  <2> QED
    BY <1>3, <2>1, <2>2
<1>12. ASSUME NEW x \in S PROVE \E k \in 1 .. n : s[k] = x
  <2>1. Rank(S, x) \in 0 .. n - 1
    BY RankGrows DEF n
  <2>3. PICK k \in 1 .. n : k - 1 = Rank(S, x)
    BY <1>0, <2>1
  <2>2. s[k] \in S /\ Rank(S, s[k]) = k - 1
    BY <1>9, <2>3, Zenon
  <2>4. s[k] \in S /\ Rank(S, s[k]) = Rank(S, x)
    BY <2>2, <2>3, Zenon
  <2> QED
    BY <1>4, <2>3, <2>4
<1> QED
  BY <1>10, <1>11, <1>12 DEF Ascends, n, s

\* An ascending list has as many entries as there are numbers, and the k-th has k - 1
\* numbers below it.
LEMMA RankIsPlace ==
  ASSUME NEW S \in SUBSET Nat, NEW s, Ascends(s, S)
  PROVE  /\ IsFiniteSet(S) /\ Cardinality(S) = Len(s)
         /\ \A k \in 1 .. Len(s) : Rank(S, s[k]) = k - 1
<1>0. /\ s \in Seq(S) /\ Len(s) \in Nat /\ DOMAIN s = 1 .. Len(s)
      /\ \A k \in 1 .. Len(s) : s[k] \in S /\ s[k] \in Nat
  <2>1. s \in Seq(S)
    BY DEF Ascends
  <2>2. \A k \in 1 .. Len(s) : s[k] \in S
    BY <2>1, SeqEntry
  <2>3. Len(s) \in Nat /\ DOMAIN s = 1 .. Len(s)
    BY <2>1
  <2>4. \A x \in S : x \in Nat
    OBVIOUS
  <2> QED
    BY <2>1, <2>2, <2>3, <2>4
<1>1. \A j, k \in 1 .. Len(s) : j < k => s[j] < s[k]
  BY DEF Ascends
<1>2. \A j, k \in 1 .. Len(s) : s[j] < s[k] => j < k
  <2> SUFFICES ASSUME NEW j \in 1 .. Len(s), NEW k \in 1 .. Len(s), s[j] < s[k] PROVE j < k
    OBVIOUS
  <2>1. ~(k < j) /\ j # k
    BY <1>0, <1>1
  <2> QED
    BY <2>1
<1>3. ASSUME NEW k \in 1 .. Len(s) + 1, NEW T \in SUBSET S,
             \A x \in S : x \in T <=> \E j \in 1 .. k - 1 : s[j] = x
      PROVE  IsFiniteSet(T) /\ Cardinality(T) = k - 1
  <2> DEFINE f == [j \in 1 .. k - 1 |-> s[j]]
  <2>1. \A j \in 1 .. k - 1 : j \in 1 .. Len(s)
    BY <1>0
  <2>2. f \in [1 .. k - 1 -> T]
    BY <1>0, <1>3, <2>1
  <2>3. \A i, j \in 1 .. k - 1 : s[i] = s[j] => i = j
    <3> SUFFICES ASSUME NEW i \in 1 .. k - 1, NEW j \in 1 .. k - 1, s[i] = s[j] PROVE i = j
      OBVIOUS
    <3>1. ~(i < j) /\ ~(j < i)
      BY <1>0, <1>1, <2>1
    <3> QED
      BY <3>1
  <2>4. \A x \in T : \E j \in 1 .. k - 1 : f[j] = x
    BY <1>3
  <2>5. f \in Bijection(1 .. k - 1, T)
    BY <2>2, <2>3, <2>4 DEF Bijection, Injection, Surjection, IsInjective
  <2>6. IsFiniteSet(1 .. k - 1) /\ Cardinality(1 .. k - 1) = k - 1
    <3>1. 1 \in Int /\ k - 1 \in Int /\ k - 1 \in Nat
      BY <1>0
    <3>2. IsFiniteSet(1 .. k - 1) /\ Cardinality(1 .. k - 1) = IF 1 > k - 1 THEN 0 ELSE k - 1 - 1 + 1
      BY <3>1, FS_Interval, Zenon
    <3> QED
      BY <3>1, <3>2
  <2>7. ExistsBijection(1 .. k - 1, T)
    BY <2>5 DEF ExistsBijection
  <2> QED
    BY <2>6, <2>7, FS_Bijection
<1>4. IsFiniteSet(S) /\ Cardinality(S) = Len(s)
  <2>1. Len(s) + 1 \in 1 .. Len(s) + 1 /\ Len(s) + 1 - 1 = Len(s)
    BY <1>0
  <2>2. \A x \in S : \E j \in 1 .. Len(s) : s[j] = x
    BY DEF Ascends
  <2> QED
    BY <1>3, <2>1, <2>2
<1>5. ASSUME NEW k \in 1 .. Len(s) PROVE Rank(S, s[k]) = k - 1
  <2> DEFINE T == {y \in S : y < s[k]}
  <2>1. ASSUME NEW x \in S PROVE x \in T <=> \E j \in 1 .. k - 1 : s[j] = x
    <3>1. PICK i \in 1 .. Len(s) : s[i] = x
      BY DEF Ascends
    <3>2. \A j \in 1 .. k - 1 : j \in 1 .. Len(s) /\ j < k
      BY <1>0
    <3>3. i < k => i \in 1 .. k - 1
      BY <1>0
    <3> QED
      BY <1>1, <1>2, <3>1, <3>2, <3>3
  <2>2. k \in 1 .. Len(s) + 1 /\ T \in SUBSET S
    BY <1>0
  <2> HIDE DEF T
  <2>3. Cardinality(T) = k - 1
    BY <1>3, <2>1, <2>2
  <2> QED
    BY <2>3 DEF T, Rank
<1> QED
  BY <1>4, <1>5

\* There is one such list.
LEMMA AscendingIsInOrder ==
  ASSUME NEW S \in SUBSET Nat, NEW s, Ascends(s, S)
  PROVE  InOrder(S) = s
<1>1. IsFiniteSet(S)
  BY RankIsPlace
<1> DEFINE t == InOrder(S)
<1>2. Ascends(t, S)
  BY <1>1, InOrderAscends
<1> HIDE DEF t
<1>3. Len(t) = Len(s) /\ s \in Seq(S) /\ t \in Seq(S)
  BY <1>2, RankIsPlace DEF Ascends
<1>4. ASSUME NEW k \in 1 .. Len(s) PROVE t[k] = s[k]
  <2>1. k \in 1 .. Len(t) /\ k - 1 \in Nat
    BY <1>3
  <2>2. s[k] \in S /\ t[k] \in S
    BY <1>3, <2>1, SeqEntry
  <2>3. Rank(S, s[k]) = k - 1
    BY RankIsPlace
  <2>4. Rank(S, t[k]) = k - 1
    BY <1>2, <2>1, RankIsPlace
  <2>5. ~(s[k] < t[k]) /\ ~(t[k] < s[k])
    <3>1. \A x, y \in S : x < y => Rank(S, x) < Rank(S, y)
      BY <1>1, RankGrows
    <3>2. ~(k - 1 < k - 1)
      BY <2>1
    <3> QED
      BY <2>2, <2>3, <2>4, <3>1, <3>2, Zenon
  <2>6. s[k] \in Nat /\ t[k] \in Nat
    BY <2>2
  <2> QED
    BY <2>5, <2>6
<1>5. t = s
  BY <1>3, <1>4
<1> QED
  BY <1>5 DEF t
=============================================================================
