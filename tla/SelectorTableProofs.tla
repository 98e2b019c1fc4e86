------------------------- MODULE SelectorTableProofs -------------------------
(***************************************************************************)
(* Proofs about SelectorTable, for any contract, any widths and any calls. *)
(*                                                                         *)
(* The three forms of the section are proved right one by one.  What the   *)
(* dense one needs is that its tables are sound: the buckets share the     *)
(* method ids among them, each lies in the order of its perfect hash, they *)
(* follow each other in the data section, and the fields of the packed     *)
(* words do not run into each other.                                       *)
(***************************************************************************)
EXTENDS SelectorTable, WellFoundedInduction, FiniteSetTheorems, SequenceTheorems, TLAPS

-----------------------------------------------------------------------------
(* Induction and recursion on the natural numbers.                           *)

LEMMA LeastNumber ==
  ASSUME NEW T \in SUBSET Nat, T # {}
  PROVE  \E x \in T : \A y \in T : x <= y
<1>1. PICK t \in T : TRUE
  OBVIOUS
<1> DEFINE W == {0 .. k : k \in {j \in T : j <= t}}
<1>2. W \subseteq SUBSET (0 .. t) /\ W # {}
  OBVIOUS
<1>3. PICK S \in W : \A R \in W : <<R, S>> \notin StrictSubsetOrdering(0 .. t)
  <2>1. IsFiniteSet(0 .. t)
    BY FS_Interval
  <2>2. IsWellFoundedOn(StrictSubsetOrdering(0 .. t), SUBSET (0 .. t))
    BY <2>1, FS_FiniteSubsetsOfFinite, FS_StrictSubsetOrderingWellFounded
  <2> HIDE DEF W
  <2> QED
    BY <1>2, <2>2, WFMin
<1>4. PICK x \in T : x <= t /\ S = 0 .. x
  BY <1>3
<1>5. ASSUME NEW y \in T, y < x
      PROVE  FALSE
  <2>1. 0 .. y \in W
    BY <1>4, <1>5
  <2>2. x \in S /\ x \notin 0 .. y
    BY <1>4, <1>5
  <2>3. 0 .. y \subseteq S /\ 0 .. y \subseteq 0 .. t /\ S \subseteq 0 .. t
    BY <1>4, <1>5
  <2> QED
    BY <2>1, <2>2, <2>3, <1>3 DEF StrictSubsetOrdering
<1> QED
  BY <1>5

(* f begins with `first`, and each value up to n comes from the one before.  *)
Follows(f, T, n, first, step) ==
  /\ f \in [0 .. n -> T]
  /\ f[0] = first
  /\ \A k \in 1 .. n : f[k] = step[k][f[k - 1]]

LEMMA PrefixExists ==
  ASSUME NEW T, NEW first \in T, NEW step \in [Nat \ {0} -> [T -> T]], NEW n \in Nat
  PROVE  \E f : Follows(f, T, n, first, step)
<1> DEFINE Bad == {m \in Nat : ~\E f : Follows(f, T, m, first, step)}
<1> SUFFICES ASSUME Bad # {}
             PROVE  FALSE
  OBVIOUS
<1>1. PICK m \in Bad : \A y \in Bad : m <= y
  BY LeastNumber
<1>2. CASE m = 0
  <2> DEFINE f == [k \in 0 .. 0 |-> first]
  <2>1. Follows(f, T, 0, first, step)
    BY DEF Follows
  <2> QED
    BY <2>1, <1>2
<1>3. CASE m # 0
  <2>1. m - 1 \in Nat /\ m - 1 \notin Bad
    BY <1>1, <1>3
  <2>2. PICK g : Follows(g, T, m - 1, first, step)
    BY <2>1
  <2> DEFINE f == [k \in 0 .. m |-> IF k = m THEN step[m][g[m - 1]] ELSE g[k]]
  <2>3. g \in [0 .. m - 1 -> T]
    BY <2>2 DEF Follows
  <2>4. g[m - 1] \in T /\ step[m] \in [T -> T]
    BY <2>1, <2>3, <1>3
  <2>5. f \in [0 .. m -> T]
    BY <2>3, <2>4
  <2>6. f[0] = first
    BY <2>2, <1>3 DEF Follows
  <2>7. ASSUME NEW k \in 1 .. m
        PROVE  f[k] = step[k][f[k - 1]]
    <3>1. CASE k = m
      BY <3>1, <1>3
    <3>2. CASE k # m
      <4>1. k \in 1 .. m - 1 /\ f[k] = g[k] /\ f[k - 1] = g[k - 1]
        BY <3>2
      <4> QED
        BY <4>1, <2>2 DEF Follows
    <3> QED
      BY <3>1, <3>2
  <2>8. Follows(f, T, m, first, step)
    BY <2>5, <2>6, <2>7 DEF Follows
  <2> QED
    BY <2>8
<1> QED
  BY <1>2, <1>3

LEMMA PrefixesAgree ==
  ASSUME NEW T, NEW first \in T, NEW step \in [Nat \ {0} -> [T -> T]],
         NEW n \in Nat, NEW m \in Nat, n <= m, NEW f, NEW g,
         Follows(f, T, n, first, step), Follows(g, T, m, first, step)
  PROVE  f[n] = g[n]
<1> DEFINE Bad == {k \in 0 .. n : f[k] # g[k]}
<1> SUFFICES ASSUME Bad # {}
             PROVE  FALSE
  OBVIOUS
<1>1. Bad \in SUBSET Nat
  OBVIOUS
<1>2. PICK k \in Bad : \A y \in Bad : k <= y
  <2> HIDE DEF Bad
  <2> QED
    BY <1>1, LeastNumber
<1>3. k # 0
  BY DEF Follows
<1>4. k - 1 \in 0 .. n /\ k - 1 \notin Bad /\ k \in 1 .. n /\ k \in 1 .. m
  BY <1>2, <1>3
<1>5. f[k - 1] = g[k - 1]
  BY <1>4
<1> QED
  BY <1>4, <1>5 DEF Follows

(* A recursive definition on Nat by a step has a solution.                   *)
FollowsAlways(f, T, first, step) ==
  /\ f \in [Nat -> T]
  /\ f[0] = first
  /\ \A k \in Nat \ {0} : f[k] = step[k][f[k - 1]]

LEMMA Recursion ==
  ASSUME NEW T, NEW first \in T, NEW step \in [Nat \ {0} -> [T -> T]]
  PROVE  \E f : FollowsAlways(f, T, first, step)
<1> DEFINE P(n) == CHOOSE f : Follows(f, T, n, first, step)
           F == [n \in Nat |-> P(n)[n]]
<1>1. \A n \in Nat : Follows(P(n), T, n, first, step)
  BY PrefixExists
<1> HIDE DEF P
<1>2. \A n \in Nat : P(n)[n] \in T
  BY <1>1 DEF Follows
<1>3. F[0] = first
  BY <1>1 DEF Follows
<1>4. ASSUME NEW k \in Nat \ {0}
      PROVE  F[k] = step[k][F[k - 1]]
  <2>1. k - 1 \in Nat /\ k - 1 <= k /\ k \in 1 .. k
    OBVIOUS
  <2>2. P(k)[k - 1] = P(k - 1)[k - 1]
    BY <2>1, <1>1, PrefixesAgree
  <2>3. P(k)[k] = step[k][P(k)[k - 1]]
    BY <2>1, <1>1 DEF Follows
  <2> QED
    BY <2>1, <2>2, <2>3
<1> QED
  BY <1>2, <1>3, <1>4 DEF FollowsAlways

(* The same up to a number.                                                  *)
LEMMA FiniteRecursion ==
  ASSUME NEW T, NEW n \in Nat, NEW first \in T, NEW step \in [1 .. n -> [T -> T]]
  PROVE  \E f : Follows(f, T, n, first, step)
<1> DEFINE longer == [k \in Nat \ {0} |-> IF k <= n THEN step[k] ELSE [t \in T |-> t]]
<1>1. longer \in [Nat \ {0} -> [T -> T]]
  OBVIOUS
<1>2. \A k \in 1 .. n : longer[k] = step[k]
  OBVIOUS
<1>3. PICK f : Follows(f, T, n, first, longer)
  <2> HIDE DEF longer
  <2> QED
    BY <1>1, PrefixExists
<1> HIDE DEF longer
<1> QED
  BY <1>2, <1>3 DEF Follows

-----------------------------------------------------------------------------
(* Arithmetic: division with remainder, and powers of Byte.                  *)

LEMMA Division ==
  ASSUME NEW x \in Nat, NEW d \in Nat \ {0}
  PROVE  /\ x \div d \in Nat /\ x % d \in 0 .. d - 1
         /\ x = d * (x \div d) + (x % d)
OBVIOUS

LEMMA Unpacking ==
  ASSUME NEW a \in Nat, NEW d \in Nat \ {0}, NEW r \in 0 .. d - 1
  PROVE  (a * d + r) \div d = a /\ (a * d + r) % d = r
OBVIOUS

LEMMA PowerSteps ==
  /\ Power \in [Nat -> Nat \ {0}]
  /\ Power[0] = 1
  /\ \A n \in Nat \ {0} : Power[n] = Byte * Power[n - 1]
<1> DEFINE Solution(f) == f = [n \in Nat |-> IF n = 0 THEN 1 ELSE Byte * f[n - 1]]
           step == [k \in Nat \ {0} |-> [t \in Nat \ {0} |-> Byte * t]]
<1>1. step \in [Nat \ {0} -> [Nat \ {0} -> Nat \ {0}]]
  BY WidthAssumption
<1>2. PICK f : FollowsAlways(f, Nat \ {0}, 1, step)
  <2>1. 1 \in Nat \ {0}
    OBVIOUS
  <2> HIDE DEF step
  <2> QED
    BY <1>1, <2>1, Recursion
<1>3. ASSUME NEW k \in Nat \ {0}
      PROVE  f[k] = Byte * f[k - 1]
  <2>1. k - 1 \in Nat
    OBVIOUS
  <2>2. f[k - 1] \in Nat \ {0}
    BY <1>2, <2>1 DEF FollowsAlways
  <2> QED
    BY <1>2, <2>2 DEF FollowsAlways
<1>4. Solution(f)
  BY <1>2, <1>3 DEF FollowsAlways
<1>5. Solution(Power)
  BY <1>4 DEF Power
<1>6. ASSUME NEW g, Solution(g)
      PROVE  g = f
  <2> DEFINE Bad == {k \in Nat : f[k] # g[k]}
  <2>1. Bad = {}
    <3> SUFFICES ASSUME Bad # {}
                 PROVE  FALSE
      OBVIOUS
    <3>1. PICK k \in Bad : \A y \in Bad : k <= y
      BY LeastNumber
    <3>2. g[0] = 1
      BY <1>6
    <3>3. k # 0
      BY <1>2, <3>2 DEF FollowsAlways
    <3>4. k - 1 \in Nat /\ k - 1 \notin Bad
      BY <3>1, <3>3
    <3>5. f[k - 1] = g[k - 1] /\ k \in Nat \ {0}
      BY <3>3, <3>4
    <3>6. g[k] = Byte * g[k - 1]
      BY <1>6, <3>5
    <3> QED
      BY <1>3, <3>5, <3>6
  <2>2. \A k \in Nat : f[k] = g[k]
    BY <2>1
  <2>3. g = [n \in Nat |-> g[n]]
    BY <1>6
  <2> QED
    BY <1>2, <2>2, <2>3 DEF FollowsAlways
<1>7. Power = f
  BY <1>5, <1>6
<1> QED
  BY <1>2, <1>3, <1>7 DEF FollowsAlways

(* Every power but the first is even, and divided by Byte.                   *)
LEMMA PowersDivide ==
  ASSUME NEW n \in Nat \ {0}
  PROVE  /\ Power[n] \in Nat \ {0}
         /\ Power[n] % 2 = 0
         /\ \A x \in Nat : x % Power[n] = 0 => x % Byte = 0
<1>1. /\ Power[n - 1] \in Nat \ {0}
      /\ Power[n] = Byte * Power[n - 1]
  BY PowerSteps
<1>2. Byte \in Nat \ {0} /\ Byte % 2 = 0
  BY WidthAssumption
<1>3. Power[n] \in Nat \ {0}
  BY PowerSteps
<1>4. Power[n] % 2 = 0
  <2>1. PICK h \in Nat : Byte = 2 * h
    BY <1>2
  <2>2. Power[n] = 2 * (h * Power[n - 1]) /\ h * Power[n - 1] \in Nat
    BY <1>1, <2>1
  <2> QED
    BY <2>2
<1>5. ASSUME NEW x \in Nat, x % Power[n] = 0
      PROVE  x % Byte = 0
  <2>1. PICK q \in Nat : x = Power[n] * q
    <3>1. x = Power[n] * (x \div Power[n]) + (x % Power[n]) /\ x \div Power[n] \in Nat
      BY <1>3, Division
    <3>2. x = Power[n] * (x \div Power[n])
      BY <1>3, <1>5, <3>1
    <3> QED
      BY <3>1, <3>2
  <2>2. x = Byte * (Power[n - 1] * q) /\ Power[n - 1] * q \in Nat
    BY <1>1, <1>2, <2>1
  <2> QED
    BY <1>2, <2>2
<1> QED
  BY <1>3, <1>4, <1>5

-----------------------------------------------------------------------------
(* Sequences that are joined.                                                *)

Joins(f, s) == f = [i \in 1 .. Len(s) |-> IF i = 1 THEN s[i] ELSE f[i - 1] \o s[i]]

LEMMA FlattenJoins ==
  ASSUME NEW S, NEW s \in Seq(Seq(S)), s # <<>>
  PROVE  \E f : Joins(f, s) /\ FlattenSeq(s) = f[Len(s)] /\ \A i \in 1 .. Len(s) : f[i] \in Seq(S)
<1> DEFINE n == Len(s) - 1
           T == Seq(S)
           step == [k \in 1 .. n |-> [t \in T |-> t \o s[k + 1]]]
<1>1. n \in Nat /\ Len(s) \in Nat \ {0} /\ n + 1 = Len(s)
  OBVIOUS
<1>2. s[1] \in T /\ \A i \in 1 .. Len(s) : s[i] \in T
  BY <1>1
<1>3. step \in [1 .. n -> [T -> T]]
  <2>1. ASSUME NEW k \in 1 .. n
        PROVE  s[k + 1] \in T
    BY <1>1, <1>2
  <2> QED
    BY <2>1
<1>4. PICK g : Follows(g, T, n, s[1], step)
  <2> HIDE DEF n, T, step
  <2> QED
    BY <1>1, <1>2, <1>3, FiniteRecursion
<1> DEFINE f == [i \in 1 .. Len(s) |-> g[i - 1]]
<1>5. \A k \in 0 .. n : g[k] \in T
  BY <1>4 DEF Follows
<1>6. ASSUME NEW i \in 1 .. Len(s)
      PROVE  f[i] = IF i = 1 THEN s[i] ELSE f[i - 1] \o s[i]
  <2>1. CASE i = 1
    BY <2>1, <1>4 DEF Follows
  <2>2. CASE i # 1
    <3>1. i - 1 \in 1 .. n /\ f[i] = g[i - 1] /\ f[i - 1] = g[i - 2] /\ i - 2 \in 0 .. n
      BY <2>2, <1>1
    <3>2. g[i - 1] = step[i - 1][g[(i - 1) - 1]]
      BY <3>1, <1>4 DEF Follows
    <3>3. (i - 1) - 1 = i - 2 /\ (i - 1) + 1 = i
      BY <3>1
    <3>4. step[i - 1][g[i - 2]] = g[i - 2] \o s[i]
      BY <3>1, <3>3, <1>5
    <3> QED
      BY <2>2, <3>1, <3>2, <3>3, <3>4
  <2> QED
    BY <2>1, <2>2
<1>7. Joins(f, s)
  BY <1>6 DEF Joins
<1>8. \A i \in 1 .. Len(s) : f[i] \in T
  BY <1>5, <1>1
<1> HIDE DEF f
<1> DEFINE c == CHOOSE h : Joins(h, s)
<1>9. Joins(c, s)
  BY <1>7
<1>10. FlattenSeq(s) = c[Len(s)]
  BY <1>1 DEF FlattenSeq, Joins
<1> HIDE DEF c
<1>11. \A i \in 1 .. Len(s) : c[i] \in T
  <2> DEFINE Bad == {i \in 1 .. Len(s) : c[i] \notin T}
  <2> SUFFICES ASSUME Bad # {}
               PROVE  FALSE
    OBVIOUS
  <2>1. Bad \in SUBSET Nat
    OBVIOUS
  <2>2. PICK i \in Bad : \A y \in Bad : i <= y
    <3> HIDE DEF Bad
    <3> QED
      BY <2>1, LeastNumber
  <2>3. c[i] = IF i = 1 THEN s[i] ELSE c[i - 1] \o s[i]
    BY <1>9 DEF Joins
  <2>4. i # 1
    BY <1>2, <2>3
  <2>5. i - 1 \in 1 .. Len(s) /\ i - 1 \notin Bad
    BY <2>2, <2>4
  <2>6. c[i - 1] \in Seq(S) /\ s[i] \in Seq(S)
    BY <1>2, <2>5
  <2>7. c[i - 1] \o s[i] \in Seq(S)
    BY <2>6, ConcatProperties
  <2> QED
    BY <2>3, <2>4, <2>7
<1> QED
  BY <1>9, <1>10, <1>11

LEMMA JoinsAt ==
  ASSUME NEW s, NEW f, Joins(f, s), NEW i \in 1 .. Len(s)
  PROVE  f[i] = IF i = 1 THEN s[i] ELSE f[i - 1] \o s[i]
BY DEF Joins

Begins(t, s) == /\ Len(s) \in Nat /\ Len(t) \in Nat /\ Len(t) <= Len(s)
                /\ \A i \in 1 .. Len(t) : s[i] = t[i]

LEMMA JoinsAgree ==
  ASSUME NEW s, NEW t, NEW f, NEW g, Joins(f, s), Joins(g, t), Begins(t, s)
  PROVE  \A i \in 1 .. Len(t) : f[i] = g[i]
<1> USE DEF Begins
<1> DEFINE Bad == {i \in 1 .. Len(t) : f[i] # g[i]}
<1> SUFFICES ASSUME Bad # {}
             PROVE  FALSE
  OBVIOUS
<1>1. Bad \in SUBSET Nat
  OBVIOUS
<1>2. PICK i \in Bad : \A y \in Bad : i <= y
  <2> HIDE DEF Bad
  <2> QED
    BY <1>1, LeastNumber
<1>3. /\ f[i] = IF i = 1 THEN s[i] ELSE f[i - 1] \o s[i]
      /\ g[i] = IF i = 1 THEN t[i] ELSE g[i - 1] \o t[i]
  <2>1. i \in 1 .. Len(s) /\ i \in 1 .. Len(t)
    OBVIOUS
  <2> HIDE DEF Bad
  <2> QED
    BY <2>1, JoinsAt
<1>4. i # 1
  BY <1>3
<1>5. i - 1 \in 1 .. Len(t) /\ i - 1 \notin Bad
  BY <1>2, <1>4
<1> QED
  BY <1>3, <1>4, <1>5

LEMMA TwoJoined ==
  ASSUME NEW S, NEW a \in Seq(S), NEW b \in Seq(S)
  PROVE  /\ Len(a) \in Nat /\ Len(b) \in Nat /\ Len(a \o b) = Len(a) + Len(b)
         /\ \A p \in 1 .. Len(a) : p \in 1 .. Len(a \o b) /\ (a \o b)[p] = a[p]
         /\ \A j \in 1 .. Len(b) : Len(a) + j \in 1 .. Len(a \o b) /\ (a \o b)[Len(a) + j] = b[j]
         /\ \A p \in 1 .. Len(a \o b) :
              \/ p \in 1 .. Len(a) /\ (a \o b)[p] = a[p]
              \/ \E j \in 1 .. Len(b) : (a \o b)[p] = b[j]
<1>1. Len(a) \in Nat /\ Len(b) \in Nat /\ Len(a \o b) = Len(a) + Len(b)
  BY LenProperties, ConcatProperties
<1>2. \A p \in 1 .. Len(a) + Len(b) :
         (a \o b)[p] = IF p <= Len(a) THEN a[p] ELSE b[p - Len(a)]
  BY ConcatProperties
<1>3. PICK m \in Nat, n \in Nat : m = Len(a) /\ n = Len(b)
  BY <1>1
<1>9. PICK c : c = a \o b
  OBVIOUS
<1>4. \A p \in 1 .. m : p \in 1 .. m + n /\ p <= m
  OBVIOUS
<1>5. \A j \in 1 .. n : m + j \in 1 .. m + n /\ ~(m + j <= m) /\ m + j - m = j
  OBVIOUS
<1>6. \A p \in 1 .. m + n : p \in 1 .. m \/ (p - m \in 1 .. n /\ ~(p <= m))
  OBVIOUS
<1>7. Len(c) = m + n /\ \A p \in 1 .. m + n : c[p] = IF p <= m THEN a[p] ELSE b[p - m]
  BY <1>1, <1>2, <1>3, <1>9
<1>8. /\ \A p \in 1 .. m : p \in 1 .. Len(c) /\ c[p] = a[p]
      /\ \A j \in 1 .. n : m + j \in 1 .. Len(c) /\ c[m + j] = b[j]
      /\ \A p \in 1 .. Len(c) : \/ p \in 1 .. m /\ c[p] = a[p]
                                \/ \E j \in 1 .. n : c[p] = b[j]
  BY <1>4, <1>5, <1>6, <1>7
<1> QED
  BY <1>1, <1>3, <1>8, <1>9

LEMMA NoOtherJoined ==
  ASSUME NEW S, NEW a \in Seq(S), NEW b \in Seq(S), NEW p \in 1 .. Len(a \o b)
  PROVE  \/ p \in 1 .. Len(a) /\ (a \o b)[p] = a[p]
         \/ \E j \in 1 .. Len(b) : (a \o b)[p] = b[j]
BY TwoJoined

(* Where the elements of the k-th sequence lie in the joined one.            *)
Start(f, k) == IF k = 1 THEN 0 ELSE Len(f[k - 1])
Placed(f, s, n) ==
  /\ \A k \in 1 .. n : \A j \in 1 .. Len(s[k]) :
        Start(f, k) + j \in 1 .. Len(f[n]) /\ f[n][Start(f, k) + j] = s[k][j]
  /\ \A p \in 1 .. Len(f[n]) : \E k \in 1 .. n : \E j \in 1 .. Len(s[k]) : f[n][p] = s[k][j]

LEMMA JoinsPlace ==
  ASSUME NEW S, NEW s \in Seq(Seq(S)), NEW f, Joins(f, s),
         \A i \in 1 .. Len(s) : f[i] \in Seq(S),
         NEW n \in 1 .. Len(s)
  PROVE  Placed(f, s, n)
<1> DEFINE Bad == {i \in 1 .. Len(s) : ~Placed(f, s, i)}
<1> SUFFICES ASSUME Bad # {}
             PROVE  FALSE
  OBVIOUS
<1>1. Bad \in SUBSET Nat
  OBVIOUS
<1>2. PICK i \in Bad : \A y \in Bad : i <= y
  <2> HIDE DEF Bad
  <2> QED
    BY <1>1, LeastNumber
<1>3. i \in 1 .. Len(s) /\ ~Placed(f, s, i)
  OBVIOUS
<1>4. f[i] = IF i = 1 THEN s[i] ELSE f[i - 1] \o s[i]
  BY <1>3, JoinsAt
<1>5. s[i] \in Seq(S) /\ f[i] \in Seq(S)
  BY <1>3
<1>6. CASE i = 1
  <2>1. f[1] = s[1]
    BY <1>4, <1>6
  <2> QED
    BY <1>3, <1>5, <1>6, <2>1 DEF Placed, Start
<1>7. CASE i # 1
  <2>1. i - 1 \in 1 .. Len(s) /\ i - 1 \notin Bad /\ f[i - 1] \in Seq(S)
    BY <1>2, <1>3, <1>7
  <2>2. Placed(f, s, i - 1)
    BY <2>1
  <2>3. PICK a \in Seq(S), b \in Seq(S) : a = f[i - 1] /\ b = s[i] /\ f[i] = a \o b
    BY <1>4, <1>5, <1>7, <2>1
  <2> HIDE DEF Bad
  <2>5. ASSUME NEW k \in 1 .. i, NEW j \in 1 .. Len(s[k])
        PROVE  Start(f, k) + j \in 1 .. Len(f[i]) /\ f[i][Start(f, k) + j] = s[k][j]
    <3>1. CASE k = i
      <4>1. Start(f, k) = Len(a) /\ j \in 1 .. Len(b) /\ s[k] = b
        BY <3>1, <1>7, <2>3 DEF Start
      <4>2. Len(a) + j \in 1 .. Len(a \o b) /\ (a \o b)[Len(a) + j] = b[j]
        BY <4>1, TwoJoined
      <4> QED
        BY <4>1, <4>2, <2>3
    <3>2. CASE k # i
      <4>1. k \in 1 .. i - 1
        BY <3>2, <1>3
      <4>2. /\ Start(f, k) + j \in 1 .. Len(a)
            /\ a[Start(f, k) + j] = s[k][j]
        BY <4>1, <2>2, <2>3 DEF Placed
      <4>3. Start(f, k) + j \in 1 .. Len(a \o b) /\ (a \o b)[Start(f, k) + j] = a[Start(f, k) + j]
        BY <4>2, TwoJoined
      <4> QED
        BY <4>2, <4>3, <2>3
    <3> QED
      BY <3>1, <3>2
  <2>6. ASSUME NEW p \in 1 .. Len(f[i])
        PROVE  \E k \in 1 .. i : \E j \in 1 .. Len(s[k]) : f[i][p] = s[k][j]
    <3>1. \/ p \in 1 .. Len(a) /\ (a \o b)[p] = a[p]
          \/ \E j \in 1 .. Len(b) : (a \o b)[p] = b[j]
      <4>1. p \in 1 .. Len(a \o b)
        BY <2>3
      <4> QED
        BY <4>1, NoOtherJoined
    <3>2. CASE p \in 1 .. Len(a) /\ (a \o b)[p] = a[p]
      <4>1. PICK k \in 1 .. i - 1 : \E j \in 1 .. Len(s[k]) : a[p] = s[k][j]
        BY <3>2, <2>2, <2>3 DEF Placed
      <4>2. k \in 1 .. i
        BY <1>3
      <4> QED
        BY <3>2, <4>1, <4>2, <2>3
    <3>3. CASE \E j \in 1 .. Len(b) : (a \o b)[p] = b[j]
      <4>1. i \in 1 .. i
        BY <1>3
      <4> QED
        BY <3>3, <4>1, <2>3
    <3> QED
      BY <3>1, <3>2, <3>3
  <2>7. Placed(f, s, i)
    BY <2>5, <2>6 DEF Placed
  <2> QED
    BY <2>7, <1>3
<1> QED
  BY <1>6, <1>7

LEMMA SeqElements ==
  ASSUME NEW S, NEW s \in Seq(S)
  PROVE  /\ DOMAIN s = 1 .. Len(s) /\ Len(s) \in Nat
         /\ \A i \in 1 .. Len(s) : s[i] \in S
BY LenProperties, ElementOfSeq

LEMMA Flattened ==
  ASSUME NEW S, NEW s \in Seq(Seq(S))
  PROVE  /\ FlattenSeq(s) \in Seq(S)
         /\ Range(FlattenSeq(s)) = UNION {Range(s[k]) : k \in 1 .. Len(s)}
<1>1. CASE s = <<>>
  BY <1>1 DEF FlattenSeq, Range
<1>2. CASE s # <<>>
  <2>1. PICK f : Joins(f, s) /\ FlattenSeq(s) = f[Len(s)] /\ \A i \in 1 .. Len(s) : f[i] \in Seq(S)
    BY <1>2, FlattenJoins
  <2>2. Len(s) \in 1 .. Len(s) /\ FlattenSeq(s) \in Seq(S)
    BY <1>2, <2>1
  <2>3. Placed(f, s, Len(s))
    BY <2>1, <2>2, JoinsPlace
  <2>4. \A k \in 1 .. Len(s) : s[k] \in Seq(S)
    OBVIOUS
  <2>5. ASSUME NEW k \in 1 .. Len(s), NEW x \in Range(s[k])
        PROVE  x \in Range(FlattenSeq(s))
    <3>1. PICK j \in 1 .. Len(s[k]) : x = s[k][j]
      <4>1. s[k] \in Seq(S)
        BY <2>4
      <4> QED
        BY <4>1, <2>5, RangeEquality
    <3>2. PICK p \in 1 .. Len(FlattenSeq(s)) : FlattenSeq(s)[p] = s[k][j]
      <4>1. /\ Start(f, k) + j \in 1 .. Len(f[Len(s)])
            /\ f[Len(s)][Start(f, k) + j] = s[k][j]
        BY <2>3 DEF Placed
      <4> QED
        BY <4>1, <2>1
    <3> QED
      BY <2>2, <3>1, <3>2, RangeEquality
  <2>6. ASSUME NEW x \in Range(FlattenSeq(s))
        PROVE  \E k \in 1 .. Len(s) : x \in Range(s[k])
    <3>1. PICK p \in 1 .. Len(FlattenSeq(s)) : x = FlattenSeq(s)[p]
      BY <2>2, <2>6, RangeEquality
    <3>2. PICK k \in 1 .. Len(s) : \E j \in 1 .. Len(s[k]) : x = s[k][j]
      BY <2>1, <2>3, <3>1 DEF Placed
    <3> QED
      BY <2>4, <3>2, RangeEquality
  <2> QED
    BY <2>2, <2>5, <2>6
<1> QED
  BY <1>1, <1>2

-----------------------------------------------------------------------------
(* The entry points and their method ids.                                    *)

LEMMA EntryPointsTyped ==
  ASSUME functions \in Contracts
  PROVE  /\ functions \in Seq([ids : Seq(MethodIds), args : Nat, payable : BOOLEAN])
         /\ \A e \in EntryPoints :
              /\ e = <<e[1], e[2]>>
              /\ e[1] \in 1 .. Len(functions) /\ e[2] \in 1 .. Len(functions[e[1]].ids)
              /\ IdOf(e) \in MethodIds
              /\ Payable(e) \in BOOLEAN
         /\ \A f \in 1 .. Len(functions) : \A k \in 1 .. Len(functions[f].ids) : <<f, k>> \in EntryPoints
<1>1. functions \in Seq([ids : Seq(MethodIds), args : Nat, payable : BOOLEAN])
  BY ContractsAssumption
<1>2. ASSUME NEW f \in 1 .. Len(functions)
      PROVE  /\ functions[f] \in [ids : Seq(MethodIds), args : Nat, payable : BOOLEAN]
             /\ DOMAIN functions[f].ids = 1 .. Len(functions[f].ids)
             /\ \A k \in 1 .. Len(functions[f].ids) : functions[f].ids[k] \in MethodIds
  <2>1. functions[f] \in [ids : Seq(MethodIds), args : Nat, payable : BOOLEAN]
    BY <1>1, ElementOfSeq
  <2>2. functions[f].ids \in Seq(MethodIds)
    BY <2>1
  <2> QED
    BY <2>1, <2>2, ElementOfSeq, LenProperties
<1>3. DOMAIN functions = 1 .. Len(functions)
  BY <1>1
<1>4. ASSUME NEW e \in EntryPoints
      PROVE  /\ e = <<e[1], e[2]>>
             /\ e[1] \in 1 .. Len(functions) /\ e[2] \in 1 .. Len(functions[e[1]].ids)
  <2>1. PICK f \in 1 .. Len(functions) : e \in {f} \X DOMAIN functions[f].ids
    BY <1>3, <1>4 DEF EntryPoints
  <2> QED
    BY <2>1, <1>2
<1>5. ASSUME NEW f \in 1 .. Len(functions), NEW k \in 1 .. Len(functions[f].ids)
      PROVE  <<f, k>> \in EntryPoints
  <2>1. <<f, k>> \in {f} \X DOMAIN functions[f].ids
    BY <1>2
  <2> QED
    BY <2>1, <1>3 DEF EntryPoints
<1> QED
  BY <1>1, <1>2, <1>4, <1>5 DEF IdOf, Payable

LEMMA MethodIdsJoined ==
  ASSUME functions \in Contracts
  PROVE  /\ method_ids \in Seq(MethodIds)
         /\ Range(method_ids) = Sigs
<1> DEFINE s == [f \in DOMAIN functions |-> functions[f].ids]
<1>1. functions \in Seq([ids : Seq(MethodIds), args : Nat, payable : BOOLEAN])
  BY EntryPointsTyped
<1>2. DOMAIN functions = 1 .. Len(functions) /\ Len(functions) \in Nat
  BY <1>1, LenProperties
<1>3. ASSUME NEW f \in 1 .. Len(functions)
      PROVE  s[f] = functions[f].ids /\ s[f] \in Seq(MethodIds)
  <2>1. functions[f] \in [ids : Seq(MethodIds), args : Nat, payable : BOOLEAN]
    BY <1>1, ElementOfSeq
  <2> QED
    BY <2>1, <1>2
<1>8. s \in [1 .. Len(functions) -> Seq(MethodIds)]
  BY <1>2, <1>3
<1>9. s \in Seq(Seq(MethodIds)) /\ Len(s) = Len(functions)
  BY <1>8, <1>2, SeqDef, LenProperties
<1>4. method_ids = FlattenSeq(s)
  BY DEF method_ids
<1> HIDE DEF s
<1>5. method_ids \in Seq(MethodIds) /\ Range(method_ids) = UNION {Range(s[k]) : k \in 1 .. Len(s)}
  BY <1>9, <1>4, Flattened
<1>6. ASSUME NEW k \in 1 .. Len(s), NEW x \in Range(s[k])
      PROVE  x \in Sigs
  <2>1. PICK j \in 1 .. Len(functions[k].ids) : x = functions[k].ids[j]
    BY <1>9, <1>3, <1>6, RangeEquality
  <2>2. <<k, j>> \in EntryPoints /\ IdOf(<<k, j>>) = x
    BY <2>1, <1>9, EntryPointsTyped DEF IdOf
  <2> QED
    BY <2>2 DEF Sigs
<1>7. ASSUME NEW e \in EntryPoints
      PROVE  \E k \in 1 .. Len(s) : IdOf(e) \in Range(s[k])
  <2>1. e[1] \in 1 .. Len(functions) /\ e[2] \in 1 .. Len(functions[e[1]].ids)
    BY EntryPointsTyped
  <2>2. s[e[1]][e[2]] = IdOf(e)
    BY <2>1, <1>3 DEF IdOf
  <2> QED
    BY <2>1, <2>2, <1>3, <1>9, RangeEquality
<1>10. \A x \in Range(method_ids) : x \in Sigs
  BY <1>5, <1>6
<1>11. \A x \in Sigs : x \in Range(method_ids)
  BY <1>5, <1>7 DEF Sigs
<1> QED
  BY <1>5, <1>10, <1>11

LEMMA SigOfId ==
  ASSUME NEW id \in Sigs
  PROVE  SigOf(id) \in EntryPoints /\ IdOf(SigOf(id)) = id
BY DEF Sigs, SigOf

-----------------------------------------------------------------------------
(* The buckets share the method ids among them.                              *)

LEMMA BucketIds ==
  ASSUME functions \in Contracts, NEW n \in Nat \ {0}, NEW b \in Nat
  PROVE  /\ Bucket(n, b) \in Seq(MethodIds)
         /\ Range(Bucket(n, b)) = {x \in Sigs : x % n = b}
<1> DEFINE ids == method_ids
           T == Seq(MethodIds)
           Fills(f) == f = [k \in 0 .. Len(ids) |->
                              IF k = 0 THEN <<>>
                              ELSE IF ids[k] % n = b THEN Append(f[k - 1], ids[k]) ELSE f[k - 1]]
           step == [k \in 1 .. Len(ids) |->
                      [t \in T |-> IF ids[k] % n = b THEN Append(t, ids[k]) ELSE t]]
           filled == CHOOSE f : Fills(f)
<1>1. /\ ids \in Seq(MethodIds) /\ Len(ids) \in Nat
      /\ \A k \in 1 .. Len(ids) : ids[k] \in MethodIds
      /\ Range(ids) = Sigs
  BY MethodIdsJoined, SeqElements
<1> HIDE DEF ids
<1>2. step \in [1 .. Len(ids) -> [T -> T]]
  BY <1>1, AppendProperties
<1>3. PICK g : Follows(g, T, Len(ids), <<>>, step)
  <2>1. <<>> \in T
    OBVIOUS
  <2> HIDE DEF T, step
  <2> QED
    BY <1>1, <1>2, <2>1, FiniteRecursion
<1>4. Fills(g)
  <2>1. g \in [0 .. Len(ids) -> T] /\ g[0] = <<>>
    BY <1>3 DEF Follows
  <2>2. ASSUME NEW k \in 1 .. Len(ids)
        PROVE  g[k] = IF ids[k] % n = b THEN Append(g[k - 1], ids[k]) ELSE g[k - 1]
    <3>1. g[k] = step[k][g[k - 1]] /\ k - 1 \in 0 .. Len(ids)
      <4> HIDE DEF step, T, Fills
      <4>1. g[k] = step[k][g[k - 1]]
        BY <1>3 DEF Follows
      <4>2. k - 1 \in 0 .. Len(ids)
        BY <1>1
      <4> QED
        BY <4>1, <4>2
    <3> QED
      BY <2>1, <3>1
  <2>3. ASSUME NEW k \in 0 .. Len(ids)
        PROVE  g[k] = IF k = 0 THEN <<>>
                      ELSE IF ids[k] % n = b THEN Append(g[k - 1], ids[k]) ELSE g[k - 1]
    <3>1. CASE k = 0
      BY <3>1, <2>1
    <3>2. CASE k # 0
      <4>1. k \in 1 .. Len(ids)
        BY <3>2, <1>1
      <4> QED
        BY <4>1, <3>2, <2>2
    <3> QED
      BY <3>1, <3>2
  <2> HIDE DEF T, step
  <2> QED
    BY <2>1, <2>3
<1>5. Fills(filled)
  BY <1>4
<1>6. Bucket(n, b) = filled[Len(ids)]
  BY DEF Bucket, ids
<1> HIDE DEF filled
<1>7. /\ filled[0] = <<>>
      /\ \A k \in 1 .. Len(ids) :
           filled[k] = IF ids[k] % n = b THEN Append(filled[k - 1], ids[k]) ELSE filled[k - 1]
  <2>1. \A k \in 0 .. Len(ids) :
           filled[k] = IF k = 0 THEN <<>>
                       ELSE IF ids[k] % n = b THEN Append(filled[k - 1], ids[k]) ELSE filled[k - 1]
    BY <1>5
  <2>2. 0 \in 0 .. Len(ids) /\ \A k \in 1 .. Len(ids) : k \in 0 .. Len(ids) /\ k # 0
    BY <1>1
  <2> QED
    BY <2>1, <2>2
<1> HIDE DEF step, Fills
<1> DEFINE Right(k) == /\ filled[k] \in Seq(MethodIds)
                       /\ \A x : x \in Range(filled[k]) <=> \E i \in 1 .. k : ids[i] = x /\ x % n = b
<1>8. Right(0)
  BY <1>7 DEF Range
<1>9. ASSUME NEW k \in 1 .. Len(ids), Right(k - 1)
      PROVE  Right(k)
  <2>1. CASE ids[k] % n = b
    <3>1. filled[k] = filled[k - 1] \o <<ids[k]>> /\ <<ids[k]>> \in Seq(MethodIds)
      <4>1. ids[k] \in MethodIds /\ filled[k] = Append(filled[k - 1], ids[k])
        BY <1>1, <1>7, <2>1
      <4>2. filled[k - 1] \in Seq(MethodIds)
        BY <1>9
      <4> QED
        BY <4>1, <4>2, AppendIsConcat
    <3>2. Range(<<ids[k]>>) = {ids[k]}
      BY DEF Range
    <3>3. Range(filled[k]) = Range(filled[k - 1]) \cup {ids[k]}
      <4>1. filled[k - 1] \in Seq(MethodIds)
        BY <1>9
      <4>3. PICK l \in Seq(MethodIds), r \in Seq(MethodIds) : l = filled[k - 1] /\ r = <<ids[k]>>
        BY <3>1, <4>1
      <4>4. Range(l \o r) = Range(l) \cup Range(r)
        BY RangeConcatenation
      <4>2. Range(filled[k - 1] \o <<ids[k]>>) = Range(filled[k - 1]) \cup Range(<<ids[k]>>)
        BY <4>3, <4>4
      <4> QED
        BY <3>1, <3>2, <4>2
    <3>4. filled[k] \in Seq(MethodIds)
      BY <3>1, <1>9, ConcatProperties
    <3>5. \A x : (\E i \in 1 .. k : ids[i] = x /\ x % n = b)
                 <=> (x = ids[k] \/ \E i \in 1 .. k - 1 : ids[i] = x /\ x % n = b)
      <4>1. 1 .. k = (1 .. k - 1) \cup {k}
        BY <1>1
      <4> QED
        BY <4>1, <2>1
    <3> QED
      BY <3>3, <3>4, <3>5, <1>9
  <2>2. CASE ids[k] % n # b
    <3>1. filled[k] = filled[k - 1]
      BY <1>7, <2>2
    <3>2. 1 .. k = (1 .. k - 1) \cup {k}
      BY <1>1
    <3> QED
      BY <3>1, <3>2, <2>2, <1>9
  <2> QED
    BY <2>1, <2>2
<1>10. Right(Len(ids))
  <2> DEFINE Bad == {k \in 0 .. Len(ids) : ~Right(k)}
  <2>1. Bad \in SUBSET Nat
    BY <1>1
  <2>2. Bad = {}
    <3> SUFFICES ASSUME Bad # {}
                 PROVE  FALSE
      OBVIOUS
    <3>1. PICK k \in Bad : \A y \in Bad : k <= y
      <4> HIDE DEF Bad
      <4> QED
        BY <2>1, LeastNumber
    <3>2. k # 0
      BY <1>8
    <3> HIDE DEF Right
    <3>3. k \in 1 .. Len(ids) /\ k - 1 \notin Bad /\ k - 1 \in 0 .. Len(ids)
      BY <3>1, <3>2, <1>1
    <3> QED
      BY <3>1, <3>3, <1>9
  <2>3. Len(ids) \in 0 .. Len(ids)
    BY <1>1
  <2> HIDE DEF Right
  <2> QED
    BY <2>2, <2>3
<1>11. \A x : x \in Sigs <=> \E i \in 1 .. Len(ids) : ids[i] = x
  BY <1>1, RangeEquality
<1> QED
  BY <1>6, <1>10, <1>11

-----------------------------------------------------------------------------
(* Perfect hashing.                                                          *)

LEMMA MagicFound ==
  ASSUME NEW xs, HasMagic(xs)
  PROVE  FindMagic(xs) \in 0 .. Magics - 1 /\ Perfect(xs, FindMagic(xs))
<1> DEFINE good == {m \in 0 .. Magics - 1 : Perfect(xs, m)}
<1>1. good \in SUBSET Nat /\ good # {}
  BY WidthAssumption DEF HasMagic
<1>2. PICK m \in good : \A k \in good : m <= k
  <2> HIDE DEF good
  <2> QED
    BY <1>1, LeastNumber
<1>3. \A k \in 0 .. m - 1 : k \in 0 .. Magics - 1 /\ k < m
  BY <1>1, WidthAssumption
<1>4. m \in 0 .. Magics - 1 /\ Perfect(xs, m) /\ \A k \in 0 .. m - 1 : ~Perfect(xs, k)
  BY <1>1, <1>2, <1>3
<1> QED
  BY <1>4 DEF FindMagic

(* Numbers below n that rise n times are all of them.                        *)
LEMMA Rising ==
  ASSUME NEW n \in Nat, NEW a \in [1 .. n -> 0 .. n - 1],
         \A i, j \in 1 .. n : i < j => a[i] < a[j],
         NEW i \in 1 .. n
  PROVE  a[i] = i - 1
<1>1. \A k \in 1 .. n : a[k] >= k - 1
  <2> DEFINE Bad == {k \in 1 .. n : a[k] < k - 1}
  <2>0. \A k \in 1 .. n : a[k] \in Nat /\ k \in Nat /\ (a[k] >= k - 1 \/ a[k] < k - 1)
    OBVIOUS
  <2> SUFFICES ASSUME Bad # {}
               PROVE  FALSE
    BY <2>0
  <2>1. Bad \in SUBSET Nat
    OBVIOUS
  <2>2. PICK k \in Bad : \A y \in Bad : k <= y
    <3> HIDE DEF Bad
    <3> QED
      BY <2>1, LeastNumber
  <2>3. k \in 1 .. n /\ a[k] < k - 1 /\ a[k] \in 0 .. n - 1
    OBVIOUS
  <2>4. k - 1 \in 1 .. n /\ k - 1 \notin Bad /\ a[k - 1] \in 0 .. n - 1
    BY <2>2, <2>3
  <2>5. a[k - 1] >= k - 2 /\ a[k - 1] < a[k]
    BY <2>3, <2>4
  <2> QED
    BY <2>3, <2>4, <2>5
<1>2. \A k \in 1 .. n : a[k] <= k - 1
  <2> DEFINE Bad == {d \in 0 .. n - 1 : a[n - d] > (n - d) - 1}
  <2> SUFFICES ASSUME Bad # {}
               PROVE  FALSE
    <3> SUFFICES ASSUME Bad = {}, NEW k \in 1 .. n
                 PROVE  a[k] <= k - 1
      OBVIOUS
    <3>1. PICK d \in 0 .. n - 1 : n - d = k
      <4>1. n - k \in 0 .. n - 1 /\ n - (n - k) = k
        OBVIOUS
      <4> QED
        BY <4>1
    <3>2. ~(a[n - d] > (n - d) - 1)
      OBVIOUS
    <3>3. a[k] \in 0 .. n - 1
      OBVIOUS
    <3> QED
      BY <3>1, <3>2, <3>3
  <2>1. Bad \in SUBSET Nat
    OBVIOUS
  <2>2. PICK d \in Bad : \A y \in Bad : d <= y
    <3> HIDE DEF Bad
    <3> QED
      BY <2>1, LeastNumber
  <2>3. d \in 0 .. n - 1 /\ n - d \in 1 .. n /\ a[n - d] > (n - d) - 1 /\ a[n - d] \in 0 .. n - 1
    OBVIOUS
  <2>4. d # 0
    BY <2>3
  <2>5. d - 1 \in 0 .. n - 1 /\ d - 1 \notin Bad /\ n - (d - 1) \in 1 .. n
    <3>1. d - 1 \in 0 .. n - 1 /\ ~(d <= d - 1) /\ n - (d - 1) \in 1 .. n
      BY <2>3, <2>4
    <3> HIDE DEF Bad
    <3> QED
      BY <3>1, <2>2
  <2>6. a[n - (d - 1)] \in 0 .. n - 1 /\ a[n - (d - 1)] <= (n - (d - 1)) - 1 /\ a[n - d] < a[n - (d - 1)]
    BY <2>3, <2>5
  <2> QED
    BY <2>3, <2>5, <2>6
<1> QED
  BY <1>1, <1>2

LEMMA ImagesOrdered ==
  ASSUME NEW xs \in Seq(Nat), xs # <<>>, NEW magic \in Nat, Perfect(xs, magic)
  PROVE  LET s == ImageOrder(xs, magic) IN
           /\ s \in [1 .. Len(xs) -> Range(xs)] /\ Range(s) = Range(xs)
           /\ \A i \in 1 .. Len(xs) : Image(s[i], magic, Len(xs)) = i - 1
<1> DEFINE L == Len(xs)
           im(x) == Image(x, magic, L)
           Ordered(s) == /\ s \in [1 .. L -> Range(xs)] /\ Range(s) = Range(xs)
                         /\ \A i, j \in 1 .. L : i < j => im(s[i]) < im(s[j])
<1>1. L \in Nat \ {0} /\ DOMAIN xs = 1 .. L /\ \A i \in 1 .. L : xs[i] \in Nat
  BY SeqElements
<1>2. Range(xs) = {xs[i] : i \in 1 .. L}
  BY RangeEquality
<1> HIDE DEF L
<1>3. \A x \in Nat : im(x) \in 0 .. L - 1
  <2> SUFFICES ASSUME NEW x \in Nat
               PROVE  im(x) \in 0 .. L - 1
    OBVIOUS
  <2>1. x * magic \in Nat
    OBVIOUS
  <2>2. (x * magic) \div Shift \in Nat
    BY <2>1, WidthAssumption, Division
  <2> QED
    BY <1>1, <2>2, Division DEF Image
<1>4. \A i, j \in 1 .. L : i # j => im(xs[i]) # im(xs[j])
  BY <1>1 DEF Perfect, L
<1> HIDE DEF im
<1> DEFINE f == [i \in 1 .. L |-> im(xs[i])]
<1>5. f \in [1 .. L -> 0 .. L - 1]
  BY <1>1, <1>3
<1>6. ASSUME NEW y \in 0 .. L - 1
      PROVE  \E i \in 1 .. L : im(xs[i]) = y
  <2>1. f \in Injection(1 .. L, 0 .. L - 1)
    BY <1>4, <1>5 DEF Injection, IsInjective
  <2>2. IsFiniteSet(0 .. L - 1) /\ Cardinality(1 .. L) = Cardinality(0 .. L - 1)
    <3>1. 0 \in Int /\ 1 \in Int /\ L \in Int /\ L - 1 \in Int
      BY <1>1
    <3>2. /\ IsFiniteSet(0 .. L - 1)
          /\ Cardinality(0 .. L - 1) = IF 0 > L - 1 THEN 0 ELSE (L - 1) - 0 + 1
      BY <3>1, FS_Interval
    <3>3. Cardinality(1 .. L) = IF 1 > L THEN 0 ELSE L - 1 + 1
      BY <3>1, FS_Interval
    <3> QED
      BY <3>2, <3>3, <1>1
  <2> HIDE DEF f
  <2>3. f \in Surjection(1 .. L, 0 .. L - 1)
    BY <2>1, <2>2, FS_Injection
  <2> USE DEF f
  <2> QED
    BY <2>3 DEF Surjection
<1> HIDE DEF f
<1> DEFINE at(i) == CHOOSE j \in 1 .. L : im(xs[j]) = i - 1
           s == [i \in 1 .. L |-> xs[at(i)]]
<1>7. \A i \in 1 .. L : at(i) \in 1 .. L /\ im(xs[at(i)]) = i - 1
  <2>1. \A i \in 1 .. L : i - 1 \in 0 .. L - 1
    BY <1>1
  <2> QED
    BY <2>1, <1>6
<1> HIDE DEF at
<1>8. s \in [1 .. L -> Range(xs)]
  BY <1>2, <1>7
<1>9. \A i, j \in 1 .. L : i < j => im(s[i]) < im(s[j])
  <2>1. \A i \in 1 .. L : im(s[i]) = i - 1
    BY <1>7
  <2> HIDE DEF s
  <2> QED
    BY <2>1, <1>1
<1>10. Range(s) = Range(xs)
  <2>1. ASSUME NEW k \in 1 .. L
        PROVE  \E i \in 1 .. L : s[i] = xs[k]
    <3>1. im(xs[k]) + 1 \in 1 .. L /\ (im(xs[k]) + 1) - 1 = im(xs[k])
      <4>1. im(xs[k]) \in 0 .. L - 1
        BY <1>1, <1>3
      <4> QED
        BY <4>1, <1>1
    <3>2. at(im(xs[k]) + 1) = k
      BY <3>1, <1>4, <1>7
    <3> QED
      BY <3>1, <3>2
  <2>2. Range(s) = {s[i] : i \in 1 .. L}
    BY DEF Range
  <2>3. \A i \in 1 .. L : s[i] \in Range(xs)
    BY <1>8
  <2> HIDE DEF s
  <2>4. Range(s) \subseteq Range(xs)
    BY <2>2, <2>3
  <2>5. Range(xs) \subseteq Range(s)
    BY <1>2, <2>1, <2>2
  <2> QED
    BY <2>4, <2>5
<1>11. Ordered(s)
  BY <1>8, <1>9, <1>10
<1> HIDE DEF s
<1> DEFINE o == ImageOrder(xs, magic)
<1>12. Ordered(o)
  BY <1>11 DEF ImageOrder, L, im
<1> HIDE DEF o
<1> DEFINE a == [i \in 1 .. L |-> im(o[i])]
<1>13. \A i \in 1 .. L : o[i] \in Nat
  BY <1>1, <1>2, <1>12
<1>14. a \in [1 .. L -> 0 .. L - 1] /\ \A i, j \in 1 .. L : i < j => a[i] < a[j]
  BY <1>3, <1>12, <1>13
<1>15. \A i \in 1 .. L : a[i] = i - 1
  <2> HIDE DEF a
  <2> QED
    BY <1>1, <1>14, Rising
<1>16. \A i \in 1 .. L : im(o[i]) = i - 1
  BY <1>15
<1> QED
  BY <1>12, <1>16 DEF o, L, im

-----------------------------------------------------------------------------
(* The packed words.                                                         *)

LEMMA FieldsApart ==
  ASSUME NEW a \in Nat, NEW d1 \in Nat \ {0}, NEW r1 \in 0 .. d1 - 1,
         NEW d2 \in Nat \ {0}, NEW r2 \in 0 .. d2 - 1,
         NEW v, v = (a * d1 + r1) * d2 + r2
  PROVE  /\ v \in Nat
         /\ v % d2 = r2
         /\ (v \div d2) % d1 = r1
         /\ v \div (d1 * d2) = a
         /\ v \div (d2 * d1) = a
<1> DEFINE low == r1 * d2 + r2
<1>1. a * d1 + r1 \in Nat
  BY Z3
<1>2. v % d2 = r2 /\ v \div d2 = a * d1 + r1
  BY <1>1, Unpacking
<1>3. (v \div d2) % d1 = r1
  <2>1. (a * d1 + r1) % d1 = r1
    BY Unpacking
  <2> QED
    BY <1>2, <2>1
<1>4. d1 * d2 \in Nat \ {0} /\ d2 * d1 = d1 * d2
  BY Z3
<1>5. low \in 0 .. d1 * d2 - 1
  <2>1. PICK h \in Nat : d1 = r1 + 1 + h
    <3>1. d1 - r1 - 1 \in Nat /\ d1 = r1 + 1 + (d1 - r1 - 1)
      OBVIOUS
    <3> QED
      BY <3>1
  <2>2. d1 * d2 = r1 * d2 + d2 + h * d2
    BY <2>1
  <2>3. h * d2 \in Nat /\ r1 * d2 \in Nat
    OBVIOUS
  <2> QED
    BY <2>2, <2>3
<1>6. v = a * (d1 * d2) + low
  BY Z3
<1>7. v \div (d1 * d2) = a
  <2> HIDE DEF low
  <2> QED
    BY <1>4, <1>5, <1>6, Unpacking
<1>8. v \in Nat
  BY <1>1
<1> QED
  BY <1>2, <1>3, <1>4, <1>7, <1>8

LEMMA TimesMonotone ==
  ASSUME NEW w \in Nat, NEW x \in Nat, NEW y \in Nat, x <= y
  PROVE  w * x \in Nat /\ w * y \in Nat /\ w * x <= w * y
<1>1. PICK d \in Nat : y = x + d
  <2>1. y - x \in Nat /\ y = x + (y - x)
    OBVIOUS
  <2> QED
    BY <2>1
<1>2. w * y = w * x + w * d /\ w * x \in Nat /\ w * d \in Nat
  BY <1>1
<1> QED
  BY <1>2

LEMMA CalldatasizeOf ==
  ASSUME functions \in Contracts, NEW e \in EntryPoints
  PROVE  /\ MinCalldatasize(e) \in Nat
         /\ MinCalldatasize(e) >= IdBytes
         /\ MinCalldatasize(e) % 2 = 0
<1>1. e[1] \in 1 .. Len(functions) /\ e[2] \in 1 .. Len(functions[e[1]].ids)
  BY EntryPointsTyped
<1>2. functions[e[1]] \in [ids : Seq(MethodIds), args : Nat, payable : BOOLEAN]
  BY <1>1, EntryPointsTyped, ElementOfSeq
<1>3. Len(functions[e[1]].ids) \in Nat /\ functions[e[1]].args \in Nat
  BY <1>2, LenProperties
<1>4. PICK k \in Nat : functions[e[1]].args + e[2] - 1 = k
  BY <1>1, <1>3
<1>5. PICK h \in Nat, w \in Nat : IdBytes = 2 * h /\ Word = 2 * w
  BY WidthAssumption
<1>6. Word * k = 2 * (w * k) /\ w * k \in Nat
  BY <1>5
<1>7. MinCalldatasize(e) = IdBytes + Word * k
  BY <1>4 DEF MinCalldatasize
<1> QED
  BY <1>5, <1>6, <1>7

LEMMA CalldataBounded ==
  ASSUME functions \in Contracts
  PROVE  \E K \in Nat : \A e \in EntryPoints : MinCalldatasize(e) <= K
<1> DEFINE Bounds(n, K) == \A e \in EntryPoints : e[1] <= n => MinCalldatasize(e) <= K
           Bad == {n \in 0 .. Len(functions) : ~\E K \in Nat : Bounds(n, K)}
<1>1. Len(functions) \in Nat
  BY EntryPointsTyped, LenProperties
<1>2. Bad \in SUBSET Nat
  BY <1>1
<1>3. Bad = {}
  <2> SUFFICES ASSUME Bad # {}
               PROVE  FALSE
    OBVIOUS
  <2>1. PICK n \in Bad : \A y \in Bad : n <= y
    <3> HIDE DEF Bad
    <3> QED
      BY <1>2, LeastNumber
  <2>2. n \in 0 .. Len(functions) /\ \A K \in Nat : ~Bounds(n, K)
    OBVIOUS
  <2>3. n # 0
    <3>1. \A e \in EntryPoints : ~(e[1] <= 0)
      BY EntryPointsTyped
    <3>2. Bounds(0, 0)
      BY <3>1
    <3> HIDE DEF Bounds
    <3> QED
      BY <3>2, <2>2
  <2>4. n - 1 \in 0 .. Len(functions) /\ ~(n <= n - 1) /\ n \in 1 .. Len(functions)
    BY <2>2, <2>3, <1>1
  <2>5. PICK K \in Nat : Bounds(n - 1, K)
    <3>1. n - 1 \notin Bad
      <4> HIDE DEF Bad
      <4> QED
        BY <2>1, <2>4
    <3> QED
      BY <3>1, <2>4
  <2>6. functions[n] \in [ids : Seq(MethodIds), args : Nat, payable : BOOLEAN]
    BY <2>4, EntryPointsTyped, ElementOfSeq
  <2>7. PICK x \in Nat, l \in Nat : x = functions[n].args /\ l = Len(functions[n].ids)
    BY <2>6, LenProperties
  <2>8. PICK M \in Nat : M = IdBytes + Word * (x + l)
    BY WidthAssumption
  <2>9. ASSUME NEW e \in EntryPoints, e[1] = n
        PROVE  MinCalldatasize(e) <= M
    <3>1. e[2] \in 1 .. l
      BY <2>7, <2>9, EntryPointsTyped
    <3>2. PICK y \in Nat : y = x + e[2] - 1 /\ y <= x + l
      BY <3>1
    <3>3. Word * y <= Word * (x + l) /\ Word * y \in Nat /\ Word * (x + l) \in Nat
      <4>1. Word \in Nat /\ x + l \in Nat
        BY WidthAssumption
      <4> QED
        BY <3>2, <4>1, TimesMonotone
    <3>4. MinCalldatasize(e) = IdBytes + Word * y
      BY <2>7, <2>9, <3>2 DEF MinCalldatasize
    <3> QED
      <4>1. PICK p \in Nat, q \in Nat : p = Word * y /\ q = Word * (x + l) /\ p <= q
        BY <3>3
      <4>2. MinCalldatasize(e) = IdBytes + p /\ M = IdBytes + q
        BY <2>8, <3>4, <4>1
      <4>3. IdBytes \in Nat
        BY WidthAssumption
      <4> QED
        BY <4>1, <4>2, <4>3
  <2>10. ASSUME NEW e \in EntryPoints, e[1] <= n
         PROVE  MinCalldatasize(e) <= K + M
    <3>1. e[1] \in Nat /\ MinCalldatasize(e) \in Nat
      <4>1. e[1] \in 1 .. Len(functions)
        BY EntryPointsTyped
      <4>2. MinCalldatasize(e) \in Nat
        BY CalldatasizeOf
      <4> QED
        BY <4>1, <4>2
    <3>2. CASE e[1] = n
      BY <3>1, <3>2, <2>9
    <3>3. CASE e[1] # n
      <4>1. e[1] <= n - 1
        BY <3>1, <3>3, <2>2, <2>10
      <4> QED
        BY <4>1, <3>1, <2>5
    <3> QED
      BY <3>2, <3>3
  <2>11. K + M \in Nat /\ Bounds(n, K + M)
    BY <2>10
  <2> HIDE DEF Bounds
  <2> QED
    BY <2>2, <2>11
<1>4. PICK K \in Nat : Bounds(Len(functions), K)
  <2>1. Len(functions) \in 0 .. Len(functions)
    BY <1>1
  <2> HIDE DEF Bounds
  <2> QED
    BY <1>3, <2>1
<1>5. \A e \in EntryPoints : e[1] <= Len(functions)
  BY <1>1, EntryPointsTyped
<1> QED
  BY <1>4, <1>5

LEMMA LargestIsLargest ==
  ASSUME functions \in Contracts, EntryPoints # {}
  PROVE  /\ LargestMinCalldatasize \in Nat \ {0}
         /\ \A e \in EntryPoints : MinCalldatasize(e) <= LargestMinCalldatasize
<1> DEFINE sizes == {MinCalldatasize(e) : e \in EntryPoints}
<1>1. sizes # {} /\ sizes \subseteq Nat \ {0}
  BY CalldatasizeOf, WidthAssumption
<1>2. PICK K \in Nat : \A m \in sizes : m <= K
  BY CalldataBounded
<1>3. LargestMinCalldatasize = Max(sizes)
  BY DEF LargestMinCalldatasize
<1>4. \A e \in EntryPoints : MinCalldatasize(e) \in sizes
  OBVIOUS
<1> HIDE DEF sizes
<1> DEFINE T == {K - m : m \in sizes}
<1>5. T \in SUBSET Nat /\ T # {}
  BY <1>1, <1>2
<1>6. PICK t \in T : \A y \in T : t <= y
  <2> HIDE DEF T
  <2> QED
    BY <1>5, LeastNumber
<1>7. PICK m \in sizes : t = K - m
  BY <1>6
<1>8. \A k \in sizes : K - m <= K - k
  BY <1>6, <1>7
<1>9. \A k \in sizes : m >= k
  BY <1>1, <1>8
<1>10. Max(sizes) \in sizes /\ \A k \in sizes : Max(sizes) >= k
  BY <1>9 DEF Max
<1> QED
  BY <1>1, <1>3, <1>4, <1>10

LEMMA PowerGrows ==
  ASSUME NEW n \in Nat
  PROVE  n < Power[n]
<1> DEFINE Bad == {k \in Nat : ~(k < Power[k])}
<1> SUFFICES ASSUME Bad # {}
             PROVE  FALSE
  OBVIOUS
<1>1. Bad \in SUBSET Nat
  OBVIOUS
<1>2. PICK k \in Bad : \A y \in Bad : k <= y
  <2> HIDE DEF Bad
  <2> QED
    BY <1>1, LeastNumber
<1>3. k \in Nat /\ ~(k < Power[k])
  OBVIOUS
<1>4. k # 0
  BY <1>3, PowerSteps
<1>5. k - 1 \in Nat /\ ~(k <= k - 1) /\ k \in Nat \ {0}
  BY <1>3, <1>4
<1>6. k - 1 \notin Bad
  <2> HIDE DEF Bad
  <2> QED
    BY <1>2, <1>5
<1>7. PICK p \in Nat \ {0} : p = Power[k - 1] /\ k - 1 < p /\ Power[k] = Byte * p
  BY <1>5, <1>6, PowerSteps
<1>8. PICK h \in Nat \ {0} : Byte = 2 * h
  BY WidthAssumption
<1>9. PICK g \in Nat : h = g + 1
  <2>1. h - 1 \in Nat /\ h = (h - 1) + 1
    BY <1>8
  <2> QED
    BY <2>1
<1>10. Byte * p = 2 * p + 2 * (g * p) /\ g * p \in Nat
  BY <1>8, <1>9
<1> QED
  BY <1>3, <1>5, <1>7, <1>10

LEMMA MetadataFits ==
  ASSUME functions \in Contracts, EntryPoints # {}
  PROVE  /\ MetadataSpace \in Nat \ {0} /\ MetadataSpace % 2 = 0
         /\ \A e \in EntryPoints :
              /\ Metadata(e) \in 0 .. MetadataSpace - 1
              /\ Metadata(e) % 2 = IF Payable(e) THEN 0 ELSE 1
              /\ Metadata(e) - (Metadata(e) % 2) = MinCalldatasize(e)
<1> DEFINE L == LargestMinCalldatasize
           enough == {n \in Nat \ {0} : L < Power[n]}
<1>1. L \in Nat \ {0}
  BY LargestIsLargest
<1>2. enough \in SUBSET Nat /\ L \in enough
  BY <1>1, PowerGrows
<1>3. PICK n \in enough : \A y \in enough : n <= y
  <2> HIDE DEF enough
  <2> QED
    BY <1>2, LeastNumber
<1>4. n \in 1 .. L /\ L < Power[n]
  BY <1>1, <1>2, <1>3
<1>5. n > 1 => L >= Power[n - 1]
  <2> SUFFICES ASSUME n > 1
               PROVE  L >= Power[n - 1]
    OBVIOUS
  <2>1. n - 1 \in Nat \ {0} /\ ~(n <= n - 1)
    BY <1>4
  <2>2. n - 1 \notin enough
    <3> HIDE DEF enough
    <3> QED
      BY <1>3, <2>1
  <2> QED
    BY <1>1, <2>1, <2>2, PowerSteps
<1>6. MetadataBytes \in 1 .. L /\ L < Power[MetadataBytes]
  <2> HIDE DEF enough
  <2> QED
    BY <1>4, <1>5 DEF MetadataBytes
<1>7. MetadataSpace \in Nat \ {0} /\ MetadataSpace % 2 = 0 /\ L < MetadataSpace
  BY <1>1, <1>6, PowersDivide DEF MetadataSpace
<1>8. ASSUME NEW e \in EntryPoints
      PROVE  /\ Metadata(e) \in 0 .. MetadataSpace - 1
             /\ Metadata(e) % 2 = IF Payable(e) THEN 0 ELSE 1
             /\ Metadata(e) - (Metadata(e) % 2) = MinCalldatasize(e)
  <2>1. PICK m \in Nat : m = MinCalldatasize(e) /\ m % 2 = 0 /\ m <= L
    BY CalldatasizeOf, LargestIsLargest
  <2>2. Payable(e) \in BOOLEAN
    BY EntryPointsTyped
  <2>3. Metadata(e) = m + (IF Payable(e) THEN 0 ELSE 1)
    BY <2>1 DEF Metadata
  <2>4. PICK z \in Nat : z = MetadataSpace /\ z % 2 = 0 /\ m < z
    BY <1>1, <1>7, <2>1
  <2>5. m + 1 < z /\ (m + 1) % 2 = 1
    BY <2>1, <2>4
  <2>6. CASE Payable(e)
    BY <2>1, <2>3, <2>4, <2>6
  <2>7. CASE ~Payable(e)
    BY <2>1, <2>3, <2>4, <2>5, <2>7
  <2> QED
    BY <2>6, <2>7
<1> QED
  BY <1>7, <1>8

LEMMA LabelsFound ==
  ASSUME functions \in Contracts, NEW e \in EntryPoints
  PROVE  LabelOf(e) \in 1 .. Len(method_ids) /\ method_ids[LabelOf(e)] = IdOf(e)
<1>1. IdOf(e) \in Range(method_ids)
  BY MethodIdsJoined DEF Sigs
<1>2. \E i \in 1 .. Len(method_ids) : method_ids[i] = IdOf(e)
  BY <1>1, MethodIdsJoined, RangeEquality
<1> QED
  BY <1>2 DEF LabelOf

(* What the emitted code takes out of a packed word.                         *)
LEMMA PackedFields ==
  ASSUME functions \in Contracts, NEW id \in Sigs, LabelOf(SigOf(id)) < LabelSpace
  PROVE  /\ Packed(id) % 2 = IF Payable(SigOf(id)) THEN 0 ELSE 1
         /\ (Packed(id) % MetadataSpace) - (Packed(id) % 2) = MinCalldatasize(SigOf(id))
         /\ (Packed(id) \div MetadataSpace) % LabelSpace = LabelOf(SigOf(id))
         /\ Packed(id) \div (MetadataSpace * LabelSpace) = id
<1>1. SigOf(id) \in EntryPoints /\ IdOf(SigOf(id)) = id
  BY SigOfId
<1>2. PICK e : e = SigOf(id) /\ e \in EntryPoints
  BY <1>1
<1>3. id \in Nat
  BY <1>1, EntryPointsTyped DEF MethodIds
<1>4. PICK L \in Nat \ {0} : L = LabelSpace
  BY PowerSteps DEF LabelSpace
<1>5. PICK l \in 0 .. L - 1 : l = LabelOf(e)
  <2>1. Len(method_ids) \in Nat
    BY MethodIdsJoined, SeqElements
  <2>2. LabelOf(e) \in 1 .. Len(method_ids)
    BY <1>2, LabelsFound
  <2> QED
    BY <1>2, <1>4, <2>1, <2>2
<1>6. PICK M \in Nat \ {0} : M = MetadataSpace /\ M % 2 = 0
  BY <1>2, MetadataFits
<1>7. PICK m \in 0 .. M - 1 : /\ m = Metadata(e)
                              /\ m % 2 = IF Payable(e) THEN 0 ELSE 1
                              /\ m - (m % 2) = MinCalldatasize(e)
  BY <1>2, <1>6, MetadataFits
<1>8. Packed(id) = (id * L + l) * M + m
  BY <1>2, <1>4, <1>5, <1>6, <1>7 DEF Packed
<1>13. PICK P : P = (id * L + l) * M + m
  OBVIOUS
<1>9. P % M = m /\ (P \div M) % L = l /\ P \div (M * L) = id
  <2>1. P % M = m
    BY <1>3, <1>13, FieldsApart
  <2>2. (P \div M) % L = l
    <3>1. PICK A \in Nat : A = id * L + l
      BY <1>3
    <3>2. A % L = l
      BY <1>3, <3>1, Unpacking
    <3>3. P \div M = A
      <4>1. P = A * M + m
        BY <1>13, <3>1
      <4> QED
        BY <4>1, Unpacking
    <3> QED
      BY <3>2, <3>3
  <2>3. P \div (M * L) = id
    BY <1>3, <1>13, FieldsApart
  <2> QED
    BY <2>1, <2>2, <2>3
<1>10. P % 2 = m % 2
  <2>1. PICK h \in Nat : M = 2 * h
    BY <1>6
  <2>2. id * L + l \in Nat
    BY <1>3
  <2>3. (id * L + l) * h \in Nat
    BY <2>2
  <2>4. PICK q \in Nat : q = (id * L + l) * h
    BY <2>3
  <2>5. P = 2 * q + m
    BY <1>13, <2>1, <2>2, <2>4
  <2> QED
    BY <2>5
<1>11. Packed(id) = P
  BY <1>8, <1>13
<1> QED
  BY <1>2, <1>4, <1>5, <1>6, <1>7, <1>9, <1>10, <1>11

-----------------------------------------------------------------------------
(* The data section.                                                         *)

(* Sequences laid one after the other start where the ones before them end.  *)
Lay(before, bk, n) == \A x \in 0 .. n : before[x] = FlattenSeq([k \in 1 .. x |-> bk[k - 1]])
LiesWhole(before, bk, n, b) ==
  \A i \in 1 .. Len(bk[b]) : /\ Len(before[b]) + i \in 1 .. Len(before[n])
                             /\ before[n][Len(before[b]) + i] = bk[b][i]

LEMMA Laid ==
  ASSUME NEW S, NEW n \in Nat \ {0}, NEW bk \in [0 .. n - 1 -> Seq(S)], NEW b \in 0 .. n - 1,
         NEW before, Lay(before, bk, n)
  PROVE  /\ before[n] \in Seq(S)
         /\ Len(before[b]) \in Nat
         /\ LiesWhole(before, bk, n, b)
<1> DEFINE first(x) == [k \in 1 .. x |-> bk[k - 1]]
<1>1. ASSUME NEW x \in 0 .. n
      PROVE  /\ first(x) \in Seq(Seq(S)) /\ Len(first(x)) = x
             /\ \A k \in 1 .. x : first(x)[k] = bk[k - 1]
  <2>1. \A k \in 1 .. x : k - 1 \in 0 .. n - 1
    OBVIOUS
  <2>2. first(x) \in [1 .. x -> Seq(S)]
    BY <2>1
  <2> QED
    BY <2>2, IsASeq, LenProperties
<1>2. n \in 0 .. n /\ b \in 0 .. n /\ b + 1 \in 1 .. n
  OBVIOUS
<1> HIDE DEF first
<1>3. PICK f : /\ Joins(f, first(n)) /\ FlattenSeq(first(n)) = f[n]
               /\ \A i \in 1 .. n : f[i] \in Seq(S)
  <2>1. first(n) \in Seq(Seq(S)) /\ first(n) # <<>> /\ Len(first(n)) = n
    BY <1>1, <1>2
  <2> QED
    BY <2>1, FlattenJoins
<1>4. f[n] \in Seq(S) /\ Placed(f, first(n), n)
  <2>1. first(n) \in Seq(Seq(S)) /\ Len(first(n)) = n /\ n \in 1 .. n
    BY <1>1, <1>2
  <2> QED
    BY <2>1, <1>3, JoinsPlace
<1>5. Len(FlattenSeq(first(b))) = Start(f, b + 1)
  <2>1. CASE b = 0
    <3>1. first(b) = <<>>
      BY <1>1, <1>2, <2>1
    <3>2. FlattenSeq(first(b)) = <<>>
      BY <3>1 DEF FlattenSeq
    <3> QED
      BY <3>2, <2>1 DEF Start
  <2>2. CASE b # 0
    <3>1. first(b) \in Seq(Seq(S)) /\ first(b) # <<>> /\ Len(first(b)) = b
      BY <1>1, <1>2, <2>2
    <3>2. PICK g : Joins(g, first(b)) /\ FlattenSeq(first(b)) = g[b]
      BY <3>1, FlattenJoins
    <3>3. /\ Len(first(n)) \in Nat /\ Len(first(b)) \in Nat /\ Len(first(b)) <= Len(first(n))
          /\ b \in 1 .. Len(first(b))
      <4>1. Len(first(n)) = n
        BY <1>1, <1>2
      <4>2. b \in 1 .. b /\ b <= n
        BY <2>2
      <4> QED
        BY <3>1, <4>1, <4>2
    <3>4. \A i \in 1 .. Len(first(b)) : first(n)[i] = first(b)[i]
      <4>1. \A i \in 1 .. b : i \in 1 .. n
        OBVIOUS
      <4> QED
        BY <3>1, <4>1, <1>1, <1>2
    <3>5. f[b] = g[b]
      <4>1. \A i \in 1 .. Len(first(b)) : f[i] = g[i]
        <5>1. Begins(first(b), first(n))
          BY <3>3, <3>4 DEF Begins
        <5> QED
          BY <1>3, <3>2, <5>1, JoinsAgree
      <4> QED
        BY <3>3, <4>1
    <3>6. Start(f, b + 1) = Len(f[b])
      BY <2>2 DEF Start
    <3> QED
      BY <3>2, <3>5, <3>6
  <2> QED
    BY <2>1, <2>2
<1>6. Len(FlattenSeq(first(b))) \in Nat
  <2>1. FlattenSeq(first(b)) \in Seq(S)
    BY <1>1, <1>2, Flattened
  <2> QED
    BY <2>1, LenProperties
<1>7. ASSUME NEW j \in 1 .. Len(bk[b])
      PROVE  /\ Len(FlattenSeq(first(b))) + j \in 1 .. Len(FlattenSeq(first(n)))
             /\ FlattenSeq(first(n))[Len(FlattenSeq(first(b))) + j] = bk[b][j]
  <2>1. first(n)[b + 1] = bk[b]
    <3>1. first(n)[b + 1] = bk[(b + 1) - 1]
      BY <1>1, <1>2
    <3>2. (b + 1) - 1 = b
      OBVIOUS
    <3> QED
      BY <3>1, <3>2
  <2>2. /\ Start(f, b + 1) + j \in 1 .. Len(f[n])
        /\ f[n][Start(f, b + 1) + j] = first(n)[b + 1][j]
    BY <1>2, <1>4, <2>1 DEF Placed
  <2> QED
    BY <2>1, <2>2, <1>3, <1>5
<1>8. before[n] = FlattenSeq(first(n)) /\ before[b] = FlattenSeq(first(b))
  BY <1>2 DEF first, Lay
<1>9. LiesWhole(before, bk, n, b)
  BY <1>7, <1>8 DEF LiesWhole
<1> QED
  BY <1>3, <1>4, <1>6, <1>8, <1>9

(* What the search has made sure of when it takes a dense table.             *)
Searched(n) == ~EmptyBuckets(n) /\ \A b \in 0 .. n - 1 : HasMagic(Bucket(n, b))
Fits == ~TooLarge(best.n) /\ ~\E p \in Positions : p >= LabelSpace

LEMMA BucketOfDense ==
  ASSUME functions \in Contracts, NEW n \in Nat \ {0}, best = DenseTable(n), Searched(n), Fits,
         NEW b \in 0 .. n - 1
  PROVE  /\ best.n = n
         /\ best.magic[b] \in Nat
         /\ best.buckets[b] \in Seq(MethodIds) /\ Range(best.buckets[b]) = {x \in Sigs : x % n = b}
         /\ BucketSize(b) \in 1 .. Byte - 1
         /\ \A i \in 1 .. BucketSize(b) :
              Image(best.buckets[b][i], best.magic[b], BucketSize(b)) = i - 1
<1> DEFINE X == Bucket(n, b)
           m == FindMagic(X)
           s == ImageOrder(X, m)
<1>1. b \in Nat /\ X \in Seq(MethodIds) /\ Range(X) = {x \in Sigs : x % n = b}
  BY BucketIds
<1>2. X # <<>> /\ HasMagic(X)
  BY DEF Searched, EmptyBuckets
<1>3. best.n = n /\ best.magic[b] = m /\ best.buckets[b] = s
  BY DEF DenseTable
<1>4. Len(X) \in Nat \ {0} /\ Len(X) < Byte
  <2>1. Len(X) \in Nat \ {0}
    BY <1>1, <1>2
  <2>2. ~(Len(X) >= Byte)
    BY <1>3 DEF Fits, TooLarge
  <2> QED
    BY <2>1, <2>2, WidthAssumption
<1> HIDE DEF X
<1>5. m \in Nat /\ Perfect(X, m)
  BY <1>2, MagicFound, WidthAssumption
<1>6. X \in Seq(Nat)
  <2>1. MethodIds \subseteq Nat
    BY DEF MethodIds
  <2> QED
    BY <1>1, <2>1, SeqMonotonic
<1> HIDE DEF m
<1>7. /\ s \in [1 .. Len(X) -> Range(X)] /\ Range(s) = Range(X)
      /\ \A i \in 1 .. Len(X) : Image(s[i], m, Len(X)) = i - 1
  BY <1>2, <1>5, <1>6, ImagesOrdered
<1> HIDE DEF s
<1>8. Range(X) \subseteq MethodIds
  BY <1>1, RangeOfSeq
<1>9. s \in Seq(MethodIds) /\ Len(s) = Len(X)
  <2>1. s \in [1 .. Len(X) -> MethodIds]
    BY <1>7, <1>8
  <2> QED
    BY <2>1, <1>4, IsASeq, LenProperties
<1>10. BucketSize(b) = Len(X)
  BY <1>3, <1>9 DEF BucketSize
<1> QED
  BY <1>1, <1>3, <1>4, <1>5, <1>7, <1>9, <1>10, WidthAssumption

LEMMA EntriesOfDense ==
  ASSUME functions \in Contracts, NEW n \in Nat \ {0}, best = DenseTable(n), Searched(n), Fits,
         NEW b \in 0 .. n - 1, NEW j \in 1 .. BucketSize(b)
  PROVE  /\ Location(b) \in 0 .. LabelSpace - 1
         /\ FunctionInfos[Location(b) + j] = Packed(best.buckets[b][j])
<1>1. best.n = n
  BY DEF DenseTable
<1>2. best.buckets \in [0 .. n - 1 -> Seq(MethodIds)]
  <2>1. DOMAIN best.buckets = 0 .. n - 1 /\ best.buckets = [k \in 0 .. n - 1 |-> best.buckets[k]]
    BY DEF DenseTable
  <2>2. \A k \in 0 .. n - 1 : best.buckets[k] \in Seq(MethodIds)
    BY BucketOfDense
  <2> QED
    BY <2>1, <2>2
<1>3. /\ EntriesBefore(n) \in Seq(MethodIds)
      /\ Location(b) \in Nat
      /\ \A i \in 1 .. Len(best.buckets[b]) :
           /\ Location(b) + i \in 1 .. Len(EntriesBefore(n))
           /\ EntriesBefore(n)[Location(b) + i] = best.buckets[b][i]
  <2>1. PICK bk \in [0 .. n - 1 -> Seq(MethodIds)] : bk = best.buckets
    BY <1>2
  <2> DEFINE before == [x \in 0 .. n |-> FlattenSeq([k \in 1 .. x |-> bk[k - 1]])]
  <2>2. Lay(before, bk, n)
    BY DEF Lay
  <2>3. EntriesBefore(n) = before[n] /\ EntriesBefore(b) = before[b] /\ Location(b) = Len(before[b])
    BY <2>1 DEF EntriesBefore, Location
  <2> HIDE DEF before
  <2>4. /\ before[n] \in Seq(MethodIds)
        /\ Len(before[b]) \in Nat
        /\ \A i \in 1 .. Len(bk[b]) : /\ Len(before[b]) + i \in 1 .. Len(before[n])
                                      /\ before[n][Len(before[b]) + i] = bk[b][i]
    <3>1. b \in 0 .. n - 1 /\ n \in Nat \ {0} /\ bk \in [0 .. n - 1 -> Seq(MethodIds)]
      OBVIOUS
    <3>2. before[n] \in Seq(MethodIds)
      BY <2>2, <3>1, Laid
    <3>3. Len(before[b]) \in Nat
      BY <2>2, <3>1, Laid
    <3>4. \A i \in 1 .. Len(bk[b]) : /\ Len(before[b]) + i \in 1 .. Len(before[n])
                                      /\ before[n][Len(before[b]) + i] = bk[b][i]
      <4>1. LiesWhole(before, bk, n, b)
        BY <2>2, <3>1, Laid
      <4> QED
        BY <4>1 DEF LiesWhole
    <3> QED
      BY <3>2, <3>3, <3>4
  <2> QED
    BY <2>1, <2>3, <2>4
<1>5. LabelSpace \in Nat
  BY PowerSteps DEF LabelSpace
<1>4. Location(b) < LabelSpace
  <2>1. ~(Location(b) >= LabelSpace)
    BY <1>1 DEF Fits, Positions
  <2> QED
    BY <2>1, <1>3, <1>5
<1>6. /\ Location(b) + j \in 1 .. Len(EntriesBefore(n))
      /\ EntriesBefore(n)[Location(b) + j] = best.buckets[b][j]
  BY <1>3 DEF BucketSize
<1>7. DOMAIN EntriesBefore(n) = 1 .. Len(EntriesBefore(n))
  BY <1>3, LenProperties
<1>8. FunctionInfos[Location(b) + j] = Packed(EntriesBefore(n)[Location(b) + j])
  BY <1>1, <1>6, <1>7 DEF FunctionInfos
<1> QED
  BY <1>3, <1>4, <1>5, <1>6, <1>8

-----------------------------------------------------------------------------
(* The three sections.                                                       *)

LEMMA CallTyped ==
  ASSUME NEW c \in Calls
  PROVE  c.id \in Nat /\ c.id \in MethodIds /\ c.size \in Nat /\ c.value \in Nat
BY CallAssumption DEF MethodIds

(* A short calldata that reads as a method id ends with a zero byte.         *)
LEMMA ShortCall ==
  ASSUME NEW c \in Calls, c.size < IdBytes
  PROVE  c.id % Byte = 0
<1>1. c.id \in Nat /\ c.size \in Nat /\ IdBytes \in Nat
  BY CallTyped, WidthAssumption
<1>2. PICK d \in Nat \ {0} : d = IdBytes - c.size
  BY <1>1
<1>3. c.id % Power[d] = 0
  BY <1>2, CallAssumption
<1> QED
  BY <1>1, <1>3, PowersDivide

LEMMA LinearRight ==
  ASSUME functions \in Contracts, NEW c \in Calls
  PROVE  LinearSection(c) = Declared(c)
<1>1. c.size \in Nat /\ c.value \in Nat
  BY CallTyped
<1>2. CASE c.size < IdBytes \/ c.id \notin Sigs
  BY <1>2 DEF LinearSection, Declared
<1>3. CASE ~(c.size < IdBytes \/ c.id \notin Sigs)
  <2>1. SigOf(c.id) \in EntryPoints
    BY <1>3, SigOfId
  <2>2. MinCalldatasize(SigOf(c.id)) \in Nat
    BY <2>1, CalldatasizeOf
  <2>3. /\ c.value > 0 <=> c.value # 0
        /\ c.size < MinCalldatasize(SigOf(c.id)) <=> ~(c.size >= MinCalldatasize(SigOf(c.id)))
    BY <1>1, <2>2
  <2> QED
    BY <1>3, <2>3 DEF LinearSection, Declared
<1> QED
  BY <1>2, <1>3

LEMMA SparseRight ==
  ASSUME functions \in Contracts, NEW c \in Calls,
         functions = <<>> \/ \E n \in Nat \ {0} : best = SparseTable(n)
  PROVE  SparseSection(c) = Declared(c)
<1> DEFINE hits == {id \in SparseBucket(c) : MethodIdCheck(c, id)}
<1>1. c.id \in Nat /\ c.size \in Nat /\ c.value \in Nat
  BY CallTyped
<1>2. CASE functions = <<>>
  <2>1. EntryPoints = {}
    BY <1>2, EntryPointsTyped
  <2>2. c.id \notin Sigs
    BY <2>1 DEF Sigs
  <2> QED
    BY <1>2, <2>2 DEF SparseSection, Declared
<1>3. CASE functions # <<>>
  <2>1. PICK n \in Nat \ {0} : best = SparseTable(n)
    BY <1>3
  <2>2. c.id % n \in 0 .. n - 1 /\ c.id % n \in Nat
    <3>1. \A x \in Nat : x % n \in 0 .. n - 1
      BY Division
    <3>2. 0 .. n - 1 \subseteq Nat
      OBVIOUS
    <3> QED
      BY <1>1, <3>1, <3>2
  <2>3. SparseBucket(c) = Range(Bucket(n, c.id % n))
    BY <2>1, <2>2 DEF SparseBucket, SparseTable
  <2>4. SparseBucket(c) = {x \in Sigs : x % n = c.id % n}
    BY <2>2, <2>3, BucketIds
  <2>5. \A id : id \in hits <=> /\ id \in Sigs /\ id = c.id
                                /\ (c.id % Byte = 0 => c.size >= IdBytes)
    BY <2>4 DEF MethodIdCheck
  <2>6. CASE c.size < IdBytes \/ c.id \notin Sigs
    <3>1. hits = {}
      <4>1. c.size < IdBytes => ~(c.size >= IdBytes)
        BY <1>1, WidthAssumption
      <4> HIDE DEF hits
      <4> QED
        BY <2>5, <2>6, <4>1, ShortCall
    <3> QED
      BY <3>1, <2>6 DEF SparseSection, Declared
  <2>7. CASE ~(c.size < IdBytes \/ c.id \notin Sigs)
    <3>1. c.size >= IdBytes
      BY <2>7, <1>1, WidthAssumption
    <3>2. hits = {c.id}
      <4> HIDE DEF hits
      <4> QED
        BY <2>5, <2>7, <3>1
    <3>3. PICK e : e = SigOf(c.id) /\ e \in EntryPoints
      BY <2>7, SigOfId
    <3>4. MinCalldatasize(e) \in Nat /\ MinCalldatasize(e) >= IdBytes
      BY <3>3, CalldatasizeOf
    <3>5. /\ c.value > 0 <=> c.value # 0
          /\ (MinCalldatasize(e) # IdBytes /\ c.size < MinCalldatasize(e))
                <=> ~(c.size >= MinCalldatasize(e))
      BY <1>1, <3>1, <3>4, WidthAssumption
    <3>6. SparseSection(c) = IF (c.value # 0 /\ ~Payable(e)) \/ ~(c.size >= MinCalldatasize(e))
                             THEN Revert ELSE Goto(e)
      <4>1. (CHOOSE id \in hits : TRUE) = c.id /\ hits # {}
        BY <3>2
      <4>2. SparseSection(c) = LET x == SigOf(CHOOSE id \in hits : TRUE) IN
                                 IF \/ c.value > 0 /\ ~Payable(x)
                                    \/ MinCalldatasize(x) # IdBytes /\ c.size < MinCalldatasize(x)
                                 THEN Revert ELSE Goto(x)
        BY <1>3, <4>1 DEF SparseSection
      <4> HIDE DEF hits
      <4> QED
        BY <3>3, <3>5, <4>1, <4>2
    <3> QED
      BY <2>7, <3>3, <3>6 DEF Declared
  <2> QED
    BY <2>6, <2>7
<1> QED
  BY <1>2, <1>3

LEMMA HeaderFields ==
  ASSUME functions \in Contracts, NEW n \in Nat \ {0}, best = DenseTable(n), Searched(n), Fits,
         NEW b \in 0 .. n - 1
  PROVE  /\ Header(b) \div (LabelSpace * Byte) = best.magic[b]
         /\ (Header(b) \div Byte) % LabelSpace = Location(b)
         /\ Header(b) % Byte = BucketSize(b)
<1>1. PICK m \in Nat : m = best.magic[b]
  BY BucketOfDense
<1>2. PICK L \in Nat \ {0} : L = LabelSpace
  BY PowerSteps DEF LabelSpace
<1>3. PICK B \in Nat \ {0} : B = Byte
  BY WidthAssumption
<1>4. PICK z \in 0 .. B - 1 : z = BucketSize(b) /\ 1 \in 1 .. z
  <2>1. BucketSize(b) \in 1 .. Byte - 1
    BY BucketOfDense
  <2> QED
    BY <1>3, <2>1
<1>5. PICK l \in 0 .. L - 1 : l = Location(b)
  BY <1>2, <1>4, EntriesOfDense
<1>6. PICK v : v = (m * L + l) * B + z
  OBVIOUS
<1>7. Header(b) = v
  BY <1>1, <1>2, <1>3, <1>4, <1>5, <1>6 DEF Header
<1>8. v % B = z
  BY <1>6, FieldsApart
<1>9. v \div (L * B) = m
  BY <1>6, FieldsApart
<1>10. (v \div B) % L = l
  <2>1. PICK A \in Nat : A = m * L + l
    OBVIOUS
  <2>2. A % L = l
    BY <2>1, Unpacking
  <2>3. v \div B = A
    <3>1. v = A * B + z
      BY <1>6, <2>1
    <3> QED
      BY <3>1, Unpacking
  <2> QED
    BY <2>2, <2>3
<1> QED
  BY <1>1, <1>2, <1>3, <1>4, <1>5, <1>7, <1>8, <1>9, <1>10

LEMMA LabelsFit ==
  ASSUME functions \in Contracts, Fits, NEW e \in EntryPoints
  PROVE  LabelOf(e) < LabelSpace
<1>1. LabelOf(e) \in 1 .. Len(method_ids)
  BY LabelsFound
<1>2. DOMAIN method_ids = 1 .. Len(method_ids)
  BY MethodIdsJoined, SeqElements
<1>3. ~(LabelOf(e) >= LabelSpace)
  BY <1>1, <1>2 DEF Fits, Positions
<1>4. LabelSpace \in Nat
  BY PowerSteps DEF LabelSpace
<1> QED
  BY <1>1, <1>3, <1>4

LEMMA DenseRight ==
  ASSUME functions \in Contracts, NEW c \in Calls,
         functions = <<>> \/ \E n \in Nat \ {0} : best = DenseTable(n) /\ Searched(n) /\ Fits
  PROVE  DenseSection(c) = Declared(c)
<1>1. c.id \in Nat /\ c.size \in Nat /\ c.value \in Nat
  BY CallTyped
<1>2. CASE functions = <<>>
  <2>1. EntryPoints = {}
    BY <1>2, EntryPointsTyped
  <2>2. c.id \notin Sigs
    BY <2>1 DEF Sigs
  <2> QED
    BY <1>2, <2>2 DEF DenseSection, Declared
<1>3. CASE functions # <<>>
  <2>1. PICK n \in Nat \ {0} : best = DenseTable(n) /\ Searched(n) /\ Fits
    BY <1>3
  <2>2. PICK b \in 0 .. n - 1 : b = c.id % n
    <3>1. \A x \in Nat : x % n \in 0 .. n - 1
      BY Division
    <3> QED
      BY <1>1, <3>1
  <2>3. best.n = n
    BY <2>1, BucketOfDense
  <2>4. PICK m \in Nat, z \in Nat \ {0} : m = best.magic[b] /\ z = BucketSize(b)
    <3>1. best.magic[b] \in Nat /\ BucketSize(b) \in 1 .. Byte - 1
      BY <2>1, BucketOfDense
    <3> QED
      BY <3>1
  <2>5. PICK B \in Seq(MethodIds) : /\ B = best.buckets[b] /\ Len(B) = z
                                    /\ Range(B) = {x \in Sigs : x % n = b}
                                    /\ \A i \in 1 .. z : Image(B[i], m, z) = i - 1
    <3>1. best.buckets[b] \in Seq(MethodIds) /\ Range(best.buckets[b]) = {x \in Sigs : x % n = b}
      BY <2>1, BucketOfDense
    <3>2. \A i \in 1 .. BucketSize(b) : Image(best.buckets[b][i], best.magic[b], BucketSize(b)) = i - 1
      BY <2>1, BucketOfDense
    <3> QED
      BY <3>1, <3>2, <2>4 DEF BucketSize
  <2>6. PICK k \in 0 .. z - 1 : k = Image(c.id, m, z) /\ k = ((m * c.id) \div Shift) % z
    <3>1. PICK x \in Nat : x = c.id
      BY <1>1
    <3>2. x * m \in Nat /\ m * x = x * m
      OBVIOUS
    <3>3. (x * m) \div Shift \in Nat
      BY <3>2, WidthAssumption, Division
    <3>4. ((x * m) \div Shift) % z \in 0 .. z - 1
      BY <3>3, Division
    <3> QED
      BY <3>1, <3>2, <3>4 DEF Image
  <2>7. PICK id : id = B[k + 1] /\ id \in Sigs /\ FunctionInfos[Location(b) + k + 1] = Packed(id)
    <3>1. k + 1 \in 1 .. z /\ Location(b) + (k + 1) = Location(b) + k + 1
      <4>1. Location(b) \in 0 .. LabelSpace - 1
        <5>1. 1 \in 1 .. BucketSize(b)
          BY <2>4
        <5> QED
          BY <2>1, <5>1, EntriesOfDense
      <4> QED
        BY <4>1
    <3>2. B[k + 1] \in Range(B)
      BY <3>1, <2>5, RangeEquality
    <3>3. FunctionInfos[Location(b) + (k + 1)] = Packed(best.buckets[b][k + 1])
      BY <2>1, <2>4, <3>1, EntriesOfDense
    <3> QED
      BY <2>5, <3>1, <3>2, <3>3
  <2>8. id = c.id <=> c.id \in Sigs
    <3>1. ASSUME c.id \in Sigs
          PROVE  id = c.id
      <4>1. c.id \in Range(B)
        BY <2>2, <2>5, <3>1
      <4>2. PICK i \in 1 .. z : B[i] = c.id
        BY <2>5, <4>1, RangeEquality
      <4>3. i - 1 = k
        BY <2>5, <2>6, <4>2
      <4>4. i = k + 1
        BY <4>3
      <4> QED
        BY <2>7, <4>2, <4>4
    <3> QED
      BY <2>7, <3>1
  <2>9. PICK e : e = SigOf(id) /\ e \in EntryPoints /\ IdOf(e) = id
    BY <2>7, SigOfId
  <2>10. /\ Packed(id) % 2 = IF Payable(e) THEN 0 ELSE 1
         /\ (Packed(id) % MetadataSpace) - (Packed(id) % 2) = MinCalldatasize(e)
         /\ (Packed(id) \div MetadataSpace) % LabelSpace = LabelOf(e)
         /\ Packed(id) \div (MetadataSpace * LabelSpace) = id
    <3>1. LabelOf(SigOf(id)) < LabelSpace
      BY <2>1, <2>9, LabelsFit
    <3> QED
      BY <2>7, <2>9, <3>1, PackedFields
  <2>11. method_ids[LabelOf(e)] = id
    BY <2>9, LabelsFound
  <2>12. /\ Header(b) \div (LabelSpace * Byte) = m
         /\ (Header(b) \div Byte) % LabelSpace = Location(b)
         /\ Header(b) % Byte = z
    BY <2>1, <2>4, HeaderFields
  <2>13. DenseSection(c) =
           IF ~(c.size > IdBytes - 1 /\ id = c.id) THEN Fallback
           ELSE IF (IF Payable(e) THEN 0 ELSE 1) * c.value > 0 \/ c.size < MinCalldatasize(e) THEN Revert
           ELSE Goto(SigOf(id))
    <3> DEFINE func_id == (((Header(c.id % best.n) \div (LabelSpace * Byte)) * c.id) \div Shift)
                              % (Header(c.id % best.n) % Byte)
               func_info == FunctionInfos[((Header(c.id % best.n) \div Byte) % LabelSpace) + func_id + 1]
    <3>1. c.id % best.n = b
      BY <2>2, <2>3
    <3>2. func_id = k
      BY <3>1, <2>6, <2>12
    <3> HIDE DEF func_id
    <3>3. func_info = Packed(id)
      BY <3>1, <3>2, <2>7, <2>12
    <3>4. DenseSection(c) =
            IF ~(c.size > IdBytes - 1 /\ func_info \div (MetadataSpace * LabelSpace) = c.id) THEN Fallback
            ELSE IF \/ (func_info % 2) * c.value > 0
                    \/ c.size < (func_info % MetadataSpace) - (func_info % 2) THEN Revert
            ELSE Goto(SigOf(method_ids[(func_info \div MetadataSpace) % LabelSpace]))
      BY <1>3 DEF DenseSection, func_id
    <3> HIDE DEF func_info
    <3> QED
      BY <3>3, <3>4, <2>10, <2>11
  <2>14. MinCalldatasize(e) \in Nat /\ Payable(e) \in BOOLEAN
    BY <2>9, CalldatasizeOf, EntryPointsTyped
  <2>15. /\ c.size > IdBytes - 1 <=> ~(c.size < IdBytes)
         /\ c.size < MinCalldatasize(e) <=> ~(c.size >= MinCalldatasize(e))
         /\ (IF Payable(e) THEN 0 ELSE 1) * c.value > 0 <=> ~(Payable(e) \/ c.value = 0)
    BY <1>1, <2>14, WidthAssumption
  <2> QED
    BY <2>8, <2>9, <2>13, <2>15 DEF Declared
<1> QED
  BY <1>2, <1>3

-----------------------------------------------------------------------------
(* The invariant: what `best` holds, in each phase of the search.            *)

Found == \E n \in Nat \ {0} : best = DenseTable(n) /\ Searched(n)
Chosen == \E n \in Nat \ {0} : best = SparseTable(n)

Settled ==
  /\ functions \in Contracts
  /\ form \in {"linear", "sparse", "dense"}
  /\ phase \in {"search", "serve", "answered", "failed"}
  /\ n_buckets \in Nat
  /\ form = "dense" => best = NoTable \/ Found
  /\ phase = "serve" /\ functions # <<>> /\ form = "sparse" => Chosen
  /\ phase = "serve" /\ functions # <<>> /\ form = "dense" => best # NoTable /\ Fits
  /\ RoutedAsDeclared

LEMMA BucketCount ==
  ASSUME functions \in Contracts
  PROVE  /\ Len(method_ids) \in Nat
         /\ Len(method_ids) \div StartBucketSize + 1 \in Nat
         /\ \A n : n \in Lo(Len(method_ids)) .. Hi(Len(method_ids)) => n \in Nat \ {0}
<1>1. PICK l \in Nat : l = Len(method_ids)
  BY MethodIdsJoined, LenProperties
<1>2. l \div StartBucketSize + 1 \in Nat
  <2>1. StartBucketSize \in Nat \ {0}
    BY WidthAssumption
  <2>2. l \div StartBucketSize \in Nat
    BY <2>1, Division
  <2> QED
    BY <2>2
<1>3. \A x, y \in Nat : Max({x, y}) \in {x, y} /\ Max({x, y}) >= x
  <2> SUFFICES ASSUME NEW x \in Nat, NEW y \in Nat
               PROVE  Max({x, y}) \in {x, y} /\ Max({x, y}) >= x
    OBVIOUS
  <2>1. \E m \in {x, y} : \A k \in {x, y} : m >= k
    BY x <= y \/ y <= x
  <2> QED
    BY <2>1 DEF Max
<1>4. (l * 85) \div 100 \in Nat /\ (l * 115 + 99) \div 100 \in Nat
  OBVIOUS
<1>5. Lo(l) \in Nat /\ Lo(l) >= 1
  BY <1>3, <1>4 DEF Lo
<1> QED
  BY <1>1, <1>2, <1>5

(* Which tables there are depends on nothing but the functions.              *)
LEMMA TablesStay ==
  ASSUME functions' = functions, NEW n \in Nat \ {0}
  PROVE  /\ DenseTable(n)' = DenseTable(n)
         /\ SparseTable(n)' = SparseTable(n)
         /\ Searched(n)' <=> Searched(n)
BY DEF DenseTable, SparseTable, Searched, EmptyBuckets, Bucket, method_ids

LEMMA ContractStays ==
  ASSUME functions' = functions, best' = best
  PROVE  /\ Found' <=> Found
         /\ Chosen' <=> Chosen
         /\ Fits' <=> Fits
<1>1. ASSUME NEW n \in Nat \ {0}
      PROVE  /\ (best = DenseTable(n) /\ Searched(n))' <=> best = DenseTable(n) /\ Searched(n)
             /\ (best = SparseTable(n))' <=> best = SparseTable(n)
  BY TablesStay
<1>3. (Found' <=> Found) /\ (Chosen' <=> Chosen)
  BY <1>1 DEF Found, Chosen
<1>2. Fits' <=> Fits
  BY DEF Fits, TooLarge, Bucket, Positions, Location, EntriesBefore, method_ids
<1> QED
  BY <1>2, <1>3

LEMMA SettledInit == Init => Settled
<1> SUFFICES ASSUME Init
             PROVE  Settled
  OBVIOUS
<1> USE DEF Init
<1>1. n_buckets \in Nat
  BY BucketCount
<1> QED
  BY <1>1 DEF Settled, RoutedAsDeclared

LEMMA SettledNext == Settled /\ [Next]_vars => Settled'
<1> SUFFICES ASSUME Settled, [Next]_vars
             PROVE  Settled'
  OBVIOUS
<1> USE DEF Settled
<1>1. ASSUME ChooseSparse
      PROVE  Settled'
  <2>1. PICK n \in Nat \ {0} : best' = SparseTable(n)
    BY <1>1, BucketCount DEF ChooseSparse
  <2>2. Chosen'
    <3>1. SparseTable(n)' = SparseTable(n)
      BY <1>1, TablesStay DEF ChooseSparse
    <3> QED
      BY <2>1, <3>1 DEF Chosen
  <2> QED
    BY <1>1, <2>2 DEF ChooseSparse, RoutedAsDeclared
<1>2. ASSUME Improve
      PROVE  Settled'
  <2>1. n_buckets \in Nat \ {0} /\ Searched(n_buckets)
    BY <1>2 DEF Improve, Searching, Searched
  <2>2. PICK n \in Nat \ {0} : n = n_buckets
    BY <2>1
  <2>3. best' = DenseTable(n) /\ Searched(n) /\ functions' = functions
    BY <1>2, <2>1, <2>2 DEF Improve
  <2>4. Found'
    BY <2>3, TablesStay DEF Found
  <2>5. n_buckets' \in Nat
    BY <1>2, <2>1 DEF Improve
  <2> QED
    BY <1>2, <2>4, <2>5 DEF Improve, Searching, RoutedAsDeclared
<1>3. ASSUME HasEmptyBuckets
      PROVE  Settled'
  <2>1. n_buckets' \in Nat
    BY <1>3 DEF HasEmptyBuckets, Searching
  <2>2. Found' <=> Found
    BY <1>3, ContractStays DEF HasEmptyBuckets
  <2> QED
    BY <1>3, <2>1, <2>2 DEF HasEmptyBuckets, Searching, RoutedAsDeclared
<1>4. ASSUME FindMagicFailure
      PROVE  Settled'
  <2>1. n_buckets' \in Nat
    BY <1>4, BucketCount DEF FindMagicFailure
  <2>2. Found' <=> Found
    BY <1>4, ContractStays DEF FindMagicFailure
  <2>3. phase' \in {"search", "failed"}
    BY <1>4 DEF FindMagicFailure, Searching
  <2> QED
    BY <1>4, <2>1, <2>2, <2>3 DEF FindMagicFailure, RoutedAsDeclared
<1>5. ASSUME Emit
      PROVE  Settled'
  <2>1. (Found' <=> Found) /\ (Fits' <=> Fits)
    BY <1>5, ContractStays DEF Emit, table
  <2>2. phase' \in {"serve", "failed"} /\ (phase' = "serve" => best # NoTable /\ Fits)
    <3>1. phase' = IF best = NoTable \/ TooLarge(best.n) \/ \E p \in Positions : p >= LabelSpace
                   THEN "failed" ELSE "serve"
      BY <1>5 DEF Emit
    <3>2. CASE phase' = "serve"
      <4>1. best # NoTable /\ ~TooLarge(best.n) /\ ~\E p \in Positions : p >= LabelSpace
        BY <3>1, <3>2
      <4> QED
        BY <3>2, <4>1 DEF Fits
    <3> QED
      BY <3>1, <3>2
  <2> QED
    BY <1>5, <2>1, <2>2 DEF Emit, table, RoutedAsDeclared
<1>6. ASSUME NEW c \in Calls, Receive(c)
      PROVE  Settled'
  <2>1. /\ phase = "serve" /\ phase' = "answered"
        /\ functions' = functions /\ form' = form /\ n_buckets' = n_buckets /\ best' = best
    BY <1>6 DEF Receive, table
  <2>2. answer'.call = c /\ answer'.to = Declared(c)
    <3>1. CASE form = "linear"
      BY <1>6, <3>1, LinearRight DEF Receive
    <3>2. CASE form = "sparse"
      <4>1. functions = <<>> \/ \E n \in Nat \ {0} : best = SparseTable(n)
        <5>1. functions # <<>> => Chosen
          BY <2>1, <3>2
        <5> QED
          BY <5>1 DEF Chosen
      <4>2. SparseSection(c) = Declared(c)
        BY <4>1, SparseRight
      <4> QED
        BY <1>6, <3>2, <4>2 DEF Receive
    <3>3. CASE form = "dense"
      <4>1. functions = <<>> \/ \E n \in Nat \ {0} : best = DenseTable(n) /\ Searched(n) /\ Fits
        BY <2>1, <3>3 DEF Found
      <4>2. DenseSection(c) = Declared(c)
        BY <4>1, DenseRight
      <4> QED
        BY <1>6, <3>3, <4>2 DEF Receive
    <3> QED
      BY <3>1, <3>2, <3>3
  <2>3. Declared(c)' = Declared(c)
    BY <2>1 DEF Declared, SigOf, EntryPoints, IdOf, Sigs, MinCalldatasize, Payable
  <2>4. RoutedAsDeclared'
    BY <2>2, <2>3 DEF RoutedAsDeclared, Declared
  <2>5. Found' <=> Found
    BY <2>1, ContractStays
  <2> QED
    BY <2>1, <2>4, <2>5
<1>7. CASE UNCHANGED vars
  <2>1. /\ functions' = functions /\ form' = form /\ phase' = phase /\ n_buckets' = n_buckets
        /\ best' = best /\ answer' = answer
    BY <1>7 DEF vars
  <2>2. (Found' <=> Found) /\ (Chosen' <=> Chosen) /\ (Fits' <=> Fits)
    BY <2>1, ContractStays
  <2>3. RoutedAsDeclared'
    <3>1. PICK c : c = answer.call
      OBVIOUS
    <3>2. Declared(c)' = Declared(c)
      BY <2>1 DEF Declared, SigOf, EntryPoints, IdOf, Sigs, MinCalldatasize, Payable
    <3> QED
      BY <2>1, <3>1, <3>2 DEF RoutedAsDeclared, Declared
  <2> QED
    BY <2>1, <2>2, <2>3
<1> QED
  BY <1>1, <1>2, <1>3, <1>4, <1>5, <1>6, <1>7 DEF Next

(* A call reaches what it is entitled to, whichever form the section has and *)
(* whatever table the search found for it, and whatever the contract is.     *)
THEOREM AlwaysRouted == Spec => []RoutedAsDeclared
<1>1. Settled => RoutedAsDeclared
  BY DEF Settled
<1> QED
  BY SettledInit, SettledNext, <1>1, PTL DEF Spec

=============================================================================
