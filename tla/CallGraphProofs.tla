--------------------------- MODULE CallGraphProofs ---------------------------
(***************************************************************************)
(* Proofs about CallGraph, for any functions and any calls between them.   *)
(*                                                                         *)
(* The visit is cut short at functions already seen, so everything depends *)
(* on what is known of such a function: it is complete, i.e. its own set   *)
(* holds all that it calls (KnownComplete), while the functions on the     *)
(* path are as complete as their loops have come (LoopsKept).  With the    *)
(* order inside the sets (CalleesFirst) a complete set is closed under     *)
(* calls, hence all that can be reached, and no function is in its own.    *)
(***************************************************************************)
EXTENDS CallGraph, WellFoundedInduction, FiniteSetTheorems, SequenceTheorems, TLAPS

(* The least number of a set: the form in which induction is used here.      *)
LEMMA LeastNumber ==
  ASSUME NEW T \in SUBSET Nat, T # {}
  PROVE  \E x \in T : \A y \in T : x <= y
<1>1. PICK t \in T : TRUE
  OBVIOUS
<1> DEFINE W == {0 .. k : k \in {j \in T : j <= t}}
<1>2. W \subseteq SUBSET (0 .. t) /\ W # {}
  OBVIOUS
<1>3. PICK S \in W : \A R \in W : <<R, S>> \notin StrictSubsetOrdering(0 .. t)
  <2>1. IsFiniteSet(0 .. t)
    BY FS_Interval
  <2>2. IsWellFoundedOn(StrictSubsetOrdering(0 .. t), SUBSET (0 .. t))
    BY <2>1, FS_FiniteSubsetsOfFinite, FS_StrictSubsetOrderingWellFounded
  <2> HIDE DEF W
  <2> QED
    BY <1>2, <2>2, WFMin
<1>4. PICK x \in T : x <= t /\ S = 0 .. x
  BY <1>3
<1>5. ASSUME NEW y \in T, y < x
      PROVE  FALSE
  <2>1. 0 .. y \in W
    BY <1>4, <1>5
  <2>2. x \in S /\ x \notin 0 .. y
    BY <1>4, <1>5
  <2>3. 0 .. y \subseteq S /\ 0 .. y \subseteq 0 .. t /\ S \subseteq 0 .. t
    BY <1>4, <1>5
  <2> QED
    BY <2>1, <2>2, <2>3, <1>3 DEF StrictSubsetOrdering
<1> QED
  BY <1>5

-----------------------------------------------------------------------------
(* Ordered sets.                                                             *)

Distinct(s) == \A j, k \in 1 .. Len(s) : j # k => s[j] # s[k]

LEMMA ElementsAppend ==
  ASSUME NEW S, NEW s \in Seq(S), NEW x \in S
  PROVE  /\ Append(s, x) \in Seq(S)
         /\ Len(Append(s, x)) = Len(s) + 1
         /\ Elements(Append(s, x)) = Elements(s) \cup {x}
         /\ Elements(s) \subseteq S
BY DEF Elements

(* What an update of s by the first n elements of t gives.                   *)
IsUpdate(S, s, t, n, u) ==
  /\ u \in Seq(S)
  /\ Elements(u) = Elements(s) \cup {t[i] : i \in 1 .. n}
  /\ Len(s) <= Len(u)
  /\ \A k \in 1 .. Len(s) : u[k] = s[k]
  /\ Distinct(s) => Distinct(u)
  /\ \A k \in (Len(s) + 1) .. Len(u) : \E i \in 1 .. n :
       u[k] = t[i] /\ \A j \in 1 .. (i - 1) : t[j] \in {u[m] : m \in 1 .. (k - 1)}

LEMMA AddedUpdates ==
  ASSUME NEW S, NEW s \in Seq(S), NEW t \in Seq(S), NEW n \in Nat, n < Len(t),
         NEW u, IsUpdate(S, s, t, n, u)
  PROVE  IsUpdate(S, s, t, n + 1, Added(u, t[n + 1]))
<1> DEFINE x == t[n + 1]
<1>1. x \in S /\ n + 1 \in 1 .. Len(t)
  BY ElementOfSeq
<1>2. {t[i] : i \in 1 .. (n + 1)} = {t[i] : i \in 1 .. n} \cup {x}
  <2>1. 1 .. (n + 1) = 1 .. n \cup {n + 1}
    OBVIOUS
  <2> QED
    BY <2>1
<1>3. CASE x \in Elements(u)
  <2>1. Added(u, x) = u
    BY <1>3 DEF Added
  <2>2. \A i \in 1 .. n : i \in 1 .. (n + 1)
    OBVIOUS
  <2>3. Elements(u) = Elements(s) \cup {t[i] : i \in 1 .. (n + 1)}
    BY <1>2, <1>3 DEF IsUpdate
  <2>4. ASSUME NEW k \in (Len(s) + 1) .. Len(u)
        PROVE  \E i \in 1 .. (n + 1) :
                 u[k] = t[i] /\ \A j \in 1 .. (i - 1) : t[j] \in {u[m] : m \in 1 .. (k - 1)}
    BY <2>2 DEF IsUpdate
  <2> HIDE DEF x
  <2> QED
    BY <2>1, <2>3, <2>4 DEF IsUpdate, x
<1>4. CASE x \notin Elements(u)
  <2> DEFINE v == Append(u, x)
  <2>1. Added(u, x) = v
    BY <1>4 DEF Added
  <2>2. /\ v \in Seq(S) /\ Len(v) = Len(u) + 1 /\ Len(u) \in Nat
        /\ Elements(v) = Elements(u) \cup {x}
        /\ v[Len(u) + 1] = x
        /\ \A k \in 1 .. Len(u) : v[k] = u[k]
    BY <1>1, ElementsAppend, AppendProperties, LenProperties DEF IsUpdate
  <2>3. Elements(v) = Elements(s) \cup {t[i] : i \in 1 .. (n + 1)}
    BY <2>2, <1>2 DEF IsUpdate
  <2>4. Len(s) <= Len(v) /\ \A k \in 1 .. Len(s) : v[k] = s[k]
    BY <2>2 DEF IsUpdate
  <2>5. Distinct(s) => Distinct(v)
    <3>1. \A k \in 1 .. Len(u) : u[k] # x
      BY <1>4 DEF Elements
    <3> QED
      BY <3>1, <2>2 DEF IsUpdate, Distinct
  <2>6. ASSUME NEW k \in (Len(s) + 1) .. Len(v)
        PROVE  \E i \in 1 .. (n + 1) :
                 v[k] = t[i] /\ \A j \in 1 .. (i - 1) : t[j] \in {v[m] : m \in 1 .. (k - 1)}
    <3>0. Len(s) \in Nat /\ k \in Nat /\ k >= Len(s) + 1 /\ k <= Len(u) + 1
      BY <2>2
    <3>1. CASE k <= Len(u)
      <4>0. k \in (Len(s) + 1) .. Len(u)
        BY <3>0, <3>1, <2>2
      <4>1. PICK i \in 1 .. n :
              u[k] = t[i] /\ \A j \in 1 .. (i - 1) : t[j] \in {u[m] : m \in 1 .. (k - 1)}
        BY <4>0 DEF IsUpdate
      <4>2. {u[m] : m \in 1 .. (k - 1)} = {v[m] : m \in 1 .. (k - 1)}
        BY <3>1, <2>2
      <4>3. v[k] = u[k] /\ i \in 1 .. (n + 1)
        BY <3>1, <2>2
      <4> QED
        BY <4>1, <4>2, <4>3
    <3>2. CASE k = Len(u) + 1
      <4>1. \A j \in 1 .. n : t[j] \in Elements(u)
        BY DEF IsUpdate
      <4>2. Elements(u) = {v[m] : m \in 1 .. (k - 1)}
        BY <3>2, <2>2 DEF Elements
      <4>3. v[k] = t[n + 1] /\ n + 1 \in 1 .. (n + 1) /\ (n + 1) - 1 = n
        BY <3>2, <2>2
      <4> QED
        BY <4>1, <4>2, <4>3
    <3>3. k <= Len(u) \/ k = Len(u) + 1
      BY <3>0, <2>2
    <3> QED
      BY <3>1, <3>2, <3>3, Zenon
  <2> HIDE DEF v
  <2> QED
    BY <2>1, <2>2, <2>3, <2>4, <2>5, <2>6 DEF IsUpdate
<1> QED
  BY <1>3, <1>4

Updating(s, t, f, n) ==
  f = [k \in 0 .. n |-> IF k = 0 THEN s ELSE Added(f[k - 1], t[k])]

LEMMA UpdatingExists ==
  ASSUME NEW s, NEW t, NEW n \in Nat
  PROVE  \E f : Updating(s, t, f, n)
<1> DEFINE Bad == {m \in Nat : ~\E f : Updating(s, t, f, m)}
<1> SUFFICES ASSUME Bad # {}
             PROVE  FALSE
  OBVIOUS
<1>1. PICK m \in Bad : \A y \in Bad : m <= y
  BY LeastNumber
<1>2. CASE m = 0
  <2> DEFINE f == [k \in 0 .. 0 |-> s]
  <2>1. Updating(s, t, f, 0)
    BY DEF Updating
  <2> QED
    BY <2>1, <1>2
<1>3. CASE m # 0
  <2>1. m - 1 \in Nat /\ m - 1 \notin Bad
    BY <1>1, <1>3
  <2>2. PICK g : Updating(s, t, g, m - 1)
    BY <2>1
  <2> DEFINE f == [k \in 0 .. m |-> IF k = m THEN Added(g[m - 1], t[m]) ELSE g[k]]
  <2>3. ASSUME NEW k \in 0 .. m
        PROVE  f[k] = IF k = 0 THEN s ELSE Added(f[k - 1], t[k])
    <3>1. CASE k = m
      BY <3>1, <1>3, <2>1
    <3>2. CASE k # m
      <4>1. k \in 0 .. (m - 1) /\ f[k] = g[k]
        BY <3>2, <1>1
      <4>2. g[k] = IF k = 0 THEN s ELSE Added(g[k - 1], t[k])
        BY <4>1, <2>2 DEF Updating
      <4>3. k # 0 => f[k - 1] = g[k - 1]
        BY <4>1
      <4> QED
        BY <4>1, <4>2, <4>3
    <3> QED
      BY <3>1, <3>2
  <2>4. f = [k \in 0 .. m |-> IF k = 0 THEN s ELSE Added(f[k - 1], t[k])]
    BY <2>3
  <2>5. Updating(s, t, f, m)
    BY <2>4 DEF Updating
  <2> QED
    BY <2>5
<1> QED
  BY <1>2, <1>3

LEMMA UpdatingUpdates ==
  ASSUME NEW S, NEW s \in Seq(S), NEW t \in Seq(S), NEW f, Updating(s, t, f, Len(t)),
         NEW n \in 0 .. Len(t)
  PROVE  IsUpdate(S, s, t, n, f[n])
<1> DEFINE Bad == {m \in 0 .. Len(t) : ~IsUpdate(S, s, t, m, f[m])}
<1> SUFFICES ASSUME Bad # {}
             PROVE  FALSE
  OBVIOUS
<1>0. Len(t) \in Nat /\ Bad \in SUBSET Nat
  OBVIOUS
<1>1. PICK m \in Bad : \A y \in Bad : m <= y
  <2> HIDE DEF Bad
  <2> QED
    BY <1>0, LeastNumber
<1>2. CASE m = 0
  <2>1. f[0] = s
    BY DEF Updating
  <2>2. IsUpdate(S, s, t, 0, s)
    BY DEF IsUpdate, Elements
  <2> QED
    BY <2>1, <2>2, <1>2
<1>3. CASE m # 0
  <2>1. m - 1 \in 0 .. Len(t) /\ m - 1 \notin Bad /\ m - 1 \in Nat /\ m - 1 < Len(t)
    BY <1>1, <1>3
  <2>2. IsUpdate(S, s, t, m - 1, f[m - 1])
    BY <2>1
  <2>3. f[m] = Added(f[m - 1], t[m])
    BY <1>1, <1>3 DEF Updating
  <2>4. IsUpdate(S, s, t, (m - 1) + 1, Added(f[m - 1], t[(m - 1) + 1]))
    <3> HIDE DEF Bad
    <3> QED
      BY <2>1, <2>2, AddedUpdates
  <2> QED
    BY <2>3, <2>4, <1>1
<1> QED
  BY <1>2, <1>3

LEMMA OrderedUnionFacts ==
  ASSUME NEW S, NEW s \in Seq(S), NEW t \in Seq(S)
  PROVE  IsUpdate(S, s, t, Len(t), OrderedUnion(s, t))
<1> DEFINE f == CHOOSE f : f = [k \in 0 .. Len(t) |-> IF k = 0 THEN s ELSE Added(f[k - 1], t[k])]
<1>1. Len(t) \in Nat
  OBVIOUS
<1>2. Updating(s, t, f, Len(t))
  BY <1>1, UpdatingExists DEF Updating
<1>3. OrderedUnion(s, t) = f[Len(t)]
  BY DEF OrderedUnion
<1> HIDE DEF f
<1> QED
  BY <1>1, <1>2, <1>3, UpdatingUpdates

-----------------------------------------------------------------------------
(* The invariant.                                                            *)

Complete(f) == Calls(f) \subseteq Elements(reachable[f])

KnownComplete ==
  /\ \A f \in Functions : \A g \in Elements(reachable[f]) : Complete(g)
  /\ \A f \in Functions : f < root => Complete(f)

SetsSound == \A f \in Functions : Elements(reachable[f]) \subseteq Reaches(f)

(* The path is one of calls, without repetition, from the current root.      *)
PathKept ==
  /\ \A k \in 1 .. (Len(path) - 1) :
       next[k] \in 1 .. Len(called[path[k]]) /\ path[k + 1] = called[path[k]][next[k]]
  /\ \A j, k \in 1 .. Len(path) : j < k => path[j] # path[k] /\ path[k] \in Reaches(path[j])
  /\ Len(path) > 0 => path[1] = root /\ root \in Functions

(* The callees a loop has passed are in the set of its function.             *)
LoopsKept ==
  \A k \in 1 .. Len(path) :
    /\ next[k] <= Len(called[path[k]]) + 1
    /\ \A j \in 1 .. (next[k] - 1) : called[path[k]][j] \in Elements(reachable[path[k]])

LocksApart ==
  \A f \in Functions : f < root /\ f \in nonreentrant => Reaches(f) \cap nonreentrant = {}

VerdictKept ==
  /\ verdict = "accepted" => root = NumFunctions + 1
  /\ verdict = "cyclic" => Cyclic
  /\ verdict = "reentrant" => \E f \in nonreentrant : Reaches(f) \cap nonreentrant # {}

GraphIInv ==
  /\ GraphTypeOK
  /\ CalleesFirst
  /\ KnownComplete
  /\ SetsSound
  /\ PathKept
  /\ LoopsKept
  /\ LocksApart
  /\ VerdictKept

-----------------------------------------------------------------------------
(* What is reached.                                                          *)

LEMMA CallsAreFunctions ==
  ASSUME GraphTypeOK, NEW f \in Functions
  PROVE  /\ Calls(f) \subseteq Functions
         /\ called[f] \in Seq(Functions)
         /\ \A k \in 1 .. Len(called[f]) : called[f][k] \in Calls(f)
BY DEF GraphTypeOK, Calls, Elements

LEMMA CalleesReached ==
  ASSUME GraphTypeOK, NEW f \in Functions
  PROVE  Calls(f) \subseteq Reaches(f) /\ Reaches(f) \subseteq Functions
BY CallsAreFunctions DEF Reaches

LEMMA ReachesTransitive ==
  ASSUME GraphTypeOK, NEW f \in Functions, NEW g \in Reaches(f)
  PROVE  g \in Functions /\ Reaches(g) \subseteq Reaches(f)
<1>1. g \in Functions
  BY DEF Reaches
<1>2. ASSUME NEW h \in Reaches(g), NEW S \in SUBSET Functions, Calls(f) \subseteq S, Closed(S)
      PROVE  h \in S
  <2>1. g \in S
    BY <1>2 DEF Reaches
  <2>2. Calls(g) \subseteq S
    BY <1>2, <2>1 DEF Closed
  <2> QED
    BY <1>2, <2>2 DEF Reaches
<1> QED
  BY <1>1, <1>2 DEF Reaches

LEMMA ReachesLeast ==
  ASSUME NEW f, NEW S \in SUBSET Functions, Calls(f) \subseteq S, Closed(S)
  PROVE  Reaches(f) \subseteq S
BY DEF Reaches

(* The elements of an ordered set before any place are closed under calls.   *)
LEMMA PrefixClosed ==
  ASSUME GraphTypeOK, CalleesFirst, NEW f \in Functions, NEW n \in Nat, n <= Len(reachable[f]),
         NEW S, S = {reachable[f][j] : j \in 1 .. n}
  PROVE  S \in SUBSET Functions /\ Closed(S)
<1>1. reachable[f] \in Seq(Functions)
  BY DEF GraphTypeOK
<1>2. \A j \in 1 .. n : j \in 1 .. Len(reachable[f]) /\ 1 .. (j - 1) \subseteq 1 .. n
  BY <1>1
<1>3. S \subseteq Functions
  BY <1>1, <1>2, ElementOfSeq
<1>4. ASSUME NEW j \in 1 .. n
      PROVE  Calls(reachable[f][j]) \subseteq S
  <2>1. Calls(reachable[f][j]) \subseteq {reachable[f][i] : i \in 1 .. (j - 1)}
    BY <1>2 DEF CalleesFirst
  <2> QED
    BY <2>1, <1>2
<1> QED
  BY <1>3, <1>4 DEF Closed

LEMMA CompleteIsClosure ==
  ASSUME GraphIInv, NEW f \in Functions, Complete(f)
  PROVE  Elements(reachable[f]) = Reaches(f)
<1>1. reachable[f] \in Seq(Functions) /\ Len(reachable[f]) \in Nat
  BY DEF GraphIInv, GraphTypeOK
<1>2. /\ Elements(reachable[f]) \in SUBSET Functions
      /\ Closed(Elements(reachable[f]))
  BY <1>1, PrefixClosed DEF Elements, GraphIInv
<1>3. Reaches(f) \subseteq Elements(reachable[f])
  BY <1>2, ReachesLeast DEF Complete
<1> QED
  BY <1>3 DEF GraphIInv, SetsSound

(* No function is in its own complete set.                                   *)
LEMMA CompleteIsAcyclic ==
  ASSUME GraphIInv, NEW f \in Functions, Complete(f)
  PROVE  f \notin Reaches(f)
<1> SUFFICES ASSUME f \in Reaches(f)
             PROVE  FALSE
  OBVIOUS
<1>1. reachable[f] \in Seq(Functions) /\ Len(reachable[f]) \in Nat
  BY DEF GraphIInv, GraphTypeOK
<1>2. PICK k \in 1 .. Len(reachable[f]) : reachable[f][k] = f
  BY CompleteIsClosure DEF Elements
<1> DEFINE S == {reachable[f][j] : j \in 1 .. (k - 1)}
<1>3. S \in SUBSET Functions /\ Closed(S)
  <2>1. k - 1 \in Nat /\ k - 1 <= Len(reachable[f])
    BY <1>1
  <2> QED
    BY <2>1, PrefixClosed DEF GraphIInv
<1>4. Calls(f) \subseteq S
  BY <1>2 DEF GraphIInv, CalleesFirst
<1>5. f \in S
  <2> HIDE DEF S
  <2> QED
    BY <1>3, <1>4, ReachesLeast
<1>6. \A j \in 1 .. (k - 1) : reachable[f][j] # reachable[f][k]
  BY DEF GraphIInv, CalleesFirst
<1> QED
  BY <1>2, <1>5, <1>6

-----------------------------------------------------------------------------
(* What is collected from a callee.                                          *)

InOrder(s) ==
  \A k \in 1 .. Len(s) :
    /\ \A j \in 1 .. (k - 1) : s[j] # s[k]
    /\ Calls(s[k]) \subseteq {s[j] : j \in 1 .. (k - 1)}

LEMMA UnionInOrder ==
  ASSUME NEW s \in Seq(Functions), NEW t \in Seq(Functions), InOrder(s),
         \A i \in 1 .. Len(t) : Calls(t[i]) \subseteq Elements(s) \cup {t[j] : j \in 1 .. (i - 1)}
  PROVE  /\ OrderedUnion(s, t) \in Seq(Functions)
         /\ Elements(OrderedUnion(s, t)) = Elements(s) \cup Elements(t)
         /\ InOrder(OrderedUnion(s, t))
<1> DEFINE u == OrderedUnion(s, t)
<1>1. IsUpdate(Functions, s, t, Len(t), u)
  BY OrderedUnionFacts
<1> HIDE DEF u
<1>2. u \in Seq(Functions) /\ Elements(u) = Elements(s) \cup Elements(t)
  BY <1>1 DEF IsUpdate, Elements
<1>3. Len(s) \in Nat /\ Len(u) \in Nat /\ Len(s) <= Len(u)
  BY <1>1, <1>2 DEF IsUpdate
<1>4. Distinct(u)
  <2>1. Distinct(s)
    BY DEF InOrder, Distinct
  <2> QED
    BY <2>1, <1>1 DEF IsUpdate
<1>5. ASSUME NEW k \in 1 .. Len(u)
      PROVE  Calls(u[k]) \subseteq {u[j] : j \in 1 .. (k - 1)}
  <2>1. CASE k <= Len(s)
    <3>1. \A j \in 1 .. k : u[j] = s[j]
      BY <1>1, <1>3, <2>1 DEF IsUpdate
    <3>2. Calls(s[k]) \subseteq {s[j] : j \in 1 .. (k - 1)}
      <4>1. k \in 1 .. Len(s)
        BY <1>3, <2>1
      <4> QED
        BY <4>1 DEF InOrder
    <3>3. k \in 1 .. k /\ \A j \in 1 .. (k - 1) : j \in 1 .. k
      OBVIOUS
    <3>4. {s[j] : j \in 1 .. (k - 1)} = {u[j] : j \in 1 .. (k - 1)}
      BY <3>1, <3>3
    <3>5. u[k] = s[k]
      BY <3>1, <3>3
    <3> QED
      BY <3>2, <3>4, <3>5
  <2>2. CASE k > Len(s)
    <3>1. k \in (Len(s) + 1) .. Len(u)
      BY <1>3, <2>2
    <3>2. PICK i \in 1 .. Len(t) :
            u[k] = t[i] /\ \A j \in 1 .. (i - 1) : t[j] \in {u[m] : m \in 1 .. (k - 1)}
      BY <1>1, <3>1 DEF IsUpdate
    <3>3. Elements(s) \subseteq {u[m] : m \in 1 .. (k - 1)}
      <4>1. \A m \in 1 .. Len(s) : m \in 1 .. (k - 1) /\ u[m] = s[m]
        BY <1>1, <1>3, <2>2 DEF IsUpdate
      <4> QED
        BY <4>1 DEF Elements
    <3>4. Calls(t[i]) \subseteq Elements(s) \cup {t[j] : j \in 1 .. (i - 1)}
      OBVIOUS
    <3>5. {t[j] : j \in 1 .. (i - 1)} \subseteq {u[m] : m \in 1 .. (k - 1)}
      BY <3>2
    <3> QED
      BY <3>2, <3>3, <3>4, <3>5
  <2> QED
    BY <1>3, <2>1, <2>2
<1>6. InOrder(u)
  <2>1. \A k \in 1 .. Len(u) : \A j \in 1 .. (k - 1) : u[j] # u[k]
    BY <1>3, <1>4 DEF Distinct
  <2> QED
    BY <2>1, <1>5 DEF InOrder
<1> QED
  BY <1>2, <1>6 DEF u

(* Adding to a set what a complete function reaches, and then the function.  *)
LEMMA CalleeAdded ==
  ASSUME GraphTypeOK, CalleesFirst, NEW g \in Functions, Complete(g),
         NEW s \in Seq(Functions), InOrder(s)
  PROVE  /\ OrderedUnion(OrderedUnion(s, reachable[g]), <<g>>) \in Seq(Functions)
         /\ Elements(OrderedUnion(OrderedUnion(s, reachable[g]), <<g>>))
              = Elements(s) \cup Elements(reachable[g]) \cup {g}
         /\ InOrder(OrderedUnion(OrderedUnion(s, reachable[g]), <<g>>))
<1> DEFINE u == OrderedUnion(s, reachable[g])
<1> DEFINE t == <<g>>
<1>1. reachable[g] \in Seq(Functions) /\ InOrder(reachable[g])
  BY DEF GraphTypeOK, CalleesFirst, InOrder
<1>2. /\ u \in Seq(Functions) /\ InOrder(u)
      /\ Elements(u) = Elements(s) \cup Elements(reachable[g])
  BY <1>1, UnionInOrder DEF InOrder
<1>3. t \in Seq(Functions) /\ Len(t) = 1 /\ t[1] = g /\ Elements(t) = {g}
  BY DEF Elements
<1>4. Calls(g) \subseteq Elements(u)
  BY <1>2 DEF Complete
<1> HIDE DEF u, t
<1>5. \A i \in 1 .. Len(t) : Calls(t[i]) \subseteq Elements(u) \cup {t[j] : j \in 1 .. (i - 1)}
  BY <1>3, <1>4
<1>6. /\ OrderedUnion(u, t) \in Seq(Functions) /\ InOrder(OrderedUnion(u, t))
      /\ Elements(OrderedUnion(u, t)) = Elements(u) \cup Elements(t)
  BY <1>2, <1>3, <1>5, UnionInOrder
<1> QED
  BY <1>2, <1>3, <1>6 DEF u, t

LEMMA CollectedFacts ==
  ASSUME GraphTypeOK, CalleesFirst, NEW f \in Functions, NEW g \in Functions, Complete(g)
  PROVE  /\ Collected(f, g) \in Seq(Functions)
         /\ Elements(Collected(f, g)) = Elements(reachable[f]) \cup Elements(reachable[g]) \cup {g}
         /\ InOrder(Collected(f, g))
<1>1. reachable[f] \in Seq(Functions) /\ InOrder(reachable[f])
  BY DEF GraphTypeOK, CalleesFirst, InOrder
<1> QED
  BY <1>1, CalleeAdded DEF Collected

-----------------------------------------------------------------------------
(* The steps.                                                                *)

LEMMA SameGraph ==
  ASSUME UNCHANGED called
  PROVE  /\ \A f : Calls(f)' = Calls(f)
         /\ \A f : Reaches(f)' = Reaches(f)
         /\ Cyclic' = Cyclic
<1>1. \A f : Calls(f)' = Calls(f)
  BY DEF Calls
<1>2. \A S : Closed(S)' = Closed(S)
  BY <1>1 DEF Closed
<1>3. \A f : Reaches(f)' = Reaches(f)
  BY <1>1, <1>2 DEF Reaches
<1> QED
  BY <1>1, <1>3 DEF Cyclic

LEMMA InitGraphIInv ==
  ASSUME called \in [Functions -> Seq(Functions)], nonreentrant \subseteq Functions,
         reachable = [f \in Functions |-> <<>>], root = 1, path = <<>>, next = <<>>,
         verdict = "analysing"
  PROVE  GraphIInv
<1>1. root \in 1 .. (NumFunctions + 1)
  BY NumFunctionsAssumption
<1>2. GraphTypeOK
  BY <1>1 DEF GraphTypeOK
<1>3. \A f \in Functions : reachable[f] = <<>> /\ Elements(reachable[f]) = {} /\ ~(f < root)
  BY NumFunctionsAssumption DEF Elements, Functions
<1>4. Len(path) = 0
  OBVIOUS
<1> QED
  BY <1>2, <1>3, <1>4
     DEF GraphIInv, CalleesFirst, KnownComplete, SetsSound, PathKept, LoopsKept, LocksApart, VerdictKept

(* The function at work.                                                     *)
LEMMA TopFacts ==
  ASSUME GraphIInv, path # <<>>
  PROVE  /\ Len(path) \in Nat \ {0} /\ Len(next) = Len(path)
         /\ Top \in Functions /\ path \in Seq(Functions)
         /\ next \in Seq(Nat \ {0}) /\ next[Len(path)] \in Nat \ {0}
         /\ called[Top] \in Seq(Functions)
         /\ root \in Functions
<1>1. /\ path \in Seq(Functions) /\ Len(path) \in Nat \ {0} /\ Len(next) = Len(path)
      /\ next \in Seq(Nat \ {0})
  BY EmptySeq, LenProperties DEF GraphIInv, GraphTypeOK
<1>2. Top \in Functions /\ next[Len(path)] \in Nat \ {0}
  BY <1>1, ElementOfSeq DEF Top
<1>3. called[Top] \in Seq(Functions)
  BY <1>2 DEF GraphIInv, GraphTypeOK
<1> QED
  BY <1>1, <1>2, <1>3 DEF GraphIInv, PathKept

LEMMA CalleeFacts ==
  ASSUME GraphIInv, path # <<>>, ~LoopOver
  PROVE  /\ next[Len(path)] \in 1 .. Len(called[Top])
         /\ Callee = called[Top][next[Len(path)]]
         /\ Callee \in Calls(Top) /\ Callee \in Functions /\ Callee \in Reaches(Top)
<1>1. next[Len(path)] \in 1 .. Len(called[Top]) /\ Callee = called[Top][next[Len(path)]]
  BY TopFacts, LenProperties DEF LoopOver, Callee
<1>2. Callee \in Calls(Top)
  BY <1>1 DEF Calls, Elements
<1> QED
  BY <1>1, <1>2, TopFacts, CalleesReached, CallsAreFunctions DEF GraphIInv

(* At the end of its loop a function is complete.                            *)
LEMMA TopComplete ==
  ASSUME GraphIInv, path # <<>>, LoopOver
  PROVE  Complete(Top)
<1>1. next[Len(path)] > Len(called[Top]) /\ Len(called[Top]) \in Nat /\ Len(path) \in 1 .. Len(path)
  BY TopFacts, LenProperties DEF LoopOver
<1>2. \A j \in 1 .. (next[Len(path)] - 1) : called[Top][j] \in Elements(reachable[Top])
  BY <1>1 DEF GraphIInv, LoopsKept, Top
<1>3. \A j \in 1 .. Len(called[Top]) : j \in 1 .. (next[Len(path)] - 1)
  <2>1. next[Len(path)] \in Nat
    BY TopFacts
  <2> QED
    BY <1>1, <2>1
<1>4. \A j \in 1 .. Len(called[Top]) : called[Top][j] \in Elements(reachable[Top])
  BY <1>2, <1>3
<1>5. \A g \in Calls(Top) : \E j \in 1 .. Len(called[Top]) : g = called[Top][j]
  BY DEF Calls, Elements
<1> QED
  BY <1>4, <1>5 DEF Complete

(* Steps that leave the sets as they are keep what is said of sets.          *)
LEMMA SetsKept ==
  ASSUME GraphIInv, UNCHANGED <<called, nonreentrant, reachable>>
  PROVE  /\ called' \in [Functions -> Seq(Functions)]
         /\ nonreentrant' \subseteq Functions
         /\ reachable' \in [Functions -> Seq(Functions)]
         /\ CalleesFirst' /\ SetsSound'
         /\ \A f : Complete(f)' = Complete(f)
         /\ \A f \in Functions : \A g \in Elements(reachable[f])' : Complete(g)'
<1>1. CalleesFirst'
  <2>1. ASSUME NEW s
        PROVE  InOrder(s)' = InOrder(s)
    <3>1. \A f : Calls(f)' = Calls(f)
      BY SameGraph
    <3> QED
      BY <3>1 DEF InOrder
  <2>2. \A f \in Functions : InOrder(reachable[f])
    BY DEF GraphIInv, CalleesFirst, InOrder
  <2>3. \A f \in Functions : InOrder(reachable[f])'
    BY <2>1, <2>2
  <2> QED
    BY <2>3 DEF CalleesFirst, InOrder
<1>2. SetsSound'
  BY SameGraph DEF GraphIInv, SetsSound
<1>3. \A f : Complete(f)' = Complete(f)
  BY SameGraph DEF Complete
<1> QED
  BY <1>1, <1>2, <1>3 DEF GraphIInv, GraphTypeOK, KnownComplete

LEMMA VisitRootKeeps ==
  ASSUME GraphIInv, VisitRoot
  PROVE  GraphIInv'
<1>1. UNCHANGED <<called, nonreentrant, reachable, root, verdict>>
  BY DEF VisitRoot
<1>2. root \in Functions /\ path' = <<root>> /\ next' = <<1>>
  BY NumFunctionsAssumption DEF VisitRoot, GraphIInv, GraphTypeOK, Functions
<1>3. GraphTypeOK'
  BY <1>1, <1>2, SetsKept DEF GraphIInv, GraphTypeOK
<1>4. KnownComplete'
  BY <1>1, SetsKept DEF GraphIInv, KnownComplete
<1>5. PathKept'
  BY <1>1, <1>2 DEF PathKept
<1>6. LoopsKept'
  <2>1. Len(called[root]) \in Nat
    BY <1>2, CallsAreFunctions DEF GraphIInv
  <2> QED
    BY <1>1, <1>2, <2>1 DEF LoopsKept
<1>7. LocksApart' /\ VerdictKept'
  BY <1>1, SameGraph DEF GraphIInv, LocksApart, VerdictKept
<1> QED
  BY <1>1, <1>3, <1>4, <1>5, <1>6, <1>7, SetsKept DEF GraphIInv

LEMMA AlreadySeenKeeps ==
  ASSUME GraphIInv, AlreadySeen
  PROVE  GraphIInv'
<1> DEFINE n == Len(path)
<1>1. UNCHANGED <<called, nonreentrant, reachable, root, path, verdict>> /\ path # <<>> /\ ~LoopOver
  BY DEF AlreadySeen
<1>2. /\ n \in Nat \ {0} /\ Len(next) = n /\ next \in Seq(Nat \ {0})
      /\ next' = [next EXCEPT ![n] = @ + 1]
  BY <1>1, TopFacts DEF AlreadySeen, Advanced
<1>3. /\ next' \in Seq(Nat \ {0}) /\ Len(next') = n
      /\ next'[n] = next[n] + 1
      /\ \A k \in 1 .. (n - 1) : next'[k] = next[k]
  BY <1>2
<1>4. GraphTypeOK'
  BY <1>1, <1>2, <1>3, SetsKept DEF GraphIInv, GraphTypeOK
<1>5. KnownComplete'
  BY <1>1, SetsKept DEF GraphIInv, KnownComplete
<1>6. PathKept'
  BY <1>1, <1>2, <1>3, SameGraph DEF GraphIInv, PathKept
<1>7. LoopsKept'
  <2>1. /\ next[n] \in 1 .. Len(called[path[n]]) /\ called[path[n]][next[n]] \in Elements(reachable[path[n]])
        /\ Len(called[path[n]]) \in Nat
    BY <1>1, CalleeFacts, TopFacts DEF AlreadySeen, Seen, Top
  <2>2. ASSUME NEW k \in 1 .. n
        PROVE  /\ next'[k] <= Len(called[path[k]]) + 1
               /\ \A j \in 1 .. (next'[k] - 1) : called[path[k]][j] \in Elements(reachable[path[k]])
    <3>1. CASE k = n
      <4>1. next'[n] = next[n] + 1 /\ next[n] \in Nat
        BY <1>3, <2>1
      <4>2. \A j \in 1 .. (next[n] - 1) : called[path[n]][j] \in Elements(reachable[path[n]])
        BY <1>2, <3>1 DEF GraphIInv, LoopsKept
      <4>3. \A j \in 1 .. (next'[n] - 1) : j \in 1 .. (next[n] - 1) \/ j = next[n]
        BY <4>1
      <4>4. \A j \in 1 .. (next'[n] - 1) : called[path[n]][j] \in Elements(reachable[path[n]])
        BY <4>2, <4>3, <2>1
      <4>5. next'[n] <= Len(called[path[n]]) + 1
        BY <4>1, <2>1
      <4> QED
        BY <3>1, <4>4, <4>5
    <3>2. CASE k # n
      <4>1. next'[k] = next[k]
        BY <1>2, <1>3, <3>2
      <4> QED
        BY <4>1 DEF GraphIInv, LoopsKept
    <3> QED
      BY <3>1, <3>2
  <2> QED
    BY <1>1, <2>2 DEF LoopsKept
<1>8. LocksApart' /\ VerdictKept'
  BY <1>1, SameGraph DEF GraphIInv, LocksApart, VerdictKept
<1> QED
  BY <1>1, <1>4, <1>5, <1>6, <1>7, <1>8, SetsKept DEF GraphIInv

LEMMA RejectCycleKeeps ==
  ASSUME GraphIInv, RejectCycle
  PROVE  GraphIInv'
<1> DEFINE n == Len(path)
<1>1. /\ UNCHANGED <<called, nonreentrant, reachable, root, path, next>> /\ path # <<>> /\ ~LoopOver
      /\ verdict' = "cyclic"
  BY DEF RejectCycle
<1>2. Cyclic
  <2>1. PICK j \in 1 .. n : Callee = path[j]
    BY DEF RejectCycle, Elements
  <2>2. Callee \in Functions /\ Callee \in Reaches(Top) /\ Top \in Functions /\ n \in Nat \ {0}
    BY <1>1, CalleeFacts, TopFacts
  <2>3. CASE j = n
    BY <2>1, <2>2, <2>3 DEF Cyclic, Top
  <2>4. CASE j < n
    <3>1. Top \in Reaches(path[j])
      BY <2>1, <2>2, <2>4 DEF GraphIInv, PathKept, Top
    <3> QED
      BY <2>1, <2>2, <3>1, ReachesTransitive DEF GraphIInv, Cyclic
  <2> QED
    BY <2>2, <2>3, <2>4
<1>3. GraphTypeOK'
  BY <1>1 DEF GraphIInv, GraphTypeOK
<1>4. KnownComplete'
  BY <1>1, SetsKept DEF GraphIInv, KnownComplete
<1>5. PathKept'
  BY <1>1, SameGraph DEF GraphIInv, PathKept
<1>6. LoopsKept'
  BY <1>1 DEF GraphIInv, LoopsKept
<1>7. LocksApart' /\ VerdictKept'
  BY <1>1, <1>2, SameGraph DEF GraphIInv, LocksApart, VerdictKept
<1> QED
  BY <1>1, <1>3, <1>4, <1>5, <1>6, <1>7, SetsKept DEF GraphIInv

LEMMA DescendKeeps ==
  ASSUME GraphIInv, Descend
  PROVE  GraphIInv'
<1> DEFINE n == Len(path)
<1>1. /\ UNCHANGED <<called, nonreentrant, reachable, root, verdict>> /\ path # <<>> /\ ~LoopOver
      /\ path' = Append(path, Callee) /\ next' = Append(next, 1)
      /\ Callee \notin Elements(path)
  BY DEF Descend
<1>2. /\ n \in Nat \ {0} /\ Len(next) = n /\ next \in Seq(Nat \ {0}) /\ path \in Seq(Functions)
      /\ Top = path[n] /\ Top \in Functions /\ root \in Functions
  BY <1>1, TopFacts DEF Top
<1>3. /\ Callee \in Functions /\ Callee \in Reaches(Top)
      /\ next[n] \in 1 .. Len(called[Top]) /\ Callee = called[Top][next[n]]
  BY <1>1, CalleeFacts
<1>4. /\ path' \in Seq(Functions) /\ Len(path') = n + 1 /\ path'[n + 1] = Callee
      /\ next' \in Seq(Nat \ {0}) /\ Len(next') = n + 1 /\ next'[n + 1] = 1
      /\ \A k \in 1 .. n : path'[k] = path[k] /\ next'[k] = next[k]
  <2> HIDE DEF n
  <2>1. n = Len(path)
    BY DEF n
  <2> QED
    BY <1>1, <1>2, <1>3, <2>1, AppendProperties
<1>5. GraphTypeOK'
  BY <1>1, <1>4, SetsKept DEF GraphIInv, GraphTypeOK
<1>6. KnownComplete'
  BY <1>1, SetsKept DEF GraphIInv, KnownComplete
<1>7. PathKept'
  <2>1. ASSUME NEW k \in 1 .. n
        PROVE  next'[k] \in 1 .. Len(called[path'[k]]) /\ path'[k + 1] = called[path'[k]][next'[k]]
    <3>1. CASE k = n
      BY <1>2, <1>3, <1>4, <3>1
    <3>2. CASE k # n
      <4>1. k \in 1 .. (n - 1) /\ k + 1 \in 1 .. n
        BY <3>2, <1>2
      <4>2. next[k] \in 1 .. Len(called[path[k]]) /\ path[k + 1] = called[path[k]][next[k]]
        BY <4>1 DEF GraphIInv, PathKept
      <4> QED
        BY <4>1, <4>2, <1>4
    <3> QED
      BY <3>1, <3>2
  <2>2. ASSUME NEW j \in 1 .. (n + 1), NEW k \in 1 .. (n + 1), j < k
        PROVE  path'[j] # path'[k] /\ path'[k] \in Reaches(path'[j])
    <3>1. j \in 1 .. n /\ path'[j] = path[j] /\ path[j] \in Functions
      BY <2>2, <1>2, <1>4, ElementOfSeq
    <3>2. CASE k = n + 1
      <4>1. path[j] # Callee
        BY <1>1, <3>1 DEF Elements
      <4>2. Callee \in Reaches(path[j])
        <5>1. CASE j = n
          BY <5>1, <1>2, <1>3
        <5>2. CASE j # n
          <6>1. Top \in Reaches(path[j])
            BY <5>2, <3>1, <1>2 DEF GraphIInv, PathKept
          <6> QED
            BY <6>1, <3>1, <1>3, ReachesTransitive DEF GraphIInv
        <5> QED
          BY <5>1, <5>2
      <4> QED
        BY <4>1, <4>2, <3>1, <3>2, <1>4
    <3>3. CASE k # n + 1
      <4>1. k \in 1 .. n /\ path'[k] = path[k]
        BY <3>3, <1>2, <1>4
      <4> QED
        BY <4>1, <3>1, <2>2 DEF GraphIInv, PathKept
    <3> QED
      BY <3>2, <3>3
  <2>3. path'[1] = root /\ root \in Functions
    BY <1>2, <1>4 DEF GraphIInv, PathKept
  <2>4. \A f : Reaches(f)' = Reaches(f)
    BY <1>1, SameGraph
  <2>5. \A j, k \in 1 .. Len(path') : j < k => path'[j] # path'[k] /\ path'[k] \in (Reaches(path[j]))'
    BY <2>2, <2>4, <1>1, <1>2, <1>4
  <2>6. (Len(path) - 1)' = n
    BY <1>2, <1>4
  <2> QED
    BY <1>1, <1>4, <2>1, <2>3, <2>5, <2>6 DEF PathKept
<1>8. LoopsKept'
  <2>1. Len(called[Callee]) \in Nat
    BY <1>3, CallsAreFunctions DEF GraphIInv
  <2>2. ASSUME NEW k \in 1 .. (n + 1)
        PROVE  /\ next'[k] <= Len(called[path'[k]]) + 1
               /\ \A j \in 1 .. (next'[k] - 1) : called[path'[k]][j] \in Elements(reachable[path'[k]])
    <3>1. CASE k = n + 1
      BY <3>1, <2>1, <1>4
    <3>2. CASE k # n + 1
      <4>1. k \in 1 .. n /\ path'[k] = path[k] /\ next'[k] = next[k]
        BY <3>2, <1>2, <1>4
      <4> QED
        BY <4>1 DEF GraphIInv, LoopsKept
    <3> QED
      BY <3>1, <3>2
  <2>3. ASSUME NEW k \in 1 .. Len(path')
        PROVE  /\ next'[k] <= Len(called'[path'[k]]) + 1
               /\ \A j \in 1 .. (next'[k] - 1) : called'[path'[k]][j] \in Elements(reachable'[path'[k]])
    <3>1. k \in 1 .. (n + 1) /\ called' = called /\ reachable' = reachable
      BY <1>1, <1>4
    <3> QED
      BY <3>1, <2>2
  <2> QED
    BY <2>3 DEF LoopsKept
<1>9. LocksApart' /\ VerdictKept'
  BY <1>1, SameGraph DEF GraphIInv, LocksApart, VerdictKept
<1> QED
  BY <1>1, <1>5, <1>6, <1>7, <1>8, <1>9, SetsKept DEF GraphIInv

(* What a return gives the caller.                                           *)
LEMMA ReturnFacts ==
  ASSUME GraphIInv, ReturnToCaller
  PROVE  /\ Len(path) \in Nat /\ Len(path) > 1
         /\ path[Len(path) - 1] \in Functions /\ path[Len(path)] \in Functions
         /\ next[Len(path) - 1] \in 1 .. Len(called[path[Len(path) - 1]])
         /\ path[Len(path)] = called[path[Len(path) - 1]][next[Len(path) - 1]]
         /\ path[Len(path)] \in Reaches(path[Len(path) - 1]) /\ Complete(path[Len(path)])
         /\ reachable' = [reachable EXCEPT
                             ![path[Len(path) - 1]] = Collected(path[Len(path) - 1], path[Len(path)])]
         /\ path' \in Seq(Functions) /\ Len(path') = Len(path) - 1
         /\ \A k \in 1 .. (Len(path) - 1) : path'[k] = path[k]
         /\ next' \in Seq(Nat \ {0}) /\ Len(next') = Len(path) - 1
         /\ next'[Len(path) - 1] = next[Len(path) - 1] + 1
         /\ \A k \in 1 .. (Len(path) - 2) : next'[k] = next[k]
         /\ UNCHANGED <<called, nonreentrant, root, verdict>>
<1> DEFINE n == Len(path)
<1> DEFINE f == path[n - 1]
<1> DEFINE g == path[n]
<1>0. n = Len(path) /\ f = path[n - 1] /\ g = path[n]
  OBVIOUS
<1> HIDE DEF n, f, g
<1>1. /\ n > 1 /\ LoopOver /\ path # <<>>
      /\ reachable' = [reachable EXCEPT ![f] = Collected(f, g)]
      /\ path' = SubSeq(path, 1, n - 1)
      /\ next' = [k \in 1 .. (n - 1) |-> IF k = n - 1 THEN next[k] + 1 ELSE next[k]]
      /\ UNCHANGED <<called, nonreentrant, root, verdict>>
  BY DEF ReturnToCaller, PathUpTo, n, f, g
<1>2. /\ n \in Nat \ {0} /\ path \in Seq(Functions) /\ Len(next) = n /\ next \in Seq(Nat \ {0})
      /\ g = Top /\ g \in Functions
  BY <1>0, <1>1, TopFacts DEF Top
<1>3. n - 1 \in 1 .. n /\ n - 1 \in 1 .. (n - 1) /\ (n - 1) + 1 = n /\ n \in 1 .. n
  BY <1>1, <1>2
<1>4. f \in Functions /\ g \in Reaches(f)
  <2>1. f \in Functions
    BY <1>0, <1>2, <1>3, ElementOfSeq
  <2>2. n - 1 < n
    BY <1>2
  <2> QED
    BY <1>0, <2>1, <2>2, <1>3 DEF GraphIInv, PathKept
<1>5. next[n - 1] \in 1 .. Len(called[f]) /\ g = called[f][next[n - 1]]
  BY <1>0, <1>3 DEF GraphIInv, PathKept
<1>6. Complete(g)
  BY <1>0, <1>1, <1>2, TopComplete
<1>7. /\ path' \in Seq(Functions) /\ Len(path') = n - 1
      /\ \A k \in 1 .. (n - 1) : path'[k] = path[k]
  BY <1>0, <1>1, <1>2, <1>3, SubSeqProperties
<1>8. /\ next' \in [1 .. (n - 1) -> Nat \ {0}]
      /\ next'[n - 1] = next[n - 1] + 1
      /\ \A k \in 1 .. (n - 2) : next'[k] = next[k]
  <2>1. ASSUME NEW k \in 1 .. (n - 1)
        PROVE  next[k] \in Nat \ {0}
    BY <1>2, ElementOfSeq
  <2> QED
    BY <1>1, <1>3, <2>1
<1>9. next' \in Seq(Nat \ {0}) /\ Len(next') = n - 1
  <2>1. n - 1 \in Nat
    BY <1>1, <1>2
  <2>2. next' \in Seq(Nat \ {0})
    BY <2>1, <1>8, SeqDef
  <2>3. DOMAIN next' = 1 .. (n - 1)
    BY <1>8
  <2> QED
    BY <2>1, <2>2, <2>3, LenProperties
<1> QED
  BY <1>1, <1>2, <1>4, <1>5, <1>6, <1>7, <1>8, <1>9 DEF n, f, g

LEMMA ReturnKeepsSets ==
  ASSUME GraphIInv, ReturnToCaller
  PROVE  /\ reachable' \in [Functions -> Seq(Functions)]
         /\ \A h \in Functions : Elements(reachable[h]) \subseteq Elements(reachable'[h])
         /\ path[Len(path)] \in Elements(reachable'[path[Len(path) - 1]])
         /\ CalleesFirst' /\ KnownComplete' /\ SetsSound'
<1> DEFINE n == Len(path)
<1> DEFINE f == path[n - 1]
<1> DEFINE g == path[n]
<1>1. /\ f \in Functions /\ g \in Functions /\ g \in Reaches(f) /\ Complete(g)
      /\ reachable' = [reachable EXCEPT ![f] = Collected(f, g)]
      /\ UNCHANGED called /\ root' = root
  BY ReturnFacts
<1>0. n = Len(path) /\ f = path[n - 1] /\ g = path[n]
  OBVIOUS
<1> HIDE DEF n, f, g
<1>2. /\ reachable \in [Functions -> Seq(Functions)]
      /\ GraphTypeOK /\ CalleesFirst /\ KnownComplete /\ SetsSound
  BY DEF GraphIInv, GraphTypeOK
<1>3. /\ Collected(f, g) \in Seq(Functions)
      /\ Elements(Collected(f, g)) = Elements(reachable[f]) \cup Elements(reachable[g]) \cup {g}
      /\ InOrder(Collected(f, g))
  BY <1>1, <1>2, CollectedFacts
<1>4. /\ reachable' \in [Functions -> Seq(Functions)]
      /\ reachable'[f] = Collected(f, g)
      /\ \A h \in Functions \ {f} : reachable'[h] = reachable[h]
  BY <1>1, <1>2, <1>3
<1>5. \A h \in Functions : Elements(reachable[h]) \subseteq Elements(reachable'[h])
  BY <1>3, <1>4
<1>6. g \in Elements(reachable'[f])
  BY <1>3, <1>4
<1>7. CalleesFirst'
  <2>1. ASSUME NEW h \in Functions
        PROVE  InOrder(reachable'[h])
    <3>1. InOrder(reachable[h])
      BY <1>2 DEF CalleesFirst, InOrder
    <3> QED
      BY <3>1, <1>3, <1>4
  <2>2. \A x : Calls(x)' = Calls(x)
    BY <1>1, SameGraph
  <2> QED
    BY <2>1, <1>1 DEF InOrder, CalleesFirst, Calls
<1>8. ASSUME NEW h \in Functions, Complete(h)
      PROVE  Complete(h)'
  BY <1>1, <1>5, <1>8 DEF Complete, Calls
<1>9. KnownComplete'
  <2>1. ASSUME NEW h \in Functions, NEW x \in Elements(reachable'[h])
        PROVE  Complete(x)'
    <3>1. x \in Functions
      BY <1>4 DEF Elements
    <3>2. Complete(x)
      <4>1. CASE h = f
        BY <4>1, <2>1, <1>1, <1>2, <1>3, <1>4 DEF KnownComplete
      <4>2. CASE h # f
        BY <4>2, <2>1, <1>2, <1>4 DEF KnownComplete
      <4> QED
        BY <4>1, <4>2
    <3> QED
      BY <3>1, <3>2, <1>8
  <2>2. ASSUME NEW h \in Functions, h < root
        PROVE  Complete(h)'
    BY <2>2, <1>2, <1>8 DEF KnownComplete
  <2> QED
    BY <2>1, <2>2, <1>1 DEF KnownComplete
<1>10. SetsSound'
  <2>1. \A h : Reaches(h)' = Reaches(h)
    BY <1>1, SameGraph
  <2>2. Elements(reachable'[f]) \subseteq Reaches(f)
    <3>1. Elements(reachable[g]) \subseteq Reaches(g)
      BY <1>1, <1>2 DEF SetsSound
    <3>2. Reaches(g) \subseteq Reaches(f)
      BY <1>1, <1>2, ReachesTransitive
    <3> QED
      BY <3>1, <3>2, <1>1, <1>2, <1>3, <1>4 DEF SetsSound
  <2>3. \A h \in Functions : Elements(reachable'[h]) \subseteq Reaches(h)
    BY <2>2, <1>2, <1>4 DEF SetsSound
  <2> QED
    BY <2>1, <2>3 DEF SetsSound
<1> QED
  BY <1>0, <1>4, <1>5, <1>6, <1>7, <1>9, <1>10

LEMMA ReturnToCallerKeeps ==
  ASSUME GraphIInv, ReturnToCaller
  PROVE  GraphIInv'
<1> DEFINE n == Len(path)
<1>1. /\ n \in Nat /\ n > 1 /\ path[n - 1] \in Functions
      /\ next[n - 1] \in 1 .. Len(called[path[n - 1]]) /\ path[n] = called[path[n - 1]][next[n - 1]]
      /\ path' \in Seq(Functions) /\ Len(path') = n - 1
      /\ \A k \in 1 .. (n - 1) : path'[k] = path[k]
      /\ next' \in Seq(Nat \ {0}) /\ Len(next') = n - 1
      /\ next'[n - 1] = next[n - 1] + 1
      /\ \A k \in 1 .. (n - 2) : next'[k] = next[k]
      /\ UNCHANGED <<called, nonreentrant, root, verdict>>
  BY ReturnFacts
<1>0. n = Len(path)
  OBVIOUS
<1> HIDE DEF n
<1>2. /\ reachable' \in [Functions -> Seq(Functions)]
      /\ \A h \in Functions : Elements(reachable[h]) \subseteq Elements(reachable'[h])
      /\ path[n] \in Elements(reachable'[path[n - 1]])
      /\ CalleesFirst' /\ KnownComplete' /\ SetsSound'
  BY <1>0, ReturnKeepsSets
<1>3. GraphTypeOK'
  BY <1>1, <1>2 DEF GraphIInv, GraphTypeOK
<1>4. PathKept'
  <2>1. \A f : Reaches(f)' = Reaches(f)
    BY <1>1, SameGraph
  <2>2. ASSUME NEW k \in 1 .. (Len(path') - 1)
        PROVE  next'[k] \in 1 .. Len(called'[path'[k]]) /\ path'[k + 1] = called'[path'[k]][next'[k]]
    <3>1. k \in 1 .. (n - 1) /\ k \in 1 .. (n - 2) /\ k + 1 \in 1 .. (n - 1)
      <4>1. n \in Nat /\ Len(path') = n - 1
        BY <1>1
      <4> QED
        BY <4>1
    <3>2. next[k] \in 1 .. Len(called[path[k]]) /\ path[k + 1] = called[path[k]][next[k]]
      BY <1>0, <3>1 DEF GraphIInv, PathKept
    <3> QED
      BY <3>1, <3>2, <1>1
  <2>3. ASSUME NEW j \in 1 .. Len(path'), NEW k \in 1 .. Len(path'), j < k
        PROVE  path'[j] # path'[k] /\ path'[k] \in Reaches(path'[j])
    <3>1. j \in 1 .. (n - 1) /\ k \in 1 .. (n - 1) /\ j \in 1 .. n /\ k \in 1 .. n
      BY <1>1
    <3>2. path[j] # path[k] /\ path[k] \in Reaches(path[j])
      BY <1>0, <2>3, <3>1 DEF GraphIInv, PathKept
    <3> QED
      BY <3>1, <3>2, <1>1
  <2>4. path'[1] = root' /\ root' \in Functions
    <3>1. path[1] = root /\ root \in Functions /\ 1 \in 1 .. (n - 1)
      BY <1>0, <1>1 DEF GraphIInv, PathKept
    <3> QED
      BY <3>1, <1>1
  <2>5. \A j, k \in 1 .. Len(path') : j < k => path'[j] # path'[k] /\ path'[k] \in Reaches(path[j])'
    BY <2>1, <2>3
  <2> QED
    BY <2>2, <2>4, <2>5 DEF PathKept
<1>5. LoopsKept'
  <2>1. ASSUME NEW k \in 1 .. Len(path')
        PROVE  /\ next'[k] <= Len(called'[path'[k]]) + 1
               /\ \A j \in 1 .. (next'[k] - 1) : called'[path'[k]][j] \in Elements(reachable'[path'[k]])
    <3>1. k \in 1 .. (n - 1) /\ k \in 1 .. n /\ path'[k] = path[k] /\ called' = called
      BY <1>1
    <3>2. path[k] \in Functions /\ called[path[k]] \in Seq(Functions)
      BY <1>0, <3>1, ElementOfSeq DEF GraphIInv, GraphTypeOK
    <3>3. /\ next[k] <= Len(called[path[k]]) + 1
          /\ \A j \in 1 .. (next[k] - 1) : called[path[k]][j] \in Elements(reachable[path[k]])
      BY <1>0, <3>1 DEF GraphIInv, LoopsKept
    <3>4. \A j \in 1 .. (next[k] - 1) : called[path[k]][j] \in Elements(reachable'[path[k]])
      BY <1>2, <3>2, <3>3
    <3>5. CASE k = n - 1
      <4>1. next'[k] = next[k] + 1 /\ next[k] \in 1 .. Len(called[path[k]]) /\ Len(called[path[k]]) \in Nat
        BY <1>1, <3>2, <3>5, LenProperties
      <4>2. 1 .. (next'[k] - 1) = 1 .. (next[k] - 1) \cup {next[k]}
        BY <4>1
      <4>3. called[path[k]][next[k]] \in Elements(reachable'[path[k]])
        BY <1>1, <1>2, <3>5
      <4>4. next'[k] <= Len(called[path[k]]) + 1
        BY <4>1
      <4> QED
        BY <4>2, <4>3, <4>4, <3>1, <3>4
    <3>6. CASE k # n - 1
      <4>1. next'[k] = next[k]
        BY <3>1, <3>6, <1>1
      <4> QED
        BY <4>1, <3>1, <3>3, <3>4
    <3> QED
      BY <3>5, <3>6
  <2> QED
    BY <2>1 DEF LoopsKept
<1>6. LocksApart' /\ VerdictKept'
  BY <1>1, SameGraph DEF GraphIInv, LocksApart, VerdictKept
<1> QED
  BY <1>2, <1>3, <1>4, <1>5, <1>6 DEF GraphIInv

LEMMA FinishRootKeeps ==
  ASSUME GraphIInv, FinishRoot
  PROVE  GraphIInv'
<1>1. /\ UNCHANGED <<called, nonreentrant, reachable>> /\ path' = <<>> /\ next' = <<>>
      /\ path # <<>> /\ Len(path) = 1 /\ LoopOver /\ verdict = "analysing"
      /\ IF root \in nonreentrant /\ ReachesLocked(root)
           THEN verdict' = "reentrant" /\ root' = root
           ELSE verdict' = verdict /\ root' = root + 1
  BY DEF FinishRoot
<1>2. Top = root /\ root \in Functions
  BY <1>1 DEF GraphIInv, PathKept, Top
<1>3. Complete(root) /\ Elements(reachable[root]) = Reaches(root)
  BY <1>1, <1>2, TopComplete, CompleteIsClosure
<1>4. GraphTypeOK'
  <2>1. root' \in 1 .. (NumFunctions + 1)
    BY <1>1, <1>2, NumFunctionsAssumption DEF Functions
  <2>2. path' \in Seq(Functions) /\ next' \in Seq(Nat \ {0}) /\ Len(next') = Len(path')
    BY <1>1
  <2>3. verdict' \in {"analysing", "accepted", "cyclic", "reentrant"}
    BY <1>1
  <2> QED
    BY <1>1, <2>1, <2>2, <2>3, SetsKept DEF GraphTypeOK
<1>5. KnownComplete'
  <2>1. ASSUME NEW f \in Functions, f < root'
        PROVE  Complete(f)
    <3>1. f < root \/ f = root
      BY <1>1, <1>2, <2>1 DEF Functions
    <3> QED
      BY <3>1, <1>3 DEF GraphIInv, KnownComplete
  <2> QED
    BY <2>1, <1>1, SetsKept DEF KnownComplete
<1>6. PathKept' /\ LoopsKept'
  BY <1>1 DEF PathKept, LoopsKept
<1>7. LocksApart'
  <2>1. ASSUME NEW f \in Functions, f < root', f \in nonreentrant
        PROVE  Reaches(f) \cap nonreentrant = {}
    <3>1. CASE f < root
      BY <3>1, <2>1 DEF GraphIInv, LocksApart
    <3>2. CASE f = root
      BY <3>2, <2>1, <1>1, <1>2, <1>3 DEF ReachesLocked, Functions
    <3> QED
      BY <3>1, <3>2, <1>1, <1>2, <2>1 DEF Functions
  <2> QED
    BY <2>1, <1>1, SameGraph DEF LocksApart
<1>8. VerdictKept'
  BY <1>1, <1>2, <1>3, SameGraph DEF VerdictKept, ReachesLocked, Functions
<1> QED
  BY <1>1, <1>4, <1>5, <1>6, <1>7, <1>8, SetsKept DEF GraphIInv

LEMMA AcceptKeeps ==
  ASSUME GraphIInv, Accept
  PROVE  GraphIInv'
<1>1. /\ UNCHANGED <<called, nonreentrant, reachable, root, path, next>>
      /\ verdict' = "accepted" /\ root > NumFunctions
  BY DEF Accept
<1>2. GraphTypeOK'
  BY <1>1 DEF GraphIInv, GraphTypeOK
<1>3. KnownComplete'
  BY <1>1, SetsKept DEF GraphIInv, KnownComplete
<1>4. PathKept' /\ LoopsKept'
  BY <1>1, SameGraph DEF GraphIInv, PathKept, LoopsKept
<1>5. LocksApart'
  BY <1>1, SameGraph DEF GraphIInv, LocksApart
<1>6. VerdictKept'
  BY <1>1, NumFunctionsAssumption DEF GraphIInv, GraphTypeOK, VerdictKept
<1> QED
  BY <1>1, <1>2, <1>3, <1>4, <1>5, <1>6, SetsKept DEF GraphIInv

LEMMA StutterKeeps ==
  ASSUME GraphIInv, UNCHANGED graphVars
  PROVE  GraphIInv'
<1>1. UNCHANGED <<called, nonreentrant, reachable, root, path, next, verdict>>
  BY DEF graphVars
<1>2. GraphTypeOK'
  BY <1>1 DEF GraphIInv, GraphTypeOK
<1>3. KnownComplete'
  BY <1>1, SetsKept DEF GraphIInv, KnownComplete
<1>4. PathKept' /\ LoopsKept'
  BY <1>1, SameGraph DEF GraphIInv, PathKept, LoopsKept
<1>5. LocksApart' /\ VerdictKept'
  BY <1>1, SameGraph DEF GraphIInv, LocksApart, VerdictKept
<1> QED
  BY <1>1, <1>2, <1>3, <1>4, <1>5, SetsKept DEF GraphIInv

LEMMA AnalyseKeeps ==
  ASSUME GraphIInv, Analyse
  PROVE  GraphIInv'
BY VisitRootKeeps, AlreadySeenKeeps, RejectCycleKeeps, DescendKeeps, ReturnToCallerKeeps,
   FinishRootKeeps, AcceptKeeps
   DEF Analyse

LEMMA GraphInvariant == GraphSpec => []GraphIInv
<1>1. InitGraph => GraphIInv
  BY InitGraphIInv, CallGraphsAssumption DEF InitGraph
<1>2. GraphIInv /\ [Analyse \/ Over]_graphVars => GraphIInv'
  BY AnalyseKeeps, StutterKeeps DEF Over
<1> QED
  BY <1>1, <1>2, PTL DEF GraphSpec

-----------------------------------------------------------------------------
(* The results.                                                              *)

(* The visit keeps its stack and its sets well formed (_compute_reachable_set *)
(* for any functions).                                                       *)
THEOREM GraphTypeCorrect == GraphSpec => []GraphTypeOK
<1>1. GraphIInv => GraphTypeOK
  BY DEF GraphIInv
<1> QED
  BY <1>1, GraphInvariant, PTL

(* At every moment of the analysis, and so in the sets that code generation  *)
(* goes through, a function comes after everything it calls.                 *)
THEOREM CalleesAlwaysFirst == GraphSpec => []CalleesFirst
<1>1. GraphIInv => CalleesFirst
  BY DEF GraphIInv
<1> QED
  BY <1>1, GraphInvariant, PTL

LEMMA InvariantClosure ==
  ASSUME GraphIInv
  PROVE  ReachableIsClosure
<1> SUFFICES ASSUME verdict = "accepted", NEW f \in Functions
             PROVE  Elements(reachable[f]) = Reaches(f)
  BY DEF ReachableIsClosure
<1>1. f < root
  BY NumFunctionsAssumption DEF GraphIInv, VerdictKept, Functions
<1> QED
  BY <1>1, CompleteIsClosure DEF GraphIInv, KnownComplete

(* The sets computed with the shortcut at functions already seen are exactly *)
(* what can be reached.                                                      *)
THEOREM SetsAreClosures == GraphSpec => []ReachableIsClosure
BY InvariantClosure, GraphInvariant, PTL

LEMMA InvariantVerdict ==
  ASSUME GraphIInv
  PROVE  VerdictRight
<1>1. ASSUME verdict = "accepted"
      PROVE  ~Cyclic /\ \A f \in nonreentrant : Reaches(f) \cap nonreentrant = {}
  <2>1. \A f \in Functions : f < root
    BY <1>1, NumFunctionsAssumption DEF GraphIInv, VerdictKept, Functions
  <2>2. ~Cyclic
    BY <1>1, <2>1, CompleteIsAcyclic DEF GraphIInv, KnownComplete, Cyclic
  <2>3. nonreentrant \subseteq Functions
    BY DEF GraphIInv, GraphTypeOK
  <2> QED
    BY <2>1, <2>2, <2>3 DEF GraphIInv, LocksApart
<1> QED
  BY <1>1 DEF VerdictRight, GraphIInv, VerdictKept

(* A contract is accepted exactly when no function reaches itself and no     *)
(* @nonreentrant function reaches another: no cycle and no pair of locks     *)
(* hides behind a function seen before.                                      *)
THEOREM VerdictsRight == GraphSpec => []VerdictRight
BY InvariantVerdict, GraphInvariant, PTL
=============================================================================
