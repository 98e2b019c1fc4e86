------------------------ MODULE FunctionFramesProofs ------------------------
(***************************************************************************)
(* Proofs about FunctionFrames, for any contract.                          *)
(***************************************************************************)
EXTENDS FunctionFrames, CallGraphProofs

(* Counting up to a number reaches all numbers below it.                     *)
LEMMA UpTo ==
  ASSUME NEW n \in Nat, NEW G, 0 \in G, \A m \in 0 .. (n - 1) : m \in G => m + 1 \in G
  PROVE  0 .. n \subseteq G
<1> DEFINE Bad == {m \in 0 .. n : m \notin G}
<1> SUFFICES ASSUME Bad # {}
             PROVE  FALSE
  OBVIOUS
<1>1. PICK m \in Bad : \A y \in Bad : m <= y
  <2>1. Bad \in SUBSET Nat
    OBVIOUS
  <2> HIDE DEF Bad
  <2> QED
    BY <2>1, LeastNumber
<1>2. m # 0 /\ m - 1 \in 0 .. (n - 1) /\ (m - 1) + 1 = m
  BY <1>1
<1>3. m - 1 \in G
  BY <1>1, <1>2
<1> QED
  BY <1>1, <1>2, <1>3

(* A function computed place by place exists.                                *)
LEMMA RecursionExists ==
  ASSUME NEW X, NEW base \in X, NEW n \in Nat, NEW step \in [1 .. n -> [X -> X]]
  PROVE  \E f \in [0 .. n -> X] :
           f[0] = base /\ \A k \in 1 .. n : f[k] = step[k][f[k - 1]]
<1> DEFINE Has(m, f) == \A k \in 0 .. m : f[k] = IF k = 0 THEN base ELSE step[k][f[k - 1]]
<1> DEFINE G == {m \in 0 .. n : \E f \in [0 .. m -> X] : Has(m, f)}
<1>1. 0 \in G
  <2> DEFINE f == [k \in 0 .. 0 |-> base]
  <2>1. f \in [0 .. 0 -> X] /\ Has(0, f) /\ 0 \in 0 .. n
    OBVIOUS
  <2> HIDE DEF f, Has
  <2> QED
    BY <2>1
<1>2. ASSUME NEW m \in 0 .. (n - 1), m \in G
      PROVE  m + 1 \in G
  <2>1. PICK g \in [0 .. m -> X] : Has(m, g)
    BY <1>2
  <2> DEFINE f == [k \in 0 .. (m + 1) |-> IF k = m + 1 THEN step[m + 1][g[m]] ELSE g[k]]
  <2>2. step[m + 1][g[m]] \in X
    <3>1. g[m] \in X /\ m + 1 \in 1 .. n
      BY <2>1
    <3> QED
      BY <3>1
  <2>3. f \in [0 .. (m + 1) -> X]
    <3>1. \A k \in 0 .. (m + 1) : k = m + 1 \/ k \in 0 .. m
      OBVIOUS
    <3> QED
      BY <3>1, <2>1, <2>2
  <2>4. ASSUME NEW k \in 0 .. (m + 1)
        PROVE  f[k] = IF k = 0 THEN base ELSE step[k][f[k - 1]]
    <3>1. CASE k = m + 1
      <4>1. f[m + 1] = step[m + 1][g[m]] /\ f[m] = g[m] /\ (m + 1) - 1 = m /\ m + 1 # 0
        OBVIOUS
      <4> HIDE DEF f
      <4> QED
        BY <3>1, <4>1
    <3>2. CASE k # m + 1
      <4>1. k \in 0 .. m /\ f[k] = g[k] /\ (k # 0 => k - 1 \in 0 .. m /\ f[k - 1] = g[k - 1])
        BY <3>2
      <4>2. g[k] = IF k = 0 THEN base ELSE step[k][g[k - 1]]
        BY <4>1, <2>1
      <4> QED
        BY <4>1, <4>2
    <3> QED
      BY <3>1, <3>2
  <2>5. Has(m + 1, f)
    BY <2>4
  <2>6. m + 1 \in 0 .. n
    OBVIOUS
  <2> HIDE DEF f, Has
  <2> QED
    BY <2>3, <2>5, <2>6
<1>3. n \in G
  <2> HIDE DEF G
  <2>1. 0 .. n \subseteq G
    BY <1>1, <1>2, UpTo
  <2> QED
    BY <2>1
<1>4. PICK f \in [0 .. n -> X] : Has(n, f)
  BY <1>3
<1> QED
  BY <1>4

-----------------------------------------------------------------------------
(* What a body calls.                                                        *)

StatementSet == {st \in Statements : WellFormed(st)}

LEMMA StatementFacts ==
  ASSUME NEW st \in StatementSet
  PROVE  /\ st.callee \in Functions /\ Kind[st.callee] = "internal"
         /\ st.nested \in Functions \cup {None}
         /\ st.nested # None => /\ st.nested \in Functions /\ Kind[st.nested] = "internal"
                                /\ st.at \in 1 .. NumArgs[st.callee]
         /\ st.nested = None => st.at = 0
         /\ CalleesOf(st) \in Seq(Functions)
         /\ Elements(CalleesOf(st)) = {st.callee} \cup (IF st.nested = None THEN {} ELSE {st.nested})
<1>1. /\ st.callee \in Functions /\ Kind[st.callee] = "internal"
      /\ st.nested \in Functions \cup {None}
      /\ st.nested # None => /\ st.nested \in Functions /\ Kind[st.nested] = "internal"
                             /\ st.at \in 1 .. NumArgs[st.callee]
      /\ st.nested = None => st.at = 0
  BY StatementsAssumption DEF StatementSet, WellFormed, None
<1>2. CASE st.nested = None
  <2>1. CalleesOf(st) = <<st.callee>>
    BY <1>2 DEF CalleesOf
  <2>2. <<st.callee>> \in Seq(Functions) /\ Elements(<<st.callee>>) = {st.callee}
    BY <1>1 DEF Elements
  <2> QED
    BY <1>1, <1>2, <2>1, <2>2
<1>3. CASE st.nested # None
  <2>1. CalleesOf(st) = <<st.callee, st.nested>>
    BY <1>3 DEF CalleesOf
  <2>2. <<st.callee, st.nested>> \in Seq(Functions)
    BY <1>1, <1>3
  <2>3. Elements(<<st.callee, st.nested>>) = {st.callee, st.nested}
    BY DEF Elements
  <2> QED
    BY <1>1, <1>3, <2>1, <2>2, <2>3
<1> QED
  BY <1>2, <1>3

LEMMA CalledByFacts ==
  ASSUME NEW b \in Seq(StatementSet)
  PROVE  /\ CalledBy(b) \in Seq(Functions)
         /\ Elements(CalledBy(b)) = UNION {Elements(CalleesOf(b[k])) : k \in 1 .. Len(b)}
<1> DEFINE n == Len(b)
<1> DEFINE X == Seq(Functions)
<1> DEFINE Recursive(f) ==
      f = [k \in 0 .. n |-> IF k = 0 THEN <<>> ELSE OrderedUnion(f[k - 1], CalleesOf(b[k]))]
<1>1. n \in Nat /\ \A k \in 1 .. n : CalleesOf(b[k]) \in X
  BY StatementFacts, ElementOfSeq, LenProperties
<1>2. \A s \in X, k \in 1 .. n :
        /\ OrderedUnion(s, CalleesOf(b[k])) \in X
        /\ Elements(OrderedUnion(s, CalleesOf(b[k]))) = Elements(s) \cup Elements(CalleesOf(b[k]))
  <2>1. ASSUME NEW s \in X, NEW k \in 1 .. n
        PROVE  IsUpdate(Functions, s, CalleesOf(b[k]), Len(CalleesOf(b[k])), OrderedUnion(s, CalleesOf(b[k])))
    BY <1>1, OrderedUnionFacts
  <2> QED
    BY <2>1 DEF IsUpdate, Elements
<1>3. \E f : Recursive(f)
  <2> DEFINE step == [k \in 1 .. n |-> [s \in X |-> OrderedUnion(s, CalleesOf(b[k]))]]
  <2>1. step \in [1 .. n -> [X -> X]]
    BY <1>2
  <2> DEFINE base == <<>>
  <2>2. base \in X
    OBVIOUS
  <2>3. PICK f \in [0 .. n -> X] : f[0] = base /\ \A k \in 1 .. n : f[k] = step[k][f[k - 1]]
    <3> HIDE DEF step, X, n, base, Recursive
    <3>1. n \in Nat
      BY <1>1
    <3> QED
      BY <2>1, <2>2, <3>1, RecursionExists
  <2>4. ASSUME NEW k \in 0 .. n
        PROVE  f[k] = IF k = 0 THEN <<>> ELSE OrderedUnion(f[k - 1], CalleesOf(b[k]))
    <3>1. k # 0 => f[k - 1] \in X /\ k \in 1 .. n
      <4>1. k # 0 => k \in 1 .. n /\ k - 1 \in 0 .. n
        BY <1>1
      <4> HIDE DEF X
      <4> QED
        BY <4>1, <2>3
    <3> QED
      BY <3>1, <2>3
  <2>5. f = [k \in 0 .. n |-> IF k = 0 THEN <<>> ELSE OrderedUnion(f[k - 1], CalleesOf(b[k]))]
    BY <2>3, <2>4
  <2> QED
    BY <2>5
<1> DEFINE h == CHOOSE f : Recursive(f)
<1>4. Recursive(h)
  BY <1>3
<1>5. CalledBy(b) = h[n]
  BY DEF CalledBy
<1> HIDE DEF h
<1> DEFINE G == {m \in 0 .. n : h[m] \in X /\ Elements(h[m]) = UNION {Elements(CalleesOf(b[k])) : k \in 1 .. m}}
<1>6. 0 \in G
  BY <1>1, <1>4 DEF Elements
<1>7. ASSUME NEW m \in 0 .. (n - 1), m \in G
      PROVE  m + 1 \in G
  <2>1. h[m + 1] = OrderedUnion(h[m], CalleesOf(b[m + 1])) /\ m + 1 \in 1 .. n
    BY <1>1, <1>4
  <2>2. 1 .. (m + 1) = 1 .. m \cup {m + 1}
    BY <1>1
  <2>3. UNION {Elements(CalleesOf(b[k])) : k \in 1 .. (m + 1)}
          = (UNION {Elements(CalleesOf(b[k])) : k \in 1 .. m}) \cup Elements(CalleesOf(b[m + 1]))
    BY <2>2
  <2>4. h[m] \in X /\ Elements(h[m]) = UNION {Elements(CalleesOf(b[k])) : k \in 1 .. m}
    BY <1>7
  <2>5. h[m + 1] \in X /\ Elements(h[m + 1]) = UNION {Elements(CalleesOf(b[k])) : k \in 1 .. (m + 1)}
    <3> HIDE DEF X, n
    <3> QED
      BY <2>1, <2>3, <2>4, <1>2
  <2> QED
    BY <2>1, <2>5
<1>8. n \in G
  <2> HIDE DEF G
  <2>1. 0 .. n \subseteq G
    BY <1>1, <1>6, <1>7, UpTo
  <2> QED
    BY <1>1, <2>1
<1> QED
  BY <1>5, <1>8

-----------------------------------------------------------------------------
(* The order of generation.                                                  *)

(* The functions of one kind, in their order.                                *)
Chosen(kind, fs, m, u) ==
  /\ u \in Seq(Functions)
  /\ Elements(u) = {f \in {fs[i] : i \in 1 .. m} : Kind[f] = kind}
  /\ \A k \in 1 .. Len(u) : \E i \in 1 .. m :
       u[k] = fs[i] /\ \A j \in 1 .. (i - 1) : Kind[fs[j]] = kind => fs[j] \in {u[l] : l \in 1 .. (k - 1)}

LEMMA ChosenNext ==
  ASSUME NEW kind, NEW fs \in Seq(Functions), NEW m \in Nat, m < Len(fs), NEW u, Chosen(kind, fs, m, u)
  PROVE  Chosen(kind, fs, m + 1, IF Kind[fs[m + 1]] = kind THEN Append(u, fs[m + 1]) ELSE u)
<1> DEFINE x == fs[m + 1]
<1>1. m + 1 \in 1 .. Len(fs) /\ x \in Functions
  BY ElementOfSeq, LenProperties
<1>2. {fs[i] : i \in 1 .. (m + 1)} = {fs[i] : i \in 1 .. m} \cup {x}
  <2>1. 1 .. (m + 1) = 1 .. m \cup {m + 1}
    OBVIOUS
  <2> QED
    BY <2>1
<1>3. CASE Kind[x] # kind
  <2>1. \A i \in 1 .. m : i \in 1 .. (m + 1)
    OBVIOUS
  <2>2. Elements(u) = {f \in {fs[i] : i \in 1 .. (m + 1)} : Kind[f] = kind}
    BY <1>2, <1>3 DEF Chosen
  <2>3. Chosen(kind, fs, m + 1, u)
    BY <2>1, <2>2 DEF Chosen
  <2> QED
    BY <2>3, <1>3
<1>4. CASE Kind[x] = kind
  <2> DEFINE v == Append(u, x)
  <2>1. u \in Seq(Functions) /\ Len(u) \in Nat
    BY DEF Chosen
  <2>2. /\ v \in Seq(Functions) /\ Len(v) = Len(u) + 1
        /\ Elements(v) = Elements(u) \cup {x}
        /\ v[Len(u) + 1] = x /\ \A k \in 1 .. Len(u) : v[k] = u[k]
    BY <1>1, <2>1, ElementsAppend, AppendProperties
  <2>3. ASSUME NEW k \in 1 .. Len(v)
        PROVE  \E i \in 1 .. (m + 1) :
                 v[k] = fs[i] /\ \A j \in 1 .. (i - 1) : Kind[fs[j]] = kind => fs[j] \in {v[l] : l \in 1 .. (k - 1)}
    <3>1. CASE k = Len(u) + 1
      <4>1. Elements(u) = {v[l] : l \in 1 .. (k - 1)}
        BY <3>1, <2>1, <2>2 DEF Elements
      <4>2. \A j \in 1 .. m : Kind[fs[j]] = kind => fs[j] \in Elements(u)
        BY DEF Chosen
      <4>3. v[k] = fs[m + 1] /\ m + 1 \in 1 .. (m + 1) /\ (m + 1) - 1 = m
        BY <3>1, <2>2
      <4> QED
        BY <4>1, <4>2, <4>3
    <3>2. CASE k # Len(u) + 1
      <4>1. k \in 1 .. Len(u) /\ v[k] = u[k]
        BY <3>2, <2>1, <2>2
      <4>2. {u[l] : l \in 1 .. (k - 1)} = {v[l] : l \in 1 .. (k - 1)}
        BY <4>1, <2>2
      <4>3. PICK i \in 1 .. m :
              u[k] = fs[i] /\ \A j \in 1 .. (i - 1) : Kind[fs[j]] = kind => fs[j] \in {u[l] : l \in 1 .. (k - 1)}
        BY <4>1 DEF Chosen
      <4>4. i \in 1 .. (m + 1)
        OBVIOUS
      <4> QED
        BY <4>1, <4>2, <4>3, <4>4
    <3> QED
      BY <3>1, <3>2
  <2>4. Elements(v) = {f \in {fs[i] : i \in 1 .. (m + 1)} : Kind[f] = kind}
    BY <2>2, <1>2, <1>4 DEF Chosen
  <2> HIDE DEF v
  <2>5. Chosen(kind, fs, m + 1, v)
    BY <2>2, <2>3, <2>4 DEF Chosen
  <2> QED
    BY <2>5, <1>4 DEF v
<1> QED
  BY <1>3, <1>4

LEMMA OfKindFacts ==
  ASSUME NEW kind, NEW fs \in Seq(Functions)
  PROVE  Chosen(kind, fs, Len(fs), OfKind(kind, fs))
<1> DEFINE n == Len(fs)
<1> DEFINE X == Seq(Functions)
<1> DEFINE More(s, x) == IF Kind[x] = kind THEN Append(s, x) ELSE s
<1> DEFINE Recursive(f) ==
      f = [k \in 0 .. n |-> IF k = 0 THEN <<>>
                            ELSE IF Kind[fs[k]] = kind THEN Append(f[k - 1], fs[k]) ELSE f[k - 1]]
<1>1. n \in Nat /\ \A k \in 1 .. n : fs[k] \in Functions
  BY ElementOfSeq, LenProperties
<1>2. \A s \in X, k \in 1 .. n : More(s, fs[k]) \in X
  BY <1>1
<1>3. \E f : Recursive(f)
  <2> DEFINE step == [k \in 1 .. n |-> [s \in X |-> More(s, fs[k])]]
  <2>1. step \in [1 .. n -> [X -> X]]
    BY <1>2
  <2> DEFINE base == <<>>
  <2>2. base \in X
    OBVIOUS
  <2>3. PICK f \in [0 .. n -> X] : f[0] = base /\ \A k \in 1 .. n : f[k] = step[k][f[k - 1]]
    <3> HIDE DEF step, X, n, base, Recursive
    <3>1. n \in Nat
      BY <1>1
    <3> QED
      BY <2>1, <2>2, <3>1, RecursionExists
  <2>4. ASSUME NEW k \in 0 .. n
        PROVE  f[k] = IF k = 0 THEN <<>>
                      ELSE IF Kind[fs[k]] = kind THEN Append(f[k - 1], fs[k]) ELSE f[k - 1]
    <3>1. k # 0 => f[k - 1] \in X /\ k \in 1 .. n
      <4>1. k # 0 => k \in 1 .. n /\ k - 1 \in 0 .. n
        BY <1>1
      <4> HIDE DEF X
      <4> QED
        BY <4>1, <2>3
    <3> QED
      BY <3>1, <2>3
  <2>5. f = [k \in 0 .. n |-> IF k = 0 THEN <<>>
                            ELSE IF Kind[fs[k]] = kind THEN Append(f[k - 1], fs[k]) ELSE f[k - 1]]
    BY <2>3, <2>4
  <2> QED
    BY <2>5
<1> DEFINE h == CHOOSE f : Recursive(f)
<1>4. Recursive(h)
  BY <1>3
<1>5. OfKind(kind, fs) = h[n]
  BY DEF OfKind
<1> HIDE DEF h
<1> DEFINE G == {m \in 0 .. n : Chosen(kind, fs, m, h[m])}
<1>6. 0 \in G
  BY <1>1, <1>4 DEF Chosen, Elements
<1>7. ASSUME NEW m \in 0 .. (n - 1), m \in G
      PROVE  m + 1 \in G
  <2>0. m + 1 \in 0 .. n /\ m + 1 # 0 /\ (m + 1) - 1 = m /\ m \in Nat /\ m < Len(fs)
    BY <1>1
  <2>1. h[m + 1] = More(h[m], fs[m + 1])
    BY <2>0, <1>4
  <2>2. Chosen(kind, fs, m, h[m])
    BY <1>7
  <2>3. Chosen(kind, fs, m + 1, More(h[m], fs[m + 1]))
    BY <2>0, <2>2, ChosenNext
  <2> QED
    BY <2>0, <2>1, <2>3
<1>8. n \in G
  <2> HIDE DEF G
  <2>1. 0 .. n \subseteq G
    BY <1>1, <1>6, <1>7, UpTo
  <2> QED
    BY <1>1, <2>1
<1> QED
  BY <1>5, <1>8

LEMMA AcceptedComplete ==
  ASSUME GraphIInv, verdict = "accepted", NEW f \in Functions
  PROVE  Complete(f) /\ Elements(reachable[f]) = Reaches(f)
<1>1. f < root
  BY NumFunctionsAssumption DEF GraphIInv, VerdictKept, Functions
<1> QED
  BY <1>1, CompleteIsClosure DEF GraphIInv, KnownComplete

(* All that the functions fs reach, each after what it calls.                *)
LEMMA WithReachableFacts ==
  ASSUME GraphIInv, verdict = "accepted", NEW fs \in Seq(Functions)
  PROVE  /\ WithReachable(fs) \in Seq(Functions) /\ InOrder(WithReachable(fs))
         /\ Elements(fs) \subseteq Elements(WithReachable(fs))
<1> DEFINE n == Len(fs)
<1> DEFINE X == Seq(Functions)
<1> DEFINE More(s, x) == OrderedUnion(OrderedUnion(s, reachable[x]), <<x>>)
<1> DEFINE Recursive(f) ==
      f = [k \in 0 .. n |-> IF k = 0 THEN <<>>
                            ELSE OrderedUnion(OrderedUnion(f[k - 1], reachable[fs[k]]), <<fs[k]>>)]
<1>1. n \in Nat /\ \A k \in 1 .. n : fs[k] \in Functions
  BY ElementOfSeq, LenProperties
<1>2. GraphTypeOK /\ CalleesFirst /\ reachable \in [Functions -> Seq(Functions)]
  BY DEF GraphIInv, GraphTypeOK
<1>3. ASSUME NEW s \in X, NEW k \in 1 .. n
      PROVE  More(s, fs[k]) \in X
  <2>1. reachable[fs[k]] \in X /\ <<fs[k]>> \in X
    BY <1>1, <1>2
  <2>2. OrderedUnion(s, reachable[fs[k]]) \in X
    BY <2>1, OrderedUnionFacts DEF IsUpdate
  <2> QED
    BY <2>1, <2>2, OrderedUnionFacts DEF IsUpdate
<1>4. ASSUME NEW s \in X, NEW k \in 1 .. n, InOrder(s)
      PROVE  InOrder(More(s, fs[k])) /\ Elements(More(s, fs[k])) = Elements(s) \cup Elements(reachable[fs[k]]) \cup {fs[k]}
  <2>1. Complete(fs[k]) /\ fs[k] \in Functions
    BY <1>1, AcceptedComplete
  <2> HIDE DEF n
  <2> QED
    BY <1>2, <1>4, <2>1, CalleeAdded
<1>5. \E f : Recursive(f)
  <2> DEFINE step == [k \in 1 .. n |-> [s \in X |-> More(s, fs[k])]]
  <2>1. step \in [1 .. n -> [X -> X]]
    BY <1>3
  <2> DEFINE base == <<>>
  <2>2. base \in X
    OBVIOUS
  <2>3. PICK f \in [0 .. n -> X] : f[0] = base /\ \A k \in 1 .. n : f[k] = step[k][f[k - 1]]
    <3> HIDE DEF step, X, n, base, Recursive
    <3>1. n \in Nat
      BY <1>1
    <3> QED
      BY <2>1, <2>2, <3>1, RecursionExists
  <2>4. ASSUME NEW k \in 0 .. n
        PROVE  f[k] = IF k = 0 THEN <<>>
                      ELSE OrderedUnion(OrderedUnion(f[k - 1], reachable[fs[k]]), <<fs[k]>>)
    <3>1. k # 0 => f[k - 1] \in X /\ k \in 1 .. n
      <4>1. k # 0 => k \in 1 .. n /\ k - 1 \in 0 .. n
        BY <1>1
      <4> HIDE DEF X
      <4> QED
        BY <4>1, <2>3
    <3> QED
      BY <3>1, <2>3
  <2>5. f = [k \in 0 .. n |-> IF k = 0 THEN <<>>
                            ELSE OrderedUnion(OrderedUnion(f[k - 1], reachable[fs[k]]), <<fs[k]>>)]
    BY <2>3, <2>4
  <2> QED
    BY <2>5
<1> DEFINE h == CHOOSE f : Recursive(f)
<1>6. Recursive(h)
  BY <1>5
<1>7. WithReachable(fs) = h[n]
  BY DEF WithReachable
<1> HIDE DEF h
<1> DEFINE G == {m \in 0 .. n : h[m] \in X /\ InOrder(h[m]) /\ \A i \in 1 .. m : fs[i] \in Elements(h[m])}
<1>8. 0 \in G
  BY <1>1, <1>6 DEF InOrder
<1>9. ASSUME NEW m \in 0 .. (n - 1), m \in G
      PROVE  m + 1 \in G
  <2>0. m + 1 \in 0 .. n /\ m + 1 \in 1 .. n /\ m + 1 # 0 /\ (m + 1) - 1 = m
    BY <1>1
  <2>1. h[m + 1] = More(h[m], fs[m + 1])
    BY <2>0, <1>6
  <2>2. h[m] \in X /\ InOrder(h[m]) /\ \A i \in 1 .. m : fs[i] \in Elements(h[m])
    BY <1>9
  <2>3. /\ h[m + 1] \in X /\ InOrder(h[m + 1])
        /\ Elements(h[m + 1]) = Elements(h[m]) \cup Elements(reachable[fs[m + 1]]) \cup {fs[m + 1]}
    <3> HIDE DEF X, More, n
    <3> QED
      BY <2>0, <2>1, <2>2, <1>3, <1>4
  <2>4. \A i \in 1 .. (m + 1) : fs[i] \in Elements(h[m + 1])
    <3>1. 1 .. (m + 1) = 1 .. m \cup {m + 1}
      BY <2>0
    <3> QED
      BY <2>2, <2>3, <3>1
  <2> QED
    BY <2>0, <2>3, <2>4
<1>10. n \in G
  <2> HIDE DEF G
  <2>1. 0 .. n \subseteq G
    BY <1>1, <1>8, <1>9, UpTo
  <2> QED
    BY <1>1, <2>1
<1> QED
  BY <1>7, <1>10 DEF Elements

Contexts == {"runtime", "deploy", "unused"}
Order == Seq(Functions \X Contexts)

(* Each function is preceded by those it calls, or they are in K.            *)
Ordered(s, K) ==
  \A k \in 1 .. Len(s) : Calls(s[k][1]) \subseteq K \cup {s[j][1] : j \in 1 .. (k - 1)}

LEMMA InFacts ==
  ASSUME NEW ctx \in Contexts, NEW fs \in Seq(Functions)
  PROVE  /\ In(ctx, fs) \in Order /\ Len(In(ctx, fs)) = Len(fs)
         /\ \A k \in 1 .. Len(fs) : In(ctx, fs)[k] = <<fs[k], ctx>>
         /\ Elements(In(ctx, fs)) = {<<f, ctx>> : f \in Elements(fs)}
         /\ {In(ctx, fs)[k][1] : k \in 1 .. Len(fs)} = Elements(fs)
<1> DEFINE s == In(ctx, fs)
<1>1. Len(fs) \in Nat /\ \A k \in 1 .. Len(fs) : fs[k] \in Functions
  BY ElementOfSeq, LenProperties
<1>2. s = [k \in 1 .. Len(fs) |-> <<fs[k], ctx>>]
  BY DEF In
<1>3. s \in [1 .. Len(fs) -> Functions \X Contexts]
  BY <1>1, <1>2
<1>4. s \in Order
  BY <1>1, <1>3, SeqDef DEF Order
<1>5. DOMAIN s = 1 .. Len(s) /\ Len(s) \in Nat
  BY <1>4, LenProperties DEF Order
<1>6. Len(s) = Len(fs)
  BY <1>1, <1>3, <1>5
<1>7. \A k \in 1 .. Len(fs) : s[k] = <<fs[k], ctx>> /\ s[k][1] = fs[k]
  BY <1>2
<1> HIDE DEF s
<1>8. Elements(s) = {<<f, ctx>> : f \in Elements(fs)}
  <2>1. \A k \in 1 .. Len(fs) : s[k] \in {<<f, ctx>> : f \in Elements(fs)}
    BY <1>7 DEF Elements
  <2>2. \A k \in 1 .. Len(fs) : <<fs[k], ctx>> \in Elements(s)
    BY <1>6, <1>7 DEF Elements
  <2> QED
    BY <1>6, <2>1, <2>2 DEF Elements
<1>9. {s[k][1] : k \in 1 .. Len(fs)} = Elements(fs)
  BY <1>7 DEF Elements
<1> QED
  BY <1>4, <1>6, <1>7, <1>8, <1>9 DEF s

LEMMA ConcatOrdered ==
  ASSUME NEW s \in Order, NEW t \in Order, NEW K, Ordered(s, K),
         Ordered(t, K \cup {s[j][1] : j \in 1 .. Len(s)})
  PROVE  /\ s \o t \in Order /\ Ordered(s \o t, K)
         /\ Elements(s \o t) = Elements(s) \cup Elements(t)
<1> DEFINE u == s \o t
<1>1. /\ u \in Order /\ Len(u) = Len(s) + Len(t) /\ Len(s) \in Nat /\ Len(t) \in Nat
      /\ \A i \in 1 .. Len(s) : u[i] = s[i]
      /\ \A i \in 1 .. Len(t) : u[Len(s) + i] = t[i]
  BY ConcatProperties, LenProperties DEF Order
<1> HIDE DEF u
<1>2. ASSUME NEW k \in 1 .. Len(u)
      PROVE  Calls(u[k][1]) \subseteq K \cup {u[j][1] : j \in 1 .. (k - 1)}
  <2>1. CASE k <= Len(s)
    <3>1. k \in 1 .. Len(s) /\ u[k] = s[k] /\ \A j \in 1 .. (k - 1) : u[j] = s[j]
      BY <1>1, <2>1
    <3>2. Calls(s[k][1]) \subseteq K \cup {s[j][1] : j \in 1 .. (k - 1)}
      BY <3>1 DEF Ordered
    <3>3. {s[j][1] : j \in 1 .. (k - 1)} = {u[j][1] : j \in 1 .. (k - 1)}
      BY <3>1
    <3> QED
      BY <3>1, <3>2, <3>3
  <2>2. CASE k > Len(s)
    <3>1. PICK i \in 1 .. Len(t) : k = Len(s) + i
      <4>1. k - Len(s) \in 1 .. Len(t) /\ k = Len(s) + (k - Len(s))
        BY <1>1, <2>2
      <4> QED
        BY <4>1
    <3>2. Calls(t[i][1]) \subseteq K \cup {s[j][1] : j \in 1 .. Len(s)} \cup {t[j][1] : j \in 1 .. (i - 1)}
      BY DEF Ordered
    <3>3. \A j \in 1 .. Len(s) : j \in 1 .. (k - 1) /\ u[j] = s[j]
      BY <1>1, <2>2
    <3>4. \A j \in 1 .. (i - 1) : Len(s) + j \in 1 .. (k - 1) /\ u[Len(s) + j] = t[j]
      BY <1>1, <3>1
    <3>5. {s[j][1] : j \in 1 .. Len(s)} \subseteq {u[j][1] : j \in 1 .. (k - 1)}
      BY <3>3
    <3>6. {t[j][1] : j \in 1 .. (i - 1)} \subseteq {u[j][1] : j \in 1 .. (k - 1)}
      BY <3>4
    <3>7. u[k] = t[i]
      BY <1>1, <3>1
    <3> QED
      BY <3>2, <3>5, <3>6, <3>7
  <2>3. k <= Len(s) \/ k > Len(s)
    BY <1>1
  <2> QED
    BY <2>1, <2>2, <2>3
<1>3. Elements(u) = Elements(s) \cup Elements(t)
  <2>1. ASSUME NEW k \in 1 .. Len(u)
        PROVE  u[k] \in Elements(s) \cup Elements(t)
    <3>1. CASE k \in 1 .. Len(s)
      BY <1>1, <3>1 DEF Elements
    <3>2. CASE k \notin 1 .. Len(s)
      <4>1. k - Len(s) \in 1 .. Len(t) /\ k = Len(s) + (k - Len(s))
        BY <1>1, <3>2
      <4>2. u[k] = t[k - Len(s)]
        BY <1>1, <4>1
      <4> QED
        BY <4>1, <4>2 DEF Elements
    <3> QED
      BY <3>1, <3>2
  <2>2. \A i \in 1 .. Len(s) : s[i] \in Elements(u)
    <3>1. \A i \in 1 .. Len(s) : i \in 1 .. Len(u)
      BY <1>1
    <3> QED
      BY <1>1, <3>1 DEF Elements
  <2>3. \A i \in 1 .. Len(t) : t[i] \in Elements(u)
    <3>1. \A i \in 1 .. Len(t) : Len(s) + i \in 1 .. Len(u)
      BY <1>1
    <3> QED
      BY <1>1, <3>1 DEF Elements
  <2> QED
    BY <2>1, <2>2, <2>3 DEF Elements
<1> QED
  BY <1>1, <1>2, <1>3 DEF u, Ordered

LEMMA InOrderClosed ==
  ASSUME NEW fs \in Seq(Functions), InOrder(fs)
  PROVE  \A f \in Elements(fs) : Calls(f) \subseteq Elements(fs)
<1>1. ASSUME NEW k \in 1 .. Len(fs)
      PROVE  Calls(fs[k]) \subseteq Elements(fs)
  <2>1. \A j \in 1 .. (k - 1) : j \in 1 .. Len(fs)
    BY LenProperties
  <2> QED
    BY <2>1 DEF InOrder, Elements
<1> QED
  BY <1>1 DEF Elements

LEMMA InOrdered ==
  ASSUME NEW ctx \in Contexts, NEW fs \in Seq(Functions), InOrder(fs), NEW K
  PROVE  Ordered(In(ctx, fs), K)
<1>1. \A k \in 1 .. Len(fs) : In(ctx, fs)[k][1] = fs[k]
  BY InFacts
<1>2. ASSUME NEW k \in 1 .. Len(fs)
      PROVE  Calls(In(ctx, fs)[k][1]) \subseteq K \cup {In(ctx, fs)[j][1] : j \in 1 .. (k - 1)}
  <2>1. \A j \in 1 .. (k - 1) : j \in 1 .. Len(fs)
    BY LenProperties
  <2>2. {fs[j] : j \in 1 .. (k - 1)} = {In(ctx, fs)[j][1] : j \in 1 .. (k - 1)}
    BY <1>1, <2>1
  <2> QED
    BY <1>1, <2>2 DEF InOrder
<1> QED
  BY <1>2, InFacts DEF Ordered

LEMMA AscendingFacts ==
  ASSUME NEW kind
  PROVE  Ascending(kind) \in Seq(Functions) /\ Elements(Ascending(kind)) = {f \in Functions : Kind[f] = kind}
<1> DEFINE id == [k \in Functions |-> k]
<1>1. id \in Seq(Functions)
  BY NumFunctionsAssumption, SeqDef DEF Functions
<1>2. Len(id) = NumFunctions
  BY <1>1, NumFunctionsAssumption, LenProperties DEF Functions
<1>3. {id[i] : i \in 1 .. Len(id)} = Functions
  BY <1>2 DEF Functions
<1>4. Ascending(kind) = OfKind(kind, id)
  BY DEF Ascending
<1> HIDE DEF id
<1> QED
  BY <1>1, <1>3, <1>4, OfKindFacts DEF Chosen

CallsInternal == \A f \in Functions : \A g \in Calls(f) : Kind[g] = "internal"

(* The internal functions of the runtime code, then the exposed ones.        *)
LEMMA RuntimeOrderFacts ==
  ASSUME GraphIInv, verdict = "accepted", CallsInternal,
         NEW R, R = RuntimeReachable, NEW P, P = OfKind("internal", R), NEW Q, Q = OfKind("external", R)
  PROVE  /\ P \in Seq(Functions) /\ Q \in Seq(Functions)
         /\ Ordered(In("runtime", P), {})
         /\ Ordered(In("runtime", Q), Elements(P))
         /\ \A f \in Functions : Kind[f] = "external" => f \in Elements(Q)
         /\ \A f \in Elements(P) \cup Elements(Q) : Calls(f) \subseteq Elements(P)
<1>1. /\ R \in Seq(Functions) /\ InOrder(R)
      /\ \A f \in Functions : Kind[f] = "external" => f \in Elements(R)
  BY AscendingFacts, WithReachableFacts DEF RuntimeReachable
<1>2. Chosen("internal", R, Len(R), P) /\ Chosen("external", R, Len(R), Q)
  BY <1>1, OfKindFacts
<1>3. /\ P \in Seq(Functions) /\ Elements(P) = {f \in Elements(R) : Kind[f] = "internal"}
      /\ Q \in Seq(Functions) /\ Elements(Q) = {f \in Elements(R) : Kind[f] = "external"}
  BY <1>2 DEF Chosen, Elements
<1>4. \A f \in Elements(R) : f \in Functions
  BY <1>1, ElementOfSeq DEF Elements
<1>5. \A f \in Elements(R) : Calls(f) \subseteq Elements(P)
  BY <1>1, <1>3, <1>4, InOrderClosed DEF CallsInternal
<1>6. Ordered(In("runtime", P), {})
  <2>1. \A k \in 1 .. Len(P) : In("runtime", P)[k][1] = P[k]
    BY <1>3, InFacts DEF Contexts
  <2>2. ASSUME NEW k \in 1 .. Len(P)
        PROVE  Calls(P[k]) \subseteq {P[j] : j \in 1 .. (k - 1)}
    <3>1. PICK i \in 1 .. Len(R) :
            P[k] = R[i] /\ \A j \in 1 .. (i - 1) : Kind[R[j]] = "internal" => R[j] \in {P[l] : l \in 1 .. (k - 1)}
      BY <1>2 DEF Chosen
    <3>2. Calls(R[i]) \subseteq {R[j] : j \in 1 .. (i - 1)} /\ R[i] \in Functions
      BY <1>1, ElementOfSeq DEF InOrder
    <3> QED
      BY <3>1, <3>2 DEF CallsInternal
  <2>3. ASSUME NEW k \in 1 .. Len(P)
        PROVE  {P[j] : j \in 1 .. (k - 1)} = {In("runtime", P)[j][1] : j \in 1 .. (k - 1)}
    <3>1. \A j \in 1 .. (k - 1) : j \in 1 .. Len(P)
      BY <1>3, LenProperties
    <3> QED
      BY <3>1, <2>1
  <2>4. Len(In("runtime", P)) = Len(P)
    BY <1>3, InFacts DEF Contexts
  <2> QED
    BY <2>1, <2>2, <2>3, <2>4 DEF Ordered
<1>7. Ordered(In("runtime", Q), Elements(P))
  <2>1. /\ \A k \in 1 .. Len(Q) : In("runtime", Q)[k][1] = Q[k]
        /\ Len(In("runtime", Q)) = Len(Q)
    BY <1>3, InFacts DEF Contexts
  <2>2. \A k \in 1 .. Len(Q) : Calls(Q[k]) \subseteq Elements(P)
    BY <1>3, <1>5 DEF Elements
  <2> QED
    BY <2>1, <2>2 DEF Ordered
<1> QED
  BY <1>1, <1>3, <1>5, <1>6, <1>7

(* What is generated in the contexts that run.                               *)
Covers(S) ==
  /\ \A f \in Functions : Kind[f] = "external" => <<f, "runtime">> \in S
  /\ \A f \in Functions : Kind[f] = "init" => <<f, "deploy">> \in S
  /\ \A f \in Functions, c \in {"runtime", "deploy"} :
       <<f, c>> \in S => \A g \in Calls(f) : <<g, c>> \in S

LEMMA GenerationOrderFacts ==
  ASSUME GraphIInv, verdict = "accepted", CallsInternal
  PROVE  /\ GenerationOrder \in Order /\ Ordered(GenerationOrder, {})
         /\ Covers(Elements(GenerationOrder))
<1> DEFINE R == RuntimeReachable
<1> DEFINE P == OfKind("internal", R)
<1> DEFINE Q == OfKind("external", R)
<1> DEFINE D == WithReachable(Ascending("init"))
<1> DEFINE U == WithReachable(Ascending("internal"))
<1> DEFINE p == In("runtime", P)
<1> DEFINE q == In("runtime", Q)
<1> DEFINE d == In("deploy", D)
<1> DEFINE u == In("unused", U)
<1>1. /\ P \in Seq(Functions) /\ Q \in Seq(Functions)
      /\ Ordered(p, {}) /\ Ordered(q, Elements(P))
      /\ \A f \in Functions : Kind[f] = "external" => f \in Elements(Q)
      /\ \A f \in Elements(P) \cup Elements(Q) : Calls(f) \subseteq Elements(P)
  BY RuntimeOrderFacts
<1>2. /\ D \in Seq(Functions) /\ U \in Seq(Functions) /\ InOrder(D) /\ InOrder(U)
      /\ \A f \in Functions : Kind[f] = "init" => f \in Elements(D)
  BY AscendingFacts, WithReachableFacts
<1>3. \A f \in Elements(D) : Calls(f) \subseteq Elements(D)
  BY <1>2, InOrderClosed
<1>4. \A K : Ordered(d, K) /\ Ordered(u, K)
  BY <1>2, InOrdered DEF Contexts
<1> HIDE DEF P, Q, D, U
<1>5. /\ p \in Order /\ q \in Order /\ d \in Order /\ u \in Order
      /\ {p[k][1] : k \in 1 .. Len(p)} = Elements(P)
      /\ Elements(p) = {<<f, "runtime">> : f \in Elements(P)}
      /\ Elements(q) = {<<f, "runtime">> : f \in Elements(Q)}
      /\ Elements(d) = {<<f, "deploy">> : f \in Elements(D)}
      /\ Elements(u) = {<<f, "unused">> : f \in Elements(U)}
  BY <1>1, <1>2, InFacts DEF Contexts
<1>6. GenerationOrder = ((p \o q) \o d) \o u
  BY DEF GenerationOrder, P, Q, D, U
<1> HIDE DEF p, q, d, u
<1>7. /\ p \o q \in Order /\ Ordered(p \o q, {})
      /\ Elements(p \o q) = Elements(p) \cup Elements(q)
  BY <1>1, <1>5, ConcatOrdered
<1>8. /\ (p \o q) \o d \in Order /\ Ordered((p \o q) \o d, {})
      /\ Elements((p \o q) \o d) = Elements(p) \cup Elements(q) \cup Elements(d)
  <2>1. Ordered(d, {} \cup {(p \o q)[j][1] : j \in 1 .. Len(p \o q)})
    BY <1>4
  <2> QED
    BY <1>5, <1>7, <2>1, ConcatOrdered
<1>9. /\ GenerationOrder \in Order /\ Ordered(GenerationOrder, {})
      /\ Elements(GenerationOrder) = Elements(p) \cup Elements(q) \cup Elements(d) \cup Elements(u)
  <2> DEFINE r == (p \o q) \o d
  <2>1. Ordered(u, {} \cup {r[j][1] : j \in 1 .. Len(r)})
    BY <1>4
  <2>2. r \in Order /\ Ordered(r, {}) /\ Elements(r) = Elements(p) \cup Elements(q) \cup Elements(d)
    BY <1>8
  <2>3. GenerationOrder = r \o u
    BY <1>6
  <2> HIDE DEF r
  <2> QED
    BY <1>5, <2>1, <2>2, <2>3, ConcatOrdered
<1>10. Covers(Elements(GenerationOrder))
  <2>1. \A f \in Functions : <<f, "runtime">> \in Elements(GenerationOrder) <=> f \in Elements(P) \cup Elements(Q)
    BY <1>5, <1>9
  <2>2. \A f \in Functions : <<f, "deploy">> \in Elements(GenerationOrder) <=> f \in Elements(D)
    BY <1>5, <1>9
  <2>3. Elements(P) \subseteq Functions /\ Elements(D) \subseteq Functions
    BY <1>1, <1>2, ElementOfSeq DEF Elements
  <2> QED
    BY <1>1, <1>2, <1>3, <2>1, <2>2, <2>3 DEF Covers
<1> QED
  BY <1>9, <1>10

-----------------------------------------------------------------------------
(* Sizes of frames.                                                          *)

LEMMA Bounded ==
  ASSUME NEW n \in Nat, NEW e \in [1 .. n -> Nat]
  PROVE  \E b \in Nat : \A k \in 1 .. n : e[k] <= b
<1> DEFINE G == {m \in 0 .. n : \E b \in Nat : \A k \in 1 .. m : e[k] <= b}
<1>1. 0 \in G
  <2>1. 0 \in 0 .. n /\ \A k \in 1 .. 0 : e[k] <= 0
    OBVIOUS
  <2> QED
    BY <2>1
<1>2. ASSUME NEW m \in 0 .. (n - 1), m \in G
      PROVE  m + 1 \in G
  <2>1. PICK b \in Nat : \A k \in 1 .. m : e[k] <= b
    BY <1>2
  <2>2. e[m + 1] \in Nat /\ m + 1 \in 0 .. n
    OBVIOUS
  <2>3. b + e[m + 1] \in Nat /\ \A k \in 1 .. (m + 1) : e[k] <= b + e[m + 1]
    <3>1. \A k \in 1 .. (m + 1) : k = m + 1 \/ k \in 1 .. m
      OBVIOUS
    <3>2. \A k \in 1 .. m : e[k] \in Nat
      OBVIOUS
    <3> QED
      BY <2>1, <2>2, <3>1, <3>2
  <2> QED
    BY <2>2, <2>3
<1>3. n \in G
  <2> HIDE DEF G
  <2>1. 0 .. n \subseteq G
    BY <1>1, <1>2, UpTo
  <2> QED
    BY <2>1
<1> QED
  BY <1>3

LEMMA MaximumFacts ==
  ASSUME NEW n \in Nat, NEW e \in [1 .. n -> Nat], NEW T, T = {0} \cup {e[k] : k \in 1 .. n}
  PROVE  Maximum(T) \in Nat /\ \A x \in T : x <= Maximum(T)
<1>1. PICK b \in Nat : \A k \in 1 .. n : e[k] <= b
  BY Bounded
<1>2. T \subseteq 0 .. b /\ 0 \in T
  BY <1>1
<1> DEFINE Gaps == {b - x : x \in T}
<1>3. Gaps \in SUBSET Nat /\ Gaps # {}
  BY <1>2
<1>4. PICK y \in Gaps : \A z \in Gaps : y <= z
  <2> HIDE DEF Gaps
  <2> QED
    BY <1>3, LeastNumber
<1>5. PICK m \in T : y = b - m
  BY <1>4
<1>6. ASSUME NEW x \in T
      PROVE  x <= m
  <2>1. b - m <= b - x
    BY <1>4, <1>5
  <2>2. x \in 0 .. b /\ m \in 0 .. b
    BY <1>2
  <2> QED
    BY <2>1, <2>2
<1>7. Maximum(T) \in T /\ \A x \in T : x <= Maximum(T)
  BY <1>5, <1>6 DEF Maximum
<1> QED
  BY <1>2, <1>7

Laid(f) ==
  [frame_start |-> AllocateStart(f), frame_size |-> AllocateStart(f) + FrameWords(f) - Reserved]

Known == {f \in Functions : frame_info[f] # NoFrame}

CompileTypeOK ==
  /\ body \in [Functions -> Seq(StatementSet)]
  /\ called = [f \in Functions |-> CalledBy(body[f])]
  /\ frame_info \in [Functions -> [frame_start : Nat, frame_size : Nat]]
  /\ todo \in Order
  /\ emitted \subseteq Functions \X {"runtime", "deploy"}
  /\ stage \in {"analyse", "generate", "crash", "ready", "run", "stop"}

LEMMA BodyFacts ==
  ASSUME CompileTypeOK
  PROVE  /\ CallsInternal
         /\ \A f \in Functions : Calls(f) \subseteq Functions
         /\ \A f \in Functions : \A k \in 1 .. Len(body[f]) :
              /\ body[f][k] \in StatementSet
              /\ body[f][k].callee \in Calls(f)
              /\ body[f][k].nested # None => body[f][k].nested \in Calls(f)
<1>1. ASSUME NEW f \in Functions
      PROVE  /\ Calls(f) = UNION {Elements(CalleesOf(body[f][k])) : k \in 1 .. Len(body[f])}
             /\ \A k \in 1 .. Len(body[f]) : body[f][k] \in StatementSet
  BY CalledByFacts, ElementOfSeq DEF CompileTypeOK, Calls
<1> QED
  BY <1>1, StatementFacts DEF CallsInternal

LEMMA FrameFacts ==
  ASSUME CompileTypeOK, NEW f \in Functions
  PROVE  /\ AllocateStart(f) \in Nat /\ AllocateStart(f) >= Reserved
         /\ \A g \in Calls(f) : frame_info[g].frame_size + Reserved <= AllocateStart(f)
         /\ FrameWords(f) \in Nat /\ FrameWords(f) >= NumArgs[f] + NumLocals[f]
         /\ \A k \in 1 .. Len(body[f]) :
              FrameWords(f) >= NumArgs[f] + NumLocals[f] + Temporaries(body[f][k])
<1>1. /\ AllocateStart(f) \in Nat /\ AllocateStart(f) >= Reserved
      /\ \A g \in Calls(f) : frame_info[g].frame_size + Reserved <= AllocateStart(f)
  <2> DEFINE n == Len(called[f])
  <2> DEFINE e == [k \in 1 .. n |-> frame_info[called[f][k]].frame_size]
  <2> DEFINE T == {0} \cup {e[k] : k \in 1 .. n}
  <2>1. called[f] \in Seq(Functions)
    BY CalledByFacts DEF CompileTypeOK
  <2>2. n \in Nat /\ \A k \in 1 .. n : called[f][k] \in Functions
    BY <2>1, ElementOfSeq, LenProperties
  <2>3. e \in [1 .. n -> Nat]
    <3>1. \A g \in Functions : frame_info[g].frame_size \in Nat
      BY DEF CompileTypeOK
    <3> QED
      BY <2>2, <3>1
  <2>4. {frame_info[g].frame_size : g \in Calls(f)} = {e[k] : k \in 1 .. n}
    BY DEF Calls, Elements
  <2>5. AllocateStart(f) = Maximum(T) + Reserved
    BY <2>4 DEF AllocateStart
  <2>6. \A g \in Calls(f) : frame_info[g].frame_size \in T
    BY <2>4
  <2>7. Maximum(T) \in Nat /\ \A x \in T : x <= Maximum(T)
    <3> HIDE DEF e, n
    <3> QED
      BY <2>2, <2>3, MaximumFacts
  <2>8. \A x \in T : x \in Nat
    <3>1. \A k \in 1 .. n : e[k] \in Nat
      BY <2>3
    <3> HIDE DEF e
    <3> QED
      BY <3>1
  <2> HIDE DEF T
  <2> QED
    BY <2>5, <2>6, <2>7, <2>8 DEF Reserved
<1>2. /\ FrameWords(f) \in Nat /\ FrameWords(f) >= NumArgs[f] + NumLocals[f]
      /\ \A k \in 1 .. Len(body[f]) :
           FrameWords(f) >= NumArgs[f] + NumLocals[f] + Temporaries(body[f][k])
  <2> DEFINE n == Len(body[f])
  <2> DEFINE e == [k \in 1 .. n |-> Temporaries(body[f][k])]
  <2> DEFINE T == {0} \cup {e[k] : k \in 1 .. n}
  <2>1. n \in Nat /\ DOMAIN body[f] = 1 .. n
    BY LenProperties DEF CompileTypeOK
  <2>2. \A k \in 1 .. n : Temporaries(body[f][k]) \in Nat
    <3>1. \A st \in StatementSet : Temporaries(st) \in Nat
      BY StatementFacts, SizesAssumption DEF Temporaries, TemporaryBuffer
    <3> QED
      BY <3>1, BodyFacts
  <2>3. e \in [1 .. n -> Nat]
    BY <2>2
  <2>4. FrameWords(f) = NumArgs[f] + NumLocals[f] + Maximum(T)
    <3>1. {Temporaries(body[f][k]) : k \in DOMAIN body[f]} = {e[k] : k \in 1 .. n}
      BY <2>1
    <3> QED
      BY <3>1 DEF FrameWords
  <2>5. Maximum(T) \in Nat /\ \A x \in T : x <= Maximum(T)
    <3> HIDE DEF e, n
    <3> QED
      BY <2>1, <2>3, MaximumFacts
  <2>6. \A k \in 1 .. n : Temporaries(body[f][k]) \in T
    OBVIOUS
  <2>7. NumArgs[f] \in Nat /\ NumLocals[f] \in Nat
    BY SizesAssumption
  <2> HIDE DEF T
  <2> QED
    BY <2>2, <2>4, <2>5, <2>6, <2>7
<1> QED
  BY <1>1, <1>2

-----------------------------------------------------------------------------
(* The compilation.                                                          *)

(* A function that has a frame has the one its callees ask for, now and when *)
(* it is compiled again.                                                     *)
FramesLaid == \A f \in Known : Calls(f) \subseteq Known /\ frame_info[f] = Laid(f)

StagesApart ==
  /\ stage # "crash"
  /\ stage = "analyse" => emitted = {}
  /\ stage # "analyse" => verdict # "analysing"
  /\ stage \in {"generate", "ready", "run"} => verdict = "accepted"
  /\ stage \in {"ready", "run"} => todo = <<>>

Planned ==
  stage \in {"generate", "ready", "run"} =>
    Ordered(todo, Known) /\ Covers(emitted \cup Elements(todo))

EmittedKnown == \A p \in emitted : p[1] \in Known

CompileIInv ==
  /\ GraphIInv
  /\ CompileTypeOK
  /\ FramesLaid
  /\ StagesApart
  /\ Planned
  /\ EmittedKnown

LEMMA SameFrames ==
  ASSUME UNCHANGED <<body, called, frame_info>>
  PROVE  /\ Known' = Known
         /\ FramesLaid' <=> FramesLaid
         /\ \A s, K : Ordered(s, K)' <=> Ordered(s, K)
         /\ \A S : Covers(S)' <=> Covers(S)
<1>1. \A f : Calls(f)' = Calls(f)
  BY SameGraph
<1>2. Known' = Known
  BY DEF Known
<1>3. \A f : Laid(f)' = Laid(f)
  BY <1>1 DEF Laid, AllocateStart, FrameWords, Temporaries, TemporaryBuffer
<1>4. FramesLaid' <=> FramesLaid
  BY <1>1, <1>2, <1>3 DEF FramesLaid
<1>5. \A s, K : Ordered(s, K)' <=> Ordered(s, K)
  BY DEF Ordered, Calls
<1>6. \A S : Covers(S)' <=> Covers(S)
  BY <1>1 DEF Covers
<1> QED
  BY <1>2, <1>4, <1>5, <1>6

LEMMA InitCompile ==
  ASSUME InitFrames
  PROVE  CompileIInv
<1>1. body \in [Functions -> Seq(StatementSet)]
  <2>1. Bodies \subseteq Seq(StatementSet)
    BY SizesAssumption, SeqDef DEF Bodies, StatementSet
  <2> QED
    BY <2>1 DEF InitFrames
<1>2. /\ called = [f \in Functions |-> CalledBy(body[f])]
      /\ called \in [Functions -> Seq(Functions)]
  BY <1>1, CalledByFacts DEF InitFrames
<1>3. GraphIInv
  BY <1>2, InitGraphIInv DEF InitFrames
<1>4. CompileTypeOK
  BY <1>1, <1>2 DEF InitFrames, OutputEmpty, CompileTypeOK, Order, NoFrame
<1>5. FramesLaid /\ EmittedKnown
  BY DEF InitFrames, OutputEmpty, FramesLaid, EmittedKnown, Known
<1> QED
  BY <1>3, <1>4, <1>5 DEF InitFrames, OutputEmpty, CompileIInv, StagesApart, Planned

LEMMA AnalyseKeepsCompile ==
  ASSUME CompileIInv, Analyse, UNCHANGED frameVars
  PROVE  CompileIInv'
<1>1. UNCHANGED <<body, called, todo, frame_info, emitted, stage>> /\ verdict = "analysing"
  BY DEF frameVars, Analyse, VisitRoot, AlreadySeen, RejectCycle, Descend, ReturnToCaller, FinishRoot, Accept
<1>2. GraphIInv'
  BY AnalyseKeeps DEF CompileIInv
<1>3. stage = "analyse"
  BY <1>1 DEF CompileIInv, StagesApart
<1> QED
  BY <1>1, <1>2, <1>3, SameFrames DEF CompileIInv, CompileTypeOK, StagesApart, Planned, EmittedKnown

(* Steps that neither change the graph nor compile.                          *)
LEMMA IdleKeepsCompile ==
  ASSUME CompileIInv, UNCHANGED <<graphVars, body, todo, frame_info, emitted>>,
         \/ UNCHANGED stage
         \/ stage = "ready" /\ stage' = "run"
         \/ stage = "run" /\ stage' = "stop"
         \/ stage = "generate" /\ todo = <<>> /\ stage' = "ready"
  PROVE  CompileIInv'
<1>1. UNCHANGED <<called, nonreentrant, reachable, root, path, next, verdict, body, todo, frame_info, emitted>>
  BY DEF graphVars
<1>2. GraphIInv'
  BY StutterKeeps DEF CompileIInv
<1> QED
  BY <1>1, <1>2, SameFrames DEF CompileIInv, CompileTypeOK, StagesApart, Planned, EmittedKnown

LEMMA StartGenerationKeeps ==
  ASSUME CompileIInv, StartGeneration
  PROVE  CompileIInv'
<1>1. /\ UNCHANGED <<called, body, frame_info, emitted>> /\ verdict' = verdict /\ verdict # "analysing"
      /\ stage = "analyse" /\ emitted = {}
      /\ stage' = IF verdict = "accepted" THEN "generate" ELSE "stop"
      /\ todo' = IF verdict = "accepted" THEN GenerationOrder ELSE todo
  BY DEF StartGeneration, graphVars, CompileIInv, StagesApart
<1>2. GraphIInv'
  BY StutterKeeps DEF CompileIInv, StartGeneration
<1>3. CASE verdict = "accepted"
  <2>1. /\ GenerationOrder \in Order /\ Ordered(GenerationOrder, {})
        /\ Covers(Elements(GenerationOrder))
    BY <1>3, BodyFacts, GenerationOrderFacts DEF CompileIInv
  <2>2. Ordered(GenerationOrder, Known)
    BY <2>1 DEF Ordered
  <2>3. CompileTypeOK'
    BY <1>1, <1>3, <2>1 DEF CompileIInv, CompileTypeOK
  <2>4. Planned'
    <3>1. Ordered(todo', Known) /\ Covers(emitted' \cup Elements(todo'))
      BY <1>1, <1>3, <2>1, <2>2
    <3> QED
      BY <1>1, <3>1, SameFrames DEF Planned, Ordered, Covers, Calls
  <2> QED
    BY <1>1, <1>2, <1>3, <2>3, <2>4, SameFrames DEF CompileIInv, StagesApart, EmittedKnown
<1>4. CASE verdict # "accepted"
  BY <1>1, <1>2, <1>4, SameFrames DEF CompileIInv, CompileTypeOK, StagesApart, Planned, EmittedKnown
<1> QED
  BY <1>3, <1>4

LEMMA CoversSame ==
  ASSUME NEW S, NEW T, Covers(S),
         \A f \in Functions, c \in {"runtime", "deploy"} : <<f, c>> \in S <=> <<f, c>> \in T,
         \A f \in Functions : Calls(f) \subseteq Functions
  PROVE  Covers(T)
BY DEF Covers

LEMMA HeadFacts ==
  ASSUME CompileIInv, stage = "generate", todo # <<>>
  PROVE  /\ Head(todo) \in Functions \X Contexts
         /\ Calls(Head(todo)[1]) \subseteq Known
         /\ Tail(todo) \in Order
         /\ Elements(todo) = {Head(todo)} \cup Elements(Tail(todo))
         /\ Ordered(Tail(todo), Known \cup {Head(todo)[1]})
<1> DEFINE n == Len(todo)
<1> DEFINE t == Tail(todo)
<1>1. /\ todo \in Order /\ n \in Nat \ {0} /\ Head(todo) = todo[1]
      /\ t \in Order /\ Len(t) = n - 1
      /\ \A k \in 1 .. (n - 1) : t[k] = todo[k + 1]
  BY EmptySeq, HeadTailProperties, LenProperties DEF CompileIInv, CompileTypeOK, Order
<1>2. Head(todo) \in Functions \X Contexts
  BY <1>1, ElementOfSeq DEF Order
<1>3. \A k \in 1 .. n : Calls(todo[k][1]) \subseteq Known \cup {todo[j][1] : j \in 1 .. (k - 1)}
  BY DEF CompileIInv, Planned, Ordered
<1>4. Calls(Head(todo)[1]) \subseteq Known
  <2>1. Calls(todo[1][1]) \subseteq Known \cup {todo[j][1] : j \in 1 .. (1 - 1)}
    BY <1>1, <1>3
  <2> QED
    BY <1>1, <2>1
<1> HIDE DEF t
<1>5. Elements(todo) = {Head(todo)} \cup Elements(t)
  <2>1. \A k \in 1 .. n : k = 1 \/ (k - 1 \in 1 .. (n - 1) /\ t[k - 1] = todo[k])
    BY <1>1
  <2>2. \A k \in 1 .. (n - 1) : k + 1 \in 1 .. n /\ t[k] = todo[k + 1]
    BY <1>1
  <2>3. Elements(todo) \subseteq {Head(todo)} \cup Elements(t)
    BY <1>1, <2>1 DEF Elements
  <2>4. Elements(t) \subseteq Elements(todo) /\ Head(todo) \in Elements(todo)
    BY <1>1, <2>2 DEF Elements
  <2> QED
    BY <2>3, <2>4
<1>6. Ordered(t, Known \cup {Head(todo)[1]})
  <2>1. ASSUME NEW k \in 1 .. Len(t)
        PROVE  Calls(t[k][1]) \subseteq (Known \cup {Head(todo)[1]}) \cup {t[j][1] : j \in 1 .. (k - 1)}
    <3>1. k \in 1 .. (n - 1) /\ k + 1 \in 1 .. n /\ t[k] = todo[k + 1] /\ (k + 1) - 1 = k
      BY <1>1
    <3>2. Calls(t[k][1]) \subseteq Known \cup {todo[j][1] : j \in 1 .. k}
      BY <1>3, <3>1
    <3>3. \A j \in 1 .. k : j = 1 \/ (j - 1 \in 1 .. (k - 1) /\ t[j - 1] = todo[j])
      BY <1>1, <3>1
    <3>4. ASSUME NEW j \in 1 .. k
          PROVE  todo[j][1] \in {Head(todo)[1]} \cup {t[i][1] : i \in 1 .. (k - 1)}
      BY <1>1, <3>3
    <3> QED
      BY <3>2, <3>4
  <2> QED
    BY <2>1 DEF Ordered
<1> QED
  BY <1>1, <1>2, <1>4, <1>5, <1>6 DEF t

(* A frame is computed once; compiling a function again computes the same.   *)
LEMMA GenerateFrames ==
  ASSUME CompileIInv, Generate
  PROVE  /\ stage' = "generate"
         /\ frame_info' \in [Functions -> [frame_start : Nat, frame_size : Nat]]
         /\ \A f \in Known : frame_info'[f] = frame_info[f]
         /\ Known' = Known \cup {Head(todo)[1]}
         /\ FramesLaid'
<1> DEFINE f == Head(todo)[1]
<1>1. /\ stage = "generate" /\ todo # <<>> /\ UNCHANGED <<called, body>>
      /\ stage' = IF CalleesKnown(f) THEN stage ELSE "crash"
      /\ frame_info' = [frame_info EXCEPT ![f] = Laid(f)]
  BY DEF Generate, Laid, graphVars
<1>2. f \in Functions /\ Calls(f) \subseteq Known
  BY <1>1, HeadFacts
<1>3. stage' = "generate"
  BY <1>1, <1>2 DEF CalleesKnown, Known
<1>4. /\ AllocateStart(f) \in Nat /\ AllocateStart(f) >= 2
      /\ FrameWords(f) \in Nat
      /\ frame_info \in [Functions -> [frame_start : Nat, frame_size : Nat]]
  <2>1. NumArgs[f] \in Nat /\ NumLocals[f] \in Nat
    BY <1>2, SizesAssumption
  <2> QED
    BY <1>2, FrameFacts DEF CompileIInv, CompileTypeOK, Reserved
<1>5. Laid(f) \in [frame_start : Nat, frame_size : Nat] /\ Laid(f) # NoFrame
  <2>1. AllocateStart(f) + FrameWords(f) - Reserved \in Nat
    BY <1>4 DEF Reserved
  <2>2. Laid(f).frame_start # NoFrame.frame_start
    BY <1>4 DEF Laid, NoFrame
  <2> QED
    BY <1>4, <2>1, <2>2 DEF Laid
<1> HIDE DEF f
<1>6. /\ frame_info' \in [Functions -> [frame_start : Nat, frame_size : Nat]]
      /\ frame_info'[f] = Laid(f)
      /\ \A g \in Functions \ {f} : frame_info'[g] = frame_info[g]
  BY <1>1, <1>2, <1>4, <1>5
<1>7. \A g \in Known : frame_info'[g] = frame_info[g]
  BY <1>6 DEF CompileIInv, FramesLaid, Known
<1>8. Known' = Known \cup {f}
  BY <1>2, <1>5, <1>6 DEF Known
<1>9. \A g : Calls(g)' = Calls(g)
  BY <1>1, SameGraph
<1>10. ASSUME NEW g \in Functions, Calls(g) \subseteq Known
       PROVE  Laid(g)' = Laid(g)
  <2>1. \A h \in Calls(g) : frame_info'[h] = frame_info[h]
    BY <1>7, <1>10
  <2>2. {frame_info'[h].frame_size : h \in Calls(g)} = {frame_info[h].frame_size : h \in Calls(g)}
    BY <2>1
  <2>3. AllocateStart(g)' = AllocateStart(g)
    BY <1>9, <2>2 DEF AllocateStart
  <2>4. FrameWords(g)' = FrameWords(g)
    BY <1>1 DEF FrameWords, Temporaries, TemporaryBuffer
  <2> QED
    BY <2>3, <2>4 DEF Laid
<1>11. ASSUME NEW g \in Known \cup {f}
       PROVE  Calls(g) \subseteq Known /\ frame_info'[g] = Laid(g) /\ g \in Functions
  BY <1>2, <1>6, <1>7, <1>11 DEF CompileIInv, FramesLaid, Known
<1>12. FramesLaid'
  <2>1. ASSUME NEW g \in Known'
        PROVE  Calls(g)' \subseteq Known' /\ frame_info'[g] = Laid(g)'
    BY <1>8, <1>9, <1>10, <1>11
  <2> QED
    BY <2>1 DEF FramesLaid
<1> QED
  BY <1>3, <1>6, <1>7, <1>8, <1>12 DEF f

LEMMA GenerateKeeps ==
  ASSUME CompileIInv, Generate
  PROVE  CompileIInv'
<1> DEFINE f == Head(todo)[1]
<1> DEFINE ctx == Head(todo)[2]
<1>1. /\ stage = "generate" /\ todo # <<>> /\ UNCHANGED <<graphVars, called, body, verdict>>
      /\ emitted' = Emitted(f, ctx) /\ todo' = Tail(todo)
  BY DEF Generate, graphVars
<1>2. /\ stage' = "generate"
      /\ frame_info' \in [Functions -> [frame_start : Nat, frame_size : Nat]]
      /\ Known' = Known \cup {f}
      /\ FramesLaid'
  BY GenerateFrames
<1>3. /\ Head(todo) = <<f, ctx>> /\ f \in Functions /\ ctx \in Contexts
      /\ Tail(todo) \in Order /\ Elements(todo) = {<<f, ctx>>} \cup Elements(Tail(todo))
      /\ Ordered(Tail(todo), Known \cup {f})
  <2>1. Head(todo) \in Functions \X Contexts
    BY <1>1, HeadFacts
  <2>2. Head(todo) = <<f, ctx>> /\ f \in Functions /\ ctx \in Contexts
    BY <2>1
  <2> QED
    BY <1>1, <2>2, HeadFacts
<1> HIDE DEF f, ctx
<1>4. GraphIInv'
  BY <1>1, StutterKeeps DEF CompileIInv
<1>5. emitted' = IF ctx = "unused" THEN emitted ELSE emitted \cup {<<f, ctx>>}
  BY <1>1 DEF Emitted
<1>6. CompileTypeOK'
  <2>1. emitted' \subseteq Functions \X {"runtime", "deploy"}
    BY <1>3, <1>5 DEF CompileIInv, CompileTypeOK, Contexts
  <2> QED
    BY <1>1, <1>2, <1>3, <2>1 DEF CompileIInv, CompileTypeOK
<1>7. Planned'
  <2>1. Covers(emitted \cup Elements(todo))
    BY <1>1 DEF CompileIInv, Planned
  <2>2. \A g \in Functions, c \in {"runtime", "deploy"} :
          <<g, c>> \in emitted \cup Elements(todo) <=> <<g, c>> \in emitted' \cup Elements(Tail(todo))
    BY <1>3, <1>5
  <2>3. Covers(emitted' \cup Elements(Tail(todo)))
    BY <2>1, <2>2, CoversSame, BodyFacts DEF CompileIInv
  <2>4. \A g : Calls(g)' = Calls(g)
    BY <1>1, SameGraph
  <2>5. Covers(emitted \cup Elements(todo))'
    BY <1>1, <2>3, <2>4 DEF Covers
  <2>6. Ordered(todo, Known)'
    BY <1>1, <1>2, <1>3 DEF Ordered, Calls
  <2> QED
    BY <2>5, <2>6 DEF Planned
<1>8. EmittedKnown'
  BY <1>2, <1>3, <1>5 DEF CompileIInv, EmittedKnown
<1> QED
  BY <1>1, <1>2, <1>4, <1>6, <1>7, <1>8 DEF CompileIInv, StagesApart

LEMMA AlreadyGeneratedKeeps ==
  ASSUME CompileIInv, AlreadyGenerated
  PROVE  CompileIInv'
<1>1. /\ stage = "generate" /\ todo # <<>> /\ Head(todo)[2] = "unused" /\ frame_info[Head(todo)[1]] # NoFrame
      /\ UNCHANGED <<graphVars, called, body, verdict, frame_info, emitted, stage>> /\ todo' = Tail(todo)
  BY DEF AlreadyGenerated, graphVars
<1>2. /\ Head(todo) \in Functions \X Contexts
      /\ Tail(todo) \in Order
      /\ Elements(todo) = {Head(todo)} \cup Elements(Tail(todo))
      /\ Ordered(Tail(todo), Known \cup {Head(todo)[1]})
  BY <1>1, HeadFacts
<1>3. Known \cup {Head(todo)[1]} = Known
  BY <1>1, <1>2 DEF Known
<1>4. GraphIInv'
  BY <1>1, StutterKeeps DEF CompileIInv
<1>5. CompileTypeOK'
  BY <1>1, <1>2 DEF CompileIInv, CompileTypeOK
<1>6. Planned'
  <2>1. Covers(emitted \cup Elements(todo))
    BY <1>1 DEF CompileIInv, Planned
  <2>2. \A g \in Functions, c \in {"runtime", "deploy"} :
          <<g, c>> \in emitted \cup Elements(todo) <=> <<g, c>> \in emitted \cup Elements(Tail(todo))
    BY <1>1, <1>2
  <2>3. Covers(emitted \cup Elements(Tail(todo)))
    BY <2>1, <2>2, CoversSame, BodyFacts DEF CompileIInv
  <2>4. \A g : Calls(g)' = Calls(g)
    BY <1>1, SameGraph
  <2>5. Covers(emitted \cup Elements(todo))'
    BY <1>1, <2>3, <2>4 DEF Covers
  <2>6. Ordered(todo, Known)'
    BY <1>1, <1>2, <1>3 DEF Ordered, Calls, Known
  <2> QED
    BY <2>5, <2>6 DEF Planned
<1> QED
  BY <1>1, <1>4, <1>5, <1>6, SameFrames DEF CompileIInv, StagesApart, EmittedKnown

LEMMA ProgressKeepsCompile ==
  ASSUME CompileIInv, [Progress \/ Ended]_allVars
  PROVE  CompileIInv'
<1>1. CASE Analyse /\ UNCHANGED frameVars
  BY <1>1, AnalyseKeepsCompile
<1>2. CASE Compile
  <2>1. CASE GenerationDone
    BY <2>1, IdleKeepsCompile DEF GenerationDone
  <2> QED
    BY <1>2, <2>1, StartGenerationKeeps, GenerateKeeps, AlreadyGeneratedKeeps DEF Compile
<1>3. CASE Execute
  <2>1. UNCHANGED <<graphVars, body, todo, frame_info, emitted>>
    BY <1>3 DEF Execute, EnterContract, EvaluateArg, CallNested, CallFunction, Return, LeaveContract, Run
  <2>2. \/ UNCHANGED stage
        \/ stage = "ready" /\ stage' = "run"
        \/ stage = "run" /\ stage' = "stop"
    BY <1>3 DEF Execute, EnterContract, EvaluateArg, CallNested, CallFunction, Return, LeaveContract, Run
  <2> QED
    BY <2>1, <2>2, IdleKeepsCompile
<1>4. CASE UNCHANGED allVars
  <2>1. UNCHANGED <<graphVars, body, todo, frame_info, emitted>> /\ UNCHANGED stage
    BY <1>4 DEF allVars, frameVars
  <2> QED
    BY <2>1, IdleKeepsCompile
<1> QED
  BY <1>1, <1>2, <1>3, <1>4 DEF Progress, Ended

LEMMA CompileInvariant == FramesSpec => []CompileIInv
<1>1. InitFrames => CompileIInv
  BY InitCompile
<1>2. CompileIInv /\ [Progress \/ Ended]_allVars => CompileIInv'
  BY ProgressKeepsCompile
<1> QED
  BY <1>1, <1>2, PTL DEF FramesSpec

-----------------------------------------------------------------------------
(* Addresses.                                                                *)

Start(f) == frame_info[f].frame_start

LEMMA AddressFacts ==
  ASSUME CompileIInv, NEW f \in Known
  PROVE  /\ f \in Functions /\ Start(f) \in Nat /\ FrameEnd(f) \in Nat
         /\ NumArgs[f] \in Nat /\ NumLocals[f] \in Nat
         /\ Start(f) + NumArgs[f] + NumLocals[f] <= FrameEnd(f)
         /\ \A g \in Calls(f) : g \in Known /\ FrameEnd(g) <= Start(f)
         /\ \A k \in 1 .. Len(body[f]) :
              Start(f) + NumArgs[f] + NumLocals[f] + Temporaries(body[f][k]) <= FrameEnd(f)
<1>1. f \in Functions /\ NumArgs[f] \in Nat /\ NumLocals[f] \in Nat
  BY SizesAssumption DEF Known
<1>2. /\ frame_info[f] = Laid(f) /\ Calls(f) \subseteq Known
      /\ frame_info[f] \in [frame_start : Nat, frame_size : Nat]
  BY <1>1 DEF CompileIInv, FramesLaid, CompileTypeOK
<1>3. Start(f) = AllocateStart(f) /\ FrameEnd(f) = AllocateStart(f) + FrameWords(f)
  <2>1. AllocateStart(f) \in Nat /\ FrameWords(f) \in Nat
    BY <1>1, FrameFacts DEF CompileIInv
  <2> QED
    BY <1>2, <2>1 DEF Laid, Start, FrameEnd, Reserved
<1>4. \A k \in 1 .. Len(body[f]) : Temporaries(body[f][k]) \in Nat
  <2>1. \A st \in StatementSet : Temporaries(st) \in Nat
    BY StatementFacts, SizesAssumption DEF Temporaries, TemporaryBuffer
  <2> QED
    BY <1>1, <2>1, BodyFacts DEF CompileIInv
<1>5. \A g \in Calls(f) : FrameEnd(g) <= Start(f)
  BY <1>1, <1>3, FrameFacts DEF CompileIInv, FrameEnd
<1>6. /\ AllocateStart(f) \in Nat /\ FrameWords(f) \in Nat
      /\ NumArgs[f] + NumLocals[f] <= FrameWords(f)
      /\ \A k \in 1 .. Len(body[f]) :
           NumArgs[f] + NumLocals[f] + Temporaries(body[f][k]) <= FrameWords(f)
  BY <1>1, FrameFacts DEF CompileIInv
<1>7. ASSUME NEW k \in 1 .. Len(body[f])
      PROVE  Start(f) + NumArgs[f] + NumLocals[f] + Temporaries(body[f][k]) <= FrameEnd(f)
  <2>1. NumArgs[f] + NumLocals[f] + Temporaries(body[f][k]) <= FrameWords(f)
    BY <1>6
  <2>2. Temporaries(body[f][k]) \in Nat
    BY <1>4
  <2> QED
    BY <1>1, <1>3, <1>6, <2>1, <2>2
<1>8. /\ Start(f) \in Nat /\ FrameEnd(f) \in Nat
      /\ Start(f) + NumArgs[f] + NumLocals[f] <= FrameEnd(f)
  BY <1>1, <1>3, <1>6
<1> QED
  BY <1>1, <1>2, <1>5, <1>7, <1>8

LEMMA EmittedFacts ==
  ASSUME CompileIInv, stage \in {"ready", "run"}
  PROVE  /\ Covers(emitted)
         /\ \A p \in emitted : p[1] \in Known
<1>1. todo = <<>>
  BY DEF CompileIInv, StagesApart
<1>2. Elements(todo) = {}
  BY <1>1 DEF Elements
<1>3. emitted \cup Elements(todo) = emitted
  BY <1>2
<1> QED
  BY <1>3 DEF CompileIInv, Planned, EmittedKnown

LEMMA DeployClear ==
  ASSUME CompileIInv
  PROVE  DeployRegionClear
<1> SUFFICES ASSUME stage \in {"ready", "run"}, NEW f \in Functions, Kind[f] = "init",
                    NEW g \in Elements(reachable[f])
             PROVE  FrameEnd(g) <= FrameEnd(f)
  BY DEF DeployRegionClear
<1> DEFINE S == {h \in Functions : h \in Known /\ FrameEnd(h) <= FrameEnd(f)}
<1>1. f \in Known
  BY EmittedFacts DEF Covers
<1>2. ASSUME NEW h \in S \cup {f}
      PROVE  Calls(h) \subseteq S
  <2>1. h \in Known /\ FrameEnd(h) <= FrameEnd(f)
    <3>1. FrameEnd(f) \in Nat
      BY <1>1, AddressFacts
    <3> QED
      BY <1>1, <1>2, <3>1
  <2>2. ASSUME NEW x \in Calls(h)
        PROVE  x \in S
    <3>1. x \in Known /\ FrameEnd(x) <= Start(h) /\ Start(h) \in Nat /\ FrameEnd(h) \in Nat
          /\ Start(h) <= FrameEnd(h)
      BY <2>1, <2>2, AddressFacts
    <3>2. FrameEnd(x) \in Nat /\ FrameEnd(f) \in Nat
      BY <1>1, <3>1, AddressFacts
    <3>3. FrameEnd(x) <= FrameEnd(f)
      BY <2>1, <3>1, <3>2
    <3> QED
      BY <3>1, <3>3 DEF Known
  <2> QED
    BY <2>2
<1>3. Reaches(f) \subseteq S
  <2>1. S \in SUBSET Functions /\ Calls(f) \subseteq S /\ Closed(S)
    BY <1>2 DEF Closed
  <2> HIDE DEF S
  <2> QED
    BY <2>1, ReachesLeast
<1>4. g \in Reaches(f)
  BY DEF CompileIInv, GraphIInv, SetsSound
<1> QED
  BY <1>3, <1>4

-----------------------------------------------------------------------------
(* The run.                                                                  *)

Activations ==
  [fn : Functions, statement : Nat \ {0}, arg : Nat \ {0}, values : Seq(Nat),
   waits : {"no", "nested", "outer"}, holds : UNION {[D -> Nat] : D \in SUBSET Nat}]

RunTypeOK ==
  /\ context \in {"runtime", "deploy"}
  /\ clock \in Nat
  /\ DOMAIN memory = 0 .. MemoryWords - 1
  /\ stack \in Seq(Activations)
  /\ stage # "run" => stack = <<>>
  /\ stage = "run" => Len(stack) > 0
  /\ stage \notin {"run", "stop"} => memory \in [0 .. MemoryWords - 1 -> Nat]

Current(a) == body[a.fn][a.statement]
Collecting(a) == a.statement <= Len(body[a.fn]) /\ a.waits # "outer"
Awaited(a) == IF a.waits = "nested" THEN Current(a).nested ELSE Current(a).callee

Placed(a) ==
  /\ a.statement <= Len(body[a.fn]) + 1
  /\ DOMAIN a.holds = Args(a.fn) \cup Locals(a.fn)
  /\ a.waits # "no" => a.statement <= Len(body[a.fn])
  /\ Collecting(a) => a.arg <= NumArgs[Current(a).callee] + 1 /\ Len(a.values) = a.arg - 1
  /\ a.waits = "nested" => Current(a).nested # None /\ a.arg = Current(a).at

ActivationOK(a) == Placed(a) /\ <<a.fn, context>> \in emitted

StackGood(s) ==
  /\ \A k \in 1 .. Len(s) : ActivationOK(s[k])
  /\ \A k \in 1 .. (Len(s) - 1) : s[k].waits # "no" /\ s[k + 1].fn = Awaited(s[k])
  /\ Len(s) > 0 => s[Len(s)].waits = "no"
  /\ \A j, k \in 1 .. Len(s) : j < k => FrameEnd(s[k].fn) <= Start(s[j].fn)

(* What an activation has in its frame, and the arguments it has evaluated.  *)
Intact(mem, a) ==
  /\ \A w \in DOMAIN a.holds : mem[w] = a.holds[w]
  /\ Collecting(a) => \A j \in 1 .. Len(a.values) : mem[ArgDestination(a.fn, Current(a), j)] = a.values[j]

Kept(mem, s) == \A k \in 1 .. Len(s) : Intact(mem, s[k])

StackOK == StackGood(stack)

Fits == \A f \in Functions : FrameEnd(f) <= MemoryWords

MemoryKept == Fits => memory \in [0 .. MemoryWords - 1 -> Nat] /\ Kept(memory, stack)

FramesIInv ==
  /\ CompileIInv
  /\ RunTypeOK
  /\ StackOK
  /\ MemoryKept

LEMMA SamePlaces ==
  ASSUME UNCHANGED <<body, frame_info>>
  PROVE  /\ \A f : FrameEnd(f)' = FrameEnd(f) /\ Start(f)' = Start(f)
         /\ \A a : Awaited(a)' = Awaited(a)
         /\ \A a : Placed(a)' <=> Placed(a)
         /\ \A mem, s : Kept(mem, s)' <=> Kept(mem, s)
         /\ Fits' <=> Fits
<1>1. /\ \A f : FrameEnd(f)' = FrameEnd(f) /\ Start(f)' = Start(f)
      /\ \A f : Args(f)' = Args(f) /\ Locals(f)' = Locals(f)
  BY DEF FrameEnd, Start, Args, Locals, ArgAddress, LocalAddress
<1>2. \A a : Current(a)' = Current(a)
  BY DEF Current
<1>3. /\ \A a : Awaited(a)' = Awaited(a)
      /\ \A a : Collecting(a)' = Collecting(a)
  BY <1>2 DEF Awaited, Collecting
<1>4. \A f, st, j : ArgDestination(f, st, j)' = ArgDestination(f, st, j)
  BY DEF ArgDestination, TempAddress, ArgAddress, TemporaryBuffer
<1>5. \A a : Placed(a)' <=> Placed(a)
  BY <1>1, <1>2, <1>3 DEF Placed
<1>6. \A mem, a : Intact(mem, a)' <=> Intact(mem, a)
  BY <1>2, <1>3, <1>4 DEF Intact
<1>7. \A mem, s : Kept(mem, s)' <=> Kept(mem, s)
  BY <1>6 DEF Kept
<1> QED
  BY <1>1, <1>3, <1>5, <1>7 DEF Fits

LEMMA SameRun ==
  ASSUME UNCHANGED <<body, frame_info, emitted, context>>
  PROVE  /\ \A s : StackGood(s)' <=> StackGood(s)
         /\ \A mem, s : Kept(mem, s)' <=> Kept(mem, s)
         /\ Fits' <=> Fits
<1>1. \A a : ActivationOK(a)' <=> ActivationOK(a)
  BY SamePlaces DEF ActivationOK
<1> QED
  BY <1>1, SamePlaces DEF StackGood

(* The statement an activation is at.                                        *)
LEMMA CurrentFacts ==
  ASSUME CompileIInv, stage = "run", NEW a \in Activations, ActivationOK(a)
  PROVE  /\ a.fn \in Functions /\ a.fn \in Known
         /\ a.statement <= Len(body[a.fn]) =>
              /\ a.statement \in 1 .. Len(body[a.fn]) /\ Current(a) \in StatementSet
              /\ Current(a).callee \in Functions /\ NumArgs[Current(a).callee] \in Nat
              /\ Current(a).callee \in Calls(a.fn) /\ Current(a).callee \in Known
              /\ FrameEnd(Current(a).callee) <= Start(a.fn)
              /\ <<Current(a).callee, context>> \in emitted
              /\ Current(a).nested # None =>
                   /\ Current(a).nested \in Calls(a.fn) /\ Current(a).nested \in Known
                   /\ FrameEnd(Current(a).nested) <= Start(a.fn)
                   /\ <<Current(a).nested, context>> \in emitted
                   /\ Current(a).at \in 1 .. NumArgs[Current(a).callee]
              /\ Current(a).nested = None => Current(a).at = 0
<1>1. a.fn \in Functions /\ a.fn \in Known /\ <<a.fn, context>> \in emitted
  BY EmittedFacts DEF Activations, ActivationOK, Placed
<1>2. ASSUME a.statement <= Len(body[a.fn])
      PROVE  a.statement \in 1 .. Len(body[a.fn])
  <2>1. Len(body[a.fn]) \in Nat /\ a.statement \in Nat \ {0}
    BY <1>1, LenProperties DEF CompileIInv, CompileTypeOK, Activations
  <2> QED
    BY <1>2, <2>1
<1>3. ASSUME NEW g \in Calls(a.fn)
      PROVE  g \in Known /\ FrameEnd(g) <= Start(a.fn) /\ <<g, context>> \in emitted
  <2>1. context \in {"runtime", "deploy"}
    BY <1>1 DEF CompileIInv, CompileTypeOK
  <2> QED
    BY <1>1, <2>1, AddressFacts, EmittedFacts DEF Covers
<1>4. ASSUME a.statement <= Len(body[a.fn])
      PROVE  /\ Current(a) \in StatementSet
             /\ Current(a).callee \in Calls(a.fn)
             /\ Current(a).nested # None => Current(a).nested \in Calls(a.fn)
  BY <1>1, <1>2, <1>4, BodyFacts DEF CompileIInv, Current
<1>5. ASSUME a.statement <= Len(body[a.fn])
      PROVE  /\ Current(a).callee \in Functions /\ NumArgs[Current(a).callee] \in Nat
             /\ Current(a).nested # None => Current(a).at \in 1 .. NumArgs[Current(a).callee]
             /\ Current(a).nested = None => Current(a).at = 0
  BY <1>4, <1>5, StatementFacts, SizesAssumption
<1> QED
  BY <1>1, <1>2, <1>3, <1>4, <1>5

LEMMA RegionFacts ==
  ASSUME CompileIInv, NEW f \in Known, NEW w \in Args(f) \cup Locals(f)
  PROVE  /\ w \in Nat /\ Start(f) <= w /\ w < FrameEnd(f)
         /\ w < Start(f) + NumArgs[f] + NumLocals[f]
<1>1. \/ \E k \in 1 .. NumArgs[f] : w = Start(f) + k - 1
      \/ \E k \in 1 .. NumLocals[f] : w = Start(f) + NumArgs[f] + k - 1
  BY DEF Args, Locals, ArgAddress, LocalAddress, Start
<1>2. /\ Start(f) \in Nat /\ FrameEnd(f) \in Nat /\ NumArgs[f] \in Nat /\ NumLocals[f] \in Nat
      /\ Start(f) + NumArgs[f] + NumLocals[f] <= FrameEnd(f)
  BY AddressFacts
<1> QED
  BY <1>1, <1>2

(* Where arguments are stored: never on what the function itself holds, each *)
(* in a place of its own, and while a call is made for one of them the       *)
(* others lie in the frame of the function.                                  *)
LEMMA DestinationFacts ==
  ASSUME CompileIInv, stage = "run", NEW a \in Activations, ActivationOK(a),
         a.statement <= Len(body[a.fn]),
         NEW j \in 1 .. NumArgs[Current(a).callee]
  PROVE  /\ ArgDestination(a.fn, Current(a), j) \in Nat
         /\ ArgDestination(a.fn, Current(a), j) < FrameEnd(a.fn)
         /\ ArgDestination(a.fn, Current(a), j) \notin Args(a.fn) \cup Locals(a.fn)
         /\ \A i \in 1 .. NumArgs[Current(a).callee] :
              i # j => ArgDestination(a.fn, Current(a), i) # ArgDestination(a.fn, Current(a), j)
         /\ Current(a).nested # None =>
              /\ ArgDestination(a.fn, Current(a), j) >= Start(a.fn)
              /\ ArgDestination(a.fn, Current(a), j) # NestedReturnBuffer(a.fn)
<1> DEFINE f == a.fn
<1> DEFINE st == Current(a)
<1> DEFINE g == st.callee
<1> DEFINE top == Start(f) + NumArgs[f] + NumLocals[f]
<1>1. /\ f \in Known /\ g \in Known /\ FrameEnd(g) <= Start(f) /\ st \in StatementSet
      /\ a.statement \in 1 .. Len(body[f]) /\ NumArgs[g] \in Nat
  BY CurrentFacts
<1>2. /\ Start(f) \in Nat /\ FrameEnd(f) \in Nat /\ NumArgs[f] \in Nat /\ NumLocals[f] \in Nat
      /\ top <= FrameEnd(f) /\ top + Temporaries(st) <= FrameEnd(f)
  BY <1>1, AddressFacts DEF Current
<1>3. Start(g) \in Nat /\ FrameEnd(g) \in Nat /\ Start(g) + NumArgs[g] <= FrameEnd(g)
  BY <1>1, AddressFacts
<1>4. \A w \in Args(f) \cup Locals(f) : w \in Nat /\ Start(f) <= w /\ w < top
  BY <1>1, RegionFacts
<1>5. CASE st.nested # None
  <2>1. Temporaries(st) = 2 + NumArgs[g]
    BY <1>1, <1>5 DEF Temporaries, TemporaryBuffer
  <2>2. \A i \in 1 .. NumArgs[g] : ArgDestination(f, st, i) = top + 1 + i
    BY <1>2, <1>5 DEF ArgDestination, TemporaryBuffer, TempAddress, Start
  <2>3. NestedReturnBuffer(f) = top
    BY <1>2 DEF NestedReturnBuffer, TempAddress, Start
  <2> HIDE DEF f, st, g, top
  <2>4. top \in Nat
    BY <1>2 DEF top
  <2>5. ArgDestination(f, st, j) = top + 1 + j /\ j \in 1 .. NumArgs[g]
    BY <2>2 DEF f, st, g
  <2>6. ArgDestination(f, st, j) \notin Args(f) \cup Locals(f)
    <3>1. top + 1 + j \notin Args(f) \cup Locals(f)
      BY <1>1, <1>4, <2>4, <2>5
    <3> QED
      BY <2>5, <3>1
  <2>7. \A i \in 1 .. NumArgs[g] : i # j => ArgDestination(f, st, i) # ArgDestination(f, st, j)
    BY <2>2, <2>4, <2>5
  <2>8. /\ ArgDestination(f, st, j) \in Nat /\ ArgDestination(f, st, j) < FrameEnd(f)
        /\ ArgDestination(f, st, j) >= Start(f) /\ ArgDestination(f, st, j) # NestedReturnBuffer(f)
    <3>1. j \in Nat /\ j >= 1 /\ j <= NumArgs[g] /\ NumArgs[g] \in Nat
      BY <1>1, <2>5
    <3>2. top >= Start(f)
      BY <1>2 DEF top
    <3>3. top + (2 + NumArgs[g]) <= FrameEnd(f)
      BY <1>2, <2>1
    <3>4. Start(f) \in Nat /\ FrameEnd(f) \in Nat
      BY <1>2
    <3>5. /\ top + 1 + j \in Nat /\ top + 1 + j < FrameEnd(f)
          /\ top + 1 + j >= Start(f) /\ top + 1 + j # top
      BY <2>4, <3>1, <3>2, <3>3, <3>4
    <3> QED
      BY <2>3, <2>5, <3>5
  <2> QED
    BY <2>6, <2>7, <2>8 DEF f, st, g
<1>6. CASE st.nested = None
  <2>1. \A i \in 1 .. NumArgs[g] : ArgDestination(f, st, i) = Start(g) + i - 1
    BY <1>6 DEF ArgDestination, TemporaryBuffer, ArgAddress, Start
  <2> HIDE DEF f, st, g, top
  <2>2. ArgDestination(f, st, j) = Start(g) + j - 1 /\ j \in 1 .. NumArgs[g]
    BY <2>1 DEF f, st, g
  <2>3. ArgDestination(f, st, j) \in Nat /\ ArgDestination(f, st, j) < Start(f) /\ Start(f) <= FrameEnd(f)
    <3>1. j \in Nat /\ j >= 1 /\ j <= NumArgs[g] /\ NumArgs[g] \in Nat
      BY <1>1, <2>2
    <3>2. Start(g) + j - 1 \in Nat /\ Start(g) + j - 1 < Start(f)
      BY <1>1, <1>2, <1>3, <3>1
    <3>3. Start(f) <= FrameEnd(f)
      BY <1>2 DEF top
    <3> QED
      BY <2>2, <3>2, <3>3
  <2>4. ArgDestination(f, st, j) \notin Args(f) \cup Locals(f)
    <3>1. \A w \in Args(f) \cup Locals(f) : ~(w < Start(f))
      BY <1>2, <1>4
    <3> QED
      BY <2>3, <3>1
  <2>5. \A i \in 1 .. NumArgs[g] : i # j => ArgDestination(f, st, i) # ArgDestination(f, st, j)
    BY <1>3, <2>1, <2>2
  <2>6. ArgDestination(f, st, j) < FrameEnd(f)
    BY <1>2, <2>3
  <2> QED
    BY <1>6, <2>3, <2>4, <2>5, <2>6 DEF f, st, g
<1> QED
  BY <1>5, <1>6

(* Memory that does not change from an address on.                           *)
SameFrom(lo, mem, mem2) == \A w \in Nat : lo <= w /\ w < MemoryWords => mem2[w] = mem[w]

LEMMA OwnFrameKept ==
  ASSUME CompileIInv, stage = "run", Fits, NEW a \in Activations, ActivationOK(a),
         Collecting(a) => Current(a).nested # None,
         NEW mem, NEW mem2, Intact(mem, a), SameFrom(Start(a.fn), mem, mem2)
  PROVE  Intact(mem2, a)
<1>1. a.fn \in Known /\ a.fn \in Functions /\ FrameEnd(a.fn) <= MemoryWords
  BY CurrentFacts DEF Fits
<1>2. FrameEnd(a.fn) \in Nat /\ MemoryWords \in Nat
  BY <1>1, AddressFacts, SizesAssumption
<1>3. ASSUME NEW w \in DOMAIN a.holds
      PROVE  mem2[w] = a.holds[w]
  <2>1. w \in Args(a.fn) \cup Locals(a.fn)
    BY DEF ActivationOK, Placed
  <2>2. w \in Nat /\ Start(a.fn) <= w /\ w < FrameEnd(a.fn)
    BY <1>1, <2>1, RegionFacts
  <2>3. mem2[w] = mem[w]
    BY <1>1, <1>2, <2>2 DEF SameFrom
  <2> QED
    BY <2>3 DEF Intact
<1>4. ASSUME Collecting(a), NEW j \in 1 .. Len(a.values)
      PROVE  mem2[ArgDestination(a.fn, Current(a), j)] = a.values[j]
  <2>1. a.statement <= Len(body[a.fn]) /\ Current(a).nested # None
    BY <1>4 DEF Collecting
  <2>2. /\ NumArgs[Current(a).callee] \in Nat /\ a.arg \in Nat
        /\ Len(a.values) = a.arg - 1 /\ a.arg <= NumArgs[Current(a).callee] + 1
    BY <1>4, <2>1, CurrentFacts DEF ActivationOK, Placed, Activations
  <2>3. j \in 1 .. NumArgs[Current(a).callee]
    BY <2>2
  <2> DEFINE w == ArgDestination(a.fn, Current(a), j)
  <2>4. w \in Nat /\ w < FrameEnd(a.fn) /\ w >= Start(a.fn)
    BY <2>1, <2>3, DestinationFacts
  <2> HIDE DEF w
  <2>5. Start(a.fn) <= w /\ w < MemoryWords
    <3>1. Start(a.fn) \in Nat
      BY <1>1, AddressFacts
    <3> QED
      BY <1>1, <1>2, <2>4, <3>1
  <2>6. mem2[w] = mem[w]
    BY <2>4, <2>5 DEF SameFrom
  <2>7. mem[w] = a.values[j]
    BY <1>4 DEF Intact, w
  <2> QED
    BY <2>6, <2>7 DEF w
<1> QED
  BY <1>3, <1>4 DEF Intact

LEMMA WriteFacts ==
  ASSUME NEW mem, NEW D, DOMAIN mem = D, NEW S, NEW v \in Nat
  PROVE  /\ DOMAIN Write(mem, S, v) = D
         /\ mem \in [D -> Nat] => Write(mem, S, v) \in [D -> Nat]
         /\ \A w \in D \cap S : Write(mem, S, v)[w] = v
         /\ \A w \in D \ S : Write(mem, S, v)[w] = mem[w]
BY DEF Write

(* The activations that wait.                                                *)
LEMMA WaitingFacts ==
  ASSUME FramesIInv, stage = "run", NEW n, n = Len(stack), n > 0
  PROVE  /\ n \in Nat \ {0} /\ n \in 1 .. n
         /\ Act = stack[n] /\ Act \in Activations /\ ActivationOK(Act) /\ Act.waits = "no"
         /\ \A k \in 1 .. n : stack[k] \in Activations /\ ActivationOK(stack[k])
         /\ \A k \in 1 .. (n - 1) :
              /\ k \in 1 .. n /\ stack[k].waits # "no"
              /\ Collecting(stack[k]) => Current(stack[k]).nested # None
              /\ FrameEnd(Act.fn) <= Start(stack[k].fn)
<1>1. /\ stack \in Seq(Activations) /\ n \in Nat /\ StackGood(stack)
  BY LenProperties DEF FramesIInv, RunTypeOK, StackOK
<1>2. n \in 1 .. n /\ n \in Nat \ {0}
  BY <1>1
<1>3. \A k \in 1 .. n : stack[k] \in Activations /\ ActivationOK(stack[k])
  BY <1>1, ElementOfSeq DEF StackGood
<1>4. Act = stack[n] /\ Act.waits = "no"
  BY <1>1, <1>2 DEF Act, StackGood
<1>5. ASSUME NEW k \in 1 .. (n - 1)
      PROVE  /\ k \in 1 .. n /\ stack[k].waits # "no"
             /\ Collecting(stack[k]) => Current(stack[k]).nested # None
             /\ FrameEnd(Act.fn) <= Start(stack[k].fn)
  <2>1. k \in 1 .. n /\ k < n
    BY <1>2
  <2>2. stack[k].waits # "no"
    BY <1>1 DEF StackGood
  <2>3. FrameEnd(Act.fn) <= Start(stack[k].fn)
    BY <1>1, <1>2, <1>4, <2>1 DEF StackGood
  <2>4. stack[k].waits \in {"no", "nested", "outer"}
    BY <1>3, <2>1 DEF Activations
  <2> QED
    BY <1>3, <2>1, <2>2, <2>3, <2>4 DEF Collecting, ActivationOK, Placed
<1> QED
  BY <1>2, <1>3, <1>4, <1>5

(* A step that writes only below the frames of the waiting activations.      *)
LEMMA WaitingKept ==
  ASSUME FramesIInv, stage = "run", Fits, NEW n, n = Len(stack), n > 0, NEW mem2,
         NEW k \in 1 .. (n - 1),
         SameFrom(Start(stack[k].fn), memory, mem2)
  PROVE  Intact(mem2, stack[k])
<1>1. /\ k \in 1 .. n /\ stack[k] \in Activations /\ ActivationOK(stack[k])
      /\ Collecting(stack[k]) => Current(stack[k]).nested # None
  BY WaitingFacts
<1>2. Intact(memory, stack[k])
  BY <1>1 DEF FramesIInv, MemoryKept, Kept
<1> QED
  BY <1>1, <1>2, OwnFrameKept DEF FramesIInv

LEMMA EvaluateArgKeeps ==
  ASSUME FramesIInv, EvaluateArg
  PROVE  RunTypeOK' /\ StackOK' /\ MemoryKept'
<1> DEFINE n == Len(stack)
<1> DEFINE a == Act
<1> DEFINE st == Current(a)
<1> DEFINE d == ArgDestination(a.fn, st, a.arg)
<1> DEFINE b == [a EXCEPT !.arg = @ + 1, !.values = Append(@, clock)]
<1>1. /\ stage = "run" /\ UNCHANGED <<body, frame_info, emitted, context, stage>>
      /\ a.statement <= Len(body[a.fn]) /\ a.waits = "no" /\ a.arg <= NumArgs[st.callee] /\ a.arg # st.at
      /\ memory' = Write(memory, {d}, clock)
      /\ stack' = [stack EXCEPT ![n] = b]
      /\ clock' = clock + 1
  <2>1. ~(a.statement > Len(body[a.fn])) /\ a.fn \in Functions
    BY WaitingFacts DEF EvaluateArg, Run, BodyOver, FramesIInv, RunTypeOK, Activations
  <2>2. Len(body[a.fn]) \in Nat /\ a.statement \in Nat
    BY <2>1, WaitingFacts, LenProperties
       DEF EvaluateArg, Run, FramesIInv, RunTypeOK, Activations, CompileIInv, CompileTypeOK
  <2> QED
    BY <2>1, <2>2 DEF EvaluateArg, Run, Tick, Continue, Stmt, Current
<1> HIDE DEF n
<1>2. /\ n \in Nat \ {0} /\ n \in 1 .. n /\ a = stack[n] /\ a \in Activations /\ ActivationOK(a)
      /\ n = Len(stack) /\ n > 0 /\ stack \in Seq(Activations)
      /\ clock \in Nat /\ DOMAIN memory = 0 .. MemoryWords - 1
  BY <1>1, WaitingFacts DEF FramesIInv, RunTypeOK, n
<1>3. /\ a.fn \in Known /\ a.fn \in Functions /\ NumArgs[st.callee] \in Nat
      /\ a.arg \in 1 .. NumArgs[st.callee]
  <2>1. a.arg \in Nat \ {0}
    BY <1>2 DEF Activations
  <2>2. a.fn \in Known /\ a.fn \in Functions /\ NumArgs[st.callee] \in Nat
    <3> HIDE DEF a
    <3> QED
      BY <1>1, <1>2, CurrentFacts DEF FramesIInv
  <2> QED
    BY <1>1, <2>1, <2>2
<1> HIDE DEF a
<1>4. /\ b \in Activations /\ b.fn = a.fn /\ b.waits = "no" /\ b.statement = a.statement
      /\ b.holds = a.holds /\ b.arg = a.arg + 1 /\ b.values = Append(a.values, clock)
  <2>1. a.arg + 1 \in Nat \ {0} /\ Append(a.values, clock) \in Seq(Nat)
    <3>1. a.arg \in Nat \ {0} /\ a.values \in Seq(Nat)
      BY <1>2 DEF Activations
    <3> QED
      BY <1>2, <3>1, AppendProperties
  <2> QED
    BY <1>1, <1>2, <2>1 DEF Activations
<1> HIDE DEF b
<1>5. /\ Current(b) = st /\ Collecting(a) /\ Collecting(b)
      /\ Len(a.values) = a.arg - 1 /\ a.values \in Seq(Nat) /\ a.arg \in Nat \ {0}
  BY <1>1, <1>2, <1>4 DEF Current, Collecting, ActivationOK, Placed, Activations
<1>6. /\ Len(b.values) = a.arg /\ b.values[a.arg] = clock
      /\ \A j \in 1 .. (a.arg - 1) : b.values[j] = a.values[j]
  BY <1>2, <1>4, <1>5, AppendProperties
<1>7. ActivationOK(b)
  <2>1. /\ b.statement <= Len(body[b.fn]) + 1 /\ <<b.fn, context>> \in emitted
        /\ DOMAIN b.holds = Args(b.fn) \cup Locals(b.fn)
    BY <1>2, <1>4 DEF ActivationOK, Placed
  <2>2. b.arg <= NumArgs[st.callee] + 1 /\ Len(b.values) = b.arg - 1
    BY <1>3, <1>4, <1>5, <1>6
  <2> QED
    BY <1>4, <1>5, <2>1, <2>2 DEF ActivationOK, Placed
<1>8. /\ stack' \in Seq(Activations) /\ Len(stack') = n /\ stack'[n] = b
      /\ \A k \in 1 .. (n - 1) : stack'[k] = stack[k]
      /\ \A k \in 1 .. n : stack'[k].fn = stack[k].fn
  BY <1>1, <1>2, <1>4
<1>9. StackGood(stack')
  <2>1. StackGood(stack)
    BY DEF FramesIInv, StackOK
  <2>2. \A k \in 1 .. n : ActivationOK(stack'[k])
    BY <1>2, <1>7, <1>8, <2>1 DEF StackGood
  <2>3. \A k \in 1 .. (n - 1) : stack'[k].waits # "no" /\ stack'[k + 1].fn = Awaited(stack'[k])
    BY <1>2, <1>8, <2>1 DEF StackGood
  <2>4. \A j, k \in 1 .. n : j < k => FrameEnd(stack'[k].fn) <= Start(stack'[j].fn)
    BY <1>2, <1>8, <2>1 DEF StackGood
  <2> QED
    BY <1>4, <1>8, <2>2, <2>3, <2>4 DEF StackGood
<1>10. RunTypeOK'
  <2>1. DOMAIN memory' = 0 .. MemoryWords - 1
    BY <1>1, <1>2, WriteFacts
  <2>2. clock' \in Nat /\ context' \in {"runtime", "deploy"}
    BY <1>1, <1>2 DEF RunTypeOK, FramesIInv
  <2> QED
    BY <1>1, <1>2, <1>8, <2>1, <2>2 DEF RunTypeOK
<1>11. ASSUME Fits
       PROVE  memory' \in [0 .. MemoryWords - 1 -> Nat] /\ Kept(memory', stack')
  <2>1. /\ d \in Nat /\ d < FrameEnd(a.fn) /\ d \notin Args(a.fn) \cup Locals(a.fn)
        /\ \A i \in 1 .. NumArgs[st.callee] : i # a.arg => ArgDestination(a.fn, st, i) # d
    BY <1>1, <1>2, <1>3, DestinationFacts DEF FramesIInv
  <2>2. FrameEnd(a.fn) \in Nat /\ FrameEnd(a.fn) <= MemoryWords /\ MemoryWords \in Nat
    BY <1>3, <1>11, AddressFacts, SizesAssumption DEF Fits, FramesIInv
  <2> HIDE DEF d
  <2>3. \A w \in Nat : w < MemoryWords => memory'[w] = IF w = d THEN clock ELSE memory[w]
    <3>1. \A w \in Nat : w < MemoryWords => w \in DOMAIN memory
      BY <1>2, <2>2
    <3>2. \A w \in DOMAIN memory : memory'[w] = IF w = d THEN clock ELSE memory[w]
      BY <1>1 DEF Write, d
    <3> QED
      BY <3>1, <3>2
  <2>4. ASSUME NEW k \in 1 .. (n - 1)
        PROVE  Intact(memory', stack'[k])
    <3>1. FrameEnd(a.fn) <= Start(stack[k].fn) /\ Start(stack[k].fn) \in Nat
      <4>1. FrameEnd(a.fn) <= Start(stack[k].fn) /\ stack[k] \in Activations /\ ActivationOK(stack[k])
        BY <1>1, <1>2, WaitingFacts DEF a
      <4> QED
        BY <1>1, <4>1, CurrentFacts, AddressFacts DEF FramesIInv
    <3>2. SameFrom(Start(stack[k].fn), memory, memory')
      BY <2>1, <2>2, <2>3, <3>1 DEF SameFrom
    <3>3. Intact(memory', stack[k])
      BY <1>1, <1>2, <1>11, <3>2, WaitingKept
    <3> QED
      BY <1>8, <3>3
  <2>5. Intact(memory, a)
    BY <1>2, <1>11 DEF FramesIInv, MemoryKept, Kept
  <2>6. Intact(memory', b)
    <3>1. ASSUME NEW w \in DOMAIN b.holds
          PROVE  memory'[w] = b.holds[w]
      <4>1. w \in Args(a.fn) \cup Locals(a.fn) /\ w \in DOMAIN a.holds
        BY <1>2, <1>4 DEF ActivationOK, Placed
      <4>2. w \in Nat /\ w < FrameEnd(a.fn) /\ w # d
        BY <1>3, <2>1, <4>1, RegionFacts DEF FramesIInv
      <4>3. memory'[w] = memory[w]
        BY <2>2, <2>3, <4>2
      <4> QED
        BY <1>4, <2>5, <4>1, <4>3 DEF Intact
    <3>2. ASSUME NEW j \in 1 .. Len(b.values)
          PROVE  memory'[ArgDestination(b.fn, Current(b), j)] = b.values[j]
      <4>1. CASE j = a.arg
        BY <4>1, <1>4, <1>5, <1>6, <2>1, <2>2, <2>3 DEF d
      <4>2. CASE j # a.arg
        <5>1. j \in 1 .. (a.arg - 1) /\ j \in 1 .. NumArgs[st.callee] /\ j \in 1 .. Len(a.values)
          BY <4>2, <1>3, <1>5, <1>6
        <5> DEFINE w == ArgDestination(a.fn, st, j)
        <5>2. w \in Nat /\ w < FrameEnd(a.fn) /\ w # d
          BY <4>2, <5>1, <1>1, <1>2, <2>1, DestinationFacts DEF FramesIInv
        <5> HIDE DEF w
        <5>3. memory'[w] = memory[w]
          BY <2>2, <2>3, <5>2
        <5>4. memory[w] = a.values[j]
          BY <1>5, <2>5, <5>1 DEF Intact, w
        <5> QED
          BY <1>4, <1>5, <1>6, <5>1, <5>3, <5>4 DEF w
      <4> QED
        BY <4>1, <4>2
    <3> QED
      BY <3>1, <3>2 DEF Intact
  <2>7. \A k \in 1 .. n : k = n \/ k \in 1 .. (n - 1)
    BY <1>2
  <2>8. memory' \in [0 .. MemoryWords - 1 -> Nat]
    BY <1>1, <1>2, <1>11, WriteFacts DEF FramesIInv, MemoryKept
  <2> QED
    BY <1>8, <2>4, <2>6, <2>7, <2>8 DEF Kept
<1> QED
  BY <1>1, <1>9, <1>10, <1>11, SameRun DEF StackOK, MemoryKept

(* An activation that begins.                                                *)
LEMMA NewActivation ==
  ASSUME CompileIInv, NEW f \in Known,
         NEW args \in Seq(Nat), Len(args) >= NumArgs[f], NEW locals \in Nat,
         NEW c, c = Activation(f, args, locals)
  PROVE  /\ c \in Activations /\ Placed(c) /\ c.fn = f /\ c.waits = "no" /\ c.values = <<>>
         /\ DOMAIN c.holds = Args(f) \cup Locals(f)
         /\ \A k \in 1 .. NumArgs[f] : c.holds[ArgAddress(f, k)] = args[k]
         /\ \A w \in Locals(f) : c.holds[w] = locals
<1> DEFINE D == Args(f) \cup Locals(f)
<1> DEFINE h == [w \in D |-> IF \E k \in 1 .. NumArgs[f] : w = ArgAddress(f, k)
                             THEN args[w - ArgAddress(f, 0)] ELSE locals]
<1>1. c = [fn |-> f, statement |-> 1, arg |-> 1, values |-> <<>>, waits |-> "no", holds |-> h]
  BY DEF Activation, Args, Locals
<1>2. f \in Functions /\ Start(f) \in Nat /\ NumArgs[f] \in Nat /\ NumLocals[f] \in Nat
  BY AddressFacts
<1>3. \A k \in Int : ArgAddress(f, k) = Start(f) + k - 1
  BY DEF ArgAddress, Start
<1>4. \A k \in 1 .. NumArgs[f] : args[k] \in Nat
  <2>1. Len(args) \in Nat /\ \A k \in 1 .. Len(args) : args[k] \in Nat
    BY LenProperties, ElementOfSeq
  <2> QED
    BY <1>2, <2>1
<1>5. \A k \in 1 .. NumArgs[f] : ArgAddress(f, k) \in D /\ ArgAddress(f, k) - ArgAddress(f, 0) = k
  <2>1. \A k \in 1 .. NumArgs[f] : ArgAddress(f, k) \in D
    BY DEF Args
  <2>2. ArgAddress(f, 0) = Start(f) + 0 - 1
    BY <1>3
  <2>3. \A k \in 1 .. NumArgs[f] : k \in Int /\ ArgAddress(f, k) = Start(f) + k - 1
    BY <1>2, <1>3
  <2>4. ASSUME NEW k \in 1 .. NumArgs[f]
        PROVE  ArgAddress(f, k) - ArgAddress(f, 0) = k
    <3>1. k \in Int /\ ArgAddress(f, k) = Start(f) + k - 1
      BY <2>3
    <3>2. Start(f) \in Nat
      BY <1>2
    <3> QED
      BY <2>2, <3>1, <3>2
  <2> QED
    BY <2>1, <2>4
<1>6. \A k \in 1 .. NumArgs[f] : h[ArgAddress(f, k)] = args[k]
  <2> SUFFICES ASSUME NEW k \in 1 .. NumArgs[f]
               PROVE  h[ArgAddress(f, k)] = args[k]
    OBVIOUS
  <2>1. h[ArgAddress(f, k)] = args[ArgAddress(f, k) - ArgAddress(f, 0)]
    BY <1>5
  <2> QED
    BY <1>5, <2>1
<1>7. \A w \in Locals(f) : h[w] = locals
  <2> SUFFICES ASSUME NEW w \in Locals(f)
               PROVE  h[w] = locals
    OBVIOUS
  <2>1. PICK j \in 1 .. NumLocals[f] : w = Start(f) + NumArgs[f] + j - 1
    BY DEF Locals, LocalAddress, Start
  <2>2. ASSUME NEW k \in 1 .. NumArgs[f]
        PROVE  w # ArgAddress(f, k)
    <3>1. k \in Int /\ k <= NumArgs[f] /\ j \in Int /\ j >= 1
      BY <1>2
    <3>2. ArgAddress(f, k) = Start(f) + k - 1
      BY <1>3, <3>1
    <3> HIDE DEF h, D
    <3> QED
      BY <1>2, <2>1, <3>1, <3>2
  <2> QED
    BY <2>2
<1>8. D \subseteq Nat /\ h \in [D -> Nat]
  <2>1. D \subseteq Nat
    BY RegionFacts
  <2>2. ASSUME NEW w \in D
        PROVE  h[w] \in Nat
    <3>1. CASE w \in Locals(f)
      BY <3>1, <1>7
    <3>2. CASE w \in Args(f)
      BY <3>2, <1>4, <1>6 DEF Args
    <3> QED
      BY <3>1, <3>2
  <2> QED
    BY <2>1, <2>2
<1>9. DOMAIN h = D
  OBVIOUS
<1> HIDE DEF h
<1>10. c \in Activations
  <2>1. <<>> \in Seq(Nat) /\ h \in UNION {[E -> Nat] : E \in SUBSET Nat}
    BY <1>8, EmptySeq
  <2> QED
    BY <1>1, <1>2, <2>1 DEF Activations
<1>11. c.fn = f /\ c.waits = "no" /\ c.values = <<>> /\ c.holds = h /\ c.statement = 1 /\ c.arg = 1
  BY <1>1
<1>12. Placed(c)
  <2>1. Len(body[f]) \in Nat
    BY <1>2, LenProperties DEF CompileIInv, CompileTypeOK
  <2>2. ASSUME Collecting(c)
        PROVE  c.arg <= NumArgs[Current(c).callee] + 1 /\ Len(c.values) = c.arg - 1
    <3>1. 1 <= Len(body[f])
      BY <1>11, <2>2 DEF Collecting
    <3>2. Current(c) = body[f][1] /\ body[f][1] \in StatementSet
      BY <1>2, <1>11, <2>1, <3>1, BodyFacts DEF Current, CompileIInv
    <3>3. NumArgs[Current(c).callee] \in Nat
      BY <3>2, StatementFacts, SizesAssumption
    <3>4. Len(c.values) = 0
      BY <1>11
    <3> QED
      BY <1>11, <3>3, <3>4
  <2> QED
    BY <1>9, <1>11, <2>1, <2>2 DEF Placed
<1> QED
  BY <1>6, <1>7, <1>9, <1>10, <1>11, <1>12

(* A call: the caller waits, and the callee, whose frame lies below, starts. *)
LEMMA PushGood ==
  ASSUME FramesIInv, stage = "run", NEW n, n = Len(stack), n > 0,
         NEW b \in Activations, b.fn = Act.fn, b.waits # "no", ActivationOK(b),
         NEW c \in Activations, c.waits = "no", c.fn = Awaited(b), ActivationOK(c),
         FrameEnd(c.fn) <= Start(Act.fn),
         NEW s \in Seq(Activations), Len(s) = n + 1, s[n + 1] = c, s[n] = b,
         \A k \in 1 .. (n - 1) : s[k] = stack[k]
  PROVE  StackGood(s)
<1>1. /\ n \in Nat \ {0} /\ n \in 1 .. n /\ Act = stack[n] /\ Act \in Activations /\ ActivationOK(Act)
      /\ stack \in Seq(Activations)
  BY WaitingFacts DEF FramesIInv, RunTypeOK
<1>5. StackGood(stack)
  BY DEF FramesIInv, StackOK
<1>6. \A k \in 1 .. (n + 1) : k = n + 1 \/ k = n \/ k \in 1 .. (n - 1)
  BY <1>1
<1>7. \A k \in 1 .. (n - 1) : ActivationOK(stack[k]) /\ stack[k] \in Activations /\ k \in 1 .. n
  BY <1>1, WaitingFacts
<1>8. \A k \in 1 .. (n + 1) : ActivationOK(s[k])
  BY <1>6, <1>7
<1>9. ASSUME NEW k \in 1 .. n
      PROVE  s[k].waits # "no" /\ s[k + 1].fn = Awaited(s[k])
  <2>1. CASE k = n
    BY <2>1
  <2>2. CASE k # n
    <3>1. k \in 1 .. (n - 1) /\ (k + 1 = n \/ k + 1 \in 1 .. (n - 1))
      BY <1>1, <2>2
    <3>2. s[k] = stack[k] /\ s[k + 1].fn = stack[k + 1].fn
      BY <1>1, <3>1
    <3> QED
      BY <1>5, <3>1, <3>2 DEF StackGood
  <2> QED
    BY <2>1, <2>2
<1>10. ASSUME NEW j \in 1 .. (n + 1), NEW k \in 1 .. (n + 1), j < k
       PROVE  FrameEnd(s[k].fn) <= Start(s[j].fn)
  <2>1. j \in 1 .. n /\ s[j].fn = stack[j].fn
    BY <1>1, <1>6, <1>10
  <2>2. CASE k = n + 1
    <3>1. CASE j = n
      BY <3>1, <2>2, <1>1, <2>1
    <3>2. CASE j # n
      <4>1. j \in 1 .. (n - 1) /\ FrameEnd(Act.fn) <= Start(stack[j].fn)
        BY <1>1, <2>1, <3>2, WaitingFacts
      <4>2. /\ Start(Act.fn) \in Nat /\ FrameEnd(Act.fn) \in Nat /\ Start(Act.fn) <= FrameEnd(Act.fn)
            /\ Act.fn \in Known
        <5>1. Act.fn \in Known
          BY <1>1, CurrentFacts DEF FramesIInv
        <5> QED
          BY <5>1, AddressFacts DEF FramesIInv
      <4>3. Start(stack[j].fn) \in Nat
        BY <4>1, <1>7, CurrentFacts, AddressFacts DEF FramesIInv
      <4>4. FrameEnd(c.fn) \in Nat
        BY CurrentFacts, AddressFacts DEF FramesIInv
      <4> QED
        BY <4>1, <4>2, <4>3, <4>4, <2>1, <2>2
    <3> QED
      BY <3>1, <3>2
  <2>3. CASE k # n + 1
    <3>1. k \in 1 .. n /\ s[k].fn = stack[k].fn
      BY <1>1, <1>6, <2>3
    <3> QED
      BY <1>5, <1>10, <2>1, <3>1 DEF StackGood
  <2> QED
    BY <2>2, <2>3
<1>11. StackGood(s)
  <2>1. \A k \in 1 .. (Len(s) - 1) : k \in 1 .. n
    BY <1>1
  <2> QED
    BY <1>8, <1>9, <1>10, <2>1 DEF StackGood
<1> QED
  BY <1>11

(* What a call may write: nothing from the frame of the caller on.           *)
LEMMA PushKept ==
  ASSUME FramesIInv, stage = "run", Fits, NEW n, n = Len(stack), n > 0,
         NEW b \in Activations, NEW w \in {"nested", "outer"}, b = [Act EXCEPT !.waits = w],
         ActivationOK(b), NEW c, NEW s, Len(s) = n + 1,
         s[n + 1] = c, s[n] = b, \A k \in 1 .. (n - 1) : s[k] = stack[k],
         NEW mem, SameFrom(Start(Act.fn), memory, mem),
         Intact(mem, c)
  PROVE  Kept(mem, s)
<1>1. /\ n \in Nat \ {0} /\ n \in 1 .. n /\ Act = stack[n] /\ Act \in Activations /\ ActivationOK(Act)
      /\ Act.waits = "no"
  BY WaitingFacts
<1>2. /\ b.fn = Act.fn /\ b.statement = Act.statement /\ b.arg = Act.arg /\ b.values = Act.values
      /\ b.holds = Act.holds /\ b.waits = w
  BY <1>1 DEF Activations
<1>3. Intact(memory, b)
  <2>1. Intact(memory, Act)
    BY <1>1 DEF FramesIInv, MemoryKept, Kept
  <2>2. Collecting(b) => Collecting(Act)
    BY <1>1, <1>2 DEF Collecting
  <2>3. Current(b) = Current(Act)
    BY <1>2 DEF Current
  <2> QED
    BY <1>2, <2>1, <2>2, <2>3 DEF Intact
<1>4. Collecting(b) => Current(b).nested # None
  BY <1>2 DEF Collecting, ActivationOK, Placed
<1>5. Intact(mem, b)
  <2>1. SameFrom(Start(b.fn), memory, mem)
    BY <1>2
  <2>2. CompileIInv
    BY DEF FramesIInv
  <2> QED
    BY <1>3, <1>4, <2>1, <2>2, OwnFrameKept
<1>6. ASSUME NEW k \in 1 .. (n - 1)
      PROVE  Intact(mem, s[k])
  <2>1. FrameEnd(Act.fn) <= Start(stack[k].fn) /\ stack[k] \in Activations /\ ActivationOK(stack[k])
    BY <1>1, WaitingFacts
  <2>2. /\ Start(Act.fn) \in Nat /\ FrameEnd(Act.fn) \in Nat /\ Start(Act.fn) <= FrameEnd(Act.fn)
    <3>1. Act.fn \in Known
      BY <1>1, CurrentFacts DEF FramesIInv
    <3> QED
      BY <3>1, AddressFacts DEF FramesIInv
  <2>3. Start(stack[k].fn) \in Nat
    BY <2>1, CurrentFacts, AddressFacts DEF FramesIInv
  <2>4. SameFrom(Start(stack[k].fn), memory, mem)
    BY <2>1, <2>2, <2>3 DEF SameFrom
  <2> QED
    BY <2>4, WaitingKept
<1>7. \A k \in 1 .. (n + 1) : k = n + 1 \/ k = n \/ k \in 1 .. (n - 1)
  BY <1>1
<1> QED
  BY <1>5, <1>6, <1>7 DEF Kept

LEMMA CallNestedKeeps ==
  ASSUME FramesIInv, CallNested
  PROVE  RunTypeOK' /\ StackOK' /\ MemoryKept'
<1> DEFINE n == Len(stack)
<1> DEFINE a == Act
<1> DEFINE st == Current(a)
<1> DEFINE h == st.nested
<1> DEFINE b == [a EXCEPT !.waits = "nested"]
<1> DEFINE args == [k \in 1 .. NumArgs[h] |-> clock]
<1> DEFINE c == Activation(h, args, clock)
<1>1. /\ stage = "run" /\ UNCHANGED <<body, frame_info, emitted, context, stage>>
      /\ ~(a.statement > Len(body[a.fn])) /\ a.waits = "no" /\ a.arg = st.at
      /\ memory' = Write(memory, Args(h) \cup Locals(h), clock)
      /\ stack' = Append([stack EXCEPT ![n] = b], c)
      /\ clock' = clock + 1
  BY DEF CallNested, Run, BodyOver, Tick, Continue, Stmt, Current
<1> HIDE DEF n
<1>2. /\ n \in Nat \ {0} /\ n \in 1 .. n /\ a = stack[n] /\ a \in Activations /\ ActivationOK(a)
      /\ n = Len(stack) /\ n > 0 /\ stack \in Seq(Activations)
      /\ clock \in Nat /\ DOMAIN memory = 0 .. MemoryWords - 1
  BY <1>1, WaitingFacts DEF FramesIInv, RunTypeOK, n
<1>3. /\ a.fn \in Known /\ a.fn \in Functions /\ a.statement <= Len(body[a.fn])
      /\ h # None /\ h \in Known /\ FrameEnd(h) <= Start(a.fn) /\ <<h, context>> \in emitted
      /\ a.arg \in Nat \ {0}
  <2>1. a.fn \in Functions /\ a.statement \in Nat /\ a.arg \in Nat \ {0}
    BY <1>2 DEF Activations
  <2>2. a.statement <= Len(body[a.fn])
    <3>1. Len(body[a.fn]) \in Nat
      BY <2>1, LenProperties DEF FramesIInv, CompileIInv, CompileTypeOK
    <3> QED
      BY <1>1, <2>1, <3>1
  <2> HIDE DEF a
  <2> QED
    BY <1>1, <1>2, <2>1, <2>2, CurrentFacts DEF FramesIInv
<1> HIDE DEF a
<1>4. /\ b \in Activations /\ b.fn = a.fn /\ b.waits = "nested" /\ b.statement = a.statement
      /\ b.holds = a.holds /\ b.arg = a.arg /\ b.values = a.values
  BY <1>2 DEF Activations
<1>5. ActivationOK(b) /\ Awaited(b) = h
  <2>1. Current(b) = st
    BY <1>4 DEF Current
  <2>2. Collecting(a)
    BY <1>1, <1>3 DEF Collecting
  <2> QED
    BY <1>1, <1>2, <1>3, <1>4, <2>1, <2>2 DEF ActivationOK, Placed, Awaited
<1>6. NumArgs[h] \in Nat /\ args \in Seq(Nat) /\ Len(args) = NumArgs[h] /\ \A k \in 1 .. NumArgs[h] : args[k] = clock
  <2>1. NumArgs[h] \in Nat
    BY <1>3, AddressFacts DEF FramesIInv
  <2> QED
    BY <1>2, <2>1
<1> HIDE DEF args
<1>7. /\ c \in Activations /\ ActivationOK(c) /\ c.fn = h /\ c.waits = "no" /\ c.values = <<>>
      /\ DOMAIN c.holds = Args(h) \cup Locals(h)
      /\ \A k \in 1 .. NumArgs[h] : c.holds[ArgAddress(h, k)] = clock
      /\ \A w \in Locals(h) : c.holds[w] = clock
  <2>1. Len(args) >= NumArgs[h]
    BY <1>6
  <2>2. /\ c \in Activations /\ Placed(c) /\ c.fn = h /\ c.waits = "no" /\ c.values = <<>>
        /\ DOMAIN c.holds = Args(h) \cup Locals(h)
        /\ \A k \in 1 .. NumArgs[h] : c.holds[ArgAddress(h, k)] = args[k]
        /\ \A w \in Locals(h) : c.holds[w] = clock
    <3> HIDE DEF h, st
    <3> QED
      BY <1>1, <1>2, <1>3, <1>6, <2>1, NewActivation DEF FramesIInv
  <2> QED
    BY <1>3, <1>6, <2>2 DEF ActivationOK
<1> HIDE DEF b, c
<1>8. /\ stack' \in Seq(Activations) /\ Len(stack') = n + 1
      /\ stack'[n + 1] = c /\ stack'[n] = b /\ \A k \in 1 .. (n - 1) : stack'[k] = stack[k]
      /\ StackGood(stack')
  <2>1. b.waits # "no" /\ c.fn = Awaited(b) /\ FrameEnd(c.fn) <= Start(Act.fn) /\ b.fn = Act.fn
    BY <1>3, <1>4, <1>5, <1>7 DEF a
  <2> DEFINE t == [stack EXCEPT ![n] = b]
  <2>2. t \in Seq(Activations) /\ Len(t) = n /\ t[n] = b /\ \A k \in 1 .. (n - 1) : t[k] = stack[k]
    BY <1>2, <1>4
  <2>4. stack' = Append(t, c)
    BY <1>1
  <2> HIDE DEF t
  <2>5. /\ stack' \in Seq(Activations) /\ Len(stack') = n + 1 /\ stack'[n + 1] = c
        /\ \A k \in 1 .. n : stack'[k] = t[k]
    BY <1>2, <1>7, <2>2, <2>4, AppendProperties
  <2>6. stack'[n] = b /\ \A k \in 1 .. (n - 1) : stack'[k] = stack[k]
    BY <1>2, <2>2, <2>5
  <2>3. b \in Activations /\ ActivationOK(b) /\ c \in Activations /\ ActivationOK(c) /\ c.waits = "no"
    BY <1>4, <1>5, <1>7
  <2> HIDE DEF h, st
  <2> QED
    BY <1>1, <1>2, <2>1, <2>3, <2>5, <2>6, PushGood
<1>9. RunTypeOK'
  <2>1. DOMAIN memory' = 0 .. MemoryWords - 1
    BY <1>1, <1>2, WriteFacts
  <2>2. clock' \in Nat /\ context' \in {"runtime", "deploy"} /\ Len(stack') > 0
    BY <1>1, <1>2, <1>8 DEF RunTypeOK, FramesIInv
  <2> QED
    BY <1>1, <1>8, <2>1, <2>2 DEF RunTypeOK
<1>10. ASSUME Fits
       PROVE  memory' \in [0 .. MemoryWords - 1 -> Nat] /\ Kept(memory', stack')
  <2> DEFINE S == Args(h) \cup Locals(h)
  <2>1. /\ Start(a.fn) \in Nat /\ FrameEnd(h) \in Nat /\ MemoryWords \in Nat /\ FrameEnd(h) <= MemoryWords
        /\ h \in Functions
    BY <1>3, <1>10, AddressFacts, SizesAssumption DEF Fits, FramesIInv, Known
  <2>2. \A w \in S : w \in Nat /\ w < FrameEnd(h)
    BY <1>3, RegionFacts DEF FramesIInv
  <2>3. \A w \in Nat : w < MemoryWords => w \in DOMAIN memory
    BY <1>2, <2>1
  <2>4. \A w \in DOMAIN memory : memory'[w] = IF w \in S THEN clock ELSE memory[w]
    BY <1>1 DEF Write
  <2> HIDE DEF S
  <2>5. SameFrom(Start(a.fn), memory, memory')
    BY <1>3, <2>1, <2>2, <2>3, <2>4 DEF SameFrom
  <2>6. Intact(memory', c)
    <3>1. ASSUME NEW w \in DOMAIN c.holds
          PROVE  memory'[w] = c.holds[w]
      <4>1. w \in S
        BY <1>7 DEF S
      <4>2. memory'[w] = clock
        BY <2>1, <2>2, <2>3, <2>4, <4>1
      <4>3. c.holds[w] = clock
        BY <1>7, <4>1 DEF S, Args
      <4> QED
        BY <4>2, <4>3
    <3>2. Len(c.values) = 0
      BY <1>7
    <3> QED
      BY <3>1, <3>2 DEF Intact
  <2>7. "nested" \in {"nested", "outer"} /\ b = [Act EXCEPT !.waits = "nested"]
    BY DEF a, b
  <2>8. SameFrom(Start(Act.fn), memory, memory')
    BY <2>5 DEF a
  <2>9. /\ stage = "run" /\ n = Len(stack) /\ n > 0 /\ b \in Activations /\ ActivationOK(b)
        /\ Len(stack') = n + 1 /\ stack'[n + 1] = c /\ stack'[n] = b
        /\ \A k \in 1 .. (n - 1) : stack'[k] = stack[k]
    BY <1>1, <1>2, <1>4, <1>5, <1>8
  <2>10. memory \in [0 .. MemoryWords - 1 -> Nat]
    BY <1>10 DEF FramesIInv, MemoryKept
  <2>11. memory' \in [0 .. MemoryWords - 1 -> Nat]
    <3>1. memory' = [w \in DOMAIN memory |-> IF w \in S THEN clock ELSE memory[w]]
      BY <1>1 DEF Write, S
    <3> QED
      BY <1>2, <2>10, <3>1
  <2> HIDE DEF h, st
  <2>12. Kept(memory', stack')
    BY <1>10, <2>6, <2>7, <2>8, <2>9, PushKept
  <2> QED
    BY <2>11, <2>12
<1> QED
  BY <1>1, <1>8, <1>9, <1>10, SameRun DEF StackOK, MemoryKept

LEMMA CallFunctionKeeps ==
  ASSUME FramesIInv, CallFunction
  PROVE  RunTypeOK' /\ StackOK' /\ MemoryKept'
<1> DEFINE n == Len(stack)
<1> DEFINE a == Act
<1> DEFINE st == Current(a)
<1> DEFINE g == st.callee
<1> DEFINE b == [a EXCEPT !.waits = "outer"]
<1> DEFINE c == Activation(g, a.values, clock)
<1> DEFINE From(w) == ArgDestination(a.fn, st, w - ArgAddress(g, 0))
<1> DEFINE moved == [w \in DOMAIN memory |-> IF w \in Args(g) THEN memory[From(w)] ELSE memory[w]]
<1>1. /\ stage = "run" /\ UNCHANGED <<body, frame_info, emitted, context, stage>>
      /\ ~(a.statement > Len(body[a.fn])) /\ a.waits = "no" /\ a.arg > NumArgs[g]
      /\ memory' = Write(moved, Locals(g), clock)
      /\ stack' = Append([stack EXCEPT ![n] = b], c)
      /\ clock' = clock + 1
  BY DEF CallFunction, Run, BodyOver, Tick, Continue, Stmt, Current
<1> HIDE DEF n
<1>2. /\ n \in Nat \ {0} /\ n \in 1 .. n /\ a = stack[n] /\ a \in Activations /\ ActivationOK(a)
      /\ n = Len(stack) /\ n > 0 /\ stack \in Seq(Activations)
      /\ clock \in Nat /\ DOMAIN memory = 0 .. MemoryWords - 1
  BY <1>1, WaitingFacts DEF FramesIInv, RunTypeOK, n
<1>3. /\ a.fn \in Known /\ a.fn \in Functions /\ a.statement <= Len(body[a.fn])
      /\ g \in Known /\ FrameEnd(g) <= Start(a.fn) /\ <<g, context>> \in emitted
      /\ NumArgs[g] \in Nat
  <2>1. a.fn \in Functions /\ a.statement \in Nat
    BY <1>2 DEF Activations
  <2>2. a.statement <= Len(body[a.fn])
    <3>1. Len(body[a.fn]) \in Nat
      BY <2>1, LenProperties DEF FramesIInv, CompileIInv, CompileTypeOK
    <3> QED
      BY <1>1, <2>1, <3>1
  <2> HIDE DEF a
  <2> QED
    BY <1>1, <1>2, <2>1, <2>2, CurrentFacts DEF FramesIInv
<1> HIDE DEF a
<1>4. /\ b \in Activations /\ b.fn = a.fn /\ b.waits = "outer" /\ b.statement = a.statement
      /\ b.holds = a.holds /\ b.arg = a.arg /\ b.values = a.values
  BY <1>2 DEF Activations
<1>5. ActivationOK(b) /\ Awaited(b) = g
  <2>1. Current(b) = st
    BY <1>4 DEF Current
  <2> QED
    BY <1>2, <1>3, <1>4, <2>1 DEF ActivationOK, Placed, Awaited, Collecting
<1>6. Collecting(a) /\ a.values \in Seq(Nat) /\ Len(a.values) = NumArgs[g]
  <2>1. Collecting(a)
    BY <1>1, <1>3 DEF Collecting
  <2>2. a.arg \in Nat /\ a.values \in Seq(Nat) /\ a.arg <= NumArgs[g] + 1 /\ Len(a.values) = a.arg - 1
    BY <1>2, <2>1 DEF ActivationOK, Placed, Activations
  <2> QED
    BY <1>1, <1>3, <2>1, <2>2
<1>7. /\ c \in Activations /\ ActivationOK(c) /\ c.fn = g /\ c.waits = "no" /\ c.values = <<>>
      /\ DOMAIN c.holds = Args(g) \cup Locals(g)
      /\ \A k \in 1 .. NumArgs[g] : c.holds[ArgAddress(g, k)] = a.values[k]
      /\ \A w \in Locals(g) : c.holds[w] = clock
  <2>1. Len(a.values) >= NumArgs[g]
    BY <1>3, <1>6
  <2>2. /\ c \in Activations /\ Placed(c) /\ c.fn = g /\ c.waits = "no" /\ c.values = <<>>
        /\ DOMAIN c.holds = Args(g) \cup Locals(g)
        /\ \A k \in 1 .. NumArgs[g] : c.holds[ArgAddress(g, k)] = a.values[k]
        /\ \A w \in Locals(g) : c.holds[w] = clock
    <3> HIDE DEF g, st
    <3> QED
      BY <1>2, <1>3, <1>6, <2>1, NewActivation DEF FramesIInv
  <2> HIDE DEF c
  <2> QED
    BY <1>3, <2>2 DEF ActivationOK
<1> HIDE DEF b, c
<1>8. /\ stack' \in Seq(Activations) /\ Len(stack') = n + 1
      /\ stack'[n + 1] = c /\ stack'[n] = b /\ \A k \in 1 .. (n - 1) : stack'[k] = stack[k]
      /\ StackGood(stack')
  <2>1. b.waits # "no" /\ c.fn = Awaited(b) /\ FrameEnd(c.fn) <= Start(Act.fn) /\ b.fn = Act.fn
    BY <1>3, <1>4, <1>5, <1>7 DEF a
  <2> DEFINE t == [stack EXCEPT ![n] = b]
  <2>2. t \in Seq(Activations) /\ Len(t) = n /\ t[n] = b /\ \A k \in 1 .. (n - 1) : t[k] = stack[k]
    BY <1>2, <1>4
  <2>4. stack' = Append(t, c)
    BY <1>1
  <2> HIDE DEF t
  <2>5. /\ stack' \in Seq(Activations) /\ Len(stack') = n + 1 /\ stack'[n + 1] = c
        /\ \A k \in 1 .. n : stack'[k] = t[k]
    BY <1>2, <1>7, <2>2, <2>4, AppendProperties
  <2>6. stack'[n] = b /\ \A k \in 1 .. (n - 1) : stack'[k] = stack[k]
    BY <1>2, <2>2, <2>5
  <2>3. b \in Activations /\ ActivationOK(b) /\ c \in Activations /\ ActivationOK(c) /\ c.waits = "no"
    BY <1>4, <1>5, <1>7
  <2> HIDE DEF g, st
  <2> QED
    BY <1>1, <1>2, <2>1, <2>3, <2>5, <2>6, PushGood
<1>9. DOMAIN moved = 0 .. MemoryWords - 1
  BY <1>2
<1>10. RunTypeOK'
  <2>1. DOMAIN memory' = 0 .. MemoryWords - 1
    <3> HIDE DEF moved
    <3> QED
      BY <1>1, <1>2, <1>9, WriteFacts
  <2>2. clock' \in Nat /\ context' \in {"runtime", "deploy"} /\ Len(stack') > 0
    BY <1>1, <1>2, <1>8 DEF RunTypeOK, FramesIInv
  <2> QED
    BY <1>1, <1>8, <2>1, <2>2 DEF RunTypeOK
<1>11. ASSUME Fits
       PROVE  memory' \in [0 .. MemoryWords - 1 -> Nat] /\ Kept(memory', stack')
  <2>1. /\ Start(a.fn) \in Nat /\ FrameEnd(g) \in Nat /\ MemoryWords \in Nat /\ FrameEnd(g) <= MemoryWords
        /\ FrameEnd(a.fn) \in Nat /\ FrameEnd(a.fn) <= MemoryWords /\ g \in Functions
        /\ Start(g) \in Nat /\ NumArgs[g] \in Nat /\ NumLocals[g] \in Nat
    BY <1>3, <1>11, AddressFacts, SizesAssumption DEF Fits, FramesIInv, Known
  <2>2. \A w \in Args(g) \cup Locals(g) : w \in Nat /\ w < FrameEnd(g) /\ w \in DOMAIN memory
    <3>1. \A w \in Args(g) \cup Locals(g) : w \in Nat /\ w < FrameEnd(g)
      BY <1>3, RegionFacts DEF FramesIInv
    <3> QED
      BY <1>2, <2>1, <3>1
  <2>3. ASSUME NEW k \in 1 .. NumArgs[g]
        PROVE  /\ ArgAddress(g, k) \in Args(g) /\ From(ArgAddress(g, k)) = ArgDestination(a.fn, st, k)
               /\ ArgDestination(a.fn, st, k) \in DOMAIN memory
               /\ moved[ArgAddress(g, k)] = memory[ArgDestination(a.fn, st, k)]
               /\ ArgAddress(g, k) \notin Locals(g)
    <3>1. ArgAddress(g, k) \in Args(g)
      BY DEF Args
    <3>2. \A j \in Int : ArgAddress(g, j) = Start(g) + j - 1
      BY DEF ArgAddress, Start
    <3>3. ArgAddress(g, k) - ArgAddress(g, 0) = k
      <4>1. ArgAddress(g, k) = Start(g) + k - 1 /\ ArgAddress(g, 0) = Start(g) + 0 - 1 /\ k \in Int
        BY <3>2
      <4> HIDE DEF g
      <4> QED
        BY <2>1, <4>1
    <3>4. ArgDestination(a.fn, st, k) \in Nat /\ ArgDestination(a.fn, st, k) < FrameEnd(a.fn)
      BY <1>1, <1>2, <1>3, DestinationFacts DEF FramesIInv
    <3>5. ArgDestination(a.fn, st, k) \in DOMAIN memory
      BY <1>2, <2>1, <3>4
    <3>6. ArgAddress(g, k) \notin Locals(g)
      <4>1. ArgAddress(g, k) = Start(g) + k - 1 /\ k \in Int /\ k <= NumArgs[g]
        BY <2>1, <3>2
      <4> SUFFICES ASSUME NEW j \in 1 .. NumLocals[g], ArgAddress(g, k) = Start(g) + NumArgs[g] + j - 1
                   PROVE  FALSE
        BY DEF Locals, LocalAddress, Start
      <4> HIDE DEF g
      <4> QED
        BY <2>1, <4>1
    <3>7. moved[ArgAddress(g, k)] = memory[From(ArgAddress(g, k))]
      BY <2>2, <3>1
    <3>8. From(ArgAddress(g, k)) = ArgDestination(a.fn, st, k)
      BY <3>3
    <3> QED
      BY <3>1, <3>5, <3>6, <3>7, <3>8
  <2>4. \A w \in Args(g) : \E k \in 1 .. NumArgs[g] : w = ArgAddress(g, k)
    BY DEF Args
  <2>5. \A w \in DOMAIN memory : w \notin Args(g) => moved[w] = memory[w]
    OBVIOUS
  <2>6. memory \in [0 .. MemoryWords - 1 -> Nat]
    BY <1>11 DEF FramesIInv, MemoryKept
  <2>7. moved \in [0 .. MemoryWords - 1 -> Nat]
    <3>1. ASSUME NEW w \in DOMAIN memory
          PROVE  moved[w] \in Nat
      <4>1. CASE w \in Args(g)
        <5>1. PICK k \in 1 .. NumArgs[g] : w = ArgAddress(g, k)
          BY <2>4, <4>1
        <5>2. moved[w] = memory[ArgDestination(a.fn, st, k)] /\ ArgDestination(a.fn, st, k) \in DOMAIN memory
          BY <2>3, <5>1
        <5> QED
          BY <2>6, <5>2
      <4>2. CASE w \notin Args(g)
        BY <2>5, <2>6, <4>2
      <4> QED
        BY <4>1, <4>2
    <3> QED
      BY <1>2, <3>1
  <2> HIDE DEF moved
  <2>9. /\ memory' = [w \in DOMAIN memory |-> IF w \in Locals(g) THEN clock ELSE moved[w]]
        /\ \A w \in DOMAIN memory : w \in Locals(g) => memory'[w] = clock
        /\ \A w \in DOMAIN memory : w \notin Locals(g) => memory'[w] = moved[w]
    BY <1>1, <1>2, <1>9 DEF Write
  <2>8. memory' \in [0 .. MemoryWords - 1 -> Nat]
    BY <1>2, <2>7, <2>9
  <2>10. SameFrom(Start(a.fn), memory, memory')
    <3>1. ASSUME NEW w \in Nat, Start(a.fn) <= w, w < MemoryWords
          PROVE  memory'[w] = memory[w]
      <4>1. w \in DOMAIN memory
        BY <1>2, <2>1, <3>1
      <4>2. w \notin Args(g) \cup Locals(g)
        BY <1>3, <2>1, <2>2, <3>1
      <4> QED
        BY <2>5, <2>9, <4>1, <4>2
    <3> QED
      BY <3>1 DEF SameFrom
  <2>11. Intact(memory, a)
    BY <1>2, <1>11 DEF FramesIInv, MemoryKept, Kept
  <2>12. Intact(memory', c)
    <3>1. ASSUME NEW w \in DOMAIN c.holds
          PROVE  memory'[w] = c.holds[w]
      <4>1. w \in Args(g) \cup Locals(g) /\ w \in DOMAIN memory
        BY <1>7, <2>2
      <4>2. CASE w \in Locals(g)
        BY <1>7, <2>9, <4>1, <4>2
      <4>3. CASE w \in Args(g)
        <5>1. PICK k \in 1 .. NumArgs[g] : w = ArgAddress(g, k)
          BY <2>4, <4>3
        <5>2. memory'[w] = memory[ArgDestination(a.fn, st, k)]
          BY <2>3, <2>9, <4>1, <5>1
        <5>3. memory[ArgDestination(a.fn, st, k)] = a.values[k]
          BY <1>6, <2>11 DEF Intact
        <5>4. c.holds[w] = a.values[k]
          BY <1>7, <5>1
        <5> QED
          BY <5>2, <5>3, <5>4
      <4> QED
        BY <4>1, <4>2, <4>3
    <3>2. Len(c.values) = 0
      BY <1>7
    <3> QED
      BY <3>1, <3>2 DEF Intact
  <2>13. "outer" \in {"nested", "outer"} /\ b = [Act EXCEPT !.waits = "outer"]
    BY DEF a, b
  <2>14. SameFrom(Start(Act.fn), memory, memory')
    BY <2>10 DEF a
  <2>15. /\ stage = "run" /\ n = Len(stack) /\ n > 0 /\ b \in Activations /\ ActivationOK(b)
         /\ Len(stack') = n + 1 /\ stack'[n + 1] = c /\ stack'[n] = b
         /\ \A k \in 1 .. (n - 1) : stack'[k] = stack[k]
    BY <1>1, <1>2, <1>4, <1>5, <1>8
  <2> HIDE DEF g, st
  <2>16. Kept(memory', stack')
    BY <1>11, <2>12, <2>13, <2>14, <2>15, PushKept
  <2> QED
    BY <2>8, <2>16
<1> QED
  BY <1>1, <1>8, <1>10, <1>11, SameRun DEF StackOK, MemoryKept

(* The buffers for results lie above what the function holds.                *)
LEMMA BufferFacts ==
  ASSUME CompileIInv, stage = "run", NEW a \in Activations, ActivationOK(a),
         a.statement <= Len(body[a.fn])
  PROVE  /\ ReturnBuffer(a.fn, Current(a)) \in Nat
         /\ ReturnBuffer(a.fn, Current(a)) < FrameEnd(a.fn)
         /\ ReturnBuffer(a.fn, Current(a)) \notin Args(a.fn) \cup Locals(a.fn)
         /\ NestedReturnBuffer(a.fn) \in Nat
         /\ NestedReturnBuffer(a.fn) < FrameEnd(a.fn)
         /\ NestedReturnBuffer(a.fn) \notin Args(a.fn) \cup Locals(a.fn)
<1> DEFINE f == a.fn
<1> DEFINE st == Current(a)
<1> DEFINE top == Start(f) + NumArgs[f] + NumLocals[f]
<1>1. /\ f \in Known /\ st \in StatementSet /\ st.callee \in Functions /\ NumArgs[st.callee] \in Nat
      /\ a.statement \in 1 .. Len(body[f])
  BY CurrentFacts
<1>2. /\ Start(f) \in Nat /\ FrameEnd(f) \in Nat /\ NumArgs[f] \in Nat /\ NumLocals[f] \in Nat
      /\ top + Temporaries(st) <= FrameEnd(f)
  BY <1>1, AddressFacts DEF Current
<1>3. \A w \in Args(f) \cup Locals(f) : w \in Nat /\ w < top
  BY <1>1, RegionFacts
<1>4. NestedReturnBuffer(f) = top
  BY <1>2 DEF NestedReturnBuffer, TempAddress, Start
<1>5. /\ Temporaries(st) \in Nat /\ Temporaries(st) >= 1
      /\ st.nested # None => Temporaries(st) >= 2
      /\ ReturnBuffer(f, st) = IF st.nested = None THEN top ELSE top + 1
  <2>1. CASE st.nested = None
    <3>1. Temporaries(st) = 1
      BY <2>1 DEF Temporaries, TemporaryBuffer
    <3>2. ReturnBuffer(f, st) = top
      BY <1>2, <2>1 DEF ReturnBuffer, TempAddress, Start
    <3> QED
      BY <2>1, <3>1, <3>2
  <2>2. CASE st.nested # None
    <3>1. Temporaries(st) = 2 + NumArgs[st.callee]
      BY <1>1, <2>2 DEF Temporaries, TemporaryBuffer
    <3>2. ReturnBuffer(f, st) = top + 1
      BY <1>2, <2>2 DEF ReturnBuffer, TempAddress, Start
    <3> QED
      BY <1>1, <2>2, <3>1, <3>2
  <2> QED
    BY <2>1, <2>2
<1>6. top \in Nat
  BY <1>2
<1> HIDE DEF f, st, top
<1>7. top < FrameEnd(f) /\ (st.nested # None => top + 1 < FrameEnd(f))
  BY <1>2, <1>5, <1>6
<1>8. top \notin Args(f) \cup Locals(f) /\ top + 1 \notin Args(f) \cup Locals(f)
  BY <1>3, <1>6
<1>9. /\ ReturnBuffer(f, st) \in Nat /\ ReturnBuffer(f, st) < FrameEnd(f)
      /\ ReturnBuffer(f, st) \notin Args(f) \cup Locals(f)
  BY <1>5, <1>6, <1>7, <1>8
<1> QED
  BY <1>4, <1>6, <1>7, <1>8, <1>9 DEF f, st

(* A return: the caller is the innermost activation again.                   *)
LEMMA PopGood ==
  ASSUME FramesIInv, stage = "run", NEW n, n = Len(stack), n > 1,
         NEW b \in Activations, b.fn = stack[n - 1].fn, b.waits = "no", ActivationOK(b),
         NEW s \in Seq(Activations), Len(s) = n - 1, s[n - 1] = b,
         \A k \in 1 .. (n - 2) : s[k] = stack[k]
  PROVE  StackGood(s)
<1>1. n \in Nat /\ \A k \in 1 .. n : stack[k] \in Activations /\ ActivationOK(stack[k])
  <2>1. n \in Nat
    BY LenProperties DEF FramesIInv, RunTypeOK
  <2>2. n > 0
    BY <2>1
  <2> QED
    BY <2>1, <2>2, WaitingFacts
<1>2. \A k \in 1 .. (n - 1) : /\ k = n - 1 \/ k \in 1 .. (n - 2)
                              /\ k \in 1 .. n
  BY <1>1
<1>3. \A k \in 1 .. (n - 1) : s[k].fn = stack[k].fn
  BY <1>2
<1>4. StackGood(stack)
  BY DEF FramesIInv, StackOK
<1>5. StackGood(s)
  <2>1. \A k \in 1 .. (n - 1) : ActivationOK(s[k])
    BY <1>1, <1>2
  <2>2. ASSUME NEW k \in 1 .. (n - 2)
        PROVE  s[k].waits # "no" /\ s[k + 1].fn = Awaited(s[k])
    <3>1. k \in 1 .. (n - 1) /\ k + 1 \in 1 .. (n - 1)
      BY <1>1
    <3> QED
      BY <1>3, <1>4, <3>1 DEF StackGood
  <2>3. \A j, k \in 1 .. (n - 1) : j < k => FrameEnd(s[k].fn) <= Start(s[j].fn)
    BY <1>2, <1>3, <1>4 DEF StackGood
  <2>4. Len(s) - 1 = n - 2
    BY <1>1
  <2> QED
    BY <2>1, <2>2, <2>3, <2>4 DEF StackGood
<1> QED
  BY <1>5

LEMMA PopKept ==
  ASSUME FramesIInv, stage = "run", Fits, NEW n, n = Len(stack), n > 1,
         NEW b, b.fn = stack[n - 1].fn, Len(stack') = n - 1, stack'[n - 1] = b,
         \A k \in 1 .. (n - 2) : stack'[k] = stack[k], Intact(memory', b),
         SameFrom(FrameEnd(b.fn), memory, memory')
  PROVE  Kept(memory', stack')
<1>1. n \in Nat /\ n > 0 /\ \A k \in 1 .. n : stack[k] \in Activations /\ ActivationOK(stack[k])
  <2>1. n \in Nat
    BY LenProperties DEF FramesIInv, RunTypeOK
  <2>2. n > 0
    BY <2>1
  <2> QED
    BY <2>1, <2>2, WaitingFacts
<1>2. ASSUME NEW k \in 1 .. (n - 2)
      PROVE  Intact(memory', stack'[k])
  <2>1. /\ k \in 1 .. n /\ n - 1 \in 1 .. n /\ k < n - 1 /\ k \in 1 .. (n - 1)
    BY <1>1
  <2>2. FrameEnd(b.fn) <= Start(stack[k].fn)
    BY <2>1 DEF FramesIInv, StackOK, StackGood
  <2>3. FrameEnd(b.fn) \in Nat /\ Start(stack[k].fn) \in Nat
    <3>1. b.fn \in Known /\ stack[k].fn \in Known
      BY <1>1, <2>1, CurrentFacts DEF FramesIInv
    <3> QED
      BY <3>1, AddressFacts DEF FramesIInv
  <2>4. SameFrom(Start(stack[k].fn), memory, memory')
    BY <2>2, <2>3 DEF SameFrom
  <2>5. Intact(memory', stack[k])
    BY <1>1, <2>1, <2>4, WaitingKept
  <2> QED
    BY <2>5
<1>3. \A k \in 1 .. (n - 1) : k = n - 1 \/ k \in 1 .. (n - 2)
  BY <1>1
<1> QED
  BY <1>2, <1>3 DEF Kept

(* Cells of a frame above what its function holds may change.                *)
LEMMA HoldsKept ==
  ASSUME CompileIInv, stage = "run", Fits, NEW a \in Activations, ActivationOK(a), NEW S,
         \A w \in S : w \notin Args(a.fn) \cup Locals(a.fn),
         Intact(memory, a),
         \A w \in Nat : w < MemoryWords /\ w \notin S => memory'[w] = memory[w]
  PROVE  \A w \in DOMAIN a.holds : memory'[w] = a.holds[w]
<1> SUFFICES ASSUME NEW w \in DOMAIN a.holds
             PROVE  memory'[w] = a.holds[w]
  OBVIOUS
<1>1. w \in Args(a.fn) \cup Locals(a.fn)
  BY DEF ActivationOK, Placed
<1>2. a.fn \in Known /\ a.fn \in Functions /\ FrameEnd(a.fn) <= MemoryWords
  BY CurrentFacts DEF Fits
<1>3. w \in Nat /\ w < FrameEnd(a.fn) /\ FrameEnd(a.fn) \in Nat /\ MemoryWords \in Nat
  BY <1>1, <1>2, RegionFacts, AddressFacts, SizesAssumption
<1>4. w \in Nat /\ w < MemoryWords /\ w \notin S
  BY <1>1, <1>2, <1>3
<1> QED
  BY <1>4 DEF Intact

LEMMA ReturnNestedKeeps ==
  ASSUME FramesIInv, Return, stack[Len(stack) - 1].waits = "nested"
  PROVE  RunTypeOK' /\ StackOK' /\ MemoryKept'
<1> DEFINE n == Len(stack)
<1> DEFINE a == stack[n - 1]
<1> DEFINE st == Current(a)
<1> DEFINE S == {NestedReturnBuffer(a.fn), ArgDestination(a.fn, st, st.at)}
<1> DEFINE b == [a EXCEPT !.waits = "no", !.arg = @ + 1, !.values = Append(@, clock)]
<1>1. /\ stage = "run" /\ UNCHANGED <<body, frame_info, emitted, context, stage>>
      /\ n > 1
      /\ memory' = Write(memory, S, clock)
      /\ stack' = [k \in 1 .. (n - 1) |-> IF k < n - 1 THEN stack[k] ELSE b]
      /\ clock' = clock + 1
  BY DEF Return, Run, Tick, Current
<1> HIDE DEF n
<1>2. /\ n \in Nat \ {0} /\ n = Len(stack) /\ n - 1 \in 1 .. n /\ stack \in Seq(Activations)
      /\ a \in Activations /\ ActivationOK(a)
      /\ clock \in Nat /\ DOMAIN memory = 0 .. MemoryWords - 1
  BY <1>1, WaitingFacts DEF FramesIInv, RunTypeOK, n
<1>3. /\ a.fn \in Known /\ a.fn \in Functions /\ a.statement <= Len(body[a.fn])
      /\ a.waits = "nested" /\ st.nested # None /\ a.arg = st.at
      /\ st.at \in 1 .. NumArgs[st.callee] /\ NumArgs[st.callee] \in Nat
  <2>1. a.waits = "nested"
    BY DEF n
  <2>2. a.statement <= Len(body[a.fn]) /\ st.nested # None /\ a.arg = st.at
    BY <1>2, <2>1 DEF ActivationOK, Placed
  <2> HIDE DEF a
  <2> QED
    BY <1>1, <1>2, <2>1, <2>2, CurrentFacts DEF FramesIInv
<1> HIDE DEF a
<1>4. /\ b \in Activations /\ b.fn = a.fn /\ b.waits = "no" /\ b.statement = a.statement
      /\ b.holds = a.holds /\ b.arg = a.arg + 1 /\ b.values = Append(a.values, clock)
  <2>1. a.arg + 1 \in Nat \ {0} /\ Append(a.values, clock) \in Seq(Nat)
    <3>1. a.arg \in Nat \ {0} /\ a.values \in Seq(Nat)
      BY <1>2 DEF Activations
    <3> QED
      BY <1>2, <3>1, AppendProperties
  <2> QED
    BY <1>2, <2>1 DEF Activations
<1> HIDE DEF b
<1>5. /\ Current(b) = st /\ Collecting(a) /\ Collecting(b)
      /\ Len(a.values) = a.arg - 1 /\ a.values \in Seq(Nat) /\ a.arg \in Nat \ {0}
  <2>1. a.values \in Seq(Nat) /\ a.arg \in Nat \ {0}
    BY <1>2 DEF Activations
  <2>2. Current(b) = st /\ Collecting(a) /\ Collecting(b)
    BY <1>3, <1>4 DEF Current, Collecting
  <2> QED
    BY <1>2, <2>1, <2>2 DEF ActivationOK, Placed
<1>6. /\ Len(b.values) = a.arg /\ b.values[a.arg] = clock
      /\ \A j \in 1 .. (a.arg - 1) : b.values[j] = a.values[j]
  <2>1. /\ Len(b.values) = Len(a.values) + 1 /\ b.values[Len(a.values) + 1] = clock
        /\ \A j \in 1 .. Len(a.values) : b.values[j] = a.values[j]
    BY <1>2, <1>4, <1>5, AppendProperties
  <2>2. Len(a.values) + 1 = a.arg
    BY <1>5
  <2> QED
    BY <1>5, <2>1, <2>2
<1>7. ActivationOK(b)
  <2>1. /\ b.statement <= Len(body[b.fn]) + 1 /\ <<b.fn, context>> \in emitted
        /\ DOMAIN b.holds = Args(b.fn) \cup Locals(b.fn)
    BY <1>2, <1>4 DEF ActivationOK, Placed
  <2>2. b.arg <= NumArgs[st.callee] + 1 /\ Len(b.values) = b.arg - 1
    BY <1>3, <1>4, <1>5, <1>6
  <2> QED
    BY <1>4, <1>5, <2>1, <2>2 DEF ActivationOK, Placed
<1>8. /\ stack' \in Seq(Activations) /\ Len(stack') = n - 1 /\ stack'[n - 1] = b
      /\ \A k \in 1 .. (n - 2) : stack'[k] = stack[k]
  <2>1. n - 1 \in Nat /\ \A k \in 1 .. (n - 1) : k \in 1 .. Len(stack)
    BY <1>2
  <2> QED
    BY <1>1, <1>2, <1>4, <2>1
<1>9. StackGood(stack')
  <2>1. b.fn = stack[n - 1].fn
    BY <1>4 DEF a
  <2> QED
    BY <1>1, <1>2, <1>4, <1>7, <1>8, <2>1, PopGood
<1>10. RunTypeOK'
  <2>1. DOMAIN memory' = 0 .. MemoryWords - 1
    BY <1>1, <1>2 DEF Write
  <2>2. clock' \in Nat /\ context' \in {"runtime", "deploy"} /\ Len(stack') > 0
    BY <1>1, <1>2, <1>8 DEF RunTypeOK, FramesIInv
  <2> QED
    BY <1>1, <1>8, <2>1, <2>2 DEF RunTypeOK
<1>11. ASSUME Fits
       PROVE  memory' \in [0 .. MemoryWords - 1 -> Nat] /\ Kept(memory', stack')
  <2> DEFINE d == ArgDestination(a.fn, st, a.arg)
  <2> DEFINE r == NestedReturnBuffer(a.fn)
  <2>1. /\ d \in Nat /\ d < FrameEnd(a.fn) /\ d \notin Args(a.fn) \cup Locals(a.fn)
        /\ \A i \in 1 .. NumArgs[st.callee] :
             /\ ArgDestination(a.fn, st, i) \in Nat
             /\ ArgDestination(a.fn, st, i) < FrameEnd(a.fn)
             /\ ArgDestination(a.fn, st, i) # r
             /\ i # a.arg => ArgDestination(a.fn, st, i) # d
    BY <1>1, <1>2, <1>3, DestinationFacts DEF FramesIInv
  <2>2. r \in Nat /\ r < FrameEnd(a.fn) /\ r \notin Args(a.fn) \cup Locals(a.fn)
    BY <1>1, <1>2, <1>3, BufferFacts DEF FramesIInv
  <2>3. FrameEnd(a.fn) \in Nat /\ FrameEnd(a.fn) <= MemoryWords /\ MemoryWords \in Nat
    BY <1>3, <1>11, AddressFacts, SizesAssumption DEF Fits, FramesIInv
  <2>4. S = {r, d}
    BY <1>3
  <2> HIDE DEF d, r, S
  <2>5. memory' = [w \in DOMAIN memory |-> IF w \in S THEN clock ELSE memory[w]]
    BY <1>1 DEF Write
  <2>6. memory' \in [0 .. MemoryWords - 1 -> Nat]
    <3>1. memory \in [0 .. MemoryWords - 1 -> Nat]
      BY <1>11 DEF FramesIInv, MemoryKept
    <3> QED
      BY <1>2, <2>5, <3>1
  <2>7. \A w \in Nat : w < MemoryWords => w \in DOMAIN memory
    BY <1>2, <2>3
  <2>8. \A w \in Nat : w < MemoryWords /\ w \notin S => memory'[w] = memory[w]
    BY <2>5, <2>7
  <2>9. Intact(memory, a)
    BY <1>2, <1>11 DEF FramesIInv, MemoryKept, Kept, a
  <2>10. Intact(memory', b)
    <3>1. \A w \in DOMAIN a.holds : memory'[w] = a.holds[w]
      <4>1. \A w \in S : w \notin Args(a.fn) \cup Locals(a.fn)
        BY <2>1, <2>2, <2>4
      <4>2. CompileIInv
        BY DEF FramesIInv
      <4> HIDE DEF S
      <4> QED
        BY <1>1, <1>2, <1>11, <2>8, <2>9, <4>1, <4>2, HoldsKept
    <3>2. ASSUME NEW j \in 1 .. Len(b.values)
          PROVE  memory'[ArgDestination(b.fn, Current(b), j)] = b.values[j]
      <4>1. CASE j = a.arg
        <5>1. d \in DOMAIN memory /\ d \in S
          BY <2>1, <2>3, <2>4, <2>7
        <5>2. memory'[d] = clock
          BY <2>5, <5>1
        <5> QED
          BY <4>1, <1>4, <1>5, <1>6, <5>2 DEF d
      <4>2. CASE j # a.arg
        <5>1. j \in 1 .. (a.arg - 1) /\ j \in 1 .. NumArgs[st.callee] /\ j \in 1 .. Len(a.values)
          BY <4>2, <1>3, <1>5, <1>6
        <5> DEFINE w == ArgDestination(a.fn, st, j)
        <5>2. w \in Nat /\ w < MemoryWords /\ w \notin S
          BY <4>2, <5>1, <2>1, <2>3, <2>4
        <5>3. memory[w] = a.values[j]
          BY <1>5, <2>9, <5>1 DEF Intact
        <5> HIDE DEF w
        <5>4. memory'[w] = memory[w]
          BY <2>8, <5>2
        <5> QED
          BY <1>4, <1>5, <1>6, <5>1, <5>3, <5>4 DEF w
      <4> QED
        BY <4>1, <4>2
    <3> QED
      BY <1>4, <3>1, <3>2 DEF Intact
  <2>11. SameFrom(FrameEnd(b.fn), memory, memory')
    <3>1. \A x \in S : x < FrameEnd(a.fn) /\ x \in Nat
      BY <2>1, <2>2, <2>4
    <3> QED
      BY <1>4, <2>3, <2>8, <3>1 DEF SameFrom
  <2>12. b.fn = stack[n - 1].fn
    BY <1>4 DEF a
  <2>13. /\ stage = "run" /\ n = Len(stack) /\ n > 1 /\ Len(stack') = n - 1 /\ stack'[n - 1] = b
         /\ \A k \in 1 .. (n - 2) : stack'[k] = stack[k]
    BY <1>1, <1>2, <1>8
  <2>14. Kept(memory', stack')
    BY <1>11, <2>10, <2>11, <2>12, <2>13, PopKept
  <2> QED
    BY <2>6, <2>14
<1> QED
  BY <1>1, <1>9, <1>10, <1>11, SameRun DEF StackOK, MemoryKept

LEMMA ReturnOuterKeeps ==
  ASSUME FramesIInv, Return, stack[Len(stack) - 1].waits # "nested"
  PROVE  RunTypeOK' /\ StackOK' /\ MemoryKept'
<1> DEFINE n == Len(stack)
<1> DEFINE a == stack[n - 1]
<1> DEFINE st == Current(a)
<1> DEFINE r == ReturnBuffer(a.fn, st)
<1> DEFINE b == [a EXCEPT !.waits = "no", !.arg = 1, !.statement = @ + 1, !.values = <<>>]
<1>1. /\ stage = "run" /\ UNCHANGED <<body, frame_info, emitted, context, stage>>
      /\ n > 1
      /\ memory' = Write(memory, {r}, clock)
      /\ stack' = [k \in 1 .. (n - 1) |-> IF k < n - 1 THEN stack[k] ELSE b]
      /\ clock' = clock + 1
  BY DEF Return, Run, Tick, Current
<1> HIDE DEF n
<1>2. /\ n \in Nat \ {0} /\ n = Len(stack) /\ n - 1 \in 1 .. n /\ stack \in Seq(Activations)
      /\ a \in Activations /\ ActivationOK(a) /\ a.waits # "no"
      /\ clock \in Nat /\ DOMAIN memory = 0 .. MemoryWords - 1
  <2>1. n \in Nat \ {0} /\ n = Len(stack) /\ n - 1 \in 1 .. n /\ n - 1 \in 1 .. (n - 1)
    BY <1>1, WaitingFacts DEF n
  <2> QED
    BY <1>1, <2>1, WaitingFacts DEF FramesIInv, RunTypeOK, n
<1>3. a.fn \in Known /\ a.fn \in Functions /\ a.statement <= Len(body[a.fn]) /\ a.statement \in Nat \ {0}
  <2>1. a.statement <= Len(body[a.fn]) /\ a.statement \in Nat \ {0}
    BY <1>2 DEF ActivationOK, Placed, Activations
  <2> HIDE DEF a
  <2> QED
    BY <1>1, <1>2, <2>1, CurrentFacts DEF FramesIInv
<1> HIDE DEF a
<1>4. /\ b \in Activations /\ b.fn = a.fn /\ b.waits = "no" /\ b.statement = a.statement + 1
      /\ b.holds = a.holds /\ b.arg = 1 /\ b.values = <<>>
  <2>1. a.statement + 1 \in Nat \ {0} /\ <<>> \in Seq(Nat)
    BY <1>3, EmptySeq
  <2> DEFINE b0 == [a EXCEPT !.waits = "no"]
  <2>2. /\ b0 \in Activations /\ b0.fn = a.fn /\ b0.waits = "no" /\ b0.statement = a.statement
        /\ b0.holds = a.holds
    BY <1>2 DEF Activations
  <2> HIDE DEF b0
  <2> DEFINE b1 == [b0 EXCEPT !.arg = 1]
  <2>3. /\ b1 \in Activations /\ b1.fn = a.fn /\ b1.waits = "no" /\ b1.statement = a.statement
        /\ b1.holds = a.holds /\ b1.arg = 1
    BY <2>2 DEF Activations
  <2>4. b = [b1 EXCEPT !.statement = a.statement + 1, !.values = <<>>]
    BY DEF b0
  <2> HIDE DEF b, b1
  <2> QED
    BY <2>1, <2>3, <2>4 DEF Activations
<1> HIDE DEF b
<1>5. Len(body[a.fn]) \in Nat /\ Len(b.values) = 0
  BY <1>3, <1>4, LenProperties DEF FramesIInv, CompileIInv, CompileTypeOK
<1>6. ActivationOK(b)
  <2>1. /\ b.statement <= Len(body[b.fn]) + 1 /\ <<b.fn, context>> \in emitted
        /\ DOMAIN b.holds = Args(b.fn) \cup Locals(b.fn)
    BY <1>2, <1>3, <1>4, <1>5 DEF ActivationOK, Placed
  <2>2. ASSUME b.statement <= Len(body[b.fn])
        PROVE  NumArgs[Current(b).callee] \in Nat
    <3>1. b.statement \in 1 .. Len(body[b.fn])
      BY <1>3, <1>4, <1>5, <2>2
    <3>2. Current(b) \in StatementSet
      BY <1>3, <1>4, <3>1, BodyFacts DEF Current, FramesIInv, CompileIInv
    <3> QED
      BY <3>2, StatementFacts, SizesAssumption
  <2>3. Collecting(b) => b.arg <= NumArgs[Current(b).callee] + 1 /\ Len(b.values) = b.arg - 1
    BY <1>4, <1>5, <2>2 DEF Collecting
  <2> QED
    BY <1>4, <2>1, <2>3 DEF ActivationOK, Placed
<1>8. /\ stack' \in Seq(Activations) /\ Len(stack') = n - 1 /\ stack'[n - 1] = b
      /\ \A k \in 1 .. (n - 2) : stack'[k] = stack[k]
  <2>1. n - 1 \in Nat /\ \A k \in 1 .. (n - 1) : k \in 1 .. Len(stack)
    BY <1>2
  <2> QED
    BY <1>1, <1>2, <1>4, <2>1
<1>9. StackGood(stack')
  <2>1. b.fn = stack[n - 1].fn
    BY <1>4 DEF a
  <2> QED
    BY <1>1, <1>2, <1>4, <1>6, <1>8, <2>1, PopGood
<1>10. RunTypeOK'
  <2>1. DOMAIN memory' = 0 .. MemoryWords - 1
    BY <1>1, <1>2 DEF Write
  <2>2. clock' \in Nat /\ context' \in {"runtime", "deploy"} /\ Len(stack') > 0
    BY <1>1, <1>2, <1>8 DEF RunTypeOK, FramesIInv
  <2> QED
    BY <1>1, <1>8, <2>1, <2>2 DEF RunTypeOK
<1>11. ASSUME Fits
       PROVE  memory' \in [0 .. MemoryWords - 1 -> Nat] /\ Kept(memory', stack')
  <2>1. r \in Nat /\ r < FrameEnd(a.fn) /\ r \notin Args(a.fn) \cup Locals(a.fn)
    BY <1>1, <1>2, <1>3, BufferFacts DEF FramesIInv
  <2>2. FrameEnd(a.fn) \in Nat /\ FrameEnd(a.fn) <= MemoryWords /\ MemoryWords \in Nat
    BY <1>3, <1>11, AddressFacts, SizesAssumption DEF Fits, FramesIInv
  <2> HIDE DEF r
  <2>3. memory' = [w \in DOMAIN memory |-> IF w \in {r} THEN clock ELSE memory[w]]
    BY <1>1 DEF Write
  <2>4. memory' \in [0 .. MemoryWords - 1 -> Nat]
    <3>1. memory \in [0 .. MemoryWords - 1 -> Nat]
      BY <1>11 DEF FramesIInv, MemoryKept
    <3> QED
      BY <1>2, <2>3, <3>1
  <2>5. \A w \in Nat : w < MemoryWords /\ w \notin {r} => memory'[w] = memory[w]
    <3>1. \A w \in Nat : w < MemoryWords => w \in DOMAIN memory
      BY <1>2, <2>2
    <3> QED
      BY <2>3, <3>1
  <2>6. Intact(memory', b)
    <3>1. Intact(memory, a)
      BY <1>2, <1>11 DEF FramesIInv, MemoryKept, Kept, a
    <3>2. \A w \in {r} : w \notin Args(a.fn) \cup Locals(a.fn)
      BY <2>1
    <3>3. CompileIInv
      BY DEF FramesIInv
    <3>4. \A w \in DOMAIN a.holds : memory'[w] = a.holds[w]
      BY <1>1, <1>2, <1>11, <2>5, <3>1, <3>2, <3>3, HoldsKept
    <3> QED
      BY <1>4, <1>5, <3>4 DEF Intact
  <2>7. SameFrom(FrameEnd(b.fn), memory, memory')
    BY <1>4, <2>1, <2>2, <2>5 DEF SameFrom
  <2>8. b.fn = stack[n - 1].fn
    BY <1>4 DEF a
  <2>9. /\ stage = "run" /\ n = Len(stack) /\ n > 1 /\ Len(stack') = n - 1 /\ stack'[n - 1] = b
        /\ \A k \in 1 .. (n - 2) : stack'[k] = stack[k]
    BY <1>1, <1>2, <1>8
  <2>10. Kept(memory', stack')
    BY <1>11, <2>6, <2>7, <2>8, <2>9, PopKept
  <2> QED
    BY <2>4, <2>10
<1> QED
  BY <1>1, <1>9, <1>10, <1>11, SameRun DEF StackOK, MemoryKept

(* A stack with one activation, in the context that is entered, and none.    *)
LEMMA EnteredStack ==
  ASSUME UNCHANGED <<body, frame_info, emitted>>, NEW s, NEW c, Len(s) = 1, s[1] = c,
         Placed(c), c.waits = "no", <<c.fn, context'>> \in emitted
  PROVE  StackGood(s)'
<1>1. ActivationOK(c)'
  BY SamePlaces DEF ActivationOK
<1>2. \A k \in 1 .. Len(s) : k = 1
  OBVIOUS
<1>3. 1 .. (Len(s) - 1) = {}
  OBVIOUS
<1> QED
  BY <1>1, <1>2, <1>3 DEF StackGood

LEMMA EmptyStack ==
  ASSUME NEW s, Len(s) = 0
  PROVE  /\ StackGood(s) /\ StackGood(s)'
         /\ \A mem : Kept(mem, s) /\ Kept(mem, s)'
<1>1. (\A k \in 1 .. Len(s) : FALSE) /\ 1 .. (Len(s) - 1) = {}
  OBVIOUS
<1> QED
  BY <1>1 DEF StackGood, Kept

LEMMA EnterContractKeeps ==
  ASSUME FramesIInv, EnterContract
  PROVE  RunTypeOK' /\ StackOK' /\ MemoryKept'
<1>1. PICK f \in Functions :
        /\ Kind[f] # "internal"
        /\ context' = IF Kind[f] = "init" THEN "deploy" ELSE "runtime"
        /\ stack' = <<Activation(f, [k \in 1 .. NumArgs[f] |-> 1], 1)>>
        /\ memory' = Write(memory, Args(f) \cup Locals(f), 1)
  BY DEF EnterContract
<1>2. /\ stage = "ready" /\ stage' = "run" /\ clock' = 1
      /\ UNCHANGED <<body, frame_info, emitted>>
  BY DEF EnterContract
<1> DEFINE args == [k \in 1 .. NumArgs[f] |-> 1]
<1> DEFINE c == Activation(f, args, 1)
<1>3. context' \in {"runtime", "deploy"} /\ <<f, context'>> \in emitted /\ f \in Known
  <2>1. Covers(emitted) /\ \A p \in emitted : p[1] \in Known
    BY <1>2, EmittedFacts DEF FramesIInv
  <2>2. CASE Kind[f] = "init"
    BY <1>1, <2>1, <2>2 DEF Covers
  <2>3. CASE Kind[f] # "init"
    <3>1. Kind[f] = "external"
      BY <1>1, <2>3, KindAssumption
    <3> QED
      BY <1>1, <2>1, <3>1 DEF Covers
  <2> QED
    BY <2>2, <2>3
<1>4. NumArgs[f] \in Nat /\ args \in Seq(Nat) /\ Len(args) = NumArgs[f] /\ \A k \in 1 .. NumArgs[f] : args[k] = 1
  <2>1. NumArgs[f] \in Nat
    BY SizesAssumption
  <2> QED
    BY <2>1
<1> HIDE DEF args
<1>5. /\ c \in Activations /\ Placed(c) /\ c.fn = f /\ c.waits = "no" /\ c.values = <<>>
      /\ DOMAIN c.holds = Args(f) \cup Locals(f)
      /\ \A k \in 1 .. NumArgs[f] : c.holds[ArgAddress(f, k)] = args[k]
      /\ \A w \in Locals(f) : c.holds[w] = 1
  <2>1. Len(args) >= NumArgs[f] /\ 1 \in Nat
    BY <1>4
  <2> QED
    BY <1>3, <1>4, <2>1, NewActivation DEF FramesIInv
<1>6. stack' = <<c>>
  BY <1>1 DEF args
<1> HIDE DEF c
<1>7. stack' \in Seq(Activations) /\ Len(stack') = 1 /\ stack'[1] = c
  BY <1>5, <1>6
<1>8. StackOK'
  BY <1>2, <1>3, <1>5, <1>7, EnteredStack DEF StackOK
<1>9. memory \in [0 .. MemoryWords - 1 -> Nat]
  BY <1>2 DEF FramesIInv, RunTypeOK
<1>10. memory' = [w \in 0 .. MemoryWords - 1 |-> IF w \in Args(f) \cup Locals(f) THEN 1 ELSE memory[w]]
  BY <1>1, <1>9 DEF Write
<1>11. memory' \in [0 .. MemoryWords - 1 -> Nat]
  BY <1>9, <1>10
<1>12. ASSUME Fits
       PROVE  Kept(memory', stack')
  <2>1. ASSUME NEW w \in DOMAIN c.holds
        PROVE  memory'[w] = c.holds[w]
    <3>1. w \in Args(f) \cup Locals(f)
      BY <1>5
    <3>2. w \in Nat /\ w < FrameEnd(f) /\ FrameEnd(f) \in Nat /\ FrameEnd(f) <= MemoryWords /\ MemoryWords \in Nat
      BY <1>3, <1>12, <3>1, RegionFacts, AddressFacts, SizesAssumption DEF FramesIInv, Fits
    <3>3. w \in 0 .. MemoryWords - 1
      BY <3>2
    <3>4. memory'[w] = 1
      BY <1>10, <3>1, <3>3
    <3>5. c.holds[w] = 1
      BY <1>4, <1>5, <3>1 DEF Args
    <3> QED
      BY <3>4, <3>5
  <2>2. Len(c.values) = 0
    BY <1>5
  <2>3. Intact(memory', c)
    BY <2>1, <2>2 DEF Intact
  <2>4. \A k \in 1 .. Len(stack') : k = 1
    BY <1>7
  <2> QED
    BY <1>7, <2>3, <2>4 DEF Kept
<1>13. MemoryKept'
  BY <1>2, <1>11, <1>12, SamePlaces DEF MemoryKept
<1>14. RunTypeOK'
  BY <1>2, <1>3, <1>7, <1>11 DEF RunTypeOK
<1> QED
  BY <1>8, <1>13, <1>14

LEMMA LeaveContractKeeps ==
  ASSUME FramesIInv, LeaveContract
  PROVE  RunTypeOK' /\ StackOK' /\ MemoryKept'
<1>1. /\ stage = "run" /\ stage' = "stop" /\ stack' = <<>> /\ UNCHANGED <<memory, clock>>
      /\ UNCHANGED <<body, frame_info, emitted, context>>
  BY DEF LeaveContract, Run
<1>2. stack' \in Seq(Activations) /\ Len(stack') = 0
  BY <1>1, EmptySeq
<1>6. Fits' => memory' \in [0 .. MemoryWords - 1 -> Nat]
  BY <1>1, SamePlaces DEF FramesIInv, MemoryKept
<1>7. StackOK'
  BY <1>2, EmptyStack DEF StackOK
<1>8. MemoryKept'
  BY <1>2, <1>6, EmptyStack DEF MemoryKept
<1>9. RunTypeOK'
  BY <1>1, <1>2 DEF FramesIInv, RunTypeOK
<1> QED
  BY <1>7, <1>8, <1>9

LEMMA IdleKeeps ==
  ASSUME FramesIInv, UNCHANGED <<context, stack, memory, clock>>,
         stage \notin {"run", "stop"}, stage' # "run"
  PROVE  RunTypeOK' /\ StackOK' /\ MemoryKept'
<1>1. stack' = <<>> /\ memory' \in [0 .. MemoryWords - 1 -> Nat] /\ RunTypeOK'
  BY DEF FramesIInv, RunTypeOK
<1>2. Len(stack') = 0
  BY <1>1
<1> QED
  BY <1>1, <1>2, EmptyStack DEF StackOK, MemoryKept

LEMMA InitFramesIInv ==
  ASSUME InitFrames
  PROVE  FramesIInv
<1>1. CompileIInv
  BY InitCompile
<1>2. /\ stack = <<>> /\ stage = "analyse" /\ context = "runtime" /\ clock = 0
      /\ memory = [w \in 0 .. MemoryWords - 1 |-> 0]
  BY DEF InitFrames, OutputEmpty
<1>3. memory \in [0 .. MemoryWords - 1 -> Nat] /\ DOMAIN memory = 0 .. MemoryWords - 1
  BY <1>2
<1>4. RunTypeOK
  BY <1>2, <1>3, EmptySeq DEF RunTypeOK
<1>5. Len(stack) = 0
  BY <1>2
<1> QED
  BY <1>1, <1>3, <1>4, <1>5, EmptyStack DEF FramesIInv, StackOK, MemoryKept

LEMMA StepKeepsFrames ==
  ASSUME FramesIInv, [Progress \/ Ended]_allVars
  PROVE  FramesIInv'
<1>1. CompileIInv'
  BY ProgressKeepsCompile DEF FramesIInv
<1>2. CASE Analyse /\ UNCHANGED frameVars
  <2>1. UNCHANGED <<stage, context, stack, memory, clock>> /\ verdict = "analysing"
    BY <1>2 DEF frameVars, Analyse, VisitRoot, AlreadySeen, RejectCycle, Descend, ReturnToCaller, FinishRoot, Accept
  <2>2. stage = "analyse"
    BY <2>1 DEF FramesIInv, CompileIInv, StagesApart
  <2> QED
    BY <1>1, <2>1, <2>2, IdleKeeps DEF FramesIInv
<1>3. CASE Compile
  <2>1. UNCHANGED <<context, stack, memory, clock>> /\ stage \in {"analyse", "generate"} /\ stage' # "run"
    BY <1>3 DEF Compile, StartGeneration, Generate, AlreadyGenerated, GenerationDone
  <2> QED
    BY <1>1, <2>1, IdleKeeps DEF FramesIInv
<1>4. CASE Execute
  <2>1. CASE Return
    BY <1>1, <2>1, ReturnNestedKeeps, ReturnOuterKeeps DEF FramesIInv
  <2> QED
    BY <1>1, <1>4, <2>1, EnterContractKeeps, EvaluateArgKeeps, CallNestedKeeps, CallFunctionKeeps,
       LeaveContractKeeps DEF Execute, FramesIInv
<1>5. CASE UNCHANGED allVars
  <2>1. UNCHANGED <<body, frame_info, emitted, context, stage, stack, memory, clock>>
    BY <1>5 DEF allVars, frameVars
  <2> QED
    BY <1>1, <2>1, SameRun DEF FramesIInv, RunTypeOK, StackOK, MemoryKept
<1> QED
  BY <1>2, <1>3, <1>4, <1>5 DEF Progress, Ended

LEMMA FramesInvariant == FramesSpec => []FramesIInv
<1>1. InitFrames => FramesIInv
  BY InitFramesIInv
<1>2. FramesIInv /\ [Progress \/ Ended]_allVars => FramesIInv'
  BY StepKeepsFrames
<1> QED
  BY <1>1, <1>2, PTL DEF FramesSpec

-----------------------------------------------------------------------------
(* The results.                                                              *)

(* What the analysis promises, it promises to the code generator: when the   *)
(* composed system runs, callees still come first in every set, the sets are *)
(* what can be reached, and the verdict is right.                            *)
THEOREM AnalysisTrusted == FramesSpec => [](CalleesFirst /\ ReachableIsClosure /\ VerdictRight)
<1>1. CompileIInv => CalleesFirst /\ ReachableIsClosure /\ VerdictRight
  BY InvariantClosure, InvariantVerdict DEF CompileIInv, GraphIInv
<1> QED
  BY <1>1, CompileInvariant, PTL

(* Above the frame of the constructor, where the deployed code and the       *)
(* immutables are put, no function that the constructor reaches has its      *)
(* frame (init_mem_used in generate_ir_for_module).                          *)
THEOREM DeployRegionStaysClear == FramesSpec => []DeployRegionClear
BY DeployClear, CompileInvariant, PTL

(* The frame a function has been given is never moved: compiled again for    *)
(* the constructor, it gets the same one, so code that was already generated *)
(* for its callers stays right.                                              *)
THEOREM FramesNeverMove ==
  FramesSpec => [][\A f \in Functions : frame_info[f] # NoFrame => frame_info'[f] = frame_info[f]]_allVars
<1>1. ASSUME CompileIInv, [Progress \/ Ended]_allVars
      PROVE  [\A f \in Functions : frame_info[f] # NoFrame => frame_info'[f] = frame_info[f]]_allVars
  <2>1. CASE Generate
    BY <1>1, <2>1, GenerateFrames DEF Known
  <2>2. CASE ~Generate
    <3>1. UNCHANGED frame_info
      BY <1>1, <2>2
         DEF Progress, Ended, Compile, Execute, StartGeneration, AlreadyGenerated, GenerationDone,
             EnterContract, EvaluateArg, CallNested, CallFunction, Return, LeaveContract, Run,
             frameVars, allVars
    <3> QED
      BY <3>1
  <2> QED
    BY <2>1, <2>2
<1>2. CompileIInv /\ [Progress \/ Ended]_allVars
        => [\A f \in Functions : frame_info[f] # NoFrame => frame_info'[f] = frame_info[f]]_allVars
  BY <1>1
<1> QED
  BY <1>2, CompileInvariant, PTL DEF FramesSpec

(* The generator never asks for the frame of a function that has none, and   *)
(* whatever runs was emitted for the context it runs in.                     *)
THEOREM ReferencesAlwaysResolve == FramesSpec => []ReferencesResolve
<1>1. FramesIInv => ReferencesResolve
  BY DEF FramesIInv, CompileIInv, StagesApart, StackOK, StackGood, ActivationOK, ReferencesResolve
<1> QED
  BY <1>1, FramesInvariant, PTL

(* As long as the frames fit in the memory that is modelled, its contents    *)
(* and everything else is of its type.                                       *)
THEOREM FramesTypeCorrect == FramesSpec => [](Fits => FrameTypeOK)
<1>1. FramesIInv => (Fits => FrameTypeOK)
  <2> SUFFICES ASSUME FramesIInv, Fits
               PROVE  FrameTypeOK
    OBVIOUS
  <2>1. \A k \in 1 .. Len(stack) : stack[k].fn \in Functions
    <3>1. stack \in Seq(Activations)
      BY DEF FramesIInv, RunTypeOK
    <3>2. \A k \in 1 .. Len(stack) : stack[k] \in Activations
      BY <3>1, ElementOfSeq
    <3> QED
      BY <3>2 DEF Activations
  <2>2. memory \in [0 .. MemoryWords - 1 -> Nat] /\ context \in {"runtime", "deploy"}
    BY DEF FramesIInv, MemoryKept, RunTypeOK
  <2> QED
    BY <2>1, <2>2 DEF FramesIInv, CompileIInv, GraphIInv, CompileTypeOK, FrameTypeOK
<1> QED
  BY <1>1, FramesInvariant, PTL

(* No call, however deep, changes the arguments or variables of a function   *)
(* that waits for it, and a callee starts with the arguments its caller has  *)
(* computed, whatever calls the computation of the other arguments made.     *)
THEOREM ValuesAlwaysSurvive == FramesSpec => [](Fits => ValuesSurviveCalls)
<1>1. FramesIInv => (Fits => ValuesSurviveCalls)
  BY DEF FramesIInv, MemoryKept, Kept, Intact, ValuesSurviveCalls
<1> QED
  BY <1>1, FramesInvariant, PTL
=============================================================================
