----------------------- MODULE AcceptedContractsProofs -----------------------
(***************************************************************************)
(* What the analysis promises of an accepted program holds whenever it is  *)
(* run: for every set of programs that are nested and named as the parser  *)
(* sees to, of any size.                                                   *)
(*                                                                         *)
(* The argument has two halves.  While a program is analysed, AnalysisOk   *)
(* holds: of every function with facts, each part and each statement is    *)
(* one that its decorator and the loops around it allow, in terms of the   *)
(* facts of the functions it calls, and the lines before which a block has *)
(* ended are such for a reason.  This is the visit's own bookkeeping, with *)
(* the names that are bound at each line told from the text of the program *)
(* (Scope).  While it is run, RunOk holds: every function on the stack is  *)
(* at a line where exactly those names are bound and before which no block *)
(* has ended, and whatever is above it may do no more than it may itself,  *)
(* and writes nothing its loops are over.  A call keeps this because the   *)
(* facts of the caller have those of the callee in them, and because a     *)
(* function is analysed after those it calls, so that none is on the stack *)
(* twice.                                                                  *)
(***************************************************************************)
EXTENDS AcceptedContracts, SequenceTheorems, WellFoundedInduction, FiniteSetTheorems, TLAPS

---------------------------------------------------------------------------
(* Functions, and the scopes of their lines.                               *)

(* What a function is in a program that is well formed. *)
IsFunction(f) ==
  /\ f = <<f[1], f[2]>> /\ f[1] \in DOMAIN program
  /\ The(f).d = "function" /\ The(f).name = f[2]
  /\ The(f).mutability \in Mutabilities /\ The(f).result \in BOOLEAN
  /\ Body(f) \in Seq(Range(Body(f))) /\ WellNested(Body(f)) /\ \A k \in DOMAIN Body(f) : WellTyped(Body(f)[k])
  /\ IsConstructor(f) => ~ReadsOnly(f)

(* The statements whose names are visible at line k. *)
Scope(f, k) == {p \in DOMAIN Body(f) : p < k /\ Body(f)[p].s \in {"declare", "for"} /\ k <= Body(f)[p].until}

(* The lines of a body are numbered from one. *)
LEMMA BodyLines ==
  ASSUME NEW f, IsFunction(f)
  PROVE  Len(Body(f)) \in Nat /\ DOMAIN Body(f) = 1 .. Len(Body(f))
BY DEF IsFunction

(* Where what a statement binds or opens ends. *)
LEMMA Ending ==
  ASSUME NEW f, IsFunction(f), NEW p \in DOMAIN Body(f)
  PROVE  /\ Body(f)[p].s \in {"declare", "for"} => Body(f)[p].until \in p + 1 .. Len(Body(f)) + 1
         /\ Body(f)[p].s \in {"declare", "for"} /\ Body(f)[p].until \in DOMAIN Body(f) => Body(f)[Body(f)[p].until].s \in Marks
         /\ Body(f)[p].s \in Opening => Body(f)[p].until \in p + 1 .. Len(Body(f))
<1>1. WellNested(Body(f)) /\ Len(Body(f)) \in Nat /\ DOMAIN Body(f) = 1 .. Len(Body(f))
  BY BodyLines DEF IsFunction
<1> QED
  BY <1>1 DEF WellNested, Opening, Marks

(* A block that begins in another one ends in it. *)
LEMMA Nesting ==
  ASSUME NEW f, IsFunction(f), NEW j \in DOMAIN Body(f), NEW k \in DOMAIN Body(f),
         Body(f)[j].s \in Opening \union {"declare"}, j < k, k < Body(f)[j].until
  PROVE  /\ Body(f)[k].s \in Opening => Body(f)[k].until < Body(f)[j].until
         /\ Body(f)[k].s = "declare" => Body(f)[k].until <= Body(f)[j].until
<1>1. WellNested(Body(f))
  BY DEF IsFunction
<1> QED
  BY <1>1 DEF WellNested

(* The scope of the next line. *)
LEMMA ScopeNext ==
  ASSUME NEW f, IsFunction(f), NEW k \in DOMAIN Body(f)
  PROVE  BoundAfter(f, Scope(f, k), k) = Scope(f, k + 1)
<1>1. k \in Int /\ DOMAIN Body(f) \subseteq Int
  BY BodyLines
<1>2. \A p \in Scope(f, k) : Body(f)[p].until = k => Body(f)[k].s \in Marks
  BY Ending DEF Scope
<1>3. \A p \in DOMAIN Body(f) : Body(f)[p].s \in {"declare", "for"} => Body(f)[p].until \in Int /\ p < Body(f)[p].until
  BY Ending, BodyLines
<1>4. CASE Body(f)[k].s \in {"declare", "for"}
  <2>1. Body(f)[k].s \notin Marks
    BY <1>4 DEF Marks
  <2> QED
    BY <1>1, <1>2, <1>3, <1>4, <2>1 DEF Scope, BoundAfter
<1>5. CASE Body(f)[k].s \in Marks
  <2>1. Body(f)[k].s \notin {"declare", "for"}
    BY <1>5 DEF Marks
  <2> QED
    BY <1>1, <1>3, <1>5, <2>1 DEF Scope, BoundAfter, Leaving
<1>6. CASE Body(f)[k].s \notin Marks \union {"declare", "for"}
  BY <1>1, <1>2, <1>3, <1>6 DEF Scope, BoundAfter
<1> QED
  BY <1>4, <1>5, <1>6

(* Behind a block the scope is what it was before. *)
LEMMA ScopeBehind ==
  ASSUME NEW f, IsFunction(f), NEW k \in DOMAIN Body(f), Body(f)[k].s \in Opening
  PROVE  /\ Body(f)[k].until \in DOMAIN Body(f)
         /\ Leaving(f, Scope(f, k), k) = Scope(f, Body(f)[k].until + 1)
         /\ Body(f)[k].s \in {"if", "for"} => Scope(f, k) = Scope(f, Body(f)[k].until + 1)
<1> DEFINE e == Body(f)[k].until
<1>1. k \in Int /\ DOMAIN Body(f) \subseteq Int /\ e \in DOMAIN Body(f) /\ k < e /\ e \in Int
  BY Ending, BodyLines
<1>2. \A p \in DOMAIN Body(f) : Body(f)[p].s \in {"declare", "for"} => Body(f)[p].until \in Int /\ p < Body(f)[p].until
  BY Ending, BodyLines
<1>3. \A p \in DOMAIN Body(f) : Body(f)[p].s \in {"declare", "for"} /\ p < k /\ k < Body(f)[p].until => e < Body(f)[p].until
  BY Nesting DEF Opening
<1>4. \A p \in DOMAIN Body(f) : Body(f)[p].s \in {"declare", "for"} /\ k < p /\ p < e => Body(f)[p].until <= e
  BY <1>1, <1>2, Nesting DEF Opening
<1>5. Body(f)[e].s \in Marks
  <2>1. WellNested(Body(f))
    BY DEF IsFunction
  <2> QED
    BY <2>1 DEF WellNested, Opening, Marks
<1>6. Body(f)[e].s \notin {"declare", "for"}
  BY <1>5 DEF Marks
<1>7. \A p \in Scope(f, e + 1) : p # k
  BY <1>1 DEF Scope
<1> HIDE DEF e
<1>8. Leaving(f, Scope(f, k), k) = Scope(f, e + 1)
  BY <1>1, <1>2, <1>3, <1>4, <1>6, <1>7 DEF Scope, Leaving
<1>9. ASSUME Body(f)[k].s \in {"if", "for"}
      PROVE  Scope(f, k) = Leaving(f, Scope(f, k), k)
  <2>1. \A p \in Scope(f, k) : Body(f)[p].until # k
    <3>1. Body(f)[k].s \notin Marks
      BY <1>9 DEF Marks
    <3> QED
      BY <3>1, Ending DEF Scope
  <2> QED
    BY <2>1, <1>1, <1>2 DEF Scope, Leaving
<1> QED
  BY <1>1, <1>8, <1>9 DEF e

(* The scopes of what is in a loop, from its first line to its last. *)
LEMMA ScopeInLoop ==
  ASSUME NEW f, IsFunction(f), NEW e \in DOMAIN Body(f), Body(f)[e].s = "endfor",
         NEW k \in DOMAIN Body(f), Body(f)[e].mate < k, k <= e
  PROVE  /\ Body(f)[e].mate \in DOMAIN Body(f)
         /\ Leaving(f, Scope(f, k), e) = Scope(f, e + 1)
         /\ {p \in Scope(f, k) : p <= Body(f)[e].mate} = Scope(f, Body(f)[e].mate + 1)
<1> DEFINE m == Body(f)[e].mate
<1>1. m \in DOMAIN Body(f) /\ Body(f)[m].s = "for" /\ Body(f)[m].until = e /\ m < e
  <2>1. WellNested(Body(f))
    BY DEF IsFunction
  <2> QED
    BY <2>1, BodyLines DEF WellNested
<1>2. \A p \in DOMAIN Body(f) : Body(f)[p].s \in {"declare", "for"} => Body(f)[p].until \in Int /\ p < Body(f)[p].until
  BY Ending, BodyLines
<1>3. \A p \in DOMAIN Body(f) : Body(f)[p].s \in {"declare", "for"} /\ p < m /\ m < Body(f)[p].until => e < Body(f)[p].until
  BY <1>1, Nesting DEF Opening
<1>4. \A p \in DOMAIN Body(f) : Body(f)[p].s \in {"declare", "for"} /\ m < p /\ p < e => Body(f)[p].until <= e
  BY <1>1, <1>2, Nesting DEF Opening
<1>5. DOMAIN Body(f) \subseteq Int /\ m \in Int /\ e \in Int /\ k \in Int
  BY <1>1, BodyLines
<1> HIDE DEF m
<1>6. Body(f)[e].s \notin {"declare", "for"}
  OBVIOUS
<1>7. m < k
  BY DEF m
<1>8. Leaving(f, Scope(f, k), e) = Scope(f, e + 1)
  BY <1>1, <1>2, <1>4, <1>5, <1>6, <1>7 DEF Scope, Leaving
<1>9. {p \in Scope(f, k) : p <= m} = Scope(f, m + 1)
  BY <1>1, <1>2, <1>3, <1>5, <1>7 DEF Scope
<1> QED
  BY <1>1, <1>8, <1>9 DEF m

(* What is visible at a loop is the part of what is visible in it that was *)
(* bound before.                                                           *)
LEMMA ScopeBefore ==
  ASSUME NEW f, IsFunction(f), NEW k \in Int, NEW p \in Scope(f, k), Body(f)[p].s = "for"
  PROVE  {q \in Scope(f, k) : q < p} = Scope(f, p)
<1>1. p \in DOMAIN Body(f) /\ p < k /\ k <= Body(f)[p].until
  BY DEF Scope
<1>2. \A q \in DOMAIN Body(f) : Body(f)[q].s \in {"declare", "for"} => Body(f)[q].until \in Int
  BY Ending, BodyLines
<1>3. \A q \in DOMAIN Body(f) : Body(f)[q].s \in {"declare", "for"} /\ q < p /\ p < Body(f)[q].until => Body(f)[p].until < Body(f)[q].until
  BY <1>1, Nesting DEF Opening
<1>4. DOMAIN Body(f) \subseteq Int
  BY BodyLines
<1>5. \A q \in DOMAIN Body(f) : Body(f)[q].s \in {"declare", "for"} => Body(f)[q].until # p
  <2>1. Body(f)[p].s \notin Marks
    BY DEF Marks
  <2> QED
    BY <1>1, <2>1, Ending
<1> QED
  BY <1>1, <1>2, <1>3, <1>4, <1>5 DEF Scope

---------------------------------------------------------------------------
(* What is accessed.                                                       *)

(* The least number of a set. *)
LEMMA LeastNumber ==
  ASSUME NEW T \in SUBSET Nat, T # {}
  PROVE  \E x \in T : \A y \in T : x <= y
<1>1. PICK t \in T : TRUE
  OBVIOUS
<1> DEFINE W == {0 .. k : k \in {j \in T : j <= t}}
<1>2. W \subseteq SUBSET (0 .. t) /\ W # {}
  OBVIOUS
<1>3. PICK S \in W : \A R \in W : <<R, S>> \notin StrictSubsetOrdering(0 .. t)
  <2>1. IsWellFoundedOn(StrictSubsetOrdering(0 .. t), SUBSET (0 .. t))
    <3>1. IsFiniteSet(0 .. t)
      BY FS_Interval
    <3> QED
      BY <3>1, FS_FiniteSubsetsOfFinite, FS_StrictSubsetOrderingWellFounded
  <2> HIDE DEF W
  <2> QED
    BY <1>2, <2>1, WFMin
<1>4. PICK x \in T : x <= t /\ S = 0 .. x
  BY <1>3
<1>5. ASSUME NEW y \in T, y < x
      PROVE  FALSE
  <2>1. 0 .. y \in W /\ x \in S /\ x \notin 0 .. y /\ 0 .. y \subseteq S /\ S \subseteq 0 .. t
    BY <1>4, <1>5
  <2> QED
    BY <2>1, <1>3 DEF StrictSubsetOrdering
<1> QED
  BY <1>5

(* The attributes are the names before the first index. *)
LEMMA AttributesFacts ==
  ASSUME NEW rest \in Seq(STRING)
  PROVE  \E n \in 0 .. Len(rest) :
           /\ Attributes(rest) = SubSeq(rest, 1, n)
           /\ \A k \in 1 .. n : rest[k] # Item
           /\ n < Len(rest) => rest[n + 1] = Item
<1> DEFINE stop == {k \in DOMAIN rest : rest[k] = Item}
<1>1. Len(rest) \in Nat /\ DOMAIN rest = 1 .. Len(rest) /\ SubSeq(rest, 1, Len(rest)) = rest
  OBVIOUS
<1>2. CASE stop = {}
  <2>1. Attributes(rest) = rest
    BY <1>2 DEF Attributes
  <2>2. \A k \in 1 .. Len(rest) : rest[k] # Item
    BY <1>1, <1>2
  <2>3. Len(rest) \in 0 .. Len(rest) /\ ~(Len(rest) < Len(rest))
    BY <1>1
  <2> HIDE DEF stop
  <2> QED
    BY <1>1, <2>1, <2>2, <2>3
<1>3. CASE stop # {}
  <2> DEFINE first == CHOOSE k \in stop : \A j \in stop : k <= j
  <2>1. first \in stop /\ \A j \in stop : first <= j
    <3>1. stop \in SUBSET Nat
      BY <1>1
    <3> HIDE DEF stop
    <3> QED
      BY <1>3, <3>1, LeastNumber
  <2>2. Attributes(rest) = SubSeq(rest, 1, first - 1)
    BY <1>3 DEF Attributes
  <2> HIDE DEF first
  <2>3. first - 1 \in 0 .. Len(rest) /\ (first - 1) + 1 = first
    BY <1>1, <2>1
  <2>4. \A k \in 1 .. first - 1 : rest[k] # Item
    BY <1>1, <2>1
  <2> QED
    BY <2>1, <2>2, <2>3, <2>4
<1> QED
  BY <1>2, <1>3

(* A write that overlaps an array covers it: nothing but an element is     *)
(* taken from an array.                                                    *)
LEMMA OverlapCovers ==
  ASSUME NEW over \in Seq(STRING), NEW to \in Seq(STRING), NEW arrays,
         over \in arrays, Typed(arrays, to), Overlap(over, to)
  PROVE  IsPrefix(Attributes(to), Attributes(over))
<1>1. PICK a \in 0 .. Len(over) : /\ Attributes(over) = SubSeq(over, 1, a) /\ \A k \in 1 .. a : over[k] # Item
                                  /\ a < Len(over) => over[a + 1] = Item
  BY AttributesFacts
<1>2. PICK n \in 0 .. Len(to) : /\ Attributes(to) = SubSeq(to, 1, n) /\ \A k \in 1 .. n : to[k] # Item
                                /\ n < Len(to) => to[n + 1] = Item
  BY AttributesFacts
<1>3. ASSUME NEW k \in 1 .. Len(over), k <= Len(to)
      PROVE  over[k] = to[k]
  <2>1. CASE IsPrefix(over, to)
    <3>1. SubSeq(over, 1, Len(over)) = SubSeq(to, 1, Len(over)) /\ Len(over) <= Len(to)
      BY <2>1 DEF IsPrefix
    <3>2. SubSeq(over, 1, Len(over))[k] = over[k] /\ SubSeq(to, 1, Len(over))[k] = to[k]
      BY <3>1
    <3> QED
      BY <3>1, <3>2
  <2>2. CASE IsPrefix(to, over)
    <3>1. SubSeq(to, 1, Len(to)) = SubSeq(over, 1, Len(to)) /\ Len(to) <= Len(over)
      BY <2>2 DEF IsPrefix
    <3>2. SubSeq(to, 1, Len(to))[k] = to[k] /\ SubSeq(over, 1, Len(to))[k] = over[k]
      BY <3>1, <1>3
    <3> QED
      BY <3>1, <3>2
  <2> QED
    BY <2>1, <2>2 DEF Overlap
<1>4. Len(over) < Len(to) => to[Len(over) + 1] = Item
  <2> SUFFICES ASSUME Len(over) < Len(to)
               PROVE  to[Len(over) + 1] = Item
    OBVIOUS
  <2>1. SubSeq(to, 1, Len(over)) = over
    BY <1>3
  <2>2. Len(over) \in 0 .. Len(to) - 1
    OBVIOUS
  <2>3. SubSeq(to, 1, Len(over)) \in arrays
    BY <2>1
  <2> QED
    BY <2>2, <2>3 DEF Typed
<1>5. n <= a
  <2> SUFFICES ASSUME a < n
               PROVE  FALSE
    OBVIOUS
  <2>1. a < Len(over)
    BY <1>2, <1>4
  <2>2. over[a + 1] = Item /\ to[a + 1] = over[a + 1]
    BY <1>1, <1>3, <2>1
  <2> QED
    BY <1>2, <2>2
<1>6. SubSeq(to, 1, n) = SubSeq(over, 1, n)
  BY <1>3, <1>5
<1>7. Len(Attributes(to)) = n /\ Len(Attributes(over)) = a
  BY <1>1, <1>2
<1>8. SubSeq(Attributes(to), 1, n) = SubSeq(to, 1, n) /\ SubSeq(Attributes(over), 1, n) = SubSeq(over, 1, n)
  BY <1>1, <1>2, <1>5
<1> QED
  BY <1>5, <1>6, <1>7, <1>8 DEF IsPrefix

---------------------------------------------------------------------------
(* Names.                                                                  *)

(* What holds of zero and of the next number holds of all numbers up to    *)
(* n. *)
LEMMA UpTo ==
  ASSUME NEW n \in Nat, NEW G, 0 \in G, \A m \in 0 .. n - 1 : m \in G => m + 1 \in G
  PROVE  0 .. n \subseteq G
<1> SUFFICES ASSUME ~(0 .. n \subseteq G)
             PROVE  FALSE
  OBVIOUS
<1> DEFINE Bad == {m \in 0 .. n : m \notin G}
<1>1. PICK m \in Bad : \A y \in Bad : m <= y
  <2>1. Bad \in SUBSET Nat /\ Bad # {}
    OBVIOUS
  <2> HIDE DEF Bad
  <2> QED
    BY <2>1, LeastNumber
<1>2. m # 0 /\ m - 1 \in 0 .. n - 1 /\ (m - 1) + 1 = m
  BY <1>1
<1> QED
  BY <1>1, <1>2

(* The modules along a path are those its names import, one by one. *)
LEMMA AlongFacts ==
  ASSUME NEW m, NEW path \in Seq(STRING)
  PROVE  /\ Along(m, path)[0] = m
         /\ \A k \in 1 .. Len(path) : Along(m, path)[k] = ImportedAs(Along(m, path)[k - 1], path[k])
<1> DEFINE n == Len(path)
<1> DEFINE Value(at, k) == IF k = 0 THEN m ELSE ImportedAs(at[k - 1], path[k])
<1> DEFINE Found(j, g) == g = [k \in 0 .. j |-> Value(g, k)]
<1>1. n \in Nat
  OBVIOUS
<1> DEFINE G == {j \in 0 .. n : \E g : Found(j, g)}
<1>2. 0 \in G
  <2> DEFINE g == [k \in 0 .. 0 |-> m]
  <2>1. \A k \in 0 .. 0 : Value(g, k) = m
    OBVIOUS
  <2>2. [k \in 0 .. 0 |-> Value(g, k)] = g
    BY <2>1
  <2> HIDE DEF g
  <2> QED
    BY <1>1, <2>2
<1>3. ASSUME NEW j \in 0 .. n - 1, j \in G
      PROVE  j + 1 \in G
  <2>1. PICK g : Found(j, g)
    BY <1>3
  <2> DEFINE h == [k \in 0 .. j + 1 |-> IF k \in 0 .. j THEN g[k] ELSE ImportedAs(g[j], path[j + 1])]
  <2>2. ASSUME NEW k \in 0 .. j + 1
        PROVE  h[k] = Value(h, k)
    <3>1. CASE k \in 0 .. j
      <4>1. h[k] = g[k] /\ (k # 0 => k - 1 \in 0 .. j + 1 /\ k - 1 \in 0 .. j /\ h[k - 1] = g[k - 1])
        BY <3>1
      <4>2. g[k] = Value(g, k)
        BY <2>1, <3>1
      <4> HIDE DEF h
      <4> QED
        BY <4>1, <4>2
    <3>2. CASE k = j + 1
      <4>1. h[k] = ImportedAs(g[j], path[j + 1]) /\ h[j] = g[j] /\ k # 0 /\ k - 1 = j
        BY <3>2
      <4> HIDE DEF h
      <4> QED
        BY <3>2, <4>1
    <3> QED
      BY <3>1, <3>2
  <2>3. h = [k \in 0 .. j + 1 |-> h[k]]
    OBVIOUS
  <2>4. Found(j + 1, h)
    <3> HIDE DEF h, Value
    <3> QED
      BY <2>2, <2>3
  <2> HIDE DEF Found, h
  <2> QED
    BY <2>4, <1>1
<1>4. \E g : Found(n, g)
  <2> HIDE DEF G
  <2>1. 0 .. n \subseteq G
    BY <1>1, <1>2, <1>3, UpTo
  <2> QED
    BY <2>1, <1>1 DEF G
<1> DEFINE at == CHOOSE g : Found(n, g)
<1>5. Found(n, at)
  BY <1>4
<1>6. Along(m, path) = at
  BY DEF Along
<1> HIDE DEF at
<1>7. at[0] = m
  BY <1>1, <1>5
<1>8. ASSUME NEW k \in 1 .. n
      PROVE  at[k] = ImportedAs(at[k - 1], path[k])
  BY <1>5
<1> QED
  BY <1>6, <1>7, <1>8

(* A path that begins in a module stays in modules for so many names. *)
LEMMA HopsFacts ==
  ASSUME NEW m, m # NoModule, NEW path \in Seq(STRING)
  PROVE  Hops(m, path) \in 0 .. Len(path) /\ Along(m, path)[Hops(m, path)] # NoModule
<1> DEFINE at == Along(m, path)
<1> DEFINE none == {k \in 1 .. Len(path) : at[k] = NoModule}
<1>1. Len(path) \in Nat /\ at[0] # NoModule
  BY AlongFacts
<1> HIDE DEF at
<1>2. \E n \in 0 .. Len(path) : at[n] # NoModule /\ (n < Len(path) => at[n + 1] = NoModule)
  <2>1. CASE none = {}
    <3>1. at[Len(path)] # NoModule
      BY <2>1, <1>1
    <3> QED
      BY <1>1, <3>1
  <2>2. CASE none # {}
    <3>1. PICK k \in none : \A j \in none : k <= j
      <4>1. none \in SUBSET Nat
        BY <1>1
      <4> HIDE DEF none
      <4> QED
        BY <2>2, <4>1, LeastNumber
    <3>2. k - 1 \in 0 .. Len(path) /\ (k - 1) + 1 = k /\ at[k] = NoModule
      BY <3>1
    <3>3. at[k - 1] # NoModule
      BY <1>1, <3>1, <3>2
    <3> QED
      BY <3>2, <3>3
  <2> QED
    BY <2>1, <2>2
<1> QED
  BY <1>2 DEF Hops, at

(* What is found among the members of a module. *)
LEMMA DeclaredFacts ==
  ASSUME NEW of, Declared(of[1], of[2]) # {}
  PROVE  The(of) \in Declared(of[1], of[2]) /\ The(of).d \in Named /\ The(of).name = of[2]
BY DEF The, Declared, Declarations, Positions

(* What a path means in the members of a module is one of them. *)
LEMMA MemberFacts ==
  ASSUME NEW m, m # NoModule, NEW path \in Seq(STRING)
  PROVE  /\ MemberOf(m, path).kind \in Named \union {"module", "unknown"}
         /\ MemberOf(m, path).kind \in {"variable", "function"} =>
              /\ MemberOf(m, path).of = <<Along(m, path)[Hops(m, path)], path[Hops(m, path) + 1]>>
              /\ MemberOf(m, path).kind = The(MemberOf(m, path).of).d
              /\ Declared(MemberOf(m, path).of[1], MemberOf(m, path).of[2]) # {}
              /\ MemberOf(m, path).rest \in Seq(STRING)
<1> DEFINE n == Hops(m, path)
<1> DEFINE of == <<Along(m, path)[n], path[n + 1]>>
<1> DEFINE chain == [k \in 1 .. n |-> <<Along(m, path)[k - 1], path[k]>>]
<1>1. n \in 0 .. Len(path)
  BY HopsFacts
<1>2. CASE path = <<>>
  BY <1>2 DEF MemberOf, Unknown
<1>3. CASE path # <<>> /\ n = Len(path)
  <2>1. MemberOf(m, path).kind = "module"
    BY <1>3 DEF MemberOf
  <2> QED
    BY <2>1
<1>4. CASE path # <<>> /\ n # Len(path) /\ Declared(of[1], of[2]) = {}
  <2>1. MemberOf(m, path) = Unknown
    BY <1>4 DEF MemberOf
  <2> QED
    BY <2>1 DEF Unknown
<1>5. CASE path # <<>> /\ n # Len(path) /\ Declared(of[1], of[2]) # {}
  <2>1. MemberOf(m, path) = [kind |-> The(of).d, of |-> of, chain |-> chain, rest |-> SubSeq(path, n + 2, Len(path))]
    BY <1>5 DEF MemberOf
  <2>2. SubSeq(path, n + 2, Len(path)) \in Seq(STRING)
    BY <1>1
  <2>3. The(of).d \in Named
    BY <1>5, DeclaredFacts
  <2> HIDE DEF n
  <2> QED
    BY <2>1, <2>2, <2>3, <1>5 DEF n
<1> QED
  BY <1>2, <1>3, <1>4, <1>5

(* What a path in a function means. *)
LEMMA ResolveFacts ==
  ASSUME NEW f, f[1] # NoModule, NEW locals, NEW path, IsPath(path)
  PROVE  /\ IsVariable(Resolve(f, locals, path)) => Resolve(f, locals, path).rest \in Seq(STRING)
         /\ Resolve(f, locals, path).kind = "local" => Resolve(f, locals, path).of = <<f[1], f[2], path[1]>>
         /\ Resolve(f, locals, path).kind = "variable" => Len(Resolve(f, locals, path).of) = 2
<1> DEFINE r == Resolve(f, locals, path)
<1>1. path \in Seq(STRING) /\ path # <<>> /\ Tail(path) \in Seq(STRING)
  BY DEF IsPath
<1>2. r = Unknown \/ r = Local(f, path) \/ r = MemberOf(f[1], path) \/ r = MemberOf(f[1], Tail(path))
  BY DEF Resolve
<1>3. CASE r = Unknown
  BY <1>3 DEF Unknown, IsVariable
<1>4. CASE r = Local(f, path)
  BY <1>1, <1>4 DEF Local, IsVariable
<1>5. ASSUME NEW q \in Seq(STRING), r = MemberOf(f[1], q)
      PROVE  /\ IsVariable(r) => r.rest \in Seq(STRING)
             /\ r.kind = "local" => r.of = <<f[1], f[2], path[1]>>
             /\ r.kind = "variable" => Len(r.of) = 2
  <2>1. r.kind \in Named \union {"module", "unknown"}
    BY <1>5, MemberFacts
  <2>2. r.kind = "variable" => Len(r.of) = 2 /\ r.rest \in Seq(STRING)
    <3>1. r.kind = "variable" => /\ r.of = <<Along(f[1], q)[Hops(f[1], q)], q[Hops(f[1], q) + 1]>>
                                 /\ r.rest \in Seq(STRING)
      <4> HIDE DEF r
      <4> QED
        BY <1>5, MemberFacts
    <3>2. \A a, b : Len(<<a, b>>) = 2
      OBVIOUS
    <3> HIDE DEF r
    <3> QED
      BY <3>1, <3>2, Zenon
  <2> HIDE DEF r
  <2> QED
    BY <2>1, <2>2 DEF Named, IsVariable
<1> QED
  BY <1>1, <1>2, <1>3, <1>4, <1>5

---------------------------------------------------------------------------
(* The functions of a module.                                              *)

(* The mutabilities are in this order. *)
LEMMA RankFacts ==
  Rank("pure") = 1 /\ Rank("view") = 2 /\ Rank("nonpayable") = 3 /\ Rank("payable") = 4
<1> DEFINE names == <<"pure", "view", "nonpayable", "payable">>
<1>1. names[1] = "pure" /\ names[2] = "view" /\ names[3] = "nonpayable" /\ names[4] = "payable"
  OBVIOUS
<1>2. 1 .. 4 = {1, 2, 3, 4}
  OBVIOUS
<1> HIDE DEF names
<1>3. \A k \in 1 .. 4 : /\ (names[k] = "pure") <=> k = 1
                        /\ (names[k] = "view") <=> k = 2
                        /\ (names[k] = "nonpayable") <=> k = 3
                        /\ (names[k] = "payable") <=> k = 4
  BY <1>1, <1>2
<1>4. \A mut : Rank(mut) = CHOOSE k \in 1 .. 4 : names[k] = mut
  BY DEF Rank, names
<1> QED
  BY <1>3, <1>4

(* Every mutability has a rank. *)
LEMMA RankType ==
  ASSUME NEW mutability \in Mutabilities
  PROVE  Rank(mutability) \in 1 .. 4
BY RankFacts DEF Mutabilities

(* Where no two members have one name, a name means the member that has    *)
(* it. *)
LEMMA TheUnique ==
  ASSUME NEW m, MembersSound(m), NEW name, NEW d \in Declared(m, name)
  PROVE  The(<<m, name>>) = d
<1> DEFINE e == The(<<m, name>>)
<1>1. e \in Declared(m, name)
  BY DEF The
<1>2. PICK j \in Positions(m, Named) : d = program[m][j] /\ d.name = name
  BY DEF Declared, Declarations
<1>3. PICK k \in Positions(m, Named) : e = program[m][k] /\ e.name = name
  <2> HIDE DEF e
  <2> QED
    BY <1>1 DEF Declared, Declarations
<1> QED
  BY <1>2, <1>3 DEF MembersSound

(* The functions of a well-formed module are functions. *)
LEMMA FunctionsAre ==
  ASSUME WellFormed(program), NEW m \in DOMAIN program, MembersSound(m), ConstructorSound(m), NEW f \in Functions(m)
  PROVE  IsFunction(f)
<1>1. PICK k \in DOMAIN program[m] : program[m][k].d = "function" /\ f = <<m, program[m][k].name>>
  BY DEF Functions, Declarations, Positions
<1> DEFINE d == program[m][k]
<1>2. f[1] = m /\ f[2] = d.name /\ f = <<f[1], f[2]>>
  BY <1>1
<1>3. d \in Declared(m, d.name)
  BY <1>1 DEF Declared, Declarations, Positions, Named
<1>4. The(f) = d
  BY <1>1, <1>3, TheUnique
<1>5. /\ d.mutability \in Mutabilities /\ d.result \in BOOLEAN
      /\ d.body \in Seq(Range(d.body)) /\ WellNested(d.body) /\ \A j \in DOMAIN d.body : WellTyped(d.body[j])
  BY <1>1 DEF WellFormed
<1>6. IsConstructor(f) => ~ReadsOnly(f)
  <2> SUFFICES ASSUME IsConstructor(f)
               PROVE  ~ReadsOnly(f)
    OBVIOUS
  <2>1. f = <<m, Constructor>>
    BY <1>2 DEF IsConstructor
  <2>2. d.mutability \notin {"pure", "view"}
    BY <1>4, <2>1 DEF ConstructorSound, HasConstructor
  <2> HIDE DEF d
  <2> QED
    BY <1>4, <1>5, <2>2, RankFacts DEF ReadsOnly, Mutabilities
<1> HIDE DEF d
<1> QED
  BY <1>1, <1>2, <1>4, <1>5, <1>6 DEF IsFunction, Body, d

(* Along a path only modules are met that are imported. *)
LEMMA AlongImports ==
  ASSUME NEW S, NoModule \notin S, NEW m, m # NoModule, \A x \in S \union {m} : MembersSound(x) /\ ImportsOf(x) \subseteq S,
         NEW path \in Seq(STRING), NEW k \in 1 .. Len(path)
  PROVE  Along(m, path)[k] \in S \union {NoModule}
<1> DEFINE at == Along(m, path)
<1>1. ASSUME NEW x \in S \union {m, NoModule}, NEW name
      PROVE  ImportedAs(x, name) \in S \union {NoModule}
  <2> SUFFICES ASSUME x # NoModule, NEW d \in Declared(x, name), d.d = "import"
               PROVE  ModuleOf(<<x, name>>) \in S
    BY DEF ImportedAs
  <2>1. The(<<x, name>>) = d
    BY TheUnique
  <2>2. d.of \in ImportsOf(x)
    BY DEF ImportsOf, Declared, Declarations, Positions
  <2> QED
    BY <2>1, <2>2 DEF ModuleOf
<1>2. at[0] = m /\ \A j \in 1 .. Len(path) : at[j] = ImportedAs(at[j - 1], path[j])
  BY AlongFacts
<1> HIDE DEF at
<1> DEFINE G == {j \in 0 .. Len(path) : at[j] \in S \union {m, NoModule}}
<1>3. 0 \in G
  BY <1>2
<1>4. ASSUME NEW j \in 0 .. Len(path) - 1, j \in G
      PROVE  j + 1 \in G
  <2>1. j + 1 \in 1 .. Len(path) /\ (j + 1) - 1 = j
    OBVIOUS
  <2>2. at[j + 1] = ImportedAs(at[j], path[j + 1])
    BY <1>2, <2>1
  <2> QED
    BY <1>1, <1>4, <2>1, <2>2
<1>5. 0 .. Len(path) \subseteq G
  <2> HIDE DEF G
  <2>1. Len(path) \in Nat
    OBVIOUS
  <2> QED
    BY <1>3, <1>4, <2>1, UpTo
<1>6. k - 1 \in 0 .. Len(path)
  OBVIOUS
<1>7. at[k] = ImportedAs(at[k - 1], path[k]) /\ at[k - 1] \in S \union {m, NoModule}
  BY <1>2, <1>5, <1>6
<1> QED
  BY <1>1, <1>7 DEF at

(* What is exported belongs to a module that is imported. *)
LEMMA ExportsAreFunctions ==
  ASSUME NEW S, NoModule \notin S, NEW m \in DOMAIN program, NoModule \notin DOMAIN program, WellFormed(program),
         \A x \in S \union {m} : MembersSound(x) /\ ImportsOf(x) \subseteq S,
         NEW owned, ExportsSound(m, owned), NEW c \in PathsIn(m, "exports"), The(InfoAt(m, c).of).d = "function"
  PROVE  \E x \in S : InfoAt(m, c).of \in Functions(x)
<1> DEFINE path == program[m][c[1]].paths[c[2]]
<1> DEFINE n == Hops(m, path)
<1>1. path \in Seq(STRING)
  BY DEF PathsIn, Positions, WellFormed, IsPath
<1> DEFINE r == MemberOf(m, path)
<1>2. InfoAt(m, c) = r
  BY DEF InfoAt
<1>3. r.kind \in {"function", "variable"} /\ r.of[2] \notin {d.name : d \in Declarations(m, Named)}
  BY <1>2 DEF ExportsSound, IsExposed
<1> HIDE DEF path
<1>4. r.of = <<Along(m, path)[n], path[n + 1]>> /\ Declared(r.of[1], r.of[2]) # {}
  BY <1>1, <1>3, MemberFacts
<1>5. n \in 0 .. Len(path) /\ Along(m, path)[n] # NoModule
  BY <1>1, HopsFacts
<1> HIDE DEF r, n
<1>6. r.of[1] = Along(m, path)[n] /\ r.of = <<r.of[1], r.of[2]>>
  BY <1>4
<1>7. n # 0
  <2> SUFFICES ASSUME n = 0
               PROVE  FALSE
    OBVIOUS
  <2>1. r.of[1] = m
    BY <1>1, <1>6, AlongFacts
  <2> QED
    BY <1>3, <1>4, <2>1 DEF Declared
<1>8. r.of[1] \in S
  <2>1. n \in 1 .. Len(path)
    BY <1>5, <1>7
  <2>2. Along(m, path)[n] \in S \union {NoModule}
    BY <1>1, <2>1, AlongImports
  <2> QED
    BY <1>5, <1>6, <2>2
<1>9. The(r.of) \in Declared(r.of[1], r.of[2]) /\ The(r.of).name = r.of[2]
  BY <1>4, DeclaredFacts
<1>10. The(r.of).d = "function"
  BY <1>2
<1>11. r.of \in Functions(r.of[1])
  BY <1>6, <1>9, <1>10 DEF Functions, Declared, Declarations, Positions
<1> QED
  BY <1>2, <1>8, <1>11

---------------------------------------------------------------------------
(* What the analysis has found to hold of a function, in terms of the      *)
(* functions it calls: F has the facts about them.                         *)

AccessOk(f, bound, r) ==
  /\ IsVariable(r) /\ Typed(ArraysIn(f, bound, r), r.rest)
  /\ The(f).mutability = "pure" => ~IsStateAccess(VariableAccess(r))
WriteOk(f, bound, writes, r) ==
  /\ AccessOk(f, bound, r)
  /\ IsStateAccess(VariableAccess(r)) => ~ReadsOnly(f)
  /\ r.kind = "variable" => IsStateAccess(VariableAccess(r))
  /\ LoopsUntouched(f, bound, {VariableAccess(r)})
  /\ VariableAccess(r) \in writes
CallOk(F, f, bound, writes, g) ==
  /\ May(f, The(g).mutability)
  /\ StateOf(F[g].writes) \subseteq writes
  /\ LoopsUntouched(f, bound, StateOf(F[g].writes))
PartOk(F, f, bound, writes, x) ==
  /\ x.s = "read" => AccessOk(f, bound, LookUp(f, bound, x.to))
  /\ x.s = "pop" => WriteOk(f, bound, writes, LookUp(f, bound, x.to))
  /\ x.s = "call" => IsCallOfInternal(CalleeOf(f, x)) /\ CallOk(F, f, bound, writes, CalleeOf(f, x).of)
  /\ x.s = "outside" => May(f, x.mutability)
StatementOk(f, bound, writes, x) ==
  /\ x.s = "for" /\ x.over # <<>> => LET r == LookUp(f, bound, x.over) IN AccessOk(f, bound, r) /\ r.rest \in ArraysIn(f, bound, r)
  /\ x.s \in {"assign", "append"} => WriteOk(f, bound, writes, LookUp(f, bound, x.to))
  /\ x.s = "log" => ~ReadsOnly(f)
  /\ x.s \in Jumps => x.until # 0
LineOk(F, f, writes, k) ==
  /\ \A i \in DOMAIN Body(f)[k].value : PartOk(F, f, Scope(f, k), writes, Body(f)[k].value[i])
  /\ StatementOk(f, Scope(f, k), writes, Body(f)[k])
(* Every line before which a block has ended is one for a reason. *)
EndedOk(f, ended) == \A k \in ended : k - 1 \in DOMAIN Body(f) /\ k \in Nat /\ Ends(Body(f)[k - 1], k - 1, ended)
FactsOk(F, f) ==
  /\ CalledFunctions(f) \subseteq DOMAIN F
  /\ \A k \in DOMAIN Body(f) : LineOk(F, f, F[f].writes, k)
  /\ \E ended : EndedOk(f, ended) /\ (The(f).result => Len(Body(f)) + 1 \in ended)

(* All of this is about the program alone. *)
LEMMA DeclarationsKeep ==
  ASSUME program' = program
  PROVE  /\ \A m, kinds : Positions(m, kinds)' = Positions(m, kinds)
         /\ \A m, kinds : Declarations(m, kinds)' = Declarations(m, kinds)
         /\ \A m, name : Declared(m, name)' = Declared(m, name)
         /\ \A of : The(of)' = The(of)
<1>1. \A m, kinds : Positions(m, kinds)' = Positions(m, kinds)
  BY DEF Positions
<1>2. \A m, kinds : Declarations(m, kinds)' = Declarations(m, kinds)
  BY <1>1 DEF Declarations
<1>3. \A m, name : Declared(m, name)' = Declared(m, name)
  BY <1>2 DEF Declared
<1>4. \A of : The(of)' = The(of)
  BY <1>3 DEF The
<1> QED
  BY <1>1, <1>2, <1>3, <1>4

(* Bodies, scopes and decorators depend on the program alone ... *)
LEMMA FunctionsKeep ==
  ASSUME program' = program
  PROVE  /\ \A f : Body(f)' = Body(f) /\ ReadsOnly(f)' = ReadsOnly(f) /\ IsFunction(f)' = IsFunction(f)
         /\ \A m : Functions(m)' = Functions(m) /\ ImportsOf(m)' = ImportsOf(m)
         /\ \A m : MembersSound(m)' = MembersSound(m) /\ ConstructorSound(m)' = ConstructorSound(m)
         /\ \A f, k : Scope(f, k)' = Scope(f, k)
         /\ \A f, mutability : May(f, mutability)' = May(f, mutability)
         /\ \A v : IsStateAccess(v)' = IsStateAccess(v)
         /\ \A S : StateOf(S)' = StateOf(S)
<1>1. \A f : Body(f)' = Body(f) /\ ReadsOnly(f)' = ReadsOnly(f)
  BY DeclarationsKeep DEF Body, ReadsOnly
<1>2. \A f : IsFunction(f)' = IsFunction(f)
  BY <1>1, DeclarationsKeep DEF IsFunction
<1>3. \A m : Functions(m)' = Functions(m) /\ ImportsOf(m)' = ImportsOf(m)
  BY DeclarationsKeep DEF Functions, ImportsOf
<1>4. \A m : MembersSound(m)' = MembersSound(m)
  BY DeclarationsKeep DEF MembersSound
<1>5. \A m : ConstructorSound(m)' = ConstructorSound(m)
  BY <1>3, DeclarationsKeep DEF ConstructorSound, HasConstructor
<1>6. \A f, k : Scope(f, k)' = Scope(f, k)
  BY <1>1 DEF Scope
<1>7. \A f, mutability : May(f, mutability)' = May(f, mutability)
  BY DeclarationsKeep DEF May
<1>8. \A v : IsStateAccess(v)' = IsStateAccess(v)
  BY DeclarationsKeep DEF IsStateAccess
<1>9. \A S : StateOf(S)' = StateOf(S)
  BY <1>8 DEF StateOf
<1> QED
  BY <1>1, <1>2, <1>3, <1>4, <1>5, <1>6, <1>7, <1>8, <1>9

(* ... and so do the meaning of paths and the functions that are called    *)
(* ... *)
LEMMA NamesKeep ==
  ASSUME program' = program
  PROVE  /\ \A f, locals, path : Resolve(f, locals, path)' = Resolve(f, locals, path)
         /\ \A f, bound, path : LookUp(f, bound, path)' = LookUp(f, bound, path)
         /\ \A f, bound, r : ArraysIn(f, bound, r)' = ArraysIn(f, bound, r)
         /\ \A f, x : CalleeOf(f, x)' = CalleeOf(f, x)
         /\ \A r : IsCallOfInternal(r)' = IsCallOfInternal(r)
         /\ \A f : CalledFunctions(f)' = CalledFunctions(f)
         /\ \A m, path : MemberOf(m, path)' = MemberOf(m, path)
         /\ \A f, c : PartAt(f, c)' = PartAt(f, c)
         /\ \A f : CallsOf(f)' = CallsOf(f)
<1>1. \A m, name : ImportedAs(m, name)' = ImportedAs(m, name)
  BY DeclarationsKeep DEF ImportedAs, ModuleOf
<1>2. \A m, path : Along(m, path)' = Along(m, path)
  BY <1>1 DEF Along
<1>3. \A m, path : Hops(m, path)' = Hops(m, path)
  BY <1>2 DEF Hops
<1>4. \A m, path : MemberOf(m, path)' = MemberOf(m, path)
  <2> SUFFICES ASSUME NEW m, NEW path
               PROVE  MemberOf(m, path)' = MemberOf(m, path)
    OBVIOUS
  <2> DEFINE at == Along(m, path)
  <2> DEFINE n == Hops(m, path)
  <2>1. at' = at /\ n' = n
    BY <1>2, <1>3
  <2> DEFINE chain == [k \in 1 .. n |-> <<at[k - 1], path[k]>>]
  <2> DEFINE of == <<at[n], path[n + 1]>>
  <2>2. chain' = chain /\ of' = of
    BY <2>1
  <2>3. MemberOf(m, path) =
          IF path = <<>> THEN Unknown
          ELSE IF n = Len(path) THEN [kind |-> "module", of |-> chain[n], chain |-> chain, rest |-> <<>>]
          ELSE IF Declared(of[1], of[2]) = {} THEN Unknown
          ELSE [kind |-> The(of).d, of |-> of, chain |-> chain, rest |-> SubSeq(path, n + 2, Len(path))]
    BY DEF MemberOf
  <2>4. MemberOf(m, path)' =
          IF path = <<>> THEN Unknown
          ELSE IF n' = Len(path) THEN [kind |-> "module", of |-> chain'[n'], chain |-> chain', rest |-> <<>>]
          ELSE IF Declared(of[1], of[2])' = {} THEN Unknown
          ELSE [kind |-> The(of)'.d, of |-> of', chain |-> chain', rest |-> SubSeq(path, n' + 2, Len(path))]
    BY DEF MemberOf
  <2>5. Declared(of[1], of[2])' = Declared(of[1], of[2]) /\ The(of)' = The(of)
    <3> HIDE DEF of
    <3> QED
      BY <2>2, DeclarationsKeep
  <2> HIDE DEF at, n, chain, of
  <2> QED
    BY <2>1, <2>2, <2>3, <2>4, <2>5
<1>5. \A f, locals, path : Resolve(f, locals, path)' = Resolve(f, locals, path)
  BY <1>4, DeclarationsKeep DEF Resolve
<1>6. \A f : Params(f)' = Params(f)
  BY DeclarationsKeep DEF Params
<1>7. \A f, bound : NamesIn(f, bound)' = NamesIn(f, bound)
  BY <1>6, FunctionsKeep DEF NamesIn
<1>8. \A f, bound, path : LookUp(f, bound, path)' = LookUp(f, bound, path)
  BY <1>5, <1>7 DEF LookUp
<1>9. \A f, bound, r : Binding(f, bound, r)' = Binding(f, bound, r)
  BY <1>6, FunctionsKeep DEF Binding
<1>10. \A f, bound, r : ArraysIn(f, bound, r)' = ArraysIn(f, bound, r)
  BY <1>9, DeclarationsKeep DEF ArraysIn
<1>11. \A f, x : CalleeOf(f, x)' = CalleeOf(f, x)
  BY <1>5 DEF CalleeOf
<1>12. \A r : IsCallOfInternal(r)' = IsCallOfInternal(r)
  BY DeclarationsKeep DEF IsCallOfInternal, IsInternal
<1>13. \A f : Parts(f)' = Parts(f)
  BY FunctionsKeep DEF Parts
<1>14. \A f, c : PartAt(f, c)' = PartAt(f, c)
  BY FunctionsKeep DEF PartAt
<1>15. \A f : CallsOf(f)' = CallsOf(f)
  BY <1>13, <1>14 DEF CallsOf
<1>16. \A f : CalledFunctions(f)' = CalledFunctions(f)
  BY <1>11, <1>12, <1>14, <1>15 DEF CalledFunctions
<1> QED
  BY <1>4, <1>5, <1>8, <1>10, <1>11, <1>12, <1>14, <1>15, <1>16

(* ... and what has been found out about lines. *)
LEMMA LinesKeep ==
  ASSUME program' = program
  PROVE  /\ \A f, bound, writes : LoopsUntouched(f, bound, writes)' = LoopsUntouched(f, bound, writes)
         /\ \A f, bound, p : Iterated(f, bound, p)' = Iterated(f, bound, p)
         /\ \A f, bound, r : AccessOk(f, bound, r)' = AccessOk(f, bound, r)
         /\ \A f, bound, writes, r : WriteOk(f, bound, writes, r)' = WriteOk(f, bound, writes, r)
         /\ \A F, f, bound, writes, x : PartOk(F, f, bound, writes, x)' = PartOk(F, f, bound, writes, x)
         /\ \A f, bound, writes, x : StatementOk(f, bound, writes, x)' = StatementOk(f, bound, writes, x)
         /\ \A F, f, writes, k : LineOk(F, f, writes, k)' = LineOk(F, f, writes, k)
         /\ \A f, ended : EndedOk(f, ended)' = EndedOk(f, ended)
         /\ \A F, f : FactsOk(F, f)' = FactsOk(F, f)
<1>1. \A f, bound : Loops(f, bound)' = Loops(f, bound)
  BY FunctionsKeep DEF Loops
<1>2. \A f, bound, p : Iterated(f, bound, p)' = Iterated(f, bound, p)
  BY FunctionsKeep, NamesKeep DEF Iterated
<1>3. \A f, bound, writes : LoopsUntouched(f, bound, writes)' = LoopsUntouched(f, bound, writes)
  BY <1>1, <1>2 DEF LoopsUntouched
<1>4. \A f, bound, r : AccessOk(f, bound, r)' = AccessOk(f, bound, r)
  BY DeclarationsKeep, FunctionsKeep, NamesKeep DEF AccessOk
<1>5. \A f, bound, writes, r : WriteOk(f, bound, writes, r)' = WriteOk(f, bound, writes, r)
  BY <1>3, <1>4, FunctionsKeep DEF WriteOk
<1>6. \A F, f, bound, writes, g : CallOk(F, f, bound, writes, g)' = CallOk(F, f, bound, writes, g)
  BY <1>3, DeclarationsKeep, FunctionsKeep DEF CallOk
<1>7. \A F, f, bound, writes, x : PartOk(F, f, bound, writes, x)' = PartOk(F, f, bound, writes, x)
  BY <1>4, <1>5, <1>6, FunctionsKeep, NamesKeep DEF PartOk
<1>8. \A f, bound, writes, x : StatementOk(f, bound, writes, x)' = StatementOk(f, bound, writes, x)
  BY <1>4, <1>5, FunctionsKeep, NamesKeep DEF StatementOk
<1>9. \A F, f, writes, k : LineOk(F, f, writes, k)' = LineOk(F, f, writes, k)
  BY <1>7, <1>8, FunctionsKeep DEF LineOk
<1>10. \A f, ended : EndedOk(f, ended)' = EndedOk(f, ended)
  BY FunctionsKeep DEF EndedOk
<1>11. \A F, f : FactsOk(F, f)' = FactsOk(F, f)
  BY <1>9, <1>10, DeclarationsKeep, FunctionsKeep, NamesKeep DEF FactsOk
<1> QED
  BY <1>2, <1>3, <1>4, <1>5, <1>7, <1>8, <1>9, <1>10, <1>11

(* What is known of a line stays true when more is known. *)
LEMMA CalleeCalled ==
  ASSUME NEW f, NEW k \in DOMAIN Body(f), NEW i \in DOMAIN Body(f)[k].value, Body(f)[k].value[i].s = "call",
         IsCallOfInternal(CalleeOf(f, Body(f)[k].value[i]))
  PROVE  CalleeOf(f, Body(f)[k].value[i]).of \in CalledFunctions(f)
<1> DEFINE c == <<k, i>>
<1>1. c \in Parts(f)
  BY DEF Parts
<1>2. PartAt(f, c) = Body(f)[k].value[i]
  BY DEF PartAt
<1> HIDE DEF c
<1>3. c \in CallsOf(f)
  BY <1>1, <1>2 DEF CallsOf
<1> QED
  BY <1>2, <1>3 DEF CalledFunctions

(* A write stays allowed when more is known to be written, ... *)
LEMMA WriteMonotone ==
  ASSUME NEW f, NEW bound, NEW writes, NEW more, writes \subseteq more, NEW r, WriteOk(f, bound, writes, r)
  PROVE  WriteOk(f, bound, more, r)
BY DEF WriteOk

(* ... a part does, ... *)
LEMMA PartMonotone ==
  ASSUME NEW F, NEW G, NEW f, NEW bound, NEW writes, NEW more, writes \subseteq more,
         NEW x, PartOk(F, f, bound, writes, x),
         x.s = "call" => G[CalleeOf(f, x).of] = F[CalleeOf(f, x).of]
  PROVE  PartOk(G, f, bound, more, x)
<1>1. x.s = "pop" => WriteOk(f, bound, more, LookUp(f, bound, x.to))
  BY WriteMonotone DEF PartOk
<1>2. x.s = "call" => CallOk(G, f, bound, more, CalleeOf(f, x).of)
  BY DEF PartOk, CallOk
<1> QED
  BY <1>1, <1>2 DEF PartOk

(* ... and a line does, whatever is found out about functions it does      *)
(* not call. *)
LEMMA LineMonotone ==
  ASSUME NEW F, NEW G, NEW f, NEW writes, NEW more, writes \subseteq more,
         \A g \in CalledFunctions(f) : G[g] = F[g],
         NEW k \in DOMAIN Body(f), LineOk(F, f, writes, k)
  PROVE  LineOk(G, f, more, k)
<1>1. ASSUME NEW i \in DOMAIN Body(f)[k].value
      PROVE  PartOk(G, f, Scope(f, k), more, Body(f)[k].value[i])
  <2> DEFINE x == Body(f)[k].value[i]
  <2>1. PartOk(F, f, Scope(f, k), writes, x)
    BY DEF LineOk
  <2>2. x.s = "call" => G[CalleeOf(f, x).of] = F[CalleeOf(f, x).of]
    BY <2>1, CalleeCalled DEF PartOk
  <2> HIDE DEF x
  <2>3. PartOk(G, f, Scope(f, k), more, x)
    BY <2>1, <2>2, PartMonotone
  <2> QED
    BY <2>3 DEF x
<1>2. StatementOk(f, Scope(f, k), more, Body(f)[k])
  BY WriteMonotone DEF LineOk, StatementOk
<1> QED
  BY <1>1, <1>2 DEF LineOk

(* What the checks see to. *)
LEMMA AccessAllowedOk ==
  ASSUME NEW f, NEW bound, NEW r, NEW writes, AccessAllowed(f, bound, r, writes)
  PROVE  AccessOk(f, bound, r) /\ LoopsUntouched(f, bound, writes)
BY DEF AccessAllowed, AccessOk

(* The write that the analysis lets pass is one that keeps to the          *)
(* decorator and the loops. *)
LEMMA WriteAllowedOk ==
  ASSUME NEW f, IsFunction(f), f[1] # NoModule, NEW bound, NEW path, IsPath(path), NEW writes,
         WriteAllowed(f, bound, LookUp(f, bound, path)), VariableAccess(LookUp(f, bound, path)) \in writes
  PROVE  WriteOk(f, bound, writes, LookUp(f, bound, path))
<1> DEFINE r == LookUp(f, bound, path)
<1>1. /\ r.kind = "local" => r.of = <<f[1], f[2], path[1]>>
      /\ r.kind = "variable" => Len(r.of) = 2
  BY ResolveFacts DEF LookUp
<1>2. ModificationAllowed(f, bound, r) /\ AccessAllowed(f, bound, r, {VariableAccess(r)})
  BY DEF WriteAllowed
<1> HIDE DEF r
<1>3. AccessOk(f, bound, r) /\ LoopsUntouched(f, bound, {VariableAccess(r)})
  BY <1>2, AccessAllowedOk
<1>4. VariableAccess(r).of = r.of
  BY DEF VariableAccess
<1>5. r.kind = "variable" => IsStateAccess(VariableAccess(r))
  BY <1>1, <1>2, <1>4 DEF ModificationAllowed, IsStateAccess
<1>6. ASSUME IsStateAccess(VariableAccess(r))
      PROVE  ~ReadsOnly(f)
  <2>1. r.kind = "variable"
    <3>1. \A a, b, c : Len(<<a, b, c>>) = 3
      OBVIOUS
    <3>2. r.kind # "local"
      BY <1>1, <1>4, <1>6, <3>1 DEF IsStateAccess
    <3> QED
      BY <1>2, <3>2 DEF ModificationAllowed, IsVariable
  <2>2. Location(f, bound, r) \in {"storage", "transient", "code"}
    BY <1>4, <1>6, <2>1 DEF Location, IsStateAccess, IsState
  <2>3. CASE Location(f, bound, r) = "code"
    BY <1>2, <2>3 DEF ModificationAllowed, IsFunction
  <2>4. CASE Location(f, bound, r) # "code"
    BY <1>2, <2>2, <2>4 DEF ModificationAllowed
  <2> QED
    BY <2>3, <2>4
<1>7. VariableAccess(r) \in writes
  BY DEF r
<1> QED
  BY <1>3, <1>5, <1>6, <1>7 DEF WriteOk, r

(* So is the part of an expression that it lets pass ... *)
LEMMA PartAllowedOk ==
  ASSUME NEW f, IsFunction(f), f[1] # NoModule, NEW bound, NEW x, x.s # "outside" => IsPath(x.to),
         PartAllowed(f, bound, x), NEW writes,
         x.s = "pop" => VariableAccess(LookUp(f, bound, x.to)) \in writes,
         x.s = "call" => StateOf(facts[CalleeOf(f, x).of].writes) \subseteq writes
  PROVE  PartOk(facts, f, bound, writes, x)
<1>1. x.s = "read" => AccessOk(f, bound, LookUp(f, bound, x.to))
  BY AccessAllowedOk DEF PartAllowed, ReadAllowed
<1>2. x.s = "pop" => WriteOk(f, bound, writes, LookUp(f, bound, x.to))
  BY WriteAllowedOk DEF PartAllowed
<1>3. x.s = "call" => IsCallOfInternal(CalleeOf(f, x)) /\ CallOk(facts, f, bound, writes, CalleeOf(f, x).of)
  BY DEF PartAllowed, CallAllowed, CallOk
<1>4. x.s = "outside" => May(f, x.mutability)
  BY DEF PartAllowed
<1> QED
  BY <1>1, <1>2, <1>3, <1>4 DEF PartOk

(* ... and the statement. *)
LEMMA StatementAllowedOk ==
  ASSUME NEW f, IsFunction(f), f[1] # NoModule, NEW bound, NEW x, WellTyped(x), StatementAllowed(f, bound, x), NEW writes,
         x.s \in {"assign", "append"} => VariableAccess(LookUp(f, bound, x.to)) \in writes
  PROVE  StatementOk(f, bound, writes, x)
<1>1. x.s = "for" /\ x.over # <<>> => LET r == LookUp(f, bound, x.over) IN AccessOk(f, bound, r) /\ r.rest \in ArraysIn(f, bound, r)
  BY AccessAllowedOk DEF StatementAllowed, ReadAllowed
<1>2. x.s \in {"assign", "append"} => WriteOk(f, bound, writes, LookUp(f, bound, x.to))
  BY WriteAllowedOk DEF StatementAllowed, WellTyped
<1>3. (x.s = "log" => ~ReadsOnly(f)) /\ (x.s \in Jumps => x.until # 0)
  BY DEF StatementAllowed, Jumps
<1> QED
  BY <1>1, <1>2, <1>3 DEF StatementOk

---------------------------------------------------------------------------
(* The analysis.                                                           *)

(* The modules whose analysis has begun. *)
Started == done \union (IF stage = "functions" THEN {module} ELSE {})
VisitSound(F, v) ==
  /\ IsFunction(v.f) /\ v.f \notin DOMAIN F /\ CalledFunctions(v.f) \subseteq DOMAIN F
  /\ v.line \in 1 .. Len(Body(v.f)) + 1 /\ v.bound = Scope(v.f, v.line)
  /\ EndedOk(v.f, v.ended)
  /\ \A k \in 1 .. v.line - 1 : LineOk(F, v.f, v.writes, k)
  /\ v.part \in Nat
  /\ v.line \in DOMAIN Body(v.f) =>
       \A i \in 1 .. v.part : PartOk(F, v.f, v.bound, v.writes, Body(v.f)[v.line].value[i])
VisitOk ==
  visit.f # <<>> => stage = "functions" /\ visit.f \in Functions(module) /\ VisitSound(facts, visit)
AnalysisOk ==
  /\ DOMAIN visit = {"f", "line", "part", "bound", "ended", "reads", "writes", "used"}
  /\ Started \subseteq DOMAIN program
  /\ \A m \in Started : MembersSound(m) /\ ConstructorSound(m) /\ ImportsOf(m) \subseteq done
  /\ \A m \in done : Functions(m) \subseteq DOMAIN facts
  /\ \A f \in DOMAIN facts : IsFunction(f) /\ FactsOk(facts, f)
  /\ \A e \in exported : The(e.of).d = "function" => e.of \in DOMAIN facts
  /\ stage = "analysed" => Main \in done
  /\ VisitOk

(* What has been found out stays so while nothing but the visit goes on. *)
LEMMA AnalysisKeeps ==
  ASSUME AnalysisOk, UNCHANGED <<program, stage, module, done, exported, facts>>,
         DOMAIN visit' = DOMAIN visit, VisitOk'
  PROVE  AnalysisOk'
<1>1. Started' = Started
  BY DEF Started
<1>2. \A m \in Started : (MembersSound(m) /\ ConstructorSound(m) /\ ImportsOf(m) \subseteq done)'
  BY FunctionsKeep DEF AnalysisOk
<1>3. \A m \in done : (Functions(m) \subseteq DOMAIN facts)'
  BY FunctionsKeep DEF AnalysisOk
<1>4. \A f \in DOMAIN facts : (IsFunction(f) /\ FactsOk(facts, f))'
  BY FunctionsKeep, LinesKeep DEF AnalysisOk
<1>5. \A e \in exported : (The(e.of).d = "function" => e.of \in DOMAIN facts)'
  BY DeclarationsKeep DEF AnalysisOk
<1> QED
  BY <1>1, <1>2, <1>3, <1>4, <1>5 DEF AnalysisOk

(* What a visit has found out depends on the program alone. *)
LEMMA VisitKeeps ==
  ASSUME program' = program
  PROVE  \A F, v : VisitSound(F, v)' = VisitSound(F, v)
BY FunctionsKeep, NamesKeep, LinesKeep DEF VisitSound

(* To resolve imports finds nothing out about functions. *)
LEMMA ResolveImportsOk ==
  ASSUME AnalysisOk, ResolveImports
  PROVE  AnalysisOk'
<1>1. /\ UNCHANGED <<program, module, done, exported, facts, visit>>
      /\ stage = "imports" /\ stage' = "modules"
  BY DEF ResolveImports, At, known
<1>2. Started' = Started /\ Started = done
  BY <1>1 DEF Started
<1>3. \A m \in Started : (MembersSound(m) /\ ConstructorSound(m) /\ ImportsOf(m) \subseteq done)'
  BY <1>1, FunctionsKeep DEF AnalysisOk
<1>4. \A m \in done : (Functions(m) \subseteq DOMAIN facts)'
  BY <1>1, FunctionsKeep DEF AnalysisOk
<1>5. \A f \in DOMAIN facts : (IsFunction(f) /\ FactsOk(facts, f))'
  BY <1>1, FunctionsKeep, LinesKeep DEF AnalysisOk
<1>6. \A e \in exported : (The(e.of).d = "function" => e.of \in DOMAIN facts)'
  BY <1>1, DeclarationsKeep DEF AnalysisOk
<1>7. visit.f = <<>>
  BY <1>1 DEF AnalysisOk, VisitOk
<1>8. VisitOk'
  BY <1>1, <1>7 DEF VisitOk
<1> QED
  BY <1>1, <1>2, <1>3, <1>4, <1>5, <1>6, <1>8 DEF AnalysisOk

(* A module that is begun has members of different names, and exports      *)
(* functions of modules that are done. *)
LEMMA BeginModuleOk ==
  ASSUME AnalysisOk, WellFormed(program), NEW m \in Modules, BeginModule(m), ~rejected'
  PROVE  AnalysisOk'
<1>1. /\ UNCHANGED <<program, done, facts, visit>>
      /\ stage = "modules" /\ stage' = "functions" /\ module' = m
      /\ ImportsOf(m) \subseteq done
  BY DEF BeginModule, At
<1>2. /\ MembersSound(m) /\ ConstructorSound(m) /\ ExportsSound(m, OwnershipAfter(m, WithImports(m)))
      /\ exported' = exported \union {ExportOf(m, InfoAt(m, c)) : c \in PathsIn(m, "exports")}
  BY DEF BeginModule
<1>3. Started = done /\ Started' = done \union {m}
  BY <1>1 DEF Started
<1>4. m \in DOMAIN program
  BY DEF Modules
<1>5. \A x \in done \union {m} : MembersSound(x) /\ ConstructorSound(x) /\ ImportsOf(x) \subseteq done
  BY <1>1, <1>2, <1>3 DEF AnalysisOk
<1>6. \A x \in done \union {m} : (MembersSound(x) /\ ConstructorSound(x) /\ ImportsOf(x) \subseteq done)'
  BY <1>1, <1>5, FunctionsKeep
<1>7. \A x \in done : (Functions(x) \subseteq DOMAIN facts)'
  BY <1>1, FunctionsKeep DEF AnalysisOk
<1>8. \A f \in DOMAIN facts : (IsFunction(f) /\ FactsOk(facts, f))'
  BY <1>1, FunctionsKeep, LinesKeep DEF AnalysisOk
<1>9. ASSUME NEW e \in exported', The(e.of).d = "function"
      PROVE  e.of \in DOMAIN facts
  <2>1. CASE e \in exported
    BY <1>9, <2>1 DEF AnalysisOk
  <2>2. CASE e \notin exported
    <3>1. PICK c \in PathsIn(m, "exports") : e = ExportOf(m, InfoAt(m, c))
      BY <1>2, <1>9, <2>2
    <3>2. e.of = InfoAt(m, c).of
      BY <3>1 DEF ExportOf
    <3>3. NoModule \notin done /\ NoModule \notin DOMAIN program
      BY <1>3 DEF AnalysisOk, WellFormed
    <3>4. \E x \in done : InfoAt(m, c).of \in Functions(x)
      BY <1>2, <1>4, <1>5, <1>9, <3>2, <3>3, ExportsAreFunctions
    <3> QED
      BY <3>2, <3>4 DEF AnalysisOk
  <2> QED
    BY <2>1, <2>2
<1>10. \A e \in exported' : (The(e.of).d = "function" => e.of \in DOMAIN facts)'
  BY <1>1, <1>9, DeclarationsKeep
<1>11. visit.f = <<>>
  BY <1>1 DEF AnalysisOk, VisitOk
<1>12. VisitOk'
  BY <1>1, <1>11 DEF VisitOk
<1> QED
  BY <1>1, <1>3, <1>4, <1>6, <1>7, <1>8, <1>10, <1>12 DEF AnalysisOk

(* A module is finished when each of its functions has facts. *)
LEMMA FinishModuleOk ==
  ASSUME AnalysisOk, FinishModule
  PROVE  AnalysisOk'
<1>1. /\ UNCHANGED <<program, module, exported, facts, visit>>
      /\ stage = "functions" /\ stage' = "modules" /\ done' = done \union {module}
      /\ visit = Idle /\ Functions(module) \subseteq DOMAIN facts
  BY DEF FinishModule, At
<1>2. Started = done \union {module} /\ Started' = Started
  BY <1>1 DEF Started
<1>3. \A m \in Started : (MembersSound(m) /\ ConstructorSound(m) /\ ImportsOf(m) \subseteq done)'
  BY <1>1, FunctionsKeep DEF AnalysisOk
<1>4. \A m \in Started : (Functions(m) \subseteq DOMAIN facts)'
  BY <1>1, <1>2, FunctionsKeep DEF AnalysisOk
<1>5. \A f \in DOMAIN facts : (IsFunction(f) /\ FactsOk(facts, f))'
  BY <1>1, FunctionsKeep, LinesKeep DEF AnalysisOk
<1>6. \A e \in exported : (The(e.of).d = "function" => e.of \in DOMAIN facts)'
  BY <1>1, DeclarationsKeep DEF AnalysisOk
<1>7. VisitOk'
  BY <1>1 DEF VisitOk, Idle
<1> QED
  BY <1>1, <1>2, <1>3, <1>4, <1>5, <1>6, <1>7 DEF AnalysisOk

(* The target is validated when it is done. *)
LEMMA ValidateTargetOk ==
  ASSUME AnalysisOk, ValidateTarget
  PROVE  AnalysisOk'
<1>1. /\ UNCHANGED <<program, module, done, exported, facts, visit>>
      /\ stage = "modules" /\ stage' = "analysed" /\ Main \in done
  BY DEF ValidateTarget, At, known
<1>2. Started' = Started
  BY <1>1 DEF Started
<1>3. \A m \in Started : (MembersSound(m) /\ ConstructorSound(m) /\ ImportsOf(m) \subseteq done)'
  BY <1>1, FunctionsKeep DEF AnalysisOk
<1>4. \A m \in done : (Functions(m) \subseteq DOMAIN facts)'
  BY <1>1, FunctionsKeep DEF AnalysisOk
<1>5. \A f \in DOMAIN facts : (IsFunction(f) /\ FactsOk(facts, f))'
  BY <1>1, FunctionsKeep, LinesKeep DEF AnalysisOk
<1>6. \A e \in exported : (The(e.of).d = "function" => e.of \in DOMAIN facts)'
  BY <1>1, DeclarationsKeep DEF AnalysisOk
<1>7. visit.f = <<>>
  BY <1>1 DEF AnalysisOk, VisitOk
<1>8. VisitOk'
  BY <1>1, <1>7 DEF VisitOk
<1> QED
  BY <1>1, <1>2, <1>3, <1>4, <1>5, <1>6, <1>8 DEF AnalysisOk

(* A visit begins at the first line, with no name bound but those of       *)
(* parameters. *)
LEMMA StartBodyOk ==
  ASSUME AnalysisOk, WellFormed(program), stage = "functions", NEW f \in Functions(module), StartBody(f)
  PROVE  AnalysisOk'
<1>1. /\ UNCHANGED <<program, stage, module, done, exported, facts>>
      /\ f \notin DOMAIN facts /\ CalledFunctions(f) \subseteq DOMAIN facts
      /\ visit' = [Idle EXCEPT !.f = f, !.line = 1]
  BY DEF StartBody, known
<1>2. module \in DOMAIN program /\ MembersSound(module) /\ ConstructorSound(module)
  BY DEF AnalysisOk, Started
<1>3. IsFunction(f)
  BY <1>2, FunctionsAre
<1> DEFINE v == [f |-> f, line |-> 1, part |-> 0, bound |-> {}, ended |-> {}, reads |-> {}, writes |-> {}, used |-> {}]
<1>4. visit' = v
  BY <1>1 DEF Idle
<1>5. Scope(f, 1) = {}
  BY <1>3, BodyLines DEF Scope
<1>6. Len(Body(f)) \in Nat
  BY <1>3, BodyLines
<1>7. VisitSound(facts, v)
  BY <1>1, <1>3, <1>5, <1>6 DEF VisitSound, EndedOk
<1>8. DOMAIN v = {"f", "line", "part", "bound", "ended", "reads", "writes", "used"} /\ v.f = f
  OBVIOUS
<1> HIDE DEF v
<1>9. VisitSound(facts, v)'
  BY <1>1, <1>7, VisitKeeps
<1>10. VisitOk'
  BY <1>1, <1>4, <1>8, <1>9, FunctionsKeep DEF VisitOk
<1> QED
  BY <1>1, <1>4, <1>8, <1>10, AnalysisKeeps DEF AnalysisOk

(* A part that is visited is as it has to be, and its writes are noted. *)
LEMMA VisitPartOk ==
  ASSUME AnalysisOk, WellFormed(program), VisitPart, ~rejected'
  PROVE  AnalysisOk'
<1> DEFINE f == visit.f
<1> DEFINE k == visit.line
<1> DEFINE x == Body(f)[k].value[visit.part + 1]
<1> DEFINE more == visit.writes \union PartWrites
<1>1. /\ UNCHANGED <<program, stage, module, done, exported, facts>>
      /\ f # <<>> /\ k \in DOMAIN Body(f) /\ visit.part < Len(Body(f)[k].value)
      /\ PartAllowed(f, visit.bound, x)
      /\ visit' = [visit EXCEPT !.part = @ + 1, !.reads = @ \union PartReads, !.writes = more, !.used = @ \union PartUsed]
  BY DEF VisitPart, InBody, Statement, Part, known
<1>2. stage = "functions" /\ f \in Functions(module) /\ VisitSound(facts, visit)
  BY <1>1 DEF AnalysisOk, VisitOk
<1>3. IsFunction(f) /\ f[1] # NoModule /\ WellTyped(Body(f)[k]) /\ visit.part \in Nat /\ k \in Nat
  BY <1>1, <1>2, BodyLines DEF VisitSound, IsFunction, WellFormed
<1>4. Body(f)[k].value \in Seq(Range(Body(f)[k].value)) /\ DOMAIN Body(f)[k].value = 1 .. Len(Body(f)[k].value)
  BY <1>3 DEF WellTyped
<1>5. visit.part + 1 \in DOMAIN Body(f)[k].value
  BY <1>1, <1>3, <1>4
<1>6. x.s # "outside" => IsPath(x.to)
  BY <1>3, <1>5 DEF WellTyped
<1>7. (x.s = "pop" => VariableAccess(LookUp(f, visit.bound, x.to)) \in more) /\ (x.s = "call" => StateOf(facts[CalleeOf(f, x).of].writes) \subseteq more)
  BY DEF PartWrites, Part, Statement
<1>8. PICK v : v = visit'
  OBVIOUS
<1>9. /\ v.f = f /\ v.line = k /\ v.bound = visit.bound /\ v.ended = visit.ended /\ v.part = visit.part + 1 /\ v.writes = more
      /\ DOMAIN v = DOMAIN visit
  <2> HIDE DEF more
  <2> QED
    BY <1>1, <1>8 DEF AnalysisOk
<1> HIDE DEF f, k, x, more
<1>10. PartOk(facts, f, visit.bound, more, x)
  BY <1>1, <1>3, <1>6, <1>7, PartAllowedOk
<1>11. visit.writes \subseteq more
  BY DEF more
<1>12. ASSUME NEW i \in 1 .. visit.part + 1
       PROVE  PartOk(facts, f, visit.bound, more, Body(f)[k].value[i])
  <2>1. CASE i = visit.part + 1
    BY <1>10, <2>1 DEF x
  <2>2. CASE i # visit.part + 1
    <3>1. i \in 1 .. visit.part
      BY <1>3, <2>2
    <3>2. PartOk(facts, f, visit.bound, visit.writes, Body(f)[k].value[i])
      BY <1>1, <1>2, <3>1 DEF VisitSound, f, k
    <3> QED
      BY <1>11, <3>2, PartMonotone
  <2> QED
    BY <2>1, <2>2
<1>13. ASSUME NEW j \in 1 .. k - 1
       PROVE  LineOk(facts, f, more, j)
  <2>1. LineOk(facts, f, visit.writes, j)
    BY <1>2 DEF VisitSound, f, k
  <2>2. j \in DOMAIN Body(f)
    BY <1>1, <1>3, BodyLines
  <2> QED
    BY <1>11, <2>1, <2>2, LineMonotone
<1>14. VisitSound(facts, v)
  BY <1>2, <1>3, <1>9, <1>12, <1>13 DEF VisitSound, f, k
<1>15. VisitSound(facts, v)'
  BY <1>1, <1>14, VisitKeeps
<1>16. VisitOk'
  BY <1>1, <1>2, <1>8, <1>9, <1>15, FunctionsKeep DEF VisitOk
<1> QED
  BY <1>1, <1>8, <1>9, <1>16, AnalysisKeeps

(* A statement that is visited is as it has to be, and the next one has    *)
(* the names it leaves. *)
LEMMA VisitStatementOk ==
  ASSUME AnalysisOk, WellFormed(program), VisitStatement, ~rejected'
  PROVE  AnalysisOk'
<1> DEFINE f == visit.f
<1> DEFINE k == visit.line
<1> DEFINE x == Body(f)[k]
<1> DEFINE more == visit.writes \union TargetIf(Writes)
<1> DEFINE ended == IF Ends(x, k, visit.ended) THEN visit.ended \union {k + 1} ELSE visit.ended
<1>1. /\ UNCHANGED <<program, stage, module, done, exported, facts>>
      /\ f # <<>> /\ k \in DOMAIN Body(f) /\ visit.part = Len(x.value)
      /\ StatementAllowed(f, visit.bound, x)
      /\ visit' = [visit EXCEPT !.line = k + 1, !.part = 0, !.bound = BoundAfter(f, visit.bound, k), !.ended = ended,
                                !.reads = @ \union TargetIf(HasTarget), !.writes = more, !.used = @ \union StatementUsed]
  BY DEF VisitStatement, InBody, Statement, known
<1>2. stage = "functions" /\ f \in Functions(module) /\ VisitSound(facts, visit)
  BY <1>1 DEF AnalysisOk, VisitOk
<1>3. IsFunction(f) /\ f[1] # NoModule /\ WellTyped(x) /\ k \in Nat
  BY <1>1, <1>2, BodyLines DEF VisitSound, IsFunction, WellFormed
<1>4. x.value \in Seq(Range(x.value)) /\ DOMAIN x.value = 1 .. Len(x.value)
  BY <1>3 DEF WellTyped
<1>5. x.s \in {"assign", "append"} => VariableAccess(LookUp(f, visit.bound, x.to)) \in more
  BY DEF TargetIf, Writes, Target, Statement
<1>6. PICK v : v = visit'
  OBVIOUS
<1>7. /\ v.f = f /\ v.line = k + 1 /\ v.bound = BoundAfter(f, visit.bound, k) /\ v.ended = ended /\ v.part = 0 /\ v.writes = more
      /\ DOMAIN v = DOMAIN visit
  <2> HIDE DEF more, ended
  <2> QED
    BY <1>1, <1>6 DEF AnalysisOk
<1>8. visit.writes \subseteq more
  OBVIOUS
<1> HIDE DEF more
<1>9. EndedOk(f, ended)
  <2>1. EndedOk(f, visit.ended)
    BY <1>2 DEF VisitSound
  <2>2. ASSUME NEW j \in ended
        PROVE  j - 1 \in DOMAIN Body(f) /\ j \in Nat /\ Ends(Body(f)[j - 1], j - 1, ended)
    <3>1. CASE j \in visit.ended
      BY <2>1, <3>1 DEF EndedOk, Ends
    <3>2. CASE j \notin visit.ended
      <4>1. j = k + 1 /\ Ends(x, k, visit.ended)
        BY <2>2, <3>2
      <4>2. j - 1 = k /\ j \in Nat
        BY <1>3, <4>1
      <4> QED
        BY <1>1, <4>1, <4>2 DEF Ends
    <3> QED
      BY <3>1, <3>2
  <2> HIDE DEF ended
  <2> QED
    BY <2>2 DEF EndedOk
<1> HIDE DEF ended
<1>10. visit.bound = Scope(f, k)
  BY <1>2 DEF VisitSound
<1>11. LineOk(facts, f, more, k)
  <2>1. StatementOk(f, visit.bound, more, x)
    BY <1>1, <1>3, <1>5, StatementAllowedOk
  <2>2. ASSUME NEW i \in DOMAIN x.value
        PROVE  PartOk(facts, f, visit.bound, more, x.value[i])
    <3>1. PartOk(facts, f, visit.bound, visit.writes, x.value[i])
      BY <1>1, <1>2, <1>4 DEF VisitSound
    <3> QED
      BY <1>8, <3>1, PartMonotone
  <2> QED
    BY <1>10, <2>1, <2>2 DEF LineOk
<1>12. ASSUME NEW j \in 1 .. k
       PROVE  LineOk(facts, f, more, j)
  <2>1. CASE j = k
    BY <1>11, <2>1
  <2>2. CASE j # k
    <3>1. j \in 1 .. k - 1
      BY <1>3, <2>2
    <3>2. LineOk(facts, f, visit.writes, j)
      BY <1>2, <3>1 DEF VisitSound
    <3>3. j \in DOMAIN Body(f)
      BY <1>1, <1>3, BodyLines
    <3> QED
      BY <1>8, <3>2, <3>3, LineMonotone
  <2> QED
    BY <2>1, <2>2
<1>13. v.bound = Scope(f, k + 1)
  BY <1>1, <1>3, <1>7, <1>10, ScopeNext
<1>14. k + 1 \in 1 .. Len(Body(f)) + 1 /\ (k + 1) - 1 = k
  BY <1>1, <1>3, BodyLines
<1>15. IsFunction(f) /\ f \notin DOMAIN facts /\ CalledFunctions(f) \subseteq DOMAIN facts
  BY <1>2 DEF VisitSound
<1> HIDE DEF f, k, x
<1>16. VisitSound(facts, v)
  BY <1>7, <1>9, <1>12, <1>13, <1>14, <1>15 DEF VisitSound
<1>17. VisitSound(facts, v)'
  BY <1>1, <1>16, VisitKeeps
<1>18. VisitOk'
  BY <1>1, <1>2, <1>6, <1>7, <1>17, FunctionsKeep DEF VisitOk
<1> QED
  BY <1>1, <1>6, <1>7, <1>18, AnalysisKeeps

(* What a visit has found out when it ends are facts about the function. *)
LEMMA FinishBodyOk ==
  ASSUME AnalysisOk, FinishBody, ~rejected'
  PROVE  AnalysisOk'
<1> DEFINE f == visit.f
<1>1. /\ UNCHANGED <<program, stage, module, done, exported>>
      /\ f # <<>> /\ visit.line \notin DOMAIN Body(f)
      /\ The(f).result => visit.line \in visit.ended
      /\ DOMAIN facts' = DOMAIN facts \union {f}
      /\ facts'[f].writes = visit.writes /\ \A g \in DOMAIN facts \ {f} : facts'[g] = facts[g]
      /\ visit' = Idle
  BY DEF FinishBody, known
<1>2. stage = "functions" /\ f \in Functions(module) /\ VisitSound(facts, visit)
  BY <1>1 DEF AnalysisOk, VisitOk
<1>3. IsFunction(f) /\ f \notin DOMAIN facts /\ CalledFunctions(f) \subseteq DOMAIN facts
  BY <1>2 DEF VisitSound
<1>4. visit.line = Len(Body(f)) + 1 /\ Len(Body(f)) \in Nat /\ DOMAIN Body(f) = 1 .. Len(Body(f))
  BY <1>1, <1>2, <1>3, BodyLines DEF VisitSound
<1>5. PICK F : F = facts'
  OBVIOUS
<1>6. \A g \in DOMAIN facts : F[g] = facts[g]
  BY <1>1, <1>3, <1>5
<1>7. FactsOk(F, f)
  <2>1. ASSUME NEW k \in DOMAIN Body(f)
        PROVE  LineOk(F, f, visit.writes, k)
    <3>1. LineOk(facts, f, visit.writes, k)
      BY <1>2, <1>4 DEF VisitSound
    <3>2. \A g \in CalledFunctions(f) : F[g] = facts[g]
      BY <1>3, <1>6
    <3> QED
      BY <3>1, <3>2, LineMonotone
  <2>2. EndedOk(f, visit.ended) /\ (The(f).result => Len(Body(f)) + 1 \in visit.ended)
    BY <1>1, <1>2, <1>4 DEF VisitSound
  <2>3. CalledFunctions(f) \subseteq DOMAIN F /\ F[f].writes = visit.writes
    BY <1>1, <1>3, <1>5
  <2> HIDE DEF f
  <2> QED
    BY <2>1, <2>2, <2>3 DEF FactsOk
<1>8. ASSUME NEW g \in DOMAIN facts
      PROVE  IsFunction(g) /\ FactsOk(F, g)
  <2>1. IsFunction(g) /\ FactsOk(facts, g)
    BY DEF AnalysisOk
  <2>2. CalledFunctions(g) \subseteq DOMAIN F /\ \A h \in CalledFunctions(g) : F[h] = facts[h]
    BY <1>1, <1>5, <1>6, <2>1 DEF FactsOk
  <2>3. \A k \in DOMAIN Body(g) : LineOk(F, g, F[g].writes, k)
    BY <1>6, <2>1, <2>2, LineMonotone DEF FactsOk
  <2> QED
    BY <2>1, <2>2, <2>3 DEF FactsOk
<1>9. \A g \in DOMAIN F : (IsFunction(g) /\ FactsOk(F, g))'
  <2>1. \A g \in DOMAIN F : IsFunction(g) /\ FactsOk(F, g)
    BY <1>1, <1>3, <1>5, <1>7, <1>8
  <2> HIDE DEF f
  <2> QED
    BY <1>1, <2>1, FunctionsKeep, LinesKeep
<1>10. Started' = Started
  BY <1>1 DEF Started
<1>11. \A m \in Started : (MembersSound(m) /\ ConstructorSound(m) /\ ImportsOf(m) \subseteq done)'
  BY <1>1, FunctionsKeep DEF AnalysisOk
<1>12. \A m \in done : (Functions(m) \subseteq DOMAIN facts)'
  BY <1>1, FunctionsKeep DEF AnalysisOk
<1>13. \A e \in exported : (The(e.of).d = "function" => e.of \in DOMAIN facts)'
  BY <1>1, DeclarationsKeep DEF AnalysisOk
<1>14. VisitOk' /\ DOMAIN visit' = {"f", "line", "part", "bound", "ended", "reads", "writes", "used"}
  BY <1>1 DEF VisitOk, Idle
<1> HIDE DEF f
<1> QED
  BY <1>1, <1>5, <1>9, <1>10, <1>11, <1>12, <1>13, <1>14 DEF AnalysisOk

(* Every step of the analysis that does not reject keeps this. *)
LEMMA AnalyzeOk ==
  ASSUME AnalysisOk, WellFormed(program), Analyze, ~rejected'
  PROVE  AnalysisOk'
<1>1. CASE ResolveImports
  BY <1>1, ResolveImportsOk
<1>2. CASE \E m \in Modules : BeginModule(m)
  BY <1>2, BeginModuleOk
<1>3. CASE FinishModule
  BY <1>3, FinishModuleOk
<1>4. CASE stage = "functions" /\ \E f \in Functions(module) : StartBody(f)
  BY <1>4, StartBodyOk
<1>5. CASE VisitPart
  BY <1>5, VisitPartOk
<1>6. CASE VisitStatement
  BY <1>6, VisitStatementOk
<1>7. CASE FinishBody
  BY <1>7, FinishBodyOk
<1>8. CASE ValidateTarget
  BY <1>8, ValidateTargetOk
<1> QED
  BY <1>1, <1>2, <1>3, <1>4, <1>5, <1>6, <1>7, <1>8 DEF Analyze, AnalyzeModules, AnalyzeFunctions, At

---------------------------------------------------------------------------
(* Where a function that runs may be.                                      *)

(* The names that are bound are those visible at the line; at the end of a *)
(* loop they may be those of the statement that went on with it.  No block *)
(* has ended before the line, unless a loop did.                           *)
BoundOk(f, line, bound) ==
  \/ bound = Scope(f, line)
  \/ /\ line \in DOMAIN Body(f) /\ Body(f)[line].s = "endfor"
     /\ \E k \in DOMAIN Body(f) : Body(f)[line].mate < k /\ k <= line /\ bound = Scope(f, k)
NotEnded(f, line) ==
  \E ended : /\ EndedOk(f, ended) /\ (The(f).result => Len(Body(f)) + 1 \in ended)
             /\ line \in ended => line \in DOMAIN Body(f) /\ Body(f)[line].s = "endfor"
PlaceOk(f, line, bound) == line \in 1 .. Len(Body(f)) + 1 /\ BoundOk(f, line, bound) /\ NotEnded(f, line)

(* The first line is such a place. *)
LEMMA FirstPlace ==
  ASSUME NEW F, NEW f, IsFunction(f), FactsOk(F, f)
  PROVE  PlaceOk(f, 1, {})
<1>1. Len(Body(f)) \in Nat /\ DOMAIN Body(f) = 1 .. Len(Body(f))
  BY BodyLines
<1>2. Scope(f, 1) = {}
  BY <1>1 DEF Scope
<1>3. PICK ended : EndedOk(f, ended) /\ (The(f).result => Len(Body(f)) + 1 \in ended)
  BY DEF FactsOk
<1>4. 1 \notin ended
  BY <1>1, <1>3 DEF EndedOk
<1> QED
  BY <1>1, <1>2, <1>3, <1>4 DEF PlaceOk, BoundOk, NotEnded

(* A line behind one that ends no block. *)
LEMMA EndsNot ==
  ASSUME NEW f, IsFunction(f), NEW k \in DOMAIN Body(f), NEW line, NotEnded(f, line),
         Body(f)[k].s \notin {"return", "raise"},
         Body(f)[k].s = "endif" =>
           \/ line = k
           \/ Body(f)[k].mate = 0
           \/ Body(f)[k].mate = line /\ Body(f)[line].s # "endfor"
  PROVE  NotEnded(f, k + 1)
<1>1. PICK ended : /\ EndedOk(f, ended) /\ (The(f).result => Len(Body(f)) + 1 \in ended)
                   /\ line \in ended => line \in DOMAIN Body(f) /\ Body(f)[line].s = "endfor"
  BY DEF NotEnded
<1>2. k \in Nat /\ 0 \notin ended
  BY <1>1, BodyLines DEF EndedOk
<1>3. ASSUME k + 1 \in ended
      PROVE  FALSE
  <2>1. Ends(Body(f)[k], k, ended)
    <3>1. Ends(Body(f)[(k + 1) - 1], (k + 1) - 1, ended)
      BY <1>1, <1>3 DEF EndedOk
    <3>2. (k + 1) - 1 = k
      BY <1>2
    <3> QED
      BY <3>1, <3>2
  <2>2. Body(f)[k].s = "endif" /\ k \in ended /\ Body(f)[k].mate \in ended
    BY <2>1 DEF Ends
  <2> QED
    BY <1>1, <1>2, <2>2
<1> QED
  BY <1>1, <1>3 DEF NotEnded

(* From a line to the next one. *)
LEMMA MoveOn ==
  ASSUME NEW f, IsFunction(f), NEW k \in DOMAIN Body(f), NEW bound, PlaceOk(f, k, bound),
         Body(f)[k].s \notin {"return", "raise", "endfor"}
  PROVE  /\ bound = Scope(f, k)
         /\ PlaceOk(f, k + 1, BoundAfter(f, bound, k))
<1>1. bound = Scope(f, k)
  BY DEF PlaceOk, BoundOk
<1>2. BoundAfter(f, bound, k) = Scope(f, k + 1)
  BY <1>1, ScopeNext
<1>3. NotEnded(f, k + 1)
  BY EndsNot DEF PlaceOk
<1>4. k + 1 \in 1 .. Len(Body(f)) + 1
  BY BodyLines
<1> QED
  BY <1>1, <1>2, <1>3, <1>4 DEF PlaceOk, BoundOk

(* Past a side of a branch, or past a loop. *)
LEMMA MovePast ==
  ASSUME NEW f, IsFunction(f), NEW k \in DOMAIN Body(f), NEW bound, PlaceOk(f, k, bound), Body(f)[k].s \in Opening
  PROVE  /\ PlaceOk(f, Body(f)[k].until + 1, Leaving(f, bound, k))
         /\ Body(f)[k].s \in {"if", "for"} => PlaceOk(f, Body(f)[k].until + 1, bound)
<1> DEFINE u == Body(f)[k].until
<1>1. bound = Scope(f, k)
  BY DEF PlaceOk, BoundOk, Opening
<1>2. /\ u \in DOMAIN Body(f)
      /\ Leaving(f, Scope(f, k), k) = Scope(f, u + 1)
      /\ Body(f)[k].s \in {"if", "for"} => Scope(f, k) = Scope(f, u + 1)
  BY ScopeBehind
<1>3. /\ Body(f)[k].s = "if" => Body(f)[u].s = "else" \/ (Body(f)[u].s = "endif" /\ Body(f)[u].mate = 0)
      /\ Body(f)[k].s = "else" => Body(f)[u].s = "endif" /\ Body(f)[u].mate = k
      /\ Body(f)[k].s = "for" => Body(f)[u].s = "endfor"
  <2>1. WellNested(Body(f))
    BY DEF IsFunction
  <2> QED
    BY <2>1 DEF WellNested
<1> HIDE DEF u
<1>4. NotEnded(f, u + 1)
  <2>1. NotEnded(f, k)
    BY DEF PlaceOk
  <2>2. Body(f)[u].s \notin {"return", "raise"}
    BY <1>3 DEF Opening
  <2>3. Body(f)[u].s = "endif" => Body(f)[u].mate = 0 \/ (Body(f)[u].mate = k /\ Body(f)[k].s # "endfor")
    BY <1>3 DEF Opening
  <2> QED
    BY <1>2, <2>1, <2>2, <2>3, EndsNot
<1>5. u + 1 \in 1 .. Len(Body(f)) + 1
  BY <1>2, BodyLines
<1>6. PlaceOk(f, u + 1, Scope(f, u + 1))
  BY <1>4, <1>5 DEF PlaceOk, BoundOk
<1> QED
  BY <1>1, <1>2, <1>6 DEF u

(* From within a loop, or from its end, to the line behind it, and to its  *)
(* first line. *)
LEMMA MoveInLoop ==
  ASSUME NEW f, IsFunction(f), NEW line, NEW k \in DOMAIN Body(f), NotEnded(f, line),
         NEW e \in DOMAIN Body(f), Body(f)[e].s = "endfor", Body(f)[e].mate < k, k <= e
  PROVE  /\ PlaceOk(f, e + 1, Leaving(f, Scope(f, k), e))
         /\ PlaceOk(f, Body(f)[e].mate + 1, {p \in Scope(f, k) : p <= Body(f)[e].mate})
         /\ PlaceOk(f, e, Scope(f, k))
<1> DEFINE m == Body(f)[e].mate
<1>1. /\ m \in DOMAIN Body(f)
      /\ Leaving(f, Scope(f, k), e) = Scope(f, e + 1)
      /\ {p \in Scope(f, k) : p <= m} = Scope(f, m + 1)
  BY ScopeInLoop
<1>2. Body(f)[m].s = "for"
  <2>1. WellNested(Body(f))
    BY DEF IsFunction
  <2> QED
    BY <2>1 DEF WellNested
<1>3. NotEnded(f, e + 1) /\ NotEnded(f, m + 1)
  BY <1>1, <1>2, EndsNot
<1>4. NotEnded(f, e)
  BY DEF NotEnded
<1>5. e + 1 \in 1 .. Len(Body(f)) + 1 /\ m + 1 \in 1 .. Len(Body(f)) + 1 /\ e \in 1 .. Len(Body(f)) + 1
  BY <1>1, BodyLines
<1>6. BoundOk(f, e, Scope(f, k))
  BY DEF BoundOk
<1> QED
  BY <1>1, <1>3, <1>4, <1>5, <1>6 DEF PlaceOk, BoundOk

(* At the end of a loop. *)
LEMMA MoveAgain ==
  ASSUME NEW f, IsFunction(f), NEW e \in DOMAIN Body(f), Body(f)[e].s = "endfor", NEW bound, PlaceOk(f, e, bound)
  PROVE  /\ PlaceOk(f, e + 1, Leaving(f, bound, e))
         /\ PlaceOk(f, Body(f)[e].mate + 1, {p \in bound : p <= Body(f)[e].mate})
<1>1. Body(f)[e].mate < e /\ e <= e
  <2>1. WellNested(Body(f)) /\ e \in Int
    BY BodyLines DEF IsFunction
  <2> QED
    BY <2>1 DEF WellNested
<1>2. PICK k \in DOMAIN Body(f) : Body(f)[e].mate < k /\ k <= e /\ bound = Scope(f, k)
  BY <1>1 DEF PlaceOk, BoundOk
<1>3. NotEnded(f, e)
  BY DEF PlaceOk
<1> QED
  BY <1>2, <1>3, MoveInLoop

(* At a break or a continue. *)
LEMMA MoveJump ==
  ASSUME NEW f, IsFunction(f), NEW k \in DOMAIN Body(f), Body(f)[k].s \in Jumps, Body(f)[k].until # 0,
         NEW bound, PlaceOk(f, k, bound)
  PROVE  /\ PlaceOk(f, Body(f)[k].until + 1, Leaving(f, bound, Body(f)[k].until))
         /\ PlaceOk(f, Body(f)[k].until, bound)
<1> DEFINE e == Body(f)[k].until
<1>1. bound = Scope(f, k)
  BY DEF PlaceOk, BoundOk, Jumps
<1>2. e \in DOMAIN Body(f) /\ Body(f)[e].s = "endfor" /\ Body(f)[e].mate < k /\ k <= e
  <2>1. WellNested(Body(f)) /\ Len(Body(f)) \in Nat /\ DOMAIN Body(f) = 1 .. Len(Body(f))
    BY BodyLines DEF IsFunction
  <2>2. e \in k + 1 .. Len(Body(f)) /\ Body(f)[e].s = "endfor" /\ Body(f)[e].mate < k
    BY <2>1 DEF WellNested
  <2> QED
    BY <2>1, <2>2
<1> HIDE DEF e
<1>3. NotEnded(f, k)
  BY DEF PlaceOk
<1>4. PlaceOk(f, e + 1, Leaving(f, Scope(f, k), e)) /\ PlaceOk(f, e, Scope(f, k))
  BY <1>2, <1>3, MoveInLoop
<1> QED
  BY <1>1, <1>4 DEF e

---------------------------------------------------------------------------
(* The stack, and what was touched.                                        *)

(* F has facts that were found to hold of functions. *)
Sound(F) == \A f \in DOMAIN F : IsFunction(f) /\ f[1] # NoModule /\ FactsOk(F, f)
(* No function comes to call itself: rank tells how deep its calls are.    *)
RankedBy(F, n, rank) ==
  /\ n \in Nat /\ rank \in [DOMAIN F -> 0 .. n - 1]
  /\ \A f \in DOMAIN F : \A g \in CalledFunctions(f) : rank[g] < rank[f]
Frames(F) == [f : DOMAIN F, line : Nat, part : Nat, bound : SUBSET Nat]
(* What runs above a function does no more than that one may, and writes   *)
(* nothing that its loops are over.                                        *)
Above(F, rank, a, b) ==
  /\ rank[a.f] < rank[b.f]
  /\ ReadsOnly(b.f) => Rank(The(a.f).mutability) <= Rank(The(b.f).mutability)
  /\ LoopsUntouched(b.f, b.bound, StateOf(F[a.f].writes))
StackOk(F, rank, s) ==
  /\ s \in Seq(Frames(F))
  /\ \A j \in DOMAIN s : PlaceOk(s[j].f, s[j].line, s[j].bound)
  /\ \A i, j \in DOMAIN s : i < j => Above(F, rank, s[i], s[j])

(* What runs is a function with facts. *)
LEMMA StackFrames ==
  ASSUME NEW F, NEW rank, NEW s, StackOk(F, rank, s), NEW j \in DOMAIN s
  PROVE  s[j] \in Frames(F) /\ s[j].f \in DOMAIN F
<1>1. s \in Seq(Frames(F))
  BY DEF StackOk
<1>2. s[j] \in Frames(F)
  BY <1>1
<1> QED
  BY <1>2 DEF Frames

(* The innermost function moves to another line, or to another part. *)
LEMMA TopMoves ==
  ASSUME NEW F, NEW rank, NEW s, StackOk(F, rank, s), s # <<>>, Sound(F),
         NEW line, NEW part \in Nat, NEW bound, PlaceOk(s[1].f, line, bound)
  PROVE  StackOk(F, rank, [s EXCEPT ![1] = [f |-> s[1].f, line |-> line, part |-> part, bound |-> bound]])
<1> DEFINE fr == [f |-> s[1].f, line |-> line, part |-> part, bound |-> bound]
<1> DEFINE t == [s EXCEPT ![1] = fr]
<1>1. s \in Seq(Frames(F)) /\ Len(s) \in Nat /\ DOMAIN s = 1 .. Len(s) /\ 1 \in DOMAIN s
  BY DEF StackOk
<1>2. s[1] \in Frames(F) /\ s[1].f \in DOMAIN F /\ IsFunction(s[1].f)
  BY <1>1, StackFrames DEF Sound
<1>3. line \in Nat /\ bound \in SUBSET Nat
  <2>1. \A k : Scope(s[1].f, k) \subseteq Nat
    BY <1>2, BodyLines DEF Scope
  <2>2. Len(Body(s[1].f)) \in Nat
    BY <1>2, BodyLines
  <2> QED
    BY <2>1, <2>2 DEF PlaceOk, BoundOk
<1>4. fr \in Frames(F)
  BY <1>2, <1>3 DEF Frames
<1>5. t \in Seq(Frames(F)) /\ DOMAIN t = DOMAIN s /\ t[1] = fr /\ \A j \in DOMAIN s : j # 1 => t[j] = s[j]
  BY <1>1, <1>4
<1>6. fr.f = s[1].f /\ fr.line = line /\ fr.bound = bound
  OBVIOUS
<1> HIDE DEF t, fr
<1>7. \A j \in DOMAIN t : PlaceOk(t[j].f, t[j].line, t[j].bound)
  BY <1>5, <1>6 DEF StackOk
<1>8. ASSUME NEW i \in DOMAIN t, NEW j \in DOMAIN t, i < j
      PROVE  Above(F, rank, t[i], t[j])
  <2>1. Above(F, rank, s[i], s[j]) /\ j # 1 /\ t[j] = s[j]
    BY <1>1, <1>5, <1>8 DEF StackOk
  <2>2. t[i].f = s[i].f
    BY <1>5, <1>6
  <2> QED
    BY <2>1, <2>2 DEF Above
<1>9. StackOk(F, rank, t)
  BY <1>5, <1>7, <1>8 DEF StackOk
<1> QED
  BY <1>9 DEF t, fr

(* It is left. *)
LEMMA TopLeaves ==
  ASSUME NEW F, NEW rank, NEW s, StackOk(F, rank, s), s # <<>>
  PROVE  StackOk(F, rank, Tail(s))
<1>1. s \in Seq(Frames(F)) /\ Len(s) \in Nat /\ DOMAIN s = 1 .. Len(s) /\ Len(s) >= 1
  BY DEF StackOk
<1>2. /\ Tail(s) \in Seq(Frames(F)) /\ DOMAIN Tail(s) = 1 .. Len(s) - 1
      /\ \A j \in 1 .. Len(s) - 1 : Tail(s)[j] = s[j + 1]
  BY <1>1
<1> DEFINE t == Tail(s)
<1> HIDE DEF t
<1>3. \A j \in DOMAIN t : j + 1 \in DOMAIN s /\ t[j] = s[j + 1]
  BY <1>1, <1>2 DEF t
<1>4. \A j \in DOMAIN t : PlaceOk(t[j].f, t[j].line, t[j].bound)
  BY <1>3 DEF StackOk
<1>5. ASSUME NEW i \in DOMAIN t, NEW j \in DOMAIN t, i < j
      PROVE  Above(F, rank, t[i], t[j])
  <2>1. i + 1 < j + 1
    BY <1>2, <1>5 DEF t
  <2> QED
    BY <1>3, <2>1 DEF StackOk
<1>6. t \in Seq(Frames(F))
  BY <1>2 DEF t
<1>7. StackOk(F, rank, t)
  BY <1>4, <1>5, <1>6 DEF StackOk
<1> QED
  BY <1>7 DEF t

(* What is not written by a function is not written by those it calls. *)
LEMMA LoopsMonotone ==
  ASSUME NEW f, NEW bound, NEW writes, NEW more, writes \subseteq more, LoopsUntouched(f, bound, more)
  PROVE  LoopsUntouched(f, bound, writes)
BY DEF LoopsUntouched

(* It calls a function. *)
LEMMA TopCalls ==
  ASSUME NEW F, NEW n, NEW rank, NEW s, StackOk(F, rank, s), s # <<>>, Sound(F), RankedBy(F, n, rank),
         NEW g \in CalledFunctions(s[1].f), CallOk(F, s[1].f, s[1].bound, F[s[1].f].writes, g)
  PROVE  StackOk(F, rank, <<Frame(g)>> \o s)
<1> DEFINE f == s[1].f
<1> DEFINE fr == Frame(g)
<1>1. s \in Seq(Frames(F)) /\ Len(s) \in Nat /\ DOMAIN s = 1 .. Len(s) /\ 1 \in DOMAIN s
  BY DEF StackOk
<1>2. f \in DOMAIN F /\ CalledFunctions(f) \subseteq DOMAIN F
  <2>1. f \in DOMAIN F
    BY <1>1, StackFrames
  <2> HIDE DEF f
  <2> QED
    BY <2>1 DEF Sound, FactsOk
<1>3. g \in DOMAIN F /\ IsFunction(g) /\ FactsOk(F, g)
  BY <1>2 DEF Sound
<1>4. fr.f = g /\ fr.line = 1 /\ fr.bound = {} /\ fr \in Frames(F)
  BY <1>3 DEF Frames, Frame
<1>5. PlaceOk(g, 1, {})
  BY <1>3, FirstPlace
<1>6. \A h \in DOMAIN F : rank[h] \in Int /\ Rank(The(h).mutability) \in Int
  BY RankType DEF RankedBy, Sound, IsFunction
<1>7. rank[g] < rank[f]
  BY <1>2 DEF RankedBy
<1>8. /\ May(f, The(g).mutability) /\ StateOf(F[g].writes) \subseteq F[f].writes
      /\ LoopsUntouched(f, s[1].bound, StateOf(F[g].writes))
  BY DEF CallOk
<1>9. Above(F, rank, fr, s[1])
  <2>1. ReadsOnly(f) => Rank(The(g).mutability) <= Rank(The(f).mutability)
    BY <1>2, <1>3, <1>6, <1>8, RankFacts DEF ReadsOnly, May
  <2> QED
    BY <1>4, <1>7, <1>8, <2>1 DEF Above
<1>10. ASSUME NEW j \in DOMAIN s
       PROVE  Above(F, rank, fr, s[j])
  <2>1. CASE j = 1
    BY <1>9, <2>1
  <2>2. CASE j # 1
    <3> DEFINE b == s[j]
    <3>1. Above(F, rank, s[1], b) /\ b.f \in DOMAIN F
      <4>1. b.f \in DOMAIN F
        BY StackFrames
      <4>2. 1 < j
        BY <1>1, <2>2
      <4> QED
        BY <1>1, <4>1, <4>2 DEF StackOk
    <3> HIDE DEF b
    <3>2. rank[g] < rank[b.f]
      BY <1>2, <1>3, <1>6, <1>7, <3>1 DEF Above
    <3>3. ReadsOnly(b.f) => Rank(The(g).mutability) <= Rank(The(b.f).mutability)
      <4>1. ReadsOnly(b.f) => Rank(The(f).mutability) <= Rank(The(b.f).mutability)
        BY <3>1 DEF Above
      <4>2. ReadsOnly(b.f) => ReadsOnly(f)
        BY <1>2, <1>6, <3>1, <4>1, RankFacts DEF ReadsOnly
      <4>3. ReadsOnly(f) => Rank(The(g).mutability) <= Rank(The(f).mutability)
        BY <1>4, <1>9 DEF Above
      <4> QED
        BY <1>2, <1>3, <1>6, <3>1, <4>1, <4>2, <4>3
    <3>4. LoopsUntouched(b.f, b.bound, StateOf(F[g].writes))
      <4>1. StateOf(F[g].writes) \subseteq StateOf(F[f].writes)
        BY <1>8 DEF StateOf
      <4>2. LoopsUntouched(b.f, b.bound, StateOf(F[f].writes))
        BY <3>1 DEF Above
      <4> QED
        BY <4>1, <4>2, LoopsMonotone
    <3>5. Above(F, rank, fr, b)
      BY <1>4, <3>2, <3>3, <3>4 DEF Above
    <3> QED
      BY <3>5 DEF b
  <2> QED
    BY <2>1, <2>2
<1> DEFINE t == <<fr>> \o s
<1>11. /\ t \in Seq(Frames(F)) /\ DOMAIN t = 1 .. Len(s) + 1 /\ t[1] = fr
       /\ \A j \in 2 .. Len(s) + 1 : t[j] = s[j - 1]
  <2> HIDE DEF fr
  <2> QED
    BY <1>1, <1>4
<1> HIDE DEF t, fr, f
<1>12. \A j \in DOMAIN t : j = 1 \/ (j - 1 \in DOMAIN s /\ t[j] = s[j - 1])
  BY <1>1, <1>11
<1>13. \A j \in DOMAIN t : PlaceOk(t[j].f, t[j].line, t[j].bound)
  BY <1>4, <1>5, <1>11, <1>12 DEF StackOk
<1>14. ASSUME NEW i \in DOMAIN t, NEW j \in DOMAIN t, i < j
       PROVE  Above(F, rank, t[i], t[j])
  <2>1. j # 1 /\ j - 1 \in DOMAIN s /\ t[j] = s[j - 1]
    BY <1>11, <1>12, <1>14
  <2>2. CASE i = 1
    BY <1>10, <1>11, <2>1, <2>2
  <2>3. CASE i # 1
    <3>1. i - 1 \in DOMAIN s /\ t[i] = s[i - 1] /\ i - 1 < j - 1
      BY <1>11, <1>12, <1>14, <2>3
    <3> QED
      BY <2>1, <3>1 DEF StackOk
  <2> QED
    BY <2>2, <2>3
<1>15. StackOk(F, rank, t)
  BY <1>11, <1>13, <1>14 DEF StackOk
<1> QED
  BY <1>15 DEF t, fr

(* What the innermost function has done is something it may do. *)
WrittenOk(F, f, bound, t) ==
  \E r : /\ t.of = r.of /\ t.rest = r.rest /\ r.rest \in Seq(STRING)
         /\ r.kind = "local" => \E name : r.of = <<f[1], f[2], name>>
         /\ r.kind = "variable" => Len(r.of) = 2
         /\ WriteOk(f, bound, F[f].writes, r)
TouchOk(F, f, bound, t) ==
  \/ t.how = "nothing"
  \/ t.how = "read" /\ (The(f).mutability = "pure" => ~IsStateAccess(t))
  \/ t.how = "write" /\ WrittenOk(F, f, bound, t)
  \/ t.how = "log" /\ ~ReadsOnly(f)
  \/ t.how \in Mutabilities /\ May(f, t.how)
RunOk ==
  /\ \E n, rank : RankedBy(facts, n, rank) /\ StackOk(facts, rank, stack)
  /\ IF stack = <<>> THEN IsIn({"nothing", "read"}) ELSE TouchOk(facts, stack[1].f, stack[1].bound, touched)

(* That a program runs so is why it never gets stuck, ... *)
LEMMA RunNeverStuck ==
  ASSUME RunOk
  PROVE  NeverStuck
BY DEF RunOk, TouchOk, NeverStuck, IsIn, Mutabilities

(* ... why functions keep to their decorators, ... *)
LEMMA RunModifiersKept ==
  ASSUME Sound(facts), RunOk
  PROVE  ModifiersKept
<1>1. PICK n, rank : RankedBy(facts, n, rank) /\ StackOk(facts, rank, stack)
  BY DEF RunOk
<1>2. SUFFICES ASSUME NEW j \in DOMAIN stack
               PROVE  LET f == stack[j].f IN
                      /\ The(f).mutability \in {"view", "pure"} => ~IsIn({"log", "nonpayable", "payable"}) /\ (TouchesState => touched.how = "read")
                      /\ The(f).mutability = "pure" => ~TouchesState /\ ~IsIn({"view"})
  BY DEF ModifiersKept, Running
<1> DEFINE f == stack[j].f
<1> DEFINE top == stack[1].f
<1>3. /\ stack \in Seq(Frames(facts)) /\ Len(stack) \in Nat /\ DOMAIN stack = 1 .. Len(stack)
      /\ 1 \in DOMAIN stack /\ (j = 1 \/ 1 < j)
  BY <1>1 DEF StackOk
<1>4. f \in DOMAIN facts /\ top \in DOMAIN facts
  BY <1>1, <1>3, StackFrames
<1>5. ReadsOnly(f) => Rank(The(top).mutability) <= Rank(The(f).mutability)
  <2>1. CASE j = 1
    <3>1. Rank(The(f).mutability) \in 1 .. 4
      BY <1>4, RankType DEF Sound, IsFunction
    <3> QED
      BY <2>1, <3>1
  <2>2. CASE 1 < j
    BY <1>1, <1>3, <2>2 DEF StackOk, Above
  <2> QED
    BY <1>3, <2>1, <2>2
<1>6. TouchOk(facts, stack[1].f, stack[1].bound, touched)
  BY <1>3 DEF RunOk
<1> HIDE DEF f, top
<1>7. The(f).mutability \in Mutabilities /\ The(top).mutability \in Mutabilities
  BY <1>4 DEF Sound, IsFunction
<1>8. ReadsOnly(f) => ReadsOnly(top)
  BY <1>5, <1>7, RankFacts DEF ReadsOnly, Mutabilities
<1>9. The(f).mutability = "pure" => The(top).mutability = "pure"
  BY <1>5, <1>7, RankFacts DEF ReadsOnly, Mutabilities
<1>10. ReadsOnly(top) => ~May(top, "nonpayable") /\ ~May(top, "payable")
  BY <1>7, RankFacts DEF ReadsOnly, May, Mutabilities
<1>11. The(top).mutability = "pure" => ~May(top, "view")
  BY RankFacts DEF May
<1>12. The(f).mutability \in {"view", "pure"} => ReadsOnly(f)
  BY RankFacts DEF ReadsOnly
<1>13. ReadsOnly(top) => ~(TouchesState /\ touched.how = "write")
  <2>1. ASSUME touched.how = "write", IsStateAccess(touched)
        PROVE  ~ReadsOnly(top)
    <3>1. WrittenOk(facts, stack[1].f, stack[1].bound, touched)
      BY <1>6, <2>1 DEF TouchOk, Mutabilities
    <3>2. PICK r : touched.of = r.of /\ WriteOk(top, stack[1].bound, facts[top].writes, r)
      BY <3>1 DEF WrittenOk, top
    <3>3. IsStateAccess(VariableAccess(r))
      BY <2>1, <3>2 DEF IsStateAccess, VariableAccess
    <3> QED
      BY <3>2, <3>3 DEF WriteOk
  <2> QED
    BY <2>1 DEF TouchesState
<1>14. ReadsOnly(top) => ~IsIn({"log", "nonpayable", "payable"})
  BY <1>6, <1>10 DEF TouchOk, IsIn, top, Mutabilities
<1>15. The(top).mutability = "pure" => ~IsIn({"view"}) /\ ~(TouchesState /\ touched.how = "read")
  BY <1>6, <1>11 DEF TouchOk, IsIn, TouchesState, top, Mutabilities
<1>16. TouchesState => touched.how \in {"read", "write"}
  BY DEF TouchesState, IsIn
<1> QED
  BY <1>8, <1>9, <1>12, <1>13, <1>14, <1>15, <1>16 DEF f

(* The arrays known of what is looked up at a loop are known of it within. *)
LEMMA ArraysGrow ==
  ASSUME NEW f, NEW bound, NEW more, bound \subseteq more, NEW q, NEW r, q.kind = r.kind, q.of = r.of
  PROVE  ArraysIn(f, bound, q) \subseteq ArraysIn(f, more, r)
<1>1. Binding(f, bound, q) \subseteq Binding(f, more, r)
  BY DEF Binding
<1> QED
  BY <1>1 DEF ArraysIn

(* What a loop is over, as it was found when the loop was analysed. *)
LEMMA LoopFacts ==
  ASSUME NEW F, Sound(F), NEW f \in DOMAIN F, NEW line, NEW bound, PlaceOk(f, line, bound), NEW p \in Loops(f, bound)
  PROVE  LET q == Iterated(f, bound, p) IN
         /\ q.rest \in Seq(STRING) /\ IsVariable(q)
         /\ q.kind = "local" => \E name : q.of = <<f[1], f[2], name>>
         /\ q.kind = "variable" => Len(q.of) = 2
         /\ q.rest \in ArraysIn(f, {b \in bound : b < p}, q)
<1>1. IsFunction(f) /\ f[1] # NoModule /\ FactsOk(F, f)
  BY DEF Sound
<1>2. p \in bound /\ Body(f)[p].s = "for" /\ Body(f)[p].over # <<>>
  BY DEF Loops
<1>3. PICK k \in Int : bound = Scope(f, k)
  BY <1>1, BodyLines DEF PlaceOk, BoundOk
<1>4. {b \in bound : b < p} = Scope(f, p) /\ p \in DOMAIN Body(f)
  BY <1>1, <1>2, <1>3, ScopeBefore DEF Scope
<1> DEFINE q == LookUp(f, Scope(f, p), Body(f)[p].over)
<1>5. Iterated(f, bound, p) = q
  BY <1>4 DEF Iterated
<1>6. StatementOk(f, Scope(f, p), F[f].writes, Body(f)[p])
  BY <1>1, <1>4 DEF FactsOk, LineOk
<1>7. AccessOk(f, Scope(f, p), q) /\ q.rest \in ArraysIn(f, Scope(f, p), q)
  BY <1>2, <1>6 DEF StatementOk
<1>8. IsPath(Body(f)[p].over)
  BY <1>1, <1>2, <1>4 DEF IsFunction, WellTyped, IsPath
<1>9. IsVariable(q)
  BY <1>7 DEF AccessOk
<1>10. /\ q.rest \in Seq(STRING)
       /\ q.kind = "local" => q.of = <<f[1], f[2], Body(f)[p].over[1]>>
       /\ q.kind = "variable" => Len(q.of) = 2
  BY <1>1, <1>8, <1>9, ResolveFacts DEF LookUp
<1> HIDE DEF q
<1> QED
  BY <1>4, <1>5, <1>7, <1>9, <1>10

(* ... and why nothing writes what a loop is over: whatever overlaps it is *)
(* covered by one of the accesses that were looked for. *)
LEMMA RunLoopVariableFixed ==
  ASSUME Sound(facts), RunOk
  PROVE  LoopVariableFixed
<1>1. PICK n, rank : RankedBy(facts, n, rank) /\ StackOk(facts, rank, stack)
  BY DEF RunOk
<1>2. SUFFICES ASSUME touched.how = "write", NEW k \in DOMAIN stack, NEW p \in Loops(stack[k].f, stack[k].bound),
                      Iterated(stack[k].f, stack[k].bound, p).of = touched.of,
                      Overlap(Iterated(stack[k].f, stack[k].bound, p).rest, touched.rest)
               PROVE  FALSE
  BY DEF LoopVariableFixed, IsIn
<1> DEFINE f == stack[k].f
<1> DEFINE bound == stack[k].bound
<1> DEFINE q == Iterated(f, bound, p)
<1> DEFINE top == stack[1].f
<1> DEFINE now == stack[1].bound
<1>3. /\ stack \in Seq(Frames(facts)) /\ Len(stack) \in Nat /\ DOMAIN stack = 1 .. Len(stack)
      /\ 1 \in DOMAIN stack /\ (k = 1 \/ 1 < k)
  BY <1>1 DEF StackOk
<1>4. f \in DOMAIN facts /\ top \in DOMAIN facts
  BY <1>1, <1>3, StackFrames
<1>5. PICK r : /\ touched.of = r.of /\ touched.rest = r.rest /\ r.rest \in Seq(STRING)
               /\ r.kind = "local" => \E name : r.of = <<top[1], top[2], name>>
               /\ r.kind = "variable" => Len(r.of) = 2
               /\ WriteOk(top, now, facts[top].writes, r)
  <2>1. TouchOk(facts, stack[1].f, stack[1].bound, touched)
    BY <1>3 DEF RunOk
  <2>2. WrittenOk(facts, stack[1].f, stack[1].bound, touched)
    BY <1>2, <2>1 DEF TouchOk, Mutabilities
  <2> QED
    BY <2>2 DEF WrittenOk
<1>6. /\ q.rest \in Seq(STRING) /\ IsVariable(q)
      /\ q.kind = "local" => \E name : q.of = <<f[1], f[2], name>>
      /\ q.kind = "variable" => Len(q.of) = 2
      /\ q.rest \in ArraysIn(f, {b \in bound : b < p}, q)
  <2>1. PlaceOk(f, stack[k].line, bound)
    BY <1>1 DEF StackOk
  <2> QED
    BY <1>2, <1>4, <2>1, LoopFacts
<1>7. k # 1 => Above(facts, rank, stack[1], stack[k])
  BY <1>1, <1>3 DEF StackOk
<1>8. q.of = r.of /\ Overlap(q.rest, r.rest) /\ p \in Loops(f, bound)
  BY <1>2, <1>5
<1> HIDE DEF q
<1>9. IsVariable(r) /\ Typed(ArraysIn(top, now, r), r.rest)
  BY <1>5 DEF WriteOk, AccessOk
<1>10. q.kind = r.kind
  <2>1. \A a, b, c : Len(<<a, b, c>>) = 3
    OBVIOUS
  <2>2. q.kind = "local" => Len(q.of) = 3
    BY <1>6, <2>1, Zenon
  <2>3. r.kind = "local" => Len(r.of) = 3
    BY <1>5, <2>1, Zenon
  <2>4. (q.kind = "variable" => Len(q.of) = 2) /\ (r.kind = "variable" => Len(r.of) = 2)
    BY <1>5, <1>6
  <2>5. q.kind \in {"variable", "local"} /\ r.kind \in {"variable", "local"}
    BY <1>6, <1>9 DEF IsVariable
  <2>6. Len(q.of) = Len(r.of)
    BY <1>8
  <2>7. 2 # 3
    OBVIOUS
  <2> QED
    BY <2>2, <2>3, <2>4, <2>5, <2>6, <2>7, Zenon
<1>11. r.kind = "local" => k = 1
  <2>1. SUFFICES ASSUME r.kind = "local", k # 1
                 PROVE  FALSE
    OBVIOUS
  <2>2. PICK a, b : <<top[1], top[2], a>> = <<f[1], f[2], b>>
    BY <1>5, <1>6, <1>8, <1>10, <2>1
  <2>3. top[1] = f[1] /\ top[2] = f[2]
    BY <2>2
  <2>4. top = <<top[1], top[2]>> /\ f = <<f[1], f[2]>>
    BY <1>4 DEF Sound, IsFunction
  <2>5. top = f
    BY <2>3, <2>4
  <2>6. rank[top] < rank[f] /\ rank[f] \in Int
    BY <1>1, <1>4, <1>7, <2>1 DEF Above, RankedBy
  <2> QED
    BY <2>5, <2>6
<1>12. q.rest \in ArraysIn(top, now, r)
  <2>1. CASE r.kind = "local"
    <3>1. f = top /\ bound = now
      BY <1>11, <2>1
    <3> HIDE DEF f, bound
    <3>2. {b \in bound : b < p} \subseteq now
      BY <3>1
    <3> QED
      BY <1>6, <1>8, <1>10, <3>1, <3>2, ArraysGrow
  <2>2. CASE r.kind = "variable"
    BY <1>6, <1>8, <1>10, <2>2 DEF ArraysIn
  <2> QED
    BY <1>9, <2>1, <2>2 DEF IsVariable
<1>13. IsPrefix(Attributes(r.rest), Attributes(q.rest))
  BY <1>5, <1>6, <1>8, <1>9, <1>12, OverlapCovers
<1>14. Covers(VariableAccess(r), VariableAccess(q))
  BY <1>8, <1>13 DEF Covers, VariableAccess
<1>15. LoopsUntouched(f, bound, {VariableAccess(r)})
  <2>1. CASE k = 1
    BY <1>5, <2>1 DEF WriteOk
  <2>2. CASE k # 1
    <3>1. r.kind = "variable"
      BY <1>9, <1>11, <2>2 DEF IsVariable
    <3>2. VariableAccess(r) \in StateOf(facts[top].writes)
      BY <1>5, <3>1 DEF WriteOk, StateOf
    <3>3. LoopsUntouched(f, bound, StateOf(facts[top].writes))
      BY <1>7, <2>2 DEF Above
    <3> QED
      BY <3>2, <3>3, LoopsMonotone
  <2> QED
    BY <2>1, <2>2
<1>16. ~Covers(VariableAccess(r), VariableAccess(q))
  BY <1>8, <1>15 DEF LoopsUntouched, q
<1> QED
  BY <1>14, <1>16

---------------------------------------------------------------------------
(* The steps of a run.                                                     *)

(* All of this depends on the program alone. *)
LEMMA RunKeeps ==
  ASSUME program' = program
  PROVE  /\ \A F : Sound(F)' = Sound(F)
         /\ \A F, n, rank : RankedBy(F, n, rank)' = RankedBy(F, n, rank)
         /\ \A F, rank, s : StackOk(F, rank, s)' = StackOk(F, rank, s)
         /\ \A F, f, bound, t : TouchOk(F, f, bound, t)' = TouchOk(F, f, bound, t)
<1>1. \A F : Sound(F)' = Sound(F)
  BY FunctionsKeep, LinesKeep DEF Sound
<1>2. \A F, n, rank : RankedBy(F, n, rank)' = RankedBy(F, n, rank)
  BY NamesKeep DEF RankedBy
<1>3. \A f, line, bound : PlaceOk(f, line, bound)' = PlaceOk(f, line, bound)
  <2>1. \A f, line, bound : BoundOk(f, line, bound)' = BoundOk(f, line, bound)
    BY FunctionsKeep DEF BoundOk
  <2>2. \A f, line : NotEnded(f, line)' = NotEnded(f, line)
    BY DeclarationsKeep, FunctionsKeep, LinesKeep DEF NotEnded
  <2> QED
    BY <2>1, <2>2, FunctionsKeep DEF PlaceOk
<1>4. \A F, rank, a, b : Above(F, rank, a, b)' = Above(F, rank, a, b)
  BY DeclarationsKeep, FunctionsKeep, LinesKeep DEF Above
<1>5. \A F, rank, s : StackOk(F, rank, s)' = StackOk(F, rank, s)
  BY <1>3, <1>4 DEF StackOk, Frames
<1>6. \A F, f, bound, t : WrittenOk(F, f, bound, t)' = WrittenOk(F, f, bound, t)
  BY LinesKeep DEF WrittenOk
<1>7. \A F, f, bound, t : TouchOk(F, f, bound, t)' = TouchOk(F, f, bound, t)
  BY <1>6, DeclarationsKeep, FunctionsKeep DEF TouchOk
<1> QED
  BY <1>1, <1>2, <1>5, <1>7

(* A step that leaves the stack well is well. *)
LEMMA Steps ==
  ASSUME UNCHANGED <<program, facts>>, NEW n, NEW rank, RankedBy(facts, n, rank), NEW s, StackOk(facts, rank, s), stack' = s,
         IF s = <<>> THEN touched'.how \in {"nothing", "read"} ELSE TouchOk(facts, s[1].f, s[1].bound, touched')
  PROVE  RunOk'
<1>1. PICK t : t = touched'
  OBVIOUS
<1>2. PICK F : F = facts
  OBVIOUS
<1>3. RankedBy(F, n, rank)' /\ StackOk(F, rank, s)'
  BY <1>2, RunKeeps
<1>4. IF s = <<>> THEN t.how \in {"nothing", "read"} ELSE TouchOk(F, s[1].f, s[1].bound, t)'
  BY <1>1, <1>2, RunKeeps
<1>5. facts' = F
  BY <1>2
<1> QED
  BY <1>1, <1>3, <1>4, <1>5 DEF RunOk, IsIn

(* What holds of the innermost function. *)
LEMMA TopFacts ==
  ASSUME Sound(facts), RunOk, stack # <<>>
  PROVE  /\ Top.f \in DOMAIN facts /\ IsFunction(Top.f) /\ Top.f[1] # NoModule /\ FactsOk(facts, Top.f)
         /\ Top.part \in Nat /\ PlaceOk(Top.f, Top.line, Top.bound)
<1>1. PICK n, rank : RankedBy(facts, n, rank) /\ StackOk(facts, rank, stack)
  BY DEF RunOk
<1>2. stack \in Seq(Frames(facts)) /\ 1 \in DOMAIN stack
  BY <1>1 DEF StackOk
<1>3. stack[1] \in Frames(facts) /\ stack[1].f \in DOMAIN facts
  BY <1>1, <1>2, StackFrames
<1>4. stack[1].part \in Nat
  BY <1>3 DEF Frames
<1>5. PlaceOk(stack[1].f, stack[1].line, stack[1].bound)
  BY <1>1, <1>2 DEF StackOk
<1> QED
  BY <1>3, <1>4, <1>5 DEF Sound, Top

(* What holds of a part that is worked out next: it has been visited. *)
LEMMA PartFacts ==
  ASSUME Sound(facts), RunOk, NEW kinds, DoingPart(kinds)
  PROVE  /\ stack # <<>> /\ Top.line \in DOMAIN Body(Top.f) /\ Top.part + 1 \in DOMAIN Now.value
         /\ Now = Body(Top.f)[Top.line] /\ WellTyped(Now)
         /\ NowPart.s \in kinds
         /\ PartOk(facts, Top.f, Top.bound, facts[Top.f].writes, NowPart)
<1>1. /\ stack # <<>> /\ Top.line \in DOMAIN Body(Top.f) /\ Now = Body(Top.f)[Top.line]
      /\ Top.part < Len(Now.value) /\ NowPart.s \in kinds
  BY DEF DoingPart, InCode, Code, Now, NowPart
<1> DEFINE f == Top.f
<1> DEFINE k == Top.line
<1>2. f \in DOMAIN facts /\ IsFunction(f) /\ FactsOk(facts, f) /\ Top.part \in Nat /\ PlaceOk(f, k, Top.bound)
  BY <1>1, TopFacts
<1>3. WellTyped(Now) /\ WellNested(Body(f))
  BY <1>1, <1>2 DEF IsFunction
<1>4. Now.value \in Seq(Range(Now.value))
  BY <1>3 DEF WellTyped
<1>5. Len(Now.value) \in Nat /\ DOMAIN Now.value = 1 .. Len(Now.value)
  BY <1>4
<1>6. Top.part + 1 \in DOMAIN Now.value
  BY <1>1, <1>2, <1>5
<1>7. Now.s # "endfor"
  <2>1. Now.s \in Marks => Now.value = <<>>
    BY <1>1, <1>3 DEF WellNested
  <2>2. Now.value # <<>>
    BY <1>6
  <2> QED
    BY <2>1, <2>2 DEF Marks
<1>8. Top.bound = Scope(f, k)
  BY <1>1, <1>2, <1>7 DEF PlaceOk, BoundOk
<1>9. LineOk(facts, f, facts[f].writes, k)
  BY <1>1, <1>2 DEF FactsOk
<1>10. PartOk(facts, f, Scope(f, k), facts[f].writes, Now.value[Top.part + 1])
  BY <1>1, <1>6, <1>9 DEF LineOk
<1> QED
  BY <1>1, <1>3, <1>6, <1>8, <1>10 DEF NowPart

(* What holds of a statement that is carried out next. *)
LEMMA StatementFacts ==
  ASSUME Sound(facts), RunOk, NEW kinds, Doing(kinds)
  PROVE  /\ stack # <<>> /\ Top.line \in DOMAIN Body(Top.f)
         /\ Now = Body(Top.f)[Top.line] /\ WellTyped(Now)
         /\ Now.s \in kinds
         /\ Now.s # "endfor" => StatementOk(Top.f, Top.bound, facts[Top.f].writes, Now)
<1>1. stack # <<>> /\ Top.line \in DOMAIN Body(Top.f) /\ Now = Body(Top.f)[Top.line] /\ Now.s \in kinds
  BY DEF Doing, InCode, Code, Now
<1> DEFINE f == Top.f
<1> DEFINE k == Top.line
<1>2. f \in DOMAIN facts /\ IsFunction(f) /\ FactsOk(facts, f) /\ PlaceOk(f, k, Top.bound)
  BY <1>1, TopFacts
<1>3. WellTyped(Now)
  BY <1>1, <1>2 DEF IsFunction
<1>4. StatementOk(f, Scope(f, k), facts[f].writes, Now)
  BY <1>1, <1>2 DEF FactsOk, LineOk
<1>5. Now.s # "endfor" => Top.bound = Scope(f, k)
  BY <1>1, <1>2 DEF PlaceOk, BoundOk
<1> QED
  BY <1>1, <1>3, <1>4, <1>5

(* The innermost function goes to a place it may be at. *)
LEMMA Moves ==
  ASSUME Sound(facts), RunOk, stack # <<>>, UNCHANGED <<program, facts>>,
         NEW line, NEW part \in Nat, NEW bound, PlaceOk(Top.f, line, bound), TouchOk(facts, Top.f, bound, touched'),
         stack' = [stack EXCEPT ![1] = [f |-> Top.f, line |-> line, part |-> part, bound |-> bound]]
  PROVE  RunOk'
<1>1. PICK n, rank : RankedBy(facts, n, rank) /\ StackOk(facts, rank, stack)
  BY DEF RunOk
<1>2. PICK s : s = [stack EXCEPT ![1] = [f |-> stack[1].f, line |-> line, part |-> part, bound |-> bound]]
  OBVIOUS
<1>3. StackOk(facts, rank, s)
  BY <1>1, <1>2, TopMoves DEF Top
<1>4. stack \in Seq(Frames(facts)) /\ 1 \in DOMAIN stack
  BY <1>1 DEF StackOk
<1>5. s # <<>> /\ s[1].f = Top.f /\ s[1].bound = bound
  <2>1. 1 \in DOMAIN s /\ s[1] = [f |-> stack[1].f, line |-> line, part |-> part, bound |-> bound]
    BY <1>2, <1>4
  <2> QED
    BY <2>1 DEF Top
<1>6. stack' = s
  BY <1>2 DEF Top
<1> QED
  BY <1>1, <1>3, <1>5, <1>6, Steps

(* The same, for the end of a statement. *)
LEMMA GoesOk ==
  ASSUME Sound(facts), RunOk, stack # <<>>,
         NEW line, NEW bound, NEW touch, GoesTo(line, bound, touch), PlaceOk(Top.f, line, bound), TouchOk(facts, Top.f, bound, touch)
  PROVE  RunOk'
<1>1. /\ UNCHANGED <<program, facts>> /\ touched' = touch
      /\ stack' = [stack EXCEPT ![1] = [f |-> Top.f, line |-> line, part |-> 0, bound |-> bound]]
  BY DEF GoesTo, Ran, analysis
<1> QED
  BY <1>1, Moves

(* What is touched by looking a path up. *)
LEMMA Untouched ==
  ASSUME NEW F, NEW f, NEW bound
  PROVE  TouchOk(F, f, bound, NoTouch)
BY DEF TouchOk, NoTouch

(* A variable that is read. *)
LEMMA ReadTouch ==
  ASSUME NEW F, NEW f, NEW bound, NEW bound2, NEW r, AccessOk(f, bound, r)
  PROVE  TouchOk(F, f, bound2, Touch("read", r))
<1>1. Touch("read", r) = [how |-> "read", of |-> r.of, rest |-> r.rest]
  BY DEF AccessOk, Touch
<1>2. IsStateAccess(Touch("read", r)) => IsStateAccess(VariableAccess(r))
  BY <1>1 DEF IsStateAccess, VariableAccess
<1> QED
  BY <1>1, <1>2 DEF AccessOk, TouchOk

(* A variable that is written. *)
LEMMA WriteTouch ==
  ASSUME NEW F, NEW f, IsFunction(f), f[1] # NoModule, NEW bound, NEW path, IsPath(path),
         WriteOk(f, bound, F[f].writes, LookUp(f, bound, path))
  PROVE  TouchOk(F, f, bound, Touch("write", LookUp(f, bound, path)))
<1> DEFINE r == LookUp(f, bound, path)
<1>1. IsVariable(r)
  BY DEF WriteOk, AccessOk
<1>2. Touch("write", r) = [how |-> "write", of |-> r.of, rest |-> r.rest]
  BY <1>1 DEF Touch
<1>3. /\ r.rest \in Seq(STRING)
      /\ r.kind = "local" => r.of = <<f[1], f[2], path[1]>>
      /\ r.kind = "variable" => Len(r.of) = 2
  BY <1>1, ResolveFacts DEF LookUp
<1>4. WriteOk(f, bound, F[f].writes, r)
  OBVIOUS
<1> HIDE DEF r
<1>5. WrittenOk(F, f, bound, Touch("write", r))
  BY <1>2, <1>3, <1>4 DEF WrittenOk
<1>6. TouchOk(F, f, bound, Touch("write", r))
  BY <1>2, <1>5 DEF TouchOk
<1> QED
  BY <1>6 DEF r

(* A line that needs nothing but to be left for the next one. *)
LEMMA NextOk ==
  ASSUME Sound(facts), RunOk, NEW kinds, Doing(kinds), NEW touch,
         GoesTo(NextLine, BoundAfter(Top.f, Top.bound, Top.line), touch), Now.s \notin {"return", "raise", "endfor"},
         TouchOk(facts, Top.f, BoundAfter(Top.f, Top.bound, Top.line), touch)
  PROVE  RunOk'
<1>1. stack # <<>> /\ Top.line \in DOMAIN Body(Top.f) /\ Now = Body(Top.f)[Top.line]
  BY StatementFacts
<1>2. IsFunction(Top.f) /\ PlaceOk(Top.f, Top.line, Top.bound)
  BY <1>1, TopFacts
<1>3. PlaceOk(Top.f, Top.line + 1, BoundAfter(Top.f, Top.bound, Top.line))
  BY <1>1, <1>2, MoveOn
<1> QED
  BY <1>1, <1>3, GoesOk DEF NextLine

(* A part reads, or takes from, a variable that has a value. *)
LEMMA AccessStepOk ==
  ASSUME Sound(facts), RunOk, Access
  PROVE  RunOk'
<1> DEFINE r == Here(NowPart.to)
<1> DEFINE touch == Touch(IF NowPart.s = "pop" THEN "write" ELSE "read", r)
<1>1. DoingPart({"read", "pop"}) /\ stack' = PartDone /\ touched' = touch /\ UNCHANGED <<program, facts>>
  BY DEF Access, Ran, analysis
<1>2. /\ stack # <<>> /\ Top.part + 1 \in DOMAIN Now.value /\ WellTyped(Now) /\ NowPart.s \in {"read", "pop"}
      /\ PartOk(facts, Top.f, Top.bound, facts[Top.f].writes, NowPart)
  BY <1>1, PartFacts
<1>3. /\ Top.f \in DOMAIN facts /\ IsFunction(Top.f) /\ Top.f[1] # NoModule /\ Top.part \in Nat
      /\ PlaceOk(Top.f, Top.line, Top.bound)
  BY <1>2, TopFacts
<1>4. TouchOk(facts, Top.f, Top.bound, touch)
  <2>1. CASE NowPart.s = "read"
    <3>1. AccessOk(Top.f, Top.bound, r)
      BY <1>2, <2>1 DEF PartOk, Here
    <3> QED
      BY <2>1, <3>1, ReadTouch
  <2>2. CASE NowPart.s = "pop"
    <3>1. WriteOk(Top.f, Top.bound, facts[Top.f].writes, LookUp(Top.f, Top.bound, NowPart.to))
      BY <1>2, <2>2 DEF PartOk
    <3>2. IsPath(NowPart.to)
      BY <1>2, <2>2 DEF WellTyped, NowPart
    <3>3. TouchOk(facts, Top.f, Top.bound, Touch("write", LookUp(Top.f, Top.bound, NowPart.to)))
      BY <1>3, <3>1, <3>2, WriteTouch
    <3> QED
      BY <2>2, <3>3 DEF Here
  <2> QED
    BY <1>2, <2>1, <2>2
<1> HIDE DEF touch
<1>5. stack' = [stack EXCEPT ![1] = [f |-> Top.f, line |-> Top.line, part |-> Top.part + 1, bound |-> Top.bound]]
  BY <1>1 DEF PartDone
<1>6. Top.part + 1 \in Nat
  BY <1>3
<1>7. TouchOk(facts, Top.f, Top.bound, touched')
  BY <1>1, <1>4
<1> QED
  BY <1>1, <1>2, <1>3, <1>5, <1>6, <1>7, Moves

(* What is outside has a mutability the function may have. *)
LEMMA OutsideOk ==
  ASSUME Sound(facts), RunOk, Outside
  PROVE  RunOk'
<1>1. DoingPart({"outside"}) /\ stack' = PartDone /\ touched'.how = NowPart.mutability /\ UNCHANGED <<program, facts>>
  BY DEF Outside, Ran, analysis, NoTouch
<1>2. /\ stack # <<>> /\ Top.part + 1 \in DOMAIN Now.value /\ WellTyped(Now) /\ NowPart.s = "outside"
      /\ PartOk(facts, Top.f, Top.bound, facts[Top.f].writes, NowPart)
  BY <1>1, PartFacts
<1>3. Top.part \in Nat /\ PlaceOk(Top.f, Top.line, Top.bound)
  BY <1>2, TopFacts
<1>4. touched'.how \in Mutabilities /\ May(Top.f, touched'.how)
  BY <1>1, <1>2 DEF WellTyped, NowPart, PartOk
<1>5. TouchOk(facts, Top.f, Top.bound, touched')
  BY <1>4 DEF TouchOk
<1>6. stack' = [stack EXCEPT ![1] = [f |-> Top.f, line |-> Top.line, part |-> Top.part + 1, bound |-> Top.bound]]
  BY <1>1 DEF PartDone
<1>7. Top.part + 1 \in Nat
  BY <1>3
<1> QED
  BY <1>1, <1>2, <1>3, <1>5, <1>6, <1>7, Moves

(* A function is called that has facts, and it may be called here. *)
LEMMA CallFunctionOk ==
  ASSUME Sound(facts), RunOk, CallFunction
  PROVE  RunOk'
<1> DEFINE r == CalleeOf(Top.f, NowPart)
<1>1. DoingPart({"call"})
  BY DEF CallFunction
<1>2. /\ stack # <<>> /\ Top.line \in DOMAIN Body(Top.f) /\ Top.part + 1 \in DOMAIN Now.value
      /\ Now = Body(Top.f)[Top.line] /\ NowPart.s = "call"
      /\ PartOk(facts, Top.f, Top.bound, facts[Top.f].writes, NowPart)
  BY <1>1, PartFacts
<1>3. Top.part \in Nat /\ PlaceOk(Top.f, Top.line, Top.bound)
  BY <1>2, TopFacts
<1>4. IsCallOfInternal(r) /\ CallOk(facts, Top.f, Top.bound, facts[Top.f].writes, r.of)
  BY <1>2 DEF PartOk
<1>5. r.of \in CalledFunctions(Top.f)
  BY <1>2, <1>4, CalleeCalled DEF NowPart
<1>6. stack' = <<Frame(r.of)>> \o PartDone /\ touched' = NoTouch /\ UNCHANGED <<program, facts>>
  BY <1>4 DEF CallFunction, IsCallOfInternal, Ran, analysis
<1>7. PICK n, rank : RankedBy(facts, n, rank) /\ StackOk(facts, rank, stack)
  BY DEF RunOk
<1>8. PICK s : s = [stack EXCEPT ![1] = [f |-> stack[1].f, line |-> Top.line, part |-> Top.part + 1, bound |-> Top.bound]]
  OBVIOUS
<1>9. PartDone = s
  BY <1>8 DEF PartDone, Top
<1>10. StackOk(facts, rank, s)
  <2>1. Top.part + 1 \in Nat
    BY <1>3
  <2> QED
    BY <1>2, <1>3, <1>7, <1>8, <2>1, TopMoves DEF Top
<1>11. s # <<>> /\ s[1].f = Top.f /\ s[1].bound = Top.bound
  <2>1. stack \in Seq(Frames(facts))
    BY <1>7 DEF StackOk
  <2>2. 1 \in DOMAIN s /\ s[1] = [f |-> stack[1].f, line |-> Top.line, part |-> Top.part + 1, bound |-> Top.bound]
    BY <1>2, <1>8, <2>1
  <2> QED
    BY <2>2 DEF Top
<1>12. PICK t : t = <<Frame(r.of)>> \o s
  OBVIOUS
<1> HIDE DEF r
<1>13. StackOk(facts, rank, t)
  BY <1>4, <1>5, <1>7, <1>10, <1>11, <1>12, TopCalls
<1>14. t # <<>>
  <2>1. s \in Seq(Frames(facts))
    BY <1>10 DEF StackOk
  <2>2. Len(t) = 1 + Len(s) /\ Len(s) \in Nat
    BY <1>12, <2>1
  <2> QED
    BY <2>2
<1>15. TouchOk(facts, t[1].f, t[1].bound, touched')
  BY <1>6, Untouched
<1>16. stack' = t
  BY <1>6, <1>9, <1>12
<1> QED
  BY <1>6, <1>7, <1>13, <1>14, <1>15, <1>16, Steps

(* A variable is declared. *)
LEMMA BindNameOk ==
  ASSUME Sound(facts), RunOk, BindName
  PROVE  RunOk'
<1>1. Doing({"declare"}) /\ GoesTo(NextLine, Top.bound \union {Top.line}, NoTouch)
  BY DEF BindName
<1>2. Now.s = "declare" /\ Now = Body(Top.f)[Top.line]
  BY <1>1, StatementFacts
<1>3. BoundAfter(Top.f, Top.bound, Top.line) = Top.bound \union {Top.line}
  BY <1>2 DEF BoundAfter, Marks
<1> QED
  BY <1>1, <1>2, <1>3, Untouched, NextOk

(* A variable is assigned or appended to. *)
LEMMA WriteStepOk ==
  ASSUME Sound(facts), RunOk, Write
  PROVE  RunOk'
<1>1. Doing({"assign", "append"}) /\ GoesTo(NextLine, Top.bound, Touch("write", Here(Now.to)))
  BY DEF Write
<1>2. /\ stack # <<>> /\ Now.s \in {"assign", "append"} /\ Now = Body(Top.f)[Top.line] /\ WellTyped(Now)
      /\ StatementOk(Top.f, Top.bound, facts[Top.f].writes, Now)
  BY <1>1, StatementFacts
<1>3. IsFunction(Top.f) /\ Top.f[1] # NoModule
  BY <1>2, TopFacts
<1>4. BoundAfter(Top.f, Top.bound, Top.line) = Top.bound
  BY <1>2 DEF BoundAfter, Marks
<1>5. IsPath(Now.to) /\ WriteOk(Top.f, Top.bound, facts[Top.f].writes, LookUp(Top.f, Top.bound, Now.to))
  BY <1>2 DEF WellTyped, StatementOk
<1>6. TouchOk(facts, Top.f, Top.bound, Touch("write", Here(Now.to)))
  BY <1>3, <1>5, WriteTouch DEF Here
<1> QED
  BY <1>1, <1>2, <1>4, <1>6, NextOk

(* An expression is worked out for what it does. *)
LEMMA ExpressionOk ==
  ASSUME Sound(facts), RunOk, Expression
  PROVE  RunOk'
<1>1. Doing({"expr"}) /\ GoesTo(NextLine, Top.bound, NoTouch)
  BY DEF Expression
<1>2. Now.s = "expr" /\ Now = Body(Top.f)[Top.line]
  BY <1>1, StatementFacts
<1>3. BoundAfter(Top.f, Top.bound, Top.line) = Top.bound
  BY <1>2 DEF BoundAfter, Marks
<1> QED
  BY <1>1, <1>2, <1>3, Untouched, NextOk

(* An event is logged. *)
LEMMA LogOk ==
  ASSUME Sound(facts), RunOk, Log
  PROVE  RunOk'
<1> DEFINE touch == [NoTouch EXCEPT !.how = "log"]
<1>1. Doing({"log"}) /\ GoesTo(NextLine, Top.bound, touch)
  BY DEF Log
<1>2. Now.s = "log" /\ Now = Body(Top.f)[Top.line] /\ StatementOk(Top.f, Top.bound, facts[Top.f].writes, Now)
  BY <1>1, StatementFacts
<1>3. BoundAfter(Top.f, Top.bound, Top.line) = Top.bound
  BY <1>2 DEF BoundAfter, Marks
<1>4. TouchOk(facts, Top.f, Top.bound, touch)
  BY <1>2 DEF StatementOk, TouchOk, NoTouch
<1> QED
  BY <1>1, <1>2, <1>3, <1>4, NextOk

(* Either side of a branch is entered, ... *)
LEMMA BranchOk ==
  ASSUME Sound(facts), RunOk, Branch
  PROVE  RunOk'
<1>1. Doing({"if"})
  BY DEF Branch
<1>2. stack # <<>> /\ Top.line \in DOMAIN Body(Top.f) /\ Now.s = "if" /\ Now = Body(Top.f)[Top.line]
  BY <1>1, StatementFacts
<1>3. IsFunction(Top.f) /\ PlaceOk(Top.f, Top.line, Top.bound)
  BY <1>2, TopFacts
<1>4. CASE GoesTo(NextLine, Top.bound, NoTouch)
  <2>1. BoundAfter(Top.f, Top.bound, Top.line) = Top.bound
    BY <1>2 DEF BoundAfter, Marks
  <2> QED
    BY <1>1, <1>2, <1>4, <2>1, Untouched, NextOk
<1>5. CASE GoesTo(Now.until + 1, Top.bound, NoTouch)
  <2>1. PlaceOk(Top.f, Now.until + 1, Top.bound)
    BY <1>2, <1>3, MovePast DEF Opening
  <2> QED
    BY <1>2, <1>5, <2>1, Untouched, GoesOk
<1> QED
  BY <1>4, <1>5 DEF Branch

(* ... left, ... *)
LEMMA EndOfSideOk ==
  ASSUME Sound(facts), RunOk, EndOfSide
  PROVE  RunOk'
<1>1. Doing({"else"}) /\ GoesTo(Now.until + 1, Leaving(Top.f, Top.bound, Top.line), NoTouch)
  BY DEF EndOfSide
<1>2. stack # <<>> /\ Top.line \in DOMAIN Body(Top.f) /\ Now.s = "else" /\ Now = Body(Top.f)[Top.line]
  BY <1>1, StatementFacts
<1>3. IsFunction(Top.f) /\ PlaceOk(Top.f, Top.line, Top.bound)
  BY <1>2, TopFacts
<1>4. PlaceOk(Top.f, Now.until + 1, Leaving(Top.f, Top.bound, Top.line))
  BY <1>2, <1>3, MovePast DEF Opening
<1> QED
  BY <1>1, <1>2, <1>4, Untouched, GoesOk

(* ... and the branch is over. *)
LEMMA EndOfBranchOk ==
  ASSUME Sound(facts), RunOk, EndOfBranch
  PROVE  RunOk'
<1>1. Doing({"endif"}) /\ GoesTo(NextLine, Leaving(Top.f, Top.bound, Top.line), NoTouch)
  BY DEF EndOfBranch
<1>2. Now.s = "endif" /\ Now = Body(Top.f)[Top.line]
  BY <1>1, StatementFacts
<1>3. BoundAfter(Top.f, Top.bound, Top.line) = Leaving(Top.f, Top.bound, Top.line)
  BY <1>2 DEF BoundAfter, Marks
<1> QED
  BY <1>1, <1>2, <1>3, Untouched, NextOk

(* A loop is entered or passed by, ... *)
LEMMA LoopOk ==
  ASSUME Sound(facts), RunOk, Loop
  PROVE  RunOk'
<1> DEFINE touch == IF Now.over = <<>> THEN NoTouch ELSE Touch("read", Here(Now.over))
<1>1. Doing({"for"})
  BY DEF Loop
<1>2. /\ stack # <<>> /\ Top.line \in DOMAIN Body(Top.f) /\ Now.s = "for" /\ Now = Body(Top.f)[Top.line]
      /\ StatementOk(Top.f, Top.bound, facts[Top.f].writes, Now)
  BY <1>1, StatementFacts
<1>3. IsFunction(Top.f) /\ PlaceOk(Top.f, Top.line, Top.bound)
  BY <1>2, TopFacts
<1>4. ASSUME NEW bound
      PROVE  TouchOk(facts, Top.f, bound, touch)
  <2>1. CASE Now.over = <<>>
    BY <2>1, Untouched
  <2>2. CASE Now.over # <<>>
    <3>1. AccessOk(Top.f, Top.bound, Here(Now.over))
      BY <1>2, <2>2 DEF StatementOk, Here
    <3> QED
      BY <2>2, <3>1, ReadTouch
  <2> QED
    BY <2>1, <2>2
<1>5. GoesTo(NextLine, Top.bound \union {Top.line}, touch) \/ GoesTo(Now.until + 1, Top.bound, touch)
  BY DEF Loop
<1> HIDE DEF touch
<1>6. CASE GoesTo(NextLine, Top.bound \union {Top.line}, touch)
  <2>1. BoundAfter(Top.f, Top.bound, Top.line) = Top.bound \union {Top.line}
    BY <1>2 DEF BoundAfter, Marks
  <2> QED
    BY <1>1, <1>2, <1>4, <1>6, <2>1, NextOk
<1>7. CASE GoesTo(Now.until + 1, Top.bound, touch)
  <2>1. PlaceOk(Top.f, Now.until + 1, Top.bound)
    BY <1>2, <1>3, MovePast DEF Opening
  <2> QED
    BY <1>2, <1>4, <1>7, <2>1, GoesOk
<1> QED
  BY <1>5, <1>6, <1>7

(* ... entered again or left at its end, ... *)
LEMMA AgainOk ==
  ASSUME Sound(facts), RunOk, Again
  PROVE  RunOk'
<1>1. Doing({"endfor"})
  BY DEF Again
<1>2. stack # <<>> /\ Top.line \in DOMAIN Body(Top.f) /\ Now.s = "endfor" /\ Now = Body(Top.f)[Top.line]
  BY <1>1, StatementFacts
<1>3. IsFunction(Top.f) /\ PlaceOk(Top.f, Top.line, Top.bound)
  BY <1>2, TopFacts
<1>4. /\ PlaceOk(Top.f, Top.line + 1, Leaving(Top.f, Top.bound, Top.line))
      /\ PlaceOk(Top.f, Now.mate + 1, {p \in Top.bound : p <= Now.mate})
  BY <1>2, <1>3, MoveAgain
<1>5. \/ GoesTo(Now.mate + 1, {p \in Top.bound : p <= Now.mate}, NoTouch)
      \/ GoesTo(Top.line + 1, Leaving(Top.f, Top.bound, Top.line), NoTouch)
  BY DEF Again, NextLine
<1> QED
  BY <1>2, <1>4, <1>5, Untouched, GoesOk

(* ... or cut short. *)
LEMMA JumpOk ==
  ASSUME Sound(facts), RunOk, Break \/ Continue
  PROVE  RunOk'
<1>1. Doing(Jumps)
  BY DEF Break, Continue, Doing, Jumps
<1>2. /\ stack # <<>> /\ Top.line \in DOMAIN Body(Top.f) /\ Now.s \in Jumps /\ Now = Body(Top.f)[Top.line]
      /\ Now.s # "endfor" => StatementOk(Top.f, Top.bound, facts[Top.f].writes, Now)
  BY <1>1, StatementFacts
<1>3. IsFunction(Top.f) /\ PlaceOk(Top.f, Top.line, Top.bound)
  BY <1>2, TopFacts
<1>4. Now.until # 0
  BY <1>2 DEF StatementOk, Jumps
<1>5. /\ PlaceOk(Top.f, Now.until + 1, Leaving(Top.f, Top.bound, Now.until))
      /\ PlaceOk(Top.f, Now.until, Top.bound)
  BY <1>2, <1>3, <1>4, MoveJump
<1>6. GoesTo(Now.until + 1, Leaving(Top.f, Top.bound, Now.until), NoTouch) \/ GoesTo(Now.until, Top.bound, NoTouch)
  BY DEF Break, Continue
<1> QED
  BY <1>2, <1>5, <1>6, Untouched, GoesOk

(* A function with a result does not come to its end without one. *)
LEMMA LeaveOk ==
  ASSUME Sound(facts), RunOk, Return \/ FallOff
  PROVE  RunOk'
<1>1. stack # <<>> /\ stack' = Tail(stack) /\ UNCHANGED <<program, facts>>
  BY DEF Return, FallOff, Doing, InCode, Ran, analysis
<1>2. touched' = NoTouch
  <2>1. CASE Return
    BY <2>1 DEF Return, Ran
  <2>2. CASE FallOff
    <3>1. IsFunction(Top.f) /\ PlaceOk(Top.f, Top.line, Top.bound)
      BY <1>1, TopFacts
    <3>2. Len(Body(Top.f)) \in Nat /\ DOMAIN Body(Top.f) = 1 .. Len(Body(Top.f))
      BY <3>1, BodyLines
    <3>3. Top.line \notin DOMAIN Body(Top.f)
      BY <2>2 DEF FallOff, Code
    <3>4. Top.line = Len(Body(Top.f)) + 1
      BY <3>1, <3>2, <3>3 DEF PlaceOk
    <3>5. ~The(Top.f).result
      BY <3>1, <3>3, <3>4 DEF PlaceOk, NotEnded
    <3> QED
      BY <2>2, <3>5 DEF FallOff, Ran
  <2> QED
    BY <2>1, <2>2
<1>3. PICK n, rank : RankedBy(facts, n, rank) /\ StackOk(facts, rank, stack)
  BY DEF RunOk
<1>4. PICK s : s = Tail(stack)
  OBVIOUS
<1>5. StackOk(facts, rank, s)
  BY <1>1, <1>3, <1>4, TopLeaves
<1>6. IF s = <<>> THEN touched'.how \in {"nothing", "read"} ELSE TouchOk(facts, s[1].f, s[1].bound, touched')
  <2>1. touched'.how = "nothing"
    BY <1>2 DEF NoTouch
  <2> QED
    BY <2>1 DEF TouchOk
<1> QED
  BY <1>1, <1>3, <1>4, <1>5, <1>6, Steps

(* Whatever a program does, but for what undoes it all, it runs on so. *)
LEMMA ExecuteOk ==
  ASSUME Sound(facts), RunOk, Execute, ~Raise
  PROVE  RunOk'
BY AccessStepOk, OutsideOk, CallFunctionOk, BindNameOk, WriteStepOk, ExpressionOk, LogOk, BranchOk, EndOfSideOk, EndOfBranchOk,
   LoopOk, AgainOk, JumpOk, LeaveOk DEF Execute

---------------------------------------------------------------------------
(* The analysis leaves functions that can be run.                          *)

Acyclic == \E n, rank : RankedBy(facts, n, rank)

(* A function is analysed after those it calls. *)
LEMMA FinishBodyAcyclic ==
  ASSUME AnalysisOk, Acyclic, FinishBody
  PROVE  Acyclic'
<1> DEFINE f == visit.f
<1>1. f # <<>> /\ DOMAIN facts' = DOMAIN facts \union {f} /\ program' = program
  BY DEF FinishBody
<1>2. f \notin DOMAIN facts /\ CalledFunctions(f) \subseteq DOMAIN facts
  BY <1>1 DEF AnalysisOk, VisitOk, VisitSound
<1>3. PICK n, rank : RankedBy(facts, n, rank)
  BY DEF Acyclic
<1>4. PICK F, G : F = facts /\ G = facts'
  OBVIOUS
<1> HIDE DEF f
<1> DEFINE more == [g \in DOMAIN F \union {f} |-> IF g = f THEN n ELSE rank[g]]
<1>5. n \in Nat /\ rank \in [DOMAIN F -> 0 .. n - 1]
  BY <1>3, <1>4 DEF RankedBy
<1>6. \A g \in DOMAIN F : rank[g] \in 0 .. n - 1
  BY <1>5
<1>7. more \in [DOMAIN F \union {f} -> 0 .. (n + 1) - 1]
  BY <1>5, <1>6
<1>8. /\ more[f] = n /\ \A g \in DOMAIN F : more[g] = rank[g]
  BY <1>2, <1>4
<1> HIDE DEF more
<1>9. ASSUME NEW g \in DOMAIN F \union {f}, NEW h \in CalledFunctions(g)
      PROVE  more[h] < more[g]
  <2>1. CASE g = f
    BY <1>2, <1>4, <1>5, <1>6, <1>8, <1>9, <2>1
  <2>2. CASE g \in DOMAIN F
    <3>1. h \in DOMAIN F
      BY <1>4, <1>9, <2>2 DEF AnalysisOk, FactsOk
    <3>2. rank[h] < rank[g]
      BY <1>3, <1>4, <1>9, <2>2 DEF RankedBy
    <3> QED
      BY <1>8, <2>2, <3>1, <3>2
  <2> QED
    BY <1>9, <2>1, <2>2
<1>10. RankedBy(G, n + 1, more)
  BY <1>1, <1>4, <1>5, <1>7, <1>9 DEF RankedBy
<1>11. PICK k, r : RankedBy(G, k, r)
  BY <1>10
<1>12. RankedBy(G, k, r)'
  BY <1>1, <1>11, RunKeeps
<1>13. facts' = G
  BY <1>4
<1> QED
  BY <1>12, <1>13 DEF Acyclic

(* No other step of the analysis changes the facts. *)
LEMMA AnalyzeAcyclic ==
  ASSUME AnalysisOk, Acyclic, Analyze
  PROVE  Acyclic'
<1>1. CASE FinishBody
  BY <1>1, FinishBodyAcyclic
<1>2. CASE ~FinishBody
  <2>1. UNCHANGED <<program, facts>>
    BY <1>2 DEF Analyze, ResolveImports, AnalyzeModules, BeginModule, FinishModule, AnalyzeFunctions, StartBody, VisitPart,
                VisitStatement, ValidateTarget, known
  <2>2. PICK n, rank : RankedBy(facts, n, rank)
    BY DEF Acyclic
  <2>3. PICK F : F = facts
    OBVIOUS
  <2>4. RankedBy(F, n, rank)' /\ facts' = F
    BY <2>1, <2>2, <2>3, RunKeeps
  <2> QED
    BY <2>4 DEF Acyclic
<1> QED
  BY <1>1, <1>2

(* What the analysis has found out holds of functions of the program. *)
LEMMA AnalysisSound ==
  ASSUME AnalysisOk, WellFormed(program)
  PROVE  Sound(facts)
BY DEF AnalysisOk, WellFormed, Sound, IsFunction

(* The analysis begins with nothing found out. *)
LEMMA RestartOk ==
  ASSUME RestartAnalysis
  PROVE  AnalysisOk' /\ Acyclic'
<1>1. /\ done' = {} /\ stage' = "imports" /\ exported' = {} /\ visit' = Idle /\ facts' = <<>>
  BY DEF RestartAnalysis
<1>2. (DOMAIN facts)' = {}
  BY <1>1
<1>3. Started' = {} /\ VisitOk'
  BY <1>1 DEF Started, VisitOk, Idle
<1>4. (DOMAIN visit)' = {"f", "line", "part", "bound", "ended", "reads", "writes", "used"}
  BY <1>1 DEF Idle
<1>5. AnalysisOk'
  BY <1>1, <1>2, <1>3, <1>4 DEF AnalysisOk
<1>6. RankedBy(facts, 0, [f \in {} |-> 0])'
  BY <1>2 DEF RankedBy
<1> QED
  BY <1>5, <1>6 DEF Acyclic

---------------------------------------------------------------------------
(* The invariant, and what follows from it.                                *)

Quiet == stack = <<>> /\ touched = NoTouch
Analysing == {"mirror", "source"}
Transacting == {"deploying", "called"}
Inv ==
  /\ source \in Programs
  /\ phase \in Analysing \union Transacting \union {"rejected", "accepted", "deployed", "reverted"}
  /\ phase \notin Transacting => Quiet
  /\ phase \notin Analysing \union {"rejected"} => ~rejected /\ stage = "analysed"
  /\ phase \notin {"mirror", "rejected"} => program = source /\ (~rejected => AnalysisOk /\ Acyclic)
  /\ phase \in Transacting => RunOk

(* It holds at first. *)
LEMMA InvInit ==
  ASSUME Init
  PROVE  Inv
BY DEF Init, Inv, Quiet, Analysing, Transacting

(* The invariant depends on no more of the analysis than this. *)
LEMMA AnalysedKeeps ==
  ASSUME UNCHANGED <<program, analysis>>, AnalysisOk, Acyclic
  PROVE  AnalysisOk' /\ Acyclic'
<1>1. UNCHANGED <<program, stage, module, rejected, done, exported, facts, visit>>
  BY DEF analysis, known
<1>2. VisitOk'
  <2>1. PICK v, F : v = visit /\ F = facts
    OBVIOUS
  <2>2. v.f # <<>> => stage = "functions" /\ v.f \in Functions(module) /\ VisitSound(F, v)
    BY <2>1 DEF AnalysisOk, VisitOk
  <2>3. v.f # <<>> => VisitSound(F, v)'
    BY <1>1, <2>2, VisitKeeps
  <2>4. v.f # <<>> => (v.f \in Functions(module))'
    BY <1>1, <2>2, FunctionsKeep
  <2>5. visit' = v /\ facts' = F
    BY <1>1, <2>1
  <2> QED
    BY <1>1, <2>2, <2>3, <2>4, <2>5 DEF VisitOk
<1>3. AnalysisOk'
  BY <1>1, <1>2, AnalysisKeeps
<1>4. PICK n, rank : RankedBy(facts, n, rank)
  BY DEF Acyclic
<1>5. PICK F : F = facts
  OBVIOUS
<1>6. RankedBy(F, n, rank)' /\ facts' = F
  BY <1>1, <1>4, <1>5, RunKeeps
<1> QED
  BY <1>3, <1>6 DEF Acyclic

(* While the program is run, nothing but the run goes on. *)
LEMMA InvRun ==
  ASSUME Inv, phase \notin Analysing \union {"rejected"}, UNCHANGED <<program, analysis, source>>,
         phase' \notin Analysing \union {"rejected"},
         phase' \in Transacting \union {"accepted", "deployed", "reverted"},
         phase' \in Transacting => RunOk', phase' \notin Transacting => Quiet'
  PROVE  Inv'
<1>1. program = source /\ ~rejected /\ stage = "analysed" /\ AnalysisOk /\ Acyclic
  BY DEF Inv, Analysing
<1>2. AnalysisOk' /\ Acyclic'
  BY <1>1, AnalysedKeeps
<1>3. UNCHANGED <<program, source, rejected, stage>>
  BY DEF analysis
<1> QED
  BY <1>1, <1>2, <1>3 DEF Inv, Analysing

(* What is known of a program that is accepted. *)
LEMMA InvSound ==
  ASSUME Inv, phase \notin Analysing \union {"rejected"}
  PROVE  /\ Sound(facts) /\ AnalysisOk /\ Acyclic /\ Main \in done /\ WellFormed(program)
<1>1. program = source /\ source \in Programs /\ AnalysisOk /\ Acyclic /\ stage = "analysed"
  BY DEF Inv, Analysing
<1>2. WellFormed(program)
  BY <1>1, ProgramsAssumption
<1> QED
  BY <1>1, <1>2, AnalysisSound DEF AnalysisOk

(* Steps of the analysis keep the invariant, ... *)
LEMMA InvAnalysis ==
  ASSUME Inv, Analysis
  PROVE  Inv'
<1>1. /\ phase \in Analysing /\ phase' = phase /\ Analyze
      /\ UNCHANGED <<source, stack, touched>>
  BY DEF Analysis, Analysing, execution
<1>2. ~rejected /\ program' = program
  BY <1>1 DEF Analyze, ResolveImports, AnalyzeModules, BeginModule, FinishModule, AnalyzeFunctions, StartBody, VisitPart,
              VisitStatement, FinishBody, ValidateTarget, At
<1>3. Quiet'
  BY <1>1 DEF Inv, Quiet, Analysing, Transacting
<1>4. ASSUME phase = "source", ~rejected'
      PROVE  AnalysisOk' /\ Acyclic'
  <2>1. program = source /\ source \in Programs /\ AnalysisOk /\ Acyclic
    BY <1>2, <1>4 DEF Inv
  <2>2. WellFormed(program)
    BY <2>1, ProgramsAssumption
  <2> QED
    BY <1>1, <1>4, <2>1, <2>2, AnalyzeOk, AnalyzeAcyclic
<1> QED
  BY <1>1, <1>2, <1>3, <1>4 DEF Inv, Analysing, Transacting

(* ... and so does the beginning of another one, ... *)
LEMMA InvAnalyzeSource ==
  ASSUME Inv, AnalyzeSource
  PROVE  Inv'
<1>1. phase = "mirror" /\ phase' = "source" /\ program' = source /\ RestartAnalysis /\ UNCHANGED <<source, stack, touched>>
  BY DEF AnalyzeSource, execution
<1>2. AnalysisOk' /\ Acyclic'
  BY <1>1, RestartOk
<1>3. Quiet'
  BY <1>1 DEF Inv, Quiet, Transacting
<1> QED
  BY <1>1, <1>2, <1>3 DEF Inv, Analysing, Transacting

(* ... its end, ... *)
LEMMA InvVerdict ==
  ASSUME Inv, Verdict
  PROVE  Inv'
<1>1. /\ phase = "source" /\ AnalysisOver /\ phase' = IF rejected THEN "rejected" ELSE "accepted"
      /\ UNCHANGED <<program, analysis, source, stack, touched>>
  BY DEF Verdict, execution
<1>2. Quiet' /\ program = source
  BY <1>1 DEF Inv, Quiet, Transacting
<1>3. ASSUME ~rejected
      PROVE  AnalysisOk' /\ Acyclic' /\ stage' = "analysed" /\ ~rejected'
  <2>1. AnalysisOk /\ Acyclic /\ stage = "analysed"
    BY <1>1, <1>3 DEF Inv, AnalysisOver
  <2> QED
    BY <1>1, <1>3, <2>1, AnalysedKeeps DEF analysis
<1> QED
  BY <1>1, <1>2, <1>3 DEF Inv, Analysing, Transacting

(* A transaction begins with one function, or with a getter. *)
LEMMA BeginOk ==
  ASSUME Sound(facts), Acyclic, UNCHANGED <<program, facts>>,
         \/ stack' = <<>> /\ touched'.how \in {"nothing", "read"}
         \/ touched' = NoTouch /\ \E f \in DOMAIN facts : stack' = <<Frame(f)>>
  PROVE  RunOk'
<1>1. PICK n, rank : RankedBy(facts, n, rank)
  BY DEF Acyclic
<1>2. CASE stack' = <<>> /\ touched'.how \in {"nothing", "read"}
  <2>1. PICK s : s = <<>>
    OBVIOUS
  <2>2. StackOk(facts, rank, s)
    BY <2>1 DEF StackOk
  <2> QED
    BY <1>1, <1>2, <2>1, <2>2, Steps
<1>3. CASE touched' = NoTouch /\ \E f \in DOMAIN facts : stack' = <<Frame(f)>>
  <2>1. PICK f \in DOMAIN facts : stack' = <<Frame(f)>>
    BY <1>3
  <2>2. PICK s : s = <<Frame(f)>>
    OBVIOUS
  <2>3. Frame(f) \in Frames(facts)
    BY DEF Frame, Frames
  <2>4. s \in Seq(Frames(facts)) /\ DOMAIN s = {1} /\ s[1] = Frame(f) /\ s # <<>>
    BY <2>2, <2>3
  <2>5. PlaceOk(f, 1, {})
    BY FirstPlace DEF Sound
  <2>6. Frame(f).f = f /\ Frame(f).line = 1 /\ Frame(f).bound = {}
    BY DEF Frame
  <2>7. StackOk(facts, rank, s)
    <3>1. \A j \in DOMAIN s : PlaceOk(s[j].f, s[j].line, s[j].bound)
      BY <2>4, <2>5, <2>6
    <3>2. \A i, j \in DOMAIN s : ~(i < j)
      BY <2>4
    <3> QED
      BY <2>4, <3>1, <3>2 DEF StackOk
  <2> QED
    BY <1>1, <1>3, <2>1, <2>2, <2>4, <2>7, Untouched, Steps
<1> QED
  BY <1>2, <1>3

(* ... the deployment, ... *)
LEMMA InvDeploy ==
  ASSUME Inv, Deploy
  PROVE  Inv'
<1>1. /\ phase = "accepted" /\ phase' = "deploying" /\ UNCHANGED <<program, analysis, source, facts, touched>>
      /\ stack' = IF HasConstructor(Main) THEN <<Frame(<<Main, Constructor>>)>> ELSE <<>>
  BY DEF Deploy, analysis
<1>2. Sound(facts) /\ AnalysisOk /\ Acyclic /\ Main \in done
  BY <1>1, InvSound DEF Analysing
<1>3. touched' = NoTouch
  BY <1>1 DEF Inv, Quiet, Transacting
<1>4. HasConstructor(Main) => <<Main, Constructor>> \in DOMAIN facts
  BY <1>2 DEF HasConstructor, AnalysisOk
<1>5. NoTouch.how = "nothing"
  BY DEF NoTouch
<1>6. RunOk'
  BY <1>1, <1>2, <1>3, <1>4, <1>5, BeginOk
<1> QED
  BY <1>1, <1>6, InvRun DEF Analysing, Transacting

(* ... its end, ... *)
LEMMA InvDeployed ==
  ASSUME Inv, Deployed
  PROVE  Inv'
<1>1. phase = "deploying" /\ phase' = "deployed" /\ UNCHANGED <<program, analysis, source>>
  BY DEF Deployed
<1>2. Quiet'
  BY DEF Deployed, Quiet
<1> QED
  BY <1>1, <1>2, InvRun DEF Analysing, Transacting

(* What is exposed has been analysed, if it is a function. *)
LEMMA ExposedAnalysed ==
  ASSUME AnalysisOk, Main \in done, NEW f \in Exposed, The(f).d = "function"
  PROVE  f \in DOMAIN facts
<1>1. Functions(Main) \subseteq DOMAIN facts
  BY DEF AnalysisOk
<1>2. CASE f \in Getters(Main)
  <2>1. PICK d \in Declarations(Main, {"variable"}) : f = <<Main, d.name>>
    BY <1>2 DEF Getters
  <2>2. d \in Declared(Main, d.name)
    BY <2>1 DEF Declared, Declarations, Positions, Named
  <2>3. f[1] = Main /\ f[2] = d.name
    BY <2>1
  <2>4. The(f) \in Declared(Main, d.name) /\ The(f).name = d.name
    BY <2>2, <2>3, DeclaredFacts
  <2>5. The(f) \in Declarations(Main, {"function"})
    BY <2>4 DEF Declared, Declarations, Positions
  <2>6. f \in Functions(Main)
    BY <2>1, <2>4, <2>5 DEF Functions
  <2> QED
    BY <1>1, <2>6
<1>3. CASE \E e \in ExportedBy(Main) : f = e.of
  BY <1>3 DEF ExportedBy, AnalysisOk
<1> QED
  BY <1>1, <1>2, <1>3 DEF Exposed

(* ... a call, ... *)
LEMMA InvCall ==
  ASSUME Inv, Call
  PROVE  Inv'
<1>1. phase = "deployed" /\ phase' = "called" /\ UNCHANGED <<program, analysis, source, facts>>
  BY DEF Call, analysis
<1>2. Sound(facts) /\ AnalysisOk /\ Acyclic /\ Main \in done
  BY <1>1, InvSound DEF Analysing
<1>3. PICK f \in Exposed :
        IF The(f).d = "function" THEN stack' = <<Frame(f)>> /\ touched' = NoTouch
        ELSE stack' = <<>> /\ touched' = [how |-> "read", of |-> f, rest |-> <<>>]
  BY DEF Call
<1>4. The(f).d = "function" => f \in DOMAIN facts
  BY <1>2, ExposedAnalysed
<1>5. RunOk'
  BY <1>1, <1>2, <1>3, <1>4, BeginOk
<1> QED
  BY <1>1, <1>5, InvRun DEF Analysing, Transacting

(* ... whatever runs, ... *)
LEMMA InvExecute ==
  ASSUME Inv, Execute
  PROVE  Inv'
<1>1. phase \in Transacting /\ UNCHANGED <<program, analysis, source>> /\ (~Raise => phase' = phase)
  BY DEF Execute, Access, Outside, CallFunction, BindName, Write, Expression, Log, Branch, EndOfSide, EndOfBranch, Loop, Again, Break,
         Continue, Return, FallOff, Raise, Ran, GoesTo, DoingPart, Doing, InCode, Transacting
<1>2. phase \notin Analysing \union {"rejected"}
  BY <1>1 DEF Analysing, Transacting
<1>3. Sound(facts) /\ RunOk
  BY <1>1, <1>2, InvSound DEF Inv
<1>4. CASE Raise
  <2>1. phase' = "reverted" /\ Quiet'
    BY <1>4 DEF Raise, Quiet
  <2> QED
    BY <1>1, <1>2, <2>1, InvRun DEF Analysing, Transacting
<1>5. CASE ~Raise
  <2>1. RunOk' /\ phase' \in Transacting
    BY <1>1, <1>3, <1>5, ExecuteOk
  <2> QED
    BY <1>1, <1>2, <2>1, InvRun DEF Analysing, Transacting
<1> QED
  BY <1>4, <1>5

(* ... and what changes nothing. *)
LEMMA InvStutters ==
  ASSUME Inv, UNCHANGED vars
  PROVE  Inv'
<1>1. UNCHANGED <<program, analysis, source, phase, stack, touched>>
  BY DEF vars, execution
<1>2. UNCHANGED <<rejected, stage, facts>>
  BY <1>1 DEF analysis
<1>3. phase \in Transacting => RunOk'
  <2> SUFFICES ASSUME phase \in Transacting
               PROVE  RunOk'
    OBVIOUS
  <2>1. PICK n, rank : RankedBy(facts, n, rank) /\ StackOk(facts, rank, stack)
    BY DEF Inv, RunOk
  <2>2. PICK s : s = stack
    OBVIOUS
  <2>3. IF s = <<>> THEN touched'.how \in {"nothing", "read"} ELSE TouchOk(facts, s[1].f, s[1].bound, touched')
    BY <1>1, <2>2 DEF Inv, RunOk, IsIn
  <2>4. stack' = s
    BY <1>1, <2>2
  <2> QED
    BY <1>1, <1>2, <2>1, <2>2, <2>3, <2>4, Steps
<1>4. AnalysisOk /\ Acyclic => AnalysisOk' /\ Acyclic'
  BY <1>1, AnalysedKeeps
<1>5. Quiet => Quiet'
  BY <1>1 DEF Quiet
<1> QED
  BY <1>1, <1>2, <1>3, <1>4, <1>5 DEF Inv

(* What is known while a program is analysed and while it runs holds       *)
(* throughout. *)
THEOREM AlwaysInv == Spec => []Inv
<1>1. Init => Inv
  BY InvInit
<1>2. Inv /\ [Next]_vars => Inv'
  BY InvAnalysis, InvAnalyzeSource, InvVerdict, InvDeploy, InvDeployed, InvCall, InvExecute, InvStutters DEF Next
<1> QED
  BY <1>1, <1>2, PTL DEF Spec

(* The properties hold of what is idle, and of what runs. *)
LEMMA InvProperties ==
  ASSUME Inv
  PROVE  ModifiersKept /\ NeverStuck /\ LoopVariableFixed
<1>1. CASE phase \in Transacting
  <2>1. Sound(facts) /\ RunOk
    BY <1>1, InvSound DEF Inv, Analysing, Transacting
  <2> QED
    BY <2>1, RunModifiersKept, RunNeverStuck, RunLoopVariableFixed
<1>2. CASE phase \notin Transacting
  <2>1. stack = <<>> /\ touched.how = "nothing"
    BY <1>2 DEF Inv, Quiet, NoTouch
  <2>2. DOMAIN stack = {}
    BY <2>1
  <2> QED
    BY <2>1, <2>2 DEF ModifiersKept, NeverStuck, LoopVariableFixed, Running, IsIn
<1> QED
  BY <1>1, <1>2

(* A function of an accepted program keeps to its decorator, whatever it   *)
(* calls. *)
THEOREM AlwaysModifiersKept == Spec => []ModifiersKept
BY AlwaysInv, InvProperties, PTL

(* A run of an accepted program never comes to a name that has no value,   *)
(* to a call of what is no function, or to the end of a function that has  *)
(* a result. *)
THEOREM AlwaysNeverStuck == Spec => []NeverStuck
BY AlwaysInv, InvProperties, PTL

(* While a loop of an accepted program runs over an array, nothing writes  *)
(* it. *)
THEOREM AlwaysLoopVariableFixed == Spec => []LoopVariableFixed
BY AlwaysInv, InvProperties, PTL
=============================================================================
