------------------------ MODULE InitializationProofs ------------------------
(***************************************************************************)
(* State that a run touches belongs to a module that is initialized once,  *)
(* and the constructors of these have each run once when the contract can  *)
(* be called: for every set of programs, of any size.                      *)
(*                                                                         *)
(* To the invariant of AcceptedContractsProofs this adds three.  While a   *)
(* program is analysed, OwnAnalysis holds: whatever a function reads of    *)
(* the state, itself or below, is among its reads, and each import on the  *)
(* way to what it reads or calls is named by a module that is analysed, as *)
(* used or as initialized (Held).  What the target does not initialize it  *)
(* may not use, so that a way that begins in the contract stays among what *)
(* is initialized below it (HeldOwned); that these are all, however long   *)
(* the chains are, is a fact about sets that grow until they are closed    *)
(* (InitializedAll).  While it is run, OwnRun holds: whatever is on the    *)
(* stack is in one of these modules, or touches no state below.  And while *)
(* it is deployed, Constructing holds: the constructor called at a place   *)
(* has begun, once, exactly if the one that calls it has and has that      *)
(* place behind it wherever it runs.  In a constructor that is straight no *)
(* jump goes over such a place, or back before it; of two constructors     *)
(* only one calls a third, and at one place, because that one is           *)
(* initialized by one declaration.                                         *)
(***************************************************************************)
EXTENDS AcceptedContractsProofs

(* A set that grows by what is next to its members, n times.               *)
Grows(S, next, n, g) == g = [k \in 0 .. n |-> IF k = 0 THEN S ELSE g[k - 1] \union UNION {next[x] : x \in g[k - 1]}]

(* There is such a sequence of sets. *)
LEMMA GrowsSome ==
  ASSUME NEW S, NEW next, NEW n \in Nat
  PROVE  \E g : Grows(S, next, n, g)
<1> DEFINE Value(g, k) == IF k = 0 THEN S ELSE g[k - 1] \union UNION {next[x] : x \in g[k - 1]}
<1> DEFINE Found(j, g) == g = [k \in 0 .. j |-> Value(g, k)]
<1> DEFINE G == {j \in 0 .. n : \E g : Found(j, g)}
<1>1. 0 \in G
  <2> DEFINE g == [k \in 0 .. 0 |-> S]
  <2>1. \A k \in 0 .. 0 : Value(g, k) = S
    OBVIOUS
  <2>2. [k \in 0 .. 0 |-> Value(g, k)] = g
    BY <2>1
  <2> HIDE DEF g
  <2> QED
    BY <2>2
<1>2. ASSUME NEW j \in 0 .. n - 1, j \in G
      PROVE  j + 1 \in G
  <2>1. PICK g : Found(j, g)
    BY <1>2
  <2> DEFINE h == [k \in 0 .. j + 1 |-> IF k \in 0 .. j THEN g[k] ELSE g[j] \union UNION {next[x] : x \in g[j]}]
  <2>2. ASSUME NEW k \in 0 .. j + 1
        PROVE  h[k] = Value(h, k)
    <3>1. CASE k \in 0 .. j
      <4>1. h[k] = g[k] /\ (k # 0 => k - 1 \in 0 .. j + 1 /\ k - 1 \in 0 .. j /\ h[k - 1] = g[k - 1])
        BY <3>1
      <4>2. g[k] = Value(g, k)
        BY <2>1, <3>1
      <4> HIDE DEF h
      <4> QED
        BY <4>1, <4>2
    <3>2. CASE k = j + 1
      <4>1. h[k] = g[j] \union UNION {next[x] : x \in g[j]} /\ h[j] = g[j] /\ k # 0 /\ k - 1 = j
        BY <3>2
      <4> HIDE DEF h
      <4> QED
        BY <3>2, <4>1
    <3> QED
      BY <3>1, <3>2
  <2>3. h = [k \in 0 .. j + 1 |-> h[k]]
    OBVIOUS
  <2>4. Found(j + 1, h)
    <3> HIDE DEF h, Value
    <3> QED
      BY <2>2, <2>3
  <2> HIDE DEF Found, h
  <2> QED
    BY <2>4
<1>3. n \in G
  <2> HIDE DEF G
  <2> QED
    BY <1>1, <1>2, UpTo
<1> QED
  BY <1>3 DEF Grows

(* It stays in what is closed under the steps. *)
LEMMA GrowsIn ==
  ASSUME NEW S, NEW next, NEW n \in Nat, NEW g, Grows(S, next, n, g), NEW T, S \subseteq T, \A x \in T : next[x] \subseteq T
  PROVE  \A k \in 0 .. n : g[k] \subseteq T
<1> DEFINE G == {k \in 0 .. n : g[k] \subseteq T}
<1>1. g[0] = S /\ \A k \in 1 .. n : g[k] = g[k - 1] \union UNION {next[x] : x \in g[k - 1]}
  BY DEF Grows
<1>2. 0 \in G
  BY <1>1
<1>3. ASSUME NEW k \in 0 .. n - 1, k \in G
      PROVE  k + 1 \in G
  <2>1. k + 1 \in 1 .. n /\ (k + 1) - 1 = k
    OBVIOUS
  <2>2. g[k + 1] = g[k] \union UNION {next[x] : x \in g[k]}
    BY <1>1, <2>1
  <2> QED
    BY <1>3, <2>1, <2>2
<1>4. 0 .. n \subseteq G
  <2> HIDE DEF G
  <2> QED
    BY <1>2, <1>3, UpTo
<1> QED
  BY <1>4

(* In a finite set it comes to an end: nothing is next to what it has not. *)
LEMMA GrowsToAll ==
  ASSUME NEW D, IsFiniteSet(D), NEW n \in Nat, Cardinality(D) <= n,
         NEW S \in SUBSET D, NEW next, \A x \in D : next[x] \subseteq D, NEW g, Grows(S, next, n, g)
  PROVE  S \subseteq g[n] /\ g[n] \subseteq D /\ \A x \in g[n] : next[x] \subseteq g[n]
<1>1. g[0] = S /\ \A k \in 1 .. n : g[k] = g[k - 1] \union UNION {next[x] : x \in g[k - 1]}
  BY DEF Grows
<1>2. \A k \in 0 .. n : g[k] \subseteq D
  BY GrowsIn
<1> DEFINE Done(k) == \A x \in g[k] : next[x] \subseteq g[k]
<1> DEFINE G == {k \in 0 .. n : S \subseteq g[k] /\ (Done(k) \/ Cardinality(g[k]) >= k)}
<1>3. \A k \in 0 .. n : IsFiniteSet(g[k]) /\ Cardinality(g[k]) \in Nat /\ Cardinality(g[k]) <= Cardinality(D)
  BY <1>2, FS_Subset, FS_CardinalityType
<1>4. 0 \in G
  BY <1>1, <1>3
<1>5. ASSUME NEW k \in 0 .. n - 1, k \in G
      PROVE  k + 1 \in G
  <2>1. k + 1 \in 1 .. n /\ (k + 1) - 1 = k /\ k + 1 \in 0 .. n /\ k \in 0 .. n
    OBVIOUS
  <2>2. g[k + 1] = g[k] \union UNION {next[x] : x \in g[k]}
    BY <1>1, <2>1
  <2>3. CASE Done(k)
    <3>1. g[k + 1] = g[k]
      BY <2>2, <2>3
    <3> QED
      BY <1>5, <2>1, <2>3, <3>1
  <2>4. CASE ~Done(k)
    <3>1. g[k] \subseteq g[k + 1] /\ g[k] # g[k + 1]
      BY <2>2, <2>4
    <3>2. Cardinality(g[k]) < Cardinality(g[k + 1])
      BY <1>3, <2>1, <3>1, FS_Subset
    <3> QED
      BY <1>3, <1>5, <2>1, <2>4, <3>1, <3>2
  <2> QED
    BY <2>3, <2>4
<1>6. n \in G
  <2> HIDE DEF G
  <2> QED
    BY <1>4, <1>5, UpTo
<1>7. Cardinality(g[n]) >= n => g[n] = D
  BY <1>2, <1>3, FS_Subset, FS_CardinalityType
<1> QED
  BY <1>2, <1>6, <1>7

---------------------------------------------------------------------------
(* Modules.                                                                *)

(* What the modules along a path are. *)
ChainOk(S, m, path, r, n, at) ==
  /\ n \in 0 .. Len(path) /\ at[0] = m /\ \A k \in 0 .. n : at[k] \in S
  /\ DOMAIN r.chain = 1 .. n
  /\ \A k \in 1 .. n : /\ r.chain[k] = <<at[k - 1], path[k]>> /\ at[k] = ModuleOf(r.chain[k])
                       /\ \E d \in Declarations(at[k - 1], {"import"}) : d.name = path[k]
  /\ r.kind = "module" => n = Len(path) /\ n # 0 /\ r.of = r.chain[n]
  /\ r.kind \in {"variable", "function"} => r.of = <<at[n], path[n + 1]>> /\ Declared(r.of[1], r.of[2]) # {}
Imported(S) == NoModule \notin S /\ \A x \in S : MembersSound(x) /\ ImportsOf(x) \subseteq S

(* What is imported is a module. *)
LEMMA ImportedFacts ==
  ASSUME NEW S, Imported(S), NEW x \in S, NEW name, ImportedAs(x, name) # NoModule
  PROVE  /\ ImportedAs(x, name) = ModuleOf(<<x, name>>) /\ ImportedAs(x, name) \in S
         /\ \E d \in Declarations(x, {"import"}) : d.name = name
<1>1. PICK d \in Declared(x, name) : d.d = "import"
  BY DEF ImportedAs
<1>2. ImportedAs(x, name) = ModuleOf(<<x, name>>)
  BY DEF ImportedAs
<1>3. d \in Declarations(x, {"import"}) /\ d.name = name
  BY <1>1 DEF Declared, Declarations, Positions
<1>4. The(<<x, name>>) = d
  BY <1>1, TheUnique DEF Imported
<1>5. d.of \in ImportsOf(x)
  BY <1>3 DEF ImportsOf
<1> QED
  BY <1>2, <1>3, <1>4, <1>5 DEF ModuleOf, Imported

(* A path passes through modules that are imported, one by the other. *)
LEMMA Chains ==
  ASSUME NEW S, Imported(S), NEW m \in S, NEW path \in Seq(STRING), MemberOf(m, path).kind # "unknown"
  PROVE  \E n, at : ChainOk(S, m, path, MemberOf(m, path), n, at)
<1> DEFINE at == Along(m, path)
<1> DEFINE n == Hops(m, path)
<1> DEFINE chain == [k \in 1 .. n |-> <<at[k - 1], path[k]>>]
<1> DEFINE of == <<at[n], path[n + 1]>>
<1> DEFINE r == MemberOf(m, path)
<1>1. m # NoModule /\ Len(path) \in Nat
  BY DEF Imported
<1>2. n \in 0 .. Len(path) /\ at[n] # NoModule
  BY <1>1, HopsFacts
<1>3. at[0] = m /\ \A k \in 1 .. Len(path) : at[k] = ImportedAs(at[k - 1], path[k])
  BY AlongFacts
<1>4. /\ path # <<>>
      /\ n = Len(path) => r = [kind |-> "module", of |-> chain[n], chain |-> chain, rest |-> <<>>]
      /\ n # Len(path) => /\ Declared(of[1], of[2]) # {}
                          /\ r = [kind |-> The(of).d, of |-> of, chain |-> chain, rest |-> SubSeq(path, n + 2, Len(path))]
  BY DEF MemberOf, Unknown
<1>5. The(of).d \in Named \/ n = Len(path)
  BY <1>4, DeclaredFacts
<1> HIDE DEF at, n
<1>6. DOMAIN chain = 1 .. n /\ \A k \in 1 .. n : chain[k] = <<at[k - 1], path[k]>>
  OBVIOUS
<1> HIDE DEF chain
<1>7. /\ r.chain = chain
      /\ r.kind = "module" => n = Len(path) /\ n # 0 /\ r.of = chain[n]
      /\ r.kind \in {"variable", "function"} => r.of = of /\ Declared(of[1], of[2]) # {}
  <2>1. CASE n = Len(path)
    <3>1. n # 0
      BY <1>4, <2>1
    <3> QED
      BY <1>4, <2>1, <3>1
  <2>2. CASE n # Len(path)
    <3>1. The(of).d # "module"
      BY <1>5, <2>2 DEF Named
    <3> HIDE DEF of
    <3> QED
      BY <1>4, <2>2, <3>1
  <2> QED
    BY <2>1, <2>2
<1> HIDE DEF r
<1>8. \A k \in 0 .. n : at[n - k] # NoModule
  <2> DEFINE G == {k \in 0 .. n : at[n - k] # NoModule}
  <2>1. 0 \in G
    BY <1>1, <1>2
  <2>2. ASSUME NEW k \in 0 .. n - 1, k \in G
        PROVE  k + 1 \in G
    <3>1. n - k \in 1 .. Len(path) /\ (n - k) - 1 = n - (k + 1)
      BY <1>1, <1>2
    <3>2. at[n - k] = ImportedAs(at[n - (k + 1)], path[n - k]) /\ at[n - k] # NoModule
      BY <1>3, <2>2, <3>1
    <3> QED
      BY <1>2, <3>1, <3>2 DEF ImportedAs
  <2>3. n \in Nat
    BY <1>1, <1>2
  <2>4. 0 .. n \subseteq G
    <3> HIDE DEF G
    <3> QED
      BY <2>1, <2>2, <2>3, UpTo
  <2> QED
    BY <2>4
<1>9. \A k \in 0 .. n : at[k] # NoModule
  <2> SUFFICES ASSUME NEW k \in 0 .. n
               PROVE  at[k] # NoModule
    OBVIOUS
  <2>1. n - k \in 0 .. n /\ n - (n - k) = k
    BY <1>1, <1>2
  <2> QED
    BY <1>8, <2>1
<1>10. \A k \in 0 .. n : at[k] \in S
  <2> DEFINE G == {k \in 0 .. n : at[k] \in S}
  <2>1. 0 \in G
    BY <1>1, <1>2, <1>3
  <2>2. ASSUME NEW k \in 0 .. n - 1, k \in G
        PROVE  k + 1 \in G
    <3>1. k + 1 \in 1 .. Len(path) /\ (k + 1) - 1 = k /\ k + 1 \in 0 .. n
      BY <1>1, <1>2
    <3>2. at[k] \in S
      BY <2>2
    <3>3. at[k + 1] = ImportedAs(at[k], path[k + 1]) /\ at[k + 1] # NoModule
      BY <1>3, <1>9, <3>1
    <3>4. ImportedAs(at[k], path[k + 1]) \in S
      BY <3>2, <3>3, ImportedFacts
    <3> QED
      BY <3>1, <3>3, <3>4
  <2>3. n \in Nat
    BY <1>1, <1>2
  <2>4. 0 .. n \subseteq G
    <3> HIDE DEF G
    <3> QED
      BY <2>1, <2>2, <2>3, UpTo
  <2> QED
    BY <2>4
<1>11. ASSUME NEW k \in 1 .. n
       PROVE  /\ chain[k] = <<at[k - 1], path[k]>> /\ at[k] = ModuleOf(chain[k])
              /\ \E d \in Declarations(at[k - 1], {"import"}) : d.name = path[k]
  <2>1. k \in 1 .. Len(path) /\ k - 1 \in 0 .. n /\ k \in 0 .. n
    BY <1>1, <1>2
  <2>2. ImportedAs(at[k - 1], path[k]) # NoModule /\ at[k] = ImportedAs(at[k - 1], path[k])
    BY <1>3, <1>9, <2>1
  <2>3. at[k - 1] \in S
    BY <1>10, <2>1
  <2>4. /\ ImportedAs(at[k - 1], path[k]) = ModuleOf(<<at[k - 1], path[k]>>)
        /\ \E d \in Declarations(at[k - 1], {"import"}) : d.name = path[k]
    BY <2>2, <2>3, ImportedFacts
  <2> QED
    BY <1>6, <2>2, <2>4
<1>12. ChainOk(S, m, path, r, n, at)
  BY <1>2, <1>3, <1>6, <1>7, <1>10, <1>11 DEF ChainOk
<1> QED
  BY <1>12 DEF r

---------------------------------------------------------------------------
(* What is owned.                                                          *)

(* The modules of the contract: those that are initialized, and it itself. *)
Owned == InitializedBelow(Main) \union {Main}

(* A module names an import as one it uses or initializes. *)
Names(m, info) ==
  \/ \E c \in PathsIn(m, "uses") : InfoAt(m, c).of = info
  \/ \E k \in InitializesAt(m) : InitializedInfo(m, k).of = info
NamesSound(m) ==
  /\ \A c \in PathsIn(m, "uses") : InfoAt(m, c).kind = "module"
  /\ \A k \in InitializesAt(m) : InitializedInfo(m, k).kind = "module"

(* Every module on the way is named by one of S. *)
Held(S, r) == \A k \in DOMAIN r.chain : \E x \in S : Names(x, r.chain[k])

(* What is named is a module, by a path of imports. *)
LEMMA NamedPaths ==
  ASSUME WellFormed(program), NEW m \in DOMAIN program
  PROVE  /\ \A c \in PathsIn(m, "uses") \union PathsIn(m, "exports") : /\ IsPath(program[m][c[1]].paths[c[2]]) /\ c[1] \in DOMAIN program[m]
                                                /\ c[2] \in DOMAIN program[m][c[1]].paths
         /\ \A k \in InitializesAt(m) : IsPath(program[m][k].path) /\ k \in DOMAIN program[m]
BY DEF WellFormed, PathsIn, InitializesAt, Positions

(* What is used or initialized by a module that names only modules is a   *)
(* module that it imports, directly or not. *)
LEMMA NamesModules ==
  ASSUME WellFormed(program), NEW S, Imported(S), S \subseteq DOMAIN program, NEW m \in S, NamesSound(m)
  PROVE  UsedModules(m) \subseteq S /\ InitializedModules(m) \subseteq S
<1>1. ASSUME NEW path, IsPath(path), MemberOf(m, path).kind = "module"
      PROVE  ModuleOf(MemberOf(m, path).of) \in S
  <2>1. path \in Seq(STRING)
    BY <1>1 DEF IsPath
  <2>2. PICK n, at : ChainOk(S, m, path, MemberOf(m, path), n, at)
    BY <1>1, <2>1, Chains
  <2>3. n \in 1 .. n /\ n \in 0 .. n
    BY <1>1, <2>1, <2>2 DEF ChainOk
  <2> QED
    BY <1>1, <2>2, <2>3 DEF ChainOk
<1>2. ASSUME NEW c \in PathsIn(m, "uses")
      PROVE  ModuleOf(InfoAt(m, c).of) \in S
  BY <1>1, NamedPaths DEF NamesSound, InfoAt
<1>3. ASSUME NEW k \in InitializesAt(m)
      PROVE  ModuleOf(InitializedInfo(m, k).of) \in S
  BY <1>1, NamedPaths DEF NamesSound, InitializedInfo
<1> QED
  BY <1>2, <1>3 DEF UsedModules, InitializedModules

(* What a module that lends nothing names is its own. *)
LEMMA NamesItsOwn ==
  ASSUME WellFormed(program), NEW S, Imported(S), S \subseteq DOMAIN program, NEW m \in S, NamesSound(m), ~Lends(m),
         NEW info, Names(m, info)
  PROVE  info[1] = m
<1>1. ASSUME NEW path, IsPath(path), ~(Len(path) > 1), MemberOf(m, path).kind = "module"
      PROVE  MemberOf(m, path).of[1] = m
  <2>1. path \in Seq(STRING) /\ Len(path) = 1
    <3>1. path \in Seq(STRING) /\ path # <<>>
      BY <1>1 DEF IsPath
    <3>2. Len(path) \in Nat /\ Len(path) # 0
      BY <3>1
    <3>3. \A l \in Nat : l # 0 /\ ~(l > 1) => l = 1
      OBVIOUS
    <3>4. Len(path) = 1
      BY <1>1, <3>2, <3>3, Zenon
    <3> QED
      BY <3>1, <3>4
  <2>2. PICK n, at : ChainOk(S, m, path, MemberOf(m, path), n, at)
    BY <1>1, <2>1, Chains
  <2>3. n = 1 /\ 1 \in 1 .. n
    BY <1>1, <2>1, <2>2 DEF ChainOk
  <2>4. MemberOf(m, path).of = <<at[1 - 1], path[1]>> /\ at[0] = m
    BY <1>1, <2>2, <2>3 DEF ChainOk
  <2> QED
    BY <2>4
<1>2. ASSUME NEW c \in PathsIn(m, "uses")
      PROVE  InfoAt(m, c).of[1] = m
  <2>1. program[m][c[1]] \in Declarations(m, {"uses"})
    BY DEF PathsIn, Declarations
  <2>2. IsPath(program[m][c[1]].paths[c[2]]) /\ c[2] \in DOMAIN program[m][c[1]].paths
    BY NamedPaths
  <2>3. ~(Len(program[m][c[1]].paths[c[2]]) > 1)
    BY <2>1, <2>2 DEF Lends
  <2> QED
    BY <1>1, <2>2, <2>3 DEF NamesSound, InfoAt
<1>3. ASSUME NEW k \in InitializesAt(m)
      PROVE  InitializedInfo(m, k).of[1] = m
  <2>1. program[m][k] \in Declarations(m, {"initializes"})
    BY DEF InitializesAt, Declarations
  <2>2. IsPath(program[m][k].path)
    BY NamedPaths
  <2>3. ~(Len(program[m][k].path) > 1)
    BY <2>1 DEF Lends
  <2> QED
    BY <1>1, <2>2, <2>3 DEF NamesSound, InitializedInfo
<1> QED
  BY <1>2, <1>3 DEF Names

(* What is known of modules when the target is accepted: S has them.       *)
Settled(S) ==
  /\ WellFormed(program) /\ Main \in S /\ Imported(S) /\ S \subseteq DOMAIN program
  /\ \A m \in S : NamesSound(m)

(* What is initialized below the target is what the target initializes,    *)
(* and what any of these does. *)
LEMMA InitializedAll ==
  ASSUME NEW S, Settled(S)
  PROVE  /\ InitializedModules(Main) \subseteq InitializedBelow(Main) /\ InitializedBelow(Main) \subseteq S
         /\ \A x \in InitializedBelow(Main) : InitializedModules(x) \subseteq InitializedBelow(Main)
         /\ \A T : InitializedModules(Main) \subseteq T /\ (\A x \in T : InitializedModules(x) \subseteq T) => InitializedBelow(Main) \subseteq T
<1> DEFINE N == Cardinality(DOMAIN program)
<1> DEFINE first == InitializedModules(Main)
<1> DEFINE Value(g, k) == IF k = 0 THEN first ELSE g[k - 1] \union UNION {InitializedModules(x) : x \in g[k - 1]}
<1> DEFINE Found(g) == g = [k \in 0 .. N |-> Value(g, k)]
<1>1. \A x \in S : InitializedModules(x) \subseteq S
  BY NamesModules DEF Settled
<1>2. IsFiniteSet(DOMAIN program) /\ N \in Nat /\ IsFiniteSet(S) /\ Cardinality(S) <= N /\ first \in SUBSET S
  BY <1>1, FS_Subset, FS_CardinalityType DEF Settled, WellFormed
<1> DEFINE next == [x \in S |-> InitializedModules(x)]
<1>3. \A x \in S : next[x] = InitializedModules(x)
  OBVIOUS
<1> HIDE DEF next, N, first
<1>4. ASSUME NEW g, Grows(first, next, N, g)
      PROVE  Found(g)
  <2>1. \A k \in 0 .. N : g[k] \subseteq S
    BY <1>1, <1>2, <1>3, <1>4, GrowsIn
  <2>2. \A k \in 0 .. N : g[k] = Value(g, k)
    <3> SUFFICES ASSUME NEW k \in 0 .. N
                 PROVE  g[k] = Value(g, k)
      OBVIOUS
    <3>1. g[k] = IF k = 0 THEN first ELSE g[k - 1] \union UNION {next[x] : x \in g[k - 1]}
      BY <1>4 DEF Grows
    <3>2. CASE k = 0
      BY <3>1, <3>2
    <3>3. CASE k # 0
      <4>1. k - 1 \in 0 .. N
        BY <1>2, <3>3
      <4>2. g[k - 1] \subseteq S
        BY <2>1, <4>1
      <4>3. UNION {next[x] : x \in g[k - 1]} = UNION {InitializedModules(x) : x \in g[k - 1]}
        BY <1>3, <4>2
      <4> QED
        BY <3>1, <3>3, <4>3
    <3> QED
      BY <3>2, <3>3
  <2>3. g = [k \in 0 .. N |-> g[k]]
    BY <1>4 DEF Grows
  <2> QED
    BY <2>2, <2>3
<1>5. ASSUME NEW g, Found(g)
      PROVE  Grows(first, next, N, g)
  <2>1. g[0] = first /\ \A k \in 1 .. N : g[k] = g[k - 1] \union UNION {InitializedModules(x) : x \in g[k - 1]}
    BY <1>2, <1>5
  <2> DEFINE G == {k \in 0 .. N : g[k] \subseteq S}
  <2>2. 0 \in G
    BY <1>2, <2>1
  <2>3. ASSUME NEW k \in 0 .. N - 1, k \in G
        PROVE  k + 1 \in G
    <3>1. k + 1 \in 1 .. N /\ (k + 1) - 1 = k /\ k + 1 \in 0 .. N
      BY <1>2
    <3>2. g[k + 1] = g[k] \union UNION {InitializedModules(x) : x \in g[k]}
      BY <2>1, <3>1
    <3> QED
      BY <1>1, <2>3, <3>1, <3>2
  <2>4. 0 .. N \subseteq G
    <3> HIDE DEF G
    <3> QED
      BY <1>2, <2>2, <2>3, UpTo
  <2>5. \A k \in 1 .. N : g[k] = g[k - 1] \union UNION {next[x] : x \in g[k - 1]}
    <3> SUFFICES ASSUME NEW k \in 1 .. N
                 PROVE  g[k] = g[k - 1] \union UNION {next[x] : x \in g[k - 1]}
      OBVIOUS
    <3>1. k - 1 \in 0 .. N
      BY <1>2
    <3>2. g[k - 1] \subseteq S
      BY <2>4, <3>1
    <3> QED
      BY <1>3, <2>1, <3>2
  <2>6. g = [k \in 0 .. N |-> g[k]]
    BY <1>5
  <2>7. \A k \in 0 .. N : g[k] = IF k = 0 THEN first ELSE g[k - 1] \union UNION {next[x] : x \in g[k - 1]}
    <3> SUFFICES ASSUME NEW k \in 0 .. N
                 PROVE  g[k] = IF k = 0 THEN first ELSE g[k - 1] \union UNION {next[x] : x \in g[k - 1]}
      OBVIOUS
    <3>1. CASE k = 0
      BY <2>1, <3>1
    <3>2. CASE k # 0
      <4>1. k \in 1 .. N
        BY <1>2, <3>2
      <4> QED
        BY <2>5, <3>2, <4>1
    <3> QED
      BY <3>1, <3>2
  <2> HIDE DEF Found
  <2> QED
    BY <2>6, <2>7 DEF Grows
<1>6. \E g : Found(g)
  <2>1. PICK g : Grows(first, next, N, g)
    BY <1>2, GrowsSome
  <2> HIDE DEF Found
  <2> QED
    BY <1>4, <2>1
<1> DEFINE grown == CHOOSE g : Found(g)
<1>7. InitializedBelow(Main) = grown[N]
  BY DEF InitializedBelow, Closure, first, N
<1>8. Found(grown)
  BY <1>6
<1> HIDE DEF Found, grown
<1>9. Grows(first, next, N, grown)
  BY <1>5, <1>8
<1>10. first \subseteq grown[N] /\ grown[N] \subseteq S /\ \A x \in grown[N] : next[x] \subseteq grown[N]
  BY <1>1, <1>2, <1>3, <1>9, GrowsToAll
<1>11. ASSUME NEW T, first \subseteq T, \A x \in T : InitializedModules(x) \subseteq T
       PROVE  grown[N] \subseteq T
  <2> DEFINE U == T \intersect S
  <2>1. first \subseteq U /\ \A x \in U : next[x] \subseteq U
    BY <1>1, <1>2, <1>3, <1>11
  <2>2. N \in 0 .. N
    BY <1>2
  <2>3. U \subseteq T
    OBVIOUS
  <2> HIDE DEF U
  <2>4. grown[N] \subseteq U
    BY <1>2, <1>9, <2>1, <2>2, GrowsIn
  <2> QED
    BY <2>3, <2>4
<1>12. \A x \in grown[N] : InitializedModules(x) \subseteq grown[N]
  BY <1>3, <1>10
<1> QED
  BY <1>7, <1>10, <1>11, <1>12 DEF first

(* Where the target is accepted, every module that is used by one of the   *)
(* contract is initialized in it. *)
LEMMA UsedAll ==
  ASSUME NEW S, Settled(S), TargetSound, NEW m \in Owned
  PROVE  UsedModules(m) \subseteq InitializedBelow(Main)
<1> DEFINE N == Cardinality(DOMAIN program)
<1> DEFINE Value(g, k) == IF k = 0 THEN {Main} ELSE g[k - 1] \union UNION {DependsOn(x) : x \in g[k - 1]}
<1> DEFINE Found(g) == g = [k \in 0 .. N |-> Value(g, k)]
<1>1. \A x \in S : DependsOn(x) \subseteq S
  BY NamesModules DEF Settled, DependsOn
<1>2. IsFiniteSet(DOMAIN program) /\ N \in Nat /\ IsFiniteSet(S) /\ Cardinality(S) <= N /\ {Main} \in SUBSET S
  BY FS_Subset, FS_CardinalityType DEF Settled, WellFormed
<1> DEFINE next == [x \in S |-> DependsOn(x)]
<1>3. \A x \in S : next[x] = DependsOn(x)
  OBVIOUS
<1> HIDE DEF next
<1>4. PICK h : Grows({Main}, next, N, h)
  BY <1>2, GrowsSome
<1> HIDE DEF N
<1>5. h[0] = {Main} /\ \A k \in 1 .. N : h[k] = h[k - 1] \union UNION {next[x] : x \in h[k - 1]}
  BY <1>2, <1>4 DEF Grows
<1>6. \A k \in 0 .. N : h[k] \subseteq S
  BY <1>1, <1>2, <1>3, <1>4, GrowsIn
<1>7. ASSUME NEW k \in 1 .. N
      PROVE  h[k] = h[k - 1] \union UNION {DependsOn(x) : x \in h[k - 1]}
  <2>1. k - 1 \in 0 .. N
    BY <1>2
  <2>2. h[k - 1] \subseteq S
    BY <1>6, <2>1
  <2> QED
    BY <1>3, <1>5, <2>2
<1>8. Found(h)
  <2>1. ASSUME NEW k \in 0 .. N
        PROVE  h[k] = Value(h, k)
    <3>1. CASE k = 0
      BY <1>5, <3>1
    <3>2. CASE k # 0
      <4>1. k \in 1 .. N
        BY <1>2, <3>2
      <4> QED
        BY <1>7, <3>2, <4>1
    <3> QED
      BY <3>1, <3>2
  <2>2. h = [k \in 0 .. N |-> h[k]]
    BY <1>4 DEF Grows
  <2> HIDE DEF Value
  <2> QED
    BY <2>1, <2>2
<1> DEFINE grown == CHOOSE g : Found(g)
<1>9. UsedBelow(Main) = UNION {UsedModules(x) : x \in grown[N]}
  BY DEF UsedBelow, Closure, N
<1>10. Found(grown)
  <2> HIDE DEF Found
  <2> QED
    BY <1>8
<1> HIDE DEF grown
<1>11. grown[0] = {Main} /\ \A k \in 1 .. N : grown[k] = grown[k - 1] \union UNION {DependsOn(x) : x \in grown[k - 1]}
  BY <1>2, <1>10
<1> HIDE DEF Found, Value
<1>12. grown[N] = h[N]
  <2> DEFINE G == {k \in 0 .. N : grown[k] = h[k]}
  <2>1. 0 \in G
    <3>1. 0 \in 0 .. N
      BY <1>2
    <3>2. grown[0] = h[0]
      BY <1>5, <1>11
    <3> QED
      BY <3>1, <3>2
  <2>2. ASSUME NEW k \in 0 .. N - 1, k \in G
        PROVE  k + 1 \in G
    <3>1. k + 1 \in 1 .. N /\ (k + 1) - 1 = k /\ k + 1 \in 0 .. N
      BY <1>2
    <3>2. grown[k + 1] = grown[k] \union UNION {DependsOn(x) : x \in grown[k]}
      BY <1>11, <3>1
    <3>3. h[k + 1] = h[k] \union UNION {DependsOn(x) : x \in h[k]}
      BY <1>7, <3>1
    <3> QED
      BY <2>2, <3>1, <3>2, <3>3
  <2>3. 0 .. N \subseteq G
    <3> HIDE DEF G
    <3> QED
      BY <1>2, <2>1, <2>2, UpTo
  <2> QED
    BY <1>2, <2>3
<1>13. Main \in h[N] /\ h[N] \subseteq S /\ \A x \in h[N] : DependsOn(x) \subseteq h[N]
  <2>1. PICK first : first = {Main}
    OBVIOUS
  <2>2. first \in SUBSET S /\ Grows(first, next, N, h) /\ \A x \in S : next[x] \subseteq S
    BY <1>1, <1>2, <1>3, <1>4, <2>1
  <2>3. first \subseteq h[N] /\ h[N] \subseteq S /\ \A x \in h[N] : next[x] \subseteq h[N]
    BY <1>2, <2>2, GrowsToAll
  <2> QED
    BY <1>3, <2>1, <2>3
<1>14. InitializedBelow(Main) \subseteq h[N]
  <2>1. InitializedModules(Main) \subseteq h[N] /\ \A x \in h[N] : InitializedModules(x) \subseteq h[N]
    BY <1>13 DEF DependsOn
  <2> QED
    BY <2>1, InitializedAll
<1>15. UsedModules(m) \subseteq UsedBelow(Main)
  BY <1>9, <1>12, <1>13, <1>14 DEF Owned
<1> QED
  BY <1>15 DEF TargetSound

(* Where no module outside the contract lends what it does not import, an  *)
(* import of a module of the contract that is named is one it names.       *)
LEMMA NamedByOwner ==
  ASSUME NEW S, Settled(S), TargetSound, \A x \in S \ Owned : ~Lends(x),
         NEW info, info[1] \in Owned, NEW x \in S, Names(x, info)
  PROVE  ModuleOf(info) \in InitializedBelow(Main)
<1>1. x \in Owned
  <2> SUFFICES ASSUME x \notin Owned
               PROVE  FALSE
    OBVIOUS
  <2>1. info[1] = x
    BY NamesItsOwn DEF Settled
  <2> QED
    BY <2>1
<1>2. UsedModules(x) \subseteq InitializedBelow(Main) /\ InitializedModules(x) \subseteq InitializedBelow(Main)
  BY <1>1, UsedAll, InitializedAll DEF Owned
<1>3. ModuleOf(info) \in UsedModules(x) \union InitializedModules(x)
  BY DEF Names, UsedModules, InitializedModules
<1> QED
  BY <1>2, <1>3

(* What a path stands for that a module of the contract reads is its own   *)
(* then, if what is on the way is named. *)
LEMMA HeldOwned ==
  ASSUME NEW S, Settled(S), TargetSound, \A x \in S \ Owned : ~Lends(x),
         NEW m \in Owned, NEW path \in Seq(STRING), MemberOf(m, path).kind \in {"variable", "function"}, Held(S, MemberOf(m, path))
  PROVE  MemberOf(m, path).of[1] \in Owned
<1> DEFINE r == MemberOf(m, path)
<1>1. m \in S
  BY InitializedAll DEF Owned, Settled
<1>2. PICK n, at : ChainOk(S, m, path, r, n, at)
  <2>1. r.kind # "unknown"
    OBVIOUS
  <2> HIDE DEF r
  <2> QED
    BY <1>1, <2>1, Chains DEF Settled, r
<1> HIDE DEF r
<1>3. n \in Nat /\ at[0] = m /\ DOMAIN r.chain = 1 .. n
  BY <1>2 DEF ChainOk
<1> DEFINE G == {k \in 0 .. n : at[k] \in Owned}
<1>4. 0 \in G
  BY <1>3
<1>5. ASSUME NEW k \in 0 .. n - 1, k \in G
      PROVE  k + 1 \in G
  <2>1. k + 1 \in 1 .. n /\ (k + 1) - 1 = k /\ k + 1 \in 0 .. n
    BY <1>3
  <2>2. r.chain[k + 1] = <<at[k], path[k + 1]>> /\ at[k + 1] = ModuleOf(r.chain[k + 1])
    BY <1>2, <2>1 DEF ChainOk
  <2>3. r.chain[k + 1][1] \in Owned
    BY <1>5, <2>2
  <2>4. PICK x \in S : Names(x, r.chain[k + 1])
    BY <1>3, <2>1 DEF Held, r
  <2>5. ModuleOf(r.chain[k + 1]) \in InitializedBelow(Main)
    BY <2>3, <2>4, NamedByOwner
  <2> QED
    BY <2>1, <2>2, <2>5 DEF Owned
<1>6. 0 .. n \subseteq G
  <2> HIDE DEF G
  <2> QED
    BY <1>3, <1>4, <1>5, UpTo
<1>7. r.of = <<at[n], path[n + 1]>>
  BY <1>2 DEF ChainOk, r
<1>8. at[n] \in Owned
  BY <1>3, <1>6
<1> QED
  BY <1>7, <1>8 DEF r

---------------------------------------------------------------------------
(* What the analysis has found of the state that functions touch.          *)

(* State that is touched is noted, and is owned. *)
OwnAccess(S, reads, r) == IsStateAccess(VariableAccess(r)) => VariableAccess(r) \in reads /\ Held(S, r)
OwnCall(S, F, f, reads, r) ==
  /\ StateOf(F[r.of].reads) \subseteq reads /\ (StateOf(F[r.of].reads) # {} => Held(S, r))
  /\ The(r.of).visibility = "deploy" => The(f).visibility = "deploy"
OwnPart(S, F, f, bound, reads, x) ==
  /\ x.s \in {"read", "pop"} => OwnAccess(S, reads, LookUp(f, bound, x.to))
  /\ x.s = "call" => OwnCall(S, F, f, reads, CalleeOf(f, x))
OwnStatement(S, f, bound, reads, x) ==
  /\ x.s \in {"assign", "append"} => OwnAccess(S, reads, LookUp(f, bound, x.to))
  /\ x.s = "for" /\ x.over # <<>> => OwnAccess(S, reads, LookUp(f, bound, x.over))
OwnLine(S, F, f, reads, k) ==
  /\ \A i \in DOMAIN Body(f)[k].value : OwnPart(S, F, f, Scope(f, k), reads, Body(f)[k].value[i])
  /\ OwnStatement(S, f, Scope(f, k), reads, Body(f)[k])

(* What follows a return is the end of its block. *)
EndsBlock(f, k) == Body(f)[k].s = "return" /\ k + 1 \in DOMAIN Body(f) => Body(f)[k + 1].s \in Marks
OwnFacts(S, F, f) ==
  /\ f[1] \in S /\ f \in Functions(f[1])
  /\ \A k \in DOMAIN Body(f) : OwnLine(S, F, f, F[f].reads, k) /\ EndsBlock(f, k)
OwnVisit(S, F, v) ==
  /\ \A k \in 1 .. v.line - 1 : /\ OwnLine(S, F, v.f, v.reads, k)
                                /\ k + 1 < v.line => EndsBlock(v.f, k)
                                /\ k + 1 = v.line /\ Body(v.f)[k].s = "return" => v.line \in v.ended
  /\ v.line \in DOMAIN Body(v.f) =>
       \A i \in 1 .. v.part : OwnPart(S, F, v.f, v.bound, v.reads, Body(v.f)[v.line].value[i])
OwnExport(S, F, e) ==
  \E c \in PathsIn(e.by, "exports") :
    LET r == InfoAt(e.by, c) IN
    /\ e.of = r.of /\ IsExposed(r)
    /\ (IF The(r.of).d = "function" THEN StateOf(F[r.of].reads) # {} ELSE IsState(The(r.of))) => Held(S, r)
OwnersOk(S, owned) ==
  /\ \A m \in S : \A d \in Declarations(m, {"import"}) : <<m, d.name>> \in DOMAIN owned
  /\ \A info \in DOMAIN owned : owned[info] # "none" => \E x \in S : Names(x, info)
OwnAnalysis ==
  /\ OwnersOk(Started, owner)
  /\ \A m \in Started : NamesSound(m)
  /\ \A f \in DOMAIN facts : OwnFacts(Started, facts, f)
  /\ visit.f # <<>> => OwnVisit(Started, facts, visit)
  /\ \A e \in exported : OwnExport(Started, facts, e)
  /\ \A m \in done : InitializerCallsSound(m)
  /\ stage = "analysed" => TargetSound

(* All of this is about the program alone: what is named and owned ... *)
LEMMA OwnersKeep ==
  ASSUME program' = program
  PROVE  /\ \A m : NamesSound(m)' = NamesSound(m)
         /\ \A m, c : InfoAt(m, c)' = InfoAt(m, c)
         /\ \A m, kind : PathsIn(m, kind)' = PathsIn(m, kind)
         /\ \A m, info : Names(m, info)' = Names(m, info)
         /\ \A S, r : Held(S, r)' = Held(S, r)
         /\ \A S, owned : OwnersOk(S, owned)' = OwnersOk(S, owned)
         /\ \A m : HasConstructor(m)' = HasConstructor(m) /\ InitializerCalls(m)' = InitializerCalls(m)
         /\ \A m : InitializerCallsSound(m)' = InitializerCallsSound(m)
         /\ InitializedBelow(Main)' = InitializedBelow(Main)
         /\ TargetSound' = TargetSound
<1>1. /\ \A m, kind : PathsIn(m, kind)' = PathsIn(m, kind)
      /\ \A m : InitializesAt(m)' = InitializesAt(m)
  BY DeclarationsKeep DEF PathsIn, InitializesAt
<1>2. /\ \A m, c : InfoAt(m, c)' = InfoAt(m, c)
      /\ \A m, k : InitializedInfo(m, k)' = InitializedInfo(m, k)
  BY NamesKeep DEF InfoAt, InitializedInfo
<1>3. \A m : NamesSound(m)' = NamesSound(m)
  BY <1>1, <1>2 DEF NamesSound
<1>4. \A m, info : Names(m, info)' = Names(m, info)
  BY <1>1, <1>2 DEF Names
<1>5. \A S, r : Held(S, r)' = Held(S, r)
  BY <1>4 DEF Held
<1>6. \A S, owned : OwnersOk(S, owned)' = OwnersOk(S, owned)
  BY <1>4, DeclarationsKeep DEF OwnersOk
<1>7. \A info : ModuleOf(info)' = ModuleOf(info)
  BY DeclarationsKeep DEF ModuleOf
<1>8. \A m : UsedModules(m)' = UsedModules(m) /\ InitializedModules(m)' = InitializedModules(m)
  BY <1>1, <1>2, <1>7 DEF UsedModules, InitializedModules
<1>9. \A m : HasConstructor(m)' = HasConstructor(m)
  BY FunctionsKeep DEF HasConstructor
<1>10. ASSUME NEW m
       PROVE  InitializerCalls(m)' = InitializerCalls(m) /\ InitializerCallsSound(m)' = InitializerCallsSound(m)
  <2> DEFINE f == <<m, Constructor>>
  <2> DEFINE callee(c) == CalleeOf(f, PartAt(f, c))
  <2>1. CallsOf(f)' = CallsOf(f) /\ \A c : callee(c)' = callee(c)
    BY NamesKeep
  <2>2. /\ InitializerCalls(m) =
             IF ~HasConstructor(m) THEN {} ELSE {c \in CallsOf(f) : callee(c).kind = "function" /\ IsConstructor(callee(c).of)}
        /\ InitializerCalls(m)' =
             IF ~HasConstructor(m)' THEN {} ELSE {c \in CallsOf(f)' : callee(c)'.kind = "function" /\ IsConstructor(callee(c)'.of)}
    BY DEF InitializerCalls, IsConstructor
  <2>3. /\ InitializerCallsSound(m) =
             LET called == {callee(c).of[1] : c \in InitializerCalls(m)}
             IN called = {M \in InitializedModules(m) : HasConstructor(M)} /\ Cardinality(called) = Cardinality(InitializerCalls(m))
        /\ InitializerCallsSound(m)' =
             LET called == {callee(c)'.of[1] : c \in InitializerCalls(m)'}
             IN called = {M \in InitializedModules(m)' : HasConstructor(M)'} /\ Cardinality(called) = Cardinality(InitializerCalls(m)')
    BY DEF InitializerCallsSound
  <2> HIDE DEF callee, f
  <2>4. InitializerCalls(m)' = InitializerCalls(m)
    BY <1>9, <2>1, <2>2
  <2>5. {M \in InitializedModules(m)' : HasConstructor(M)'} = {M \in InitializedModules(m) : HasConstructor(M)}
    BY <1>8, <1>9
  <2>6. {callee(c)'.of[1] : c \in InitializerCalls(m)'} = {callee(c).of[1] : c \in InitializerCalls(m)}
    BY <2>1, <2>4
  <2> QED
    BY <2>3, <2>4, <2>5, <2>6
<1>12. InitializedBelow(Main)' = InitializedBelow(Main)
  <2> DEFINE N == Cardinality(DOMAIN program)
  <2> DEFINE first == InitializedModules(Main)
  <2> DEFINE Step(X) == X \union UNION {InitializedModules(x) : x \in X}
  <2>1. \A X : Step(X)' = Step(X)
    BY <1>8
  <2>2. /\ InitializedBelow(Main) = (CHOOSE g : g = [k \in 0 .. N |-> IF k = 0 THEN first ELSE Step(g[k - 1])])[N]
        /\ InitializedBelow(Main)' = (CHOOSE g : g = [k \in 0 .. N' |-> IF k = 0 THEN first' ELSE Step(g[k - 1])'])[N']
    BY DEF InitializedBelow, Closure
  <2>3. N' = N /\ first' = first
    BY <1>8
  <2> HIDE DEF Step, N, first
  <2> QED
    BY <2>1, <2>2, <2>3
<1>13. UsedBelow(Main)' = UsedBelow(Main)
  <2> DEFINE N == Cardinality(DOMAIN program)
  <2> DEFINE Step(X) == X \union UNION {DependsOn(x) : x \in X}
  <2>1. \A X : Step(X)' = Step(X)
    BY <1>8 DEF DependsOn
  <2> DEFINE C == (CHOOSE g : g = [k \in 0 .. N |-> IF k = 0 THEN {Main} ELSE Step(g[k - 1])])[N]
  <2>2. /\ UsedBelow(Main) = UNION {UsedModules(M) : M \in C}
        /\ UsedBelow(Main)' = UNION {UsedModules(M)' : M \in C'}
    BY DEF UsedBelow, Closure
  <2>3. C' = (CHOOSE g : g = [k \in 0 .. N' |-> IF k = 0 THEN {Main} ELSE Step(g[k - 1])'])[N']
    OBVIOUS
  <2>4. N' = N
    OBVIOUS
  <2>5. C' = C
    <3> HIDE DEF Step, N
    <3> QED
      BY <2>1, <2>3, <2>4
  <2> HIDE DEF C
  <2> QED
    BY <1>8, <2>2, <2>5
<1>14. \A of : Initializers(of)' = Initializers(of)
  BY <1>1, <1>2, <1>7, <1>12 DEF Initializers
<1>15. TargetSound' = TargetSound
  BY <1>12, <1>13, <1>14 DEF TargetSound
<1> QED
  BY <1>1, <1>2, <1>3, <1>4, <1>5, <1>6, <1>9, <1>10, <1>12, <1>15

(* ... and what has been found of functions. *)
LEMMA OwnKeep ==
  ASSUME program' = program
  PROVE  /\ \A S, F, f : OwnFacts(S, F, f)' = OwnFacts(S, F, f)
         /\ \A S, F, v : OwnVisit(S, F, v)' = OwnVisit(S, F, v)
         /\ \A S, F, e : OwnExport(S, F, e)' = OwnExport(S, F, e)
<1>1. \A S, reads, r : OwnAccess(S, reads, r)' = OwnAccess(S, reads, r)
  BY FunctionsKeep, OwnersKeep DEF OwnAccess
<1>2. \A S, F, f, reads, r : OwnCall(S, F, f, reads, r)' = OwnCall(S, F, f, reads, r)
  BY DeclarationsKeep, FunctionsKeep, OwnersKeep DEF OwnCall
<1>3. \A S, F, f, bound, reads, x : OwnPart(S, F, f, bound, reads, x)' = OwnPart(S, F, f, bound, reads, x)
  BY <1>1, <1>2, NamesKeep DEF OwnPart
<1>4. \A S, f, bound, reads, x : OwnStatement(S, f, bound, reads, x)' = OwnStatement(S, f, bound, reads, x)
  BY <1>1, NamesKeep DEF OwnStatement
<1>5. \A S, F, f, reads, k : OwnLine(S, F, f, reads, k)' = OwnLine(S, F, f, reads, k)
  BY <1>3, <1>4, FunctionsKeep DEF OwnLine
<1>6. \A f, k : EndsBlock(f, k)' = EndsBlock(f, k)
  BY FunctionsKeep DEF EndsBlock
<1>7. \A S, F, f : OwnFacts(S, F, f)' = OwnFacts(S, F, f)
  BY <1>5, <1>6, FunctionsKeep DEF OwnFacts
<1>8. \A S, F, v : OwnVisit(S, F, v)' = OwnVisit(S, F, v)
  BY <1>3, <1>5, <1>6, FunctionsKeep DEF OwnVisit
<1>9. \A S, F, e : OwnExport(S, F, e)' = OwnExport(S, F, e)
  BY DeclarationsKeep, FunctionsKeep, OwnersKeep DEF OwnExport, IsExposed, IsState
<1> QED
  BY <1>7, <1>8, <1>9

(* What is known stays true when more is known. *)
LEMMA HeldMonotone ==
  ASSUME NEW S, NEW T, S \subseteq T, NEW r, Held(S, r)
  PROVE  Held(T, r)
BY DEF Held

(* What has been found of a part holds when more has been read, and of     *)
(* more modules, ...                                                       *)
LEMMA OwnPartMonotone ==
  ASSUME NEW S, NEW T, S \subseteq T, NEW F, NEW G, NEW f, NEW bound, NEW reads, NEW more, reads \subseteq more, NEW x,
         OwnPart(S, F, f, bound, reads, x), x.s = "call" => G[CalleeOf(f, x).of] = F[CalleeOf(f, x).of]
  PROVE  OwnPart(T, G, f, bound, more, x)
<1>1. \A r : Held(S, r) => Held(T, r)
  BY HeldMonotone
<1>2. \A r : OwnAccess(S, reads, r) => OwnAccess(T, more, r)
  BY <1>1 DEF OwnAccess
<1>3. x.s = "call" => OwnCall(T, G, f, more, CalleeOf(f, x))
  BY <1>1 DEF OwnPart, OwnCall
<1> QED
  BY <1>2, <1>3 DEF OwnPart

(* ... and so does what has been found of a line, ... *)
LEMMA OwnLineMonotone ==
  ASSUME NEW S, NEW T, S \subseteq T, NEW F, NEW G, NEW f, NEW reads, NEW more, reads \subseteq more, NEW k \in DOMAIN Body(f),
         OwnLine(S, F, f, reads, k),
         \A i \in DOMAIN Body(f)[k].value : Body(f)[k].value[i].s = "call" =>
            G[CalleeOf(f, Body(f)[k].value[i]).of] = F[CalleeOf(f, Body(f)[k].value[i]).of]
  PROVE  OwnLine(T, G, f, more, k)
<1>1. \A i \in DOMAIN Body(f)[k].value : OwnPart(T, G, f, Scope(f, k), more, Body(f)[k].value[i])
  BY OwnPartMonotone DEF OwnLine
<1>2. \A r : OwnAccess(S, reads, r) => OwnAccess(T, more, r)
  BY HeldMonotone DEF OwnAccess
<1>3. OwnStatement(T, f, Scope(f, k), more, Body(f)[k])
  BY <1>2 DEF OwnLine, OwnStatement
<1> QED
  BY <1>1, <1>3 DEF OwnLine

(* What a path in a function means that is a member of a module. *)
LEMMA ResolvesToMembers ==
  ASSUME NEW f, NEW locals, NEW path, IsPath(path), Resolve(f, locals, path).kind \in {"variable", "function"}
  PROVE  \E q \in Seq(STRING) : Resolve(f, locals, path) = MemberOf(f[1], q)
<1> DEFINE r == Resolve(f, locals, path)
<1>1. path \in Seq(STRING) /\ path # <<>> /\ Tail(path) \in Seq(STRING)
  BY DEF IsPath
<1>2. r = Unknown \/ r = Local(f, path) \/ r = MemberOf(f[1], path) \/ r = MemberOf(f[1], Tail(path))
  BY DEF Resolve
<1>3. r # Unknown /\ r # Local(f, path)
  BY DEF Unknown, Local
<1> QED
  BY <1>1, <1>2, <1>3

(* What is owned has been named by a module that was begun. *)
LEMMA MayUseHeld ==
  ASSUME NEW S, Imported(S), NEW owned, OwnersOk(S, owned), NEW m \in S, NEW path \in Seq(STRING),
         MemberOf(m, path).kind \in {"variable", "function"}, MayUse(owned, MemberOf(m, path))
  PROVE  Held(S, MemberOf(m, path))
<1> DEFINE r == MemberOf(m, path)
<1>1. PICK n, at : ChainOk(S, m, path, r, n, at)
  <2>1. r.kind # "unknown"
    OBVIOUS
  <2> HIDE DEF r
  <2> QED
    BY <2>1, Chains DEF r
<1> HIDE DEF r
<1>2. ASSUME NEW k \in DOMAIN r.chain
      PROVE  \E x \in S : Names(x, r.chain[k])
  <2>1. k \in 1 .. n /\ k - 1 \in 0 .. n /\ n \in Nat
    BY <1>1, <1>2 DEF ChainOk
  <2>2. /\ r.chain[k] = <<at[k - 1], path[k]>> /\ at[k - 1] \in S
        /\ \E d \in Declarations(at[k - 1], {"import"}) : d.name = path[k]
    BY <1>1, <2>1 DEF ChainOk
  <2>3. r.chain[k] \in DOMAIN owned
    BY <2>2 DEF OwnersOk
  <2>4. owned[r.chain[k]] # "none"
    BY DEF MayUse, r
  <2> QED
    BY <2>3, <2>4 DEF OwnersOk
<1>3. Held(S, r)
  BY <1>2 DEF Held
<1> QED
  BY <1>3 DEF r

(* The access that the analysis lets pass is one to state that is owned,   *)
(* if it is one to state ... *)
LEMMA OwnAccessAllowed ==
  ASSUME NEW S, Imported(S), OwnersOk(S, owner), NEW f, f[1] \in S, NEW bound, NEW path, IsPath(path), NEW writes, NEW reads,
         AccessAllowed(f, bound, LookUp(f, bound, path), writes), VariableAccess(LookUp(f, bound, path)) \in reads
  PROVE  OwnAccess(S, reads, LookUp(f, bound, path))
<1> DEFINE r == LookUp(f, bound, path)
<1>1. f[1] # NoModule
  BY DEF Imported
<1>2. (r.kind = "local" => r.of = <<f[1], f[2], path[1]>>) /\ (r.kind \in {"variable", "function"} => \E q \in Seq(STRING) : r = MemberOf(f[1], q))
  BY <1>1, ResolveFacts, ResolvesToMembers DEF LookUp
<1> HIDE DEF r
<1> SUFFICES ASSUME IsStateAccess(VariableAccess(r))
             PROVE  Held(S, r)
  BY DEF OwnAccess, r
<1>3. IsVariable(r) /\ MayUse(owner, r)
  BY DEF AccessAllowed, r
<1>4. r.kind # "local"
  <2>1. \A a, b, c : Len(<<a, b, c>>) = 3
    OBVIOUS
  <2>2. r.kind = "local" => Len(r.of) = 3
    BY <1>2, <2>1, Zenon
  <2>3. Len(r.of) = 2
    BY DEF IsStateAccess, VariableAccess
  <2> QED
    BY <2>2, <2>3
<1>5. r.kind = "variable"
  BY <1>3, <1>4 DEF IsVariable
<1> QED
  BY <1>2, <1>3, <1>5, MayUseHeld

(* ... and so is the call. *)
LEMMA OwnCallAllowed ==
  ASSUME NEW S, Imported(S), OwnersOk(S, owner), NEW f, f[1] \in S, NEW bound, NEW x, IsPath(x.to), NEW reads,
         CallAllowed(f, bound, CalleeOf(f, x)), StateOf(facts[CalleeOf(f, x).of].reads) \subseteq reads
  PROVE  OwnCall(S, facts, f, reads, CalleeOf(f, x))
<1> DEFINE r == CalleeOf(f, x)
<1>1. IsCallOfInternal(r) /\ (UsesState(r.of) => MayUse(owner, r)) /\ (The(r.of).visibility = "deploy" => The(f).visibility = "deploy")
  BY DEF CallAllowed
<1>2. r.kind = "function"
  BY <1>1 DEF IsCallOfInternal
<1>3. PICK q \in Seq(STRING) : r = MemberOf(f[1], q)
  BY <1>2, ResolvesToMembers DEF CalleeOf
<1> HIDE DEF r
<1>4. The(r.of).d = "function"
  <2>1. f[1] # NoModule
    BY DEF Imported
  <2> QED
    BY <1>2, <1>3, <2>1, MemberFacts
<1>5. StateOf(facts[r.of].reads) # {} => UsesState(r.of)
  BY <1>4 DEF UsesState, StateOf
<1>6. MayUse(owner, r) => Held(S, r)
  BY <1>2, <1>3, MayUseHeld
<1>7. StateOf(facts[r.of].reads) \subseteq reads
  BY DEF r
<1>8. OwnCall(S, facts, f, reads, r)
  BY <1>1, <1>5, <1>6, <1>7 DEF OwnCall
<1> QED
  BY <1>8 DEF r

(* The modules that have begun import such. *)
LEMMA StartedImported ==
  ASSUME AnalysisOk, WellFormed(program)
  PROVE  Imported(Started)
BY DEF AnalysisOk, WellFormed, Imported, Started

(* What has been found out stays so while nothing but the visit goes on. *)
LEMMA OwnKeeps ==
  ASSUME OwnAnalysis, UNCHANGED <<program, stage, module, known, facts>>, (visit.f # <<>> => OwnVisit(Started, facts, visit))'
  PROVE  OwnAnalysis'
<1>1. UNCHANGED <<done, owner, exported>>
  BY DEF known
<1>2. Started' = Started
  BY <1>1 DEF Started
<1>3. PICK S, F, G, O : S = Started /\ F = facts /\ G = exported /\ O = owner
  OBVIOUS
<1>4. Started' = S /\ facts' = F /\ exported' = G /\ owner' = O
  BY <1>1, <1>2, <1>3
<1>5. OwnersOk(S, O)'
  BY <1>3, OwnersKeep DEF OwnAnalysis
<1>6. \A m \in S : NamesSound(m)'
  BY <1>3, OwnersKeep DEF OwnAnalysis
<1>7. \A f \in DOMAIN F : OwnFacts(S, F, f)'
  BY <1>3, OwnKeep DEF OwnAnalysis
<1>8. \A e \in G : OwnExport(S, F, e)'
  BY <1>3, OwnKeep DEF OwnAnalysis
<1>9. \A m \in done' : InitializerCallsSound(m)'
  BY <1>1, OwnersKeep DEF OwnAnalysis
<1>10. stage' = "analysed" => TargetSound'
  BY OwnersKeep DEF OwnAnalysis
<1> QED
  BY <1>4, <1>5, <1>6, <1>7, <1>8, <1>9, <1>10 DEF OwnAnalysis

(* A visit begins with nothing found. *)
LEMMA OwnStartBody ==
  ASSUME OwnAnalysis, NEW f, StartBody(f)
  PROVE  OwnAnalysis'
<1>1. UNCHANGED <<program, stage, module, known, facts>> /\ visit' = [Idle EXCEPT !.f = f, !.line = 1]
  BY DEF StartBody
<1>2. visit'.line = 1 /\ visit'.part = 0
  BY <1>1 DEF Idle
<1>3. PICK v : v = visit'
  OBVIOUS
<1>4. \A S, F : OwnVisit(S, F, v)
  BY <1>2, <1>3 DEF OwnVisit
<1>5. \A S, F : OwnVisit(S, F, v)'
  BY <1>1, <1>4, OwnKeep
<1>6. OwnVisit(Started, facts, visit)'
  BY <1>3, <1>5
<1> QED
  BY <1>1, <1>6, OwnKeeps

(* State that a part touches is noted, and owned. *)
LEMMA OwnVisitPart ==
  ASSUME AnalysisOk, OwnAnalysis, WellFormed(program), VisitPart, ~rejected'
  PROVE  OwnAnalysis'
<1> DEFINE f == visit.f
<1> DEFINE k == visit.line
<1> DEFINE x == Body(f)[k].value[visit.part + 1]
<1> DEFINE more == visit.reads \union PartReads
<1>1. /\ UNCHANGED <<program, stage, module, known, facts>>
      /\ f # <<>> /\ k \in DOMAIN Body(f) /\ visit.part < Len(Body(f)[k].value)
      /\ PartAllowed(f, visit.bound, x)
      /\ visit' = [visit EXCEPT !.part = @ + 1, !.reads = more, !.writes = @ \union PartWrites, !.used = @ \union PartUsed]
  BY DEF VisitPart, InBody, Statement, Part
<1>2. stage = "functions" /\ f \in Functions(module) /\ VisitSound(facts, visit) /\ OwnVisit(Started, facts, visit)
  BY <1>1 DEF AnalysisOk, VisitOk, OwnAnalysis
<1>3. f[1] \in Started
  BY <1>2 DEF Functions, Started
<1>4. IsFunction(f) /\ WellTyped(Body(f)[k]) /\ visit.part \in Nat /\ k \in Nat
  BY <1>1, <1>2, BodyLines DEF VisitSound, IsFunction
<1>5. visit.part + 1 \in DOMAIN Body(f)[k].value
  <2>1. Body(f)[k].value \in Seq(Range(Body(f)[k].value))
    BY <1>4 DEF WellTyped
  <2> QED
    BY <1>1, <1>4, <2>1
<1>6. x.s # "outside" => IsPath(x.to)
  BY <1>4, <1>5 DEF WellTyped
<1>7. /\ x.s \in {"read", "pop"} => VariableAccess(LookUp(f, visit.bound, x.to)) \in more
      /\ x.s = "call" => StateOf(facts[CalleeOf(f, x).of].reads) \subseteq more
  BY DEF PartReads, Part, Statement
<1>8. Imported(Started) /\ OwnersOk(Started, owner)
  BY StartedImported DEF OwnAnalysis
<1>9. PICK v, S : v = visit' /\ S = Started
  OBVIOUS
<1>10. v.f = f /\ v.line = k /\ v.bound = visit.bound /\ v.part = visit.part + 1 /\ v.reads = more /\ v.ended = visit.ended
  <2> HIDE DEF more
  <2> QED
    BY <1>1, <1>9 DEF AnalysisOk
<1> HIDE DEF f, k, x, more
<1>11. x.s \in {"read", "pop"} => OwnAccess(S, more, LookUp(f, visit.bound, x.to))
  <2> SUFFICES ASSUME x.s \in {"read", "pop"}
               PROVE  OwnAccess(S, more, LookUp(f, visit.bound, x.to))
    OBVIOUS
  <2>1. \E writes : AccessAllowed(f, visit.bound, LookUp(f, visit.bound, x.to), writes)
    BY <1>1 DEF PartAllowed, ReadAllowed, WriteAllowed
  <2> QED
    BY <1>3, <1>6, <1>7, <1>8, <1>9, <2>1, OwnAccessAllowed
<1>12. x.s = "call" => OwnCall(S, facts, f, more, CalleeOf(f, x))
  BY <1>1, <1>3, <1>6, <1>7, <1>8, <1>9, OwnCallAllowed DEF PartAllowed
<1>13. OwnPart(S, facts, f, visit.bound, more, x)
  BY <1>11, <1>12 DEF OwnPart
<1>14. visit.reads \subseteq more
  BY DEF more
<1>15. ASSUME NEW i \in 1 .. visit.part + 1
       PROVE  OwnPart(S, facts, f, visit.bound, more, Body(f)[k].value[i])
  <2>1. CASE i = visit.part + 1
    BY <1>13, <2>1 DEF x
  <2>2. CASE i # visit.part + 1
    <3>1. i \in 1 .. visit.part
      BY <1>4, <2>2
    <3>2. OwnPart(S, facts, f, visit.bound, visit.reads, Body(f)[k].value[i])
      BY <1>1, <1>2, <1>9, <3>1 DEF OwnVisit, f, k
    <3> QED
      BY <1>14, <3>2, OwnPartMonotone
  <2> QED
    BY <2>1, <2>2
<1>16. ASSUME NEW j \in 1 .. k - 1
       PROVE  /\ OwnLine(S, facts, f, more, j)
              /\ j + 1 < k => EndsBlock(f, j)
              /\ j + 1 = k /\ Body(f)[j].s = "return" => k \in v.ended
  <2>1. /\ OwnLine(S, facts, f, visit.reads, j)
        /\ j + 1 < k => EndsBlock(f, j)
        /\ j + 1 = k /\ Body(f)[j].s = "return" => k \in visit.ended
    BY <1>2, <1>9 DEF OwnVisit, f, k
  <2>2. j \in DOMAIN Body(f)
    BY <1>1, <1>4, BodyLines
  <2> QED
    BY <1>10, <1>14, <2>1, <2>2, OwnLineMonotone
<1>17. OwnVisit(S, facts, v)
  BY <1>10, <1>15, <1>16 DEF OwnVisit
<1>18. PICK F : F = facts
  OBVIOUS
<1>19. OwnVisit(S, F, v)'
  BY <1>1, <1>17, <1>18, OwnKeep
<1>20. Started' = S /\ facts' = F /\ visit' = v
  BY <1>1, <1>9, <1>18 DEF Started, known
<1> QED
  BY <1>1, <1>19, <1>20, OwnKeeps

(* State that a statement touches is noted, and owned; nothing but the end *)
(* of a block follows a return. *)
LEMMA OwnVisitStatement ==
  ASSUME AnalysisOk, OwnAnalysis, WellFormed(program), VisitStatement, ~rejected'
  PROVE  OwnAnalysis'
<1> DEFINE f == visit.f
<1> DEFINE k == visit.line
<1> DEFINE x == Body(f)[k]
<1> DEFINE more == visit.reads \union TargetIf(HasTarget)
<1> DEFINE ended == IF Ends(x, k, visit.ended) THEN visit.ended \union {k + 1} ELSE visit.ended
<1>1. /\ UNCHANGED <<program, stage, module, known, facts>>
      /\ f # <<>> /\ k \in DOMAIN Body(f) /\ visit.part = Len(x.value)
      /\ k \in visit.ended => x.s \in Marks
      /\ StatementAllowed(f, visit.bound, x)
      /\ visit' = [visit EXCEPT !.line = k + 1, !.part = 0, !.bound = BoundAfter(f, visit.bound, k), !.ended = ended,
                                !.reads = more, !.writes = @ \union TargetIf(Writes), !.used = @ \union StatementUsed]
  BY DEF VisitStatement, InBody, Statement
<1>2. stage = "functions" /\ f \in Functions(module) /\ VisitSound(facts, visit) /\ OwnVisit(Started, facts, visit)
  BY <1>1 DEF AnalysisOk, VisitOk, OwnAnalysis
<1>3. f[1] \in Started
  BY <1>2 DEF Functions, Started
<1>4. IsFunction(f) /\ WellTyped(x) /\ k \in Nat
  BY <1>1, <1>2, BodyLines DEF VisitSound, IsFunction
<1>5. DOMAIN x.value = 1 .. Len(x.value)
  <2>1. x.value \in Seq(Range(x.value))
    BY <1>4 DEF WellTyped
  <2> QED
    BY <2>1
<1>6. /\ x.s \in {"assign", "append"} => VariableAccess(LookUp(f, visit.bound, x.to)) \in more
      /\ x.s = "for" /\ x.over # <<>> => VariableAccess(LookUp(f, visit.bound, x.over)) \in more
  <2>1. x.s \in {"assign", "append"} => Writes /\ HasTarget /\ Target = LookUp(f, visit.bound, x.to)
    BY DEF HasTarget, Writes, Target, Statement
  <2>2. x.s = "for" /\ x.over # <<>> => ~Writes /\ HasTarget /\ Target = LookUp(f, visit.bound, x.over)
    BY DEF HasTarget, Writes, Target, Statement
  <2>3. HasTarget => VariableAccess(Target) \in more
    BY DEF TargetIf
  <2> HIDE DEF f, k, x, more
  <2> QED
    BY <2>1, <2>2, <2>3
<1>7. Imported(Started) /\ OwnersOk(Started, owner)
  BY StartedImported DEF OwnAnalysis
<1>8. PICK v, S : v = visit' /\ S = Started
  OBVIOUS
<1>9. v.f = f /\ v.line = k + 1 /\ v.part = 0 /\ v.reads = more /\ v.ended = ended
  <2> HIDE DEF more, ended
  <2> QED
    BY <1>1, <1>8 DEF AnalysisOk
<1>10. visit.bound = Scope(f, k)
  BY <1>2 DEF VisitSound
<1>11. x.s = "return" => k + 1 \in ended
  BY DEF Ends
<1>12. visit.reads \subseteq more
  OBVIOUS
<1> HIDE DEF more, ended
<1>13. x.s \in {"assign", "append"} => OwnAccess(S, more, LookUp(f, visit.bound, x.to))
  <2> SUFFICES ASSUME x.s \in {"assign", "append"}
               PROVE  OwnAccess(S, more, LookUp(f, visit.bound, x.to))
    OBVIOUS
  <2>1. \E writes : AccessAllowed(f, visit.bound, LookUp(f, visit.bound, x.to), writes)
    BY <1>1 DEF StatementAllowed, WriteAllowed
  <2>2. IsPath(x.to)
    BY <1>4 DEF WellTyped
  <2> HIDE DEF f, k, x
  <2> QED
    BY <1>3, <1>6, <1>7, <1>8, <2>1, <2>2, OwnAccessAllowed
<1>14. x.s = "for" /\ x.over # <<>> => OwnAccess(S, more, LookUp(f, visit.bound, x.over))
  <2> SUFFICES ASSUME x.s = "for", x.over # <<>>
               PROVE  OwnAccess(S, more, LookUp(f, visit.bound, x.over))
    OBVIOUS
  <2>1. AccessAllowed(f, visit.bound, LookUp(f, visit.bound, x.over), {})
    BY <1>1 DEF StatementAllowed, ReadAllowed
  <2>2. IsPath(x.over)
    BY <1>4 DEF WellTyped, IsPath
  <2> HIDE DEF f, k, x
  <2> QED
    BY <1>3, <1>6, <1>7, <1>8, <2>1, <2>2, OwnAccessAllowed
<1>15. OwnLine(S, facts, f, more, k)
  <2>1. OwnStatement(S, f, visit.bound, more, x)
    BY <1>13, <1>14 DEF OwnStatement
  <2>2. ASSUME NEW i \in DOMAIN x.value
        PROVE  OwnPart(S, facts, f, visit.bound, more, x.value[i])
    <3>1. OwnPart(S, facts, f, visit.bound, visit.reads, x.value[i])
      BY <1>1, <1>2, <1>5, <1>8 DEF OwnVisit
    <3> QED
      BY <1>12, <3>1, OwnPartMonotone
  <2> QED
    BY <1>10, <2>1, <2>2 DEF OwnLine
<1>16. ASSUME NEW j \in 1 .. k
       PROVE  /\ OwnLine(S, facts, f, more, j)
              /\ j + 1 < k + 1 => EndsBlock(f, j)
              /\ j + 1 = k + 1 /\ Body(f)[j].s = "return" => k + 1 \in ended
  <2>1. CASE j = k
    BY <1>4, <1>11, <1>15, <2>1
  <2>2. CASE j # k
    <3>1. j \in 1 .. k - 1 /\ j \in Int
      BY <1>4, <2>2
    <3>2. /\ OwnLine(S, facts, f, visit.reads, j)
          /\ j + 1 < k => EndsBlock(f, j)
          /\ j + 1 = k /\ Body(f)[j].s = "return" => k \in visit.ended
      BY <1>2, <1>8, <3>1 DEF OwnVisit
    <3>3. j \in DOMAIN Body(f)
      BY <1>1, <1>4, BodyLines
    <3>4. OwnLine(S, facts, f, more, j)
      BY <1>12, <3>2, <3>3, OwnLineMonotone
    <3>5. EndsBlock(f, j)
      <4>1. CASE j + 1 < k
        BY <3>2, <4>1
      <4>2. CASE j + 1 = k
        BY <1>1, <3>2, <4>2 DEF EndsBlock
      <4> QED
        BY <1>4, <3>1, <4>1, <4>2
    <3> QED
      BY <1>4, <2>2, <3>1, <3>4, <3>5
  <2> QED
    BY <2>1, <2>2
<1>17. OwnVisit(S, facts, v)
  <2>1. (k + 1) - 1 = k
    BY <1>4
  <2> HIDE DEF f, k, x
  <2> QED
    BY <1>9, <1>16, <2>1 DEF OwnVisit
<1>18. PICK F : F = facts
  OBVIOUS
<1>19. OwnVisit(S, F, v)'
  BY <1>1, <1>17, <1>18, OwnKeep
<1>20. Started' = S /\ facts' = F /\ visit' = v
  BY <1>1, <1>8, <1>18 DEF Started, known
<1> QED
  BY <1>1, <1>19, <1>20, OwnKeeps

(* What has been found of a function holds when more modules have begun    *)
(* and more functions have facts. *)
LEMMA OwnFactsMonotone ==
  ASSUME NEW S, NEW T, S \subseteq T, NEW F, NEW G, NEW f, OwnFacts(S, F, f), G[f] = F[f],
         \A g \in CalledFunctions(f) : G[g] = F[g],
         \A k \in DOMAIN Body(f) : LineOk(F, f, F[f].writes, k)
  PROVE  OwnFacts(T, G, f)
<1>1. ASSUME NEW k \in DOMAIN Body(f)
      PROVE  OwnLine(T, G, f, F[f].reads, k) /\ EndsBlock(f, k)
  <2>1. OwnLine(S, F, f, F[f].reads, k) /\ EndsBlock(f, k)
    BY DEF OwnFacts
  <2>2. \A i \in DOMAIN Body(f)[k].value : Body(f)[k].value[i].s = "call" =>
          G[CalleeOf(f, Body(f)[k].value[i]).of] = F[CalleeOf(f, Body(f)[k].value[i]).of]
    BY CalleeCalled DEF LineOk, PartOk
  <2> QED
    BY <2>1, <2>2, OwnLineMonotone
<1> QED
  BY <1>1 DEF OwnFacts

(* What has been found stays so when more modules have begun. *)
LEMMA OwnFactsStarted ==
  ASSUME AnalysisOk, NEW S, NEW T, S \subseteq T, NEW f \in DOMAIN facts, OwnFacts(S, facts, f)
  PROVE  OwnFacts(T, facts, f)
BY OwnFactsMonotone DEF AnalysisOk, FactsOk

(* ... and of an export. *)
LEMMA OwnExportMonotone ==
  ASSUME NEW S, NEW T, S \subseteq T, NEW F, NEW G, NEW e, OwnExport(S, F, e), The(e.of).d = "function" => G[e.of] = F[e.of]
  PROVE  OwnExport(T, G, e)
<1>1. PICK c \in PathsIn(e.by, "exports") :
        /\ e.of = InfoAt(e.by, c).of /\ IsExposed(InfoAt(e.by, c))
        /\ (IF The(InfoAt(e.by, c).of).d = "function" THEN StateOf(F[InfoAt(e.by, c).of].reads) # {} ELSE IsState(The(InfoAt(e.by, c).of)))
             => Held(S, InfoAt(e.by, c))
  BY DEF OwnExport
<1> DEFINE r == InfoAt(e.by, c)
<1>2. (IF The(r.of).d = "function" THEN StateOf(G[r.of].reads) # {} ELSE IsState(The(r.of))) => Held(T, r)
  BY <1>1, HeldMonotone
<1> QED
  BY <1>1, <1>2 DEF OwnExport

(* When a module begins, it names what it uses and initializes; what it    *)
(* exports it owns then. *)
LEMMA OwnBeginModule ==
  ASSUME AnalysisOk, OwnAnalysis, WellFormed(program), NEW m \in Modules, BeginModule(m), ~rejected'
  PROVE  OwnAnalysis'
<1> DEFINE T == done \union {m}
<1> DEFINE owned == OwnershipAfter(m, WithImports(m))
<1>1. /\ UNCHANGED <<program, done, facts, visit>>
      /\ stage = "modules" /\ stage' = "functions" /\ module' = m /\ ImportsOf(m) \subseteq done
      /\ owner' = owned
      /\ exported' = exported \union {ExportOf(m, InfoAt(m, c)) : c \in PathsIn(m, "exports")}
      /\ MembersSound(m) /\ OwnershipSound(m, WithImports(m)) /\ ExportsSound(m, owned)
  BY DEF BeginModule, At
<1>2. Started = done /\ Started' = T
  BY <1>1 DEF Started
<1>3. NamesSound(m)
  BY <1>1 DEF OwnershipSound, NamesSound
<1>4. OwnersOk(T, owned)
  <2>1. DOMAIN owned = DOMAIN owner \union {<<m, d.name>> : d \in Declarations(m, {"import"})}
    BY DEF OwnershipAfter, WithImports
  <2>2. ASSUME NEW x \in T, NEW d \in Declarations(x, {"import"})
        PROVE  <<x, d.name>> \in DOMAIN owned
    BY <1>2, <2>1 DEF OwnAnalysis, OwnersOk
  <2>3. ASSUME NEW info \in DOMAIN owned, owned[info] # "none"
        PROVE  \E x \in T : Names(x, info)
    <3>1. CASE Names(m, info)
      BY <3>1
    <3>2. CASE ~Names(m, info)
      <4>1. owned[info] = WithImports(m)[info]
        BY <2>3, <3>2 DEF OwnershipAfter, Names
      <4>2. info \in DOMAIN WithImports(m)
        BY DEF OwnershipAfter
      <4>3. info \in DOMAIN owner /\ owner[info] # "none"
        BY <2>3, <4>1, <4>2 DEF WithImports
      <4> QED
        BY <1>2, <4>3 DEF OwnAnalysis, OwnersOk
    <3> QED
      BY <3>1, <3>2
  <2> HIDE DEF owned, T
  <2> QED
    BY <2>2, <2>3 DEF OwnersOk
<1>5. Imported(T) /\ m \in DOMAIN program
  <2>1. Imported(done)
    BY <1>2, StartedImported
  <2>2. m \in DOMAIN program /\ m # NoModule
    BY DEF Modules, WellFormed
  <2> QED
    BY <1>1, <2>1, <2>2 DEF Imported
<1>6. ASSUME NEW e \in exported'
      PROVE  OwnExport(T, facts, e)
  <2>1. CASE e \in exported
    <3>1. OwnExport(Started, facts, e)
      BY <2>1 DEF OwnAnalysis
    <3> QED
      BY <1>2, <3>1, OwnExportMonotone
  <2>2. CASE e \notin exported
    <3>1. PICK c \in PathsIn(m, "exports") : e = ExportOf(m, InfoAt(m, c))
      BY <1>1, <1>6, <2>2
    <3> DEFINE r == InfoAt(m, c)
    <3> DEFINE path == program[m][c[1]].paths[c[2]]
    <3>2. e.by = m /\ e.of = r.of
      BY <3>1 DEF ExportOf
    <3>3. IsExposed(r) /\ (UsesState(r.of) => MayUse(owned, r))
      BY <1>1 DEF ExportsSound
    <3>4. path \in Seq(STRING) /\ r = MemberOf(m, path)
      BY <1>5, NamedPaths DEF InfoAt, IsPath
    <3> HIDE DEF r, path, owned
    <3>5. The(r.of).d = r.kind /\ r.kind \in {"variable", "function"}
      <4>1. m # NoModule
        BY <1>5 DEF Imported
      <4> QED
        BY <3>3, <3>4, <4>1, MemberFacts DEF IsExposed
    <3>6. (IF The(r.of).d = "function" THEN StateOf(facts[r.of].reads) # {} ELSE IsState(The(r.of))) => UsesState(r.of)
      BY <3>5 DEF UsesState, StateOf
    <3>7. MayUse(owned, r) => Held(T, r)
      BY <1>4, <1>5, <3>4, <3>5, MayUseHeld
    <3> QED
      BY <3>2, <3>3, <3>6, <3>7 DEF OwnExport, r
  <2> QED
    BY <2>1, <2>2
<1>7. \A f \in DOMAIN facts : OwnFacts(T, facts, f)
  BY <1>2, OwnFactsStarted DEF OwnAnalysis
<1>8. PICK S, F, G, O : S = T /\ F = facts /\ G = exported' /\ O = owned
  OBVIOUS
<1>9. Started' = S /\ facts' = F /\ exported' = G /\ owner' = O /\ program' = program
  BY <1>1, <1>2, <1>8
<1>10. OwnersOk(S, O)'
  BY <1>4, <1>8, <1>9, OwnersKeep
<1>11. \A x \in S : NamesSound(x)'
  BY <1>2, <1>3, <1>8, <1>9, OwnersKeep DEF OwnAnalysis
<1>12. \A f \in DOMAIN F : OwnFacts(S, F, f)'
  BY <1>7, <1>8, <1>9, OwnKeep
<1>13. \A e \in G : OwnExport(S, F, e)'
  BY <1>6, <1>8, <1>9, OwnKeep
<1>14. \A x \in done' : InitializerCallsSound(x)'
  BY <1>1, OwnersKeep DEF OwnAnalysis
<1>15. visit'.f = <<>>
  BY <1>1 DEF AnalysisOk, VisitOk
<1> QED
  BY <1>1, <1>9, <1>10, <1>11, <1>12, <1>13, <1>14, <1>15 DEF OwnAnalysis

(* What has been found stays so, whatever stage comes next. *)
LEMMA OwnStage ==
  ASSUME AnalysisOk, OwnAnalysis, UNCHANGED <<program, owner, exported, facts, visit>>, Started' = Started, visit.f = <<>>,
         \A m \in done' : InitializerCallsSound(m), stage' = "analysed" => TargetSound
  PROVE  OwnAnalysis'
<1>1. PICK S, F, G, O : S = Started /\ F = facts /\ G = exported /\ O = owner
  OBVIOUS
<1>2. Started' = S /\ facts' = F /\ exported' = G /\ owner' = O
  BY <1>1
<1>3. OwnersOk(S, O)'
  BY <1>1, OwnersKeep DEF OwnAnalysis
<1>4. \A m \in S : NamesSound(m)'
  BY <1>1, OwnersKeep DEF OwnAnalysis
<1>5. \A f \in DOMAIN F : OwnFacts(S, F, f)'
  BY <1>1, OwnKeep DEF OwnAnalysis
<1>6. \A e \in G : OwnExport(S, F, e)'
  BY <1>1, OwnKeep DEF OwnAnalysis
<1>7. (\A m \in done' : InitializerCallsSound(m)') /\ (stage' = "analysed" => TargetSound')
  BY OwnersKeep
<1> QED
  BY <1>2, <1>3, <1>4, <1>5, <1>6, <1>7 DEF OwnAnalysis

(* What a visit has found when it ends are facts about the function. *)
LEMMA OwnFinishBody ==
  ASSUME AnalysisOk, OwnAnalysis, FinishBody, ~rejected'
  PROVE  OwnAnalysis'
<1> DEFINE f == visit.f
<1>1. /\ UNCHANGED <<program, stage, module, known>>
      /\ f # <<>> /\ visit.line \notin DOMAIN Body(f)
      /\ DOMAIN facts' = DOMAIN facts \union {f}
      /\ facts'[f].reads = visit.reads /\ \A g \in DOMAIN facts \ {f} : facts'[g] = facts[g]
      /\ visit' = Idle
  BY DEF FinishBody
<1>2. /\ stage = "functions" /\ f \in Functions(module) /\ VisitSound(facts, visit) /\ OwnVisit(Started, facts, visit)
  BY <1>1 DEF AnalysisOk, VisitOk, OwnAnalysis
<1>3. IsFunction(f) /\ f \notin DOMAIN facts /\ CalledFunctions(f) \subseteq DOMAIN facts
  BY <1>2 DEF VisitSound
<1>4. visit.line = Len(Body(f)) + 1 /\ Len(Body(f)) \in Nat /\ DOMAIN Body(f) = 1 .. Len(Body(f))
  BY <1>1, <1>2, <1>3, BodyLines DEF VisitSound
<1>5. PICK F, S : F = facts' /\ S = Started
  OBVIOUS
<1>6. \A g \in DOMAIN facts : F[g] = facts[g]
  BY <1>1, <1>3, <1>5
<1>7. OwnFacts(S, F, f)
  <2>1. f[1] \in S /\ f \in Functions(f[1])
    <3>1. f[1] = module
      BY <1>2 DEF Functions
    <3> QED
      BY <1>2, <1>5, <3>1 DEF Started
  <2>2. ASSUME NEW k \in DOMAIN Body(f)
        PROVE  OwnLine(S, F, f, visit.reads, k) /\ EndsBlock(f, k)
    <3>1. k \in 1 .. visit.line - 1
      BY <1>4
    <3>2. OwnLine(S, facts, f, visit.reads, k) /\ (k + 1 < visit.line => EndsBlock(f, k))
      BY <1>2, <1>5, <3>1 DEF OwnVisit
    <3>3. LineOk(facts, f, visit.writes, k)
      BY <1>2, <3>1 DEF VisitSound
    <3>4. \A i \in DOMAIN Body(f)[k].value : Body(f)[k].value[i].s = "call" =>
            F[CalleeOf(f, Body(f)[k].value[i]).of] = facts[CalleeOf(f, Body(f)[k].value[i]).of]
      BY <1>3, <1>6, <3>3, CalleeCalled DEF LineOk, PartOk
    <3>5. OwnLine(S, F, f, visit.reads, k)
      BY <3>2, <3>4, OwnLineMonotone
    <3>6. EndsBlock(f, k)
      BY <1>4, <3>2 DEF EndsBlock
    <3> QED
      BY <3>5, <3>6
  <2>3. F[f].reads = visit.reads
    BY <1>1, <1>5
  <2> HIDE DEF f
  <2> QED
    BY <2>1, <2>2, <2>3 DEF OwnFacts
<1>8. ASSUME NEW g \in DOMAIN facts
      PROVE  OwnFacts(S, F, g)
  <2>1. OwnFacts(S, facts, g) /\ FactsOk(facts, g)
    BY <1>5 DEF OwnAnalysis, AnalysisOk
  <2>2. \A h \in CalledFunctions(g) : F[h] = facts[h]
    BY <1>6, <2>1 DEF FactsOk
  <2> QED
    BY <1>6, <2>1, <2>2, OwnFactsMonotone DEF FactsOk
<1>9. ASSUME NEW e \in exported
      PROVE  OwnExport(S, F, e)
  <2>1. OwnExport(S, facts, e) /\ (The(e.of).d = "function" => e.of \in DOMAIN facts)
    BY <1>5 DEF OwnAnalysis, AnalysisOk
  <2> QED
    BY <1>6, <2>1, OwnExportMonotone
<1>10. PICK G, O : G = exported /\ O = owner
  OBVIOUS
<1>11. Started' = S /\ facts' = F /\ exported' = G /\ owner' = O /\ UNCHANGED <<program, done, stage>>
  BY <1>1, <1>5, <1>10 DEF Started, known
<1>12. OwnersOk(S, O)' /\ \A m \in S : NamesSound(m)'
  BY <1>5, <1>10, <1>11, OwnersKeep DEF OwnAnalysis
<1>13. \A g \in DOMAIN F : OwnFacts(S, F, g)'
  <2>1. \A g \in DOMAIN F : OwnFacts(S, F, g)
    BY <1>1, <1>5, <1>7, <1>8
  <2> QED
    BY <1>11, <2>1, OwnKeep
<1>14. \A e \in G : OwnExport(S, F, e)'
  BY <1>9, <1>10, <1>11, OwnKeep
<1>15. (\A m \in done' : InitializerCallsSound(m)') /\ (stage' = "analysed" => TargetSound')
  BY <1>11, OwnersKeep DEF OwnAnalysis
<1>16. visit'.f = <<>>
  BY <1>1 DEF Idle
<1> QED
  BY <1>11, <1>12, <1>13, <1>14, <1>15, <1>16 DEF OwnAnalysis

(* Every step of the analysis that does not reject keeps this. *)
LEMMA OwnAnalyze ==
  ASSUME AnalysisOk, OwnAnalysis, WellFormed(program), Analyze, ~rejected'
  PROVE  OwnAnalysis'
<1>1. CASE ResolveImports
  <2>1. /\ UNCHANGED <<program, done, owner, exported, facts, visit>> /\ stage = "imports" /\ stage' = "modules"
    BY <1>1 DEF ResolveImports, At, known
  <2>2. Started' = Started /\ visit.f = <<>>
    BY <2>1 DEF Started, AnalysisOk, VisitOk
  <2> QED
    BY <2>1, <2>2, OwnStage DEF OwnAnalysis
<1>2. CASE \E m \in Modules : BeginModule(m)
  BY <1>2, OwnBeginModule
<1>3. CASE FinishModule
  <2>1. /\ UNCHANGED <<program, owner, exported, facts, visit>> /\ stage = "functions" /\ stage' = "modules"
        /\ done' = done \union {module} /\ InitializerCallsSound(module) /\ visit = Idle
    BY <1>3 DEF FinishModule, At
  <2>2. Started' = Started /\ visit.f = <<>>
    BY <2>1 DEF Started, Idle
  <2> QED
    BY <2>1, <2>2, OwnStage DEF OwnAnalysis
<1>4. CASE \E f \in Functions(module) : StartBody(f)
  BY <1>4, OwnStartBody
<1>5. CASE VisitPart
  BY <1>5, OwnVisitPart
<1>6. CASE VisitStatement
  BY <1>6, OwnVisitStatement
<1>7. CASE FinishBody
  BY <1>7, OwnFinishBody
<1>8. CASE ValidateTarget
  <2>1. /\ UNCHANGED <<program, done, owner, exported, facts, visit>> /\ stage = "modules" /\ stage' = "analysed" /\ TargetSound
    BY <1>8 DEF ValidateTarget, At, known
  <2>2. Started' = Started /\ visit.f = <<>>
    BY <2>1 DEF Started, AnalysisOk, VisitOk
  <2> QED
    BY <2>1, <2>2, OwnStage DEF OwnAnalysis
<1> QED
  BY <1>1, <1>2, <1>3, <1>4, <1>5, <1>6, <1>7, <1>8 DEF Analyze, AnalyzeModules, AnalyzeFunctions

(* The analysis begins with nothing found out. *)
LEMMA OwnRestart ==
  ASSUME RestartAnalysis
  PROVE  OwnAnalysis'
<1>1. /\ done' = {} /\ stage' = "imports" /\ exported' = {} /\ visit' = Idle /\ facts' = <<>> /\ owner' = <<>>
  BY DEF RestartAnalysis
<1>2. (DOMAIN facts)' = {} /\ (DOMAIN owner)' = {}
  BY <1>1
<1>3. Started' = {}
  BY <1>1 DEF Started
<1>4. (visit.f = <<>>)'
  BY <1>1 DEF Idle
<1> QED
  BY <1>1, <1>2, <1>3, <1>4 DEF OwnAnalysis, OwnersOk

(* After the analysis nothing more is found out. *)
LEMMA OwnUnchanged ==
  ASSUME OwnAnalysis, UNCHANGED <<program, analysis>>
  PROVE  OwnAnalysis'
<1>1. UNCHANGED <<program, stage, module, known, facts, visit>>
  BY DEF analysis, known
<1>2. PICK S, F, v : S = Started /\ F = facts /\ v = visit
  OBVIOUS
<1>3. Started' = S /\ facts' = F /\ visit' = v
  BY <1>1, <1>2 DEF Started, known
<1>4. v.f # <<>> => OwnVisit(S, F, v)'
  BY <1>1, <1>2, OwnKeep DEF OwnAnalysis
<1>5. (visit.f # <<>> => OwnVisit(Started, facts, visit))'
  BY <1>3, <1>4
<1> QED
  BY <1>1, <1>5, OwnKeeps

(* What is known of a program that is accepted. *)
Accepted ==
  /\ Settled(done) /\ TargetSound
  /\ \A m \in done : ConstructorSound(m) /\ InitializerCallsSound(m)
  /\ \A f \in DOMAIN facts : IsFunction(f) /\ OwnFacts(done, facts, f)
  /\ \A e \in exported : OwnExport(done, facts, e)

(* The analysis has found it out. *)
LEMMA AcceptedFacts ==
  ASSUME Inv, OwnAnalysis, phase \notin Analysing \union {"rejected"}
  PROVE  Accepted
<1>1. Sound(facts) /\ AnalysisOk /\ Main \in done /\ WellFormed(program)
  BY InvSound
<1>2. stage = "analysed"
  BY DEF Inv
<1>3. Started = done
  BY <1>2 DEF Started
<1>4. Imported(done)
  BY <1>1, <1>3, StartedImported
<1>5. Settled(done)
  BY <1>1, <1>3, <1>4 DEF Settled, OwnAnalysis, AnalysisOk
<1> QED
  BY <1>1, <1>2, <1>3, <1>5 DEF Accepted, OwnAnalysis, AnalysisOk

---------------------------------------------------------------------------
(* The state a run touches is owned.                                       *)

Lending == \E m \in done \ Owned : Lends(m)

(* What touches state, or calls what does, is in a module of the contract. *)
MayTouch(F, f) == f[1] \in Owned \/ StateOf(F[f].reads) = {}
Touched(t) == t.how \in {"read", "write"} /\ IsStateAccess(t)
OwnRun(F, s, t) ==
  /\ \A j \in DOMAIN s : MayTouch(F, s[j].f)
  /\ Touched(t) => t.of[1] \in Owned

(* A variable that is found by its name, ... *)
LEMMA OwnTouch ==
  ASSUME Accepted, ~Lending, NEW f \in DOMAIN facts, MayTouch(facts, f), NEW bound, NEW path, IsPath(path),
         OwnAccess(done, facts[f].reads, LookUp(f, bound, path)), NEW how,
         Touched(Touch(how, LookUp(f, bound, path)))
  PROVE  Touch(how, LookUp(f, bound, path)).of[1] \in Owned
<1> DEFINE r == LookUp(f, bound, path)
<1>1. f[1] # NoModule
  BY DEF Accepted, OwnFacts, Settled, Imported
<1>2. (r.kind = "local" => r.of = <<f[1], f[2], path[1]>>) /\ (r.kind \in {"variable", "function"} => \E q \in Seq(STRING) : r = MemberOf(f[1], q))
  BY <1>1, ResolveFacts, ResolvesToMembers DEF LookUp
<1>3. OwnAccess(done, facts[f].reads, r) /\ Touched(Touch(how, r))
  OBVIOUS
<1> HIDE DEF r
<1>4. IsVariable(r) /\ Touch(how, r).of = r.of
  BY <1>3 DEF Touched, Touch, NoTouch
<1>5. IsStateAccess(VariableAccess(r)) /\ Len(r.of) = 2
  BY <1>3, <1>4 DEF Touched, IsStateAccess, VariableAccess
<1>6. VariableAccess(r) \in StateOf(facts[f].reads) /\ Held(done, r)
  BY <1>3, <1>5 DEF OwnAccess, StateOf
<1>7. f[1] \in Owned
  BY <1>6 DEF MayTouch
<1>8. r.kind # "local"
  <2>1. \A a, b, c : Len(<<a, b, c>>) = 3
    OBVIOUS
  <2>2. r.kind = "local" => Len(r.of) = 3
    BY <1>2, <2>1, Zenon
  <2> QED
    BY <1>5, <2>2
<1>9. r.kind = "variable"
  BY <1>4, <1>8 DEF IsVariable
<1>10. PICK q \in Seq(STRING) : r = MemberOf(f[1], q)
  BY <1>2, <1>9
<1>11. r.of[1] \in Owned
  BY <1>6, <1>7, <1>9, <1>10, HeldOwned DEF Accepted, Lending
<1> QED
  BY <1>4, <1>11 DEF r

(* ... a function that is called ... *)
LEMMA OwnCalled ==
  ASSUME Accepted, ~Lending, NEW f \in DOMAIN facts, MayTouch(facts, f), NEW x, IsCallOfInternal(CalleeOf(f, x)), IsPath(x.to),
         OwnCall(done, facts, f, facts[f].reads, CalleeOf(f, x))
  PROVE  MayTouch(facts, CalleeOf(f, x).of)
<1> DEFINE r == CalleeOf(f, x)
<1> SUFFICES ASSUME StateOf(facts[r.of].reads) # {}
             PROVE  r.of[1] \in Owned
  BY DEF MayTouch
<1>1. StateOf(facts[r.of].reads) \subseteq StateOf(facts[f].reads) /\ Held(done, r)
  BY DEF OwnCall, StateOf
<1>2. f[1] \in Owned
  BY <1>1 DEF MayTouch
<1>3. r.kind = "function"
  BY DEF IsCallOfInternal
<1>4. PICK q \in Seq(STRING) : r = MemberOf(f[1], q)
  BY <1>3, ResolvesToMembers DEF CalleeOf
<1> HIDE DEF r
<1> QED
  BY <1>1, <1>2, <1>3, <1>4, HeldOwned DEF Accepted, Lending

(* ... and what the contract exposes are its own. *)
LEMMA OwnExposed ==
  ASSUME Accepted, ~Lending, NEW f \in Exposed
  PROVE  /\ The(f).d = "function" => MayTouch(facts, f)
         /\ The(f).d # "function" /\ IsState(The(f)) => f[1] \in Owned
<1>1. Main \in Owned
  BY DEF Owned
<1>2. CASE f \in Functions(Main) \union Getters(Main)
  <2>1. f[1] = Main
    BY <1>2 DEF Functions, Getters
  <2> QED
    BY <1>1, <2>1 DEF MayTouch
<1>3. CASE \E e \in ExportedBy(Main) : f = e.of
  <2>1. PICK e \in exported : e.by = Main /\ f = e.of
    BY <1>3 DEF ExportedBy
  <2>2. PICK c \in PathsIn(Main, "exports") :
          /\ f = InfoAt(Main, c).of /\ IsExposed(InfoAt(Main, c))
          /\ (IF The(InfoAt(Main, c).of).d = "function" THEN StateOf(facts[InfoAt(Main, c).of].reads) # {} ELSE IsState(The(InfoAt(Main, c).of)))
               => Held(done, InfoAt(Main, c))
    BY <2>1 DEF Accepted, OwnExport
  <2> DEFINE r == InfoAt(Main, c)
  <2> DEFINE path == program[Main][c[1]].paths[c[2]]
  <2>3. path \in Seq(STRING) /\ r = MemberOf(Main, path)
    BY NamedPaths DEF Accepted, Settled, InfoAt, IsPath
  <2>4. r.kind \in {"variable", "function"} /\ r.of = f
    BY <2>2 DEF IsExposed
  <2>5. (IF The(f).d = "function" THEN StateOf(facts[f].reads) # {} ELSE IsState(The(f))) => Held(done, r)
    BY <2>2
  <2> HIDE DEF r, path
  <2>6. Held(done, r) => f[1] \in Owned
    BY <1>1, <2>3, <2>4, HeldOwned DEF Accepted, Lending
  <2> QED
    BY <2>5, <2>6 DEF MayTouch
<1> QED
  BY <1>2, <1>3 DEF Exposed

(* What has been found of the part that is worked out, ... *)
LEMMA OwnPartNow ==
  ASSUME Sound(facts), RunOk, Accepted, NEW kinds, DoingPart(kinds)
  PROVE  /\ Top.f \in DOMAIN facts /\ 1 \in DOMAIN stack
         /\ OwnPart(done, facts, Top.f, Top.bound, facts[Top.f].reads, NowPart)
         /\ NowPart.s # "outside" => IsPath(NowPart.to)
<1>1. /\ stack # <<>> /\ Top.line \in DOMAIN Body(Top.f) /\ Top.part + 1 \in DOMAIN Now.value
      /\ Now = Body(Top.f)[Top.line] /\ WellTyped(Now)
  BY PartFacts
<1>2. Top.f \in DOMAIN facts /\ IsFunction(Top.f) /\ PlaceOk(Top.f, Top.line, Top.bound)
  BY <1>1, TopFacts
<1>3. Now.s # "endfor"
  <2>1. Now.s \in Marks => Now.value = <<>>
    BY <1>1, <1>2 DEF WellNested, IsFunction
  <2>2. Now.value # <<>>
    BY <1>1
  <2> QED
    BY <2>1, <2>2 DEF Marks
<1>4. Top.bound = Scope(Top.f, Top.line)
  BY <1>1, <1>2, <1>3 DEF PlaceOk, BoundOk
<1>5. OwnPart(done, facts, Top.f, Top.bound, facts[Top.f].reads, NowPart)
  BY <1>1, <1>2, <1>4 DEF Accepted, OwnFacts, OwnLine, NowPart
<1>6. NowPart.s # "outside" => IsPath(NowPart.to)
  BY <1>1 DEF WellTyped, NowPart
<1>7. 1 \in DOMAIN stack
  BY <1>1 DEF RunOk, StackOk
<1> QED
  BY <1>2, <1>5, <1>6, <1>7

(* ... and of the statement. *)
LEMMA OwnStatementNow ==
  ASSUME Sound(facts), RunOk, Accepted, NEW kinds, Doing(kinds), "endfor" \notin kinds
  PROVE  /\ Top.f \in DOMAIN facts /\ 1 \in DOMAIN stack
         /\ OwnStatement(done, Top.f, Top.bound, facts[Top.f].reads, Now)
<1>1. stack # <<>> /\ Top.line \in DOMAIN Body(Top.f) /\ Now = Body(Top.f)[Top.line] /\ Now.s # "endfor"
  BY StatementFacts
<1>2. Top.f \in DOMAIN facts /\ PlaceOk(Top.f, Top.line, Top.bound)
  BY <1>1, TopFacts
<1>3. Top.bound = Scope(Top.f, Top.line)
  BY <1>1, <1>2 DEF PlaceOk, BoundOk
<1>4. OwnStatement(done, Top.f, Top.bound, facts[Top.f].reads, Now)
  BY <1>1, <1>2, <1>3 DEF Accepted, OwnFacts, OwnLine
<1>5. 1 \in DOMAIN stack
  BY <1>1 DEF RunOk, StackOk
<1> QED
  BY <1>2, <1>4, <1>5

(* Where the innermost function moves, the functions that run are the      *)
(* same. *)
LEMMA SameFunctions ==
  ASSUME RunOk, stack # <<>>, NEW line, NEW part, NEW bound,
         NEW s, s = [stack EXCEPT ![1] = [f |-> Top.f, line |-> line, part |-> part, bound |-> bound]]
  PROVE  DOMAIN s = DOMAIN stack /\ \A j \in DOMAIN stack : s[j].f = stack[j].f
<1>1. stack \in Seq(Frames(facts)) /\ 1 \in DOMAIN stack
  BY DEF RunOk, StackOk
<1>2. s[1].f = Top.f /\ \A j \in DOMAIN stack : j # 1 => s[j] = stack[j]
  BY <1>1
<1> QED
  BY <1>1, <1>2 DEF Top

(* A step of what runs touches no state that is not owned. *)
LEMMA OwnMoves ==
  ASSUME RunOk, OwnRun(facts, stack, touched), stack # <<>>, NEW line, NEW part, NEW bound,
         stack' = [stack EXCEPT ![1] = [f |-> Top.f, line |-> line, part |-> part, bound |-> bound]],
         Touched(touched') => touched'.of[1] \in Owned
  PROVE  OwnRun(facts, stack', touched')
<1>1. PICK s : s = stack'
  OBVIOUS
<1>2. DOMAIN s = DOMAIN stack /\ \A j \in DOMAIN stack : s[j].f = stack[j].f
  BY <1>1, SameFunctions
<1>3. \A j \in DOMAIN s : MayTouch(facts, s[j].f)
  BY <1>2 DEF OwnRun
<1> QED
  BY <1>1, <1>3 DEF OwnRun

(* A variable is read, or written, that is owned, ... *)
LEMMA OwnAccessStep ==
  ASSUME Sound(facts), RunOk, Accepted, ~Lending, OwnRun(facts, stack, touched), Access
  PROVE  OwnRun(facts, stack', touched')
<1> DEFINE how == IF NowPart.s = "pop" THEN "write" ELSE "read"
<1>1. DoingPart({"read", "pop"}) /\ stack' = PartDone /\ touched' = Touch(how, Here(NowPart.to))
  BY DEF Access, Ran
<1>2. stack # <<>> /\ NowPart.s \in {"read", "pop"}
  BY <1>1, PartFacts
<1>3. /\ Top.f \in DOMAIN facts /\ 1 \in DOMAIN stack /\ IsPath(NowPart.to)
      /\ OwnAccess(done, facts[Top.f].reads, LookUp(Top.f, Top.bound, NowPart.to))
  BY <1>1, <1>2, OwnPartNow DEF OwnPart
<1>4. MayTouch(facts, Top.f)
  BY <1>3 DEF OwnRun, Top
<1> HIDE DEF how
<1>5. Touched(touched') => touched'.of[1] \in Owned
  BY <1>1, <1>3, <1>4, OwnTouch DEF Here
<1>6. stack' = [stack EXCEPT ![1] = [f |-> Top.f, line |-> Top.line, part |-> Top.part + 1, bound |-> Top.bound]]
  BY <1>1 DEF PartDone
<1> QED
  BY <1>2, <1>5, <1>6, OwnMoves

(* ... a function is called, ... *)
LEMMA OwnCallStep ==
  ASSUME Sound(facts), RunOk, Accepted, ~Lending, OwnRun(facts, stack, touched), CallFunction
  PROVE  OwnRun(facts, stack', touched')
<1> DEFINE r == CalleeOf(Top.f, NowPart)
<1>1. DoingPart({"call"})
  BY DEF CallFunction
<1>2. stack # <<>> /\ NowPart.s = "call" /\ PartOk(facts, Top.f, Top.bound, facts[Top.f].writes, NowPart)
  BY <1>1, PartFacts
<1>3. /\ Top.f \in DOMAIN facts /\ 1 \in DOMAIN stack /\ IsPath(NowPart.to)
      /\ OwnCall(done, facts, Top.f, facts[Top.f].reads, r)
  BY <1>1, <1>2, OwnPartNow DEF OwnPart
<1>4. MayTouch(facts, Top.f) /\ IsCallOfInternal(r)
  BY <1>2, <1>3 DEF OwnRun, Top, PartOk
<1>5. MayTouch(facts, r.of)
  BY <1>3, <1>4, OwnCalled
<1>6. stack' = <<Frame(r.of)>> \o PartDone /\ touched' = NoTouch
  BY <1>4 DEF CallFunction, IsCallOfInternal, Ran
<1> HIDE DEF r
<1>7. PICK s : s = PartDone
  OBVIOUS
<1>8. DOMAIN s = DOMAIN stack /\ \A j \in DOMAIN stack : s[j].f = stack[j].f
  <2>1. PICK line, part, bound : line = Top.line /\ part = Top.part + 1 /\ bound = Top.bound
    OBVIOUS
  <2>2. s = [stack EXCEPT ![1] = [f |-> Top.f, line |-> line, part |-> part, bound |-> bound]]
    BY <1>7, <2>1 DEF PartDone
  <2> QED
    BY <1>2, <2>2, SameFunctions
<1>9. Len(s) \in Nat /\ DOMAIN s = 1 .. Len(s) /\ \E X : s \in Seq(X)
  <2>1. stack \in Seq(Frames(facts))
    BY DEF RunOk, StackOk
  <2> DEFINE fr == [f |-> Top.f, line |-> Top.line, part |-> Top.part + 1, bound |-> Top.bound]
  <2>2. s \in Seq(Frames(facts) \union {fr})
    <3>1. s = [stack EXCEPT ![1] = fr]
      BY <1>7 DEF PartDone
    <3> HIDE DEF fr
    <3>2. PICK X : X = Frames(facts) \union {fr}
      OBVIOUS
    <3>3. stack \in Seq(X) /\ fr \in X /\ Len(stack) \in Nat /\ DOMAIN stack = 1 .. Len(stack)
      BY <2>1, <3>2
    <3>4. PICK g : g = fr
      OBVIOUS
    <3>5. s = [stack EXCEPT ![1] = g] /\ g \in X
      BY <3>1, <3>3, <3>4
    <3>6. s \in Seq(X)
      BY <1>3, <3>3, <3>5
    <3> QED
      BY <3>2, <3>6
  <2> QED
    BY <2>2
<1>10. PICK t : t = <<Frame(r.of)>> \o s
  OBVIOUS
<1>11. DOMAIN t = 1 .. Len(s) + 1 /\ t[1] = Frame(r.of) /\ \A j \in 2 .. Len(s) + 1 : t[j] = s[j - 1]
  <2>1. PICK X : s \in Seq(X)
    BY <1>9
  <2> QED
    BY <1>10, <2>1
<1>12. ASSUME NEW j \in DOMAIN t
       PROVE  MayTouch(facts, t[j].f)
  <2>1. CASE j = 1
    BY <1>5, <1>11, <2>1 DEF Frame
  <2>2. CASE j # 1
    <3>1. j - 1 \in DOMAIN s /\ t[j] = s[j - 1]
      BY <1>9, <1>11, <2>2
    <3> QED
      BY <1>8, <3>1 DEF OwnRun
  <2> QED
    BY <2>1, <2>2
<1>13. ~Touched(NoTouch)
  BY DEF Touched, NoTouch
<1> QED
  BY <1>6, <1>7, <1>10, <1>12, <1>13 DEF OwnRun

(* A statement that is done touches what it touches and no more. *)
LEMMA OwnGoes ==
  ASSUME RunOk, OwnRun(facts, stack, touched), stack # <<>>, NEW line, NEW bound, NEW touch, GoesTo(line, bound, touch),
         Touched(touch) => touch.of[1] \in Owned
  PROVE  OwnRun(facts, stack', touched')
<1>1. /\ touched' = touch
      /\ stack' = [stack EXCEPT ![1] = [f |-> Top.f, line |-> line, part |-> 0, bound |-> bound]]
  BY DEF GoesTo, Ran
<1> QED
  BY <1>1, OwnMoves

(* ... a variable is assigned to, ... *)
LEMMA OwnWriteStep ==
  ASSUME Sound(facts), RunOk, Accepted, ~Lending, OwnRun(facts, stack, touched), Write
  PROVE  OwnRun(facts, stack', touched')
<1>1. Doing({"assign", "append"}) /\ GoesTo(NextLine, Top.bound, Touch("write", Here(Now.to)))
  BY DEF Write
<1>2. stack # <<>> /\ Now.s \in {"assign", "append"} /\ WellTyped(Now)
  BY <1>1, StatementFacts
<1>3. /\ Top.f \in DOMAIN facts /\ 1 \in DOMAIN stack
      /\ OwnStatement(done, Top.f, Top.bound, facts[Top.f].reads, Now)
  BY <1>1, OwnStatementNow
<1>4. IsPath(Now.to) /\ OwnAccess(done, facts[Top.f].reads, LookUp(Top.f, Top.bound, Now.to))
  BY <1>2, <1>3 DEF WellTyped, OwnStatement
<1>5. MayTouch(facts, Top.f)
  BY <1>3 DEF OwnRun, Top
<1>6. Touched(Touch("write", Here(Now.to))) => Touch("write", Here(Now.to)).of[1] \in Owned
  BY <1>3, <1>4, <1>5, OwnTouch DEF Here
<1> QED
  BY <1>1, <1>2, <1>6, OwnGoes

(* ... or an array is iterated over. *)
LEMMA OwnLoopStep ==
  ASSUME Sound(facts), RunOk, Accepted, ~Lending, OwnRun(facts, stack, touched), Loop
  PROVE  OwnRun(facts, stack', touched')
<1> DEFINE touch == IF Now.over = <<>> THEN NoTouch ELSE Touch("read", Here(Now.over))
<1>1. Doing({"for"})
  BY DEF Loop
<1>2. stack # <<>> /\ Now.s = "for" /\ WellTyped(Now)
  BY <1>1, StatementFacts
<1>3. /\ Top.f \in DOMAIN facts /\ 1 \in DOMAIN stack
      /\ OwnStatement(done, Top.f, Top.bound, facts[Top.f].reads, Now)
  BY <1>1, OwnStatementNow
<1>4. Touched(touch) => touch.of[1] \in Owned
  <2>1. CASE Now.over = <<>>
    BY <2>1 DEF Touched, NoTouch
  <2>2. CASE Now.over # <<>>
    <3>1. IsPath(Now.over) /\ OwnAccess(done, facts[Top.f].reads, LookUp(Top.f, Top.bound, Now.over))
      BY <1>2, <1>3, <2>2 DEF WellTyped, OwnStatement, IsPath
    <3>2. MayTouch(facts, Top.f)
      BY <1>3 DEF OwnRun, Top
    <3>3. Touched(Touch("read", Here(Now.over))) => Touch("read", Here(Now.over)).of[1] \in Owned
      BY <1>3, <3>1, <3>2, OwnTouch DEF Here
    <3> QED
      BY <2>2, <3>3
  <2> QED
    BY <2>1, <2>2
<1>5. GoesTo(NextLine, Top.bound \union {Top.line}, touch) \/ GoesTo(Now.until + 1, Top.bound, touch)
  BY DEF Loop
<1> HIDE DEF touch
<1> QED
  BY <1>2, <1>4, <1>5, OwnGoes

(* The other steps touch nothing. *)
LEMMA OwnOtherStep ==
  ASSUME RunOk, OwnRun(facts, stack, touched),
         \/ Outside \/ BindName \/ Expression \/ Log \/ Branch \/ EndOfSide \/ EndOfBranch \/ Again \/ Break \/ Continue
  PROVE  OwnRun(facts, stack', touched')
<1>1. stack # <<>>
  BY DEF Outside, BindName, Expression, Log, Branch, EndOfSide, EndOfBranch, Again, Break, Continue, Doing, DoingPart, InCode
<1>2. ~Touched(NoTouch) /\ ~Touched([NoTouch EXCEPT !.how = "log"])
  BY DEF Touched, NoTouch
<1>3. CASE Outside
  <2>1. stack' = [stack EXCEPT ![1] = [f |-> Top.f, line |-> Top.line, part |-> Top.part + 1, bound |-> Top.bound]]
    BY <1>3 DEF Outside, PartDone
  <2>2. PICK how : touched' = [NoTouch EXCEPT !.how = how]
    BY <1>3 DEF Outside, Ran
  <2>3. Touched(touched') => touched'.of = <<>>
    BY <2>2 DEF NoTouch
  <2>4. Len(<<>>) = 0
    OBVIOUS
  <2>5. ~Touched(touched')
    BY <2>3, <2>4 DEF Touched, IsStateAccess
  <2> QED
    BY <1>1, <2>1, <2>5, OwnMoves
<1>4. CASE Log
  <2>1. GoesTo(NextLine, Top.bound, [NoTouch EXCEPT !.how = "log"])
    BY <1>4 DEF Log
  <2> QED
    BY <1>1, <1>2, <2>1, OwnGoes
<1>5. CASE BindName \/ Expression \/ Branch \/ EndOfSide \/ EndOfBranch \/ Again \/ Break \/ Continue
  <2>1. \E line, bound : GoesTo(line, bound, NoTouch)
    BY <1>5 DEF BindName, Expression, Branch, EndOfSide, EndOfBranch, Again, Break, Continue
  <2> QED
    BY <1>1, <1>2, <2>1, OwnGoes
<1> QED
  BY <1>3, <1>4, <1>5

(* When a function is left the others are as before. *)
LEMMA OwnLeaveStep ==
  ASSUME RunOk, OwnRun(facts, stack, touched), Return \/ FallOff
  PROVE  OwnRun(facts, stack', touched')
<1>1. stack # <<>> /\ stack' = Tail(stack)
  BY DEF Return, FallOff, Doing, InCode
<1>2. touched' = NoTouch \/ touched' = [NoTouch EXCEPT !.how = "no result"]
  BY DEF Return, FallOff, Ran
<1>3. ~Touched(touched')
  <2>1. touched' = NoTouch => touched'.how = "nothing"
    BY DEF NoTouch
  <2>2. touched' = [NoTouch EXCEPT !.how = "no result"] => touched'.how = "no result"
    BY DEF NoTouch
  <2> QED
    BY <1>2, <2>1, <2>2 DEF Touched
<1>4. stack \in Seq(Frames(facts)) /\ Len(stack) \in Nat /\ Len(stack) >= 1
  BY <1>1 DEF RunOk, StackOk
<1>5. PICK s : s = Tail(stack)
  OBVIOUS
<1>6. DOMAIN s = 1 .. Len(stack) - 1 /\ \A j \in DOMAIN s : j + 1 \in DOMAIN stack /\ s[j] = stack[j + 1]
  BY <1>4, <1>5
<1>7. \A j \in DOMAIN s : MayTouch(facts, s[j].f)
  BY <1>6 DEF OwnRun
<1> QED
  BY <1>1, <1>3, <1>5, <1>7 DEF OwnRun

(* Whatever runs touches no state but what is owned. *)
LEMMA OwnExecute ==
  ASSUME Sound(facts), RunOk, Accepted, ~Lending, OwnRun(facts, stack, touched), Execute, ~Raise
  PROVE  OwnRun(facts, stack', touched')
BY OwnAccessStep, OwnCallStep, OwnWriteStep, OwnLoopStep, OwnOtherStep, OwnLeaveStep DEF Execute

(* What is owned, and what touches it, depends on the program alone. *)
LEMMA OwnRunKeeps ==
  ASSUME UNCHANGED <<program, done>>
  PROVE  Lending' = Lending /\ Owned' = Owned /\ \A F, s, t : OwnRun(F, s, t)' = OwnRun(F, s, t)
<1>1. Owned' = Owned
  BY OwnersKeep DEF Owned
<1>2. \A m : Lends(m)' = Lends(m)
  BY DeclarationsKeep DEF Lends
<1>3. Lending' = Lending
  BY <1>1, <1>2 DEF Lending
<1>4. \A t : Touched(t)' = Touched(t)
  BY FunctionsKeep DEF Touched
<1>5. \A F, f : MayTouch(F, f)' = MayTouch(F, f)
  BY <1>1, FunctionsKeep DEF MayTouch
<1>6. \A F, s, t : OwnRun(F, s, t)' = OwnRun(F, s, t)
  BY <1>1, <1>4, <1>5 DEF OwnRun
<1> QED
  BY <1>1, <1>3, <1>6

(* State that is owned is initialized by one declaration. *)
LEMMA OwnedOnce ==
  ASSUME Accepted, ~Lending => OwnRun(facts, stack, touched), TouchesState
  PROVE  \/ touched.of[1] = Main \/ Cardinality(Initializers(touched.of[1])) = 1
         \/ \E m \in done \ (InitializedBelow(Main) \union {Main}) : Lends(m)
<1>1. Touched(touched)
  BY DEF TouchesState, Touched, IsIn
<1>2. CASE Lending
  BY <1>2 DEF Lending, Owned
<1>3. CASE ~Lending
  <2>1. touched.of[1] \in Owned
    BY <1>1, <1>3 DEF OwnRun
  <2> QED
    BY <2>1 DEF Owned, Accepted, TargetSound
<1> QED
  BY <1>2, <1>3

---------------------------------------------------------------------------
(* Constructors run once.                                                  *)

(* The module whose constructor is called at c by that of m. *)
StartedBy(m, c) == CalleeOf(<<m, Constructor>>, PartAt(<<m, Constructor>>, c)).of[1]

(* The call is behind what runs at fr; it has been made, if the            *)
(* constructor of m has begun and wherever it still runs it is behind.     *)
Behind(c, fr) == c[1] < fr.line \/ (c[1] = fr.line /\ c[2] <= fr.part)
Past(s, b, m, c) == b[m] = 1 /\ \A j \in DOMAIN s : s[j].f = <<m, Constructor>> => Behind(c, s[j])
AllStraight == \A m \in Owned : Straight(m)

(* While constructors run, at the bottom that of the contract, those that  *)
(* have been called have run once, and the others not yet.                 *)
Constructing(s, b) ==
  /\ b \in [DOMAIN program -> 0 .. 2]
  /\ HasConstructor(Main) => b[Main] = 1
  /\ s # <<>> => s[Len(s)].f = <<Main, Constructor>>
  /\ \A j \in DOMAIN s : IsConstructor(s[j].f) => s[j].f[1] \in Owned /\ b[s[j].f[1]] = 1
  /\ \A m \in Owned : \A c \in InitializerCalls(m) :
       StartedBy(m, c) # Main => b[StartedBy(m, c)] = IF Past(s, b, m, c) THEN 1 ELSE 0

(* Where a constructor is called. *)
LEMMA CallPlaces ==
  ASSUME NEW m, NEW c \in InitializerCalls(m), IsFunction(<<m, Constructor>>)
  PROVE  /\ HasConstructor(m)
         /\ c[1] \in DOMAIN Body(<<m, Constructor>>) /\ c[1] \in Nat
         /\ c[2] \in DOMAIN Body(<<m, Constructor>>)[c[1]].value /\ c[2] \in Nat /\ c[2] >= 1
         /\ c[2] <= Len(Body(<<m, Constructor>>)[c[1]].value) /\ Len(Body(<<m, Constructor>>)[c[1]].value) \in Nat
         /\ c = <<c[1], c[2]>>
         /\ Body(<<m, Constructor>>)[c[1]].s \notin Marks
<1> DEFINE f == <<m, Constructor>>
<1>1. HasConstructor(m) /\ c \in Parts(f)
  BY DEF InitializerCalls, CallsOf
<1>2. PICK k \in DOMAIN Body(f) : c \in {k} \X DOMAIN Body(f)[k].value
  BY <1>1 DEF Parts
<1>3. c[1] = k /\ c[2] \in DOMAIN Body(f)[k].value /\ c = <<c[1], c[2]>>
  BY <1>2
<1>4. WellTyped(Body(f)[k]) /\ WellNested(Body(f)) /\ k \in Nat
  BY <1>2, BodyLines DEF IsFunction
<1> HIDE DEF f
<1>5. Body(f)[k].value \in Seq(Range(Body(f)[k].value))
  BY <1>4 DEF WellTyped
<1>6. Body(f)[k].s \in Marks => Body(f)[k].value = <<>>
  BY <1>2, <1>4 DEF WellNested
<1>7. c[2] \in Nat /\ c[2] >= 1 /\ c[2] <= Len(Body(f)[k].value) /\ Len(Body(f)[k].value) \in Nat
  BY <1>3, <1>5
<1>8. Body(f)[k].value # <<>>
  BY <1>3, <1>5
<1> QED
  BY <1>1, <1>2, <1>3, <1>4, <1>6, <1>7, <1>8 DEF f

(* In blocks there are none. *)
LEMMA NoCallInBlock ==
  ASSUME NEW m, NEW c \in InitializerCalls(m), IsFunction(<<m, Constructor>>), Straight(m),
         NEW j \in DOMAIN Body(<<m, Constructor>>), Body(<<m, Constructor>>)[j].s \in Opening
  PROVE  ~(j < c[1] /\ c[1] <= Body(<<m, Constructor>>)[j].until)
<1> DEFINE f == <<m, Constructor>>
<1>1. /\ HasConstructor(m) /\ c[1] \in DOMAIN Body(f) /\ c[1] \in Nat /\ Body(f)[c[1]].s \notin Marks
  BY CallPlaces
<1>2. \A k \in DOMAIN Body(f) : InBlock(f, k) => c[1] # k
  BY <1>1 DEF Straight
<1>3. WellNested(Body(f)) /\ j \in Nat
  BY BodyLines DEF IsFunction
<1>4. Body(f)[j].until \in Nat /\ Body(f)[Body(f)[j].until].s \in Marks
  BY <1>3, BodyLines DEF WellNested, Opening, Marks
<1> QED
  BY <1>1, <1>2, <1>4 DEF InBlock

(* To go from the end of a line to the beginning of another one changes    *)
(* which calls are behind only if there are calls between them. *)
LEMMA BehindLine ==
  ASSUME NEW m, NEW c \in InitializerCalls(m), IsFunction(<<m, Constructor>>),
         NEW fr, fr.line \in DOMAIN Body(<<m, Constructor>>), fr.part = Len(Body(<<m, Constructor>>)[fr.line].value),
         NEW line \in Nat, ~(fr.line < c[1] /\ c[1] < line), ~(line <= c[1] /\ c[1] <= fr.line),
         NEW to, to.line = line, to.part = 0
  PROVE  Behind(c, to) <=> Behind(c, fr)
<1>1. /\ c[1] \in Nat /\ c[2] \in Nat /\ c[2] >= 1
      /\ c[2] <= Len(Body(<<m, Constructor>>)[c[1]].value)
  BY CallPlaces
<1>2. fr.line \in Nat
  BY BodyLines
<1>3. fr.line = c[1] => c[2] <= fr.part
  BY <1>1
<1> QED
  BY <1>1, <1>2, <1>3 DEF Behind

(* What has been called stays so while what runs moves and passes no call. *)
LEMMA ConstructingMoves ==
  ASSUME NEW b, NEW F, NEW s \in Seq(Frames(F)), Constructing(s, b), s # <<>>,
         NEW t, DOMAIN t = DOMAIN s, Len(t) = Len(s), t[1].f = s[1].f, \A j \in DOMAIN s : j # 1 => t[j] = s[j],
         \A m \in Owned : \A c \in InitializerCalls(m) : s[1].f = <<m, Constructor>> => (Behind(c, t[1]) <=> Behind(c, s[1]))
  PROVE  Constructing(t, b)
<1>1. Len(s) \in Nat /\ DOMAIN s = 1 .. Len(s) /\ Len(s) >= 1
  OBVIOUS
<1>2. \A j \in DOMAIN s : t[j].f = s[j].f
  OBVIOUS
<1>3. t[Len(t)].f = <<Main, Constructor>>
  BY <1>1, <1>2 DEF Constructing
<1>4. ASSUME NEW m \in Owned, NEW c \in InitializerCalls(m)
      PROVE  Past(t, b, m, c) <=> Past(s, b, m, c)
  <2>1. ASSUME NEW j \in DOMAIN s, s[j].f = <<m, Constructor>>
        PROVE  Behind(c, t[j]) <=> Behind(c, s[j])
    BY <2>1
  <2> QED
    BY <1>2, <2>1 DEF Past
<1>5. \A m \in Owned : \A c \in InitializerCalls(m) :
        StartedBy(m, c) # Main => b[StartedBy(m, c)] = IF Past(t, b, m, c) THEN 1 ELSE 0
  BY <1>4 DEF Constructing
<1> QED
  BY <1>2, <1>3, <1>5 DEF Constructing

(* The innermost function goes to another line. *)
LEMMA ConstructingGoes ==
  ASSUME Sound(facts), RunOk, Constructing(stack, began), NEW kinds, Doing(kinds),
         NEW line \in Nat, NEW bound, NEW touch, GoesTo(line, bound, touch),
         \A m \in Owned : \A c \in InitializerCalls(m) :
           Top.f = <<m, Constructor>> => ~(Top.line < c[1] /\ c[1] < line) /\ ~(line <= c[1] /\ c[1] <= Top.line)
  PROVE  Constructing(stack', began')
<1>1. stack # <<>> /\ Top.line \in DOMAIN Body(Top.f) /\ Now = Body(Top.f)[Top.line]
  BY StatementFacts
<1>2. Top.part = Len(Now.value)
  BY DEF Doing
<1>3. Top.f \in DOMAIN facts /\ IsFunction(Top.f)
  BY <1>1, TopFacts
<1>4. stack \in Seq(Frames(facts)) /\ 1 \in DOMAIN stack
  BY <1>1 DEF RunOk, StackOk
<1> DEFINE fr == [f |-> Top.f, line |-> line, part |-> 0, bound |-> bound]
<1>5. stack' = [stack EXCEPT ![1] = fr] /\ began' = began
  BY DEF GoesTo
<1>6. fr.f = Top.f /\ fr.line = line /\ fr.part = 0
  OBVIOUS
<1> HIDE DEF fr
<1>7. PICK t : t = [stack EXCEPT ![1] = fr]
  OBVIOUS
<1>8. DOMAIN t = DOMAIN stack /\ t[1] = fr /\ \A j \in DOMAIN stack : j # 1 => t[j] = stack[j]
  BY <1>4, <1>7
<1>9. Len(t) = Len(stack)
  BY <1>4, <1>7
<1>10. ASSUME NEW m \in Owned, NEW c \in InitializerCalls(m), stack[1].f = <<m, Constructor>>
       PROVE  Behind(c, t[1]) <=> Behind(c, stack[1])
  <2>1. PICK a, g : a = stack[1] /\ g = t[1]
    OBVIOUS
  <2>2. a = Top
    BY <2>1 DEF Top
  <2> DEFINE h == <<m, Constructor>>
  <2>3. h = Top.f
    BY <1>10, <2>1, <2>2
  <2>4. IsFunction(h) /\ a.line \in DOMAIN Body(h) /\ a.part = Len(Body(h)[a.line].value)
    BY <1>1, <1>2, <1>3, <2>2, <2>3
  <2>5. ~(a.line < c[1] /\ c[1] < line) /\ ~(line <= c[1] /\ c[1] <= a.line)
    BY <2>2, <2>3
  <2>6. g.line = line /\ g.part = 0
    BY <1>6, <1>8, <2>1
  <2>7. Behind(c, g) <=> Behind(c, a)
    BY <2>4, <2>5, <2>6, BehindLine
  <2> QED
    BY <2>1, <2>7
<1>11. t[1].f = stack[1].f
  BY <1>6, <1>8 DEF Top
<1> QED
  BY <1>1, <1>4, <1>5, <1>7, <1>8, <1>9, <1>10, <1>11, ConstructingMoves

(* What follows a block that is passed over, or left, is the next place    *)
(* where a constructor may be called. *)
LEMMA PastBlock ==
  ASSUME AllStraight, NEW f, IsFunction(f), NEW j \in DOMAIN Body(f), Body(f)[j].s \in Opening,
         NEW m \in Owned, NEW c \in InitializerCalls(m), f = <<m, Constructor>>
  PROVE  ~(j < c[1] /\ c[1] <= Body(f)[j].until) /\ c[1] \in Nat /\ Body(f)[c[1]].s \notin Marks
BY NoCallInBlock, CallPlaces DEF AllStraight

(* A statement that is done, ... *)
LEMMA ConstructingNext ==
  ASSUME Sound(facts), RunOk, Constructing(stack, began), NEW kinds, Doing(kinds), NEW bound, NEW touch, GoesTo(NextLine, bound, touch)
  PROVE  Constructing(stack', began')
<1>1. stack # <<>> /\ Top.line \in DOMAIN Body(Top.f)
  BY StatementFacts
<1>2. IsFunction(Top.f)
  BY <1>1, TopFacts
<1>3. Top.line \in Nat
  BY <1>1, <1>2, BodyLines
<1>4. PICK line : line = NextLine
  OBVIOUS
<1>5. line = Top.line + 1 /\ line \in Nat
  BY <1>3, <1>4 DEF NextLine
<1>6. \A m \in Owned : \A c \in InitializerCalls(m) :
        Top.f = <<m, Constructor>> => ~(Top.line < c[1] /\ c[1] < line) /\ ~(line <= c[1] /\ c[1] <= Top.line)
  BY <1>2, <1>3, <1>5, CallPlaces
<1> QED
  BY <1>4, <1>5, <1>6, ConstructingGoes

(* ... a block that is passed over, ... *)
LEMMA ConstructingSkips ==
  ASSUME Sound(facts), RunOk, Constructing(stack, began), AllStraight, Doing(Opening), NEW bound, NEW touch,
         GoesTo(Now.until + 1, bound, touch)
  PROVE  Constructing(stack', began')
<1>1. stack # <<>> /\ Top.line \in DOMAIN Body(Top.f) /\ Now = Body(Top.f)[Top.line] /\ Now.s \in Opening
  BY StatementFacts
<1>2. IsFunction(Top.f)
  BY <1>1, TopFacts
<1>3. Top.line \in Nat /\ Now.until \in Nat /\ Top.line < Now.until
  BY <1>1, <1>2, BodyLines, Ending
<1>4. PICK line : line = Now.until + 1
  OBVIOUS
<1>5. line \in Nat
  BY <1>3, <1>4
<1>6. \A m \in Owned : \A c \in InitializerCalls(m) :
        Top.f = <<m, Constructor>> => ~(Top.line < c[1] /\ c[1] < line) /\ ~(line <= c[1] /\ c[1] <= Top.line)
  BY <1>1, <1>2, <1>3, <1>4, PastBlock
<1> QED
  BY <1>4, <1>5, <1>6, ConstructingGoes

(* ... a loop that begins again, ... *)
LEMMA ConstructingAgain ==
  ASSUME Sound(facts), RunOk, Constructing(stack, began), AllStraight, Again
  PROVE  Constructing(stack', began')
<1>1. Doing({"endfor"})
  BY DEF Again
<1>2. stack # <<>> /\ Top.line \in DOMAIN Body(Top.f) /\ Now = Body(Top.f)[Top.line] /\ Now.s = "endfor"
  BY <1>1, StatementFacts
<1>3. IsFunction(Top.f)
  BY <1>2, TopFacts
<1>4. /\ Top.line \in Nat /\ Now.mate \in Nat /\ Now.mate \in DOMAIN Body(Top.f) /\ Now.mate < Top.line
      /\ Body(Top.f)[Now.mate].s \in Opening /\ Body(Top.f)[Now.mate].until = Top.line
  <2>1. WellNested(Body(Top.f)) /\ Len(Body(Top.f)) \in Nat /\ DOMAIN Body(Top.f) = 1 .. Len(Body(Top.f))
    BY <1>3, BodyLines DEF IsFunction
  <2>2. Now.mate \in 1 .. Top.line - 1 /\ Body(Top.f)[Now.mate].s = "for" /\ Body(Top.f)[Now.mate].until = Top.line
    BY <1>2, <2>1 DEF WellNested
  <2> QED
    BY <1>2, <2>1, <2>2 DEF Opening
<1>5. CASE GoesTo(NextLine, Leaving(Top.f, Top.bound, Top.line), NoTouch)
  BY <1>1, <1>5, ConstructingNext
<1>6. CASE GoesTo(Now.mate + 1, {p \in Top.bound : p <= Now.mate}, NoTouch)
  <2>1. PICK line : line = Now.mate + 1
    OBVIOUS
  <2>2. line \in Nat
    BY <1>4, <2>1
  <2>3. \A m \in Owned : \A c \in InitializerCalls(m) :
          Top.f = <<m, Constructor>> => ~(Top.line < c[1] /\ c[1] < line) /\ ~(line <= c[1] /\ c[1] <= Top.line)
    BY <1>3, <1>4, <2>1, PastBlock
  <2> QED
    BY <1>1, <1>6, <2>1, <2>2, <2>3, ConstructingGoes
<1> QED
  BY <1>5, <1>6 DEF Again

(* ... or is cut short. *)
LEMMA ConstructingJumps ==
  ASSUME Sound(facts), RunOk, Constructing(stack, began), AllStraight, Break \/ Continue
  PROVE  Constructing(stack', began')
<1>1. Doing(Jumps)
  BY DEF Break, Continue, Doing, Jumps
<1>2. /\ stack # <<>> /\ Top.line \in DOMAIN Body(Top.f) /\ Now.s \in Jumps /\ Now = Body(Top.f)[Top.line]
      /\ Now.s # "endfor" => StatementOk(Top.f, Top.bound, facts[Top.f].writes, Now)
  BY <1>1, StatementFacts
<1>3. IsFunction(Top.f)
  BY <1>2, TopFacts
<1>4. Now.until # 0
  BY <1>2 DEF StatementOk, Jumps
<1>5. PICK j \in DOMAIN Body(Top.f) :
        /\ j \in Nat /\ j < Top.line /\ Top.line \in Nat /\ Now.until \in Nat /\ Top.line < Now.until
        /\ Body(Top.f)[j].s \in Opening /\ Body(Top.f)[j].until = Now.until
  <2>1. WellNested(Body(Top.f)) /\ Len(Body(Top.f)) \in Nat /\ DOMAIN Body(Top.f) = 1 .. Len(Body(Top.f))
    BY <1>3, BodyLines DEF IsFunction
  <2> DEFINE u == Now.until
  <2>2. u \in Top.line + 1 .. Len(Body(Top.f)) /\ Body(Top.f)[u].s = "endfor" /\ Body(Top.f)[u].mate < Top.line
    BY <1>2, <1>4, <2>1 DEF WellNested
  <2>3. u \in DOMAIN Body(Top.f) /\ u \in Nat /\ Top.line < u /\ Top.line \in Nat
    BY <1>2, <2>1, <2>2
  <2> HIDE DEF u
  <2>4. Body(Top.f)[u].mate \in 1 .. u - 1 /\ Body(Top.f)[Body(Top.f)[u].mate].s = "for" /\ Body(Top.f)[Body(Top.f)[u].mate].until = u
    BY <2>1, <2>2, <2>3 DEF WellNested
  <2>5. Body(Top.f)[u].mate \in DOMAIN Body(Top.f) /\ Body(Top.f)[u].mate \in Nat
    BY <2>1, <2>3, <2>4
  <2> QED
    BY <2>2, <2>3, <2>4, <2>5 DEF Opening, u
<1>6. ASSUME NEW line, line \in {Now.until, Now.until + 1}
      PROVE  line \in Nat /\ \A m \in Owned : \A c \in InitializerCalls(m) :
               Top.f = <<m, Constructor>> => ~(Top.line < c[1] /\ c[1] < line) /\ ~(line <= c[1] /\ c[1] <= Top.line)
  BY <1>3, <1>5, <1>6, PastBlock
<1>7. \/ \E bound : GoesTo(Now.until + 1, bound, NoTouch)
      \/ \E bound : GoesTo(Now.until, bound, NoTouch)
  BY DEF Break, Continue
<1> QED
  BY <1>1, <1>6, <1>7, ConstructingGoes

(* Where a part has been worked out. *)
LEMMA PartMoved ==
  ASSUME Sound(facts), RunOk, NEW kinds, DoingPart(kinds), NEW s, s = PartDone,
         NEW n, NEW rank, RankedBy(facts, n, rank), StackOk(facts, rank, stack)
  PROVE  /\ StackOk(facts, rank, s) /\ s \in Seq(Frames(facts)) /\ s # <<>>
         /\ DOMAIN s = DOMAIN stack /\ Len(s) = Len(stack)
         /\ s[1].f = Top.f /\ s[1].line = Top.line /\ s[1].part = Top.part + 1
         /\ \A j \in DOMAIN stack : j # 1 => s[j] = stack[j]
<1>1. stack # <<>>
  BY PartFacts
<1>2. Top.f \in DOMAIN facts /\ Top.part \in Nat /\ PlaceOk(Top.f, Top.line, Top.bound)
  BY <1>1, TopFacts
<1> DEFINE fr == [f |-> Top.f, line |-> Top.line, part |-> Top.part + 1, bound |-> Top.bound]
<1>3. s = [stack EXCEPT ![1] = fr]
  BY DEF PartDone
<1>4. StackOk(facts, rank, s)
  <2>1. PICK line, part, bound : line = Top.line /\ part = Top.part + 1 /\ bound = Top.bound
    OBVIOUS
  <2>2. part \in Nat
    BY <1>2, <2>1
  <2>3. s = [stack EXCEPT ![1] = [f |-> stack[1].f, line |-> line, part |-> part, bound |-> bound]]
    BY <1>3, <2>1 DEF Top
  <2>4. PlaceOk(stack[1].f, line, bound)
    BY <1>2, <2>1 DEF Top
  <2> QED
    <3>1. StackOk(facts, rank, [stack EXCEPT ![1] = [f |-> stack[1].f, line |-> line, part |-> part, bound |-> bound]])
      BY <1>1, <2>2, <2>4, TopMoves
    <3> QED
      BY <2>3, <3>1
<1>5. fr.f = Top.f /\ fr.line = Top.line /\ fr.part = Top.part + 1
  OBVIOUS
<1> HIDE DEF fr
<1>6. stack \in Seq(Frames(facts)) /\ 1 \in DOMAIN stack
  BY <1>1 DEF StackOk
<1>7. DOMAIN s = DOMAIN stack /\ s[1] = fr /\ (\A j \in DOMAIN stack : j # 1 => s[j] = stack[j]) /\ Len(s) = Len(stack)
  BY <1>3, <1>6
<1>8. s \in Seq(Frames(facts)) /\ s # <<>>
  BY <1>4, <1>6, <1>7 DEF StackOk
<1> QED
  BY <1>4, <1>5, <1>7, <1>8

(* It was behind no call, unless it is one itself. *)
LEMMA ConstructingPart ==
  ASSUME Sound(facts), RunOk, Constructing(stack, began), NEW kinds, DoingPart(kinds), NEW s, s = PartDone,
         \A m \in Owned : \A c \in InitializerCalls(m) : Top.f = <<m, Constructor>> => c # <<Top.line, Top.part + 1>>
  PROVE  Constructing(s, began)
<1>1. stack # <<>>
  BY PartFacts
<1>2. IsFunction(Top.f) /\ Top.part \in Nat
  BY <1>1, TopFacts
<1>3. PICK n, rank : RankedBy(facts, n, rank) /\ StackOk(facts, rank, stack)
  BY DEF RunOk
<1>4. stack \in Seq(Frames(facts))
  BY <1>3 DEF StackOk
<1>5. /\ DOMAIN s = DOMAIN stack /\ Len(s) = Len(stack)
      /\ s[1].f = Top.f /\ s[1].line = Top.line /\ s[1].part = Top.part + 1
      /\ \A j \in DOMAIN stack : j # 1 => s[j] = stack[j]
  BY <1>3, PartMoved
<1>6. ASSUME NEW m \in Owned, NEW c \in InitializerCalls(m), stack[1].f = <<m, Constructor>>
      PROVE  Behind(c, s[1]) <=> Behind(c, stack[1])
  <2>1. PICK a, g, p : a = stack[1] /\ g = s[1] /\ p = Top.part
    OBVIOUS
  <2>2. a.f = Top.f /\ g.line = a.line /\ a.part = p /\ g.part = p + 1 /\ a.line = Top.line
    BY <1>5, <2>1 DEF Top
  <2> DEFINE h == <<m, Constructor>>
  <2>3. h = Top.f
    BY <1>6, <2>1, <2>2
  <2>4. IsFunction(h)
    BY <1>2, <2>3
  <2>5. c[1] \in Nat /\ c[2] \in Nat /\ c = <<c[1], c[2]>>
    BY <2>4, CallPlaces
  <2>6. c # <<a.line, p + 1>>
    BY <2>1, <2>2, <2>3
  <2>7. ~(c[1] = a.line /\ c[2] = p + 1)
    BY <2>5, <2>6
  <2>8. p \in Nat
    BY <1>2, <2>1
  <2>9. Behind(c, g) <=> Behind(c, a)
    BY <2>2, <2>5, <2>7, <2>8 DEF Behind
  <2> QED
    BY <2>1, <2>9
<1>7. s[1].f = stack[1].f
  BY <1>5 DEF Top
<1> QED
  BY <1>1, <1>4, <1>5, <1>6, <1>7, ConstructingMoves

(* What is read or called outside is no constructor, ... *)
LEMMA ConstructingOther ==
  ASSUME Sound(facts), RunOk, Constructing(stack, began), Access \/ Outside
  PROVE  Constructing(stack', began')
<1>1. DoingPart({"read", "pop", "outside"}) /\ stack' = PartDone /\ began' = began
  BY DEF Access, Outside, DoingPart
<1>2. /\ Top.line \in DOMAIN Body(Top.f) /\ Now = Body(Top.f)[Top.line] /\ NowPart.s # "call"
  BY <1>1, PartFacts
<1>3. ASSUME NEW m \in Owned, NEW c \in InitializerCalls(m), Top.f = <<m, Constructor>>, c = <<Top.line, Top.part + 1>>
      PROVE  FALSE
  <2>1. PartAt(Top.f, c).s = "call"
    BY <1>3 DEF InitializerCalls, CallsOf
  <2>2. PartAt(Top.f, c) = NowPart
    BY <1>2, <1>3 DEF PartAt, NowPart
  <2> QED
    BY <1>2, <2>1, <2>2
<1>4. PICK s : s = PartDone
  OBVIOUS
<1>5. Constructing(s, began)
  BY <1>1, <1>3, <1>4, ConstructingPart
<1> QED
  BY <1>1, <1>4, <1>5

(* What stands on the stack when a function is called. *)
LEMMA Pushed ==
  ASSUME NEW X, NEW s \in Seq(X), s # <<>>, NEW fr, NEW t, t = <<fr>> \o s
  PROVE  /\ Len(s) \in Nat /\ Len(s) >= 1 /\ DOMAIN s = 1 .. Len(s)
         /\ Len(t) = Len(s) + 1 /\ DOMAIN t = 1 .. Len(s) + 1 /\ t[1] = fr /\ t # <<>> /\ t[Len(t)] = s[Len(s)]
         /\ \A j \in DOMAIN t : j = 1 \/ (j - 1 \in DOMAIN s /\ t[j] = s[j - 1])
         /\ \A j \in DOMAIN s : j + 1 \in DOMAIN t /\ t[j + 1] = s[j]
<1>1. Len(s) \in Nat /\ Len(s) >= 1 /\ DOMAIN s = 1 .. Len(s)
  OBVIOUS
<1>2. Len(t) = Len(s) + 1 /\ DOMAIN t = 1 .. Len(s) + 1 /\ t[1] = fr /\ \A j \in 2 .. Len(s) + 1 : t[j] = s[j - 1]
  OBVIOUS
<1>3. t # <<>> /\ t[Len(t)] = s[Len(s)]
  BY <1>1, <1>2
<1> QED
  BY <1>1, <1>2, <1>3

(* ... and another function that is called is none either. *)
LEMMA ConstructingPushes ==
  ASSUME NEW b, NEW X, NEW s \in Seq(X), s # <<>>, Constructing(s, b), NEW g, ~IsConstructor(g), NEW t, t = <<Frame(g)>> \o s
  PROVE  Constructing(t, b)
<1> DEFINE fr == Frame(g)
<1>1. fr.f = g /\ \A m : g # <<m, Constructor>>
  BY DEF Frame, IsConstructor
<1> HIDE DEF fr
<1>2. /\ t[1] = fr /\ t # <<>> /\ t[Len(t)] = s[Len(s)]
      /\ \A j \in DOMAIN t : j = 1 \/ (j - 1 \in DOMAIN s /\ t[j] = s[j - 1])
      /\ \A j \in DOMAIN s : j + 1 \in DOMAIN t /\ t[j + 1] = s[j]
  BY Pushed DEF fr
<1>3. ASSUME NEW m, NEW c
      PROVE  Past(t, b, m, c) <=> Past(s, b, m, c)
  <2>1. ASSUME Past(s, b, m, c), NEW j \in DOMAIN t, t[j].f = <<m, Constructor>>
        PROVE  Behind(c, t[j])
    <3>1. j # 1
      <4>1. IsConstructor(t[j].f)
        BY <2>1 DEF IsConstructor
      <4> QED
        BY <1>1, <1>2, <4>1
    <3>2. j - 1 \in DOMAIN s /\ t[j] = s[j - 1]
      BY <1>2, <3>1
    <3> QED
      BY <2>1, <3>2 DEF Past
  <2>2. ASSUME Past(t, b, m, c), NEW j \in DOMAIN s, s[j].f = <<m, Constructor>>
        PROVE  Behind(c, s[j])
    <3>1. t[j + 1].f = <<m, Constructor>> /\ j + 1 \in DOMAIN t
      BY <1>2, <2>2
    <3> QED
      BY <1>2, <2>2, <3>1 DEF Past
  <2> QED
    BY <2>1, <2>2 DEF Past
<1>4. \A m \in Owned : \A c \in InitializerCalls(m) :
        StartedBy(m, c) # Main => b[StartedBy(m, c)] = IF Past(t, b, m, c) THEN 1 ELSE 0
  BY <1>3 DEF Constructing
<1>5. \A j \in DOMAIN t : IsConstructor(t[j].f) => t[j].f[1] \in Owned /\ b[t[j].f[1]] = 1
  <2>1. ASSUME NEW j \in DOMAIN t, IsConstructor(t[j].f)
        PROVE  j - 1 \in DOMAIN s /\ t[j] = s[j - 1]
    BY <1>1, <1>2, <2>1
  <2> QED
    BY <2>1 DEF Constructing
<1> QED
  BY <1>2, <1>4, <1>5 DEF Constructing

(* Finitely many finite sets are finite. *)
LEMMA FiniteFamily ==
  ASSUME NEW S, IsFiniteSet(S), NEW g, DOMAIN g = S, \A x \in S : IsFiniteSet(g[x])
  PROVE  IsFiniteSet(UNION {g[x] : x \in S})
<1> DEFINE T == {g[x] : x \in S}
<1> DEFINE h == [x \in S |-> g[x]]
<1>1. h \in Surjection(S, T)
  BY DEF Surjection
<1>2. IsFiniteSet(T)
  <2> HIDE DEF h, T
  <2> QED
    BY <1>1, FS_Surjection
<1> QED
  BY <1>2, FS_UNION

(* A constructor calls others at finitely many places, ... *)
LEMMA FiniteCalls ==
  ASSUME NEW m, IsFunction(<<m, Constructor>>)
  PROVE  IsFiniteSet(InitializerCalls(m))
<1> DEFINE f == <<m, Constructor>>
<1>1. Len(Body(f)) \in Nat /\ DOMAIN Body(f) = 1 .. Len(Body(f)) /\ \A k \in DOMAIN Body(f) : WellTyped(Body(f)[k])
  BY BodyLines DEF IsFunction
<1>2. IsFiniteSet(DOMAIN Body(f))
  BY <1>1, FS_Interval
<1> DEFINE g == [k \in DOMAIN Body(f) |-> {k} \X DOMAIN Body(f)[k].value]
<1>3. ASSUME NEW k \in DOMAIN Body(f)
      PROVE  IsFiniteSet(g[k])
  <2>1. Body(f)[k].value \in Seq(Range(Body(f)[k].value))
    BY <1>1 DEF WellTyped
  <2>2. Len(Body(f)[k].value) \in Nat /\ DOMAIN Body(f)[k].value = 1 .. Len(Body(f)[k].value)
    BY <2>1
  <2>3. IsFiniteSet(DOMAIN Body(f)[k].value)
    BY <2>2, FS_Interval
  <2>4. IsFiniteSet({k})
    BY FS_Singleton
  <2> QED
    BY <2>3, <2>4, FS_Product
<1>4. Parts(f) = UNION {g[k] : k \in DOMAIN Body(f)}
  BY DEF Parts
<1>5. IsFiniteSet(Parts(f))
  <2>1. DOMAIN g = DOMAIN Body(f)
    OBVIOUS
  <2> HIDE DEF g
  <2> QED
    BY <1>2, <1>3, <1>4, <2>1, FiniteFamily
<1>6. InitializerCalls(m) \subseteq Parts(f)
  BY DEF InitializerCalls, CallsOf
<1> QED
  BY <1>5, <1>6, FS_Subset

(* ... and a module is initialized at finitely many. *)
LEMMA FiniteInitializers ==
  ASSUME Settled(done), NEW of
  PROVE  IsFiniteSet(Initializers(of))
<1>1. Owned \subseteq DOMAIN program /\ IsFiniteSet(DOMAIN program)
  BY InitializedAll DEF Owned, Settled, WellFormed
<1>2. IsFiniteSet(Owned)
  BY <1>1, FS_Subset
<1> DEFINE g == [M \in Owned |-> {M} \X InitializesAt(M)]
<1>3. ASSUME NEW M \in Owned
      PROVE  IsFiniteSet(g[M])
  <2>1. program[M] \in Seq(Range(program[M]))
    BY <1>1 DEF Settled, WellFormed
  <2>2. Len(program[M]) \in Nat /\ DOMAIN program[M] = 1 .. Len(program[M])
    BY <2>1
  <2>3. IsFiniteSet(DOMAIN program[M])
    BY <2>2, FS_Interval
  <2>4. IsFiniteSet(InitializesAt(M))
    BY <2>3, FS_Subset DEF InitializesAt, Positions
  <2>5. IsFiniteSet({M})
    BY FS_Singleton
  <2> QED
    BY <2>4, <2>5, FS_Product
<1>4. Initializers(of) \subseteq UNION {g[M] : M \in Owned}
  BY DEF Initializers, Owned
<1>5. IsFiniteSet(UNION {g[M] : M \in Owned})
  <2>1. DOMAIN g = Owned
    OBVIOUS
  <2> HIDE DEF g
  <2> QED
    BY <1>2, <1>3, <2>1, FiniteFamily
<1> QED
  BY <1>4, <1>5, FS_Subset

(* The constructor of a module that is initialized is called by the module *)
(* that initializes it. *)
LEMMA StartedInitialized ==
  ASSUME Accepted, NEW m \in Owned, NEW c \in InitializerCalls(m)
  PROVE  StartedBy(m, c) \in InitializedModules(m) /\ StartedBy(m, c) \in InitializedBelow(Main) /\ m \in done
<1>1. m \in done
  BY InitializedAll DEF Owned, Accepted, Settled
<1>2. StartedBy(m, c) \in InitializedModules(m)
  BY <1>1 DEF Accepted, InitializerCallsSound, StartedBy
<1> QED
  BY <1>1, <1>2, InitializedAll DEF Owned, Accepted

(* It is called once, as only one initializes it. *)
LEMMA StartedOnce ==
  ASSUME Accepted, \A m \in done : Functions(m) \subseteq DOMAIN facts,
         NEW m \in Owned, NEW c \in InitializerCalls(m), NEW m2 \in Owned, NEW c2 \in InitializerCalls(m2),
         StartedBy(m, c) = StartedBy(m2, c2)
  PROVE  m2 = m /\ c2 = c
<1> DEFINE M == StartedBy(m, c)
<1>1. M \in InitializedModules(m) /\ M \in InitializedModules(m2) /\ M \in InitializedBelow(Main) /\ m \in done
  <2>1. M \in InitializedModules(m) /\ M \in InitializedBelow(Main) /\ m \in done
    BY StartedInitialized
  <2>2. StartedBy(m2, c2) \in InitializedModules(m2)
    BY StartedInitialized
  <2> QED
    BY <2>1, <2>2
<1> HIDE DEF M
<1>2. PICK k \in InitializesAt(m) : ModuleOf(InitializedInfo(m, k).of) = M
  BY <1>1 DEF InitializedModules
<1>3. PICK k2 \in InitializesAt(m2) : ModuleOf(InitializedInfo(m2, k2).of) = M
  BY <1>1 DEF InitializedModules
<1>4. <<m, k>> \in Initializers(M)
  BY <1>2 DEF Initializers, Owned
<1>5. <<m2, k2>> \in Initializers(M)
  BY <1>3 DEF Initializers, Owned
<1>6. PICK x : Initializers(M) = {x}
  <2>1. Cardinality(Initializers(M)) = 1
    BY <1>1 DEF Accepted, TargetSound
  <2>2. IsFiniteSet(Initializers(M))
    BY FiniteInitializers DEF Accepted
  <2> QED
    BY <2>1, <2>2, FS_Singleton
<1>7. <<m, k>> = <<m2, k2>>
  BY <1>4, <1>5, <1>6
<1>8. m2 = m
  BY <1>7
<1> DEFINE C == InitializerCalls(m)
<1> DEFINE called == {StartedBy(m, d) : d \in C}
<1> DEFINE h == [d \in C |-> StartedBy(m, d)]
<1>9. Cardinality(called) = Cardinality(C)
  BY <1>1 DEF Accepted, InitializerCallsSound, StartedBy
<1>10. IsFiniteSet(C)
  <2>1. HasConstructor(m)
    BY DEF InitializerCalls
  <2>2. IsFunction(<<m, Constructor>>)
    BY <1>1, <2>1 DEF HasConstructor, Accepted
  <2> QED
    BY <2>2, FiniteCalls
<1>11. h \in Surjection(C, called)
  BY DEF Surjection
<1>12. h \in Injection(C, called)
  <2> HIDE DEF h, C, called
  <2> QED
    BY <1>9, <1>10, <1>11, FS_Surjection
<1>13. c \in C /\ c2 \in C /\ h[c] = h[c2]
  BY <1>8
<1>14. \A a, b \in C : h[a] = h[b] => a = b
  BY <1>12 DEF Injection, IsInjective
<1> QED
  BY <1>8, <1>13, <1>14

(* What a function may call that is a constructor, if it is one itself. *)
LEMMA CalledByConstructor ==
  ASSUME Sound(facts), RunOk, Accepted, DoingPart({"call"}), IsConstructor(CalleeOf(Top.f, NowPart).of)
  PROVE  /\ IsConstructor(Top.f) /\ Top.f = <<Top.f[1], Constructor>>
         /\ CalleeOf(Top.f, NowPart).of = <<StartedBy(Top.f[1], <<Top.line, Top.part + 1>>), Constructor>>
         /\ <<Top.line, Top.part + 1>> \in InitializerCalls(Top.f[1])
<1> DEFINE f == Top.f
<1> DEFINE r == CalleeOf(f, NowPart)
<1> DEFINE c == <<Top.line, Top.part + 1>>
<1>1. /\ stack # <<>> /\ Top.line \in DOMAIN Body(f) /\ Top.part + 1 \in DOMAIN Now.value
      /\ Now = Body(f)[Top.line] /\ NowPart.s = "call"
      /\ PartOk(facts, f, Top.bound, facts[f].writes, NowPart)
  BY PartFacts
<1>2. f \in DOMAIN facts /\ FactsOk(facts, f)
  BY <1>1, TopFacts
<1>3. IsCallOfInternal(r)
  BY <1>1 DEF PartOk
<1>4. r.of \in DOMAIN facts
  <2>1. r.of \in CalledFunctions(f)
    BY <1>1, <1>3, CalleeCalled DEF NowPart
  <2> HIDE DEF f, r
  <2> QED
    BY <1>2, <2>1 DEF FactsOk
<1>5. OwnCall(done, facts, f, facts[f].reads, r)
  BY <1>1, OwnPartNow DEF OwnPart
<1>6. ASSUME NEW g \in DOMAIN facts
      PROVE  g = <<g[1], g[2]>> /\ (The(g).visibility = "deploy" <=> IsConstructor(g)) /\ g \in Functions(g[1])
  BY DEF Accepted, OwnFacts, IsFunction, ConstructorSound
<1> HIDE DEF f, r
<1>7. IsConstructor(f)
  BY <1>2, <1>4, <1>5, <1>6 DEF OwnCall, r, f
<1>8. f = <<f[1], Constructor>> /\ r.of = <<r.of[1], Constructor>>
  BY <1>2, <1>4, <1>6, <1>7 DEF IsConstructor, r, f
<1>9. HasConstructor(f[1])
  BY <1>2, <1>6, <1>8 DEF HasConstructor
<1>10. PartAt(f, c) = NowPart
  BY <1>1 DEF PartAt, NowPart
<1>11. c \in CallsOf(f)
  <2>1. c \in Parts(f)
    BY <1>1 DEF Parts
  <2> QED
    BY <1>1, <1>10, <2>1 DEF CallsOf
<1>12. CalleeOf(f, PartAt(f, c)) = r
  BY <1>10 DEF r, f
<1>13. r.kind = "function" /\ IsConstructor(r.of)
  BY <1>3 DEF IsCallOfInternal, r, f
<1> HIDE DEF c
<1>14. PICK g, m : g = f /\ m = f[1]
  OBVIOUS
<1>15. g = <<m, Constructor>>
  BY <1>8, <1>14
<1>16. c \in InitializerCalls(m)
  BY <1>9, <1>11, <1>12, <1>13, <1>14, <1>15 DEF InitializerCalls
<1>17. StartedBy(m, c) = r.of[1]
  BY <1>12, <1>14, <1>15 DEF StartedBy
<1> QED
  BY <1>7, <1>8, <1>14, <1>16, <1>17 DEF c, f, r

(* Constructors are functions. *)
LEMMA ConstructorsAre ==
  ASSUME Accepted, \A m \in done : Functions(m) \subseteq DOMAIN facts, NEW m \in Owned, NEW c \in InitializerCalls(m)
  PROVE  IsFunction(<<m, Constructor>>)
<1>1. m \in done
  BY StartedInitialized
<1>2. HasConstructor(m)
  BY DEF InitializerCalls
<1> QED
  BY <1>1, <1>2 DEF HasConstructor, Accepted

(* The constructor of m is at c, and runs nowhere else; after the part it  *)
(* is past it. *)
AtCall(m, c, s) ==
  /\ s[1].f = <<m, Constructor>> /\ s[1].line = c[1] /\ s[1].part + 1 = c[2] /\ s[1].part \in Nat
  /\ \A j \in DOMAIN s : s[j].f # <<StartedBy(m, c), Constructor>> /\ (j # 1 => s[j].f # s[1].f)
AfterPart(s, u) ==
  /\ DOMAIN u = DOMAIN s /\ Len(u) = Len(s)
  /\ u[1].f = s[1].f /\ u[1].line = s[1].line /\ u[1].part = s[1].part + 1
  /\ \A j \in DOMAIN s : j # 1 => u[j] = s[j]
EntersAs(M, b, u, t, a) == t = <<Frame(<<M, Constructor>>)>> \o u /\ a = [b EXCEPT ![M] = IF @ = 0 THEN 1 ELSE 2]

(* A call that is made is behind then. *)
LEMMA ConstructingBegins ==
  ASSUME Accepted, \A x \in done : Functions(x) \subseteq DOMAIN facts,
         NEW b, NEW X, NEW s \in Seq(X), s # <<>>, Constructing(s, b),
         NEW m \in Owned, NEW c \in InitializerCalls(m), NEW M, M = StartedBy(m, c), AtCall(m, c, s), NEW u \in Seq(X), AfterPart(s, u),
         NEW t, NEW a, EntersAs(M, b, u, t, a)
  PROVE  Constructing(t, a)
<1> DEFINE g == <<M, Constructor>>
<1> DEFINE fr == Frame(g)
<1>0. /\ s[1].f = <<m, Constructor>> /\ s[1].line = c[1] /\ s[1].part + 1 = c[2] /\ s[1].part \in Nat
      /\ \A k \in DOMAIN s : s[k].f # <<M, Constructor>> /\ (k # 1 => s[k].f # s[1].f)
      /\ DOMAIN u = DOMAIN s /\ Len(u) = Len(s)
      /\ u[1].f = s[1].f /\ u[1].line = s[1].line /\ u[1].part = s[1].part + 1
      /\ \A k \in DOMAIN s : k # 1 => u[k] = s[k]
      /\ t = <<Frame(<<M, Constructor>>)>> \o u /\ a = [b EXCEPT ![M] = IF @ = 0 THEN 1 ELSE 2]
  BY DEF AtCall, AfterPart, EntersAs
<1> USE <1>0
<1>1. fr.f = g /\ fr.line = 1 /\ fr.part = 0
  BY DEF Frame
<1>2. Len(s) \in Nat /\ DOMAIN s = 1 .. Len(s) /\ Len(s) >= 1 /\ 1 \in DOMAIN s
  OBVIOUS
<1>3. u # <<>>
  BY <1>2
<1>4. /\ t[1] = fr /\ t # <<>> /\ t[Len(t)] = u[Len(u)]
      /\ \A j \in DOMAIN t : j = 1 \/ (j - 1 \in DOMAIN u /\ t[j] = u[j - 1])
      /\ \A j \in DOMAIN u : j + 1 \in DOMAIN t /\ t[j + 1] = u[j]
      /\ 1 \in DOMAIN t
  <2>1. t = <<fr>> \o u
    OBVIOUS
  <2> HIDE DEF fr
  <2>2. /\ t[1] = fr /\ t # <<>> /\ t[Len(t)] = u[Len(u)] /\ DOMAIN t = 1 .. Len(u) + 1 /\ Len(u) \in Nat
        /\ \A j \in DOMAIN t : j = 1 \/ (j - 1 \in DOMAIN u /\ t[j] = u[j - 1])
        /\ \A j \in DOMAIN u : j + 1 \in DOMAIN t /\ t[j + 1] = u[j]
    BY <1>3, <2>1, Pushed
  <2> QED
    BY <2>2
<1> HIDE DEF fr
<1>5. \A j \in DOMAIN s : u[j].f = s[j].f
  OBVIOUS
<1>6. M # Main /\ M # m
  <2>1. s[Len(s)].f = <<Main, Constructor>> /\ Len(s) \in DOMAIN s
    BY <1>2 DEF Constructing
  <2> QED
    BY <1>2, <2>1
<1>7. M \in Owned /\ M \in DOMAIN program
  <2>1. M \in InitializedBelow(Main)
    BY StartedInitialized
  <2> QED
    BY <2>1, InitializedAll DEF Owned, Accepted, Settled
<1>8. b[m] = 1 /\ b \in [DOMAIN program -> 0 .. 2]
  <2>1. IsConstructor(s[1].f) /\ s[1].f[1] = m
    BY DEF IsConstructor
  <2> QED
    BY <1>2, <2>1 DEF Constructing
<1>9. b[M] = 0
  <2>1. ~Behind(c, s[1])
    <3>1. IsFunction(<<m, Constructor>>)
      BY ConstructorsAre
    <3>2. c[1] \in Nat /\ c[2] \in Nat
      BY <3>1, CallPlaces
    <3>3. PICK line, part : line = s[1].line /\ part = s[1].part
      OBVIOUS
    <3>4. line = c[1] /\ part + 1 = c[2] /\ part \in Nat
      BY <3>3
    <3>5. ~(c[1] < line \/ (c[1] = line /\ c[2] <= part))
      BY <3>2, <3>4
    <3> QED
      BY <3>3, <3>5 DEF Behind
  <2>2. ~Past(s, b, m, c)
    BY <1>2, <2>1 DEF Past
  <2> QED
    BY <1>6, <2>2 DEF Constructing
<1>10. a \in [DOMAIN program -> 0 .. 2] /\ a[M] = 1 /\ \A x : x # M => a[x] = b[x]
  BY <1>7, <1>8, <1>9
<1>11. HasConstructor(Main) => a[Main] = 1
  BY <1>6, <1>10 DEF Constructing
<1>12. t[Len(t)].f = <<Main, Constructor>>
  BY <1>2, <1>4, <1>5 DEF Constructing
<1>13. ASSUME NEW j \in DOMAIN t, IsConstructor(t[j].f)
       PROVE  t[j].f[1] \in Owned /\ a[t[j].f[1]] = 1
  <2>1. CASE j = 1
    BY <1>1, <1>4, <1>7, <1>10, <2>1
  <2>2. CASE j # 1
    <3>1. j - 1 \in DOMAIN s /\ t[j].f = s[j - 1].f
      BY <1>4, <1>5, <2>2
    <3>2. s[j - 1].f[1] \in Owned /\ b[s[j - 1].f[1]] = 1
      BY <1>13, <3>1 DEF Constructing
    <3> QED
      BY <1>9, <1>10, <3>1, <3>2
  <2> QED
    BY <2>1, <2>2
<1>14. Past(t, a, m, c)
  <2>1. ASSUME NEW j \in DOMAIN t, t[j].f = <<m, Constructor>>
        PROVE  Behind(c, t[j])
    <3>1. j # 1
      BY <1>1, <1>4, <1>6, <2>1
    <3>2. j - 1 \in DOMAIN s /\ t[j] = u[j - 1]
      BY <1>4, <3>1
    <3>3. j - 1 = 1
      BY <1>5, <2>1, <3>2
    <3>4. t[j] = u[1]
      BY <3>2, <3>3
    <3>5. u[1].line = c[1] /\ u[1].part = c[2]
      OBVIOUS
    <3>6. c[2] \in Nat
      BY ConstructorsAre, CallPlaces
    <3> QED
      BY <3>4, <3>5, <3>6 DEF Behind
  <2> QED
    BY <1>6, <1>8, <1>10, <2>1 DEF Past
<1>15. ASSUME NEW m2 \in Owned, NEW c2 \in InitializerCalls(m2), StartedBy(m2, c2) # M
       PROVE  Past(t, a, m2, c2) <=> Past(s, b, m2, c2)
  <2> DEFINE h == <<m2, Constructor>>
  <2>1. /\ c2[1] \in Nat /\ c2[1] >= 1 /\ c2[2] \in Nat /\ c2[2] >= 1 /\ c2 = <<c2[1], c2[2]>>
    <3>1. IsFunction(h)
      BY ConstructorsAre
    <3>2. DOMAIN Body(h) = 1 .. Len(Body(h)) /\ Len(Body(h)) \in Nat
      BY <3>1, BodyLines
    <3> QED
      BY <3>1, <3>2, CallPlaces
  <2>2. CASE m2 = M
    <3>1. ~Past(s, b, m2, c2)
      BY <1>9, <2>2 DEF Past
    <3>2. ~Behind(c2, fr)
      BY <1>1, <2>1 DEF Behind
    <3>3. ~Past(t, a, m2, c2)
      BY <1>1, <1>4, <2>2, <3>2 DEF Past
    <3> QED
      BY <3>1, <3>3
  <2>3. CASE m2 # M
    <3>1. a[m2] = b[m2]
      BY <1>10, <2>3
    <3>2. fr.f # h
      BY <1>1, <2>3
    <3>3. ASSUME s[1].f = h
          PROVE  Behind(c2, u[1]) <=> Behind(c2, s[1])
      <4>1. m2 = m
        BY <3>3
      <4>2. c2 # c
        BY <1>15, <4>1
      <4>3. c = <<c[1], c[2]>> /\ c[2] \in Nat
        BY ConstructorsAre, CallPlaces
      <4>4. ~(c2[1] = c[1] /\ c2[2] = c[2])
        BY <2>1, <4>2, <4>3
      <4> QED
        BY <2>1, <4>3, <4>4 DEF Behind
    <3> HIDE DEF h
    <3>4. ASSUME NEW j \in DOMAIN s, s[j].f = h
          PROVE  Behind(c2, u[j]) <=> Behind(c2, s[j])
      BY <3>3, <3>4
    <3>5. ASSUME Past(s, b, m2, c2), NEW j \in DOMAIN t, t[j].f = h
          PROVE  Behind(c2, t[j])
      <4>1. j # 1
        BY <1>4, <3>2, <3>5
      <4>2. j - 1 \in DOMAIN s /\ t[j] = u[j - 1] /\ s[j - 1].f = h
        BY <1>4, <1>5, <3>5, <4>1
      <4>3. Behind(c2, s[j - 1])
        BY <3>5, <4>2 DEF Past, h
      <4> QED
        BY <3>4, <4>2, <4>3
    <3>6. ASSUME Past(t, a, m2, c2), NEW j \in DOMAIN s, s[j].f = h
          PROVE  Behind(c2, s[j])
      <4>1. j + 1 \in DOMAIN t /\ t[j + 1] = u[j] /\ t[j + 1].f = h
        BY <1>4, <1>5, <3>6
      <4>2. Behind(c2, u[j])
        BY <3>6, <4>1 DEF Past, h
      <4> QED
        BY <3>4, <3>6, <4>2
    <3> QED
      BY <3>1, <3>5, <3>6 DEF Past, h
  <2> QED
    BY <2>2, <2>3
<1>16. ASSUME NEW m2 \in Owned, NEW c2 \in InitializerCalls(m2), StartedBy(m2, c2) # Main
       PROVE  a[StartedBy(m2, c2)] = IF Past(t, a, m2, c2) THEN 1 ELSE 0
  <2>1. CASE StartedBy(m2, c2) = M
    <3>1. m2 = m /\ c2 = c
      BY <2>1, StartedOnce
    <3> QED
      BY <1>10, <1>14, <2>1, <3>1
  <2>2. CASE StartedBy(m2, c2) # M
    BY <1>10, <1>15, <1>16, <2>2 DEF Constructing
  <2> QED
    BY <2>1, <2>2
<1> QED
  BY <1>10, <1>11, <1>12, <1>13, <1>16 DEF Constructing

(* A function is called; if it is a constructor, it has not run before. *)
LEMMA ConstructingCalls ==
  ASSUME Sound(facts), RunOk, Accepted, \A x \in done : Functions(x) \subseteq DOMAIN facts, Constructing(stack, began), CallFunction
  PROVE  Constructing(stack', began')
<1> DEFINE r == CalleeOf(Top.f, NowPart)
<1>1. DoingPart({"call"})
  BY DEF CallFunction
<1>2. /\ stack # <<>> /\ Top.line \in DOMAIN Body(Top.f) /\ Top.part + 1 \in DOMAIN Now.value
      /\ Now = Body(Top.f)[Top.line] /\ NowPart.s = "call"
      /\ PartOk(facts, Top.f, Top.bound, facts[Top.f].writes, NowPart)
  BY <1>1, PartFacts
<1>3. IsCallOfInternal(r) /\ r.of \in CalledFunctions(Top.f)
  <2>1. IsCallOfInternal(r)
    BY <1>2 DEF PartOk
  <2> QED
    BY <1>2, <2>1, CalleeCalled DEF NowPart
<1>4. stack' = <<Frame(r.of)>> \o PartDone /\ began' = IF IsConstructor(r.of) THEN Begun(r.of[1]) ELSE began
  BY <1>3 DEF CallFunction, IsCallOfInternal
<1> HIDE DEF r
<1>5. PICK n, rank : RankedBy(facts, n, rank) /\ StackOk(facts, rank, stack)
  BY DEF RunOk
<1>6. PICK s : s = PartDone
  OBVIOUS
<1>7. /\ s \in Seq(Frames(facts)) /\ s # <<>> /\ DOMAIN s = DOMAIN stack /\ Len(s) = Len(stack)
      /\ s[1].f = Top.f /\ s[1].line = Top.line /\ s[1].part = Top.part + 1
      /\ \A j \in DOMAIN stack : j # 1 => s[j] = stack[j]
  BY <1>1, <1>5, <1>6, PartMoved
<1>8. stack \in Seq(Frames(facts)) /\ 1 \in DOMAIN stack
  BY <1>2, <1>5 DEF StackOk
<1>9. PICK t : t = <<Frame(r.of)>> \o s
  OBVIOUS
<1>10. CASE ~IsConstructor(r.of)
  <2>1. ASSUME NEW m \in Owned, NEW c \in InitializerCalls(m), Top.f = <<m, Constructor>>, c = <<Top.line, Top.part + 1>>
        PROVE  FALSE
    <3>1. IsConstructor(CalleeOf(Top.f, PartAt(Top.f, c)).of)
      BY <2>1 DEF InitializerCalls
    <3>2. PartAt(Top.f, c) = NowPart
      BY <1>2, <2>1 DEF PartAt, NowPart
    <3> QED
      BY <1>10, <3>1, <3>2 DEF r
  <2>2. Constructing(s, began)
    BY <1>1, <1>6, <2>1, ConstructingPart
  <2>3. Constructing(t, began)
    BY <1>7, <1>9, <1>10, <2>2, ConstructingPushes
  <2> QED
    BY <1>4, <1>6, <1>9, <1>10, <2>3
<1>11. CASE IsConstructor(r.of)
  <2>1. PICK m, c, M : m = Top.f[1] /\ c = <<Top.line, Top.part + 1>> /\ M = StartedBy(m, c)
    OBVIOUS
  <2>2. IsConstructor(Top.f) /\ Top.f = <<m, Constructor>> /\ r.of = <<M, Constructor>> /\ c \in InitializerCalls(m)
    <3>1. IsConstructor(CalleeOf(Top.f, NowPart).of)
      BY <1>11 DEF r
    <3> QED
      BY <1>1, <2>1, <3>1, CalledByConstructor DEF r
  <2>3. m \in Owned
    BY <1>8, <2>2 DEF Constructing, Top
  <2>4. stack[1].f = <<m, Constructor>> /\ stack[1].line = c[1] /\ stack[1].part + 1 = c[2] /\ stack[1].part \in Nat
    <3>1. Top.part \in Nat
      BY <1>2, TopFacts
    <3> QED
      BY <2>1, <2>2, <3>1 DEF Top
  <2>5. ASSUME NEW j \in DOMAIN stack
        PROVE  stack[j].f # <<M, Constructor>> /\ (j # 1 => stack[j].f # stack[1].f)
    <3>1. /\ Top.f \in DOMAIN facts /\ r.of \in DOMAIN facts /\ stack[j].f \in DOMAIN facts
      <4>1. Top.f \in DOMAIN facts /\ FactsOk(facts, Top.f)
        BY <1>2, TopFacts
      <4> QED
        BY <1>3, <1>5, <4>1, StackFrames DEF FactsOk
    <3>2. rank[r.of] < rank[Top.f] /\ \A f \in DOMAIN facts : rank[f] \in Int
      BY <1>3, <1>5, <3>1 DEF RankedBy
    <3>3. j # 1 => rank[Top.f] < rank[stack[j].f]
      <4>1. j # 1 => 1 < j
        BY <1>8
      <4>2. j # 1 => Above(facts, rank, stack[1], stack[j])
        BY <1>5, <1>8, <4>1 DEF StackOk
      <4> QED
        BY <4>2 DEF Above, Top
    <3>4. stack[1].f = Top.f
      BY DEF Top
    <3>5. stack[j].f # r.of
      <4>1. CASE j = 1
        BY <3>1, <3>2, <3>4, <4>1
      <4>2. CASE j # 1
        BY <3>1, <3>2, <3>3, <4>2
      <4> QED
        BY <4>1, <4>2
    <3>6. j # 1 => stack[j].f # Top.f
      BY <3>1, <3>2, <3>3
    <3> QED
      BY <2>2, <3>4, <3>5, <3>6
  <2>6. PICK a : a = [began EXCEPT ![M] = IF @ = 0 THEN 1 ELSE 2]
    OBVIOUS
  <2>7. t = <<Frame(<<M, Constructor>>)>> \o s
    BY <1>9, <2>2
  <2>8. s[1].f = stack[1].f /\ s[1].line = stack[1].line /\ s[1].part = stack[1].part + 1
    BY <1>7 DEF Top
  <2>9. Constructing(t, a)
    <3>1. AtCall(m, c, stack)
      BY <2>1, <2>4, <2>5 DEF AtCall
    <3>2. AfterPart(stack, s)
      BY <1>7, <2>8 DEF AfterPart
    <3>3. EntersAs(M, began, s, t, a)
      BY <2>6, <2>7 DEF EntersAs
    <3> QED
      BY <1>2, <1>7, <1>8, <2>1, <2>2, <2>3, <3>1, <3>2, <3>3, ConstructingBegins
  <2>10. began' = a
    BY <1>4, <1>11, <2>2, <2>6 DEF Begun
  <2> QED
    BY <1>4, <1>6, <1>9, <2>9, <2>10
<1> QED
  BY <1>10, <1>11

(* A function is left of which all calls are behind. *)
LEMMA ConstructingPops ==
  ASSUME NEW b, NEW X, NEW s \in Seq(X), s # <<>>, Constructing(s, b), NEW t, t = Tail(s),
         \A m \in Owned : \A c \in InitializerCalls(m) : s[1].f = <<m, Constructor>> => Behind(c, s[1])
  PROVE  Constructing(t, b)
<1>1. Len(s) \in Nat /\ DOMAIN s = 1 .. Len(s) /\ Len(s) >= 1
  OBVIOUS
<1>2. Len(t) = Len(s) - 1 /\ DOMAIN t = 1 .. Len(s) - 1 /\ \A j \in DOMAIN t : j + 1 \in DOMAIN s /\ t[j] = s[j + 1]
  BY <1>1
<1>3. \A j \in DOMAIN s : j = 1 \/ (j - 1 \in DOMAIN t /\ t[j - 1] = s[j])
  BY <1>1, <1>2
<1>4. t # <<>> => t[Len(t)] = s[Len(s)]
  <2>1. t # <<>> => Len(t) >= 1
    BY <1>1, <1>2
  <2>2. Len(t) >= 1 => Len(t) \in DOMAIN t /\ Len(t) + 1 = Len(s)
    BY <1>1, <1>2
  <2> QED
    BY <1>2, <2>1, <2>2
<1>5. ASSUME NEW m \in Owned, NEW c \in InitializerCalls(m)
      PROVE  Past(t, b, m, c) <=> Past(s, b, m, c)
  <2>1. ASSUME Past(t, b, m, c), NEW j \in DOMAIN s, s[j].f = <<m, Constructor>>
        PROVE  Behind(c, s[j])
    <3>1. CASE j = 1
      BY <2>1, <3>1
    <3>2. CASE j # 1
      BY <1>3, <2>1, <3>2 DEF Past
    <3> QED
      BY <3>1, <3>2
  <2>2. ASSUME Past(s, b, m, c), NEW j \in DOMAIN t, t[j].f = <<m, Constructor>>
        PROVE  Behind(c, t[j])
    BY <1>2, <2>2 DEF Past
  <2> QED
    BY <2>1, <2>2 DEF Past
<1>6. \A m \in Owned : \A c \in InitializerCalls(m) :
        StartedBy(m, c) # Main => b[StartedBy(m, c)] = IF Past(t, b, m, c) THEN 1 ELSE 0
  BY <1>5 DEF Constructing
<1>7. \A j \in DOMAIN t : IsConstructor(t[j].f) => t[j].f[1] \in Owned /\ b[t[j].f[1]] = 1
  BY <1>2 DEF Constructing
<1> QED
  BY <1>4, <1>6, <1>7 DEF Constructing

(* A constructor that is straight is left where nothing follows. *)
LEMMA ConstructingLeaves ==
  ASSUME Sound(facts), RunOk, Accepted, AllStraight, Constructing(stack, began), Return \/ FallOff
  PROVE  Constructing(stack', began')
<1>1. stack # <<>> /\ stack' = Tail(stack) /\ began' = began
  BY DEF Return, FallOff, Doing, InCode
<1>2. stack \in Seq(Frames(facts))
  BY DEF RunOk, StackOk
<1>3. /\ Top.f \in DOMAIN facts /\ IsFunction(Top.f) /\ PlaceOk(Top.f, Top.line, Top.bound)
  BY <1>1, TopFacts
<1>4. Len(Body(Top.f)) \in Nat /\ DOMAIN Body(Top.f) = 1 .. Len(Body(Top.f))
  BY <1>3, BodyLines
<1>5. ASSUME NEW m \in Owned, NEW c \in InitializerCalls(m), Top.f = <<m, Constructor>>
      PROVE  Behind(c, Top)
  <2> DEFINE f == Top.f
  <2>1. /\ HasConstructor(m) /\ c[1] \in DOMAIN Body(f) /\ c[1] \in Nat /\ c[2] \in Nat
        /\ c[2] <= Len(Body(f)[c[1]].value)
    BY <1>3, <1>5, CallPlaces
  <2>2. CASE FallOff
    <3>1. Top.line \notin DOMAIN Body(f)
      BY <2>2 DEF FallOff, Code
    <3>2. Top.line \in 1 .. Len(Body(f)) + 1
      BY <1>3 DEF PlaceOk
    <3>3. c[1] < Top.line
      BY <1>4, <2>1, <3>1, <3>2
    <3> QED
      BY <3>3 DEF Behind
  <2>3. CASE Return
    <3>1. Doing({"return"})
      BY <2>3 DEF Return
    <3>2. Top.line \in DOMAIN Body(f) /\ Now = Body(f)[Top.line] /\ Now.s = "return"
      BY <3>1, StatementFacts
    <3>3. Top.part = Len(Now.value)
      BY <3>1 DEF Doing
    <3>4. ~InBlock(f, Top.line)
      <4>1. Straight(m)
        BY DEF AllStraight
      <4> QED
        BY <1>5, <2>1, <3>2, <4>1 DEF Straight
    <3>5. EndsBlock(f, Top.line)
      BY <1>3, <3>2 DEF Accepted, OwnFacts
    <3>6. WellNested(Body(f))
      BY <1>3 DEF IsFunction
    <3> HIDE DEF f
    <3>7. PICK k : k = Top.line
      OBVIOUS
    <3>8. k \in Nat /\ k >= 1 /\ k \in DOMAIN Body(f) /\ Body(f)[k].s = "return"
      BY <1>4, <3>2, <3>7 DEF f
    <3>9. k + 1 \notin DOMAIN Body(f)
      <4> SUFFICES ASSUME k + 1 \in DOMAIN Body(f)
                   PROVE  FALSE
        OBVIOUS
      <4>1. Body(f)[k + 1].s \in Marks
        BY <3>5, <3>7, <3>8 DEF EndsBlock
      <4>2. PICK j \in 1 .. (k + 1) - 1 : Body(f)[j].s \in Opening /\ Body(f)[j].until = k + 1
        BY <3>6, <4>1 DEF WellNested
      <4>3. j # k
        BY <3>8, <4>2 DEF Opening
      <4>4. j < k /\ j \in DOMAIN Body(f) /\ k < k + 1
        BY <1>4, <3>8, <4>2, <4>3 DEF f
      <4>5. InBlock(f, k)
        BY <4>2, <4>4 DEF InBlock
      <4> QED
        BY <3>4, <3>7, <4>5
    <3>10. c[1] <= k
      BY <1>4, <2>1, <3>8, <3>9 DEF f
    <3>11. c[1] = k => c[2] <= Top.part
      BY <2>1, <3>2, <3>3, <3>7 DEF f
    <3> QED
      BY <2>1, <3>7, <3>8, <3>10, <3>11 DEF Behind
  <2> QED
    BY <2>2, <2>3
<1>6. \A m \in Owned : \A c \in InitializerCalls(m) : stack[1].f = <<m, Constructor>> => Behind(c, stack[1])
  BY <1>5 DEF Top
<1>7. PICK t : t = Tail(stack)
  OBVIOUS
<1>8. Constructing(t, began)
  BY <1>1, <1>2, <1>6, <1>7, ConstructingPops
<1> QED
  BY <1>1, <1>7, <1>8

(* Whatever the constructors do. *)
LEMMA ConstructingExecute ==
  ASSUME Sound(facts), RunOk, Accepted, \A x \in done : Functions(x) \subseteq DOMAIN facts,
         AllStraight, Constructing(stack, began), Execute, ~Raise
  PROVE  Constructing(stack', began')
<1>1. CASE BindName \/ Write \/ Expression \/ Log \/ EndOfBranch
  <2>1. \E kinds, bound, touch : Doing(kinds) /\ GoesTo(NextLine, bound, touch)
    BY <1>1 DEF BindName, Write, Expression, Log, EndOfBranch
  <2> QED
    BY <2>1, ConstructingNext
<1>2. CASE Branch \/ EndOfSide \/ Loop
  <2>1. Doing(Opening)
    BY <1>2 DEF Branch, EndOfSide, Loop, Doing, Opening
  <2>2. \E bound, touch : GoesTo(NextLine, bound, touch) \/ GoesTo(Now.until + 1, bound, touch)
    BY <1>2 DEF Branch, EndOfSide, Loop
  <2> QED
    BY <2>1, <2>2, ConstructingNext, ConstructingSkips
<1> QED
  BY <1>1, <1>2, ConstructingOther, ConstructingCalls, ConstructingAgain, ConstructingJumps, ConstructingLeaves DEF Execute

(* Where constructors are called depends on the program alone. *)
LEMMA ConstructingKeeps ==
  ASSUME program' = program
  PROVE  /\ AllStraight' = AllStraight /\ \A s, b : Constructing(s, b)' = Constructing(s, b)
<1>1. Owned' = Owned
  BY OwnersKeep DEF Owned
<1>2. \A m : HasConstructor(m)' = HasConstructor(m) /\ InitializerCalls(m)' = InitializerCalls(m)
  BY OwnersKeep
<1>3. \A f, k : InBlock(f, k)' = InBlock(f, k)
  BY FunctionsKeep DEF InBlock
<1>4. \A m : Straight(m)' = Straight(m)
  BY <1>2, <1>3, FunctionsKeep DEF Straight
<1>5. AllStraight' = AllStraight
  BY <1>1, <1>4 DEF AllStraight
<1>6. \A m, c : StartedBy(m, c)' = StartedBy(m, c)
  BY NamesKeep DEF StartedBy
<1>7. \A s, b, m, c : Past(s, b, m, c)' = Past(s, b, m, c)
  BY DEF Past, Behind
<1>8. \A s, b : Constructing(s, b)' = Constructing(s, b)
  BY <1>1, <1>2, <1>6, <1>7 DEF Constructing
<1> QED
  BY <1>5, <1>8

(* First the constructor of the contract. *)
LEMMA ConstructingDeploys ==
  ASSUME Accepted, \A x \in done : Functions(x) \subseteq DOMAIN facts, Deploy
  PROVE  Constructing(stack', began')
<1>1. PICK s, b : s = stack' /\ b = began'
  OBVIOUS
<1>2. /\ s = IF HasConstructor(Main) THEN <<Frame(<<Main, Constructor>>)>> ELSE <<>>
      /\ b = [m \in DOMAIN program |-> IF m = Main /\ HasConstructor(Main) THEN 1 ELSE 0]
  BY <1>1 DEF Deploy
<1>3. Main \in Owned /\ Main \in DOMAIN program /\ Owned \subseteq DOMAIN program
  <2>1. Settled(done)
    BY DEF Accepted
  <2>2. InitializedBelow(Main) \subseteq done
    BY <2>1, InitializedAll
  <2> QED
    BY <2>1, <2>2 DEF Owned, Settled
<1>4. b \in [DOMAIN program -> 0 .. 2] /\ b[Main] = IF HasConstructor(Main) THEN 1 ELSE 0
  BY <1>2, <1>3
<1> DEFINE fr == Frame(<<Main, Constructor>>)
<1>5. fr.f = <<Main, Constructor>> /\ fr.line = 1 /\ fr.part = 0
  BY DEF Frame
<1>6. s = <<>> \/ (HasConstructor(Main) /\ s = <<fr>>)
  BY <1>2
<1> HIDE DEF fr
<1>7. \A j \in DOMAIN s : s[j] = fr /\ HasConstructor(Main)
  BY <1>6
<1>8. s # <<>> => s[Len(s)].f = <<Main, Constructor>>
  BY <1>5, <1>6
<1>9. \A j \in DOMAIN s : IsConstructor(s[j].f) => s[j].f[1] \in Owned /\ b[s[j].f[1]] = 1
  BY <1>3, <1>4, <1>5, <1>7
<1>10. ASSUME NEW m \in Owned, NEW c \in InitializerCalls(m), StartedBy(m, c) # Main
       PROVE  b[StartedBy(m, c)] = IF Past(s, b, m, c) THEN 1 ELSE 0
  <2>1. StartedBy(m, c) \in Owned
    BY StartedInitialized DEF Owned
  <2>2. b[StartedBy(m, c)] = 0
    BY <1>2, <1>3, <1>10, <2>1
  <2>3. ~Past(s, b, m, c)
    <3> SUFFICES ASSUME Past(s, b, m, c)
                 PROVE  FALSE
      OBVIOUS
    <3>1. b[m] = 1
      BY DEF Past
    <3>2. m = Main /\ HasConstructor(Main)
      BY <1>2, <1>3, <3>1
    <3>3. s = <<fr>>
      BY <1>2, <3>2 DEF fr
    <3>4. 1 \in DOMAIN s /\ s[1] = fr
      BY <3>3
    <3>5. Behind(c, fr)
      BY <1>5, <3>2, <3>4 DEF Past
    <3>6. IsFunction(<<m, Constructor>>)
      BY ConstructorsAre
    <3>7. c[1] \in Nat /\ c[1] >= 1 /\ c[2] \in Nat /\ c[2] >= 1
      BY <3>6, CallPlaces, BodyLines
    <3> QED
      BY <1>5, <3>5, <3>7 DEF Behind
  <2> QED
    BY <2>2, <2>3
<1>11. Constructing(s, b)
  BY <1>4, <1>8, <1>9, <1>10 DEF Constructing
<1> QED
  BY <1>1, <1>11

(* When none runs any more, those of all modules below have run. *)
AllBegun(b) == \A m \in InitializedBelow(Main) : HasConstructor(m) => b[m] = 1

(* They have run when nothing is left to run. *)
LEMMA DeployedAll ==
  ASSUME Accepted, NEW b, Constructing(<<>>, b)
  PROVE  AllBegun(b)
<1> DEFINE T == {x \in InitializedBelow(Main) : HasConstructor(x) => b[x] = 1}
<1>1. Settled(done) /\ Main \in done
  BY DEF Accepted, Settled
<1>2. /\ InitializedModules(Main) \subseteq InitializedBelow(Main) /\ InitializedBelow(Main) \subseteq done
      /\ \A x \in InitializedBelow(Main) : InitializedModules(x) \subseteq InitializedBelow(Main)
  BY <1>1, InitializedAll
<1>3. HasConstructor(Main) => b[Main] = 1
  BY DEF Constructing
<1>4. ASSUME NEW x \in Owned, HasConstructor(x) => b[x] = 1, NEW y \in InitializedModules(x), HasConstructor(y)
      PROVE  b[y] = 1
  <2>1. InitializerCallsSound(x)
    BY <1>1, <1>2 DEF Accepted, Owned
  <2>2. PICK c \in InitializerCalls(x) : y = StartedBy(x, c)
    BY <1>4, <2>1 DEF InitializerCallsSound, StartedBy
  <2>3. b[x] = 1
    BY <1>4 DEF InitializerCalls
  <2>4. Past(<<>>, b, x, c)
    BY <2>3 DEF Past
  <2>5. y # Main => b[y] = 1
    BY <2>2, <2>4 DEF Constructing
  <2> QED
    BY <1>3, <1>4, <2>5
<1>5. InitializedModules(Main) \subseteq T
  BY <1>2, <1>3, <1>4 DEF Owned
<1>6. \A x \in T : InitializedModules(x) \subseteq T
  BY <1>2, <1>4 DEF Owned
<1>7. InitializedBelow(Main) \subseteq T
  <2> HIDE DEF T
  <2> QED
    BY <1>1, <1>5, <1>6, InitializedAll
<1> QED
  BY <1>7 DEF AllBegun

(* After the deployment no constructor runs. *)
NoConstructors(s) == \A j \in DOMAIN s : ~IsConstructor(s[j].f)

(* None is exposed, ... *)
LEMMA ExposedNoConstructor ==
  ASSUME Accepted, AnalysisOk, NEW f \in Exposed, The(f).d = "function"
  PROVE  f \in DOMAIN facts /\ ~IsConstructor(f)
<1>1. Main \in done /\ MembersSound(Main)
  BY DEF Accepted, Settled, Imported
<1>2. f \in DOMAIN facts
  BY <1>1, ExposedAnalysed
<1>3. The(f).visibility # "deploy"
  <2>1. CASE f \in Functions(Main) /\ The(f).visibility = "external"
    BY <2>1
  <2>2. CASE f \in Getters(Main)
    <3>1. PICK d \in Declarations(Main, {"variable"}) : f = <<Main, d.name>>
      BY <2>2 DEF Getters
    <3>2. d \in Declared(Main, d.name) /\ d.d = "variable"
      BY <3>1 DEF Declared, Declarations, Positions, Named
    <3>3. The(f) = d
      BY <1>1, <3>1, <3>2, TheUnique
    <3> QED
      BY <3>2, <3>3
  <2>3. CASE \E e \in ExportedBy(Main) : f = e.of
    <3>1. PICK e \in exported : e.by = Main /\ f = e.of
      BY <2>3 DEF ExportedBy
    <3> QED
      BY <3>1 DEF Accepted, OwnExport, IsExposed
  <2> QED
    BY <2>1, <2>2, <2>3 DEF Exposed
<1>4. f[1] \in done /\ f \in Functions(f[1])
  BY <1>2 DEF Accepted, OwnFacts
<1> QED
  BY <1>2, <1>3, <1>4 DEF Accepted, ConstructorSound

(* Where none runs, no call begins one, ... *)
LEMMA CallingCalls ==
  ASSUME Sound(facts), RunOk, Accepted, NoConstructors(stack), CallFunction
  PROVE  NoConstructors(stack') /\ began' = began
<1> DEFINE r == CalleeOf(Top.f, NowPart)
<1>1. DoingPart({"call"})
  BY DEF CallFunction
<1>2. stack # <<>> /\ NowPart.s = "call" /\ PartOk(facts, Top.f, Top.bound, facts[Top.f].writes, NowPart)
  BY <1>1, PartFacts
<1>3. IsCallOfInternal(r)
  BY <1>2 DEF PartOk
<1>4. PICK n, rank : RankedBy(facts, n, rank) /\ StackOk(facts, rank, stack)
  BY DEF RunOk
<1>5. stack \in Seq(Frames(facts)) /\ 1 \in DOMAIN stack
  BY <1>2, <1>4 DEF StackOk
<1>6. ~IsConstructor(r.of)
  <2>1. IsConstructor(r.of) => IsConstructor(Top.f)
    BY <1>1, CalledByConstructor
  <2> HIDE DEF r
  <2> QED
    BY <1>5, <2>1 DEF NoConstructors, Top
<1>7. stack' = <<Frame(r.of)>> \o PartDone /\ began' = began
  BY <1>3, <1>6 DEF CallFunction, IsCallOfInternal
<1> HIDE DEF r
<1>8. PICK s, t : s = PartDone /\ t = <<Frame(r.of)>> \o s
  OBVIOUS
<1>9. /\ s \in Seq(Frames(facts)) /\ s # <<>> /\ DOMAIN s = DOMAIN stack
      /\ s[1].f = Top.f /\ \A j \in DOMAIN stack : j # 1 => s[j] = stack[j]
  BY <1>1, <1>4, <1>8, PartMoved
<1>10. \A j \in DOMAIN s : s[j].f = stack[j].f
  BY <1>9 DEF Top
<1> DEFINE fr == Frame(r.of)
<1>11. fr.f = r.of
  BY DEF Frame
<1>12. t = <<fr>> \o s
  BY <1>8
<1> HIDE DEF fr
<1>13. t[1] = fr /\ \A j \in DOMAIN t : j = 1 \/ (j - 1 \in DOMAIN s /\ t[j] = s[j - 1])
  BY <1>9, <1>12, Pushed
<1>14. NoConstructors(t)
  BY <1>6, <1>9, <1>10, <1>11, <1>13 DEF NoConstructors
<1> QED
  BY <1>7, <1>8, <1>14

(* ... nor does any other part. *)
LEMMA CallingExecute ==
  ASSUME Sound(facts), RunOk, Accepted, NoConstructors(stack), Execute, ~Raise
  PROVE  NoConstructors(stack') /\ began' = began
<1>1. CASE CallFunction
  BY <1>1, CallingCalls
<1>2. CASE Return \/ FallOff
  <2>1. stack # <<>> /\ stack' = Tail(stack) /\ began' = began
    BY <1>2 DEF Return, FallOff, Doing, InCode
  <2>2. stack \in Seq(Frames(facts)) /\ Len(stack) \in Nat /\ Len(stack) >= 1
    BY <2>1 DEF RunOk, StackOk
  <2>3. PICK s : s = Tail(stack)
    OBVIOUS
  <2>4. \A j \in DOMAIN s : j + 1 \in DOMAIN stack /\ s[j] = stack[j + 1]
    BY <2>1, <2>2, <2>3
  <2> QED
    BY <2>1, <2>3, <2>4 DEF NoConstructors
<1>3. CASE ~(CallFunction \/ Return \/ FallOff)
  <2>1. /\ stack # <<>> /\ began' = began
        /\ \E line, part, bound : stack' = [stack EXCEPT ![1] = [f |-> Top.f, line |-> line, part |-> part, bound |-> bound]]
    <3>1. CASE Access \/ Outside
      BY <3>1 DEF Access, Outside, DoingPart, InCode, PartDone
    <3>2. CASE ~(Access \/ Outside)
      <4>1. stack # <<>> /\ \E line, bound, touch : GoesTo(line, bound, touch)
        BY <1>3, <3>2 DEF Execute, BindName, Write, Expression, Log, Branch, EndOfSide, EndOfBranch, Loop, Again, Break, Continue,
                          Doing, InCode
      <4> QED
        BY <4>1 DEF GoesTo
    <3> QED
      BY <3>1, <3>2
  <2>2. PICK line, part, bound, s :
          s = stack' /\ s = [stack EXCEPT ![1] = [f |-> Top.f, line |-> line, part |-> part, bound |-> bound]]
    BY <2>1
  <2>3. DOMAIN s = DOMAIN stack /\ \A j \in DOMAIN stack : s[j].f = stack[j].f
    BY <2>1, <2>2, SameFunctions
  <2> QED
    BY <2>1, <2>2, <2>3 DEF NoConstructors
<1> QED
  BY <1>1, <1>2, <1>3

---------------------------------------------------------------------------
(* The invariant of what is initialized.                                   *)

OwnInv ==
  /\ Inv
  /\ phase \notin {"mirror", "rejected"} /\ ~rejected => OwnAnalysis
  /\ phase \in Transacting /\ ~Lending => OwnRun(facts, stack, touched)
  /\ phase = "deploying" /\ AllStraight => Constructing(stack, began)
  /\ phase = "called" => NoConstructors(stack)
  /\ phase \in {"deployed", "called"} /\ AllStraight => AllBegun(began)

(* What it says of a program that is accepted. *)
LEMMA OwnInvAccepted ==
  ASSUME OwnInv, phase \notin Analysing \union {"rejected"}
  PROVE  /\ OwnAnalysis /\ Accepted /\ AnalysisOk /\ Sound(facts)
         /\ \A x \in done : Functions(x) \subseteq DOMAIN facts
<1>1. Inv /\ ~rejected /\ OwnAnalysis
  BY DEF OwnInv, Inv, Analysing
<1>2. Sound(facts) /\ AnalysisOk
  BY <1>1, InvSound
<1> QED
  BY <1>1, <1>2, AcceptedFacts DEF AnalysisOk

(* While the program is run, nothing but the run goes on. *)
LEMMA OwnInvRun ==
  ASSUME OwnInv, Inv', phase \notin Analysing \union {"rejected"}, UNCHANGED <<program, analysis>>,
         phase' \in Transacting /\ ~Lending => OwnRun(facts, stack', touched'),
         phase' = "deploying" /\ AllStraight => Constructing(stack', began'),
         phase' = "called" => NoConstructors(stack'),
         phase' \in {"deployed", "called"} /\ AllStraight => AllBegun(began')
  PROVE  OwnInv'
<1>1. UNCHANGED <<program, done, facts>>
  BY DEF analysis, known
<1>2. OwnAnalysis'
  BY OwnInvAccepted, OwnUnchanged
<1>3. PICK s, b, t, F : s = stack' /\ b = began' /\ t = touched' /\ F = facts
  OBVIOUS
<1>4. Lending' = Lending /\ OwnRun(F, s, t)' = OwnRun(F, s, t)
  BY <1>1, OwnRunKeeps
<1>5. AllStraight' = AllStraight /\ Constructing(s, b)' = Constructing(s, b)
  BY <1>1, ConstructingKeeps
<1>6. AllBegun(b)' = AllBegun(b)
  BY <1>1, OwnersKeep DEF AllBegun
<1>7. phase' \in Transacting /\ ~Lending' => OwnRun(facts, stack, touched)'
  BY <1>1, <1>3, <1>4
<1>8. phase' = "deploying" /\ AllStraight' => Constructing(stack, began)'
  BY <1>3, <1>5
<1>9. phase' \in {"deployed", "called"} /\ AllStraight' => AllBegun(began)'
  BY <1>3, <1>5, <1>6
<1>10. phase' = "called" => NoConstructors(stack)'
  BY DEF NoConstructors
<1> QED
  BY <1>2, <1>7, <1>8, <1>9, <1>10 DEF OwnInv

(* Steps of the analysis keep it, ... *)
LEMMA OwnInvAnalysis ==
  ASSUME OwnInv, Analysis \/ AnalyzeSource \/ Verdict
  PROVE  OwnInv'
<1>1. Inv'
  BY InvAnalysis, InvAnalyzeSource, InvVerdict DEF OwnInv
<1>2. phase' \in Analysing \union {"rejected", "accepted"}
  BY DEF Analysis, AnalyzeSource, Verdict, Analysing
<1>3. ASSUME phase' \notin {"mirror", "rejected"}, ~rejected'
      PROVE  OwnAnalysis'
  <2>1. CASE Analysis
    <3>1. phase = "source" /\ Analyze
      BY <1>3, <2>1 DEF Analysis
    <3>2. ~rejected /\ program' = program
      BY <3>1 DEF Analyze, ResolveImports, AnalyzeModules, BeginModule, FinishModule, AnalyzeFunctions, StartBody, VisitPart,
                  VisitStatement, FinishBody, ValidateTarget, At
    <3>3. program = source /\ source \in Programs /\ AnalysisOk /\ OwnAnalysis
      BY <3>1, <3>2 DEF OwnInv, Inv
    <3>4. WellFormed(program)
      BY <3>3, ProgramsAssumption
    <3> QED
      BY <1>3, <3>1, <3>3, <3>4, OwnAnalyze
  <2>2. CASE AnalyzeSource
    BY <2>2, OwnRestart DEF AnalyzeSource
  <2>3. CASE Verdict
    <3>1. phase = "source" /\ UNCHANGED <<program, analysis>>
      BY <2>3 DEF Verdict
    <3>2. ~rejected
      BY <1>3, <3>1 DEF analysis
    <3> QED
      BY <3>1, <3>2, OwnUnchanged DEF OwnInv
  <2> QED
    BY <2>1, <2>2, <2>3
<1> QED
  BY <1>1, <1>2, <1>3 DEF OwnInv, Analysing, Transacting

(* ... the deployment, ... *)
LEMMA OwnInvDeploy ==
  ASSUME OwnInv, Deploy
  PROVE  OwnInv'
<1>1. phase = "accepted" /\ phase' = "deploying" /\ UNCHANGED <<program, analysis, touched>>
  BY DEF Deploy
<1>2. Inv'
  BY InvDeploy DEF OwnInv
<1>3. phase \notin Analysing \union {"rejected"}
  BY <1>1 DEF Analysing
<1>4. Accepted /\ \A x \in done : Functions(x) \subseteq DOMAIN facts
  BY <1>3, OwnInvAccepted
<1>5. Constructing(stack', began')
  BY <1>4, ConstructingDeploys
<1>6. OwnRun(facts, stack', touched')
  <2>1. PICK s : s = stack'
    OBVIOUS
  <2> DEFINE fr == Frame(<<Main, Constructor>>)
  <2>2. s = <<>> \/ s = <<fr>>
    BY <2>1 DEF Deploy
  <2>3. fr.f[1] = Main
    BY DEF Frame
  <2> HIDE DEF fr
  <2>4. \A j \in DOMAIN s : s[j].f[1] = Main
    BY <2>2, <2>3
  <2>5. touched' = NoTouch
    BY <1>1 DEF OwnInv, Inv, Quiet, Transacting
  <2>6. ~Touched(NoTouch)
    BY DEF Touched, NoTouch
  <2> QED
    BY <2>1, <2>4, <2>5, <2>6 DEF OwnRun, MayTouch, Owned
<1> QED
  BY <1>1, <1>2, <1>3, <1>5, <1>6, OwnInvRun

(* ... its end, ... *)
LEMMA OwnInvDeployed ==
  ASSUME OwnInv, Deployed
  PROVE  OwnInv'
<1>1. phase = "deploying" /\ phase' = "deployed" /\ stack = <<>> /\ UNCHANGED <<program, analysis, began>>
  BY DEF Deployed
<1>2. Inv'
  BY InvDeployed DEF OwnInv
<1>3. phase \notin Analysing \union {"rejected"}
  BY <1>1 DEF Analysing
<1>4. Accepted
  BY <1>3, OwnInvAccepted
<1>5. AllStraight => AllBegun(began')
  <2>1. AllStraight => Constructing(<<>>, began)
    BY <1>1 DEF OwnInv
  <2> QED
    BY <1>1, <1>4, <2>1, DeployedAll
<1> QED
  BY <1>1, <1>2, <1>3, <1>5, OwnInvRun DEF Transacting

(* ... a call, ... *)
LEMMA OwnInvCall ==
  ASSUME OwnInv, Call
  PROVE  OwnInv'
<1>1. phase = "deployed" /\ phase' = "called" /\ UNCHANGED <<program, analysis, began>>
  BY DEF Call
<1>2. Inv'
  BY InvCall DEF OwnInv
<1>3. phase \notin Analysing \union {"rejected"}
  BY <1>1 DEF Analysing
<1>4. Accepted /\ AnalysisOk
  BY <1>3, OwnInvAccepted
<1>5. PICK f \in Exposed :
        IF The(f).d = "function" THEN stack' = <<Frame(f)>> /\ touched' = NoTouch
        ELSE stack' = <<>> /\ touched' = [how |-> "read", of |-> f, rest |-> <<>>]
  BY DEF Call
<1>6. The(f).d = "function" => ~IsConstructor(f)
  BY <1>4, ExposedNoConstructor
<1>7. PICK s, t : s = stack' /\ t = touched'
  OBVIOUS
<1>8. \A j \in DOMAIN s : s[j].f = f /\ The(f).d = "function"
  <2> DEFINE fr == Frame(f)
  <2>1. fr.f = f
    BY DEF Frame
  <2>2. s = <<>> \/ (s = <<fr>> /\ The(f).d = "function")
    BY <1>5, <1>7
  <2> HIDE DEF fr
  <2> QED
    BY <2>1, <2>2
<1>9. NoConstructors(s)
  BY <1>6, <1>8 DEF NoConstructors
<1>10. ~Lending => OwnRun(facts, s, t)
  <2> SUFFICES ASSUME ~Lending
               PROVE  OwnRun(facts, s, t)
    OBVIOUS
  <2>1. /\ The(f).d = "function" => MayTouch(facts, f)
        /\ The(f).d # "function" /\ IsState(The(f)) => f[1] \in Owned
    BY <1>4, OwnExposed
  <2>2. Touched(t) => t.of[1] \in Owned
    <3>1. CASE The(f).d = "function"
      <4>1. ~Touched(NoTouch)
        BY DEF Touched, NoTouch
      <4> QED
        BY <1>5, <1>7, <3>1, <4>1
    <3>2. CASE The(f).d # "function"
      <4>1. t.of = f
        BY <1>5, <1>7, <3>2
      <4> QED
        BY <2>1, <3>2, <4>1 DEF Touched, IsStateAccess
    <3> QED
      BY <3>1, <3>2
  <2> QED
    BY <1>8, <2>1, <2>2 DEF OwnRun
<1>11. AllStraight => AllBegun(began')
  BY <1>1 DEF OwnInv
<1> QED
  BY <1>1, <1>2, <1>3, <1>7, <1>9, <1>10, <1>11, OwnInvRun

(* ... and whatever runs. *)
LEMMA OwnInvExecute ==
  ASSUME OwnInv, Execute
  PROVE  OwnInv'
<1>1. phase \in Transacting /\ UNCHANGED <<program, analysis>> /\ (~Raise => phase' = phase)
  BY DEF Execute, Access, Outside, CallFunction, BindName, Write, Expression, Log, Branch, EndOfSide, EndOfBranch, Loop, Again, Break,
         Continue, Return, FallOff, Raise, Ran, GoesTo, DoingPart, Doing, InCode, Transacting
<1>2. Inv'
  BY InvExecute DEF OwnInv
<1>3. phase \notin Analysing \union {"rejected"}
  BY <1>1 DEF Analysing, Transacting
<1>4. Accepted /\ Sound(facts) /\ \A x \in done : Functions(x) \subseteq DOMAIN facts
  BY <1>3, OwnInvAccepted
<1>5. RunOk
  BY <1>1 DEF OwnInv, Inv
<1>6. CASE Raise
  <2>1. phase' = "reverted"
    BY <1>6 DEF Raise
  <2> QED
    BY <1>1, <1>2, <1>3, <2>1, OwnInvRun DEF Transacting
<1>7. CASE ~Raise
  <2>1. phase' = phase
    BY <1>1, <1>7
  <2>2. ~Lending => OwnRun(facts, stack', touched')
    BY <1>1, <1>4, <1>5, <1>7, OwnExecute DEF OwnInv
  <2>3. phase = "deploying" /\ AllStraight => Constructing(stack', began')
    BY <1>4, <1>5, <1>7, ConstructingExecute DEF OwnInv
  <2>4. phase = "called" => NoConstructors(stack') /\ began' = began
    BY <1>4, <1>5, <1>7, CallingExecute DEF OwnInv
  <2>5. phase \in {"deployed", "called"} /\ AllStraight => AllBegun(began')
    BY <1>1, <2>4 DEF OwnInv, Transacting
  <2> QED
    BY <1>1, <1>2, <1>3, <2>1, <2>2, <2>3, <2>4, <2>5, OwnInvRun
<1> QED
  BY <1>6, <1>7

(* So does what changes nothing. *)
LEMMA OwnInvStutters ==
  ASSUME OwnInv, UNCHANGED vars
  PROVE  OwnInv'
<1>1. UNCHANGED <<program, analysis, phase, stack, began, touched>>
  BY DEF vars, execution
<1>2. Inv'
  BY InvStutters DEF OwnInv
<1>3. CASE phase \in Analysing \union {"rejected"}
  <2>1. UNCHANGED rejected
    BY <1>1 DEF analysis
  <2>2. OwnAnalysis => OwnAnalysis'
    BY <1>1, OwnUnchanged
  <2> QED
    BY <1>1, <1>2, <1>3, <2>1, <2>2 DEF OwnInv, Analysing, Transacting
<1>4. CASE phase \notin Analysing \union {"rejected"}
  BY <1>1, <1>2, <1>4, OwnInvRun DEF OwnInv
<1> QED
  BY <1>3, <1>4

(* State that is touched belongs to what is initialized once in all, and   *)
(* by the time of a call the constructor of each has run once.             *)
THEOREM AlwaysInitializedOnce == Spec => []InitializedOnce
<1>1. Init => OwnInv
  BY InvInit DEF OwnInv, Init, Transacting
<1>2. OwnInv /\ [Next]_vars => OwnInv'
  BY OwnInvAnalysis, OwnInvDeploy, OwnInvDeployed, OwnInvCall, OwnInvExecute, OwnInvStutters DEF Next
<1>3. OwnInv => InitializedOnce
  <2> SUFFICES ASSUME OwnInv
               PROVE  InitializedOnce
    OBVIOUS
  <2>1. TouchesState => /\ phase \in Transacting /\ Accepted
                        /\ ~Lending => OwnRun(facts, stack, touched)
    <3>1. TouchesState => touched # NoTouch
      BY DEF TouchesState, IsIn, NoTouch
    <3>2. TouchesState => phase \in Transacting
      BY <3>1 DEF OwnInv, Inv, Quiet
    <3> QED
      BY <3>2, OwnInvAccepted DEF OwnInv, Transacting, Analysing
  <2>2. TouchesState => \/ touched.of[1] = Main \/ Cardinality(Initializers(touched.of[1])) = 1
                        \/ \E m \in done \ (InitializedBelow(Main) \union {Main}) : Lends(m)
    BY <2>1, OwnedOnce
  <2>3. phase \in {"deployed", "called"} /\ (\A m \in InitializedBelow(Main) \union {Main} : Straight(m)) =>
          \A m \in InitializedBelow(Main) : HasConstructor(m) => began[m] = 1
    BY DEF OwnInv, AllStraight, AllBegun, Owned
  <2> QED
    BY <2>2, <2>3 DEF InitializedOnce
<1> QED
  BY <1>1, <1>2, <1>3, PTL DEF Spec
=============================================================================
