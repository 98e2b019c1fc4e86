------------------------- MODULE StorageLayoutProofs -------------------------
(***************************************************************************)
(* Proofs about StorageLayout, for any module trees, any override file and *)
(* any number of slots.                                                    *)
(*                                                                         *)
(* Two allocators give out positions, and NoOverlap follows from what each *)
(* of them keeps: the counter of a location lies behind all that it has    *)
(* given out, and occupied_slots tells for each slot of an override file   *)
(* whose it is, the lock's included.                                       *)
(*                                                                         *)
(* The other results speak of what a whole stage has done, and need a      *)
(* second invariant, FilesIInv: a walk has seen each variable once, in the *)
(* order of declaration (Sound, Walked), the counters are the sums of what *)
(* it has seen, and the file is followed as far as it has come.  That a    *)
(* module is initialized at most once is what makes the walk reach each    *)
(* place once; that the modules are finitely many, what makes it end at    *)
(* the whole tree.                                                         *)
(***************************************************************************)
EXTENDS StorageLayout, SequenceTheorems, FiniteSetTheorems, WellFoundedInduction, TLAPS

(* Which of the two places a variable. *)
ByFile(v) == v \in Variables /\ Overridden /\ Item(v).location = "storage"
ByCounter(v) == v \in Variables /\ ~(Overridden /\ Item(v).location = "storage")

InputsTyped ==
  /\ program \in Programs
  /\ program \in [ModuleIds -> Seq(Declarations)]
  /\ override.present \in BOOLEAN
  /\ \A v \in DOMAIN override.slots : override.slots[v] \in Int
  /\ override.lock \in Int

WalkTyped ==
  /\ walk \in Seq(ModuleIds \X Nat)
  /\ stage = "override" => Overridden

(* What the counters have given out lies behind the lock's slot and before   *)
(* the counter, in ranges of their own.                                      *)
CountersApart ==
  /\ \A loc \in Locations : FirstSlot(loc) <= next_slot[loc]
  /\ \A v : ByCounter(v) /\ position[v] # Unset =>
       /\ FirstSlot(Item(v).location) <= position[v]
       /\ position[v] + Item(v).size <= next_slot[Item(v).location]
       /\ \A w : (ByCounter(w) /\ position[w] # Unset /\ w # v /\ Item(w).location = Item(v).location)
                 => \/ position[v] + Item(v).size <= position[w]
                    \/ position[w] + Item(w).size <= position[v]

FilePositionsReserved ==
  \A v : ByFile(v) /\ position[v] # Unset =>
    \A s \in Extent(v) : s \in DOMAIN occupied /\ occupied[s] = v

KeysReserved ==
  \A m \in ModuleIds : key[m] # Unset =>
    IF Overridden /\ ~cancun THEN key[m] \in DOMAIN occupied /\ occupied[key[m]] = LockName
    ELSE key[m] = LockSlot

LayoutIInv ==
  TypeOK /\ InputsTyped /\ WalkTyped /\ CountersApart /\ FilePositionsReserved /\ KeysReserved

-----------------------------------------------------------------------------
LEMMA DeclarationFacts ==
  ASSUME InputsTyped, NEW v \in Variables
  PROVE  /\ v \in AllItems /\ v[1] \in ModuleIds /\ v[2] \in Nat /\ v[2] >= 1
         /\ v = <<v[1], v[2]>>
         /\ Item(v).location \in Locations /\ Item(v).size \in Nat
<1>1. PICK m \in ModuleIds : v \in Items(m)
  BY DEF Variables, AllItems
<1>2. PICK k \in 1 .. Len(program[m]) : v = <<m, k>>
  BY <1>1 DEF Items
<1>3. program[m] \in Seq(Declarations)
  BY DEF InputsTyped
<1>4. k \in Nat /\ k >= 1 /\ program[m][k] \in Declarations
  BY <1>2, <1>3, ElementOfSeq, LenProperties
<1>5. Item(v) = program[m][k] /\ Item(v).kind = "variable" /\ v \in AllItems
  BY <1>2 DEF Item, Variables
<1>6. Item(v) \in [kind : {"variable"}, location : Locations, size : Nat]
  BY <1>4, <1>5 DEF Declarations
<1> QED
  BY <1>2, <1>4, <1>5, <1>6

LEMMA LockIsNoVariable ==
  ASSUME InputsTyped
  PROVE  LockName \notin Variables
BY DeclarationFacts DEF LockName

LEMMA WalkFacts ==
  ASSUME InputsTyped, WalkTyped, walk # <<>>
  PROVE  /\ Len(walk) \in Nat \ {0}
         /\ Current \in ModuleIds \X Nat /\ Current = <<Here, Current[2]>>
         /\ Here \in ModuleIds /\ Current[2] \in Nat
<1>1. Len(walk) \in Nat \ {0} /\ Len(walk) \in 1 .. Len(walk)
  BY EmptySeq, LenProperties DEF WalkTyped
<1>2. Current \in ModuleIds \X Nat
  BY <1>1, ElementOfSeq DEF WalkTyped, Current
<1> QED
  BY <1>1, <1>2 DEF Here, Current

LEMMA AtVariableFacts ==
  ASSUME InputsTyped, WalkTyped, NEW stg, AtItem(stg, "variable")
  PROVE  Current \in Variables
<1>1. /\ walk # <<>> /\ Current[2] \in 1 .. Len(program[Here]) /\ Item(Current).kind = "variable"
  BY DEF AtItem
<1>2. Current = <<Here, Current[2]>> /\ Here \in ModuleIds
  BY <1>1, WalkFacts
<1>3. Current \in Items(Here)
  BY <1>1, <1>2 DEF Items
<1> QED
  BY <1>1, <1>2, <1>3 DEF Variables, AllItems

LEMMA AdvanceKeeps ==
  ASSUME InputsTyped, WalkTyped, walk # <<>>, Advance
  PROVE  walk' \in Seq(ModuleIds \X Nat)
<1>1. /\ Len(walk) \in Nat \ {0} /\ Here \in ModuleIds /\ Current[2] \in Nat
  BY WalkFacts
<1>2. <<Here, Current[2] + 1>> \in ModuleIds \X Nat
  BY <1>1
<1> QED
  BY <1>1, <1>2, ExceptSeq DEF Advance, WalkTyped

(* The names of things do not change while a contract is compiled. *)
LEMMA SameProgram ==
  ASSUME UNCHANGED program
  PROVE  /\ AllItems' = AllItems /\ Variables' = Variables
         /\ \A v : Item(v)' = Item(v)
<1>1. \A v : Item(v)' = Item(v)
  BY DEF Item
<1>2. AllItems' = AllItems
  BY DEF AllItems, Items
<1> QED
  BY <1>1, <1>2 DEF Variables

LEMMA SameInputs ==
  ASSUME UNCHANGED inputs
  PROVE  /\ UNCHANGED program /\ UNCHANGED locked /\ UNCHANGED cancun /\ UNCHANGED override
         /\ Overridden' = Overridden /\ KeyLocation' = KeyLocation
         /\ \A loc : FirstSlot(loc)' = FirstSlot(loc)
         /\ AllItems' = AllItems /\ Variables' = Variables
         /\ \A v : Item(v)' = Item(v)
         /\ \A v : ByFile(v)' = ByFile(v) /\ ByCounter(v)' = ByCounter(v)
<1>1. UNCHANGED <<program, locked, cancun, override, upgraded>>
  BY DEF inputs
<1>2. Overridden' = Overridden /\ KeyLocation' = KeyLocation
  BY <1>1 DEF Overridden, KeyLocation
<1>3. AllItems' = AllItems /\ Variables' = Variables /\ \A v : Item(v)' = Item(v)
  BY <1>1, SameProgram
<1>4. \A loc : FirstSlot(loc)' = FirstSlot(loc)
  BY <1>2 DEF FirstSlot
<1>5. \A v : ByFile(v)' = ByFile(v) /\ ByCounter(v)' = ByCounter(v)
  BY <1>2, <1>3 DEF ByFile, ByCounter
<1> QED
  BY <1>1, <1>2, <1>3, <1>4, <1>5

(* A step that only moves the walk, or ends it. *)
LEMMA PlacesKept ==
  ASSUME LayoutIInv, UNCHANGED <<inputs, next_slot, occupied, position, key>>
  PROVE  CountersApart' /\ FilePositionsReserved' /\ KeysReserved' /\ InputsTyped'
<1>1. /\ UNCHANGED <<program, locked, cancun, override>> /\ Overridden' = Overridden
      /\ \A loc : FirstSlot(loc)' = FirstSlot(loc)
      /\ \A v : Item(v)' = Item(v)
      /\ \A v : ByFile(v)' = ByFile(v) /\ ByCounter(v)' = ByCounter(v)
  BY SameInputs
<1>2. CountersApart'
  BY <1>1 DEF LayoutIInv, CountersApart
<1>3. FilePositionsReserved'
  BY <1>1 DEF LayoutIInv, FilePositionsReserved, Extent
<1>4. KeysReserved'
  BY <1>1 DEF LayoutIInv, KeysReserved, LockName
<1>5. InputsTyped'
  BY <1>1 DEF LayoutIInv, InputsTyped
<1> QED
  BY <1>2, <1>3, <1>4, <1>5

LEMMA StagesTyped ==
  ASSUME LayoutIInv, UNCHANGED <<inputs, next_slot, occupied, position, key>>,
         walk' \in Seq(ModuleIds \X Nat),
         stage' \in {"layout", "override", "export", "done"} \cup Errors,
         stage' = "override" => Overridden
  PROVE  LayoutIInv'
<1>1. UNCHANGED <<program, locked, cancun, override, upgraded>> /\ Overridden' = Overridden /\ AllItems' = AllItems
  BY SameInputs DEF inputs
<1>2. WalkTyped'
  BY <1>1 DEF WalkTyped
<1>3. \A k \in 1 .. Len(walk') : walk'[k][1] \in ModuleIds /\ walk'[k][2] \in Nat
  <2>1. ASSUME NEW k \in 1 .. Len(walk')
        PROVE  walk'[k] \in ModuleIds \X Nat
    BY ElementOfSeq
  <2> QED
    BY <2>1
<1>4. LockName' = LockName
  BY DEF LockName
<1>5. TypeOK'
  BY <1>1, <1>3, <1>4 DEF LayoutIInv, TypeOK
<1> QED
  BY <1>2, <1>5, PlacesKept DEF LayoutIInv

LEMMA WalkModulesKeeps ==
  ASSUME LayoutIInv, WalkModules
  PROVE  LayoutIInv'
<1>1. UNCHANGED <<inputs, stage, next_slot, occupied, position, key>>
  BY DEF WalkModules
<1>2. ASSUME NEW stg, Enter(stg)
      PROVE  walk' \in Seq(ModuleIds \X Nat)
  <2>1. /\ walk # <<>> /\ Current[2] \in 1 .. Len(program[Here]) /\ Item(Current).kind = "initializes"
        /\ walk' = [walk EXCEPT ![Len(walk)] = <<Here, Current[2] + 1>>] \o <<<<Item(Current).module, 0>>>>
    BY <1>2 DEF Enter, AtItem
  <2>2. /\ Len(walk) \in Nat \ {0} /\ Here \in ModuleIds /\ Current[2] \in Nat /\ Current = <<Here, Current[2]>>
        /\ walk \in Seq(ModuleIds \X Nat)
    BY <2>1, WalkFacts DEF LayoutIInv, WalkTyped
  <2>3. Item(Current) \in Declarations
    <3>1. program[Here] \in Seq(Declarations)
      BY <2>2 DEF LayoutIInv, InputsTyped
    <3>2. program[Here][Current[2]] \in Declarations
      BY <2>1, <3>1, ElementOfSeq
    <3>3. Item(Current) = program[Here][Current[2]]
      BY DEF Item, Here, Current
    <3> QED
      BY <3>2, <3>3
  <2>4. Item(Current).module \in ModuleIds
    BY <2>1, <2>3 DEF Declarations
  <2>5. <<Here, Current[2] + 1>> \in ModuleIds \X Nat /\ <<Item(Current).module, 0>> \in ModuleIds \X Nat
    BY <2>2, <2>4
  <2>6. [walk EXCEPT ![Len(walk)] = <<Here, Current[2] + 1>>] \in Seq(ModuleIds \X Nat)
    BY <2>2, <2>5, ExceptSeq
  <2> QED
    BY <2>1, <2>5, <2>6, ConcatProperties
<1>3. ASSUME NEW stg, Leave(stg)
      PROVE  walk' \in Seq(ModuleIds \X Nat)
  <2>1. walk # <<>> /\ walk' = SubSeq(walk, 1, Len(walk) - 1)
    BY <1>3 DEF Leave, AtEnd
  <2>2. Len(walk) \in Nat \ {0} /\ walk \in Seq(ModuleIds \X Nat)
    BY <2>1, WalkFacts DEF LayoutIInv, WalkTyped
  <2> QED
    BY <2>1, <2>2, SubSeqProperties
<1>4. walk' \in Seq(ModuleIds \X Nat)
  BY <1>2, <1>3 DEF WalkModules
<1>5. stage' \in {"layout", "override", "export", "done"} \cup Errors /\ (stage' = "override" => Overridden)
  BY <1>1 DEF LayoutIInv, TypeOK, WalkTyped
<1> QED
  BY <1>1, <1>4, <1>5, StagesTyped

(* The steps that end a stage, and those that reject. *)
LEMMA StageStepKeeps ==
  ASSUME LayoutIInv,
         \/ LayoutDone
         \/ OverrideDone
         \/ Export
         \/ Reject("StorageLayoutException") /\ UNCHANGED inputs
         \/ Ended
  PROVE  LayoutIInv'
<1>1. walk \in Seq(ModuleIds \X Nat) /\ <<<<Main, 0>>>> \in Seq(ModuleIds \X Nat)
      /\ (stage = "override" => Overridden)
      /\ stage \in {"layout", "override", "export", "done"} \cup Errors
  BY ModulesAssumption DEF LayoutIInv, WalkTyped, TypeOK
<1>2. UNCHANGED <<inputs, next_slot, occupied, position, key>>
  BY DEF LayoutDone, OverrideDone, Export, Reject, Ended, vars, inputs
<1>3. walk' \in Seq(ModuleIds \X Nat)
  BY <1>1 DEF LayoutDone, OverrideDone, Export, Reject, Ended, vars
<1>4. /\ stage' \in {"layout", "override", "export", "done"} \cup Errors
      /\ stage' = "override" => Overridden
  BY <1>1 DEF LayoutDone, OverrideDone, Export, Reject, Ended, vars, Errors
<1> QED
  BY <1>2, <1>3, <1>4, StagesTyped

(* What a step that places something has to show. *)
LEMMA StepTyped ==
  ASSUME LayoutIInv, walk # <<>>, Advance, UNCHANGED <<inputs, stage>>,
         next_slot' \in [Locations -> Nat],
         DOMAIN occupied' \subseteq 0 .. (MaxSlot - 1),
         \A s \in DOMAIN occupied' : occupied'[s] \in AllItems \cup {LockName},
         position' \in [AllItems -> Int],
         key' \in [ModuleIds -> Int]
  PROVE  TypeOK' /\ InputsTyped' /\ WalkTyped'
<1>1. UNCHANGED <<program, locked, cancun, override, upgraded>> /\ Overridden' = Overridden /\ AllItems' = AllItems
  BY SameInputs DEF inputs
<1>2. walk' \in Seq(ModuleIds \X Nat)
  BY AdvanceKeeps DEF LayoutIInv
<1>3. WalkTyped'
  BY <1>1, <1>2 DEF LayoutIInv, WalkTyped
<1>4. \A k \in 1 .. Len(walk') : walk'[k][1] \in ModuleIds /\ walk'[k][2] \in Nat
  <2>1. ASSUME NEW k \in 1 .. Len(walk')
        PROVE  walk'[k] \in ModuleIds \X Nat
    BY <1>2, ElementOfSeq
  <2> QED
    BY <2>1
<1>5. LockName' = LockName
  BY DEF LockName
<1>6. TypeOK'
  BY <1>1, <1>4, <1>5 DEF LayoutIInv, TypeOK
<1>7. InputsTyped'
  BY <1>1 DEF LayoutIInv, InputsTyped
<1> QED
  BY <1>3, <1>6, <1>7

LEMMA TagFunctionsKeeps ==
  ASSUME LayoutIInv, TagFunctions
  PROVE  LayoutIInv'
<1>1. /\ walk # <<>> /\ Advance /\ UNCHANGED <<inputs, stage, next_slot, occupied, position>>
      /\ key' = IF TaggedByLayout(Here) THEN [key EXCEPT ![Here] = LockSlot] ELSE key
  BY DEF TagFunctions, AtFunctions
<1>2. Here \in ModuleIds
  BY <1>1, WalkFacts DEF LayoutIInv
<1>3. /\ key' \in [ModuleIds -> Int]
      /\ \A m \in ModuleIds : key'[m] = key[m] \/ (key'[m] = LockSlot /\ (~Overridden \/ cancun))
  BY <1>1, <1>2 DEF LayoutIInv, TypeOK, LockSlot, TaggedByLayout
<1>4. TypeOK' /\ InputsTyped' /\ WalkTyped'
  BY <1>1, <1>3, StepTyped DEF LayoutIInv, TypeOK
<1>5. /\ UNCHANGED <<program, locked, cancun, override>> /\ Overridden' = Overridden
      /\ \A loc : FirstSlot(loc)' = FirstSlot(loc)
      /\ \A v : Item(v)' = Item(v)
      /\ \A v : ByFile(v)' = ByFile(v) /\ ByCounter(v)' = ByCounter(v)
  BY <1>1, SameInputs
<1>6. CountersApart'
  BY <1>1, <1>5 DEF LayoutIInv, CountersApart
<1>7. FilePositionsReserved'
  BY <1>1, <1>5 DEF LayoutIInv, FilePositionsReserved, Extent
<1>8. KeysReserved'
  BY <1>1, <1>3, <1>5 DEF LayoutIInv, KeysReserved, LockName
<1> QED
  BY <1>4, <1>6, <1>7, <1>8 DEF LayoutIInv

LEMMA AllocateSlotKeeps ==
  ASSUME LayoutIInv, AllocateSlot
  PROVE  LayoutIInv'
<1> DEFINE c == Current
<1> DEFINE loc == Item(c).location
<1> DEFINE size == Item(c).size
<1>1. AtItem("layout", "variable") /\ walk # <<>> /\ UNCHANGED inputs
  BY DEF AllocateSlot, AtItem
<1>2. c \in Variables
  BY <1>1, AtVariableFacts DEF LayoutIInv
<1>3. c \in AllItems /\ loc \in Locations /\ size \in Nat
  BY <1>2, DeclarationFacts DEF LayoutIInv
<1>4. CASE Reject("StorageLayoutException")
  BY <1>1, <1>4, StageStepKeeps
<1>5. CASE Advance /\ UNCHANGED <<stage, next_slot, occupied, position, key>>
  <2>1. TypeOK' /\ WalkTyped'
    BY <1>1, <1>5, StepTyped DEF LayoutIInv, TypeOK
  <2> QED
    BY <2>1, <1>1, <1>5, PlacesKept DEF LayoutIInv
<1>6. CASE /\ ~(Overridden /\ loc = "storage")
           /\ next_slot' = [next_slot EXCEPT ![loc] = @ + size]
           /\ position' = [position EXCEPT ![c] = next_slot[loc]]
           /\ Advance
           /\ UNCHANGED <<stage, occupied, key>>
  <2> HIDE DEF c, loc, size
  <2>0. loc = Item(c).location /\ size = Item(c).size
    BY DEF loc, size
  <2>1. next_slot \in [Locations -> Nat] /\ position \in [AllItems -> Int]
    BY DEF LayoutIInv, TypeOK
  <2>2. /\ next_slot' \in [Locations -> Nat] /\ position' \in [AllItems -> Int]
        /\ next_slot'[loc] = next_slot[loc] + size
        /\ \A l \in Locations : l # loc => next_slot'[l] = next_slot[l]
        /\ \A v \in AllItems : v # c => position'[v] = position[v]
        /\ position'[c] = next_slot[loc]
    BY <1>3, <1>6, <2>1
  <2>3. TypeOK' /\ InputsTyped' /\ WalkTyped'
    BY <1>1, <1>6, <2>2, StepTyped DEF LayoutIInv, TypeOK
  <2>4. /\ UNCHANGED <<program, locked, cancun, override>> /\ Overridden' = Overridden
        /\ \A l : FirstSlot(l)' = FirstSlot(l)
        /\ \A v : Item(v)' = Item(v)
        /\ \A v : ByFile(v)' = ByFile(v) /\ ByCounter(v)' = ByCounter(v)
    BY <1>1, SameInputs
  <2>5. /\ \A l \in Locations : FirstSlot(l) \in Int /\ FirstSlot(l) <= next_slot[l]
        /\ CountersApart
    BY DEF LayoutIInv, CountersApart, FirstSlot, LockSlot
  <2>6. \A l \in Locations : FirstSlot(l)' <= next_slot'[l]
    <3>1. ASSUME NEW l \in Locations
          PROVE  FirstSlot(l) <= next_slot'[l]
      <4>1. next_slot[l] <= next_slot'[l] /\ next_slot[l] \in Nat /\ next_slot'[l] \in Nat
        BY <1>3, <2>1, <2>2
      <4> QED
        BY <4>1, <2>5
    <3> QED
      BY <3>1, <2>4
  <2>7. ASSUME NEW v, ByCounter(v), position'[v] # Unset
        PROVE  /\ FirstSlot(Item(v).location) <= position'[v]
               /\ position'[v] + Item(v).size <= next_slot'[Item(v).location]
    <3>1. v \in AllItems /\ Item(v).location \in Locations /\ Item(v).size \in Nat /\ position[v] \in Int
      BY <2>1, <2>7, DeclarationFacts DEF LayoutIInv, ByCounter
    <3>2. CASE v = c
      <4>1. position'[v] = next_slot[loc] /\ Item(v).location = loc /\ Item(v).size = size
        BY <2>0, <2>2, <3>2
      <4> QED
        BY <4>1, <1>3, <2>2, <2>5
    <3>3. CASE v # c
      <4>1. position'[v] = position[v] /\ next_slot[Item(v).location] <= next_slot'[Item(v).location]
            /\ next_slot[Item(v).location] \in Nat /\ next_slot'[Item(v).location] \in Nat
        BY <1>3, <2>1, <2>2, <3>1, <3>3
      <4>2. /\ FirstSlot(Item(v).location) <= position[v]
            /\ position[v] + Item(v).size <= next_slot[Item(v).location]
        BY <4>1, <2>5, <2>7 DEF CountersApart
      <4> QED
        BY <3>1, <4>1, <4>2
    <3> QED
      BY <3>2, <3>3
  <2>8. ASSUME NEW v, ByCounter(v), position'[v] # Unset, v # c,
               Item(v).location = loc
        PROVE  position'[v] + Item(v).size <= position'[c]
    <3>1. v \in AllItems
      BY <2>8, DeclarationFacts DEF LayoutIInv, ByCounter
    <3>2. position'[v] = position[v]
      BY <2>2, <2>8, <3>1
    <3>3. position[v] + Item(v).size <= next_slot[loc]
      BY <2>5, <2>8, <3>2 DEF CountersApart
    <3> QED
      BY <2>2, <3>2, <3>3
  <2>9. ASSUME NEW v, ByCounter(v), position'[v] # Unset,
               NEW w, ByCounter(w), position'[w] # Unset, w # v, Item(w).location = Item(v).location
        PROVE  \/ position'[v] + Item(v).size <= position'[w]
               \/ position'[w] + Item(w).size <= position'[v]
    <3>1. CASE v = c
      BY <3>1, <2>0, <2>8, <2>9
    <3>2. CASE w = c
      BY <3>2, <2>0, <2>8, <2>9
    <3>3. CASE v # c /\ w # c
      <4>1. v \in AllItems /\ w \in AllItems
        BY <2>9, DeclarationFacts DEF LayoutIInv, ByCounter
      <4>2. position'[v] = position[v] /\ position'[w] = position[w]
        BY <2>2, <3>3, <4>1
      <4> QED
        BY <2>5, <2>9, <4>2 DEF CountersApart
    <3> QED
      BY <3>1, <3>2, <3>3
  <2>10. CountersApart'
    <3>1. Unset' = Unset
      BY DEF Unset
    <3> QED
      BY <2>4, <2>6, <2>7, <2>9, <3>1 DEF CountersApart
  <2>11. FilePositionsReserved'
    <3>1. ASSUME NEW v, ByFile(v)
          PROVE  position'[v] = position[v]
      BY <3>1, <2>0, <2>2, <1>6, DeclarationFacts DEF LayoutIInv, ByFile
    <3> QED
      BY <3>1, <2>4, <1>6 DEF LayoutIInv, FilePositionsReserved, Extent
  <2>12. KeysReserved'
    BY <1>6, <2>4 DEF LayoutIInv, KeysReserved, LockName
  <2> QED
    BY <2>3, <2>10, <2>11, <2>12 DEF LayoutIInv
<1> QED
  BY <1>4, <1>5, <1>6 DEF AllocateSlot

(* reserve_slot_range takes free slots, and no slot from anything else. *)
LEMMA ReserveFacts ==
  ASSUME NEW S, NEW name, Reservable(S), Reserve(S, name),
         DOMAIN occupied \subseteq 0 .. (MaxSlot - 1), \A s \in S : s \in Int
  PROVE  /\ DOMAIN occupied' = DOMAIN occupied \cup S
         /\ DOMAIN occupied' \subseteq 0 .. (MaxSlot - 1)
         /\ \A s \in S : occupied'[s] = name
         /\ \A s \in DOMAIN occupied : s \notin S /\ occupied'[s] = occupied[s]
<1>1. /\ DOMAIN occupied' = DOMAIN occupied \cup S
      /\ \A s \in DOMAIN occupied \cup S : occupied'[s] = IF s \in S THEN name ELSE occupied[s]
  BY DEF Reserve
<1>2. \A s \in S : s >= 0 /\ s < MaxSlot /\ s \notin DOMAIN occupied
  BY DEF Reservable
<1>3. \A s \in S : s \in 0 .. (MaxSlot - 1)
  BY <1>2, MaxSlotAssumption
<1> QED
  BY <1>1, <1>2, <1>3

LEMMA ReserveLockKeeps ==
  ASSUME LayoutIInv, ReserveLock
  PROVE  LayoutIInv'
<1>1. walk # <<>> /\ stage = "override" /\ UNCHANGED inputs
  BY DEF ReserveLock, AtFunctions
<1>2. Here \in ModuleIds /\ Overridden
  BY <1>1, WalkFacts DEF LayoutIInv, WalkTyped
<1>3. CASE Reject("StorageLayoutException")
  BY <1>1, <1>3, StageStepKeeps
<1>4. CASE Advance /\ UNCHANGED <<stage, next_slot, occupied, position, key>>
  <2>1. TypeOK' /\ WalkTyped'
    BY <1>1, <1>4, StepTyped DEF LayoutIInv, TypeOK
  <2> QED
    BY <2>1, <1>1, <1>4, PlacesKept DEF LayoutIInv
<1>5. CASE /\ ~cancun
           /\ \/ LockReserved /\ UNCHANGED occupied
              \/ Reservable({override.lock}) /\ Reserve({override.lock}, LockName)
           /\ key' = [key EXCEPT ![Here] = override.lock]
           /\ Advance
           /\ UNCHANGED <<stage, next_slot, position>>
  <2>1. /\ override.lock \in Int /\ DOMAIN occupied \subseteq 0 .. (MaxSlot - 1)
        /\ key \in [ModuleIds -> Int]
        /\ \A s \in DOMAIN occupied : occupied[s] \in AllItems \cup {LockName}
    BY DEF LayoutIInv, InputsTyped, TypeOK
  <2>2. /\ DOMAIN occupied' \subseteq 0 .. (MaxSlot - 1)
        /\ \A s \in DOMAIN occupied : s \in DOMAIN occupied' /\ occupied'[s] = occupied[s]
        /\ override.lock \in DOMAIN occupied' /\ occupied'[override.lock] = LockName
        /\ \A s \in DOMAIN occupied' : occupied'[s] \in AllItems \cup {LockName}
    <3>1. CASE LockReserved /\ UNCHANGED occupied
      BY <2>1, <3>1 DEF LockReserved
    <3>2. CASE Reservable({override.lock}) /\ Reserve({override.lock}, LockName)
      <4>1. /\ DOMAIN occupied' = DOMAIN occupied \cup {override.lock}
            /\ DOMAIN occupied' \subseteq 0 .. (MaxSlot - 1)
            /\ occupied'[override.lock] = LockName
            /\ \A s \in DOMAIN occupied : occupied'[s] = occupied[s]
        <5> DEFINE S == {override.lock}
        <5>1. \A s \in S : s \in Int
          BY <2>1
        <5>2. override.lock \in S
          OBVIOUS
        <5> HIDE DEF S
        <5>3. Reservable(S) /\ Reserve(S, LockName)
          BY <3>2 DEF S
        <5>4. /\ DOMAIN occupied' = DOMAIN occupied \cup S
              /\ DOMAIN occupied' \subseteq 0 .. (MaxSlot - 1)
              /\ \A s \in S : occupied'[s] = LockName
              /\ \A s \in DOMAIN occupied : occupied'[s] = occupied[s]
          BY <2>1, <5>1, <5>3, ReserveFacts
        <5> QED
          BY <5>2, <5>4 DEF S
      <4> QED
        BY <2>1, <4>1
    <3> QED
      BY <1>5, <3>1, <3>2
  <2>3. /\ key' \in [ModuleIds -> Int]
        /\ \A m \in ModuleIds : key'[m] = key[m] \/ key'[m] = override.lock
    BY <1>2, <1>5, <2>1
  <2>4. TypeOK' /\ InputsTyped' /\ WalkTyped'
    BY <1>1, <1>5, <2>2, <2>3, StepTyped DEF LayoutIInv, TypeOK
  <2>5. /\ UNCHANGED <<program, locked, cancun, override>> /\ Overridden' = Overridden
        /\ \A l : FirstSlot(l)' = FirstSlot(l)
        /\ \A v : Item(v)' = Item(v)
        /\ \A v : ByFile(v)' = ByFile(v) /\ ByCounter(v)' = ByCounter(v)
    BY <1>1, SameInputs
  <2>6. CountersApart'
    BY <1>5, <2>5 DEF LayoutIInv, CountersApart
  <2>7. FilePositionsReserved'
    <3>1. \A v : Extent(v)' = Extent(v)
      BY <1>5, <2>5 DEF Extent
    <3> QED
      BY <1>5, <2>2, <2>5, <3>1 DEF LayoutIInv, FilePositionsReserved
  <2>8. KeysReserved'
    <3>1. LockName' = LockName /\ Unset' = Unset
      BY DEF LockName, Unset
    <3>2. ASSUME NEW m \in ModuleIds, key'[m] # Unset
          PROVE  key'[m] \in DOMAIN occupied' /\ occupied'[key'[m]] = LockName
      <4>1. CASE key'[m] = override.lock
        BY <2>2, <4>1
      <4>2. CASE key'[m] = key[m]
        <5>1. key[m] \in DOMAIN occupied /\ occupied[key[m]] = LockName
          BY <1>2, <1>5, <3>2, <4>2 DEF LayoutIInv, KeysReserved
        <5> QED
          BY <2>2, <4>2, <5>1
      <4> QED
        BY <2>3, <4>1, <4>2
    <3> QED
      BY <1>2, <1>5, <2>5, <3>1, <3>2 DEF KeysReserved
  <2> QED
    BY <2>4, <2>6, <2>7, <2>8 DEF LayoutIInv
<1> QED
  BY <1>3, <1>4, <1>5 DEF ReserveLock

LEMMA OverrideSlotKeeps ==
  ASSUME LayoutIInv, OverrideSlot
  PROVE  LayoutIInv'
<1> DEFINE c == Current
<1> DEFINE range == Slots(override.slots[c], Item(c).size)
<1>1. AtItem("override", "variable") /\ walk # <<>> /\ UNCHANGED inputs /\ stage = "override"
  BY DEF OverrideSlot, AtItem
<1>2. c \in Variables
  BY <1>1, AtVariableFacts DEF LayoutIInv
<1>3. c \in AllItems /\ Item(c).size \in Nat /\ Overridden
  BY <1>1, <1>2, DeclarationFacts DEF LayoutIInv, WalkTyped
<1>4. CASE Reject("StorageLayoutException")
  BY <1>1, <1>4, StageStepKeeps
<1>5. CASE Advance /\ UNCHANGED <<stage, next_slot, occupied, position, key>>
  <2>1. TypeOK' /\ WalkTyped'
    BY <1>1, <1>5, StepTyped DEF LayoutIInv, TypeOK
  <2> QED
    BY <2>1, <1>1, <1>5, PlacesKept DEF LayoutIInv
<1>6. CASE /\ Item(c).location = "storage"
           /\ c \in DOMAIN override.slots
           /\ Reservable(range)
           /\ Reserve(range, c)
           /\ position' = [position EXCEPT ![c] = override.slots[c]]
           /\ Advance
           /\ UNCHANGED <<stage, next_slot, key>>
  <2> HIDE DEF c
  <2>1. /\ override.slots[c] \in Int /\ DOMAIN occupied \subseteq 0 .. (MaxSlot - 1)
        /\ position \in [AllItems -> Int]
        /\ \A s \in DOMAIN occupied : occupied[s] \in AllItems \cup {LockName}
    BY <1>6 DEF LayoutIInv, InputsTyped, TypeOK
  <2>2. \A s \in range : s \in Int
    BY <2>1, <1>3 DEF Slots
  <2>3. /\ DOMAIN occupied' = DOMAIN occupied \cup range
        /\ DOMAIN occupied' \subseteq 0 .. (MaxSlot - 1)
        /\ \A s \in range : occupied'[s] = c
        /\ \A s \in DOMAIN occupied : s \notin range /\ occupied'[s] = occupied[s]
    BY <1>6, <2>1, <2>2, ReserveFacts
  <2>4. /\ position' \in [AllItems -> Int] /\ position'[c] = override.slots[c]
        /\ \A v \in AllItems : v # c => position'[v] = position[v]
    BY <1>3, <1>6, <2>1
  <2>5. \A s \in DOMAIN occupied' : occupied'[s] \in AllItems \cup {LockName}
    BY <1>3, <2>1, <2>3
  <2>6. TypeOK' /\ InputsTyped' /\ WalkTyped'
    BY <1>1, <1>6, <2>3, <2>4, <2>5, StepTyped DEF LayoutIInv, TypeOK
  <2>7. /\ UNCHANGED <<program, locked, cancun, override>> /\ Overridden' = Overridden
        /\ \A l : FirstSlot(l)' = FirstSlot(l)
        /\ \A v : Item(v)' = Item(v)
        /\ \A v : ByFile(v)' = ByFile(v) /\ ByCounter(v)' = ByCounter(v)
    BY <1>1, SameInputs
  <2>8. CountersApart'
    <3>1. ASSUME NEW v, ByCounter(v)
          PROVE  position'[v] = position[v]
      BY <3>1, <1>3, <1>6, <2>4, DeclarationFacts DEF LayoutIInv, ByCounter
    <3>2. CountersApart /\ Unset' = Unset
      BY DEF LayoutIInv, Unset
    <3>3. \A loc \in Locations : FirstSlot(loc)' <= next_slot'[loc]
      BY <1>6, <2>7, <3>2 DEF CountersApart
    <3>4. ASSUME NEW v, ByCounter(v), position'[v] # Unset
          PROVE  /\ FirstSlot(Item(v).location) <= position'[v]
                 /\ position'[v] + Item(v).size <= next_slot[Item(v).location]
                 /\ \A w : (ByCounter(w) /\ position'[w] # Unset /\ w # v /\ Item(w).location = Item(v).location)
                           => \/ position'[v] + Item(v).size <= position'[w]
                              \/ position'[w] + Item(w).size <= position'[v]
      BY <3>1, <3>2, <3>4 DEF CountersApart
    <3> QED
      BY <1>6, <2>7, <3>2, <3>3, <3>4 DEF CountersApart
  <2>9. FilePositionsReserved'
    <3>1. ASSUME NEW v, ByFile(v), position'[v] # Unset,
                 NEW s \in Slots(position'[v], Item(v).size)
          PROVE  s \in DOMAIN occupied' /\ occupied'[s] = v
      <4>1. CASE v = c
        BY <4>1, <2>3, <2>4, <3>1
      <4>2. CASE v # c
        <5>1. position'[v] = position[v]
          BY <4>2, <2>4, <3>1, DeclarationFacts DEF LayoutIInv, ByFile
        <5>2. s \in DOMAIN occupied /\ occupied[s] = v
          BY <3>1, <5>1 DEF LayoutIInv, FilePositionsReserved, Extent
        <5> QED
          BY <2>3, <5>2
      <4> QED
        BY <4>1, <4>2
    <3>2. Unset' = Unset /\ \A v : Extent(v)' = Slots(position'[v], Item(v).size)
      BY <2>7 DEF Unset, Extent, Slots
    <3> QED
      BY <2>7, <3>1, <3>2 DEF FilePositionsReserved
  <2>10. KeysReserved'
    <3>1. LockName' = LockName /\ Unset' = Unset
      BY DEF LockName, Unset
    <3>2. ASSUME NEW m \in ModuleIds, key[m] # Unset, ~cancun
          PROVE  key[m] \in DOMAIN occupied' /\ occupied'[key[m]] = LockName
      BY <1>3, <2>3, <3>2 DEF LayoutIInv, KeysReserved
    <3>3. ASSUME NEW m \in ModuleIds, key[m] # Unset, cancun
          PROVE  key[m] = LockSlot
      BY <3>3 DEF LayoutIInv, KeysReserved
    <3> QED
      BY <1>3, <1>6, <2>7, <3>1, <3>2, <3>3 DEF KeysReserved, LockSlot
  <2> QED
    BY <2>6, <2>8, <2>9, <2>10 DEF LayoutIInv
<1> QED
  BY <1>4, <1>5, <1>6 DEF OverrideSlot

LEMMA UpgradeKeeps ==
  ASSUME LayoutIInv, Upgrade
  PROVE  LayoutIInv'
<1>1. /\ UNCHANGED <<program, locked, cancun>> /\ override' = Layout
      /\ upgraded' = TRUE /\ stage' = "layout" /\ walk' = <<<<Main, 0>>>>
      /\ next_slot' = [loc \in Locations |-> FirstSlot(loc)]
      /\ occupied' = <<>>
      /\ position' = [v \in AllItems |-> Unset]
      /\ key' = [m \in ModuleIds |-> Unset]
  BY DEF Upgrade
<1>2. /\ AllItems' = AllItems /\ Variables' = Variables /\ \A v : Item(v)' = Item(v)
      /\ \A loc : FirstSlot(loc)' = FirstSlot(loc)
  BY <1>1, SameProgram DEF FirstSlot, KeyLocation
<1>3. \A loc \in Locations : FirstSlot(loc) \in Nat
  BY DEF FirstSlot, LockSlot
<1>4. /\ override'.present \in BOOLEAN
      /\ \A v \in DOMAIN override'.slots : override'.slots[v] \in Int
      /\ override'.lock \in Int
  <2>1. /\ override'.present = TRUE
        /\ override'.slots = [v \in Placed \cap At("storage") |-> position[v]]
        /\ override'.lock = IF cancun \/ LockedModules = {} THEN Unset
                            ELSE key[CHOOSE m \in LockedModules : TRUE]
    BY <1>1 DEF Layout
  <2>2. ASSUME NEW v \in Placed \cap At("storage")
        PROVE  position[v] \in Int
    <3>1. v \in AllItems
      BY DeclarationFacts DEF LayoutIInv, At
    <3> QED
      BY <3>1 DEF LayoutIInv, TypeOK
  <2>3. ASSUME LockedModules # {}
        PROVE  key[CHOOSE m \in LockedModules : TRUE] \in Int
    <3>1. (CHOOSE m \in LockedModules : TRUE) \in ModuleIds
      BY <2>3 DEF LockedModules, LayoutIInv, TypeOK
    <3> QED
      BY <3>1 DEF LayoutIInv, TypeOK
  <2>4. \A v \in DOMAIN override'.slots : override'.slots[v] \in Int
    BY <2>1, <2>2
  <2>5. override'.lock \in Int
    BY <2>1, <2>3 DEF Unset
  <2> QED
    BY <2>1, <2>4, <2>5
<1>5. InputsTyped'
  BY <1>1, <1>4 DEF LayoutIInv, InputsTyped
<1>6. <<<<Main, 0>>>> \in Seq(ModuleIds \X Nat)
  BY ModulesAssumption
<1>7. WalkTyped'
  BY <1>1, <1>6 DEF WalkTyped
<1>8. TypeOK'
  <2>1. walk'[1] = <<Main, 0>> /\ Len(walk') = 1
    BY <1>1
  <2>2. \A k \in 1 .. Len(walk') : walk'[k][1] \in ModuleIds /\ walk'[k][2] \in Nat
    BY <2>1, ModulesAssumption
  <2>3. DOMAIN occupied' = {}
    BY <1>1
  <2>4. /\ next_slot' \in [Locations -> Nat] /\ position' \in [AllItems -> Int]
        /\ key' \in [ModuleIds -> Int]
    BY <1>1, <1>3 DEF Unset
  <2> QED
    BY <1>1, <1>2, <2>2, <2>3, <2>4 DEF LayoutIInv, TypeOK
<1>9. CountersApart'
  <2>1. \A v : ByCounter(v)' => position'[v] = Unset
    BY <1>1, <1>2 DEF ByCounter, Variables
  <2>2. \A loc \in Locations : FirstSlot(loc)' <= next_slot'[loc]
    BY <1>1, <1>2, <1>3
  <2> QED
    BY <2>1, <2>2 DEF CountersApart, Unset
<1>10. FilePositionsReserved'
  <2>1. \A v : ByFile(v)' => position'[v] = Unset
    BY <1>1, <1>2 DEF ByFile, Variables
  <2> QED
    BY <2>1 DEF FilePositionsReserved, Unset
<1>11. KeysReserved'
  BY <1>1 DEF KeysReserved, Unset
<1> QED
  BY <1>5, <1>7, <1>8, <1>9, <1>10, <1>11 DEF LayoutIInv

LEMMA InitLayoutIInv ==
  ASSUME Init
  PROVE  LayoutIInv
<1>1. /\ program \in Programs /\ locked \in SUBSET ModuleIds /\ cancun \in BOOLEAN
      /\ override \in OverrideFiles \cup {NoOverride}
      /\ upgraded = FALSE /\ stage = "layout" /\ walk = <<<<Main, 0>>>>
      /\ next_slot = [loc \in Locations |-> FirstSlot(loc)]
      /\ occupied = <<>>
      /\ position = [v \in AllItems |-> Unset]
      /\ key = [m \in ModuleIds |-> Unset]
  BY DEF Init
<1>2. \A loc \in Locations : FirstSlot(loc) \in Nat
  BY DEF FirstSlot, LockSlot
<1>3. InputsTyped
  <2>1. program \in [ModuleIds -> Seq(Declarations)]
    BY <1>1, ProgramsAssumption
  <2>2. CASE override = NoOverride
    BY <1>1, <2>1, <2>2 DEF InputsTyped, NoOverride, Unset
  <2>3. CASE override \in OverrideFiles
    <3>1. PICK f \in UNION {[V -> OverrideSlots] : V \in SUBSET At("storage")}, k \in OverrideSlots \cup {Unset} :
            override = [present |-> TRUE, slots |-> f, lock |-> k]
      BY <2>3 DEF OverrideFiles
    <3>2. override.present = TRUE /\ override.slots = f /\ override.lock = k
      BY <3>1
    <3>3. \A v \in DOMAIN f : f[v] \in OverrideSlots
      OBVIOUS
    <3>4. \A v \in DOMAIN override.slots : override.slots[v] \in Int
      BY <3>2, <3>3, OverrideAssumption
    <3>5. override.lock \in Int
      <4>1. k \in Int
        BY OverrideAssumption DEF Unset
      <4> QED
        BY <3>2, <4>1
    <3>6. override.present \in BOOLEAN
      BY <3>2
    <3> QED
      BY <1>1, <2>1, <3>4, <3>5, <3>6 DEF InputsTyped
  <2> QED
    BY <1>1, <2>2, <2>3
<1>4. WalkTyped
  <2>1. <<<<Main, 0>>>> \in Seq(ModuleIds \X Nat)
    BY ModulesAssumption
  <2> QED
    BY <1>1, <2>1 DEF WalkTyped
<1>5. TypeOK
  <2>1. walk[1] = <<Main, 0>> /\ Len(walk) = 1 /\ DOMAIN occupied = {}
    BY <1>1
  <2>2. \A k \in 1 .. Len(walk) : walk[k][1] \in ModuleIds /\ walk[k][2] \in Nat
    BY <2>1, ModulesAssumption
  <2>3. /\ next_slot \in [Locations -> Nat] /\ position \in [AllItems -> Int]
        /\ key \in [ModuleIds -> Int]
    BY <1>1, <1>2 DEF Unset
  <2> QED
    BY <1>1, <2>1, <2>2, <2>3 DEF TypeOK
<1>6. \A v \in Variables : position[v] = Unset
  BY <1>1 DEF Variables
<1> QED
  BY <1>1, <1>2, <1>3, <1>4, <1>5, <1>6
     DEF LayoutIInv, CountersApart, FilePositionsReserved, KeysReserved, ByFile, ByCounter

LEMMA LayoutInvariant == Spec => []LayoutIInv
<1>1. ASSUME LayoutIInv, [Next]_vars
      PROVE  LayoutIInv'
  <2>1. CASE WalkModules
    BY <1>1, <2>1, WalkModulesKeeps
  <2>2. CASE TagFunctions
    BY <1>1, <2>2, TagFunctionsKeeps
  <2>3. CASE AllocateSlot
    BY <1>1, <2>3, AllocateSlotKeeps
  <2>4. CASE LayoutDone \/ OverrideDone \/ Export \/ Ended
    BY <1>1, <2>4, StageStepKeeps
  <2>5. CASE ReserveLock
    BY <1>1, <2>5, ReserveLockKeeps
  <2>6. CASE OverrideSlot
    BY <1>1, <2>6, OverrideSlotKeeps
  <2>7. CASE Upgrade
    BY <1>1, <2>7, UpgradeKeeps
  <2>8. CASE UNCHANGED vars
    <3>1. /\ UNCHANGED <<inputs, next_slot, occupied, position, key>> /\ UNCHANGED walk /\ UNCHANGED stage
      BY <2>8 DEF vars, inputs
    <3>2. /\ walk \in Seq(ModuleIds \X Nat) /\ (stage = "override" => Overridden)
          /\ stage \in {"layout", "override", "export", "done"} \cup Errors
      BY <1>1 DEF LayoutIInv, WalkTyped, TypeOK
    <3> QED
      BY <1>1, <3>1, <3>2, StagesTyped
  <2> QED
    BY <1>1, <2>1, <2>2, <2>3, <2>4, <2>5, <2>6, <2>7, <2>8 DEF Next, Work
<1>2. LayoutIInv /\ [Next]_vars => LayoutIInv'
  BY <1>1
<1>3. Init => LayoutIInv
  BY InitLayoutIInv
<1> QED
  BY <1>2, <1>3, PTL DEF Spec

-----------------------------------------------------------------------------
(* What the first invariant shows.                                           *)

(* The variables of the allocation keep their types, and occupied_slots      *)
(* never mentions a slot outside storage.                                    *)
THEOREM LayoutTypeCorrect == Spec => []TypeOK
<1>1. LayoutIInv => TypeOK
  BY DEF LayoutIInv
<1> QED
  BY <1>1, LayoutInvariant, PTL

(* Whoever chooses the slots, the compiler or an override file, no two       *)
(* variables that have been given a position share a slot, and none of them  *)
(* lies on the slot of a reentrancy lock that some function takes.           *)
THEOREM PlacesNeverOverlap == Spec => []NoOverlap
<1>1. ASSUME LayoutIInv
      PROVE  NoOverlap
  <2>1. ASSUME NEW v \in Variables, NEW w \in Variables,
               position[v] # Unset, position[w] # Unset, v # w, Item(v).location = Item(w).location
        PROVE  Extent(v) \cap Extent(w) = {}
    <3>1. /\ position[v] \in Int /\ position[w] \in Int
          /\ Item(v).size \in Nat /\ Item(w).size \in Nat
      BY <1>1, DeclarationFacts DEF LayoutIInv, TypeOK
    <3>2. CASE ByFile(v)
      <4>1. ByFile(w)
        BY <2>1, <3>2 DEF ByFile
      <4> QED
        BY <1>1, <2>1, <3>2, <4>1 DEF LayoutIInv, FilePositionsReserved
    <3>3. CASE ByCounter(v)
      <4>1. ByCounter(w)
        BY <2>1, <3>3 DEF ByCounter
      <4>2. \/ position[v] + Item(v).size <= position[w]
            \/ position[w] + Item(w).size <= position[v]
        BY <1>1, <2>1, <3>3, <4>1 DEF LayoutIInv, CountersApart
      <4> QED
        BY <3>1, <4>2 DEF Extent, Slots
    <3> QED
      BY <3>2, <3>3 DEF ByFile, ByCounter
  <2>2. ASSUME NEW v \in At(KeyLocation), NEW m \in ModuleIds, position[v] # Unset, key[m] # Unset
        PROVE  key[m] \notin Extent(v)
    <3>1. v \in Variables /\ Item(v).location = KeyLocation
      BY DEF At
    <3>2. position[v] \in Int /\ Item(v).size \in Nat /\ v # LockName
      BY <1>1, <3>1, DeclarationFacts, LockIsNoVariable DEF LayoutIInv, TypeOK
    <3>3. CASE Overridden /\ ~cancun
      <4>1. ByFile(v)
        BY <3>1, <3>3 DEF ByFile, KeyLocation
      <4>2. key[m] \in DOMAIN occupied /\ occupied[key[m]] = LockName
        BY <1>1, <2>2, <3>3 DEF LayoutIInv, KeysReserved
      <4> QED
        BY <1>1, <2>2, <3>2, <4>1, <4>2 DEF LayoutIInv, FilePositionsReserved
    <3>4. CASE ~(Overridden /\ ~cancun)
      <4>1. ByCounter(v)
        BY <3>1, <3>4 DEF ByCounter, KeyLocation
      <4>2. key[m] = LockSlot
        BY <1>1, <2>2, <3>4 DEF LayoutIInv, KeysReserved
      <4>3. FirstSlot(KeyLocation) <= position[v]
        BY <1>1, <2>2, <3>1, <4>1 DEF LayoutIInv, CountersApart
      <4> QED
        BY <3>2, <4>2, <4>3 DEF FirstSlot, LockSlot, Extent, Slots
    <3> QED
      BY <3>3, <3>4
  <2> QED
    BY <2>1, <2>2 DEF NoOverlap
<1>2. LayoutIInv => NoOverlap
  BY <1>1
<1> QED
  BY <1>2, LayoutInvariant, PTL

-----------------------------------------------------------------------------
(* The walk: the modules it has entered, and the places it has seen.         *)

Initializers(m) == {v \in Items(m) : Item(v).kind = "initializes"}

LEMMA InitializerModule ==
  ASSUME InputsTyped
  PROVE  \A m \in ModuleIds : \A v \in Initializers(m) : Item(v).module \in ModuleIds
<1>1. ASSUME NEW m \in ModuleIds, NEW v \in Initializers(m)
      PROVE  Item(v).module \in ModuleIds
  <2>1. PICK k \in 1 .. Len(program[m]) : v = <<m, k>> /\ Item(v).kind = "initializes"
    BY DEF Initializers, Items
  <2>2. program[m] \in Seq(Declarations)
    BY DEF InputsTyped
  <2>3. program[m][k] \in Declarations /\ Item(v) = program[m][k]
    BY <2>1, <2>2, ElementOfSeq DEF Item
  <2> QED
    BY <2>1, <2>3 DEF Declarations
<1> QED
  BY <1>1

(* The modules that cannot be avoided from m downwards.                      *)
Closed(S) == \A n \in S : \A v \in Initializers(n) : Item(v).module \in S
Under(m) == {x \in ModuleIds : \A S \in SUBSET ModuleIds : m \in S /\ Closed(S) => x \in S}

LEMMA UnderFacts ==
  ASSUME InputsTyped, NEW m \in ModuleIds
  PROVE  /\ m \in Under(m) /\ Under(m) \subseteq ModuleIds /\ Closed(Under(m))
         /\ Under(m) = {m} \cup UNION {Under(Item(v).module) : v \in Initializers(m)}
<1>0. \A n \in ModuleIds : \A v \in Initializers(n) : Item(v).module \in ModuleIds
  BY InitializerModule
<1>1. \A n \in ModuleIds : n \in Under(n) /\ Under(n) \subseteq ModuleIds
  BY DEF Under
<1>2. ASSUME NEW n \in ModuleIds, NEW x \in Under(n), NEW v \in Initializers(x)
      PROVE  Item(v).module \in Under(n)
  <2>1. x \in ModuleIds /\ Item(v).module \in ModuleIds
    BY <1>0, <1>1
  <2>2. ASSUME NEW S \in SUBSET ModuleIds, n \in S, Closed(S)
        PROVE  Item(v).module \in S
    <3>1. x \in S
      BY <2>2 DEF Under
    <3> QED
      BY <2>2, <3>1 DEF Closed
  <2> QED
    BY <2>1, <2>2 DEF Under
<1>3. \A n \in ModuleIds : Closed(Under(n))
  BY <1>2 DEF Closed
<1>4. ASSUME NEW v \in Initializers(m)
      PROVE  Under(Item(v).module) \subseteq Under(m)
  <2>1. Item(v).module \in Under(m)
    BY <1>1, <1>2
  <2>2. Under(m) \in SUBSET ModuleIds /\ Closed(Under(m))
    BY <1>1, <1>3
  <2> QED
    BY <2>1, <2>2 DEF Under
<1> DEFINE S0 == {m} \cup UNION {Under(Item(v).module) : v \in Initializers(m)}
<1>5. S0 \in SUBSET ModuleIds /\ m \in S0
  BY <1>0, <1>1
<1>6. ASSUME NEW n \in S0, NEW v \in Initializers(n)
      PROVE  Item(v).module \in S0
  <2>1. CASE n = m
    BY <2>1, <1>0, <1>1
  <2>2. CASE n # m
    <3>1. PICK u \in Initializers(m) : n \in Under(Item(u).module)
      BY <2>2
    <3>2. Item(v).module \in Under(Item(u).module)
      BY <3>1, <1>0, <1>2
    <3> QED
      BY <3>2
  <2> QED
    BY <2>1, <2>2
<1>7. Closed(S0)
  BY <1>6 DEF Closed
<1> HIDE DEF S0
<1>8. Under(m) \subseteq S0
  BY <1>5, <1>7 DEF Under
<1>9. S0 \subseteq Under(m)
  BY <1>1, <1>4 DEF S0
<1>10. Under(m) = S0
  BY <1>8, <1>9
<1> QED
  BY <1>1, <1>3, <1>10 DEF S0

(* The recursive definition of InTree has a solution, and is one.            *)
LEMMA InTreeFacts ==
  ASSUME InputsTyped
  PROVE  /\ InTree = [m \in ModuleIds |-> {m} \cup UNION {InTree[Item(v).module] : v \in Initializers(m)}]
         /\ \A m \in ModuleIds : \A v \in Initializers(m) : Item(v).module \in ModuleIds
<1> DEFINE R == [m \in ModuleIds |-> Under(m)]
           Solves(f) == f = [m \in ModuleIds |-> {m} \cup UNION {f[Item(v).module] : v \in Initializers(m)}]
<1>1. \A m \in ModuleIds : \A v \in Initializers(m) : Item(v).module \in ModuleIds
  BY InitializerModule
<1>2. ASSUME NEW m \in ModuleIds
      PROVE  R[m] = {m} \cup UNION {R[Item(v).module] : v \in Initializers(m)}
  <2>1. \A v \in Initializers(m) : R[Item(v).module] = Under(Item(v).module)
    BY <1>1
  <2>2. R[m] = {m} \cup UNION {Under(Item(v).module) : v \in Initializers(m)}
    BY UnderFacts
  <2>3. {R[Item(v).module] : v \in Initializers(m)} = {Under(Item(v).module) : v \in Initializers(m)}
    BY <2>1
  <2> QED
    BY <2>2, <2>3
<1>3. Solves(R)
  <2>1. R = [m \in ModuleIds |-> R[m]]
    OBVIOUS
  <2> HIDE DEF R
  <2> QED
    BY <1>2, <2>1
<1>4. InTree = CHOOSE f : Solves(f)
  BY DEF InTree, Initializers
<1> HIDE DEF Solves
<1>5. Solves(InTree)
  BY <1>3, <1>4
<1> QED
  BY <1>1, <1>5 DEF Solves

(* w is a walk that has entered the modules in E.  A place in the body of a  *)
(* module has been seen when the walk is beyond it.  Each module of the stack*)
(* stands where the one below has just seen it initialized; a module has been*)
(* entered exactly if a place that initializes it has been seen; and one that*)
(* is no longer on the stack has been seen with all its tree.                *)
Seen(w, E, m, j) == m \in E /\ \A k \in 1 .. Len(w) : w[k][1] = m => j < w[k][2]

Sound(w, E) ==
  /\ E \in SUBSET ModuleIds /\ Main \in E
  /\ \A k \in 1 .. Len(w) : w[k][1] \in E
  /\ \A k, l \in 1 .. Len(w) : k # l => w[k][1] # w[l][1]
  /\ Len(w) > 0 => w[1][1] = Main
  /\ \A k \in 2 .. Len(w) : <<w[k - 1][1], w[k - 1][2] - 1>> \in InitializedAt(program, w[k][1])
  /\ \A m \in E : m = Main \/ \E p \in InitializedAt(program, m) : Seen(w, E, p[1], p[2])
  /\ \A m \in ModuleIds : \A p \in InitializedAt(program, m) : Seen(w, E, p[1], p[2]) => m \in E
  /\ \A m \in E : (\A k \in 1 .. Len(w) : w[k][1] # m) => InTree[m] \subseteq E
  /\ \A m \in E : InTree[m] \subseteq Tree

LastPlace(w, m, j) == w \in Seq(ModuleIds \X Nat) /\ w # <<>> /\ w[Len(w)] = <<m, j>>
NoInitializer(m, j) == \A c \in ModuleIds : <<m, j>> \notin InitializedAt(program, c)

(* The three moves of a walk. *)
Advanced(w, m, j) == [w EXCEPT ![Len(w)] = <<m, j + 1>>]
Entered(w, m, j, c) == Advanced(w, m, j) \o <<<<c, 0>>>>
Left(w) == SubSeq(w, 1, Len(w) - 1)

LEMMA InitializedFacts ==
  ASSUME InputsTyped, NEW m \in ModuleIds, NEW p \in InitializedAt(program, m)
  PROVE  /\ p = <<p[1], p[2]>> /\ p[1] \in ModuleIds /\ p[2] \in Nat
         /\ p[2] \in 1 .. Len(program[p[1]])
         /\ p \in Initializers(p[1]) /\ Item(p).module = m
         /\ m # Main
         /\ \A q \in InitializedAt(program, m) : q = p
<1> DEFINE Places(k) == {x \in 1 .. Len(program[k]) : program[k][x].kind = "initializes" /\ program[k][x].module = m}
<1>0. PICK k \in ModuleIds : \E j \in Places(k) : p = <<k, j>>
  BY DEF InitializedAt
<1>1. PICK j \in Places(k) : p = <<k, j>>
  BY <1>0
<1>2. program[k] \in Seq(Declarations) /\ program \in Programs
  BY DEF InputsTyped
<1>3. j \in 1 .. Len(program[k]) /\ Len(program[k]) \in Nat
  BY <1>2, LenProperties
<1>4. p \in Initializers(k) /\ Item(p).module = m
  BY <1>1 DEF Initializers, Items, Item
<1> QED
  BY <1>1, <1>2, <1>3, <1>4, TreesAssumption

LEMMA InitializerPlace ==
  ASSUME NEW m \in ModuleIds, NEW v \in Initializers(m)
  PROVE  v \in InitializedAt(program, Item(v).module)
BY DEF Initializers, Items, Item, InitializedAt

LEMMA StartSound ==
  ASSUME InputsTyped
  PROVE  /\ Sound(<<<<Main, 0>>>>, {Main})
         /\ \A m \in ModuleIds : \A j \in Nat : ~Seen(<<<<Main, 0>>>>, {Main}, m, j)
<1> DEFINE w == <<<<Main, 0>>>>
<1>1. Len(w) = 1 /\ w[1][1] = Main /\ w[1][2] = 0 /\ Main \in ModuleIds
  BY ModulesAssumption
<1> HIDE DEF w
<1>2. \A m \in ModuleIds : \A j \in Nat : ~Seen(w, {Main}, m, j)
  BY <1>1 DEF Seen
<1>3. \A m \in ModuleIds : \A p \in InitializedAt(program, m) : ~Seen(w, {Main}, p[1], p[2])
  BY <1>2, InitializedFacts
<1>4. Sound(w, {Main})
  BY <1>1, <1>3 DEF Sound, Tree
<1> QED
  BY <1>2, <1>4 DEF w

(* The walk moves on from a place that initializes nothing.                  *)
LEMMA AdvanceSound ==
  ASSUME InputsTyped, NEW w, NEW E, Sound(w, E), NEW m, NEW j, LastPlace(w, m, j), NoInitializer(m, j)
  PROVE  /\ Sound(Advanced(w, m, j), E)
         /\ \A c \in ModuleIds : \A x \in Nat :
              Seen(Advanced(w, m, j), E, c, x) <=> Seen(w, E, c, x) \/ <<c, x>> = <<m, j>>
         /\ ~Seen(w, E, m, j)
         /\ m \in E
<1> DEFINE n == Len(w)
<1>a. w \in Seq(ModuleIds \X Nat) /\ w # <<>> /\ w[Len(w)] = <<m, j>>
  BY DEF LastPlace
<1>b. \A c \in ModuleIds : <<m, j>> \notin InitializedAt(program, c)
  BY DEF NoInitializer
<1>0. PICK w2 : w2 = Advanced(w, m, j)
  OBVIOUS
<1>1. /\ n \in Nat \ {0} /\ w[n] = <<m, j>> /\ m \in ModuleIds /\ j \in Nat
      /\ \A k \in 1 .. n : w[k][1] \in ModuleIds /\ w[k][2] \in Nat
  <2>1. n \in Nat \ {0} /\ \A k \in 1 .. n : w[k] \in ModuleIds \X Nat
    BY <1>a, EmptySeq, LenProperties, ElementOfSeq
  <2>2. n \in 1 .. n
    BY <2>1
  <2> QED
    BY <1>a, <2>1, <2>2
<1>2. /\ Len(w2) = n
      /\ w2[n] = <<m, j + 1>>
      /\ \A k \in 1 .. n : k # n => w2[k] = w[k]
  BY <1>0, <1>1 DEF Advanced
<1> HIDE DEF n
<1>3. /\ \A k \in 1 .. n : w2[k][1] = w[k][1]
      /\ \A k \in 1 .. n : k # n => w2[k][2] = w[k][2]
      /\ w2[n][1] = m /\ w2[n][2] = j + 1 /\ w[n][1] = m /\ w[n][2] = j
  BY <1>1, <1>2
<1>4. /\ \A k \in 1 .. n : w[k][1] \in E
      /\ \A k, l \in 1 .. n : k # l => w[k][1] # w[l][1]
      /\ E \in SUBSET ModuleIds
  BY DEF Sound, n
<1>5. m \in E /\ \A k \in 1 .. n : w[k][1] = m => k = n
  BY <1>1, <1>3, <1>4
<1>6. ASSUME NEW c \in ModuleIds, NEW x \in Nat
      PROVE  Seen(w2, E, c, x) <=> Seen(w, E, c, x) \/ <<c, x>> = <<m, j>>
  <2>1. CASE c = m
    <3>1. Seen(w2, E, c, x) <=> x < j + 1
      BY <2>1, <1>1, <1>2, <1>3, <1>5 DEF Seen
    <3>2. Seen(w, E, c, x) <=> x < j
      BY <2>1, <1>1, <1>3, <1>5 DEF Seen, n
    <3> QED
      BY <2>1, <3>1, <3>2, <1>1
  <2>2. CASE c # m
    <3>1. \A k \in 1 .. n : w[k][1] = c => k # n
      BY <2>2, <1>3
    <3> QED
      BY <2>2, <3>1, <1>2, <1>3 DEF Seen, n
  <2> QED
    BY <2>1, <2>2
<1>7. ~Seen(w, E, m, j)
  BY <1>1, <1>3, <1>5 DEF Seen, n
<1>8. Sound(w2, E)
  <2>1. E \in SUBSET ModuleIds /\ Main \in E
    BY DEF Sound
  <2>2. /\ \A k \in 1 .. n : w2[k][1] \in E
        /\ \A k, l \in 1 .. n : k # l => w2[k][1] # w2[l][1]
    BY <1>3, <1>4
  <2>3. n > 0 => w2[1][1] = Main
    BY <1>1, <1>3 DEF Sound, n
  <2>4. ASSUME NEW k \in 2 .. n
        PROVE  <<w2[k - 1][1], w2[k - 1][2] - 1>> \in InitializedAt(program, w2[k][1])
    <3>1. k \in 1 .. n /\ k - 1 \in 1 .. n /\ k - 1 # n
      BY <1>1
    <3>2. <<w[k - 1][1], w[k - 1][2] - 1>> \in InitializedAt(program, w[k][1])
      BY DEF Sound, n
    <3> QED
      BY <3>1, <3>2, <1>3
  <2>5. ASSUME NEW c \in E, c # Main
        PROVE  \E p \in InitializedAt(program, c) : Seen(w2, E, p[1], p[2])
    <3>1. PICK p \in InitializedAt(program, c) : Seen(w, E, p[1], p[2])
      BY <2>5 DEF Sound
    <3>2. p[1] \in ModuleIds /\ p[2] \in Nat
      BY <2>1, <3>1, InitializedFacts
    <3> QED
      BY <3>1, <3>2, <1>6
  <2>6. ASSUME NEW c \in ModuleIds, NEW p \in InitializedAt(program, c), Seen(w2, E, p[1], p[2])
        PROVE  c \in E
    <3>1. p[1] \in ModuleIds /\ p[2] \in Nat /\ p = <<p[1], p[2]>>
      BY InitializedFacts
    <3>2. Seen(w, E, p[1], p[2])
      <4>1. Seen(w, E, p[1], p[2]) \/ p = <<m, j>>
        BY <3>1, <2>6, <1>6
      <4>2. p # <<m, j>>
        BY <1>b, <2>6
      <4> QED
        BY <4>1, <4>2
    <3> QED
      BY <3>2 DEF Sound
  <2>7. \A c \in E : (\A k \in 1 .. n : w2[k][1] # c) => InTree[c] \subseteq E
    BY <1>3 DEF Sound, n
  <2>8. \A c \in E : InTree[c] \subseteq Tree
    BY DEF Sound
  <2> QED
    BY <1>2, <2>1, <2>2, <2>3, <2>4, <2>5, <2>6, <2>7, <2>8 DEF Sound
<1> QED
  BY <1>0, <1>5, <1>6, <1>7, <1>8

LEMMA OneMore ==
  ASSUME NEW S, NEW v \in Seq(S), NEW u \in Seq(S), Len(u) = 1
  PROVE  /\ Len(v \o u) = Len(v) + 1
         /\ \A k \in 1 .. Len(v) : (v \o u)[k] = v[k]
         /\ (v \o u)[Len(v) + 1] = u[1]
<1>1. Len(v) \in Nat
  BY LenProperties
<1>2. /\ Len(v \o u) = Len(v) + Len(u)
      /\ \A p \in 1 .. Len(v) + Len(u) : (v \o u)[p] = IF p <= Len(v) THEN v[p] ELSE u[p - Len(v)]
  BY ConcatProperties
<1>3. /\ \A k \in 1 .. Len(v) : k \in 1 .. Len(v) + 1 /\ k <= Len(v)
      /\ Len(v) + 1 \in 1 .. Len(v) + 1 /\ ~(Len(v) + 1 <= Len(v)) /\ Len(v) + 1 - Len(v) = 1
  BY <1>1
<1> QED
  BY <1>2, <1>3

(* The walk enters the module that its place initializes.                    *)
LEMMA EnterSound ==
  ASSUME InputsTyped, NEW w, NEW E, Sound(w, E), NEW m, NEW j, LastPlace(w, m, j),
         NEW c \in ModuleIds, <<m, j>> \in InitializedAt(program, c)
  PROVE  /\ Sound(Entered(w, m, j, c), E \cup {c})
         /\ \A d \in ModuleIds : \A x \in Nat :
              Seen(Entered(w, m, j, c), E \cup {c}, d, x) <=> Seen(w, E, d, x) \/ <<d, x>> = <<m, j>>
<1> DEFINE n == Len(w)
           F == E \cup {c}
<1>a. w \in Seq(ModuleIds \X Nat) /\ w # <<>> /\ w[Len(w)] = <<m, j>>
  BY DEF LastPlace
<1>0. PICK w2 : w2 = Entered(w, m, j, c)
  OBVIOUS
<1>1. /\ n \in Nat \ {0} /\ w[n] = <<m, j>> /\ m \in ModuleIds /\ j \in Nat
      /\ \A k \in 1 .. n : w[k][1] \in ModuleIds /\ w[k][2] \in Nat
  <2>1. n \in Nat \ {0} /\ \A k \in 1 .. n : w[k] \in ModuleIds \X Nat
    BY <1>a, EmptySeq, LenProperties, ElementOfSeq
  <2>2. n \in 1 .. n
    BY <2>1
  <2> QED
    BY <1>a, <2>1, <2>2
<1>2. /\ Len(w2) = n + 1
      /\ w2[n] = <<m, j + 1>>
      /\ w2[n + 1] = <<c, 0>>
      /\ \A k \in 1 .. n : k # n => w2[k] = w[k]
  <2> DEFINE v == [w EXCEPT ![n] = <<m, j + 1>>]
  <2>1. <<m, j + 1>> \in ModuleIds \X Nat /\ n \in 1 .. n
    BY <1>1
  <2>2. v \in Seq(ModuleIds \X Nat) /\ Len(v) = n /\ v[n] = <<m, j + 1>>
        /\ \A k \in 1 .. n : k # n => v[k] = w[k]
    BY <1>a, <1>1, <2>1
  <2>3. <<<<c, 0>>>> \in Seq(ModuleIds \X Nat) /\ Len(<<<<c, 0>>>>) = 1 /\ <<<<c, 0>>>>[1] = <<c, 0>>
    OBVIOUS
  <2> HIDE DEF v
  <2> DEFINE u == <<<<c, 0>>>>
  <2>4. w2 = v \o u
    BY <1>0 DEF v, n, Entered, Advanced
  <2> HIDE DEF u
  <2>5. u \in Seq(ModuleIds \X Nat) /\ Len(u) = 1 /\ u[1] = <<c, 0>>
    BY <2>3 DEF u
  <2>6. Len(v \o u) = n + 1 /\ (\A k \in 1 .. n : (v \o u)[k] = v[k]) /\ (v \o u)[n + 1] = u[1]
    <3>1. /\ Len(v \o u) = Len(v) + 1
          /\ \A k \in 1 .. Len(v) : (v \o u)[k] = v[k]
          /\ (v \o u)[Len(v) + 1] = u[1]
      <4>1. v \in Seq(ModuleIds \X Nat)
        BY <2>2
      <4> QED
        BY <4>1, <2>5, OneMore
    <3>2. Len(v) = n
      BY <2>2
    <3> QED
      BY <3>1, <3>2
  <2> QED
    BY <2>1, <2>2, <2>4, <2>5, <2>6
<1> HIDE DEF n
<1>3. /\ \A k \in 1 .. n : w2[k][1] = w[k][1]
      /\ \A k \in 1 .. n : k # n => w2[k][2] = w[k][2]
      /\ w2[n][1] = m /\ w2[n][2] = j + 1 /\ w[n][1] = m /\ w[n][2] = j
      /\ w2[n + 1][1] = c /\ w2[n + 1][2] = 0
      /\ n \in 1 .. n
      /\ \A k \in 1 .. n + 1 : k \in 1 .. n \/ k = n + 1
  <2>1. n \in 1 .. n /\ \A k \in 1 .. n + 1 : k \in 1 .. n \/ k = n + 1
    BY <1>1
  <2>2. w2[n][1] = m /\ w2[n][2] = j + 1 /\ w[n][1] = m /\ w[n][2] = j
    BY <1>1, <1>2
  <2>3. w2[n + 1][1] = c /\ w2[n + 1][2] = 0
    BY <1>2
  <2>4. \A k \in 1 .. n : k # n => w2[k][1] = w[k][1] /\ w2[k][2] = w[k][2]
    BY <1>2
  <2>5. \A k \in 1 .. n : w2[k][1] = w[k][1]
    BY <2>2, <2>4
  <2> QED
    BY <2>1, <2>2, <2>3, <2>4, <2>5
<1>4. /\ \A k \in 1 .. n : w[k][1] \in E
      /\ \A k, l \in 1 .. n : k # l => w[k][1] # w[l][1]
      /\ E \in SUBSET ModuleIds
  BY DEF Sound, n
<1>5. m \in E /\ \A k \in 1 .. n : w[k][1] = m => k = n
  BY <1>1, <1>3, <1>4
<1>6. /\ c # Main
      /\ \A d \in ModuleIds : <<m, j>> \in InitializedAt(program, d) => d = c
      /\ \A q \in InitializedAt(program, c) : q = <<m, j>>
      /\ <<m, j>> \in Initializers(m) /\ Item(<<m, j>>).module = c
  BY InitializedFacts
<1>7. c \notin E
  <2>1. SUFFICES ASSUME c \in E
                 PROVE  FALSE
    OBVIOUS
  <2>2. PICK p \in InitializedAt(program, c) : Seen(w, E, p[1], p[2])
    BY <2>1, <1>6 DEF Sound
  <2>3. Seen(w, E, m, j)
    BY <2>2, <1>6
  <2> QED
    <3>1. n \in 1 .. Len(w) /\ w[n][1] = m /\ w[n][2] = j /\ ~(j < j)
      BY <1>1, <1>3 DEF n
    <3> QED
      BY <2>3, <3>1 DEF Seen
<1>8. c # m /\ \A k \in 1 .. n : w[k][1] # c
  BY <1>4, <1>5, <1>7
<1>9. ASSUME NEW d \in ModuleIds, NEW x \in Nat
      PROVE  Seen(w2, F, d, x) <=> Seen(w, E, d, x) \/ <<d, x>> = <<m, j>>
  <2>1. CASE d = c
    <3>1. ~Seen(w2, F, d, x)
      <4>1. n + 1 \in 1 .. Len(w2) /\ w2[n + 1][1] = d /\ ~(x < w2[n + 1][2])
        BY <2>1, <1>1, <1>2, <1>3
      <4> QED
        BY <4>1 DEF Seen
    <3>2. ~Seen(w, E, d, x)
      BY <2>1, <1>7 DEF Seen
    <3> QED
      BY <2>1, <3>1, <3>2, <1>8
  <2>2. CASE d = m
    <3>1. Seen(w2, F, d, x) <=> x < j + 1
      <4>1. \A k \in 1 .. n + 1 : w2[k][1] = m => k = n
        BY <1>3, <1>5, <1>8
      <4>2. n \in 1 .. n + 1 /\ w2[n][1] = m /\ w2[n][2] = j + 1
        BY <1>1, <1>3
      <4>3. d \in F /\ Len(w2) = n + 1
        BY <2>2, <1>2, <1>5
      <4> HIDE DEF F
      <4> QED
        BY <2>2, <4>1, <4>2, <4>3 DEF Seen
    <3>2. Seen(w, E, d, x) <=> x < j
      BY <2>2, <1>1, <1>3, <1>5 DEF Seen, n
    <3>3. x < j + 1 <=> x < j \/ x = j
      BY <1>1
    <3>4. <<d, x>> = <<m, j>> <=> x = j
      BY <2>2
    <3> QED
      BY <3>1, <3>2, <3>3, <3>4
  <2>3. CASE d # c /\ d # m
    <3>1. \A k \in 1 .. n : w[k][1] = d => k # n
      BY <2>3, <1>3
    <3>2. \A k \in 1 .. n + 1 : w2[k][1] = d => k \in 1 .. n /\ k # n
      BY <2>3, <3>1, <1>3
    <3>3. \A k \in 1 .. n : k \in 1 .. n + 1
      BY <1>1
    <3>4. d \in F <=> d \in E
      BY <2>3
    <3>5. Len(w2) = n + 1 /\ Len(w) = n
      BY <1>2 DEF n
    <3>6. \A k \in 1 .. n : k # n => w2[k][1] = w[k][1] /\ w2[k][2] = w[k][2]
      BY <1>3
    <3>7. Seen(w2, F, d, x) <=> Seen(w, E, d, x)
      <4> HIDE DEF F
      <4> QED
        BY <3>1, <3>2, <3>3, <3>4, <3>5, <3>6 DEF Seen
    <3> QED
      BY <2>3, <3>7
  <2> QED
    BY <2>1, <2>2, <2>3
<1>10. Sound(w2, F)
  <2>1. F \in SUBSET ModuleIds /\ Main \in F
    BY DEF Sound
  <2>2. /\ \A k \in 1 .. n + 1 : w2[k][1] \in F
        /\ \A k, l \in 1 .. n + 1 : k # l => w2[k][1] # w2[l][1]
    <3>1. \A k \in 1 .. n + 1 : w2[k][1] = IF k = n + 1 THEN c ELSE w[k][1]
      BY <1>3
    <3> QED
      <4>1. \A k \in 1 .. n + 1 : w2[k][1] \in F
        BY <3>1, <1>3, <1>4
      <4>2. ASSUME NEW k \in 1 .. n + 1, NEW l \in 1 .. n + 1, k # l
            PROVE  w2[k][1] # w2[l][1]
        <5>1. CASE k = n + 1
          <6>1. l \in 1 .. n
            BY <4>2, <5>1, <1>3
          <6> QED
            BY <5>1, <6>1, <1>3, <1>8
        <5>2. CASE l = n + 1
          <6>1. k \in 1 .. n
            BY <4>2, <5>2, <1>3
          <6> QED
            BY <5>2, <6>1, <1>3, <1>8
        <5>3. CASE k # n + 1 /\ l # n + 1
          <6>1. k \in 1 .. n /\ l \in 1 .. n
            BY <5>3, <1>3
          <6> QED
            BY <4>2, <6>1, <1>3, <1>4
        <5> QED
          BY <5>1, <5>2, <5>3
      <4> QED
        BY <4>1, <4>2
  <2>3. w2[1][1] = Main
    BY <1>1, <1>3 DEF Sound, n
  <2>4. ASSUME NEW k \in 2 .. n + 1
        PROVE  <<w2[k - 1][1], w2[k - 1][2] - 1>> \in InitializedAt(program, w2[k][1])
    <3>1. CASE k = n + 1
      <4>1. k - 1 = n /\ j + 1 - 1 = j
        BY <3>1, <1>1
      <4>2. w2[n][1] = m /\ w2[n][2] = j + 1 /\ w2[n + 1][1] = c
        BY <1>3
      <4>3. w2[k - 1] = w2[n] /\ w2[k] = w2[n + 1]
        BY <4>1, <3>1
      <4>4. w2[k - 1][1] = m /\ w2[k - 1][2] = j + 1 /\ w2[k][1] = c
        BY <4>2, <4>3
      <4>5. w2[k - 1][2] - 1 = j
        <5>1. \A x : x = j + 1 => x - 1 = j
          BY <4>1, <1>1
        <5> QED
          BY <5>1, <4>4
      <4> QED
        BY <4>4, <4>5
    <3>2. CASE k # n + 1
      <4>1. k \in 2 .. n /\ k \in 1 .. n /\ k - 1 \in 1 .. n /\ k - 1 # n
        BY <3>2, <1>1
      <4>2. <<w[k - 1][1], w[k - 1][2] - 1>> \in InitializedAt(program, w[k][1])
        BY <4>1 DEF Sound, n
      <4> QED
        BY <4>1, <4>2, <1>3
    <3> QED
      BY <3>1, <3>2
  <2>5. ASSUME NEW d \in F, d # Main
        PROVE  \E p \in InitializedAt(program, d) : Seen(w2, F, p[1], p[2])
    <3>1. CASE d = c
      <4>1. Seen(w2, F, m, j)
        BY <1>1, <1>9
      <4> QED
        BY <3>1, <4>1, <1>6
    <3>2. CASE d # c
      <4>1. PICK p \in InitializedAt(program, d) : Seen(w, E, p[1], p[2])
        BY <2>5, <3>2 DEF Sound
      <4>2. p[1] \in ModuleIds /\ p[2] \in Nat
        BY <2>1, <4>1, InitializedFacts
      <4> QED
        BY <4>1, <4>2, <1>9
    <3> QED
      BY <3>1, <3>2
  <2>6. ASSUME NEW d \in ModuleIds, NEW p \in InitializedAt(program, d), Seen(w2, F, p[1], p[2])
        PROVE  d \in F
    <3>1. p[1] \in ModuleIds /\ p[2] \in Nat /\ p = <<p[1], p[2]>>
      BY InitializedFacts
    <3>2. Seen(w, E, p[1], p[2]) \/ p = <<m, j>>
      BY <3>1, <2>6, <1>9
    <3> QED
      BY <3>2, <1>6 DEF Sound
  <2>7. ASSUME NEW d \in F, \A k \in 1 .. n + 1 : w2[k][1] # d
        PROVE  InTree[d] \subseteq F
    <3>1. d # c
      BY <2>7, <1>1, <1>3
    <3>2. d \in E
      BY <3>1
    <3>3. ASSUME NEW k \in 1 .. n
          PROVE  w[k][1] # d
      <4>1. k \in 1 .. n + 1 /\ w2[k][1] = w[k][1]
        BY <1>1, <1>3
      <4> QED
        BY <2>7, <4>1
    <3> QED
      BY <3>2, <3>3 DEF Sound, n
  <2>8. InTree[c] \subseteq Tree
    <3>1. InTree[m] = {m} \cup UNION {InTree[Item(v).module] : v \in Initializers(m)}
      BY <1>1, InTreeFacts
    <3>2. InTree[m] \subseteq Tree
      BY <1>5 DEF Sound
    <3> QED
      BY <1>6, <3>1, <3>2
  <2>9. \A d \in F : InTree[d] \subseteq Tree
    BY <2>8 DEF Sound
  <2> HIDE DEF F
  <2> QED
    BY <1>2, <2>1, <2>2, <2>3, <2>4, <2>5, <2>6, <2>7, <2>9 DEF Sound
<1> QED
  BY <1>0, <1>9, <1>10

(* The walk comes back from a module whose body it has seen.                 *)
LEMMA LeaveSound ==
  ASSUME InputsTyped, NEW w, NEW E, Sound(w, E), NEW m, NEW j, LastPlace(w, m, j), j > Len(program[m])
  PROVE  /\ Sound(Left(w), E)
         /\ \A d \in ModuleIds : \A x \in 0 .. Len(program[d]) :
              Seen(Left(w), E, d, x) <=> Seen(w, E, d, x)
<1> DEFINE n == Len(w)
<1>a. w \in Seq(ModuleIds \X Nat) /\ w # <<>> /\ w[Len(w)] = <<m, j>>
  BY DEF LastPlace
<1>0. PICK w2 : w2 = Left(w)
  OBVIOUS
<1>1. /\ n \in Nat \ {0} /\ w[n] = <<m, j>> /\ m \in ModuleIds /\ j \in Nat
      /\ Len(program[m]) \in Nat
  <2>1. n \in Nat \ {0} /\ \A k \in 1 .. n : w[k] \in ModuleIds \X Nat
    BY <1>a, EmptySeq, LenProperties, ElementOfSeq
  <2>2. n \in 1 .. n
    BY <2>1
  <2>3. w[n] = <<m, j>>
    BY <1>a
  <2>4. m \in ModuleIds /\ j \in Nat
    BY <2>1, <2>2, <2>3
  <2>5. program[m] \in Seq(Declarations)
    BY <2>4 DEF InputsTyped
  <2> QED
    BY <2>1, <2>3, <2>4, <2>5, LenProperties
<1>2. /\ Len(w2) = n - 1
      /\ \A k \in 1 .. n - 1 : w2[k] = w[k]
  <2>0. n \in Nat \ {0}
    BY <1>1
  <2>2. \A k \in 1 .. n - 1 : w[k] \in ModuleIds \X Nat /\ 1 + k - 1 = k
    BY <1>a, <1>1, ElementOfSeq
  <2>3. w2 = SubSeq(w, 1, n - 1)
    BY <1>0 DEF Left
  <2> HIDE DEF n
  <2>1. 1 \in Int /\ n - 1 \in Int /\ n - 1 - 1 + 1 = n - 1 /\ (1 <= n - 1 \/ n - 1 = 0)
    BY <2>0
  <2>4. /\ Len(w2) = IF 1 <= n - 1 THEN n - 1 - 1 + 1 ELSE 0
        /\ \A k \in 1 .. n - 1 - 1 + 1 : w2[k] = w[1 + k - 1]
    BY <2>1, <2>2, <2>3, SubSeqProperties
  <2>5. Len(w2) = n - 1
    BY <2>1, <2>4
  <2>6. ASSUME NEW k \in 1 .. n - 1
        PROVE  w2[k] = w[k]
    <3>1. k \in 1 .. n - 1 - 1 + 1 /\ 1 + k - 1 = k
      BY <2>1, <2>2
    <3> QED
      BY <3>1, <2>4
  <2> QED
    BY <2>5, <2>6
<1> HIDE DEF n
<1>3. /\ \A k \in 1 .. n : w[k][1] \in E
      /\ \A k, l \in 1 .. n : k # l => w[k][1] # w[l][1]
      /\ E \in SUBSET ModuleIds
      /\ w[n][1] = m /\ w[n][2] = j
      /\ n \in 1 .. n
      /\ \A k \in 1 .. n - 1 : k \in 1 .. n /\ k # n
      /\ \A k \in 1 .. n : k # n => k \in 1 .. n - 1
  BY <1>1 DEF Sound, n
<1>4. m \in E /\ \A k \in 1 .. n : w[k][1] = m => k = n
  BY <1>3
<1>5. ASSUME NEW x \in 0 .. Len(program[m])
      PROVE  Seen(w, E, m, x)
  <2>1. x < j
    BY <1>1
  <2> QED
    BY <2>1, <1>3, <1>4 DEF Seen, n
<1>6. ASSUME NEW d \in ModuleIds, NEW x \in 0 .. Len(program[d])
      PROVE  Seen(w2, E, d, x) <=> Seen(w, E, d, x)
  <2>1. CASE d = m
    <3>1. Seen(w2, E, m, x)
      BY <1>2, <1>3, <1>4 DEF Seen
    <3> QED
      BY <2>1, <3>1, <1>5
  <2>2. CASE d # m
    BY <2>2, <1>2, <1>3 DEF Seen, n
  <2> QED
    BY <2>1, <2>2
<1>7. ASSUME NEW c \in ModuleIds, NEW p \in InitializedAt(program, c)
      PROVE  /\ p[1] \in ModuleIds /\ p[2] \in 0 .. Len(program[p[1]])
             /\ Seen(w2, E, p[1], p[2]) <=> Seen(w, E, p[1], p[2])
  <2>1. p[1] \in ModuleIds /\ p[2] \in Nat /\ p[2] \in 1 .. Len(program[p[1]])
    BY InitializedFacts
  <2>2. p[2] \in 0 .. Len(program[p[1]])
    BY <2>1
  <2> QED
    BY <2>1, <2>2, <1>6
<1>8. InTree[m] \subseteq E
  <2>1. ASSUME NEW v \in Initializers(m)
        PROVE  InTree[Item(v).module] \subseteq E
    <3> DEFINE c == Item(v).module
    <3>1. c \in ModuleIds /\ v \in InitializedAt(program, c)
      BY <1>1, InTreeFacts, InitializerPlace
    <3>2. v[1] = m
      BY DEF Initializers, Items
    <3>3. Seen(w, E, v[1], v[2])
      BY <3>1, <3>2, <1>5, <1>7
    <3> HIDE DEF c
    <3>4. c \in E
      BY <3>1, <3>3 DEF Sound
    <3>5. c # Main /\ \A q \in InitializedAt(program, c) : q = v
      BY <3>1, InitializedFacts
    <3>6. ASSUME NEW k \in 1 .. n, w[k][1] = c
          PROVE  FALSE
      <4>1. CASE k = 1
        BY <3>5, <3>6, <4>1, <1>1 DEF Sound, n
      <4>2. CASE k # 1
        <5>1. k \in 2 .. n /\ k - 1 \in 1 .. n /\ k - 1 # n
          BY <4>2, <1>1
        <5>2. <<w[k - 1][1], w[k - 1][2] - 1>> \in InitializedAt(program, w[k][1])
          BY <5>1 DEF Sound, n
        <5>3. w[k - 1][1] = v[1]
          BY <5>2, <3>5, <3>6
        <5> QED
          BY <5>1, <5>3, <3>2, <1>4
      <4> QED
        BY <4>1, <4>2
    <3> QED
      BY <3>4, <3>6 DEF Sound, n, c
  <2>2. InTree[m] = {m} \cup UNION {InTree[Item(v).module] : v \in Initializers(m)}
    BY <1>1, InTreeFacts
  <2> QED
    BY <2>1, <2>2, <1>4
<1>9. Sound(w2, E)
  <2>1. E \in SUBSET ModuleIds /\ Main \in E
    BY DEF Sound
  <2>2. /\ \A k \in 1 .. n - 1 : w2[k][1] \in E
        /\ \A k, l \in 1 .. n - 1 : k # l => w2[k][1] # w2[l][1]
    BY <1>2, <1>3
  <2>3. n - 1 > 0 => w2[1][1] = Main
    BY <1>1, <1>2 DEF Sound, n
  <2>4. ASSUME NEW k \in 2 .. n - 1
        PROVE  <<w2[k - 1][1], w2[k - 1][2] - 1>> \in InitializedAt(program, w2[k][1])
    <3>1. k \in 2 .. n /\ k \in 1 .. n - 1 /\ k - 1 \in 1 .. n - 1
      BY <1>1
    <3>2. <<w[k - 1][1], w[k - 1][2] - 1>> \in InitializedAt(program, w[k][1])
      BY <3>1 DEF Sound, n
    <3> QED
      BY <3>1, <3>2, <1>2
  <2>5. ASSUME NEW c \in E, c # Main
        PROVE  \E p \in InitializedAt(program, c) : Seen(w2, E, p[1], p[2])
    <3>1. PICK p \in InitializedAt(program, c) : Seen(w, E, p[1], p[2])
      BY <2>5 DEF Sound
    <3> QED
      BY <2>1, <3>1, <1>7
  <2>6. \A c \in ModuleIds : \A p \in InitializedAt(program, c) : Seen(w2, E, p[1], p[2]) => c \in E
    BY <1>7 DEF Sound
  <2>7. ASSUME NEW c \in E, \A k \in 1 .. n - 1 : w2[k][1] # c
        PROVE  InTree[c] \subseteq E
    <3>1. CASE c = m
      BY <3>1, <1>8
    <3>2. CASE c # m
      <4>1. \A k \in 1 .. n : w[k][1] # c
        BY <2>7, <3>2, <1>2, <1>3
      <4> QED
        BY <4>1 DEF Sound, n
    <3> QED
      BY <3>1, <3>2
  <2>8. \A c \in E : InTree[c] \subseteq Tree
    BY DEF Sound
  <2> QED
    BY <1>2, <2>1, <2>2, <2>3, <2>4, <2>5, <2>6, <2>7, <2>8 DEF Sound
<1> QED
  BY <1>0, <1>6, <1>9

-----------------------------------------------------------------------------
(* Sums of sizes.                                                            *)

(* Of the finite sets with a property one has no smaller one.                *)
LEMMA LeastSet ==
  ASSUME NEW V, IsFiniteSet(V), NEW X, X \subseteq SUBSET V, X # {}
  PROVE  \E W \in X : \A U \in SUBSET W : U # W => U \notin X
<1>1. IsWellFoundedOn(StrictSubsetOrdering(V), SUBSET V)
  BY FS_StrictSubsetOrderingWellFounded, FS_FiniteSubsetsOfFinite
<1>2. PICK W \in X : \A U \in X : <<U, W>> \notin StrictSubsetOrdering(V)
  BY <1>1, WFMin
<1>3. ASSUME NEW U \in SUBSET W, U # W, U \in X
      PROVE  FALSE
  <2>1. <<U, W>> \in StrictSubsetOrdering(V)
    BY <1>3 DEF StrictSubsetOrdering
  <2> QED
    BY <1>2, <1>3, <2>1
<1> QED
  BY <1>3

LEMMA ImageFinite ==
  ASSUME NEW S, IsFiniteSet(S), NEW T, NEW f \in [S -> T], \A t \in T : \E s \in S : f[s] = t
  PROVE  IsFiniteSet(T)
<1>1. f \in Surjection(S, T)
  BY DEF Surjection
<1> QED
  BY <1>1, FS_Surjection

LEMMA VariablesFinite ==
  ASSUME InputsTyped
  PROVE  IsFiniteSet(Variables)
<1> DEFINE F == [m \in ModuleIds |-> Items(m)]
<1>1. ASSUME NEW m \in ModuleIds
      PROVE  IsFiniteSet(Items(m))
  <2>1. Len(program[m]) \in Nat
    BY LenProperties DEF InputsTyped
  <2>2. IsFiniteSet(1 .. Len(program[m]))
    BY <2>1, FS_Interval
  <2> DEFINE f == [k \in 1 .. Len(program[m]) |-> <<m, k>>]
  <2>3. f \in [1 .. Len(program[m]) -> Items(m)] /\ \A t \in Items(m) : \E k \in 1 .. Len(program[m]) : f[k] = t
    BY DEF Items
  <2> HIDE DEF f
  <2> QED
    BY <2>2, <2>3, ImageFinite
<1>2. IsFiniteSet({Items(m) : m \in ModuleIds})
  <2> DEFINE T == {Items(m) : m \in ModuleIds}
  <2>1. F \in [ModuleIds -> T] /\ \A t \in T : \E m \in ModuleIds : F[m] = t
    OBVIOUS
  <2> HIDE DEF F, T
  <2>2. IsFiniteSet(T)
    BY <2>1, ModulesAssumption, ImageFinite
  <2> QED
    BY <2>2 DEF T
<1>3. IsFiniteSet(AllItems)
  BY <1>1, <1>2, FS_UNION DEF AllItems
<1> QED
  BY <1>3, FS_Subset DEF Variables

(* The sums of all subsets of a set, as the fold over it computes them.      *)
First(T) == CHOOSE x \in T : TRUE
Totals(S, f) ==
  f = [T \in SUBSET S |-> IF T = {} THEN 0 ELSE Item(First(T)).size + f[T \ {First(T)}]]

LEMMA SumIsTotal ==
  ASSUME NEW S
  PROVE  SumSizes(S) = (CHOOSE f : Totals(S, f))[S]
BY DEF SumSizes, MapThenSumSet, MapThenFoldSet, Totals, First

LEMMA TotalsAgree ==
  ASSUME NEW V, IsFiniteSet(V), NEW S \in SUBSET V, NEW R \in SUBSET V,
         NEW f, NEW g, Totals(S, f), Totals(R, g)
  PROVE  \A T \in SUBSET (S \cap R) : f[T] = g[T]
<1> DEFINE X == {T \in SUBSET (S \cap R) : f[T] # g[T]}
<1>1. SUFFICES ASSUME X # {}
               PROVE  FALSE
  OBVIOUS
<1>2. PICK T \in X : \A U \in SUBSET T : U # T => U \notin X
  <2>1. X \subseteq SUBSET V
    OBVIOUS
  <2> HIDE DEF X
  <2> QED
    BY <1>1, <2>1, LeastSet
<1>3. T \in SUBSET S /\ T \in SUBSET R
  OBVIOUS
<1>4. /\ f[T] = IF T = {} THEN 0 ELSE Item(First(T)).size + f[T \ {First(T)}]
      /\ g[T] = IF T = {} THEN 0 ELSE Item(First(T)).size + g[T \ {First(T)}]
  BY <1>3 DEF Totals
<1>5. CASE T = {}
  BY <1>4, <1>5
<1>6. CASE T # {}
  <2>1. First(T) \in T
    BY <1>6 DEF First
  <2>2. T \ {First(T)} \in SUBSET T /\ T \ {First(T)} # T
    BY <2>1
  <2>3. T \ {First(T)} \notin X
    BY <1>2, <2>2
  <2>4. f[T \ {First(T)}] = g[T \ {First(T)}]
    BY <1>3, <2>3
  <2> QED
    BY <1>4, <1>6, <2>4
<1> QED
  BY <1>5, <1>6

LEMMA TotalsExist ==
  ASSUME NEW V, IsFiniteSet(V), NEW S \in SUBSET V
  PROVE  \E f : Totals(S, f)
<1> DEFINE X == {T \in SUBSET V : \A f : ~Totals(T, f)}
<1>1. SUFFICES ASSUME X # {}
               PROVE  FALSE
  OBVIOUS
<1>2. PICK W \in X : \A U \in SUBSET W : U # W => U \notin X
  <2>1. X \subseteq SUBSET V
    OBVIOUS
  <2> HIDE DEF X
  <2> QED
    BY <1>1, <2>1, LeastSet
<1> DEFINE Total(T) == (CHOOSE f : Totals(T, f))[T]
           Value(T) == IF T = {} THEN 0 ELSE Item(First(T)).size + Total(T \ {First(T)})
           F == [T \in SUBSET W |-> Value(T)]
<1>3. ASSUME NEW U \in SUBSET W, U # W
      PROVE  Total(U) = Value(U)
  <2>1. U \in SUBSET V /\ \E f : Totals(U, f)
    BY <1>2, <1>3
  <2> DEFINE f == CHOOSE f : Totals(U, f)
  <2>2. Totals(U, f)
    BY <2>1
  <2> HIDE DEF f
  <2>3. f[U] = IF U = {} THEN 0 ELSE Item(First(U)).size + f[U \ {First(U)}]
    BY <2>2 DEF Totals
  <2>4. CASE U = {}
    BY <2>3, <2>4 DEF f
  <2>5. CASE U # {}
    <3> DEFINE R == U \ {First(U)}
    <3>1. First(U) \in U
      BY <2>5 DEF First
    <3>2. R \in SUBSET U /\ R \in SUBSET W /\ R # W /\ R \in SUBSET V
      BY <2>1, <3>1
    <3>3. \E g : Totals(R, g)
      BY <1>2, <3>2
    <3> DEFINE g == CHOOSE g : Totals(R, g)
    <3>4. Totals(R, g)
      BY <3>3
    <3> HIDE DEF g, R
    <3>5. R \in SUBSET (U \cap R)
      BY <3>2
    <3>6. f[R] = g[R]
      BY <2>1, <2>2, <3>2, <3>4, <3>5, TotalsAgree
    <3> QED
      BY <2>3, <2>5, <3>6 DEF f, g, R
  <2> QED
    BY <2>4, <2>5
<1>4. Totals(W, F)
  <2>1. ASSUME NEW T \in SUBSET W, T # {}
        PROVE  F[T \ {First(T)}] = Total(T \ {First(T)})
    <3>1. First(T) \in T
      BY <2>1 DEF First
    <3>2. T \ {First(T)} \in SUBSET W /\ T \ {First(T)} # W
      BY <3>1
    <3> HIDE DEF Total, Value
    <3> QED
      BY <3>2, <1>3
  <2> HIDE DEF Total
  <2>2. \A T \in SUBSET W : Value(T) = IF T = {} THEN 0 ELSE Item(First(T)).size + F[T \ {First(T)}]
    BY <2>1
  <2> HIDE DEF Value
  <2>3. F = [T \in SUBSET W |-> IF T = {} THEN 0 ELSE Item(First(T)).size + F[T \ {First(T)}]]
    BY <2>2
  <2> QED
    BY <2>3 DEF Totals
<1> QED
  BY <1>2, <1>4

LEMMA SumStep ==
  ASSUME NEW V, IsFiniteSet(V), NEW S \in SUBSET V
  PROVE  SumSizes(S) = IF S = {} THEN 0 ELSE Item(First(S)).size + SumSizes(S \ {First(S)})
<1> DEFINE R == S \ {First(S)}
<1>1. PICK f : Totals(S, f) /\ SumSizes(S) = f[S]
  <2>1. \E f : Totals(S, f)
    BY TotalsExist
  <2>2. Totals(S, CHOOSE f : Totals(S, f))
    BY <2>1
  <2> QED
    BY <2>2, SumIsTotal
<1>2. PICK g : Totals(R, g) /\ SumSizes(R) = g[R]
  <2>1. \E g : Totals(R, g)
    BY TotalsExist
  <2>2. Totals(R, CHOOSE g : Totals(R, g))
    BY <2>1
  <2> HIDE DEF R
  <2> QED
    BY <2>2, SumIsTotal
<1>3. R \in SUBSET V /\ R \in SUBSET (S \cap R) /\ R \in SUBSET S
  OBVIOUS
<1>4. f[R] = g[R]
  <2> HIDE DEF R
  <2> QED
    BY <1>1, <1>2, <1>3, TotalsAgree
<1>5. f[S] = IF S = {} THEN 0 ELSE Item(First(S)).size + f[R]
  BY <1>1 DEF Totals
<1> QED
  BY <1>1, <1>2, <1>4, <1>5

(* What a variable contributes does not depend on the order of the sum.      *)
LEMMA SumFacts ==
  ASSUME InputsTyped
  PROVE  /\ SumSizes({}) = 0
         /\ \A S \in SUBSET Variables : SumSizes(S) \in Nat
         /\ \A S \in SUBSET Variables : \A v \in S : SumSizes(S) = SumSizes(S \ {v}) + Item(v).size
<1> DEFINE Q(S) == /\ SumSizes(S) \in Nat
                   /\ \A v \in S : SumSizes(S) = SumSizes(S \ {v}) + Item(v).size
           X == {S \in SUBSET Variables : ~Q(S)}
<1>1. IsFiniteSet(Variables)
  BY VariablesFinite
<1>2. \A v \in Variables : Item(v).size \in Nat
  BY DeclarationFacts
<1>3. SumSizes({}) = 0
  BY <1>1, SumStep
<1>4. ASSUME X # {}
      PROVE  FALSE
  <2>1. PICK W \in X : \A U \in SUBSET W : U # W => U \notin X
    <3>1. X \subseteq SUBSET Variables
      OBVIOUS
    <3> HIDE DEF X
    <3> QED
      BY <1>1, <1>4, <3>1, LeastSet
  <2>2. W \in SUBSET Variables /\ ~Q(W)
    OBVIOUS
  <2>3. \A U \in SUBSET W : U # W => Q(U)
    BY <2>1, <2>2
  <2> HIDE DEF X
  <2>4. W # {}
    BY <1>3, <2>2
  <2> DEFINE x == First(W)
  <2>5. x \in W
    BY <2>4 DEF First
  <2>6. SumSizes(W) = Item(x).size + SumSizes(W \ {x})
    BY <1>1, <2>2, <2>4, SumStep
  <2> HIDE DEF x
  <2>7. Q(W \ {x}) /\ Item(x).size \in Nat
    BY <1>2, <2>2, <2>3, <2>5
  <2>8. SumSizes(W) \in Nat
    BY <2>6, <2>7
  <2>9. ASSUME NEW v \in W
        PROVE  SumSizes(W) = SumSizes(W \ {v}) + Item(v).size
    <3>1. CASE v = x
      BY <2>6, <2>7, <3>1
    <3>2. CASE v # x
      <4>1. v \in W \ {x} /\ x \in W \ {v} /\ (W \ {x}) \ {v} = (W \ {v}) \ {x}
            /\ Item(v).size \in Nat
        BY <1>2, <2>2, <2>5, <3>2
      <4>2. Q(W \ {v}) /\ Q((W \ {v}) \ {x})
        BY <2>3, <4>1
      <4>3. SumSizes(W \ {x}) = SumSizes((W \ {v}) \ {x}) + Item(v).size
        BY <2>7, <4>1
      <4>4. SumSizes(W \ {v}) = SumSizes((W \ {v}) \ {x}) + Item(x).size
        BY <4>1, <4>2
      <4>5. SumSizes((W \ {v}) \ {x}) \in Nat
        BY <4>2
      <4> HIDE DEF Q
      <4> QED
        BY <2>6, <2>7, <4>1, <4>3, <4>4, <4>5
    <3> QED
      BY <3>1, <3>2
  <2> QED
    BY <2>2, <2>8, <2>9
<1> QED
  BY <1>3, <1>4

LEMMA SumGrows ==
  ASSUME InputsTyped, NEW S \in SUBSET Variables, NEW R \in SUBSET S
  PROVE  SumSizes(R) <= SumSizes(S)
<1> DEFINE X == {T \in SUBSET S : R \subseteq T /\ ~(SumSizes(R) <= SumSizes(T))}
<1>1. SUFFICES ASSUME X # {}
               PROVE  FALSE
  OBVIOUS
<1>2. PICK W \in X : \A U \in SUBSET W : U # W => U \notin X
  <2>1. X \subseteq SUBSET Variables /\ IsFiniteSet(Variables)
    BY VariablesFinite
  <2> HIDE DEF X
  <2> QED
    BY <1>1, <2>1, LeastSet
<1>3. /\ W \in SUBSET S /\ R \subseteq W /\ W \in SUBSET Variables
      /\ SumSizes(R) \in Nat /\ SumSizes(W) \in Nat
  BY SumFacts
<1>4. W # R
  BY <1>2, <1>3
<1>5. PICK v \in W : v \notin R
  BY <1>3, <1>4
<1>6. W \ {v} \in SUBSET W /\ W \ {v} # W /\ R \subseteq W \ {v} /\ W \ {v} \in SUBSET Variables
  BY <1>3, <1>5
<1>7. SumSizes(R) <= SumSizes(W \ {v})
  BY <1>2, <1>3, <1>6
<1>8. /\ SumSizes(W) = SumSizes(W \ {v}) + Item(v).size
      /\ SumSizes(W \ {v}) \in Nat /\ Item(v).size \in Nat
  BY <1>3, <1>5, <1>6, SumFacts, DeclarationFacts
<1> QED
  BY <1>2, <1>3, <1>7, <1>8

-----------------------------------------------------------------------------
(* What the walk of a stage has passed: the variables P and the functions of *)
(* the modules H.                                                            *)
SeenVariables(E) == {v \in Variables : Seen(walk, E, v[1], v[2])}
SeenModules(E) == {m \in ModuleIds : Seen(walk, E, m, 0)}
Walked(P, H) == \E E : Sound(walk, E) /\ P = SeenVariables(E) /\ H = SeenModules(E)

LEMMA SameTree ==
  ASSUME UNCHANGED program
  PROVE  InTree' = InTree /\ Tree' = Tree
<1>1. InTree' = InTree
  BY DEF InTree, Items, Item
<1> QED
  BY <1>1 DEF Tree

LEMMA SoundNext ==
  ASSUME UNCHANGED program, NEW w, NEW E, Sound(w, E), walk' = w
  PROVE  Sound(walk, E)'
<1>1. InTree' = InTree /\ Tree' = Tree
  BY SameTree
<1>2. /\ \A m, j : Seen(walk, E, m, j)' <=> Seen(w, E, m, j)
      /\ \A m : InitializedAt(program, m)' = InitializedAt(program, m)
  BY DEF Seen, InitializedAt
<1> QED
  BY <1>1, <1>2 DEF Sound

LEMMA SeenNext ==
  ASSUME UNCHANGED program, NEW w, walk' = w, NEW E
  PROVE  /\ SeenVariables(E)' = {v \in Variables : Seen(w, E, v[1], v[2])}
         /\ SeenModules(E)' = {m \in ModuleIds : Seen(w, E, m, 0)}
<1>1. Variables' = Variables
  BY SameProgram
<1> QED
  BY <1>1 DEF SeenVariables, SeenModules, Seen

LEMMA WalkedSame ==
  ASSUME UNCHANGED program, UNCHANGED walk, NEW P, NEW H, Walked(P, H)
  PROVE  Walked(P, H)'
<1>1. PICK E : Sound(walk, E) /\ P = SeenVariables(E) /\ H = SeenModules(E)
  BY DEF Walked
<1>2. Sound(walk, E)'
  BY <1>1, SoundNext
<1>3. P = SeenVariables(E)' /\ H = SeenModules(E)'
  BY <1>1, SeenNext DEF SeenVariables, SeenModules
<1> QED
  BY <1>2, <1>3 DEF Walked

LEMMA WalkedBounds ==
  ASSUME InputsTyped, NEW P, NEW H, Walked(P, H)
  PROVE  /\ P \subseteq Placed /\ H \subseteq Tree
         /\ P \subseteq Variables /\ H \subseteq ModuleIds
         /\ walk = <<>> => P = Placed /\ H = Tree
<1>1. PICK E : Sound(walk, E) /\ P = SeenVariables(E) /\ H = SeenModules(E)
  BY DEF Walked
<1>2. E \subseteq ModuleIds /\ Main \in E /\ \A m \in E : InTree[m] \subseteq Tree
  BY <1>1 DEF Sound
<1>3. \A m \in E : m \in InTree[m]
  BY <1>2, InTreeFacts
<1>4. E \subseteq Tree
  BY <1>2, <1>3
<1>5. P \subseteq Placed /\ H \subseteq Tree /\ P \subseteq Variables /\ H \subseteq ModuleIds
  BY <1>1, <1>4 DEF SeenVariables, SeenModules, Seen, Placed
<1>6. ASSUME walk = <<>>
      PROVE  P = Placed /\ H = Tree
  <2>1. Len(walk) = 0 /\ \A k \in 1 .. Len(walk) : FALSE
    BY <1>6
  <2>2. Tree \subseteq E
    BY <1>1, <1>2, <2>1 DEF Sound, Tree
  <2>3. \A m \in E : \A j : Seen(walk, E, m, j)
    BY <2>1 DEF Seen
  <2> QED
    BY <1>1, <1>2, <1>5, <2>2, <2>3 DEF SeenVariables, SeenModules, Placed
<1> QED
  BY <1>5, <1>6

LEMMA StartWalked ==
  ASSUME InputsTyped, walk = <<<<Main, 0>>>>
  PROVE  Walked({}, {})
<1>1. /\ Sound(walk, {Main})
      /\ \A m \in ModuleIds : \A j \in Nat : ~Seen(walk, {Main}, m, j)
  BY StartSound
<1>2. SeenVariables({Main}) = {} /\ SeenModules({Main}) = {}
  BY <1>1, DeclarationFacts DEF SeenVariables, SeenModules
<1> QED
  BY <1>1, <1>2 DEF Walked

LEMMA RestartWalked ==
  ASSUME InputsTyped, UNCHANGED program, walk' = <<<<Main, 0>>>>
  PROVE  Walked({}, {})'
<1> DEFINE w == <<<<Main, 0>>>>
<1>1. /\ Sound(w, {Main})
      /\ \A m \in ModuleIds : \A j \in Nat : ~Seen(w, {Main}, m, j)
  BY StartSound
<1>2. walk' = w
  OBVIOUS
<1> HIDE DEF w
<1>3. Sound(walk, {Main})'
  BY <1>1, <1>2, SoundNext
<1>4. /\ SeenVariables({Main})' = {v \in Variables : Seen(w, {Main}, v[1], v[2])}
      /\ SeenModules({Main})' = {m \in ModuleIds : Seen(w, {Main}, m, 0)}
  BY <1>2, SeenNext
<1>5. SeenVariables({Main})' = {} /\ SeenModules({Main})' = {}
  BY <1>1, <1>4, DeclarationFacts
<1> QED
  BY <1>3, <1>5 DEF Walked

(* A place in the body of a module that initializes nothing.                 *)
LEMMA WalkAdvances ==
  ASSUME InputsTyped, WalkTyped, UNCHANGED program, walk # <<>>, Advance,
         Current[2] = 0 \/ (Current[2] \in 1 .. Len(program[Here]) /\ Item(Current).kind = "variable"),
         NEW E, Sound(walk, E)
  PROVE  /\ Sound(walk, E)'
         /\ Here \in Tree
         /\ ~Seen(walk, E, Here, Current[2])
         /\ SeenVariables(E)' = {v \in Variables : Seen(walk, E, v[1], v[2]) \/ v = Current}
         /\ SeenModules(E)' = {m \in ModuleIds : Seen(walk, E, m, 0) \/ <<m, 0>> = Current}
<1>1. /\ walk \in Seq(ModuleIds \X Nat) /\ Here \in ModuleIds /\ Current[2] \in Nat
      /\ Current = <<Here, Current[2]>> /\ Current = walk[Len(walk)]
  BY WalkFacts DEF WalkTyped, Current
<1>2. ASSUME NEW c \in ModuleIds, Current \in InitializedAt(program, c)
      PROVE  FALSE
  <2>1. /\ Current[2] \in 1 .. Len(program[Current[1]])
        /\ Current \in Initializers(Current[1])
    BY <1>2, InitializedFacts
  <2>2. Item(Current).kind = "initializes" /\ Current[2] # 0
    BY <2>1 DEF Initializers
  <2> QED
    BY <2>2
<1>3. PICK m, j : m = Here /\ j = Current[2]
  OBVIOUS
<1>4. PICK w2 : w2 = Advanced(walk, m, j)
  OBVIOUS
<1>5. m \in ModuleIds /\ j \in Nat /\ Current = <<m, j>> /\ walk[Len(walk)] = <<m, j>>
      /\ \A c \in ModuleIds : <<m, j>> \notin InitializedAt(program, c)
  BY <1>1, <1>2, <1>3
<1>6. walk' = w2
  BY <1>3, <1>4 DEF Advance, Advanced
<1>7. /\ Sound(w2, E)
      /\ \A c \in ModuleIds : \A x \in Nat : Seen(w2, E, c, x) <=> Seen(walk, E, c, x) \/ <<c, x>> = <<m, j>>
      /\ ~Seen(walk, E, m, j)
      /\ m \in E
  <2>1. LastPlace(walk, m, j)
    BY <1>1, <1>5 DEF LastPlace
  <2>2. NoInitializer(m, j)
    BY <1>5 DEF NoInitializer
  <2>3. /\ Sound(Advanced(walk, m, j), E)
        /\ \A c \in ModuleIds : \A x \in Nat :
              Seen(Advanced(walk, m, j), E, c, x) <=> Seen(walk, E, c, x) \/ <<c, x>> = <<m, j>>
        /\ ~Seen(walk, E, m, j)
        /\ m \in E
    BY <2>1, <2>2, AdvanceSound
  <2> QED
    BY <2>3, <1>4
<1>8. Sound(walk, E)'
  BY <1>6, <1>7, SoundNext
<1>9. m \in Tree
  <2>1. InTree[m] \subseteq Tree
    BY <1>7 DEF Sound
  <2> QED
    BY <1>5, <2>1, InTreeFacts
<1>10. /\ SeenVariables(E)' = {v \in Variables : Seen(w2, E, v[1], v[2])}
       /\ SeenModules(E)' = {c \in ModuleIds : Seen(w2, E, c, 0)}
  BY <1>6, SeenNext
<1>11. \A v \in Variables : Seen(w2, E, v[1], v[2]) <=> Seen(walk, E, v[1], v[2]) \/ v = Current
  BY <1>5, <1>7, DeclarationFacts
<1>12. \A c \in ModuleIds : Seen(w2, E, c, 0) <=> Seen(walk, E, c, 0) \/ <<c, 0>> = Current
  BY <1>5, <1>7
<1> QED
  BY <1>3, <1>7, <1>8, <1>9, <1>10, <1>11, <1>12

LEMMA WalkStands ==
  ASSUME InputsTyped, WalkTyped, walk # <<>>, NEW E, Sound(walk, E)
  PROVE  Here \in Tree /\ ~Seen(walk, E, Here, Current[2])
<1>1. /\ Here \in ModuleIds /\ Current[2] \in Nat /\ Len(walk) \in 1 .. Len(walk)
      /\ walk[Len(walk)][1] = Here /\ walk[Len(walk)][2] = Current[2]
  BY WalkFacts DEF Here, Current
<1>2. Here \in E /\ InTree[Here] \subseteq Tree
  BY <1>1 DEF Sound
<1>3. Here \in Tree
  BY <1>1, <1>2, InTreeFacts
<1>4. ~(Current[2] < Current[2])
  BY <1>1
<1> QED
  BY <1>1, <1>3, <1>4 DEF Seen

LEMMA FunctionsWalked ==
  ASSUME InputsTyped, WalkTyped, UNCHANGED program, NEW stg, AtFunctions(stg), Advance,
         NEW P, NEW H, Walked(P, H), NEW G, G = H \cup {Here}
  PROVE  Here \in Tree /\ Here \notin H /\ Walked(P, G)'
<1>1. PICK E : Sound(walk, E) /\ P = SeenVariables(E) /\ H = SeenModules(E)
  BY DEF Walked
<1>2. walk # <<>> /\ Current[2] = 0
  BY DEF AtFunctions
<1>3. /\ Sound(walk, E)'
      /\ Here \in Tree
      /\ ~Seen(walk, E, Here, Current[2])
      /\ SeenVariables(E)' = {v \in Variables : Seen(walk, E, v[1], v[2]) \/ v = Current}
      /\ SeenModules(E)' = {m \in ModuleIds : Seen(walk, E, m, 0) \/ <<m, 0>> = Current}
  BY <1>1, <1>2, WalkAdvances
<1>4. Current = <<Here, 0>> /\ Here \in ModuleIds
  BY <1>2, WalkFacts
<1>5. \A v \in Variables : v # Current
  BY <1>2, DeclarationFacts
<1>6. SeenVariables(E)' = P
  BY <1>1, <1>3, <1>5 DEF SeenVariables
<1>7. SeenModules(E)' = G
  BY <1>1, <1>3, <1>4 DEF SeenModules
<1>8. Here \notin H
  BY <1>1, <1>2, <1>3 DEF SeenModules
<1>9. Walked(P, G)'
  BY <1>3, <1>6, <1>7 DEF Walked
<1> QED
  BY <1>3, <1>8, <1>9

LEMMA VariableWalked ==
  ASSUME InputsTyped, WalkTyped, UNCHANGED program, NEW stg, AtItem(stg, "variable"), Advance,
         NEW P, NEW H, Walked(P, H), NEW Q, Q = P \cup {Current}
  PROVE  Current \in Placed /\ Current \notin P /\ Walked(Q, H)'
<1>1. PICK E : Sound(walk, E) /\ P = SeenVariables(E) /\ H = SeenModules(E)
  BY DEF Walked
<1>2. walk # <<>> /\ Current[2] \in 1 .. Len(program[Here]) /\ Item(Current).kind = "variable"
  BY DEF AtItem
<1>3. /\ Sound(walk, E)'
      /\ Here \in Tree
      /\ ~Seen(walk, E, Here, Current[2])
      /\ SeenVariables(E)' = {v \in Variables : Seen(walk, E, v[1], v[2]) \/ v = Current}
      /\ SeenModules(E)' = {m \in ModuleIds : Seen(walk, E, m, 0) \/ <<m, 0>> = Current}
  BY <1>1, <1>2, WalkAdvances
<1>4. Current \in Variables /\ Current[1] = Here
  BY AtVariableFacts DEF Here, Current
<1>5. \A m \in ModuleIds : <<m, 0>> # Current
  BY <1>4, DeclarationFacts
<1>6. SeenModules(E)' = H
  BY <1>1, <1>3, <1>5 DEF SeenModules
<1>7. SeenVariables(E)' = Q
  BY <1>1, <1>3, <1>4 DEF SeenVariables
<1>8. Current \notin P
  BY <1>1, <1>3, <1>4 DEF SeenVariables
<1>9. Current \in Placed
  BY <1>3, <1>4 DEF Placed
<1>10. Walked(Q, H)'
  BY <1>3, <1>6, <1>7 DEF Walked
<1> QED
  BY <1>8, <1>9, <1>10

LEMMA VariableStands ==
  ASSUME InputsTyped, WalkTyped, NEW stg, AtItem(stg, "variable"), NEW P, NEW H, Walked(P, H)
  PROVE  Current \in Placed /\ Current \notin P
<1>1. PICK E : Sound(walk, E) /\ P = SeenVariables(E) /\ H = SeenModules(E)
  BY DEF Walked
<1>2. walk # <<>> /\ Current[2] \in 1 .. Len(program[Here]) /\ Item(Current).kind = "variable"
  BY DEF AtItem
<1>3. ~Seen(walk, E, Here, Current[2]) /\ Here \in Tree
  BY <1>1, <1>2, WalkStands
<1>4. Current \in Variables /\ Current[1] = Here
  BY AtVariableFacts DEF Here, Current
<1> QED
  BY <1>1, <1>3, <1>4 DEF SeenVariables, Placed

LEMMA ModulesWalked ==
  ASSUME InputsTyped, WalkTyped, WalkModules, NEW P, NEW H, Walked(P, H)
  PROVE  Walked(P, H)'
<1>1. PICK E : Sound(walk, E) /\ P = SeenVariables(E) /\ H = SeenModules(E)
  BY DEF Walked
<1>2. UNCHANGED program
  BY SameInputs DEF WalkModules
<1>3. ASSUME NEW stg, Enter(stg)
      PROVE  Walked(P, H)'
  <2>1. /\ walk # <<>> /\ Current[2] \in 1 .. Len(program[Here]) /\ Item(Current).kind = "initializes"
        /\ walk' = [walk EXCEPT ![Len(walk)] = <<Here, Current[2] + 1>>] \o <<<<Item(Current).module, 0>>>>
    BY <1>3 DEF Enter, AtItem
  <2>2. /\ walk \in Seq(ModuleIds \X Nat) /\ Here \in ModuleIds /\ Current[2] \in Nat
        /\ Current = <<Here, Current[2]>> /\ Current = walk[Len(walk)]
    BY <2>1, WalkFacts DEF WalkTyped, Current
  <2>a. PICK m, j, c : m = Here /\ j = Current[2] /\ c = Item(Current).module
    OBVIOUS
  <2>b. PICK w2 : w2 = Entered(walk, m, j, c)
    OBVIOUS
  <2>3. <<m, j>> \in Initializers(m)
    BY <2>1, <2>2, <2>a DEF Initializers, Items
  <2>4. c \in ModuleIds /\ <<m, j>> \in InitializedAt(program, c)
    <3>1. Item(<<m, j>>).module = c
      BY <2>2, <2>a
    <3>2. m \in ModuleIds
      BY <2>2, <2>a
    <3> QED
      BY <2>3, <3>1, <3>2, InTreeFacts, InitializerPlace
  <2>5. m \in ModuleIds /\ j \in Nat /\ Current = <<m, j>> /\ walk[Len(walk)] = <<m, j>>
    BY <2>2, <2>a
  <2>6. walk' = w2
    BY <2>1, <2>a, <2>b DEF Entered, Advanced
  <2>c. PICK F : F = E \cup {c}
    OBVIOUS
  <2>7. /\ Sound(w2, F)
        /\ \A d \in ModuleIds : \A x \in Nat : Seen(w2, F, d, x) <=> Seen(walk, E, d, x) \/ <<d, x>> = <<m, j>>
    <3>1. LastPlace(walk, m, j)
      BY <2>1, <2>2, <2>5 DEF LastPlace
    <3>2. c \in ModuleIds /\ <<m, j>> \in InitializedAt(program, c)
      BY <2>4
    <3>3. /\ Sound(Entered(walk, m, j, c), E \cup {c})
          /\ \A d \in ModuleIds : \A x \in Nat :
               Seen(Entered(walk, m, j, c), E \cup {c}, d, x) <=> Seen(walk, E, d, x) \/ <<d, x>> = <<m, j>>
      BY <1>1, <3>1, <3>2, EnterSound
    <3> QED
      BY <3>3, <2>b, <2>c
  <2>8. Sound(walk, F)'
    BY <1>2, <2>6, <2>7, SoundNext
  <2>9. /\ SeenVariables(F)' = {v \in Variables : Seen(w2, F, v[1], v[2])}
        /\ SeenModules(F)' = {d \in ModuleIds : Seen(w2, F, d, 0)}
    BY <1>2, <2>6, SeenNext
  <2>10. /\ j # 0
         /\ \A v \in Variables : v # <<m, j>>
    <3>1. j # 0
      BY <2>1, <2>a
    <3>2. \A v \in Variables : Item(v).kind = "variable"
      BY DEF Variables
    <3>3. Item(<<m, j>>).kind = "initializes"
      BY <2>1, <2>5
    <3> QED
      BY <3>1, <3>2, <3>3
  <2>11. \A v \in Variables : Seen(w2, F, v[1], v[2]) <=> Seen(walk, E, v[1], v[2])
    BY <2>7, <2>10, DeclarationFacts
  <2>12. \A d \in ModuleIds : Seen(w2, F, d, 0) <=> Seen(walk, E, d, 0)
    BY <2>7, <2>10
  <2>13. P = SeenVariables(F)' /\ H = SeenModules(F)'
    BY <1>1, <2>9, <2>11, <2>12 DEF SeenVariables, SeenModules
  <2> QED
    BY <2>8, <2>13 DEF Walked
<1>4. ASSUME NEW stg, Leave(stg)
      PROVE  Walked(P, H)'
  <2>1. /\ walk # <<>> /\ Current[2] > Len(program[Here]) /\ walk' = SubSeq(walk, 1, Len(walk) - 1)
    BY <1>4 DEF Leave, AtEnd
  <2>2. /\ walk \in Seq(ModuleIds \X Nat) /\ Here \in ModuleIds /\ Current[2] \in Nat
        /\ Current = <<Here, Current[2]>> /\ Current = walk[Len(walk)]
    BY <2>1, WalkFacts DEF WalkTyped, Current
  <2>a. PICK m, j : m = Here /\ j = Current[2]
    OBVIOUS
  <2>b. PICK w2 : w2 = Left(walk)
    OBVIOUS
  <2>3. walk[Len(walk)] = <<m, j>> /\ j > Len(program[m]) /\ walk' = w2
    BY <2>1, <2>2, <2>a, <2>b DEF Left
  <2>5. /\ Sound(w2, E)
        /\ \A d \in ModuleIds : \A x \in 0 .. Len(program[d]) : Seen(w2, E, d, x) <=> Seen(walk, E, d, x)
    <3>1. LastPlace(walk, m, j) /\ j > Len(program[m])
      BY <2>1, <2>2, <2>3 DEF LastPlace
    <3> QED
      BY <1>1, <2>b, <3>1, LeaveSound
  <2>6. Sound(walk, E)'
    BY <1>2, <2>3, <2>5, SoundNext
  <2>7. /\ SeenVariables(E)' = {v \in Variables : Seen(w2, E, v[1], v[2])}
        /\ SeenModules(E)' = {d \in ModuleIds : Seen(w2, E, d, 0)}
    BY <1>2, <2>3, SeenNext
  <2>8. ASSUME NEW v \in Variables
        PROVE  v[1] \in ModuleIds /\ v[2] \in 0 .. Len(program[v[1]])
    <3>1. PICK d \in ModuleIds : v \in Items(d)
      BY DEF Variables, AllItems
    <3>2. PICK k \in 1 .. Len(program[d]) : v = <<d, k>>
      BY <3>1 DEF Items
    <3> QED
      BY <3>2
  <2>9. \A d \in ModuleIds : 0 \in 0 .. Len(program[d])
    BY LenProperties DEF InputsTyped
  <2>10. P = SeenVariables(E)' /\ H = SeenModules(E)'
    BY <1>1, <2>5, <2>7, <2>8, <2>9 DEF SeenVariables, SeenModules
  <2> QED
    BY <2>6, <2>10 DEF Walked
<1> QED
  BY <1>3, <1>4 DEF WalkModules

-----------------------------------------------------------------------------
(* The order of declaration.                                                 *)

(* Modules of which each initializes another of them are not in the tree of  *)
(* the contract.                                                             *)
LEMMA NoEndlessTree ==
  ASSUME InputsTyped, NEW D \in SUBSET ModuleIds,
         \A m \in D : \E v \in Initializers(m) : Item(v).module \in D
  PROVE  /\ Main \notin D
         /\ \A v \in Initializers(Main) : Item(v).module \notin D
<1> DEFINE place == [m \in D |-> CHOOSE v \in Initializers(m) : Item(v).module \in D]
           child == [m \in D |-> Item(place[m]).module]
<1>1. ASSUME NEW m \in D
      PROVE  /\ place[m] \in Initializers(m) /\ child[m] \in D /\ child[m] = Item(place[m]).module
             /\ place[m] \in InitializedAt(program, child[m])
             /\ place[m][1] = m
  <2>1. place[m] \in Initializers(m) /\ Item(place[m]).module \in D
    OBVIOUS
  <2>2. child[m] = Item(place[m]).module
    OBVIOUS
  <2> HIDE DEF place, child
  <2>3. place[m] \in InitializedAt(program, Item(place[m]).module)
    BY <2>1, InitializerPlace
  <2>4. place[m][1] = m
    BY <2>1 DEF Initializers, Items
  <2> QED
    BY <2>1, <2>2, <2>3, <2>4
<1>2. child \in [D -> D]
  BY <1>1
<1> HIDE DEF place, child
<1>3. \A m, n \in D : child[m] = child[n] => m = n
  BY <1>1, InitializedFacts
<1>4. child \in Injection(D, D)
  BY <1>2, <1>3 DEF Injection, IsInjective
<1>5. IsFiniteSet(D)
  BY ModulesAssumption, FS_Subset
<1>6. child \in Surjection(D, D)
  BY <1>4, <1>5, FS_Injection
<1>7. \A c \in D : \E m \in D : child[m] = c
  BY <1>6 DEF Surjection
<1>8. Main \notin D
  <2>1. SUFFICES ASSUME Main \in D
                 PROVE  FALSE
    OBVIOUS
  <2>2. PICK m \in D : child[m] = Main
    BY <2>1, <1>7
  <2>3. place[m] \in InitializedAt(program, Main) /\ Main \in ModuleIds
    BY <1>1, <2>2, ModulesAssumption
  <2> QED
    BY <2>3, InitializedFacts
<1>9. ASSUME NEW v \in Initializers(Main), Item(v).module \in D
      PROVE  FALSE
  <2>1. PICK m \in D : child[m] = Item(v).module
    BY <1>7, <1>9
  <2>2. v \in InitializedAt(program, Item(v).module)
    BY InitializerPlace, ModulesAssumption
  <2>3. v = place[m]
    BY <1>1, <1>9, <2>1, <2>2, InitializedFacts
  <2>4. v[1] = Main
    BY DEF Initializers, Items
  <2> QED
    BY <1>1, <1>8, <2>3, <2>4
<1> QED
  BY <1>8, <1>9

LEMMA InTreeIsUnder ==
  ASSUME InputsTyped
  PROVE  /\ Tree = Under(Main)
         /\ \A v \in Initializers(Main) : InTree[Item(v).module] = Under(Item(v).module)
<1> DEFINE D == {m \in ModuleIds : InTree[m] # Under(m)}
<1>0. /\ \A m \in ModuleIds : InTree[m] = {m} \cup UNION {InTree[Item(v).module] : v \in Initializers(m)}
      /\ \A m \in ModuleIds : \A v \in Initializers(m) : Item(v).module \in ModuleIds
  BY InTreeFacts
<1>1. ASSUME NEW m \in ModuleIds, \A v \in Initializers(m) : InTree[Item(v).module] = Under(Item(v).module)
      PROVE  InTree[m] = Under(m)
  <2>1. {InTree[Item(v).module] : v \in Initializers(m)} = {Under(Item(v).module) : v \in Initializers(m)}
    BY <1>1
  <2> QED
    BY <1>0, <2>1, UnderFacts
<1>2. \A m \in D : \E v \in Initializers(m) : Item(v).module \in D
  BY <1>0, <1>1
<1>3. /\ Main \notin D
      /\ \A v \in Initializers(Main) : Item(v).module \notin D
  BY <1>2, NoEndlessTree
<1> QED
  BY <1>0, <1>3, ModulesAssumption DEF Tree

(* Whole(m): the variables of a module and of all below it. *)
Whole(m) == {v \in Variables : v[1] \in Under(m)}
DeclaredBefore(m, k) ==
  {v \in Variables : \E i \in 1 .. (k - 1) :
     \/ v = <<m, i>>
     \/ <<m, i>> \in Initializers(m) /\ v[1] \in Under(Item(<<m, i>>).module)}
Part(f, m, j) ==
  IF Item(<<m, j>>).kind = "variable" THEN {<<m, j>>}
  ELSE f[Item(<<m, j>>).module][Len(program[Item(<<m, j>>).module]) + 1]
Orders(f) ==
  f = [m \in ModuleIds |-> [k \in 1 .. Len(program[m]) + 1 |-> UNION {Part(f, m, j) : j \in 1 .. (k - 1)}]]

LEMMA ItemKinds ==
  ASSUME InputsTyped, NEW m \in ModuleIds
  PROVE  /\ Len(program[m]) \in Nat
         /\ \A j \in 1 .. Len(program[m]) :
              \/ Item(<<m, j>>).kind = "variable" /\ <<m, j>> \in Variables /\ <<m, j>> \notin Initializers(m)
              \/ Item(<<m, j>>).kind # "variable" /\ <<m, j>> \in Initializers(m)
<1>1. program[m] \in Seq(Declarations) /\ Len(program[m]) \in Nat
  BY LenProperties DEF InputsTyped
<1>2. ASSUME NEW j \in 1 .. Len(program[m])
      PROVE  \/ Item(<<m, j>>).kind = "variable" /\ <<m, j>> \in Variables /\ <<m, j>> \notin Initializers(m)
             \/ Item(<<m, j>>).kind # "variable" /\ <<m, j>> \in Initializers(m)
  <2>1. program[m][j] \in Declarations
    BY <1>1, ElementOfSeq
  <2>2. Item(<<m, j>>).kind \in {"variable", "initializes"}
    BY <2>1 DEF Item, Declarations
  <2>3. <<m, j>> \in Items(m) /\ <<m, j>> \in AllItems
    BY DEF Items, AllItems
  <2> QED
    BY <2>2, <2>3 DEF Variables, Initializers
<1> QED
  BY <1>1, <1>2

LEMMA VariablePlace ==
  ASSUME InputsTyped, NEW v \in Variables
  PROVE  /\ v[1] \in ModuleIds /\ v[2] \in 1 .. Len(program[v[1]]) /\ v = <<v[1], v[2]>>
<1>1. PICK d \in ModuleIds : v \in Items(d)
  BY DEF Variables, AllItems
<1>2. PICK k \in 1 .. Len(program[d]) : v = <<d, k>>
  BY <1>1 DEF Items
<1> QED
  BY <1>2

LEMMA WholeModule ==
  ASSUME InputsTyped, NEW m \in ModuleIds
  PROVE  DeclaredBefore(m, Len(program[m]) + 1) = Whole(m)
<1>1. Len(program[m]) \in Nat /\ Len(program[m]) + 1 - 1 = Len(program[m])
  BY ItemKinds
<1>2. Under(m) = {m} \cup UNION {Under(Item(v).module) : v \in Initializers(m)}
  BY UnderFacts
<1>3. ASSUME NEW v \in DeclaredBefore(m, Len(program[m]) + 1)
      PROVE  v \in Whole(m)
  <2>1. PICK i \in 1 .. Len(program[m]) :
          \/ v = <<m, i>>
          \/ <<m, i>> \in Initializers(m) /\ v[1] \in Under(Item(<<m, i>>).module)
    BY <1>1 DEF DeclaredBefore
  <2>2. v[1] \in Under(m)
    BY <1>2, <2>1
  <2> QED
    BY <2>2 DEF DeclaredBefore, Whole
<1>4. ASSUME NEW v \in Whole(m)
      PROVE  v \in DeclaredBefore(m, Len(program[m]) + 1)
  <2>1. v \in Variables /\ v[1] \in Under(m)
    BY DEF Whole
  <2>2. CASE v[1] = m
    <3>1. v = <<m, v[2]>> /\ v[2] \in 1 .. Len(program[m])
      BY <2>1, <2>2, VariablePlace
    <3> QED
      BY <1>1, <2>1, <3>1 DEF DeclaredBefore
  <2>3. CASE v[1] # m
    <3>1. PICK u \in Initializers(m) : v[1] \in Under(Item(u).module)
      BY <1>2, <2>1, <2>3
    <3>2. PICK i \in 1 .. Len(program[m]) : u = <<m, i>>
      BY DEF Initializers, Items
    <3> QED
      BY <1>1, <2>1, <3>1, <3>2 DEF DeclaredBefore
  <2> QED
    BY <2>2, <2>3
<1> QED
  BY <1>3, <1>4

LEMMA PartsDeclared ==
  ASSUME InputsTyped, NEW f, NEW m \in ModuleIds,
         \A v \in Initializers(m) : f[Item(v).module][Len(program[Item(v).module]) + 1] = Whole(Item(v).module),
         NEW k \in 1 .. Len(program[m]) + 1
  PROVE  UNION {Part(f, m, j) : j \in 1 .. (k - 1)} = DeclaredBefore(m, k)
<1>1. Len(program[m]) \in Nat
  BY ItemKinds
<1>2. ASSUME NEW j \in 1 .. (k - 1)
      PROVE  Part(f, m, j) = {v \in Variables :
               \/ v = <<m, j>>
               \/ <<m, j>> \in Initializers(m) /\ v[1] \in Under(Item(<<m, j>>).module)}
  <2>1. j \in 1 .. Len(program[m])
    BY <1>1
  <2>2. CASE Item(<<m, j>>).kind = "variable" /\ <<m, j>> \in Variables /\ <<m, j>> \notin Initializers(m)
    BY <2>2 DEF Part
  <2>3. CASE Item(<<m, j>>).kind # "variable" /\ <<m, j>> \in Initializers(m)
    <3>1. Part(f, m, j) = Whole(Item(<<m, j>>).module)
      BY <2>3 DEF Part
    <3>2. <<m, j>> \notin Variables
      BY <2>3 DEF Variables
    <3> QED
      BY <2>3, <3>1, <3>2 DEF Whole
  <2> QED
    BY <2>1, <2>2, <2>3, ItemKinds
<1> DEFINE Passed(j) == Part(f, m, j)
<1>3. \A x : x \in UNION {Passed(j) : j \in 1 .. (k - 1)} <=> \E j \in 1 .. (k - 1) : x \in Passed(j)
  <2> HIDE DEF Passed
  <2> QED
    OBVIOUS
<1>4. ASSUME NEW x, NEW j \in 1 .. (k - 1)
      PROVE  x \in Passed(j) <=> /\ x \in Variables
                                 /\ \/ x = <<m, j>>
                                    \/ <<m, j>> \in Initializers(m) /\ x[1] \in Under(Item(<<m, j>>).module)
  BY <1>2
<1> HIDE DEF Passed
<1>5. ASSUME NEW x
      PROVE  x \in UNION {Passed(j) : j \in 1 .. (k - 1)} <=> x \in DeclaredBefore(m, k)
  BY <1>3, <1>4 DEF DeclaredBefore
<1> QED
  BY <1>5 DEF Passed

LEMMA OrdersAt ==
  ASSUME NEW f, Orders(f), NEW m \in ModuleIds, NEW x \in 1 .. Len(program[m]) + 1
  PROVE  f[m][x] = UNION {Part(f, m, j) : j \in 1 .. (x - 1)}
<1>1. f = [n \in ModuleIds |-> [k \in 1 .. Len(program[n]) + 1 |-> UNION {Part(f, n, j) : j \in 1 .. (k - 1)}]]
  BY Zenon DEF Orders
<1>2. f[m] = [n \in ModuleIds |-> [k \in 1 .. Len(program[n]) + 1 |-> UNION {Part(f, n, j) : j \in 1 .. (k - 1)}]][m]
  BY <1>1, Zenon
<1>3. f[m] = [k \in 1 .. Len(program[m]) + 1 |-> UNION {Part(f, m, j) : j \in 1 .. (k - 1)}]
  BY <1>2, Zenon
<1>4. f[m][x] = [k \in 1 .. Len(program[m]) + 1 |-> UNION {Part(f, m, j) : j \in 1 .. (k - 1)}][x]
  BY <1>3, Zenon
<1> QED
  BY <1>4, Zenon

LEMMA BeforeFacts ==
  ASSUME InputsTyped, NEW k \in 1 .. Len(program[Main]) + 1
  PROVE  Before[Main][k] = DeclaredBefore(Main, k)
<1> DEFINE B == [m \in ModuleIds |-> [x \in 1 .. Len(program[m]) + 1 |-> DeclaredBefore(m, x)]]
<1>0. /\ \A m \in ModuleIds : \A v \in Initializers(m) : Item(v).module \in ModuleIds
      /\ \A m \in ModuleIds : Len(program[m]) \in Nat /\ Len(program[m]) + 1 \in 1 .. Len(program[m]) + 1
  <2>1. \A m \in ModuleIds : Len(program[m]) \in Nat
    BY ItemKinds
  <2> QED
    BY <2>1, InTreeFacts
<1>1. Orders(B)
  <2>1. \A m \in ModuleIds : B[m][Len(program[m]) + 1] = Whole(m)
    BY <1>0, WholeModule
  <2>2. B = [m \in ModuleIds |-> [x \in 1 .. Len(program[m]) + 1 |-> DeclaredBefore(m, x)]]
    OBVIOUS
  <2> HIDE DEF B
  <2>3. \A m \in ModuleIds : \A x \in 1 .. Len(program[m]) + 1 :
          UNION {Part(B, m, j) : j \in 1 .. (x - 1)} = DeclaredBefore(m, x)
    <3>1. ASSUME NEW m \in ModuleIds, NEW x \in 1 .. Len(program[m]) + 1
          PROVE  UNION {Part(B, m, j) : j \in 1 .. (x - 1)} = DeclaredBefore(m, x)
      <4>1. \A v \in Initializers(m) : B[Item(v).module][Len(program[Item(v).module]) + 1] = Whole(Item(v).module)
        BY <1>0, <2>1
      <4> QED
        BY <4>1, PartsDeclared
    <3> QED
      BY <3>1
  <2>4. B = [m \in ModuleIds |-> [x \in 1 .. Len(program[m]) + 1 |-> UNION {Part(B, m, j) : j \in 1 .. (x - 1)}]]
    BY <2>2, <2>3
  <2> QED
    BY <2>4 DEF Orders
<1>2. Before = CHOOSE f : Orders(f)
  BY DEF Before, Orders, Part
<1> HIDE DEF B
<1>3. Orders(Before)
  BY <1>1, <1>2
<1>4. PICK f : f = Before
  OBVIOUS
<1>8. ASSUME NEW m \in ModuleIds, NEW x \in 1 .. Len(program[m]) + 1
      PROVE  f[m][x] = UNION {Part(f, m, j) : j \in 1 .. (x - 1)}
  BY <1>3, <1>4, OrdersAt
<1> DEFINE D == {m \in ModuleIds : Before[m][Len(program[m]) + 1] # Whole(m)}
<1>5. ASSUME NEW m \in ModuleIds, \A v \in Initializers(m) : Item(v).module \notin D,
             NEW x \in 1 .. Len(program[m]) + 1
      PROVE  Before[m][x] = DeclaredBefore(m, x)
  <2>1. \A v \in Initializers(m) :
          f[Item(v).module][Len(program[Item(v).module]) + 1] = Whole(Item(v).module)
    BY <1>0, <1>4, <1>5
  <2>2. UNION {Part(f, m, j) : j \in 1 .. (x - 1)} = DeclaredBefore(m, x)
    BY <2>1, PartsDeclared
  <2> QED
    BY <1>4, <1>8, <2>2
<1>6. ASSUME NEW m \in D
      PROVE  \E v \in Initializers(m) : Item(v).module \in D
  <2>1. m \in ModuleIds /\ Before[m][Len(program[m]) + 1] # DeclaredBefore(m, Len(program[m]) + 1)
    BY WholeModule
  <2> HIDE DEF D
  <2> QED
    BY <1>0, <1>5, <2>1
<1>7. \A v \in Initializers(Main) : Item(v).module \notin D
  <2>1. D \in SUBSET ModuleIds
    OBVIOUS
  <2> HIDE DEF D
  <2> QED
    BY <1>6, <2>1, NoEndlessTree
<1> HIDE DEF D
<1> QED
  BY <1>5, <1>7, ModulesAssumption

(* Where the walk is in the body of the contract itself, it has passed what  *)
(* is declared before.                                                       *)
LEMMA PassedInOrder ==
  ASSUME InputsTyped, WalkTyped, NEW stg, AtItem(stg, "variable"), Here = Main,
         NEW P, NEW H, Walked(P, H)
  PROVE  P = Before[Main][Current[2]]
<1>1. PICK E : Sound(walk, E) /\ P = SeenVariables(E) /\ H = SeenModules(E)
  BY DEF Walked
<1>2. /\ walk # <<>> /\ Current[2] \in 1 .. Len(program[Main])
  BY DEF AtItem
<1> DEFINE n == Len(walk)
<1>3. PICK j : j = Current[2]
  OBVIOUS
<1>4. n \in Nat \ {0} /\ j \in Nat /\ walk[n][1] = Main /\ walk[n][2] = j
  BY <1>2, <1>3, WalkFacts DEF Here, Current
<1>5. n = 1
  <2>1. walk[1][1] = Main /\ \A k, l \in 1 .. Len(walk) : k # l => walk[k][1] # walk[l][1]
    BY <1>1, <1>4 DEF Sound
  <2>2. n \in 1 .. Len(walk) /\ 1 \in 1 .. Len(walk)
    BY <1>4
  <2> HIDE DEF n
  <2> QED
    BY <1>4, <2>1, <2>2
<1>6. /\ \A k \in 1 .. Len(walk) : walk[k][1] = Main /\ walk[k][2] = j
      /\ 1 \in 1 .. Len(walk)
  BY <1>4, <1>5
<1> HIDE DEF n
<1>7. /\ E \subseteq ModuleIds /\ Main \in E
      /\ \A m \in E : m = Main \/ \E p \in InitializedAt(program, m) : Seen(walk, E, p[1], p[2])
      /\ \A m \in ModuleIds : \A p \in InitializedAt(program, m) : Seen(walk, E, p[1], p[2]) => m \in E
      /\ \A m \in E : m # Main => InTree[m] \subseteq E
      /\ E \subseteq Tree
  <2>1. \A m \in E : m # Main => \A k \in 1 .. Len(walk) : walk[k][1] # m
    BY <1>6
  <2>2. \A m \in E : m \in InTree[m] /\ InTree[m] \subseteq Tree
    BY <1>1, InTreeFacts DEF Sound
  <2> QED
    BY <1>1, <2>1, <2>2 DEF Sound
<1>8. \A m, x : Seen(walk, E, m, x) <=> m \in E /\ (m = Main => x < j)
  BY <1>6 DEF Seen
<1>9. /\ \A m \in ModuleIds : \A v \in Initializers(m) :
           Item(v).module \in ModuleIds /\ v \in InitializedAt(program, Item(v).module) /\ v[1] = m
      /\ Main \in ModuleIds
  BY InTreeFacts, InitializerPlace, ModulesAssumption DEF Initializers, Items
<1>10. ASSUME NEW v \in DeclaredBefore(Main, j)
       PROVE  v \in P
  <2>1. v \in Variables /\ v[1] \in ModuleIds /\ v[2] \in Nat
    BY DeclarationFacts DEF DeclaredBefore
  <2>2. PICK i \in 1 .. (j - 1) :
          \/ v = <<Main, i>>
          \/ <<Main, i>> \in Initializers(Main) /\ v[1] \in Under(Item(<<Main, i>>).module)
    BY DEF DeclaredBefore
  <2>3. i < j
    BY <1>4
  <2>4. CASE v = <<Main, i>>
    <3>1. Seen(walk, E, v[1], v[2])
      BY <1>7, <1>8, <2>3, <2>4
    <3> QED
      BY <1>1, <2>1, <3>1 DEF SeenVariables
  <2>5. CASE <<Main, i>> \in Initializers(Main) /\ v[1] \in Under(Item(<<Main, i>>).module)
    <3>1. PICK c : c = Item(<<Main, i>>).module
      OBVIOUS
    <3>2. c \in ModuleIds /\ <<Main, i>> \in InitializedAt(program, c)
      BY <1>9, <2>5, <3>1
    <3>3. Seen(walk, E, Main, i)
      BY <1>7, <1>8, <2>3
    <3>4. c \in E /\ c # Main
      BY <1>7, <3>2, <3>3, InitializedFacts
    <3>5. Under(c) \subseteq E
      BY <1>7, <2>5, <3>1, <3>4, InTreeIsUnder
    <3>6. v[1] # Main
      <4>1. Closed(ModuleIds \ {Main})
        <5>1. ASSUME NEW x \in ModuleIds \ {Main}, NEW u \in Initializers(x)
              PROVE  Item(u).module \in ModuleIds \ {Main}
          BY <1>9, InitializedFacts
        <5> QED
          BY <5>1 DEF Closed
      <4> QED
        BY <2>5, <3>1, <3>2, <3>4, <4>1 DEF Under
    <3>7. Seen(walk, E, v[1], v[2])
      BY <1>8, <2>5, <3>1, <3>5, <3>6
    <3> QED
      BY <1>1, <2>1, <3>7 DEF SeenVariables
  <2> QED
    BY <2>2, <2>4, <2>5
<1> DEFINE Reached(x) == \/ x = Main
                         \/ \E i \in 1 .. (j - 1) : <<Main, i>> \in Initializers(Main) /\ x \in Under(Item(<<Main, i>>).module)
           S == {x \in ModuleIds : x \in E => Reached(x)}
<1>11. ASSUME NEW x \in S, NEW v \in Initializers(x)
       PROVE  Item(v).module \in S
  <2>1. PICK y : y = Item(v).module
    OBVIOUS
  <2>2. x \in ModuleIds /\ y \in ModuleIds /\ v \in InitializedAt(program, y) /\ v[1] = x
    BY <1>9, <2>1
  <2>3. ASSUME y \in E
        PROVE  Reached(y)
    <3>1. y # Main /\ \A q \in InitializedAt(program, y) : q = v
      BY <2>2, InitializedFacts
    <3>2. Seen(walk, E, v[1], v[2])
      BY <1>7, <2>3, <3>1
    <3>3. x \in E /\ (x = Main => v[2] < j)
      BY <1>8, <2>2, <3>2
    <3>4. CASE x = Main
      <4>1. PICK i \in 1 .. Len(program[Main]) : v = <<Main, i>>
        BY <3>4 DEF Initializers, Items
      <4>2. i \in 1 .. (j - 1)
        BY <1>4, <3>3, <3>4, <4>1
      <4>3. y \in Under(y)
        BY <2>2, UnderFacts
      <4> QED
        BY <2>1, <3>4, <4>1, <4>2, <4>3
    <3>5. CASE x # Main
      <4>1. PICK i \in 1 .. (j - 1) : <<Main, i>> \in Initializers(Main) /\ x \in Under(Item(<<Main, i>>).module)
        BY <3>3, <3>5
      <4>2. Item(<<Main, i>>).module \in ModuleIds
        BY <1>9, <4>1
      <4>3. Closed(Under(Item(<<Main, i>>).module))
        BY <4>2, UnderFacts
      <4>4. y \in Under(Item(<<Main, i>>).module)
        BY <2>1, <4>1, <4>3 DEF Closed
      <4> QED
        BY <4>1, <4>4
    <3> QED
      BY <3>4, <3>5
  <2> HIDE DEF Reached
  <2> QED
    BY <2>1, <2>2, <2>3
<1>12. \A x \in E : Reached(x)
  <2>1. S \in SUBSET ModuleIds /\ Main \in S
    BY <1>9
  <2> HIDE DEF Reached, S
  <2>2. Closed(S)
    BY <1>11 DEF Closed
  <2>3. Tree \subseteq S
    BY <2>1, <2>2, InTreeIsUnder DEF Under
  <2> QED
    BY <1>7, <2>3 DEF S
<1>13. ASSUME NEW v \in P
       PROVE  v \in DeclaredBefore(Main, j)
  <2>1. v \in Variables /\ v[1] \in E /\ (v[1] = Main => v[2] < j)
    BY <1>1, <1>8 DEF SeenVariables
  <2>2. v = <<v[1], v[2]>> /\ v[2] \in Nat /\ v[2] >= 1
    BY <2>1, DeclarationFacts
  <2>3. CASE v[1] = Main
    <3>1. v[2] \in 1 .. (j - 1) /\ v = <<Main, v[2]>>
      BY <1>4, <2>1, <2>2, <2>3
    <3> QED
      BY <2>1, <3>1 DEF DeclaredBefore
  <2>4. CASE v[1] # Main
    BY <1>12, <2>1, <2>4 DEF DeclaredBefore
  <2> QED
    BY <2>3, <2>4
<1>14. P = DeclaredBefore(Main, j)
  BY <1>10, <1>13
<1>15. j \in 1 .. Len(program[Main]) + 1
  BY <1>2, <1>3, <1>9, ItemKinds
<1> QED
  BY <1>3, <1>14, <1>15, BeforeFacts

-----------------------------------------------------------------------------
(* What a stage has done with the variables P and the modules H.             *)

Used(P, loc) == SumSizes(P \cap At(loc))

VariablesFit ==
  \A loc \in Locations \ {"storage"} :
    Placed \cap At(loc) # {} => FirstSlot(loc) + Used(Placed, loc) < Limit(loc)

(* The counters have given out what P takes, and nothing is reserved yet.    *)
CountersExact(P) ==
  \A loc \in Locations : ~(Overridden /\ loc = "storage") =>
    /\ next_slot[loc] = FirstSlot(loc) + Used(P, loc)
    /\ P \cap At(loc) # {} => next_slot[loc] < Limit(loc)

(* The variables of the contract itself lie in the order of declaration.     *)
InOrder(P) ==
  \A v \in P : v[1] = Main =>
    position[v] = FirstSlot(Item(v).location) + Used(Before[Main][v[2]], Item(v).location)

LaidOut(P, H) ==
  /\ Walked(P, H)
  /\ CountersExact(P)
  /\ ~Overridden => /\ \A v \in P : position[v] # Unset
                    /\ \A m \in H \cap locked : key[m] = LockSlot
                    /\ InOrder(P)
  /\ DOMAIN occupied = {}

(* Each reserved slot is the lock's or in the range of a variable of P.      *)
FileFollowed(P, H) ==
  /\ Walked(P, H)
  /\ \A v \in P \cap At("storage") : position[v] = override.slots[v]
  /\ ~cancun => \A m \in H \cap locked : key[m] = override.lock
  /\ \A s \in DOMAIN occupied :
       \/ s = override.lock /\ occupied[s] = LockName /\ ~cancun /\ LockedModules # {}
       \/ \E v \in P \cap At("storage") : s \in Slots(override.slots[v], Item(v).size)

OverrideShaped ==
  Overridden => /\ override = [present |-> TRUE, slots |-> override.slots, lock |-> override.lock]
                /\ override.slots = [v \in DOMAIN override.slots |-> override.slots[v]]

Fate ==
  /\ stage \in {"export", "done"} => walk = <<>>
  /\ stage \in Errors => ~(Overridden /\ GoodOverride /\ VariablesFit)
  /\ stage = "done" /\ Overridden => Layout = override
  /\ upgraded => Overridden /\ GoodOverride /\ VariablesFit

Laying == stage = "layout" \/ (stage \in {"export", "done"} /\ ~Overridden)
Following == stage = "override" \/ (stage \in {"export", "done"} /\ Overridden)

(* Whatever the stage, there is a walk behind what the tables hold, and an   *)
(* error has a cause that a good file does not have.                         *)
FilesIInv ==
  /\ OverrideShaped
  /\ Fate
  /\ Laying => \E P, H : LaidOut(P, H)
  /\ Following => \E P, H : FileFollowed(P, H)

LEMMA SumSame ==
  ASSUME UNCHANGED program, NEW S
  PROVE  SumSizes(S)' = SumSizes(S)
<1>0. \A v : Item(v)' = Item(v)
  BY SameProgram
<1>1. \A f : Totals(S, f)' <=> Totals(S, f)
  BY <1>0 DEF Totals, First
<1>2. SumSizes(S)' = (CHOOSE f : Totals(S, f)')[S]
  BY DEF SumSizes, MapThenSumSet, MapThenFoldSet, Totals, First
<1>3. SumSizes(S) = (CHOOSE f : Totals(S, f))[S]
  BY SumIsTotal
<1>4. (CHOOSE f : Totals(S, f)') = (CHOOSE f : Totals(S, f))
  BY <1>1
<1> QED
  BY <1>2, <1>3, <1>4

LEMMA InputsFix ==
  ASSUME UNCHANGED inputs
  PROVE  /\ Placed' = Placed /\ LockedModules' = LockedModules /\ Tree' = Tree
         /\ \A loc : At(loc)' = At(loc)
         /\ \A P, loc : Used(P, loc)' = Used(P, loc)
         /\ GoodOverride' = GoodOverride /\ VariablesFit' = VariablesFit
         /\ OverrideShaped' = OverrideShaped
<1>1. /\ UNCHANGED program /\ UNCHANGED locked /\ UNCHANGED cancun /\ UNCHANGED override
      /\ Overridden' = Overridden
      /\ \A loc : FirstSlot(loc)' = FirstSlot(loc)
      /\ Variables' = Variables
      /\ \A v : Item(v)' = Item(v)
  BY SameInputs
<1>2. Tree' = Tree
  BY <1>1, SameTree
<1>3. Placed' = Placed /\ LockedModules' = LockedModules
  BY <1>1, <1>2 DEF Placed, LockedModules
<1>4. \A loc : At(loc)' = At(loc)
  BY <1>1 DEF At
<1>5. ASSUME NEW S
      PROVE  SumSizes(S)' = SumSizes(S)
  BY <1>1, SumSame
<1>6. ASSUME NEW P, NEW loc
      PROVE  Used(P, loc)' = Used(P, loc)
  <2>1. PICK S : S = P \cap At(loc)
    OBVIOUS
  <2>2. Used(P, loc) = SumSizes(S) /\ Used(P, loc)' = SumSizes(S)'
    BY <2>1, <1>4 DEF Used
  <2> QED
    BY <2>2, <1>5
<1>7. GoodOverride' = GoodOverride
  BY <1>1, <1>3, <1>4 DEF GoodOverride
<1>8. VariablesFit' = VariablesFit
  <2>1. PICK P : P = Placed
    OBVIOUS
  <2>2. \A loc : Used(Placed, loc)' = Used(P, loc)' /\ Used(Placed, loc) = Used(P, loc)
    BY <1>3, <2>1 DEF Used
  <2> QED
    BY <1>1, <1>3, <1>4, <1>6, <2>2 DEF VariablesFit, Limit, Locations
<1>9. OverrideShaped' = OverrideShaped
  BY <1>1 DEF OverrideShaped
<1> QED
  BY <1>2, <1>3, <1>4, <1>6, <1>7, <1>8, <1>9

LEMMA OrderSame ==
  ASSUME UNCHANGED inputs, NEW P, InOrder(P), \A v \in P : position'[v] = position[v]
  PROVE  InOrder(P)'
<1>1. /\ UNCHANGED program
      /\ \A loc : FirstSlot(loc)' = FirstSlot(loc)
      /\ \A v : Item(v)' = Item(v)
  BY SameInputs
<1>2. Before' = Before
  BY <1>1 DEF Before, Item
<1>3. ASSUME NEW v \in P, v[1] = Main
      PROVE  position'[v] = (FirstSlot(Item(v).location) + Used(Before[Main][v[2]], Item(v).location))'
  <2>1. PICK S, loc : S = Before[Main][v[2]] /\ loc = Item(v).location
    OBVIOUS
  <2>2. position[v] = FirstSlot(loc) + Used(S, loc)
    BY <1>3, <2>1 DEF InOrder
  <2>3. position'[v] = FirstSlot(loc)' + Used(S, loc)'
    BY <1>1, <2>2, InputsFix
  <2>4. Before'[Main][v[2]] = S /\ Item(v)'.location = loc
    BY <1>1, <1>2, <2>1
  <2> QED
    BY <2>3, <2>4
<1> QED
  BY <1>3 DEF InOrder

(* Steps that leave the tables alone keep what has been done with P and H.   *)
LEMMA LaidOutSame ==
  ASSUME UNCHANGED <<inputs, next_slot, occupied, position, key>>, NEW P, NEW H, LaidOut(P, H), Walked(P, H)'
  PROVE  LaidOut(P, H)'
<1>1. /\ UNCHANGED <<locked, cancun, override>> /\ Overridden' = Overridden
      /\ \A loc : FirstSlot(loc)' = FirstSlot(loc)
      /\ \A loc : At(loc)' = At(loc)
      /\ \A loc : Used(P, loc)' = Used(P, loc)
  BY SameInputs, InputsFix
<1>2. CountersExact(P)'
  BY <1>1 DEF LaidOut, CountersExact, Limit
<1>3. InOrder(P) => InOrder(P)'
  BY OrderSame
<1> QED
  BY <1>1, <1>2, <1>3 DEF LaidOut, LockSlot, Unset

LEMMA FollowedSame ==
  ASSUME UNCHANGED <<inputs, occupied, position, key>>, NEW P, NEW H, FileFollowed(P, H), Walked(P, H)'
  PROVE  FileFollowed(P, H)'
<1>1. /\ UNCHANGED <<locked, cancun, override>> /\ LockedModules' = LockedModules
      /\ \A v : Item(v)' = Item(v)
      /\ \A loc : At(loc)' = At(loc)
  BY SameInputs, InputsFix
<1>2. \A s \in DOMAIN occupied' :
         \/ s = override.lock /\ occupied'[s] = LockName /\ ~cancun' /\ LockedModules' # {}
         \/ \E v \in P \cap At("storage")' : s \in Slots(override.slots[v], Item(v)'.size)
  BY <1>1 DEF FileFollowed
<1> QED
  BY <1>1, <1>2 DEF FileFollowed, LockName, Slots

(* A rejected contract. *)
LEMMA RejectedFate ==
  ASSUME FilesIInv, UNCHANGED inputs, Reject("StorageLayoutException"), stage \in {"layout", "override"},
         ~(Overridden /\ GoodOverride /\ VariablesFit)
  PROVE  FilesIInv'
<1>1. /\ Overridden' = Overridden /\ GoodOverride' = GoodOverride /\ VariablesFit' = VariablesFit
      /\ OverrideShaped' = OverrideShaped /\ upgraded' = upgraded
  BY SameInputs, InputsFix DEF inputs
<1>2. stage' = "StorageLayoutException"
  BY DEF Reject
<1>3. Fate'
  BY <1>1, <1>2 DEF FilesIInv, Fate
<1>4. ~Laying' /\ ~Following'
  BY <1>2 DEF Laying, Following
<1> QED
  BY <1>1, <1>3, <1>4 DEF FilesIInv

(* A step within one of the two stages. *)
LEMMA WithinLayout ==
  ASSUME FilesIInv, UNCHANGED <<inputs, stage>>, stage = "layout", \E P, H : LaidOut(P, H)'
  PROVE  FilesIInv'
<1>1. /\ Overridden' = Overridden /\ GoodOverride' = GoodOverride /\ VariablesFit' = VariablesFit
      /\ OverrideShaped' = OverrideShaped /\ upgraded' = upgraded
  BY SameInputs, InputsFix DEF inputs
<1>2. Fate'
  BY <1>1 DEF FilesIInv, Fate, Errors
<1>3. ~Following'
  BY DEF Following
<1> QED
  BY <1>1, <1>2, <1>3 DEF FilesIInv

LEMMA WithinOverride ==
  ASSUME FilesIInv, UNCHANGED <<inputs, stage>>, stage = "override", \E P, H : FileFollowed(P, H)'
  PROVE  FilesIInv'
<1>1. /\ Overridden' = Overridden /\ GoodOverride' = GoodOverride /\ VariablesFit' = VariablesFit
      /\ OverrideShaped' = OverrideShaped /\ upgraded' = upgraded
  BY SameInputs, InputsFix DEF inputs
<1>2. Fate'
  BY <1>1 DEF FilesIInv, Fate, Errors
<1>3. ~Laying'
  BY DEF Laying
<1> QED
  BY <1>1, <1>2, <1>3 DEF FilesIInv

LEMMA WalkKeepsFiles ==
  ASSUME LayoutIInv, FilesIInv, WalkModules
  PROVE  FilesIInv'
<1>1. UNCHANGED <<inputs, stage, next_slot, occupied, position, key>> /\ stage \in {"layout", "override"}
  BY DEF WalkModules, Enter, Leave, AtItem, AtEnd
<1>2. CASE stage = "layout"
  <2>1. PICK P, H : LaidOut(P, H)
    BY <1>2 DEF FilesIInv, Laying
  <2>2. Walked(P, H)'
    BY <2>1, ModulesWalked DEF LayoutIInv, LaidOut
  <2>3. LaidOut(P, H)'
    BY <1>1, <2>1, <2>2, LaidOutSame
  <2> QED
    BY <1>1, <1>2, <2>3, WithinLayout
<1>3. CASE stage = "override"
  <2>1. PICK P, H : FileFollowed(P, H)
    BY <1>3 DEF FilesIInv, Following
  <2>2. Walked(P, H)'
    BY <2>1, ModulesWalked DEF LayoutIInv, FileFollowed
  <2>3. FileFollowed(P, H)'
    BY <1>1, <2>1, <2>2, FollowedSame
  <2> QED
    BY <1>1, <1>3, <2>3, WithinOverride
<1> QED
  BY <1>1, <1>2, <1>3

LEMMA TagKeepsFiles ==
  ASSUME LayoutIInv, FilesIInv, TagFunctions
  PROVE  FilesIInv'
<1>1. /\ AtFunctions("layout") /\ stage = "layout" /\ Advance
      /\ UNCHANGED <<inputs, stage, next_slot, occupied, position>>
      /\ key' = IF TaggedByLayout(Here) THEN [key EXCEPT ![Here] = LockSlot] ELSE key
  BY DEF TagFunctions, AtFunctions
<1>2. PICK P, H : LaidOut(P, H)
  BY <1>1 DEF FilesIInv, Laying
<1>3. PICK G : G = H \cup {Here}
  OBVIOUS
<1>4. UNCHANGED program
  BY <1>1, SameInputs
<1>5. Walked(P, G)' /\ Here \in Tree
  BY <1>1, <1>2, <1>3, <1>4, FunctionsWalked DEF LayoutIInv, LaidOut
<1>6. Here \in ModuleIds /\ H \subseteq ModuleIds
  BY <1>1, <1>2, WalkFacts, WalkedBounds DEF LayoutIInv, LaidOut, AtFunctions
<1>7. /\ UNCHANGED <<locked, cancun, override>> /\ Overridden' = Overridden
      /\ \A loc : FirstSlot(loc)' = FirstSlot(loc)
      /\ \A loc : At(loc)' = At(loc)
      /\ \A loc : Used(P, loc)' = Used(P, loc)
  BY <1>1, SameInputs, InputsFix
<1>8. ASSUME ~Overridden, NEW m \in G \cap locked
      PROVE  key'[m] = LockSlot
  <2>1. key \in [ModuleIds -> Int] /\ m \in ModuleIds
    BY <1>3, <1>6 DEF LayoutIInv, TypeOK
  <2>2. CASE m = Here
    BY <1>1, <1>8, <2>1, <2>2 DEF TaggedByLayout
  <2>3. CASE m # Here
    <3>1. key[m] = LockSlot
      BY <1>2, <1>3, <1>8, <2>3 DEF LaidOut
    <3> QED
      BY <1>1, <2>1, <2>3, <3>1
  <2> QED
    BY <2>2, <2>3
<1>9. CountersExact(P)'
  BY <1>1, <1>2, <1>7 DEF LaidOut, CountersExact, Limit
<1>10. InOrder(P) => InOrder(P)'
  BY <1>1, OrderSame
<1>11. LaidOut(P, G)'
  BY <1>1, <1>2, <1>5, <1>7, <1>8, <1>9, <1>10 DEF LaidOut, LockSlot, Unset
<1> QED
  BY <1>1, <1>11, WithinLayout

(* What one more variable takes. *)
LEMMA UsedFacts ==
  ASSUME InputsTyped
  PROVE  /\ \A loc : Used({}, loc) = 0
         /\ \A P \in SUBSET Variables : \A loc : Used(P, loc) \in Nat
         /\ \A P \in SUBSET Variables : \A v \in Variables : \A loc :
              v \notin P => Used(P \cup {v}, loc) = Used(P, loc) + (IF Item(v).location = loc THEN Item(v).size ELSE 0)
         /\ \A P \in SUBSET Variables : \A Q \in SUBSET P : \A loc : Used(Q, loc) <= Used(P, loc)
<1>1. \A loc : Used({}, loc) = 0
  <2>1. \A loc : {} \cap At(loc) = {}
    OBVIOUS
  <2> QED
    BY <2>1, SumFacts DEF Used
<1>2. ASSUME NEW P \in SUBSET Variables, NEW loc
      PROVE  Used(P, loc) \in Nat
  <2>1. P \cap At(loc) \in SUBSET Variables
    OBVIOUS
  <2> QED
    BY <2>1, SumFacts DEF Used
<1>3. ASSUME NEW P \in SUBSET Variables, NEW v \in Variables, NEW loc, v \notin P
      PROVE  Used(P \cup {v}, loc) = Used(P, loc) + (IF Item(v).location = loc THEN Item(v).size ELSE 0)
  <2>1. CASE Item(v).location = loc
    <3>1. /\ (P \cup {v}) \cap At(loc) \in SUBSET Variables
          /\ v \in (P \cup {v}) \cap At(loc)
          /\ ((P \cup {v}) \cap At(loc)) \ {v} = P \cap At(loc)
      BY <1>3, <2>1 DEF At
    <3>2. SumSizes((P \cup {v}) \cap At(loc)) = SumSizes(P \cap At(loc)) + Item(v).size
      BY <3>1, SumFacts
    <3> QED
      BY <2>1, <3>2 DEF Used
  <2>2. CASE Item(v).location # loc
    <3>1. (P \cup {v}) \cap At(loc) = P \cap At(loc)
      BY <2>2 DEF At
    <3>2. Used(P \cup {v}, loc) = Used(P, loc) /\ Used(P, loc) \in Nat
      BY <1>2, <3>1 DEF Used
    <3> QED
      BY <2>2, <3>2
  <2> QED
    BY <2>1, <2>2
<1>4. ASSUME NEW P \in SUBSET Variables, NEW Q \in SUBSET P, NEW loc
      PROVE  Used(Q, loc) <= Used(P, loc)
  <2>1. P \cap At(loc) \in SUBSET Variables /\ Q \cap At(loc) \in SUBSET (P \cap At(loc))
    OBVIOUS
  <2> QED
    BY <2>1, SumGrows DEF Used
<1> QED
  BY <1>1, <1>2, <1>3, <1>4

LEMMA AllocateKeepsFiles ==
  ASSUME LayoutIInv, FilesIInv, AllocateSlot
  PROVE  FilesIInv'
<1>1. AtItem("layout", "variable") /\ stage = "layout" /\ UNCHANGED inputs /\ UNCHANGED program
  BY SameInputs DEF AllocateSlot, AtItem
<1>2. PICK P, H : LaidOut(P, H)
  BY <1>1 DEF FilesIInv, Laying
<1>3. PICK c, loc, size, Q : c = Current /\ loc = Item(c).location /\ size = Item(c).size /\ Q = P \cup {c}
  OBVIOUS
<1>4. c \in Variables /\ c \in AllItems /\ loc \in Locations /\ size \in Nat
  BY <1>1, <1>3, AtVariableFacts, DeclarationFacts DEF LayoutIInv
<1>5. P \subseteq Placed /\ P \subseteq Variables /\ Placed \subseteq Variables
  BY <1>2, WalkedBounds DEF LayoutIInv, LaidOut, Placed
<1>6. ASSUME Advance
      PROVE  c \in Placed /\ c \notin P /\ Walked(Q, H)'
  BY <1>1, <1>2, <1>3, <1>6, VariableWalked DEF LayoutIInv, LaidOut
<1>7. /\ UNCHANGED <<locked, cancun, override>> /\ Overridden' = Overridden
      /\ \A l : FirstSlot(l)' = FirstSlot(l)
      /\ \A l : At(l)' = At(l)
      /\ \A l : Used(Q, l)' = Used(Q, l)
  BY <1>1, SameInputs, InputsFix
<1>8. \A l : Used(P, l) \in Nat
  BY <1>5, UsedFacts DEF LayoutIInv
<1>9. /\ \A l : c \in At(l) <=> l = loc
      /\ \A l : l # loc => Q \cap At(l) = P \cap At(l)
      /\ c \notin P => \A l : Used(Q, l) = Used(P, l) + (IF l = loc THEN size ELSE 0)
  <2>1. \A l : c \in At(l) <=> l = loc
    BY <1>3, <1>4 DEF At
  <2>2. \A l : l # loc => Q \cap At(l) = P \cap At(l)
    BY <1>3, <2>1
  <2>3. c \notin P => \A l : Used(Q, l) = Used(P, l) + (IF l = loc THEN size ELSE 0)
    BY <1>3, <1>4, <1>5, UsedFacts DEF LayoutIInv
  <2> QED
    BY <2>1, <2>2, <2>3
<1>10. CASE Overridden /\ loc = "storage" /\ Advance /\ UNCHANGED <<stage, next_slot, occupied, position, key>>
  <2>1. CountersExact(P)
    BY <1>2 DEF LaidOut
  <2>2. ASSUME NEW l \in Locations, l # "storage"
        PROVE  /\ next_slot'[l] = FirstSlot(l) + Used(Q, l)
               /\ Q \cap At(l) # {} => next_slot'[l] < Limit(l)
    <3>1. Used(Q, l) = Used(P, l) /\ Q \cap At(l) = P \cap At(l)
      BY <1>6, <1>8, <1>9, <1>10, <2>2
    <3> QED
      BY <1>10, <2>1, <2>2, <3>1 DEF CountersExact
  <2>3. CountersExact(Q)'
    BY <1>7, <1>10, <2>2 DEF CountersExact, Limit
  <2>4. LaidOut(Q, H)'
    BY <1>2, <1>6, <1>7, <1>10, <2>3 DEF LaidOut
  <2> QED
    BY <1>1, <1>10, <2>4, WithinLayout
<1>11. CASE /\ ~(Overridden /\ loc = "storage")
            /\ Fits(loc, size)
            /\ next_slot' = [next_slot EXCEPT ![loc] = @ + size]
            /\ position' = [position EXCEPT ![c] = next_slot[loc]]
            /\ Advance
            /\ UNCHANGED <<stage, occupied, key>>
  <2>1. CountersExact(P) /\ next_slot \in [Locations -> Nat] /\ position \in [AllItems -> Int]
    BY <1>2 DEF LaidOut, LayoutIInv, TypeOK
  <2>2. /\ next_slot'[loc] = next_slot[loc] + size
        /\ \A l \in Locations : l # loc => next_slot'[l] = next_slot[l]
        /\ position'[c] = next_slot[loc]
        /\ \A v \in AllItems : v # c => position'[v] = position[v]
    BY <1>4, <1>11, <2>1
  <2>3. ASSUME NEW l \in Locations, ~(Overridden /\ l = "storage")
        PROVE  /\ next_slot'[l] = FirstSlot(l) + Used(Q, l)
               /\ Q \cap At(l) # {} => next_slot'[l] < Limit(l)
    <3>1. /\ next_slot[l] = FirstSlot(l) + Used(P, l)
          /\ P \cap At(l) # {} => next_slot[l] < Limit(l)
      BY <2>1, <2>3 DEF CountersExact
    <3>2. Used(P, l) \in Nat /\ FirstSlot(l) \in Nat
      BY <1>8 DEF FirstSlot, LockSlot
    <3>3. CASE l = loc
      <4>1. Used(Q, l) = Used(P, l) + size
        BY <1>6, <1>9, <1>11, <3>3
      <4>2. next_slot'[l] < Limit(l)
        BY <1>11, <2>2, <3>3 DEF Fits
      <4>3. next_slot'[l] = FirstSlot(l) + Used(Q, l)
        BY <2>2, <3>1, <3>2, <3>3, <4>1, <1>4
      <4> QED
        BY <4>2, <4>3
    <3>4. CASE l # loc
      <4>1. Used(Q, l) = Used(P, l) /\ Q \cap At(l) = P \cap At(l)
        BY <1>6, <1>9, <1>11, <3>2, <3>4
      <4> QED
        BY <2>2, <3>1, <3>4, <4>1
    <3> QED
      BY <3>3, <3>4
  <2>4. CountersExact(Q)'
    BY <1>7, <2>3 DEF CountersExact, Limit
  <2>5. ASSUME ~Overridden, NEW v \in Q
        PROVE  position'[v] # Unset
    <3>1. CASE v = c
      <4>1. next_slot[loc] \in Nat
        BY <1>4, <2>1
      <4> QED
        BY <2>2, <3>1, <4>1 DEF Unset
    <3>2. CASE v # c
      <4>1. v \in P /\ position[v] # Unset
        BY <1>2, <1>3, <2>5, <3>2 DEF LaidOut
      <4>2. v \in AllItems
        BY <1>5, <4>1, DeclarationFacts DEF LayoutIInv
      <4> QED
        BY <2>2, <3>2, <4>1, <4>2
    <3> QED
      BY <3>1, <3>2
  <2>6. ASSUME ~Overridden
        PROVE  InOrder(Q)'
    <3>1. InOrder(P) /\ c \notin P
      BY <1>2, <1>6, <1>11, <2>6 DEF LaidOut
    <3>2. \A v \in P : v \in AllItems
      BY <1>5, DeclarationFacts DEF LayoutIInv
    <3>3. InOrder(P)'
      <4>1. \A v \in P : position'[v] = position[v]
        BY <2>2, <3>1, <3>2
      <4> QED
        BY <1>1, <3>1, <4>1, OrderSame
    <3>4. ASSUME c[1] = Main
          PROVE  position'[c] = (FirstSlot(Item(c).location) + Used(Before[Main][c[2]], Item(c).location))'
      <4>1. P = Before[Main][c[2]]
        <5>1. Here = Main
          BY <1>3, <3>4 DEF Here, Current
        <5> QED
          BY <1>1, <1>2, <1>3, <5>1, PassedInOrder DEF LayoutIInv, LaidOut
      <4>2. position'[c] = FirstSlot(loc) + Used(P, loc)
        BY <1>4, <1>11, <2>1, <2>2 DEF CountersExact
      <4>3. /\ \A l : FirstSlot(l)' = FirstSlot(l)
            /\ \A v : Item(v)' = Item(v)
            /\ \A l : Used(P, l)' = Used(P, l)
        BY <1>1, SameInputs, InputsFix
      <4>4. Before' = Before
        BY <1>1, <4>3 DEF Before, Item
      <4>5. position'[c] = FirstSlot(loc)' + Used(P, loc)'
        BY <4>2, <4>3
      <4>6. Before'[Main][c[2]] = P /\ Item(c)'.location = loc
        BY <1>3, <4>1, <4>3, <4>4
      <4> QED
        BY <4>5, <4>6
    <3> QED
      BY <1>3, <3>3, <3>4 DEF InOrder
  <2>7. LaidOut(Q, H)'
    BY <1>2, <1>6, <1>7, <1>11, <2>4, <2>5, <2>6 DEF LaidOut, Unset, LockSlot
  <2> QED
    BY <1>1, <1>11, <2>7, WithinLayout
<1>12. CASE ~(Overridden /\ loc = "storage") /\ ~Fits(loc, size) /\ Reject("StorageLayoutException")
  <2>1. ASSUME Overridden, VariablesFit
        PROVE  FALSE
    <3>1. loc # "storage"
      BY <1>12, <2>1
    <3>2. /\ next_slot[loc] = FirstSlot(loc) + Used(P, loc)
          /\ ~(next_slot[loc] + size < Limit(loc))
      BY <1>2, <1>4, <1>12 DEF LaidOut, CountersExact, Fits
    <3>3. c \in Placed /\ c \notin P
      BY <1>1, <1>2, <1>3, VariableStands DEF LayoutIInv, LaidOut
    <3>4. Used(Q, loc) = Used(P, loc) + size
      BY <1>9, <3>3
    <3>5. Used(Q, loc) <= Used(Placed, loc)
      <4>1. Q \in SUBSET Placed /\ Placed \in SUBSET Variables
        BY <1>3, <1>5, <3>3
      <4> QED
        BY <4>1, UsedFacts DEF LayoutIInv
    <3>6. FirstSlot(loc) + Used(Placed, loc) < Limit(loc)
      <4>1. Placed \cap At(loc) # {}
        BY <1>9, <3>3
      <4> QED
        BY <1>4, <2>1, <3>1, <4>1 DEF VariablesFit
    <3>7. /\ Used(P, loc) \in Nat /\ FirstSlot(loc) \in Nat /\ Limit(loc) \in Nat
          /\ Used(Placed, loc) \in Nat
      BY <1>5, <1>8, UsedFacts, MaxSlotAssumption DEF FirstSlot, LockSlot, Limit, LayoutIInv
    <3>8. next_slot[loc] + size = FirstSlot(loc) + Used(Q, loc)
      BY <3>2, <3>4, <3>7, <1>4
    <3>9. Used(Q, loc) \in Nat
      BY <3>4, <3>7, <1>4
    <3>10. FirstSlot(loc) + Used(Q, loc) < Limit(loc)
      BY <3>5, <3>6, <3>7, <3>9
    <3> QED
      BY <3>2, <3>8, <3>10
  <2> QED
    BY <1>1, <1>12, <2>1, RejectedFate
<1> QED
  BY <1>3, <1>10, <1>11, <1>12 DEF AllocateSlot

LEMMA LayoutDoneKeepsFiles ==
  ASSUME LayoutIInv, FilesIInv, LayoutDone
  PROVE  FilesIInv'
<1>1. /\ stage = "layout" /\ walk = <<>> /\ UNCHANGED <<inputs, next_slot, occupied, position, key>>
      /\ stage' = (IF Overridden THEN "override" ELSE "export")
      /\ walk' = IF Overridden THEN <<<<Main, 0>>>> ELSE walk
  BY DEF LayoutDone
<1>2. PICK P, H : LaidOut(P, H)
  BY <1>1 DEF FilesIInv, Laying
<1>3. /\ Overridden' = Overridden /\ GoodOverride' = GoodOverride /\ VariablesFit' = VariablesFit
      /\ OverrideShaped' = OverrideShaped /\ upgraded' = upgraded
      /\ UNCHANGED program
  BY <1>1, SameInputs, InputsFix DEF inputs
<1>4. CASE Overridden
  <2>1. Walked({}, {})'
    BY <1>1, <1>3, <1>4, RestartWalked DEF LayoutIInv
  <2>2. FileFollowed({}, {})'
    BY <1>1, <1>2, <2>1 DEF LaidOut, FileFollowed
  <2>3. Fate' /\ ~Laying'
    BY <1>1, <1>3, <1>4 DEF FilesIInv, Fate, Errors, Laying
  <2> QED
    BY <1>3, <2>2, <2>3 DEF FilesIInv
<1>5. CASE ~Overridden
  <2>1. Walked(P, H)'
    BY <1>1, <1>2, <1>3, <1>5, WalkedSame DEF LaidOut
  <2>2. LaidOut(P, H)'
    BY <1>1, <1>2, <2>1, LaidOutSame
  <2>3. Fate' /\ ~Following'
    BY <1>1, <1>3, <1>5 DEF FilesIInv, Fate, Errors, Following
  <2> QED
    BY <1>3, <2>2, <2>3 DEF FilesIInv
<1> QED
  BY <1>4, <1>5

LEMMA ReserveLockKeepsFiles ==
  ASSUME LayoutIInv, FilesIInv, ReserveLock
  PROVE  FilesIInv'
<1>1. AtFunctions("override") /\ stage = "override" /\ UNCHANGED inputs /\ UNCHANGED program /\ walk # <<>>
  BY SameInputs DEF ReserveLock, AtFunctions
<1>2. PICK P, H : FileFollowed(P, H)
  BY <1>1 DEF FilesIInv, Following
<1>3. PICK G : G = H \cup {Here}
  OBVIOUS
<1>4. Here \in ModuleIds /\ H \subseteq ModuleIds /\ P \subseteq Placed /\ Here \in Tree
  <2>1. Here \in ModuleIds
    BY <1>1, WalkFacts DEF LayoutIInv
  <2>2. H \subseteq ModuleIds /\ P \subseteq Placed
    BY <1>2, WalkedBounds DEF LayoutIInv, FileFollowed
  <2>3. PICK E : Sound(walk, E)
    BY <1>2 DEF FileFollowed, Walked
  <2>4. Here \in Tree
    BY <1>1, <2>3, WalkStands DEF LayoutIInv
  <2> QED
    BY <2>1, <2>2, <2>4
<1>5. ASSUME Advance
      PROVE  Walked(P, G)'
  BY <1>1, <1>2, <1>3, <1>5, FunctionsWalked DEF LayoutIInv, FileFollowed
<1>6. /\ UNCHANGED <<locked, cancun, override>> /\ LockedModules' = LockedModules
      /\ \A v : Item(v)' = Item(v)
      /\ \A loc : At(loc)' = At(loc)
  BY <1>1, SameInputs, InputsFix
<1>7. CASE (Here \notin locked \/ cancun) /\ Advance /\ UNCHANGED <<stage, next_slot, occupied, position, key>>
  <2>1. ~cancun => \A m \in G \cap locked : key[m] = override.lock
    BY <1>2, <1>3, <1>7 DEF FileFollowed
  <2>2. /\ \A v \in P \cap At("storage") : position[v] = override.slots[v]
        /\ \A s \in DOMAIN occupied :
             \/ s = override.lock /\ occupied[s] = LockName /\ ~cancun /\ LockedModules # {}
             \/ \E v \in P \cap At("storage") : s \in Slots(override.slots[v], Item(v).size)
    BY <1>2 DEF FileFollowed
  <2>3. FileFollowed(P, G)'
    BY <1>5, <1>6, <1>7, <2>1, <2>2 DEF FileFollowed, LockName, Slots
  <2> QED
    BY <1>1, <1>7, <2>3, WithinOverride
<1>8. CASE /\ Here \in locked /\ ~cancun
           /\ \/ LockReserved /\ UNCHANGED occupied
              \/ ~LockReserved /\ Reservable({override.lock}) /\ Reserve({override.lock}, LockName)
           /\ key' = [key EXCEPT ![Here] = override.lock]
           /\ Advance
           /\ UNCHANGED <<stage, next_slot, position>>
  <2>1. Here \in LockedModules
    BY <1>4, <1>8 DEF LockedModules
  <2>2. ASSUME NEW m \in G \cap locked
        PROVE  key'[m] = override.lock
    <3>1. key \in [ModuleIds -> Int] /\ m \in ModuleIds
      BY <1>3, <1>4 DEF LayoutIInv, TypeOK
    <3>2. CASE m = Here
      BY <1>8, <3>1, <3>2
    <3>3. CASE m # Here
      <4>1. key[m] = override.lock
        BY <1>2, <1>3, <1>8, <3>3 DEF FileFollowed
      <4> QED
        BY <1>8, <3>1, <3>3, <4>1
    <3> QED
      BY <3>2, <3>3
  <2>3. ASSUME NEW s \in DOMAIN occupied'
        PROVE  \/ s = override.lock /\ occupied'[s] = LockName /\ ~cancun /\ LockedModules # {}
               \/ \E v \in P \cap At("storage") : s \in Slots(override.slots[v], Item(v).size)
    <3>1. CASE UNCHANGED occupied
      BY <1>2, <3>1 DEF FileFollowed
    <3>2. CASE Reserve({override.lock}, LockName)
      <4>1. /\ DOMAIN occupied' = DOMAIN occupied \cup {override.lock}
            /\ s = override.lock => occupied'[s] = LockName
            /\ s # override.lock => occupied'[s] = occupied[s]
        BY <3>2 DEF Reserve
      <4>2. CASE s = override.lock
        BY <4>1, <4>2, <2>1, <1>8
      <4>3. CASE s # override.lock
        BY <1>2, <4>1, <4>3 DEF FileFollowed
      <4> QED
        BY <4>2, <4>3
    <3> QED
      BY <1>8, <3>1, <3>2
  <2>4. \A v \in P \cap At("storage") : position[v] = override.slots[v]
    BY <1>2 DEF FileFollowed
  <2>5. FileFollowed(P, G)'
    BY <1>5, <1>6, <1>8, <2>2, <2>3, <2>4 DEF FileFollowed, LockName, Slots
  <2> QED
    BY <1>1, <1>8, <2>5, WithinOverride
<1>9. CASE /\ Here \in locked /\ ~cancun
           /\ \/ override.lock = Unset
              \/ ~LockReserved /\ ~Reservable({override.lock})
           /\ Reject("StorageLayoutException")
  <2>1. ASSUME GoodOverride
        PROVE  FALSE
    <3>1. LockedModules # {}
      BY <1>4, <1>9 DEF LockedModules
    <3>2. /\ override.lock \in 0 .. (MaxSlot - 1)
          /\ \A v \in Placed \cap At("storage") : override.lock \notin Slots(override.slots[v], Item(v).size)
      BY <1>9, <2>1, <3>1 DEF GoodOverride
    <3>3. override.lock # Unset /\ override.lock >= 0 /\ override.lock < MaxSlot
      BY <3>2, MaxSlotAssumption DEF Unset
    <3>4. override.lock \in DOMAIN occupied
      BY <1>9, <3>3 DEF Reservable
    <3>5. occupied[override.lock] = LockName
      BY <1>2, <1>4, <3>2, <3>4 DEF FileFollowed
    <3> QED
      BY <1>9, <3>3, <3>4, <3>5 DEF LockReserved
  <2> QED
    BY <1>1, <1>9, <2>1, RejectedFate
<1> QED
  BY <1>7, <1>8, <1>9 DEF ReserveLock

LEMMA OverrideSlotKeepsFiles ==
  ASSUME LayoutIInv, FilesIInv, OverrideSlot
  PROVE  FilesIInv'
<1>1. AtItem("override", "variable") /\ stage = "override" /\ UNCHANGED inputs /\ UNCHANGED program /\ walk # <<>>
  BY SameInputs DEF OverrideSlot, AtItem
<1>2. PICK P, H : FileFollowed(P, H)
  BY <1>1 DEF FilesIInv, Following
<1>3. PICK c, range, Q : c = Current /\ range = Slots(override.slots[c], Item(c).size) /\ Q = P \cup {c}
  OBVIOUS
<1>4. /\ c \in Variables /\ c \in AllItems /\ Item(c).size \in Nat
      /\ c \in Placed /\ c \notin P /\ P \subseteq Placed
  <2>1. c \in Variables
    BY <1>1, <1>3, AtVariableFacts DEF LayoutIInv
  <2>2. c \in AllItems /\ Item(c).size \in Nat
    BY <2>1, DeclarationFacts DEF LayoutIInv
  <2>3. c \in Placed /\ c \notin P
    BY <1>1, <1>2, <1>3, VariableStands DEF LayoutIInv, FileFollowed
  <2>4. P \subseteq Placed
    BY <1>2, WalkedBounds DEF LayoutIInv, FileFollowed
  <2> QED
    BY <2>1, <2>2, <2>3, <2>4
<1>5. ASSUME Advance
      PROVE  Walked(Q, H)'
  BY <1>1, <1>2, <1>3, <1>5, VariableWalked DEF LayoutIInv, FileFollowed
<1>6. /\ UNCHANGED <<locked, cancun, override>> /\ LockedModules' = LockedModules
      /\ \A v : Item(v)' = Item(v)
      /\ \A loc : At(loc)' = At(loc)
  BY <1>1, SameInputs, InputsFix
<1>7. /\ \A v \in P \cap At("storage") : position[v] = override.slots[v]
      /\ ~cancun => \A m \in H \cap locked : key[m] = override.lock
      /\ \A s \in DOMAIN occupied :
           \/ s = override.lock /\ occupied[s] = LockName /\ ~cancun /\ LockedModules # {}
           \/ \E v \in P \cap At("storage") : s \in Slots(override.slots[v], Item(v).size)
  BY <1>2 DEF FileFollowed
<1>8. CASE Item(c).location # "storage" /\ Advance /\ UNCHANGED <<stage, next_slot, occupied, position, key>>
  <2>1. Q \cap At("storage") = P \cap At("storage")
    BY <1>3, <1>8 DEF At
  <2>2. FileFollowed(Q, H)'
    BY <1>5, <1>6, <1>7, <1>8, <2>1 DEF FileFollowed, LockName, Slots
  <2> QED
    BY <1>1, <1>8, <2>2, WithinOverride
<1>9. CASE /\ Item(c).location = "storage"
           /\ c \in DOMAIN override.slots
           /\ Reservable(range)
           /\ Reserve(range, c)
           /\ position' = [position EXCEPT ![c] = override.slots[c]]
           /\ Advance
           /\ UNCHANGED <<stage, next_slot, key>>
  <2>1. c \in At("storage") /\ c \in Q \cap At("storage") /\ P \cap At("storage") \subseteq Q \cap At("storage")
    BY <1>3, <1>4, <1>9 DEF At
  <2>2. /\ DOMAIN occupied' = DOMAIN occupied \cup range
        /\ \A s \in DOMAIN occupied : s \notin range /\ occupied'[s] = occupied[s]
    BY <1>9 DEF Reserve, Reservable
  <2>3. ASSUME NEW s \in DOMAIN occupied'
        PROVE  \/ s = override.lock /\ occupied'[s] = LockName /\ ~cancun /\ LockedModules # {}
               \/ \E v \in Q \cap At("storage") : s \in Slots(override.slots[v], Item(v).size)
    <3>1. CASE s \in range
      BY <1>3, <2>1, <3>1
    <3>2. CASE s \in DOMAIN occupied
      BY <1>7, <2>1, <2>2, <3>2
    <3> QED
      BY <2>2, <3>1, <3>2
  <2>4. ASSUME NEW v \in Q \cap At("storage")
        PROVE  position'[v] = override.slots[v]
    <3>1. position \in [AllItems -> Int] /\ v \in AllItems
      BY DeclarationFacts DEF LayoutIInv, TypeOK, At
    <3>2. CASE v = c
      BY <1>9, <3>1, <3>2
    <3>3. CASE v # c
      <4>1. position[v] = override.slots[v]
        BY <1>3, <1>7, <3>3
      <4> QED
        BY <1>9, <3>1, <3>3, <4>1
    <3> QED
      BY <3>2, <3>3
  <2>5. FileFollowed(Q, H)'
    BY <1>5, <1>6, <1>7, <1>9, <2>3, <2>4 DEF FileFollowed, LockName, Slots
  <2> QED
    BY <1>1, <1>9, <2>5, WithinOverride
<1>10. CASE /\ Item(c).location = "storage"
            /\ ~(c \in DOMAIN override.slots /\ Reservable(range))
            /\ Reject("StorageLayoutException")
  <2>1. ASSUME GoodOverride
        PROVE  FALSE
    <3>1. c \in Placed \cap At("storage")
      BY <1>4, <1>10 DEF At
    <3>2. /\ DOMAIN override.slots = Placed \cap At("storage")
          /\ range \subseteq 0 .. (MaxSlot - 1)
          /\ \A v \in Placed \cap At("storage") :
               v # c => Slots(override.slots[v], Item(v).size) \cap range = {}
          /\ ~cancun /\ LockedModules # {} => override.lock \notin range
      BY <1>3, <2>1, <3>1 DEF GoodOverride
    <3>3. ASSUME NEW s \in range
          PROVE  s >= 0 /\ s < MaxSlot /\ s \notin DOMAIN occupied
      <4>1. s \in 0 .. (MaxSlot - 1)
        BY <3>2
      <4>2. s >= 0 /\ s < MaxSlot
        BY <4>1, MaxSlotAssumption
      <4>3. s \notin DOMAIN occupied
        BY <1>4, <1>7, <3>2
      <4> QED
        BY <4>2, <4>3
    <3>4. Reservable(range)
      BY <3>3 DEF Reservable
    <3> QED
      BY <1>10, <3>1, <3>2, <3>4
  <2> QED
    BY <1>1, <1>10, <2>1, RejectedFate
<1> QED
  BY <1>3, <1>8, <1>9, <1>10 DEF OverrideSlot

LEMMA OverrideDoneKeepsFiles ==
  ASSUME LayoutIInv, FilesIInv, OverrideDone
  PROVE  FilesIInv'
<1>1. /\ stage = "override" /\ walk = <<>> /\ stage' = "export"
      /\ UNCHANGED <<inputs, walk, next_slot, occupied, position, key>>
  BY DEF OverrideDone
<1>2. PICK P, H : FileFollowed(P, H)
  BY <1>1 DEF FilesIInv, Following
<1>3. /\ Overridden' = Overridden /\ GoodOverride' = GoodOverride /\ VariablesFit' = VariablesFit
      /\ OverrideShaped' = OverrideShaped /\ upgraded' = upgraded
      /\ UNCHANGED program
  BY <1>1, SameInputs, InputsFix DEF inputs
<1>4. Overridden
  BY <1>1 DEF LayoutIInv, WalkTyped
<1>5. Walked(P, H)'
  BY <1>1, <1>2, <1>3, WalkedSame DEF FileFollowed
<1>6. FileFollowed(P, H)'
  BY <1>1, <1>2, <1>5, FollowedSame
<1>7. Fate' /\ ~Laying'
  BY <1>1, <1>3, <1>4 DEF FilesIInv, Fate, Errors, Laying
<1> QED
  BY <1>3, <1>6, <1>7 DEF FilesIInv

(* What a good file says is what the export finds. *)
LEMMA ExportAgrees ==
  ASSUME LayoutIInv, OverrideShaped, Overridden, GoodOverride, walk = <<>>,
         NEW P, NEW H, FileFollowed(P, H)
  PROVE  Layout = override
<1>1. P = Placed /\ H = Tree
  BY WalkedBounds DEF LayoutIInv, FileFollowed
<1>2. DOMAIN override.slots = Placed \cap At("storage")
  BY DEF GoodOverride
<1>3. [v \in Placed \cap At("storage") |-> position[v]] = override.slots
  <2>1. \A v \in Placed \cap At("storage") : position[v] = override.slots[v]
    BY <1>1 DEF FileFollowed
  <2>2. override.slots = [v \in Placed \cap At("storage") |-> override.slots[v]]
    BY <1>2 DEF OverrideShaped
  <2> QED
    BY <2>1, <2>2
<1>4. (IF cancun \/ LockedModules = {} THEN Unset ELSE key[CHOOSE m \in LockedModules : TRUE]) = override.lock
  <2>1. CASE cancun \/ LockedModules = {}
    BY <2>1 DEF GoodOverride
  <2>2. CASE ~(cancun \/ LockedModules = {})
    <3>1. (CHOOSE m \in LockedModules : TRUE) \in LockedModules
      BY <2>2
    <3>2. (CHOOSE m \in LockedModules : TRUE) \in H \cap locked
      BY <1>1, <3>1 DEF LockedModules
    <3> QED
      BY <2>2, <3>2 DEF FileFollowed
  <2> QED
    BY <2>1, <2>2
<1> QED
  BY <1>3, <1>4 DEF Layout, OverrideShaped

LEMMA ExportKeepsFiles ==
  ASSUME LayoutIInv, FilesIInv, Export
  PROVE  FilesIInv'
<1>1. /\ stage = "export" /\ walk = <<>> /\ UNCHANGED <<inputs, walk, next_slot, occupied, position, key>>
      /\ stage' = (IF Overridden /\ Layout # override THEN "CompilerPanic" ELSE "done")
  BY DEF Export, FilesIInv, Fate
<1>2. /\ Overridden' = Overridden /\ GoodOverride' = GoodOverride /\ VariablesFit' = VariablesFit
      /\ OverrideShaped' = OverrideShaped /\ upgraded' = upgraded
      /\ UNCHANGED program /\ UNCHANGED override
  BY <1>1, SameInputs, InputsFix DEF inputs
<1>3. Layout' = Layout
  <2>1. /\ (Placed \cap At("storage"))' = Placed \cap At("storage")
        /\ LockedModules' = LockedModules /\ UNCHANGED <<cancun, key, position>>
    BY <1>1, SameInputs, InputsFix
  <2> QED
    BY <2>1 DEF Layout, Unset
<1>4. CASE Overridden
  <2>1. PICK P, H : FileFollowed(P, H)
    BY <1>1, <1>4 DEF FilesIInv, Following
  <2>2. GoodOverride => Layout = override
    BY <1>1, <1>4, <2>1, ExportAgrees DEF FilesIInv
  <2>3. Walked(P, H)'
    BY <1>1, <1>2, <2>1, WalkedSame DEF FileFollowed
  <2>4. FileFollowed(P, H)'
    BY <1>1, <2>1, <2>3, FollowedSame
  <2>5. Fate' /\ ~Laying'
    BY <1>1, <1>2, <1>3, <1>4, <2>2 DEF FilesIInv, Fate, Errors, Laying
  <2> QED
    BY <1>2, <2>4, <2>5 DEF FilesIInv
<1>5. CASE ~Overridden
  <2>1. PICK P, H : LaidOut(P, H)
    BY <1>1, <1>5 DEF FilesIInv, Laying
  <2>2. Walked(P, H)'
    BY <1>1, <1>2, <2>1, WalkedSame DEF LaidOut
  <2>3. LaidOut(P, H)'
    BY <1>1, <2>1, <2>2, LaidOutSame
  <2>4. Fate' /\ ~Following'
    BY <1>1, <1>2, <1>5 DEF FilesIInv, Fate, Errors, Following
  <2> QED
    BY <1>2, <2>3, <2>4 DEF FilesIInv
<1> QED
  BY <1>4, <1>5

LEMMA UpgradeKeepsFiles ==
  ASSUME LayoutIInv, FilesIInv, Upgrade
  PROVE  FilesIInv'
<1>1. /\ stage = "done" /\ ~Overridden /\ walk = <<>> /\ override' = Layout /\ stage' = "layout"
      /\ walk' = <<<<Main, 0>>>> /\ occupied' = <<>>
      /\ next_slot' = [loc \in Locations |-> FirstSlot(loc)]
      /\ UNCHANGED <<program, locked, cancun>>
  BY DEF Upgrade, FilesIInv, Fate
<1>2. PICK P, H : LaidOut(P, H)
  BY <1>1 DEF FilesIInv, Laying
<1>3. P = Placed /\ H = Tree
  BY <1>1, <1>2, WalkedBounds DEF LayoutIInv, LaidOut
<1>4. /\ Variables' = Variables /\ \A v : Item(v)' = Item(v)
      /\ \A loc : At(loc)' = At(loc)
      /\ Placed' = Placed /\ LockedModules' = LockedModules
      /\ \A loc : FirstSlot(loc)' = FirstSlot(loc)
  BY <1>1, SameProgram, SameTree DEF At, Placed, LockedModules, FirstSlot, KeyLocation
<1>5. \A S : SumSizes(S)' = SumSizes(S)
  <2>1. ASSUME NEW S
        PROVE  SumSizes(S)' = SumSizes(S)
    BY <1>1, SumSame
  <2> QED
    BY <2>1
<1>6. /\ override'.present = TRUE
      /\ override'.slots = [v \in Placed \cap At("storage") |-> position[v]]
      /\ override'.lock = IF cancun \/ LockedModules = {} THEN Unset
                           ELSE key[CHOOSE m \in LockedModules : TRUE]
      /\ override' = [present |-> TRUE, slots |-> override'.slots, lock |-> override'.lock]
  BY <1>1 DEF Layout
<1>7. Overridden' /\ OverrideShaped'
  BY <1>6 DEF Overridden, OverrideShaped
<1>8. VariablesFit'
  <2>1. ASSUME NEW loc \in Locations, Placed \cap At(loc) # {}
        PROVE  FirstSlot(loc) + Used(Placed, loc) < Limit(loc)
    BY <1>1, <1>2, <1>3, <2>1 DEF LaidOut, CountersExact
  <2>2. ASSUME NEW loc
        PROVE  Used(Placed, loc)' = Used(Placed, loc)
    <3>1. PICK S : S = Placed \cap At(loc)
      OBVIOUS
    <3>2. Used(Placed, loc) = SumSizes(S) /\ Used(Placed, loc)' = SumSizes(S)'
      BY <1>4, <3>1 DEF Used
    <3> QED
      BY <1>5, <3>2
  <2> QED
    BY <1>4, <2>1, <2>2 DEF VariablesFit, Limit
<1>9. GoodOverride'
  <2> DEFINE Wanted == Placed \cap At("storage")
             Given(v) == Slots(position[v], Item(v).size)
  <2>1. ASSUME NEW v \in Wanted
        PROVE  /\ v \in Variables /\ ByCounter(v) /\ position[v] # Unset /\ position[v] \in Int
               /\ Item(v).location = "storage" /\ Item(v).size \in Nat
               /\ FirstSlot("storage") <= position[v]
               /\ position[v] + Item(v).size <= next_slot["storage"]
    <3>1. v \in Variables /\ Item(v).location = "storage" /\ ByCounter(v)
      BY <1>1, <2>1 DEF At, ByCounter
    <3>2. position[v] # Unset
      BY <1>1, <1>2, <1>3, <2>1 DEF LaidOut
    <3>3. v \in AllItems /\ Item(v).size \in Nat
      BY <3>1, DeclarationFacts DEF LayoutIInv
    <3>4. position[v] \in Int
      BY <3>3 DEF LayoutIInv, TypeOK
    <3>5. /\ FirstSlot("storage") <= position[v]
          /\ position[v] + Item(v).size <= next_slot["storage"]
      BY <3>1, <3>2 DEF LayoutIInv, CountersApart
    <3> QED
      BY <3>1, <3>2, <3>3, <3>4, <3>5
  <2>2. ASSUME NEW v \in Wanted
        PROVE  Given(v) \subseteq 0 .. (MaxSlot - 1)
    <3>1. next_slot["storage"] < MaxSlot /\ next_slot["storage"] \in Nat
      BY <1>1, <1>2, <1>3, <2>2 DEF LaidOut, CountersExact, Limit, Locations, LayoutIInv, TypeOK
    <3>2. FirstSlot("storage") >= 0
      BY DEF FirstSlot, LockSlot
    <3>3. position[v] >= 0 /\ position[v] + Item(v).size - 1 < MaxSlot
          /\ position[v] \in Int /\ Item(v).size \in Nat
      BY <2>1, <3>1, <3>2, MaxSlotAssumption DEF FirstSlot, LockSlot
    <3> QED
      BY <3>3, MaxSlotAssumption DEF Slots
  <2>3. ASSUME NEW v \in Wanted, NEW w \in Wanted, v # w
        PROVE  Given(v) \cap Given(w) = {}
    <3>1. \/ position[v] + Item(v).size <= position[w]
          \/ position[w] + Item(w).size <= position[v]
      BY <2>1, <2>3 DEF LayoutIInv, CountersApart
    <3>2. /\ position[v] \in Int /\ position[w] \in Int
          /\ Item(v).size \in Nat /\ Item(w).size \in Nat
      BY <2>1
    <3> QED
      BY <3>1, <3>2 DEF Slots
  <2>4. ASSUME ~cancun, LockedModules # {}
        PROVE  /\ key[CHOOSE m \in LockedModules : TRUE] = LockSlot
               /\ LockSlot \in 0 .. (MaxSlot - 1)
               /\ \A v \in Wanted : LockSlot \notin Given(v)
    <3>1. (CHOOSE m \in LockedModules : TRUE) \in H \cap locked
      BY <1>3, <2>4 DEF LockedModules
    <3>2. key[CHOOSE m \in LockedModules : TRUE] = LockSlot
      BY <1>1, <1>2, <3>1 DEF LaidOut
    <3>3. FirstSlot("storage") = LockSlot + 1
      BY <2>4 DEF FirstSlot, KeyLocation
    <3>4. ASSUME NEW v \in Wanted
          PROVE  LockSlot \notin Given(v)
      BY <2>1, <3>3 DEF Slots, LockSlot
    <3> QED
      BY <3>2, <3>4, MaxSlotAssumption DEF LockSlot
  <2>5. Wanted' = Wanted
    BY <1>4
  <2>6. \A v \in Wanted : Slots(override.slots[v], Item(v).size)' = Given(v)
    BY <1>4, <1>6 DEF Slots
  <2>7. DOMAIN override'.slots = Wanted
    BY <1>6
  <2>8. cancun' = cancun
    BY <1>1
  <2>9. IF cancun \/ LockedModules = {} THEN override'.lock = Unset
        ELSE /\ override'.lock \in 0 .. (MaxSlot - 1)
             /\ \A v \in Wanted : override'.lock \notin Given(v)
    BY <1>6, <2>4
  <2> HIDE DEF Wanted, Given
  <2>10. /\ \A v \in Wanted : Slots(override'.slots[v], Item(v)'.size) = Given(v)
         /\ Wanted = (Placed \cap At("storage"))' /\ LockedModules' = LockedModules
    BY <1>4, <1>6, <2>5, <2>6 DEF Given, Wanted, Slots
  <2> QED
    BY <2>2, <2>3, <2>7, <2>8, <2>9, <2>10 DEF GoodOverride, Unset, Slots
<1>10. Fate' /\ ~Following'
  BY <1>1, <1>7, <1>8, <1>9 DEF Fate, Errors, Following
<1>11. LaidOut({}, {})'
  <2>1. Walked({}, {})'
    BY <1>1, RestartWalked DEF LayoutIInv
  <2>2. \A loc : Used({}, loc)' = 0
    <3>1. \A loc : {} \cap At(loc)' = {}
      OBVIOUS
    <3>2. SumSizes({})' = 0
      BY <1>5, SumFacts DEF LayoutIInv
    <3> QED
      BY <3>1, <3>2 DEF Used
  <2>3. \A loc \in Locations : FirstSlot(loc) \in Nat
    BY DEF FirstSlot, LockSlot
  <2>4. CountersExact({})'
    BY <1>1, <1>4, <2>2, <2>3 DEF CountersExact
  <2>5. DOMAIN occupied' = {}
    BY <1>1
  <2> QED
    BY <2>1, <2>4, <2>5 DEF LaidOut, InOrder
<1> QED
  BY <1>7, <1>10, <1>11 DEF FilesIInv

LEMMA InitFiles ==
  ASSUME Init
  PROVE  FilesIInv
<1>1. /\ stage = "layout" /\ walk = <<<<Main, 0>>>> /\ occupied = <<>> /\ upgraded = FALSE
      /\ next_slot = [loc \in Locations |-> FirstSlot(loc)]
      /\ override \in OverrideFiles \cup {NoOverride}
  BY DEF Init
<1>2. LayoutIInv
  BY InitLayoutIInv
<1>3. OverrideShaped
  <2>1. CASE override = NoOverride
    BY <2>1 DEF OverrideShaped, Overridden, NoOverride
  <2>2. CASE override \in OverrideFiles
    <3>1. PICK f \in UNION {[V -> OverrideSlots] : V \in SUBSET At("storage")}, k \in OverrideSlots \cup {Unset} :
            override = [present |-> TRUE, slots |-> f, lock |-> k]
      BY <2>2 DEF OverrideFiles
    <3>2. f = [v \in DOMAIN f |-> f[v]]
      OBVIOUS
    <3> QED
      BY <3>1, <3>2 DEF OverrideShaped
  <2> QED
    BY <1>1, <2>1, <2>2
<1>4. Fate /\ ~Following
  BY <1>1 DEF Fate, Errors, Following
<1>5. LaidOut({}, {})
  <2>1. Walked({}, {})
    BY <1>1, <1>2, StartWalked DEF LayoutIInv
  <2>2. \A loc : Used({}, loc) = 0
    BY <1>2, UsedFacts DEF LayoutIInv
  <2>3. \A loc \in Locations : FirstSlot(loc) \in Nat
    BY DEF FirstSlot, LockSlot
  <2>4. CountersExact({})
    BY <1>1, <2>2, <2>3 DEF CountersExact
  <2>5. DOMAIN occupied = {}
    BY <1>1
  <2> QED
    BY <2>1, <2>4, <2>5 DEF LaidOut, InOrder
<1> QED
  BY <1>3, <1>4, <1>5 DEF FilesIInv

LEMMA StutterKeepsFiles ==
  ASSUME LayoutIInv, FilesIInv, UNCHANGED vars
  PROVE  FilesIInv'
<1>1. UNCHANGED <<inputs, stage, walk, next_slot, occupied, position, key>>
  BY DEF vars, inputs
<1>2. /\ Overridden' = Overridden /\ GoodOverride' = GoodOverride /\ VariablesFit' = VariablesFit
      /\ OverrideShaped' = OverrideShaped /\ upgraded' = upgraded
      /\ UNCHANGED program /\ UNCHANGED override
  BY <1>1, SameInputs, InputsFix DEF inputs
<1>3. Layout' = Layout
  <2>1. /\ (Placed \cap At("storage"))' = Placed \cap At("storage")
        /\ LockedModules' = LockedModules /\ UNCHANGED <<cancun, key, position>>
    BY <1>1, SameInputs, InputsFix
  <2> QED
    BY <2>1 DEF Layout, Unset
<1>4. Fate'
  BY <1>1, <1>2, <1>3 DEF FilesIInv, Fate, Errors
<1>5. ASSUME Laying
      PROVE  \E P, H : LaidOut(P, H)'
  <2>1. PICK P, H : LaidOut(P, H)
    BY <1>5 DEF FilesIInv
  <2>2. Walked(P, H)'
    BY <1>1, <1>2, <2>1, WalkedSame DEF LaidOut
  <2>3. LaidOut(P, H)'
    BY <1>1, <2>1, <2>2, LaidOutSame
  <2> QED
    BY <2>3
<1>6. ASSUME Following
      PROVE  \E P, H : FileFollowed(P, H)'
  <2>1. PICK P, H : FileFollowed(P, H)
    BY <1>6 DEF FilesIInv
  <2>2. Walked(P, H)'
    BY <1>1, <1>2, <2>1, WalkedSame DEF FileFollowed
  <2>3. FileFollowed(P, H)'
    BY <1>1, <2>1, <2>2, FollowedSame
  <2> QED
    BY <2>3
<1>7. Laying' = Laying /\ Following' = Following
  BY <1>1, <1>2 DEF Laying, Following
<1> QED
  BY <1>2, <1>4, <1>5, <1>6, <1>7 DEF FilesIInv

LEMMA FilesInvariant == Spec => []FilesIInv
<1>1. ASSUME LayoutIInv, FilesIInv, [Next]_vars
      PROVE  FilesIInv'
  <2>1. CASE WalkModules
    BY <1>1, <2>1, WalkKeepsFiles
  <2>2. CASE TagFunctions
    BY <1>1, <2>2, TagKeepsFiles
  <2>3. CASE AllocateSlot
    BY <1>1, <2>3, AllocateKeepsFiles
  <2>4. CASE LayoutDone
    BY <1>1, <2>4, LayoutDoneKeepsFiles
  <2>5. CASE ReserveLock
    BY <1>1, <2>5, ReserveLockKeepsFiles
  <2>6. CASE OverrideSlot
    BY <1>1, <2>6, OverrideSlotKeepsFiles
  <2>7. CASE OverrideDone
    BY <1>1, <2>7, OverrideDoneKeepsFiles
  <2>8. CASE Export
    BY <1>1, <2>8, ExportKeepsFiles
  <2>9. CASE Upgrade
    BY <1>1, <2>9, UpgradeKeepsFiles
  <2>10. CASE Ended \/ UNCHANGED vars
    BY <1>1, <2>10, StutterKeepsFiles DEF Ended
  <2> QED
    BY <1>1, <2>1, <2>2, <2>3, <2>4, <2>5, <2>6, <2>7, <2>8, <2>9, <2>10 DEF Next, Work
<1>2. LayoutIInv /\ FilesIInv /\ [Next]_vars => FilesIInv'
  BY <1>1
<1>3. Init => FilesIInv
  BY InitFiles
<1> QED
  BY <1>2, <1>3, LayoutInvariant, PTL DEF Spec

-----------------------------------------------------------------------------
(* What the second invariant shows.                                          *)

(* An override file that gives every storage variable a range of its own,    *)
(* and the lock a slot of its own where it needs one, is accepted: neither   *)
(* is one of its slots found taken, nor does the comparison with the exported*)
(* layout panic, whatever the tree of modules.                               *)
THEOREM GoodFilesAccepted == Spec => []GoodOverrideAccepted
<1>1. FilesIInv => GoodOverrideAccepted
  BY DEF FilesIInv, Fate, GoodOverrideAccepted, OthersFit, VariablesFit, Used
<1> QED
  BY <1>1, FilesInvariant, PTL

(* A contract that was compiled can be compiled again with its exported      *)
(* layout as the override file: it is accepted, and the layout exported then *)
(* is the same.                                                              *)
THEOREM UpgradesMoveNothing == Spec => []UpgradeKeepsLayout
<1>1. FilesIInv => UpgradeKeepsLayout
  BY DEF FilesIInv, Fate, UpgradeKeepsLayout
<1> QED
  BY <1>1, FilesInvariant, PTL

(* Without an override file a variable of the contract lies at the slot that *)
(* the variables declared before it take, those of the modules initialized   *)
(* before it included, behind the slot of the lock: whether a function takes *)
(* the lock moves nothing.                                                   *)
THEOREM LockMovesNothing == Spec => []LayoutIgnoresLock
<1>1. ASSUME LayoutIInv, FilesIInv, stage = "done", ~Overridden, NEW v \in Items(Main) \cap Variables
      PROVE  position[v] = (IF Item(v).location = KeyLocation THEN 1 ELSE 0)
                             + SumSizes(Before[Main][v[2]] \cap At(Item(v).location))
  <2>1. PICK P, H : LaidOut(P, H)
    BY <1>1 DEF FilesIInv, Laying
  <2>2. walk = <<>> /\ v[1] = Main
    BY <1>1 DEF FilesIInv, Fate, Items
  <2>3. P = Placed
    BY <1>1, <2>1, <2>2, WalkedBounds DEF LayoutIInv, LaidOut
  <2>4. Main \in Tree
    BY <1>1, ModulesAssumption, InTreeFacts DEF LayoutIInv, Tree
  <2>5. v \in P /\ InOrder(P)
    BY <1>1, <2>1, <2>2, <2>3, <2>4 DEF LaidOut, Placed
  <2> QED
    BY <2>2, <2>5 DEF InOrder, FirstSlot, LockSlot, Used
<1>2. LayoutIInv /\ FilesIInv => LayoutIgnoresLock
  BY <1>1 DEF LayoutIgnoresLock
<1> QED
  BY <1>2, LayoutInvariant, FilesInvariant, PTL
=============================================================================
