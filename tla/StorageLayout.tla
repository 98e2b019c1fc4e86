---------------------------- MODULE StorageLayout ----------------------------
(***************************************************************************)
(* Positions of state variables (semantics/analysis/data_positions.py).    *)
(*                                                                         *)
(* set_data_positions walks the module tree: the state variables of a      *)
(* module and the modules it initializes, in the order of its body.        *)
(* Without an override file every variable takes the next free slot of its *)
(* location, the reentrancy lock having taken the first slot of its own.   *)
(* With an override file, storage variables and a lock that lives in       *)
(* storage take the slots the file gives them, checked for collisions by   *)
(* OverridingStorageAllocator; the other locations are laid out as before. *)
(* At the end the layout is exported and compared with the file.           *)
(*                                                                         *)
(* The walk is recursive in the code; here `walk` is its stack.  A compiled*)
(* contract may be compiled again with its exported layout as the override *)
(* file (Upgrade), which is what the export is for.                        *)
(***************************************************************************)
EXTENDS Integers, Sequences, FiniteSetsExt

CONSTANTS
  ModuleIds,        \* the contract and the modules initialized in it
  Main,             \* the compilation target
  Programs,         \* module trees: functions from ModuleIds to bodies
  MaxSlot,          \* number of slots of storage and transient storage, 2**256
  CodeLimit,        \* limit of the immutables section, 0x6000
  OverrideSlots     \* slots an override file may mention

Locations == {"storage", "transient", "code"}
Unset == -1

ASSUME ModulesAssumption == Main \in ModuleIds /\ IsFiniteSet(ModuleIds)
ASSUME MaxSlotAssumption == MaxSlot \in Nat \ {0} /\ CodeLimit \in Nat
ASSUME OverrideAssumption == OverrideSlots \subseteq Int

(* The body of a module: its state variables and what it initializes. *)
Declarations ==
  [kind : {"variable"}, location : Locations, size : Nat]
  \cup [kind : {"initializes"}, module : ModuleIds]

ASSUME ProgramsAssumption == Programs \subseteq [ModuleIds -> Seq(Declarations)]

(* The analysis before has rejected contracts that initialize a module twice *)
(* (_collect_initialized_modules_r) and imports in a circle.                 *)
InitializedAt(p, m) ==
  UNION {{<<k, j>> : j \in {x \in 1 .. Len(p[k]) : p[k][x].kind = "initializes" /\ p[k][x].module = m}}
         : k \in ModuleIds}

ASSUME TreesAssumption ==
  \A p \in Programs :
    /\ InitializedAt(p, Main) = {}
    /\ \A m \in ModuleIds : \A v, w \in InitializedAt(p, m) : v = w

VARIABLES
  program,          \* bodies of the modules: variables and `initializes`
  locked,           \* modules with a @nonreentrant function
  cancun,           \* is the EVM version at least cancun?
  override,         \* the override file, or NoOverride
  upgraded,         \* does the override file come from an export?
  stage,            \* "layout", "override", "export", "done" or an error
  walk,             \* <<module, position in its body>>, outermost first;
                    \* position 0 stands for the functions of the module
  next_slot,        \* _slot of the allocator of each location
  occupied,         \* occupied_slots: who has reserved each slot
  position,         \* VarInfo.position of each variable
  key               \* reentrancy_key_position of the functions of each module

vars == <<program, locked, cancun, override, upgraded, stage, walk, next_slot, occupied, position, key>>
inputs == <<program, locked, cancun, override, upgraded>>

(* Variables are named by their module and their place in its body. *)
Items(m) == {<<m, k>> : k \in 1 .. Len(program[m])}
AllItems == UNION {Items(m) : m \in ModuleIds}
Item(v) == program[v[1]][v[2]]
Variables == {v \in AllItems : Item(v).kind = "variable"}
At(loc) == {v \in Variables : Item(v).location = loc}
LockName == <<Main, 0>>       \* GLOBAL_NONREENTRANT_KEY

KeyLocation == IF cancun THEN "transient" ELSE "storage"
Limit(loc) == IF loc = "code" THEN CodeLimit ELSE MaxSlot

Slots(first, n) == first .. (first + n - 1)

(* An override file names some storage variables, and perhaps the lock. *)
NoOverride == [present |-> FALSE, slots |-> <<>>, lock |-> Unset]

OverrideFiles ==
  {[present |-> TRUE, slots |-> f, lock |-> k] :
     f \in UNION {[V -> OverrideSlots] : V \in SUBSET At("storage")},
     k \in OverrideSlots \cup {Unset}}

Overridden == override.present

(* Storage and transient storage begin with the lock, wherever it lives, "so *)
(* that adding or removing reentrancy protection from a contract does not    *)
(* change its layout".                                                       *)
LockSlot == 0
(* Mutant: the slot is kept only if a function takes the lock.               *)
FirstSlotIfLocked(loc) == IF loc = KeyLocation /\ locked # {} THEN LockSlot + 1 ELSE 0

FirstSlot(loc) == IF loc = KeyLocation THEN LockSlot + 1 ELSE 0

Init ==
  /\ program \in Programs
  /\ locked \in SUBSET ModuleIds
  /\ cancun \in BOOLEAN
  /\ override \in OverrideFiles \cup {NoOverride}
  /\ upgraded = FALSE
  /\ stage = "layout"
  /\ walk = <<<<Main, 0>>>>
  /\ next_slot = [loc \in Locations |-> FirstSlot(loc)]
  /\ occupied = <<>>
  /\ position = [v \in AllItems |-> Unset]
  /\ key = [m \in ModuleIds |-> Unset]

Here == walk[Len(walk)][1]
Current == walk[Len(walk)]

AtFunctions(stg) == stage = stg /\ walk # <<>> /\ Current[2] = 0
AtItem(stg, kind) ==
  /\ stage = stg
  /\ walk # <<>>
  /\ Current[2] \in 1 .. Len(program[Here])
  /\ Item(Current).kind = kind
AtEnd(stg) == stage = stg /\ walk # <<>> /\ Current[2] > Len(program[Here])

Advance == walk' = [walk EXCEPT ![Len(walk)] = <<Here, Current[2] + 1>>]

(* `initializes: m`: the walk descends, and comes back when m is done. *)
Enter(stg) ==
  /\ AtItem(stg, "initializes")
  /\ walk' = [walk EXCEPT ![Len(walk)] = <<Here, Current[2] + 1>>]
               \o <<<<Item(Current).module, 0>>>>

Leave(stg) ==
  /\ AtEnd(stg)
  /\ walk' = SubSeq(walk, 1, Len(walk) - 1)

WalkModules ==
  /\ \/ Enter("layout") \/ Leave("layout")
     \/ Enter("override") \/ Leave("override")
  /\ UNCHANGED <<inputs, stage, next_slot, occupied, position, key>>

Reject(error) == stage' = error /\ UNCHANGED <<walk, next_slot, occupied, position, key>>

-----------------------------------------------------------------------------
TaggedByLayout(m) == m \in locked /\ (~Overridden \/ cancun)

(* _allocate_layout_r: the functions of a module share the lock's slot,      *)
(* unless an override file is to decide about it.                            *)
TagFunctions ==
  /\ AtFunctions("layout")
  /\ key' = IF TaggedByLayout(Here)
            THEN [key EXCEPT ![Here] = LockSlot] ELSE key
  /\ Advance
  /\ UNCHANGED <<inputs, stage, next_slot, occupied, position>>

Fits(loc, size) == next_slot[loc] + size < Limit(loc)

AllocateSlot ==
  /\ AtItem("layout", "variable")
  /\ LET loc  == Item(Current).location
         size == Item(Current).size
     IN  \/ /\ Overridden /\ loc = "storage"       \* no_storage
            /\ Advance
            /\ UNCHANGED <<stage, next_slot, occupied, position, key>>
         \/ /\ ~(Overridden /\ loc = "storage")
            /\ Fits(loc, size)
            /\ next_slot' = [next_slot EXCEPT ![loc] = @ + size]
            /\ position' = [position EXCEPT ![Current] = next_slot[loc]]
            /\ Advance
            /\ UNCHANGED <<stage, occupied, key>>
         \/ /\ ~(Overridden /\ loc = "storage")
            /\ ~Fits(loc, size)
            /\ Reject("StorageLayoutException")
  /\ UNCHANGED inputs

LayoutDone ==
  /\ stage = "layout"
  /\ walk = <<>>
  /\ stage' = IF Overridden THEN "override" ELSE "export"
  /\ walk' = IF Overridden THEN <<<<Main, 0>>>> ELSE walk
  /\ UNCHANGED <<inputs, next_slot, occupied, position, key>>

-----------------------------------------------------------------------------
(* Mutant: slots can be reserved twice.                                      *)
ReservableTwice(S) == \A s \in S : s >= 0 /\ s < MaxSlot

(* Mutant: the last slot cannot be reserved.                                 *)
ReservableBelowLast(S) == \A s \in S : s >= 0 /\ s < MaxSlot - 1 /\ s \notin DOMAIN occupied

(* reserve_slot_range: the slots of a range are all within bounds and free,  *)
(* or the compilation ends at the first that is not.                         *)
Reservable(S) == \A s \in S : s >= 0 /\ s < MaxSlot /\ s \notin DOMAIN occupied

Reserve(S, name) ==
  occupied' = [s \in DOMAIN occupied \cup S |-> IF s \in S THEN name ELSE occupied[s]]

(* Mutant: each module reserves the slot of the lock anew.                   *)
LockReservedNever == FALSE

(* The lock may have its slot already, on account of another module.         *)
LockReserved == override.lock \in DOMAIN occupied /\ occupied[override.lock] = LockName

ReserveLock ==
  /\ AtFunctions("override")
  /\ \/ /\ Here \notin locked \/ cancun
        /\ Advance
        /\ UNCHANGED <<stage, next_slot, occupied, position, key>>
     \/ /\ Here \in locked /\ ~cancun
        /\ override.lock # Unset
        /\ \/ LockReserved /\ UNCHANGED occupied
           \/ ~LockReserved /\ Reservable({override.lock}) /\ Reserve({override.lock}, LockName)
        /\ key' = [key EXCEPT ![Here] = override.lock]
        /\ Advance
        /\ UNCHANGED <<stage, next_slot, position>>
     \/ /\ Here \in locked /\ ~cancun
        /\ \/ override.lock = Unset
           \/ ~LockReserved /\ ~Reservable({override.lock})
        /\ Reject("StorageLayoutException")
  /\ UNCHANGED inputs

OverrideSlot ==
  /\ AtItem("override", "variable")
  /\ LET v     == Current
         named == v \in DOMAIN override.slots
         range == Slots(override.slots[v], Item(v).size)
     IN  \/ /\ Item(v).location # "storage"
            /\ Advance
            /\ UNCHANGED <<stage, next_slot, occupied, position, key>>
         \/ /\ Item(v).location = "storage"
            /\ named
            /\ Reservable(range)
            /\ Reserve(range, v)
            /\ position' = [position EXCEPT ![v] = override.slots[v]]
            /\ Advance
            /\ UNCHANGED <<stage, next_slot, key>>
         \/ /\ Item(v).location = "storage"
            /\ ~(named /\ Reservable(range))
            /\ Reject("StorageLayoutException")
  /\ UNCHANGED inputs

OverrideDone ==
  /\ stage = "override"
  /\ walk = <<>>
  /\ stage' = "export"
  /\ UNCHANGED <<inputs, walk, next_slot, occupied, position, key>>

-----------------------------------------------------------------------------
(* generate_layout_export: the variables of the storage layout, and the lock *)
(* if it lives in storage and some function takes it.  The lock of an inner  *)
(* module is lifted to the top of the layout, where the first one found      *)
(* stays.                                                                    *)
InTree[m \in ModuleIds] ==
  {m} \cup UNION {InTree[Item(v).module] : v \in {w \in Items(m) : Item(w).kind = "initializes"}}

Tree == InTree[Main]
Placed == {v \in Variables : v[1] \in Tree}
LockedModules == locked \cap Tree

Layout ==
  [present |-> TRUE,
   slots   |-> [v \in Placed \cap At("storage") |-> position[v]],
   lock    |-> IF cancun \/ LockedModules = {} THEN Unset
               ELSE key[CHOOSE m \in LockedModules : TRUE]]

(* The comparison of the exported layout with the file it came from. *)
Export ==
  /\ stage = "export"
  /\ stage' = IF Overridden /\ Layout # override THEN "CompilerPanic" ELSE "done"
  /\ UNCHANGED <<inputs, walk, next_slot, occupied, position, key>>

(* The contract is compiled again, with its exported layout as the override  *)
(* file.                                                                     *)
Upgrade ==
  /\ stage = "done"
  /\ ~Overridden
  /\ override' = Layout
  /\ upgraded' = TRUE
  /\ stage' = "layout"
  /\ walk' = <<<<Main, 0>>>>
  /\ next_slot' = [loc \in Locations |-> FirstSlot(loc)]
  /\ occupied' = <<>>
  /\ position' = [v \in AllItems |-> Unset]
  /\ key' = [m \in ModuleIds |-> Unset]
  /\ UNCHANGED <<program, locked, cancun>>

Errors == {"StorageLayoutException", "CompilerPanic"}

Ended ==
  /\ stage \in Errors \/ (stage = "done" /\ Overridden)
  /\ UNCHANGED vars

Work ==
  \/ WalkModules
  \/ TagFunctions
  \/ AllocateSlot
  \/ LayoutDone
  \/ ReserveLock
  \/ OverrideSlot
  \/ OverrideDone
  \/ Export

Next == Work \/ Upgrade \/ Ended

Spec == Init /\ [][Next]_vars /\ WF_vars(Work)

-----------------------------------------------------------------------------
TypeOK ==
  /\ stage \in {"layout", "override", "export", "done"} \cup Errors
  /\ cancun \in BOOLEAN
  /\ upgraded \in BOOLEAN
  /\ locked \subseteq ModuleIds
  /\ \A k \in 1 .. Len(walk) : walk[k][1] \in ModuleIds /\ walk[k][2] \in Nat
  /\ next_slot \in [Locations -> Nat]
  /\ DOMAIN occupied \subseteq 0 .. (MaxSlot - 1)
  /\ \A s \in DOMAIN occupied : occupied[s] \in AllItems \cup {LockName}
  /\ position \in [AllItems -> Int]
  /\ key \in [ModuleIds -> Int]

Extent(v) == Slots(position[v], Item(v).size)

(* No two variables of a location share a slot, and no variable has the slot *)
(* of a lock that some function takes, however the slots were chosen.        *)
NoOverlap ==
  /\ \A v, w \in Variables :
       (position[v] # Unset /\ position[w] # Unset /\ v # w /\ Item(v).location = Item(w).location)
         => Extent(v) \cap Extent(w) = {}
  /\ \A v \in At(KeyLocation), m \in ModuleIds :
       (position[v] # Unset /\ key[m] # Unset) => key[m] \notin Extent(v)

(* The variables that are declared before a place in the body of a module,   *)
(* those of the modules initialized there included.                          *)
Before[m \in ModuleIds] ==
  [k \in 1 .. Len(program[m]) + 1 |->
     UNION {IF Item(<<m, j>>).kind = "variable" THEN {<<m, j>>}
            ELSE LET sub == Item(<<m, j>>).module IN Before[sub][Len(program[sub]) + 1]
            : j \in 1 .. (k - 1)}]

SumSizes(S) == MapThenSumSet(LAMBDA v : Item(v).size, S)

(* The order of declaration alone decides about a layout without overrides:  *)
(* adding @nonreentrant to a contract, or taking it away, moves nothing.     *)
LayoutIgnoresLock ==
  (stage = "done" /\ ~Overridden) =>
    \A v \in Items(Main) \cap Variables :
      position[v] = (IF Item(v).location = KeyLocation THEN 1 ELSE 0)
                      + SumSizes(Before[Main][v[2]] \cap At(Item(v).location))

(* A file without collisions: each storage variable has a range of its own,  *)
(* and the lock a slot of its own if it needs one there.                     *)
GoodOverride ==
  LET Wanted == Placed \cap At("storage")
      Given(v) == Slots(override.slots[v], Item(v).size)
  IN  /\ DOMAIN override.slots = Wanted
      /\ \A v \in Wanted : Given(v) \subseteq 0 .. (MaxSlot - 1)
      /\ \A v, w \in Wanted : v # w => Given(v) \cap Given(w) = {}
      /\ IF cancun \/ LockedModules = {} THEN override.lock = Unset
         ELSE /\ override.lock \in 0 .. (MaxSlot - 1)
              /\ \A v \in Wanted : override.lock \notin Given(v)

OthersFit ==
  \A loc \in Locations \ {"storage"} :
    FirstSlot(loc) + SumSizes(Placed \cap At(loc)) < Limit(loc)

(* Such a file is not rejected, nor does its sanity check panic.             *)
GoodOverrideAccepted ==
  (stage \in Errors /\ Overridden /\ OthersFit) => ~GoodOverride

(* A contract can be compiled again with its exported layout as the override *)
(* file, and nothing moves: neither a variable nor the lock.                 *)
UpgradeKeepsLayout ==
  upgraded => stage \notin Errors /\ (stage = "done" => Layout = override)

=============================================================================
