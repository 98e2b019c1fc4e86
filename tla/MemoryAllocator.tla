--------------------------- MODULE MemoryAllocator ---------------------------
(***************************************************************************)
(* The allocator of a function's memory frame (codegen/memory_allocator.py):*)
(* first fit in a sorted free list, then growth of the frame; on           *)
(* deallocation the block is inserted in the list, adjacent entries are    *)
(* merged by one left-to-right scan, and the frame shrinks when its last   *)
(* entry is free.                                                          *)
(*                                                                         *)
(* deallocate_memory runs the scan as a loop: `pc` is "merge" while it     *)
(* runs, and nothing else can happen until it is over, for the compiler is *)
(* sequential.  Python's index i of the loop is `i` here, counted from 1;  *)
(* its variable `active` is always the entry before the one at i.          *)
(***************************************************************************)
EXTENDS Integers, Sequences

CONSTANTS
  Handles,          \* callers' variables; as many blocks can be live at once
  Sizes,            \* sizes in bytes that callers ask for
  StartPosition,    \* start_position of MemoryAllocator.__init__
  AllocationLimit   \* _ALLOCATION_LIMIT, 2**64 in the code

Word == 32

ASSUME SizesAssumption == Sizes \subseteq Nat
ASSUME StartAssumption == StartPosition \in Nat
ASSUME LimitAssumption == AllocationLimit \in Nat

VARIABLES
  next_mem,         \* the free memory pointer
  size_of_mem,      \* its high-water mark: the size of the frame
  deallocated_mem,  \* the free list
  live,             \* handles that hold a block
  block,            \* what allocate_memory returned to each of them
  pc,               \* "idle", "merge", or how the compilation was aborted
  i                 \* loop index of the merging scan

vars == <<next_mem, size_of_mem, deallocated_mem, live, block, pc, i>>

FreeMemory == [position : Nat, size : Nat]

NoBlock == [position |-> 0, size |-> 0]

Bytes(b) == b.position .. (b.position + b.size - 1)

Disjoint(a, b) ==
  \/ a.size = 0
  \/ b.size = 0
  \/ a.position + a.size <= b.position
  \/ b.position + b.size <= a.position

Drop(s, k) == [j \in 1 .. (Len(s) - 1) |-> IF j < k THEN s[j] ELSE s[j + 1]]

Init ==
  /\ next_mem = StartPosition
  /\ size_of_mem = StartPosition
  /\ deallocated_mem = <<>>
  /\ live = {}
  /\ block = [h \in Handles |-> NoBlock]
  /\ pc = "idle"
  /\ i = 1

Granted(h, b) ==
  /\ live' = live \cup {h}
  /\ block' = [block EXCEPT ![h] = b]

(* Mutant: the entry gets smaller but goes on offering its first bytes.      *)
PartiallyAllocateInPlace(k, size) ==
  deallocated_mem' = [deallocated_mem EXCEPT ![k].size = @ - size]

(* FreeMemory.partially_allocate: the entry gives away its first bytes. *)
PartiallyAllocate(k, size) ==
  deallocated_mem' =
    [deallocated_mem EXCEPT ![k] = [position |-> @.position + size,
                                    size     |-> @.size - size]]

(* The first entry that is large enough is used, wholly or from its start. *)
AllocateFromFreeList(h, size) ==
  /\ pc = "idle"
  /\ h \notin live
  /\ size % Word = 0
  /\ \E k \in 1 .. Len(deallocated_mem) :
       /\ deallocated_mem[k].size >= size
       /\ \A j \in 1 .. (k - 1) : deallocated_mem[j].size < size
       /\ Granted(h, [position |-> deallocated_mem[k].position, size |-> size])
       /\ \/ /\ deallocated_mem[k].size = size
             /\ deallocated_mem' = Drop(deallocated_mem, k)
          \/ /\ deallocated_mem[k].size > size
             /\ PartiallyAllocate(k, size)
  /\ UNCHANGED <<next_mem, size_of_mem, pc, i>>

NothingFits(size) ==
  \A k \in 1 .. Len(deallocated_mem) : deallocated_mem[k].size < size

(* Mutant: the mark follows the pointer down.                                *)
HigherMarkForgotten(pointer) == pointer

HigherMark(pointer) == IF size_of_mem >= pointer THEN size_of_mem ELSE pointer

(* _expand_memory: both counters have moved when the limit is noticed.  The *)
(* exception is not caught anywhere: it ends the compilation.               *)
ExpandMemory(h, size) ==
  /\ pc = "idle"
  /\ h \notin live
  /\ size % Word = 0
  /\ NothingFits(size)
  /\ next_mem' = next_mem + size
  /\ size_of_mem' = HigherMark(next_mem + size)
  /\ \/ /\ size_of_mem' < AllocationLimit
        /\ Granted(h, [position |-> next_mem, size |-> size])
        /\ pc' = pc
     \/ /\ size_of_mem' >= AllocationLimit
        /\ pc' = "MemoryAllocationException"
        /\ UNCHANGED <<live, block>>
  /\ UNCHANGED <<deallocated_mem, i>>

(* Sizes that are no multiple of the word are a bug of the caller. *)
AllocateMisaligned(size) ==
  /\ pc = "idle"
  /\ size % Word # 0
  /\ pc' = "CompilerPanic"
  /\ UNCHANGED <<next_mem, size_of_mem, deallocated_mem, live, block, i>>

Orders(n) == {p \in [1 .. n -> 1 .. n] : \A m \in 1 .. n : \E j \in 1 .. n : p[j] = m}

(* The order p in which a stable sort by position arranges the entries of s.  *)
StableOrder(s, p) ==
  \A j, k \in DOMAIN s : j < k =>
    \/ s[p[j]].position < s[p[k]].position
    \/ s[p[j]].position = s[p[k]].position /\ p[j] < p[k]

(* append and sort.  The list may be out of order before: an empty entry     *)
(* that lies behind another at the same position is left behind when that    *)
(* one is partially allocated.                                               *)
Deallocate(h) ==
  /\ pc = "idle"
  /\ h \in live
  /\ LET n == Len(deallocated_mem) + 1
         appended == Append(deallocated_mem, block[h])
     IN  \E p \in Orders(n) :
           /\ StableOrder(appended, p)
           /\ deallocated_mem' = [j \in 1 .. n |-> appended[p[j]]]
  /\ live' = live \ {h}
  /\ block' = [block EXCEPT ![h] = NoBlock]
  /\ pc' = "merge"
  /\ i' = 2
  /\ UNCHANGED <<next_mem, size_of_mem>>

(* Mutant: the size of the wrong slot is added.                              *)
AdjacentBySecond(a, b) == b.position = a.position + b.size

Adjacent(a, b) == b.position = a.position + a.size

(* One round of the while loop. *)
MergeAdjacent ==
  /\ pc = "merge"
  /\ i <= Len(deallocated_mem)
  /\ Adjacent(deallocated_mem[i - 1], deallocated_mem[i])
  /\ deallocated_mem' =
       Drop([deallocated_mem EXCEPT ![i - 1] =
               [position |-> @.position, size |-> @.size + deallocated_mem[i].size]], i)
  /\ UNCHANGED <<next_mem, size_of_mem, live, block, pc, i>>

SkipApart ==
  /\ pc = "merge"
  /\ i <= Len(deallocated_mem)
  /\ ~Adjacent(deallocated_mem[i - 1], deallocated_mem[i])
  /\ i' = i + 1
  /\ UNCHANGED <<next_mem, size_of_mem, deallocated_mem, live, block, pc>>

(* Mutant: the last entry is dropped from the list on both paths.            *)
ReclaimForgetful ==
  /\ pc = "merge"
  /\ i > Len(deallocated_mem)
  /\ LET n == Len(deallocated_mem)
         last == deallocated_mem[n]
     IN  /\ next_mem' = IF last.position + last.size = next_mem
                        THEN last.position ELSE next_mem
         /\ deallocated_mem' = Drop(deallocated_mem, n)
  /\ pc' = "idle"
  /\ i' = 1
  /\ UNCHANGED <<size_of_mem, live, block>>

(* After the loop: shrink the frame if its end is free. *)
Reclaim ==
  /\ pc = "merge"
  /\ i > Len(deallocated_mem)
  /\ LET n    == Len(deallocated_mem)
         last == deallocated_mem[n]
     IN  \/ /\ last.position + last.size = next_mem
            /\ next_mem' = last.position
            /\ deallocated_mem' = Drop(deallocated_mem, n)
         \/ /\ last.position + last.size # next_mem
            /\ UNCHANGED <<next_mem, deallocated_mem>>
  /\ pc' = "idle"
  /\ i' = 1
  /\ UNCHANGED <<size_of_mem, live, block>>

Scan == MergeAdjacent \/ SkipApart \/ Reclaim

Aborted ==
  /\ pc \in {"MemoryAllocationException", "CompilerPanic"}
  /\ UNCHANGED vars

Next ==
  \/ \E h \in Handles, size \in Sizes : AllocateFromFreeList(h, size)
  \/ \E h \in Handles, size \in Sizes : ExpandMemory(h, size)
  \/ \E size \in Sizes : AllocateMisaligned(size)
  \/ \E h \in Handles : Deallocate(h)
  \/ Scan
  \/ Aborted

Spec == Init /\ [][Next]_vars

-----------------------------------------------------------------------------
(* Types of the variables. *)
TypeOK ==
  /\ next_mem \in Nat
  /\ size_of_mem \in Nat
  /\ deallocated_mem \in Seq(FreeMemory)
  /\ live \in SUBSET Handles
  /\ block \in [Handles -> FreeMemory]
  /\ pc \in {"idle", "merge", "MemoryAllocationException", "CompilerPanic"}
  /\ i \in Nat \ {0}

(* Two variables in use never share a byte of the frame. *)
LiveBlocksDisjoint ==
  \A g, h \in live : g # h => Disjoint(block[g], block[h])

(* The free list never offers a byte that is in use, nor one byte twice. *)
FreeListSound ==
  /\ \A k \in 1 .. Len(deallocated_mem), h \in live :
       Disjoint(deallocated_mem[k], block[h])
  /\ \A j, k \in 1 .. Len(deallocated_mem) :
       j # k => Disjoint(deallocated_mem[j], deallocated_mem[k])

(* Every byte below the free memory pointer is either in use or on the free *)
(* list: no sequence of calls loses memory for the rest of the frame.       *)
NothingLeaks ==
  pc \in {"idle", "merge"} =>
    \A b \in StartPosition .. (next_mem - 1) :
      \/ \E h \in live : b \in Bytes(block[h])
      \/ \E k \in 1 .. Len(deallocated_mem) : b \in Bytes(deallocated_mem[k])

(* `assert ofst + size <= size_of_mem, "function frame overrun"` of          *)
(* Context._new_variable: what a caller holds lies inside the frame, and     *)
(* stays there when the free memory pointer drops.                           *)
NoFrameOverrun ==
  \A h \in live : /\ block[h].position + block[h].size <= size_of_mem
                  /\ block[h].position >= StartPosition

(* When deallocate_memory is over, no two free entries that follow each      *)
(* other on the list could be merged and none touches the free memory        *)
(* pointer, as its comments say.  Without entries of no bytes no two entries *)
(* could at all; an empty one may stay on the list behind a larger entry at  *)
(* the same position, and keep that one apart from the next.                 *)
Coalesced ==
  [][LET n == Len(deallocated_mem') IN
     pc = "merge" /\ pc' = "idle" =>
       /\ \A k \in 1 .. (n - 1) : ~Adjacent(deallocated_mem'[k], deallocated_mem'[k + 1])
       /\ n > 0 => deallocated_mem'[n].position + deallocated_mem'[n].size # next_mem'
       /\ (\A k \in 1 .. n : deallocated_mem'[k].size > 0) =>
            \A j, k \in 1 .. n : ~Adjacent(deallocated_mem'[j], deallocated_mem'[k])]_vars

Heap == INSTANCE MemoryHeap WITH live <- live, block <- block

(* The allocator implements the abstract heap: merging is invisible to it.   *)
HeapSpec == Heap!Spec
=============================================================================
