----------------------------- MODULE MemoryHeap -----------------------------
(***************************************************************************)
(* What the code generator is promised by the memory allocator of a        *)
(* function frame: a variable is given a block of memory that shares no    *)
(* byte with the block of any variable that is still in use, and giving a  *)
(* block back affects no other variable.  Where the block lies, and which  *)
(* bytes are reused, is left open.  MemoryAllocator implements this.       *)
(***************************************************************************)
EXTENDS Integers

CONSTANTS
  Handles,        \* names of the variables (or buffers) that hold memory
  Sizes,          \* the sizes in bytes a type may require
  StartPosition   \* offsets below this one are permanently allocated

VARIABLES
  live,           \* the handles that hold a block
  block           \* the block of each handle

heapVars == <<live, block>>

NoBlock == [position |-> 0, size |-> 0]

Bytes(b) == b.position .. (b.position + b.size - 1)

(* Two blocks share no byte; an empty block overlaps nothing. *)
Disjoint(a, b) ==
  \/ a.size = 0
  \/ b.size = 0
  \/ a.position + a.size <= b.position
  \/ b.position + b.size <= a.position

Init ==
  /\ live = {}
  /\ block = [h \in Handles |-> NoBlock]

(* The position of the new block is the implementation's choice. *)
Allocate(h, size) ==
  /\ h \notin live
  /\ live' = live \cup {h}
  /\ block' = [block EXCEPT ![h] = [position |-> block'[h].position, size |-> size]]
  /\ block'[h].position >= StartPosition
  /\ \A g \in live : Disjoint(block'[h], block[g])

Deallocate(h) ==
  /\ h \in live
  /\ live' = live \ {h}
  /\ block' = [block EXCEPT ![h] = NoBlock]

Next ==
  \E h \in Handles :
    \/ \E size \in Sizes : Allocate(h, size)
    \/ Deallocate(h)

Spec == Init /\ [][Next]_heapVars
=============================================================================
