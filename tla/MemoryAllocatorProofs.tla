------------------------ MODULE MemoryAllocatorProofs ------------------------
(***************************************************************************)
(* Proofs about MemoryAllocator for all values of its constants, requests  *)
(* of zero bytes included: the variables in use never overlap each other   *)
(* or the free list, no byte is lost, and the allocator implements         *)
(* MemoryHeap.                                                             *)
(*                                                                         *)
(* LiveBlocksDisjoint is not inductive alone.  A block taken from the free *)
(* list is disjoint from those in use because FreeListSound says so; one   *)
(* taken from the end of the frame because FrameBounds puts every other    *)
(* block below next_mem; and the frame may shrink to the start of the last *)
(* free entry only because nothing in use lies above it, which is again    *)
(* FreeListSound.                                                          *)
(***************************************************************************)
EXTENDS MemoryAllocator, TLAPS

Inside(b) ==
  /\ b.position >= StartPosition
  /\ b.position + b.size <= size_of_mem
  /\ b.size # 0 => b.position + b.size <= next_mem

FrameBounds ==
  /\ StartPosition <= next_mem
  /\ next_mem <= size_of_mem
  /\ \A h \in live : Inside(block[h])
  /\ \A k \in 1 .. Len(deallocated_mem) : Inside(deallocated_mem[k])

ScanIndex ==
  pc = "merge" => i >= 2 /\ Len(deallocated_mem) >= 1

IInv ==
  /\ TypeOK
  /\ FrameBounds
  /\ ScanIndex
  /\ LiveBlocksDisjoint
  /\ FreeListSound
  /\ NothingLeaks

-----------------------------------------------------------------------------
(* Taking an entry out of a list gives a list again.                         *)
LEMMA DropEntry ==
  ASSUME NEW S, NEW s \in Seq(S), NEW k \in 1 .. Len(s)
  PROVE  /\ Drop(s, k) \in Seq(S)
         /\ Len(Drop(s, k)) = Len(s) - 1
         /\ \A j \in 1 .. (Len(s) - 1) :
              Drop(s, k)[j] = IF j < k THEN s[j] ELSE s[j + 1]
<1> DEFINE n == Len(s) - 1
           d == [j \in 1 .. n |-> IF j < k THEN s[j] ELSE s[j + 1]]
<1>1. n \in Nat
  OBVIOUS
<1>2. \A j \in 1 .. n : (IF j < k THEN s[j] ELSE s[j + 1]) \in S
  OBVIOUS
<1>3. d \in [1 .. n -> S]
  BY <1>2
<1>4. d \in Seq(S) /\ Len(d) = n
  BY <1>1, <1>3
<1> QED
  BY <1>4 DEF Drop

(* An empty entry of a list overlaps nothing; a block is disjoint from what  *)
(* two adjacent blocks merge to if it is disjoint from both.                 *)
LEMMA MergedDisjoint ==
  ASSUME NEW a \in FreeMemory, NEW b \in FreeMemory, NEW c \in FreeMemory,
         Adjacent(a, b), Disjoint(a, c), Disjoint(b, c)
  PROVE  Disjoint([position |-> a.position, size |-> a.size + b.size], c)
BY DEF FreeMemory, Adjacent, Disjoint

LEMMA MergedInside ==
  ASSUME NEW a \in FreeMemory, NEW b \in FreeMemory, TypeOK,
         Adjacent(a, b), Inside(a), Inside(b)
  PROVE  Inside([position |-> a.position, size |-> a.size + b.size])
BY StartAssumption DEF FreeMemory, Adjacent, Inside, TypeOK

LEMMA MergedBytes ==
  ASSUME NEW a \in FreeMemory, NEW b \in FreeMemory, Adjacent(a, b),
         NEW x \in Nat, x \in Bytes(a) \/ x \in Bytes(b)
  PROVE  x \in Bytes([position |-> a.position, size |-> a.size + b.size])
BY DEF FreeMemory, Adjacent, Bytes

LEMMA DisjointSymmetric ==
  ASSUME NEW a \in FreeMemory, NEW b \in FreeMemory, Disjoint(a, b)
  PROVE  Disjoint(b, a)
BY DEF FreeMemory, Disjoint


(* The initial frame is empty.                                               *)
LEMMA InitIInv == Init => IInv
BY SizesAssumption, StartAssumption, LimitAssumption
   DEF Init, IInv, TypeOK, FrameBounds, ScanIndex, LiveBlocksDisjoint,
       FreeListSound, NothingLeaks, FreeMemory, NoBlock

(* A block from the free list: wholly, or the first bytes of an entry.       *)
LEMMA AllocateFromFreeListIInv ==
  ASSUME IInv, NEW h \in Handles, NEW size \in Sizes, AllocateFromFreeList(h, size)
  PROVE  IInv'
<1> DEFINE n == Len(deallocated_mem)
<1>1. PICK k \in 1 .. n :
        /\ deallocated_mem[k].size >= size
        /\ Granted(h, [position |-> deallocated_mem[k].position, size |-> size])
        /\ \/ /\ deallocated_mem[k].size = size
              /\ deallocated_mem' = Drop(deallocated_mem, k)
           \/ /\ deallocated_mem[k].size > size
              /\ PartiallyAllocate(k, size)
  BY DEF AllocateFromFreeList
<1> DEFINE e == deallocated_mem[k]
           b == [position |-> e.position, size |-> size]
<1>a. TypeOK /\ FrameBounds /\ LiveBlocksDisjoint /\ FreeListSound /\ NothingLeaks
  BY DEF IInv
<1>b. /\ pc = "idle" /\ h \notin live
      /\ UNCHANGED <<next_mem, size_of_mem, pc, i>>
  BY DEF AllocateFromFreeList
<1>c. size \in Nat
  BY SizesAssumption
<1>d. e \in FreeMemory /\ n \in Nat
  BY <1>a DEF TypeOK
<1>f. next_mem \in Nat /\ size_of_mem \in Nat /\ StartPosition \in Nat
  BY <1>a, StartAssumption DEF TypeOK
<1>e. b \in FreeMemory
  BY <1>c, <1>d DEF FreeMemory
<1>3. /\ live' = live \cup {h} /\ live' \subseteq Handles
      /\ block' \in [Handles -> FreeMemory]
      /\ block'[h] = b
      /\ \A g \in live : block'[g] = block[g] /\ g # h
  BY <1>1, <1>a, <1>b, <1>e DEF Granted, TypeOK
<1>5. \A g \in live : Disjoint(b, block[g]) /\ Disjoint(block[g], b)
  <2> TAKE g \in live
  <2>1. Disjoint(e, block[g]) /\ block[g] \in FreeMemory
    BY <1>a DEF FreeListSound, TypeOK
  <2> QED
    BY <2>1, <1>1, <1>c, <1>d DEF Disjoint, FreeMemory
<1>6. LiveBlocksDisjoint'
  BY <1>3, <1>5, <1>a DEF LiveBlocksDisjoint
<1>7. /\ Inside(b)
      /\ \A g \in live : Inside(block[g])
      /\ \A j \in 1 .. n : Inside(deallocated_mem[j])
  <2>1. /\ \A g \in live : Inside(block[g])
        /\ \A j \in 1 .. n : Inside(deallocated_mem[j])
    BY <1>a DEF FrameBounds
  <2>2. Inside(e)
    BY <2>1
  <2>3. Inside(b)
    BY <2>2, <1>1, <1>c, <1>d, <1>f DEF Inside, FreeMemory
  <2> QED
    BY <2>1, <2>3
<1>8. \A g \in live' : Inside(block[g])'
  BY <1>3, <1>7, <1>b DEF Inside
<1>9. CASE e.size = size /\ deallocated_mem' = Drop(deallocated_mem, k)
  <2>1. /\ deallocated_mem' \in Seq(FreeMemory)
        /\ Len(deallocated_mem') = n - 1
        /\ \A j \in 1 .. (n - 1) :
             deallocated_mem'[j] = IF j < k THEN deallocated_mem[j] ELSE deallocated_mem[j + 1]
    BY <1>9, <1>a, DropEntry DEF TypeOK
  <2>2. TypeOK'
    BY <2>1, <1>3, <1>a, <1>b DEF TypeOK
  <2>3. FrameBounds'
    <3>1. \A j \in 1 .. (n - 1) : Inside(deallocated_mem'[j])
      BY <2>1, <1>7, <1>d
    <3>2. \A j \in 1 .. Len(deallocated_mem') : Inside(deallocated_mem[j])'
      BY <3>1, <2>1, <1>b DEF Inside
    <3> QED
      BY <3>2, <1>8, <1>a, <1>b DEF FrameBounds
  <2>4. FreeListSound'
    <3>1. \A j \in 1 .. (n - 1) : Disjoint(deallocated_mem'[j], b)
      BY <2>1, <1>d, <1>9, <1>a DEF FreeListSound, Disjoint
    <3>2. \A j \in 1 .. (n - 1), g \in live : Disjoint(deallocated_mem'[j], block[g])
      BY <2>1, <1>d, <1>a DEF FreeListSound
    <3>3. \A j, m \in 1 .. (n - 1) : j # m => Disjoint(deallocated_mem'[j], deallocated_mem'[m])
      BY <2>1, <1>d, <1>a DEF FreeListSound
    <3> QED
      BY <3>1, <3>2, <3>3, <2>1, <1>3 DEF FreeListSound
  <2>5. NothingLeaks'
    <3> SUFFICES ASSUME NEW x \in StartPosition .. (next_mem - 1)
                 PROVE  \/ \E g \in live' : x \in Bytes(block'[g])
                        \/ \E j \in 1 .. Len(deallocated_mem') : x \in Bytes(deallocated_mem'[j])
      BY <1>b DEF NothingLeaks
    <3>1. CASE \E g \in live : x \in Bytes(block[g])
      BY <3>1, <1>3
    <3>2. CASE \E j \in 1 .. n : x \in Bytes(deallocated_mem[j])
      <4>1. PICK j \in 1 .. n : x \in Bytes(deallocated_mem[j])
        BY <3>2
      <4>2. CASE j = k
        BY <4>1, <4>2, <1>9, <1>3 DEF Bytes
      <4>3. CASE j < k
        BY <4>1, <4>3, <2>1, <1>d
      <4>4. CASE j > k
        <5>1. j - 1 \in 1 .. (n - 1) /\ deallocated_mem'[j - 1] = deallocated_mem[j]
          BY <4>4, <2>1, <1>d
        <5> QED
          BY <5>1, <4>1, <2>1
      <4> QED
        BY <4>2, <4>3, <4>4, <1>d
    <3> QED
      BY <3>1, <3>2, <1>a, <1>b DEF NothingLeaks
  <2> QED
    BY <2>2, <2>3, <2>4, <2>5, <1>6, <1>b DEF IInv, ScanIndex
<1>10. CASE e.size > size /\ PartiallyAllocate(k, size)
  <2> DEFINE rest == [position |-> e.position + size, size |-> e.size - size]
  <2>1. /\ rest \in FreeMemory
        /\ deallocated_mem' = [deallocated_mem EXCEPT ![k] = rest]
    BY <1>10, <1>c, <1>d DEF PartiallyAllocate, FreeMemory
  <2>2. /\ deallocated_mem' \in Seq(FreeMemory) /\ Len(deallocated_mem') = n
        /\ deallocated_mem'[k] = rest
        /\ \A j \in 1 .. n : j # k => deallocated_mem'[j] = deallocated_mem[j]
    BY <2>1, <1>a DEF TypeOK
  <2>3. TypeOK'
    BY <2>2, <1>3, <1>a, <1>b DEF TypeOK
  <2>4. FrameBounds'
    <3>1. \A j \in 1 .. n : Inside(deallocated_mem'[j])
      <4>1. Inside(rest)
        <5>1. Inside(e)
          BY <1>7
        <5> QED
          BY <5>1, <1>10, <1>c, <1>d, <1>f DEF Inside, FreeMemory
      <4> QED
        BY <4>1, <2>2, <1>7
    <3>2. \A j \in 1 .. Len(deallocated_mem') : Inside(deallocated_mem[j])'
      BY <3>1, <2>2, <1>b DEF Inside
    <3> QED
      BY <3>2, <1>8, <1>a, <1>b DEF FrameBounds
  <2>5. FreeListSound'
    <3>0. \A c \in FreeMemory : Disjoint(e, c) => Disjoint(rest, c) /\ Disjoint(c, rest) /\ Disjoint(c, b)
      BY <1>c, <1>d, <1>10 DEF Disjoint, FreeMemory
    <3>1. \A j \in 1 .. n : Disjoint(deallocated_mem'[j], b)
      <4>1. Disjoint(rest, b)
        BY <1>c, <1>d, <1>10 DEF Disjoint, FreeMemory
      <4>2. \A j \in 1 .. n : j # k => Disjoint(deallocated_mem[j], b)
        BY <3>0, <1>a DEF FreeListSound, TypeOK
      <4> QED
        BY <4>1, <4>2, <2>2
    <3>2. \A j \in 1 .. n, g \in live : Disjoint(deallocated_mem'[j], block[g])
      BY <2>2, <3>0, <1>a DEF FreeListSound, TypeOK
    <3>3. \A j, m \in 1 .. n : j # m => Disjoint(deallocated_mem'[j], deallocated_mem'[m])
      BY <2>2, <3>0, <1>a DEF FreeListSound, TypeOK
    <3> QED
      BY <3>1, <3>2, <3>3, <2>2, <1>3 DEF FreeListSound
  <2>6. NothingLeaks'
    <3> SUFFICES ASSUME NEW x \in StartPosition .. (next_mem - 1)
                 PROVE  \/ \E g \in live' : x \in Bytes(block'[g])
                        \/ \E j \in 1 .. Len(deallocated_mem') : x \in Bytes(deallocated_mem'[j])
      BY <1>b DEF NothingLeaks
    <3>1. CASE \E g \in live : x \in Bytes(block[g])
      BY <3>1, <1>3
    <3>2. CASE \E j \in 1 .. n : x \in Bytes(deallocated_mem[j])
      <4>1. PICK j \in 1 .. n : x \in Bytes(deallocated_mem[j])
        BY <3>2
      <4>2. CASE j = k
        <5>1. x \in Bytes(b) \/ x \in Bytes(rest)
          BY <4>1, <4>2, <1>c, <1>d, <1>10 DEF Bytes, FreeMemory
        <5> QED
          BY <5>1, <1>3, <2>2
      <4>3. CASE j # k
        BY <4>1, <4>3, <2>2
      <4> QED
        BY <4>2, <4>3
    <3> QED
      BY <3>1, <3>2, <1>a, <1>b DEF NothingLeaks
  <2> QED
    BY <2>3, <2>4, <2>5, <2>6, <1>6, <1>b DEF IInv, ScanIndex
<1> QED
  BY <1>1, <1>9, <1>10

(* A block from the end of the frame: everything in use ends below it.       *)
LEMMA ExpandMemoryIInv ==
  ASSUME IInv, NEW h \in Handles, NEW size \in Sizes, ExpandMemory(h, size)
  PROVE  IInv'
<1> DEFINE n == Len(deallocated_mem)
           b == [position |-> next_mem, size |-> size]
<1>a. TypeOK /\ FrameBounds /\ LiveBlocksDisjoint /\ FreeListSound /\ NothingLeaks
  BY DEF IInv
<1>b. /\ pc = "idle" /\ h \notin live
      /\ next_mem' = next_mem + size
      /\ size_of_mem' = IF size_of_mem >= next_mem' THEN size_of_mem ELSE next_mem'
      /\ deallocated_mem' = deallocated_mem /\ i' = i
  BY DEF ExpandMemory, HigherMark
<1>c. /\ size \in Nat /\ next_mem \in Nat /\ size_of_mem \in Nat /\ StartPosition \in Nat
      /\ n \in Nat
  BY SizesAssumption, StartAssumption, <1>a DEF TypeOK
<1>d. /\ next_mem' \in Nat /\ size_of_mem' \in Nat /\ next_mem' <= size_of_mem'
      /\ next_mem <= next_mem' /\ size_of_mem <= size_of_mem' /\ StartPosition <= next_mem'
  BY <1>b, <1>c, <1>a DEF FrameBounds
<1>e. b \in FreeMemory
  BY <1>c DEF FreeMemory
<1>f. \A c \in FreeMemory : Inside(c) => Inside(c)'
  BY <1>c, <1>d DEF Inside, FreeMemory
<1>g. \A c \in FreeMemory : Inside(c) => Disjoint(c, b) /\ Disjoint(b, c)
  BY <1>c DEF Inside, Disjoint, FreeMemory
<1>h. /\ \A g \in live : Inside(block[g]) /\ block[g] \in FreeMemory
      /\ \A j \in 1 .. n : Inside(deallocated_mem[j]) /\ deallocated_mem[j] \in FreeMemory
  BY <1>a DEF FrameBounds, TypeOK
<1>i. \A j \in 1 .. Len(deallocated_mem') : Inside(deallocated_mem[j])'
  BY <1>f, <1>h, <1>b
<1>1. CASE Granted(h, b) /\ pc' = pc
  <2>1. /\ live' = live \cup {h} /\ live' \subseteq Handles
        /\ block' \in [Handles -> FreeMemory]
        /\ block'[h] = b
        /\ \A g \in live : block'[g] = block[g] /\ g # h
    BY <1>1, <1>a, <1>b, <1>e DEF Granted, TypeOK
  <2>2. TypeOK'
    BY <2>1, <1>1, <1>a, <1>b, <1>d DEF TypeOK
  <2>3. FrameBounds'
    <3>1. \A c \in FreeMemory : c = b => Inside(c)'
      BY <1>b, <1>c, <1>d, <1>a DEF Inside, FrameBounds
    <3>2. \A g \in live' : block'[g] \in FreeMemory /\ (block'[g] = b \/ Inside(block'[g]))
      BY <2>1, <1>h, <1>e
    <3>3. \A g \in live' : Inside(block[g])'
      BY <3>1, <3>2, <1>f
    <3> QED
      BY <3>3, <1>i, <1>d DEF FrameBounds
  <2>4. LiveBlocksDisjoint'
    BY <2>1, <1>g, <1>h, <1>a DEF LiveBlocksDisjoint
  <2>5. FreeListSound'
    BY <2>1, <1>g, <1>h, <1>a, <1>b DEF FreeListSound
  <2>6. NothingLeaks'
    <3> SUFFICES ASSUME NEW x \in StartPosition .. (next_mem' - 1)
                 PROVE  \/ \E g \in live' : x \in Bytes(block'[g])
                        \/ \E j \in 1 .. Len(deallocated_mem') : x \in Bytes(deallocated_mem'[j])
      BY DEF NothingLeaks
    <3>1. CASE x < next_mem
      BY <3>1, <2>1, <1>a, <1>b, <1>c DEF NothingLeaks
    <3>2. CASE x >= next_mem
      BY <3>2, <2>1, <1>b, <1>c DEF Bytes
    <3> QED
      BY <3>1, <3>2, <1>c, <1>d
  <2> QED
    BY <2>2, <2>3, <2>4, <2>5, <2>6, <1>1, <1>b DEF IInv, ScanIndex
<1>2. CASE pc' = "MemoryAllocationException" /\ UNCHANGED <<live, block>>
  <2>1. TypeOK'
    BY <1>2, <1>a, <1>b, <1>d DEF TypeOK
  <2>2. FrameBounds'
    BY <1>2, <1>i, <1>d, <1>f, <1>h DEF FrameBounds
  <2> QED
    BY <2>1, <2>2, <1>2, <1>a, <1>b
       DEF IInv, ScanIndex, LiveBlocksDisjoint, FreeListSound, NothingLeaks
<1> QED
  BY <1>1, <1>2 DEF ExpandMemory, HigherMark

(* A block is given back: it moves from the blocks in use to the free list.  *)
LEMMA DeallocateIInv ==
  ASSUME IInv, NEW h \in Handles, Deallocate(h)
  PROVE  IInv'
<1> DEFINE n == Len(deallocated_mem)
           b == block[h]
<1>a. TypeOK /\ FrameBounds /\ LiveBlocksDisjoint /\ FreeListSound /\ NothingLeaks
  BY DEF IInv
<1>b. /\ pc = "idle" /\ h \in live /\ pc' = "merge" /\ i' = 2
      /\ live' = live \ {h}
      /\ block' = [block EXCEPT ![h] = NoBlock]
      /\ UNCHANGED <<next_mem, size_of_mem>>
  BY DEF Deallocate
<1>c. /\ b \in FreeMemory /\ n \in Nat /\ NoBlock \in FreeMemory
      /\ deallocated_mem \in Seq(FreeMemory)
  BY <1>a DEF TypeOK, NoBlock, FreeMemory
<1> DEFINE s == Append(deallocated_mem, b)
<1>d. PICK p \in [1 .. (n + 1) -> 1 .. (n + 1)] :
        /\ p \in Orders(n + 1)
        /\ StableOrder(s, p)
        /\ deallocated_mem' = [j \in 1 .. (n + 1) |-> s[p[j]]]
  BY DEF Deallocate, Orders
<1>e. /\ s \in Seq(FreeMemory) /\ Len(s) = n + 1 /\ DOMAIN s = 1 .. (n + 1)
      /\ s[n + 1] = b
      /\ \A j \in 1 .. n : s[j] = deallocated_mem[j]
  BY <1>c
<1> HIDE DEF s
<1>g. /\ deallocated_mem' \in Seq(FreeMemory)
      /\ Len(deallocated_mem') = n + 1
      /\ \A j \in 1 .. (n + 1) : deallocated_mem'[j] = s[p[j]] /\ p[j] \in 1 .. (n + 1)
  <2>1. ASSUME NEW j \in 1 .. (n + 1)
        PROVE  s[p[j]] \in FreeMemory
    <3>1. p[j] \in 1 .. Len(s)
      BY <1>d, <1>e
    <3> QED
      BY <1>e, <3>1
  <2>2. deallocated_mem' \in [1 .. (n + 1) -> FreeMemory]
    BY <1>d, <2>1
  <2>3. n + 1 \in Nat
    BY <1>c
  <2> QED
    BY <1>d, <2>2, <2>3
(* The sort is a permutation. *)
<1>h. \A j, m \in 1 .. (n + 1) : j # m => p[j] # p[m]
  <2> SUFFICES ASSUME NEW j \in 1 .. (n + 1), NEW m \in 1 .. (n + 1), j < m
               PROVE  p[j] # p[m]
    BY <1>c
  <2>1. \/ s[p[j]].position < s[p[m]].position
        \/ s[p[j]].position = s[p[m]].position /\ p[j] < p[m]
    BY <1>d, <1>e DEF StableOrder
  <2>2. /\ p[j] \in 1 .. (n + 1) /\ p[m] \in 1 .. (n + 1)
        /\ \A q \in 1 .. (n + 1) : s[q].position \in Nat
    <3>1. \A q \in 1 .. (n + 1) : s[q] \in FreeMemory
      BY <1>c, <1>e
    <3> QED
      BY <3>1, <1>d DEF FreeMemory
  <2>3. s[p[j]].position \in Nat /\ s[p[m]].position \in Nat
    BY <2>2
  <2> QED
    BY <2>1, <2>2, <2>3
<1>i. \A m \in 1 .. (n + 1) : \E j \in 1 .. (n + 1) : p[j] = m
  BY <1>d DEF Orders
<1>j. \A j \in 1 .. (n + 1) : s[j] = b \/ (j \in 1 .. n /\ s[j] = deallocated_mem[j])
  BY <1>c, <1>e
<1>f. /\ block' \in [Handles -> FreeMemory]
      /\ \A g \in live' : g \in live /\ g # h /\ block'[g] = block[g]
  BY <1>a, <1>b, <1>c DEF TypeOK
<1>1. TypeOK'
  BY <1>a, <1>b, <1>g, <1>f DEF TypeOK
<1>2. FrameBounds'
  <2>1. /\ \A g \in live : Inside(block[g])
        /\ \A j \in 1 .. n : Inside(deallocated_mem[j])
    BY <1>a DEF FrameBounds
  <2>2. \A j \in 1 .. (n + 1) : Inside(deallocated_mem'[j])
    <3>1. \A j \in 1 .. (n + 1) : Inside(s[j])
      BY <2>1, <1>b, <1>j
    <3> QED
      BY <3>1, <1>g
  <2>3. \A j \in 1 .. Len(deallocated_mem') : Inside(deallocated_mem[j])'
    BY <2>2, <1>b, <1>g DEF Inside
  <2>4. \A g \in live' : Inside(block[g])'
    BY <2>1, <1>b, <1>f DEF Inside
  <2> QED
    BY <2>3, <2>4, <1>a, <1>b DEF FrameBounds
<1>3. LiveBlocksDisjoint'
  BY <1>a, <1>f DEF LiveBlocksDisjoint
<1>4. FreeListSound'
  <2>1. \A j \in 1 .. n : Disjoint(deallocated_mem[j], b) /\ Disjoint(b, deallocated_mem[j])
    BY <1>a, <1>b, <1>c, DisjointSymmetric DEF FreeListSound, TypeOK
  <2>2. \A j \in 1 .. (n + 1), g \in live' : Disjoint(s[j], block[g])
    <3>1. \A g \in live' : Disjoint(b, block[g])
      BY <1>a, <1>b, <1>f DEF LiveBlocksDisjoint
    <3> QED
      BY <3>1, <1>a, <1>j, <1>f DEF FreeListSound
  <2>3. \A j, m \in 1 .. (n + 1) : j # m => Disjoint(s[j], s[m])
    <3> TAKE j, m \in 1 .. (n + 1)
    <3>1. CASE j \in 1 .. n /\ m \in 1 .. n
      BY <3>1, <1>a, <1>e DEF FreeListSound
    <3>2. CASE j = n + 1 \/ m = n + 1
      BY <3>2, <2>1, <1>c, <1>e
    <3> QED
      BY <3>1, <3>2, <1>c
  <2>4. \A j, m \in 1 .. (n + 1) : j # m => Disjoint(deallocated_mem'[j], deallocated_mem'[m])
    BY <2>3, <1>g, <1>h
  <2>5. \A j \in 1 .. (n + 1), g \in live' : Disjoint(deallocated_mem'[j], block'[g])
    BY <2>2, <1>f, <1>g
  <2> QED
    BY <2>4, <2>5, <1>g DEF FreeListSound
<1>5. NothingLeaks'
  <2> SUFFICES ASSUME NEW x \in StartPosition .. (next_mem - 1)
               PROVE  \/ \E g \in live' : x \in Bytes(block'[g])
                      \/ \E j \in 1 .. (n + 1) : x \in Bytes(deallocated_mem'[j])
    BY <1>b, <1>g DEF NothingLeaks
  <2>1. CASE \E g \in live' : x \in Bytes(block[g])
    BY <2>1, <1>f
  <2>2. CASE \E m \in 1 .. (n + 1) : x \in Bytes(s[m])
    <3>1. PICK m \in 1 .. (n + 1) : x \in Bytes(s[m])
      BY <2>2
    <3>2. PICK j \in 1 .. (n + 1) : p[j] = m
      BY <1>i
    <3> QED
      BY <3>1, <3>2, <1>g
  <2>3. \/ \E g \in live : x \in Bytes(block[g])
        \/ \E m \in 1 .. n : x \in Bytes(deallocated_mem[m])
    BY <1>a, <1>b DEF NothingLeaks
  <2> QED
    BY <2>1, <2>2, <2>3, <1>b, <1>c, <1>e
<1> QED
  BY <1>1, <1>2, <1>3, <1>4, <1>5, <1>b, <1>c, <1>g DEF IInv, ScanIndex

(* The list after one round of the scan that merges two entries.             *)
LEMMA MergedEntries ==
  ASSUME TypeOK, ScanIndex, MergeAdjacent,
         NEW merged,
         merged = [position |-> deallocated_mem[i - 1].position,
                   size |-> deallocated_mem[i - 1].size + deallocated_mem[i].size]
  PROVE  /\ merged \in FreeMemory
         /\ deallocated_mem' \in Seq(FreeMemory)
         /\ Len(deallocated_mem') = Len(deallocated_mem) - 1
         /\ i \in 2 .. Len(deallocated_mem)
         /\ \A j \in 1 .. (Len(deallocated_mem) - 1) :
              \/ j = i - 1 /\ deallocated_mem'[j] = merged
              \/ /\ j < i - 1 /\ j \in 1 .. Len(deallocated_mem)
                 /\ deallocated_mem'[j] = deallocated_mem[j]
              \/ /\ j >= i /\ (j + 1) \in 1 .. Len(deallocated_mem)
                 /\ deallocated_mem'[j] = deallocated_mem[j + 1]
<1> DEFINE n == Len(deallocated_mem)
           a == deallocated_mem[i - 1]
           c == deallocated_mem[i]
           widened == [deallocated_mem EXCEPT ![i - 1] = merged]
<1>b. /\ pc = "merge" /\ i <= n /\ Adjacent(a, c)
      /\ deallocated_mem' = Drop(widened, i)
      /\ UNCHANGED <<next_mem, size_of_mem, live, block, pc, i>>
  BY DEF MergeAdjacent
<1>c. /\ deallocated_mem \in Seq(FreeMemory) /\ n \in Nat /\ i \in Nat
      /\ i \in 2 .. n /\ (i - 1) \in 1 .. n
  BY <1>b DEF TypeOK, ScanIndex
<1>d. a \in FreeMemory /\ c \in FreeMemory
  BY <1>c
<1>e. merged \in FreeMemory
  BY <1>d DEF FreeMemory
<1>f. /\ widened \in Seq(FreeMemory) /\ Len(widened) = n
      /\ widened[i - 1] = merged
      /\ \A j \in 1 .. n : j # i - 1 => widened[j] = deallocated_mem[j]
  BY <1>c, <1>e
<1>g. /\ Drop(widened, i) \in Seq(FreeMemory)
      /\ Len(Drop(widened, i)) = n - 1
      /\ \A j \in 1 .. (n - 1) :
           Drop(widened, i)[j] = IF j < i THEN widened[j] ELSE widened[j + 1]
  <2>1. i \in 1 .. Len(widened)
    BY <1>c, <1>f
  <2> HIDE DEF widened
  <2> QED
    BY <2>1, <1>f, DropEntry
<1>h. /\ deallocated_mem' \in Seq(FreeMemory)
      /\ Len(deallocated_mem') = n - 1
      /\ \A j \in 1 .. (n - 1) :
           \/ j = i - 1 /\ deallocated_mem'[j] = merged
           \/ j < i - 1 /\ j \in 1 .. n /\ deallocated_mem'[j] = deallocated_mem[j]
           \/ j >= i /\ (j + 1) \in 1 .. n /\ deallocated_mem'[j] = deallocated_mem[j + 1]
  <2> HIDE DEF widened
  <2> SUFFICES ASSUME NEW j \in 1 .. (n - 1)
               PROVE  \/ j = i - 1 /\ deallocated_mem'[j] = merged
                      \/ j < i - 1 /\ j \in 1 .. n /\ deallocated_mem'[j] = deallocated_mem[j]
                      \/ j >= i /\ (j + 1) \in 1 .. n /\ deallocated_mem'[j] = deallocated_mem[j + 1]
    BY <1>b, <1>g
  <2>1. deallocated_mem'[j] = IF j < i THEN widened[j] ELSE widened[j + 1]
    BY <1>b, <1>g
  <2>2. j \in 1 .. n /\ (j + 1) \in 1 .. n /\ j \in Int
    BY <1>c
  <2>3. CASE j = i - 1
    BY <2>1, <2>3, <1>c, <1>f
  <2>4. CASE j < i - 1
    BY <2>1, <2>2, <2>4, <1>c, <1>f
  <2>5. CASE j > i - 1
    <3>1. j >= i /\ ~(j < i) /\ j + 1 # i - 1
      BY <2>2, <2>5, <1>c
    <3> QED
      BY <2>1, <2>2, <3>1, <1>f
  <2> QED
    BY <2>2, <2>3, <2>4, <2>5, <1>c
<1> QED
  BY <1>c, <1>e, <1>h

(* One round of the scan that merges two adjacent entries.                   *)
LEMMA MergeAdjacentIInv ==
  ASSUME IInv, MergeAdjacent
  PROVE  IInv'
<1> DEFINE n == Len(deallocated_mem)
           a == deallocated_mem[i - 1]
           c == deallocated_mem[i]
           merged == [position |-> a.position, size |-> a.size + c.size]
<1>a. TypeOK /\ FrameBounds /\ ScanIndex /\ LiveBlocksDisjoint /\ FreeListSound /\ NothingLeaks
  BY DEF IInv
<1>b. /\ pc = "merge" /\ i <= n /\ Adjacent(a, c)
      /\ UNCHANGED <<next_mem, size_of_mem, live, block, pc, i>>
  BY DEF MergeAdjacent
<1>c. /\ deallocated_mem \in Seq(FreeMemory) /\ n \in Nat /\ i \in Nat
      /\ i \in 2 .. n /\ (i - 1) \in 1 .. n
      /\ next_mem \in Nat /\ size_of_mem \in Nat /\ StartPosition \in Nat
  BY <1>a, <1>b, StartAssumption DEF TypeOK, ScanIndex
<1>d. a \in FreeMemory /\ c \in FreeMemory
  BY <1>c
<1>e. merged \in FreeMemory
  BY <1>a, MergedEntries
<1>h. /\ deallocated_mem' \in Seq(FreeMemory)
      /\ Len(deallocated_mem') = n - 1
      /\ \A j \in 1 .. (n - 1) :
           \/ j = i - 1 /\ deallocated_mem'[j] = merged
           \/ j < i - 1 /\ j \in 1 .. n /\ deallocated_mem'[j] = deallocated_mem[j]
           \/ j >= i /\ (j + 1) \in 1 .. n /\ deallocated_mem'[j] = deallocated_mem[j + 1]
  BY <1>a, MergedEntries
<1>1. TypeOK'
  BY <1>a, <1>b, <1>h DEF TypeOK
<1>2. FrameBounds'
  <2>1. Inside(a) /\ Inside(c)
    BY <1>a, <1>c DEF FrameBounds
  <2>2. Inside(merged)
    BY <2>1, <1>a, <1>b, <1>d, MergedInside
  <2>3. \A j \in 1 .. (n - 1) : Inside(deallocated_mem'[j])
    BY <2>2, <1>a, <1>h DEF FrameBounds
  <2>4. \A j \in 1 .. Len(deallocated_mem') : Inside(deallocated_mem[j])'
    BY <2>3, <1>b, <1>h DEF Inside
  <2> QED
    BY <2>4, <1>a, <1>b DEF FrameBounds, Inside
<1>3. FreeListSound'
  <2>1. \A x \in FreeMemory : Disjoint(a, x) /\ Disjoint(c, x) =>
          Disjoint(merged, x) /\ Disjoint(x, merged)
    BY <1>b, <1>d, <1>e, MergedDisjoint, DisjointSymmetric
  <2>2. \A j \in 1 .. (n - 1), g \in live : Disjoint(deallocated_mem'[j], block[g])
    <3>1. \A g \in live : Disjoint(merged, block[g])
      BY <2>1, <1>a, <1>c DEF FreeListSound, TypeOK
    <3> QED
      BY <3>1, <1>a, <1>h DEF FreeListSound
  <2>3. \A j \in 1 .. n : j # i /\ j # i - 1 =>
          Disjoint(merged, deallocated_mem[j]) /\ Disjoint(deallocated_mem[j], merged)
    BY <2>1, <1>a, <1>c DEF FreeListSound, TypeOK
  <2>4. ASSUME NEW j \in 1 .. (n - 1), NEW m \in 1 .. (n - 1), j # m
        PROVE  Disjoint(deallocated_mem'[j], deallocated_mem'[m])
    <3> DEFINE Old(x) == IF x < i THEN x ELSE x + 1
    <3>1. CASE j = i - 1
      <4>1. Old(m) \in 1 .. n /\ Old(m) # i /\ Old(m) # i - 1
            /\ deallocated_mem'[m] = deallocated_mem[Old(m)]
        BY <3>1, <2>4, <1>c, <1>h
      <4> HIDE DEF Old
      <4> QED
        <5>1. deallocated_mem'[j] = merged
          BY <3>1, <1>c, <1>h
        <5> HIDE DEF merged
        <5> QED
          BY <4>1, <5>1, <2>3
    <3>2. CASE m = i - 1
      <4>1. Old(j) \in 1 .. n /\ Old(j) # i /\ Old(j) # i - 1
            /\ deallocated_mem'[j] = deallocated_mem[Old(j)]
        BY <3>2, <2>4, <1>c, <1>h
      <4> HIDE DEF Old
      <4> QED
        <5>1. deallocated_mem'[m] = merged
          BY <3>2, <1>c, <1>h
        <5> HIDE DEF merged
        <5> QED
          BY <4>1, <5>1, <2>3
    <3>3. CASE j # i - 1 /\ m # i - 1
      <4>1. /\ Old(j) \in 1 .. n /\ deallocated_mem'[j] = deallocated_mem[Old(j)]
            /\ Old(m) \in 1 .. n /\ deallocated_mem'[m] = deallocated_mem[Old(m)]
            /\ Old(j) # Old(m)
        BY <3>3, <2>4, <1>c, <1>h
      <4> HIDE DEF Old
      <4> QED
        BY <4>1, <1>a DEF FreeListSound
    <3> QED
      BY <3>1, <3>2, <3>3
  <2> QED
    BY <2>2, <2>4, <1>b, <1>h DEF FreeListSound
<1>4. NothingLeaks'
  <2> SUFFICES ASSUME NEW x \in StartPosition .. (next_mem - 1)
               PROVE  \/ \E g \in live' : x \in Bytes(block'[g])
                      \/ \E j \in 1 .. Len(deallocated_mem') : x \in Bytes(deallocated_mem'[j])
    BY <1>b DEF NothingLeaks
  <2>1. CASE \E g \in live : x \in Bytes(block[g])
    BY <2>1, <1>b
  <2>2. CASE \E j \in 1 .. n : x \in Bytes(deallocated_mem[j])
    <3>1. PICK j \in 1 .. n : x \in Bytes(deallocated_mem[j])
      BY <2>2
    <3>2. CASE j = i \/ j = i - 1
      <4>1. x \in Bytes(merged)
        <5>1. x \in Nat /\ (x \in Bytes(a) \/ x \in Bytes(c))
          BY <3>1, <3>2, <1>c
        <5> QED
          BY <5>1, <1>b, <1>d, MergedBytes
      <4>2. (i - 1) \in 1 .. (n - 1)
        BY <1>c
      <4> QED
        BY <4>1, <4>2, <1>c, <1>h
    <3>3. CASE j < i - 1
      <4>1. j \in 1 .. (n - 1)
        BY <3>3, <1>c
      <4> QED
        <5>1. deallocated_mem'[j] = deallocated_mem[j]
          BY <4>1, <3>3, <1>c, <1>h
        <5> QED
          BY <4>1, <5>1, <3>1, <1>h
    <3>4. CASE j > i
      <4>1. (j - 1) \in 1 .. (n - 1) /\ (j - 1) + 1 = j
        BY <3>4, <1>c
      <4>2. deallocated_mem'[j - 1] = deallocated_mem[j]
        BY <4>1, <3>4, <1>c, <1>h
      <4> QED
        BY <4>1, <4>2, <3>1, <1>h
    <3> QED
      BY <3>2, <3>3, <3>4, <1>c
  <2> QED
    BY <2>1, <2>2, <1>a, <1>b DEF NothingLeaks
<1> QED
  BY <1>1, <1>2, <1>3, <1>4, <1>a, <1>b, <1>c, <1>h
     DEF IInv, ScanIndex, LiveBlocksDisjoint

(* The end of the scan: the frame shrinks to the start of a free last entry. *)
LEMMA ReclaimIInv ==
  ASSUME IInv, Reclaim
  PROVE  IInv'
<1> DEFINE n == Len(deallocated_mem)
           last == deallocated_mem[n]
<1>a. TypeOK /\ FrameBounds /\ ScanIndex /\ LiveBlocksDisjoint /\ FreeListSound /\ NothingLeaks
  BY DEF IInv
<1>b. /\ pc = "merge" /\ pc' = "idle" /\ i' = 1
      /\ UNCHANGED <<size_of_mem, live, block>>
  BY DEF Reclaim
<1>c. /\ deallocated_mem \in Seq(FreeMemory) /\ n \in 1 .. n /\ n \in Nat
      /\ next_mem \in Nat /\ size_of_mem \in Nat /\ StartPosition \in Nat
  BY <1>a, <1>b, StartAssumption DEF TypeOK, ScanIndex
<1>d. last \in FreeMemory
  BY <1>c
<1>1. CASE /\ last.position + last.size = next_mem
           /\ next_mem' = last.position
           /\ deallocated_mem' = Drop(deallocated_mem, n)
  <2>1. /\ deallocated_mem' \in Seq(FreeMemory)
        /\ Len(deallocated_mem') = n - 1
        /\ \A j \in 1 .. (n - 1) : j \in 1 .. n /\ deallocated_mem'[j] = deallocated_mem[j]
    <3>1. /\ Drop(deallocated_mem, n) \in Seq(FreeMemory)
          /\ Len(Drop(deallocated_mem, n)) = n - 1
          /\ \A j \in 1 .. (n - 1) :
               Drop(deallocated_mem, n)[j] = IF j < n THEN deallocated_mem[j] ELSE deallocated_mem[j + 1]
      BY <1>c, DropEntry
    <3>2. \A j \in 1 .. (n - 1) : j \in 1 .. n /\ j < n
      BY <1>c
    <3> QED
      BY <1>1, <3>1, <3>2
  <2>2. TypeOK'
    BY <2>1, <1>1, <1>a, <1>b, <1>d DEF TypeOK, FreeMemory
  <2>3. FrameBounds'
    <3>1. Inside(last)
      BY <1>a, <1>c DEF FrameBounds
    <3>2. StartPosition <= next_mem' /\ next_mem' <= size_of_mem'
      BY <3>1, <1>1, <1>a, <1>b, <1>c, <1>d DEF FrameBounds, Inside, FreeMemory
    <3>3. \A x \in FreeMemory : Inside(x) /\ Disjoint(last, x) => Inside(x)'
      BY <1>1, <1>b, <1>c, <1>d DEF Inside, Disjoint, FreeMemory
    <3>4. \A g \in live' : Inside(block[g])'
      BY <3>3, <1>a, <1>b, <1>c DEF FrameBounds, FreeListSound, TypeOK
    <3>5. \A j \in 1 .. (n - 1) : Inside(deallocated_mem[j]) /\ Disjoint(last, deallocated_mem[j])
                                  /\ deallocated_mem[j] \in FreeMemory
      BY <1>a, <1>c DEF FrameBounds, FreeListSound
    <3>6. \A j \in 1 .. Len(deallocated_mem') : deallocated_mem'[j] \in FreeMemory
             /\ Inside(deallocated_mem'[j]) /\ Disjoint(last, deallocated_mem'[j])
      BY <3>5, <2>1
    <3>7. \A j \in 1 .. Len(deallocated_mem') : Inside(deallocated_mem[j])'
      BY <3>6, <3>3
    <3> QED
      BY <3>2, <3>4, <3>7 DEF FrameBounds
  <2>4. FreeListSound'
    BY <2>1, <1>a, <1>b DEF FreeListSound
  <2>5. NothingLeaks'
    <3> SUFFICES ASSUME NEW x \in StartPosition .. (next_mem' - 1)
                 PROVE  \/ \E g \in live' : x \in Bytes(block'[g])
                        \/ \E j \in 1 .. Len(deallocated_mem') : x \in Bytes(deallocated_mem'[j])
      BY DEF NothingLeaks
    <3>1. x \in StartPosition .. (next_mem - 1) /\ x \notin Bytes(last)
      BY <1>1, <1>c, <1>d DEF Bytes, FreeMemory
    <3>2. CASE \E g \in live : x \in Bytes(block[g])
      BY <3>2, <1>b
    <3>3. CASE \E j \in 1 .. n : x \in Bytes(deallocated_mem[j])
      <4>1. PICK j \in 1 .. n : x \in Bytes(deallocated_mem[j])
        BY <3>3
      <4>2. j \in 1 .. (n - 1)
        BY <4>1, <3>1, <1>c
      <4> QED
        BY <4>1, <4>2, <2>1
    <3> QED
      BY <3>1, <3>2, <3>3, <1>a, <1>b DEF NothingLeaks
  <2> QED
    BY <2>2, <2>3, <2>4, <2>5, <1>a, <1>b DEF IInv, ScanIndex, LiveBlocksDisjoint
<1>2. CASE UNCHANGED <<next_mem, deallocated_mem>>
  <2>1. TypeOK'
    BY <1>2, <1>a, <1>b DEF TypeOK
  <2> QED
    BY <2>1, <1>2, <1>a, <1>b
       DEF IInv, FrameBounds, Inside, ScanIndex, LiveBlocksDisjoint, FreeListSound, NothingLeaks
<1> QED
  BY <1>1, <1>2 DEF Reclaim

(* The steps that move nothing: a round over entries that lie apart, the     *)
(* panic over a misaligned size, and steps that change no variable.          *)
LEMMA SkipApartIInv ==
  ASSUME IInv, SkipApart
  PROVE  IInv'
<1>1. /\ pc = "merge" /\ i' = i + 1
      /\ UNCHANGED <<next_mem, size_of_mem, deallocated_mem, live, block, pc>>
  BY DEF SkipApart
<1>2. TypeOK'
  BY <1>1 DEF IInv, TypeOK
<1>3. FrameBounds'
  BY <1>1 DEF IInv, FrameBounds, Inside
<1>4. ScanIndex'
  BY <1>1 DEF IInv, ScanIndex, TypeOK
<1>5. LiveBlocksDisjoint' /\ FreeListSound' /\ NothingLeaks'
  BY <1>1 DEF IInv, LiveBlocksDisjoint, FreeListSound, NothingLeaks
<1> QED
  BY <1>2, <1>3, <1>4, <1>5 DEF IInv

LEMMA AllocateMisalignedIInv ==
  ASSUME IInv, NEW size \in Sizes, AllocateMisaligned(size)
  PROVE  IInv'
BY DEF IInv, AllocateMisaligned, TypeOK, FrameBounds, Inside, ScanIndex, LiveBlocksDisjoint,
       FreeListSound, NothingLeaks

LEMMA StutterIInv ==
  ASSUME IInv, UNCHANGED vars
  PROVE  IInv'
BY DEF IInv, vars, TypeOK, FrameBounds, Inside, ScanIndex, LiveBlocksDisjoint,
       FreeListSound, NothingLeaks

(* IInv is inductive.                                                        *)
LEMMA NextIInv == IInv /\ [Next]_vars => IInv'
<1> SUFFICES ASSUME IInv, [Next]_vars
             PROVE  IInv'
  OBVIOUS
<1>1. ASSUME NEW h \in Handles, NEW size \in Sizes, AllocateFromFreeList(h, size)
      PROVE  IInv'
  BY <1>1, AllocateFromFreeListIInv
<1>2. ASSUME NEW h \in Handles, NEW size \in Sizes, ExpandMemory(h, size)
      PROVE  IInv'
  BY <1>2, ExpandMemoryIInv
<1>3. ASSUME NEW size \in Sizes, AllocateMisaligned(size)
      PROVE  IInv'
  BY <1>3, AllocateMisalignedIInv
<1>4. ASSUME NEW h \in Handles, Deallocate(h)
      PROVE  IInv'
  BY <1>4, DeallocateIInv
<1>5. CASE MergeAdjacent
  BY <1>5, MergeAdjacentIInv
<1>6. CASE SkipApart
  BY <1>6, SkipApartIInv
<1>7. CASE Reclaim
  BY <1>7, ReclaimIInv
<1>8. CASE Aborted
  BY <1>8, StutterIInv DEF Aborted
<1>9. CASE UNCHANGED vars
  BY <1>9, StutterIInv
<1> QED
  BY <1>1, <1>2, <1>3, <1>4, <1>5, <1>6, <1>7, <1>8, <1>9 DEF Next, Scan

THEOREM Invariance == Spec => []IInv
BY InitIInv, NextIInv, PTL DEF Spec

-----------------------------------------------------------------------------
(* The variables keep their types (memory_allocator.py).                     *)
THEOREM TypeCorrect == Spec => []TypeOK
BY Invariance, PTL DEF IInv

(* allocate_memory never hands out memory that another variable still uses,  *)
(* whatever was allocated and deallocated before and in which order.         *)
THEOREM LiveBlocksNeverOverlap == Spec => []LiveBlocksDisjoint
BY Invariance, PTL DEF IInv

(* The free list stays clear of the variables in use, through every step of  *)
(* the merging scan of deallocate_memory.                                    *)
THEOREM FreeListStaysSound == Spec => []FreeListSound
BY Invariance, PTL DEF IInv

(* deallocate_memory and partially_allocate lose no byte of the frame.       *)
THEOREM NoByteLost == Spec => []NothingLeaks
BY Invariance, PTL DEF IInv

(* The assertion `function frame overrun` of Context._new_variable holds, and *)
(* keeps holding after the frame has shrunk.                                 *)
THEOREM FrameNeverOverrun == Spec => []NoFrameOverrun
<1>1. IInv => NoFrameOverrun
  BY DEF IInv, FrameBounds, Inside, NoFrameOverrun
<1> QED
  BY <1>1, Invariance, PTL

-----------------------------------------------------------------------------
(* What the scan has done so far.  Every deallocation begins with a sort, so *)
(* the entries ascend while it runs, and those it has passed lie apart.      *)
(* Neither lasts longer: a partial allocation moves the start of an entry.   *)
Ascends(s) == \A j, k \in 1 .. Len(s) : j < k => s[j].position <= s[k].position

ApartUpTo(s, m) == \A k \in 1 .. (m - 1) : k + 1 <= Len(s) => ~Adjacent(s[k], s[k + 1])

ScanOrder == pc = "merge" => Ascends(deallocated_mem) /\ ApartUpTo(deallocated_mem, i - 1)

LEMMA DeallocateSorts ==
  ASSUME TypeOK, NEW h \in Handles, Deallocate(h)
  PROVE  ScanOrder'
<1> DEFINE n == Len(deallocated_mem)
           s == Append(deallocated_mem, block[h])
<1>1. n \in Nat /\ deallocated_mem \in Seq(FreeMemory) /\ block[h] \in FreeMemory
  BY DEF TypeOK
<1>2. /\ DOMAIN s = 1 .. (n + 1)
      /\ \A j \in 1 .. (n + 1) : s[j] \in FreeMemory
  BY <1>1
<1>3. PICK p \in [1 .. (n + 1) -> 1 .. (n + 1)] :
        /\ StableOrder(s, p)
        /\ deallocated_mem' = [j \in 1 .. (n + 1) |-> s[p[j]]]
  BY DEF Deallocate, Orders
<1> HIDE DEF s
<1>4. /\ Len(deallocated_mem') = n + 1
      /\ \A j \in 1 .. (n + 1) : deallocated_mem'[j] = s[p[j]] /\ s[p[j]] \in FreeMemory
  BY <1>1, <1>2, <1>3
<1>5. ASSUME NEW j \in 1 .. (n + 1), NEW k \in 1 .. (n + 1), j < k
      PROVE  deallocated_mem'[j].position <= deallocated_mem'[k].position
  <2>1. \/ s[p[j]].position < s[p[k]].position
        \/ s[p[j]].position = s[p[k]].position
    BY <1>2, <1>3, <1>5 DEF StableOrder
  <2>2. s[p[j]].position \in Nat /\ s[p[k]].position \in Nat
    BY <1>4 DEF FreeMemory
  <2> QED
    BY <2>1, <2>2, <1>4
<1>6. Ascends(deallocated_mem')
  BY <1>4, <1>5 DEF Ascends
<1>7. i' = 2
  BY DEF Deallocate
<1>8. ApartUpTo(deallocated_mem', i' - 1)
  BY <1>7 DEF ApartUpTo
<1> QED
  BY <1>6, <1>8 DEF ScanOrder

(* The merged entry starts where the first of the two did.                   *)
LEMMA MergeKeepsOrder ==
  ASSUME TypeOK, ScanIndex, ScanOrder, MergeAdjacent
  PROVE  ScanOrder'
<1> DEFINE n == Len(deallocated_mem)
<1>1. PICK merged : merged = [position |-> deallocated_mem[i - 1].position,
                              size |-> deallocated_mem[i - 1].size + deallocated_mem[i].size]
  OBVIOUS
<1>2. /\ pc = "merge" /\ i' = i /\ n \in Nat /\ i \in 2 .. n
      /\ Len(deallocated_mem') = n - 1
      /\ \A j \in 1 .. (n - 1) :
           \/ j = i - 1 /\ deallocated_mem'[j] = merged
           \/ j < i - 1 /\ j \in 1 .. n /\ deallocated_mem'[j] = deallocated_mem[j]
           \/ j >= i /\ (j + 1) \in 1 .. n /\ deallocated_mem'[j] = deallocated_mem[j + 1]
  <2>1. Len(deallocated_mem) \in Nat
    BY DEF TypeOK
  <2> QED
    BY <1>1, <2>1, MergedEntries DEF MergeAdjacent
<1>3. merged.position = deallocated_mem[i - 1].position
  BY <1>1
<1>4. \A j \in 1 .. n : deallocated_mem[j].position \in Nat /\ deallocated_mem[j].size \in Nat
  <2>1. \A j \in 1 .. n : deallocated_mem[j] \in FreeMemory
    BY DEF TypeOK
  <2> QED
    BY <2>1 DEF FreeMemory
<1>5. Ascends(deallocated_mem) /\ ApartUpTo(deallocated_mem, i - 1)
  BY <1>2 DEF ScanOrder
<1>6. \A j \in 1 .. (n - 1) :
        \/ /\ j <= i - 1 /\ j \in 1 .. n
           /\ deallocated_mem'[j].position = deallocated_mem[j].position
        \/ /\ j >= i /\ (j + 1) \in 1 .. n
           /\ deallocated_mem'[j].position = deallocated_mem[j + 1].position
  BY <1>2, <1>3
<1>7. ASSUME NEW j \in 1 .. (n - 1), NEW k \in 1 .. (n - 1), j < k
      PROVE  deallocated_mem'[j].position <= deallocated_mem'[k].position
  <2>1. PICK x \in 1 .. n, y \in 1 .. n :
          /\ x < y
          /\ deallocated_mem'[j].position = deallocated_mem[x].position
          /\ deallocated_mem'[k].position = deallocated_mem[y].position
    <3>1. CASE j <= i - 1 /\ k <= i - 1
      BY <3>1, <1>2, <1>6, <1>7
    <3>2. CASE j <= i - 1 /\ k >= i
      BY <3>2, <1>2, <1>6, <1>7
    <3>3. CASE j >= i /\ k >= i
      BY <3>3, <1>2, <1>6, <1>7
    <3> QED
      BY <3>1, <3>2, <3>3, <1>2, <1>7
  <2> QED
    BY <2>1, <1>5 DEF Ascends
<1>8. Ascends(deallocated_mem')
  BY <1>2, <1>7 DEF Ascends
<1>9. ASSUME NEW k \in 1 .. (i - 2), k + 1 <= n - 1
      PROVE  ~Adjacent(deallocated_mem'[k], deallocated_mem'[k + 1])
  <2>1. k \in 1 .. (n - 1) /\ k + 1 \in 1 .. (n - 1) /\ k < i - 1 /\ k + 1 <= i - 1
    BY <1>2, <1>9
  <2>2. deallocated_mem'[k] = deallocated_mem[k]
    BY <2>1, <1>2
  <2>3. deallocated_mem'[k + 1].position = deallocated_mem[k + 1].position
    BY <2>1, <1>2, <1>6
  <2>4. ~Adjacent(deallocated_mem[k], deallocated_mem[k + 1])
    <3>1. k \in 1 .. ((i - 1) - 1) /\ k + 1 <= Len(deallocated_mem)
      BY <2>1, <1>2
    <3> QED
      BY <3>1, <1>5 DEF ApartUpTo
  <2> QED
    BY <2>2, <2>3, <2>4 DEF Adjacent
<1>10. ApartUpTo(deallocated_mem', i' - 1)
  <2>1. \A k \in 1 .. ((i' - 1) - 1) : k \in 1 .. (i - 2)
    BY <1>2
  <2>2. Len(deallocated_mem') = n - 1
    BY <1>2
  <2> QED
    BY <2>1, <2>2, <1>9 DEF ApartUpTo
<1> QED
  BY <1>8, <1>10 DEF ScanOrder

LEMMA NextScanOrder == IInv /\ ScanOrder /\ [Next]_vars => ScanOrder'
<1> SUFFICES ASSUME IInv, ScanOrder, [Next]_vars
             PROVE  ScanOrder'
  OBVIOUS
<1>a. TypeOK /\ ScanIndex
  BY DEF IInv
<1>1. ASSUME NEW h \in Handles, Deallocate(h)
      PROVE  ScanOrder'
  BY <1>1, <1>a, DeallocateSorts
<1>2. CASE MergeAdjacent
  BY <1>2, <1>a, MergeKeepsOrder
<1>3. CASE SkipApart
  <2>1. /\ pc = "merge" /\ i' = i + 1 /\ deallocated_mem' = deallocated_mem
        /\ ~Adjacent(deallocated_mem[i - 1], deallocated_mem[i])
    BY <1>3 DEF SkipApart
  <2>2. Ascends(deallocated_mem) /\ ApartUpTo(deallocated_mem, i - 1)
    BY <2>1 DEF ScanOrder
  <2>3. i \in Nat /\ i >= 2
    BY <2>1, <1>a DEF TypeOK, ScanIndex
  <2>4. ApartUpTo(deallocated_mem, i)
    <3>1. ASSUME NEW k \in 1 .. (i - 1), k + 1 <= Len(deallocated_mem)
          PROVE  ~Adjacent(deallocated_mem[k], deallocated_mem[k + 1])
      <4>1. CASE k = i - 1
        <5>1. k + 1 = i
          BY <4>1, <2>3
        <5> QED
          BY <5>1, <4>1, <2>1
      <4>2. CASE k # i - 1
        <5>1. k \in 1 .. ((i - 1) - 1)
          BY <4>2, <2>3
        <5> QED
          BY <5>1, <3>1, <2>2 DEF ApartUpTo
      <4> QED
        BY <4>1, <4>2
    <3> QED
      BY <3>1 DEF ApartUpTo
  <2>5. i' - 1 = i
    BY <2>1, <2>3
  <2> QED
    BY <2>1, <2>2, <2>4, <2>5 DEF ScanOrder
<1>4. ASSUME \/ \E h \in Handles, size \in Sizes : AllocateFromFreeList(h, size)
             \/ \E h \in Handles, size \in Sizes : ExpandMemory(h, size)
             \/ \E size \in Sizes : AllocateMisaligned(size)
             \/ Reclaim
      PROVE  pc' # "merge"
  BY <1>4 DEF AllocateFromFreeList, ExpandMemory, AllocateMisaligned, Reclaim
<1>5. CASE Aborted \/ UNCHANGED vars
  BY <1>5 DEF Aborted, vars, ScanOrder
<1> QED
  BY <1>1, <1>2, <1>3, <1>4, <1>5 DEF Next, Scan, ScanOrder

(* The merging scan of deallocate_memory keeps the list in order and the     *)
(* entries it has passed apart.                                              *)
THEOREM ScanInOrder == Spec => []ScanOrder
<1>1. Init => ScanOrder
  BY DEF Init, ScanOrder
<1> QED
  BY <1>1, Invariance, NextScanOrder, PTL DEF Spec

(* On a list in ascending order that has no empty entries and no entries     *)
(* that share a byte, two entries can only touch if they follow each other.  *)
LEMMA NoneTouch ==
  ASSUME NEW s \in Seq(FreeMemory), Ascends(s), ApartUpTo(s, Len(s)),
         \A j, k \in 1 .. Len(s) : j # k => Disjoint(s[j], s[k]),
         \A k \in 1 .. Len(s) : s[k].size > 0
  PROVE  \A j, k \in 1 .. Len(s) : ~Adjacent(s[j], s[k])
<1> SUFFICES ASSUME NEW j \in 1 .. Len(s), NEW k \in 1 .. Len(s), Adjacent(s[j], s[k])
             PROVE  FALSE
  OBVIOUS
<1>1. /\ Len(s) \in Nat
      /\ \A m \in 1 .. Len(s) : s[m].position \in Nat /\ s[m].size \in Nat \ {0}
  <2>1. \A m \in 1 .. Len(s) : s[m] \in FreeMemory
    OBVIOUS
  <2>2. \A m \in 1 .. Len(s) : s[m].position \in Nat /\ s[m].size \in Nat
    BY <2>1 DEF FreeMemory
  <2> QED
    BY <2>2
<1>2. s[k].position = s[j].position + s[j].size /\ s[k].position > s[j].position
  BY <1>1 DEF Adjacent
<1>3. j < k
  <2>1. CASE k < j
    BY <2>1, <1>1, <1>2 DEF Ascends
  <2>2. CASE j = k
    BY <2>2, <1>1, <1>2
  <2> QED
    BY <2>1, <2>2
<1>4. k # j + 1
  BY <1>1, <1>3 DEF ApartUpTo
<1>5. PICK m \in 1 .. Len(s) : j < m /\ m < k
  <2>1. j + 1 \in 1 .. Len(s) /\ j < j + 1 /\ j + 1 < k
    BY <1>1, <1>3, <1>4
  <2> QED
    BY <2>1
<1>6. s[j].position <= s[m].position /\ s[m].position <= s[k].position
  BY <1>5 DEF Ascends
<1>7. Disjoint(s[j], s[m]) /\ Disjoint(s[m], s[k])
  BY <1>1, <1>5
<1>8. /\ s[j].position \in Nat /\ s[j].size \in Nat \ {0}
      /\ s[m].position \in Nat /\ s[m].size \in Nat \ {0}
      /\ s[k].position \in Nat /\ s[k].size \in Nat \ {0}
  BY <1>1
<1>9. s[j].position + s[j].size <= s[m].position
  BY <1>6, <1>7, <1>8 DEF Disjoint
<1>10. s[m].position + s[m].size <= s[k].position
  BY <1>6, <1>7, <1>8 DEF Disjoint
<1> QED
  BY <1>2, <1>8, <1>9, <1>10

(* deallocate_memory leaves no two entries that it should have merged, and   *)
(* none that touches the free memory pointer.                                *)
LEMMA ReclaimCoalesces ==
  ASSUME IInv, IInv', ScanOrder, Reclaim
  PROVE  LET n == Len(deallocated_mem') IN
           /\ \A k \in 1 .. (n - 1) : ~Adjacent(deallocated_mem'[k], deallocated_mem'[k + 1])
           /\ n > 0 => deallocated_mem'[n].position + deallocated_mem'[n].size # next_mem'
           /\ (\A k \in 1 .. n : deallocated_mem'[k].size > 0) =>
                \A j, k \in 1 .. n : ~Adjacent(deallocated_mem'[j], deallocated_mem'[k])
<1> DEFINE d == deallocated_mem
           m == Len(d)
           n == Len(d')
<1>1. /\ pc = "merge" /\ i > m /\ m \in Nat \ {0} /\ i \in Nat
      /\ d \in Seq(FreeMemory)
      /\ d' \in Seq(FreeMemory) /\ n \in Nat
  BY DEF IInv, TypeOK, ScanIndex, Reclaim
<1>2. Ascends(d) /\ ApartUpTo(d, m)
  BY <1>1 DEF ScanOrder, ApartUpTo
<1>3. \/ n = m /\ d' = d /\ next_mem' = next_mem /\ d[m].position + d[m].size # next_mem
      \/ /\ n = m - 1 /\ next_mem' = d[m].position
         /\ \A j \in 1 .. n : d'[j] = d[j]
  <2>1. CASE d' = Drop(d, m) /\ next_mem' = d[m].position
    <3>1. m \in 1 .. m
      BY <1>1
    <3>2. /\ Len(Drop(d, m)) = m - 1
          /\ \A j \in 1 .. (m - 1) : Drop(d, m)[j] = IF j < m THEN d[j] ELSE d[j + 1]
      BY <1>1, <3>1, DropEntry
    <3>3. \A j \in 1 .. (m - 1) : j < m
      BY <1>1
    <3> QED
      BY <2>1, <3>2, <3>3
  <2>2. CASE d' = d /\ next_mem' = next_mem /\ d[m].position + d[m].size # next_mem
    BY <2>2
  <2> QED
    BY <2>1, <2>2 DEF Reclaim
<1>4. n <= m /\ \A j \in 1 .. n : j \in 1 .. m /\ d'[j] = d[j]
  BY <1>1, <1>3
<1>5. ApartUpTo(d', n)
  BY <1>1, <1>2, <1>4 DEF ApartUpTo
<1>6. Ascends(d')
  BY <1>2, <1>4 DEF Ascends
<1>7. n > 0 => d'[n].position + d'[n].size # next_mem'
  <2>1. CASE n = m
    BY <2>1, <1>1, <1>3
  <2>2. CASE n = m - 1 /\ n > 0
    <3>1. n \in 1 .. (m - 1) /\ n + 1 = m /\ d'[n] = d[n] /\ next_mem' = d[m].position
      BY <2>2, <1>1, <1>3
    <3>2. ~Adjacent(d[n], d[m])
      BY <3>1, <1>1, <1>2 DEF ApartUpTo
    <3> QED
      BY <3>1, <3>2 DEF Adjacent
  <2> QED
    BY <2>1, <2>2, <1>3
<1>8. \A k \in 1 .. (n - 1) : ~Adjacent(d'[k], d'[k + 1])
  BY <1>1, <1>5 DEF ApartUpTo
<1>9. \A j, k \in 1 .. n : j # k => Disjoint(d'[j], d'[k])
  BY DEF IInv, FreeListSound, Disjoint
<1>10. (\A k \in 1 .. n : d'[k].size > 0) => \A j, k \in 1 .. n : ~Adjacent(d'[j], d'[k])
  BY <1>1, <1>5, <1>6, <1>9, NoneTouch
<1> QED
  BY <1>7, <1>8, <1>10

(* deallocate_memory leaves no entries on the list that it should have       *)
(* merged, whatever was on it before, and gives the end of the frame back.   *)
THEOREM NoFragmentation == Spec => Coalesced
<1>1. IInv /\ IInv' /\ ScanOrder /\ [Next]_vars =>
        [LET n == Len(deallocated_mem') IN
         pc = "merge" /\ pc' = "idle" =>
           /\ \A k \in 1 .. (n - 1) : ~Adjacent(deallocated_mem'[k], deallocated_mem'[k + 1])
           /\ n > 0 => deallocated_mem'[n].position + deallocated_mem'[n].size # next_mem'
           /\ (\A k \in 1 .. n : deallocated_mem'[k].size > 0) =>
                \A j, k \in 1 .. n : ~Adjacent(deallocated_mem'[j], deallocated_mem'[k])]_vars
  <2> SUFFICES ASSUME IInv, IInv', ScanOrder, [Next]_vars, pc = "merge", pc' = "idle"
               PROVE  Reclaim
    BY ReclaimCoalesces
  <2> QED
    BY DEF Next, Scan, AllocateFromFreeList, ExpandMemory, AllocateMisaligned, Deallocate,
           MergeAdjacent, SkipApart, Aborted, vars
<1> QED
  BY <1>1, Invariance, ScanInOrder, PTL DEF Spec, Coalesced

-----------------------------------------------------------------------------
(* A granted block is an allocation of the abstract heap when it lies in the *)
(* frame and clear of the blocks in use.                                     *)
LEMMA GrantedIsHeapAllocate ==
  ASSUME TypeOK, NEW h \in Handles, NEW size \in Sizes, NEW b \in FreeMemory,
         h \notin live, b.size = size, b.position >= StartPosition,
         \A g \in live : Disjoint(b, block[g]),
         Granted(h, b)
  PROVE  Heap!Next
<1>1. block'[h] = b /\ block' = [block EXCEPT ![h] = b] /\ live' = live \cup {h}
  BY DEF Granted, TypeOK
<1>2. b = [position |-> b.position, size |-> size]
  BY DEF FreeMemory
<1>3. Heap!Allocate(h, size)
  BY <1>1, <1>2 DEF Heap!Allocate, Heap!Disjoint, Disjoint
<1> QED
  BY <1>3 DEF Heap!Next

(* Every step of the allocator is a step of the abstract heap or none at all. *)
LEMMA NextRefinesHeap == IInv /\ [Next]_vars => [Heap!Next]_(Heap!heapVars)
<1> SUFFICES ASSUME IInv, [Next]_vars
             PROVE  Heap!Next \/ UNCHANGED <<live, block>>
  BY DEF Heap!heapVars
<1>a. TypeOK /\ FrameBounds /\ FreeListSound
  BY DEF IInv
<1>1. ASSUME NEW h \in Handles, NEW size \in Sizes, AllocateFromFreeList(h, size)
      PROVE  Heap!Next
  <2> DEFINE n == Len(deallocated_mem)
  <2>1. PICK k \in 1 .. n :
          /\ deallocated_mem[k].size >= size
          /\ Granted(h, [position |-> deallocated_mem[k].position, size |-> size])
    BY <1>1 DEF AllocateFromFreeList
  <2> DEFINE e == deallocated_mem[k]
             b == [position |-> e.position, size |-> size]
  <2>2. e \in FreeMemory /\ size \in Nat /\ h \notin live
    BY <1>1, <1>a, SizesAssumption DEF TypeOK, AllocateFromFreeList
  <2>3. b \in FreeMemory
    BY <2>2 DEF FreeMemory
  <2>4. Inside(e)
    BY <1>a DEF FrameBounds
  <2>5. b.position >= StartPosition
    BY <2>4 DEF Inside
  <2>6. \A g \in live : Disjoint(b, block[g])
    <3> TAKE g \in live
    <3>1. Disjoint(e, block[g]) /\ block[g] \in FreeMemory
      BY <1>a DEF FreeListSound, TypeOK
    <3> QED
      BY <3>1, <2>1, <2>2 DEF Disjoint, FreeMemory
  <2>7. Granted(h, b)
    BY <2>1
  <2> HIDE DEF b
  <2>8. b.size = size
    BY DEF b
  <2> QED
    BY <2>2, <2>3, <2>5, <2>6, <2>7, <2>8, <1>a, GrantedIsHeapAllocate
<1>2. ASSUME NEW h \in Handles, NEW size \in Sizes, ExpandMemory(h, size)
      PROVE  Heap!Next \/ UNCHANGED <<live, block>>
  <2> DEFINE b == [position |-> next_mem, size |-> size]
  <2>1. CASE Granted(h, b)
    <3>1. size \in Nat /\ next_mem \in Nat /\ h \notin live
      BY <1>2, <1>a, SizesAssumption DEF TypeOK, ExpandMemory, HigherMark
    <3>2. b \in FreeMemory /\ b.size = size /\ b.position = next_mem
      BY <3>1 DEF FreeMemory
    <3>3. b.position >= StartPosition
      BY <3>2, <1>a DEF FrameBounds
    <3>4. \A g \in live : Inside(block[g]) /\ block[g] \in FreeMemory
      BY <1>a DEF FrameBounds, TypeOK
    <3>5. \A g \in live : Disjoint(b, block[g])
      BY <3>4, <3>1, <3>2 DEF Disjoint, Inside, FreeMemory
    <3> HIDE DEF b
    <3> QED
      BY <2>1, <3>1, <3>2, <3>3, <3>5, <1>a, GrantedIsHeapAllocate
  <2>2. CASE UNCHANGED <<live, block>>
    BY <2>2
  <2> QED
    BY <1>2, <2>1, <2>2 DEF ExpandMemory, HigherMark
<1>3. ASSUME NEW h \in Handles, Deallocate(h)
      PROVE  Heap!Next
  <2>1. Heap!Deallocate(h)
    BY <1>3 DEF Deallocate, Heap!Deallocate, NoBlock, Heap!NoBlock
  <2> QED
    BY <2>1 DEF Heap!Next
<1>4. ASSUME NEW size \in Sizes, AllocateMisaligned(size)
      PROVE  UNCHANGED <<live, block>>
  BY <1>4 DEF AllocateMisaligned
<1>5. CASE Scan \/ Aborted \/ UNCHANGED vars
  BY <1>5 DEF Scan, MergeAdjacent, SkipApart, Reclaim, Aborted, vars
<1> QED
  BY <1>1, <1>2, <1>3, <1>4, <1>5 DEF Next

(* The allocator implements the abstract heap: first fit, splitting, merging *)
(* and shrinking the frame are invisible to the variables of a function.     *)
THEOREM AllocatorImplementsHeap == Spec => HeapSpec
<1>1. Init => Heap!Init
  BY DEF Init, Heap!Init, NoBlock, Heap!NoBlock
<1> QED
  BY <1>1, Invariance, NextRefinesHeap, PTL DEF Spec, HeapSpec, Heap!Spec

=============================================================================
