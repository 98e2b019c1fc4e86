----------------------- MODULE NonreentrantLockProofs -----------------------
(***************************************************************************)
(* Proofs about NonreentrantLock, for any functions and any depth of calls.*)
(*                                                                         *)
(* NoReentry needs to know that the slot tells the truth                   *)
(* (LockTellsHolder), and this has to survive reverts, which restore an    *)
(* older value of the slot.  So the same must be true of every value that  *)
(* a message call would restore, of the functions below it: SavedTells.    *)
(* Static calls cannot change the slot because whoever holds the lock did  *)
(* not run in a static call (HolderNotStatic), and a revert inside of one  *)
(* restores the value that is there (StaticKeeps).                         *)
(***************************************************************************)
EXTENDS NonreentrantLock, SequenceTheorems, TLAPS

Depth == Len(stack)
Message0(n) == stack[n].call = "message"

SavedTells ==
  \A n \in 1 .. Depth : Message0(n) =>
    /\ \A j \in 1 .. (n - 1) : Holds(j) => stack[n].saved.lock = Locked
    /\ stack[n].saved.lock = Locked =>
         stack[n].saved.destroyed \/ \E j \in 1 .. (n - 1) : Holds(j)

(* Static calls stay static, and internal calls are as static as the message.*)
StaticNested ==
  /\ \A j, k \in 1 .. Depth : j < k /\ stack[j].static => stack[k].static
  /\ \A n, k \in 1 .. Depth :
       (n < k /\ \A j \in (n + 1) .. k : stack[j].call = "internal")
         => (stack[k].static <=> stack[n].static)
  /\ Depth > 0 => ~stack[1].static /\ stack[1].call = "message"

HolderNotStatic == \A k \in 1 .. Depth : Holds(k) => ~stack[k].static

StaticKeeps ==
  \A n \in 1 .. Depth : Message0(n) /\ stack[n].static => stack[n].saved.lock = lock

IInv ==
  /\ TypeOK
  /\ NoReentry
  /\ LockTellsHolder
  /\ FreeBetweenTransactions
  /\ SavedTells
  /\ StaticNested
  /\ HolderNotStatic
  /\ StaticKeeps

-----------------------------------------------------------------------------
LEMMA LockValues == Locked # Unlocked /\ Locked # 0
BY DEF Locked, Unlocked

LEMMA InitIInv == Init => IInv
<1> SUFFICES ASSUME Init PROVE IInv
  OBVIOUS
<1>1. stack = <<>> /\ lock = 0 /\ lock # Locked
  BY LockValues DEF Init
<1>2. TypeOK
  <2>1. stack \in Seq(Frame) /\ gas \in 0 .. MaxCalls
    BY <1>1, MaxCallsAssumption DEF Init
  <2>2. lock \in Values
    BY <1>1 DEF Values
  <2> QED
    BY <2>1, <2>2 DEF Init, TypeOK
<1>3. Depth = 0
  BY <1>1 DEF Depth
<1> QED
  BY <1>1, <1>2, <1>3
     DEF IInv, NoReentry, LockTellsHolder, FreeBetweenTransactions, SavedTells,
         StaticNested, HolderNotStatic, StaticKeeps, Depth

(* What the parts of the invariant say in terms of Depth.                    *)
LEMMA Facts ==
  ASSUME IInv
  PROVE  /\ Depth \in Nat
         /\ stack \in Seq(Frame)
         /\ \A k \in 1 .. Depth : stack[k] \in Frame
         /\ lock \in Values /\ destroyed \in BOOLEAN /\ dead \in BOOLEAN
BY DEF IInv, TypeOK, Depth

(* A function is called: by a transaction, by a message or internally.       *)
LEMMA PushIInv ==
  ASSUME IInv, NEW a \in Frame, a.at = "entry",
         stack' = Append(stack, a), gas' \in 0 .. MaxCalls,
         UNCHANGED <<cancun, lock, destroyed, dead>>,
         stack = <<>> => ~dead,
         a.call = "message" => a.saved = Now,
         a.call = "internal" => Depth > 0 /\ (a.static <=> stack[Depth].static),
         Depth > 0 => (stack[Depth].static => a.static),
         Depth = 0 => a.call = "message" /\ ~a.static
  PROVE  IInv'
<1>0. PICK n \in Nat : n = Depth
  BY Facts
<1>a. /\ n \in Nat /\ n = Depth /\ n = Len(stack) /\ stack \in Seq(Frame) /\ lock \in Values
      /\ \A k \in 1 .. n : stack[k] \in Frame
  BY <1>0, Facts DEF Depth
<1>z. n = 0 => stack = <<>>
  BY <1>a, EmptySeq
<1>b. /\ stack' \in Seq(Frame) /\ Len(stack') = n + 1
      /\ stack'[n + 1] = a
      /\ \A k \in 1 .. n : stack'[k] = stack[k]
  BY <1>a DEF Depth
<1>c. Depth' = n + 1 /\ Locked' = Locked /\ Unlocked' = Unlocked
  BY <1>b DEF Depth, Locked, Unlocked
<1>d. /\ \A k \in 1 .. n : Holds(k)' <=> Holds(k)
      /\ ~Holds(n + 1)'
  BY <1>b DEF Holds, Writer
<1>e. \A k \in 1 .. (n + 1) : k \in 1 .. n \/ k = n + 1
  BY <1>a
<1>y. Frame' = Frame /\ Values' = Values
  BY DEF Frame, Values
<1>1. TypeOK'
  BY <1>b, <1>y DEF IInv, TypeOK
<1>2. NoReentry'
  <2>1. \A j, k \in 1 .. n : (j < k /\ Holds(j) /\ stack[k].fn \in Nonreentrant) => stack[k].at = "entry"
    BY <1>a DEF IInv, NoReentry
  <2>2. \A j, k \in 1 .. (n + 1) :
          (j < k /\ Holds(j)' /\ stack'[k].fn \in Nonreentrant) => stack'[k].at = "entry"
    BY <2>1, <1>a, <1>b, <1>d, <1>e
  <2> QED
    BY <2>2, <1>b DEF NoReentry
<1>3. LockTellsHolder'
  <2>1. /\ (\E k \in 1 .. n : Holds(k)) => lock = Locked
        /\ (n # 0 /\ lock = Locked) => destroyed \/ \E k \in 1 .. n : Holds(k)
    BY <1>a DEF IInv, LockTellsHolder
  <2>2. (\E k \in 1 .. (n + 1) : Holds(k)') <=> (\E k \in 1 .. n : Holds(k))
    BY <1>a, <1>d, <1>e
  <2>3. n = 0 => lock # Locked
    BY <1>z DEF IInv, FreeBetweenTransactions
  <2> QED
    BY <2>1, <2>2, <2>3, <1>b, <1>c DEF LockTellsHolder
<1>4. FreeBetweenTransactions'
  BY <1>a, <1>b DEF FreeBetweenTransactions
<1>5. SavedTells'
  <2>1. ASSUME NEW m \in 1 .. n
        PROVE  Message0(m)' =>
                 /\ \A j \in 1 .. (m - 1) : Holds(j)' => stack'[m].saved.lock = Locked'
                 /\ stack'[m].saved.lock = Locked' =>
                      stack'[m].saved.destroyed \/ \E j \in 1 .. (m - 1) : Holds(j)'
    <3>1. \A j \in 1 .. (m - 1) : j \in 1 .. n
      BY <1>a
    <3>2. Message0(m) =>
                 /\ \A j \in 1 .. (m - 1) : Holds(j) => stack[m].saved.lock = Locked
                 /\ stack[m].saved.lock = Locked =>
                      stack[m].saved.destroyed \/ \E j \in 1 .. (m - 1) : Holds(j)
      BY <1>a DEF IInv, SavedTells
    <3> QED
      BY <3>1, <3>2, <1>b, <1>c, <1>d DEF Message0
  <2>2. Message0(n + 1)' =>
                 /\ \A j \in 1 .. n : Holds(j)' => stack'[n + 1].saved.lock = Locked'
                 /\ stack'[n + 1].saved.lock = Locked' =>
                      stack'[n + 1].saved.destroyed \/ \E j \in 1 .. n : Holds(j)'
    <3>1. /\ (\E k \in 1 .. n : Holds(k)) => lock = Locked
          /\ lock = Locked => destroyed \/ \E k \in 1 .. n : Holds(k)
      <4>1. n = 0 => lock # Locked
        BY <1>z DEF IInv, FreeBetweenTransactions
      <4> QED
        BY <4>1, <1>a DEF IInv, LockTellsHolder, Depth
    <3> QED
      BY <3>1, <1>b, <1>c, <1>d DEF Message0, Now
  <2>3. (n + 1) - 1 = n
    BY <1>a
  <2> QED
    BY <2>1, <2>2, <2>3, <1>c, <1>e DEF SavedTells
<1>6. StaticNested'
  <2>1. \A j, k \in 1 .. (n + 1) : j < k /\ stack'[j].static => stack'[k].static
    <3>1. \A j, k \in 1 .. n : j < k /\ stack[j].static => stack[k].static
      BY <1>a DEF IInv, StaticNested
    <3>2. \A j \in 1 .. n : stack[j].static => stack[n].static
      BY <3>1, <1>a
    <3>3. \A j \in 1 .. n : stack[j].static => a.static
      BY <3>2, <1>a
    <3> QED
      BY <3>1, <3>3, <1>a, <1>b, <1>e
  <2>2. ASSUME NEW m \in 1 .. (n + 1), NEW k \in 1 .. (n + 1), m < k,
               \A j \in (m + 1) .. k : stack'[j].call = "internal"
        PROVE  (stack'[k].static <=> stack'[m].static)
    <3>0. \A i1, k1 \in 1 .. n :
            (i1 < k1 /\ \A j \in (i1 + 1) .. k1 : stack[j].call = "internal")
               => (stack[k1].static <=> stack[i1].static)
      BY <1>a DEF IInv, StaticNested
    <3>1. CASE k \in 1 .. n
      <4>1. m \in 1 .. n /\ \A j \in (m + 1) .. k : j \in 1 .. n /\ stack[j].call = "internal"
        BY <2>2, <3>1, <1>a, <1>b
      <4> QED
        BY <4>1, <3>0, <3>1, <2>2, <1>b
    <3>2. CASE k = n + 1
      <4>1. a.call = "internal"
        BY <2>2, <3>2, <1>a, <1>b
      <4>2. n > 0 /\ (a.static <=> stack[n].static)
        BY <4>1, <1>a
      <4>3. m \in 1 .. n
        BY <2>2, <3>2, <1>a
      <4>4. CASE m = n
        BY <4>2, <4>4, <3>2, <1>a, <1>b
      <4>5. CASE m < n
        <5>1. \A j \in (m + 1) .. n : j \in 1 .. n /\ j \in (m + 1) .. k
          BY <3>2, <1>a, <4>3
        <5>2. \A j \in (m + 1) .. n : stack[j].call = "internal"
          BY <5>1, <2>2, <1>b
        <5>3. n \in 1 .. n
          BY <1>a, <4>2
        <5>4. (stack[n].static <=> stack[m].static)
          BY <5>2, <5>3, <4>5, <4>3, <3>0
        <5> QED
          BY <5>4, <4>2, <4>3, <3>2, <1>b
      <4> QED
        BY <4>3, <4>4, <4>5, <1>a
    <3> QED
      BY <3>1, <3>2, <1>e
  <2>3. ~stack'[1].static /\ stack'[1].call = "message"
    <3>1. CASE n = 0
      BY <3>1, <1>b, <1>a
    <3>2. CASE n > 0
      <4>1. ~stack[1].static /\ stack[1].call = "message" /\ 1 \in 1 .. n
        BY <3>2, <1>a DEF IInv, StaticNested
      <4> QED
        BY <4>1, <1>b
    <3> QED
      BY <3>1, <3>2, <1>a
  <2> QED
    BY <2>1, <2>2, <2>3, <1>c DEF StaticNested
<1>7. HolderNotStatic'
  BY <1>a, <1>b, <1>c, <1>d, <1>e DEF HolderNotStatic, IInv
<1>8. StaticKeeps'
  <2>1. \A m \in 1 .. n : Message0(m) /\ stack[m].static => stack[m].saved.lock = lock
    BY <1>a DEF IInv, StaticKeeps
  <2>2. \A m \in 1 .. n : Message0(m)' /\ stack'[m].static => stack'[m].saved.lock = lock'
    BY <2>1, <1>b DEF Message0
  <2>3. Message0(n + 1)' => stack'[n + 1].saved.lock = lock'
    BY <1>b DEF Message0, Now
  <2> QED
    BY <2>2, <2>3, <1>c, <1>e DEF StaticKeeps
<1> QED
  BY <1>1, <1>2, <1>3, <1>4, <1>5, <1>6, <1>7, <1>8 DEF IInv

(* Functions are left, down to the one below position n: by a return, a      *)
(* revert or SELFDESTRUCT.  The slot then has the value l.                   *)
LEMMA PopIInv ==
  ASSUME IInv, NEW n \in 1 .. Depth, stack' = Popped(n),
         NEW l \in Values, NEW d \in BOOLEAN,
         Settle(l, d), UNCHANGED <<cancun, gas>>,
         \A j \in 1 .. (n - 1) : Holds(j) => l = Locked,
         l = Locked => d \/ \E j \in 1 .. (n - 1) : Holds(j),
         \A j \in 1 .. (n - 1) : stack[j].static => l = lock
  PROVE  IInv'
<1>a. /\ Depth \in Nat /\ n \in Nat /\ n >= 1 /\ n <= Depth /\ Depth = Len(stack)
      /\ stack \in Seq(Frame)
      /\ \A k \in 1 .. (n - 1) : k \in 1 .. Depth /\ stack[k] \in Frame
  BY Facts DEF Depth
<1>b. /\ stack' \in Seq(Frame) /\ Len(stack') = n - 1
      /\ \A k \in 1 .. (n - 1) : stack'[k] = stack[k]
  BY <1>a DEF Popped
<1>c. Depth' = n - 1 /\ Locked' = Locked
  BY <1>b DEF Depth, Locked
<1>d. \A k \in 1 .. (n - 1) : Holds(k)' <=> Holds(k)
  BY <1>b DEF Holds, Writer
<1>e. /\ n = 1 <=> stack' = <<>>
      /\ n # 1 => lock' = l /\ destroyed' = d /\ dead' = dead
      /\ n = 1 => /\ lock' = IF cancun THEN 0 ELSE l
                  /\ dead' = (d /\ ~cancun)
                  /\ destroyed' = FALSE
  <2>1. stack' = <<>> <=> Len(stack') = 0
    BY <1>b, EmptySeq
  <2> QED
    BY <2>1, <1>a, <1>b DEF Settle
<1>y. Frame' = Frame /\ Values' = Values
  BY DEF Frame, Values
<1>1. TypeOK'
  <2>1. lock' \in Values
    BY <1>e DEF Values
  <2>2. destroyed' \in BOOLEAN /\ dead' \in BOOLEAN
    BY <1>e DEF IInv, TypeOK
  <2> QED
    BY <2>1, <2>2, <1>b, <1>y DEF IInv, TypeOK
<1>2. NoReentry'
  <2>1. \A j, k \in 1 .. Depth :
          (j < k /\ Holds(j) /\ stack[k].fn \in Nonreentrant) => stack[k].at = "entry"
    BY <1>a DEF IInv, NoReentry
  <2>2. \A j, k \in 1 .. (n - 1) :
          (j < k /\ Holds(j)' /\ stack'[k].fn \in Nonreentrant) => stack'[k].at = "entry"
    BY <2>1, <1>a, <1>b, <1>d
  <2> QED
    BY <2>2, <1>b DEF NoReentry
<1>3. LockTellsHolder'
  <2>1. CASE n = 1
    BY <2>1, <1>b, <1>e DEF LockTellsHolder
  <2>2. CASE n # 1
    <3>1. (\E k \in 1 .. (n - 1) : Holds(k)') => lock' = Locked'
      BY <2>2, <1>c, <1>d, <1>e
    <3>2. lock' = Locked' => destroyed' \/ \E k \in 1 .. (n - 1) : Holds(k)'
      BY <2>2, <1>c, <1>d, <1>e
    <3> QED
      BY <3>1, <3>2, <1>b DEF LockTellsHolder
  <2> QED
    BY <2>1, <2>2
<1>4. FreeBetweenTransactions'
  <2>1. CASE n # 1
    BY <2>1, <1>e DEF FreeBetweenTransactions
  <2>2. CASE n = 1 /\ cancun
    BY <2>2, <1>c, <1>e, LockValues DEF FreeBetweenTransactions
  <2>3. CASE n = 1 /\ ~cancun
    <3>1. l = Locked => d
      BY <2>3
    <3> QED
      BY <3>1, <2>3, <1>c, <1>e DEF FreeBetweenTransactions
  <2> QED
    BY <2>1, <2>2, <2>3
<1>5. SavedTells'
  <2>1. ASSUME NEW m \in 1 .. (n - 1)
        PROVE  Message0(m)' =>
                 /\ \A j \in 1 .. (m - 1) : Holds(j)' => stack'[m].saved.lock = Locked'
                 /\ stack'[m].saved.lock = Locked' =>
                      stack'[m].saved.destroyed \/ \E j \in 1 .. (m - 1) : Holds(j)'
    <3>1. m \in 1 .. Depth /\ \A j \in 1 .. (m - 1) : j \in 1 .. (n - 1)
      BY <1>a
    <3>2. Message0(m) =>
                 /\ \A j \in 1 .. (m - 1) : Holds(j) => stack[m].saved.lock = Locked
                 /\ stack[m].saved.lock = Locked =>
                      stack[m].saved.destroyed \/ \E j \in 1 .. (m - 1) : Holds(j)
      BY <3>1 DEF IInv, SavedTells
    <3> QED
      BY <3>1, <3>2, <1>b, <1>c, <1>d DEF Message0
  <2> QED
    BY <2>1, <1>c DEF SavedTells
<1>6. StaticNested'
  <2>1. /\ \A j, k \in 1 .. Depth : j < k /\ stack[j].static => stack[k].static
        /\ \A m, k \in 1 .. Depth :
             (m < k /\ \A j \in (m + 1) .. k : stack[j].call = "internal")
               => (stack[k].static <=> stack[m].static)
        /\ ~stack[1].static /\ stack[1].call = "message"
    BY <1>a DEF IInv, StaticNested
  <2>2. \A j, k \in 1 .. (n - 1) : j < k /\ stack'[j].static => stack'[k].static
    BY <2>1, <1>a, <1>b
  <2>3. ASSUME NEW m \in 1 .. (n - 1), NEW k \in 1 .. (n - 1), m < k,
               \A j \in (m + 1) .. k : stack'[j].call = "internal"
        PROVE  stack'[k].static <=> stack'[m].static
    <3>1. \A j \in (m + 1) .. k : j \in 1 .. (n - 1) /\ stack[j].call = "internal"
      BY <2>3, <1>a, <1>b
    <3> QED
      BY <3>1, <2>1, <2>3, <1>a, <1>b
  <2>4. n - 1 > 0 => ~stack'[1].static /\ stack'[1].call = "message"
    BY <2>1, <1>a, <1>b
  <2> QED
    BY <2>2, <2>3, <2>4, <1>c DEF StaticNested
<1>7. HolderNotStatic'
  <2>1. \A k \in 1 .. (n - 1) : Holds(k) => ~stack[k].static
    BY <1>a DEF IInv, HolderNotStatic
  <2>2. \A k \in 1 .. (n - 1) : Holds(k)' => ~stack'[k].static
    BY <2>1, <1>b, <1>d
  <2> QED
    BY <2>2, <1>c DEF HolderNotStatic
<1>8. StaticKeeps'
  <2>1. \A m \in 1 .. (n - 1) : Message0(m) /\ stack[m].static => stack[m].saved.lock = lock
    BY <1>a DEF IInv, StaticKeeps
  <2>2. \A m \in 1 .. (n - 1) : n # 1
    BY <1>a
  <2>3. \A m \in 1 .. (n - 1) :
          Message0(m)' /\ stack'[m].static => stack'[m].saved.lock = lock'
    BY <2>1, <2>2, <1>b, <1>e DEF Message0
  <2> QED
    BY <2>3, <1>c DEF StaticKeeps
<1> QED
  BY <1>1, <1>2, <1>3, <1>4, <1>5, <1>6, <1>7, <1>8 DEF IInv

(* The prologue passes: the function is in its body and, unless it is @view, *)
(* holds the lock.                                                           *)
LEMMA EnterIInv ==
  ASSUME IInv, Entering, Enter, UNCHANGED <<cancun, gas, destroyed, dead>>,
         Top.fn \in Nonreentrant => lock # Locked,
         lock' = IF Writer(Top.fn) THEN Locked ELSE lock,
         Writer(Top.fn) => ~Top.static
  PROVE  IInv'
<1>0. PICK n \in Nat : n = Depth
  BY Facts
<1>a. /\ n = Len(stack) /\ stack \in Seq(Frame) /\ n > 0
      /\ \A k \in 1 .. n : stack[k] \in Frame
      /\ Top = stack[n] /\ n \in 1 .. n
      /\ stack[n].at = "entry"
  BY <1>0, Facts, EmptySeq DEF Depth, Entering, Top
<1>b. /\ stack' \in Seq(Frame) /\ Len(stack') = n
      /\ \A k \in 1 .. n : k # n => stack'[k] = stack[k]
      /\ stack'[n] = [stack[n] EXCEPT !.at = "body"]
  <2>1. [stack[n] EXCEPT !.at = "body"] \in Frame
    BY <1>a DEF Frame
  <2> QED
    BY <2>1, <1>a DEF Enter
<1>c. \A k \in 1 .. n : /\ stack'[k].fn = stack[k].fn
                        /\ stack'[k].call = stack[k].call
                        /\ stack'[k].static <=> stack[k].static
                        /\ stack'[k].saved = stack[k].saved
                        /\ k # n => stack'[k].at = stack[k].at
  <2> SUFFICES ASSUME NEW k \in 1 .. n
               PROVE  /\ stack'[k].fn = stack[k].fn
                      /\ stack'[k].call = stack[k].call
                      /\ stack'[k].static <=> stack[k].static
                      /\ stack'[k].saved = stack[k].saved
                      /\ k # n => stack'[k].at = stack[k].at
    OBVIOUS
  <2>1. CASE k # n
    BY <2>1, <1>b
  <2>2. CASE k = n
    <3>1. stack[n] \in Frame
      BY <1>a
    <3> QED
      BY <3>1, <2>2, <1>b DEF Frame
  <2> QED
    BY <2>1, <2>2
<1>d. Depth' = n /\ Locked' = Locked
  BY <1>b DEF Depth, Locked
<1>e. /\ \A k \in 1 .. n : k # n => (Holds(k)' <=> Holds(k))
      /\ ~Holds(n)
      /\ Holds(n)' <=> Writer(stack[n].fn)
  <2>1. stack'[n].at = "body"
    BY <1>a, <1>b DEF Frame
  <2> QED
    BY <2>1, <1>a, <1>c DEF Holds, Writer
<1>f. Top.fn \in Nonreentrant => \A k \in 1 .. n : ~Holds(k)
  BY <1>a DEF IInv, LockTellsHolder
<1>g. Writer(Top.fn) => Top.fn \in Nonreentrant
  BY DEF Writer
<1>y. Frame' = Frame /\ Values' = Values
  BY DEF Frame, Values
<1>1. TypeOK'
  <2>1. lock' \in Values
    BY DEF IInv, TypeOK, Locked, Values
  <2> QED
    BY <2>1, <1>b, <1>y DEF IInv, TypeOK
<1>2. NoReentry'
  <2>1. \A j, k \in 1 .. n : (j < k /\ Holds(j) /\ stack[k].fn \in Nonreentrant) => stack[k].at = "entry"
    BY <1>a DEF IInv, NoReentry
  <2>2. ASSUME NEW j \in 1 .. n, NEW k \in 1 .. n, j < k, Holds(j)', stack'[k].fn \in Nonreentrant
        PROVE  stack'[k].at = "entry"
    <3>1. Holds(j) /\ stack[k].fn \in Nonreentrant
      BY <2>2, <1>a, <1>c, <1>e
    <3>2. k # n
      BY <3>1, <1>a, <1>f
    <3> QED
      BY <3>1, <3>2, <2>1, <2>2, <1>c
  <2> QED
    BY <2>2, <1>b DEF NoReentry
<1>3. LockTellsHolder'
  <2>1. /\ (\E k \in 1 .. n : Holds(k)) => lock = Locked
        /\ lock = Locked => destroyed \/ \E k \in 1 .. n : Holds(k)
    BY <1>a DEF IInv, LockTellsHolder
  <2>2. (\E k \in 1 .. n : Holds(k)') => lock' = Locked'
    BY <2>1, <1>a, <1>d, <1>e
  <2>3. lock' = Locked' => destroyed' \/ \E k \in 1 .. n : Holds(k)'
    <3>1. CASE Writer(Top.fn)
      BY <3>1, <1>a, <1>e
    <3>2. CASE ~Writer(Top.fn)
      BY <3>2, <2>1, <1>a, <1>d, <1>e
    <3> QED
      BY <3>1, <3>2
  <2> QED
    BY <2>2, <2>3, <1>b DEF LockTellsHolder
<1>4. FreeBetweenTransactions'
  BY <1>a, <1>b DEF FreeBetweenTransactions
<1>5. SavedTells'
  <2>1. ASSUME NEW m \in 1 .. n
        PROVE  Message0(m)' =>
                 /\ \A j \in 1 .. (m - 1) : Holds(j)' => stack'[m].saved.lock = Locked'
                 /\ stack'[m].saved.lock = Locked' =>
                      stack'[m].saved.destroyed \/ \E j \in 1 .. (m - 1) : Holds(j)'
    <3>1. \A j \in 1 .. (m - 1) : j \in 1 .. n /\ j # n
      BY <1>a
    <3>2. Message0(m) =>
                 /\ \A j \in 1 .. (m - 1) : Holds(j) => stack[m].saved.lock = Locked
                 /\ stack[m].saved.lock = Locked =>
                      stack[m].saved.destroyed \/ \E j \in 1 .. (m - 1) : Holds(j)
      BY <1>0 DEF IInv, SavedTells
    <3> QED
      BY <3>1, <3>2, <1>c, <1>d, <1>e DEF Message0
  <2> QED
    BY <2>1, <1>d DEF SavedTells
<1>6. StaticNested'
  <2>1. /\ \A j, k \in 1 .. n : j < k /\ stack[j].static => stack[k].static
        /\ \A m, k \in 1 .. n :
             (m < k /\ \A j \in (m + 1) .. k : stack[j].call = "internal")
               => (stack[k].static <=> stack[m].static)
        /\ ~stack[1].static /\ stack[1].call = "message"
    BY <1>0, <1>a DEF IInv, StaticNested
  <2>2. \A j, k \in 1 .. n : j < k /\ stack'[j].static => stack'[k].static
    BY <2>1, <1>c
  <2>3. ASSUME NEW m \in 1 .. n, NEW k \in 1 .. n, m < k,
               \A j \in (m + 1) .. k : stack'[j].call = "internal"
        PROVE  stack'[k].static <=> stack'[m].static
    <3>1. \A j \in (m + 1) .. k : j \in 1 .. n /\ stack[j].call = "internal"
      BY <2>3, <1>a, <1>c
    <3> QED
      BY <3>1, <2>1, <2>3, <1>c
  <2>4. ~stack'[1].static /\ stack'[1].call = "message"
    BY <2>1, <1>a, <1>c
  <2> QED
    BY <2>2, <2>3, <2>4, <1>d DEF StaticNested
<1>7. HolderNotStatic'
  <2>1. \A k \in 1 .. n : Holds(k) => ~stack[k].static
    BY <1>0 DEF IInv, HolderNotStatic
  <2>2. \A k \in 1 .. n : Holds(k)' => ~stack'[k].static
    BY <2>1, <1>a, <1>c, <1>e
  <2> QED
    BY <2>2, <1>d DEF HolderNotStatic
<1>8. StaticKeeps'
  <2>1. \A m \in 1 .. n : Message0(m) /\ stack[m].static => stack[m].saved.lock = lock
    BY <1>0 DEF IInv, StaticKeeps
  <2>2. Writer(Top.fn) => \A m \in 1 .. n : ~stack[m].static
    <3>1. \A j \in 1 .. n : j < n /\ stack[j].static => stack[n].static
      BY <1>0, <1>a DEF IInv, StaticNested
    <3> QED
      BY <3>1, <1>a
  <2>3. \A m \in 1 .. n : Message0(m)' /\ stack'[m].static => stack'[m].saved.lock = lock'
    BY <2>1, <2>2, <1>c DEF Message0
  <2> QED
    BY <2>3, <1>d DEF StaticKeeps
<1> QED
  BY <1>1, <1>2, <1>3, <1>4, <1>5, <1>6, <1>7, <1>8 DEF IInv

-----------------------------------------------------------------------------
(* A revert restores the slot; in a static call it had not changed.          *)
LEMMA RevertIInv ==
  ASSUME IInv, RevertCall
  PROVE  IInv' /\ (stack # <<>> /\ Top.static => lock' = lock)
<1>1. PICK n \in 1 .. Depth :
        /\ MessageStart(n)
        /\ stack' = Popped(n)
        /\ Settle(stack[n].saved.lock, stack[n].saved.destroyed)
        /\ UNCHANGED <<cancun, gas>>
  BY DEF RevertCall, Depth
<1>a. /\ Depth \in Nat /\ stack \in Seq(Frame) /\ Depth = Len(stack)
      /\ \A k \in 1 .. Depth : stack[k] \in Frame
  BY Facts DEF Depth
<1>2. PICK l : l = stack[n].saved.lock
  OBVIOUS
<1>3. PICK d : d = stack[n].saved.destroyed
  OBVIOUS
<1>4. l \in Values /\ d \in BOOLEAN
  <2>1. stack[n] \in Frame
    BY <1>a
  <2> QED
    BY <2>1, <1>2, <1>3 DEF Frame
<1>5. Message0(n)
  BY <1>1 DEF MessageStart, Message0
<1>6. /\ \A j \in 1 .. (n - 1) : Holds(j) => l = Locked
      /\ l = Locked => d \/ \E j \in 1 .. (n - 1) : Holds(j)
  BY <1>2, <1>3, <1>5 DEF IInv, SavedTells
<1>7. stack[n].static => l = lock
  BY <1>2, <1>5 DEF IInv, StaticKeeps
<1>8. \A j \in 1 .. (n - 1) : stack[j].static => l = lock
  <2>1. \A j \in 1 .. (n - 1) : stack[j].static => stack[n].static
    BY <1>a DEF IInv, StaticNested
  <2> QED
    BY <2>1, <1>7
<1>9. IInv'
  <2>1. Settle(l, d)
    BY <1>1, <1>2, <1>3
  <2> QED
    BY <2>1, <1>1, <1>4, <1>6, <1>8, PopIInv
<1>10. ASSUME Top.static PROVE lock' = lock
  <2>1. stack[n].static
    <3>1. \A j \in (n + 1) .. Depth : stack[j].call = "internal"
      BY <1>1, <1>a DEF MessageStart, SameMessage
    <3>2. \A m, k \in 1 .. Depth :
             (m < k /\ \A j \in (m + 1) .. k : stack[j].call = "internal")
               => (stack[k].static <=> stack[m].static)
      BY DEF IInv, StaticNested
    <3>3. Depth \in 1 .. Depth /\ Top = stack[Depth]
      BY <1>a DEF Top
    <3>4. CASE n = Depth
      BY <3>3, <3>4, <1>10
    <3>5. CASE n # Depth
      <4>1. n < Depth
        BY <3>5, <1>a
      <4>2. stack[Depth].static <=> stack[n].static
        BY <4>1, <3>1, <3>2, <3>3
      <4> QED
        BY <4>2, <3>3, <1>10
    <3> QED
      BY <3>4, <3>5
  <2>2. n > 1
    BY <2>1, <1>a DEF IInv, StaticNested
  <2>3. stack' # <<>>
    <3>1. Len(stack') = n - 1
      BY <1>1, <1>a DEF Popped
    <3> QED
      BY <3>1, <2>2, <1>a
  <2> QED
    BY <2>1, <2>3, <1>1, <1>2, <1>7 DEF Settle
<1> QED
  BY <1>9, <1>10

(* A return gives the lock back if the function had taken it.                *)
LEMMA ExitIInv ==
  ASSUME IInv, Exit
  PROVE  IInv' /\ (Top.static => lock' = lock)
<1>0. PICK n \in Nat : n = Depth
  BY Facts
<1>a. /\ stack \in Seq(Frame) /\ n = Len(stack) /\ n > 0 /\ n \in 1 .. Depth
      /\ \A k \in 1 .. n : stack[k] \in Frame
      /\ Top = stack[n] /\ stack[n].at = "body"
  BY <1>0, Facts, EmptySeq DEF Depth, Exit, InBody, Top
<1>b. PICK l : l = AfterExit(Top.fn)
  OBVIOUS
<1>c. /\ stack' = Popped(n) /\ Settle(l, destroyed) /\ UNCHANGED <<cancun, gas>>
  BY <1>a, <1>b DEF Exit
<1>1. l \in Values /\ destroyed \in BOOLEAN
  BY <1>b, Facts DEF AfterExit, Values, Unlocked
<1>2. Holds(n) <=> Writer(Top.fn)
  BY <1>a DEF Holds
<1>3. Writer(Top.fn) => \A j \in 1 .. (n - 1) : ~Holds(j)
  <2>1. \A j, k \in 1 .. n : (j < k /\ Holds(j) /\ stack[k].fn \in Nonreentrant) => stack[k].at = "entry"
    BY <1>a DEF IInv, NoReentry
  <2> QED
    BY <2>1, <1>a DEF Writer
<1>4. \A j \in 1 .. (n - 1) : Holds(j) => l = Locked
  <2>1. (\E k \in 1 .. n : Holds(k)) => lock = Locked
    BY <1>a DEF IInv, LockTellsHolder
  <2> QED
    BY <2>1, <1>3, <1>b, <1>a DEF AfterExit
<1>5. l = Locked => destroyed \/ \E j \in 1 .. (n - 1) : Holds(j)
  <2>1. lock = Locked => destroyed \/ \E k \in 1 .. n : Holds(k)
    BY <1>a DEF IInv, LockTellsHolder
  <2>2. CASE Writer(Top.fn)
    BY <2>2, <1>b, LockValues DEF AfterExit
  <2>3. CASE ~Writer(Top.fn)
    BY <2>1, <2>3, <1>2, <1>a, <1>b DEF AfterExit
  <2> QED
    BY <2>2, <2>3
<1>6. Top.static => l = lock
  BY <1>2, <1>a, <1>b, <1>0 DEF IInv, HolderNotStatic, AfterExit
<1>7. \A j \in 1 .. (n - 1) : stack[j].static => l = lock
  <2>1. \A j \in 1 .. (n - 1) : stack[j].static => stack[n].static
    BY <1>0, <1>a DEF IInv, StaticNested
  <2> QED
    BY <2>1, <1>6, <1>a
<1>8. IInv'
  BY <1>a, <1>c, <1>1, <1>4, <1>5, <1>7, PopIInv
<1>9. ASSUME Top.static PROVE lock' = lock
  <2>1. n > 1
    BY <1>9, <1>a, <1>0 DEF IInv, StaticNested
  <2>2. stack' # <<>>
    <3>1. Len(stack') = n - 1
      BY <1>c, <1>a DEF Popped
    <3> QED
      BY <3>1, <2>1
  <2> QED
    BY <2>2, <1>c, <1>6, <1>9 DEF Settle
<1> QED
  BY <1>8, <1>9

(* SELFDESTRUCT leaves the slot as it is and remembers that it happened.     *)
LEMMA SelfDestructIInv ==
  ASSUME IInv, SelfDestruct
  PROVE  IInv' /\ ~Top.static
<1>1. PICK n \in 1 .. Depth :
        MessageStart(n) /\ stack' = Popped(n) /\ Settle(lock, TRUE) /\ UNCHANGED <<cancun, gas>>
  BY DEF SelfDestruct, Depth
<1>2. \A j \in 1 .. (n - 1) : Holds(j) => lock = Locked
  BY Facts DEF IInv, LockTellsHolder, Depth
<1>3. lock \in Values
  BY Facts
<1>4. IInv'
  BY <1>1, <1>2, <1>3, PopIInv
<1> QED
  BY <1>4 DEF SelfDestruct

LEMMA BeginIInv ==
  ASSUME IInv, NEW f \in External, BeginTransaction(f)
  PROVE  IInv'
<1>1. PICK a : a = Active(f, "message", FALSE, Now)
  OBVIOUS
<1>2. a \in Frame
  BY <1>1, Facts DEF Active, Frame, Fns, Now
<1>3. /\ a.at = "entry" /\ a.call = "message" /\ a.saved = Now /\ ~a.static
  BY <1>1 DEF Active
<1>4. stack' = Append(stack, a)
  BY <1>1 DEF BeginTransaction
<1>5. Depth = 0
  BY DEF BeginTransaction, Depth
<1>6. gas' \in 0 .. MaxCalls
  BY MaxCallsAssumption DEF BeginTransaction
<1>7. ~dead /\ UNCHANGED <<cancun, lock, destroyed, dead>>
  BY DEF BeginTransaction
<1> QED
  BY <1>7, <1>2, <1>3, <1>4, <1>5, <1>6, PushIInv

LEMMA CallOutIInv ==
  ASSUME IInv, NEW f \in External, NEW static \in BOOLEAN, CallOut(f, static)
  PROVE  IInv'
<1>1. PICK a : a = Active(f, "message", static, Now)
  OBVIOUS
<1>2. a \in Frame
  BY <1>1, Facts DEF Active, Frame, Fns, Now
<1>3. a.at = "entry" /\ a.call = "message" /\ a.saved = Now /\ a.static = static
  BY <1>1 DEF Active
<1>4. stack' = Append(stack, a)
  BY <1>1 DEF CallOut
<1>5. Depth > 0 /\ Top = stack[Depth]
  BY Facts, EmptySeq DEF CallOut, InBody, Depth, Top
<1>6. gas' \in 0 .. MaxCalls
  BY MaxCallsAssumption DEF CallOut, IInv, TypeOK
<1>7. stack[Depth].static => a.static
  BY <1>3, <1>5 DEF CallOut
<1> QED
  BY <1>2, <1>3, <1>4, <1>5, <1>6, <1>7, PushIInv DEF CallOut, InBody

LEMMA CallInternalIInv ==
  ASSUME IInv, NEW f \in Internal, CallInternal(f)
  PROVE  IInv'
<1>1. PICK a : a = Active(f, "internal", Top.static, Top.saved)
  OBVIOUS
<1>2. Depth > 0 /\ Top = stack[Depth] /\ stack[Depth] \in Frame
  BY Facts, EmptySeq DEF CallInternal, InBody, Depth, Top
<1>3. a \in Frame
  BY <1>1, <1>2 DEF Active, Frame, Fns
<1>4. a.at = "entry" /\ a.call = "internal" /\ a.static = Top.static
  BY <1>1 DEF Active
<1>5. stack' = Append(stack, a)
  BY <1>1 DEF CallInternal
<1>6. gas' \in 0 .. MaxCalls
  BY MaxCallsAssumption DEF CallInternal, IInv, TypeOK
<1>7. a.static <=> stack[Depth].static
  BY <1>2, <1>4
<1> QED
  BY <1>2, <1>3, <1>4, <1>5, <1>6, <1>7, PushIInv DEF CallInternal, InBody

(* Every step preserves the invariant, and leaves the slot alone in a static *)
(* call.                                                                     *)
LEMMA NextIInv ==
  ASSUME IInv, [Next]_vars
  PROVE  IInv' /\ (stack # <<>> /\ Top.static => lock' = lock)
<1>1. ASSUME NEW f \in External, BeginTransaction(f)
      PROVE  IInv' /\ stack = <<>>
  BY <1>1, BeginIInv DEF BeginTransaction
<1>2. ASSUME NEW f \in External, NEW static \in BOOLEAN, CallOut(f, static)
      PROVE  IInv' /\ lock' = lock
  BY <1>2, CallOutIInv DEF CallOut
<1>3. ASSUME NEW f \in Internal, CallInternal(f)
      PROVE  IInv' /\ lock' = lock
  BY <1>3, CallInternalIInv DEF CallInternal
<1>4. CASE EnterFree \/ EnterView
  <2>1. /\ Entering /\ Enter /\ UNCHANGED <<cancun, lock, gas, destroyed, dead>>
        /\ Top.fn \in Nonreentrant => lock # Locked
        /\ ~Writer(Top.fn)
    BY <1>4 DEF EnterFree, EnterView, CheckNotSet, Writer
  <2> QED
    BY <2>1, EnterIInv
<1>5. CASE EnterAndLock
  <2>1. /\ Entering /\ Enter /\ UNCHANGED <<cancun, gas, destroyed, dead>>
        /\ lock # Locked /\ lock' = Locked
        /\ Writer(Top.fn) /\ ~Top.static
    BY <1>5 DEF EnterAndLock, CheckNotSet
  <2> QED
    BY <2>1, EnterIInv
<1>6. CASE RefuseReentry \/ RefuseStatic \/ Revert
  BY <1>6, RevertIInv DEF RefuseReentry, RefuseStatic, Revert
<1>7. CASE Exit
  BY <1>7, ExitIInv
<1>8. CASE SelfDestruct
  BY <1>8, SelfDestructIInv
<1>9. CASE UNCHANGED vars
  <2>1. IInv'
    BY <1>9 DEF vars, IInv, TypeOK, NoReentry, LockTellsHolder, FreeBetweenTransactions,
       SavedTells, StaticNested, HolderNotStatic, StaticKeeps, Frame, Values, Holds,
       Locked, Message0, Depth
  <2> QED
    BY <2>1, <1>9 DEF vars
<1> QED
  BY <1>1, <1>2, <1>3, <1>4, <1>5, <1>6, <1>7, <1>8, <1>9 DEF Next, Execute

THEOREM Invariance == Spec => []IInv
<1>1. IInv /\ [Next]_vars => IInv'
  BY NextIInv
<1> QED
  BY InitIInv, <1>1, PTL DEF Spec

(* The variables stay in their types; in particular the slot of the lock     *)
(* only ever holds the values of its EVM version.                            *)
THEOREM TypeCorrect == Spec => []TypeOK
<1>1. IInv => TypeOK
  BY DEF IInv
<1> QED
  BY Invariance, <1>1, PTL

(* While a function holds the reentrancy lock no other @nonreentrant function *)
(* gets past its prologue, for any functions and any nesting of calls.        *)
THEOREM MutualExclusion == Spec => []NoReentry
<1>1. IInv => NoReentry
  BY DEF IInv
<1> QED
  BY Invariance, <1>1, PTL

(* The slot is set exactly while someone holds the lock, reverts included.   *)
THEOREM SlotIsHonest == Spec => []LockTellsHolder
<1>1. IInv => LockTellsHolder
  BY DEF IInv
<1> QED
  BY Invariance, <1>1, PTL

(* No transaction leaves a living contract locked, before or since Cancun.   *)
THEOREM NeverLeftLocked == Spec => []FreeBetweenTransactions
<1>1. IInv => FreeBetweenTransactions
  BY DEF IInv
<1> QED
  BY Invariance, <1>1, PTL

(* Nothing a static call does changes the slot: @view functions that check   *)
(* the lock can be called statically.                                        *)
THEOREM StaticCallsKeepLock == Spec => StaticLeavesLock
<1>1. IInv /\ [Next]_vars => [stack # <<>> /\ Top.static => lock' = lock]_vars
  BY NextIInv
<1> QED
  BY Invariance, <1>1, PTL DEF Spec, StaticLeavesLock

=============================================================================
