--------------------------- MODULE NonreentrantLock ---------------------------
(***************************************************************************)
(* The reentrancy lock at run time.  get_nonreentrant_lock                 *)
(* (codegen/function_definitions/common.py) gives every @nonreentrant      *)
(* function a prologue and an epilogue around its body; the bodies make    *)
(* calls to other contracts, which may call back, and internal calls,      *)
(* return, revert, or destroy the contract.  Since Cancun the lock is in   *)
(* transient storage and is cleared with the transaction, before it is in  *)
(* storage and survives it.                                                *)
(*                                                                         *)
(* Message calls, static calls, reverts, the end of a transaction and      *)
(* SELFDESTRUCT are the EVM's; they are modelled as far as the lock is     *)
(* concerned.  That no function holding the lock reaches another function  *)
(* that takes it by internal calls is the work of CallGraph.               *)
(***************************************************************************)
EXTENDS Integers, Sequences

CONSTANTS
  External,         \* functions that a message call can enter
  Internal,         \* functions that the others call directly
  View,             \* those that are @view
  Nonreentrant,     \* those that take the lock
  MaxCalls          \* bound on the calls of a transaction: gas is finite

Fns == External \cup Internal

ASSUME FnsAssumption == View \subseteq Fns /\ Nonreentrant \subseteq Fns
ASSUME MaxCallsAssumption == MaxCalls \in Nat

VARIABLES
  cancun,           \* is the EVM version at least cancun?
  lock,             \* the value of the lock's slot
  stack,            \* active functions of this contract, innermost last
  gas,              \* calls that the transaction can still pay
  destroyed,        \* has this transaction executed SELFDESTRUCT?
  dead              \* the contract is gone

vars == <<cancun, lock, stack, gas, destroyed, dead>>

(* final_value and temp_value; a fresh slot reads 0. *)
Unlocked == IF cancun THEN 0 ELSE 3
Locked == IF cancun THEN 1 ELSE 2

Init ==
  /\ cancun \in BOOLEAN
  /\ lock = 0
  /\ stack = <<>>
  /\ gas = 0
  /\ destroyed = FALSE
  /\ dead = FALSE

Top == stack[Len(stack)]
Writer(f) == f \in Nonreentrant \ View

(* An active function: `saved` is what a revert of its call restores.        *)
Active(f, call, static, saved) ==
  [fn |-> f, call |-> call, static |-> static, at |-> "entry", saved |-> saved]

Now == [lock |-> lock, destroyed |-> destroyed]

BeginTransaction(f) ==
  /\ stack = <<>>
  /\ ~dead
  /\ stack' = <<Active(f, "message", FALSE, Now)>>
  /\ gas' = MaxCalls
  /\ UNCHANGED <<cancun, lock, destroyed, dead>>

InBody == stack # <<>> /\ Top.at = "body"

(* A call to another contract, out of which a message call comes back.  View *)
(* functions make static calls, and what happens inside one is static too.   *)
CallOut(f, static) ==
  /\ InBody
  /\ gas > 0
  /\ gas' = gas - 1
  /\ Top.static \/ Top.fn \in View => static
  /\ stack' = Append(stack, Active(f, "message", static, Now))
  /\ UNCHANGED <<cancun, lock, destroyed, dead>>

(* The functions that called each other internally down to the top one.      *)
SameMessage(k) == \A j \in (k + 1) .. Len(stack) : stack[j].call = "internal"

CallInternal(f) ==
  /\ InBody
  /\ gas > 0
  /\ gas' = gas - 1
  /\ Top.fn \in View => f \in View
  /\ f \in Nonreentrant =>
       \A k \in 1 .. Len(stack) : SameMessage(k) => stack[k].fn \notin Nonreentrant
  /\ stack' = Append(stack, Active(f, "internal", Top.static, Top.saved))
  /\ UNCHANGED <<cancun, lock, destroyed, dead>>

-----------------------------------------------------------------------------
(* The end of a transaction clears transient storage and removes a contract  *)
(* that has destroyed itself; since Cancun it stays.                         *)
Settle(l, d) ==
  IF stack' = <<>>
  THEN /\ lock' = IF cancun THEN 0 ELSE l
       /\ dead' = (d /\ ~cancun)
       /\ destroyed' = FALSE
  ELSE /\ lock' = l
       /\ destroyed' = d
       /\ dead' = dead

Popped(n) == SubSeq(stack, 1, n - 1)

(* The message call that the top function runs in, as an index of the stack. *)
MessageStart(n) ==
  /\ n \in 1 .. Len(stack)
  /\ stack[n].call = "message"
  /\ SameMessage(n)

(* A failed assertion, in the prologue or elsewhere, undoes the message call.*)
RevertCall ==
  \E n \in 1 .. Len(stack) :
    /\ MessageStart(n)
    /\ stack' = Popped(n)
    /\ Settle(stack[n].saved.lock, stack[n].saved.destroyed)
    /\ UNCHANGED <<cancun, gas>>

Entering == stack # <<>> /\ Top.at = "entry"

Enter == stack' = [stack EXCEPT ![Len(stack)].at = "body"]

(* ["assert", ["ne", temp_value, [LOAD, nkey]]] *)
CheckNotSet == lock # Locked

EnterFree ==
  /\ Entering
  /\ Top.fn \notin Nonreentrant
  /\ Enter
  /\ UNCHANGED <<cancun, gas, lock, destroyed, dead>>

(* Mutant: @view functions do not look at the lock.                          *)
EnterViewUnchecked ==
  /\ Entering
  /\ Top.fn \in Nonreentrant \cap View
  /\ Enter
  /\ UNCHANGED <<cancun, lock, gas, destroyed, dead>>

EnterView ==
  /\ Entering
  /\ Top.fn \in Nonreentrant \cap View
  /\ CheckNotSet
  /\ Enter
  /\ UNCHANGED <<cancun, gas, lock, destroyed, dead>>

EnterAndLock ==
  /\ Entering
  /\ Writer(Top.fn)
  /\ CheckNotSet
  /\ ~Top.static
  /\ Enter
  /\ lock' = Locked
  /\ UNCHANGED <<cancun, gas, destroyed, dead>>

RefuseReentry ==
  /\ Entering
  /\ Top.fn \in Nonreentrant
  /\ ~CheckNotSet
  /\ RevertCall

(* The prologue's store fails in a static call. *)
RefuseStatic ==
  /\ Entering
  /\ Writer(Top.fn)
  /\ CheckNotSet
  /\ Top.static
  /\ RevertCall

(* Mutant: the lock is given back by external functions only.                *)
AfterExitOfExternal(f) == IF Writer(f) /\ f \in External THEN Unlocked ELSE lock

(* Mutant: the lock is given back by everyone who looked at it.              *)
AfterExitOfViews(f) == IF f \in Nonreentrant THEN Unlocked ELSE lock

(* Mutant: the lock is not given back.                                       *)
AfterExitLocked(f) == lock

(* exit_to the exit sequence: all returns of a function go there. *)
AfterExit(f) == IF Writer(f) THEN Unlocked ELSE lock

Exit ==
  /\ InBody
  /\ stack' = Popped(Len(stack))
  /\ Settle(AfterExit(Top.fn), destroyed)
  /\ UNCHANGED <<cancun, gas>>

Revert == InBody /\ RevertCall

(* SELFDESTRUCT halts the message call without the exit sequence. *)
SelfDestruct ==
  /\ InBody
  /\ ~Top.static
  /\ Top.fn \notin View
  /\ \E n \in 1 .. Len(stack) :
       /\ MessageStart(n)
       /\ stack' = Popped(n)
       /\ Settle(lock, TRUE)
  /\ UNCHANGED <<cancun, gas>>

(* What the EVM does on its own while a message call is active. *)
Execute ==
  \/ \E f \in External, static \in BOOLEAN : CallOut(f, static)
  \/ \E f \in Internal : CallInternal(f)
  \/ EnterFree
  \/ EnterView
  \/ EnterAndLock
  \/ RefuseReentry
  \/ RefuseStatic
  \/ Exit
  \/ Revert
  \/ SelfDestruct

Next ==
  \/ \E f \in External : BeginTransaction(f)
  \/ Execute
  \/ dead /\ UNCHANGED vars

(* A transaction runs to its end; no further one need ever come. *)
Spec == Init /\ [][Next]_vars /\ WF_vars(Execute)

-----------------------------------------------------------------------------
Values == IF cancun THEN {0, 1} ELSE {0, 2, 3}

Frame == [fn : Fns, call : {"message", "internal"}, static : BOOLEAN,
          at : {"entry", "body"}, saved : [lock : Values, destroyed : BOOLEAN]]

TypeOK ==
  /\ cancun \in BOOLEAN
  /\ lock \in Values
  /\ stack \in Seq(Frame)
  /\ gas \in 0 .. MaxCalls
  /\ destroyed \in BOOLEAN
  /\ dead \in BOOLEAN

(* A function that has taken the lock and is not done. *)
Holds(k) == Writer(stack[k].fn) /\ stack[k].at = "body"

(* While a function holds the lock no other @nonreentrant function runs, not *)
(* even one that only reads, however the calls are nested.                   *)
NoReentry ==
  \A j, k \in 1 .. Len(stack) :
    (j < k /\ Holds(j) /\ stack[k].fn \in Nonreentrant) => stack[k].at = "entry"

(* The slot says the truth: it is set while someone holds the lock, through  *)
(* any number of nested calls and reverts, and nobody is turned away without *)
(* reason, unless the holder destroyed the contract in this transaction.     *)
LockTellsHolder ==
  /\ (\E k \in 1 .. Len(stack) : Holds(k)) => lock = Locked
  /\ (stack # <<>> /\ lock = Locked) => destroyed \/ \E k \in 1 .. Len(stack) : Holds(k)

(* No transaction leaves a living contract locked.                           *)
FreeBetweenTransactions ==
  (stack = <<>> /\ ~dead) => lock # Locked

(* Nothing that happens inside a static call touches the lock, reverts of    *)
(* inner calls included.                                                     *)
StaticLeavesLock ==
  [][(stack # <<>> /\ Top.static) => lock' = lock]_vars

(* A lock that was taken is given back or the contract is gone.              *)
LockReleased == (lock = Locked) ~> (lock # Locked \/ dead)
=============================================================================
