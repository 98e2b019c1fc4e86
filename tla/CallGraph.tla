------------------------------ MODULE CallGraph ------------------------------
(***************************************************************************)
(* The call graph of the internal functions of a contract, as the semantic *)
(* analysis computes it (semantics/analysis/module.py).  For each function *)
(* of the module in turn, _compute_reachable_set descends into the callees *)
(* that are not yet known to be reachable, rejects a call back into the    *)
(* functions it is in the middle of, and collects the ordered set of all   *)
(* functions that can be reached.  Code generation later relies on two     *)
(* facts: a function appears after everything it calls, and no            *)
(* @nonreentrant function reaches another one.                             *)
(*                                                                         *)
(* The recursion is a stack: `path` holds the functions being visited, as  *)
(* in the code, and `next` how far the loop over the callees of each has   *)
(* come.                                                                   *)
(***************************************************************************)
EXTENDS Integers, Sequences

CONSTANTS
  NumFunctions,     \* functions are numbered in the order of the module
  CallGraphs        \* called_functions, ordered sets, of each of them

Functions == 1 .. NumFunctions

ASSUME NumFunctionsAssumption == NumFunctions \in Nat
ASSUME CallGraphsAssumption == CallGraphs \subseteq [Functions -> Seq(Functions)]

VARIABLES
  called,           \* called_functions of each function
  nonreentrant,     \* the functions marked @nonreentrant
  reachable,        \* reachable_internal_functions of each function
  root,             \* the function of the outer loop
  path,             \* functions being visited, outermost first
  next,             \* for each of them, the position of its loop over callees
  verdict           \* "analysing", "accepted", "cyclic" or "reentrant"

graphVars == <<called, nonreentrant, reachable, root, path, next, verdict>>

Elements(s) == {s[k] : k \in 1 .. Len(s)}

(* OrderedSet.add and update: new elements go to the end, in their order. *)
Added(s, x) == IF x \in Elements(s) THEN s ELSE Append(s, x)

OrderedUnion(s, t) ==
  LET Upto[k \in 0 .. Len(t)] == IF k = 0 THEN s ELSE Added(Upto[k - 1], t[k])
  IN  Upto[Len(t)]

InitGraph ==
  /\ called \in CallGraphs
  /\ nonreentrant \in SUBSET Functions
  /\ reachable = [f \in Functions |-> <<>>]
  /\ root = 1
  /\ path = <<>>
  /\ next = <<>>
  /\ verdict = "analysing"

Top == path[Len(path)]
Callee == called[Top][next[Len(next)]]
LoopOver == next[Len(next)] > Len(called[Top])

Advanced(k) == [next EXCEPT ![k] = @ + 1]

(* Mutant: a function in the middle of its visit counts as seen.             *)
SeenOnPath(f, g) == g \in Elements(reachable[f]) \cup Elements(path)

(* g \in fn_t.reachable_internal_functions *)
Seen(f, g) == g \in Elements(reachable[f])

(* Mutant: what the callee reaches is left out.                              *)
CollectedCalleeOnly(f, g) == OrderedUnion(reachable[f], <<g>>)

(* Mutant: the callee is added before what it reaches.                       *)
CollectedCalleeFirst(f, g) ==
  OrderedUnion(OrderedUnion(reachable[f], <<g>>), reachable[g])

(* What f reaches once its callee g has been visited. *)
Collected(f, g) == OrderedUnion(OrderedUnion(reachable[f], reachable[g]), <<g>>)

PathUpTo(n) == SubSeq(path, 1, n)

ReachesLocked(f) == Elements(reachable[f]) \cap nonreentrant # {}

(* The loop of _analyze_call_graph reaches the next function. *)
VisitRoot ==
  /\ verdict = "analysing"
  /\ path = <<>>
  /\ root <= NumFunctions
  /\ path' = <<root>>
  /\ next' = <<1>>
  /\ UNCHANGED <<called, nonreentrant, reachable, root, verdict>>

AlreadySeen ==
  /\ verdict = "analysing"
  /\ path # <<>>
  /\ ~LoopOver
  /\ Seen(Top, Callee)
  /\ next' = Advanced(Len(next))
  /\ UNCHANGED <<called, nonreentrant, reachable, root, path, verdict>>

RejectCycle ==
  /\ verdict = "analysing"
  /\ path # <<>>
  /\ ~LoopOver
  /\ ~Seen(Top, Callee)
  /\ Callee \in Elements(path)
  /\ verdict' = "cyclic"
  /\ UNCHANGED <<called, nonreentrant, reachable, root, path, next>>

Descend ==
  /\ verdict = "analysing"
  /\ path # <<>>
  /\ ~LoopOver
  /\ ~Seen(Top, Callee)
  /\ Callee \notin Elements(path)
  /\ path' = Append(path, Callee)
  /\ next' = Append(next, 1)
  /\ UNCHANGED <<called, nonreentrant, reachable, root, verdict>>

(* The recursive call returns into the loop of the caller. *)
ReturnToCaller ==
  /\ verdict = "analysing"
  /\ Len(path) > 1
  /\ LoopOver
  /\ LET n == Len(path)
         f == path[n - 1]
         g == path[n]
     IN  /\ reachable' = [reachable EXCEPT ![f] = Collected(f, g)]
         /\ path' = PathUpTo(n - 1)
         /\ next' = [k \in 1 .. (n - 1) |-> IF k = n - 1 THEN next[k] + 1 ELSE next[k]]
  /\ UNCHANGED <<called, nonreentrant, root, verdict>>

(* The visit of a function of the outer loop is over: if it holds the lock, *)
(* nothing it reaches may take the lock.                                    *)
FinishRoot ==
  /\ verdict = "analysing"
  /\ Len(path) = 1
  /\ LoopOver
  /\ path' = <<>>
  /\ next' = <<>>
  /\ IF root \in nonreentrant /\ ReachesLocked(root)
       THEN verdict' = "reentrant" /\ root' = root
       ELSE verdict' = verdict /\ root' = root + 1
  /\ UNCHANGED <<called, nonreentrant, reachable>>

Accept ==
  /\ verdict = "analysing"
  /\ path = <<>>
  /\ root > NumFunctions
  /\ verdict' = "accepted"
  /\ UNCHANGED <<called, nonreentrant, reachable, root, path, next>>

Analyse ==
  \/ VisitRoot
  \/ AlreadySeen
  \/ RejectCycle
  \/ Descend
  \/ ReturnToCaller
  \/ FinishRoot
  \/ Accept

Over == verdict # "analysing" /\ UNCHANGED graphVars

GraphSpec == InitGraph /\ [][Analyse \/ Over]_graphVars /\ WF_graphVars(Analyse)

-----------------------------------------------------------------------------
Calls(f) == Elements(called[f])

(* What f reaches: the least set that holds its callees, and with every     *)
(* function what that one calls.                                             *)
Closed(S) == \A g \in S : Calls(g) \subseteq S

Reaches(f) ==
  {g \in Functions :
     \A S \in SUBSET Functions : (Calls(f) \subseteq S /\ Closed(S)) => g \in S}

Cyclic == \E f \in Functions : f \in Reaches(f)

GraphTypeOK ==
  /\ called \in [Functions -> Seq(Functions)]
  /\ nonreentrant \subseteq Functions
  /\ reachable \in [Functions -> Seq(Functions)]
  /\ root \in 1 .. (NumFunctions + 1)
  /\ path \in Seq(Functions)
  /\ next \in Seq(Nat \ {0})
  /\ Len(next) = Len(path)
  /\ verdict \in {"analysing", "accepted", "cyclic", "reentrant"}

(* An accepted contract neither recurses nor takes the reentrancy lock twice *)
(* on one path of calls, which would always revert; and a contract is turned *)
(* down only for one of the two.  Neither may be missed although the visit   *)
(* is cut short at functions already seen.                                   *)
VerdictRight ==
  /\ verdict = "accepted" =>
       ~Cyclic /\ \A f \in nonreentrant : Reaches(f) \cap nonreentrant = {}
  /\ verdict = "cyclic" => Cyclic
  /\ verdict = "reentrant" => \E f \in nonreentrant : Reaches(f) \cap nonreentrant # {}

(* The cached reachable sets that later analyses use are the whole closure:  *)
(* reusing the set of a callee that was visited before loses nothing.        *)
ReachableIsClosure ==
  verdict = "accepted" =>
    \A f \in Functions : Elements(reachable[f]) = Reaches(f)

(* An ordered set holds each function once, after all that it calls: memory  *)
(* frames and gas estimates of callees exist when a caller is compiled.      *)
CalleesFirst ==
  \A f \in Functions : \A k \in 1 .. Len(reachable[f]) :
    /\ \A j \in 1 .. (k - 1) : reachable[f][j] # reachable[f][k]
    /\ Calls(reachable[f][k]) \subseteq {reachable[f][j] : j \in 1 .. (k - 1)}

=============================================================================
