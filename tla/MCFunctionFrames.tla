-------------------------- MODULE MCFunctionFrames --------------------------
(***************************************************************************)
(* Two families of contracts.  Of the first every body is given: an        *)
(* exposed function, two internal functions and a constructor, each of at  *)
(* most one statement.  Of the second only the graph is: three functions   *)
(* that call each other in every way and order (the fourth is idle).       *)
(***************************************************************************)
EXTENDS FunctionFrames, Functions

KindOf == <<"internal", "external", "internal", "init">>
Arguments == <<2, 1, 1, 0>>
LocalVariables == <<1, 1, 0, 1>>

AllStatements == [callee : {1, 3}, nested : {None, 1, 3}, at : 0 .. 2]

CallLists == {s \in UNION {[1 .. n -> 1 .. 3] : n \in 0 .. 3} : IsInjective(s)}

GraphsOfThree == {<<a, b, c, <<>>>> : a, b, c \in CallLists}

(* The graph is analysed and nothing is compiled. *)
GraphAlone ==
  /\ InitGraph
  /\ nonreentrant \subseteq 1 .. 3
  /\ body = [f \in Functions |-> <<>>]
  /\ stage = "stop"
  /\ OutputEmpty

Spec == (InitFrames \/ GraphAlone) /\ [][Progress \/ Ended]_allVars
=============================================================================
