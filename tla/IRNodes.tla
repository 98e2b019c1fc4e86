------------------------------- MODULE IRNodes -------------------------------
(***************************************************************************)
(* Nodes of the IR that the code generators build (codegen/ir_node.py).    *)
(*                                                                         *)
(* A node has a name, which is an opcode, a macro or a variable, and       *)
(* arguments; an integer is a node named "int".  Its valency is the number *)
(* of words it leaves on the stack.  Types, locations and gas estimates of *)
(* nodes are left out: the code generators know the types of what they     *)
(* build.                                                                  *)
(***************************************************************************)
EXTENDS EVMState, FiniteSets

CONSTANTS FreeVarSpace, FreeVarSpace2      \* MemoryPositions

PushingMacros == {"sle", "sge", "le", "ge", "ne", "ceil32", "sha3_32", "sha3_64", "iload", "dload", "dummy", "select"}
OtherMacros == {"assert", "assert_unreachable", "pass", "break", "continue", "cleanup_repeat", "set", "istore", "dloadbytes"}
Forms == {"if", "repeat", "seq", "with", "label", "goto", "exit_to", "var_list", "unique_symbol", "multi"}
EndingOps == {"return", "revert", "stop", "invalid", "pop", "jump"}
PushingOps == AluOps \union LoadOps
IROpcodes == PushingOps \union (StoreOps \ {"call"}) \union EndingOps \union (PushingMacros \ {"select"}) \union OtherMacros
Macros == {"assert", "break", "iload", "istore", "dload", "dloadbytes", "ceil32", "continue", "ge", "if", "select",
           "le", "ne", "pass", "repeat", "seq", "set", "sge", "sha3_32", "sha3_64", "sle", "with", "label", "goto",
           "~empty", "var_list"}

IR(op, args) == [op |-> op, n |-> 0, args |-> args]
Number(n) == [op |-> "int", n |-> n, args |-> <<>>]
Name(x) == IR(x, <<>>)
Sequence(nodes) == IR("seq", nodes)
Pass == Name("pass")

IsInt(x) == x.op = "int"
(* is_literal; what is a multi is a constant of a complex type. *)
IsLiteral(x) == x.op \in {"int", "multi"}

(* Nodes that stand for an exception of the compiler. *)
StaticAssertion == Name("!static assertion")
Panic == Name("!compiler panic")
RECURSIVE Raises(_)
Raises(x) == x.op \in {StaticAssertion.op, Panic.op} \/ \E k \in DOMAIN x.args : Raises(x.args[k])

RECURSIVE Valency(_)
Valency(x) ==
  CASE x.op \in PushingOps \union PushingMacros -> 1
    [] x.op = "if" -> Valency(x.args[2])
    [] x.op = "with" -> Valency(x.args[3])
    [] x.op = "seq" -> IF x.args = <<>> THEN 0 ELSE Valency(x.args[Len(x.args)])
    [] x.op = "multi" -> Fold(LAMBDA n, a : n + Valency(a), 0, x.args)
    [] x.op \in IROpcodes \union Forms -> 0
    [] OTHER -> 1

(* What makes an IRnode: the number and the valency of the arguments.  A   *)
(* pass or a pop stands for a word that is on the stack already.           *)
Arguments == [op \in UnaryOps \union {"mload", "sload", "tload", "calldataload", "extcodesize", "ceil32", "iload", "dload",
                                      "sha3_32", "assert", "assert_unreachable", "pop", "jump"} |-> 1]
             @@ [op \in BinaryOps \union {"mstore", "sstore", "tstore", "sha3", "sha3_64", "sle", "sge", "le", "ge", "ne",
                                          "return", "revert", "set", "istore"} |-> 2]
             @@ [op \in {"mcopy", "calldatacopy", "returndatacopy", "dloadbytes", "select", "with", "label"} |-> 3]
             @@ [op \in {"call"} |-> 7] @@ [op \in {"repeat"} |-> 5]
             @@ [op \in {"stop", "invalid", "calldatasize", "returndatasize", "caller", "callvalue", "gas", "pass", "break", "continue",
                         "cleanup_repeat", "dummy"} |-> 0]
FitsOnStack(x) == Valency(x) = 1 \/ x.op \in {"pass", "pop"}
ShapeOf(x) ==
  CASE x.op \in IROpcodes -> \A k \in DOMAIN x.args : FitsOnStack(x.args[k])
    [] x.op = "if" -> Len(x.args) \in {2, 3} /\ Valency(x.args[1]) > 0
    [] x.op = "with" -> x.args[1].args = <<>> /\ (Valency(x.args[2]) = 1 \/ x.args[2].op = "pass")
    [] x.op = "repeat" -> IsInt(x.args[4]) /\ x.args[4].n > 0 /\ \A k \in 1 .. 3 : Valency(x.args[k]) = 1
    [] x.op \in {"goto", "exit_to"} -> \A k \in DOMAIN x.args : Valency(x.args[k]) = 1 \/ x.args[k].op = "pass"
    [] x.op = "label" -> x.args[2].op = "var_list"
    [] x.op = "multi" -> \A k \in DOMAIN x.args : Valency(x.args[k]) > 0
    [] x.op = "int" -> x.n >= MinSigned /\ x.n <= MaxWord
    [] OTHER -> TRUE
RECURSIVE WellFormedIR(_)
WellFormedIR(x) ==
  /\ x.op \in DOMAIN Arguments => Len(x.args) = Arguments[x.op]
  /\ \A k \in DOMAIN x.args : WellFormedIR(x.args[k])
  /\ ShapeOf(x)

RECURSIVE Occurs(_, _)
Occurs(op, x) == x.op = op \/ \E k \in DOMAIN x.args : Occurs(op, x.args[k])

(* unique_symbols: the symbols below a node; no two nodes share one. *)
RECURSIVE Symbols(_)
Symbols(x) == IF x.op = "unique_symbol" THEN <<x.args[1].op>>
              ELSE FlattenSeq([k \in DOMAIN x.args |-> Symbols(x.args[k])])

(* Code that must be evaluated once.  What is read often but never changes *)
(* during a call need not be cached.                                       *)
RECURSIVE IsEmpty(_)
IsEmpty(x) == x.op = "~empty" \/ (x.op = "seq" /\ Len(x.args) = 1 /\ IsEmpty(x.args[1]))
IsComplex(x) == /\ x.op \in Macros \union IROpcodes
                /\ x.op \notin {"~empty", "calldatasize", "callvalue"}
                /\ ~IsEmpty(x)

With(name, value, body) == IR("with", <<Name(name), value, body>>)
=============================================================================
