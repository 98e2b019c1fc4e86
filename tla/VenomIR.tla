------------------------------- MODULE VenomIR -------------------------------
(***************************************************************************)
(* Functions of the Venom intermediate representation (venom/basicblock.py,*)
(* venom/function.py), contexts of several of them (venom/context.py), and *)
(* what they mean.                                                         *)
(*                                                                         *)
(* A function has an ordered dictionary of basic blocks; a block is a list *)
(* of instructions.  Instructions are objects that several lists and       *)
(* analyses share and that passes change in place, so they have identity   *)
(* here: a block lists ids, and inst maps an id to its instruction.        *)
(*                                                                         *)
(* Operands stand in the order of the code, the top of the stack last: the *)
(* difference `sub a b` has the operands <<b, a>>.                         *)
(*                                                                         *)
(* A context is a sequence of functions, the entry first; a function goes  *)
(* by the label of its entry block.  params maps the allocation of an      *)
(* argument that comes on the stack to the variable that takes it.         *)
(*                                                                         *)
(* This module is used by models that TLC runs; it defines the meaning of  *)
(* a context by recursion.                                                 *)
(***************************************************************************)
EXTENDS EVMState, FiniteSetsExt

CONSTANTS Fuel      \* instructions an execution may take before it is given up

ASSUME VenomAssumption == Fuel \in Nat

(* Operands are tagged: literals, labels and variables.  A variable is a   *)
(* name and the versions MakeSSA has added to it.  Literals are objects;   *)
(* one that several instructions hold carries the name of the variable     *)
(* they have it from.                                                      *)
Own == <<"own">>
Lit(n) == <<"lit", n, Own>>
Lab(l) == <<"label", l>>
Var(x) == <<"var", x>>
IsLit(o) == o[1] = "lit"
IsLabel(o) == o[1] = "label"
IsVar(o) == o[1] = "var"
IsOwn(o) == o[3] = Own
Shared(o, v) == IF IsLit(o) /\ IsOwn(o) THEN <<"lit", o[2], v>> ELSE o
SameOperand(o, p) == IF IsLit(o) /\ IsLit(p) THEN o[2] = p[2] ELSE o = p
NoOutput == <<"none">>

Terminators == {"jmp", "djmp", "jnz", "ret", "return", "revert", "stop", "sink"}
NoOutputOps == {"mstore", "sstore", "istore", "tstore", "dloadbytes", "calldatacopy", "mcopy", "returndatacopy",
                "codecopy", "extcodecopy", "assert", "assert_unreachable", "selfdestruct", "invalid", "log",
                "nop"} \union Terminators
Volatile == (NoOutputOps \ {"nop"}) \union {"param", "call", "staticcall", "delegatecall", "create", "create2", "invoke"}
CommutativeOps == {"add", "mul", "smul", "or", "xor", "and", "eq"}
Comparators == {"gt", "lt", "sgt", "slt"}
StackMemory == {"alloca", "palloca", "calloca"}

---------------------------------------------------------------------------
(* Reading a function. *)

Labels(f) == Range(f.order)
Entry(f) == f.order[1]
Block(f, l) == [i \in DOMAIN f.body[l] |-> f.inst[f.body[l][i]]]
Ids(f) == UNION {Range(f.body[l]) : l \in Labels(f)}
LastId(f, l) == f.body[l][Len(f.body[l])]
LastInst(f, l) == f.inst[LastId(f, l)]
AllIds(f) == FlattenSeq([i \in DOMAIN f.order |-> f.body[f.order[i]]])   \* in program order

Ascending(ids) == [k \in 1 .. Cardinality(ids) |-> CHOOSE id \in ids : Cardinality({j \in ids : j < id}) = k - 1]
Inputs(i) == {i.args[k] : k \in {j \in DOMAIN i.args : IsVar(i.args[j])}}
LabelArgs(i) == SelectSeq(i.args, IsLabel)
Targets(f, l) == [k \in DOMAIN LabelArgs(LastInst(f, l)) |-> LabelArgs(LastInst(f, l))[k][2]]

(* phi_operands: the pairs of a label and a variable. *)
PhiPairs(i) == {<<i.args[2 * k - 1], i.args[2 * k]>> : k \in 1 .. Len(i.args) \div 2}
PhiValue(i, l) == (CHOOSE p \in PhiPairs(i) : p[1] = Lab(l))[2]
PhiIds(f, l) == {f.body[l][k] : k \in {j \in DOMAIN f.body[l] :
                                         \A h \in 1 .. j : f.inst[f.body[l][h]].op = "phi"}}

---------------------------------------------------------------------------
(* Changing a function. *)

Instr(op, out, args, l) == [op |-> op, out |-> out, args |-> args, bb |-> l]
Become(f, id, op, args) == [f EXCEPT !.inst[id].op = op, !.inst[id].args = args]
MakeNop(f, id) == [f EXCEPT !.inst[id].op = "nop", !.inst[id].out = NoOutput, !.inst[id].args = <<>>]
(* Concatenating makes TLC build the sequence at once. *)
Rewrite(f, ids, New(_)) ==
  [f EXCEPT !.inst = <<>> \o [id \in DOMAIN @ |-> IF id \in ids THEN New(@[id]) ELSE @[id]]]
SetBody(f, l, ids) == [f EXCEPT !.body[l] = ids]
RemoveInst(f, id) == SetBody(f, f.inst[id].bb, Remove(f.body[f.inst[id].bb], id))
PositionOf(f, id) == CHOOSE k \in DOMAIN f.body[f.inst[id].bb] : f.body[f.inst[id].bb][k] = id

(* insert_instruction(IRInstruction(op, args, out), at): at counts from 1. *)
Insert(f, l, at, op, out, args) ==
  [f EXCEPT !.inst = Append(@, Instr(op, out, args, l)),
            !.body[l] = InsertAt(@, at, Len(f.inst) + 1)]
FreshVar(f) == <<"var", "%", f.last + 1>>
TakeVar(f) == [f EXCEPT !.last = @ + 1]

RemoveBlocks(f, ls) ==
  [f EXCEPT !.order = SelectSeq(@, LAMBDA l : l \notin ls),
            !.body = [l \in Labels(f) \ ls |-> f.body[l]]]
AppendBlock(f, l) == [f EXCEPT !.order = Append(@, l),
                               !.body = [k \in Labels(f) \union {l} |-> IF k = l THEN <<>> ELSE f.body[k]]]

(* A function from its blocks, given as labels and instructions <<op, out, args>>. *)
Function(order, code) ==
  LET start == [i \in 1 .. Len(order) + 1 |->
                  FoldFunctionOnSet(+, 0, [j \in 1 .. Len(order) |-> Len(code[order[j]])], 1 .. i - 1)]
      all == FlattenSeq([i \in DOMAIN order |->
               [k \in DOMAIN code[order[i]] |->
                  Instr(code[order[i]][k][1], code[order[i]][k][2], code[order[i]][k][3], order[i])]])
  IN [order |-> order, inst |-> all, last |-> 0, params |-> [n \in {} |-> NoOutput],
      body |-> [l \in Range(order) |->
                  LET i == CHOOSE j \in DOMAIN order : order[j] = l
                  IN [k \in 1 .. Len(code[l]) |-> start[i] + k]]]

(* Allocations go to the end of the entry. *)
AllocasFloated(f) ==
  LET IsAlloca(id) == f.inst[id].op \in StackMemory
      floating == FlattenSeq([i \in DOMAIN f.order |->
                    IF i = 1 THEN <<>> ELSE SelectSeq(f.body[f.order[i]], IsAlloca)])
      body == [l \in Labels(f) |->
                 IF l = Entry(f) THEN Front(f.body[l]) \o floating \o <<LastId(f, l)>>
                 ELSE SelectSeq(f.body[l], LAMBDA id : ~IsAlloca(id))]
  IN Rewrite([f EXCEPT !.body = body], Range(floating), LAMBDA i : [i EXCEPT !.bb = Entry(f)])

---------------------------------------------------------------------------
(* Execution of a context c.  A machine m stands at the k-th instruction of *)
(* block l of the function at until it has an outcome; args are those of    *)
(* the call that no param has taken yet, the program counter to return to   *)
(* last, and calls are the callers to return to, the latest last.  Phis     *)
(* take the value of the edge that was followed, all at once.               *)

Value(env, o) == IF IsLit(o) THEN o[2] % Width ELSE env[o]
Readable(env, i) == \A v \in Inputs(i) : v \in DOMAIN env
Bind(env, v, n) == [w \in DOMAIN env \union {v} |-> IF w = v THEN n ELSE env[w]]
Ended(m, outcome) == [m EXCEPT !.outcome = outcome]

Enter(f, m, l) ==
  LET phis == PhiIds(f, l)
      named == \A p \in phis : \E q \in PhiPairs(f.inst[p]) : q[1] = Lab(m.l) /\ q[2] \in DOMAIN m.env
      From(v) == {p \in phis : f.inst[p].out = v}
      Enters(v) == IF From(v) = {} THEN m.env[v] ELSE m.env[PhiValue(f.inst[CHOOSE p \in From(v) : TRUE], m.l)]
  IN IF ~named THEN Ended(m, Ends("undefined"))
     ELSE [m EXCEPT !.l = l, !.k = Cardinality(phis) + 1,
                    !.env = [v \in DOMAIN @ \union {f.inst[p].out : p \in phis} |-> Enters(v)]]

(* The instructions that end an execution; operands stand from the top.    *)
Final(op, a, w) ==
  CASE op = "stop" -> Returned(w, <<>>)
    [] op = "return" -> Returned(w, ReadBytes(w.mem, a[1], a[2]))
    [] op = "revert" -> Reverted(ReadBytes(w.mem, a[1], a[2]))
    [] op = "assert" -> Reverted(<<>>)
    [] op \in {"assert_unreachable", "invalid"} -> Ends("invalid")

(* What an instruction gives back and makes of the world. *)
Result(op, a, w, input) ==
  CASE op \in {"assign"} \union StackMemory -> a[Len(a)]
    [] op = "offset" -> Wrap(a[1] + a[2])
    [] op \in AluOps -> Alu(op, a[1], a[Len(a)])
    [] op \in LoadOps -> Pushed(op, a, w, input)

(* The operands, the top of the stack first; that of a log starts with its  *)
(* number of topics.                                                       *)
FromTop(i) == Reverse(IF i.op = "log" THEN Tail(i.args) ELSE i.args)

ReturnTo(m) == Width + Len(m.calls)      \* no word
FunctionAt(c, l) == CHOOSE j \in DOMAIN c : Entry(c[j]) = l
CalledBy(m, i) == [m EXCEPT !.calls = Append(@, [at |-> m.at, l |-> m.l, k |-> m.k + 1, env |-> m.env, out |-> i.out]), !.env = <<>>]
Invoke(c, m, j, args) == Enter(c[j], [m EXCEPT !.at = j, !.args = Append(args, ReturnTo(m))], Entry(c[j]))
TakeArgument(m, i) == [m EXCEPT !.k = @ + 1, !.env = Bind(@, i.out, Head(m.args)), !.args = Tail(@)]
Resume(m, r, a) ==      \* r: what the call has kept
  [m EXCEPT !.at = r.at, !.l = r.l, !.k = r.k, !.calls = Front(@),
            !.env = IF r.out = NoOutput THEN r.env ELSE Bind(r.env, r.out, a[2])]
Return(m, a) ==
  IF m.calls = <<>> \/ a[1] # ReturnTo(m) \/ (Last(m.calls).out # NoOutput /\ Len(a) < 2) THEN Ended(m, Ends("undefined"))
  ELSE Resume(m, Last(m.calls), a)

Perform(c, f, input, m, i, a) ==
  IF i.op = "jmp" THEN Enter(f, m, i.args[1][2])
  ELSE IF i.op = "invoke" THEN Invoke(c, CalledBy(m, i), FunctionAt(c, i.args[1][2]), Reverse(Front(a)))
  ELSE IF i.op = "param" THEN TakeArgument(m, i)
  ELSE IF i.op = "ret" THEN Return(m, a)
  ELSE IF i.op = "jnz" THEN Enter(f, m, IF a[Len(a)] # 0 THEN i.args[2][2] ELSE i.args[3][2])
  ELSE IF i.op \in Terminators \union {"invalid"} \/ (i.op \in {"assert", "assert_unreachable"} /\ a[1] = 0) THEN Ended(m, Final(i.op, a, m.world))
  ELSE [m EXCEPT !.k = @ + 1,
                 !.world = Changed(i.op, a, @, input),
                 !.env = IF i.out = NoOutput THEN @ ELSE Bind(@, i.out, Result(i.op, a, m.world, input))]

CodeEnd == Lab("code_end")
Operands(m, os) ==
  <<>> \o [j \in DOMAIN os |-> IF os[j] = CodeEnd THEN 0 ELSE IF IsLabel(os[j]) THEN os[j] ELSE Value(m.env, os[j])]
Operate(c, f, input, m, i, a) ==
  IF ~InMemory(i.op, a) THEN Ended(m, Ends("out of gas")) ELSE Perform(c, f, input, m, i, a)
Execute(c, f, input, m, i) ==
  IF ~Readable(m.env, i) \/ i.op = "phi" THEN Ended(m, Ends("undefined"))
  ELSE Operate(c, f, input, m, i, Operands(m, FromTop(i)))
ExecuteNext(c, input, m) == Execute(c, c[m.at], input, m, c[m.at].inst[c[m.at].body[m.l][m.k]])

(* At most n instructions. *)
RECURSIVE Steps(_, _, _, _)
Steps(c, input, m, n) ==
  IF m.outcome # Running \/ n = 0 THEN m
  ELSE IF n = 1 THEN ExecuteNext(c, input, m)
  ELSE Steps(c, input, Steps(c, input, m, n \div 2), n - n \div 2)

Machine == [at |-> 1, l |-> "", k |-> 0, env |-> <<>>, args |-> <<>>, calls |-> <<>>, world |-> NewWorld, outcome |-> Running]
Run(c, input, fuel) == EndOf(Steps(c, input, Enter(c[1], Machine, Entry(c[1])), fuel).outcome)
=============================================================================
