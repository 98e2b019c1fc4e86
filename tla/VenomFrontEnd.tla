---------------------------- MODULE VenomFrontEnd ----------------------------
(***************************************************************************)
(* From IR to Venom (venom/ir_node_to_venom.py), by recursion over the     *)
(* tree; the IR comes from the code generators as they make it for Venom.  *)
(*                                                                         *)
(* c is the work: the function f so far, whose last block is the one that  *)
(* code goes to; the operand each symbol stands for; the variable that     *)
(* holds the address of each place in the frame; the number of labels      *)
(* made; the targets of break and continue; the operand that is the value  *)
(* of what was converted last, if it has one; and the failed check that    *)
(* stopped it.  Left out are internal functions, the deployment of code    *)
(* and the data section.                                                   *)
(***************************************************************************)
EXTENDS VenomIR, IRNodes

RECURSIVE Convert(_, _)

MainEntry == "__main_entry"
NoValue == NoOutput
Converter ==
  [f |-> [order |-> <<MainEntry>>, inst |-> <<>>, last |-> 0, params |-> <<>>, body |-> (MainEntry :> <<>>)],
   symbols |-> [x \in {} |-> NoValue], allocas |-> [n \in {} |-> NoValue], labels |-> 0, loop |-> <<>>,
   value |-> NoValue, fault |-> ""]
Stopped(c, what) == [c EXCEPT !.fault = IF @ = "" THEN what ELSE @]

CurrentBlock(c) == Last(c.f.order)
TerminatedBlock(c, l) == c.f.body[l] # <<>> /\ LastInst(c.f, l).op \in Terminators
Terminated(c) == TerminatedBlock(c, CurrentBlock(c))
Label(c, k, suffix) == ToString(c.labels + k) \o suffix        \* get_next_label, taken with TakeLabels
TakeLabels(c, n) == [c EXCEPT !.labels = @ + n]
StartBlock(c, l) == [c EXCEPT !.f = AppendBlock(@, l)]
StartNamed(c, suffix) == StartBlock(TakeLabels(c, 1), Label(c, 1, suffix))
(* Mutant: code is appended to the last block even when it has ended. *)
GoOn(c, suffix) == c
(* What begins a part of the code opens a block where the last one ended. *)
StartIfTerminated(c, suffix) == IF Terminated(c) THEN StartNamed(c, suffix) ELSE c
WithValue(c, o) == [c EXCEPT !.value = o]
NoResult(c) == WithValue(c, NoValue)

(* append_instruction, with a given output or one of its own. *)
AppendAs(c, l, op, out, args) ==
  IF TerminatedBlock(c, l) THEN Stopped(c, "terminated block")
  ELSE IF NoValue \in Range(args) THEN Stopped(c, "no operand")
  ELSE WithValue([c EXCEPT !.f = Insert(@, l, Len(c.f.body[l]) + 1, op, out, args)], out)
AppendTo(c, l, op, args) ==
  IF op \in NoOutputOps THEN AppendAs(c, l, op, NoOutput, args)
  ELSE AppendAs([c EXCEPT !.f = TakeVar(@)], l, op, FreshVar(c.f), args)
AppendHere(c, op, args) == AppendTo(c, CurrentBlock(c), op, args)
JumpFrom(c, from, to) == IF TerminatedBlock(c, from) THEN c ELSE AppendTo(c, from, "jmp", <<Lab(to)>>)

AppendReturnArgs(c, ofst, size) ==
  LET d == StartIfTerminated(c, "_exit_to") IN
  AppendAs(AppendAs(d, CurrentBlock(d), "assign", Var("ret_ofst"), <<ofst>>), CurrentBlock(d), "assign", Var("ret_size"), <<size>>)

InverseOf == ("ne" :> "eq") @@ ("le" :> "gt") @@ ("sle" :> "sgt") @@ ("ge" :> "lt") @@ ("sge" :> "slt")
PassThrough == AluOps \union LoadOps \union (StoreOps \ {"mstore", "log"})
               \union {"sha3_64", "iload", "istore", "dload", "dloadbytes", "invalid", "stop", "assert", "assert_unreachable", "revert"}
Nothing == {"pass", "cleanup_repeat", "var_list", "unique_symbol"}

---------------------------------------------------------------------------

(* The arguments in order; w holds the work and the operands so far. *)
NextOperand(w, c) == [c |-> c, os |-> Append(w.os, c.value)]
ConvertAll(c, irs) == Fold(LAMBDA w, x : NextOperand(w, Convert(w.c, x)), [c |-> c, os |-> <<>>], irs)
SimpleOn(w, op) == AppendHere(w.c, op, Reverse(w.os))
ConvertSimple(c, op, args) == SimpleOn(ConvertAll(c, args), op)
(* The value of a store is computed before its place. *)
ConvertMstore(w) == AppendHere(w.c, "mstore", w.os)
ConvertLog(w, topics) == AppendHere(w.c, "log", <<Lit(topics)>> \o Reverse(w.os))

(* Symbols that are defined in a part of the code are gone behind it. *)
Scoped(c, symbols, x) == [Convert([c EXCEPT !.symbols = symbols], x) EXCEPT !.symbols = c.symbols]

(* The first label of an external function comes before its exit: what is  *)
(* returned is nothing, unless the body says more.                         *)
IsExternalLabel(x) == x.op = "label" /\ SubSeq(x.args[1].op, 1, 8) = "external"
Follow(c, args) == Fold(Convert, c, args)
ConvertSeq(c, args) ==
  IF args = <<>> THEN NoResult(c)
  ELSE IF IsExternalLabel(args[1]) THEN Follow(AppendReturnArgs(Convert(c, args[1]), Lit(0), Lit(0)), Tail(args))
  ELSE IF args[1].op = "label" THEN Stopped(c, "not a function")
  ELSE Follow(StartIfTerminated(c, "_seq"), args)

(* A value of either branch goes to a common variable; code that needs     *)
(* none drops it.                                                          *)
AsVariable(c) == IF IsLit(c.value) THEN AppendHere(c, "assign", <<c.value>>) ELSE c
JoinValues(c, out, then, else, thenEnd, elseEnd) ==
  IF then = NoValue \/ else = NoValue THEN c
  ELSE AppendAs(AppendAs(c, thenEnd, "assign", out, <<then>>), elseEnd, "assign", out, <<else>>)
Joined(c, out, then, else, thenEnd, elseEnd, exit) ==
  WithValue(JumpFrom(JumpFrom(JoinValues(c, out, then, else, thenEnd, elseEnd), elseEnd, exit), thenEnd, exit), out)
JoinBranches(c, then, thenEnd, elseEnd, exit) ==
  Joined([StartBlock(TakeLabels(c, 1), exit) EXCEPT !.f = TakeVar(@)], FreshVar(c.f), then, c.value, thenEnd, elseEnd, exit)
EndBranches(c, then, thenEnd, cond, from, thenLabel, elseLabel) ==      \* c is at the end of the second branch
  JoinBranches(WithValue(AppendTo(c, from, "jnz", <<cond, Lab(thenLabel), Lab(elseLabel)>>), c.value),
               then, thenEnd, CurrentBlock(c), Label(c, 1, "_if_exit"))
SecondBranch(c, x, cond, from, thenLabel, elseLabel) ==                 \* c is at the end of the first branch
  LET begun == StartBlock(c, elseLabel) IN
  EndBranches(IF Len(x.args) = 3 THEN AsVariable(Scoped(begun, c.symbols, x.args[3])) ELSE NoResult(begun),
              c.value, CurrentBlock(c), cond, from, thenLabel, elseLabel)
FirstBranch(c, x, thenLabel, elseLabel) ==                              \* c has computed the condition
  SecondBranch(AsVariable(Scoped(StartBlock(TakeLabels(c, 2), thenLabel), c.symbols, x.args[2])), x, c.value, CurrentBlock(c),
               thenLabel, elseLabel)
ConvertIf(c, x) == FirstBranch(c, x, Label(c, 1, "_then"), Label(c, 2, "_else"))

(* c has computed the first value and the number of rounds, os; the        *)
(* counter is a variable that the loop assigns to again.                   *)
LoopEntry(c, entry, x, os, bound) ==
  LET begun == AppendHere(StartBlock(AppendHere(c, "jmp", <<Lab(entry)>>), entry), "assign", <<os[1]>>)
      named == [begun EXCEPT !.symbols = (x.args[1].op :> begun.value) @@ @]
      invalid == AppendHere(named, "gt", <<Lit(bound), os[2]>>)
      valid == AppendHere(invalid, "iszero", <<invalid.value>>)
  IN AppendHere(AppendHere(valid, "assert", <<valid.value>>), "add", <<os[1], os[2]>>)
LoopCondition(c, counter, cond) ==                                      \* c has computed the end
  LET begun == StartBlock(AppendHere(c, "jmp", <<Lab(cond)>>), cond)
      differs == AppendHere(begun, "xor", <<counter, c.value>>)
  IN AppendHere(differs, "iszero", <<differs.value>>)
LoopBodyAndStep(c, x, counter, cond, body, incr, exit) ==               \* c has computed whether to stop
  LET inside == Scoped([StartBlock(c, body) EXCEPT !.loop = <<exit, incr>>], c.symbols, x.args[5])
      step == StartBlock(JumpFrom([inside EXCEPT !.loop = c.loop], CurrentBlock(inside), incr), incr)
      again == AppendHere(AppendAs(step, incr, "add", counter, <<counter, Lit(1)>>), "jmp", <<Lab(cond)>>)
  IN NoResult(AppendTo(StartBlock(again, exit), cond, "jnz", <<c.value, Lab(exit), Lab(body)>>))
LoopFrom(c, x, counter, cond, body, incr, exit) ==
  LoopBodyAndStep(LoopCondition(c, counter, cond), x, counter, cond, body, incr, exit)
LoopNamed(c, x, k) ==
  LoopFrom(c, x, c.symbols[x.args[1].op], Label(k, 2, "_condition"), Label(k, 3, "_body"), Label(k, 4, "_incr"), Label(k, 5, "_exit"))
RepeatOn(w, x) == LoopNamed(LoopEntry(TakeLabels(w.c, 5), Label(w.c, 1, "_repeat"), x, w.os, x.args[4].n), x, w.c)
ConvertRepeat(c, x) == RepeatOn(ConvertAll(c, SubSeq(x.args, 2, 4)), x)

LeaveTo(c, k) ==
  IF c.loop = <<>> THEN Stopped(c, "no target") ELSE NoResult(StartNamed(AppendHere(c, "jmp", <<Lab(c.loop[k])>>), ""))
ExitWith(w, label) ==
  IF label = "return_pc" THEN Stopped(w.c, "internal function")
  ELSE AppendHere(IF w.os = <<>> THEN AppendReturnArgs(w.c, Lit(0), Lit(0)) ELSE AppendReturnArgs(w.c, w.os[1], w.os[2]),
                  "jmp", <<Lab(label)>>)

ConvertLabel(c, x) ==
  NoResult(Convert(StartBlock(JumpFrom(c, CurrentBlock(c), x.args[1].op), x.args[1].op), x.args[3]))
BindSymbol(c, x) ==                                                     \* c has computed the value
  Scoped(c, (x.args[1].op :> c.value) @@ c.symbols, x.args[3])
SetSymbol(c, x) == NoResult(AppendAs(c, CurrentBlock(c), "assign", c.symbols[x.args[1].op], <<c.value>>))

(* A place in the frame is allocated where the code first comes to it. *)
PlaceOf(x) == <<x.args[1].n, x.args[2].n>>
Allocate(c, x) ==
  IF PlaceOf(x) \in DOMAIN c.allocas THEN WithValue(c, c.allocas[PlaceOf(x)])
  ELSE [AppendHere(c, "alloca", <<Lit(x.args[1].n), Lit(x.args[2].n), Lit(x.args[1].n)>>)
        EXCEPT !.allocas = (PlaceOf(x) :> FreshVar(c.f)) @@ @]

ExpandedNode(x) ==
  IF x.op = "ceil32" THEN IR("and", <<IR("add", <<x.args[1], Number(WordBytes - 1)>>), IR("not", <<Number(WordBytes - 1)>>)>>)
  ELSE With("cond", x.args[1], With("a", x.args[2], With("b", x.args[3],
         IR("xor", <<Name("b"), IR("mul", <<Name("cond"), IR("xor", <<Name("a"), Name("b")>>)>>)>>))))

ConvertForm(c, x) ==
  CASE x.op = "seq" -> ConvertSeq(c, x.args)
    [] x.op = "if" -> ConvertIf(Convert(c, x.args[1]), x)
    [] x.op = "repeat" -> ConvertRepeat(c, x)
    [] x.op = "with" -> BindSymbol(LET d == Convert(c, x.args[2]) IN AppendHere(d, "assign", <<d.value>>), x)
    [] x.op = "set" -> SetSymbol(Convert(c, x.args[2]), x)
    [] x.op = "mstore" -> ConvertMstore(ConvertAll(c, Reverse(x.args)))
    [] x.op = "log" -> ConvertLog(ConvertAll(c, x.args), Len(x.args) - 2)
    [] x.op = "return" -> AppendHere(c, "return", <<Var("ret_size"), Var("ret_ofst")>>)
    [] x.op = "goto" -> AppendHere(StartIfTerminated(c, "_jmp_target"), "jmp", <<Lab(x.args[1].op)>>)
    [] x.op = "label" -> ConvertLabel(c, x)
    [] x.op = "exit_to" -> ExitWith(ConvertAll(StartIfTerminated(c, "_exit_to"), Tail(x.args)), x.args[1].op)
    [] x.op = "break" -> LeaveTo(c, 1)
    [] x.op = "continue" -> LeaveTo(c, 2)
    [] x.op \in {"ceil32", "select"} -> Convert(c, ExpandedNode(x))
    [] x.op = "$alloca" -> Allocate(c, x)
    [] x.op \in Nothing -> NoResult(c)
    [] x.op \in DOMAIN c.symbols -> WithValue(c, c.symbols[x.op])
    [] OTHER -> NoResult(c)
Inverted(c) == AppendHere(c, "iszero", <<c.value>>)
Convert(c, x) ==
  IF c.fault # "" THEN c
  ELSE IF x.op = "int" THEN WithValue(c, Lit(x.n))
  ELSE IF x.op \in DOMAIN InverseOf THEN Inverted(ConvertSimple(c, InverseOf[x.op], x.args))
  ELSE IF x.op \in PassThrough THEN ConvertSimple(c, x.op, x.args)
  ELSE ConvertForm(c, x)

(* ensure_well_formed: parameters come first in a block and terminators    *)
(* last.                                                                   *)
RankOf(i) == IF i.op \in {"phi", "param"} THEN 0 ELSE IF i.op \in Terminators THEN 2 ELSE 1
Ordered(f, l) == FlattenSeq([r \in 1 .. 3 |-> SelectSeq(f.body[l], LAMBDA id : RankOf(f.inst[id]) = r - 1)])
EnsureWellFormed(f) == [f EXCEPT !.body = [l \in Labels(f) |-> Ordered(f, l)]]
Finished(c) == [c EXCEPT !.f = EnsureWellFormed(@)]
ToVenom(x) == Finished(Convert(Converter, x))
=============================================================================
