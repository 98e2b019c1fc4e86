----------------------------- MODULE IRCompiler -----------------------------
(***************************************************************************)
(* The legacy back end, from IR to assembly.                               *)
(*                                                                         *)
(* First the optimizer of the IR (ir/optimizer.py), which works on a tree: *)
(* the arguments of a node, then the node, and the result again for as     *)
(* long as a rule changes it.  parent is the name of the node above.  An   *)
(* exception is a node named after it, in the place of what raised it.     *)
(*                                                                         *)
(* Then the compiler (ir/compile_ir.py), by recursion over the tree.  e is *)
(* the work: the assembly so far; withargs, the height on the stack of     *)
(* each variable; the labels that exist; where break and continue jump;    *)
(* the number of symbols made; the label of the common revert, if any; and *)
(* the exception that stopped it.  h is the height of the stack before the *)
(* code.  Left out are the deployment of runtime code and data sections.   *)
(***************************************************************************)
EXTENDS IRNodes, EVMAssembly

RECURSIVE OptimizeNode(_, _)

---------------------------------------------------------------------------
(* Integers.  An operation reads its literals as signed or as unsigned.    *)

SignedOps == {"sdiv", "smod", "slt", "sle", "sgt", "sge"}
StrictOps == {"lt", "gt", "slt", "sgt"}
UnstrictOps == {"le", "ge", "sle", "sge"}
ComparisonOps == StrictOps \union UnstrictOps
FoldedOps == (BinaryOps \ {"signextend", "shl", "shr", "sar"}) \union UnstrictOps \union {"ne"}
Commutative == {"add", "mul", "eq", "ne", "and", "or", "xor"}
TruthyParents == {"if", "assert", "iszero"}

EvmInt(n, signed) == IF ~signed /\ n < 0 THEN n + Width ELSE IF signed /\ n > MaxSigned THEN n - Width ELSE n
Is(x, n, signed) == IsInt(x) /\ EvmInt(x.n, signed) = n
WrapAs(n, signed) == IF signed THEN ToSigned(Wrap(n)) ELSE Wrap(n)

Compute(op, x, y) ==
  CASE op = "add" -> x + y
    [] op = "sub" -> x - y
    [] op = "mul" -> x * y
    [] op \in {"div", "sdiv"} -> Quotient(x, y)
    [] op \in {"mod", "smod"} -> Remainder(x, y)
    [] op = "exp" -> Power(x, y)
    [] op = "eq" -> Bool(x = y)
    [] op = "ne" -> Bool(x # y)
    [] op \in {"lt", "slt"} -> Bool(x < y)
    [] op \in {"le", "sle"} -> Bool(x <= y)
    [] op \in {"gt", "sgt"} -> Bool(x > y)
    [] op \in {"ge", "sge"} -> Bool(x >= y)
    [] op = "or" -> Or(x, y)
    [] op = "and" -> And(x, y)
    [] op = "xor" -> Xor(x, y)
Folded(op, l, r, signed) == Number(WrapAs(Compute(op, EvmInt(l.n, signed), EvmInt(r.n, signed)), signed))

IsPowerOfTwo(n) == \E k \in 0 .. WordBits - 1 : n = 2 ^ k
Log2(n) == CHOOSE k \in 0 .. WordBits - 1 : n = 2 ^ k

---------------------------------------------------------------------------
(* Binary operations.  A rule gives the node that comes in the place of    *)
(* the operation on l and r, or NoRule.                                    *)

NoRule == Name("!no rule")
SameValue(l, r) == l.args = <<>> /\ r.args = <<>> /\ l.op = r.op /\ l.n = r.n /\ ~IsComplex(l)

ArithmeticRule(op, l, r) ==
  LET unsigned(n) == Is(r, n, op \in SignedOps)
  IN IF op \in {"add", "sub", "xor", "or"} /\ unsigned(0) THEN Sequence(<<l>>)
     ELSE IF op \in {"sub", "xor", "ne"} \union StrictOps /\ SameValue(l, r) THEN Number(0)
     ELSE IF op \in {"eq"} \union UnstrictOps /\ SameValue(l, r) THEN Number(1)
     ELSE IF op \in {"mul", "div", "sdiv", "mod", "smod", "and"} /\ unsigned(0) THEN Number(0)
     ELSE IF op \in {"mod", "smod"} /\ unsigned(1) THEN Number(0)
     ELSE IF op \in {"mul", "div", "sdiv"} /\ unsigned(1) THEN Sequence(<<l>>)
     ELSE IF op \in {"mul", "sdiv"} /\ Is(r, -1, TRUE) THEN IR("sub", <<Number(0), l>>)
     ELSE IF op = "and" /\ Is(r, -1, TRUE) THEN Sequence(<<l>>)
     ELSE IF op = "xor" /\ Is(r, -1, TRUE) THEN IR("not", <<l>>)
     ELSE IF op = "or" /\ Is(r, -1, TRUE) THEN r
     ELSE IF op = "sub" /\ Is(l, -1, TRUE) THEN IR("not", <<r>>)
     ELSE IF op = "exp" /\ (Is(r, 0, FALSE) \/ Is(l, 1, FALSE)) THEN Number(1)
     ELSE IF op = "exp" /\ Is(l, 0, FALSE) THEN IR("iszero", <<r>>)
     ELSE IF op = "exp" /\ Is(r, 1, FALSE) THEN Sequence(<<l>>)
     ELSE NoRule

PowerRule(op, l, r) ==
  IF op \notin {"mod", "div", "mul"} \/ ~IsInt(r) \/ ~IsPowerOfTwo(EvmInt(r.n, FALSE)) THEN NoRule
  ELSE IF op = "mod" THEN IR("and", <<l, Number(EvmInt(r.n, FALSE) - 1)>>)
  ELSE IR(IF op = "div" THEN "shr" ELSE "shl", <<Number(Log2(EvmInt(r.n, FALSE))), l>>)

TruthRule(op, l, r, parent) ==
  IF op = "eq" /\ Is(r, 0, FALSE) THEN IR("iszero", <<l>>)
  ELSE IF op = "ne" /\ Is(r, 0, FALSE) THEN IR("iszero", <<IR("iszero", <<l>>)>>)
  ELSE IF op = "eq" /\ Is(r, -1, TRUE) THEN IR("iszero", <<IR("not", <<l>>)>>)
  ELSE IF parent \notin TruthyParents THEN NoRule
  ELSE IF op = "eq" THEN IR("iszero", <<IR("xor", <<l, r>>)>>)
  ELSE IF op = "ne" /\ parent = "iszero" THEN IR("iszero", <<IR("eq", <<l, r>>)>>)
  ELSE IF op = "or" /\ IsInt(r) /\ ~Is(r, 0, FALSE) THEN Number(1)
  ELSE NoRule

(* _comparison_helper.  A comparison with the end of the range, or one     *)
(* short of it, is a test of equality; any other may become strict, or     *)
(* give strictness up where an iszero is wanted.                           *)
Flipped == ("lt" :> "gt") @@ ("gt" :> "lt") @@ ("le" :> "ge") @@ ("ge" :> "le")
           @@ ("slt" :> "sgt") @@ ("sgt" :> "slt") @@ ("sle" :> "sge") @@ ("sge" :> "sle")
OtherStrictness == ("lt" :> "le") @@ ("gt" :> "ge") @@ ("le" :> "lt") @@ ("ge" :> "gt")
                   @@ ("slt" :> "sle") @@ ("sgt" :> "sge") @@ ("sle" :> "slt") @@ ("sge" :> "sgt")
ChangeStrictness(op, l, rhs) ==
  LET new == IF (op \in {"gt", "sgt"}) \/ (op \in {"le", "sle"}) THEN rhs + 1 ELSE rhs - 1
  IN IF WrapAs(new, op \in SignedOps) # new THEN Panic ELSE IR(OtherStrictness[op], <<l, Number(new)>>)
CompareWith(op, l, r, preferStrict) ==
  LET signed == op \in SignedOps
      strict == op \in StrictOps
      gt == op \in {"gt", "ge", "sgt", "sge"}
      lo == IF signed THEN MinSigned ELSE 0
      hi == IF signed THEN MaxSigned ELSE MaxWord
      almostAlways == IF gt THEN lo ELSE hi
      never == IF gt THEN hi ELSE lo
  IN IF strict /\ Is(r, never, signed) THEN Number(0)
     ELSE IF ~strict /\ Is(r, almostAlways, signed) THEN Number(1)
     ELSE IF strict /\ Is(r, IF gt THEN hi - 1 ELSE lo + 1, signed) THEN IR("eq", <<l, Number(never)>>)
     ELSE IF strict # preferStrict /\ IsInt(r)
     THEN IF preferStrict /\ Is(r, never, signed) THEN IR("eq", <<l, r>>)
          ELSE IF ~preferStrict /\ Is(r, almostAlways, signed) THEN IR("ne", <<l, r>>)
          ELSE ChangeStrictness(op, l, EvmInt(r.n, signed))
     ELSE IF op = "gt" /\ Is(r, 0, FALSE) THEN IR("iszero", <<IR("iszero", <<l>>)>>)
     ELSE NoRule
ComparisonRule(op, l, r, parent) ==
  IF op \notin ComparisonOps THEN NoRule
  ELSE IF IsInt(l) THEN CompareWith(Flipped[op], r, l, parent \notin TruthyParents)
  ELSE CompareWith(op, l, r, parent \notin TruthyParents)

OrElse(rule, other) == IF rule = NoRule THEN other ELSE rule
RuleFor(op, l, r, parent) ==
  OrElse(ArithmeticRule(op, l, r), OrElse(PowerRule(op, l, r),
         OrElse(TruthRule(op, l, r, parent), ComparisonRule(op, l, r, parent))))

(* A rule that would drop code that must be evaluated does not apply.      *)
Keeps(z, arg) == ~IsComplex(arg) \/ \E k \in DOMAIN z.args : z.args[k] = arg \/ Contains(z.args[k].args, arg)
Unless(z, l, r) == IF z = NoRule \/ (Keeps(z, l) /\ Keeps(z, r)) THEN z ELSE NoRule
Binop(op, l, r, parent) ==
  IF IsInt(l) /\ IsInt(r) THEN Folded(op, l, r, op \in SignedOps)
  ELSE IF op \in Commutative /\ IsInt(l) THEN Unless(RuleFor(op, r, l, parent), r, l)
  ELSE Unless(RuleFor(op, l, r, parent), l, r)

---------------------------------------------------------------------------
(* Sequences: neighbouring stores of zero, or of words loaded one after    *)
(* the other, become one copy.                                             *)

NoPiece == [dst |-> 0, src |-> 0, len |-> 0]
ZeroPiece(x) ==
  IF x.op = "mstore" /\ IsInt(x.args[1]) /\ IsInt(x.args[2]) /\ x.args[2].n = 0
  THEN [dst |-> x.args[1].n, src |-> 0, len |-> WordBytes]
  ELSE IF x.op = "calldatacopy" /\ IsInt(x.args[1]) /\ x.args[2].op = "calldatasize" /\ IsInt(x.args[3])
  THEN [dst |-> x.args[1].n, src |-> 0, len |-> x.args[3].n]
  ELSE NoPiece
LoadPiece(x, load) ==
  IF x.op = "mstore" /\ IsInt(x.args[1]) /\ x.args[2].op = load /\ IsInt(x.args[2].args[1])
  THEN [dst |-> x.args[1].n, src |-> x.args[2].args[1].n, len |-> WordBytes]
  ELSE NoPiece
PieceOf(x, load) == IF load = "zero" THEN ZeroPiece(x) ELSE LoadPiece(x, load)

CopyFor == ("calldataload" :> "calldatacopy") @@ ("dload" :> "dloadbytes") @@ ("mload" :> "mcopy")
MergedRun(run, load) ==
  IF load = "zero" THEN IR("calldatacopy", <<Number(run.dst), Name("calldatasize"), Number(run.total)>>)
  ELSE IR(CopyFor[load], <<Number(run.dst), Number(run.src), Number(run.total)>>)

NoRun == [at |-> 0, dst |-> 0, src |-> 0, total |-> 0, count |-> 0]
Begun(run, p, i) == IF run.count = 0 THEN [at |-> i, dst |-> p.dst, src |-> p.src, total |-> 0, count |-> 0] ELSE run
Joins(run, p, load) ==
  /\ p # NoPiece
  /\ run.dst + run.total = p.dst
  /\ load # "zero" => run.src + run.total = p.src
  /\ load = "mload" => ~(run.src < run.dst /\ run.dst < p.src + WordBytes)
Grown(run, p) == [run EXCEPT !.total = @ + p.len, !.count = @ + 1]

(* The node that ends a run does not begin one; the nodes that move up     *)
(* when a run is replaced are passed over.                                 *)
RECURSIVE MergeFrom(_, _, _, _)
Flushed(args, load, i, run) ==
  MergeFrom(IF run.count > 1
            THEN SubSeq(args, 1, run.at - 1) \o <<MergedRun(run, load)>> \o SubSeq(args, run.at + run.count, Len(args))
            ELSE args, load, i + 1, NoRun)
Continue(args, load, i, run, p) ==
  IF ~Joins(run, p, load) THEN Flushed(args, load, i, run)
  ELSE IF i < Len(args) THEN MergeFrom(args, load, i + 1, Grown(run, p))
  ELSE Flushed(args, load, i, Grown(run, p))
MergePiece(args, load, i, run, p) == Continue(args, load, i, IF p = NoPiece THEN run ELSE Begun(run, p, i), p)
MergeFrom(args, load, i, run) ==
  IF i > Len(args) THEN args ELSE MergePiece(args, load, i, run, PieceOf(args[i], load))
Merge(args, load) == MergeFrom(args, load, 1, NoRun)

StoreOfData(x) ==
  IF x.op = "mstore" /\ x.args[2].op = "dload"
  THEN IR("dloadbytes", <<x.args[1], x.args[2].args[1], Number(WordBytes)>>) ELSE x
RewriteStoresOfData(args) == <<>> \o [k \in DOMAIN args |-> StoreOfData(args[k])]
RemoveEmptySeqs(args) ==      \* all but the last
  IF args = <<>> THEN args
  ELSE SelectSeq(SubSeq(args, 1, Len(args) - 1), LAMBDA x : x.op \notin {"seq", "pass"} \/ x.args # <<>>) \o <<args[Len(args)]>>
MergeSeq(args) ==
  RemoveEmptySeqs(Merge(RewriteStoresOfData(Merge(Merge(Merge(args, "zero"), "calldataload"), "dload")), "mload"))
OneArgument(args) == IF Len(args) = 1 THEN args[1] ELSE Sequence(args)

---------------------------------------------------------------------------

OptimizeIf(x) ==
  LET cond == x.args[1] IN
    IF IsInt(cond) THEN Sequence(IF Is(cond, 0, FALSE) THEN SubSeq(x.args, 3, Len(x.args)) ELSE <<x.args[2]>>)
    ELSE IF Len(x.args) = 3 /\ cond.op \notin {"iszero", "ne"}
    THEN IR("if", <<IR("iszero", <<cond>>), x.args[3], x.args[2]>>)
    ELSE x

(* One rule at a node whose arguments are optimized; unique symbols must   *)
(* survive the rules for binary operations.                                *)
Checked(x, z) == IF z = NoRule THEN x ELSE IF Symbols(z) # Symbols(x) THEN Panic ELSE z
RewriteNode(x, parent) ==
  LET arg == IF x.args = <<>> THEN Pass ELSE x.args[1] IN
    CASE x.op = "seq" -> OneArgument(MergeSeq(x.args))
      [] x.op \in FoldedOps -> Checked(x, Binop(x.op, x.args[1], x.args[2], parent))
      [] x.op \in {"shl", "shr", "sar"} /\ IsInt(arg) /\ arg.n = 0 -> x.args[2]
      [] x.op = "ceil32" /\ IsInt(arg) -> Number(Ceil32(arg.n))
      [] x.op = "iszero" /\ IsInt(arg) -> Number(Bool(arg.n = 0))
      [] x.op = "if" -> OptimizeIf(x)
      [] x.op \in {"assert", "assert_unreachable"} /\ IsInt(arg) ->
           IF Is(arg, 0, FALSE) THEN StaticAssertion ELSE Sequence(<<>>)
      [] OTHER -> x

OptimizedArgs(x) == IF x.args = <<>> THEN x ELSE IR(x.op, <<>> \o [k \in DOMAIN x.args |-> OptimizeNode(x.args[k], x.op)])
UntilUnchanged(x, z, parent) == IF z = x THEN x ELSE OptimizeNode(z, parent)
Rewritten(x, parent) == UntilUnchanged(x, RewriteNode(x, parent), parent)
OptimizeNode(x, parent) == Rewritten(OptimizedArgs(x), parent)
OptimizeIR == [x \in Any |-> OptimizeNode(x, "")]

---------------------------------------------------------------------------
(* The compiler.                                                           *)

RECURSIVE Lower(_, _, _)

Lowerer == [asm |-> <<>>, withargs |-> [v \in {} |-> 0], existing |-> {}, loop |-> <<>>, symbols |-> 0,
            revert |-> "", fault |-> ""]

Fails(e, what) == [e EXCEPT !.fault = IF @ = "" THEN what ELSE @]
Emits(e, items) == [e EXCEPT !.asm = @ \o items]
Goes(l) == <<PushLabel(l), Op("jump")>>
GoesIf(l) == <<PushLabel(l), Op("jumpi")>>
Branches(l) == <<Op("iszero")>> \o GoesIf(l)
Pops(n) == [k \in 1 .. n |-> PopOp]

(* mksymbol: the next label with this name; taken with TakeSymbols. *)
SymbolAfter(e, k, name) == name \o "_" \o ToString(e.symbols + k)
TakeSymbols(e, n) == [e EXCEPT !.symbols = @ + n]
Bound(e, x, h) == [e EXCEPT !.withargs = (x :> h) @@ @]

---------------------------------------------------------------------------
(* _rewrite_return_sequences: what a return needs is on the stack already. *)

RetOpcodes == {"return", "exit_to"}
OnStackName(x) == x.op \in {"return_pc"}
AsPassed(args) == [k \in DOMAIN args |-> IF OnStackName(args[k]) THEN Pass ELSE args[k]]
RewriteReturn(x, params) ==
  IF x.op = "return" THEN (IF x.args[1].op = "ret_ofst" /\ x.args[2].op = "ret_len" THEN IR("return", <<Pass, Pass>>) ELSE x)
  ELSE IF x.args[1].op = "return_pc" THEN IR("jump", <<Pass>>)
  ELSE Sequence((IF "return_buffer" \in params THEN <<IR("pop", <<Pass>>)>> ELSE <<>>)
                \o <<IR("goto", <<x.args[1]>> \o AsPassed(Tail(x.args)))>>)
RECURSIVE RewriteReturns(_, _)
ParamsOf(x, params) == IF x.op = "label" THEN {x.args[2].args[k].op : k \in DOMAIN x.args[2].args} ELSE params
RewrittenArgs(x, params) ==
  IF x.args = <<>> THEN x ELSE IR(x.op, <<>> \o [k \in DOMAIN x.args |-> RewriteReturns(x.args[k], params)])
RewriteReturns(x, params) ==
  IF x.op \in RetOpcodes THEN RewrittenArgs(RewriteReturn(x, params), params)
  ELSE RewrittenArgs(x, ParamsOf(x, params))

---------------------------------------------------------------------------
(* _step_r *)

Opcodes == (PushingOps \ PushingMacros) \union (StoreOps \ ({"call"} \union PushingMacros \union OtherMacros)) \union {"return", "revert", "stop", "invalid", "pop", "jump"}

OpcodeOf(x) == IF x.op = "log" THEN <<"log", Len(x.args) - 2>> ELSE Op(x.op)
(* The arguments of an opcode, the last one first. *)
LowerArgs(e, args, h) ==
  Fold(LAMBDA w, k : Lower(w, args[Len(args) + 1 - k], h + k - 1), e, [k \in DOMAIN args |-> k])

HeightOf(e, x, h) == h - e.withargs[x]
LowerVariable(e, x, h) ==
  IF HeightOf(e, x, h) > 16 THEN Fails(e, "with statement too deep") ELSE Emits(e, <<Dup(HeightOf(e, x, h))>>)
LowerSet(e, x, h) ==
  LET var == x.args[1].op
      swap == h - e.withargs[var]
  IN IF var \notin DOMAIN e.withargs THEN Fails(e, "set expects a stack variable")
     ELSE IF swap > 16 THEN Fails(e, "with statement too deep")
     ELSE Emits(Lower(e, x.args[2], h), <<Swap(swap), PopOp>>)

LowerIf(e, x, h) ==
  LET join == SymbolAfter(e, 1, "join")
  IN Emits(Lower(Emits(TakeSymbols(e, 1), Branches(join)), x.args[2], h), <<ALabel(join)>>)
LowerIfElse(e, x, h) ==
  LET else == SymbolAfter(e, 1, "else")
      join == SymbolAfter(e, 2, "join")
      first == Lower(Emits(TakeSymbols(e, 2), Branches(else)), x.args[2], h)
  IN Emits(Lower(Emits(first, Goes(join) \o <<ALabel(else)>>), x.args[3], h), <<ALabel(join)>>)

(* The shared block that reverts. *)
AssertFalse(e) ==
  IF e.revert # "" THEN Emits(e, GoesIf(e.revert))
  ELSE LET l == SymbolAfter(e, 1, "revert") IN Emits([TakeSymbols(e, 1) EXCEPT !.revert = l], GoesIf(l))

(* A loop that runs its body, then asks whether to go on.  The stack is    *)
(* the first value not reached and the counter; it leaves both.            *)
WithinBound(e, x, exit, h) ==
  IF x.args[3] = x.args[4] THEN e
  ELSE Emits(AssertFalse(Emits(Lower(e, x.args[4], h + 2), <<Dup(2), Op("gt")>>)), <<Dup(1)>> \o Branches(exit))
FirstToLast(e, x) == Emits(e, (IF IsInt(x.args[2]) /\ x.args[2].n = 0 THEN <<>> ELSE <<Dup(2), Op("add")>>) \o <<Swap(1)>>)
LoopBody(e, x, start, continue, exit, h) ==
  Lower([Emits(Bound(e, x.args[1].op, h + 1), <<ALabel(start)>>) EXCEPT !.loop = <<exit, continue, h + 2>>], x.args[5], h + 2)
LoopEnd(e, old, x, start, continue, exit) ==
  Emits([e EXCEPT !.withargs = old.withargs, !.loop = old.loop],
        Pops(Valency(x.args[5])) \o <<ALabel(continue), Push(1), Op("add"), Dup(2), Dup(2), Op("xor")>> \o GoesIf(start)
        \o <<ALabel(exit), PopOp, PopOp>>)
LowerRepeat(e, x, h) ==
  LET start == SymbolAfter(e, 1, "loop_start")
      continue == SymbolAfter(e, 2, "loop_continue")
      exit == SymbolAfter(e, 3, "loop_exit")
      counted == Lower(Lower(TakeSymbols(e, 3), x.args[2], h), x.args[3], h + 1)
      ready == FirstToLast(WithinBound(counted, x, exit, h), x)
  IN IF x.args[1].op \in DOMAIN e.withargs THEN Fails(e, "shadowed loop variable")
     ELSE LoopEnd(LoopBody(ready, x, start, continue, exit, h), e, x, start, continue, exit)

LowerContinue(e) == IF e.loop = <<>> THEN Fails(e, "invalid break") ELSE Emits(e, Goes(e.loop[2]))
LowerBreak(e, h) == IF e.loop = <<>> THEN Fails(e, "invalid break") ELSE Emits(e, Pops(h - e.loop[3]) \o Goes(e.loop[1]))
LowerCleanup(e) ==      \* cleanup_repeat: all but the parameters of the function
  IF e.loop = <<>> THEN Fails(e, "invalid break")
  ELSE Emits(e, Pops(e.loop[3] - Cardinality(DOMAIN e.withargs \intersect {"return_buffer", "return_pc"})))

LeaveScope(e, old, valency) ==
  Emits([e EXCEPT !.withargs = old.withargs], IF valency > 0 THEN <<Swap(1), PopOp>> ELSE <<PopOp>>)
LowerWith(e, x, h) ==
  LeaveScope(Lower(Bound(Lower(e, x.args[2], h), x.args[1].op, h), x.args[3], h + 1), e, Valency(x.args[3]))

(* A word that a statement leaves is dropped, unless the statement is like *)
(* the last one.                                                           *)
LowerInSeq(e, arg, last, h) ==
  LET done == Lower(e, arg, h) IN IF Valency(arg) = 1 /\ arg # last THEN Emits(done, <<PopOp>>) ELSE done
LowerSeq(e, args, h) == Fold(LAMBDA w, arg : LowerInSeq(w, arg, args[Len(args)], h), e, args)

LowerUnreachable(e, x, h) ==
  LET done == Lower(e, x.args[1], h)
      l == SymbolAfter(done, 1, "reachable")
  IN Emits(TakeSymbols(done, 1), GoesIf(l) \o <<Op("invalid"), ALabel(l)>>)
LowerAssert(e, x, h) == AssertFalse(Emits(Lower(e, x.args[1], h), <<Op("iszero")>>))
LowerSha3_64(e, x, h) ==
  Emits(Lower(Lower(e, x.args[1], h), x.args[2], h + 1),
        <<Push(FreeVarSpace2), Op("mstore"), Push(FreeVarSpace), Op("mstore"), Push(2 * WordBytes), Push(FreeVarSpace), Op("sha3")>>)
(* b ^ ((a ^ b) * cond) *)
LowerSelect(e, x, h) ==
  Emits(Lower(Emits(Lower(Lower(e, x.args[3], h), x.args[2], h + 1), <<Dup(2), Op("xor")>>), x.args[1], h + 2),
        <<Op("mul"), Op("xor")>>)

Opposite == ("le" :> "gt") @@ ("ge" :> "lt") @@ ("sle" :> "sgt") @@ ("sge" :> "slt") @@ ("ne" :> "eq")
Expanded(x) ==
  IF x.op = "ceil32" THEN IR("and", <<IR("add", <<x.args[1], Number(WordBytes - 1)>>), IR("not", <<Number(WordBytes - 1)>>)>>)
  ELSE IR("iszero", <<IR(Opposite[x.op], x.args)>>)

LowerGoto(e, x, h) == Emits(LowerArgs(e, Tail(x.args), h), Goes(x.args[1].op))
NewLabel(e, l) == IF l \in e.existing THEN Fails(e, "label exists") ELSE [e EXCEPT !.existing = @ \union {l}]
(* The parameters of a label are on the stack, the first on top. *)
LowerLabel(e, x) ==
  LET params == x.args[2].args
      heights == [v \in {params[k].op : k \in DOMAIN params} |->
                    Len(params) - (CHOOSE k \in DOMAIN params : params[k].op = v)]
      entered == [Emits(NewLabel(e, x.args[1].op), <<ALabel(x.args[1].op)>>) EXCEPT !.withargs = heights]
  IN [Lower(entered, x.args[3], Len(params)) EXCEPT !.withargs = e.withargs]

LowerForm(e, x, h) ==
  CASE x.op = "set" -> LowerSet(e, x, h)
    [] x.op \in {"pass", "dummy"} -> e
    [] x.op = "if" /\ Len(x.args) = 2 -> LowerIf(Lower(e, x.args[1], h), x, h)
    [] x.op = "if" /\ Len(x.args) = 3 -> LowerIfElse(Lower(e, x.args[1], h), x, h)
    [] x.op = "repeat" -> LowerRepeat(e, x, h)
    [] x.op = "continue" -> LowerContinue(e)
    [] x.op = "break" -> LowerBreak(e, h)
    [] x.op = "cleanup_repeat" -> LowerCleanup(e)
    [] x.op = "with" -> LowerWith(e, x, h)
    [] x.op = "seq" -> LowerSeq(e, x.args, h)
    [] x.op = "assert_unreachable" -> LowerUnreachable(e, x, h)
    [] x.op = "assert" -> LowerAssert(e, x, h)
    [] x.op = "sha3_64" -> LowerSha3_64(e, x, h)
    [] x.op = "select" -> LowerSelect(e, x, h)
    [] x.op \in DOMAIN Opposite \union {"ceil32"} -> Lower(e, Expanded(x), h)
    [] x.op = "goto" -> LowerGoto(e, x, h)
    [] x.op = "symbol" -> Emits(e, <<PushLabel(x.args[1].op)>>)
    [] x.op = "label" -> LowerLabel(e, x)
    [] x.op = "unique_symbol" -> NewLabel(e, x.args[1].op)
    [] OTHER -> Fails(e, "invalid IR node")
Lower(e, x, h) ==
  IF e.fault # "" THEN e
  ELSE IF x.op \in Opcodes THEN Emits(LowerArgs(e, x.args, h), <<OpcodeOf(x)>>)
  ELSE IF x.op = "int" THEN Emits(e, <<Push(Wrap(x.n))>>)
  ELSE IF x.op \in DOMAIN e.withargs THEN LowerVariable(e, x.op, h)
  ELSE LowerForm(e, x, h)

Postambles(e) ==
  Emits(e, <<Op("stop")>> \o (IF e.revert = "" THEN <<>> ELSE <<ALabel(e.revert), Push(0), Dup(1), Op("revert")>>))
CompileToAssembly(x) == Postambles(Lower(Lowerer, RewriteReturns(x, {}), 0))
=============================================================================
