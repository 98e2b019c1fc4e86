---------------------------- MODULE VenomExpressions ----------------------------
(***************************************************************************)
(* The passes that fold constants, drop dead code and give the function    *)
(* the form that venom_to_assembly expects: SCCP, RemoveUnusedVariables,   *)
(* RevertToAssert, BranchOptimization, SingleUseExpansion and              *)
(* CFGNormalization; and the passes that rewrite expressions:              *)
(* AlgebraicOptimizationPass, CSE and ReduceLiteralsCodesize, with the     *)
(* effects of instructions (venom/effects.py) and                          *)
(* AvailableExpressionAnalysis.                                            *)
(***************************************************************************)
EXTENDS VenomPasses

---------------------------------------------------------------------------
(* SCCP: sparse conditional constant propagation.  w is the work: lat maps *)
(* variables to Top, Bottom or a literal, exec maps a block to the blocks  *)
(* it has been entered from, and work is the stack of items.               *)

Top == <<"top">>
Bottom == <<"bottom">>
Meet(x, y) == IF x = Top THEN y ELSE IF y = Top \/ SameOperand(x, y) THEN x ELSE Bottom
Flow(from, to) == [kind |-> "flow", from |-> from, to |-> to]
SSA(id) == [kind |-> "ssa", id |-> id]

LatticeOf(w, o) == IF IsVar(o) THEN w.lat[o] ELSE o
AddUses(w, dfg, v) ==
  [w EXCEPT !.work = @ \o [k \in DOMAIN Ascending(Uses(dfg, v)) |-> SSA(Ascending(Uses(dfg, v))[k])]]
AddFlow(w, from, targets) == [w EXCEPT !.work = @ \o [k \in DOMAIN targets |-> Flow(from, targets[k])]]
SetLattice(w, dfg, v, x) == AddUses([w EXCEPT !.lat[v] = x], dfg, v)
SetIfChanged(w, dfg, v, x) == IF SameOperand(w.lat[v], x) THEN w ELSE SetLattice(w, dfg, v, x)

VisitPhi(st, w, id) ==
  LET i == st.fn.inst[id]
      entered == {p \in PhiPairs(i) : p[1][2] \in w.exec[i.bb]}
  IN SetIfChanged(w, st.cache.dfg, i.out, FoldSet(LAMBDA p, x : Meet(x, w.lat[p[2]]), Top, entered))

(* eval_arith: u and v are the operands as unsigned numbers, the one on    *)
(* top of the stack first, s and t as signed ones.                         *)
Masked(n) == n % Width
EvalSignextend(n, value) ==
  LET sign == 2 ^ (n * ByteBits + ByteBits - 1)
  IN IF n > WordBytes - 1 THEN value
     ELSE IF And(value, sign) # 0 THEN Or(value, Width - sign) ELSE And(value, sign - 1)
Evaluate(op, u, v, s, t) ==
  CASE op = "add" -> Masked(u + v)
    [] op = "sub" -> Masked(u - v)
    [] op = "mul" -> Masked(u * v)
    [] op = "div" -> Masked(Quotient(u, v))
    [] op = "sdiv" -> ToUnsigned(Quotient(s, t))
    [] op = "mod" -> Masked(Remainder(u, v))
    [] op = "smod" -> ToUnsigned(Remainder(s, t))
    [] op = "exp" -> Power(u, v)
    [] op = "eq" -> Bool(u = v)
    [] op = "lt" -> Bool(u < v)
    [] op = "gt" -> Bool(u > v)
    [] op = "slt" -> Bool(s < t)
    [] op = "sgt" -> Bool(s > t)
    [] op = "or" -> Or(u, v)
    [] op = "and" -> And(u, v)
    [] op = "xor" -> Xor(u, v)
    [] op = "not" -> Xor(MaxWord, u)
    [] op = "signextend" -> EvalSignextend(u, v)
    [] op = "iszero" -> Bool(u = 0)
    [] op = "shr" -> IF u >= WordBits THEN 0 ELSE v \div 2 ^ u
    [] op = "shl" -> IF u >= WordBits THEN 0 ELSE Masked(v * 2 ^ u)
    [] op = "sar" -> ToUnsigned(IF s >= WordBits THEN (IF t < 0 THEN -1 ELSE 0) ELSE t \div 2 ^ s)

ArithmeticOps == AluOps
EvalOperands(op, u, v) == Evaluate(op, u, v, ToSigned(u), ToSigned(v))
EvalLiterals(op, args) == EvalOperands(op, ToUnsigned(Last(args)[2]), ToUnsigned(args[1][2]))

(* _evm_sar asserts that the shift, which it takes for a signed number, is *)
(* not negative.                                                           *)
RefusesShift(op, args) == op = "sar" /\ ToSigned(ToUnsigned(Last(args)[2])) < 0

(* _eval: the first operand that is not a literal decides; the lattice of  *)
(* an evaluation that fails is Refused.                                    *)
Refused == <<"refused">>
EvalArith(w, i) ==
  LET ops == [k \in DOMAIN i.args |-> LatticeOf(w, i.args[k])]
      open == SelectSeq(ops, LAMBDA o : ~IsLit(o))
  IN IF open # <<>> THEN (IF IsLabel(open[1]) THEN Bottom ELSE open[1])
     ELSE IF RefusesShift(i.op, ops) THEN Refused ELSE Shared(Lit(EvalLiterals(i.op, ops)), i.out)

VisitExpr(st, w, id, stores) ==
  LET i == st.fn.inst[id]
      dfg == st.cache.dfg
      cond == LatticeOf(w, i.args[1])
  IN CASE i.op \in stores -> SetLattice(w, dfg, i.out, Shared(cond, i.out))
       [] i.op = "jmp" -> AddFlow(w, i.bb, <<i.args[1][2]>>)
       [] i.op = "jnz" ->
            AddFlow(w, i.bb, IF ~IsLit(cond) THEN st.cache.cfg.out[i.bb]
                             ELSE IF cond[2] = 0 THEN <<i.args[3][2]>> ELSE <<i.args[2][2]>>)
       [] i.op \in ArithmeticOps -> SetIfChanged(w, dfg, i.out, EvalArith(w, i))
       [] OTHER -> IF i.out # NoOutput THEN SetLattice(w, dfg, i.out, Bottom) ELSE w

VisitFlow(st, w, from, l, stores) ==
  LET entered == [w EXCEPT !.exec[l] = @ \union {from}]
      phis == SelectSeq(st.fn.body[l], LAMBDA id : id \in PhiIds(st.fn, l))
      rest == SelectSeq(st.fn.body[l], LAMBDA id : st.fn.inst[id].op # "phi")
      visited == Fold(LAMBDA x, id : VisitPhi(st, x, id), entered, phis)
  IN IF from \in w.exec[l] THEN w
     ELSE IF Cardinality(visited.exec[l]) > 1 THEN visited
     ELSE Fold(LAMBDA x, id : VisitExpr(st, x, id, stores), visited, rest)

VisitSSA(st, w, id, stores) ==
  IF st.fn.inst[id].op = "phi" THEN VisitPhi(st, w, id)
  ELSE IF w.exec[st.fn.inst[id].bb] # {} THEN VisitExpr(st, w, id, stores) ELSE w

RECURSIVE Propagate(_, _, _)
Propagate(st, w, stores) ==
  IF w.work = <<>> THEN w
  ELSE LET item == Last(w.work)
           rest == [w EXCEPT !.work = Front(@)]
       IN Propagate(st, IF item.kind = "flow" THEN VisitFlow(st, rest, item.from, item.to, stores)
                        ELSE VisitSSA(st, rest, item.id, stores), stores)

(* _replace_constants *)
Constants(w, args, v) ==
  [k \in DOMAIN args |-> IF IsVar(args[k]) /\ IsLit(w.lat[args[k]]) THEN w.lat[args[k]] ELSE Shared(args[k], v)]
Asserts == {"assert", "assert_unreachable"}
FoldedInst(w, i, stores) ==
  LET cond == LatticeOf(w, i.args[1]) IN
    CASE i.op = "phi" -> i
      [] i.op = "jnz" /\ IsLit(cond) ->
           [i EXCEPT !.op = "jmp", !.args = <<IF cond[2] = 0 THEN i.args[3] ELSE i.args[2]>>]
      [] i.op \in Asserts /\ IsLit(cond) -> [i EXCEPT !.op = "nop", !.args = <<>>]
      [] OTHER -> [i EXCEPT !.args = Constants(w, @, IF i.op \in stores THEN i.out ELSE Own)]

NeverHolds(f, w) ==
  \E id \in Ids(f) : /\ f.inst[id].op \in Asserts
                     /\ LET cond == LatticeOf(w, f.inst[id].args[1]) IN IsLit(cond) /\ cond[2] <= 0
Decided(f, w) == \E id \in Ids(f) : f.inst[id].op = "jnz" /\ IsLit(LatticeOf(w, f.inst[id].args[1]))
FoldAll(s, w, stores) ==
  IF \E v \in DOMAIN w.lat : w.lat[v] = Refused THEN Fail(s, "negative shift")
  ELSE IF NeverHolds(s.fn, w) THEN Fail(s, "static assertion")
  ELSE Invalidate(EditFn(s, Rewrite(s.fn, Ids(s.fn), LAMBDA i : FoldedInst(w, i, stores))),
                  {"dfg", "live"} \union (IF Decided(s.fn, w) THEN {"cfg"} ELSE {}))

StartLattice(s) == [lat |-> [v \in Range(s.cache.dfg.vars) |-> Top],
                    exec |-> [l \in Labels(s.fn) |-> {}],
                    work |-> <<Flow("__dummy_start", Entry(s.fn))>>]
PropagateAndFold(s, stores) == FoldAll(s, Propagate(s, StartLattice(s), stores), stores)
SCCP(st, removeAllocas) ==
  PropagateAndFold(Request(st, <<"dfg", "cfg">>), {"assign"} \union (IF removeAllocas THEN StackMemory ELSE {}))

---------------------------------------------------------------------------
(* RemoveUnusedVariablesPass *)

ClearNops(f) == [f EXCEPT !.body = [l \in Labels(f) |-> SelectSeq(@[l], LAMBDA id : f.inst[id].op # "nop")]]
Unused(st, id) == LET i == st.fn.inst[id] IN
  i.out # NoOutput /\ i.op \notin Volatile /\ Uses(st.cache.dfg, i.out) = {}

RECURSIVE RemoveUnusedFrom(_, _)
RemoveUnusedFrom(st, work) ==
  IF work = <<>> THEN st
  ELSE LET id == Last(work)
           read == Inputs(st.fn.inst[id])
           dfg == SetUses(st.cache.dfg, id, read, {})
           again == Ascending(UNION {Uses(dfg, v) : v \in read} \ Range(Front(work)))
       IN IF ~Unused(st, id) THEN RemoveUnusedFrom(st, Front(work))
          ELSE RemoveUnusedFrom([st EXCEPT !.fn = MakeNop(@, id), !.cache = With(@, "dfg", dfg)],
                                Front(work) \o again)

RemoveUnused(s) == RemoveUnusedFrom(s, Producers(s.cache.dfg))
ClearAllNops(s) == EditFn(s, ClearNops(s.fn))
RemoveUnusedVariables(st) ==
  Invalidate(ClearAllNops(RemoveUnused(Request(st, <<"dfg", "reach">>))), {"live"})

---------------------------------------------------------------------------
(* RevertToAssert *)

OnlyReverts(f, l) == Len(f.body[l]) = 1 /\ LastInst(f, l).op = "revert"
RewriteJnzUnnegated(f, p, l) ==      \* mutant: asserts the condition of the jump to the revert
  LET t == LastInst(f, p)
      asserted == Insert(f, p, Len(f.body[p]), "assert", NoOutput, <<t.args[1]>>)
  IN IF t.op # "jnz" THEN f
     ELSE Become(asserted, LastId(f, p), "jmp", <<IF t.args[2] = Lab(l) THEN t.args[3] ELSE t.args[2]>>)
RewriteJnz(f, p, l) ==
  LET t == LastInst(f, p)
      end == Len(f.body[p])
      v == FreshVar(f)
      negated == TakeVar(Insert(f, p, end, "iszero", v, <<t.args[1]>>))
      asserted == Insert(negated, p, end + 1, "assert", NoOutput, <<v>>)
  IN IF t.op # "jnz" THEN f
     ELSE IF t.args[2] = Lab(l) THEN Become(asserted, LastId(f, p), "jmp", <<t.args[3]>>)
     ELSE Become(Insert(f, p, end, "assert", NoOutput, <<t.args[1]>>), LastId(f, p), "jmp", <<t.args[2]>>)

RewriteAll(s) ==
  EditFn(s, Fold(LAMBDA g, l : Fold(LAMBDA h, p : RewriteJnz(h, p, l), g, s.cache.cfg.in[l]),
                     s.fn, SelectSeq(s.fn.order, LAMBDA l : OnlyReverts(s.fn, l))))
RevertToAssertKeepsCache(st) == RewriteAll(Request(st, <<"cfg">>))      \* mutant: leaves the analyses in the cache
RevertToAssert(st) == Invalidate(RewriteAll(Request(st, <<"cfg">>)), {"cfg", "dfg"})

---------------------------------------------------------------------------
(* BranchOptimizationPass: swaps the branches of a jnz when fewer variables*)
(* are live in the first successor.                                        *)

PreferIszero(i) == i.op = "eq" \/ (i.op = "lt" /\ \E k \in DOMAIN i.args : IsLit(i.args[k]))
Swapped(cond, args) == <<cond, args[3], args[2]>>
OptimizeBranch(st, l) ==
  LET id == LastId(st.fn, l)
      t == st.fn.inst[id]
      out == st.cache.cfg.out[l]
      First(b) == st.fn.body[b][1]
      Cost(b) == Len(st.cache.live.at[First(b)])
      prev == st.fn.inst[st.cache.dfg.def[t.args[1]]]
      negated == AddBefore(st, id, "iszero", <<t.args[1]>>)
  IN IF t.op # "jnz" THEN st
     ELSE IF \E b \in Range(out) : First(b) \notin DOMAIN st.cache.live.at THEN Fail(st, "no liveness")
     ELSE IF Cost(out[1]) >= Cost(out[2]) /\ prev.op = "iszero"
     THEN Update(st, id, "jnz", Swapped(prev.args[1], t.args))
     ELSE IF Cost(out[1]) > Cost(out[2]) \/ (Cost(out[1]) >= Cost(out[2]) /\ PreferIszero(prev))
     THEN Update(negated, id, "jnz", Swapped(FreshVar(st.fn), t.args))
     ELSE st

OptimizeAll(s) ==
  Fold(LAMBDA t, l : IF t.fault = NoFault THEN OptimizeBranch(t, l) ELSE t, s, s.fn.order)
BranchOptimization(st) ==
  Invalidate(OptimizeAll(Request(st, <<"live", "cfg", "dfg">>)), {"live", "cfg"})

---------------------------------------------------------------------------
(* SingleUseExpansion: operands become copies that are used once. *)

Occurrences(args, o) == Cardinality({k \in DOMAIN args : args[k] = o})
UsedByFew(dfg, i, o) == IsVar(o) /\ Cardinality(Uses(dfg, o)) <= 2 /\ Occurrences(i.args, o) = 1      \* mutant: off by one
UsedOnce(dfg, i, o) == IsVar(o) /\ Cardinality(Uses(dfg, o)) = 1 /\ Occurrences(i.args, o) = 1
CountsTopics(i, k) == i.op = "log" /\ k = 1
ExpandOperand(dfg, f, id, k, args) ==
  LET copied == Insert(f, f.inst[id].bb, PositionOf(f, id), "assign", FreshVar(f), <<args[k]>>)
  IN IF CountsTopics(f.inst[id], k) \/ IsLabel(args[k]) \/ UsedOnce(dfg, f.inst[id], args[k]) THEN f
     ELSE TakeVar([copied EXCEPT !.inst[id].args[k] = FreshVar(f)])
ExpandInst(dfg, f, id) ==
  IF f.inst[id].op \in {"assign", "phi", "offset", "param"} THEN f
  ELSE LET args == f.inst[id].args
       IN Fold(LAMBDA g, k : ExpandOperand(dfg, g, id, k, args), f, [k \in DOMAIN args |-> k])

ExpandAll(s) == EditFn(s, Fold(LAMBDA f, id : ExpandInst(s.cache.dfg, f, id), s.fn, AllIds(s.fn)))
SingleUseExpansion(st) == Invalidate(ExpandAll(Request(st, <<"dfg">>)), {"dfg", "live"})

---------------------------------------------------------------------------
(* CFGNormalization: an edge from a block that branches to a block that    *)
(* joins gets a block of its own.                                          *)

SplitLabel(p, l) == p \o "_split_" \o l
NeedsForwarding(f, v, p) ==
  \A id \in Range(f.body[p]) : f.inst[id].out = v => f.inst[id].op = "phi"
Forwarded(f, p, l) ==     \* variables the phis of l take from p that need a copy
  SelectSeq(Unique(FlattenSeq([k \in DOMAIN f.body[l] |->
              IF f.body[l][k] \in PhiIds(f, l)
              THEN SelectSeq(<<PhiValue(f.inst[f.body[l][k]], p)>>, IsVar) ELSE <<>>])),
            LAMBDA v : NeedsForwarding(f, v, p))

SplitEdge(f, p, l) ==
  LET split == SplitLabel(p, l)
      vars == Forwarded(f, p, l)
      opened == AppendBlock([f EXCEPT !.inst[LastId(f, p)].args = Replace(@, Lab(l), Lab(split))], split)
      copied == Fold(LAMBDA g, v : TakeVar(Insert(g, split, Len(g.body[split]) + 1, "assign", FreshVar(g), <<v>>)),
                         opened, vars)
      closed == Insert(copied, split, Len(vars) + 1, "jmp", NoOutput, <<Lab(l)>>)
      Copy(v) == IF Contains(vars, v) THEN <<"var", "%", f.last + IndexIn(vars, v)>> ELSE v
      Edges(args) == [k \in DOMAIN args |->
                        IF args[k] = Lab(p) THEN Lab(split)
                        ELSE IF k > 1 /\ args[k - 1] = Lab(p) THEN Copy(args[k]) ELSE args[k]]
  IN Rewrite(closed, PhiIds(f, l), LAMBDA i : [i EXCEPT !.args = Edges(@)])

BranchingPreds(cfg, l) == SelectSeq(cfg.in[l], LAMBDA p : Len(cfg.out[p]) > 1)
CriticalJoins(f, cfg) == SelectSeq(f.order, LAMBDA l : Len(cfg.in[l]) > 1 /\ BranchingPreds(cfg, l) # <<>>)
SplitAll(f, cfg) ==
  Fold(LAMBDA g, l : SplitEdge(g, BranchingPreds(cfg, l)[1], l), f, CriticalJoins(f, cfg))

RECURSIVE NormalizeRounds(_, _), NormalizeRound(_, _)
NormalizeRound(s, n) ==
  IF CriticalJoins(s.fn, s.cache.cfg) = <<>> THEN s
  ELSE NormalizeRounds(Invalidate(EditFn(s, SplitAll(s.fn, s.cache.cfg)), {"cfg"}), n - 1)
NormalizeRounds(st, n) ==
  IF n = 0 THEN Fail(st, "normalization did not converge") ELSE NormalizeRound(Request(st, <<"cfg">>), n)
CFGNormalization(st) == NormalizeRounds(st, 2 * Len(st.fn.order))

---------------------------------------------------------------------------
(* Effects.  Nothing here asks for the size of memory, so MSIZE is left    *)
(* out; AvailableExpressionAnalysis ignores it then, too.                  *)

AllEffects == {"STORAGE", "TRANSIENT", "MEMORY", "IMMUTABLES", "RETURNDATA", "LOG", "BALANCE", "EXTCODE"}
Creations == {"create", "create2"}
Calls == {"call", "delegatecall"}
CopiesToMemory == {"dloadbytes", "dload", "returndatacopy", "calldatacopy", "codecopy", "extcodecopy", "mcopy"}

Writes(op) ==
  CASE op = "sstore" -> {"STORAGE"}
    [] op = "tstore" -> {"TRANSIENT"}
    [] op \in {"mstore"} \union CopiesToMemory -> {"MEMORY"}
    [] op = "istore" -> {"IMMUTABLES"}
    [] op \in Calls -> AllEffects \ {"IMMUTABLES"}
    [] op = "staticcall" -> {"MEMORY", "RETURNDATA"}
    [] op \in Creations -> AllEffects \ {"MEMORY", "IMMUTABLES"}
    [] op = "invoke" -> AllEffects
    [] op = "log" -> {"LOG"}
    [] OTHER -> {}
Reads(op) ==
  CASE op = "sload" -> {"STORAGE"}
    [] op = "tload" -> {"TRANSIENT"}
    [] op = "iload" -> {"IMMUTABLES"}
    [] op \in {"mload", "mcopy", "log", "revert", "sha3", "sha3_64", "return"} -> {"MEMORY"}
    [] op \in Calls \union Creations \union {"staticcall", "invoke"} -> AllEffects
    [] op \in {"returndatasize", "returndatacopy"} -> {"RETURNDATA"}
    [] op \in {"balance", "selfbalance", "selfdestruct"} -> {"BALANCE"}
    [] op \in {"extcodecopy", "extcodesize", "extcodehash"} -> {"EXTCODE"}
    [] OTHER -> {}

---------------------------------------------------------------------------
(* AlgebraicOptimizationPass *)

Flippable(i) == i.op \in CommutativeOps \union Comparators
FlipComparison == [gt |-> "lt", lt |-> "gt", sgt |-> "slt", slt |-> "sgt"]
Flip(i) == [i EXCEPT !.args = Reverse(@), !.op = IF @ \in Comparators THEN FlipComparison[@] ELSE @]
FlipWhen(i, k) == IF Flippable(i) /\ IsLit(i.args[k]) /\ ~IsLit(i.args[3 - k]) THEN Flip(i) ELSE i

LitEq(o, n) == IsLit(o) /\ Wrap(o[2]) = Wrap(n)
Pseudo == {"phi", "param"}

(* What a rule makes of an instruction: <<op, args>>, or <<op, <<>>, inner,  *)
(* args>> when the operand is the result of a new instruction.             *)
NoRule == <<>>
ToAssign(o) == <<"assign", <<o>>>>
ToNested(op, inner, args) == <<op, <<>>, inner, args>>

(* a and b are the first and the second operand, b on top of the stack. *)
ShiftRule(a, b) == IF LitEq(b, 0) THEN ToAssign(a) ELSE NoRule
ExpRule(a, b) ==
  IF LitEq(a, 0) \/ LitEq(b, 1) THEN ToAssign(Lit(1))
  ELSE IF LitEq(b, 0) THEN <<"iszero", <<a>>>>
  ELSE IF LitEq(a, 1) THEN ToAssign(b)
  ELSE NoRule
SumRule(op, a, b) ==
  IF op # "add" /\ SameOperand(a, b) THEN ToAssign(Lit(0))
  ELSE IF LitEq(a, 0) THEN ToAssign(b)
  ELSE IF op = "sub" /\ LitEq(b, -1) THEN <<"not", <<a>>>>
  ELSE IF op = "xor" /\ LitEq(a, -1) THEN <<"not", <<b>>>>
  ELSE NoRule

IsPowerOfTwo(n) == \E k \in 0 .. WordBits : n = 2 ^ k
Log2(n) == CHOOSE k \in 0 .. WordBits : n = 2 ^ k
PowerRule(op, n, b) ==
  CASE op = "mod" -> <<"and", <<Lit(n - 1), b>>>>
    [] op = "div" -> <<"shr", <<b, Lit(Log2(n))>>>>
    [] op = "mul" -> <<"shl", <<b, Lit(Log2(n))>>>>
    [] OTHER -> NoRule
ProductRule(op, a, b) ==
  IF op = "and" /\ LitEq(a, -1) THEN ToAssign(b)
  ELSE IF LitEq(a, 0) \/ LitEq(b, 0) THEN ToAssign(Lit(0))
  ELSE IF op = "and" THEN NoRule
  ELSE IF op \in {"mod", "smod"} /\ LitEq(a, 1) THEN ToAssign(Lit(0))
  ELSE IF op \notin {"mod", "smod"} /\ LitEq(a, 1) THEN ToAssign(b)
  ELSE IF IsLit(a) /\ IsPowerOfTwo(a[2]) THEN PowerRule(op, a[2], b)
  ELSE NoRule

OrRule(a, b, truthy) ==
  IF LitEq(a, MaxWord) \/ LitEq(b, MaxWord) THEN ToAssign(Lit(MaxWord))
  ELSE IF truthy /\ IsLit(a) /\ a[2] # 0 THEN ToAssign(Lit(1))
  ELSE IF LitEq(a, 0) THEN ToAssign(b)
  ELSE NoRule
EqRule(a, b, prefersIszero) ==
  IF SameOperand(a, b) THEN ToAssign(Lit(1))
  ELSE IF LitEq(a, 0) THEN <<"iszero", <<b>>>>
  ELSE IF LitEq(a, -1) THEN ToNested("iszero", "not", <<b>>)
  ELSE IF prefersIszero THEN ToNested("iszero", "xor", <<a, b>>)
  ELSE NoRule

(* The bounds of a comparison x > a or x < a. *)
Greater(op) == op \in {"gt", "sgt"}
Signed(op) == op \in {"sgt", "slt"}
Lowest(op) == IF Signed(op) THEN MinSigned ELSE 0
Highest(op) == IF Signed(op) THEN MaxSigned ELSE MaxWord
AlmostAlways(op) == IF Greater(op) THEN Lowest(op) ELSE Highest(op)
Never(op) == IF Greater(op) THEN Highest(op) ELSE Lowest(op)
AlmostNever(op) == IF Greater(op) THEN Highest(op) - 1 ELSE Lowest(op) + 1
ComparisonRule(op, a, b, prefersIszero) ==
  IF SameOperand(a, b) THEN ToAssign(Lit(0))
  ELSE IF ~IsLit(a) THEN NoRule
  ELSE IF LitEq(a, Never(op)) THEN ToAssign(Lit(0))
  ELSE IF LitEq(a, AlmostNever(op)) THEN <<"eq", <<b, Lit(Never(op))>>>>
  ELSE IF prefersIszero /\ LitEq(a, AlmostAlways(op)) THEN ToNested("iszero", "eq", <<a, b>>)
  ELSE IF op = "gt" /\ LitEq(a, 0) THEN ToNested("iszero", "iszero", <<b>>)
  ELSE NoRule

TruthyOps == {"iszero", "jnz", "assert", "assert_unreachable"}
UsedOnlyBy(st, v, ops) == \A id \in Uses(st.cache.dfg, v) : st.fn.inst[id].op \in ops
PrefersIszero(st, i) == UsedOnlyBy(st, i.out, {"assert", "iszero"})
Rule(st, i, a, b) ==
  CASE i.op \in {"shl", "shr", "sar"} -> ShiftRule(a, b)
    [] i.op = "exp" -> ExpRule(a, b)
    [] i.op \in {"add", "sub", "xor"} -> SumRule(i.op, a, b)
    [] i.op \in {"mul", "and", "div", "sdiv", "mod", "smod"} -> ProductRule(i.op, a, b)
    [] i.op = "or" -> OrRule(a, b, UsedOnlyBy(st, i.out, TruthyOps))
    [] i.op = "eq" -> EqRule(a, b, PrefersIszero(st, i))
    [] i.op \in Comparators -> ComparisonRule(i.op, a, b, PrefersIszero(st, i))
    [] OTHER -> NoRule

(* A comparison with a literal whose one use negates it, or asserts it:    *)
(* x > n is not x < n + 1.                                                 *)
OnlyUse(st, v) == CHOOSE id \in Uses(st.cache.dfg, v) : TRUE
HasOneUse(st, v) == Cardinality(Uses(st.cache.dfg, v)) = 1
Negatable(st, i) ==
  /\ i.op \in Comparators /\ IsLit(i.args[1]) /\ HasOneUse(st, i.out)
  /\ LET after == st.fn.inst[OnlyUse(st, i.out)]
     IN \/ after.op = "assert"
        \/ /\ after.op = "iszero" /\ HasOneUse(st, after.out)
           /\ st.fn.inst[OnlyUse(st, after.out)].op # "assert"
Neighbour(op, n) == IF Greater(op) THEN n + 1 ELSE n - 1
SignedValue(op, n) == IF Signed(op) THEN ToSigned(Wrap(n)) ELSE Wrap(n)
NegateNext(s, id) ==
  LET after == s.fn.inst[id]
      negated == AddBefore(s, id, "iszero", <<after.args[1]>>)
  IN IF after.op = "iszero" THEN Update(s, id, "assign", after.args)
     ELSE UpdateOperands(negated, id, after.args[1], FreshVar(s.fn))
Negate(st, id) ==
  LET i == st.fn.inst[id]
      n == Neighbour(i.op, SignedValue(i.op, i.args[1][2]))
  IN NegateNext(Update(st, id, FlipComparison[i.op], <<Lit(n), i.args[2]>>), OnlyUse(st, i.out))

ApplyRule(st, id, rule) ==
  IF rule = NoRule THEN (IF Negatable(st, st.fn.inst[id]) THEN Negate(st, id) ELSE st)
  ELSE IF Len(rule) = 2 THEN Update(st, id, rule[1], rule[2])
  ELSE Update(AddBefore(st, id, rule[3], rule[4]), id, rule[1], <<FreshVar(st.fn)>>)

FlipLiteral(st, id, k) == EditFn(st, [st.fn EXCEPT !.inst[id] = FlipWhen(@, k)])
PeepholeAt(st, id, i) == ApplyRule(st, id, Rule(st, i, i.args[1], i.args[2]))
PeepholeInst(st, id) ==
  LET i == st.fn.inst[id]
      ready == FlipLiteral(st, id, 2)
  IN IF i.out = NoOutput \/ Len(i.args) # 2 \/ i.op \in Volatile \union {"assign"} \union Pseudo THEN st
     ELSE PeepholeAt(ready, id, ready.fn.inst[id])
AlgebraicPass(s) ==
  IF s.fault # NoFault THEN s ELSE Fold(LAMBDA t, id : FlipLiteral(PeepholeInst(t, id), id, 1), s, AllIds(s.fn))

(* The iszeros an operand comes from, the first to be computed first. *)
RECURSIVE IszeroChain(_, _)
IszeroChain(st, o) ==
  IF ~IsVar(o) \/ o \notin DOMAIN st.cache.dfg.def THEN <<>>
  ELSE LET id == st.cache.dfg.def[o]
       IN IF st.fn.inst[id].op # "iszero" THEN <<>> ELSE Append(IszeroChain(st, st.fn.inst[id].args[1]), id)

KeptIszeros(op, count) == IF op \in {"jnz", "assert"} THEN 1 - (count % 2) ELSE 1 + (count % 2)
ShortenUse(s, use, v, chain, op) ==
  IF op = "iszero" \/ KeptIszeros(op, Len(chain)) >= Len(chain) THEN s
  ELSE UpdateOperands(s, use, v, s.fn.inst[chain[KeptIszeros(op, Len(chain)) + 1]].args[1])
ShortenUses(st, v, chain) ==
  FoldSet(LAMBDA use, s : ShortenUse(s, use, v, chain, s.fn.inst[use].op), st, Uses(st.cache.dfg, v))
ShortenChain(st, id) ==
  LET i == st.fn.inst[id] IN
    IF i.op # "iszero" THEN st ELSE ShortenUses(st, i.out, IszeroChain(st, i.args[1]))
OptimizeIszeros(s) == IF s.fault # NoFault THEN s ELSE Fold(ShortenChain, s, AllIds(s.fn))

(* A place at a known distance from a label is known to the assembler. *)
ToOffset(i) == IF i.op = "add" /\ IsLit(i.args[1]) /\ IsLabel(i.args[2]) THEN [i EXCEPT !.op = "offset"] ELSE i
HandleOffset(s) == EditFn(s, Rewrite(s.fn, Ids(s.fn), ToOffset))
AlgebraicOptimization(st) ==
  Invalidate(AlgebraicPass(OptimizeIszeros(AlgebraicPass(HandleOffset(Request(st, <<"dfg">>))))), {"live"})

---------------------------------------------------------------------------
(* AvailableExpressionAnalysis.  An expression is an object of its own:    *)
(* two of the same opcode are the same when their operands are, and an     *)
(* operand that is an expression is the same only if it is that object.    *)
(*                                                                         *)
(* w is the work: expr are the expressions made so far, of[id] is that of  *)
(* an instruction; what is available at a place maps expressions to the    *)
(* instructions that have computed them.  avail, ins and outs hold it for  *)
(* instructions and for both ends of blocks.                               *)

NonIdempotent(op) == Writes(op) \intersect {"LOG", "BALANCE", "EXTCODE"} # {} \/ op = "staticcall"
Nothing == [e \in {} |-> <<>>]
ExprRef(e) == <<"expr", e>>
Unhandled == <<"unhandled", 0>>     \* an operand whose instruction has not been visited

RECURSIVE ExprOperand(_, _, _)
ExprOperand(st, w, o) ==
  IF ~IsVar(o) THEN o
  ELSE LET id == st.cache.dfg.def[o]
           i == st.fn.inst[id]
       IN IF i.op = "assign" THEN ExprOperand(st, w, i.args[1])
          ELSE IF i.op \in Pseudo THEN o
          ELSE IF id \in DOMAIN w.of THEN ExprRef(w.of[id])
          ELSE Unhandled

SameOperands(os, ps) == \A k \in DOMAIN os : SameOperand(os[k], ps[k])
SameExpr(w, e, d) ==
  \/ e = d
  \/ /\ w.expr[e].op = w.expr[d].op
     /\ \/ SameOperands(w.expr[e].args, w.expr[d].args)
        \/ w.expr[e].op \in CommutativeOps /\ SameOperands(Reverse(w.expr[e].args), w.expr[d].args)

KeysOf(w, avail, e) == {d \in DOMAIN avail : SameExpr(w, e, d)}
KeyOf(w, avail, e) == CHOOSE d \in KeysOf(w, avail, e) : TRUE
SameAvailable(w, x, y) ==
  /\ Cardinality(DOMAIN x) = Cardinality(DOMAIN y)
  /\ \A e \in DOMAIN x : \E d \in KeysOf(w, y, e) : x[e] = y[d]

AddAvailable(w, avail, e, id) ==
  IF KeysOf(w, avail, e) = {} THEN With(avail, e, <<id>>)
  ELSE [avail EXCEPT ![KeyOf(w, avail, e)] = Append(@, id)]
RemoveEffect(w, avail, effects) ==
  Drop(avail, {e \in DOMAIN avail : (Reads(w.expr[e].op) \union Writes(w.expr[e].op)) \intersect effects # {}})

MeetAvailable(w, x, y) ==
  LET Both(e) == SelectSeq(x[KeyOf(w, x, e)], LAMBDA id : Contains(y[e], id))
      common == {e \in DOMAIN y : KeysOf(w, x, e) # {} /\ Both(e) # <<>>}
  IN [e \in common |-> Both(e)]
AvailableIn(st, w, l) ==
  LET preds == st.cache.cfg.in[l]
      Out(p) == IF p \in DOMAIN w.outs THEN w.outs[p] ELSE Nothing
  IN IF preds = <<>> THEN Nothing
     ELSE Fold(LAMBDA x, p : MeetAvailable(w, x, Out(p)), Out(preds[1]), Tail(preds))

(* After the instruction: what it overwrites goes, what it computes comes. *)
AvailableAfter(w, avail, op, e, id) ==
  LET kept == RemoveEffect(w, avail, Writes(op))
  IN IF NonIdempotent(op) \/ Reads(op) \intersect Writes(op) # {} THEN kept ELSE AddAvailable(w, kept, e, id)
NoteExpr(w, avail, id, made) ==
  LET old == KeysOf(made, avail, Len(made.expr))
      e == IF old = {} THEN Len(made.expr) ELSE made.of[avail[CHOOSE d \in old : TRUE][1]]
  IN <<[made EXCEPT !.of = With(@, id, e), !.avail = With(@, id, avail)],
       AvailableAfter(made, avail, made.expr[e].op, e, id)>>
VisitAvailable(st, acc, id) ==
  LET i == st.fn.inst[id]
      made == [acc[1] EXCEPT !.expr = Append(@, [op |-> i.op, args |-> <<>> \o [k \in DOMAIN i.args |-> ExprOperand(st, acc[1], i.args[k])]])]
  IN IF i.op \in {"assign"} \union Pseudo \union Terminators THEN acc ELSE NoteExpr(acc[1], acc[2], id, made)

AfterBlock(w, l, avail) == [w EXCEPT !.outs = With(@, l, avail)]
RECURSIVE AvailableFrom(_, _, _)
AvailableNext(st, before, acc, l, rest) ==
  LET same == l \in DOMAIN before.outs /\ SameAvailable(acc[1], acc[2], before.outs[l])
  IN AvailableFrom(st, AfterBlock(acc[1], l, acc[2]), rest \o (IF same THEN <<>> ELSE st.cache.cfg.out[l]))
AvailableVisit(st, w, l, rest, in) ==
  IF l \in DOMAIN w.ins /\ SameAvailable(w, w.ins[l], in) THEN AvailableFrom(st, w, rest)
  ELSE AvailableNext(st, w, Fold(LAMBDA acc, id : VisitAvailable(st, acc, id), <<[w EXCEPT !.ins = With(@, l, in)], in>>,
                                     st.fn.body[l]), l, rest)
AvailableFrom(st, w, work) ==
  IF work = <<>> THEN w ELSE AvailableVisit(st, w, Head(work), Tail(work), AvailableIn(st, w, Head(work)))
AvailableExpressions(st) ==
  AvailableFrom(st, [expr |-> <<>>, of |-> Nothing, avail |-> Nothing, ins |-> Nothing, outs |-> Nothing], <<Entry(st.fn)>>)

---------------------------------------------------------------------------
(* CSE *)

NoSubstitute == {"calldatasize", "gaslimit", "address", "codesize", "assign", "phi", "param", "nop", "returndatasize", "gas",
                 "gasprice", "origin", "coinbase", "timestamp", "number", "prevrandao", "chainid", "basefee", "blobbasefee",
                 "pc", "msize", "offset"}

RECURSIVE DepthOfExpr(_, _)
DepthOfExpr(w, e) ==
  LET below == {w.expr[e].args[k] : k \in {j \in DOMAIN w.expr[e].args : w.expr[e].args[j][1] = "expr"}}
  IN 1 + Max({0} \union {DepthOfExpr(w, o[2]) : o \in below})

SourcesOf(w, id) ==
  LET keys == KeysOf(w, w.avail[id], w.of[id]) IN IF keys = {} THEN <<>> ELSE w.avail[id][CHOOSE e \in keys : TRUE]
(* A small expression is taken only from its own block. *)
UsableSources(f, w, id) ==
  IF DepthOfExpr(w, w.of[id]) > 1 THEN SourcesOf(w, id)
  ELSE SelectSeq(SourcesOf(w, id), LAMBDA j : j # id /\ f.inst[j].bb = f.inst[id].bb)
Replaceable(f, w) ==
  {id \in DOMAIN w.of \intersect Ids(f) : /\ f.inst[id].op \notin NoSubstitute /\ ~NonIdempotent(f.inst[id].op)
                                          /\ UsableSources(f, w, id) # <<>>}

ReplaceByCopy(f, id, source) ==
  IF f.inst[id].out = NoOutput THEN Become(f, id, "nop", <<>>)
  ELSE Become(f, id, "assign", <<f.inst[source].out>>)
Substitute(s, w, ids) ==
  LET f == FoldSet(LAMBDA id, g : ReplaceByCopy(g, id, UsableSources(s.fn, w, id)[1]), s.fn, ids)
  IN Request(Invalidate(EditFn(s, f), {"dfg", "live"}), <<"cfg", "dfg">>)
RECURSIVE SubstituteRounds(_)
SubstituteRound(s, w, ids) == IF ids = {} THEN s ELSE SubstituteRounds(Substitute(s, w, ids))
SubstituteFound(s, w) ==
  IF \E e \in DOMAIN w.expr : Contains(w.expr[e].args, Unhandled) THEN Fail(s, "operand source was not handled")
  ELSE SubstituteRound(s, w, Replaceable(s.fn, w))
SubstituteRounds(s) == SubstituteFound(s, AvailableExpressions(s))
CSE(st) == SubstituteRounds(Request(st, <<"cfg", "dfg">>))

---------------------------------------------------------------------------
(* ReduceLiteralsCodesize changes a literal in place; instructions that    *)
(* hold the same object change with it.                                    *)

NotThreshold == 1
ShlThreshold == 3
BytesOfLiteral(n) == CHOOSE k \in 0 .. WordBytes : n < 2 ^ (k * ByteBits) /\ \A j \in 0 .. k - 1 : n >= 2 ^ (j * ByteBits)
NotBenefit(n) == (BytesOfLiteral(n) - BytesOfLiteral(MaxWord - n) - NotThreshold) * ByteBits
TrailingZeros(n) == CHOOSE k \in 0 .. WordBits : n % 2 ^ k = 0 /\ \A j \in k + 1 .. WordBits : n % 2 ^ j # 0
ShlBenefit(n) == IF n = 0 THEN 2 - ShlThreshold * ByteBits ELSE TrailingZeros(n) + 1 - ShlThreshold * ByteBits

SetLiteral(f, o, n) ==
  Rewrite(f, Ids(f), LAMBDA i : [i EXCEPT !.args = [k \in DOMAIN @ |-> IF @[k] = o THEN <<"lit", n, o[3]>> ELSE @[k]]])
InvertLiteral(f, id, o, n) ==
  LET inverted == [f EXCEPT !.inst[id].op = "not", !.inst[id].args = <<Lit(MaxWord - n)>>]
  IN IF IsOwn(o) THEN inverted ELSE SetLiteral([f EXCEPT !.inst[id].op = "not"], o, MaxWord - n)
ShiftLiteral(f, id, n) == Become(f, id, "shl", <<Lit(n \div 2 ^ TrailingZeros(n)), Lit(TrailingZeros(n))>>)
ReduceLiteral(f, id) ==
  LET i == f.inst[id]
      o == i.args[1]
      n == Wrap(o[2])
  IN IF i.op # "assign" \/ ~IsLit(o) THEN f
     ELSE IF NotBenefit(n) <= 0 /\ ShlBenefit(n) <= 0 THEN f
     ELSE IF NotBenefit(n) >= ShlBenefit(n) THEN InvertLiteral(f, id, o, n)
     ELSE ShiftLiteral(f, id, n)
ReduceLiterals(st) == EditFn(st, Fold(ReduceLiteral, st.fn, AllIds(st.fn)))
=============================================================================
