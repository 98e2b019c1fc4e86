---------------------------- MODULE VenomAssembly ----------------------------
(***************************************************************************)
(* From a Venom context to assembly (venom/venom_to_assembly.py): every    *)
(* variable gets a place on the stack, after a last pass has put the       *)
(* instructions in the order in which that is cheap.                       *)
(*                                                                         *)
(* e is the work: the assembly so far, the model of the stack (its top is  *)
(* the last element; a depth counts from the top), the blocks visited, the *)
(* number of swaps, the number of labels made, and the fault that stopped  *)
(* it.  x is what is known of one function: the function itself, its CFG,  *)
(* its data flow graph and its liveness.                                   *)
(***************************************************************************)
EXTENDS VenomMemory, EVMAssembly

---------------------------------------------------------------------------
(* DFTPass: puts the instructions of each block in the order in which a    *)
(* stack machine needs their results, with StackOrderAnalysis, which finds *)
(* the order in which a block needs what its predecessors have computed.   *)

---------------------------------------------------------------------------
(* StackOrderAnalysis.  from maps an edge to what its end needs, the first *)
(* needed first; m is the work on one block: what it needs and the stack,  *)
(* its top last.                                                           *)

NeedOf(m, o) == IF Contains(m.needed, o) THEN m ELSE [m EXCEPT !.needed = Append(@, o)]
OnStack(m, o) == \E k \in DOMAIN m.stack : SameOperand(m.stack[k], o)
PushOn(m, o) == [m EXCEPT !.stack = Append(@, o)]
LowestOf(stack, o) == CHOOSE k \in DOMAIN stack : SameOperand(stack[k], o) /\ \A j \in 1 .. k - 1 : ~SameOperand(stack[j], o)
Transposed(s, j, k) == [s EXCEPT ![j] = s[k], ![k] = s[j]]
RaiseTo(stack, o, depth) ==      \* _swap, then _swap_to
  Transposed(Transposed(stack, LowestOf(stack, o), Len(stack)), Len(stack) - depth, Len(stack))

NeedOperand(m, o) ==
  LET needed == IF IsVar(o) /\ ~OnStack(m, o) THEN NeedOf(m, o) ELSE m
  IN IF OnStack(m, o) THEN needed ELSE PushOn(needed, o)
PutInPlace(m, ops) ==
  Fold(LAMBDA w, k : [w EXCEPT !.stack = RaiseTo(@, ops[k], Len(ops) - k)], m, [k \in DOMAIN ops |-> k])
NeedInst(m, ops) == PutInPlace(Fold(NeedOperand, m, ops), ops)
NeedAssign(m, o, liveAfter) ==
  IF ~IsVar(o) THEN PushOn(m, o)
  ELSE IF Contains(liveAfter, o) \/ ~OnStack(m, o) THEN NeedOf(PushOn(m, o), o)
  ELSE [m EXCEPT !.stack = RaiseTo(@, o, 0)]
NeedAll(m, os) == Fold(LAMBDA w, o : IF OnStack(w, o) THEN w ELSE NeedOf(w, o), m, os)

SamePrefix(s, t) == SelectSeq(s, LAMBDA x : \E n \in DOMAIN s : s[n] = x /\ n <= Len(t) /\ SubSeq(s, 1, n) = SubSeq(t, 1, n))
MergeNeeds(orders) == IF orders = <<>> THEN <<>> ELSE Fold(SamePrefix, orders[1], orders)
EdgeNeeds(from, l, k) == IF <<l, k>> \in DOMAIN from THEN from[<<l, k>>] ELSE <<>>
NeedsBeyond(st, from, l) ==
  MergeNeeds([k \in DOMAIN st.cache.cfg.out[l] |-> EdgeNeeds(from, l, st.cache.cfg.out[l][k])])

Settled(m, i) ==      \* an assertion: the operands are on top of the stack
  LET bare == [m EXCEPT !.stack = SubSeq(@, 1, Len(@) - Len(i.args))]
      right == \A k \in DOMAIN i.args : SameOperand(m.stack[Len(m.stack) - Len(i.args) + k], i.args[k])
      popped == IF right THEN bare ELSE [bare EXCEPT !.wrong = TRUE]
  IN IF i.out = NoOutput THEN popped ELSE PushOn(popped, i.out)
NeedsOfInst(st, from, m, i, after) ==
  CASE i.op = "assign" -> Settled(NeedAssign(m, i.args[1], st.cache.live.at[after]), i)
    [] i.op \in Terminators -> NeedAll(NeedAll(m, SelectSeq(i.args, IsVar)), NeedsBeyond(st, from, i.bb))
    [] OTHER -> Settled(NeedInst(m, i.args), i)
NeedsOfBlock(st, from, l) ==
  LET ids == st.fn.body[l]
  IN Fold(LAMBDA m, k : NeedsOfInst(st, from, m, st.fn.inst[ids[k]], ids[Min({k + 1, Len(ids)})]),
              [needed |-> <<>>, stack |-> <<>>, wrong |-> FALSE], [k \in DOMAIN ids |-> k])
RecordNeeds(st, from, l, m) ==
  [e \in DOMAIN from \union {<<p, l>> : p \in Range(st.cache.cfg.in[l])} |-> IF e[2] = l THEN m.needed ELSE from[e]]
AnalyzeBlock(st, acc, l) ==      \* acc: <<from, whether an assertion has failed>>
  LET m == NeedsOfBlock(st, acc[1], l) IN <<RecordNeeds(st, acc[1], l, m), acc[2] \/ m.wrong>>

---------------------------------------------------------------------------
(* Dependencies inside a block: on the data an instruction reads, in the   *)
(* order of its operands, and on the effects that must come before it.     *)

MakerOf(st, l, o) ==
  IF IsVar(o) /\ o \in DOMAIN st.cache.dfg.def /\ st.fn.inst[st.cache.dfg.def[o]].bb = l
  THEN <<st.cache.dfg.def[o]>> ELSE <<>>
MakersOf(st, l, os) == Unique(FlattenSeq([k \in DOMAIN os |-> MakerOf(st, l, os[k])]))
DataDependencies(st, l, i, order) == MakersOf(st, l, (IF i.op \in Terminators THEN order ELSE <<>>) \o i.args)

EffectOrder == <<"STORAGE", "TRANSIENT", "MEMORY", "IMMUTABLES", "RETURNDATA", "LOG", "BALANCE", "EXTCODE">>
(* w: the last write of each effect (0 is none), the reads since then, and *)
(* the effect dependencies found.                                          *)
DependOn(w, id, ids) == [w EXCEPT !.eda[id] = IncludeAll(@, ids)]
NoteWrite(w, id, e) ==
  LET before == w.reads[e] \o (IF w.last[e] = 0 THEN <<>> ELSE <<w.last[e]>>)
  IN [DependOn(w, id, before) EXCEPT !.last[e] = id, !.reads[e] = <<>>]
NoteRead(w, id, e) ==
  [DependOn(w, id, IF w.last[e] \in {0, id} THEN <<>> ELSE <<w.last[e]>>) EXCEPT !.reads[e] = Append(@, id)]
NoteEffects(w, id, op) ==
  LET InEffects(effects) == SelectSeq(EffectOrder, LAMBDA e : e \in effects)
  IN Fold(LAMBDA x, e : NoteRead(x, id, e),
              Fold(LAMBDA x, e : NoteWrite(x, id, e), w, InEffects(Writes(op))), InEffects(Reads(op)))
EffectDependencies(st, ids) ==
  Fold(LAMBDA w, id : NoteEffects(w, id, st.fn.inst[id].op),
           [last |-> [e \in AllEffects |-> 0], reads |-> [e \in AllEffects |-> <<>>], eda |-> [id \in Range(ids) |-> <<>>]],
           ids).eda

(* What is needed only for its effect comes first, what has dependencies   *)
(* of its own before the rest; then the operands in their order.           *)
Cost(g, id, i, order, x) ==
  LET out == g.out[x]
  IN IF Flippable(i) \/ ~Contains(g.dda[id], x) THEN (IF g.dda[x] = <<>> THEN 0 ELSE -1)
     ELSE IF Contains(i.args, out) THEN IndexIn(i.args, out) + Len(order) - 1 ELSE IndexIn(order, out) - 1
StableSort(s, Key(_)) ==
  Fold(LAMBDA acc, x : LET n == Len(SelectSeq(acc, LAMBDA y : Key(y) <= Key(x))) IN InsertAt(acc, n + 1, x), <<>>, s)
Children(g, id) == IncludeAll(g.dda[id], g.eda[id])
SortedChildren(g, id, i, order, children) == StableSort(children, LAMBDA x : Cost(g, id, i, order, x))

FlipSorted(acc, id, sorted, children) ==
  IF Flippable(acc.fn.inst[id]) /\ sorted # children THEN [acc EXCEPT !.fn.inst[id] = Flip(@)] ELSE acc
RECURSIVE ProcessInst(_, _, _, _)
ProcessSorted(g, order, acc, id, sorted, children) ==
  [Fold(LAMBDA a, c : ProcessInst(g, order, a, c), FlipSorted(acc, id, sorted, children), sorted) EXCEPT !.ids = Append(@, id)]
ProcessInst(g, order, acc, id) ==
  IF id \in acc.seen THEN acc
  ELSE IF acc.fn.inst[id].op \in Pseudo THEN [acc EXCEPT !.seen = @ \union {id}]
  ELSE ProcessSorted(g, order, [acc EXCEPT !.seen = @ \union {id}], id,
                     SortedChildren(g, id, acc.fn.inst[id], order, Children(g, id)), Children(g, id))

DependencyGraph(st, l, order, ids) ==
  [dda |-> [id \in Range(st.fn.body[l]) |-> IF id \in Range(ids) THEN DataDependencies(st, l, st.fn.inst[id], order) ELSE <<>>],
   eda |-> EffectDependencies(st, ids),
   out |-> [id \in Range(st.fn.body[l]) |-> st.fn.inst[id].out]]
ProcessEntries(st, l, order, g, ids) ==
  LET needed == UNION {Range(g.dda[id]) \union Range(g.eda[id]) : id \in Range(ids)}
      pseudo == SelectSeq(st.fn.body[l], LAMBDA id : st.fn.inst[id].op \in Pseudo)
      done == Fold(LAMBDA acc, id : ProcessInst(g, order, acc, id), [fn |-> st.fn, ids |-> pseudo, seen |-> {}],
                       SelectSeq(ids, LAMBDA id : id \notin needed))
  IN EditFn(st, SetBody(done.fn, l, done.ids))
ProcessOrdered(st, l, order, ids) == ProcessEntries(st, l, order, DependencyGraph(st, l, order, ids), ids)
ProcessBlock(st, l, order) ==
  ProcessOrdered(st, l, order, SelectSeq(st.fn.body[l], LAMBDA id : st.fn.inst[id].op # "phi"))

(* Blocks from the last to the first, then their predecessors again; the   *)
(* pass stops at the first block whose needs have not changed.             *)
RECURSIVE OrderBlocks(_, _, _, _)
OrderNext(st, acc, last, l, rest, order) ==
  IF acc[2] THEN Fail(st, "operands not on the stack")
  ELSE IF l \in DOMAIN last /\ last[l] = order THEN st
  ELSE OrderBlocks(ProcessBlock(st, l, Reverse(order)), acc, With(last, l, order), rest \o st.cache.cfg.in[l])
OrderBlock(st, acc, last, l, rest) == OrderNext(st, acc, last, l, rest, NeedsBeyond(st, acc[1], l))
OrderBlocks(st, acc, last, work) ==
  IF work = <<>> \/ st.fault # NoFault THEN st
  ELSE LET l == Head(work)
       IN OrderBlock(st, Fold(LAMBDA a, k : AnalyzeBlock(st, a, k), AnalyzeBlock(st, acc, l), st.cache.cfg.out[l]), last,
                     l, Tail(work))
OrderAll(s) == OrderBlocks(s, <<Nothing, FALSE>>, Nothing, s.cache.cfg.dfs)
DFT(st) == Invalidate(OrderAll(Request(Force(st, "dfg"), <<"cfg", "live">>)), {"live"})

---------------------------------------------------------------------------
(* VenomCompiler. *)

StackLimit == 16      \* SWAP16 and DUP16 reach deepest
NotInStack == -1
NewWork == [asm |-> <<>>, stack |-> <<>>, visited |-> {}, swaps |-> 0, labels |-> 0, fault |-> NoFault]
Knowledge(f, cfg) == [fn |-> f, cfg |-> cfg, dfg |-> DFG(f), live |-> Liveness(f, cfg)]

---------------------------------------------------------------------------
(* StackModel *)

Refuse(e, what) == [e EXCEPT !.fault = IF @ = NoFault THEN what ELSE @]
Emit(e, items) == [e EXCEPT !.asm = @ \o items]
PushModel(e, o) == [e EXCEPT !.stack = Append(@, o)]
PopModel(e, n) == [e EXCEPT !.stack = SubSeq(@, 1, Len(@) - n)]
Index(e, depth) == Len(e.stack) - depth
Peek(e, depth) == e.stack[Index(e, depth)]
Poke(e, depth, o) == [e EXCEPT !.stack[Index(e, depth)] = o]
DepthsOf(e, os) == {d \in 0 .. Len(e.stack) - 1 : Peek(e, d) \in os}
Depth(e, o) == IF DepthsOf(e, {o}) = {} THEN NotInStack ELSE Min(DepthsOf(e, {o}))
Exchange(e, d1, d2) == Poke(Poke(e, d1, Peek(e, d2)), d2, Peek(e, d1))

SwapAt(e, depth) ==
  IF e.fault # NoFault \/ depth = 0 THEN e
  ELSE IF depth = NotInStack THEN Refuse(e, "not in stack")
  ELSE IF depth > StackLimit THEN Refuse(e, "stack too deep")
  ELSE Emit([Exchange(e, 0, depth) EXCEPT !.swaps = @ + 1], <<Swap(depth)>>)
DupAt(e, depth) ==
  IF e.fault # NoFault THEN e
  ELSE IF depth = NotInStack THEN Refuse(e, "not in stack")
  ELSE IF depth + 1 > StackLimit THEN Refuse(e, "stack too deep")
  ELSE Emit(PushModel(e, Peek(e, depth)), <<Dup(depth + 1)>>)
PopTop(e) == IF e.fault # NoFault THEN e ELSE Emit(PopModel(e, 1), <<PopOp>>)

---------------------------------------------------------------------------
(* Reordering *)

Place(x, e, o, final) ==
  LET d == Depth(e, o) IN
    IF e.fault # NoFault \/ d = final THEN e
    ELSE IF d = NotInStack \/ final >= Len(e.stack) THEN Refuse(e, "not in stack")
    ELSE IF AreEquivalent(x.fn, x.dfg, o, Peek(e, final)) THEN Exchange(e, final, d)
    ELSE SwapAt(SwapAt(e, d), final)
StackReorder(x, e, ops) ==
  IF Cardinality(Range(ops)) # Len(ops) THEN Refuse(e, "duplicated stack")
  ELSE Fold(LAMBDA w, i : Place(x, w, ops[i], Len(ops) - i), e, [i \in DOMAIN ops |-> i])

PopMany(e, vars) ==
  IF \E v \in Range(vars) : Depth(e, v) = NotInStack THEN Refuse(e, "not in stack")
  ELSE Fold(LAMBDA w, v : PopTop(SwapAt(w, Depth(w, v))), e,
                SortSeq(vars, LAMBDA v, u : Depth(e, v) < Depth(e, u)))

(* The next instruction is likely to want the last variable that is live.  *)
OptimisticSwap(x, e, out, live, terminates) ==
  IF terminates \/ live = <<>> \/ AreEquivalent(x.fn, x.dfg, out, Last(live)) THEN e ELSE SwapAt(e, Depth(e, Last(live)))

---------------------------------------------------------------------------
(* Instructions.  live are the variables live after the instruction.       *)

EmitOperand(i, live, e, o) ==
  CASE IsLabel(o) -> PushModel(IF i.op = "invoke" THEN e ELSE Emit(e, <<PushLabel(o[2])>>), o)
    [] IsLit(o) -> PushModel(Emit(e, <<Push(Wrap(o[2]))>>), o)
    [] OTHER -> IF Contains(live, o) THEN DupAt(e, Depth(e, o)) ELSE e
EmitInputOperands(i, live, e, ops) ==
  LET vars == SelectSeq(ops, IsVar) IN
    IF Cardinality(Range(vars)) # Len(vars) THEN Refuse(e, "operand is used twice")
    ELSE Fold(LAMBDA w, o : EmitOperand(i, live, w, o), e, ops)

StackOperands(i) ==
  CASE i.op \in {"jmp", "djmp", "jnz", "invoke"} -> SelectSeq(i.args, LAMBDA o : ~IsLabel(o))
    [] i.op \in StackMemory -> <<i.args[1]>>
    [] i.op = "log" -> Tail(i.args)
    [] OTHER -> i.args

KeepOrder(x, e, i) == e      \* mutant: every predecessor leaves its own order
ReorderForJoin(x, e, i) ==
  LET next == x.cfg.out[i.bb][1] IN
    IF i.op # "jmp" THEN e
    ELSE IF Len(x.cfg.in[next]) < 2 THEN Refuse(e, "jump to no join")
    ELSE StackReorder(x, e, InputVarsFrom(x.fn, x.live.at, i.bb, next))

SwapLastTwo(ops) == SubSeq(ops, 1, Len(ops) - 2) \o <<ops[Len(ops)], ops[Len(ops) - 1]>>
Cheaper(x, e, ops, other) == IF StackReorder(x, e, other).swaps > StackReorder(x, e, ops).swaps THEN ops ELSE other
Ordered(x, e, i, ops) == IF i.op \in CommutativeOps THEN Cheaper(x, e, ops, SwapLastTwo(ops)) ELSE ops

NewLabel(e, name) == name \o "_" \o ToString(e.labels + 1)      \* mklabel
MakesLabel == {"assert_unreachable", "invoke"}
CallOf(l, return) == <<PushLabel(return), PushLabel(l), Op("jump"), ALabel(return)>>
Opcodes(i, e) ==
  CASE i.op = "jnz" -> <<PushLabel(i.args[2][2]), Op("jumpi"), PushLabel(i.args[3][2]), Op("jump")>>
    [] i.op = "jmp" -> <<PushLabel(i.args[1][2]), Op("jump")>>
    [] i.op = "assert" -> <<Op("iszero"), PushLabel("revert"), Op("jumpi")>>
    [] i.op = "assert_unreachable" ->
         <<PushLabel(NewLabel(e, "reachable")), Op("jumpi"), Op("invalid"), ALabel(NewLabel(e, "reachable"))>>
    [] i.op = "invoke" -> CallOf(i.args[1][2], NewLabel(e, "return_label"))
    [] i.op = "ret" -> <<Op("jump")>>
    [] i.op = "log" -> <<<<"log", i.args[1][2]>>>>
    [] i.op = "sha3_64" -> <<Push(Scratch), Op("mstore"), Push(Scratch + WordBytes), Op("mstore"), Push(2 * WordBytes), Push(Scratch), Op("sha3")>>
    [] i.op \in {"assign", "nop", "param"} \union StackMemory -> <<>>
    [] OTHER -> <<Op(i.op)>>

SettleResult(x, e, i, live, terminates) ==
  IF i.out = NoOutput THEN e
  ELSE IF ~Contains(live, i.out) THEN PopTop(e) ELSE OptimisticSwap(x, e, i.out, live, terminates)

(* The operands are in place: they go, the result comes. *)
FinishInst(x, e, i, n, live, terminates) ==
  LET popped == PopModel(e, n)
      pushed == IF i.out = NoOutput THEN popped ELSE PushModel(popped, i.out)
      made == IF i.op \in MakesLabel THEN [pushed EXCEPT !.labels = @ + 1] ELSE pushed
  IN IF e.fault # NoFault THEN e ELSE SettleResult(x, Emit(made, Opcodes(i, e)), i, live, terminates)

WithOperands(x, e, i, ops, live, terminates) ==
  FinishInst(x, StackReorder(x, e, Ordered(x, e, i, ops)), i, Len(ops), live, terminates)

(* One of the operands of a phi is on the stack; it becomes the result. *)
GeneratePhi(e, i, live) ==
  LET depths == DepthsOf(e, Inputs(i))
      d == Min(depths)
  IN IF Cardinality(depths) # 1 THEN Refuse(e, "phi argument is not unique")
     ELSE IF Contains(live, Peek(e, d)) THEN Poke(DupAt(e, d), 0, i.out) ELSE Poke(e, d, i.out)

GenerateInst(x, e, i, live, terminates) ==
  IF e.fault # NoFault THEN e
  ELSE IF i.op = "phi" THEN GeneratePhi(e, i, live)
  ELSE IF i.op = "offset" THEN PushModel(Emit(e, <<PushOffset(i.args[2][2], i.args[1][2])>>), i.out)
  ELSE WithOperands(x, ReorderForJoin(x, EmitInputOperands(i, live, e, StackOperands(i)), i), i, StackOperands(i),
                    live, terminates)

---------------------------------------------------------------------------
(* Blocks: each once, from the first block that leads to it. *)

Generated(x, e, l) ==
  LET ids == SelectSeq(x.fn.body[l], LAMBDA id : x.fn.inst[id].op # "param")
      After(k) == IF k < Len(ids) THEN x.live.at[ids[k + 1]] ELSE x.live.out[l]
      EndsNext(k) == k < Len(ids) /\ x.fn.inst[ids[k + 1]].op \in Terminators
  IN Fold(LAMBDA w, k : GenerateInst(x, w, x.fn.inst[ids[k]], After(k), EndsNext(k)), e, [k \in DOMAIN ids |-> k])

(* What the branch before the block has kept for its other successor only. *)
CleanStack(x, e, l) ==
  LET p == x.cfg.in[l][1]
      inputs == InputVarsFrom(x.fn, x.live.at, p, l)
  IN IF Len(x.cfg.in[l]) # 1 THEN e
     ELSE PopMany(e, SelectSeq(x.live.out[p], LAMBDA v : ~Contains(inputs, v)))

(* _prepare_stack_for_function: the caller has left the arguments.          *)
ParamsOf(f) == SelectSeq(f.body[Entry(f)], LAMBDA id : f.inst[id].op = "param")
TakeParams(x, e, vars, live, terminates) ==
  OptimisticSwap(x, PopMany([e EXCEPT !.stack = @ \o vars], SelectSeq(vars, LAMBDA v : ~Contains(live, v))),
                 Last(vars), live, terminates)
PrepareStack(x, e, l) ==
  LET params == ParamsOf(x.fn)
      first == x.fn.body[l][Len(params) + 1]
  IN IF l # Entry(x.fn) \/ params = <<>> THEN e
     ELSE TakeParams(x, e, [k \in DOMAIN params |-> x.fn.inst[params[k]].out], x.live.at[first],
                     x.fn.inst[first].op \in Terminators)

RECURSIVE GenerateBlock(_, _, _, _)
GenerateSuccessors(x, e, l, stack) == Fold(LAMBDA w, k : GenerateBlock(x, w, k, stack), e, x.cfg.out[l])
EnterBlock(x, e, l, stack) ==
  CleanStack(x, PrepareStack(x, Emit([e EXCEPT !.visited = @ \union {l}, !.stack = stack], <<ALabel(l)>>), l), l)
ThenSuccessors(x, e, l) == GenerateSuccessors(x, e, l, e.stack)
GenerateBlock(x, e, l, stack) ==
  IF l \in e.visited \/ e.fault # NoFault THEN e
  ELSE ThenSuccessors(x, Generated(x, EnterBlock(x, e, l, stack), l), l)

GenerateFunction(e, f, cfg) ==
  IF ~IsNormalized(f, cfg) THEN Refuse(e, "CFG is not normalized")
  ELSE GenerateBlock(Knowledge(f, cfg), e, Entry(f), <<>>)
GenerateAssembly(c) == Emit(Fold(LAMBDA e, f : GenerateFunction(e, f, CFG(f)), NewWork, c), RevertPostamble)
=============================================================================
