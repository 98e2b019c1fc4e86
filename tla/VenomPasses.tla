----------------------------- MODULE VenomPasses -----------------------------
(***************************************************************************)
(* Passes over one Venom function (venom/passes/), and the one over all    *)
(* functions that precedes them.                                           *)
(*                                                                         *)
(* A pass maps a compilation st to another one.  st.fn is the function,    *)
(* st.cache the analyses cached for it, st.fault how the compiler stopped  *)
(* if it did, and st.bypassed a note for the properties: whether the       *)
(* simplification of the CFG has cut a block out of an edge that ends at a *)
(* phi.                                                                    *)
(***************************************************************************)
EXTENDS VenomAnalyses

NoFault == "none"
Fail(st, why) == [st EXCEPT !.fault = why]

(* Any name that a later step of a pass gives to a function is a new one.  *)
EditFn(st, f) == [st EXCEPT !.fn = f]

---------------------------------------------------------------------------
(* InstUpdater: changes an instruction and the data flow graph with it. *)

SetUses(dfg, id, old, new) ==
  [dfg EXCEPT !.use = [v \in DOMAIN @ \union new |->
     IF v \in new THEN Uses(dfg, v) \union {id}
     ELSE IF v \in old THEN @[v] \ {id} ELSE @[v]]]
Forget(dfg, v) == [dfg EXCEPT !.vars = Remove(@, v), !.def = [w \in DOMAIN @ \ {v} |-> @[w]]]
Produce(dfg, v, id) ==
  [dfg EXCEPT !.vars = IF Contains(@, v) THEN @ ELSE Append(@, v),
              !.def = [w \in DOMAIN @ \union {v} |-> IF w = v THEN id ELSE @[w]]]

UpdateTo(st, id, op, args, out) ==
  LET old == st.fn.inst[id]
      new == [old EXCEPT !.op = op, !.args = args, !.out = out]
      used == SetUses(st.cache.dfg, id, Inputs(old), Inputs(new))
      forgotten == IF old.out # NoOutput /\ old.out # out THEN Forget(used, old.out) ELSE used
      dfg == IF out # NoOutput /\ old.out # out THEN Produce(forgotten, out, id) ELSE forgotten
  IN [st EXCEPT !.fn.inst[id] = new, !.cache = With(@, "dfg", dfg)]

Update(st, id, op, args) ==
  IF op \in NoOutputOps THEN UpdateTo(st, id, op, args, NoOutput)
  ELSE UpdateTo(st, id, op, args, st.fn.inst[id].out)
Replace(args, x, y) == [k \in DOMAIN args |-> IF args[k] = x THEN y ELSE args[k]]
UpdateOperands(st, id, x, y) == Update(st, id, st.fn.inst[id].op, Replace(st.fn.inst[id].args, x, y))

(* add_before, for an instruction with an output *)
AddBefore(st, id, op, args) ==
  LET f == TakeVar(Insert(st.fn, st.fn.inst[id].bb, PositionOf(st.fn, id), op, FreshVar(st.fn), args))
      new == Len(f.inst)
      used == SetUses(st.cache.dfg, new, {}, Inputs(f.inst[new]))
  IN [st EXCEPT !.fn = f, !.cache = With(@, "dfg", Produce(used, f.inst[new].out, new))]

(* add_before, for an instruction without *)
InsertBefore(st, id, op, args) ==
  LET f == Insert(st.fn, st.fn.inst[id].bb, PositionOf(st.fn, id), op, NoOutput, args)
  IN [st EXCEPT !.fn = f, !.cache = With(@, "dfg", SetUses(@.dfg, Len(f.inst), {}, Inputs(f.inst[Len(f.inst)])))]

---------------------------------------------------------------------------
(* FloatAllocas *)

FloatAllocas(st) == EditFn(st, AllocasFloated(st.fn))

---------------------------------------------------------------------------
(* SimplifyCFGPass *)

PhisFirst(f, ids) == SelectSeq(ids, LAMBDA id : f.inst[id].op = "phi")
                     \o SelectSeq(ids, LAMBDA id : f.inst[id].op # "phi")
KeepEdges(args, labels) ==
  FlattenSeq([k \in 1 .. Len(args) \div 2 |->
     IF args[2 * k - 1][2] \in labels THEN <<args[2 * k - 1], args[2 * k]>> ELSE <<>>])

(* fix_phi_instructions *)
FixPhiKeepsSingle(f, id, labels) ==    \* mutant: a phi of one operand stays a phi
  LET args == KeepEdges(f.inst[id].args, labels) IN
    IF f.inst[id].op # "phi" THEN f
    ELSE IF args = <<>> THEN MakeNop(f, id)
    ELSE [f EXCEPT !.inst[id].args = args]
FixPhi(f, id, labels) ==
  LET args == KeepEdges(f.inst[id].args, labels) IN
    IF f.inst[id].op # "phi" THEN f
    ELSE IF Len(args) = 2 THEN Become(f, id, "assign", <<args[2]>>)
    ELSE IF args = <<>> THEN MakeNop(f, id)
    ELSE [f EXCEPT !.inst[id].args = args]
FixPhis(f, l, labels) ==
  LET g == Fold(LAMBDA h, id : FixPhi(h, id, labels), f, f.body[l])
      cut == \E id \in Range(f.body[l]) : /\ f.inst[id].op = "phi"
                                          /\ KeepEdges(f.inst[id].args, labels) # f.inst[id].args
  IN IF cut THEN SetBody(g, l, PhisFirst(g, g.body[l])) ELSE g

Unreachable(st) == Labels(st.fn) \ st.cache.cfg.reachable

(* remove_unreachable_blocks *)
RemoveUnreachable(st) ==
  LET gone == Unreachable(st)
      f == RemoveBlocks(st.fn, gone)
      in == [l \in Labels(f) |-> SelectSeq(st.cache.cfg.in[l], LAMBDA p : p \notin gone)]
      out == [l \in Labels(f) |-> st.cache.cfg.out[l]]
  IN [st EXCEPT !.fn = Fold(LAMBDA g, l : FixPhis(g, l, Range(in[l])), f, f.order),
                !.cache = With(@, "cfg", [@.cfg EXCEPT !.in = in, !.out = out])]

Without(s, x) == SelectSeq(s, LAMBDA y : y # x)
Including(s, x) == IF Contains(s, x) THEN s ELSE Append(s, x)
Relabel(args, b, a) ==            \* the first occurrence of label b becomes a
  IF Contains(args, Lab(b)) THEN [args EXCEPT ![IndexIn(args, Lab(b))] = Lab(a)] ELSE args

(* c is the work on a function: its blocks f, the CFG, label_map and visited. *)
MergeBlocks(c, a, b) ==
  LET f == c.f
      moved == Range(f.body[b])
      next == c.cfg.out[b]
      phis == UNION {PhiIds(f, n) : n \in Range(next)}
      g == Rewrite(Rewrite(f, moved, LAMBDA i : [i EXCEPT !.bb = a]), phis, LAMBDA i : [i EXCEPT !.args = Relabel(@, b, a)])
  IN IF PhiIds(f, b) # {} THEN [c EXCEPT !.fault = "phi in merged block"]
     ELSE [c EXCEPT
       !.f = RemoveBlocks([g EXCEPT !.body[a] = Front(@) \o f.body[b]], {b}),
       !.cfg.out[a] = next,
       !.cfg.in = [l \in DOMAIN @ |-> IF Contains(next, l) THEN Including(Without(@[l], b), a) ELSE @[l]]]

(* Block b holds nothing but a jump: a jumps to where b jumps, and every     *)
(* mention of b is going to be replaced.                                     *)
MergeJump(c, a, b) ==
  LET f == c.f
      next == c.cfg.out[b][1]
      g == [f EXCEPT !.inst[LastId(f, a)].args = Relabel(@, b, next)]
  IN [c EXCEPT
       !.f = RemoveBlocks(g, {b}),
       !.label_map = With(@, b, next),
       !.bypassed = @ \/ PhiIds(f, next) # {},
       !.cfg.out[a] = Including(Without(@, b), next),
       !.cfg.in[next] = Including(Without(@, b), a)]

OnlyJumps(c, l) == Len(c.cfg.in[l]) = 1 /\ Len(c.cfg.out[l]) = 1 /\ Len(c.f.body[l]) = 1

RECURSIVE Collapse(_, _)
Collapse(c, l) ==
  LET out == c.cfg.out[l]
      jumps == SelectSeq(out, LAMBDA b : OnlyJumps(c, b))
  IN IF c.fault # NoFault THEN c
     ELSE IF Len(out) = 1 /\ Len(c.cfg.in[out[1]]) = 1
     THEN Collapse(MergeBlocks(c, l, out[1]), l)
     ELSE IF Len(out) = 2 /\ jumps # <<>>
     THEN Collapse(MergeJump(c, l, jumps[1]), l)
     ELSE IF l \in c.visited THEN c
     ELSE Fold(Collapse, [c EXCEPT !.visited = @ \union {l}], out)

ReplaceLabels(f, map) ==
  LET New(o) == IF IsLabel(o) /\ o[2] \in DOMAIN map THEN Lab(map[o[2]]) ELSE o
  IN Rewrite(f, Ids(f), LAMBDA i : [i EXCEPT !.args = [k \in DOMAIN @ |-> New(@[k])]])

(* One round of the loop of run_pass. *)
Work(st) == [f |-> st.fn, cfg |-> st.cache.cfg, label_map |-> [l \in {} |-> ""],
             visited |-> {}, bypassed |-> st.bypassed, fault |-> st.fault]
AfterCollapse(st, c) ==
  IF c.fault # NoFault THEN Fail(st, c.fault)
  ELSE Force([st EXCEPT !.fn = ReplaceLabels(c.f, c.label_map), !.bypassed = c.bypassed], "cfg")
CollapseRound(st) == AfterCollapse(st, Collapse(Work(st), Entry(st.fn)))

RECURSIVE CollapseRounds(_, _), AfterRound(_, _)
AfterRound(t, n) ==
  IF t.fault # NoFault THEN t
  ELSE IF Unreachable(t) = {} THEN RemoveUnreachable(t)
  ELSE CollapseRounds(RemoveUnreachable(t), n - 1)
CollapseRounds(st, n) ==
  IF n = 0 THEN Fail(st, "too many iterations") ELSE AfterRound(CollapseRound(st), n)

DropUnreachable(s) == IF Unreachable(s) # {} THEN Force(RemoveUnreachable(s), "cfg") ELSE RemoveUnreachable(s)
CollapseAll(s) == CollapseRounds(s, Len(s.fn.order))
SimplifyCFG(st) == Invalidate(CollapseAll(DropUnreachable(Request(st, <<"cfg">>))), {"cfg", "dfg"})
---------------------------------------------------------------------------
(***************************************************************************)
(* FunctionInlinerPass: over a whole context c, before the others.  A call *)
(* site is <<the caller's name, the id of the call>>.                      *)
(***************************************************************************)

(* FCGAnalysis *)
CallsIn(f) == SelectSeq(AllIds(f), LAMBDA id : f.inst[id].op = "invoke")
CalleeOf(f, id) == f.inst[id].args[1][2]
SitesIn(f, name) ==
  LET calls == SelectSeq(CallsIn(f), LAMBDA id : CalleeOf(f, id) = name)
  IN [k \in DOMAIN calls |-> <<Entry(f), calls[k]>>]
CallSites(c, name) == FlattenSeq([j \in DOMAIN c |-> SitesIn(c[j], name)])
CalleesIn(f) == Unique([k \in DOMAIN CallsIn(f) |-> CalleeOf(f, CallsIn(f)[k])])
RECURSIVE CallWalk(_, _, _)
CallWalk(c, walk, name) ==
  IF Contains(walk, name) THEN walk
  ELSE Append(Fold(LAMBDA w, g : CallWalk(c, w, g), walk, CalleesIn(c[FunctionAt(c, name)])), name)

(* code_size_cost *)
CostOfInst(op) == IF op \in {"ret", "param"} THEN 0 ELSE IF op \in {"assign"} \union StackMemory THEN 1 ELSE 2
CostOfFunction(f) == Fold(LAMBDA n, id : n + CostOfInst(f.inst[id].op), 0, AllIds(f))
SmallEnough == 15
InlineCandidate(c, size, name) ==
  LET n == Len(CallSites(c, name))
  IN n = 1 \/ (n > 1 /\ ~size /\ CostOfFunction(c[FunctionAt(c, name)]) <= SmallEnough)

(* _clone_function: labels and variables of a copy get a prefix; ids are    *)
(* moved by shift.                                                         *)
Prefixed(f, prefix, o) ==
  CASE IsLabel(o) -> IF o[2] \in Labels(f) THEN Lab(prefix \o o[2]) ELSE o
    [] IsVar(o) -> <<"var", prefix \o o[2]>> \o SubSeq(o, 3, Len(o))
    [] OTHER -> o
CloneInst(f, prefix, i) ==
  [op |-> i.op, out |-> Prefixed(f, prefix, i.out), args |-> [k \in DOMAIN i.args |-> Prefixed(f, prefix, i.args[k])],
   bb |-> prefix \o i.bb]

(* _inline_call_site: a param is what the call brings, the label of the     *)
(* callee standing for the program counter, and a return is a jump.         *)
Brought(site) == Tail(site.args) \o <<site.args[1]>>
ParamNumber(f, id) == Cardinality({k \in 1 .. PositionOf(f, id) : f.inst[f.body[f.inst[id].bb][k]].op = "param"})
InlinedInst(f, prefix, site, back, id, i) ==
  CASE f.inst[id].op = "param" -> [i EXCEPT !.op = "assign", !.args = <<Brought(site)[ParamNumber(f, id)]>>]
    [] i.op = "ret" -> [i EXCEPT !.op = "jmp", !.args = <<Lab(back)>>]
    [] OTHER -> i
ReturnsValue(f, l) == LastInst(f, l).op = "ret" /\ Len(LastInst(f, l).args) > 1
AssignResult(g, f, prefix, site, l) ==
  LET at == prefix \o l
  IN IF ~ReturnsValue(f, l) THEN g
     ELSE Insert(g, at, Len(g.body[at]), "assign", site.out, <<Prefixed(f, prefix, LastInst(f, l).args[1])>>)

RelabelPhis(g, l, back) ==      \* _fix_phi
  LET phis == UNION {PhiIds(g, k) : k \in Range(Targets(g, back))}
  IN Rewrite(g, phis, LAMBDA i : [i EXCEPT !.args = [k \in DOMAIN @ |-> IF @[k] = Lab(l) THEN Lab(back) ELSE @[k]]])
Spliced(g, f, prefix, id, site, back, at, shift) ==
  LET l == site.bb
      rest == SubSeq(g.body[l], at + 1, Len(g.body[l]))
      CopyOf(j) == InlinedInst(f, prefix, site, back, j, CloneInst(f, prefix, f.inst[j]))
      clones == [k \in DOMAIN f.order |-> prefix \o f.order[k]]
      inst == [k \in 1 .. shift + Len(f.inst) |->
                 IF k > shift THEN (IF k - shift \in Ids(f) THEN CopyOf(k - shift) ELSE f.inst[k - shift])
                 ELSE IF k = id THEN Instr("jmp", NoOutput, <<Lab(prefix \o Entry(f))>>, l)
                 ELSE IF Contains(rest, k) THEN [g.inst[k] EXCEPT !.bb = back] ELSE g.inst[k]]
      body == [b \in Labels(g) \union {back} \union Range(clones) |->
                 IF b = l THEN SubSeq(g.body[l], 1, at)
                 ELSE IF b = back THEN rest
                 ELSE IF b \in Labels(g) THEN g.body[b]
                 ELSE LET from == f.body[f.order[IndexIn(clones, b)]] IN [k \in DOMAIN from |-> shift + from[k]]]
  IN [g EXCEPT !.order = @ \o <<back>> \o clones, !.inst = <<>> \o inst, !.body = body]
InlineInto(g, f, prefix, id, back) ==
  LET site == g.inst[id]
      spliced == Spliced(g, f, prefix, id, site, back, PositionOf(g, id), Len(g.inst))
  IN RelabelPhis(Fold(LAMBDA h, l : AssignResult(h, f, prefix, site, l), spliced, f.order), site.bb, back)
InlineSite(w, name, site) ==
  LET prefix == "inl" \o ToString(w.count) \o "_"
      callee == AllocasFloated(w.c[FunctionAt(w.c, name)])
  IN [w EXCEPT !.count = @ + 1,
               !.c[FunctionAt(w.c, site[1])] = InlineInto(@, callee, prefix, site[2], prefix \o "inline_return")]

(* An allocation of one place in the frame is the first one's; so is the    *)
(* memory of an argument, for which the caller has allocated it.            *)
MatchAllocation(w, id) ==
  LET i == w.f.inst[id]
      slot == i.args[3][2]
      same == [w EXCEPT !.f = Become(@, id, "assign", <<w.first[slot]>>)]
  IN IF i.op \notin StackMemory THEN w
     ELSE IF slot \in DOMAIN w.first THEN same
     ELSE IF i.op = "palloca" THEN w ELSE [w EXCEPT !.first = With(@, slot, i.out)]
MatchAllocations(f) == Fold(MatchAllocation, [f |-> f, first |-> <<>>], AllIds(f)).f

InlineFunction(w, name, sites) ==
  LET inlined == Fold(LAMBDA x, site : InlineSite(x, name, site), w, sites)
      callers == {site[1] : site \in Range(sites)}
      matched == [j \in DOMAIN w.c |-> IF Entry(inlined.c[j]) \in callers THEN MatchAllocations(inlined.c[j]) ELSE inlined.c[j]]
  IN [inlined EXCEPT !.c = SelectSeq(matched, LAMBDA f : Entry(f) # name), !.walk = Remove(@, name)]
RECURSIVE InlineRounds(_, _, _)
InlineFirst(w, size, n, candidates) ==
  IF n = 0 \/ candidates = <<>> THEN w.c
  ELSE InlineRounds(InlineFunction(w, candidates[1], CallSites(w.c, candidates[1])), size, n - 1)
InlineRounds(w, size, n) ==
  InlineFirst(w, size, n, SelectSeq(w.walk, LAMBDA name : InlineCandidate(w.c, size, name)))
FunctionInliner(c, size) ==
  InlineRounds([c |-> c, walk |-> CallWalk(c, <<>>, Entry(c[1])), count |-> 0], size, Len(c))

---------------------------------------------------------------------------
(* The passes that make, use and simplify static single assignment form:   *)
(* MakeSSA, PhiEliminationPass, AssignElimination and Mem2Var.             *)

---------------------------------------------------------------------------
(* MakeSSA.  A phi is placed for a variable in the iterated dominance      *)
(* frontier of its definitions, where the variable is live.                *)

Assigned(f, l) == [k \in DOMAIN Block(f, l) |-> Block(f, l)[k].out]

(* self.defs in the order of its keys, and the blocks of each *)
DefinedVars(f, tree) ==
  LET walk == DomPostOrder(tree, Entry(f))
  IN SelectSeq(Unique(FlattenSeq([i \in DOMAIN walk |-> Assigned(f, walk[i])])), IsVar)
DefBlocks(f, v) == {l \in Labels(f) : Contains(Assigned(f, l), v)}

RECURSIVE IteratedFrontier(_, _)
IteratedFrontier(tree, ls) ==
  LET more == ls \union UNION {tree.frontier[l] : l \in ls}
  IN IF more = ls THEN ls ELSE IteratedFrontier(tree, more)
FrontierOf(tree, ls) == UNION {tree.frontier[l] : l \in IteratedFrontier(tree, ls)}

LiveInVars(f, live, l) ==
  LET rest == SelectSeq(f.body[l], LAMBDA id : f.inst[id].op # "phi")
  IN IF rest = <<>> THEN {} ELSE Range(live.at[rest[1]])

PhiSources(cfg, l) == SelectSeq(cfg.in[l], LAMBDA p : p # l)
PlacePhi(f, cfg, v, l) ==
  LET from == PhiSources(cfg, l)
  IN Insert(f, l, 1, "phi", v, [k \in 1 .. 2 * Len(from) |-> IF k % 2 = 1 THEN Lab(from[(k + 1) \div 2]) ELSE v])

AddPhiNodes(st) ==
  LET c == st.cache
      At(v) == {l \in FrontierOf(c.dom, DefBlocks(st.fn, v)) : v \in LiveInVars(st.fn, c.live, l)}
  IN Fold(LAMBDA f, v : FoldSet(LAMBDA l, g : PlacePhi(g, c.cfg, v, l), f, At(v)),
              st.fn, DefinedVars(st.fn, c.dom))

(* Renaming: next[v] is var_name_counters, stack[v] is var_name_stacks. *)
Version(v, k) == IF k = 0 THEN v ELSE Append(v, k)
Latest(r, v) == IF v \in DOMAIN r.stack THEN Version(v, Last(r.stack[v])) ELSE v
RenameUses(r, args) == [k \in DOMAIN args |-> IF IsVar(args[k]) THEN Latest(r, args[k]) ELSE args[k]]

RenameInst(r, id) ==
  LET i == r.f.inst[id]
      uses == IF i.op = "phi" THEN r ELSE [r EXCEPT !.f.inst[id].args = RenameUses(r, @)]
      v == i.out
      pushed == [uses EXCEPT !.stack[v] = Append(@, uses.next[v]), !.next[v] = @ + 1]
  IN IF v = NoOutput THEN uses
     ELSE [pushed EXCEPT !.f.inst[id].out = Latest(pushed, v), !.outs = Append(@, v)]

RenamePhiEdges(r, from, id) ==
  IF r.f.inst[id].op # "phi" THEN r
  ELSE [r EXCEPT !.f.inst[id].args = [k \in DOMAIN @ |->
          IF k % 2 = 0 /\ @[k - 1] = Lab(from) THEN Latest(r, @[k]) ELSE @[k]]]

KeepStacks(r, outs) == r                \* mutant: the names of a block outlive its subtree
Pop(r, outs) == Fold(LAMBDA s, v : [s EXCEPT !.stack[v] = Front(@)], r, outs)

RECURSIVE RenameBlock(_, _, _, _)
RenameBlock(r, cfg, tree, l) ==
  LET here == Fold(RenameInst, [r EXCEPT !.outs = <<>>], r.f.body[l])
      edges == Fold(LAMBDA s, k : Fold(LAMBDA t, id : RenamePhiEdges(t, l, id), s, s.f.body[k]),
                        here, cfg.out[l])
      below == Fold(LAMBDA s, k : RenameBlock(s, cfg, tree, k), edges, tree.dominated[l])
  IN Pop(below, here.outs)

(* A phi that is left with one operand besides itself is removed. *)
OtherPairs(i) ==
  FlattenSeq([k \in 1 .. Len(i.args) \div 2 |->
     IF i.args[2 * k] = i.out THEN <<>> ELSE <<i.args[2 * k - 1], i.args[2 * k]>>])
RemoveDegenerate(f, id) ==
  LET args == OtherPairs(f.inst[id]) IN
    IF f.inst[id].op # "phi" THEN f
    ELSE IF Len(args) <= 2 THEN RemoveInst(f, id)
    ELSE [f EXCEPT !.inst[id].args = args]

RemoveDegeneratePhis(f, cfg) ==
  Fold(RemoveDegenerate, f,
           FlattenSeq([i \in DOMAIN f.order |-> IF f.order[i] \in cfg.reachable THEN f.body[f.order[i]] ELSE <<>>]))

StartRenaming(f, vars) ==
  [f |-> f, outs |-> <<>>, next |-> [v \in vars |-> 0], stack |-> [v \in vars |-> <<0>>]]
RenameVars(s) ==
  RenameBlock(StartRenaming(AddPhiNodes(s), Range(DefinedVars(s.fn, s.cache.dom))),
              s.cache.cfg, s.cache.dom, Entry(s.fn)).f
ToSSA(s) == Invalidate(EditFn(s, RemoveDegeneratePhis(RenameVars(s), s.cache.cfg)), {"live", "dfg"})
MakeSSA(st) == ToSSA(Request(st, <<"cfg", "dom", "live">>))

(* dfg.outputs.items(), the instructions in the order of the variables *)
Producers(dfg) == [k \in DOMAIN dfg.vars |-> dfg.def[dfg.vars[k]]]

---------------------------------------------------------------------------
(* PhiEliminationPass: a phi whose operands all come from one instruction, *)
(* through chains of phis and assignments, is an assignment.  known are    *)
(* the results of earlier phis, seen is `visited`; the result is           *)
(* <<origins, seen>>.                                                      *)

RECURSIVE PhiOrigins(_, _, _, _, _)
PhiOrigins(f, dfg, known, id, seen) ==
  LET i == f.inst[id]
      collected == Fold(LAMBDA acc, v : LET o == PhiOrigins(f, dfg, known, dfg.def[v], acc[2])
                                            IN <<acc[1] \union o[1], o[2]>>,
                            <<{}, seen \union {id}>>, SelectSeq(i.args, IsVar))
  IN IF i.op = "phi" THEN
       IF id \in DOMAIN known THEN <<known[id], seen>>
       ELSE IF id \in seen THEN <<{}, seen>>
       ELSE IF Cardinality(collected[1]) > 1 THEN <<{id}, collected[2]>>
       ELSE collected
     ELSE IF i.op = "assign" /\ IsVar(i.args[1])
     THEN PhiOrigins(f, dfg, known, dfg.def[i.args[1]], seen)
     ELSE <<{id}, seen>>

AllPhis(f) == FlattenSeq([i \in DOMAIN f.order |->
                SelectSeq(f.body[f.order[i]], LAMBDA id : id \in PhiIds(f, f.order[i]))])
PhiToOrigins(f, dfg) ==
  Fold(LAMBDA known, id : With(known, id, PhiOrigins(f, dfg, known, id, {})[1]),
           [id \in {} |-> {}], AllPhis(f))

ReplacePhi(st, origins, id) ==
  IF st.fn.inst[id].op = "phi" /\ Cardinality(origins[id]) = 1 /\ origins[id] # {id}
  THEN Update(st, id, "assign", <<st.fn.inst[CHOOSE o \in origins[id] : TRUE].out>>)
  ELSE st

(* ensure_well_formed *)
SortKey(i) == IF i.op \in {"phi", "param"} THEN 0 ELSE IF i.op \in Terminators THEN 2 ELSE 1
WellFormed(f) ==
  [f EXCEPT !.body = [l \in Labels(f) |->
     FlattenSeq([key \in 1 .. 3 |-> SelectSeq(f.body[l], LAMBDA id : SortKey(f.inst[id]) = key - 1)])]]

ReplacePhis(s, origins) ==
  Fold(LAMBDA a, id : ReplacePhi(a, origins, id), s, Producers(s.cache.dfg))
EnsureWellFormed(s) == EditFn(s, WellFormed(s.fn))
EliminatePhis(s) == EnsureWellFormed(ReplacePhis(s, PhiToOrigins(s.fn, s.cache.dfg)))
PhiElimination(st) == Invalidate(EliminatePhis(Request(st, <<"dfg">>)), {"live"})

---------------------------------------------------------------------------
(* AssignElimination: uses of a copy become uses of what was copied, except*)
(* where a phi reads either of them.                                       *)

ReadByPhi(st, o) == \E id \in Uses(st.cache.dfg, o) : st.fn.inst[id].op = "phi"
Forward(st, id) ==
  LET i == st.fn.inst[id]
      from == Shared(i.args[1], i.out)
      forwarded == FoldSet(LAMBDA u, s : UpdateOperands(s, u, i.out, from), st, Uses(st.cache.dfg, i.out))
      nop == Update(forwarded, id, "nop", <<>>)
  IN IF i.op # "assign" THEN st
     ELSE IF ReadByPhi(st, from) \/ ReadByPhi(st, i.out) THEN st
     ELSE EditFn(nop, RemoveInst(nop.fn, id))

ForwardAll(s) == Fold(Forward, s, Producers(s.cache.dfg))
AssignElimination(st) == Invalidate(ForwardAll(Request(st, <<"dfg">>)), {"live"})

---------------------------------------------------------------------------
(* Mem2Var: memory that is only loaded and stored becomes a variable.  So  *)
(* does that of an argument, which starts with what the call has brought;  *)
(* memory that is returned is stored from the variable first.              *)

VariableFor(i) == <<"var", "alloca", i.args[3][2]>>
PromoteUse(s, u, v) ==
  CASE s.fn.inst[u].op = "mstore" -> UpdateTo(s, u, "assign", <<s.fn.inst[u].args[1]>>, v)
    [] s.fn.inst[u].op = "mload" -> Update(s, u, "assign", <<v>>)
    [] s.fn.inst[u].op = "return" -> InsertBefore(s, u, "mstore", <<v, s.fn.inst[u].args[2]>>)
PromoteUses(s, uses, v) == FoldSet(LAMBDA u, t : PromoteUse(t, u, v), s, uses)
TakeArgumentInto(s, id, v, offset, slot) ==
  IF slot \in DOMAIN s.fn.params THEN UpdateTo(s, id, "assign", <<s.fn.params[slot]>>, v)
  ELSE UpdateTo(s, id, "mload", <<offset>>, v)
Promote(st, id) ==
  LET i == st.fn.inst[id]
      uses == Uses(st.cache.dfg, i.out)
      Only(ops) == \A u \in uses : st.fn.inst[u].op \in ops
  IN IF i.op = "alloca" /\ Only({"mstore", "mload", "return"}) THEN PromoteUses(st, uses, VariableFor(i))
     ELSE IF i.op = "palloca" /\ Only({"mstore", "mload"})
     THEN PromoteUses(TakeArgumentInto(st, id, VariableFor(i), i.args[1], i.args[3][2]), uses, VariableFor(i))
     ELSE st

PromoteAll(s) == Fold(Promote, s, Producers(s.cache.dfg))
Mem2Var(st) == Invalidate(PromoteAll(Request(st, <<"cfg", "dfg">>)), {"live"})
=============================================================================
