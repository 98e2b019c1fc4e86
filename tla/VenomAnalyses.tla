---------------------------- MODULE VenomAnalyses ----------------------------
(***************************************************************************)
(* Analyses of a Venom function and the cache that keeps them              *)
(* (venom/analysis/).                                                      *)
(*                                                                         *)
(* A pass asks the cache for an analysis and gets the one that is there,   *)
(* whatever has become of the function since; passes have to drop what     *)
(* they make untrue, or keep it up to date themselves.  A compilation is   *)
(* the function and its cache; an analysis that is not cached is absent    *)
(* from the domain of the cache.                                           *)
(***************************************************************************)
EXTENDS VenomIR

Unique(s) == Fold(LAMBDA acc, x : IF Contains(acc, x) THEN acc ELSE Append(acc, x), <<>>, s)
IndexIn(s, x) == CHOOSE i \in DOMAIN s : s[i] = x

---------------------------------------------------------------------------
(* CFGAnalysis *)

RECURSIVE PostOrder(_, _, _)
(* _compute_dfs_post_r: <<blocks reached, blocks in post-order>> *)
PostOrder(out, l, acc) ==
  IF l \in acc[1] THEN acc
  ELSE LET below == Fold(LAMBDA a, k : PostOrder(out, k, a), <<acc[1] \union {l}, acc[2]>>, out[l])
       IN <<below[1], Append(below[2], l)>>

CFG(f) ==
  LET out == [l \in Labels(f) |-> Unique(Reverse(Targets(f, l)))]
      in == [l \in Labels(f) |-> SelectSeq(f.order, LAMBDA p : Contains(out[p], l))]
      walk == PostOrder(out, Entry(f), <<{}, <<>>>>)
  IN [in |-> in, out |-> out, reachable |-> walk[1], dfs |-> walk[2]]

IsNormalized(f, cfg) ==
  \A l \in Labels(f) : Len(cfg.in[l]) > 1 => \A p \in Range(cfg.in[l]) : Len(cfg.out[p]) <= 1

---------------------------------------------------------------------------
(* DominatorTreeAnalysis *)

DominatorSweep(f, cfg, dom) ==
  Fold(LAMBDA d, l :
             IF l = Entry(f) \/ cfg.in[l] = <<>> THEN d
             ELSE [d EXCEPT ![l] = {l} \union {b \in Range(cfg.dfs) : \A p \in Range(cfg.in[l]) : b \in d[p]}],
           dom, cfg.dfs)

OneSweep(f, cfg, dom) == DominatorSweep(f, cfg, dom)      \* mutant: no fixed point
RECURSIVE DominatorSweeps(_, _, _)
DominatorSweeps(f, cfg, dom) ==
  LET next == DominatorSweep(f, cfg, dom)
  IN IF next = dom THEN dom ELSE DominatorSweeps(f, cfg, next)

Dominators(f, cfg) ==
  DominatorSweeps(f, cfg, [l \in cfg.reachable |-> IF l = Entry(f) THEN {l} ELSE cfg.reachable])

(* The nearest strict dominator is the first in post-order. *)
ImmediateDominator(f, cfg, dom) ==
  [l \in cfg.reachable |->
     IF l = Entry(f) THEN l ELSE SelectSeq(cfg.dfs, LAMBDA d : d \in dom[l])[2]]

RECURSIVE Runner(_, _, _)
Runner(idom, l, until) == IF l = until THEN {} ELSE {l} \union Runner(idom, idom[l], until)

DominatorTree(f, cfg) ==
  LET dom == Dominators(f, cfg)
      idom == ImmediateDominator(f, cfg, dom)
  IN [dominators |-> dom,
      dominated |-> [l \in cfg.reachable |-> SelectSeq(cfg.dfs, LAMBDA k : idom[k] = l /\ k # l)],
      frontier |-> [l \in cfg.reachable |->
                      {j \in cfg.reachable : /\ Len(cfg.in[j]) > 1
                                             /\ \E p \in Range(cfg.in[j]) : l \in Runner(idom, p, idom[j])}]]

RECURSIVE DomPostOrder(_, _)
DomPostOrder(tree, l) ==
  Append(FlattenSeq([i \in DOMAIN tree.dominated[l] |-> DomPostOrder(tree, tree.dominated[l][i])]), l)

---------------------------------------------------------------------------
(* LivenessAnalysis: at[id] are the variables live before an instruction,  *)
(* out[l] those live at the end of a block, as OrderedSets: the assembler  *)
(* lays out the stack in their order.  A phi makes the operand of the edge *)
(* live that leads to it, and the others not.                              *)

Include(s, x) == IF Contains(s, x) THEN s ELSE Append(s, x)
IncludeAll(s, xs) == Fold(Include, s, xs)
SameElements(s, t) == Range(s) = Range(t)

EdgeInto(phi, source, live) ==
  Fold(LAMBDA v, k : IF phi.args[2 * k - 1] = Lab(source) THEN Include(v, phi.args[2 * k])
                         ELSE Remove(v, phi.args[2 * k]),
           live, [k \in 1 .. Len(phi.args) \div 2 |-> k])
InputVarsFrom(f, at, source, l) ==
  Fold(LAMBDA live, id : IF f.inst[id].op = "phi" THEN EdgeInto(f.inst[id], source, live) ELSE live,
           at[f.body[l][1]], f.body[l])

OutVars(f, cfg, at, l) ==
  Fold(LAMBDA live, k : IncludeAll(live, InputVarsFrom(f, at, l, k)), <<>>, cfg.out[l])

LiveBefore(f, live, id) == Remove(IncludeAll(live, SelectSeq(f.inst[id].args, IsVar)), f.inst[id].out)

(* _calculate_liveness, from the last instruction up *)
BlockLiveness(f, at, l, out) ==
  FoldRight(LAMBDA id, acc : LET live == LiveBefore(f, acc[1], id) IN <<live, [acc[2] EXCEPT ![id] = live]>>,
            f.body[l], <<out, at>>)[2]

RECURSIVE LivenessFrom(_, _, _, _)
LivenessFrom(f, cfg, live, worklist) ==
  IF worklist = <<>> THEN live
  ELSE LET l == Head(worklist)
           out == OutVars(f, cfg, live.at, l)
           at == BlockLiveness(f, live.at, l, out)
           changed == ~SameElements(out, live.out[l]) \/ ~SameElements(at[f.body[l][1]], live.at[f.body[l][1]])
       IN LivenessFrom(f, cfg, [out |-> [live.out EXCEPT ![l] = out], at |-> at],
                       Tail(worklist) \o (IF changed THEN cfg.in[l] ELSE <<>>))

Liveness(f, cfg) ==
  LivenessFrom(f, cfg, [out |-> [l \in Labels(f) |-> <<>>], at |-> [id \in Ids(f) |-> <<>>]], cfg.dfs)

---------------------------------------------------------------------------
(* DFGAnalysis: the producer of each variable, in the order of the         *)
(* program, and its uses.                                                  *)

DFG(f) ==
  LET defs == SelectSeq(AllIds(f), LAMBDA id : f.inst[id].out # NoOutput)
      produced == Unique([k \in DOMAIN defs |-> f.inst[defs[k]].out])
      used == UNION {Inputs(f.inst[id]) : id \in Ids(f)}
  IN [vars |-> produced,
      def |-> [v \in Range(produced) |-> defs[Max({k \in DOMAIN defs : f.inst[defs[k]].out = v})]],
      use |-> [v \in used |-> {id \in Ids(f) : v \in Inputs(f.inst[id])}]]

Uses(dfg, v) == IF v \in DOMAIN dfg.use THEN dfg.use[v] ELSE {}

(* are_equivalent: the same after following assignments. *)
RECURSIVE TraverseAssigns(_, _, _)
TraverseAssigns(f, dfg, o) ==
  IF ~IsVar(o) \/ o \notin DOMAIN dfg.def THEN o
  ELSE LET i == f.inst[dfg.def[o]] IN IF i.op = "assign" THEN TraverseAssigns(f, dfg, i.args[1]) ELSE o
AreEquivalent(f, dfg, o, p) ==
  IF IsVar(o) /\ IsVar(p) THEN SameOperand(TraverseAssigns(f, dfg, o), TraverseAssigns(f, dfg, p)) ELSE SameOperand(o, p)

---------------------------------------------------------------------------
(* ReachableAnalysis: a block that is met again while it is being visited  *)
(* contributes only what has been found of it so far.                      *)

RECURSIVE ReachableFrom(_, _, _)
ReachableFrom(cfg, l, r) ==
  IF l \in DOMAIN r THEN r
  ELSE Fold(LAMBDA a, k : LET b == ReachableFrom(cfg, k, a) IN [b EXCEPT ![l] = @ \union b[k]],
                [k \in DOMAIN r \union {l} |-> IF k = l THEN Range(cfg.out[l]) ELSE r[k]],
                cfg.out[l])

---------------------------------------------------------------------------
(* IRAnalysesCache *)

With(cache, name, x) == [n \in DOMAIN cache \union {name} |-> IF n = name THEN x ELSE cache[n]]
Drop(cache, names) == [n \in DOMAIN cache \ names |-> cache[n]]

(* Invalidating an analysis invalidates what its invalidate() lists. *)
Dependent(name) == CASE name = "cfg" -> {"cfg", "dfg", "dom", "live", "reach"}
                     [] name = "dfg" -> {"dfg", "live"}
                     [] OTHER -> {name}
Invalidate(st, names) == [st EXCEPT !.cache = Drop(@, UNION {Dependent(n) : n \in names \intersect DOMAIN @})]

Analyze(f, cache, name) ==
  CASE name = "cfg" -> CFG(f)
    [] name = "dfg" -> DFG(f)
    [] name = "dom" -> DominatorTree(f, cache.cfg)
    [] name = "live" -> Liveness(f, cache.cfg)
    [] name = "reach" -> ReachableFrom(cache.cfg, Entry(f), [l \in {} |-> {}])
NeedsCFG == {"dom", "live", "reach"}

RequestOne(st, name) ==
  IF name \in DOMAIN st.cache THEN st
  ELSE LET c == IF name \in NeedsCFG /\ "cfg" \notin DOMAIN st.cache
                THEN With(st.cache, "cfg", CFG(st.fn)) ELSE st.cache
       IN [st EXCEPT !.cache = With(c, name, Analyze(st.fn, c, name))]
Request(st, names) == Fold(RequestOne, st, names)
Force(st, name) == RequestOne(Invalidate(st, {name}), name)
=============================================================================
