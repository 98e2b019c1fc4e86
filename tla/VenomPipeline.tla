---------------------------- MODULE VenomPipeline ----------------------------
(***************************************************************************)
(* The pipeline of passes (venom/__init__.py, run_passes_on): the inliner  *)
(* over the whole context, then _run_passes over one function after the    *)
(* other, then the assembly of all of them.  Each action is one pass, in   *)
(* the order of the code.                                                  *)
(***************************************************************************)
EXTENDS VenomAssembly

CONSTANTS Programs,   \* the contexts that are compiled
          CallData,   \* the call data they are run on
          Compacted   \* those that are compiled for size rather than for gas

VARIABLES source,     \* the context as ir_node_to_venom made it
          codesize,   \* whether the optimization level is codesize
          meaning,    \* what it does on each call data
          unit,       \* the context, the function in turn and those after it as they were
          turn,       \* the function that the passes are at
          st,         \* that function and its cached analyses
          done,       \* number of passes that have run on it
          stage,      \* "context", "passes", or what has become of the context after them
          code        \* its assembly, then its bytes

vars == <<source, codesize, meaning, unit, turn, st, done, stage, code>>

(* The copies that the inliner makes, as calls in the two branches of a     *)
(* statement do, leave an allocation where it does not reach every use;     *)
(* FloatAllocas, the first pass, is what mends that.                        *)
Floated(c) == <<>> \o [j \in DOMAIN c |-> AllocasFloated(c[j])]
Meaning(c) == [input \in CallData |-> Run(c, input, Fuel)]
Starting(f) == [fn |-> f, cache |-> [n \in {} |-> {}], fault |-> NoFault, bypassed |-> FALSE]

Schedule ==
  <<"FloatAllocas", "SimplifyCFG", "MakeSSA", "PhiElimination", "AlgebraicOptimization", "SCCP", "SimplifyCFG",
    "AssignElimination", "Mem2Var", "MakeSSA", "PhiElimination", "SCCP", "SimplifyCFG", "AssignElimination",
    "AlgebraicOptimization", "LoadElimination", "PhiElimination", "AssignElimination", "SCCP", "AssignElimination",
    "RevertToAssert", "SimplifyCFG", "MemMerge", "RemoveUnusedVariables",
    "DeadMemory", "DeadStorage", "DeadTransient", "LowerDload", "BranchOptimization", "AlgebraicOptimization",
    "RemoveUnusedVariables", "PhiElimination", "AssignElimination", "CSE", "AssignElimination",
    "RemoveUnusedVariables", "SingleUseExpansion">>
  \o (IF codesize THEN <<"ReduceLiterals">> ELSE <<>>) \o <<"DFT", "CFGNormalization">>

FirstSCCP == 6
FirstSSA == 3
Promotion == 9
OnlyCSE == 34
Complete == done = Len(Schedule)

(* The context as it is, the functions before FloatAllocas as it leaves them. *)
Context ==
  <<>> \o [j \in DOMAIN unit |-> IF j = turn /\ done > 0 THEN st.fn ELSE IF j < turn THEN unit[j] ELSE AllocasFloated(unit[j])]

Init == /\ codesize \in BOOLEAN
        /\ source \in IF codesize THEN Compacted ELSE Programs
        /\ meaning = Meaning(Floated(source))
        /\ unit = source /\ turn = 1
        /\ st = Starting(source[1])
        /\ done = 0
        /\ stage = "context" /\ code = <<>>

(* _run_global_passes; the caches of the analyses start afresh.             *)
Begins(c) == unit' = c /\ st' = Starting(c[1])
RunFunctionInliner == /\ stage = "context" /\ stage' = "passes"
                      /\ Begins(FunctionInliner(source, codesize))
                      /\ UNCHANGED <<source, codesize, meaning, turn, done, code>>
NextFunction == /\ stage = "passes" /\ Complete /\ st.fault = NoFault
                /\ turn < Len(unit)
                /\ unit' = [unit EXCEPT ![turn] = st.fn]
                /\ turn' = turn + 1
                /\ st' = [Starting(unit[turn + 1]) EXCEPT !.bypassed = st.bypassed]
                /\ done' = 0
                /\ UNCHANGED <<source, codesize, meaning, stage, code>>

Turn(pass) == /\ stage = "passes" /\ ~Complete /\ st.fault = NoFault
              /\ Schedule[done + 1] = pass
              /\ done' = done + 1
              /\ UNCHANGED <<source, codesize, meaning, unit, turn, stage, code>>

RunFloatAllocas == Turn("FloatAllocas") /\ st' = FloatAllocas(st)
RunSimplifyCFG == Turn("SimplifyCFG") /\ st' = SimplifyCFG(st)
RunMakeSSA == Turn("MakeSSA") /\ st' = MakeSSA(st)
RunPhiElimination == Turn("PhiElimination") /\ st' = PhiElimination(st)
RunAlgebraicOptimization == Turn("AlgebraicOptimization") /\ st' = AlgebraicOptimization(st)
RunSCCP == Turn("SCCP") /\ st' = SCCP(st, done' # FirstSCCP)
RunAssignElimination == Turn("AssignElimination") /\ st' = AssignElimination(st)
RunMem2Var == Turn("Mem2Var") /\ st' = Mem2Var(st)
RunLoadElimination == Turn("LoadElimination") /\ st' = LoadElimination(st)
RunRevertToAssert == Turn("RevertToAssert") /\ st' = RevertToAssert(st)
RunMemMerge == Turn("MemMerge") /\ st' = MemMerge(st)
RunDeadMemory == Turn("DeadMemory") /\ st' = DeadStoreElimination(st, "MEMORY")
RunDeadStorage == Turn("DeadStorage") /\ st' = DeadStoreElimination(st, "STORAGE")
RunDeadTransient == Turn("DeadTransient") /\ st' = DeadStoreElimination(st, "TRANSIENT")
RunLowerDload == Turn("LowerDload") /\ st' = LowerDload(st)
RunRemoveUnusedVariables == Turn("RemoveUnusedVariables") /\ st' = RemoveUnusedVariables(st)
RunBranchOptimization == Turn("BranchOptimization") /\ st' = BranchOptimization(st)
RunCSE == Turn("CSE") /\ st' = CSE(st)
RunSingleUseExpansion == Turn("SingleUseExpansion") /\ st' = SingleUseExpansion(st)
RunReduceLiterals == Turn("ReduceLiterals") /\ st' = ReduceLiterals(st)
RunDFT == Turn("DFT") /\ st' = DFT(st)
RunCFGNormalization == Turn("CFGNormalization") /\ st' = CFGNormalization(st)

(* VenomCompiler.generate_evm_assembly, optimize_assembly, assembly_to_evm *)
Translate(from, to) == /\ turn = Len(unit) /\ Complete /\ st.fault = NoFault
                       /\ stage = from /\ stage' = to
                       /\ UNCHANGED <<source, codesize, meaning, unit, turn, done>>
TakeAssembly(e) == /\ code' = IF e.fault = NoFault THEN e.asm ELSE <<>>
                   /\ st' = [st EXCEPT !.fault = e.fault]
EmitAssembly == Translate("passes", "assembly") /\ TakeAssembly(GenerateAssembly(Context))
TakeResult(result, what) == /\ code' = result
                            /\ st' = [st EXCEPT !.fault = IF result = <<>> THEN what ELSE @]
Optimize == Translate("assembly", "optimized") /\ TakeResult(OptimizeAssembly(code), "assembly reduction does not end")
Encoding == Translate("optimized", "bytes") /\ TakeResult(Assemble(code), "code does not fit")

Next == \/ RunFunctionInliner \/ NextFunction
        \/ RunFloatAllocas \/ RunSimplifyCFG \/ RunMakeSSA \/ RunPhiElimination
        \/ RunAlgebraicOptimization \/ RunSCCP \/ RunAssignElimination \/ RunMem2Var
        \/ RunLoadElimination \/ RunRevertToAssert \/ RunMemMerge \/ RunRemoveUnusedVariables
        \/ RunDeadMemory \/ RunDeadStorage \/ RunDeadTransient \/ RunLowerDload \/ RunBranchOptimization
        \/ RunCSE \/ RunSingleUseExpansion \/ RunReduceLiterals \/ RunDFT \/ RunCFGNormalization
        \/ EmitAssembly \/ Optimize \/ Encoding

Spec == Init /\ [][Next]_vars

---------------------------------------------------------------------------
(* Properties. *)

(* Between MakeSSA and the promotion of memory to variables, and after the   *)
(* second MakeSSA, the function is in static single assignment form.         *)
InSSA == done >= FirstSSA /\ done # Promotion
Sound == st.fault = NoFault /\ ~st.bypassed

(* A pass that changes the context leaves what it does as the program      *)
(* says: on every call data it ends the same way, returns, logs and calls  *)
(* the same in the same order and leaves the same storage.  Compilations   *)
(* in which the CFG simplification has cut a block out of an edge into a   *)
(* phi are excepted; for them it is false.                                 *)
BehaviourPreserved == [][(Sound' /\ Context' # Context) => Meaning(Context') = meaning]_vars

(* The code does what the program said, before the optimizer of assembly   *)
(* has seen it and in the end: on every call data it never takes what is   *)
(* not on the stack, jumps only to where a jump may lead, and ends as the  *)
(* program does with the same effects.                                     *)
Performance(bytes) == [input \in CallData |-> Execution(bytes, input, 4 * Fuel)]
CodeBehaves ==
  (Sound /\ stage \notin {"context", "passes"}) =>
    Performance(IF stage = "bytes" THEN code ELSE Assemble(code)) = meaning

(* l dominates k: every path from the entry to k goes through l. *)
RECURSIVE ReachedWithout(_, _, _, _)
ReachedWithout(f, l, found, new) ==
  LET next == UNION {Range(Targets(f, k)) : k \in new} \ (found \union {l})
  IN IF next = {} THEN found ELSE ReachedWithout(f, l, found \union next, next)
Reached(f, l) == IF l = Entry(f) THEN {} ELSE ReachedWithout(f, l, {Entry(f)}, {Entry(f)})
Reachable(f) == ReachedWithout(f, "", {Entry(f)}, {Entry(f)})
DominatedBy(f) == LET all == Reachable(f) IN [l \in all |-> all \ Reached(f, l)]

(* What the cache would hand to the next pass, the CFG and the data flow   *)
(* graph, is what the analysis would find in the function as it is now: a  *)
(* pass that changes the function has kept the graph up to date or has     *)
(* dropped it.                                                             *)
AnalysesFresh ==
  st.fault = NoFault =>
    /\ "cfg" \in DOMAIN st.cache =>
         \A l \in Labels(st.fn) : /\ Range(st.cache.cfg.out[l]) = Range(CFG(st.fn).out[l])
                                  /\ Range(st.cache.cfg.in[l]) = Range(CFG(st.fn).in[l])
    /\ "dom" \in DOMAIN st.cache => st.cache.dom = DominatorTree(st.fn, CFG(st.fn))
    /\ "dfg" \in DOMAIN st.cache =>
         /\ InSSA => \A v \in Range(DFG(st.fn).vars) : /\ v \in DOMAIN st.cache.dfg.def
                                                       /\ st.cache.dfg.def[v] = DFG(st.fn).def[v]
         /\ \A v \in DOMAIN DFG(st.fn).use : Uses(st.cache.dfg, v) = DFG(st.fn).use[v]

(* A variable is live before an instruction when some path from there      *)
(* reads it before it is assigned.  The paths are those of places <<l, k>>,*)
(* the k-th instruction of block l; a phi of the block that is entered     *)
(* reads at the end of the block that is left.                             *)
Places(f) == UNION {{<<l, k>> : k \in DOMAIN f.body[l]} : l \in Reachable(f)}
At(f, p) == f.inst[f.body[p[1]][p[2]]]
After(f, p) == IF p[2] < Len(f.body[p[1]]) THEN {<<p[1], p[2] + 1>>} ELSE {<<l, 1>> : l \in Range(Targets(f, p[1]))}
ReadAt(f, p) ==
  IF At(f, p).op = "phi" THEN {}
  ELSE Inputs(At(f, p)) \union
         UNION {UNION {{q[2] : q \in {r \in PhiPairs(f.inst[id]) : r[1] = Lab(p[1])}} : id \in PhiIds(f, l)} :
                l \in IF p[2] = Len(f.body[p[1]]) THEN Range(Targets(f, p[1])) ELSE {}}
RECURSIVE LivePlaces(_, _, _, _, _)
LivePlaces(f, places, v, found, new) ==
  LET more == {p \in places \ found : At(f, p).out # v /\ After(f, p) \intersect new # {}}
  IN IF more = {} THEN found ELSE LivePlaces(f, places, v, found \union more, more)
LiveAt(f, places, v) == LET reads == {p \in places : v \in ReadAt(f, p)} IN LivePlaces(f, places, v, reads, reads)

(* The variables that LivenessAnalysis finds live before an instruction,   *)
(* phis apart, are those that are.                                         *)
LiveRight(f, at, places) ==
  \A v \in UNION {Inputs(f.inst[id]) : id \in Ids(f)} :
    LET live == LiveAt(f, places, v)
    IN \A p \in places : At(f, p).op # "phi" => (Contains(at[f.body[p[1]][p[2]]], v) <=> p \in live)
LivenessFound(f) == LiveRight(f, Liveness(f, CFG(f)).at, Places(f))

(* The dominators that DominatorTreeAnalysis finds are those of the        *)
(* definition, once no block is out of reach.                              *)
DominatorsRight(f, found, dominated) ==
  DOMAIN dominated = Labels(f) => \A l \in Labels(f) : found[l] = {k \in Labels(f) : l \in dominated[k]}
DominatorsFound(f) == DominatorsRight(f, Dominators(f, CFG(f)), DominatedBy(f))

(* Where a pass, or venom_to_assembly after the last one, asks for the two *)
(* analyses, they find what the definitions say.  Functions in which an    *)
(* instruction reads the variable it assigns are excepted: there           *)
(* LivenessAnalysis forgets that the variable is live.                     *)
ReadsWhatItAssigns(f) == \E id \in Ids(f) : f.inst[id].out \in Inputs(f.inst[id])
AnalysesCorrect ==
  (Sound /\ (Complete \/ Schedule[done + 1] \in {"MakeSSA", "BranchOptimization"})) =>
    DominatorsFound(st.fn) /\ (ReadsWhatItAssigns(st.fn) \/ LivenessFound(st.fn))

(* In single assignment form a variable has one definition, which is on    *)
(* every path to each of its uses; a phi uses its operands at the end of   *)
(* the blocks it names, and it names every predecessor that can be reached *)
(* (check_venom.py asks for a part of this).                               *)
Definitions(f) ==
  [v \in {f.inst[id].out : id \in Ids(f)} \ {NoOutput} |-> {id \in Ids(f) : f.inst[id].out = v}]
PhiWellFormed(f, dominated, defs, id) ==
  \A l \in DOMAIN dominated :
    f.inst[id].bb \in Range(Targets(f, l)) =>
      \E p \in PhiPairs(f.inst[id]) :
         p[1] = Lab(l) /\ \A d \in defs[p[2]] : l \in dominated[f.inst[d].bb]
UseWellFormed(f, dominated, defs, id) ==
  \A v \in Inputs(f.inst[id]) : \A d \in defs[v] :
    IF f.inst[d].bb = f.inst[id].bb THEN PositionOf(f, d) < PositionOf(f, id)
    ELSE f.inst[id].bb \in dominated[f.inst[d].bb]
InstWellFormed(f, dominated, defs, id) ==
  /\ \A v \in Inputs(f.inst[id]) \union ({f.inst[id].out} \ {NoOutput}) :
       v \in DOMAIN defs /\ Cardinality(defs[v]) = 1
  /\ IF f.inst[id].op = "phi" THEN PhiWellFormed(f, dominated, defs, id) ELSE UseWellFormed(f, dominated, defs, id)
AllWellFormed(f, dominated, defs) ==
  \A l \in DOMAIN dominated : \A id \in Range(f.body[l]) : InstWellFormed(f, dominated, defs, id)
UsesAreDefined ==
  (st.fault = NoFault /\ InSSA) => AllWellFormed(st.fn, DominatedBy(st.fn), Definitions(st.fn))

(* It stays in that form, except in the compilations in which the CFG      *)
(* simplification has cut a block out of an edge into a phi: there a       *)
(* variable may be read on a path that does not define it.                 *)
SSAForm == ~st.bypassed => UsesAreDefined

(* The only way a legal program is refused is an assertion that can never  *)
(* hold: no pass trips over what another one has left behind, and the      *)
(* assembly emitter always finds the operands it needs on the stack.       *)
(* Compilations in which the CFG simplification has cut a block out of an  *)
(* edge into a phi are excepted from the CSE pass on: it, and the emitter, *)
(* may miss a variable there.                                              *)
NeverPanics == st.fault \in {NoFault, "static assertion"} \/ (done >= OnlyCSE /\ st.bypassed)

(* The function that is handed to venom_to_assembly has what that asks for:*)
(* no edge from a block that branches to a block that joins, no literal    *)
(* among the operands of an instruction other than an assignment, a phi or *)
(* an offset, or one that computes a shorter literal, and no variable that *)
(* such instructions read twice.                                           *)
ReadyForAssembly ==
  (Complete /\ st.fault = NoFault) =>
    LET f == st.fn
        Computed(i) == codesize /\ i.op \in {"not", "shl"} /\ \A k \in DOMAIN i.args : IsLit(i.args[k])
        ids == {id \in Ids(f) : f.inst[id].op \notin {"assign", "phi", "offset"} /\ ~Computed(f.inst[id])}
        read == FlattenSeq([k \in DOMAIN Ascending(ids) |-> SelectSeq(f.inst[Ascending(ids)[k]].args, IsVar)])
    IN /\ IsNormalized(f, CFG(f))
       /\ \A id \in ids : \A k \in DOMAIN f.inst[id].args : CountsTopics(f.inst[id], k) \/ ~IsLit(f.inst[id].args[k])
       /\ Cardinality(Range(read)) = Len(read)
=============================================================================
