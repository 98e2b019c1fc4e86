----------------------------- MODULE VenomMemory -----------------------------
(***************************************************************************)
(* The passes that remove and merge accesses to memory and storage:        *)
(* LoadElimination, MemMergePass and DeadStoreElimination, with the        *)
(* locations (venom/memory_location.py) and the aliasing they rely on.     *)
(***************************************************************************)
EXTENDS VenomExpressions

---------------------------------------------------------------------------
(* MemoryLocation.  What a variable says of an offset or a size is         *)
(* unknown.  An instruction that does not touch a space has the location   *)
(* Empty in it.                                                            *)

Unknown == -1
Location(off, size) == [off |-> off, size |-> size]
Empty == Location(0, 0)
Undefined == Location(Unknown, Unknown)
Fixed(x) == x.off # Unknown /\ x.size # Unknown
KnownOf(o) == IF IsLit(o) THEN o[2] ELSE Unknown
FromOperands(off, size) == Location(KnownOf(off), KnownOf(size))

CompletelyContains(x, y) ==
  y.size = 0 \/ (Fixed(x) /\ Fixed(y) /\ x.off <= y.off /\ y.off + y.size <= x.off + x.size)

EndsBefore(x, y) == x.size # Unknown /\ x.off + x.size <= y.off
MayOverlap(x, y) ==
  /\ x.size # 0 /\ y.size # 0
  /\ (x.off # Unknown /\ y.off # Unknown) => ~EndsBefore(x, y) /\ ~EndsBefore(y, x)

Spaces == {"MEMORY", "STORAGE", "TRANSIENT"}
WordScale(space) == IF space = "MEMORY" THEN WordBytes ELSE 1
LoadOpOf == [MEMORY |-> "mload", STORAGE |-> "sload", TRANSIENT |-> "tload"]
StoreOpOf == [MEMORY |-> "mstore", STORAGE |-> "sstore", TRANSIENT |-> "tstore"]
At32(space, o) == FromOperands(o, Lit(WordScale(space)))
LeavesControl == Calls \union Creations \union {"staticcall", "invoke"}

MemoryWrite(op, args) ==
  CASE op \in {"mcopy", "calldatacopy", "dloadbytes", "codecopy", "returndatacopy"} -> FromOperands(args[3], args[1])
    [] op \in Calls \union {"staticcall"} -> FromOperands(args[2], args[1])
    [] op = "dload" -> Location(Scratch, WordBytes)
    [] op = "sha3_64" -> Location(Scratch, 2 * WordBytes)
    [] op = "invoke" -> Location(0, Unknown)
    [] OTHER -> Empty
MemoryRead(op, args) ==
  CASE op = "mcopy" -> FromOperands(args[2], args[1])
    [] op \in Calls \union {"staticcall"} -> FromOperands(args[4], args[3])
    [] op \in {"return", "revert", "create", "sha3"} -> FromOperands(args[2], args[1])
    [] op = "log" -> FromOperands(Last(args), args[Len(args) - 1])
    [] op = "dload" -> Location(Scratch, WordBytes)
    [] op = "sha3_64" -> Location(Scratch, 2 * WordBytes)
    [] op = "invoke" -> Location(0, Unknown)
    [] OTHER -> Empty

WriteLocation(space, i) ==
  IF i.op = StoreOpOf[space] THEN At32(space, i.args[2])
  ELSE IF space = "MEMORY" THEN MemoryWrite(i.op, i.args)
  ELSE IF i.op \in LeavesControl THEN Undefined ELSE Empty
(* Where an execution commits to storage, a later one may read all of it. *)
ReadLocation(space, i) ==
  IF i.op = LoadOpOf[space] THEN At32(space, i.args[1])
  ELSE IF space = "MEMORY" THEN MemoryRead(i.op, i.args)
  ELSE IF i.op \in LeavesControl \union {"return", "stop", "sink", "ret"} THEN Undefined ELSE Empty

---------------------------------------------------------------------------
(* DeadStoreElimination.  A store is dead when no path from it reads its   *)
(* location before something overwrites all of it.                         *)

FirstSuch(s, Test(_)) == CHOOSE k \in 1 .. Len(s) + 1 :
  (k <= Len(s) => Test(s[k])) /\ \A j \in 1 .. k - 1 : ~Test(s[j])
ReadFirst(f, space, loc, ids) ==
  LET Reader(id) == MayOverlap(ReadLocation(space, f.inst[id]), loc)
      Clobber(id) == WriteLocation(space, f.inst[id]) # Empty /\ CompletelyContains(WriteLocation(space, f.inst[id]), loc)
      read == FirstSuch(ids, Reader)
      clobbered == FirstSuch(ids, Clobber)
  IN IF read <= Len(ids) /\ read <= clobbered THEN "read"
     ELSE IF clobbered <= Len(ids) THEN "clobbered" ELSE "through"

RECURSIVE ReadBeyond(_, _, _, _, _)
ReadBeyond(st, space, loc, found, new) ==
  LET Of(l) == ReadFirst(st.fn, space, loc, st.fn.body[l])
      next == UNION {Range(st.cache.cfg.out[l]) : l \in {k \in new : Of(k) = "through"}} \ found
  IN \/ \E l \in new : Of(l) = "read"
     \/ new # {} /\ ReadBeyond(st, space, loc, found \union next, next)

DefinitionLive(st, space, loc, id) ==
  LET l == st.fn.inst[id].bb
      rest == ReadFirst(st.fn, space, loc, SubSeq(st.fn.body[l], PositionOf(st.fn, id) + 1, Len(st.fn.body[l])))
      out == Range(st.cache.cfg.out[l])
  IN rest = "read" \/ (rest = "through" /\ ReadBeyond(st, space, loc, out, out))

DeadStore(st, space, id) ==
  LET i == st.fn.inst[id]
      loc == WriteLocation(space, i)
  IN /\ i.bb \in st.cache.cfg.reachable
     /\ loc # Empty /\ Fixed(loc)
     /\ i.out # NoOutput => Uses(st.cache.dfg, i.out) = {}
     /\ (Reads(i.op) \union Writes(i.op)) \subseteq {space}
     /\ ~DefinitionLive(st, space, loc, id)
EliminateStores(s, space) ==
  Fold(LAMBDA t, id : IF DeadStore(s, space, id) THEN Update(t, id, "nop", <<>>) ELSE t, s, AllIds(s.fn))
DeadStoreElimination(st, space) == EliminateStores(Request(st, <<"dfg", "cfg", "dom">>), space)

---------------------------------------------------------------------------
(* LoadElimination.  LoadAnalysis maps a pointer to the values that may be *)
(* found there, for one kind of access at a time; a value is the operand   *)
(* that was stored or the output of a load.  Blocks that have not been     *)
(* visited know nothing.                                                   *)

LoadKind(effect, load, store) == [effect |-> effect, load |-> load, store |-> store]
LoadKinds == <<LoadKind("MEMORY", "mload", "mstore"), LoadKind("TRANSIENT", "tload", "tstore"),
               LoadKind("STORAGE", "sload", "sstore"), LoadKind("none", "dload", "none"), LoadKind("none", "calldataload", "none")>>

KeyOfPointer(o) == IF IsLit(o) THEN Lit(o[2]) ELSE o
ValuesIn(xs) == {KeyOfPointer(x) : x \in Range(xs)}
JoinValues(xs, ys) == Fold(LAMBDA acc, y : IF KeyOfPointer(y) \in ValuesIn(acc) THEN acc ELSE Append(acc, y), xs, ys)
Joined(lat, other) == [p \in DOMAIN lat \intersect DOMAIN other |-> JoinValues(lat[p], other[p])]
SameLattice(x, y) == DOMAIN x = DOMAIN y /\ \A p \in DOMAIN x : ValuesIn(x[p]) = ValuesIn(y[p])

Conflict(kind, n, m) == Abs(n - m) < (IF kind.store = "mstore" THEN WordBytes ELSE 1)
AfterStore(st, kind, lat, ptr, value) ==
  LET Target(p) == TraverseAssigns(st.fn, st.cache.dfg, p)
      lit == Target(ptr)
      known == IsLit(lit) /\ \A p \in DOMAIN lat : IsLit(Target(p))
      kept == IF known THEN Drop(lat, {p \in DOMAIN lat : Conflict(kind, lit[2], Target(p)[2])}) ELSE Nothing
  IN With(kept, ptr, <<value>>)
AfterInst(st, kind, lat, i) ==
  CASE i.op = kind.load -> With(lat, KeyOfPointer(i.args[1]), <<i.out>>)
    [] i.op = kind.store -> AfterStore(st, kind, lat, KeyOfPointer(i.args[2]), i.args[1])
    [] kind.effect \in Writes(i.op) -> Nothing
    [] OTHER -> lat
AfterInsts(st, kind, lat, ids) == Fold(LAMBDA x, id : AfterInst(st, kind, x, st.fn.inst[id]), lat, ids)

LatticeAt(outs, l) == IF l \in DOMAIN outs THEN outs[l] ELSE Nothing
LatticeInto(st, outs, l) ==
  LET preds == st.cache.cfg.in[l]
  IN IF preds = <<>> THEN Nothing
     ELSE Fold(LAMBDA x, p : Joined(x, LatticeAt(outs, p)), LatticeAt(outs, preds[1]), Tail(preds))
RECURSIVE LoadAnalysis(_, _, _, _)
LoadVisit(st, kind, outs, l, rest, lat) ==
  IF l \in DOMAIN outs /\ SameLattice(outs[l], lat) THEN LoadAnalysis(st, kind, outs, rest)
  ELSE LoadAnalysis(st, kind, With(outs, l, lat), rest \o st.cache.cfg.out[l])
LoadAnalysis(st, kind, outs, work) ==
  IF work = <<>> THEN outs
  ELSE LoadVisit(st, kind, outs, Head(work), Tail(work),
                 AfterInsts(st, kind, LatticeInto(st, outs, Head(work)), st.fn.body[Head(work)]))

RECURSIVE PreOrder(_, _, _), JoinAbove(_, _)
PreOrder(out, l, seen) ==
  IF Contains(seen, l) THEN seen ELSE Fold(LAMBDA acc, k : PreOrder(out, k, acc), Append(seen, l), out[l])
JoinAbove(cfg, l) == IF Len(cfg.in[l]) = 1 THEN JoinAbove(cfg, cfg.in[l][1]) ELSE l

(* A load of one known value is that value; of several, it is a phi where  *)
(* the paths meet, if each of them brings one variable.                    *)
PhiOperands(st, outs, join, ptr) ==
  FlattenSeq([k \in DOMAIN st.cache.cfg.in[join] |->
    LET p == st.cache.cfg.in[join][k]
    IN IF ptr \in DOMAIN outs[p] THEN <<Lab(p), outs[p][ptr]>> ELSE <<>>])
OneVariable(values) == Len(values) = 1 /\ IsVar(values[1])
AsPhi(st, id, ops, values, join) ==
  LET phi == AddBefore(st, st.fn.body[join][1], "phi", [k \in DOMAIN ops |-> IF k % 2 = 0 THEN ops[k][1] ELSE ops[k]])
  IN IF \E k \in DOMAIN ops : k % 2 = 0 /\ ~OneVariable(ops[k]) THEN st
     ELSE IF Len(ops) # 2 * Len(values) THEN Fail(st, "load of several values")
     ELSE Update(phi, id, "assign", <<FreshVar(st.fn)>>)
HandleLoad(st, outs, id, ptr, values) ==
  CASE Len(values) = 0 -> st
    [] Len(values) = 1 -> Update(st, id, "assign", values)
    [] OTHER -> LET join == JoinAbove(st.cache.cfg, st.fn.inst[id].bb)
                IN AsPhi(st, id, PhiOperands(st, outs, join, ptr), values, join)
HandleStore(st, id, values) ==
  IF values # <<>> /\ \A k \in DOMAIN values : AreEquivalent(st.fn, st.cache.dfg, st.fn.inst[id].args[1], values[k])
  THEN Update(st, id, "nop", <<>>) ELSE st

ValuesAt(lat, ptr) == IF ptr \in DOMAIN lat THEN lat[ptr] ELSE <<>>
EliminateAt(s, t, kind, outs, id, lat) ==
  LET i == s.fn.inst[id] IN
    IF t.fault # NoFault THEN t
    ELSE IF i.op = kind.load THEN HandleLoad(t, outs, id, KeyOfPointer(i.args[1]), ValuesAt(lat, KeyOfPointer(i.args[1])))
    ELSE IF i.op = kind.store THEN HandleStore(t, id, ValuesAt(lat, KeyOfPointer(i.args[2])))
    ELSE t
(* s is the function that was analysed, t what has become of it. *)
EliminateInBlock(s, t, kind, outs, l) ==
  IF t.fault # NoFault THEN t
  ELSE Fold(LAMBDA acc, id : <<EliminateAt(s, acc[1], kind, outs, id, acc[2]), AfterInst(s, kind, acc[2], s.fn.inst[id])>>,
                <<t, LatticeInto(s, outs, l)>>, s.fn.body[l])[1]
EliminateKind(s, t, kind, outs) ==
  IF t.fault # NoFault THEN t ELSE Fold(LAMBDA x, l : EliminateInBlock(s, x, kind, outs, l), t, s.fn.order)

(* A value that is stored is an object that the loads of it get to share.  *)
StoredOnce(f) ==
  [f EXCEPT !.inst = <<>> \o [id \in DOMAIN @ |-> IF @[id].op \in Range(StoreOpOf)
                                                  THEN [@[id] EXCEPT !.args[1] = Shared(@, <<"stored", id>>)] ELSE @[id]]]
EliminateLoads(s) ==
  LET walk == PreOrder(s.cache.cfg.out, Entry(s.fn), <<>>)
  IN Fold(LAMBDA t, kind : EliminateKind(s, t, kind, LoadAnalysis(s, kind, Nothing, walk)), s, LoadKinds)
StoresNamed(s) == EditFn(s, StoredOnce(s.fn))
LoadElimination(st) ==
  Invalidate(EnsureWellFormed(EliminateLoads(StoresNamed(Request(st, <<"cfg", "dfg">>)))), {"live", "dfg"})

---------------------------------------------------------------------------
(* MemMergePass.  copies are the pending copies of a block, in the order   *)
(* of their destinations; loads maps a variable to the address it was      *)
(* loaded from.  A copy keeps the instructions it stands for.              *)

Copy(dst, src, len, ids) == [dst |-> dst, src |-> src, len |-> len, ids |-> ids]
CopyKind(load, copy, mayOverlap) == [load |-> load, copy |-> copy, mayOverlap |-> mayOverlap]
Intersects(a, n, b, m) == Max({a, b}) < Min({a + n, b + m})
Overwrites(c, at, len) == Intersects(c.dst, c.len, at, len)
CanMerge(c, d) == c.src - d.src = c.dst - d.dst /\ d.dst <= c.dst + c.len
Merged(c, d) == [c EXCEPT !.len = Max({c.dst + c.len, d.dst + d.len}) - c.dst, !.ids = @ \o d.ids]
MergeStart(st) == [st |-> st, copies |-> <<>>, loads |-> Nothing]

RECURSIVE MergeNear(_, _, _)
MergeNear(copies, k, index) ==      \* k and index count from 1
  IF k >= Min({index + 1, Len(copies)}) THEN copies
  ELSE IF CanMerge(copies[k], copies[k + 1])
       THEN MergeNear(SubSeq(copies, 1, k - 1) \o <<Merged(copies[k], copies[k + 1])>> \o SubSeq(copies, k + 2, Len(copies)), k, index)
       ELSE MergeNear(copies, k + 1, index)
AddCopy(m, c) ==
  LET index == 1 + Len(SelectSeq(m.copies, LAMBDA d : d.dst < c.dst))
  IN [m EXCEPT !.copies = MergeNear(InsertAt(@, index, c), Max({index - 1, 1}), index)]

InOrder(f, ids) == SortSeq(ids, LAMBDA a, b : PositionOf(f, a) < PositionOf(f, b))
NopCopied(st, kind, c, pin, id) ==
  LET i == st.fn.inst[id]
      kept == i.op = kind.load /\ (id = pin \/ ~(Uses(st.cache.dfg, i.out) \subseteq Range(c.ids)))
  IN IF kept THEN {} ELSE {id}
NopAll(st, ids) == FoldSet(LAMBDA id, s : Update(s, id, "nop", <<>>), st, ids)
FlushInto(st, kind, c, id, pin) ==
  LET length == c.len
      loaded == AddBefore(st, id, kind.load, <<Lit(c.src)>>)
      fused == IF length # WordBytes \/ kind.load = "dload" THEN Update(st, id, kind.copy, <<Lit(length), Lit(c.src), Lit(c.dst)>>)
               ELSE IF st.fn.inst[id].op = "mstore" THEN st
               ELSE Update(loaded, id, "mstore", <<FreshVar(st.fn), Lit(c.dst)>>)
  IN NopAll(fused, UNION {NopCopied(fused, kind, c, pin, j) : j \in Range(c.ids) \ {id}})
FlushCopy(st, kind, c) ==
  LET id == Last(InOrder(st.fn, c.ids))
      pinned == c.len = WordBytes /\ st.fn.inst[id].op = "mstore"
  IN FlushInto(st, kind, c, id, IF pinned THEN st.cache.dfg.def[st.fn.inst[id].args[1]] ELSE 0)
BarrierFor(m, kind, Hazard(_)) ==
  [m EXCEPT !.st = Fold(LAMBDA s, c : IF Hazard(c) THEN FlushCopy(s, kind, c) ELSE s, @, m.copies),
            !.copies = SelectSeq(@, LAMBDA c : ~Hazard(c))]
HardBarrier(m, kind) == [BarrierFor(m, kind, LAMBDA c : TRUE) EXCEPT !.loads = Nothing]

ForgetLoads(m, kind, at, len) ==
  IF kind.mayOverlap THEN m
  ELSE [m EXCEPT !.loads = Drop(@, {v \in DOMAIN @ : Intersects(@[v], WordBytes, at, len)})]
WriteAfterWrite(new, c) == ~CanMerge(c, new) /\ ~CanMerge(new, c) /\ Overwrites(new, c.dst, c.len)
NoHazards(m, kind, new) ==
  LET written == BarrierFor(m, kind, LAMBDA c : WriteAfterWrite(new, c))
      read == BarrierFor(written, kind, LAMBDA c : Overwrites(c, new.src, new.len))
  IN IF kind.mayOverlap THEN written ELSE BarrierFor(read, kind, LAMBDA c : Overwrites(new, c.src, c.len))
TakeCopy(m, kind, c) == AddCopy(NoHazards(ForgetLoads(m, kind, c.dst, c.len), kind, c), c)

MergeLoad(m, kind, i, at) ==
  IF ~IsLit(at) THEN HardBarrier(m, kind)
  ELSE [(IF kind.mayOverlap THEN m ELSE BarrierFor(m, kind, LAMBDA c : Overwrites(c, at[2], WordBytes)))
        EXCEPT !.loads = With(@, i.out, at[2])]
MergeStore(m, kind, id, value, dst) ==
  IF ~IsLit(dst) \/ value \notin DOMAIN m.loads THEN HardBarrier(m, kind)
  ELSE TakeCopy(m, kind, Copy(dst[2], m.loads[value], WordBytes, <<id, m.st.cache.dfg.def[value]>>))
MergeCopy(m, kind, id, args) ==
  IF ~(\A k \in DOMAIN args : IsLit(args[k])) THEN HardBarrier(m, kind)
  ELSE TakeCopy(m, kind, Copy(args[3][2], args[2][2], args[1][2], <<id>>))
VolatileMemory(op) == "MEMORY" \in Reads(op) \union Writes(op)
MergeInst(m, kind, id, i) ==
  CASE i.op = kind.load -> MergeLoad(m, kind, i, i.args[1])
    [] i.op = "mstore" -> MergeStore(m, kind, id, i.args[1], i.args[2])
    [] i.op = kind.copy -> MergeCopy(m, kind, id, i.args)
    [] OTHER -> IF VolatileMemory(i.op) THEN HardBarrier(m, kind) ELSE m
MergeBlock(st, kind, l) ==
  IF st.fault # NoFault THEN st
  ELSE HardBarrier(Fold(LAMBDA m, id : MergeInst(m, kind, id, m.st.fn.inst[id]), MergeStart(st), st.fn.body[l]), kind).st

(* _handle_bb_memzero: a copy of what lies beyond the call data is zeros.  *)
ZeroCopy(st, c) ==
  LET id == Last(c.ids)
      sized == AddBefore(st, id, "calldatasize", <<>>)
  IN NopAll(IF c.len = WordBytes THEN Update(st, id, "mstore", <<Lit(0), Lit(c.dst)>>)
            ELSE Update(sized, id, "calldatacopy", <<Lit(c.len), FreshVar(st.fn), Lit(c.dst)>>),
            Range(c.ids) \ {id})
ZeroBarrier(m) == [MergeStart(Fold(ZeroCopy, m.st, m.copies)) EXCEPT !.loads = Nothing]
FromCalldataEnd(st, o) == IsVar(o) /\ st.fn.inst[st.cache.dfg.def[o]].op = "calldatasize"
ZeroInst(m, id, i) ==
  CASE i.op = "mstore" -> IF IsLit(i.args[2]) /\ IsLit(i.args[1]) /\ i.args[1][2] = 0
                          THEN AddCopy(m, Copy(i.args[2][2], i.args[2][2], WordBytes, <<id>>)) ELSE ZeroBarrier(m)
    [] i.op = "calldatacopy" -> IF FromCalldataEnd(m.st, i.args[2]) /\ IsLit(i.args[3]) /\ IsLit(i.args[1])
                                THEN AddCopy(m, Copy(i.args[3][2], i.args[3][2], i.args[1][2], <<id>>)) ELSE ZeroBarrier(m)
    [] OTHER -> IF VolatileMemory(i.op) THEN ZeroBarrier(m) ELSE m
ZeroBlock(st, l) ==
  IF st.fault # NoFault THEN st
  ELSE ZeroBarrier(Fold(LAMBDA m, id : ZeroInst(m, id, m.st.fn.inst[id]), MergeStart(st), st.fn.body[l])).st

(* _merge_mstore_dload: the store of a load from the code becomes a copy,  *)
(* and what else reads the load in the block then reads the copy.          *)
MoveUses(st, v, id) ==
  FoldSet(LAMBDA use, s : UpdateOperands(s, use, v, st.fn.inst[id].out), st, Uses(st.cache.dfg, v) \ {id})
CopyFor(dload, store) == <<Lit(WordBytes), dload.args[1], store.args[2]>>
CopyStored(st, id, store) ==
  NopAll(Update(st, store, "dloadbytes", CopyFor(st.fn.inst[id], st.fn.inst[store])), {id})
LoadBack(s, id, store) ==
  LET loaded == UpdateTo(EditFn(s, TakeVar(s.fn)), store, "mload", <<s.fn.inst[store].args[2]>>, FreshVar(s.fn))
  IN NopAll(MoveUses(loaded, s.fn.inst[id].out, store), {id})
CopyThenLoad(st, id, store) ==
  LoadBack(InsertBefore(st, store, "dloadbytes", CopyFor(st.fn.inst[id], st.fn.inst[store])), id, store)
MergeStoredLoad(st, id) ==
  LET v == st.fn.inst[id].out
      uses == Uses(st.cache.dfg, v)
      here == SelectSeq(st.fn.body[st.fn.inst[id].bb], LAMBDA j : v \in Inputs(st.fn.inst[j]))
      only == CHOOSE j \in uses : TRUE
  IN IF st.fn.inst[id].op # "dload" THEN st
     ELSE IF Cardinality(uses) = 1 THEN (IF st.fn.inst[only].op = "mstore" THEN CopyStored(st, id, only) ELSE st)
     ELSE IF here = <<>> \/ st.fn.inst[here[1]].op # "mstore" \/ st.fn.inst[here[1]].args[1] # v THEN st
     ELSE CopyThenLoad(st, id, here[1])
MergeStoredLoads(st, l) == Fold(MergeStoredLoad, st, st.fn.body[l])

FromCallData == CopyKind("calldataload", "calldatacopy", TRUE)
FromCode == CopyKind("dload", "dloadbytes", TRUE)
FromMemory == CopyKind("mload", "mcopy", FALSE)
MergeIn(t, l) ==
  Fold(LAMBDA s, kind : MergeBlock(s, kind, l), ZeroBlock(MergeStoredLoads(t, l), l), <<FromCallData, FromCode, FromMemory>>)
MergeAll(s) == Fold(MergeIn, s, s.fn.order)
MemMerge(st) == Invalidate(MergeAll(Request(st, <<"dfg">>)), {"live"})

---------------------------------------------------------------------------
(* LowerDloadPass: data behind the code are copied to memory, a word by    *)
(* way of the scratch space.                                               *)

Addressed(f, id, src) == TakeVar(Insert(f, f.inst[id].bb, PositionOf(f, id), "add", FreshVar(f), <<src, CodeEnd>>))
LowerLoad(f, id) ==
  LET g == Addressed(f, id, f.inst[id].args[1])
      copied == Insert(g, f.inst[id].bb, PositionOf(g, id), "codecopy", NoOutput, <<Lit(WordBytes), FreshVar(f), Lit(Scratch)>>)
  IN Become(copied, id, "mload", <<Lit(Scratch)>>)
LowerCopy(f, id) ==
  LET args == f.inst[id].args
  IN Become(Addressed(f, id, args[2]), id, "codecopy", <<args[1], FreshVar(f), args[3]>>)
LowerInst(f, id) ==
  CASE f.inst[id].op = "dload" -> LowerLoad(f, id)
    [] f.inst[id].op = "dloadbytes" -> LowerCopy(f, id)
    [] OTHER -> f
LowerDload(st) == Invalidate(EditFn(st, Fold(LowerInst, st.fn, AllIds(st.fn))), {"live", "dfg"})
=============================================================================
