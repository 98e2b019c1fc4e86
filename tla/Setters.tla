------------------------------- MODULE Setters -------------------------------
(***************************************************************************)
(* Pointers into values (get_element_ptr of codegen/core.py), and copying  *)
(* a value of any type from one place to another (make_setter).            *)
(*                                                                         *)
(* The code is that for an EVM that has mcopy.  hi is the end of the       *)
(* buffer that encoded data in memory must stay in, <<>> for other data.   *)
(***************************************************************************)
EXTENDS Codegen

RECURSIVE MakeSetter(_, _, _)

---------------------------------------------------------------------------
(* get_element_ptr: the pointer to a member of a struct, an element of an  *)
(* array or an entry of a mapping.                                         *)

(* Encoded elements that are dynamic stand at an offset from their parent. *)
Dereferenced(p, there) ==
  IF DirtyReadRisk(p) THEN Sequence(<<Asserts(IR("ge", <<there, p.ir>>)), there>>) ELSE there
AbiElement(parent, t, ofst) ==
  LET p == IF HasLengthWord(parent.typ) THEN AddOfst(parent, Number(WordBytes)) ELSE parent
      head == AddOfst(p, ofst)
  IN Val(IF IsDynamic(t) THEN Dereferenced(p, Add(p.ir, LOAD(head))) ELSE head.ir, t, parent.loc, TRUE)

OffsetOf(size(_), ts, k) == Number(Fold(LAMBDA n, t : n + size(t), 0, SubSeq(ts, 1, k - 1)))
TupleElement(parent, k) ==
  LET t == parent.typ.of[k] IN
  IF IsEmptyValue(parent) THEN EmptyOf(t)
  ELSE IF IsMulti(parent) THEN parent.parts[k]
  ELSE IF parent.abi THEN AbiElement(parent, t, OffsetOf(EmbeddedStaticSize, parent.typ.of, k))
  ELSE Pointer(parent.loc, Add(parent.ir, OffsetOf(LAMBDA m : SizeIn(m, parent.loc), parent.typ.of, k)), t)

(* The index of an element, and the same when it is within the bounds. *)
CheckedIndex(parent, index) ==
  Cached("ix", index, LAMBDA ix :
    Sequence(<<Asserts(IR("iszero", <<IR("or", <<IR(IF index.typ.signed THEN "slt" ELSE "lt", <<ix.ir, Number(0)>>),
                                                IR("ge", <<ix.ir, IF IsDArray(parent.typ) THEN LengthOf(parent)
                                                                  ELSE Number(parent.typ.n)>>)>>)>>)), ix.ir>>))
ElementAt(parent, t, ix) ==
  IF parent.abi THEN AbiElement(parent, t, IR("mul", <<ix, Number(EmbeddedStaticSize(t))>>))
  ELSE Pointer(parent.loc, Add((IF HasLengthWord(parent.typ) THEN DataPtr(parent) ELSE parent).ir,
                               IR("mul", <<ix, Number(SizeIn(t, parent.loc))>>)), t)
ArrayElement(parent, key, check) ==
  LET t == ValueType(parent.typ) IN
  IF IsEmptyValue(parent) THEN EmptyOf(t)
  ELSE IF IsMulti(parent) THEN parent.parts[key.ir.n + 1]
  ELSE ElementAt(parent, t, IF check THEN CheckedIndex(parent, UnwrapLocation(key)) ELSE UnwrapLocation(key).ir)

MappingElement(parent, key) ==
  Pointer(parent.loc, IR("sha3_64", <<parent.ir, UnwrapLocation(key).ir>>), ValueType(parent.typ))

(* The pointer to a part that is given by an index, for a tuple the number *)
(* of a member.                                                            *)
Element(parent, key, check) ==
  CASE IsTupleLike(parent.typ) -> TupleElement(parent, key.ir.n + 1)
    [] parent.typ.kind = "hashmap" -> MappingElement(parent, key)
    [] OTHER -> ArrayElement(parent, key, check)
ElementIf(cached, parent, inner) == WithNode(inner, ResolveWith(cached, "val", parent.ir, inner.ir))
ElementOf(cached, parent, key, check) ==
  IF IsMulti(parent) THEN Element(parent, key, check)
  ELSE ElementIf(cached, parent, Element(IF cached THEN WithNode(parent, Name("val")) ELSE parent, key, check))
GetElementPtr(parent, key, check) == ElementOf(NeedsCache(parent.ir), parent, key, check)

---------------------------------------------------------------------------
(* _prefer_copy_maxbound_heuristic: gas to compute the length against gas  *)
(* to copy what is unused.                                                 *)
LengthCost(itemSize) ==
  9 + (IF itemSize # 1 THEN 8 ELSE 0) + (IF settings.optimize = "codesize" THEN 45 ELSE 0)
PrefersBound(dst, src, itemSize) ==
  /\ CopyAvailable(dst, src)
  /\ (3 * Ceil32(SizeInBytes(src.typ) - WordBytes)) \div WordBytes <= LengthCost(itemSize)

ByteArrayCopyOf(dst, src) ==
  IF src.typ.n = 0 \/ IsEmptyValue(src) THEN STORE(dst, Number(0))
  ELSE IF src.typ.n <= WordBytes /\ ~CopyAvailable(dst, src)
       THEN Sequence(<<STORE(dst, LengthOf(src)), STORE(DataPtr(dst), LOAD(DataPtr(src)))>>)
  ELSE CopyBytes(dst, src,
                 IF PrefersBound(dst, src, 1) THEN Number(src.typ.n + WordBytes)
                 ELSE Add(LengthOf(src), Number(WordBytes)),
                 src.typ.n + WordBytes)
ByteArrayCopier(dst, src) == Cached("src", src, LAMBDA s : ByteArrayCopyOf(dst, s))

---------------------------------------------------------------------------
(* Encoded data must fit in its type and, in memory, in its buffer. *)

PayloadSize(v) ==
  Add(Number(WordBytes),
      IF IsDArray(v.typ) THEN IR("mul", <<LengthOf(v), Number(EmbeddedStaticSize(v.typ.of[1]))>>) ELSE LengthOf(v))
WithinBuffer(v, hi, check) ==
  IF hi = <<>> THEN check
  ELSE Sequence(<<Asserts(IR("le", <<AddOfst(v, PayloadSize(v)).ir, hi[1]>>)), check>>)
(* Mutant: the length is believed. *)
LengthBelieved(v, hi) == Sequence(<<>>)
ClampBytestring(v, hi) ==
  CachedNode("length", LengthOf(v), LAMBDA length :
    WithinBuffer(v, hi, Asserts(IR("le", <<length, Number(v.typ.n)>>))))
ClampDynArray(v, hi) == WithinBuffer(v, hi, Asserts(IR("le", <<LengthOf(v), Number(v.typ.n)>>)))

---------------------------------------------------------------------------
(* make_setter *)

Assignable(l, r) ==
  /\ AssignableTypes(l.typ, r.typ)
  /\ (l.typ.kind \in {"bytes", "darray"} /\ IsEmptyValue(r)) => l.typ.n = r.typ.n

(* The items before the length, for the case that the array is copied to   *)
(* a place that overlaps it.                                               *)
LiteralArraySetter(dst, src) ==
  Sequence([k \in DOMAIN src.parts |->
              MakeSetter(GetElementPtr(dst, Literal(k - 1, UINT256), FALSE), GetElementPtr(src, Literal(k - 1, UINT256), FALSE), <<>>)]
           \o <<STORE(dst, Number(Len(src.parts)))>>)
LoopSetter(dst, src, count, hi, i) ==
  Sequence(<<IR("repeat", <<i.ir, Number(0), count, Number(src.typ.n),
               MakeSetter(GetElementPtr(dst, i, FALSE), GetElementPtr(src, i, FALSE), hi)>>),
             STORE(dst, count)>>)
ShouldLoop(t, abi) == NeedsClamp(t, abi) \/ IsDynamic(t)
CountedSetter(dst, src, count, hi) ==
  LET t == ValueType(src.typ)
      size == SizeInBytes(t)
      bound == WordBytes + src.typ.n * size
  IN IF ShouldLoop(t, src.abi) THEN LoopSetter(dst, src, count, hi, Word(LoopIndex("copy_darray_ix", src.typ), UINT256))
     ELSE Sequence(<<CopyBytes(dst, src, IF PrefersBound(dst, src, size) THEN Number(bound)
                                         ELSE Add(IR("mul", <<count, Number(size)>>), Number(WordBytes)), bound)>>)
DynArraySetter(dst, src, hi) ==
  IF IsEmptyValue(src) THEN STORE(dst, Number(0))
  ELSE IF IsMulti(src) THEN LiteralArraySetter(dst, src)
  ELSE Cached("darray_src", src, LAMBDA s :
         CachedNode("darray_count", LengthOf(s), LAMBDA count : CountedSetter(dst, s, count, hi)))


(* Whether all words are copied at once.  Where there is no instruction    *)
(* for it, a loop is compared with the stores it replaces.                 *)
IsLiteralPlace(p) == IsLiteral(Optimized(p.ir))
BatchSize(l, r) ==
  IF settings.optimize = "codesize"
  THEN 3 + (IF IsLiteralPlace(l) THEN 1 ELSE 0) + (IF IsLiteralPlace(r) THEN 1 ELSE 0)
  ELSE IF settings.optimize = "gas" THEN 10 ELSE 0
ShouldBatchCopy(l, r) == CopyAvailable(l, r) \/ SizeInBytes(l.typ) >= WordBytes * BatchSize(l, r)
BatchCopyable(l, r) == IsPointer(l) /\ IsPointer(r) /\ ~r.abi /\ ~IsDynamic(r.typ)
MemberSetters(l, r, hi, keys) ==
  Sequence([k \in DOMAIN keys |-> MakeSetter(GetElementPtr(l, keys[k], FALSE), GetElementPtr(r, keys[k], FALSE), hi)])
ComplexSetter(l, r, hi) ==
  IF IsEmptyValue(r) /\ l.loc = "memory" THEN Mzero(l.ir, Number(SizeInBytes(l.typ)))
  ELSE IF BatchCopyable(l, r) /\ ShouldBatchCopy(l, r)
       THEN CopyBytes(l, r, Number(SizeInBytes(l.typ)), SizeInBytes(l.typ))
  ELSE Cached("_L", l, LAMBDA left : Cached("_R", r, LAMBDA right : MemberSetters(left, right, hi, KeysOf(r.typ))))

Clamped(name, v, hi, Clamp(_, _), Copier(_)) ==
  IF NeedsClamp(v.typ, v.abi) THEN Cached(name, v, LAMBDA p : Sequence(<<Clamp(p, hi), Copier(p)>>)) ELSE Copier(v)
EndWithin(v, hi) ==
  IF hi = <<>> THEN <<>> ELSE <<Asserts(IR("le", <<Add(v.ir, Number(StaticSize(v.typ))), hi[1]>>))>>
PrimSetter(l, r) ==
  STORE(l, IF NeedsClamp(r.typ, r.abi) THEN ClampBasetype(UnwrapLocation(r)).ir ELSE UnwrapLocation(r).ir)
MakeSetter(l, r, hi) ==
  CASE ~Assignable(l, r) \/ (hi # <<>>) # DirtyReadRisk(r) -> TypeFailure
    [] IsPrimWord(l.typ) -> PrimSetter(l, r)
    [] IsBytestring(l.typ) -> Clamped("bs_ptr", r, hi, ClampBytestring, LAMBDA p : ByteArrayCopier(l, p))
    [] IsDArray(l.typ) -> Clamped("arr_ptr", r, hi, ClampDynArray, LAMBDA p : DynArraySetter(l, p, hi))
    [] OTHER -> Cached("c_right", r, LAMBDA p : Sequence(EndWithin(p, hi) \o <<ComplexSetter(l, p, hi)>>))

=============================================================================
