------------------------------- MODULE Codegen -------------------------------
(***************************************************************************)
(* What the code generators share (codegen/core.py): values, pointers into *)
(* the address spaces, the checks that a word is a value of its type, and  *)
(* the copying of values from one place to another.                        *)
(*                                                                         *)
(* A value is a node with a type.  With a location, the node is a pointer  *)
(* to the value; abi tells that what it points to is encoded by the ABI,   *)
(* which nobody has checked.  A tuple or an array written out in the       *)
(* source has its elements as parts.                                       *)
(*                                                                         *)
(* Names of loop variables are fresh in the code; here they carry the      *)
(* nesting depth of the type that is looped over.  The symbols that guard  *)
(* against generating a side effect twice are left out.                    *)
(***************************************************************************)
EXTENDS IRNodes, SyntaxTree

CONSTANTS settings,     \* experimental: BOOLEAN; optimize: "none", "gas", "codesize"
          optimized     \* of a node: what the optimizer makes of it
CONSTANTS SizeInBytes(_), SizeIn(_, _), IsDynamic(_), StaticSize(_), EmbeddedStaticSize(_), SizeBound(_), IsComplexAbi(_),
          NeedsClamp(_, _), AssignableTypes(_, _)      \* those of AbiTypes

Val(ir, typ, loc, abi) == [ir |-> ir, typ |-> typ, loc |-> loc, abi |-> abi, parts |-> <<>>]
Word(ir, typ) == Val(ir, typ, "none", FALSE)
Literal(n, typ) == Word(Number(n), typ)
Pointer(loc, ir, typ) == Val(ir, typ, loc, FALSE)
InMem(ir, typ) == Pointer("memory", ir, typ)
(* A place in the frame of the function.  Under the Venom pipeline it may  *)
(* yet be moved, and is named after where it is.                           *)
Place(ofst, size) == IF settings.experimental THEN IR("$alloca", <<Number(ofst), Number(size)>>) ELSE Number(ofst)
Local(ofst, typ) == InMem(Place(ofst, SizeInBytes(typ)), typ)
EmptyOf(typ) == Word(Name("~empty"), typ)
Multi(vs, typ) == [Word(IR("multi", <<>> \o [k \in DOMAIN vs |-> vs[k].ir]), typ) EXCEPT !.parts = vs]
WithNode(v, ir) == [v EXCEPT !.ir = ir]
IsPointer(v) == v.loc # "none"
IsMulti(v) == v.ir.op = "multi"
IsEmptyValue(v) == IsEmpty(v.ir)

(* cache_when_complex: the body uses a variable in the place of a value    *)
(* that is not trivial to compute.  Under the Venom pipeline nodes are not *)
(* optimized before this is decided.                                       *)
Optimized(ir) == IF settings.experimental THEN ir ELSE optimized[ir]
NeedsCache(ir) == IsComplex(Optimized(ir))
ResolveWith(cached, name, ir, body) == IF cached THEN With(name, ir, body) ELSE body
CachedIf(cached, name, v, Body(_)) ==
  ResolveWith(cached, name, v.ir, Body(IF cached THEN WithNode(v, Name(name)) ELSE v))
Cached(name, v, Body(_)) == CachedIf(NeedsCache(v.ir), name, v, Body)
CachedNode(name, ir, Body(_)) == Cached(name, Word(ir, UINT256), LAMBDA v : Body(v.ir))

---------------------------------------------------------------------------
(* A failed sanity check of the generators. *)
TypeFailure == Panic

(* Address spaces. *)

LoadOpOf == [memory |-> "mload", storage |-> "sload", transient |-> "tload", calldata |-> "calldataload"]
StoreOpOf == [memory |-> "mstore", storage |-> "sstore", transient |-> "tstore"]
WordScale(loc) == IF loc \in {"storage", "transient"} THEN 1 ELSE WordBytes

LOAD(p) == IR(LoadOpOf[p.loc], <<p.ir>>)
STORE(p, ir) == IR(StoreOpOf[p.loc], <<p.ir, ir>>)
UnwrapLocation(v) ==
  IF IsPointer(v) THEN Word(LOAD(v), v.typ) ELSE IF IsEmptyValue(v) THEN Literal(0, v.typ) ELSE v
Add(x, y) == IR("add", <<x, y>>)
AddOfst(p, ofst) == WithNode(p, Add(p.ir, ofst))
Asserts(ir) == IR("assert", <<ir>>)
AssertThen(ok, ir) == Sequence(<<Asserts(ok), ir>>)
DataPtr(p) == AddOfst(p, Number(WordScale(p.loc)))          \* bytes_data_ptr, dynarray_data_ptr
LengthOf(v) ==                                              \* get_bytearray_length, get_dyn_array_count
  IF IsMulti(v) THEN Number(Len(v.parts)) ELSE IF IsEmptyValue(v) THEN Number(0) ELSE LOAD(v)

---------------------------------------------------------------------------
(* a to the power b, or what is out of range of all types when it is more  *)
(* than that.                                                              *)
CappedPower(a, b) ==
  LET p[n \in Nat] == IF n = 0 THEN 1 ELSE LET c == a * p[n - 1] IN IF c > Width THEN Width + 1 ELSE c IN p[b]

(* Clamps: a word is let through if it is a value of the type. *)

PromoteSigned(ir, bits) == IR("signextend", <<Number(bits \div ByteBits - 1), ir>>)
IntClamp(ir, bits, signed) ==
  CachedNode("val", ir, LAMBDA val :
    Sequence(<<Asserts(IF signed THEN IR("eq", <<val, PromoteSigned(val, bits)>>)
                      ELSE IR("iszero", <<IR("shr", <<Number(bits), val>>)>>)), val>>))
BytesClamp(ir, m) ==
  CachedNode("val", ir, LAMBDA val : Sequence(<<Asserts(IR("iszero", <<IR("shl", <<Number(m * ByteBits), val>>)>>)), val>>))
ClampNode(ir, t) ==
  CASE t.kind = "flag" -> IntClamp(ir, t.n, FALSE)
    [] IsNumeric(t) /\ t.bits < WordBits -> IntClamp(ir, t.bits, t.signed)
    [] t.kind = "bytesM" /\ t.n < WordBytes -> BytesClamp(ir, t.n)
    [] t.kind = "address" -> IntClamp(ir, AddressBits, FALSE)
    [] t.kind = "bool" -> IntClamp(ir, 1, FALSE)
    [] OTHER -> ir
ClampBasetype(v) == Word(ClampNode(UnwrapLocation(v).ir, v.typ), v.typ)

ClampOp(op, ir, bound) == CachedNode("clamp_arg", ir, LAMBDA arg : Sequence(<<Asserts(IR(op, <<arg, bound>>)), arg>>))
ClampNonzero(ir) == CachedNode("should_nonzero", ir, LAMBDA arg : Sequence(<<Asserts(arg), arg>>))
ClampLe(ir, hi, signed) == ClampOp(IF signed THEN "sle" ELSE "le", ir, hi)
Clamp2(lo, ir, hi, signed) ==
  CachedNode("clamp2_arg", ir, LAMBDA arg :
    Sequence(<<Asserts(IR("and", <<IR(IF signed THEN "sge" ELSE "ge", <<arg, lo>>),
                                  IR(IF signed THEN "sle" ELSE "le", <<arg, hi>>)>>)), arg>>))

(* start + length stays below the length of the source and does not wrap. *)
CheckBufferOverflow(start, length, total) ==
  CachedNode("start", start, LAMBDA s :
    CachedNode("end", Add(s, length), LAMBDA end :
      Asserts(IR("iszero", <<IR("or", <<IR("lt", <<end, s>>), IR("gt", <<end, total>>)>>)>>))))

(* Encoded data in memory may have been sent by anyone, and point outside  *)
(* of its buffer.                                                          *)
DirtyReadRisk(v) == v.abi /\ v.loc = "memory"

RECURSIVE TypeDepth(_)
TypeDepth(t) == IF t.of = <<>> THEN 0 ELSE 1 + TypeDepth(ValueType(t))
LoopIndex(name, t) == Name(name \o ToString(TypeDepth(t)))

Mzero(dst, n) == IR("calldatacopy", <<dst, Name("calldatasize"), n>>)
KeysOf(t) == [k \in 1 .. (IF IsTupleLike(t) THEN Len(t.of) ELSE t.n) |-> Literal(k - 1, UINT256)]

---------------------------------------------------------------------------
(* copy_bytes: up to bound bytes, a whole number of words except where an  *)
(* instruction copies any number.                                          *)
ByteAddressed == {"memory", "calldata"}
CopyAvailable(l, r) == l.loc = "memory" /\ r.loc \in ByteAddressed
CopyWords(dst, src, length, bound) ==
  LET i == Name("copy_bytes_ix")
      There(p) == AddOfst(p, IR("mul", <<i, Number(WordScale(p.loc))>>))
  IN IR("repeat", <<i, Number(0), IR("div", <<Add(Number(WordBytes - 1), length), Number(WordBytes)>>),
                    Number(Ceil32(bound) \div WordBytes), STORE(There(dst), LOAD(There(src)))>>)
CopyResolved(dst, src, length, bound) ==
  IF bound = 0 \/ (IsInt(length) /\ length.n = 0) THEN Sequence(<<>>)
  ELSE IF bound <= WordBytes THEN STORE(dst, LOAD(src))
  ELSE IF CopyAvailable(dst, src) THEN IR(IF src.loc = "memory" THEN "mcopy" ELSE "calldatacopy", <<dst.ir, src.ir, length>>)
  ELSE CopyWords(dst, src, length, bound)
CopyBytes(dst, src, length, bound) ==
  Cached("src", src, LAMBDA s :
    CachedNode("copy_bytes_count", length, LAMBDA n :
      Cached("dst", dst, LAMBDA d : CopyResolved(d, s, n, bound))))
=============================================================================
