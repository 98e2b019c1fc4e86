------------------------------ MODULE Builtins ------------------------------
(***************************************************************************)
(* The code of builtin functions (builtins/functions.py) on the values of  *)
(* their arguments, a.                                                     *)
(*                                                                         *)
(* Left out are the functions whose constants are made for words of 256    *)
(* bits (isqrt), those that create contracts, those that call precompiled  *)
(* contracts, and those on the code of contracts or on blocks.             *)
(***************************************************************************)
EXTENDS Codegen

CONSTANTS Radix, ZeroDigit,       \* 10 and the code of the digit 0
          SelectorBytes           \* 4
CONSTANTS MakeSetter(_, _, _), AbiEncode(_, _, _, _)      \* those of Setters and AbiEncoder

(* A copy in the buffer, and the pointer to it. *)
EnsureInMemory(v, buffer) ==
  IF v.loc = "memory" THEN v ELSE InMem(Sequence(<<MakeSetter(InMem(buffer, v.typ), v, <<>>), buffer>>), v.typ)
CopyInMemory(v, buffer) == InMem(Sequence(<<MakeSetter(InMem(buffer, v.typ), v, <<>>), buffer>>), v.typ)
BufferFor(e, k, t) == Place(e.buf[k], SizeInBytes(t))

---------------------------------------------------------------------------
(* Numbers *)

Opp(ir) == IR("sub", <<Number(0), ir>>)
Floor(v) ==
  Cached("arg", v, LAMBDA x :
    IR("if", <<IR("slt", <<x.ir, Number(0)>>),
               IR("sdiv", <<IR("sub", <<x.ir, Number(DecimalDivisor - 1)>>), Number(DecimalDivisor)>>),
               IR("sdiv", <<x.ir, Number(DecimalDivisor)>>)>>))
Ceil(v) ==
  Cached("arg", v, LAMBDA x :
    IR("if", <<IR("slt", <<x.ir, Number(0)>>),
               IR("sdiv", <<x.ir, Number(DecimalDivisor)>>),
               IR("sdiv", <<Add(x.ir, Number(DecimalDivisor - 1)), Number(DecimalDivisor)>>)>>))
AbsOf(v) ==
  With("orig", v.ir,
    IR("if", <<IR("slt", <<Name("orig"), Number(0)>>),
               Sequence(<<Asserts(IR("ne", <<Name("orig"), Opp(Name("orig"))>>)), Opp(Name("orig"))>>), Name("orig")>>))

Shift(v, bits) ==
  Cached("to_shift", v, LAMBDA x :
    Cached("bits", bits, LAMBDA b :
      IR("if", <<IR("slt", <<b.ir, Number(0)>>), IR(IF v.typ.signed THEN "sar" ELSE "shr", <<Opp(b.ir), x.ir>>),
                 IR("shl", <<b.ir, x.ir>>)>>)))

UnsafeOp == [unsafe_add |-> "add", unsafe_sub |-> "sub", unsafe_mul |-> "mul", unsafe_div |-> "div"]
UnsafeMath(f, x, y) ==
  LET t == x.typ
      ret == IR(IF f = "unsafe_div" /\ t.signed THEN "sdiv" ELSE UnsafeOp[f], <<x.ir, y.ir>>)
  IN IF t.bits = WordBits THEN ret
     ELSE IF t.signed THEN PromoteSigned(ret, t.bits)
     ELSE IR("mod", <<ret, Number(2 ^ t.bits)>>)
MinMaxOp(f, t) == IF f = "min" THEN (IF t = UINT256 THEN "lt" ELSE "slt") ELSE (IF t = UINT256 THEN "gt" ELSE "sgt")
MinMax(f, x, y) ==
  Cached("_l", x, LAMBDA l : Cached("_r", y, LAMBDA r :
    IR("select", <<IR(MinMaxOp(f, x.typ), <<l.ir, r.ir>>), l.ir, r.ir>>)))

SafeProduct(ans, v, denom) ==
  IR("or", <<IR("eq", <<IR("div", <<ans, v.ir>>), Number(denom)>>), IR("iszero", <<v.ir>>)>>)
WeiOf(v, denom) ==
  IF v.typ.kind = "decimal"
  THEN AssertThen(IR("sge", <<v.ir, Number(0)>>),
                  IR("div", <<IR("mul", <<v.ir, Number(denom)>>), Number(DecimalDivisor)>>))
  ELSE CachedNode("ans", IR("mul", <<v.ir, Number(denom)>>), LAMBDA ans :
         AssertThen(IF v.typ.signed THEN IR("and", <<IR("sge", <<v.ir, Number(0)>>), SafeProduct(ans, v, denom)>>)
                    ELSE SafeProduct(ans, v, denom), ans))
AsWeiValue(v, denom) == Cached("value", v, LAMBDA x : WeiOf(x, denom))

(* The digits are written from the right, each over the upper bytes of the *)
(* one before; the length goes where the next digit would.                 *)
DigitsOf(t) == CHOOSE k \in 1 .. WordBits : CappedPower(Radix, k) >= 2 ^ t.bits /\ CappedPower(Radix, k - 1) < 2 ^ t.bits
Uint2StrLoop(buf, digits, val, i) ==
  LET here == IR("sub", <<Add(buf, Number(digits)), i>>)
      done == Sequence(<<IR("mstore", <<here, i>>), IR("set", <<val, here>>), Name("break")>>)
      digit == Sequence(<<IR("mstore", <<here, Add(Number(ZeroDigit), IR("mod", <<val, Number(Radix)>>))>>),
                          IR("set", <<val, IR("div", <<val, Number(Radix)>>)>>)>>)
  IN IR("repeat", <<i, Number(0), Number(digits + 1), Number(digits + 1),
                    Sequence(<<IR("if", <<IR("eq", <<val, Number(0)>>), done, digit>>)>>)>>)
Uint2Str(e, v) ==
  LET buf == BufferFor(e, 1, e.typ) IN
  Cached("val", v, LAMBDA val :
    IR("if", <<IR("eq", <<val.ir, Number(0)>>),
               Sequence(<<IR("mstore", <<Add(buf, Number(1)), Number(ZeroDigit)>>), IR("mstore", <<buf, Number(1)>>), buf>>),
               Sequence(<<Uint2StrLoop(buf, DigitsOf(v.typ), val.ir, Name("uint2str_i")), val.ir>>)>>))

---------------------------------------------------------------------------
(* Bytes *)

(* keccak256_helper *)
HashOf(v, buffer) ==
  IF v.typ = BYTES32
  THEN Sequence(<<IR("mstore", <<Number(FreeVarSpace), v.ir>>), IR("sha3", <<Number(FreeVarSpace), Number(WordBytes)>>)>>)
  ELSE Cached("buf", EnsureInMemory(v, buffer), LAMBDA p : IR("sha3", <<DataPtr(p).ir, LengthOf(p)>>))

(* Storage is copied by whole words: the copy begins before the place for  *)
(* the data, and the length is written last.                               *)
SliceCopy(dst, src, start, length, bound) ==
  LET data == IF IsBytestring(src.typ) THEN DataPtr(src) ELSE src
      inWord == IR("mod", <<start, Number(WordBytes)>>)
  IN IF WordScale(src.loc) = 1
     THEN CopyBytes(WithNode(DataPtr(dst), IR("sub", <<DataPtr(dst).ir, inWord>>)),
                    AddOfst(data, IR("div", <<start, Number(WordBytes)>>)),
                    Add(length, IR("mul", <<Number(WordBytes), IR("iszero", <<IR("iszero", <<inWord>>)>>)>>)),
                    bound + WordBytes)
     ELSE CopyBytes(DataPtr(dst), AddOfst(data, start), length, bound)
SliceTo(dst, src, start, length, bound) ==
  Sequence(<<CheckBufferOverflow(start, length, IF IsBytestring(src.typ) THEN LengthOf(src) ELSE Number(WordBytes)),
             SliceCopy(dst, src, start, length, bound), STORE(dst, length), dst.ir>>)
SliceFrom(e, src, start, length) ==
  LET maxlen == IF IsBytestring(src.typ) THEN src.typ.n ELSE WordBytes IN
  Cached("src", src, LAMBDA s : Cached("start", start, LAMBDA st : Cached("length", length, LAMBDA n :
    SliceTo(Local(e.buf[1], BytesT((IF IsInt(n.ir) THEN n.ir.n ELSE maxlen) + WordBytes)), s, st.ir, n.ir,
            IF IsInt(n.ir) THEN n.ir.n ELSE maxlen))))
SliceOfData(e, start, length) ==      \* of msg.data
  LET dst == Local(e.buf[1], BytesT(length.ir.n)) IN
  Cached("start", start, LAMBDA st :
    Sequence(<<CheckBufferOverflow(st.ir, length.ir, Name("calldatasize")), STORE(dst, length.ir),
               IR("calldatacopy", <<DataPtr(dst).ir, st.ir, length.ir>>), dst.ir>>))
MayOverlap(e, k) == PotentialOverlap(e.args[1], e.args[k])
Slice(e, a) ==
  IF a[1].ir.op = "~calldata" THEN SliceOfData(e, a[2], a[3])
  ELSE IF ~IsPointer(a[1]) THEN SliceFrom(e, EnsureInMemory(a[1], BufferFor(e, 2, a[1].typ)), a[2], a[3])
  ELSE IF MayOverlap(e, 2) \/ MayOverlap(e, 3)
  THEN SliceFrom(e, CopyInMemory(a[1], BufferFor(e, 2, a[1].typ)), a[2], a[3])
  ELSE SliceFrom(e, a[1], a[2], a[3])

ConcatPart(dst, v) ==
  LET ofst == Name("concat_ofst")
      place == AddOfst(DataPtr(dst), ofst)
  IN IF IsBytestring(v.typ)
     THEN <<Cached("arg", v, LAMBDA p : CachedNode("len", LengthOf(p), LAMBDA n :
              Sequence(<<CopyBytes(place, DataPtr(p), n, v.typ.n), IR("set", <<ofst, Add(ofst, n)>>)>>)))>>
     ELSE <<STORE(place, UnwrapLocation(v).ir), IR("set", <<ofst, Add(ofst, Number(v.typ.n))>>)>>
Concat(e, a) ==
  LET dst == Local(e.buf[1], BytesT(e.typ.n + WordBytes)) IN
  With("concat_ofst", Number(0),
       Sequence(FlattenSeq([k \in DOMAIN a |-> ConcatPart(dst, a[k])]) \o <<STORE(dst, Name("concat_ofst")), dst.ir>>))

(* A word at any place of a byte string.  That of storage may lie in two   *)
(* slots.                                                                  *)
WordInSlots(data, slot, ofst) ==
  LET left == IR("shl", <<IR("mul", <<Number(ByteBits), ofst>>), LOAD(AddOfst(data, slot))>>)
      right == IR("shr", <<IR("mul", <<Number(ByteBits), IR("sub", <<Number(WordBytes), ofst>>)>>),
                           LOAD(AddOfst(data, Add(slot, Number(1))))>>)
  IN IR("if", <<ofst, IR("or", <<left, right>>), left>>)
WordAt(data, index) ==
  IF WordScale(data.loc) # 1 THEN LOAD(AddOfst(data, index))
  ELSE CachedNode("byte_ofst", IR("mod", <<index, Number(WordBytes)>>), LAMBDA ofst :
         CachedNode("slot", IR("div", <<index, Number(WordBytes)>>), LAMBDA slot : WordInSlots(data, slot, ofst)))
(* Mutant: the index is clamped without a sign. *)
ExtractUnsigned(bytez, index) ==
  Cached("_sub", bytez, LAMBDA p :
    CachedNode("_index", Clamp2(Number(0), index.ir, IR("sub", <<LengthOf(p), Number(WordBytes)>>), FALSE), LAMBDA i :
      WordAt(DataPtr(p), i)))
ExtractFrom(bytez, index) ==
  Cached("_sub", bytez, LAMBDA p :
    CachedNode("_index", Clamp2(Number(0), index.ir, IR("sub", <<LengthOf(p), Number(WordBytes)>>), TRUE), LAMBDA i :
      WordAt(DataPtr(p), i)))
Extract32(e, a) ==
  ClampBasetype(Word(ExtractFrom(IF MayOverlap(e, 2) THEN CopyInMemory(a[1], BufferFor(e, 1, a[1].typ)) ELSE a[1], a[2]),
                     e.typ)).ir

---------------------------------------------------------------------------
(* Encoding *)

NeedsWrap(t) == ~(IsTupleLike(t) /\ Len(t.of) > 1)      \* needs_external_call_wrap
TupleFromArgs(vs) == Multi(vs, TupleT(<<>> \o [k \in DOMAIN vs |-> vs[k].typ]))
ReturnType(t) == IF NeedsWrap(t) THEN TupleT(<<t>>) ELSE t
WrapForReturn(v) == IF NeedsWrap(v.typ) THEN TupleFromArgs(<<v>>) ELSE v

(* e.n tells whether a single value is wrapped, e.data holds the method id *)
(* if there is one.                                                        *)
EncodeInput(e, a) == IF Len(a) = 1 /\ e.n = 0 THEN a[1] ELSE TupleFromArgs(a)
AbiEncodeTo(e, v) ==
  LET buf == BufferFor(e, 1, e.typ)
      code(ofst) == AbiEncode(Add(buf, Number(ofst)), v, TRUE, e.buf[2])
  IN IF e.data = <<>> THEN Sequence(<<IR("mstore", <<buf, code(WordBytes)>>), buf>>)
     ELSE Sequence(<<IR("mstore", <<Add(buf, Number(SelectorBytes)), Number(e.data[1])>>),
                     IR("mstore", <<buf, Add(code(WordBytes + SelectorBytes), Number(SelectorBytes))>>), buf>>)

(* The data must have the right length, and every part of it must lie in   *)
(* it.                                                                     *)
DecodeFrom(p, t, out) ==
  LET data == DataPtr(p).ir
      least == StaticSize(t)
      most == SizeBound(t)
  IN Sequence(<<IF least = most THEN Asserts(IR("eq", <<Number(least), LengthOf(p)>>))
                ELSE Clamp2(Number(least), LengthOf(p), Number(most), FALSE),
                MakeSetter(out, Val(data, t, "memory", TRUE), <<Add(data, LengthOf(p))>>),
                out.ir>>)
AbiDecode(e, v) ==
  LET t == IF e.n = 1 THEN ReturnType(e.typ) ELSE e.typ IN
  Cached("to_decode", EnsureInMemory(v, BufferFor(e, 2, v.typ)), LAMBDA p : DecodeFrom(p, t, Local(e.buf[1], t)))

---------------------------------------------------------------------------
(* Calls and logs *)

Propagate(call) ==      \* check_external_call
  IR("if", <<IR("iszero", <<call>>),
             Sequence(<<IR("returndatacopy", <<Number(0), Number(0), Name("returndatasize")>>),
                        IR("revert", <<Number(0), Name("returndatasize")>>)>>)>>)
Send(to, value) == Asserts(IR("call", <<Number(0), to.ir, value.ir, Number(0), Number(0), Number(0), Number(0)>>))
AtMost(n) == IR("select", <<IR("lt", <<Number(n), Name("returndatasize")>>), Number(n), Name("returndatasize")>>)

(* raw_call: e.n is max_outsize, e.op ends in "!" when a failure is not to *)
(* be passed on.  data that is in a known place needs no variable.         *)
CallWith(p, to, value, out, outsize) ==
  Cached("_to", to, LAMBDA t : Cached("_value", value, LAMBDA v :
    CachedNode("_gas", Name("gas"), LAMBDA g :
      IR("call", <<g, t.ir, v.ir, DataPtr(p).ir, LengthOf(p),
                   IF outsize = 0 THEN Number(0) ELSE DataPtr(out).ir, Number(outsize)>>))))
CallOn(v, to, value, out, outsize) ==
  IF v.ir.args = <<>> THEN CallWith(v, to, value, out, outsize)
  ELSE With("arg_buf", v.ir, CallWith(WithNode(v, Name("arg_buf")), to, value, out, outsize))
StoredSize(out, outsize) == Sequence(<<STORE(out, AtMost(outsize)), out.ir>>)
RawCallResult(e, call, out) ==
  LET reverts == e.op = "raw_call" IN
  IF e.n = 0 THEN (IF reverts THEN Word(Propagate(call), NoT) ELSE Word(call, BoolT))
  ELSE IF reverts THEN InMem(Sequence(<<Propagate(call), StoredSize(out, e.n)>>), BytesT(e.n))
  ELSE Multi(<<Word(call, BoolT), InMem(StoredSize(out, e.n), BytesT(e.n))>>, TupleT(<<BoolT, BytesT(e.n)>>))
RawCall(e, a) ==
  LET out == Local(e.buf[1], BytesT(e.n)) IN
  RawCallResult(e, CallOn(EnsureInMemory(a[2], BufferFor(e, 2, a[2].typ)), a[1], a[3], out, e.n), out)

RawRevert(e, v) ==
  Cached("err_buf", EnsureInMemory(v, BufferFor(e, 1, v.typ)), LAMBDA p : IR("revert", <<DataPtr(p).ir, LengthOf(p)>>))
TopicsOf(v) == <<>> \o [k \in DOMAIN v.parts |-> UnwrapLocation(v.parts[k]).ir]
RawLog(e, a) ==
  IF a[2].typ = BYTES32
  THEN Sequence(<<MakeSetter(Local(e.buf[1], BYTES32), a[2], <<>>),
                  IR("log", <<Place(e.buf[1], WordBytes), Number(WordBytes)>> \o TopicsOf(a[1]))>>)
  ELSE With("_sub", EnsureInMemory(a[2], BufferFor(e, 1, a[2].typ)).ir,
            IR("log", <<Add(Name("_sub"), Number(WordBytes)), IR("mload", <<Name("_sub")>>)>> \o TopicsOf(a[1])))

(* An event: the indexed arguments are topics, hashed if they are byte     *)
(* strings; the others are encoded.  indexed are their numbers.            *)
TopicOf(v, buffer) == IF IsPrimWord(v.typ) THEN UnwrapLocation(v).ir ELSE HashOf(v, buffer)
LogEvent(e, a, indexed) ==
  LET at == SelectSeq([k \in DOMAIN a |-> k], LAMBDA k : k \in indexed)
      data == SelectSeq([k \in DOMAIN a |-> k], LAMBDA k : k \notin indexed)
      values == TupleFromArgs([k \in DOMAIN data |-> a[data[k]]])
      buf == Place(e.buf[1], SizeBound(values.typ))
  IN IR("log", <<buf, AbiEncode(buf, values, TRUE, e.buf[2]), Number(e.n)>>
               \o [k \in DOMAIN at |-> TopicOf(a[at[k]], BufferFor(e, 3, a[at[k]].typ))])

---------------------------------------------------------------------------

BytesFunctions == {"slice", "concat", "uint2str", "abi_encode", "abi_decode"}      \* give a pointer to memory
CodeOf(e, a) ==
  CASE e.op = "floor" -> Floor(a[1])
    [] e.op = "ceil" -> Ceil(a[1])
    [] e.op = "abs" -> AbsOf(a[1])
    [] e.op = "shift" -> Shift(a[1], a[2])
    [] e.op = "pow_mod256" -> IR("exp", <<a[1].ir, a[2].ir>>)
    [] e.op \in DOMAIN UnsafeOp -> UnsafeMath(e.op, a[1], a[2])
    [] e.op \in {"min", "max"} -> MinMax(e.op, a[1], a[2])
    [] e.op = "as_wei_value" -> AsWeiValue(a[1], e.n)
    [] e.op = "uint2str" -> Uint2Str(e, a[1])
    [] e.op = "keccak256" -> HashOf(a[1], Place(e.buf[1], SizeInBytes(a[1].typ)))
    [] e.op = "len" -> IF a[1].ir.op = "~calldata" THEN Name("calldatasize") ELSE LengthOf(a[1])
    [] e.op = "slice" -> Slice(e, a)
    [] e.op = "concat" -> Concat(e, a)
    [] e.op = "extract32" -> Extract32(e, a)
    [] e.op = "abi_encode" -> AbiEncodeTo(e, EncodeInput(e, a))
    [] e.op = "abi_decode" -> AbiDecode(e, a[1])
    [] e.op = "send" -> Send(a[1], a[2])
    [] e.op = "raw_revert" -> RawRevert(e, a[1])
    [] e.op = "raw_log" -> RawLog(e, a)
Builtin(e, a) ==
  IF e.op \in {"raw_call", "raw_call!"} THEN RawCall(e, a)
  ELSE IF e.op \in BytesFunctions THEN InMem(CodeOf(e, a), e.typ)
  ELSE Word(CodeOf(e, a), e.typ)
=============================================================================
