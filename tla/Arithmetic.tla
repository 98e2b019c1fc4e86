----------------------------- MODULE Arithmetic -----------------------------
(***************************************************************************)
(* Checked arithmetic (codegen/arithmetic.py) and conversions: code that   *)
(* computes on words and reverts when the result is not a value of the     *)
(* type.  Half is the number of bits whose products fit in a word.         *)
(***************************************************************************)
EXTENDS Codegen

Half == WordBits \div 2
IsEvil(x, n) == IsInt(x.ir) /\ x.ir.n = n
UpperBit == IR("shl", <<Number(WordBits - 1), Number(1)>>)     \* upper_bound
Clamped256(ir, t, Ok(_)) ==
  IF t.bits < WordBits THEN ClampNode(ir, t) ELSE CachedNode("ans", ir, LAMBDA ans : AssertThen(Ok(ans), ans))

SafeAdd(x, y) ==
  Clamped256(Add(x.ir, y.ir), x.typ, LAMBDA ans :
    IF x.typ.signed THEN IR("eq", <<IR("slt", <<y.ir, Number(0)>>), IR("slt", <<ans, x.ir>>)>>) ELSE IR("ge", <<ans, x.ir>>))
SafeSub(x, y) ==
  Clamped256(IR("sub", <<x.ir, y.ir>>), x.typ, LAMBDA ans :
    IF x.typ.signed THEN IR("eq", <<IR("slt", <<y.ir, Number(0)>>), IR("sgt", <<ans, x.ir>>)>>) ELSE IR("le", <<ans, x.ir>>))

(* Mutant: dividing the product is thought to be enough for every pair. *)
DivisionTells(ok, x, y) == ok
(* The smallest number times -1 is not a number, and dividing the product  *)
(* does not tell.  A literal that is not one of the two leaves no risk.    *)
NotEvilProduct(ok, x, y) ==
  LET checkX == IR("ne", <<x.ir, UpperBit>>)
      checkY == IR("ne", <<IR("not", <<y.ir>>), Number(0)>>)
  IN IF ~IsInt(x.ir) /\ ~IsInt(y.ir) THEN IR("and", <<ok, IR("or", <<checkX, checkY>>)>>)
     ELSE IF IsEvil(x, MinSigned) THEN IR("and", <<ok, checkY>>)
     ELSE IF IsEvil(y, -1) THEN IR("and", <<ok, checkX>>)
     ELSE ok
DivisionOp(t) == IF t.signed THEN "sdiv" ELSE "div"
ProductOk(ans, x, y) ==
  IF x.typ.bits <= Half THEN Number(1)
  ELSE IR("or", <<IR("eq", <<IR(DivisionOp(x.typ), <<ans, y.ir>>), x.ir>>), IR("iszero", <<y.ir>>)>>)
ProductCheck(ans, x, y) ==
  IF x.typ = INT256 THEN NotEvilProduct(ProductOk(ans, x, y), x, y) ELSE ProductOk(ans, x, y)
Rescaled(ans, t) == IF t.kind = "decimal" THEN IR(DivisionOp(t), <<ans, Number(DecimalDivisor)>>) ELSE ans
Product(x, y) ==
  CachedNode("ans", IR("mul", <<x.ir, y.ir>>), LAMBDA ans :
    AssertThen(ProductCheck(ans, x, y), ClampNode(Rescaled(ans, x.typ), x.typ)))
SafeMul(x, y) == IF IsInt(x.ir) THEN Product(y, x) ELSE Product(x, y)

QuotientCheck(x, y) ==
  LET checkX == IR("ne", <<x.ir, UpperBit>>)
      checkY == IR("ne", <<y.ir, IR("not", <<Number(0)>>)>>)
  IN IF x.typ # INT256 THEN Number(1)
     ELSE IF ~IsInt(x.ir) /\ ~IsInt(y.ir) THEN IR("or", <<checkY, checkX>>)
     ELSE IF IsEvil(x, MinSigned) THEN checkY
     ELSE IF IsEvil(y, -1) THEN checkX
     ELSE Number(1)
NeverTheEvil(x, n) == IsInt(x.ir) /\ x.ir.n # n
QuotientClamped(res, x, y) ==
  LET skips == x.typ.kind = "int" /\ (NeverTheEvil(x, Lowest(x.typ.bits, TRUE)) \/ NeverTheEvil(y, -1))
  IN IF ~x.typ.signed \/ x.typ = INT256 \/ skips THEN res ELSE ClampNode(res, x.typ)
Dividend(x) == IF x.typ.kind = "decimal" THEN IR("mul", <<x.ir, Number(DecimalDivisor)>>) ELSE x.ir
SafeDiv(x, y) ==
  CachedNode("res", IR(DivisionOp(x.typ), <<Dividend(x), ClampOp("gt", y.ir, Number(0))>>), LAMBDA res :
    AssertThen(QuotientCheck(x, y), QuotientClamped(res, x, y)))
SafeMod(x, y) == IR(IF x.typ.signed THEN "smod" ELSE "mod", <<x.ir, ClampOp("gt", y.ir, Number(0))>>)

---------------------------------------------------------------------------
(* Powers: one side is known, and bounds the other. *)

ValueBits(t) == IF t.signed THEN t.bits - 1 ELSE t.bits
LargestPower(a, t) ==
  LET limit == 2 ^ ValueBits(t)
      fits == {b \in 1 .. t.bits : CappedPower(Abs(a), b) < limit}
      b == IF fits = {} THEN 1 ELSE CHOOSE k \in fits : \A j \in fits : j <= k
  IN IF fits \subseteq {1} THEN 1
     ELSE IF a < 0 /\ b % 2 = 0 /\ CappedPower(Abs(a), b + 1) = limit THEN b + 1 ELSE b
LargestBase(b, t) ==
  LET limit == 2 ^ ValueBits(t)
  IN CHOOSE a \in 0 .. limit : CappedPower(a, b) < limit /\ CappedPower(a + 1, b) >= limit
SmallestBase(b, t) ==
  IF CappedPower(LargestBase(b, t) + 1, b) = 2 ^ ValueBits(t) THEN -(LargestBase(b, t) + 1) ELSE -LargestBase(b, t)

BaseKnown(x, y) ==
  IF x.ir.n \in {-1, 0, 1} THEN IR(IF x.typ.signed THEN "sge" ELSE "ge", <<y.ir, Number(0)>>)
  ELSE IR("le", <<y.ir, Number(LargestPower(x.ir.n, x.typ))>>)
ExponentKnown(x, y) ==
  IF y.ir.n \in {0, 1} THEN Number(1)
  ELSE IF x.typ.signed THEN IR("and", <<IR("sge", <<x.ir, Number(SmallestBase(y.ir.n, x.typ))>>),
                                        IR("sle", <<x.ir, Number(LargestBase(y.ir.n, x.typ))>>)>>)
  ELSE IR("le", <<x.ir, Number(LargestBase(y.ir.n, x.typ))>>)
SafePow(x, y) ==
  AssertThen(IF IsInt(x.ir) THEN BaseKnown(x, y) ELSE ExponentKnown(x, y), IR("exp", <<x.ir, y.ir>>))

SafeBinop(op, x, y) ==
  CASE op = "+" -> SafeAdd(x, y)
    [] op = "-" -> SafeSub(x, y)
    [] op = "*" -> SafeMul(x, y)
    [] op = "/" -> SafeDiv(x, y)
    [] op = "%" -> SafeMod(x, y)
    [] op = "**" -> SafePow(x, y)

---------------------------------------------------------------------------
(* convert(x, type), from builtins/_convert.py.                            *)
(*                                                                         *)
(* literal is <<>>, or holds the number that a literal stands for: its     *)
(* units if it is a decimal, its bits if it is a byte string.              *)

UINT160 == UintT(AddressBits)
Fail == Name("!type failure")                  \* _FAIL, InvalidLiteral

(* _input_types, for each kind of result *)
Accepts == [bool |-> {"int", "decimal", "bytesM", "address", "bool", "bytes"},
            int |-> {"int", "decimal", "bytesM", "address", "bool", "flag", "bytes"},
            decimal |-> {"int", "bool", "bytesM", "bytes"},
            bytesM |-> {"int", "decimal", "bytesM", "address", "bool", "bytes"},
            address |-> {"bytesM", "int", "bytes"},
            bytes |-> {"bytes"},
            flag |-> {"int"}]
MaxBytes(out) == IF out.kind = "bytesM" THEN out.n ELSE WordBytes
InputOk(t, out) ==
  /\ out.kind \in DOMAIN Accepts /\ t.kind \in Accepts[out.kind]
  /\ t = out => t \in {UINT256, INT256}
  /\ (IsBytestring(t) /\ ~IsBytestring(out)) => t.n <= MaxBytes(out)

(* _bytes_to_num: the bytes are at the left of the word, a number is at    *)
(* the right.                                                              *)
BytesToNum(arg, signed) ==
  IR(IF signed THEN "sar" ELSE "shr",
     IF IsBytestring(arg.typ)
     THEN <<IR("mul", <<Number(ByteBits), IR("sub", <<Number(WordBytes), LengthOf(arg)>>)>>), LOAD(DataPtr(arg))>>
     ELSE <<Number(WordBits - MBits(arg.typ)), arg.ir>>)

ClampLow(ir, lo, outLo) == IF lo < outLo THEN ClampOp("sge", ir, Number(outLo)) ELSE ir
ClampHigh(ir, hi, outHi, signed) == IF hi > outHi THEN ClampLe(ir, Number(outHi), signed) ELSE ir
ClampNumeric(ir, t, lo, hi) == ClampHigh(ClampLow(ir, LowestOf(t), lo), HighestOf(t), hi, t.signed)
FixedToInt(arg, out) ==
  IR("sdiv", <<ClampNumeric(arg.ir, arg.typ, LowestOf(out) * DecimalDivisor, HighestOf(out) * DecimalDivisor),
               Number(DecimalDivisor)>>)
IntToFixed(arg, out) ==
  IR("mul", <<ClampNumeric(arg.ir, arg.typ, Quotient(LowestOf(out), DecimalDivisor), Quotient(HighestOf(out), DecimalDivisor)),
              Number(DecimalDivisor)>>)
(* Mutant: a number without a sign keeps all of its bits in a signed type. *)
SignBitForgotten(arg, out) ==
  IF arg.typ.signed /\ ~out.signed
  THEN (IF out.bits < arg.typ.bits THEN IntClamp(arg.ir, out.bits, FALSE) ELSE ClampOp("sge", arg.ir, Number(0)))
  ELSE IF out.bits < arg.typ.bits THEN IntClamp(arg.ir, out.bits, out.signed)
  ELSE arg.ir
IntToInt(arg, out) ==
  LET t == arg.typ IN
  IF t.signed /\ ~out.signed
  THEN (IF out.bits < t.bits THEN IntClamp(arg.ir, out.bits, FALSE) ELSE ClampOp("sge", arg.ir, Number(0)))
  ELSE IF ~t.signed /\ out.signed THEN IntClamp(arg.ir, out.bits - 1, FALSE)
  ELSE IF out.bits < t.bits THEN IntClamp(arg.ir, out.bits, out.signed)
  ELSE arg.ir

(* _signextend: the first bit of the bytes is the sign.  No bytes at all   *)
(* have one too: unsigned_to_signed compares with (1/2) - 1, and zero      *)
(* becomes -1.  An address is not among the types that it knows.           *)
AsSigned(n, bits) == IF 2 * n > 2 ^ bits - 2 THEN n - 2 ^ bits ELSE n
LiteralBits(t) == IF t.kind = "bytesM" THEN MBits(t) ELSE t.n * ByteBits
IsHexOrBytes(t) == t.kind \in {"bytesM", "bytes"}
LiteralUnits(n, t, out) ==      \* in units of a decimal, the sign extended
  IF IsHexOrBytes(t) /\ out.signed THEN AsSigned(n, LiteralBits(t)) ELSE n
InRange(n, lo, hi) == lo <= n /\ n <= hi
LiteralInt(n, t, out) ==
  IF t.kind = "address" /\ out.signed THEN TypeFailure
  ELSE IF t.kind = "decimal"
  THEN (IF InRange(n, LowestOf(out) * DecimalDivisor, HighestOf(out) * DecimalDivisor)
        THEN Number(Quotient(n, DecimalDivisor)) ELSE Fail)
  ELSE IF InRange(LiteralUnits(n, t, out), LowestOf(out), HighestOf(out)) THEN Number(LiteralUnits(n, t, out)) ELSE Fail
LiteralDecimal(n, t, out) ==
  IF t.kind = "bytes" THEN TypeFailure
  ELSE IF t.kind = "bytesM"
       THEN (IF InRange(LiteralUnits(n, t, out), LowestOf(out), HighestOf(out)) THEN Number(LiteralUnits(n, t, out)) ELSE Fail)
  ELSE IF InRange(n * DecimalDivisor, LowestOf(out), HighestOf(out)) THEN Number(n * DecimalDivisor) ELSE Fail

BytesToInt(arg, out, bits) ==
  IF bits > out.bits THEN IntClamp(BytesToNum(arg, out.signed), out.bits, out.signed) ELSE BytesToNum(arg, out.signed)
ToInt(literal, arg, out) ==
  CASE literal # <<>> -> LiteralInt(literal[1], arg.typ, out)
    [] arg.typ.kind = "bytes" -> BytesToInt(arg, out, arg.typ.n * ByteBits)
    [] arg.typ.kind = "bytesM" -> BytesToInt(arg, out, MBits(arg.typ))
    [] arg.typ.kind = "decimal" -> FixedToInt(arg, out)
    [] arg.typ.kind = "flag" -> IF out = UINT256 THEN arg.ir ELSE Fail
    [] arg.typ.kind = "int" -> IntToInt(arg, out)
    [] arg.typ.kind = "address" -> IF out.signed THEN Fail
                                   ELSE IF out.bits < AddressBits THEN IntClamp(arg.ir, out.bits, FALSE) ELSE arg.ir
    [] OTHER -> arg.ir
ToBool(arg) ==
  IR("iszero", <<IR("iszero", <<IF IsBytestring(arg.typ) THEN BytesToNum(arg, FALSE) ELSE arg.ir>>)>>)
ToDecimal(literal, arg, out) ==
  CASE literal # <<>> -> LiteralDecimal(literal[1], arg.typ, out)
    [] IsHexOrBytes(arg.typ) -> IF LiteralBits(arg.typ) > DecimalBits THEN ClampNode(BytesToNum(arg, TRUE), out)
                                ELSE BytesToNum(arg, TRUE)
    [] arg.typ.kind = "int" -> IntToFixed(arg, out)
    [] OTHER -> IR("mul", <<arg.ir, Number(DecimalDivisor)>>)

(* Without the bytes that are left over behind the string. *)
BytesToBytesM(arg) ==
  CachedNode("bits", IR("mul", <<IR("sub", <<Number(WordBytes), LengthOf(arg)>>), Number(ByteBits)>>), LAMBDA bits :
    IR("shl", <<bits, IR("shr", <<bits, LOAD(DataPtr(arg))>>)>>))
BitsOf(t) == IF t.kind = "address" THEN AddressBits ELSE t.bits
ToBytesM(arg, out) ==
  CASE arg.typ.kind = "bytes" -> BytesToBytesM(arg)
    [] arg.typ.kind = "bytesM" -> IF arg.typ.n > out.n THEN BytesClamp(arg.ir, out.n) ELSE arg.ir
    [] OTHER -> IF MBits(out) < BitsOf(arg.typ) THEN Fail ELSE IR("shl", <<Number(WordBits - MBits(out)), arg.ir>>)
ToAddress(literal, arg) ==
  IF arg.typ.kind = "int" /\ arg.typ.signed THEN Fail ELSE ToInt(literal, arg, UINT160)
ToFlag(arg, out) ==
  IF arg.typ # UINT256 THEN Fail ELSE IF out.n < WordBits THEN IntClamp(arg.ir, out.n, FALSE) ELSE arg.ir
(* A pointer with another type; it must become shorter. *)
CastBytestring(literal, arg, out) ==
  IF arg.typ.n <= out.n \/ literal # <<>> THEN Fail
  ELSE Sequence(<<Asserts(IR("le", <<LengthOf(arg), Number(out.n)>>)), arg.ir>>)

ConvertTo(literal, arg, out) ==
  CASE ~InputOk(arg.typ, out) -> Fail
    [] out.kind = "bool" -> ToBool(arg)
    [] out.kind = "address" -> ToAddress(literal, arg)
    [] out.kind = "flag" -> ToFlag(arg, out)
    [] out.kind = "int" -> ToInt(literal, arg, out)
    [] out.kind = "bytesM" -> ToBytesM(arg, out)
    [] out.kind = "decimal" -> ToDecimal(literal, arg, out)
    [] OTHER -> CastBytestring(literal, arg, out)

(* What is not changed stays a pointer. *)
Converted(original, cached, arg, out, ir) ==
  IF ir = arg.ir THEN [original EXCEPT !.typ = out]
  ELSE Val(ResolveWith(cached, "arg", (IF IsPrimWord(original.typ) THEN UnwrapLocation(original) ELSE original).ir, ir), out,
           IF IsBytestring(out) THEN original.loc ELSE "none", IsBytestring(out) /\ original.abi)
ConvertCached(original, cached, arg, literal, out) == Converted(original, cached, arg, out, ConvertTo(literal, arg, out))
ConvertUnwrapped(original, v, literal, out) ==
  ConvertCached(original, NeedsCache(v.ir), IF NeedsCache(v.ir) THEN WithNode(v, Name("arg")) ELSE v, literal, out)
Convert(v, literal, out) == ConvertUnwrapped(v, IF IsPrimWord(v.typ) THEN UnwrapLocation(v) ELSE v, literal, out)
=============================================================================
