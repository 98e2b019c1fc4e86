----------------------------- MODULE AbiEncoder -----------------------------
(***************************************************************************)
(* Encoding a value for the ABI (codegen/abi_encoder.py).                  *)
(*                                                                         *)
(* AbiEncode is the code that encodes v at dst, in memory.  What is        *)
(* dynamic goes behind the static part; dyn_ofst is where the next tail    *)
(* goes.  The code leaves the length of the encoding, if it is asked for.  *)
(* spare is memory for arrays that are written out in the source.          *)
(***************************************************************************)
EXTENDS Codegen

CONSTANTS GetElementPtr(_, _, _), MakeSetter(_, _, _)      \* those of Setters

RECURSIVE AbiEncode(_, _, _, _)

ZeroPad(p) ==
  With("len", IR("mload", <<p>>),
       With("dst", Add(Add(p, Number(WordBytes)), Name("len")),
            Mzero(Name("dst"), IR("mod", <<IR("sub", <<Number(0), Name("len")>>), Number(WordBytes)>>))))

(* Mutant: what is encoded behind the head does not move its end. *)
EncodeChildInPlace(dst, child, staticOfst, dynOfst, spare) ==
  IF ~IsDynamic(child.typ) THEN <<AbiEncode(Add(dst, staticOfst), child, FALSE, spare)>>
  ELSE <<IR("mstore", <<Add(dst, staticOfst), dynOfst>>), AbiEncode(Add(dst, dynOfst), child, FALSE, spare)>>
EncodeChild(dst, child, staticOfst, dynOfst, spare) ==
  IF ~IsDynamic(child.typ) THEN <<AbiEncode(Add(dst, staticOfst), child, FALSE, spare)>>
  ELSE <<IR("mstore", <<Add(dst, staticOfst), dynOfst>>),
         IR("set", <<dynOfst, Add(dynOfst, AbiEncode(Add(dst, dynOfst), child, TRUE, spare))>>)>>
EncodeElements(dst, v, count, spare, i) ==
  LET size == EmbeddedStaticSize(ValueType(v.typ))
      loop == IR("repeat", <<i.ir, Number(0), count, Number(v.typ.n),
                Sequence(EncodeChild(Add(dst, Number(WordBytes)), GetElementPtr(v, i, FALSE), IR("mul", <<i.ir, Number(size)>>),
                                     Name("dyn_child_ofst"), spare))>>)
      children == With("dyn_child_ofst", IR("mul", <<count, Number(size)>>), Sequence(<<loop, Name("dyn_child_ofst")>>))
  IN Sequence(<<STORE(InMem(dst, v.typ), count),
                IR("set", <<Name("dyn_ofst"), Add(Number(WordBytes), Add(Name("dyn_ofst"), children))>>)>>)
EncodeDynArray(dst, v, spare) ==
  IF IsMulti(v)
  THEN Sequence(<<MakeSetter(Local(spare, v.typ), v, <<>>),
                  IR("set", <<Name("dyn_ofst"), AbiEncode(dst, Local(spare, v.typ), TRUE, spare)>>)>>)
  ELSE CachedNode("len", LengthOf(v), LAMBDA count :
         EncodeElements(dst, v, count, spare, Word(LoopIndex("ix", v.typ), UINT256)))

EncodeMembers(dst, v, spare, keys, es) ==
  FlattenSeq([k \in DOMAIN keys |->
    EncodeChild(dst, es[k], Number(Fold(LAMBDA n, e : n + EmbeddedStaticSize(e.typ), 0, SubSeq(es, 1, k - 1))), Name("dyn_ofst"),
                Fold(LAMBDA n, e : n + SizeInBytes(e.typ), spare, SubSeq(es, 1, k - 1)))])
EncodeDynamic(dst, v, spare) ==
  CASE IsBytestring(v.typ) -> <<MakeSetter(InMem(dst, v.typ), v, <<>>), ZeroPad(dst)>>
    [] IsDArray(v.typ) -> <<EncodeDynArray(dst, v, spare)>>
    [] OTHER -> LET keys == KeysOf(v.typ)
                IN EncodeMembers(dst, v, spare, keys, <<>> \o [k \in DOMAIN keys |-> GetElementPtr(v, keys[k], FALSE)])
LengthLeft(t, dst) ==
  IF IsBytestring(t) THEN IR("ceil32", <<Add(Number(WordBytes), IR("mload", <<dst>>))>>) ELSE Name("dyn_ofst")
EncodedDynamic(dst, v, returnsLen, spare) ==
  LET code == Sequence(EncodeDynamic(dst, v, spare) \o (IF returnsLen THEN <<LengthLeft(v.typ, dst)>> ELSE <<>>))
  IN IF IsComplexAbi(v.typ) THEN With("dyn_ofst", Number(StaticSize(v.typ)), code) ELSE code
AbiEncode(dst, v, returnsLen, spare) ==
  IF ~IsDynamic(v.typ)
  THEN Sequence(<<MakeSetter(InMem(dst, v.typ), v, <<>>)>>
                \o (IF returnsLen THEN <<Number(EmbeddedStaticSize(v.typ))>> ELSE <<>>))
  ELSE Cached("to_encode", v, LAMBDA w : CachedNode("dst", dst, LAMBDA d : EncodedDynamic(d, w, returnsLen, spare)))
=============================================================================
