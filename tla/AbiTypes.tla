------------------------------ MODULE AbiTypes ------------------------------
(***************************************************************************)
(* The sizes of types in memory, in storage and in the ABI (abi_types.py), *)
(* and which of them need a check or go into which.                        *)
(***************************************************************************)
EXTENDS SyntaxTree

SumOf(f(_), ts) == Fold(LAMBDA n, t : n + f(t), 0, ts)

(* memory_bytes_required, storage_size_in_words and get_size_in. *)
RECURSIVE SizeInBytes(_)
SizeInBytes(t) ==
  CASE t.kind = "bytes" -> WordBytes + Ceil32(t.n)
    [] t.kind = "sarray" -> t.n * SizeInBytes(t.of[1])
    [] t.kind = "darray" -> WordBytes + t.n * SizeInBytes(t.of[1])
    [] t.kind = "tuple" -> SumOf(SizeInBytes, t.of)
    [] OTHER -> WordBytes
StorageSize(t) == SizeInBytes(t) \div WordBytes
SizeIn(t, loc) == IF loc \in {"storage", "transient"} THEN StorageSize(t) ELSE SizeInBytes(t)

---------------------------------------------------------------------------
(* The ABI: a value has a static part and, when it is dynamic, a tail. *)

RECURSIVE IsDynamic(_), StaticSize(_), DynamicBound(_)
IsDynamic(t) == t.kind \in {"bytes", "darray"} \/ (t.kind \in {"sarray", "tuple"} /\ \E k \in DOMAIN t.of : IsDynamic(t.of[k]))
EmbeddedStaticSize(t) == IF IsDynamic(t) THEN WordBytes ELSE StaticSize(t)
EmbeddedDynamicBound(t) == IF IsDynamic(t) THEN StaticSize(t) + DynamicBound(t) ELSE 0
StaticSize(t) ==
  CASE t.kind = "sarray" -> t.n * EmbeddedStaticSize(t.of[1])
    [] t.kind = "tuple" -> SumOf(EmbeddedStaticSize, t.of)
    [] t.kind \in {"bytes", "darray"} -> 0
    [] OTHER -> WordBytes
DynamicBound(t) ==
  CASE t.kind = "bytes" -> WordBytes + Ceil32(t.n)
    [] t.kind = "sarray" -> t.n * EmbeddedDynamicBound(t.of[1])
    [] t.kind = "darray" -> WordBytes + t.n * (EmbeddedStaticSize(t.of[1]) + EmbeddedDynamicBound(t.of[1]))
    [] t.kind = "tuple" -> SumOf(EmbeddedDynamicBound, t.of)
    [] OTHER -> 0
SizeBound(t) == StaticSize(t) + DynamicBound(t)
IsComplexAbi(t) == t.kind \in {"sarray", "darray", "tuple"}

(* Whether data that is encoded may be no value of the type. *)
RECURSIVE NeedsClampType(_)
NeedsClampType(t) ==
  CASE t.kind \in {"bytes", "darray"} -> TRUE
    [] t.kind = "flag" -> t.n < WordBits
    [] t.kind = "sarray" -> NeedsClampType(t.of[1])
    [] t.kind = "tuple" -> \E k \in DOMAIN t.of : NeedsClampType(t.of[k])
    [] OTHER -> t \notin {INT256, UINT256, BYTES32}
NeedsClamp(t, abi) == abi /\ NeedsClampType(t)

(* check_assign: whether a value of one type may be written over another. *)
RECURSIVE AssignableTypes(_, _)
AssignableTypes(l, r) ==
  CASE IsPrimWord(l) -> TRUE
    [] l.kind = "bytes" -> r.kind = "bytes" /\ l.n >= r.n
    [] l.kind = "sarray" -> r.kind = "sarray" /\ l.n = r.n /\ AssignableTypes(l.of[1], r.of[1])
    [] l.kind = "darray" -> r.kind = "darray" /\ l.n >= r.n /\ AssignableTypes(l.of[1], r.of[1])
    [] l.kind = "tuple" -> r.kind = "tuple" /\ Len(l.of) = Len(r.of) /\ \A k \in DOMAIN l.of : AssignableTypes(l.of[k], r.of[k])
    [] OTHER -> FALSE
=============================================================================
