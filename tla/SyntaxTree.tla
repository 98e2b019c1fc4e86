----------------------------- MODULE SyntaxTree -----------------------------
(***************************************************************************)
(* Types, expressions and statements, as the code generators get them:     *)
(* names are resolved, every expression has its type, and what is constant *)
(* has been folded.                                                        *)
(*                                                                         *)
(* All nodes have the same fields.  k is the kind; op an operator or the   *)
(* name of a function; n a number: that of a literal, a place, a member or *)
(* a bound; loc and n tell where a variable is; args are the operands;     *)
(* data the bytes of a literal; body and orelse are statements.  buf are   *)
(* the places of the internal variables that the code for the node needs,  *)
(* which the allocator of the frame gives out.  params are the types of    *)
(* the parameters of a function that is called.                            *)
(***************************************************************************)
EXTENDS EVMState

---------------------------------------------------------------------------
(* The types of values (semantics/types/).                                 *)
(*                                                                         *)
(* bits and signed belong to numbers; n is the number of bytes of a        *)
(* bytesM, the members of a flag, the length of an array or its bound; of  *)
(* are the types of the elements.  Strings are byte arrays here, and       *)
(* structs are tuples.                                                     *)

CONSTANTS DecimalBits, DecimalDivisor,    \* 168 and 10**10
          AddressBits                     \* 160

ASSUME TypesAssumption ==
  /\ DecimalBits \in 1 .. WordBits - 1 /\ AddressBits \in 1 .. WordBits - 1
  /\ DecimalDivisor \in Nat \ {0} /\ 2 ^ (DecimalBits - 1) * DecimalDivisor <= MaxWord

Typ(kind) == [kind |-> kind, bits |-> 0, signed |-> FALSE, n |-> 0, of |-> <<>>]
IntegerT(bits, signed) == [Typ("int") EXCEPT !.bits = bits, !.signed = signed]
UintT(bits) == IntegerT(bits, FALSE)
SintT(bits) == IntegerT(bits, TRUE)
UINT256 == UintT(WordBits)
INT256 == SintT(WordBits)
DecimalT == [Typ("decimal") EXCEPT !.bits = DecimalBits, !.signed = TRUE]
BoolT == Typ("bool")
AddressT == Typ("address")
BytesM(m) == [Typ("bytesM") EXCEPT !.n = m]
BYTES32 == BytesM(WordBytes)
FlagT(members) == [Typ("flag") EXCEPT !.n = members]
BytesT(bound) == [Typ("bytes") EXCEPT !.n = bound]
SArrayT(t, length) == [Typ("sarray") EXCEPT !.n = length, !.of = <<t>>]
DArrayT(t, bound) == [Typ("darray") EXCEPT !.n = bound, !.of = <<t>>]
TupleT(ts) == [Typ("tuple") EXCEPT !.of = ts]
HashMapT(key, value) == [Typ("hashmap") EXCEPT !.of = <<key, value>>]

IsPrimWord(t) == t.kind \in {"int", "decimal", "bool", "address", "bytesM", "flag"}
IsNumeric(t) == t.kind \in {"int", "decimal"}
IsBytestring(t) == t.kind = "bytes"
IsDArray(t) == t.kind = "darray"
IsArrayLike(t) == t.kind \in {"sarray", "darray"}
IsTupleLike(t) == t.kind = "tuple"
HasLengthWord(t) == t.kind \in {"bytes", "darray"}
ValueType(t) == t.of[Len(t.of)]
MBits(t) == t.n * ByteBits

(* int_bounds: of the numbers themselves; a decimal counts in units of     *)
(* 1 / DecimalDivisor.                                                     *)
Lowest(bits, signed) == IF signed THEN -(2 ^ (bits - 1)) ELSE 0
Highest(bits, signed) == IF signed THEN 2 ^ (bits - 1) - 1 ELSE 2 ^ bits - 1
LowestOf(t) == Lowest(t.bits, t.signed)
HighestOf(t) == Highest(t.bits, t.signed)

---------------------------------------------------------------------------
(* The nodes. *)

NoT == Typ("none")
Node(k, typ) == [k |-> k, typ |-> typ, op |-> "", n |-> 0, loc |-> "none", args |-> <<>>, data |-> <<>>, buf |-> <<>>,
                 body |-> <<>>, orelse |-> <<>>, params |-> <<>>]

IsLiteralNode(e) == e.k = "literal"
IsVariable(e) == e.k = "variable"

(* The variables that a node refers to, and those it changes; the body of  *)
(* a call of a function is that of the function.  Then whether it leaves   *)
(* the contract.                                                           *)
PartsOf(e) == e.args \o e.body \o e.orelse
RECURSIVE RefsOf(_), WritesOf(_), ContainsRiskyCall(_), RootOf(_)
RefsOf(e) ==
  IF IsVariable(e) THEN {<<e.loc, e.n, IsPrimWord(e.typ)>>} ELSE UNION {RefsOf(PartsOf(e)[k]) : k \in DOMAIN PartsOf(e)}
RootOf(e) == IF e.k \in {"member", "subscript"} THEN RootOf(e.args[1]) ELSE IF IsVariable(e) THEN RefsOf(e) ELSE {}
WritesOf(e) ==
  (IF e.k \in {"append", "pop", "assign", "aug_assign"} THEN RootOf(e.args[1]) ELSE {})
  \union UNION {WritesOf(PartsOf(e)[k]) : k \in DOMAIN PartsOf(e)}
ContainsRiskyCall(e) ==
  e.k = "ext_call" \/ e.op \in {"send", "raw_call", "raw_call!"} \/ \E k \in DOMAIN PartsOf(e) : ContainsRiskyCall(PartsOf(e)[k])

(* Whether writing one value may trample another that is being read. *)
BothWords(l, r) == IsPrimWord(l.typ) /\ IsPrimWord(r.typ)
PotentialOverlap(l, r) ==
  /\ ~BothWords(l, r)
  /\ \/ RefsOf(l) \intersect RefsOf(r) # {}
     \/ RefsOf(l) # {} /\ ContainsRiskyCall(r)
     \/ RefsOf(r) # {} /\ ContainsRiskyCall(l)
ReadWriteOverlap(l, r) ==
  /\ ~BothWords(l, r)
  /\ \/ RefsOf(l) \intersect WritesOf(r) # {}
     \/ RefsOf(l) # {} /\ ContainsRiskyCall(r)

RECURSIVE ContainsSelfCall(_)
ContainsSelfCall(e) == e.k = "self_call" \/ \E k \in DOMAIN e.args : ContainsSelfCall(e.args[k])

(* _is_terminated: the body ends in a statement that does not go on. *)
RECURSIVE IsTerminated(_)
IsTerminus(s) == s.k \in {"return", "raise"} \/ (s.k = "expression" /\ s.args[1].op = "raw_revert")
IsTerminated(body) ==
  /\ body # <<>>
  /\ LET last == body[Len(body)] IN
       IsTerminus(last) \/ (last.k = "if" /\ last.orelse # <<>> /\ IsTerminated(last.body) /\ IsTerminated(last.orelse))
=============================================================================
