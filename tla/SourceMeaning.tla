---------------------------- MODULE SourceMeaning ----------------------------
(***************************************************************************)
(* What a program says, without the machine: the values of expressions,    *)
(* the effects of statements and the encoding of results, against which    *)
(* the compiled code is checked.                                           *)
(*                                                                         *)
(* Numbers are integers, a decimal counts its units, bytesM is the number  *)
(* that its bytes make, a byte string is the sequence of its bytes, and an *)
(* array or a tuple the sequence of its elements.  s is the state: the     *)
(* values of variables, and what has been logged and sent.  A result has   *)
(* the value, the state and whether it is there at all: if not, data is    *)
(* what the contract reverts with.                                         *)
(***************************************************************************)
EXTENDS SyntaxTree, AbiTypes

CONSTANTS Radix, ZeroDigit, SelectorBytes, ErrorId

RECURSIVE Says(_, _), SaysAll(_, _), Does(_, _, _)

Gives(v, s) == [ok |-> TRUE, how |-> "go", v |-> v, s |-> s, data |-> <<>>]
Rejects(data) == [ok |-> FALSE, how |-> "go", v |-> 0, s |-> [vars |-> <<>>, trace |-> <<>>], data |-> data]
GivesIf(ok, v, s) == IF ok THEN Gives(v, s) ELSE Rejects(<<>>)

---------------------------------------------------------------------------
(* Values of a type, and their encoding. *)

BitsOf(t) == CASE t.kind = "bool" -> 1 [] t.kind = "address" -> AddressBits [] t.kind = "bytesM" -> MBits(t)
               [] t.kind = "flag" -> t.n [] OTHER -> t.bits
IsA(n, t) == Lowest(BitsOf(t), t.signed) <= n /\ n <= Highest(BitsOf(t), t.signed)
RECURSIVE DefaultOf(_)
DefaultOf(t) ==
  CASE t.kind = "sarray" -> [k \in 1 .. t.n |-> DefaultOf(t.of[1])]
    [] t.kind = "tuple" -> [k \in DOMAIN t.of |-> DefaultOf(t.of[k])]
    [] t.kind \in {"bytes", "darray"} -> <<>>
    [] OTHER -> 0

WordFor(v, t) == IF t.kind = "bytesM" THEN v * 2 ^ (WordBits - MBits(t)) ELSE Wrap(v)
ElementTypes(t, count) == IF t.kind = "tuple" THEN t.of ELSE [k \in 1 .. count |-> t.of[1]]
RECURSIVE Encoding(_, _)
Heads(ts) == Fold(LAMBDA n, t : n + EmbeddedStaticSize(t), 0, ts)
WithTails(acc, t, part) ==
  IF IsDynamic(t) THEN [acc EXCEPT !.head = @ \o BytesOf(acc.at), !.tail = @ \o part, !.at = @ + Len(part)]
  ELSE [acc EXCEPT !.head = @ \o part]
JoinParts(acc) == acc.head \o acc.tail
EncodeAll(ts, vs) ==
  JoinParts(Fold(LAMBDA acc, k : WithTails(acc, ts[k], Encoding(ts[k], vs[k])), [head |-> <<>>, tail |-> <<>>, at |-> Heads(ts)],
                 [k \in DOMAIN ts |-> k]))
PaddedTo(bytes, n) == bytes \o [k \in 1 .. n - Len(bytes) |-> 0]
Encoding(t, v) ==
  CASE t.kind = "bytes" -> BytesOf(Len(v)) \o PaddedTo(v, Ceil32(Len(v)))
    [] t.kind = "darray" -> BytesOf(Len(v)) \o EncodeAll(ElementTypes(t, Len(v)), v)
    [] t.kind \in {"sarray", "tuple"} -> EncodeAll(ElementTypes(t, t.n), v)
    [] OTHER -> BytesOf(WordFor(v, t))
Wrapped(t) == IF t.kind = "tuple" /\ Len(t.of) > 1 THEN t ELSE TupleT(<<t>>)
EncodeWrapped(t, v) == Encoding(Wrapped(t), IF Wrapped(t) = t THEN v ELSE <<v>>)

(* Whether bytes are the encoding of some value of the type, with nothing  *)
(* left over; the value of a word.                                         *)
ValueOfWord(w, t) ==
  IF t.kind = "bytesM" THEN (IF w % 2 ^ (WordBits - MBits(t)) = 0 THEN w \div 2 ^ (WordBits - MBits(t)) ELSE -1)
  ELSE IF t.signed THEN ToSigned(w) ELSE w
RECURSIVE Decoding(_, _, _)
NoValueAt == [ok |-> FALSE, v |-> 0]
WordAt(bytes, at) == WordOf(Padded(bytes, at, WordBytes))
DecodeAll(ts, bytes, base) ==
  LET at == Fold(LAMBDA acc, t : Append(acc, Last(acc) + EmbeddedStaticSize(t)), <<base>>, ts)
      parts == [k \in DOMAIN ts |-> Decoding(ts[k], bytes, IF IsDynamic(ts[k]) THEN base + WordAt(bytes, at[k]) ELSE at[k])]
  IN IF Last(at) > Len(bytes) THEN NoValueAt
     ELSE [ok |-> \A k \in DOMAIN ts : parts[k].ok, v |-> <<>> \o [k \in DOMAIN ts |-> parts[k].v]]
Decoding(t, bytes, at) ==
  CASE t.kind = "bytes" -> LET n == WordAt(bytes, at) IN
         [ok |-> n <= t.n /\ at + WordBytes + n <= Len(bytes), v |-> Padded(bytes, at + WordBytes, IF n <= t.n THEN n ELSE 0)]
    [] t.kind = "darray" -> IF WordAt(bytes, at) > t.n THEN NoValueAt
                            ELSE DecodeAll(ElementTypes(t, WordAt(bytes, at)), bytes, at + WordBytes)
    [] t.kind \in {"sarray", "tuple"} -> DecodeAll(ElementTypes(t, t.n), bytes, at)
    [] OTHER -> [ok |-> at + WordBytes <= Len(bytes) /\ IsA(ValueOfWord(WordAt(bytes, at), t), t), v |-> ValueOfWord(WordAt(bytes, at), t)]
DecodeWrapped(t, bytes) == Decoding(Wrapped(t), bytes, 0)

(* The value of a type in storage, whose words are given. *)
RECURSIVE StoredValue(_, _, _)
Consecutive(t, count) == Fold(LAMBDA acc, u : Append(acc, Last(acc) + StorageSize(u)), <<0>>, ElementTypes(t, count))
StoredElements(t, count, words, slot) ==
  LET at == Consecutive(t, count) IN [k \in 1 .. Len(at) - 1 |-> StoredValue(ElementTypes(t, count)[k], words, slot + at[k])]
StoredBytes(words, slot, n) ==
  SubSeq(FlattenSeq([k \in 1 .. Ceil32(n) \div WordBytes |-> BytesOf(words[slot + k])]), 1, n)
StoredValue(t, words, slot) ==
  CASE t.kind = "bytes" -> StoredBytes(words, slot, words[slot])
    [] t.kind = "darray" -> <<>> \o StoredElements(t, words[slot], words, slot + 1)
    [] t.kind = "hashmap" -> [key \in LowestOf(t.of[1]) .. HighestOf(t.of[1]) |->
                                StoredValue(t.of[2], words, Digest(BytesOf(slot) \o BytesOf(Wrap(key))))]
    [] t.kind \in {"sarray", "tuple"} -> <<>> \o StoredElements(t, t.n, words, slot)
    [] OTHER -> ValueOfWord(words[slot], t)

WordsIn(world, v) == [slot \in 0 .. MaxWord |-> IF v.loc = "storage" THEN Slot("sload", world[1], slot) ELSE Slot("tload", world[2], slot)]
ValuesStored(c, world) == <<>> \o [k \in DOMAIN c.stored |-> StoredValue(c.stored[k].typ, WordsIn(world, c.stored[k]), c.stored[k].n)]

(* What a call of a contract is seen to do. *)
Answers(end, data, trace, stored) == [end |-> end, data |-> data, trace |-> trace, stored |-> stored]
NoAnswer == Answers("none", <<>>, <<>>, <<>>)

---------------------------------------------------------------------------
(* Operators *)

Toward0(x, y) == Quotient(x, y)
ExactPower(x, y) ==      \* or what is out of range anyway
  LET p[n \in Nat] == IF n = 0 THEN 1 ELSE LET r == p[n - 1] IN IF Abs(r) > Width THEN r ELSE x * r
  IN IF Abs(x) <= 1 THEN (IF y = 0 THEN 1 ELSE IF y % 2 = 0 THEN x * x ELSE x)
     ELSE p[IF y > WordBits THEN WordBits + 1 ELSE y]
OfUnsigned(w, t) == IF t.signed THEN ToSigned(w) ELSE w
Arithmetic(op, x, y, t) ==       \* the exact result, or -Width * Width if there is none
  CASE op = "+" -> x + y
    [] op = "-" -> x - y
    [] op = "*" -> IF t.kind = "decimal" THEN Toward0(x * y, DecimalDivisor) ELSE x * y
    [] op = "/" -> IF y = 0 THEN -Width * Width ELSE IF t.kind = "decimal" THEN Toward0(x * DecimalDivisor, y) ELSE Toward0(x, y)
    [] op = "%" -> IF y = 0 THEN -Width * Width ELSE Remainder(x, y)
    [] op = "**" -> IF y < 0 THEN -Width * Width ELSE ExactPower(x, y)
    [] op = "&" -> OfUnsigned(And(Wrap(x), Wrap(y)), t)
    [] op = "|" -> OfUnsigned(Or(Wrap(x), Wrap(y)), t)
    [] op = "^" -> OfUnsigned(Xor(Wrap(x), Wrap(y)), t)
    [] op = "<<" -> OfUnsigned(ShiftLeft(y, Wrap(x)), t)
    [] op = ">>" -> ShiftArithmetic(y, x)
Comparison(op, x, y) ==
  CASE op = "==" -> x = y [] op = "!=" -> x # y [] op = "<" -> x < y [] op = ">" -> x > y [] op = "<=" -> x <= y [] op = ">=" -> x >= y
Membership(e, x, y) ==
  (IF e.args[2].typ.kind = "flag" THEN And(x, y) # 0 ELSE x \in Range(y)) <=> e.op = "in"
Negation(e, x) ==
  CASE e.op = "not" -> 1 - x
    [] e.op = "-" -> -x
    [] OTHER -> Highest(BitsOf(e.typ), FALSE) - x       \* ~

(* convert.  The bits of a value, as they stand in its bytes. *)
NumberOfBytes(bytes) == Fold(LAMBDA n, b : n * 2 ^ ByteBits + b, 0, bytes)
SignedOf(n, bits) == IF bits > 0 /\ n >= 2 ^ (bits - 1) THEN n - 2 ^ bits ELSE n
AsNumber(v, t, signed) ==        \* of what is made of bytes
  CASE t.kind = "bytes" -> IF signed THEN SignedOf(NumberOfBytes(v), Len(v) * ByteBits) ELSE NumberOfBytes(v)
    [] t.kind = "bytesM" -> IF signed THEN SignedOf(v, MBits(t)) ELSE v
    [] OTHER -> v
(* A decimal must be in bounds before it is truncated. *)
Truncated(v, out) ==
  IF LowestOf(out) * DecimalDivisor <= v /\ v <= HighestOf(out) * DecimalDivisor THEN Toward0(v, DecimalDivisor)
  ELSE HighestOf(out) + 1
LeftAligned(v, n, t, out) ==     \* n bytes with the number v, as bytesM
  IF n <= out.n THEN v * 2 ^ ((out.n - n) * ByteBits)
  ELSE IF v % 2 ^ ((n - out.n) * ByteBits) = 0 THEN v \div 2 ^ ((n - out.n) * ByteBits) ELSE -1
(* Whether a type has a conversion to another at all. *)
Convertible(t, out) ==
  LET fits == BitsOf(t) <= BitsOf(out) IN
  /\ t # out \/ t \in {UINT256, INT256}
  /\ CASE out.kind = "bool" -> t.kind # "flag"
       [] t.kind = "bool" -> out.kind \in {"int", "decimal", "bytesM"}
       [] out.kind = "bytesM" -> t.kind = "bytesM" \/ (t.kind = "bytes" /\ t.n <= out.n) \/ (t.kind \in {"int", "decimal", "address"} /\ fits)
       [] t.kind = "int" -> out.kind \in {"int", "decimal"} \/ (out.kind = "address" /\ ~t.signed) \/ (out.kind = "flag" /\ t = UINT256)
       [] t.kind = "decimal" -> out.kind = "int"
       [] t.kind = "address" -> out.kind = "int" /\ ~out.signed
       [] t.kind = "flag" -> out = UINT256
       [] t.kind \in {"bytesM", "bytes"} -> out.kind \in {"int", "decimal", "address"} \/ (t.kind = "bytes" /\ out.kind = "bytes" /\ out.n < t.n)
       [] OTHER -> FALSE
Conversion(v, t, out) ==         \* what is not a value of the type is rejected
  CASE out.kind = "bool" -> Bool(IF t.kind = "bytes" THEN NumberOfBytes(v) # 0 ELSE v # 0)
    [] out.kind = "int" -> IF t.kind = "decimal" THEN Truncated(v, out) ELSE AsNumber(v, t, out.signed)
    [] out.kind = "decimal" -> IF t.kind \in {"bytes", "bytesM"} THEN AsNumber(v, t, TRUE) ELSE v * DecimalDivisor
    [] out.kind \in {"address", "flag"} -> AsNumber(v, t, FALSE)
    [] out.kind = "bytesM" ->
         CASE t.kind = "bytes" -> LeftAligned(NumberOfBytes(v), Len(v), t, out)
           [] t.kind = "bytesM" -> LeftAligned(v, t.n, t, out)
           [] OTHER -> Wrap(v) % 2 ^ MBits(out)

---------------------------------------------------------------------------
(* The callee answers with its call data and one word more, or not at all  *)
(* when its address is in Silent; it fails when it is sent the value one.  *)
SentData(e, args) == SubSeq(BytesOf(e.n), WordBytes - SelectorBytes + 1, WordBytes) \o EncodeAll(e.params, args)
Reply(to, sent) == IF to \in Silent THEN <<>> ELSE sent \o BytesOf(MaxWord - 1)
SentTo(data, s) == [s EXCEPT !.trace = Append(@, [call |-> TRUE, data |-> data, topics |-> <<>>])]
Received(e, reply, s) ==
  IF e.typ.kind = "none" THEN Gives(0, s)
  ELSE IF e.orelse # <<>> /\ reply = <<>> THEN Says(e.orelse[1], s)
  ELSE LET d == Decoding(Wrapped(e.typ), reply, 0)
       IN GivesIf(d.ok, IF ~d.ok THEN 0 ELSE IF Wrapped(e.typ) # e.typ THEN d.v[1] ELSE d.v, s)
Contact(e, to, value, sent, s) == IF value = 1 THEN Rejects(Reply(to, sent)) ELSE Received(e, Reply(to, sent), SentTo(sent, s))
RawContact(e, to, value, sent, s) ==
  LET out == SubSeq(Reply(to, sent), 1, IF e.n < Len(Reply(to, sent)) THEN e.n ELSE Len(Reply(to, sent)))
      fine == Bool(value # 1)
  IN IF e.op = "raw_call" THEN (IF fine = 0 THEN Rejects(Reply(to, sent)) ELSE Gives(out, SentTo(sent, s)))
     ELSE Gives(IF e.n = 0 THEN fine ELSE <<fine, out>>, SentTo(sent, s))

---------------------------------------------------------------------------
(* Builtin functions *)

Digits(n) == LET d[k \in 0 .. n] == IF k < Radix THEN <<ZeroDigit + k>> ELSE Append(d[k \div Radix], ZeroDigit + (k % Radix)) IN d[n]
WrapInto(n, t) == LET w == n % 2 ^ t.bits IN IF t.signed /\ w >= 2 ^ (t.bits - 1) THEN w - 2 ^ t.bits ELSE w
PartBytes(v, t) == IF t.kind = "bytes" THEN v ELSE SubSeq(BytesOf(WordFor(v, t)), 1, t.n)
InBytes(v, start, n) == start >= 0 /\ n >= 0 /\ start + n <= Len(v)
CallData(s) == s.input
EncodedArgs(e, a) ==
  LET ts == [k \in DOMAIN e.args |-> e.args[k].typ]
  IN (IF e.data = <<>> THEN <<>> ELSE SubSeq(BytesOf(e.data[1]), WordBytes - SelectorBytes + 1, WordBytes))
     \o (IF Len(a) = 1 /\ e.n = 0 THEN Encoding(ts[1], a[1]) ELSE EncodeAll(ts, a))
FromBuiltin(e, a, s) ==
  LET t == e.args[1].typ
      x == IF a = <<>> THEN 0 ELSE a[1]
      y == IF Len(a) < 2 THEN 0 ELSE a[2]
      z == IF Len(a) < 3 THEN 0 ELSE a[3]
  IN CASE e.op = "floor" -> Gives(x \div DecimalDivisor, s)
       [] e.op = "ceil" -> Gives(-((-x) \div DecimalDivisor), s)
       [] e.op = "abs" -> GivesIf(IsA(Abs(x), t), Abs(x), s)
       [] e.op = "shift" -> Gives(IF y < 0 THEN ShiftArithmetic(-y, x) ELSE OfUnsigned(ShiftLeft(y, Wrap(x)), t), s)
       [] e.op = "pow_mod256" -> Gives(Power(x, y), s)
       [] e.op = "unsafe_add" -> Gives(WrapInto(x + y, t), s)
       [] e.op = "unsafe_sub" -> Gives(WrapInto(x - y, t), s)
       [] e.op = "unsafe_mul" -> Gives(WrapInto(x * y, t), s)
       [] e.op = "unsafe_div" -> Gives(WrapInto(Quotient(x, y), t), s)
       [] e.op = "min" -> Gives(IF x < y THEN x ELSE y, s)
       [] e.op = "max" -> Gives(IF x < y THEN y ELSE x, s)
       [] e.op = "as_wei_value" -> LET n == IF t.kind = "decimal" THEN (x * e.n) \div DecimalDivisor ELSE x * e.n
                                   IN GivesIf(IsA(n, e.typ), n, s)
       [] e.op = "uint2str" -> Gives(Digits(x), s)
       [] e.op = "keccak256" -> Gives(Digest(PartBytes(x, t)), s)
       [] e.op = "len" -> Gives(Len(x), s)
       [] e.op = "slice" -> GivesIf(InBytes(PartBytes(x, t), y, z), SubSeq(PartBytes(x, t), y + 1, y + z), s)
       [] e.op = "concat" -> Gives(FlattenSeq([k \in DOMAIN a |-> PartBytes(a[k], e.args[k].typ)]), s)
       [] e.op = "extract32" -> LET v == ValueOfWord(WordOf(Padded(x, y, WordBytes)), e.typ)
                                IN GivesIf(InBytes(x, y, WordBytes) /\ IsA(v, e.typ), v, s)
       [] e.op = "abi_encode" -> Gives(EncodedArgs(e, a), s)
       [] e.op = "abi_decode" -> LET u == IF e.n = 1 THEN Wrapped(e.typ) ELSE e.typ
                                     d == IF StaticSize(u) <= Len(x) /\ Len(x) <= SizeBound(u) THEN Decoding(u, x, 0) ELSE NoValueAt
                                 IN GivesIf(d.ok, IF d.ok /\ u # e.typ THEN d.v[1] ELSE d.v, s)
       [] e.op = "send" -> GivesIf(y # 1, 0, SentTo(<<>>, s))
       [] e.op \in {"raw_call", "raw_call!"} -> RawContact(e, x, z, y, s)
       [] e.op = "raw_revert" -> Rejects(x)
       [] e.op = "raw_log" -> Gives(0, [s EXCEPT !.trace =
            Append(@, [call |-> FALSE, data |-> IF e.args[2].typ.kind = "bytes" THEN y ELSE BytesOf(y),
                       topics |-> [k \in DOMAIN x |-> WordFor(x[k], BYTES32)]])])

---------------------------------------------------------------------------
(* Expressions, from left to right. *)

Then(r, Next(_, _)) == IF ~r.ok THEN r ELSE Next(r.v, r.s)
SaysNext(acc, e) == IF ~acc.ok THEN acc ELSE Then(Says(e, acc.s), LAMBDA v, s : [acc EXCEPT !.v = Append(@, v), !.s = s])
SaysAll(es, s) == Fold(SaysNext, Gives(<<>>, s), es)

IndexIn(e, i) == IF e.k = "member" \/ e.args[1].typ.kind = "tuple" THEN e.n + 1 ELSE IF e.args[1].typ.kind = "hashmap" THEN i ELSE i + 1
Put(container, i, v) == [k \in DOMAIN container \union {i} |-> IF k = i THEN v ELSE container[k]]
RECURSIVE SetPlace(_, _, _)
SetPart(e, i, v, base) == IF base.ok THEN SetPlace(e.args[1], Put(base.v, IndexIn(e, i), v), base.s) ELSE base
SetIndexed(e, i, v) ==
  IF ~i.ok THEN i
  ELSE IF e.args[1].typ.kind \in {"sarray", "darray"} /\ e.k = "subscript"
       THEN Then(Says(e.args[1], i.s), LAMBDA base, s :
              IF i.v + 1 \in DOMAIN base THEN SetPart(e, i.v, v, Gives(base, s)) ELSE Rejects(<<>>))
  ELSE SetPart(e, i.v, v, Says(e.args[1], i.s))
SetPlace(e, v, s) ==
  CASE e.k = "variable" -> Gives(v, [s EXCEPT !.vars = Put(@, <<e.loc, e.n>>, v)])
    [] e.k = "tuple" -> Fold(LAMBDA r, k : IF r.ok THEN SetPlace(e.args[k], v[k], r.s) ELSE r, Gives(v, s), [k \in DOMAIN e.args |-> k])
    [] Len(e.args) = 2 -> SetIndexed(e, Says(e.args[2], s), v)
    [] OTHER -> SetPart(e, 0, v, Says(e.args[1], s))

(* A place whose indices have been worked out, from the left, once.        *)
RECURSIVE Located(_, _)
Located(e, s) ==
  CASE e.k = "subscript" -> Then(Located(e.args[1], s), LAMBDA x, t : Then(Says(e.args[2], t), LAMBDA i, u :
                              Gives([e EXCEPT !.args = <<x, [Node("literal", e.args[2].typ) EXCEPT !.n = i]>>], u)))
    [] e.k = "member" -> Then(Located(e.args[1], s), LAMBDA x, t : Gives([e EXCEPT !.args[1] = x], t))
    [] OTHER -> Gives(e, s)

Selected(e, base, i, s) ==
  IF e.args[1].typ.kind \in {"hashmap", "tuple"} \/ i + 1 \in DOMAIN base THEN Gives(base[IndexIn(e, i)], s) ELSE Rejects(<<>>)
InArithmetic(e, x, y, s) == LET n == Arithmetic(e.op, x, y, e.typ) IN GivesIf(IsA(n, e.typ), n, s)
ShortCircuit(e, s) ==
  Fold(LAMBDA r, x : IF r.ok /\ r.v = Bool(e.op = "and") THEN Says(x, r.s) ELSE r, Gives(Bool(e.op = "and"), s), e.args)
PopFrom(e, base, s) ==
  IF base = <<>> THEN Rejects(<<>>) ELSE Then(SetPlace(e.args[1], Front(base), s), LAMBDA v, t : Gives(Last(base), t))
AppendOnto(e, base, x, s) == IF Len(base) = e.args[1].typ.n THEN Rejects(<<>>) ELSE SetPlace(e.args[1], Append(base, x), s)

Bound(e, args, s) ==     \* the arguments of a function, in its frame
  LET at == Fold(LAMBDA acc, t : Append(acc, Last(acc) + SizeInBytes(t)), <<e.n>>, e.params)
  IN [s EXCEPT !.vars = Fold(LAMBDA vars, k : Put(vars, <<"memory", at[k]>>, args[k]), @, [k \in DOMAIN args |-> k])]
Called(r) == IF r.ok THEN Gives(r.v, r.s) ELSE r

Combined(e, a, s) ==
  CASE e.k \in {"member", "subscript"} -> Selected(e, a[1], IF Len(a) = 2 THEN a[2] ELSE e.n, s)
    [] e.k = "binop" -> InArithmetic(e, a[1], a[2], s)
    [] e.k = "compare" -> Gives(Bool(IF e.op \in {"in", "not in"} THEN Membership(e, a[1], a[2]) ELSE Comparison(e.op, a[1], a[2])), s)
    [] e.k = "unary" -> GivesIf(IsA(Negation(e, a[1]), e.typ), Negation(e, a[1]), s)
    [] e.k = "append" -> AppendOnto(e, a[1], a[2], s)
    [] e.k = "pop" -> PopFrom(e, a[1], s)
    [] e.k \in {"list", "tuple", "struct"} -> Gives(a, s)
    [] e.k = "convert" -> IF e.typ.kind = "bytes" THEN GivesIf(Len(a[1]) <= e.typ.n, a[1], s)
                          ELSE LET n == Conversion(a[1], e.args[1].typ, e.typ) IN GivesIf(IsA(n, e.typ), n, s)
    [] e.k = "call" -> FromBuiltin(e, a, s)
    [] e.k = "self_call" -> Called(Does([returns |-> e.typ], e.body, Bound(e, a, s)))
    [] e.k = "ext_call" -> Contact(e, a[1], a[2], SentData(e, SubSeq(a, 3, Len(a))), s)
    [] e.k = "environment" -> Gives(1, s)      \* all accounts have code of size one here
Says(e, s) ==
  CASE e.k = "literal" -> Gives(e.n, s)
    [] e.k = "bytes" -> Gives(e.data, s)
    [] e.k = "empty" -> Gives(DefaultOf(e.typ), s)
    [] e.k = "variable" -> Gives(s.vars[<<e.loc, e.n>>], s)
    [] e.k = "boolop" -> ShortCircuit(e, s)
    [] e.k = "ifexp" -> Then(Says(e.args[1], s), LAMBDA c, t : Says(IF c = 1 THEN e.args[2] ELSE e.args[3], t))
    [] OTHER -> Then(SaysAll(e.args, s), LAMBDA a, t : Combined(e, a, t))

---------------------------------------------------------------------------
(* Statements.  how tells how a body is left. *)

ErrorData(reason, t) == SubSeq(BytesOf(ErrorId), WordBytes - SelectorBytes + 1, WordBytes) \o Encoding(TupleT(<<t>>), <<reason>>)
Reverting(e, s) == Then(Says(e, s), LAMBDA reason, t : Rejects(ErrorData(reason, e.typ)))
Leaves(how, v, s) == [Gives(v, s) EXCEPT !.how = how]

RECURSIVE Rounds(_, _, _, _)
(* The body for each value of the loop variable, and what ends the loop.   *)
AfterRound(f, b, values, r) ==
  IF ~r.ok \/ r.how = "return" THEN r
  ELSE IF r.how = "break" THEN Gives(0, r.s)
  ELSE Rounds(f, b, Tail(values), r.s)
Rounds(f, b, values, s) ==
  IF values = <<>> THEN Gives(0, s)
  ELSE AfterRound(f, b, values, Does(f, b.body, [s EXCEPT !.vars = Put(@, <<"memory", b.buf[1]>>, Head(values))]))
RangeOf(b, from, to, s, f) ==
  IF from > to \/ (b.n > 0 /\ to - from > b.n) THEN Rejects(<<>>) ELSE Rounds(f, b, [k \in 1 .. to - from |-> from + k - 1], s)
LoggedBy(b, a, s) ==
  LET indexed == Range(b.data)
      open == SelectSeq([k \in DOMAIN a |-> k], LAMBDA k : k \notin indexed)
      topics == SelectSeq([k \in DOMAIN a |-> k], LAMBDA k : k \in indexed)
      TopicFor(k) == IF b.args[k].typ.kind = "bytes" THEN Digest(a[k]) ELSE WordFor(a[k], b.args[k].typ)
  IN [s EXCEPT !.trace = Append(@, [call |-> FALSE,
        data |-> EncodeAll([k \in DOMAIN open |-> b.args[open[k]].typ], [k \in DOMAIN open |-> a[open[k]]]),
        topics |-> <<b.n>> \o [k \in DOMAIN topics |-> TopicFor(topics[k])]])]

Perform(f, b, s) ==
  CASE b.k \in {"assign", "ann_assign"} -> Then(Says(b.args[2], s), LAMBDA v, t : SetPlace(b.args[1], v, t))
    [] b.k = "aug_assign" -> Then(Located(b.args[1], s), LAMBDA x, t :
         Then(Says([b EXCEPT !.k = "binop", !.typ = x.typ, !.args[1] = x], t), LAMBDA v, u : SetPlace(x, v, u)))
    [] b.k = "if" -> Then(Says(b.args[1], s), LAMBDA c, t : Does(f, IF c = 1 THEN b.body ELSE b.orelse, t))
    [] b.k = "for_range" -> Then(SaysAll(b.args, s), LAMBDA a, t : RangeOf(b, a[1], a[2], t, f))
    [] b.k = "for_list" -> Then(Says(b.args[1], s), LAMBDA list, t : Rounds(f, b, list, t))
    [] b.k = "assert" -> Then(Says(b.args[1], s), LAMBDA c, t :
         IF c = 1 THEN Gives(0, t) ELSE IF b.op = "reason" THEN Reverting(b.args[2], t) ELSE Rejects(<<>>))
    [] b.k = "raise" -> IF b.op = "reason" THEN Reverting(b.args[1], s) ELSE Rejects(<<>>)
    [] b.k = "log" -> Then(SaysAll(b.args, s), LAMBDA a, t : Gives(0, LoggedBy(b, a, t)))
    [] b.k = "return" -> IF b.args = <<>> THEN Leaves("return", 0, s)
                         ELSE Then(Says(b.args[1], s), LAMBDA v, t : Leaves("return", v, t))
    [] b.k = "expression" -> Then(Says(b.args[1], s), LAMBDA v, t : Gives(0, t))
    [] b.k = "pass" -> Gives(0, s)
    [] OTHER -> Leaves(b.k, 0, s)         \* break, continue
Does(f, body, s) ==
  Fold(LAMBDA r, b : IF r.ok /\ r.how = "go" THEN Perform(f, b, r.s) ELSE r, Gives(0, s), body)
=============================================================================
