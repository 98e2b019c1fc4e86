------------------------------ MODULE MCCodegen ------------------------------
(***************************************************************************)
(* Small contracts for TLC: words of four bytes of three bits.               *)
(***************************************************************************)
EXTENDS CodegenPipeline

(* How programs are written: expressions, statements and contracts, with   *)
(* the places of their variables and buffers.                              *)
E(k, typ, args) == [Node(k, typ) EXCEPT !.args = args]
EOp(k, op, typ, args) == [E(k, typ, args) EXCEPT !.op = op]
L(n, typ) == [Node("literal", typ) EXCEPT !.n = n]
B(bytes, at) == [Node("bytes", BytesT(Len(bytes))) EXCEPT !.data = bytes, !.buf = <<at>>]
Variable(loc, n, typ) == [Node("variable", typ) EXCEPT !.loc = loc, !.n = n]
Mem(n, typ) == Variable("memory", n, typ)
Sto(n, typ) == Variable("storage", n, typ)
Binary(op, x, y) == EOp("binop", op, x.typ, <<x, y>>)
Compared(op, x, y) == EOp("compare", op, BoolT, <<x, y>>)
Un(op, x) == EOp("unary", op, x.typ, <<x>>)
Item(x, i) == E("subscript", ValueType(x.typ), <<x, i>>)
Member(x, k) == [E("member", x.typ.of[k], <<x>>) EXCEPT !.n = k - 1]
Cast(x, typ) == E("convert", typ, <<x>>)
Fn(name, typ, args, buf) == [EOp("call", name, typ, args) EXCEPT !.buf = buf]
FnN(name, typ, args, n, buf) == [Fn(name, typ, args, buf) EXCEPT !.n = n]

S(k, args) == E(k, NoT, args)
SBuf(k, args, buf) == [S(k, args) EXCEPT !.buf = buf]
Ret(x) == SBuf("return", <<x>>, <<160, 200>>)
Set(x, v) == SBuf("assign", <<x, v>>, <<128>>)
Aug(op, x, v) == [S("aug_assign", <<x, v>>) EXCEPT !.op = op]
If(c, body, orelse) == [S("if", <<c>>) EXCEPT !.body = body, !.orelse = orelse]
Leave(k) == S(k, <<>>)
Do(x) == S("expression", <<x>>)

(* A parameter, by its number. *)
Arg(ts, k) == [Node("argument", ts[k]) EXCEPT !.n = k]
Parameters(ts) == [k \in DOMAIN ts |-> [typ |-> ts[k], default |-> <<>>]]

F(params, returns, body) ==
  [name |-> "f", params |-> params, returns |-> returns, body |-> body, external |-> TRUE, nonreentrant |-> FALSE, view |-> FALSE,
   payable |-> FALSE, raw |-> FALSE]
C(family, params, returns, body) ==
  [family |-> family, f |-> F(params, returns, body), given |-> 0, internals |-> <<>>, stored |-> <<>>, calls |-> FALSE, inputs |-> {}]
Computes(family, ts, x) == C(family, Parameters(ts), x.typ, <<Ret(x)>>)

---------------------------------------------------------------------------
(* Values at the ends of a type and around zero. *)
Edges(lo, hi) == {n \in {lo, lo + 1, -1, 0, 1, 2, hi} : lo <= n /\ n <= hi}
RECURSIVE ValuesOf(_)
FewOf(t) == IF t.kind = "bytes" THEN {<<>>, <<1, 2, 3>>} ELSE IF IsNumeric(t) THEN {1, HighestOf(t)} ELSE ValuesOf(t)
ValuesOf(t) ==
  CASE IsNumeric(t) -> Edges(LowestOf(t), HighestOf(t))
    [] t.kind = "bool" -> {0, 1}
    [] t.kind = "address" -> Edges(0, 2 ^ AddressBits - 1)
    [] t.kind = "flag" -> Edges(0, 2 ^ t.n - 1)
    [] t.kind = "bytesM" -> {0, 1, 2 ^ (MBits(t) - 1), 2 ^ (MBits(t) - 2), 2 ^ MBits(t) - 1}
    [] t.kind = "sarray" -> {<<x, y>> : x, y \in FewOf(t.of[1])}
    [] t.kind = "darray" -> {<<>>} \union {<<x>> : x \in FewOf(t.of[1])} \union {<<x, y>> : x, y \in FewOf(t.of[1])}
    [] t.kind = "tuple" -> {<<x, y>> : x \in FewOf(t.of[1]), y \in FewOf(t.of[2])}
    [] t.kind = "bytes" -> {x \in {<<>>, <<0>>, <<3>>, <<0, 1>>, <<2, 0>>, <<1, 2, 3>>, <<3, 0, 0>>, <<1, 2, 3, 1, 2>>} : Len(x) <= t.n}
Ends2(t) == IF IsNumeric(t) THEN {LowestOf(t), 0, 1, 2, HighestOf(t)} \union (IF t.signed THEN {-1} ELSE {}) ELSE ValuesOf(t)
PairsOf(ts) == {<<x, y>> : x \in Ends2(ts[1]), y \in Ends2(ts[2])}
TuplesOf(ts) == IF ts = <<>> THEN {<<>>} ELSE IF Len(ts) = 1 THEN {<<x>> : x \in ValuesOf(ts[1])} ELSE {<<x, y>> : x \in ValuesOf(ts[1]), y \in ValuesOf(ts[2])}

Ints == {UINT256, INT256, UintT(6), SintT(6), SintT(9), UintT(9), DecimalT}
Ops == {"+", "-", "*", "/", "%"}
Unary(family, t, X(_)) == Computes(family, <<t>>, X(Arg(<<t>>, 1)))
Arith ==
  {Computes("arithmetic", <<t, t>>, Binary(op, Arg(<<t, t>>, 1), Arg(<<t, t>>, 2))) : t \in Ints, op \in Ops}
  \union {Unary("arithmetic", t, LAMBDA x : Binary(op, x, L(n, t))) : t \in {INT256, SintT(9)}, op \in Ops, n \in {-1, 2}}
  \union {Unary("arithmetic", t, LAMBDA x : Binary("**", x, L(n, t))) : t \in {UINT256, INT256, SintT(6), UintT(9)}, n \in {0, 1, 2, 3}}
  \union {Unary("arithmetic", t, LAMBDA x : Binary("**", L(n, t), x)) : t \in {INT256, SintT(6)}, n \in {-2, -1, 0, 1, 2, 3}}
  \union {Unary("arithmetic", t, LAMBDA x : Un("-", x)) : t \in {INT256, SintT(6), DecimalT}}

CastTypes == {UINT256, INT256, UintT(6), SintT(6), DecimalT, BoolT, AddressT, BytesM(1), BytesM(2), BYTES32, BytesT(2), BytesT(3), FlagT(2)}
Casted ==
  {Unary("conversions", t, LAMBDA x : Cast(x, u)) : t, u \in CastTypes}
  \union {Computes("conversions", <<>>, Cast(L(n, t), u)) : t \in {INT256, DecimalT, BytesM(1), AddressT}, n \in {0, 1, 3, 7},
                                                            u \in {UintT(6), SintT(6), UINT256, INT256, DecimalT, BytesM(1), BoolT, AddressT}}
  \union {Computes("conversions", <<>>, Cast(B(b, 100), u)) : b \in {<<2>>, <<1, 2>>, <<6, 1>>}, u \in {UintT(6), SintT(6), BytesM(2), DecimalT}}
  (* Not to a signed integer: there the empty literal becomes -1, one of    *)
  (* the findings in the README.                                            *)
  \union {Computes("conversions", <<>>, Cast(B(<<>>, 100), u)) : u \in {UintT(6), BytesM(2), AddressT}}

(* Values that are copied: from the call data to a place and back. *)
ComposedTypes == {SArrayT(UintT(6), 2), DArrayT(UintT(6), 2), DArrayT(UINT256, 2), TupleT(<<UintT(6), BytesT(3)>>), TupleT(<<UINT256, BoolT>>),
                  DArrayT(BytesT(3), 2), SArrayT(BytesT(3), 2), SArrayT(UINT256, 2), DArrayT(TupleT(<<BoolT, UINT256>>), 2)}
Moved(t, loc, from) == C("data", Parameters(<<t>>), t, <<Set(Variable(loc, from, t), Arg(<<t>>, 1)), Ret(Variable(loc, from, t))>>)
Data ==
  {Unary("data", t, LAMBDA x : x) : t \in ComposedTypes \union {BytesT(3), BytesT(5), BoolT}}
  \union {[Moved(t, "storage", 0) EXCEPT !.stored = <<Sto(0, t)>>] : t \in ComposedTypes \union {BytesT(3), BytesT(5)}}
  \union {Moved(t, "memory", 100) : t \in ComposedTypes \union {BytesT(3), BytesT(5)}}

(* One word of an encoding replaced, or the encoding cut off. *)
SampleOf(t) == CHOOSE v \in ValuesOf(t) : \A w \in ValuesOf(t) : Len(Source!Encoding(t, w)) <= Len(Source!Encoding(t, v))
Replaced(bytes, from, k, w) ==
  [j \in DOMAIN bytes |-> LET at == j - from - (k - 1) * WordBytes IN IF at \in 1 .. WordBytes THEN BytesOf(w)[at] ELSE bytes[j]]
Damaged(bytes, from) ==
  {Replaced(bytes, from, k, w) : k \in 1 .. (Len(bytes) - from) \div WordBytes, w \in {0, 1, 3, 8, 16, 4092, 4095}}
  \union {SubSeq(bytes, 1, k) : k \in 1 .. Len(bytes) - 1}

---------------------------------------------------------------------------
(* Statements.  Storage slot s holds s + 1 at first. *)
U == UINT256
I == INT256
One == L(1, U)
S0 == Sto(0, U)
X(ts) == Arg(ts, 1)
Y(ts) == Arg(ts, 2)
BT(n) == BytesT(n)
ForRange(from, to, bound, at, body) == [S("for_range", <<from, to>>) EXCEPT !.n = bound, !.buf = <<at>>, !.body = body]
ForList(list, at, copy, body) == [S("for_list", <<list>>) EXCEPT !.buf = <<at, copy>>, !.body = body]
Why(k, op, args) == [S(k, args) EXCEPT !.op = op, !.buf = <<128, 180>>]
Event(id, args, indexed) == [S("log", args) EXCEPT !.n = id, !.data = indexed, !.buf = <<128, 180, 200>>]
Stored(c, vs) == [c EXCEPT !.stored = vs]
Calling(c) == [c EXCEPT !.calls = TRUE]
Program(ts, returns, stored, body) == Stored(C("statements", Parameters(ts), returns, body), stored)
Acts(ts, stored, body) == Program(ts, NoT, stored, body)
M(k) == Mem(96 + 4 * k, U)
DA == DArrayT(U, 2)
SA == SArrayT(U, 2)
D0 == Sto(0, DA)
D1 == Sto(1, DA)
A1 == Sto(1, SA)
K == UintT(3)
HM == Sto(5, HashMapT(K, U))
Append1(a, x) == [E("append", NoT, <<a, x>>) EXCEPT !.buf = <<128>>]
Pop1(a) == E("pop", ValueType(a.typ), <<a>>)
Listed(xs, typ) == E("list", typ, xs)
Loops ==
  {Program(<<U>>, U, <<S0>>, <<ForRange(L(1, U), L(4, U), 0, 96,
       <<If(Compared("==", M(0), X(<<U>>)), <<Leave(how)>>, <<>>), Aug("+", S0, M(0))>>), Ret(S0)>>) : how \in {"break", "continue", "pass"}}
  \union {Program(<<U>>, U, <<S0>>, <<ForRange(L(0, U), L(3, U), 0, 96, <<Aug("*", S0, L(2, U)), If(Compared("==", M(0), X(<<U>>)), <<Ret(S0)>>, <<>>)>>), Ret(L(77, U))>>),
   Program(<<SintT(6), SintT(6)>>, SintT(6), <<>>, <<Set(Mem(100, SintT(6)), L(0, SintT(6))),
       ForRange(X(<<SintT(6), SintT(6)>>), Y(<<SintT(6), SintT(6)>>), 3, 96, <<Aug("+", Mem(100, SintT(6)), Mem(96, SintT(6)))>>), Ret(Mem(100, SintT(6)))>>),
   Program(<<U, U>>, U, <<S0>>, <<ForRange(X(<<U, U>>), Y(<<U, U>>), 2, 96,
       <<ForRange(L(0, U), L(2, U), 0, 100, <<If(Compared("==", M(1), One), <<Leave("break")>>, <<>>), Aug("+", S0, M(0))>>)>>), Ret(S0)>>),
   Acts(<<U>>, <<D0>>, <<If(Compared("<", X(<<U>>), L(2, U)), <<Do(Append1(D0, X(<<U>>)))>>, <<>>), Do(Append1(D0, One))>>),
   Acts(<<DA>>, <<S0>>, <<ForList(X(<<DA>>), 120, 124, <<Aug("+", S0, Mem(120, U))>>)>>),
   Acts(<<U>>, <<S0, D1>>, <<ForList(D1, 120, 124, <<Aug("+", S0, Mem(120, U)), If(Compared("==", Mem(120, U), X(<<U>>)), <<Leave("break")>>, <<>>)>>)>>),
   Acts(<<U>>, <<S0>>, <<ForList(Listed(<<X(<<U>>), L(5, U)>>, SA), 120, 124, <<Aug("-", S0, Mem(120, U))>>)>>)}
Reasons ==
  LET small == Compared("<", X(<<U>>), L(2, U))
      why == B(<<1, 2>>, 100)
  IN {Acts(<<U>>, <<S0>>, <<Set(S0, X(<<U>>)), Why("assert", "", <<small>>)>>),
      Acts(<<U>>, <<S0>>, <<Set(S0, X(<<U>>)), Why("assert", "reason", <<small, why>>)>>),
      Acts(<<U>>, <<S0>>, <<Why("assert", "unreachable", <<small>>)>>),
      Acts(<<BT(3)>>, <<>>, <<Why("assert", "reason", <<Compared("==", X(<<BT(3)>>), why), X(<<BT(3)>>)>>)>>),
      Acts(<<U>>, <<S0>>, <<If(small, <<Why("raise", "", <<>>)>>, <<Why("raise", "reason", <<why>>)>>)>>),
      Acts(<<U>>, <<>>, <<If(small, <<Why("raise", "unreachable", <<>>)>>, <<Leave("pass")>>)>>)}
Changes ==
  {Acts(<<U>>, <<S0, A1>>, <<If(Compared("<=", X(<<U>>), One), <<Set(S0, X(<<U>>))>>, <<Set(Item(A1, X(<<U>>)), S0)>>)>>),
   Acts(<<U>>, <<A1>>, <<Set(A1, Listed(<<Item(A1, One), Item(A1, X(<<U>>))>>, SA))>>),
   Acts(<<U>>, <<D1>>, <<Set(D1, Listed(<<Item(D1, One), X(<<U>>)>>, DA))>>),
   Acts(<<U>>, <<D1>>, <<Set(D1, Listed(<<X(<<U>>)>>, DArrayT(U, 1)))>>),
   Acts(<<>>, <<D1>>, <<Set(D1, E("empty", DA, <<>>))>>),
   Acts(<<>>, <<A1>>, <<Set(A1, E("empty", SA, <<>>))>>),
   Acts(<<U>>, <<D1, S0>>, <<Set(S0, Pop1(D1)), Aug("+", Item(D1, X(<<U>>)), S0)>>),
   Acts(<<U>>, <<D1>>, <<Do(E("pop", NoT, <<D1>>)), Do(Append1(D1, X(<<U>>))), Do(E("pop", NoT, <<D1>>)), Do(E("pop", NoT, <<D1>>)), Do(E("pop", NoT, <<D1>>))>>),
   Acts(<<U>>, <<D1, S0>>, <<Do(E("pop", NoT, <<D1>>)), Do(Append1(D1, Item(D1, X(<<U>>))))>>),
   Acts(<<K, K>>, <<S0, HM>>, <<Set(Item(HM, X(<<K, K>>)), L(9, U)), Set(S0, Item(HM, Y(<<K, K>>))), Set(Item(HM, Y(<<K, K>>)), L(8, U)), Aug("+", S0, Item(HM, X(<<K, K>>)))>>),
   Acts(<<U, U>>, <<S0, A1>>, <<Set(E("tuple", TupleT(<<U, U>>), <<S0, Item(A1, L(0, U))>>), E("tuple", TupleT(<<U, U>>), <<X(<<U, U>>), Y(<<U, U>>)>>))>>),
   Program(<<U, U>>, TupleT(<<U, SA>>), <<>>, <<Ret(E("tuple", TupleT(<<U, SA>>), <<X(<<U, U>>), Listed(<<Y(<<U, U>>), One>>, SA)>>))>>)}
Events ==
  LET ts == <<U, BT(3)>> IN
  {Acts(ts, <<>>, <<Event(5, <<X(ts), Y(ts)>>, <<>>)>>), Acts(ts, <<>>, <<Event(5, <<X(ts), Y(ts)>>, <<1, 2>>)>>),
   Acts(ts, <<S0>>, <<Event(6, <<Y(ts), S0>>, <<2>>), Set(S0, X(ts)), Event(6, <<B(<<1>>, 100), S0>>, <<2>>)>>)}
Ext(typ, ps, args, default) == [E("ext_call", typ, args) EXCEPT !.n = 3, !.params = ps, !.buf = <<128, 96, 200>>, !.orelse = default]
ExtBack == SArrayT(U, 2)
Calls ==
  LET ts == <<AddressT, U>>
      to(typ, default) == Ext(typ, <<U>>, <<X(ts), Y(ts), S0>>, default)
  IN {Calling(Program(ts, U, <<S0>>, <<Ret(to(U, <<>>))>>)), Calling(Program(ts, U, <<S0>>, <<Ret(to(U, <<L(7, U)>>))>>)),
      Calling(Program(ts, UintT(6), <<S0>>, <<Ret(to(UintT(6), <<>>))>>)),
      Calling(Program(ts, BoolT, <<S0>>, <<Ret([to(BoolT, <<>>) EXCEPT !.op = "skip_contract_check"])>>)),
      Calling(Acts(ts, <<S0>>, <<Do(to(NoT, <<>>)), Aug("+", S0, Y(ts))>>)),
      Calling(Program(ts, BT(3), <<S0>>, <<Ret(to(BT(3), <<>>))>>)),
      Calling(Program(ts, TupleT(<<UintT(6), U>>), <<S0, D1>>, <<Ret(Ext(TupleT(<<UintT(6), U>>), <<DA>>, <<X(ts), L(0, U), D1>>, <<>>))>>)),
      Calling(Acts(ts, <<S0, A1>>, <<Set(A1, Ext(SA, <<SA>>, <<X(ts), Y(ts), A1>>, <<>>)), Set(S0, Ext(U, <<>>, <<X(ts), Y(ts)>>, <<>>))>>))}
Callee(name, params, returns, body) == [F(params, returns, body) EXCEPT !.name = name, !.external = FALSE]
Own(g, typ, ps, body, args, k) ==
  [E("self_call", typ, args) EXCEPT !.op = g, !.n = 48, !.params = ps, !.body = body, !.data = <<k>>, !.buf = <<100 + 4 * k, 128>>]
Inner ==
  LET p == Mem(48, U)
      q == Mem(52, U)
      body == <<If(Compared("<", p, q), <<Set(S0, q), Ret(p)>>, <<>>), Aug("+", S0, One), Ret(Binary("-", p, q))>>
      silent == <<Set(S0, p)>>
      search == <<ForRange(L(0, U), L(3, U), 0, 56, <<If(Compared("==", Mem(56, U), p), <<Ret(Binary("+", p, q))>>, <<>>)>>), Ret(q)>>
      searches(x, y, k) == Own("k", U, <<U, U>>, search, <<x, y>>, k)
      g == Callee("g", <<>>, U, body)
      h == Callee("h", <<>>, NoT, silent)
      ts == <<U, U>>
      gOf(x, y, k) == Own("g", U, <<U, U>>, body, <<x, y>>, k)
      prog(c, fs) == [c EXCEPT !.internals = fs]
  IN {prog(Program(ts, U, <<S0>>, <<Ret(gOf(X(ts), Y(ts), 0))>>), <<g>>),
      prog(Program(ts, U, <<S0>>, <<Ret(gOf(gOf(X(ts), One, 0), gOf(Y(ts), One, 1), 2))>>), <<g>>),
      prog(Program(ts, U, <<S0>>, <<Do(Own("h", NoT, <<U>>, silent, <<X(ts)>>, 0)), Ret(Binary("+", S0, gOf(Y(ts), X(ts), 1)))>>), <<g, h>>),
      prog(Program(ts, U, <<S0>>, <<Ret(Binary("-", searches(X(ts), Y(ts), 0), searches(Y(ts), One, 1)))>>), <<Callee("k", <<>>, U, search)>>)}
Shapes ==
  LET c == Program(<<U>>, U, <<S0>>, <<Ret(Binary("+", X(<<U>>), S0))>>)
      withDefault == [c EXCEPT !.f.params[1].default = <<L(6, U)>>]
      locked == Stored(Calling(Program(<<AddressT, U>>, U, <<>>, <<Ret(Ext(U, <<U>>, <<X(<<AddressT, U>>), Y(<<AddressT, U>>), One>>, <<>>))>>)), <<Variable("transient", LockKey, U)>>)
  IN {[withDefault EXCEPT !.given = 0], [c EXCEPT !.f.payable = TRUE], [locked EXCEPT !.f.nonreentrant = TRUE],
      [locked EXCEPT !.f.nonreentrant = TRUE, !.f.view = TRUE],
      [Program(<<BT(5)>>, BT(5), <<>>, <<Ret(X(<<BT(5)>>))>>) EXCEPT !.f.raw = TRUE]}
(* The value that is added to an item changes the array or the index.     *)
Moving ==
  LET ts == <<U>>
      fs == <<AddressT, U>>
      p == Mem(48, U)
      pops == <<Ret(Binary("+", Pop1(D1), p))>>
      sets == <<Set(D1, Listed(<<p>>, DArrayT(U, 1))), Ret(p)>>
      moves == <<Set(S0, p), Ret(One)>>
      DM == Mem(100, DA)
      SA4 == Sto(4, SA)
      calls(x) == <<Callee("g", <<>>, U, x), Own("g", U, <<U>>, x, <<X(ts)>>, 0)>>
      own(x, i) == [Acts(ts, <<S0, D1>>, <<Aug("+", Item(D1, i), calls(x)[2])>>) EXCEPT !.internals = <<calls(x)[1]>>]
      out(a) == Aug("+", Item(a, One), Ext(U, <<U>>, <<X(fs), Y(fs), One>>, <<>>))
  IN {Acts(ts, <<D1>>, <<Aug("+", Item(D1, X(ts)), Pop1(D1))>>), Acts(ts, <<D0, Sto(4, DA)>>, <<Aug("+", Item(D0, X(ts)), Pop1(Sto(4, DA)))>>),
      Program(ts, DA, <<>>, <<Set(DM, Listed(<<One, X(ts)>>, DA)), Aug("+", Item(DM, One), Item(DM, X(ts))), Ret(DM)>>),
      Program(ts, DA, <<>>, <<Set(DM, Listed(<<One, X(ts)>>, DA)), Aug("+", Item(DM, One), Pop1(DM)), Ret(DM)>>),
      own(pops, One), own(sets, One), own(moves, S0),
      Acts(ts, <<D0, SA4>>, <<Aug("+", Item(SA4, Pop1(D0)), X(ts))>>),
      Calling(Acts(fs, <<D1>>, <<out(D1)>>)), Calling(Program(fs, DA, <<>>, <<Set(DM, Listed(<<One, Y(fs)>>, DA)), out(DM), Ret(DM)>>))}
Statements == Moving \union Loops \union Reasons \union Changes \union Events \union Calls \union Inner \union Shapes

(* Builtin functions, and what expressions are made of. *)
Builtin1(t, F1(_)) == Unary("builtins", t, F1)
Builtin2(t, u, F2(_, _)) == Computes("builtins", <<t, u>>, F2(X(<<t, u>>), Y(<<t, u>>)))
Effect(c, typ, ts, x) == Stored(C(c, Parameters(ts), typ, <<IF typ = NoT THEN Do(x) ELSE Ret(x)>>), <<>>)
SB(n) == Sto(1, BT(n))
NumberFunctions ==
  {Builtin1(DecimalT, LAMBDA x : Fn(f, I, <<x>>, <<>>)) : f \in {"floor", "ceil"}}
  \union {Builtin1(I, LAMBDA x : Fn("abs", I, <<x>>, <<>>))}
  \union {Builtin2(t, I, LAMBDA x, y : Fn("shift", t, <<x, y>>, <<>>)) : t \in {U, I}}
  \union {Builtin2(t, t, LAMBDA x, y : Fn(f, t, <<x, y>>, <<>>)) :
            t \in {U, I, UintT(6), SintT(6)}, f \in {"unsafe_add", "unsafe_sub", "unsafe_mul", "unsafe_div", "min", "max"}}
  \union {Builtin2(U, U, LAMBDA x, y : Fn("pow_mod256", U, <<x, y>>, <<>>))}
  \union {Builtin1(t, LAMBDA x : FnN("as_wei_value", U, <<x>>, n, <<>>)) : t \in {U, I, UintT(6), DecimalT}, n \in {1, 3, 15}}
  \union {Builtin1(t, LAMBDA x : Fn("uint2str", BT(n), <<x>>, <<100>>)) : t \in {UintT(6)}, n \in {4}}
  \union {Builtin1(U, LAMBDA x : Fn("uint2str", BT(8), <<x>>, <<100>>))}
BytesFunctionsUsed ==
  LET words(n) == BytesT(n)
      U0(n) == L(n, U)
      slice(b, s, n, bound) == Fn("slice", BT(bound), <<b, s, n>>, <<100, 120>>)
  IN {Builtin1(t, LAMBDA x : Fn("keccak256", BYTES32, <<x>>, <<100>>)) : t \in {BYTES32, BT(5)}}
     \union {Effect("builtins", BYTES32, <<>>, Fn("keccak256", BYTES32, <<SB(5)>>, <<100>>)), Effect("builtins", U, <<>>, Fn("len", U, <<SB(5)>>, <<>>)),
              Builtin1(BT(5), LAMBDA x : Fn("len", U, <<x>>, <<>>)), Builtin1(DA, LAMBDA x : Fn("len", U, <<x>>, <<>>))}
     \union {Builtin2(U, U, LAMBDA x, y : slice(b, x, y, 5)) : b \in {SB(5), B(<<1, 2, 3, 4, 5>>, 140)}}
     \union {Builtin2(BT(5), U, LAMBDA x, y : slice(x, y, U0(2), 2)), Builtin2(BT(5), U, LAMBDA x, y : slice(x, U0(1), y, 5)),
              Builtin2(BYTES32, U, LAMBDA x, y : slice(x, y, U0(2), 2)),
              Stored(Builtin1(U, LAMBDA x : slice(SB(5), Pop1(Sto(5, DA)), x, 5)), <<SB(5), Sto(5, DA)>>)}
     \union {Builtin2(BT(3), BT(5), LAMBDA x, y : Fn("concat", BT(8), <<x, y>>, <<100>>)), Builtin2(BT(3), BytesM(2), LAMBDA x, y : Fn("concat", BT(10), <<x, y, SB(5)>>, <<100>>)),
              Builtin2(BytesM(1), BytesM(2), LAMBDA x, y : Fn("concat", BT(3), <<x, y>>, <<100>>))}
     \union {Builtin2(BT(5), U, LAMBDA x, y : Fn("extract32", t, <<x, y>>, <<100>>)) : t \in {BYTES32, UintT(6), I, AddressT}}
     \union {Builtin1(U, LAMBDA x : Fn("extract32", BYTES32, <<Sto(4, BT(9)), x>>, <<100>>))}
Encodes1(x, n, id, typ) == [FnN("abi_encode", typ, x, n, <<100, 140>>) EXCEPT !.data = id]
Decodable == {DA, TupleT(<<U, BT(3)>>), UintT(6), BT(3), SArrayT(UintT(6), 2), DArrayT(BT(3), 2)}
(* abi_decode of any bytes. *)
Decodes(t, u, n) ==
  LET sample == Source!Encoding(u, IF u = t THEN SampleOf(t) ELSE <<SampleOf(t)>>)
  IN [Builtin1(BT(SizeBound(u) + 4), LAMBDA x : FnN("abi_decode", t, <<x>>, n, <<200, 100>>)) EXCEPT
        !.inputs = {<<bytes>> : bytes \in {sample, sample \o <<0>>, sample \o <<0, 0, 0, 0>>, <<>>} \union Damaged(sample, 0)}]
EncodingFunctions ==
  {Builtin1(t, LAMBDA x : Encodes1(<<x>>, n, id, BT(WordBytes + SelectorBytes + SizeBound(Source!Wrapped(t))))) :
      t \in {U, BT(3), DA, TupleT(<<UintT(6), BT(3)>>)}, n \in {0, 1}, id \in {<<>>, <<5>>}}
  \union {Builtin2(U, BT(3), LAMBDA x, y : Encodes1(<<x, y, Listed(<<x>>, DA)>>, 1, <<>>, BT(44)))}
  \union {Decodes(t, Source!Wrapped(t), 1) : t \in Decodable} \union {Decodes(t, t, 0) : t \in {TupleT(<<U, BT(3)>>), SArrayT(UintT(6), 2)}}
Effects ==
  LET raw(op, typ, n, a) == [Fn(op, typ, a, <<100, 120>>) EXCEPT !.n = n]
      ts == <<AddressT, U>>
      bytes == <<BT(5), U>>
  IN {Calling(Effect("builtins", NoT, ts, Fn("send", NoT, <<X(ts), Y(ts)>>, <<>>)))}
     \union {Calling(Effect("builtins", typ, <<AddressT, U>>, raw(op, typ, IF typ.kind \in {"bytes", "tuple"} THEN 3 ELSE 0, <<X(ts), SB(5), Y(ts)>>))) :
               <<op, typ>> \in {<<"raw_call", BT(3)>>, <<"raw_call", NoT>>, <<"raw_call!", BoolT>>, <<"raw_call!", TupleT(<<BoolT, BT(3)>>)>>}}
     \union {Effect("builtins", NoT, <<BT(5)>>, Fn("raw_revert", NoT, <<X(<<BT(5)>>)>>, <<100>>)), Effect("builtins", NoT, <<>>, Fn("raw_revert", NoT, <<SB(5)>>, <<100>>)),
              Effect("builtins", NoT, bytes, Fn("raw_log", NoT, <<Listed(<<L(3, BYTES32), Cast(Y(bytes), BYTES32)>>, SArrayT(BYTES32, 2)), X(bytes)>>, <<100>>)),
              Effect("builtins", NoT, <<BYTES32>>, Fn("raw_log", NoT, <<Listed(<<>>, SArrayT(BYTES32, 0)), X(<<BYTES32>>)>>, <<100>>))}
Inside(op, x, list) == [Compared(op, x, list) EXCEPT !.buf = <<100>>]
Same(op, x, y) == [Compared(op, x, y) EXCEPT !.buf = <<100, 120>>]
Choose(c, x, y) == [E("ifexp", x.typ, <<c, x, y>>) EXCEPT !.buf = <<100, 120>>]
Logic(op, xs) == EOp("boolop", op, BoolT, xs)
Operators ==
  {Builtin2(t, t, LAMBDA x, y : Compared(op, x, y)) : t \in {U, I, SintT(6), UintT(6), DecimalT}, op \in {"==", "!=", "<", "<=", ">", ">="}}
  \union {Builtin2(BT(3), BT(5), LAMBDA x, y : Same(op, x, y)) : op \in {"==", "!="}}
  \union {Builtin2(U, DA, LAMBDA x, y : Inside(op, x, y)) : op \in {"in", "not in"}}
  \union {Builtin2(U, U, LAMBDA x, y : Inside(op, x, Listed(<<y, L(3, U)>>, SA))) : op \in {"in", "not in"}}
  \union {Stored(Builtin1(U, LAMBDA x : Inside(op, x, list)), <<list>>) : op \in {"in", "not in"}, list \in {A1, D1}}
  \union {Builtin2(FlagT(3), FlagT(3), LAMBDA x, y : Compared(op, x, y)) : op \in {"in", "not in", "=="}}
  \union {Builtin2(t, t, LAMBDA x, y : Binary(op, x, y)) : t \in {U, FlagT(3)}, op \in {"&", "|", "^"}}
  \union {Computes("builtins", <<t, U>>, Binary(op, X(<<t, U>>), Y(<<t, U>>))) : t \in {U, I}, op \in {"<<", ">>"}}
  \union {Builtin1(FlagT(3), LAMBDA x : Un("~", x)), Builtin1(U, LAMBDA x : Un("~", x)), Builtin1(BoolT, LAMBDA x : Un("not", x))}
  \union {Builtin2(BoolT, BoolT, LAMBDA x, y : Logic(op, <<x, Compared("==", S0, One), y>>)) : op \in {"and", "or"}}
  \union {Builtin2(BoolT, U, LAMBDA c, y : Choose(c, y, S0)), Builtin2(BoolT, BT(5), LAMBDA c, y : Choose(c, y, SB(5))),
           Builtin2(BoolT, U, LAMBDA c, y : Choose(c, Listed(<<y>>, DA), Listed(<<One, y>>, DA)))}
  \union {Builtin2(SA, U, LAMBDA x, i : Item(x, i)), Builtin2(DArrayT(BT(3), 2), U, LAMBDA x, i : Item(x, i)),
           Builtin2(SArrayT(SArrayT(UintT(6), 2), 2), I, LAMBDA x, i : Item(Item(x, i), L(1, U))),
           Builtin1(TupleT(<<UintT(6), BT(3)>>), LAMBDA x : Member(x, 2)), Builtin1(U, LAMBDA i : [Item(Listed(<<One, i>>, SA), i) EXCEPT !.buf = <<100>>]),
           Builtin1(AddressT, LAMBDA x : EOp("environment", "is_contract", BoolT, <<x>>)), Builtin1(AddressT, LAMBDA x : EOp("environment", "codesize", U, <<x>>))}
WithVariables(c, vs) == [c EXCEPT !.stored = vs]
Functional == {WithVariables(c, IF c.stored = <<>> THEN <<S0, SB(5), Sto(4, BT(9))>> ELSE c.stored) : c \in NumberFunctions \union BytesFunctionsUsed \union EncodingFunctions \union Effects \union Operators}

---------------------------------------------------------------------------

TypesOf(c) == [k \in DOMAIN c.f.params |-> c.f.params[k].typ]
MCArguments(c) ==
  IF c.inputs # {} THEN c.inputs
  ELSE IF c.family # "arithmetic" /\ Len(c.f.params) = 2 THEN PairsOf(TypesOf(c)) ELSE TuplesOf(TypesOf(c))
EncodingFor(c) == CalldataOf(c, [k \in DOMAIN c.f.params |-> SampleOf(c.f.params[k].typ)])
MCDirt(c) == IF c.family = "data" THEN Damaged(EncodingFor(c), SelectorBytes) ELSE {}
(* Internal functions are not in the model of the Venom code generator. *)
Levels(c) == IF c.family = "statements" THEN {"none", "gas", "codesize"} ELSE IF c.family = "data" THEN {"none", "codesize"} ELSE {"gas"}
MCSettings(c) ==
  {[experimental |-> FALSE, optimize |-> o] : o \in Levels(c)}
  \union (IF c.internals = <<>> THEN {[experimental |-> TRUE, optimize |-> "gas"]} ELSE {})
(* Parameters that need a check, or have a default, are in memory from     *)
(* address 8 on; the others are left in calldata.                          *)
HeadBefore(ps, k) == Fold(LAMBDA n, p : n + EmbeddedStaticSize(p.typ), 0, SubSeq(ps, 1, k - 1))
RoomBefore(ps, k) == Fold(LAMBDA n, p : n + SizeInBytes(p.typ), 8, SubSeq(ps, 1, k - 1))
PlacedParameter(ps, k) ==
  IF NeedsClamp(ps[k].typ, TRUE) \/ ps[k].default # <<>>
  THEN [typ |-> ps[k].typ, default |-> ps[k].default, at |-> RoomBefore(ps, k), loc |-> "memory"]
  ELSE [typ |-> ps[k].typ, default |-> ps[k].default, at |-> HeadBefore(ps, k), loc |-> "calldata"]
RECURSIVE Resolved(_, _)
ResolvedAll(es, ps) == <<>> \o [k \in DOMAIN es |-> Resolved(es[k], ps)]
Resolved(e, ps) ==
  IF e.k = "argument" THEN Variable(ps[e.n].loc, ps[e.n].at, e.typ)
  ELSE [e EXCEPT !.args = ResolvedAll(@, ps), !.body = ResolvedAll(@, ps), !.orelse = ResolvedAll(@, ps)]
ResolvedIn(c, ps) == [c EXCEPT !.f.params = ps, !.f.body = ResolvedAll(@, ps)]
Placed(c) == ResolvedIn(c, <<>> \o [k \in DOMAIN c.f.params |-> PlacedParameter(c.f.params, k)])
MCContracts == {Placed(c) : c \in Arith \union Casted \union Data \union Statements \union Functional}
=============================================================================
