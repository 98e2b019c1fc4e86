----------------------------- MODULE Expressions -----------------------------
(***************************************************************************)
(* The code of expressions (codegen/expr.py), of calls of functions of the *)
(* contract (codegen/self_call.py) and of other contracts                  *)
(* (codegen/external_call.py), of statements (codegen/stmt.py), of return  *)
(* (codegen/return_.py) and of whole functions                             *)
(* (codegen/function_definitions/).                                        *)
(*                                                                         *)
(* Expr(e) is a value or a pointer to it, Value(e) the value if it is a    *)
(* word.  Left out are most of the variables of the environment, and       *)
(* interfaces, whose values are addresses.                                 *)
(*                                                                         *)
(* A function f has a name, parameters (each with its type, its place and  *)
(* the number of its default value in defaults), a body, the type of its   *)
(* result, and tells whether it is external, whether it holds the lock and *)
(* whether it is a view.  looping tells whether a statement is in a loop.  *)
(***************************************************************************)
EXTENDS Builtins

CONSTANTS GetElementPtr(_, _, _), SafeBinop(_, _, _), Convert(_, _, _),     \* those of Setters and Arithmetic
          LockKey,        \* slot of the reentrancy key
          ErrorId         \* method id of Error(string)

RECURSIVE Expr(_), Stmt(_, _, _)
Value(e) == UnwrapLocation(Expr(e))
(* process_inputs *)
Input(e) == IF IsPrimWord(e.typ) THEN Value(e) ELSE Expr(e)
Inputs(es) == <<>> \o [k \in DOMAIN es |-> Input(es[k])]
Exprs(es) == <<>> \o [k \in DOMAIN es |-> Expr(es[k])]

---------------------------------------------------------------------------
(* Literals and variables *)

LiteralWord(e) == Literal(IF e.typ.kind = "bytesM" THEN e.n * 2 ^ (WordBits - MBits(e.typ)) ELSE e.n, e.typ)
WordStores(bytez, at) ==
  [k \in 1 .. Ceil32(Len(bytez)) \div WordBytes |->
     IR("mstore", <<Add(at, Number(k * WordBytes)), Number(WordOf(Padded(bytez, (k - 1) * WordBytes, WordBytes)))>>)]
MakeBytelike(bytez, typ, at) ==
  InMem(Sequence(<<IR("mstore", <<at, Number(Len(bytez))>>)>> \o WordStores(bytez, at) \o <<at>>), typ)

(* An argument in calldata is encoded; all of those that are left there    *)
(* need no check.                                                          *)
VariableAt(e) ==
  CASE e.loc = "memory" -> Local(e.n, e.typ)
    [] e.loc = "calldata" -> Val(Add(Number(SelectorBytes), Number(e.n)), e.typ, "calldata", TRUE)
    [] OTHER -> Pointer(e.loc, Number(e.n), e.typ)
Environment(e, a) ==
  CASE e.op = "codesize" -> IR("extcodesize", <<a[1].ir>>)
    [] e.op = "is_contract" -> IR("gt", <<IR("extcodesize", <<a[1].ir>>), Number(0)>>)
    [] OTHER -> Name(e.op)

Indexed(e, sub, index) ==
  IF ReadWriteOverlap(e.args[1], e.args[2]) THEN Word(Panic, e.typ) ELSE GetElementPtr(sub, index, TRUE)
KeyOf(e, key) == IF IsBytestring(key.typ) THEN Word(HashOf(key, BufferFor(e, 2, key.typ)), BYTES32) ELSE key
SubscriptOf(e, sub) ==
  CASE sub.typ.kind = "hashmap" -> GetElementPtr(sub, KeyOf(e, Expr(e.args[2])), TRUE)
    [] IsArrayLike(sub.typ) -> Indexed(e, sub, Value(e.args[2]))
    [] OTHER -> GetElementPtr(sub, Literal(e.n, UINT256), TRUE)
InMemoryIfMulti(v, buffer) == IF IsMulti(v) THEN EnsureInMemory(v, buffer) ELSE v
Subscript(e, sub) == SubscriptOf(e, InMemoryIfMulti(sub, BufferFor(e, 1, sub.typ)))

---------------------------------------------------------------------------
(* Dynamic arrays: append and pop. *)

AppendDynArray(darray, elem) ==
  Cached("darray", darray, LAMBDA d :
    CachedNode("old_darray_len", LengthOf(d), LAMBDA length :
      Sequence(<<Asserts(IR("lt", <<length, Number(darray.typ.n)>>)),
                 MakeSetter(GetElementPtr(d, Word(length, UINT256), FALSE), elem, <<>>),
                 STORE(d, Add(length, Number(1)))>>)))
PopDynArray(darray, returned) ==
  Pointer(darray.loc,
    Cached("darray", darray, LAMBDA d :
      CachedNode("new_len", IR("sub", <<ClampOp("gt", LengthOf(d), Number(0)), Number(1)>>), LAMBDA length :
        Sequence(<<STORE(d, length)>>
                 \o (IF returned THEN <<GetElementPtr(d, Word(length, UINT256), FALSE).ir>> ELSE <<>>)))),
    ValueType(darray.typ))

---------------------------------------------------------------------------
(* Operators *)

BitwiseOp == ("&" :> "and") @@ ("|" :> "or") @@ ("^" :> "xor")
ShiftOp(op, t) == IF op = "<<" THEN "shl" ELSE IF t.signed THEN "sar" ELSE "shr"
BinopCode(op, x, y) ==
  CASE op \in DOMAIN BitwiseOp -> IR(BitwiseOp[op], <<x.ir, y.ir>>)
    [] op \in {"<<", ">>"} -> IF x.typ \notin {UINT256, INT256, BYTES32} THEN TypeFailure
                              ELSE IR(ShiftOp(op, x.typ), <<y.ir, x.ir>>)
    [] x.typ # y.typ -> TypeFailure
    [] OTHER -> Cached("x", x, LAMBDA a : Cached("y", y, LAMBDA b : SafeBinop(op, a, b)))
HandleBinop(op, x, y) == Word(BinopCode(op, x, y), x.typ)

LogicalAnd(irs) == Fold(LAMBDA ir, k : IR("if", <<irs[k], ir, Number(0)>>), Last(irs), Reverse([k \in 1 .. Len(irs) - 1 |-> k]))
LogicalOr(irs) == Fold(LAMBDA ir, k : IR("if", <<irs[k], Number(1), ir>>), Last(irs), Reverse([k \in 1 .. Len(irs) - 1 |-> k]))

(* x in list: a literal list is unrolled, another is searched in a loop    *)
(* that leaves its result in memory.                                       *)
InLiteral(e, needle, list) ==
  LET checks == <<>> \o [k \in DOMAIN list.parts |->
                   IR(IF e.op = "in" THEN "eq" ELSE "ne", <<needle.ir, UnwrapLocation(list.parts[k]).ir>>)]
  IN IF e.op = "in" THEN LogicalOr(checks) ELSE LogicalAnd(checks)
InLoop(e, needle, list, i, found) ==
  LET hit == IR("if", <<IR("eq", <<needle.ir, UnwrapLocation(GetElementPtr(list, i, FALSE)).ir>>),
                        Sequence(<<IR("mstore", <<found, Number(Bool(e.op = "in"))>>), Name("break")>>)>>)
      rounds == IF IsDArray(list.typ) THEN LengthOf(list) ELSE Number(list.typ.n)
  IN Sequence(<<Sequence(<<IR("mstore", <<found, Number(Bool(e.op # "in"))>>),
                           IR("repeat", <<i.ir, Number(0), rounds, Number(list.typ.n), hit>>),
                           IR("mload", <<found>>)>>)>>)
InList(e, left, right) ==
  Cached("needle", left, LAMBDA needle : Cached("haystack", right, LAMBDA list :
    IF IsMulti(list) THEN InLiteral(e, needle, list)
    ELSE InLoop(e, needle, list, Word(Name("in_ix" \o ToString(e.buf[1])), UINT256), Place(e.buf[1], WordBytes))))
InFlag(e, x, y) ==
  LET absent == IR("iszero", <<IR("and", <<x.ir, y.ir>>)>>) IN IF e.op = "in" THEN IR("iszero", <<absent>>) ELSE absent

(* The signed comparisons do for every type that is shorter than a word.   *)
ComparisonOf(op, t) ==
  LET signed == ("<" :> "slt") @@ (">" :> "sgt") @@ ("<=" :> "sle") @@ (">=" :> "sge")
      unsigned == ("<" :> "lt") @@ (">" :> "gt") @@ ("<=" :> "le") @@ (">=" :> "ge")
  IN IF op = "==" THEN "eq" ELSE IF op = "!=" THEN "ne" ELSE IF t = UINT256 THEN unsigned[op] ELSE signed[op]
CompareCode(e, x, y) ==
  IF e.op \in {"in", "not in"}
  THEN (IF IsArrayLike(y.typ) THEN InList(e, UnwrapLocation(x), y) ELSE InFlag(e, UnwrapLocation(x), UnwrapLocation(y)))
  ELSE IF IsBytestring(x.typ)
       THEN IR(ComparisonOf(e.op, x.typ), <<HashOf(x, BufferFor(e, 1, x.typ)), HashOf(y, BufferFor(e, 2, y.typ))>>)
  ELSE IR(ComparisonOf(e.op, x.typ), <<UnwrapLocation(x).ir, UnwrapLocation(y).ir>>)

UnaryCode(e, v) ==
  CASE e.op = "not" -> IR("iszero", <<v.ir>>)
    [] e.op = "~" /\ v.typ.kind = "flag" -> IR("xor", <<Number(2 ^ v.typ.n - 1), v.ir>>)
    [] e.op = "~" /\ v.typ \in {UINT256, BYTES32} -> IR("not", <<v.ir>>)
    [] e.op = "-" -> IR("sub", <<Number(0), ClampOp("sgt", v.ir, Number(LowestOf(v.typ)))>>)
    [] OTHER -> TypeFailure

(* x if c else y: both in memory if they are in different places. *)
Choice(test, body, orelse, typ) == Val(IR("if", <<test.ir, body.ir, orelse.ir>>), typ, body.loc, FALSE)
IfExp(e, test, body, orelse) ==
  IF body.loc # orelse.loc \/ IsMulti(body)
  THEN Choice(test, EnsureInMemory(body, BufferFor(e, 1, body.typ)), EnsureInMemory(orelse, BufferFor(e, 2, orelse.typ)), e.typ)
  ELSE Choice(test, body, orelse, e.typ)

AppendTo(e, darray, arg) ==
  IF PotentialOverlap(e.args[1], e.args[2])
  THEN Sequence(<<MakeSetter(Local(e.buf[1], arg.typ), arg, <<>>), AppendDynArray(darray, Local(e.buf[1], arg.typ))>>)
  ELSE Sequence(<<AppendDynArray(darray, arg)>>)

---------------------------------------------------------------------------
(* ir_for_self_call: the arguments go to the frame of the callee, which    *)
(* begins at n; by way of a buffer if one of them is such a call itself.   *)
(* The callee gets the place for its result and where to return.           *)

CopyArguments(e, args) ==
  LET dst == InMem(Number(e.n), TupleT(e.params)) IN
  IF \E k \in DOMAIN e.args : ContainsSelfCall(e.args[k])
  THEN Sequence(<<MakeSetter(Local(e.buf[2], TupleT(e.params)), args, <<>>),
                  MakeSetter(dst, Local(e.buf[2], TupleT(e.params)), <<>>)>>)
  ELSE MakeSetter(dst, args, <<>>)
ReturnLabel(e) == e.op \o "_call" \o ToString(e.data[1])
SelfCall(e, args) ==
  LET returns == IF e.typ = NoT THEN <<>> ELSE <<BufferFor(e, 1, e.typ)>>
      back == IR("label", <<Name(ReturnLabel(e)), IR("var_list", <<>>), Pass>>)
  IN InMem(Sequence(<<IR("unique_symbol", <<Name("once_" \o ReturnLabel(e))>>), CopyArguments(e, args),
                      IR("goto", <<Name(e.op)>> \o returns \o <<IR("symbol", <<Name(ReturnLabel(e))>>)>>), back>>
                    \o returns), e.typ)

---------------------------------------------------------------------------
(* ir_for_external_call.  args are the address, the value and the          *)
(* arguments; n is the method id; orelse holds the default return value    *)
(* if there is one; op is "skip_contract_check" or empty.                  *)

ResultOf(e) == ReturnType(e.typ)
CallBuffer(e, args) ==
  LET forArgs == SizeBound(args.typ)
      forResult == IF e.typ = NoT THEN 0 ELSE SizeBound(ResultOf(e))
  IN Place(e.buf[1], WordBytes + (IF forArgs > forResult THEN forArgs ELSE forResult))
PackArguments(e, args, buf) ==
  <<IR("mstore", <<buf, Number(e.n)>>)>>
  \o (IF args.parts = <<>> THEN <<>> ELSE <<AbiEncode(Add(buf, Number(WordBytes)), args, FALSE, e.buf[3])>>)
ContractCheck(e, to) == IF e.op = "skip_contract_check" THEN <<>> ELSE <<Asserts(IR("extcodesize", <<to.ir>>))>>
CallCode(e, to, value, args, buf) ==
  Propagate(IR("call", <<Name("gas"), to.ir, value.ir, Add(buf, Number(WordBytes - SelectorBytes)),
                         Number(SizeBound(args.typ) + SelectorBytes), buf,
                         Number(IF e.typ = NoT THEN 0 ELSE SizeBound(ResultOf(e)))>>))

(* What is returned is checked: its size if nothing else needs a check,    *)
(* all of it if it is decoded.                                             *)
NeedsDecoding(e) == NeedsClamp(ResultOf(e), TRUE)
ReturnBuffer(e, buf) == IF NeedsDecoding(e) THEN Local(e.buf[2], ResultOf(e)) ELSE InMem(buf, ResultOf(e))
DecodeResult(e, buf) ==
  IF ~NeedsDecoding(e) THEN Asserts(IR("ge", <<Name("returndatasize"), Number(StaticSize(ResultOf(e)))>>))
  ELSE CachedNode("payload_bound", AtMost(SizeBound(ResultOf(e))), LAMBDA bound :
         MakeSetter(ReturnBuffer(e, buf), Val(buf, ResultOf(e), "memory", TRUE), <<Add(buf, bound)>>))
UnpackResult(e, to, buf, default) ==
  LET decode == Sequence(<<DecodeResult(e, buf)>>)
      override == Sequence(ContractCheck(e, to) \o <<MakeSetter(ReturnBuffer(e, buf), WrapForReturn(default[1]), <<>>)>>)
  IN Sequence(<<IF default = <<>> THEN decode
                ELSE IR("if", <<IR("eq", <<Name("returndatasize"), Number(0)>>), override, decode>>),
                ReturnBuffer(e, buf).ir>>)
ExternalCallCode(e, to, value, args, default, buf) ==
  IF ~AssignableTypes(TupleT(e.params), args.typ) THEN TypeFailure
  ELSE Sequence(PackArguments(e, args, buf)
                \o (IF e.typ = NoT THEN ContractCheck(e, to) ELSE <<>>)
                \o <<CallCode(e, to, value, args, buf)>>
                \o (IF e.typ = NoT THEN <<>> ELSE <<UnpackResult(e, to, buf, default)>>))
ExternalCall(e, to, value, args, default) ==
  InMem(Cached("external_contract", to, LAMBDA t : ExternalCallCode(e, t, value, args, default, CallBuffer(e, args))), e.typ)

---------------------------------------------------------------------------

LiteralOf(e) ==      \* of an argument of convert
  CASE e.k = "literal" -> <<e.n>>
    [] e.k = "bytes" -> <<Fold(LAMBDA n, b : n * 2 ^ ByteBits + b, 0, e.data)>>
    [] OTHER -> <<>>
Expr(e) ==
  CASE e.k = "literal" -> LiteralWord(e)
    [] e.k = "bytes" -> MakeBytelike(e.data, e.typ, BufferFor(e, 1, e.typ))
    [] e.k = "empty" -> EmptyOf(e.typ)
    [] e.k = "variable" -> VariableAt(e)
    [] e.k = "environment" -> Word(Environment(e, Inputs(e.args)), e.typ)
    [] e.k = "member" -> GetElementPtr(Expr(e.args[1]), Literal(e.n, UINT256), TRUE)
    [] e.k = "subscript" -> Subscript(e, Expr(e.args[1]))
    [] e.k = "binop" -> HandleBinop(e.op, Value(e.args[1]), Value(e.args[2]))
    [] e.k = "compare" -> Word(CompareCode(e, Expr(e.args[1]), Expr(e.args[2])), BoolT)
    [] e.k = "boolop" -> LET irs == <<>> \o [k \in DOMAIN e.args |-> Value(e.args[k]).ir]
                         IN Word(IF e.op = "and" THEN LogicalAnd(irs) ELSE LogicalOr(irs), BoolT)
    [] e.k = "unary" -> Word(UnaryCode(e, Value(e.args[1])), e.typ)
    [] e.k = "append" -> Word(AppendTo(e, Expr(e.args[1]), Expr(e.args[2])), NoT)
    [] e.k = "pop" -> PopDynArray(Expr(e.args[1]), e.typ # NoT)
    [] e.k = "list" -> IF e.args = <<>> THEN EmptyOf(e.typ) ELSE Multi(Exprs(e.args), e.typ)
    [] e.k = "tuple" -> TupleFromArgs(Exprs(e.args))
    [] e.k = "struct" -> Multi(Exprs(e.args), e.typ)
    [] e.k = "ifexp" -> IfExp(e, Value(e.args[1]), Expr(e.args[2]), Expr(e.args[3]))
    [] e.k = "convert" -> Convert(Expr(e.args[1]), LiteralOf(e.args[1]), e.typ)
    [] e.k = "call" -> Builtin(e, Inputs(e.args))
    [] e.k = "self_call" -> SelfCall(e, TupleFromArgs(Exprs(e.args)))
    [] e.k = "ext_call" -> ExternalCall(e, Value(e.args[1]), Value(e.args[2]),
                                        TupleFromArgs(Exprs(SubSeq(e.args, 3, Len(e.args)))), Exprs(e.orelse))

---------------------------------------------------------------------------
(* Statements *)

SetTo(dst, v) == MakeSetter(dst, v, <<>>)

(* Mutant: the right side is copied over what it reads. *)
AssignInPlace(s, dst, src) == Sequence(<<SetTo(dst, src)>>)
Assign(s, dst, src) ==
  IF PotentialOverlap(s.args[1], s.args[2])
  THEN Sequence(<<SetTo(Local(s.buf[1], src.typ), src), SetTo(dst, Local(s.buf[1], src.typ))>>)
  ELSE Sequence(<<SetTo(dst, src)>>)

(* The target is written after the value is computed; a call or a pop may  *)
(* not have moved it.                                                      *)
MovesTarget(s) ==
  \E ref \in RefsOf(s.args[1]) :
    /\ ~ref[3]
    /\ ref \in WritesOf(s.args[2]) \/ (ref[1] \in {"storage", "transient"} /\ ContainsRiskyCall(s.args[2]))
AugAssign(s, target, right) ==
  IF ~IsPrimWord(target.typ) THEN TypeFailure
  ELSE IF MovesTarget(s) THEN Panic
  ELSE Cached("_loc", target, LAMBDA loc : STORE(loc, HandleBinop(s.op, Word(LOAD(loc), loc.typ), right).ir))

---------------------------------------------------------------------------
(* assert and raise, with a reason: Error(string), encoded behind a word   *)
(* that ends in the method id.                                             *)

RevertWith(s, reason) ==
  LET buf == Place(s.buf[1], 2 * WordBytes + SizeInBytes(reason.typ))
      encoded == AbiEncode(Add(buf, Number(WordBytes)), WrapForReturn(reason), TRUE, s.buf[2])
  IN CachedNode("encoded_len", encoded, LAMBDA length :
       Sequence(<<IR("mstore", <<buf, Number(ErrorId)>>),
                  IR("revert", <<Add(buf, Number(WordBytes - SelectorBytes)), Add(Number(SelectorBytes), length)>>)>>))
AssertCode(s, test, a) ==
  CASE s.op = "unreachable" -> IR("assert_unreachable", <<test.ir>>)
    [] s.op = "reason" -> IR("if", <<IR("iszero", <<test.ir>>), RevertWith(s, a[2])>>)
    [] OTHER -> Asserts(test.ir)
RaiseCode(s, a) ==
  CASE s.op = "unreachable" -> Name("invalid")
    [] s.op = "reason" -> RevertWith(s, a[1])
    [] OTHER -> IR("revert", <<Number(0), Number(0)>>)

---------------------------------------------------------------------------
(* Loops.  The body is generated first and passed in. *)

(* args are the first value and the first one after the last; n is the     *)
(* bound, or 0 if both are literals.  The loop variable is kept in memory. *)
RangeLoop(s, start, rounds, bound, body) ==
  LET i == Name("range_ix" \o ToString(s.buf[1])) IN
  IR("repeat", <<i, start.ir, rounds, Number(bound),
                 Sequence(<<IR("mstore", <<Place(s.buf[1], WordBytes), i>>), body>>)>>)
RoundsWithin(start, end) ==
  Cached("end", end, LAMBDA e : IR("sub", <<e.ir, ClampLe(start.ir, e.ir, start.typ.signed)>>))
ForRange(s, start, end, body) ==
  Cached("start", start, LAMBDA st :
    IF s.n > 0 THEN RangeLoop(s, st, RoundsWithin(st, end), s.n, body)
    ELSE RangeLoop(s, st, Number(end.ir.n - st.ir.n), end.ir.n - st.ir.n, body))

ForEach(s, list, body) ==
  LET i == Word(Name("for_list_ix" \o ToString(s.buf[1])), UINT256) IN
  Cached("list_iter", list, LAMBDA l :
    Sequence(<<IR("repeat", <<i.ir, Number(0), IF IsDArray(l.typ) THEN LengthOf(l) ELSE Number(l.typ.n), Number(l.typ.n),
                              Sequence(<<SetTo(Local(s.buf[1], ValueType(l.typ)), GetElementPtr(l, i, FALSE)), body>>)>>)>>))
(* A list that is written out goes to memory first, inside of what is      *)
(* cached.                                                                 *)
ForList(s, list, body) ==
  IF IsPointer(list) THEN ForEach(s, list, body)
  ELSE Sequence(<<SetTo(Local(s.buf[2], list.typ), list), ForEach(s, Local(s.buf[2], list.typ), body)>>)

---------------------------------------------------------------------------
(* make_return_stmt *)

MatchesAbi(t) == ~IsDynamic(t)      \* abi_encoding_matches_vyper
ExitLabel(f) == f.name \o "_exit"
(* Mutant: a return from a loop leaves what the loop keeps on the stack. *)
FinalizeInLoop(f, looping, fill, passed) ==
  Sequence(<<fill, Sequence(<<>>), IR("exit_to", <<Name(ExitLabel(f))>> \o passed)>>)
Finalize(f, looping, fill, passed) ==
  Sequence(<<fill, IF looping THEN Name("cleanup_repeat") ELSE Sequence(<<>>),
             IR("exit_to", <<Name(ExitLabel(f))>> \o passed)>>)
ReturnEncoded(f, s, looping, v) ==
  LET maxlen == SizeBound(ReturnType(v.typ))
      buf == Place(s.buf[1], SizeBound(ReturnType(f.returns)))
  IN IF MatchesAbi(v.typ) /\ v.loc = "memory" /\ ~NeedsClamp(v.typ, v.abi)
     THEN Finalize(f, looping, Pass, <<v.ir, Number(maxlen)>>)
     ELSE Finalize(f, looping, Pass, <<buf, AbiEncode(buf, WrapForReturn(v), TRUE, s.buf[2])>>)
ReturnRaw(f, s, looping, v) ==
  LET buf == Local(s.buf[1], f.returns)
  IN Finalize(f, looping, SetTo(buf, v), <<DataPtr(buf).ir, LengthOf(buf)>>)
ReturnValue(f, s, looping, v) ==
  IF ~AssignableTypes(f.returns, v.typ) THEN TypeFailure
  ELSE IF ~f.external THEN Finalize(f, looping, SetTo(InMem(Name("return_buffer"), f.returns), v), <<Name("return_pc")>>)
  ELSE IF f.raw THEN ReturnRaw(f, s, looping, v)
  ELSE ReturnEncoded(f, s, looping, v)
Return(f, s, looping, a) ==
  IF f.returns = NoT
  THEN Finalize(f, looping, Sequence(<<>>), IF f.external THEN <<>> ELSE <<Name("return_pc")>>)
  ELSE ReturnValue(f, s, looping, a[1])

---------------------------------------------------------------------------

ParseBody(f, body, looping) == Sequence([k \in DOMAIN body |-> Stmt(f, body[k], looping)] \o <<Pass>>)
CodeOfStmt(f, s, looping, a) ==      \* a: what the expressions of s give
  LET word(k) == UnwrapLocation(a[k]) IN
  CASE s.k = "assign" -> Assign(s, a[1], a[2])
    [] s.k = "ann_assign" -> SetTo(a[1], a[2])
    [] s.k = "aug_assign" -> AugAssign(s, a[1], word(2))
    [] s.k = "if" -> IR("if", <<word(1).ir, ParseBody(f, s.body, looping)>>
                              \o (IF s.orelse = <<>> THEN <<>> ELSE <<ParseBody(f, s.orelse, looping)>>))
    [] s.k = "for_range" -> ForRange(s, word(1), word(2), ParseBody(f, s.body, TRUE))
    [] s.k = "for_list" -> ForList(s, a[1], ParseBody(f, s.body, TRUE))
    [] s.k = "assert" -> AssertCode(s, word(1), a)
    [] s.k = "raise" -> RaiseCode(s, a)
    [] s.k = "log" -> LogEvent(s, a, {s.data[k] : k \in DOMAIN s.data})
    [] s.k = "return" -> Return(f, s, looping, a)
    [] s.k = "expression" -> a[1].ir
    [] s.k \in {"break", "continue", "pass"} -> Name(s.k)
Stmt(f, s, looping) == CodeOfStmt(f, s, looping, Exprs(s.args))
EnsureTerminated(f) ==
  IF f.returns = NoT /\ ~IsTerminated(f.body) THEN Append(f.body, Node("return", NoT)) ELSE f.body
FunctionBody(f) == ParseBody(f, EnsureTerminated(f), FALSE)

---------------------------------------------------------------------------
(* get_nonreentrant_lock, with transient storage *)

LockHeld == Asserts(IR("ne", <<Number(1), IR("tload", <<Number(LockKey)>>)>>))
LockPre(f) ==
  IF ~f.nonreentrant THEN <<Pass>>
  ELSE IF f.view THEN <<LockHeld>>
  ELSE <<Sequence(<<LockHeld, IR("tstore", <<Number(LockKey), Number(1)>>)>>)>>
LockPost(f) ==
  IF ~f.nonreentrant THEN <<Pass>>
  ELSE IF f.view THEN <<Sequence(<<>>)>>
  ELSE <<IR("tstore", <<Number(LockKey), Number(0)>>)>>

(* External functions.  Arguments that need a check are checked and copied *)
(* to memory; the others stay in calldata.                                 *)
NumPositional(f) == Cardinality({k \in DOMAIN f.params : f.params[k].default = <<>>})
CalldataTuple(f, n) == Val(Number(SelectorBytes), TupleT([k \in 1 .. n |-> f.params[k].typ]), "calldata", TRUE)
CopyParameter(f, n, k) ==
  SetTo(Local(f.params[k].at, f.params[k].typ), GetElementPtr(CalldataTuple(f, n), Literal(k - 1, UINT256), FALSE))
HandleBaseArgs(f) ==
  LET n == NumPositional(f)
      checked == SelectSeq([k \in 1 .. n |-> k], LAMBDA k : NeedsClamp(f.params[k].typ, TRUE))
  IN [j \in DOMAIN checked |-> CopyParameter(f, n, checked[j])]
(* An entry point takes the first n arguments from calldata, and the       *)
(* others are their defaults.                                              *)
EntryLabel(f) == "external_" \o f.name \o "_common"
EntryPoint(f, n) ==
  [min |-> StaticSize(CalldataTuple(f, n).typ) + SelectorBytes,
   ir |-> Sequence([j \in 1 .. n - NumPositional(f) |-> CopyParameter(f, n, NumPositional(f) + j)]
                   \o [j \in 1 .. Len(f.params) - n |->
                         SetTo(Local(f.params[n + j].at, f.params[n + j].typ), Expr(f.params[n + j].default[1]))]
                   \o <<IR("goto", <<Name(EntryLabel(f))>>)>>)]
ExternalCommon(f) ==
  LET passed == IF f.returns = NoT THEN <<>> ELSE <<Name("ret_ofst"), Name("ret_len")>>
      leave == IF f.returns = NoT THEN Name("stop") ELSE IR("return", passed)
  IN Sequence(<<IR("label", <<Name(EntryLabel(f)), IR("var_list", <<>>),
                              Sequence(HandleBaseArgs(f) \o LockPre(f) \o <<FunctionBody(f)>>)>>),
                IR("label", <<Name(ExitLabel(f)), IR("var_list", passed), Sequence(LockPost(f) \o <<leave>>)>>)>>)

(* Internal functions: the caller has filled in the arguments. *)
InternalFunction(f) ==
  LET passed == (IF f.returns = NoT THEN <<>> ELSE <<Name("return_buffer")>>) \o <<Name("return_pc")>>
  IN Sequence(<<IR("label", <<Name(f.name), IR("var_list", passed), Sequence(LockPre(f) \o <<FunctionBody(f)>>)>>),
                IR("label", <<Name(ExitLabel(f)), IR("var_list", <<Name("return_pc")>>),
                              Sequence(LockPost(f) \o <<IR("exit_to", <<Name("return_pc")>>)>>)>>)>>)

(* A contract with one external function.  The entry point checks that no  *)
(* value is sent, if it is not payable, and the size of the calldata.      *)
EnterAt(f, entry) ==
  LET badValue == IF f.payable THEN Number(0) ELSE Name("callvalue")
      badSize == IF entry.min = SelectorBytes THEN Number(0) ELSE IR("lt", <<Name("calldatasize"), Number(entry.min)>>)
  IN Sequence(<<Asserts(IR("iszero", <<IR("or", <<badValue, badSize>>)>>)), entry.ir>>)
ContractCode(f, n, internals) ==
  Sequence(<<EnterAt(f, EntryPoint(f, n)), ExternalCommon(f)>> \o [k \in DOMAIN internals |-> InternalFunction(internals[k])])
=============================================================================
