--------------------------- MODULE CodegenPipeline ---------------------------
(***************************************************************************)
(* A contract with one external function on its way through the compiler   *)
(* (compiler/phases.py), and the calls of what comes out.                  *)
(*                                                                         *)
(* The code generators make IR of the source.  It is optimized, compiled   *)
(* to assembly, which is optimized again and encoded; or, with the         *)
(* experimental code generator, it becomes Venom, which is run as it is    *)
(* after the first pass: the others are those of VenomPipeline.            *)
(*                                                                         *)
(* Left out are the table of methods (SelectorTable) and deployment.       *)
(***************************************************************************)
EXTENDS SyntaxTree, AbiTypes, IRCompiler

CONSTANTS Radix, ZeroDigit, SelectorBytes, LockKey, ErrorId

CONSTANTS Contracts, CallArguments(_),
          Dirt(_),              \* of a contract: call data that is not an encoding
          SettingsFor(_),       \* of a contract: how it is compiled
          Fuel                  \* instructions an execution may take

VARIABLES settings, contract, stage, ir, venom, code, fault,
          arguments, outcome

vars == <<settings, contract, stage, ir, venom, code, fault, arguments, outcome>>

V == INSTANCE VenomFrontEnd
Source == INSTANCE SourceMeaning

---------------------------------------------------------------------------
(* The generators, each with those that it calls. *)
optimized == OptimizeIR
Copies == INSTANCE Setters
GetElementPtr(parent, key, check) == Copies!GetElementPtr(parent, key, check)
MakeSetter(l, r, hi) == Copies!MakeSetter(l, r, hi)
Encodings == INSTANCE AbiEncoder
AbiEncode(dst, v, returnsLen, spare) == Encodings!AbiEncode(dst, v, returnsLen, spare)
Sums == INSTANCE Arithmetic
SafeBinop(op, x, y) == Sums!SafeBinop(op, x, y)
Convert(v, literal, out) == Sums!Convert(v, literal, out)
Functions == INSTANCE Expressions

---------------------------------------------------------------------------

NoOutcome == Ends("none")
Uncalled == [how |-> "none", values |-> <<>>]
Dirty(input) == [how |-> "dirty", values |-> input]
NoVenom == <<>>

Init == /\ contract \in Contracts
        /\ settings \in SettingsFor(contract)
        /\ stage = "source" /\ ir = Pass /\ venom = NoVenom /\ code = <<>> /\ fault = ""
        /\ arguments = Uncalled /\ outcome = NoOutcome

---------------------------------------------------------------------------
(* What the source speaks of in an outcome. *)

Seen(t) == <<>> \o [k \in DOMAIN t |->
  IF contract.calls THEN [call |-> TRUE, data |-> t[k][1], topics |-> <<>>]
  ELSE [call |-> FALSE, data |-> t[k][1], topics |-> Tail(t[k])]]
(* An invalid instruction, and memory that is too far away to be paid for, *)
(* revert without data.                                                    *)
EndSeen(end) == IF end \in {"invalid", "out of gas"} THEN "revert" ELSE end
AnswerGiven ==
  IF arguments.how # "values" THEN Source!NoAnswer
  ELSE Source!Answers(EndSeen(outcome.end), outcome.data, Seen(outcome.trace),
                      IF outcome.end = "return" THEN Source!ValuesStored(contract, outcome.storage) ELSE <<>>)
Promise == INSTANCE ContractPromise WITH arguments <- IF arguments.how = "values" THEN arguments ELSE Uncalled, answer <- AnswerGiven

---------------------------------------------------------------------------

Moves(from, to) == /\ fault = "" /\ stage = from /\ stage' = to
                   /\ UNCHANGED <<settings, contract, arguments, outcome>>

(* generate_ir_for_module *)
FaultOf(x) == IF Occurs(StaticAssertion.op, x) THEN "static assertion" ELSE IF Occurs(Sums!Fail.op, x) THEN "type failure"
              ELSE IF Raises(x) THEN "panic"
              ELSE IF ~WellFormedIR(x) THEN "malformed" ELSE ""
Takes(x) == ir' = x /\ fault' = FaultOf(x)
NumArguments(c) == IF c.given = 0 THEN Len(c.f.params) ELSE c.given
Generate == /\ Moves("source", "ir") /\ UNCHANGED <<venom, code>>
            /\ Takes(Functions!ContractCode(contract.f, NumArguments(contract), contract.internals))

(* should_run_legacy_optimizer *)
LegacyOptimizer == settings.optimize # "none" /\ ~settings.experimental
Optimize == /\ LegacyOptimizer
            /\ Moves("ir", "optimized") /\ UNCHANGED <<venom, code>>
            /\ Takes(OptimizeIR[ir])

Compiles(e) == code' = e.asm /\ fault' = e.fault
Compile == /\ ~settings.experimental
           /\ Moves(IF LegacyOptimizer THEN "optimized" ELSE "ir", "assembly") /\ UNCHANGED venom
           /\ ir' = Pass
           /\ Compiles(CompileToAssembly(ir))
Encodes(bytes) == code' = bytes /\ fault' = IF bytes = <<>> THEN "not assembled" ELSE ""
EncodeAll == /\ Moves("assembly", "code") /\ UNCHANGED <<ir, venom>>
             /\ Encodes(Assemble(IF settings.optimize = "none" THEN code ELSE OptimizeAssembly(code)))

Converts(c) == venom' = V!AllocasFloated(c.f) /\ fault' = c.fault
ConvertToVenom == /\ settings.experimental
                  /\ Moves("ir", "code") /\ UNCHANGED code
                  /\ ir' = Pass
                  /\ Converts(V!ToVenom(ir))

Runs(input) == IF settings.experimental THEN V!Run(<<venom>>, input, Fuel) ELSE Execution(code, input, Fuel)
CalldataOf(c, args) ==
  [k \in 1 .. SelectorBytes |-> 1] \o Source!EncodeAll([k \in DOMAIN args |-> c.f.params[k].typ], args)
Answered == /\ stage = "code" /\ fault = "" /\ outcome = NoOutcome
            /\ UNCHANGED <<settings, contract, stage, ir, venom, code, fault>>
Call == /\ Answered
        /\ \E args \in CallArguments(contract) :
             arguments' = Promise!Given(args) /\ outcome' = Runs(CalldataOf(contract, args))
CallDirty == /\ Answered
             /\ \E input \in Dirt(contract) : arguments' = Dirty(input) /\ outcome' = Runs(input)

Next == Generate \/ Optimize \/ Compile \/ EncodeAll \/ ConvertToVenom \/ Call \/ CallDirty
Spec == Init /\ [][Next]_vars

---------------------------------------------------------------------------
(* A call that is made now is answered as the source says. *)
Right == AnswerGiven' = Promise!Promised(contract, arguments'.values)

(* Arithmetic on numbers of every width is exact or reverts, at the ends   *)
(* of the types too (safe_add, safe_mul, safe_div, safe_pow and the rest). *)
ArithmeticExact == [][contract.family = "arithmetic" /\ Call => Right]_vars

(* convert keeps the value, the bits or the bytes, as the pair of types    *)
(* asks for, and reverts on what has no counterpart in the result type.    *)
ConversionsExact == [][contract.family = "conversions" /\ Call => Right]_vars

(* A value that is decoded from calldata, copied through storage or memory *)
(* and encoded again is what it was (make_setter, abi_encode).             *)
DataExact == [][contract.family = "data" /\ Call => Right]_vars

(* Whatever bytes a contract is called with, what it returns is a proper   *)
(* encoding of a value of its type: what points outside, is too long or is *)
(* out of range is rejected and never copied (the clamps of make_setter).  *)
Canonical(t, data) ==
  LET d == Source!DecodeWrapped(t, data) IN d.ok /\ data = Source!Encoding(Source!Wrapped(t), d.v)
DirtyInputRejected == [][CallDirty /\ outcome'.end = "return" => Canonical(contract.f.returns, outcome'.data)]_vars

(* Assignments, loops, assertions, logs and calls have the effects that    *)
(* the source gives them, in its order, and no others.                     *)
StatementsAsWritten == [][contract.family = "statements" /\ Call => Right]_vars

(* Builtin functions and operators compute what they are documented to.    *)
BuiltinsExact == [][contract.family = "builtins" /\ Call => Right]_vars

(* What cannot be compiled: a conversion between types that have none, or  *)
(* of a literal that has no counterpart.                                   *)
Conversions == {e \in UNION {Range(contract.f.body[k].args) : k \in DOMAIN contract.f.body} : e.k = "convert"}
Impossible(e) == \/ ~Source!Convertible(e.args[1].typ, e.typ)
                 \/ e.args[1].k = "literal" /\ Promise!Promised(contract, <<>>).end = "revert"

(* What stops the compiler with an internal error instead of a message: a  *)
(* literal address becomes a signed number (_signextend), a literal byte   *)
(* string a decimal (_literal_decimal).                                    *)
Crashes(e) == LET x == e.args[1] IN \/ x.k = "literal" /\ x.typ.kind = "address" /\ e.typ.kind = "int" /\ e.typ.signed
                                    \/ x.k = "bytes" /\ e.typ.kind = "decimal"

(* The third one is meant (parse_AugAssign): the value that is added to an *)
(* item of an array may change the array, in some call of the contract.    *)
Reached(k, args) == Source!Does(contract.f, SubSeq(contract.f.body, 1, k - 1), Promise!StateWith(contract, args))
ChangesBy(array, r, s) ==    \* r: what comes of evaluating the value in state s
  r.ok /\ Source!Says(array, r.s).v # Source!Says(array, s).v
TargetMoves(k) ==
  LET b == contract.f.body[k] IN
  /\ b.k = "aug_assign" /\ b.args[1].k = "subscript"
  /\ LET array == b.args[1].args[1] IN
     \/ array.loc = "storage" /\ ContainsRiskyCall(b.args[2])
     \/ \E args \in CallArguments(contract) :
          LET before == Reached(k, args) IN before.ok /\ ChangesBy(array, Source!Says(b.args[2], before.s), before.s)

(* The compiler stops on no other contracts than these, on all that cannot *)
(* be compiled, and with the right kind of error.                          *)
FaultDeserved ==
  IF (\E e \in Conversions : Crashes(e)) \/ (\E k \in DOMAIN contract.f.body : TargetMoves(k)) THEN "panic"
  ELSE IF \E e \in Conversions : Impossible(e) THEN "type failure" ELSE ""
FailsForAReason == [][stage' # stage => fault' = FaultDeserved]_vars

(* A contract that is called behaves as the promise says and nothing else  *)
(* that the compiler does is seen.                                         *)
ImplementsPromise == Promise!Spec
=============================================================================
