--------------------------- MODULE ContractPromise ---------------------------
(***************************************************************************)
(* What the compiler promises: a contract that is called once answers as   *)
(* its source says.  Nothing is said of how; CodegenPipeline implements    *)
(* this.                                                                   *)
(*                                                                         *)
(* An answer is how the call ends, what it returns or reverts with, what   *)
(* it logs and sends, and the values it leaves in the variables of the     *)
(* contract.                                                               *)
(***************************************************************************)
EXTENDS SourceMeaning

CONSTANTS Contracts,
          CallArguments(_)  \* of a contract: the sequences of arguments it is called with

VARIABLES contract, arguments, answer

promiseVars == <<contract, arguments, answer>>

Uncalled == [how |-> "none", values |-> <<>>]
Given(args) == [how |-> "values", values |-> args]

(* Arguments that are not given have their default values. *)
Initial == <<NewWorld.storage, NewWorld.transient>>
StateBefore(c) ==
  [vars |-> [p \in {<<c.stored[k].loc, c.stored[k].n>> : k \in DOMAIN c.stored} |->
               LET k == CHOOSE j \in DOMAIN c.stored : p = <<c.stored[j].loc, c.stored[j].n>>
               IN StoredValue(c.stored[k].typ, WordsIn(Initial, c.stored[k]), c.stored[k].n)],
   trace |-> <<>>]
GivenOrDefault(c, args, s, k) ==
  IF k \in DOMAIN args THEN Gives(args[k], s) ELSE Says(c.f.params[k].default[1], s)
WithParameter(c, args, s, k) ==
  [s EXCEPT !.vars = Put(@, <<c.f.params[k].loc, c.f.params[k].at>>, GivenOrDefault(c, args, s, k).v)]
StateWith(c, args) == Fold(LAMBDA s, k : WithParameter(c, args, s, k), StateBefore(c), [k \in DOMAIN c.f.params |-> k])

ResultData(f, v) == IF f.returns.kind = "none" THEN <<>> ELSE IF f.raw THEN v ELSE EncodeWrapped(f.returns, v)
AnswerOf(c, r) ==
  IF ~r.ok THEN Answers("revert", r.data, <<>>, <<>>)
  ELSE Answers("return", ResultData(c.f, r.v), r.s.trace,
               <<>> \o [k \in DOMAIN c.stored |-> r.s.vars[<<c.stored[k].loc, c.stored[k].n>>]])
Promised(c, args) == AnswerOf(c, Does(c.f, c.f.body, StateWith(c, args)))

---------------------------------------------------------------------------

Init == contract \in Contracts /\ arguments = Uncalled /\ answer = NoAnswer
Call == /\ answer = NoAnswer
        /\ \E args \in CallArguments(contract) : arguments' = Given(args) /\ answer' = Promised(contract, args)
        /\ UNCHANGED contract
Next == Call
Spec == Init /\ [][Next]_promiseVars
=============================================================================
