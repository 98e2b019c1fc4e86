--------------------------- MODULE FunctionFrames ---------------------------
(***************************************************************************)
(* Memory frames of functions: how generate_ir_for_module orders code      *)
(* generation, how each function's frame is placed above the frames of all *)
(* it calls, and what then happens to memory when the contract runs.       *)
(*                                                                         *)
(* There is no stack pointer: a function uses the same addresses in every  *)
(* call, and a caller stores the arguments of a call directly in the frame *)
(* of the callee (codegen/self_call.py).  Two functions that do not call   *)
(* each other share addresses.  So an argument that was already stored is  *)
(* lost when the next argument is itself computed by a call, unless the    *)
(* arguments are first collected in the frame of the caller.               *)
(*                                                                         *)
(* The module continues CallGraph: the graph is analysed, the accepted     *)
(* contract is compiled, and then one of its entry points runs.  Memory    *)
(* is counted in words of 32 bytes, and each function returns one word.    *)
(* A value is the number of the step that computed it, so that no two      *)
(* values are alike.                                                       *)
(***************************************************************************)
EXTENDS CallGraph

CONSTANTS
  Kind,             \* "external", "internal" or "init", for each function
  NumArgs,          \* words of arguments of each function
  NumLocals,        \* words of other user variables of each function
  Statements,       \* the calls a function body may be made of
  MaxStatements,    \* at most so many in a body
  MemoryWords       \* words of memory that are modelled

ASSUME KindAssumption == Kind \in [Functions -> {"external", "internal", "init"}]
ASSUME SizesAssumption ==
  /\ NumArgs \in [Functions -> Nat]
  /\ NumLocals \in [Functions -> Nat]
  /\ MaxStatements \in Nat
  /\ MemoryWords \in Nat
ASSUME StatementsAssumption ==
  Statements \subseteq [callee : Functions, nested : Functions \cup {0}, at : Nat]

Reserved == 2       \* MemoryPositions.RESERVED_MEMORY, in words

NoFrame == [frame_start |-> 0, frame_size |-> 0]
None == 0

VARIABLES
  body,             \* the calls of each function: callee(.., nested(..), ..)
  todo,             \* what is still to be generated, as <<function, context>>
  frame_info,       \* _ir_info.frame_info of each function
  emitted,          \* the labels in the output, as <<function, context>>
  stage,            \* "analyse", "generate", "crash", "ready", "run" or "stop"
  context,          \* "deploy" or "runtime"
  stack,            \* activations of functions, innermost last
  memory,
  clock             \* number of steps taken at run time

frameVars == <<body, todo, frame_info, emitted, stage, context, stack, memory, clock>>
allVars == <<graphVars, frameVars>>

Maximum(S) == CHOOSE m \in S : \A x \in S : x <= m

-----------------------------------------------------------------------------
(* A statement `callee(..)`: argument number `at` is a call of `nested`, or  *)
(* `nested` is None and all arguments are plain.                             *)
CalleesOf(st) == IF st.nested = None THEN <<st.callee>> ELSE <<st.callee, st.nested>>

CalledBy(b) ==
  LET Upto[k \in 0 .. Len(b)] ==
        IF k = 0 THEN <<>> ELSE OrderedUnion(Upto[k - 1], CalleesOf(b[k]))
  IN  Upto[Len(b)]

WellFormed(st) ==
  /\ Kind[st.callee] = "internal"
  /\ st.nested # None => Kind[st.nested] = "internal" /\ st.at \in 1 .. NumArgs[st.callee]
  /\ st.nested = None => st.at = 0

Bodies == UNION {[1 .. n -> {st \in Statements : WellFormed(st)}] : n \in 0 .. MaxStatements}

(* Nothing is generated yet, and nothing runs. *)
OutputEmpty ==
  /\ todo = <<>>
  /\ frame_info = [f \in Functions |-> NoFrame]
  /\ emitted = {}
  /\ context = "runtime"
  /\ stack = <<>>
  /\ memory = [w \in 0 .. MemoryWords - 1 |-> 0]
  /\ clock = 0

InitFrames ==
  /\ body \in [Functions -> Bodies]
  /\ called = [f \in Functions |-> CalledBy(body[f])]
  /\ nonreentrant = {}
  /\ reachable = [f \in Functions |-> <<>>]
  /\ root = 1
  /\ path = <<>>
  /\ next = <<>>
  /\ verdict = "analysing"
  /\ stage = "analyse"
  /\ OutputEmpty

-----------------------------------------------------------------------------
(* The order of generate_ir_for_module: internal functions reachable from    *)
(* an exposed function, exposed functions, then the functions the            *)
(* constructor reaches once more, the constructor, and last every internal   *)
(* function that has not been compiled for anything.                         *)
OfKind(kind, fs) ==
  LET Upto[k \in 0 .. Len(fs)] ==
        IF k = 0 THEN <<>>
        ELSE IF Kind[fs[k]] = kind THEN Append(Upto[k - 1], fs[k]) ELSE Upto[k - 1]
  IN  Upto[Len(fs)]

Ascending(kind) == OfKind(kind, [k \in Functions |-> k])

WithReachable(fs) ==
  LET Upto[k \in 0 .. Len(fs)] ==
        IF k = 0 THEN <<>>
        ELSE OrderedUnion(OrderedUnion(Upto[k - 1], reachable[fs[k]]), <<fs[k]>>)
  IN  Upto[Len(fs)]

RuntimeReachable == WithReachable(Ascending("external"))

In(ctx, fs) == [k \in 1 .. Len(fs) |-> <<fs[k], ctx>>]

GenerationOrder ==
  In("runtime", OfKind("internal", RuntimeReachable))
  \o In("runtime", OfKind("external", RuntimeReachable))
  \o In("deploy", WithReachable(Ascending("init")))
  \o In("unused", WithReachable(Ascending("internal")))

StartGeneration ==
  /\ stage = "analyse"
  /\ verdict # "analysing"
  /\ stage' = IF verdict = "accepted" THEN "generate" ELSE "stop"
  /\ todo' = IF verdict = "accepted" THEN GenerationOrder ELSE todo
  /\ UNCHANGED <<graphVars, body, frame_info, emitted, context, stack, memory, clock>>

(* Mutant: arguments always go straight to the frame of the callee.          *)
TemporaryBufferNever(st) == FALSE

(* Internal variables of a statement: the return buffer of the nested call, *)
(* the return buffer of the call, and the temporary argument buffer, which  *)
(* exists only when the arguments contain a call (contains_self_call).      *)
TemporaryBuffer(st) == st.nested # None

Temporaries(st) ==
  (IF st.nested = None THEN 0 ELSE 1) + 1
    + (IF TemporaryBuffer(st) THEN NumArgs[st.callee] ELSE 0)

(* Arguments come first, so the caller can lay them out from frame_start;    *)
(* the buffers of a statement are released before the next statement.        *)
FrameWords(f) ==
  NumArgs[f] + NumLocals[f] + Maximum({0} \cup {Temporaries(body[f][s]) : s \in DOMAIN body[f]})

(* Mutant: each frame starts at the bottom of memory.                        *)
AllocateStartFlat(f) == Reserved

AllocateStart(f) ==
  Maximum({0} \cup {frame_info[g].frame_size : g \in Calls(f)}) + Reserved

(* initialize_context, then the body, then tag_frame_info.  A callee without *)
(* frame information is an AttributeError in initialize_context.             *)
CalleesKnown(f) == \A g \in Calls(f) : frame_info[g] # NoFrame

(* Mutant: the code of the constructor's callees gets the runtime labels.    *)
EmittedForRuntime(f, ctx) ==
  IF ctx = "unused" THEN emitted ELSE emitted \cup {<<f, "runtime">>}

Emitted(f, ctx) == IF ctx = "unused" THEN emitted ELSE emitted \cup {<<f, ctx>>}

Generate ==
  /\ stage = "generate"
  /\ todo # <<>>
  /\ LET f   == Head(todo)[1]
         ctx == Head(todo)[2]
     IN  /\ \/ ctx # "unused"
            \/ frame_info[f] = NoFrame
         /\ stage' = IF CalleesKnown(f) THEN stage ELSE "crash"
         /\ frame_info' = [frame_info EXCEPT ![f] =
                             [frame_start |-> AllocateStart(f),
                              frame_size  |-> AllocateStart(f) + FrameWords(f) - Reserved]]
         /\ emitted' = Emitted(f, ctx)
  /\ todo' = Tail(todo)
  /\ UNCHANGED <<graphVars, body, context, stack, memory, clock>>

AlreadyGenerated ==
  /\ stage = "generate"
  /\ todo # <<>>
  /\ Head(todo)[2] = "unused"
  /\ frame_info[Head(todo)[1]] # NoFrame
  /\ todo' = Tail(todo)
  /\ UNCHANGED <<graphVars, body, frame_info, emitted, stage, context, stack, memory, clock>>

GenerationDone ==
  /\ stage = "generate"
  /\ todo = <<>>
  /\ stage' = "ready"
  /\ UNCHANGED <<graphVars, body, todo, frame_info, emitted, context, stack, memory, clock>>

-----------------------------------------------------------------------------
(* Addresses, as the generated code contains them. *)
ArgAddress(f, k) == frame_info[f].frame_start + k - 1
LocalAddress(f, k) == frame_info[f].frame_start + NumArgs[f] + k - 1
TempAddress(f, k) == frame_info[f].frame_start + NumArgs[f] + NumLocals[f] + k - 1

NestedReturnBuffer(f) == TempAddress(f, 1)
ReturnBuffer(f, st) == TempAddress(f, IF st.nested = None THEN 1 ELSE 2)

(* Where the k-th argument is stored while the arguments are evaluated.      *)
ArgDestination(f, st, k) ==
  IF TemporaryBuffer(st) THEN TempAddress(f, 2 + k) ELSE ArgAddress(st.callee, k)

(* An activation: its position in the body, the argument in hand, the values *)
(* of the arguments evaluated so far, whom it waits for, and the contents of *)
(* its frame as the source program would have it.                            *)
Activation(f, args, locals) ==
  [fn |-> f, statement |-> 1, arg |-> 1, values |-> <<>>, waits |-> "no",
   holds |-> [w \in {ArgAddress(f, k) : k \in 1 .. NumArgs[f]}
                \cup {LocalAddress(f, k) : k \in 1 .. NumLocals[f]} |->
                IF \E k \in 1 .. NumArgs[f] : w = ArgAddress(f, k)
                THEN args[w - ArgAddress(f, 0)] ELSE locals]]

Write(mem, S, value) == [w \in DOMAIN mem |-> IF w \in S THEN value ELSE mem[w]]

Locals(f) == {LocalAddress(f, k) : k \in 1 .. NumLocals[f]}
Args(f) == {ArgAddress(f, k) : k \in 1 .. NumArgs[f]}

Act == stack[Len(stack)]
Stmt == body[Act.fn][Act.statement]
BodyOver == Act.statement > Len(body[Act.fn])
Tick == clock' = clock + 1

Run ==
  /\ stage = "run"
  /\ UNCHANGED <<graphVars, body, todo, frame_info, emitted, context>>

(* A transaction: the constructor, or an exposed function, whose arguments   *)
(* are copied from calldata to its frame.                                    *)
EnterContract ==
  /\ stage = "ready"
  /\ stage' = "run"
  /\ clock' = 1
  /\ \E f \in Functions :
       /\ Kind[f] # "internal"
       /\ context' = IF Kind[f] = "init" THEN "deploy" ELSE "runtime"
       /\ stack' = <<Activation(f, [k \in 1 .. NumArgs[f] |-> 1], 1)>>
       /\ memory' = Write(memory, Args(f) \cup Locals(f), 1)
  /\ UNCHANGED <<graphVars, body, todo, frame_info, emitted>>

Continue(act) == [stack EXCEPT ![Len(stack)] = act]

EvaluateArg ==
  /\ Run
  /\ ~BodyOver
  /\ Act.waits = "no"
  /\ Act.arg <= NumArgs[Stmt.callee]
  /\ Act.arg # Stmt.at
  /\ memory' = Write(memory, {ArgDestination(Act.fn, Stmt, Act.arg)}, clock)
  /\ stack' = Continue([Act EXCEPT !.arg = @ + 1, !.values = Append(@, clock)])
  /\ Tick
  /\ UNCHANGED stage

(* The argument is a call with plain arguments of its own: they are stored   *)
(* in the frame of the nested callee.                                        *)
CallNested ==
  /\ Run
  /\ ~BodyOver
  /\ Act.waits = "no"
  /\ Act.arg = Stmt.at
  /\ LET h == Stmt.nested IN
       /\ memory' = Write(memory, Args(h) \cup Locals(h), clock)
       /\ stack' = Append(Continue([Act EXCEPT !.waits = "nested"]),
                          Activation(h, [k \in 1 .. NumArgs[h] |-> clock], clock))
  /\ Tick
  /\ UNCHANGED stage

(* All arguments are there: move them if they were collected in the buffer,  *)
(* and jump.  The callee then sets its local variables.                      *)
CallFunction ==
  /\ Run
  /\ ~BodyOver
  /\ Act.waits = "no"
  /\ Act.arg > NumArgs[Stmt.callee]
  /\ LET f == Act.fn
         g == Stmt.callee
         moved == [w \in DOMAIN memory |->
                     IF w \in Args(g)
                     THEN memory[ArgDestination(f, Stmt, w - ArgAddress(g, 0))]
                     ELSE memory[w]]
     IN  /\ memory' = Write(moved, Locals(g), clock)
         /\ stack' = Append(Continue([Act EXCEPT !.waits = "outer"]),
                            Activation(g, Act.values, clock))
  /\ Tick
  /\ UNCHANGED stage

(* The callee fills the return buffer, an address in the frame of the        *)
(* caller, and jumps back.  After a nested call, the caller stores the value *)
(* with the other arguments.                                                 *)
Return ==
  /\ Run
  /\ BodyOver
  /\ Len(stack) > 1
  /\ LET caller == stack[Len(stack) - 1]
         f  == caller.fn
         st == body[f][caller.statement]
     IN  IF caller.waits = "nested"
         THEN /\ memory' = Write(memory, {NestedReturnBuffer(f), ArgDestination(f, st, st.at)}, clock)
              /\ stack' = [k \in 1 .. (Len(stack) - 1) |->
                             IF k < Len(stack) - 1 THEN stack[k]
                             ELSE [caller EXCEPT !.waits = "no", !.arg = @ + 1,
                                                 !.values = Append(@, clock)]]
         ELSE /\ memory' = Write(memory, {ReturnBuffer(f, st)}, clock)
              /\ stack' = [k \in 1 .. (Len(stack) - 1) |->
                             IF k < Len(stack) - 1 THEN stack[k]
                             ELSE [caller EXCEPT !.waits = "no", !.arg = 1,
                                                 !.statement = @ + 1, !.values = <<>>]]
  /\ Tick
  /\ UNCHANGED stage

LeaveContract ==
  /\ Run
  /\ BodyOver
  /\ Len(stack) = 1
  /\ stack' = <<>>
  /\ stage' = "stop"
  /\ UNCHANGED <<memory, clock>>

Compile == StartGeneration \/ Generate \/ AlreadyGenerated \/ GenerationDone

Execute == EnterContract \/ EvaluateArg \/ CallNested \/ CallFunction \/ Return \/ LeaveContract

Progress == (Analyse /\ UNCHANGED frameVars) \/ Compile \/ Execute

Ended == stage \in {"stop", "crash"} /\ UNCHANGED allVars

FramesSpec == InitFrames /\ [][Progress \/ Ended]_allVars /\ WF_allVars(Progress)

-----------------------------------------------------------------------------
FrameTypeOK ==
  /\ GraphTypeOK
  /\ frame_info \in [Functions -> [frame_start : Nat, frame_size : Nat]]
  /\ emitted \subseteq Functions \X {"runtime", "deploy"}
  /\ stage \in {"analyse", "generate", "crash", "ready", "run", "stop"}
  /\ context \in {"runtime", "deploy"}
  /\ memory \in [0 .. MemoryWords - 1 -> Nat]
  /\ \A k \in 1 .. Len(stack) : stack[k].fn \in Functions

FrameEnd(f) == frame_info[f].frame_size + Reserved

(* No call, however deep, changes the arguments or variables of a function   *)
(* that waits for it; in particular a callee starts with the arguments that  *)
(* its caller computed.                                                      *)
ValuesSurviveCalls ==
  \A k \in 1 .. Len(stack) : \A w \in DOMAIN stack[k].holds :
    memory[w] = stack[k].holds[w]

(* What generated code refers to is there.  Code generation never asks for   *)
(* the frame of a function it has not compiled yet, also when functions are  *)
(* compiled again for the constructor; and whatever runs was emitted for the *)
(* context it runs in: a jump from the constructor finds a `_deploy` label,  *)
(* one at run time a `_runtime` label.                                       *)
ReferencesResolve ==
  /\ stage # "crash"
  /\ \A k \in 1 .. Len(stack) : <<stack[k].fn, context>> \in emitted

(* The deployed code and the immutables are put above init_mem_used: no      *)
(* function that the constructor can reach has a frame up there.             *)
DeployRegionClear ==
  stage \in {"ready", "run"} =>
    \A f \in Functions : Kind[f] = "init" =>
      \A g \in Elements(reachable[f]) : FrameEnd(g) <= FrameEnd(f)

=============================================================================
