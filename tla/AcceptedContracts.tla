-------------------------- MODULE AcceptedContracts --------------------------
(***************************************************************************)
(* A program is analysed; if it is accepted it is deployed, and one of the *)
(* functions it exposes is called.                                         *)
(*                                                                         *)
(* What the analysis promises is about what then happens, so a call runs   *)
(* the statements as they are written, and either way at every condition;  *)
(* a loop takes any number of turns.  stack has the functions that run,    *)
(* the innermost first, with the statement each is at, how many of its     *)
(* parts are worked out, and the statements that have bound a name.        *)
(*                                                                         *)
(* Before it, the same program with its declarations in reverse is         *)
(* analysed as well, to compare the verdicts.                              *)
(***************************************************************************)
EXTENDS ModuleAnalysis

CONSTANT Programs

VARIABLES phase,
          source,                 \* the program as it is written
          accepted,               \* whether it is in reverse
          stack,
          began,                  \* how often constructors have run: once, or more
          touched                 \* what the last step did; for what is outside, its mutability

execution == <<stack, began, touched>>
vars == <<program, analysis, phase, source, accepted, execution>>

---------------------------------------------------------------------------
(* What the parser sees to: where blocks end, and that they are nested.    *)

Opening == {"if", "else", "for"}
Jumps == {"break", "continue"}
Mutabilities == {"pure", "view", "nonpayable", "payable"}
WellNested(body) ==
  /\ \A k \in DOMAIN body :
       LET x == body[k] IN
       /\ x.s \in Opening => x.until \in k + 1 .. Len(body)
       /\ x.s = "declare" => x.until \in k + 1 .. Len(body) + 1 /\ (x.until <= Len(body) => body[x.until].s \in Marks)
       /\ x.s = "if" => body[x.until].s = "else" \/ (body[x.until].s = "endif" /\ body[x.until].mate = 0)
       /\ x.s = "else" => body[x.until].s = "endif" /\ body[x.until].mate = k
       /\ x.s = "for" => body[x.until].s = "endfor" /\ body[x.until].mate = k
       /\ x.s = "endfor" => x.mate \in 1 .. k - 1 /\ body[x.mate].s = "for" /\ body[x.mate].until = k
       /\ x.s \in Jumps /\ x.until # 0 => x.until \in k + 1 .. Len(body) /\ body[x.until].s = "endfor" /\ body[x.until].mate < k
       /\ x.s \in Marks => x.value = <<>> /\ \E j \in 1 .. k - 1 : body[j].s \in Opening /\ body[j].until = k
  /\ \A j, k \in DOMAIN body :
       body[j].s \in Opening \union {"declare"} /\ j < k /\ k < body[j].until =>
         /\ body[k].s \in Opening => body[k].until < body[j].until
         /\ body[k].s = "declare" => body[k].until <= body[j].until
IsPath(path) == path \in Seq(STRING) /\ path # <<>>
WellTyped(x) ==
  /\ x.over \in Seq(STRING)
  /\ x.s \in {"assign", "append"} => IsPath(x.to)
  /\ x.value \in Seq(Range(x.value))
  /\ \A i \in DOMAIN x.value : IF x.value[i].s = "outside" THEN x.value[i].mutability \in Mutabilities ELSE IsPath(x.value[i].to)
WellFormed(p) ==
  /\ IsFiniteSet(DOMAIN p) /\ Main \in DOMAIN p /\ NoModule \notin DOMAIN p
  /\ \A m \in DOMAIN p : p[m] \in Seq(Range(p[m]))
  /\ \A m \in DOMAIN p : \A k \in DOMAIN p[m] :
       LET d == p[m][k] IN
       /\ d.d = "function" =>
            /\ d.mutability \in Mutabilities /\ d.result \in BOOLEAN
            /\ d.body \in Seq(Range(d.body)) /\ WellNested(d.body) /\ \A j \in DOMAIN d.body : WellTyped(d.body[j])
       /\ d.d \in {"uses", "exports"} => \A i \in DOMAIN d.paths : IsPath(d.paths[i])
       /\ d.d = "initializes" => IsPath(d.path)
ASSUME ProgramsAssumption == \A p \in Programs : WellFormed(p)

---------------------------------------------------------------------------
NoTouch == [how |-> "nothing", of |-> <<>>, rest |-> <<>>]
Touch(how, r) == IF IsVariable(r) THEN [how |-> how, of |-> r.of, rest |-> r.rest] ELSE [NoTouch EXCEPT !.how = "undefined"]
Reversed == [m \in DOMAIN source |-> Reverse(source[m])]

Init == /\ source \in Programs /\ program = Reversed /\ phase = "mirror" /\ accepted = FALSE
        /\ StartAnalysis
        /\ stack = <<>> /\ began = <<>> /\ touched = NoTouch

Analysis == /\ phase \in {"mirror", "source"} /\ Analyze
            /\ UNCHANGED <<phase, source, accepted, execution>>
AnalyzeSource == /\ phase = "mirror" /\ AnalysisOver
                 /\ phase' = "source" /\ accepted' = ~rejected /\ program' = source
                 /\ RestartAnalysis
                 /\ UNCHANGED <<source, execution>>
Verdict == /\ phase = "source" /\ AnalysisOver
           /\ phase' = IF rejected THEN "rejected" ELSE "accepted"
           /\ UNCHANGED <<program, analysis, source, accepted, execution>>

---------------------------------------------------------------------------
(* Running. *)

Frame(f) == [f |-> f, line |-> 1, part |-> 0, bound |-> {}]
Top == stack[1]
Code == Body(Top.f)
Now == Code[Top.line]
InCode == phase \in {"deploying", "called"} /\ stack # <<>> /\ Top.line \in DOMAIN Code
DoingPart(kinds) == InCode /\ Top.part < Len(Now.value) /\ Now.value[Top.part + 1].s \in kinds
Doing(kinds) == InCode /\ Top.part = Len(Now.value) /\ Now.s \in kinds
Here(path) == LookUp(Top.f, Top.bound, path)
Ran(touch) == touched' = touch /\ UNCHANGED <<program, analysis, phase, source, accepted>>
GoesTo(line, bound, touch) ==
  stack' = [stack EXCEPT ![1] = [f |-> Top.f, line |-> line, part |-> 0, bound |-> bound]] /\ Ran(touch) /\ UNCHANGED began

(* Parts of expressions. *)
NowPart == Now.value[Top.part + 1]
PartDone == [stack EXCEPT ![1] = [f |-> Top.f, line |-> Top.line, part |-> Top.part + 1, bound |-> Top.bound]]
Access == /\ DoingPart({"read", "pop"})
          /\ stack' = PartDone /\ Ran(Touch(IF NowPart.s = "pop" THEN "write" ELSE "read", Here(NowPart.to))) /\ UNCHANGED began
Outside == /\ DoingPart({"outside"})
           /\ stack' = PartDone /\ Ran([NoTouch EXCEPT !.how = NowPart.mutability]) /\ UNCHANGED began
Begun(m) == [began EXCEPT ![m] = IF @ = 0 THEN 1 ELSE 2]
CallFunction ==
  /\ DoingPart({"call"})
  /\ LET r == CalleeOf(Top.f, NowPart) IN
     IF r.kind = "function"
     THEN /\ stack' = <<Frame(r.of)>> \o PartDone /\ Ran(NoTouch)
          /\ began' = IF IsConstructor(r.of) THEN Begun(r.of[1]) ELSE began
     ELSE stack' = PartDone /\ Ran([NoTouch EXCEPT !.how = "undefined"]) /\ UNCHANGED began

(* Statements. *)
NextLine == Top.line + 1
BindName == Doing({"declare"}) /\ GoesTo(NextLine, Top.bound \union {Top.line}, NoTouch)
Write == Doing({"assign", "append"}) /\ GoesTo(NextLine, Top.bound, Touch("write", Here(Now.to)))
Expression == Doing({"expr"}) /\ GoesTo(NextLine, Top.bound, NoTouch)
Log == Doing({"log"}) /\ GoesTo(NextLine, Top.bound, [NoTouch EXCEPT !.how = "log"])
Branch == Doing({"if"}) /\ \E line \in {NextLine, Now.until + 1} : GoesTo(line, Top.bound, NoTouch)
(* The first side of a branch ends where the second begins. *)
EndOfSide == Doing({"else"}) /\ GoesTo(Now.until + 1, Leaving(Top.f, Top.bound, Top.line), NoTouch)
EndOfBranch == Doing({"endif"}) /\ GoesTo(NextLine, Leaving(Top.f, Top.bound, Top.line), NoTouch)
(* A loop over an array that may be empty, or over a range. *)
Loop == /\ Doing({"for"})
        /\ LET touch == IF Now.over = <<>> THEN NoTouch ELSE Touch("read", Here(Now.over)) IN
           GoesTo(NextLine, Top.bound \union {Top.line}, touch) \/ GoesTo(Now.until + 1, Top.bound, touch)
Again == /\ Doing({"endfor"})
         /\ \/ GoesTo(Now.mate + 1, {p \in Top.bound : p <= Now.mate}, NoTouch)
            \/ GoesTo(NextLine, Leaving(Top.f, Top.bound, Top.line), NoTouch)
Break == Doing({"break"}) /\ GoesTo(Now.until + 1, Leaving(Top.f, Top.bound, Now.until), NoTouch)
Continue == Doing({"continue"}) /\ GoesTo(Now.until, Top.bound, NoTouch)
Return == Doing({"return"}) /\ stack' = Tail(stack) /\ Ran(NoTouch) /\ UNCHANGED began
FallOff == /\ phase \in {"deploying", "called"} /\ stack # <<>> /\ Top.line \notin DOMAIN Code
           /\ stack' = Tail(stack) /\ UNCHANGED began
           /\ Ran(IF The(Top.f).result THEN [NoTouch EXCEPT !.how = "no result"] ELSE NoTouch)
(* The transaction is undone. *)
Raise == /\ Doing({"raise"})
         /\ phase' = "reverted" /\ stack' = <<>> /\ touched' = NoTouch
         /\ UNCHANGED <<program, analysis, source, accepted, began>>

---------------------------------------------------------------------------
(* Transactions. *)

Deploy == /\ phase = "accepted" /\ phase' = "deploying"
          /\ began' = [m \in DOMAIN program |-> IF m = Main /\ HasConstructor(Main) THEN 1 ELSE 0]
          /\ stack' = IF HasConstructor(Main) THEN <<Frame(<<Main, Constructor>>)>> ELSE <<>>
          /\ UNCHANGED <<program, analysis, source, accepted, touched>>
Deployed == /\ phase = "deploying" /\ stack = <<>> /\ phase' = "deployed" /\ touched' = NoTouch
            /\ UNCHANGED <<program, analysis, source, accepted, stack, began>>
(* Getters have no statements: a call reads their variable. *)
Getters(m) == {<<m, d.name>> : d \in {e \in Declarations(m, {"variable"}) : e.public}}
Exposed == {f \in Functions(Main) : The(f).visibility = "external"} \union Getters(Main) \union {e.of : e \in ExportedBy(Main)}
Call == /\ phase = "deployed" /\ phase' = "called"
        /\ \E f \in Exposed :
             IF The(f).d = "function" THEN stack' = <<Frame(f)>> /\ touched' = NoTouch
             ELSE stack' = <<>> /\ touched' = [how |-> "read", of |-> f, rest |-> <<>>]
        /\ UNCHANGED <<program, analysis, source, accepted, began>>

Execute == \/ Access \/ Outside \/ CallFunction
           \/ BindName \/ Write \/ Expression \/ Log \/ Branch \/ EndOfSide \/ EndOfBranch
           \/ Loop \/ Again \/ Break \/ Continue \/ Return \/ FallOff \/ Raise
Next == Analysis \/ AnalyzeSource \/ Verdict \/ Deploy \/ Deployed \/ Call \/ Execute
Spec == Init /\ [][Next]_vars

---------------------------------------------------------------------------
(* What is running. *)

Running == {stack[k].f : k \in DOMAIN stack}
IsIn(kinds) == touched.how \in kinds
TouchesState == IsIn({"read", "write"}) /\ IsStateAccess(touched)

(* A function keeps to its decorator whatever it calls: a view function,   *)
(* and what runs below it, writes no state, logs nothing and calls nothing *)
(* that may; a pure one does not read the state either (StateMutability).  *)
ModifiersKept ==
  \A f \in Running :
    /\ The(f).mutability \in {"view", "pure"} => ~IsIn({"log", "nonpayable", "payable"}) /\ (TouchesState => touched.how = "read")
    /\ The(f).mutability = "pure" => ~TouchesState /\ ~IsIn({"view"})

(* While a loop runs over an array, nothing writes it, nor what it is part *)
(* of or has for parts, in the loop or below what the loop calls.          *)
Overlap(p, q) == IsPrefix(p, q) \/ IsPrefix(q, p)
LoopVariableFixed ==
  IsIn({"write"}) =>
    \A k \in DOMAIN stack : \A p \in Loops(stack[k].f, stack[k].bound) :
      LET r == Iterated(stack[k].f, stack[k].bound, p) IN r.of = touched.of => ~Overlap(r.rest, touched.rest)

(* State that is touched belongs to the contract or to a module that it,   *)
(* or a module below, initializes, once in all; by then the constructor of *)
(* each has run, and if no constructor calls one under a condition, in a   *)
(* loop or past a return, it has run once (docs/using-modules.rst:160).    *)
(* Excepted are programs where a module outside the contract declares what *)
(* another one imports: the ownership of an import is kept with the import *)
(* itself, so that one then passes for owned everywhere.                   *)
Lends(m) ==
  \/ \E d \in Declarations(m, {"initializes"}) : Len(d.path) > 1
  \/ \E d \in Declarations(m, {"uses"}) : \E k \in DOMAIN d.paths : Len(d.paths[k]) > 1
InBlock(f, k) == \E p \in DOMAIN Body(f) : p < k /\ Body(f)[p].s \in Opening /\ k < Body(f)[p].until
Straight(m) ==
  HasConstructor(m) =>
    LET f == <<m, Constructor>> IN
    \A k \in DOMAIN Body(f) : InBlock(f, k) => Body(f)[k].s # "return" /\ \A c \in InitializerCalls(m) : c[1] # k
InitializedOnce ==
  LET below == InitializedBelow(Main) IN
  /\ TouchesState => \/ touched.of[1] = Main \/ Cardinality(Initializers(touched.of[1])) = 1
                     \/ \E m \in done \ (below \union {Main}) : Lends(m)
  /\ phase \in {"deployed", "called"} /\ (\A m \in below \union {Main} : Straight(m)) =>
       \A m \in below : HasConstructor(m) => began[m] = 1

(* A run never comes to a name that has no value or to a call of what is   *)
(* no function, and a function with a result returns one on every path     *)
(* (find_terminating_node).                                                *)
NeverStuck == ~IsIn({"undefined", "no result"})

(* Whether a program is accepted does not depend on the order of the       *)
(* declarations in its modules (_visit_nodes_looping).                     *)
OrderIrrelevant == [][Verdict => (accepted = ~rejected)]_vars
=============================================================================
