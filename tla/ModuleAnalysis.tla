--------------------------- MODULE ModuleAnalysis ---------------------------
(***************************************************************************)
(* The semantic analysis of a contract and of the modules it imports       *)
(* (semantics/analysis): which programs are accepted.                      *)
(*                                                                         *)
(* A program gives every module a sequence of declarations.  A function is *)
(* declared with its body, the sequence of its statements as they are      *)
(* written; the lines at which a block ends are statements too (else,      *)
(* endif, endfor).  An expression is the sequence of what it reads and     *)
(* calls, its parts.  A path is a sequence of names as it is written, with *)
(* "[]" for an index.  Of types only arrays are kept: what declares a      *)
(* variable tells at which paths in it there is an array.                  *)
(*                                                                         *)
(* The modules that are imported are analysed before those that import     *)
(* them, and functions before those that call them; in which order         *)
(* otherwise is left open.  An exception ends the analysis: rejected.      *)
(*                                                                         *)
(* Interfaces, events' arguments, other types and the folding of constants *)
(* are left out.                                                           *)
(***************************************************************************)
EXTENDS Naturals, Sequences, SequencesExt, FiniteSets

CONSTANT Main                     \* the module that is compiled

VARIABLES program,
          stage,                  \* "imports", "modules", "functions" or "analysed"
          module,                 \* the module whose functions are analysed
          rejected,
          done,                   \* the modules that are analysed
          owner,                  \* the ownership each import has in its module
          exported,
          facts,                  \* what has been found out about functions
          assigned,               \* the immutables that have a value
          visit                   \* where the analysis of a function is

known == <<done, owner, exported>>
analysis == <<stage, module, rejected, known, facts, assigned, visit>>

---------------------------------------------------------------------------
(* Declarations. *)

Item == "[]"
Constructor == "__init__"
Rank(mutability) == CHOOSE k \in 1 .. 4 : <<"pure", "view", "nonpayable", "payable">>[k] = mutability

Named == {"import", "type", "variable", "function"}
Positions(m, kinds) == {k \in DOMAIN program[m] : program[m][k].d \in kinds}
Declarations(m, kinds) == {program[m][k] : k \in Positions(m, kinds)}
Declared(m, name) == {d \in Declarations(m, Named) : d.name = name}
The(of) == CHOOSE d \in Declared(of[1], of[2]) : TRUE
ModuleOf(info) == The(info).of                      \* the module an import stands for
Functions(m) == {<<m, d.name>> : d \in Declarations(m, {"function"})}
HasConstructor(m) == <<m, Constructor>> \in Functions(m)
IsConstructor(f) == f[2] = Constructor
IsState(d) == d.location \in {"storage", "transient", "code"}
IsStateAccess(v) == Len(v.of) = 2 /\ IsState(The(v.of))
StateOf(accesses) == {v \in accesses : IsStateAccess(v)}

Body(f) == The(f).body
(* The places of the parts in a body: the statement and the part of it. *)
Parts(f) == UNION {{k} \X DOMAIN Body(f)[k].value : k \in DOMAIN Body(f)}
PartAt(f, c) == Body(f)[c[1]].value[c[2]]

(* What is reached from S in any number of steps; n steps are enough. *)
Closure(S, NextOf(_), n) ==
  LET grown[k \in 0 .. n] == IF k = 0 THEN S ELSE LET was == grown[k - 1] IN was \union UNION {NextOf(x) : x \in was}
  IN grown[n]

---------------------------------------------------------------------------
(* Names. *)

Unknown == [kind |-> "unknown", of |-> <<>>, chain |-> <<>>, rest |-> <<>>]
NoModule == ""
ImportedAs(m, name) ==
  IF m # NoModule /\ \E d \in Declared(m, name) : d.d = "import" THEN ModuleOf(<<m, name>>) ELSE NoModule
(* The module in which each name of a path is looked up, as long as the    *)
(* names before it are those of imports.                                   *)
Along(m, path) ==
  LET at[k \in 0 .. Len(path)] == IF k = 0 THEN m ELSE ImportedAs(at[k - 1], path[k]) IN at
Hops(m, path) ==
  CHOOSE n \in 0 .. Len(path) : Along(m, path)[n] # NoModule /\ (n < Len(path) => Along(m, path)[n + 1] = NoModule)
(* What a path means that is read in the members of a module, and the      *)
(* imports it passes through.                                              *)
MemberOf(m, path) ==
  LET n == Hops(m, path)
      chain == [k \in 1 .. n |-> <<Along(m, path)[k - 1], path[k]>>]
      of == <<Along(m, path)[n], path[n + 1]>>
  IN IF path = <<>> THEN Unknown
     ELSE IF n = Len(path) THEN [kind |-> "module", of |-> chain[n], chain |-> chain, rest |-> <<>>]
     ELSE IF Declared(of[1], of[2]) = {} THEN Unknown
     ELSE [kind |-> The(of).d, of |-> of, chain |-> chain, rest |-> SubSeq(path, n + 2, Len(path))]

(* self has the functions, the variables in storage and what is public;    *)
(* constants, immutables, types and modules go by their own name.          *)
InSelf(d) == d.d = "function" \/ (d.d = "variable" /\ (d.location \in {"storage", "transient"} \/ d.public))
InNamespace(d) == d.d \in {"import", "type"} \/ (d.d = "variable" /\ d.location \in {"code", "constant"})
Local(f, path) == [kind |-> "local", of |-> <<f[1], f[2], path[1]>>, chain |-> <<>>, rest |-> Tail(path)]
(* A path in a function, where the given local names are visible. *)
Resolve(f, locals, path) ==
  IF path[1] = "self"
  THEN IF Len(path) > 1 /\ \E d \in Declared(f[1], path[2]) : InSelf(d) THEN MemberOf(f[1], Tail(path)) ELSE Unknown
  ELSE IF path[1] \in locals THEN Local(f, path)
  ELSE IF \E d \in Declared(f[1], path[1]) : InNamespace(d) THEN MemberOf(f[1], path)
  ELSE Unknown

(* What is accessed: no index is told from another. *)
Attributes(rest) == LET stop == {k \in DOMAIN rest : rest[k] = Item}
                    IN IF stop = {} THEN rest ELSE SubSeq(rest, 1, (CHOOSE k \in stop : \A j \in stop : k <= j) - 1)
VariableAccess(r) == [of |-> r.of, attributes |-> Attributes(r.rest)]
(* Mutant: only the very same access. *)
CoversItself(v, w) == v = w
Covers(v, w) == v.of = w.of /\ IsPrefix(v.attributes, w.attributes)

---------------------------------------------------------------------------
(* The imports of a module, and the modules of the program.                *)

ImportsOf(m) == {d.of : d \in Declarations(m, {"import"})}
ImportsFound(m) == ImportsOf(m) \intersect DOMAIN program
ImportsBelow(m) == Closure(ImportsFound(m), ImportsFound, Cardinality(DOMAIN program))
Modules == {m \in DOMAIN program : m = Main \/ m \in ImportsBelow(Main)}
(* DuplicateImport, ModuleNotFound, ImportCycle *)
ImportsResolve ==
  \A m \in Modules :
    /\ \A j, k \in Positions(m, {"import"}) : j # k => program[m][j].of # program[m][k].of
    /\ ImportsOf(m) \subseteq DOMAIN program
    /\ m \notin ImportsBelow(m)

---------------------------------------------------------------------------
(* The calls of functions. *)

CallsOf(f) == {c \in Parts(f) : PartAt(f, c).s = "call"}
(* Only self and modules lead to a function, so local names do not matter. *)
CalleeOf(f, x) == Resolve(f, {}, x.to)
IsInternal(f) == The(f).visibility # "external"
IsCallOfInternal(r) == r.kind = "function" /\ IsInternal(r.of)
CalledFunctions(f) == {r.of : r \in {q \in {CalleeOf(f, PartAt(f, c)) : c \in CallsOf(f)} : IsCallOfInternal(q)}}
NumFunctions == Cardinality(UNION {Functions(m) : m \in DOMAIN program})
Reachable(f) == Closure(CalledFunctions(f), CalledFunctions, NumFunctions)
(* CallViolation *)
CallGraphSound(m) ==
  \A f \in Functions(m) : f \notin Reachable(f) /\ (The(f).nonreentrant => \A g \in Reachable(f) : ~The(g).nonreentrant)

(* The getter of a public variable reads it. *)
UsesState(of) ==
  IF The(of).d = "variable" THEN IsState(The(of))
  ELSE \/ The(of).nonreentrant \/ \E g \in Reachable(of) : The(g).nonreentrant
       \/ StateOf(facts[of].reads \union facts[of].writes) # {}
(* check_module_uses: every module on the way to a state must be owned. *)
MayUse(owned, r) == \A k \in DOMAIN r.chain : owned[r.chain[k]] # "none"
RootOf(r) == IF r.chain = <<>> THEN {} ELSE {ModuleOf(r.chain[1])}

---------------------------------------------------------------------------
(* What a function may do (FunctionAnalyzer), with the names of its        *)
(* parameters and of the statements in bound visible: those that declare   *)
(* a variable and the loops around.                                        *)

Params(f) == ToSet(The(f).params)
NamesIn(f, bound) == {x.name : x \in Params(f)} \union {Body(f)[p].name : p \in bound}
LookUp(f, bound, path) == Resolve(f, NamesIn(f, bound), path)
(* The parameters and the statements that bind a name; s tells them apart. *)
Binding(f, bound, r) == {x \in Params(f) \union {Body(f)[p] : p \in bound} : x.name = r.of[3]}
Location(f, bound, r) ==
  IF r.kind = "variable" THEN The(r.of).location
  ELSE IF \E x \in Binding(f, bound, r) : x.s = "for" THEN "loop"
  ELSE IF The(f).visibility # "internal" /\ \E x \in Binding(f, bound, r) : x.s = "param" THEN "calldata"
  ELSE "memory"
ArraysIn(f, bound, r) == IF r.kind = "variable" THEN The(r.of).arrays ELSE UNION {x.arrays : x \in Binding(f, bound, r)}

(* Mutant: a view function may do what a nonpayable one may. *)
MayIfViewing(f, mutability) == Rank(mutability) <= Rank(The(f).mutability) \/ Rank(The(f).mutability) >= Rank("view")
May(f, mutability) == Rank(mutability) <= Rank(The(f).mutability) \/ Rank(The(f).mutability) >= Rank("nonpayable")
ReadsOnly(f) == Rank(The(f).mutability) <= Rank("view")

(* What the loops around iterate over; it was looked up before they began. *)
Loops(f, bound) == {p \in bound : Body(f)[p].s = "for" /\ Body(f)[p].over # <<>>}
Iterated(f, bound, p) == LookUp(f, {q \in bound : q < p}, Body(f)[p].over)
LoopsUntouched(f, bound, writes) ==
  \A v \in writes, p \in Loops(f, bound) : ~Covers(v, VariableAccess(Iterated(f, bound, p)))

IsVariable(r) == r.kind \in {"variable", "local"}
(* Nothing but an element is taken from an array. *)
Typed(arrays, rest) == \A k \in 0 .. Len(rest) - 1 : SubSeq(rest, 1, k) \in arrays => rest[k + 1] = Item
(* ExprVisitor.visit of a variable that is read, and written if so. *)
AccessAllowed(f, bound, r, writes) ==
  /\ IsVariable(r) /\ Typed(ArraysIn(f, bound, r), r.rest)                 \* UndeclaredDefinition, UnknownAttribute
  /\ The(f).mutability = "pure" => ~IsStateAccess(VariableAccess(r))       \* StateAccessViolation
  /\ LoopsUntouched(f, bound, writes)                                      \* ImmutableViolation
  /\ IsStateAccess(VariableAccess(r)) => MayUse(owner, r)                  \* ImmutableViolation
ReadAllowed(f, bound, r) == AccessAllowed(f, bound, r, {})
(* _handle_modification, and then the visit of the target *)
ModificationAllowed(f, bound, r) ==
  /\ IsVariable(r)
  /\ Location(f, bound, r) \in {"storage", "transient"} => ~ReadsOnly(f)   \* StateAccessViolation
  /\ r.kind = "variable" => IsState(The(r.of))                             \* ImmutableViolation, of constants,
  /\ r.kind = "local" => Location(f, bound, r) = "memory"                  \* loop variables and calldata
  /\ Location(f, bound, r) = "code" => IsConstructor(f) /\ (r.rest = <<>> => r.of \notin assigned)
WriteAllowed(f, bound, r) == ModificationAllowed(f, bound, r) /\ AccessAllowed(f, bound, r, {VariableAccess(r)})
Assigns(f, bound, r) == IF Location(f, bound, r) = "code" /\ r.rest = <<>> THEN {r.of} ELSE {}

CallAllowed(f, bound, r) ==
  /\ IsCallOfInternal(r)                                                   \* CallViolation
  /\ May(f, The(r.of).mutability)                                          \* StateAccessViolation
  /\ The(r.of).visibility = "deploy" => The(f).visibility = "deploy"       \* CallViolation
  /\ LoopsUntouched(f, bound, StateOf(facts[r.of].writes))                 \* ImmutableViolation
  /\ UsesState(r.of) => MayUse(owner, r)                                   \* ImmutableViolation

(* A part of an expression: what it reads, calls, or takes from an array;  *)
(* outside is what has a mutability of its own, an external call or a      *)
(* builtin.                                                                *)
PartAllowed(f, bound, x) ==
  /\ x.s = "read" => ReadAllowed(f, bound, LookUp(f, bound, x.to))
  /\ x.s = "pop" => WriteAllowed(f, bound, LookUp(f, bound, x.to))
  /\ x.s = "call" => CallAllowed(f, bound, CalleeOf(f, x))
  /\ x.s = "outside" => May(f, x.mutability)

(* The global scope is that of the module: a local variable may not have a *)
(* name of either (NamespaceCollision).                                    *)
IsFree(f, name) == ~\E d \in Declared(f[1], name) : InNamespace(d)
BindAllowed(f, bound, name) == name \notin NamesIn(f, bound) /\ IsFree(f, name)
(* Where a block ends, so do the names that were bound in it: until is     *)
(* the line at which what a statement opens or binds ends.                 *)
Leaving(f, bound, end) == {p \in bound : Body(f)[p].until > end}

Marks == {"else", "endif", "endfor"}
StatementAllowed(f, bound, x) ==
  /\ x.s \in {"declare", "for"} => BindAllowed(f, bound, x.name)
  /\ x.s = "for" /\ x.over # <<>> => LET r == LookUp(f, bound, x.over)
                                     IN ReadAllowed(f, bound, r) /\ r.rest \in ArraysIn(f, bound, r)
  /\ x.s \in {"assign", "append"} => WriteAllowed(f, bound, LookUp(f, bound, x.to))
  /\ x.s = "log" => ~ReadsOnly(f)                                          \* StructureException
  /\ x.s \in {"break", "continue"} => x.until # 0                          \* StructureException
  /\ x.s = "return" => x.given = The(f).result                             \* FunctionDeclarationException

(* find_terminating_node: whether the block has ended after line k, and    *)
(* ended has the lines before which it has.  A branch ends a block where   *)
(* both of its sides end; mate is where the other side is closed.          *)
(* Mutant: one side that ends is enough. *)
EndsEither(x, k, ended) == x.s \in {"return", "raise"} \/ (x.s = "endif" /\ (k \in ended \/ x.mate \in ended))
Ends(x, k, ended) == x.s \in {"return", "raise"} \/ (x.s = "endif" /\ k \in ended /\ x.mate \in ended)

---------------------------------------------------------------------------
(* analyze_functions *)

Idle == [f |-> <<>>, line |-> 0, part |-> 0, bound |-> {}, ended |-> {}, reads |-> {}, writes |-> {}, used |-> {}]
At(s) == stage = s /\ ~rejected
Statement == Body(visit.f)[visit.line]
InBody == visit.f # <<>> /\ visit.line \in DOMAIN Body(visit.f)

(* The functions that are called are visited first. *)
StartBody(f) ==
  /\ visit = Idle
  /\ f \notin DOMAIN facts /\ CalledFunctions(f) \subseteq DOMAIN facts
  /\ visit' = [Idle EXCEPT !.f = f, !.line = 1]
  /\ rejected' = ~((\A j, k \in DOMAIN The(f).params : j # k => The(f).params[j].name # The(f).params[k].name) /\ \A x \in Params(f) : IsFree(f, x.name))
  /\ UNCHANGED <<program, stage, module, known, facts, assigned>>

Part == Statement.value[visit.part + 1]
PartReads == CASE Part.s \in {"read", "pop"} -> {VariableAccess(LookUp(visit.f, visit.bound, Part.to))}
               [] Part.s = "call" -> StateOf(facts[CalleeOf(visit.f, Part).of].reads)
               [] OTHER -> {}
PartWrites == CASE Part.s = "pop" -> {VariableAccess(LookUp(visit.f, visit.bound, Part.to))}
                [] Part.s = "call" -> StateOf(facts[CalleeOf(visit.f, Part).of].writes)
                [] OTHER -> {}
PartUsed == CASE Part.s = "call" /\ UsesState(CalleeOf(visit.f, Part).of) -> RootOf(CalleeOf(visit.f, Part))
              [] Part.s \in {"read", "pop"} /\ StateOf(PartReads) # {} -> RootOf(LookUp(visit.f, visit.bound, Part.to))
              [] OTHER -> {}
VisitPart ==
  /\ InBody /\ visit.part < Len(Statement.value)
  /\ rejected' = ~PartAllowed(visit.f, visit.bound, Part)
  /\ visit' = IF rejected' THEN visit
              ELSE [visit EXCEPT !.part = @ + 1, !.reads = @ \union PartReads, !.writes = @ \union PartWrites, !.used = @ \union PartUsed]
  /\ assigned' = IF Part.s = "pop" /\ ~rejected'
                 THEN assigned \union Assigns(visit.f, visit.bound, LookUp(visit.f, visit.bound, Part.to)) ELSE assigned
  /\ UNCHANGED <<program, stage, module, known, facts>>

(* What is assigned to, or iterated over. *)
Writes == Statement.s \in {"assign", "append"}
HasTarget == Writes \/ (Statement.s = "for" /\ Statement.over # <<>>)
Target == LookUp(visit.f, visit.bound, IF Writes THEN Statement.to ELSE Statement.over)
TargetIf(test) == IF test THEN {VariableAccess(Target)} ELSE {}
StatementUsed == IF StateOf(TargetIf(HasTarget)) # {} THEN RootOf(Target) ELSE {}
BoundAfter(f, bound, k) ==
  CASE Body(f)[k].s \in {"declare", "for"} -> bound \union {k}
    [] Body(f)[k].s \in Marks -> Leaving(f, bound, k)
    [] OTHER -> bound
(* The rest of a statement, after the parts of its expressions.  Where its *)
(* block has ended before, the code is unreachable (StructureException).   *)
VisitStatement ==
  /\ InBody /\ visit.part = Len(Statement.value)
  /\ rejected' = ~((visit.line \in visit.ended => Statement.s \in Marks) /\ StatementAllowed(visit.f, visit.bound, Statement))
  /\ visit' = IF rejected' THEN visit
              ELSE [visit EXCEPT !.line = @ + 1, !.part = 0, !.bound = BoundAfter(visit.f, @, visit.line),
                                 !.ended = IF Ends(Statement, visit.line, @) THEN @ \union {visit.line + 1} ELSE @,
                                 !.reads = @ \union TargetIf(HasTarget), !.writes = @ \union TargetIf(Writes), !.used = @ \union StatementUsed]
  /\ assigned' = IF Writes /\ ~rejected' THEN assigned \union Assigns(visit.f, visit.bound, Target) ELSE assigned
  /\ UNCHANGED <<program, stage, module, known, facts>>

(* A function with a result returns one (FunctionDeclarationException). *)
FinishBody ==
  /\ visit.f # <<>> /\ visit.line \notin DOMAIN Body(visit.f)
  /\ rejected' = (The(visit.f).result /\ visit.line \notin visit.ended)
  /\ facts' = [f \in DOMAIN facts \union {visit.f} |->
                IF f = visit.f THEN [reads |-> visit.reads, writes |-> visit.writes, used |-> visit.used] ELSE facts[f]]
  /\ visit' = Idle
  /\ UNCHANGED <<program, stage, module, known, assigned>>
AnalyzeFunctions == At("functions") /\ ((\E f \in Functions(module) : StartBody(f)) \/ VisitPart \/ VisitStatement \/ FinishBody)

---------------------------------------------------------------------------
(* ModuleAnalyzer. *)

(* Types, and then variables and functions, are visited until all are done *)
(* or none of those left can be.  s has the names that are known, in the   *)
(* namespace and in self, and what is left.                                *)
IsAssigned(m, name) == \E f \in Functions(m) : \E k \in DOMAIN Body(f) : Body(f)[k].s = "assign" /\ Body(f)[k].to = <<name>>
OnlyConstants(m, names) == \A name \in names : \A d \in Declared(m, name) : d.d = "variable" => d.location = "constant"
CanVisit(m, s, d) ==
  /\ d.needs \subseteq s.names
  /\ d.d = "function" \/ d.name \notin s.names
  /\ d.d = "type" \/ d.name \notin s.self
  /\ d.d = "variable" /\ d.location = "code" => IsAssigned(m, d.name)
  /\ d.d = "variable" /\ d.location = "constant" => OnlyConstants(m, d.needs)
Visited(s, d) == [s EXCEPT !.names = IF InNamespace(d) THEN @ \union {d.name} ELSE @,
                           !.self = IF InSelf(d) THEN @ \union {d.name} ELSE @]
VisitPass(m, s) ==
  FoldLeft(LAMBDA w, d : IF CanVisit(m, w, d) THEN Visited(w, d) ELSE [w EXCEPT !.left = Append(@, d)],
           [s EXCEPT !.left = <<>>], s.left)
(* Mutant: one pass. *)
VisitOnce(m, s) == VisitPass(m, s)
(* A pass that visits nothing leaves what it found, so there are as many   *)
(* passes as can be of use.                                                *)
VisitLooping(m, s) ==
  LET pass[n \in 0 .. Len(s.left)] == IF n = 0 THEN s ELSE VisitPass(m, pass[n - 1]) IN pass[Len(s.left)]
OfKinds(m, kinds) == SelectSeq(program[m], LAMBDA d : d.d \in kinds)
DeclarationsSound(m) ==                                                    \* ExceptionList
  LET imported == [names |-> {d.name : d \in Declarations(m, {"import"})}, self |-> {}, left |-> OfKinds(m, {"type"})]
      types == VisitLooping(m, imported)
      all == VisitLooping(m, [types EXCEPT !.left = OfKinds(m, {"variable", "function"})])
  IN types.left = <<>> /\ all.left = <<>>
(* ContractFunctionT.from_FunctionDef, of a constructor: it and nothing    *)
(* else is marked as deploy.                                               *)
ConstructorSound(m) ==
  \A f \in Functions(m) :
    /\ The(f).visibility = "deploy" <=> IsConstructor(f)
    /\ IsConstructor(f) => The(f).mutability \notin {"pure", "view"} /\ ~The(f).result /\ ~The(f).nonreentrant
(* What ModuleT has for members: no two of one name. *)
MembersSound(m) == \A j, k \in Positions(m, Named) : j # k => program[m][j].name # program[m][k].name

(* Paths stand in a declaration of what is used or exported. *)
PathsIn(m, kind) == UNION {{k} \X DOMAIN program[m][k].paths : k \in Positions(m, {kind})}
InfoAt(m, c) == MemberOf(m, program[m][c[1]].paths[c[2]])
UsedModules(m) == {ModuleOf(InfoAt(m, c).of) : c \in PathsIn(m, "uses")}
InitializesAt(m) == Positions(m, {"initializes"})
InitializedInfo(m, k) == MemberOf(m, program[m][k].path)
InitializedModules(m) == {ModuleOf(InitializedInfo(m, k).of) : k \in InitializesAt(m)}

(* A module that uses others is initialized with all of them, each named   *)
(* once, in the words of both modules.                                     *)
GivenWhatItUses(m, d) ==
  LET M == ModuleOf(MemberOf(m, d.path).of)
      Lhs(k) == MemberOf(M, d.with[k].lhs)
      Rhs(k) == MemberOf(m, d.with[k].rhs)
  IN /\ \A k \in DOMAIN d.with : Lhs(k).kind = "module" /\ Rhs(k).kind = "module" /\ ModuleOf(Lhs(k).of) = ModuleOf(Rhs(k).of)
     /\ \A j, k \in DOMAIN d.with : j # k => ModuleOf(Lhs(j).of) # ModuleOf(Lhs(k).of)
     /\ {ModuleOf(Lhs(k).of) : k \in DOMAIN d.with} = UsedModules(M)
(* ModuleInfo.set_ownership, of imports that nothing owns yet. *)
OwnershipSound(m, owned) ==
  LET uses == {InfoAt(m, c) : c \in PathsIn(m, "uses")}
      inits == {InitializedInfo(m, k) : k \in InitializesAt(m)}
  IN /\ \A r \in uses \union inits : r.kind = "module" /\ owned[r.of] = "none"       \* StructureException
     /\ Cardinality({r.of : r \in uses \union inits}) = Cardinality(PathsIn(m, "uses")) + Cardinality(InitializesAt(m))
     /\ \A k \in InitializesAt(m) : GivenWhatItUses(m, program[m][k])                \* InitializerException
OwnershipAfter(m, owned) ==
  [info \in DOMAIN owned |-> IF info \in {InfoAt(m, c).of : c \in PathsIn(m, "uses")} THEN "uses"
                             ELSE IF info \in {InitializedInfo(m, k).of : k \in InitializesAt(m)} THEN "initializes"
                             ELSE owned[info]]

(* visit_ExportsDecl, of one function or public variable. *)
IsExposed(r) == r.kind \in {"function", "variable"} /\ The(r.of).visibility = "external"
ExportsSound(m, owned) ==
  LET exports == PathsIn(m, "exports")
  IN /\ \A c \in exports : IsExposed(InfoAt(m, c))                                                    \* StructureException
     /\ \A c \in exports : InfoAt(m, c).of[2] \notin {d.name : d \in Declarations(m, Named)}          \* NamespaceCollision
     /\ \A b, c \in exports : b # c => InfoAt(m, b).of[2] # InfoAt(m, c).of[2]                        \* NamespaceCollision
     /\ \A c \in exports : UsesState(InfoAt(m, c).of) => MayUse(owned, InfoAt(m, c))                  \* ImmutableViolation
ExportOf(m, r) == [by |-> m, of |-> r.of, used |-> IF UsesState(r.of) THEN RootOf(r) ELSE {}]

(* analyze_module_body, of a module whose imports are done.  An import has *)
(* no owner yet.                                                           *)
WithImports(m) ==
  [info \in DOMAIN owner \union {<<m, d.name>> : d \in Declarations(m, {"import"})} |-> IF info \in DOMAIN owner THEN owner[info] ELSE "none"]
BeginModule(m) ==
  /\ At("modules") /\ m \notin done /\ ImportsOf(m) \subseteq done
  /\ rejected' = ~(/\ MembersSound(m) /\ OwnershipSound(m, WithImports(m)) /\ DeclarationsSound(m) /\ ConstructorSound(m)
                   /\ ExportsSound(m, OwnershipAfter(m, WithImports(m))) /\ CallGraphSound(m))
  /\ owner' = IF rejected' THEN owner ELSE OwnershipAfter(m, WithImports(m))
  /\ exported' = IF rejected' THEN exported ELSE exported \union {ExportOf(m, InfoAt(m, c)) : c \in PathsIn(m, "exports")}
  /\ module' = m /\ stage' = "functions"
  /\ UNCHANGED <<program, done, facts, assigned, visit>>

(* Every module that is declared as used is, by a function or an export. *)
ExportedBy(m) == {e \in exported : e.by = m}
UsedModulesUsed(m) ==                                                      \* BorrowException
  UsedModules(m) \subseteq UNION ({facts[f].used : f \in Functions(m)} \union {e.used : e \in ExportedBy(m)}) \ InitializedModules(m)
(* Every module that has a constructor and is initialized by this one is   *)
(* named in one call of the constructor of this one.                       *)
InitializerCalls(m) ==
  LET f == <<m, Constructor>>
  IN IF ~HasConstructor(m) THEN {}
     ELSE {c \in CallsOf(f) : CalleeOf(f, PartAt(f, c)).kind = "function" /\ IsConstructor(CalleeOf(f, PartAt(f, c)).of)}
InitializerCallsSound(m) ==                                                \* InitializerException
  LET called == {CalleeOf(<<m, Constructor>>, PartAt(<<m, Constructor>>, c)).of[1] : c \in InitializerCalls(m)}
  IN called = {M \in InitializedModules(m) : HasConstructor(M)} /\ Cardinality(called) = Cardinality(InitializerCalls(m))
FinishModule ==
  /\ At("functions") /\ visit = Idle /\ Functions(module) \subseteq DOMAIN facts
  /\ rejected' = ~(InitializerCallsSound(module) /\ UsedModulesUsed(module))
  /\ done' = done \union {module} /\ stage' = "modules"
  /\ UNCHANGED <<program, module, owner, exported, facts, assigned, visit>>

---------------------------------------------------------------------------
(* validate_compilation_target: every module that is used anywhere below   *)
(* the target is initialized, and none twice.                              *)

DependsOn(m) == UsedModules(m) \union InitializedModules(m)
(* Mutant: only what the target uses itself. *)
UsedHere(m) == UsedModules(m)
UsedBelow(m) == UNION {UsedModules(M) : M \in Closure({m}, DependsOn, Cardinality(DOMAIN program))}
InitializedBelow(m) == Closure(InitializedModules(m), InitializedModules, Cardinality(DOMAIN program))
(* The declarations that initialize a module, in the target or below. *)
Initializers(of) ==
  {c \in UNION {{M} \X InitializesAt(M) : M \in InitializedBelow(Main) \union {Main}} : ModuleOf(InitializedInfo(c[1], c[2]).of) = of}
TargetSound ==                                                             \* InitializerException
  /\ \A m \in InitializedBelow(Main) : Cardinality(Initializers(m)) = 1
  /\ UsedBelow(Main) \subseteq InitializedBelow(Main)

---------------------------------------------------------------------------

StartAnalysis == /\ stage = "imports" /\ module = NoModule /\ rejected = FALSE /\ done = {} /\ owner = <<>> /\ exported = {}
                 /\ facts = <<>> /\ assigned = {} /\ visit = Idle
RestartAnalysis == /\ stage' = "imports" /\ module' = NoModule /\ rejected' = FALSE /\ done' = {} /\ owner' = <<>> /\ exported' = {}
                   /\ facts' = <<>> /\ assigned' = {} /\ visit' = Idle
ResolveImports ==
  /\ At("imports")
  /\ rejected' = ~ImportsResolve /\ stage' = "modules"
  /\ UNCHANGED <<program, module, known, facts, assigned, visit>>
AnalyzeModules == (\E m \in Modules : BeginModule(m)) \/ FinishModule
ValidateTarget ==
  /\ At("modules") /\ Main \in done
  /\ rejected' = ~TargetSound /\ stage' = "analysed"
  /\ UNCHANGED <<program, module, known, facts, assigned, visit>>
AnalysisOver == rejected \/ stage = "analysed"
Analyze == ResolveImports \/ AnalyzeModules \/ AnalyzeFunctions \/ ValidateTarget
=============================================================================
