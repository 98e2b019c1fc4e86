--------------------------- MODULE MCVenomPipeline ---------------------------
(***************************************************************************)
(* The pipeline on small functions of the shapes that ir_node_to_venom     *)
(* makes of if statements, loops with break and early reverts, and of      *)
(* sequences of expressions and of accesses to memory and storage.         *)
(***************************************************************************)
EXTENDS VenomPipeline

(* Call data: two words. *)
Input == {BytesOf(w[1]) \o BytesOf(w[2]) :
            w \in {<<0, 0>>, <<0, MaxWord>>, <<1, 1>>, <<1, 2>>, <<3, 0>>, <<3, 1>>, <<2, MaxSigned + 1>>}}

A == Var("a")
B == Var("b")
V == Var("v")
P == Var("p")
Q == Var("q")
X == Var("x")
N == Var("n")
M == Var("m")
T(l) == Var(l)           \* temporaries, one name per place
U(l) == Var(l \o "u")

(* Statements, at place l. *)
Skip == <<>>
SetMem(l, n) == <<<<"mstore", NoOutput, <<Lit(n), P>>>>>>
IncMem(l) == <<<<"mload", T(l), <<P>>>>, <<"add", U(l), <<Lit(1), T(l)>>>>, <<"mstore", NoOutput, <<U(l), P>>>>>>
CopyMem(l) == <<<<"mload", T(l), <<Q>>>>, <<"mstore", NoOutput, <<T(l), P>>>>>>
PutMem(l) == <<<<"mload", T(l), <<P>>>>, <<"log", NoOutput, <<Lit(1), T(l), Lit(0), Lit(0)>>>>>>
SetVar(l) == <<<<"add", T(l), <<A, V>>>>, <<"assign", V, <<T(l)>>>>>>
Double(l) == <<<<"calldataload", T(l), <<Lit(0)>>>>, <<"add", U(l), <<T(l), T(l)>>>>, <<"assign", V, <<U(l)>>>>>>
ConstVar(l) == <<<<"assign", V, <<Lit(1)>>>>>>
Local(l) == <<<<"alloca", Q, <<Lit(4), Lit(4), Lit(2)>>>>, <<"mstore", NoOutput, <<Lit(1), Q>>>>>>
Check(l) == <<<<"assert", NoOutput, <<V>>>>>>

Jump(l) == <<<<"jmp", NoOutput, <<Lab(l)>>>>>>
Branch(c, l, k) == <<<<"jnz", NoOutput, <<c, Lab(l), Lab(k)>>>>>>
Stop == <<<<"stop", NoOutput, <<>>>>>>
Revert == <<<<"revert", NoOutput, <<Lit(0), Lit(0)>>>>>>

Start == <<<<"calldataload", A, <<Lit(0)>>>>, <<"calldataload", B, <<Lit(4)>>>>,
           <<"assign", V, <<B>>>>, <<"alloca", P, <<Lit(0), Lit(4), Lit(1)>>>>,
           <<"mstore", NoOutput, <<A, P>>>>>>
Finish == <<<<"mload", T("r"), <<P>>>>, <<"sstore", NoOutput, <<T("r"), Lit(0)>>>>,
            <<"sstore", NoOutput, <<V, Lit(1)>>>>>> \o Stop

Conditions(l) == {<<<<"assign", T(l), <<B>>>>>>, <<<<"iszero", T(l), <<B>>>>>>,
                  <<<<"assign", T(l), <<Lit(1)>>>>>>}
Menu(l) == {Skip, SetMem(l, 1), IncMem(l), PutMem(l), SetVar(l), Double(l), ConstVar(l), Local(l)}

ZeroVar(l) == <<<<"assign", V, <<Lit(0)>>>>>>
Brief(l) == {Skip, IncMem(l), SetVar(l), ConstVar(l)}

(* if c: s else: t *)
Ifs ==
  {Function(<<"main", "then", "else", "exit">>,
     "main" :> Start \o c \o Branch(T("c"), "then", "else")
     @@ "then" :> s \o Jump("exit") @@ "else" :> t \o Jump("exit") @@ "exit" :> Finish) :
   c \in Conditions("c"), s \in Menu("s"), t \in {Skip, IncMem("t"), ConstVar("t")}}

(* if c: (if d: s else: t) else: u *)
NestedIfs ==
  {Function(<<"main", "then", "inner", "other", "fi", "else", "exit">>,
     "main" :> Start \o c \o Branch(T("c"), "then", "else")
     @@ "then" :> <<<<"eq", T("d"), <<A, B>>>>>> \o Branch(T("d"), "inner", "other")
     @@ "inner" :> s \o Jump("fi") @@ "other" :> t \o Jump("fi") @@ "fi" :> Jump("exit")
     @@ "else" :> u \o Jump("exit") @@ "exit" :> Finish) :
   c \in {<<<<"assign", T("c"), <<B>>>>>>}, s \in Brief("s"), t \in Brief("t"), u \in {Skip, SetVar("u")}}

(* if c: revert; s *)
Reverts ==
  {Function(<<"main", "then", "else", "exit">>,
     "main" :> Start \o c \o (IF first THEN Branch(T("c"), "then", "else") ELSE Branch(T("c"), "else", "then"))
     @@ "then" :> Revert @@ "else" :> s \o Jump("exit") @@ "exit" :> t \o Finish) :
   c \in {<<<<"iszero", T("c"), <<B>>>>>>, <<<<"assign", T("c"), <<Lit(1)>>>>>>}, first \in BOOLEAN, s \in Brief("s") \union {ZeroVar("s")}, t \in {Skip, PutMem("t"), Check("t")}}

(* for i in range(a): if c: s, then go to `leave`; t *)
Loops ==
  {Function(<<"main", "repeat", "condition", "body", "then", "after", "else", "fi", "incr", "exit">>,
     "main" :> Start \o Jump("repeat")
     @@ "repeat" :> <<<<"assign", T("i"), <<Lit(0)>>>>, <<"add", T("end"), <<A, Lit(0)>>>>>> \o Jump("condition")
     @@ "condition" :> <<<<"sub", T("x"), <<T("end"), T("i")>>>>, <<"iszero", T("z"), <<T("x")>>>>>>
                       \o Branch(T("z"), "exit", "body")
     @@ "body" :> c \o Branch(T("c"), "then", "else")
     @@ "then" :> s \o Jump(leave) @@ "after" :> Jump("fi") @@ "else" :> t \o Jump("fi") @@ "fi" :> Jump("incr")
     @@ "incr" :> <<<<"add", T("i"), <<Lit(1), T("i")>>>>>> \o Jump("condition")
     @@ "exit" :> Finish) :
   c \in {<<<<"eq", T("c"), <<T("i"), B>>>>>>, <<<<"lt", T("c"), <<V, B>>>>>>},
   s \in Brief("s"), t \in {Skip, SetVar("t"), PutMem("t")}, leave \in {"after", "exit", "incr"}}

---------------------------------------------------------------------------
(* Expressions of one operation on the call data and a literal, on either  *)
(* side, each kept in a place of its own.                                  *)

E(k) == Var("e" \o ToString(k))
G(k) == Var("g" \o ToString(k))
H(k) == Var("h" \o ToString(k))
Words == <<<<"calldataload", A, <<Lit(0)>>>>, <<"calldataload", B, <<Lit(4)>>>>>>
Keep(k) == <<<<"sstore", NoOutput, <<E(k), Lit(k)>>>>>>
KeepNot(k) == <<<<"iszero", G(k), <<E(k)>>>>, <<"sstore", NoOutput, <<G(k), Lit(k)>>>>>>
KeepTruth(k) == <<<<"iszero", G(k), <<E(k)>>>>, <<"iszero", H(k), <<G(k)>>>>, <<"sstore", NoOutput, <<H(k), Lit(k)>>>>>>
Ask(k) == <<<<"iszero", G(k), <<E(k)>>>>, <<"iszero", H(k), <<G(k)>>>>, <<"assert", NoOutput, <<H(k)>>>>>>
Times(n, Statement(_)) == FlattenSeq([k \in 1 .. n |-> Statement(k)])

Literals == {<<0, 1, 2, MaxSigned>>, <<MaxWord, MaxWord - 1, MaxSigned + 1>>}
Operation(op, left, n, k) == <<<<op, E(k), IF left THEN <<A, Lit(n)>> ELSE <<Lit(n), A>>>>>>
Arithmetic(op, left, ns, Use(_)) ==
  Function(<<"main">>, "main" :> Words \o Times(Len(ns), LAMBDA k : Operation(op, left, ns[k], k) \o Use(k)) \o Stop)
Expressions ==
  UNION {{Arithmetic(op, left, ns, Keep) : op \in BinaryOps \ {"exp"}, left \in BOOLEAN}
         \union {Arithmetic(op, left, ns, KeepNot) : op \in Comparators \union {"eq", "or"}, left \in BOOLEAN}
         \union {Arithmetic(op, left, ns, KeepTruth) : op \in Comparators \union {"eq", "sub"}, left \in BOOLEAN} : ns \in Literals}

(* One comparison that a branch or an assertion reads. *)
Tested(op, n, use) ==
  IF use = "assert"
  THEN Function(<<"main">>, "main" :> Words \o <<<<op, E(1), <<Lit(n), A>>>>>> \o Ask(1) \o Keep(1) \o Stop)
  ELSE Function(<<"main", "then", "else", "exit">>,
         "main" :> Words \o <<<<op, E(1), <<Lit(n), A>>>>, <<"iszero", G(1), <<E(1)>>>>>> \o Branch(G(1), "then", "else")
         @@ "then" :> <<<<"sstore", NoOutput, <<B, Lit(1)>>>>>> \o Jump("exit")
         @@ "else" :> <<<<"add", G(2), <<B, A>>>>, <<"add", G(3), <<B, A>>>>, <<"sstore", NoOutput, <<G(2), G(3)>>>>>>
                      \o Jump("exit")
         @@ "exit" :> Keep(1) \o Stop)
Tests == {Tested(op, n, use) : op \in Comparators \union {"eq"}, n \in {0, 1, MaxSigned, MaxWord}, use \in {"assert", "if"}}

---------------------------------------------------------------------------
(* Accesses to memory, storage and call data. *)

Put(l, n) == <<<<"mstore", NoOutput, <<A, Lit(n)>>>>>>
Zero(l, n) == <<<<"mstore", NoOutput, <<Lit(0), Lit(n)>>>>>>
Move(l, n, m) == <<<<"mload", T(l), <<Lit(n)>>>>, <<"mstore", NoOutput, <<T(l), Lit(m)>>>>>>
Fetch(l, n, m) == <<<<"calldataload", T(l), <<Lit(n)>>>>, <<"mstore", NoOutput, <<T(l), Lit(m)>>>>>>
Shift(l, n, m) == <<<<"mcopy", NoOutput, <<Lit(6), Lit(n), Lit(m)>>>>>>
Look(l, n) == <<<<"sha3", T(l), <<Lit(6), Lit(n)>>>>, <<"sstore", NoOutput, <<T(l), Lit(2)>>>>>>
Save(l, n) == <<<<"sload", T(l), <<Lit(0)>>>>, <<"add", U(l), <<B, T(l)>>>>, <<"sstore", NoOutput, <<U(l), Lit(n)>>>>>>
Log(l, n) == <<<<"log", NoOutput, <<Lit(0), Lit(4), Lit(n)>>>>>>
Send(l) == <<<<"call", T(l), <<Lit(4), Lit(0), Lit(4), Lit(4), Lit(0), B, Lit(1)>>>>, <<"tstore", NoOutput, <<T(l), Lit(0)>>>>>>
PutAt(l) == <<<<"add", T(l), <<Lit(4), B>>>>, <<"and", U(l), <<Lit(7), T(l)>>>>, <<"mstore", NoOutput, <<A, U(l)>>>>>>

Accesses(l) == {Put(l, 0), Zero(l, 4), Zero(l, 8), Move(l, 0, 4), Move(l, 4, 8), Fetch(l, 0, 0), Fetch(l, 4, 4),
                Shift(l, 0, 4), Look(l, 2), Save(l, 0), Log(l, 4), Send(l), PutAt(l)}
Few(l) == {Put(l, 0), Zero(l, 4), Move(l, 4, 8), Save(l, 0)}
Answer12 == <<<<"return", NoOutput, <<Lit(12), Lit(0)>>>>>>
Sequence3(s, t, u) == Function(<<"main">>, "main" :> Words \o s \o t \o u \o Answer12)
Choice3(s, t, u) ==
  Function(<<"main", "then", "else", "exit">>,
    "main" :> Words \o Branch(B, "then", "else")
    @@ "then" :> s \o Jump("exit") @@ "else" :> t \o Jump("exit")
    @@ "exit" :> u \o Answer12)
InSequence == {Sequence3(s, t, Move("u", 0, 4)) : s \in Accesses("s"), t \in Accesses("t")}
InBranches == {Choice3(s, t, u) : s \in Few("s"), t \in Few("t"), u \in {Move("u", 0, 4), Save("u", 0)}}

---------------------------------------------------------------------------
(* Data behind the code, which go through the two words of scratch space,  *)
(* or to memory past them.                                                 *)

ReadCode(l, n) == <<<<"dload", T(l), <<Lit(n)>>>>, <<"sstore", NoOutput, <<T(l), Lit(2)>>>>>>
FetchCode(l, n, m) == <<<<"dload", T(l), <<Lit(n)>>>>, <<"mstore", NoOutput, <<T(l), Lit(m)>>>>>>
FetchAndUse(l, n, m) == FetchCode(l, n, m) \o <<<<"add", U(l), <<T(l), A>>>>, <<"sstore", NoOutput, <<U(l), T(l)>>>>>>
FetchFrom(l, m) == <<<<"and", U(l), <<Lit(4), A>>>>, <<"dload", T(l), <<U(l)>>>>, <<"mstore", NoOutput, <<T(l), Lit(m)>>>>>>
AddCode(l) == <<<<"and", U(l), <<Lit(4), B>>>>, <<"dload", T(l), <<U(l)>>>>, <<"dload", E(l), <<Lit(4)>>>>,
                <<"add", G(l), <<T(l), E(l)>>>>, <<"sstore", NoOutput, <<G(l), A>>>>>>
FetchMany(l) == <<<<"dloadbytes", NoOutput, <<Lit(8), Lit(4), Lit(8)>>>>>>
Behind(l) == {ReadCode(l, 0), FetchCode(l, 0, 8), FetchCode(l, 4, 12), FetchAndUse(l, 8, 8), FetchFrom(l, 12), AddCode(l), FetchMany(l)}
Ahead(l) == {Put(l, 8), Zero(l, 12), Move(l, 8, 12), Look(l, 8), Send(l)}
Answer8 == <<<<"return", NoOutput, <<Lit(8), Lit(8)>>>>>>
CodeInSequence ==
  {Function(<<"main">>, "main" :> Words \o w[1] \o w[2] \o Answer8) :
     w \in (Behind("s") \X Behind("t")) \union (Behind("s") \X Ahead("t")) \union (Ahead("s") \X Behind("t"))}
CodeInBranches ==
  {Function(<<"main", "then", "else", "exit">>,
     "main" :> Words \o ReadCode("r", 0) \o Branch(B, "then", "else")
     @@ "then" :> s \o Jump("exit") @@ "else" :> t \o Jump("exit") @@ "exit" :> FetchCode("u", 0, 8) \o Answer8) :
     s \in {FetchCode("s", 0, 8), AddCode("s"), FetchMany("s")}, t \in {Put("t", 8), FetchAndUse("t", 4, 12)}}
Behinds == CodeInSequence \union CodeInBranches

Control == Ifs \union NestedIfs \union Reverts \union Loops
Brevities == {Arithmetic(op, TRUE, <<MaxWord, MaxWord - 1, MaxSigned + 1, 3>>, Keep) : op \in {"add", "sub", "xor", "div"}}
Alone(fs) == {<<f>> : f \in fs}

---------------------------------------------------------------------------
(* Contexts of several functions.  An argument of one word comes on the    *)
(* stack, for which the caller stores it at a place with the id that the   *)
(* callee's place for it has, and loads it again; longer ones, and longer  *)
(* results, stay in memory.                                                *)

PC == Var("pc")
Place4(out, op, offset, id) == <<<<op, out, <<Lit(offset), Lit(4), Lit(id)>>>>>>
Ret(value) == <<<<"ret", NoOutput, value \o <<PC>>>>>>

(* def name(x): return what body makes of x *)
Taker(name, offset, id, body) ==
  [Function(<<name, name \o "_cleanup">>,
     name :> <<<<"param", X, <<>>>>, <<"param", PC, <<>>>>>> \o Place4(V, "alloca", 0, 100 + id) \o Place4(Q, "palloca", offset, id)
             \o <<<<"mstore", NoOutput, <<X, Q>>>>, <<"mload", A, <<Q>>>>>> \o body \o Jump(name \o "_cleanup")
     @@ (name \o "_cleanup") :> <<<<"mload", B, <<V>>>>>> \o Ret(<<B>>)) EXCEPT !.params = id :> X]
AddOne == <<<<"add", M, <<Lit(1), A>>>>, <<"mstore", NoOutput, <<M, V>>>>>>
Count == <<<<"sload", N, <<Lit(0)>>>>, <<"add", M, <<N, A>>>>, <<"sstore", NoOutput, <<M, Lit(0)>>>>, <<"mstore", NoOutput, <<M, V>>>>>>
AddOneUnless0 == <<<<"assert", NoOutput, <<A>>>>>> \o AddOne
(* y = name(x), at place l; the argument is stored at ptr *)
Called(l) == Var("y" \o l)
CallTaker(l, name, ptr, x) ==
  <<<<"mstore", NoOutput, <<x, ptr>>>>, <<"mload", T(l), <<ptr>>>>, <<"invoke", U(l), <<Lab(name), T(l)>>>>,
    <<"mstore", NoOutput, <<U(l), H(0)>>>>, <<"mload", Called(l), <<H(0)>>>>>>
(* def name(): return other(s[0]) *)
Giver(name, other) ==
  Function(<<name, name \o "_cleanup">>,
    name :> <<<<"param", PC, <<>>>>>> \o Place4(V, "alloca", 0, 102) \o <<<<"sload", A, <<Lit(0)>>>>>>
            \o Place4(P, "alloca", 8, 1) \o Place4(H(0), "alloca", 12, 7) \o CallTaker("i", other, P, A)
            \o <<<<"mstore", NoOutput, <<Called("i"), V>>>>>> \o Jump(name \o "_cleanup")
    @@ (name \o "_cleanup") :> <<<<"mload", B, <<V>>>>>> \o Ret(<<B>>))
CallGiver(l, name) ==
  <<<<"invoke", U(l), <<Lab(name)>>>>, <<"mstore", NoOutput, <<U(l), H(0)>>>>, <<"mload", Called(l), <<H(0)>>>>>>

(* def name(): s[0] = s[0] + n *)
Bump(name, n) ==
  Function(<<name>>, name :> <<<<"param", PC, <<>>>>, <<"sload", A, <<Lit(0)>>>>, <<"add", B, <<Lit(n), A>>>>,
                               <<"sstore", NoOutput, <<B, Lit(0)>>>>>> \o Ret(<<>>))
CallBump(name) == <<<<"invoke", NoOutput, <<Lab(name)>>>>>>

(* def name(z), of longer types: z = z + z; return z *)
Copier(name) ==
  Function(<<name>>, name :> <<<<"param", X, <<>>>>, <<"param", PC, <<>>>>>> \o Place4(Q, "palloca", 8, 1)
     \o <<<<"mload", A, <<Q>>>>, <<"add", B, <<A, A>>>>, <<"mstore", NoOutput, <<B, Q>>>>, <<"mcopy", NoOutput, <<Lit(4), Q, X>>>>>>
     \o Ret(<<>>))
CallCopier(l, name, x) ==
  <<<<"mstore", NoOutput, <<x, P>>>>, <<"invoke", NoOutput, <<Lab(name), H(0)>>>>, <<"mload", Called(l), <<H(0)>>>>>>

(* The entry; its first call allocates what later ones use again. *)
Zeroed == Place4(H(0), "alloca", 4, 9) \o <<<<"mstore", NoOutput, <<Lit(0), H(0)>>>>>>
Result4 == <<<<"mload", G(0), <<H(0)>>>>, <<"sstore", NoOutput, <<G(0), Lit(1)>>>>, <<"return", NoOutput, <<Lit(4), H(0)>>>>>>
Twice(allocas, first, second) ==
  Function(<<"main">>, "main" :> Words \o Zeroed \o allocas \o first \o second \o Result4)
Either(allocas, first, second) ==
  Function(<<"main", "then", "else", "exit">>,
    "main" :> Words \o Zeroed \o Branch(B, "then", "else")
    @@ "then" :> allocas \o first \o Jump("exit") @@ "else" :> second \o Jump("exit") @@ "exit" :> Result4)
Repeated(allocas, body) ==
  Function(<<"main", "condition", "body", "exit">>,
    "main" :> Words \o Zeroed \o <<<<"assign", N, <<Lit(0)>>>>>> \o Jump("condition")
    @@ "condition" :> <<<<"xor", T("x"), <<Lit(2), N>>>>, <<"iszero", T("z"), <<T("x")>>>>>> \o Branch(T("z"), "exit", "body")
    @@ "body" :> allocas \o body \o <<<<"add", N, <<Lit(1), N>>>>>> \o Jump("condition")
    @@ "exit" :> Result4)

Buffer == Place4(P, "alloca", 8, 1)
Passing == Place4(P, "calloca", 8, 1)
F(body) == Taker("f", 8, 1, body)
Taking(body) ==
  {<<Twice(Buffer, CallTaker("s", "f", P, A), <<>>), F(body)>>,
   <<Twice(Buffer, CallTaker("s", "f", P, A), CallTaker("t", "f", P, Called("s"))), F(body)>>,
   <<Either(Buffer, CallTaker("s", "f", P, A), CallTaker("t", "f", P, B)), F(body)>>,
   <<Repeated(Buffer, CallTaker("s", "f", P, N)), F(body)>>}
(* main -> g -> f, and main -> f *)
Chains == {<<Twice(Buffer, CallGiver("s", "g"), more), F(body), Giver("g", "f")>> :
             body \in {AddOne, Count}, more \in {<<>>, CallTaker("t", "f", P, B), CallGiver("t", "g")}}
Bumping == {<<Twice(<<>>, CallBump("f"), CallBump("g")), Bump("f", 1), Bump("g", 2)>>,
            <<Twice(<<>>, CallBump("f"), CallBump("f")), Bump("f", 1)>>,
            <<Either(<<>>, CallBump("f"), CallBump("f") \o CallBump("f")), Bump("f", 1)>>,
            <<Repeated(<<>>, CallBump("f")), Bump("f", 1)>>}
Copying == {<<Twice(Passing, CallCopier("s", "f", A), <<>>), Copier("f")>>,
            <<Twice(Passing, CallCopier("s", "f", A), CallCopier("t", "f", Called("s"))), Copier("f")>>,
            <<Either(Passing, CallCopier("s", "f", A), CallCopier("t", "f", B)), Copier("f")>>,
            <<Repeated(Passing, CallCopier("s", "f", N)), Copier("f")>>}
(* Written in Venom: a phi takes what the call in one branch returns. *)
Chosen(body) ==
  {<<Function(<<"main", "then", "else", "exit">>,
     "main" :> Words \o Zeroed \o Branch(B, "then", "else")
     @@ "then" :> Buffer \o CallTaker("s", "f", P, A) \o Jump("exit")
     @@ "else" :> <<<<"add", M, <<Lit(2), A>>>>>> \o Jump("exit")
     @@ "exit" :> <<<<"phi", N, <<Lab("then"), Called("s"), Lab("else"), M>>>>, <<"mstore", NoOutput, <<N, H(0)>>>>>> \o Result4),
     F(body)>>}
Choosing == Chosen(AddOneUnless0) \union Chosen(Count)
Calling == Choosing \union Taking(AddOne) \union Taking(Count) \union Taking(AddOneUnless0) \union Chains \union Bumping \union Copying

Compact == Alone(Brevities) \union Calling
Small == Alone(Control \union Expressions \union Tests \union InSequence \union InBranches \union Behinds) \union Calling

---------------------------------------------------------------------------
(***************************************************************************)
(* The pipeline on functions that are written in Venom itself              *)
(* (cli/venom_main.py reads them), of shapes that ir_node_to_venom does    *)
(* not make, and on three that it makes of ordinary statements.            *)
(***************************************************************************)

(* x[a][IMMUTABLE] = y[b], for two hash maps *)
HashIn(slot, out, key) == <<<<"sha3_64", out, <<key, slot>>>>>>
ScratchHash ==
  {<<Function(<<"main">>,
     "main" :> Words \o HashIn(Lit(1), G(1), A) \o <<<<"dload", X, <<Lit(n)>>>>>> \o HashIn(Lit(0), G(2), B)
            \o <<<<"sload", V, <<G(2)>>>>>> \o HashIn(G(1), G(3), X) \o <<<<"sstore", NoOutput, <<V, G(3)>>>>>> \o Stop)>> : n \in {0, 4}}

(* v = max_value - n, stored twice *)
SharedLiteral ==
  {<<Function(<<"main">>,
     "main" :> Words \o <<<<"sub", V, <<Lit(n), Lit(MaxWord)>>>>, <<"sstore", NoOutput, <<V, A>>>>,
                          <<"add", U("n"), <<Lit(1), A>>>>, <<"sstore", NoOutput, <<V, U("n")>>>>>> \o Stop)>> : n \in {1, 2}}

(* A loop with two exits, whose exit is listed first. *)
LoopPhis ==
  {<<Function(<<"main", "exit", "head", "body", "then", "merge", "latch">>,
     "main" :> <<<<"calldataload", X, <<Lit(0)>>>>, <<"calldataload", B, <<Lit(4)>>>>>> \o Jump("head")
     @@ "exit" :> <<<<"phi", T("r"), <<Lab("head"), N, Lab("merge"), M>>>>,
                    <<"sstore", NoOutput, <<T("r"), Lit(0)>>>>>> \o Stop
     @@ "head" :> <<<<"phi", N, <<Lab("main"), X, Lab("latch"), M>>>>, <<"lt", T("k"), <<Lit(2), N>>>>>>
                  \o Branch(T("k"), "body", "exit")
     @@ "body" :> <<<<"eq", T("j"), <<N, Lit(j)>>>>>> \o Branch(T("j"), "then", "merge")
     @@ "then" :> <<<<"log", NoOutput, <<Lit(0), Lit(0), Lit(0)>>>>>> \o Jump("merge")
     @@ "merge" :> <<<<"phi", M, <<Lab("body"), N, Lab("then"), B>>>>, <<"eq", T("q"), <<Lit(3), M>>>>>>
                   \o Branch(T("q"), "latch", "exit")
     @@ "latch" :> <<<<"log", NoOutput, <<Lit(1), Lit(2), Lit(0), Lit(0)>>>>>> \o Jump("head"))>> : j \in {0, 1}}

(* if c: t = 1 (t is not used) else: v += a *)
DeadBranch ==
  {<<Function(<<"main", "then", "else", "exit">>,
     "main" :> Start \o c \o Branch(T("c"), "then", "else")
     @@ "then" :> Local("s") \o Jump("exit")
     @@ "else" :> IncMem("t") \o Jump("exit")
     @@ "exit" :> Finish)>> : c \in Conditions("c")}
=============================================================================
