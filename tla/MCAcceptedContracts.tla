------------------------- MODULE MCAcceptedContracts -------------------------
(* Contracts of a few declarations, alone or with up to three modules. *)
EXTENDS AcceptedContracts

RECURSIVE Size(_), Lines(_, _, _, _)

(* Declarations and statements; what does not apply is empty. *)
Import(m) == [d |-> "import", name |-> m, of |-> m]
Type(name, needs) == [d |-> "type", name |-> name, needs |-> needs]
Uses(paths) == [d |-> "uses", paths |-> paths]
Initializes(path, with) == [d |-> "initializes", path |-> path, with |-> with]
Exports(paths) == [d |-> "exports", paths |-> paths]
Variable(name, location, public, needs) ==
  [d |-> "variable", name |-> name, location |-> location, public |-> public, needs |-> needs, arrays |-> {}, nonreentrant |-> FALSE,
   mutability |-> "view", visibility |-> IF public THEN "external" ELSE "none", params |-> <<>>, result |-> TRUE, body |-> <<>>]
Storage(name) == Variable(name, "storage", FALSE, {})
Holding(d, array) == [d EXCEPT !.arrays = {array}]

(* A statement is given with its blocks, which Lines writes out.  loop is  *)
(* where the loop around ends, end where the block does.                   *)
S(s) == [s |-> s, to |-> <<>>, value |-> <<>>, body |-> <<>>, orelse |-> <<>>, name |-> "", over |-> <<>>, mutability |-> "",
         given |-> FALSE, arrays |-> {}, until |-> 0, mate |-> 0]
Size(body) ==
  IF body = <<>> THEN 0
  ELSE Size(Tail(body)) + Size(body[1].body) + Size(body[1].orelse)
       + (CASE body[1].s = "for" -> 2 [] body[1].s = "if" -> IF body[1].orelse = <<>> THEN 2 ELSE 3 [] OTHER -> 1)
Mark(s, until, mate) == [S(s) EXCEPT !.until = until, !.mate = mate]
Line(x, until) == [x EXCEPT !.until = until, !.body = <<>>, !.orelse = <<>>]
LinesOf(x, at, end, loop) ==
  LET close == at + Size(x.body) + 1
      last == close + Size(x.orelse) + 1
  IN CASE x.s = "if" /\ x.orelse = <<>> -> <<Line(x, close)>> \o Lines(x.body, at + 1, close, loop) \o <<Mark("endif", 0, 0)>>
       [] x.s = "if" /\ x.orelse # <<>> -> <<Line(x, close)>> \o Lines(x.body, at + 1, close, loop) \o <<Mark("else", last, 0)>>
                                          \o Lines(x.orelse, close + 1, last, loop) \o <<Mark("endif", 0, close)>>
       [] x.s = "for" -> <<Line(x, close)>> \o Lines(x.body, at + 1, close, close) \o <<Mark("endfor", 0, at)>>
       [] x.s = "declare" -> <<Line(x, end)>>
       [] x.s \in Jumps -> <<Line(x, loop)>>
       [] OTHER -> <<x>>
Lines(body, at, end, loop) ==
  IF body = <<>> THEN <<>>
  ELSE LinesOf(body[1], at, end, loop) \o Lines(Tail(body), at + Size(<<body[1]>>), end, loop)

Function(name, visibility, mutability, body) ==
  [d |-> "function", name |-> name, location |-> "none", public |-> FALSE, needs |-> {}, nonreentrant |-> FALSE,
   mutability |-> mutability, visibility |-> visibility, params |-> <<>>, result |-> FALSE, body |-> Lines(body, 1, Size(body) + 1, 0)]
Param(name, arrays) == [s |-> "param", name |-> name, arrays |-> arrays]
External(body) == Function("f", "external", "nonpayable", body)
Internal(body) == Function("g", "internal", "nonpayable", body)
Init_(body) == Function(Constructor, "deploy", "nonpayable", body)

Read(path) == [S("read") EXCEPT !.to = path]
Pop(path) == [S("pop") EXCEPT !.to = path]
CallTo(path) == [S("call") EXCEPT !.to = path]
External_(mutability) == [S("outside") EXCEPT !.mutability = mutability]
Declare(name, value) == [S("declare") EXCEPT !.name = name, !.value = value]
Array(name) == [S("declare") EXCEPT !.name = name, !.arrays = {<<>>}]
Assign(path, value) == [S("assign") EXCEPT !.to = path, !.value = value]
Appends(path) == [S("append") EXCEPT !.to = path]
Do(value) == [S("expr") EXCEPT !.value = value]
If(body, orelse) == [S("if") EXCEPT !.body = body, !.orelse = orelse]
For(over, body) == [S("for") EXCEPT !.name = "i", !.over = over, !.body = body]
ReturnOf(value) == [S("return") EXCEPT !.value = value, !.given = TRUE]
ReturnNone == S("return")

Alone(decls) == Main :> decls

---------------------------------------------------------------------------
(* What a function may do, itself, in one that it calls or in a module. *)
Effects == {<<Assign(<<"self", "x">>, <<>>)>>, <<Declare("v", <<Read(<<"self", "x">>)>>)>>, <<Appends(<<"self", "arr">>)>>,
            <<Declare("v", <<Pop(<<"self", "arr">>)>>)>>, <<Assign(<<"self", "t", Item>>, <<>>)>>, <<S("log")>>,
            <<Do(<<External_("nonpayable")>>)>>, <<Declare("v", <<External_("view")>>)>>, <<Declare("v", <<Read(<<"Y">>)>>)>>,
            <<If(<<Assign(<<"self", "x">>, <<>>)>>, <<>>)>>}
Everywhere == <<Storage("x"), Holding(Storage("arr"), <<>>), Variable("t", "transient", FALSE, {}), Variable("Y", "constant", FALSE, {})>>
Promises ==
  {Alone(Everywhere \o <<Function("f", "external", mut, <<Do(<<CallTo(<<"self", "g">>)>>)>>), Function("g", "internal", below, effect)>>) :
     mut \in Mutabilities, below \in Mutabilities, effect \in Effects}
  \union {"lib" :> Everywhere \o <<Function("g", "internal", below, effect)>>
          @@ Main :> <<Import("lib"), Initializes(<<"lib">>, <<>>),
                       Function("f", "external", mut, <<Do(<<CallTo(<<"lib", "g">>)>>)>>)>> :
            mut \in {"pure", "view", "nonpayable"}, below \in {"view", "nonpayable"}, effect \in Effects}

---------------------------------------------------------------------------
(* A loop over a part of a variable, and what is written meanwhile. *)
Lists == {<<"self", "s", "a">>, <<"self", "m", Item>>, <<"self", "arr">>, <<"self", "n", Item, "a">>, <<"xs">>}
WrittenPaths == {<<"self", "s">>, <<"self", "s", "b">>, <<"self", "s", "a", Item>>, <<"self", "m", Item, Item>>, <<"self", "m">>,
            <<"self", "arr", Item>>, <<"self", "n", Item, "b">>, <<"self", "n", Item>>, <<"xs">>, <<"xs", Item>>, <<"i">>}
Arrays == <<Holding(Storage("s"), <<"a">>), Holding(Storage("m"), <<Item>>), Holding(Storage("n"), <<Item, "a">>), Holding(Storage("arr"), <<>>)>>
Looping ==
  {Alone(Arrays \o <<External(<<Array("xs"), For(over, <<If(<<Assign(path, <<>>)>>, <<jump>>)>>)>>)>>) :
     over \in Lists, path \in WrittenPaths, jump \in {S("break"), S("continue")}}
  \union {Alone(Arrays \o <<External(<<Array("xs"), For(over, <<For(<<>>, <<Do(<<CallTo(<<"self", "g">>)>>)>>)>>)>>),
                              Function("g", "internal", "nonpayable", <<Assign(path, <<>>)>>)>>) :
            over \in Lists, path \in {w \in WrittenPaths : w[1] = "self"}}
  \union {Alone(<<External(<<>>),
                  [Function("g", visibility, "nonpayable", <<For(<<"xs">>, <<act>>), ReturnNone>>) EXCEPT !.params = <<Param("xs", {<<>>})>>]>>) :
            visibility \in {"internal", "external"},
            act \in {Declare("v", <<Read(<<"xs", Item>>)>>)} \union {Assign(path, <<>>) : path \in {<<"xs">>, <<"xs", Item>>, <<"i">>}}}
  \union {"lib" :> Arrays \o <<Internal(<<Appends(path)>>)>>
          @@ Main :> <<Import("lib"), Initializes(<<"lib">>, <<>>),
                       External(<<For(over, <<Do(<<CallTo(<<"lib", "g">>)>>)>>)>>)>> :
            over \in {<<"lib", "s", "a">>, <<"lib", "arr">>}, path \in {<<"self", "s", "a">>, <<"self", "arr">>, <<"self", "s", "b">>}}

---------------------------------------------------------------------------
(* A contract that imports lib1 and lib2, where lib1 imports lib2, and what *)
(* each declares of the other.                                             *)
Lib2 == <<Variable("x", "storage", TRUE, {}), Init_(<<Assign(<<"self", "x">>, <<>>)>>), Internal(<<Assign(<<"self", "x">>, <<>>)>>)>>
Owns(how, path, with) == CASE how = "none" -> <<>> [] how = "uses" -> <<Uses(<<path>>)>> [] how = "initializes" -> <<Initializes(path, with)>>
CallingInit(mods) == [k \in DOMAIN mods |-> Do(<<CallTo(<<mods[k], Constructor>>)>>)]
Lib1(how, touches) ==
  <<Import("lib2")>> \o Owns(how, <<"lib2">>, <<>>)
  \o <<Storage("y"),
       Init_((IF how = "initializes" THEN CallingInit(<<"lib2">>) ELSE <<>>) \o <<Assign(<<"self", "y">>, <<>>)>>),
       Internal(IF touches THEN <<Do(<<CallTo(<<"lib2", "g">>)>>)>> ELSE <<Assign(<<"self", "y">>, <<>>)>>)>>
With(given) == IF given THEN <<[lhs |-> <<"lib2">>, rhs |-> <<"lib2">>]>> ELSE <<>>
Constructors == {CallingInit(<<>>), CallingInit(<<"lib1">>), CallingInit(<<"lib2", "lib1">>), CallingInit(<<"lib1", "lib1">>)}
Uncertain == {<<For(<<>>, CallingInit(<<"lib1">>))>> \o CallingInit(<<"lib2">>), <<If(CallingInit(<<"lib1">>), <<>>)>> \o CallingInit(<<"lib2">>),
              <<If(<<ReturnNone>>, <<>>)>> \o CallingInit(<<"lib1", "lib2">>)}
Graph(of1, given, of2, by1, touches, body, f, exports) ==
  "lib2" :> Lib2 @@ "lib1" :> Lib1(by1, touches)
  @@ Main :> <<Import("lib1"), Import("lib2")>> \o Owns(of1, <<"lib1">>, With(given)) \o Owns(of2, <<"lib2">>, <<>>)
             \o exports \o <<Init_(body), External(f)>>
Owning == {"none", "uses", "initializes"}
Owned ==
  {Graph(of1, given, of2, by1, touches, body, <<Do(<<CallTo(<<"lib1", "g">>)>>)>>, <<>>) :
     of1 \in {"none", "initializes"}, given \in BOOLEAN, of2 \in Owning, by1 \in Owning, touches \in BOOLEAN, body \in Constructors}
  \union {Graph("initializes", TRUE, "initializes", "uses", TRUE, body, f, exports) :
            body \in {CallingInit(<<"lib2", "lib1">>), CallingInit(<<"lib2">>)} \union Uncertain,
            f \in {<<Assign(<<"lib2", "x">>, <<>>)>>, <<Assign(<<"lib1", "lib2", "x">>, <<>>)>>, <<Declare("lib1", <<>>)>>},
            exports \in {<<>>, <<Exports(<<<<"lib2", "x">>>>)>>, <<Exports(<<<<"lib2", "g">>>>)>>, <<Exports(<<<<"lib2", "x">>, <<"lib2", "x">>>>)>>}}
  \union {"lib2" :> Append(Lib2, [Function("h", "internal", "view", <<>>) EXCEPT !.nonreentrant = TRUE])
          @@ "lib1" :> <<Import("lib2")>> \o Owns(by1, <<"lib2">>, <<>>)
          @@ Main :> <<Import("lib1")>> \o Owns(of1, <<"lib1">>, <<>>) \o Owns(of2, <<"lib1", "lib2">>, <<>>)
                     \o <<Init_(IF of2 = "initializes" THEN <<Do(<<CallTo(<<"lib1", "lib2", Constructor>>)>>)>> ELSE <<>>),
                          [External(f) EXCEPT !.nonreentrant = locked]>> :
            of1 \in Owning, of2 \in Owning, by1 \in {"none", "uses"}, locked \in BOOLEAN,
            f \in {<<Do(<<CallTo(<<"lib1", "lib2", "g">>)>>)>>, <<Do(<<CallTo(<<"lib1", "lib2", "h">>)>>)>>,
                  <<Assign(<<"lib1", "lib2", "x">>, <<>>)>>}}
  \union {"lib1" :> <<>> @@ "lib2" :> Lib2
          @@ Main :> <<Import("lib2")>> \o own \o <<Init_(body)>> \o use :
            own \in {<<>>, <<Initializes(<<"lib2">>, <<>>)>>, <<Uses(<<<<"lib2">>>>)>>}, body \in {<<>>, CallingInit(<<"lib2">>)},
            use \in {<<>>, <<Exports(<<<<"lib2", "x">>>>)>>}}
  \union {"lib2" :> <<Storage("x")>> @@ "lib1" :> <<Import("lib2")>> \o Owns(by1, <<"lib2">>, <<>>)
          @@ "lib3" :> <<Import("lib1")>> \o Owns(by3, <<"lib1", "lib2">>, <<>>)
          @@ Main :> <<Import("lib1"), Import("lib3"), Initializes(<<"lib1">>, <<>>), External(<<Assign(<<"lib1", "lib2", "x">>, <<>>)>>)>> :
            by1 \in Owning, by3 \in Owning}

---------------------------------------------------------------------------
(* Scopes and returns, imports that lead nowhere, and declarations that    *)
(* need others.                                                            *)
Block == {<<>>, <<Declare("v", <<>>)>>, <<ReturnOf(<<Read(<<"v">>)>>)>>, <<Declare("w", <<>>), ReturnOf(<<Read(<<"w">>)>>)>>, <<S("raise")>>,
          <<Assign(<<"v">>, <<>>)>>}
Bodies == {before \o <<If(a, b)>> \o after : before \in {<<>>, <<Declare("v", <<>>)>>}, a \in Block, b \in Block, after \in Block}
          \union {<<Declare("v", <<>>), For(<<>>, a)>> \o after : a \in Block, after \in Block}
Scopes == {Alone(<<[External(body) EXCEPT !.result = TRUE, !.params = <<Param("p", {})>>]>>) : body \in Bodies}
Importing ==
  {"lib1" :> [k \in DOMAIN a |-> Import(a[k])] @@ "lib2" :> [k \in DOMAIN b |-> Import(b[k])]
   @@ Main :> [k \in DOMAIN c |-> Import(c[k])] \o <<External(<<>>)>> :
     a \in {<<>>, <<"lib2">>, <<"lib1">>}, b \in {<<>>, <<"lib1">>, <<"gone">>}, c \in {<<"lib1">>, <<"lib1", "lib2">>, <<"lib2", "lib2">>}}
Needing ==
  {Alone(<<Type("A", a), Variable("B", where, FALSE, b), Variable("C", "constant", TRUE, c), Type("D", {}),
           [External(<<Declare(name, <<>>)>>) EXCEPT !.name = fname],
           Init_(IF sets THEN <<Assign(<<"B">>, <<>>)>> ELSE <<>>)>>) :
     a \in {{}, {"D"}, {"A"}}, b \in {{"A"}, {"C"}}, c \in {{}, {"B"}, {"D"}}, where \in {"code", "storage", "constant"},
     name \in {"B", "v"}, fname \in {"f", "B", "C"}, sets \in BOOLEAN}

MCPrograms == Promises \union Looping \union Owned \union Scopes \union Importing \union Needing
=============================================================================
