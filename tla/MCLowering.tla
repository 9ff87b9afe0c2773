------------------------------- MODULE MCLowering -------------------------------
(***************************************************************************)
(* Programs for the lowering, on both machines, against what they mean:    *)
(* every way out of nested scopes and loops, matches, `?`, drop glue,      *)
(* methods, names, and the limits of the interpreter.  D is a resource     *)
(* with an id, dropped by the user's drop, which notes the id; make(n)     *)
(* makes the one with id n.  Pair owns two and has no drop of its own,     *)
(* Guard owns one and has one.                                             *)
(***************************************************************************)
EXTENDS SourceMeaning

MCFields == ("D" :> <<"int">>) @@ ("Pair" :> <<"D", "D">>) @@ ("Guard" :> <<"D", "int">>)
            @@ ("Iter" :> <<"int", "int">>) @@ ("Cell" :> <<"int">>) @@ ("Two" :> <<"int", "int">>)
            @@ ("Deep" :> <<"int", "Two">>)
MCPayloads == ("Option" :> <<"D", "void">>) @@ ("Res" :> <<"int", "int">>) @@ ("Flow" :> <<"int", "int">>)
              @@ ("Shape" :> <<"int", "int", "int">>)
MCUserDrop == {"D", "Guard", "Iter"}
MCPointee == ("&D" :> "D") @@ ("&Guard" :> "Guard") @@ ("&Iter" :> "Iter") @@ ("&Cell" :> "Cell") @@ ("&self" :> "D")
Named(name, ty, i) == [names |-> {name}, of |-> ty, index |-> i]
MCVariantSymbols ==
  << Named("Some", "Option", 0), Named("None", "Option", 1), Named("Ok", "Res", 0), Named("Err", "Res", 1),
     Named("Break", "Flow", 0), Named("Continue", "Flow", 1),
     Named("Dot", "Shape", 0), Named("Line", "Shape", 1), Named("Box", "Shape", 2) >>
MCObserved == {"make", "note", "tick", "guard", "unguard", "upto", "end"}

V(x) == Var(x)
N(n) == Number(n)
Fn(params, ret, items, tail) == [params |-> params, ret |-> ret, body |-> Block(items, tail)]
Set(x, e) == Do(Assign("set", V(x), e))
Tick(e) == Do(Call(<<"tick">>, <<e>>))
Make(n) == Call(<<"make">>, <<N(n)>>)
Eat(x) == Do(Call(<<"eat">>, <<V(x)>>))
LetIs(x, e) == Let(Name(x), e)
Self(i) == Member(V("self"), i)
IsEq(x, n) == Binary("eq", V(x), N(n))
When(c, items) == If(c, Block(items, Nil), Nil)

MCLibrary ==
  ("make" :> Fn(<< <<"n", "int">> >>, "D", <<>>, Aggregate("D", <<V("n")>>)))
  @@ ("note" :> Fn(<< <<"n", "int">> >>, "void", <<>>, Nil))
  @@ ("tick" :> Fn(<< <<"n", "int">> >>, "int", <<>>, V("n")))
  @@ ("unguard" :> Fn(<< <<"n", "int">> >>, "void", <<>>, Nil))
  @@ ("end" :> Fn(<< <<"n", "int">> >>, "void", <<>>, Nil))
  @@ ("eat" :> Fn(<< <<"d", "D">> >>, "int", <<>>, Member(V("d"), 1)))
  @@ ("peek" :> Fn(<< <<"of", "&D">> >>, "int", <<>>, Member(V("of"), 1)))
  @@ ("guard" :> Fn(<< <<"n", "int">>, <<"d", "D">> >>, "Guard", <<>>, Aggregate("Guard", <<V("d"), V("n")>>)))
  @@ ("bump" :> Fn(<< <<"cell", "&Cell">>, <<"n", "int">> >>, "int",
                   <<Do(Assign("set", Member(V("cell"), 1), Binary("add", Member(V("cell"), 1), V("n"))))>>,
                   Member(V("cell"), 1)))
  @@ ("drop_D" :> Fn(<< <<"self", "&D">> >>, "void", <<Do(Call(<<"note">>, <<Self(1)>>))>>, Nil))
  @@ ("drop_Guard" :> Fn(<< <<"guarded", "&Guard">> >>, "void",
                         <<Do(Call(<<"unguard">>, <<Member(V("guarded"), 2)>>))>>, Nil))
  @@ ("drop_Iter" :> Fn(<< <<"iter", "&Iter">> >>, "void", <<Do(Call(<<"end">>, <<Member(V("iter"), 2)>>))>>, Nil))
  @@ ("upto" :> Fn(<< <<"n", "int">> >>, "Iter", <<>>, Aggregate("Iter", <<N(0), V("n")>>)))
  @@ ("into_iter" :> Fn(<< <<"it", "Iter">> >>, "Iter", <<>>, V("it")))
  @@ ("next" :> Fn(<< <<"iter", "&Iter">> >>, "Option",
        <<When(Binary("lt", Member(V("iter"), 1), Member(V("iter"), 2)),
            <<Do(Assign("set", Member(V("iter"), 1), Binary("add", Member(V("iter"), 1), N(1)))),
              Return(Variant("Option", 0, <<Call(<<"make">>, <<Member(V("iter"), 1)>>)>>))>>)>>,
        Variant("Option", 1, <<>>)))
  @@ ("branch" :> Fn(<< <<"r", "Res">> >>, "Flow", <<>>,
        Match("Flow", V("r"), << Arm(EnumPat("Ok", <<Name("good")>>), Do(Variant("Flow", 1, <<V("good")>>))),
                                 Arm(EnumPat("Err", <<Name("bad")>>), Do(Variant("Flow", 0, <<V("bad")>>))) >>)))
  @@ ("from_residual" :> Fn(<< <<"n", "int">> >>, "Res", <<>>, Variant("Res", 1, <<V("n")>>)))
  @@ ("test" :> Fn(<< <<"n", "int">> >>, "Res",
        <<When(Binary("lt", V("n"), N(2)), <<Return(Variant("Res", 0, <<V("n")>>))>>)>>, Variant("Res", 1, <<V("n")>>)))

Vars == [x \in {"a", "b", "c", "d", "e", "it"} |-> IF x = "it" THEN "Iter" ELSE "D"]
        @@ [x \in {"i", "j", "n", "good", "bad", "k", "f"} |-> "int"]
        @@ ("self" :> "&D") @@ ("of" :> "&D") @@ ("guarded" :> "&Guard") @@ ("iter" :> "&Iter") @@ ("cell" :> "&Cell")
        @@ ("r" :> "Res") @@ ("p" :> "Pair") @@ ("g" :> "Guard") @@ ("at" :> "Cell") @@ ("arr" :> "Two")
        @@ ("o" :> "Option") @@ ("s" :> "Shape") @@ ("deep" :> "Deep") @@ ("two" :> "Two")

\* An entry: the machines it is for, and whether the meaning of it is all the generator means it to be.
Start(kind, targets, ret, items, tail) ==
  [fn |-> Fn(<< <<"n", "int">> >>, ret, items, tail), targets |-> targets, kind |-> kind]
Native(items, tail) == Start("clean", {"native"}, "int", items, tail)
Pure(items, tail) == Start("clean", {"native", "comptime"}, "int", items, tail)

\* Scopes: leaving one, two or all of them, early or at the end.
Nested(exit) ==
  Native(<<LetIs("a", Make(1)),
           While(Binary("lt", V("n"), N(3)),
             Block(<<LetIs("b", Make(2)),
                     Block(<<LetIs("c", Make(3)), Set("n", Binary("add", V("n"), N(1))), When(IsEq("n", 2), exit)>>, Nil),
                     LetIs("d", Make(4)), Tick(V("n"))>>, Nil)),
           LetIs("e", Make(5))>>, V("n"))
ScopeStarts ==
  ("break" :> Nested(<<Break>>))
  @@ ("continue" :> Nested(<<Continue>>))
  @@ ("return" :> Nested(<<Return(V("n"))>>))
  @@ ("move then return" :> Nested(<<Eat("a"), Return(N(7))>>))
  @@ ("nested" :> Nested(<<>>))
  @@ ("for" :>
     Native(<<For(LetIs("i", N(0)), Binary("lt", V("i"), N(3)), Assign("set", V("i"), Binary("add", V("i"), N(1))),
                  Block(<<LetIs("a", Make(1)), If(Binary("eq", V("i"), V("n")), Block(<<LetIs("b", Make(2)), Continue>>, Nil),
                          Block(<<LetIs("c", Make(3)), When(IsEq("i", 2), <<Break>>)>>, Nil)), Tick(V("i"))>>, Nil))>>, V("n")))
  @@ ("range" :>
     Native(<<LetIs("a", Make(9)),
              ForRange("i", V("n"), N(3), Block(<<LetIs("b", Call(<<"make">>, <<V("i")>>)),
                  When(IsEq("i", 1), <<Continue>>), When(IsEq("i", 2), <<Return(Call(<<"peek">>, <<Ref(V("b"))>>))>>)>>, Nil))>>, N(8)))
  @@ ("for each" :>
     Native(<<ForEach(Name("a"), Call(<<"upto">>, <<N(3)>>),
                Block(<<LetIs("b", Make(7)),
                        When(Binary("eq", Member(V("a"), 1), V("n")), <<Break>>),
                        When(Binary("eq", Member(V("a"), 1), N(1)), <<Continue>>),
                        When(Binary("eq", Member(V("a"), 1), N(3)), <<Return(Member(V("a"), 1))>>),
                        Tick(N(5))>>, Nil)),
              LetIs("c", Make(6))>>, V("n")))

\* Owners: moves into calls, results, glue, parameters, payloads; `?` with owners alive; receivers by reference.
OwnerStarts ==
  ("glue" :>
     Native(<<LetIs("a", Make(1)), LetIs("p", Aggregate("Pair", <<V("a"), Make(2)>>)),
              LetIs("g", Call(<<"guard">>, <<N(4), Make(3)>>)), When(IsEq("n", 1), <<Return(N(1))>>)>>,
            Member(V("g"), 2)))
  @@ ("parameters" :>
     Native(<<LetIs("b", Call(<<"pick">>, <<V("n"), Make(1), Make(2)>>)), Tick(Member(V("b"), 1))>>, N(0)))
  @@ ("payload" :>
     Native(<<LetIs("o", Variant("Option", 0, <<Make(1)>>)), LetIs("e", Make(3))>>,
            Match("int", V("o"), << Arm(EnumPat("Some", <<Name("c")>>),
                                        Block(<<LetIs("d", Make(2)), When(IsEq("n", 1), <<Return(N(4))>>)>>, Member(V("c"), 1))),
                                    Arm(EnumPat("None", <<>>), Do(N(0))) >>)))
  @@ ("try" :>
     Start("clean", {"native"}, "Res",
           <<LetIs("a", Make(1)), LetIs("i", Try(Call(<<"test">>, <<V("n")>>))), LetIs("b", Make(2)),
             Tick(V("i")), LetIs("j", Try(Call(<<"test">>, <<Binary("add", V("i"), N(1))>>)))>>,
           Variant("Res", 0, <<Binary("add", V("i"), V("j"))>>)))
  @@ ("receiver" :>
     Native(<<LetIs("a", Make(1)), LetIs("at", Aggregate("Cell", <<V("n")>>)),
              LetIs("i", MethodCall(V("at"), "bump", <<Call(<<"tick">>, <<N(5)>>)>>)),
              Tick(MethodCall(V("a"), "peek", <<>>)), Tick(Member(V("at"), 1))>>, V("i")))

\* Values only: most are for both machines.
Shapes(e) ==
  Match("int", e, << Arm(EnumPat("Dot", <<Literal(N(0))>>), Do(N(10))),
                     Arm(EnumPat("Dot", <<Name("i")>>), Block(<<When(IsEq("i", 1), <<Return(N(11))>>)>>, V("i"))),
                     Arm(EnumPat("Line", <<Wild>>), Do(N(12))),
                     Arm(Wild, Do(N(13))) >>)
ValueStarts ==
  ("loop" :>
     Pure(<<LetIs("i", N(0)), LetIs("j", N(0)),
            While(Binary("lt", V("i"), N(4)), Block(<<Set("i", Binary("add", V("i"), N(1))),
                When(Binary("eq", V("i"), V("n")), <<Continue>>), When(IsEq("i", 3), <<Break>>),
                Set("j", Binary("add", V("j"), V("i")))>>, Nil))>>, V("j")))
  @@ ("short circuit" :>
     Pure(<<When(Logic("and", Binary("gt", V("n"), N(0)), Binary("eq", Binary("div", N(4), V("n")), N(2))), <<Return(N(1))>>),
            When(Logic("or", IsEq("n", 1), Binary("eq", Call(<<"tick">>, <<N(3)>>), V("n"))), <<Return(N(2))>>)>>, N(3)))
  @@ ("patterns" :> Start("clean", {"native"}, "int", <<>>, Shapes(Variant("Shape", 0, <<V("n")>>))))
  @@ ("other patterns" :> Start("clean", {"native"}, "int", <<>>, Shapes(Variant("Shape", 1, <<V("n")>>))))
  @@ ("literals" :>
     Pure(<<>>, Match("int", V("n"), << Arm(Literal(N(0)), Do(Call(<<"tick">>, <<N(4)>>))), Arm(Literal(N(2)), Do(N(5))),
                                        Arm(Name("k"), Do(Binary("mul", V("k"), N(6)))) >>)))
  @@ ("overflow" :>
     Pure(<<LetIs("i", Binary("mul", N(12), N(10))), LetIs("j", Binary("add", V("i"), Binary("mul", V("n"), N(5))))>>,
          Binary("rem", V("j"), N(7))))
  @@ ("division" :> Pure(<<LetIs("i", Binary("div", N(9), V("n")))>>, Neg(V("i"))))
  @@ ("recursion" :> Pure(<<>>, Call(<<"sum">>, <<Binary("mul", V("n"), N(2))>>)))
  @@ ("elements" :>
     Start("clean", {"native"}, "int",
           <<LetIs("arr", Aggregate("Two", <<N(3), N(4)>>)), Do(Assign("set", Index(V("arr"), N(0)), V("n")))>>,
           Index(V("arr"), V("n"))))

\* A loop without an instruction, from which nothing leads out.
IdleStarts ==
  "idle" :> Start("clean", {"comptime"}, "int",
                  <<When(IsEq("n", 1), <<Return(N(3))>>), While(Truth(TRUE), Block(<<>>, Nil))>>, V("n"))

\* What the machine stops, and what loses a value the generator does not look at.
OtherStarts ==
  ("endless" :> Start("clean", {"comptime"}, "int", <<While(Binary("eq", N(1), N(1)), Block(<<Set("n", N(1))>>, Nil))>>, V("n")))
  @@ IdleStarts
  @@ ("drop at compile time" :> Start("clean", {"comptime"}, "int", <<LetIs("a", Make(1))>>, V("n")))
  @@ ("lost" :>
     Start("leaky", {"native"}, "int",
           <<Do(Make(1)), LetIs("a", Make(2)), Set("a", Make(3)), LetIs("o", Variant("Option", 0, <<Make(4)>>))>>, V("n")))
  @@ ("lost in arguments" :>
     Start("leaky", {"native"}, "Res",
           <<LetIs("g", Call(<<"guard">>, <<N(5), Make(2)>>)), LetIs("p", Aggregate("Pair", <<Make(1), Call(<<"of_try">>, <<V("n")>>)>>))>>,
           Variant("Res", 0, <<Try(Call(<<"test">>, <<V("n")>>))>>)))
  @@ ("no arm" :>
     Start("leaky", {"native"}, "int", <<>>,
           Match("int", V("n"), << Arm(Literal(N(0)), Do(N(1))), Arm(Literal(N(1)), Do(N(2))) >>)))

\* Compound assignment and nested members: what a source program means and the machines do not do.
CompoundStarts ==
  "compound" :> Native(<<LetIs("i", N(40)), Do(Assign("add", V("i"), N(1))), Do(Assign("add", V("i"), N(1)))>>,
                       Binary("sub", V("i"), N(42)))
NestedMemberStarts ==
  "members" :> Start("clean", {"comptime"}, "int",
                     <<LetIs("deep", Aggregate("Deep", <<V("n"), Aggregate("Two", <<N(3), N(4)>>)>>))>>,
                     Member(Member(V("deep"), 2), 1))

Helpers ==
  ("pick" :> Fn(<< <<"k", "int">>, <<"c", "D">>, <<"d", "D">> >>, "D", <<When(IsEq("k", 1), <<Return(V("c"))>>)>>, V("d")))
  @@ ("of_try" :> Fn(<< <<"n", "int">> >>, "D", <<>>, Make(6)))
  @@ ("sum" :> Fn(<< <<"k", "int">> >>, "int", <<When(IsEq("k", 0), <<Return(N(0))>>)>>,
                  Binary("add", V("k"), Call(<<"sum">>, <<Binary("sub", V("k"), N(1))>>))))


\* Names.  A case is a program of its own with one start; Say(n) notes n, A(path) asks the function a path names.
Items(fns) == LET names == InSomeOrder(DOMAIN fns) IN [i \in DOMAIN names |-> FnItem(names[i], "private", fns[names[i]])]
Say(f, vis, n) == FnItem(f, vis, Fn(<<>>, "int", <<Tick(N(n))>>, N(n)))
Asking(f, vis, path) == FnItem(f, vis, Fn(<<>>, "int", <<>>, Call(path, <<>>)))
A(path) == Tick(Call(path, <<>>))
Provider(name, items) == [name |-> name, items |-> <<ImportItem("std")>> \o items]
Case(providers, items, stmts, tail) == [providers |-> providers, items |-> items, start |-> Native(stmts, tail)]
Body(stmts, tail) == Case(<<>>, <<>>, stmts, tail)
Inner(stmts) == Block(stmts, Nil)

VariableCases ==
  ("shadowing" :>
     Body(<<LetIs("i", Binary("add", V("n"), N(4))), LetIs("a", Make(1)),
            Inner(<<LetIs("i", Call(<<"tick">>, <<N(9)>>)), LetIs("a", Make(2)), LetIs("n", V("i")),
                    Inner(<<LetIs("a", Make(3)), Eat("a"), Tick(V("n"))>>), When(IsEq("i", 1), <<Return(N(0))>>)>>),
            ForRange("i", V("n"), N(2), Inner(<<LetIs("n", V("i")),
                Inner(<<LetIs("i", N(8)), When(IsEq("n", 1), <<Break>>), Tick(V("i"))>>)>>)),
            Tick(Match("int", V("n"), << Arm(Literal(N(0)), Do(V("i"))),
                                         Arm(Name("i"), Inner(<<Return(V("i"))>>)) >>)),
            Tick(Member(V("a"), 1))>>, Binary("add", V("i"), V("n"))))
  @@ ("siblings" :>
     Body(<<Inner(<<LetIs("i", N(1)), Tick(V("i"))>>), LetIs("j", Match("int", V("n"), <<Arm(Name("i"), Do(V("i")))>>)),
            ForEach(Name("a"), Call(<<"upto">>, <<V("n")>>), Inner(<<LetIs("i", Member(V("a"), 1)), Tick(V("i"))>>)),
            For(LetIs("i", N(0)), Binary("lt", V("i"), V("n")), Assign("set", V("i"), Binary("add", V("i"), N(1))), Inner(<<>>)),
            LetIs("i", V("j"))>>, V("i")))
  @@ ("used before" :> Body(<<LetIs("i", N(1)), Inner(<<Tick(V("i")), LetIs("i", N(2))>>)>>, V("i")))
  @@ ("own value" :> Body(<<LetIs("i", N(1)), Inner(<<LetIs("i", Binary("add", V("i"), N(1))), Tick(V("i"))>>)>>, V("i")))
  @@ ("own bound" :> Body(<<LetIs("i", N(2)), ForRange("i", N(0), V("i"), Inner(<<Tick(V("i"))>>))>>, V("i")))
  @@ ("own condition" :> Body(<<When(V("k"), <<>>), LetIs("k", N(1))>>, N(0)))
  @@ ("twice" :> Body(<<LetIs("i", N(1)), Inner(<<LetIs("j", N(1))>>), LetIs("i", N(2))>>, V("i")))
  @@ ("twice in a pattern" :>
     Body(<<>>, Match("int", Variant("Shape", 0, <<V("n")>>), <<Arm(Name("s"), Inner(<<LetIs("i", N(1)), LetIs("i", N(2))>>))>>)))
  @@ ("of another body" :> Case(<<>>, <<FnItem("other", "private", Fn(<<>>, "int", <<LetIs("i", N(1))>>, V("i")))>>, <<Tick(V("i"))>>, N(0)))
  @@ ("left behind" :> Body(<<Inner(<<LetIs("i", N(1))>>), Tick(V("i"))>>, N(0)))

\* m is opened twice; m::inner names what is around it, private or not, and what is imported.
ModuleCases ==
  ("modules" :>
     Case(<<>>, <<ModuleItem("m", "private", <<Say("f", "public", 1), Say("hidden", "private", 2),
                    ModuleItem("inner", "public", <<Asking("up", "public", <<"hidden">>), Asking("root", "public", <<"g">>),
                                                    Say("f", "internal", 3), Asking("own", "public", <<"f">>),
                                                    Asking("path", "public", <<"m", "hidden">>)>>)>>),
                  Say("g", "private", 4),
                  ModuleItem("m", "private", <<Asking("later", "public", <<"f">>), Say("note", "public", 5)>>),
                  ModuleItem("other", "private", <<Asking("far", "public", <<"m", "inner", "f">>)>>),
                  UsingItem(<<"m", "inner">>, "short"),
                  ModuleItem("uses", "private", <<UsingItem(<<"m">>, "short"), Asking("f", "public", <<"short", "f">>)>>)>>,
          <<A(<<"m", "f">>), A(<<"m", "inner", "up">>), A(<<"m", "inner", "root">>), A(<<"m", "inner", "own">>), A(<<"m", "later">>),
            A(<<"m", "inner", "path">>), A(<<"other", "far">>), A(<<"short", "up">>), A(<<"uses", "f">>), A(<<"m", "note">>), A(<<"g">>)>>, V("n")))
  @@ ("private" :> Case(<<>>, <<ModuleItem("m", "private", <<Say("f", "private", 1)>>)>>, <<A(<<"m", "f">>)>>, V("n")))
  @@ ("sibling's private" :>
     Case(<<>>, <<ModuleItem("m", "private", <<Say("f", "private", 1)>>),
                  ModuleItem("o", "private", <<Asking("f", "public", <<"m", "f">>)>>)>>, <<A(<<"o", "f">>)>>, V("n")))
  @@ ("private module" :>
     Case(<<>>, <<ModuleItem("m", "public", <<ModuleItem("inner", "private", <<Say("f", "public", 1)>>)>>)>>,
          <<A(<<"m", "inner", "f">>)>>, V("n")))
  @@ ("nowhere" :> Case(<<>>, <<ModuleItem("m", "private", <<Say("f", "public", 1)>>)>>, <<A(<<"m", "g">>)>>, V("n")))
  @@ ("not in the root" :> Case(<<>>, <<ModuleItem("m", "private", <<Say("f", "public", 1)>>)>>, <<A(<<"f">>)>>, V("n")))
  @@ ("no way up" :>
     Case(<<>>, <<ModuleItem("m", "private", <<ModuleItem("inner", "public", <<Say("f", "public", 1)>>)>>), Say("g", "public", 2)>>,
          <<A(<<"m", "inner", "g">>)>>, V("n")))
  @@ ("function twice" :>
     Case(<<>>, <<ModuleItem("m", "private", <<Say("f", "public", 1)>>), ModuleItem("m", "private", <<Say("f", "public", 2)>>)>>,
          <<A(<<"m", "f">>)>>, V("n")))
  @@ ("function and module" :>
     Case(<<>>, <<Say("m", "private", 1), ModuleItem("m", "private", <<Say("f", "public", 2)>>)>>, <<A(<<"m">>)>>, V("n")))
  @@ ("alias of nothing" :> Case(<<>>, <<UsingItem(<<"m">>, "x")>>, <<>>, V("n")))
  @@ ("alias twice" :>
     Case(<<>>, <<ModuleItem("m", "private", <<Say("f", "public", 1)>>), UsingItem(<<"m">>, "x"), Say("x", "private", 2)>>, <<>>, V("n")))
  @@ ("variable in the way" :>
     Case(<<>>, <<Say("f", "private", 1), ModuleItem("m", "private", <<Say("f", "public", 2)>>)>>,
          <<A(<<"f">>), A(<<"m", "f">>), Inner(<<LetIs("k", N(1)), Tick(V("k"))>>), Inner(<<LetIs("f", N(3)), A(<<"f">>)>>)>>, V("n")))

\* q imports p and adds to its namespace m.
P == Provider("p", <<Say("f", "public", 1), Say("own", "private", 2), Asking("g", "public", <<"own">>),
                     ModuleItem("m", "private", <<Say("f", "public", 3), Say("kept", "private", 4), Asking("h", "public", <<"kept">>)>>)>>)
Q == Provider("q", <<ImportItem("p"), Asking("k", "public", <<"g">>), ModuleItem("m", "public", <<Asking("added", "public", <<"f">>)>>)>>)
R == Provider("r", <<Say("f", "public", 8)>>)
ImportCases ==
  ("imports" :>
     Case(<<P, Q>>, <<ImportItem("p"), ImportItem("q"), ImportItem("p"), ModuleItem("m", "private", <<Asking("mine", "private", <<"added">>),
                                                                     Asking("calls", "public", <<"mine">>)>>)>>,
          <<A(<<"f">>), A(<<"g">>), A(<<"k">>), A(<<"m", "f">>), A(<<"m", "h">>), A(<<"m", "added">>), A(<<"m", "calls">>)>>, V("n")))
  @@ ("inside a module" :>
     Case(<<P, R>>, <<ModuleItem("x", "private", <<ImportItem("p"), Asking("g2", "public", <<"f">>)>>),
                      ModuleItem("y", "private", <<ImportItem("r"), Asking("g2", "public", <<"f">>)>>)>>,
          <<A(<<"x", "f">>), A(<<"x", "g2">>), A(<<"y", "g2">>)>>, V("n")))
  @@ ("private module of another" :>
     Case(<<P>>, <<ModuleItem("x", "private", <<ImportItem("p")>>)>>, <<A(<<"x", "m", "h">>)>>, V("n")))
  @@ ("not offered" :> Case(<<P>>, <<ImportItem("p")>>, <<A(<<"own">>)>>, V("n")))
  @@ ("not offered by its module" :> Case(<<P>>, <<ImportItem("p")>>, <<A(<<"m", "kept">>)>>, V("n")))
  @@ ("not imported" :> Case(<<P, Q>>, <<ImportItem("q")>>, <<A(<<"g">>)>>, V("n")))
  @@ ("not passed on" :> Case(<<P, Q>>, <<ImportItem("q")>>, <<A(<<"k">>), A(<<"m", "added">>), A(<<"m", "f">>)>>, V("n")))
  @@ ("only its own" :> Case(<<P, Q>>, <<ImportItem("q")>>, <<A(<<"k">>), A(<<"m", "added">>)>>, V("n")))
  @@ ("no namespace of its own" :> Case(<<P>>, <<ImportItem("p")>>, <<A(<<"p", "f">>)>>, V("n")))
  @@ ("conflict" :> Case(<<P, R>>, <<ImportItem("p"), ImportItem("r")>>, <<>>, V("n")))
  @@ ("conflict with its own" :> Case(<<R>>, <<ImportItem("r"), Say("f", "private", 1)>>, <<>>, V("n")))
  @@ ("conflict in a module" :>
     Case(<<P>>, <<ModuleItem("m", "private", <<Say("f", "private", 1)>>), ImportItem("p")>>, <<>>, V("n")))
  @@ ("conflict in a provider" :> Case(<<P, Provider("s", <<ImportItem("p"), Say("f", "public", 1)>>)>>, <<>>, <<>>, V("n")))
  @@ ("beside" :> Case(<<P, R>>, <<ImportItem("r"), ModuleItem("x", "private", <<ImportItem("p"), Asking("g2", "public", <<"f">>)>>)>>,
                       <<A(<<"f">>), A(<<"x", "g2">>)>>, V("n")))

Text(providers, items) ==
  LET names == InSomeOrder(DOMAIN MCLibrary)
      library == [i \in DOMAIN names |-> FnItem(names[i], "public", MCLibrary[names[i]])]
  IN [vars |-> Vars, providers |-> <<[name |-> "std", items |-> library]>> \o providers, items |-> <<ImportItem("std")>> \o items]
Chosen(starts, text) == [f \in DOMAIN starts |-> [text |-> text, targets |-> starts[f].targets, kind |-> starts[f].kind]]
Functions(starts) == [f \in DOMAIN starts |-> starts[f].fn]

MCCases == VariableCases @@ ModuleCases @@ ImportCases
MCPrograms == ("scopes" :> ScopeStarts) @@ ("owners" :> OwnerStarts) @@ ("values" :> ValueStarts) @@ ("others" :> OtherStarts)
Whole(starts) == Text(<<>>, Items(Functions(starts) @@ Helpers))
MCTexts ==
  [c \in DOMAIN MCCases |-> Text(MCCases[c].providers, MCCases[c].items \o <<FnItem(c, "private", MCCases[c].start.fn)>>)]
  @@ [p \in DOMAIN MCPrograms |-> Whole(MCPrograms[p])]
MCEntries ==
  [c \in DOMAIN MCCases |-> [text |-> c, targets |-> {"native"}, kind |-> "clean"]]
  @@ Chosen(ScopeStarts, "scopes") @@ Chosen(OwnerStarts, "owners")
  @@ Chosen(ValueStarts, "values") @@ Chosen(OtherStarts, "others")
IdleTexts == "main" :> Text(<<>>, Items(Functions(IdleStarts)))
IdleEntries == Chosen(IdleStarts, "main")

-----------------------------------------------------------------------------
(* What the machines are compared with.                                    *)

Meant == [f \in DOMAIN Entries |-> [n \in Inputs |-> Meaning(Texts[Entries[f].text], f, n)]]
Clean == Entries[entry].kind = "clean"

\* A compiled program makes, uses and drops what the source says, in that order, on every way out of its
\* scopes, and returns what the source says; optimising it changes neither.
NativeMatchesSource ==
  target = "native" /\ status = "done" /\ Clean
    => \A meant \in {Meant[entry][input]} : trace = meant.trace /\ meant.ctl = "go" /\ result = meant.val

\* A value computed at compile time is the one the program would compute when it runs, and no
\* integer left its width on the way to it.
ComptimeMatchesSource ==
  target = "comptime" /\ status = "done" => \A meant \in {Meant[entry][input]} : ~ meant.over /\ result = meant.val

\* Whatever program: nothing is dropped before it is made or more often than it is made.
Ends == ("note" :> "make") @@ ("unguard" :> "guard") @@ ("end" :> "upto")
Calls(f, n) == Cardinality({i \in DOMAIN trace : trace[i] = <<f, n>>})
NothingDroppedTwice ==
  \A i \in DOMAIN trace : trace[i][1] \in DOMAIN Ends => Calls(trace[i][1], trace[i][2]) <= Calls(Ends[trace[i][1]], trace[i][2])

\* No program the generator lowers reads a place before it is written or after it was given away, jumps
\* on what is no truth value, or is refused by the verifier, before or after the optimiser.
NothingGoneIsRead ==
  /\ target = "native" => status \notin {"gone", "uninitialised", "mismatch"}
  /\ status = "refused" => \A meant \in {Meant[entry][input]} : meant.ctl # "go"

(***************************************************************************)
(* What docs/phase16-comptime-plan.md promises of the step budget:         *)
(* evaluation at compile time ends, by a result or by a limit.             *)
(***************************************************************************)
EvaluationEnds == <>(~ Running)

(***************************************************************************)
(* What the limits of the interpreter achieve: evaluation at compile time  *)
(* ends, by a result or by a limit, unless it comes to a loop in whose     *)
(* blocks there is no instruction, the only thing that is counted.         *)
(***************************************************************************)
OnlyIdleLoopsGoOn == <>(~ Running) \/ <>[](Running /\ AtTerminator)
=============================================================================
