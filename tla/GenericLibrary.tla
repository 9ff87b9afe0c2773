----------------------------- MODULE GenericLibrary -----------------------------
(***************************************************************************)
(* The programs the front end is given: generic types, traits, their       *)
(* implementations and functions, implementations that may be added to     *)
(* them, and the mains that use them, some of them ill-typed.  A name      *)
(* stands for one declaration, except that type parameters may be written  *)
(* alike (MCSymbols); a field is named by its place.                       *)
(***************************************************************************)
EXTENDS SemanticTypes, TLC

Node(k, sym, n, tys, args) == [k |-> k, id |-> 0, sym |-> sym, n |-> n, tys |-> tys, args |-> args]
Lit(n) == Node("int", "", n, <<>>, <<>>)
Truth(n) == Node("bool", "", n, <<>>, <<>>)
V(x) == Node("var", x, 0, <<>>, <<>>)
FnAt(f, tys) == Node("fn", f, 0, tys, <<>>)
Variant(enum, n, tys) == Node("variant", enum, n, tys, <<>>)
Op(op, l, r) == Node("bin", op, 0, <<>>, <<l, r>>)
Minus(e) == Node("neg", "", 0, <<>>, <<e>>)
CallOf(callee, args) == Node("call", "", 0, <<>>, <<callee>> \o args)
Call(f, args) == CallOf(FnAt(f, <<>>), args)
CallAt(f, tys, args) == CallOf(FnAt(f, tys), args)
Some(e) == CallOf(Variant("Opt", 2, <<>>), <<e>>)
None == Variant("Opt", 1, <<>>)
Field(e, n) == Node("member", "", n, <<>>, <<e>>)
StructOf(struct, args) == Node("init", struct, 0, <<>>, args)
StructAt(struct, tys, args) == Node("init", struct, 0, tys, args)
TupleE(args) == Node("tuple", "", 0, <<>>, args)
ArrayE(args) == Node("array", "", 0, <<>>, args)
At(e, n) == Node("at", "", n, <<>>, <<e>>)
Index(e, i) == Node("index", "", 0, <<>>, <<e, i>>)
Method(e, m, args) == Node("method", m, 0, <<>>, <<e>> \o args)
MethodAt(e, m, tys, args) == Node("method", m, 0, tys, <<e>> \o args)
Borrow(e) == Node("ref", "", 0, <<>>, <<e>>)
BorrowRw(e) == Node("ref", "", 1, <<>>, <<e>>)
Deref1(e) == Node("deref", "", 0, <<>>, <<e>>)
AssignTo(l, r) == Node("assign", "", 0, <<>>, <<l, r>>)
Match(e, arms) == Node("match", "", 0, <<>>, <<e>> \o arms)
Arm(pat, e) == Node("arm", "", 0, <<>>, <<pat, Node("tail", "", 0, <<>>, <<e>>)>>)
PWild == Node("pwild", "", 0, <<>>, <<>>)
PBind(x) == Node("pbind", x, 0, <<>>, <<>>)
PBool(n) == Node("pbool", "", n, <<>>, <<>>)
PTuple(args) == Node("ptuple", "", 0, <<>>, args)
PStruct(s, args) == Node("pstruct", s, 0, <<>>, args)
PVariant(enum, n, args) == Node("pvariant", enum, n, <<>>, args)
PSome(p) == PVariant("Opt", 2, <<p>>)
PNone == PVariant("Opt", 1, <<>>)
Let(x, e) == Node("let", x, 0, <<>>, <<e>>)
LetTy(x, ty, e) == Node("let", x, 0, <<ty>>, <<e>>)
LetPat(p, e) == Node("let", "", 0, <<>>, <<e, p>>)
Ret(e) == Node("return", "", 0, <<>>, <<e>>)
Do(e) == Node("expr", "", 0, <<>>, <<e>>)
If(c, then) == Node("if", "", 0, <<>>, <<c, then>>)
While(c, body) == Node("while", "", 0, <<>>, <<c, body>>)
Break == Node("break", "", 0, <<>>, <<>>)
Block(items) == Node("block", "", 0, <<>>, items)

P(name) == Param(name)
A == P("A")
B == P("B")
PairOf(a, b) == Nominal("Pair", <<a, b>>)
WrapOf(t) == Nominal("Wrap", <<t>>)
OptOf(t) == Nominal("Opt", <<t>>)
BothOf(a, b) == Nominal("Both", <<a, b>>)
HolderOf(t) == Nominal("Holder", <<t>>)
CellOf(t) == Nominal("Cell", <<t>>)
Guard == Nominal("Guard", <<>>)
Tag == Nominal("Tag", <<>>)

TypeDecl(gen, parts, enum) == [gen |-> gen, parts |-> parts, enum |-> enum]
MCDecls ==
  ("Pair" :> TypeDecl(<<"Pair.A", "Pair.B">>, <<P("Pair.A"), P("Pair.B")>>, FALSE))
  @@ ("Wrap" :> TypeDecl(<<"Wrap.T">>, <<P("Wrap.T")>>, FALSE))
  @@ ("Opt" :> TypeDecl(<<"Opt.T">>, <<Void, P("Opt.T")>>, TRUE))
  @@ ("Both" :> TypeDecl(<<"Both.X", "Both.Y">>, <<Void, Tup(<<P("Both.X"), P("Both.Y")>>)>>, TRUE))
  @@ ("Holder" :> TypeDecl(<<"Holder.T">>, <<P("Holder.T")>>, FALSE))
  @@ ("Cell" :> TypeDecl(<<"Cell.T">>, <<P("Cell.T")>>, FALSE))
  @@ ("Guard" :> TypeDecl(<<>>, <<I32>>, FALSE))
  @@ ("Tag" :> TypeDecl(<<>>, <<I32>>, FALSE))

\* The type of a trait's method, where Self is an inference variable of its own at every place it is written.
Trait(methods, item) == [methods |-> methods, item |-> item]
MCTraits ==
  ("Show" :> Trait("show" :> FnType(<<Ref(0, Infer(1))>>, I32), FALSE))
  @@ ("Source" :> Trait("get" :> FnType(<<Ref(0, Infer(2))>>, Infer(3)), TRUE))
  @@ ("Drop" :> Trait("drop" :> FnType(<<Ref(1, Infer(4))>>, Void), FALSE))
MCTraitVars == 4
MCForeignTraits == {"Drop"}

Impl(trait, self, gen, item, methods) == [trait |-> trait, self |-> self, gen |-> gen, item |-> item, methods |-> methods]
MCImpls ==
  << Impl("Show", I32, <<>>, Void, "show" :> "show_i32"),
     Impl("Show", Tag, <<>>, Void, "show" :> "show_tag"),
     Impl("Show", WrapOf(P("ws.T")), <<"ws.T">>, Void, "show" :> "show_wrap"),
     Impl("Source", PairOf(P("ps.A"), P("ps.B")), <<"ps.A", "ps.B">>, P("ps.A"), "get" :> "get_pair"),
     Impl("Source", Tag, <<>>, Bool, "get" :> "get_tag"),
     Impl("Drop", Guard, <<>>, Void, "drop" :> "drop_guard"),
     Impl("", WrapOf(P("wi.T")), <<"wi.T">>, Void, ("peek" :> "peek_wrap") @@ ("with" :> "with_wrap") @@ ("set" :> "set_wrap")),
     Impl("Drop", HolderOf(P("hd.T")), <<"hd.T">>, Void, "drop" :> "drop_holder"),
     Impl("", CellOf(P("ce.U")), <<"ce.U">>, Void, ("read" :> "read_cell") @@ ("pick" :> "pick_cell") @@ ("keep" :> "keep_cell")),
     \* The ones a program may have besides: 13 is an orphan, 14 names itself.
     Impl("Show", WrapOf(I32), <<>>, Void, "show" :> "show_wrap_i32"),
     Impl("Source", PairOf(I32, P("px.B")), <<"px.B">>, Bool, "get" :> "get_pair_x"),
     Impl("Show", Tag, <<>>, Void, "show" :> "show_tag_again"),
     Impl("Drop", I32, <<>>, Void, "drop" :> "drop_i32"),
     Impl("Source", WrapOf(P("wx.T")), <<"wx.T">>, Proj("Source", WrapOf(P("wx.T"))), "get" :> "get_wrap_x"),
     Impl("Show", OptOf(P("os.T")), <<"os.T">>, Void, "show" :> "show_opt"),
     Impl("Show", PairOf(I32, Bool), <<>>, Void, "show" :> "show_pair_1"),
     Impl("Show", PairOf(Bool, I32), <<>>, Void, "show" :> "show_pair_2"),
     Impl("Show", PairOf(P("pt.T"), P("pt.T")), <<"pt.T">>, Void, "show" :> "show_pair_3"),
     Impl("Show", PairOf(P("pw.T"), WrapOf(P("pw.T"))), <<"pw.T">>, Void, "show" :> "show_pair_4"),
     Impl("Show", PairOf(WrapOf(P("pv.T")), P("pv.T")), <<"pv.T">>, Void, "show" :> "show_pair_5"),
     Impl("Show", PairOf(P("pb.T"), Bool), <<"pb.T">>, Void, "show" :> "show_pair_6"),
     Impl("Show", Tup(<<P("tb.T"), Bool>>), <<"tb.T">>, Void, "show" :> "show_tuple_1"),
     Impl("Show", Tup(<<I32, P("ti.T")>>), <<"ti.T">>, Void, "show" :> "show_tuple_2"),
     Impl("Show", Tup(<<P("tp.T"), I32>>), <<"tp.T">>, Void, "show" :> "show_tuple_3") >>
MCOwn == 1..9

Fn(gen, params, ret, items) == [gen |-> gen, params |-> params, ret |-> ret, body |-> Block(items)]
SelfIs(t) == <<"self", t>>
SelfAt(n) == Field(V("self"), n)
ShowFn(t) == Fn(<<>>, <<SelfIs(Ref(0, t))>>, I32, <<Ret(Lit(8))>>)
MCFns ==
  ("show_i32" :> Fn(<<>>, <<SelfIs(Ref(0, I32))>>, I32, <<Ret(Deref1(V("self")))>>))
  @@ ("show_tag" :> Fn(<<>>, <<SelfIs(Ref(0, Tag))>>, I32, <<Ret(SelfAt(1))>>))
  @@ ("show_wrap" :> Fn(<<>>, <<SelfIs(Ref(0, WrapOf(P("ws.T"))))>>, I32, <<Ret(Method(SelfAt(1), "show", <<>>))>>))
  @@ ("get_pair" :> Fn(<<>>, <<SelfIs(Ref(0, PairOf(P("ps.A"), P("ps.B"))))>>, P("ps.A"), <<Ret(SelfAt(1))>>))
  @@ ("get_tag" :> Fn(<<>>, <<SelfIs(Ref(0, Tag))>>, Bool, <<Ret(Op("gt", SelfAt(1), Lit(0)))>>))
  @@ ("drop_guard" :> Fn(<<>>, <<SelfIs(Ref(1, Guard))>>, Void, <<Do(Call("note", <<SelfAt(1)>>))>>))
  @@ ("peek_wrap" :> Fn(<<>>, <<SelfIs(Ref(0, WrapOf(P("wi.T"))))>>, P("wi.T"), <<Ret(SelfAt(1))>>))
  @@ ("with_wrap" :> Fn(<<"wm.V">>, <<SelfIs(Ref(0, WrapOf(P("wi.T")))), <<"x", P("wm.V")>>>>, PairOf(P("wi.T"), P("wm.V")),
                        <<Ret(Call("pair", <<SelfAt(1), V("x")>>))>>))
  @@ ("set_wrap" :> Fn(<<>>, <<SelfIs(Ref(1, WrapOf(P("wi.T")))), <<"y", P("wi.T")>>>>, Void, <<Do(AssignTo(SelfAt(1), V("y")))>>))
  @@ ("read_cell" :> Fn(<<>>, <<SelfIs(Ref(0, CellOf(P("ce.U"))))>>, P("ce.U"), <<Ret(SelfAt(1))>>))
  \* Parameters of a method that have the name of one of the type, and of one of the implementation.
  @@ ("pick_cell" :> Fn(<<"pc.T">>, <<SelfIs(Ref(0, CellOf(P("ce.U")))), <<"picked", P("pc.T")>>>>, P("pc.T"), <<Ret(V("picked"))>>))
  @@ ("keep_cell" :> Fn(<<"kc.U">>, <<SelfIs(Ref(0, CellOf(P("ce.U")))), <<"kept", P("kc.U")>>>>, P("kc.U"), <<Ret(V("kept"))>>))
  @@ ("show_wrap_i32" :> Fn(<<>>, <<SelfIs(Ref(0, WrapOf(I32)))>>, I32, <<Ret(Lit(2))>>))
  @@ ("get_pair_x" :> Fn(<<>>, <<SelfIs(Ref(0, PairOf(I32, P("px.B"))))>>, Bool, <<Ret(Truth(1))>>))
  @@ ("show_tag_again" :> Fn(<<>>, <<SelfIs(Ref(0, Tag))>>, I32, <<Ret(Lit(3))>>))
  @@ ("drop_i32" :> Fn(<<>>, <<SelfIs(Ref(1, I32))>>, Void, <<>>))
  @@ ("get_wrap_x" :> Fn(<<>>, <<SelfIs(Ref(0, WrapOf(P("wx.T"))))>>, P("wx.T"), <<Ret(SelfAt(1))>>))
  @@ ("show_opt" :> Fn(<<>>, <<SelfIs(Ref(0, OptOf(P("os.T"))))>>, I32, <<Ret(Lit(4))>>))
  @@ ("show_pair_1" :> Fn(<<>>, <<SelfIs(Ref(0, PairOf(I32, Bool)))>>, I32, <<Ret(SelfAt(1))>>))
  @@ ("show_pair_2" :> Fn(<<>>, <<SelfIs(Ref(0, PairOf(Bool, I32)))>>, I32, <<Ret(SelfAt(2))>>))
  @@ ("show_pair_3" :> ShowFn(PairOf(P("pt.T"), P("pt.T"))))
  @@ ("show_pair_4" :> ShowFn(PairOf(P("pw.T"), WrapOf(P("pw.T")))))
  @@ ("show_pair_5" :> ShowFn(PairOf(WrapOf(P("pv.T")), P("pv.T"))))
  @@ ("show_pair_6" :> ShowFn(PairOf(P("pb.T"), Bool)))
  @@ ("show_tuple_1" :> ShowFn(Tup(<<P("tb.T"), Bool>>)))
  @@ ("show_tuple_2" :> ShowFn(Tup(<<I32, P("ti.T")>>)))
  @@ ("show_tuple_3" :> ShowFn(Tup(<<P("tp.T"), I32>>)))
  @@ ("drop_holder" :> Fn(<<>>, <<SelfIs(Ref(1, HolderOf(P("hd.T"))))>>, Void, <<Do(Call("id", <<Lit(6)>>))>>))
  @@ ("note" :> Fn(<<>>, <<<<"noted", I32>>>>, Void, <<>>))
  @@ ("id" :> Fn(<<"id.T">>, <<<<"i", P("id.T")>>>>, P("id.T"), <<Ret(V("i"))>>))
  @@ ("pair" :> Fn(<<"pr.A", "pr.B">>, <<<<"l", P("pr.A")>>, <<"r", P("pr.B")>>>>, PairOf(P("pr.A"), P("pr.B")),
                   <<Ret(StructOf("Pair", <<V("l"), V("r")>>))>>))
  @@ ("first" :> Fn(<<"fi.A", "fi.B">>, <<<<"of", PairOf(P("fi.A"), P("fi.B"))>>>>, P("fi.A"), <<Ret(Field(V("of"), 1))>>))
  @@ ("swap" :> Fn(<<"sw.A", "sw.B">>, <<<<"sp", PairOf(P("sw.A"), P("sw.B"))>>>>, PairOf(P("sw.B"), P("sw.A")),
                   <<Let("swapped", Call("pair", <<Field(V("sp"), 2), Field(V("sp"), 1)>>)), Ret(V("swapped"))>>))
  @@ ("show_it" :> Fn(<<"sh.T">>, <<<<"shown", Ref(0, P("sh.T"))>>>>, I32, <<Ret(Method(V("shown"), "show", <<>>))>>))
  @@ ("show_both" :> Fn(<<"sb.A", "sb.B">>, <<<<"both", Ref(0, PairOf(P("sb.A"), P("sb.B")))>>>>, I32,
                        <<Ret(Op("add", Call("show_it", <<Borrow(Field(V("both"), 1))>>),
                                        Call("show_it", <<Borrow(Field(V("both"), 2))>>)))>>))
  @@ ("get_item" :> Fn(<<"gi.S">>, <<<<"src", Ref(0, P("gi.S"))>>>>, Proj("Source", P("gi.S")), <<Ret(Method(V("src"), "get", <<>>))>>))
  @@ ("or_item" :> Fn(<<"oi.S">>, <<<<"found", Proj("Source", P("oi.S"))>>, <<"from", Ref(0, P("oi.S"))>>>>, Proj("Source", P("oi.S")),
                      <<Ret(V("found"))>>))
  @@ ("unwrap_or" :> Fn(<<"uo.T">>, <<<<"opt", OptOf(P("uo.T"))>>, <<"other", P("uo.T")>>>>, P("uo.T"),
                        <<Ret(Match(V("opt"), <<Arm(PSome(PBind("some")), V("some")), Arm(PNone, V("other"))>>))>>))
  @@ ("times" :> Fn(<<"tm.T">>, <<<<"thing", P("tm.T")>>, <<"n", I32>>>>, I32,
                    <<If(Op("eq", V("n"), Lit(0)), Block(<<Ret(Lit(0))>>)),
                      Ret(Op("add", Lit(1), Call("times", <<V("thing"), Op("sub", V("n"), Lit(1))>>)))>>))
  @@ ("choose" :> Fn(<<"ch.T">>, <<<<"yes", P("ch.T")>>, <<"no", P("ch.T")>>, <<"k", I32>>>>, P("ch.T"),
                     <<If(Op("eq", V("k"), Lit(0)), Block(<<Ret(V("yes"))>>)), Ret(V("no"))>>))
  @@ ("show_dyn" :> Fn(<<>>, <<<<"any", Ref(0, Dyn("Show"))>>>>, I32, <<Ret(Method(V("any"), "show", <<>>))>>))
  @@ ("only_bool" :> Fn(<<"ob.S">>, <<<<"bools", Ref(0, P("ob.S"))>>>>, I32, <<Ret(Lit(7))>>))
  @@ ("third" :> Fn(<<>>, <<<<"items", Ref(0, SliceOf(I32))>>>>, I32, <<Ret(Index(V("items"), Lit(2)))>>))
MCLibrary == << "show_i32", "show_tag", "show_wrap", "get_pair", "get_tag", "drop_guard", "drop_holder", "peek_wrap", "with_wrap", "set_wrap", "read_cell", "pick_cell",
                "keep_cell", "note", "id", "pair", "first", "swap", "show_it", "show_both", "get_item", "or_item", "unwrap_or", "times", "choose",
                "show_dyn", "only_bool", "third" >>

MCBounds == ("ws.T" :> <<"Show">>) @@ ("sh.T" :> <<"Show">>) @@ ("sb.A" :> <<"Show">>) @@ ("sb.B" :> <<"Show">>)
            @@ ("gi.S" :> <<"Source">>) @@ ("ob.S" :> <<"Source">>)
MCItemBounds == "ob.S" :> <<[trait |-> "Source", is |-> Bool]>>

\* The type parameters as resolution declares them, and how each is written.
MCSymbols ==
  << <<"Pair.A", "A">>, <<"Pair.B", "B">>, <<"Wrap.T", "T">>, <<"Opt.T", "T">>, <<"Both.X", "X">>, <<"Both.Y", "Y">>, <<"Holder.T", "T">>,
     <<"Cell.T", "T">>, <<"ws.T", "T">>, <<"ps.A", "A">>, <<"ps.B", "B">>, <<"wi.T", "T">>, <<"wm.V", "V">>, <<"hd.T", "T">>,
     <<"ce.U", "U">>, <<"pc.T", "T">>, <<"kc.U", "U">>, <<"px.B", "B">>, <<"wx.T", "T">>, <<"os.T", "T">>, <<"pt.T", "T">>,
     <<"pw.T", "T">>, <<"pv.T", "T">>, <<"pb.T", "T">>, <<"tb.T", "T">>, <<"ti.T", "T">>, <<"tp.T", "T">>, <<"id.T", "T">>,
     <<"pr.A", "A">>, <<"pr.B", "B">>, <<"fi.A", "A">>, <<"fi.B", "B">>, <<"sw.A", "A">>, <<"sw.B", "B">>, <<"sh.T", "T">>,
     <<"sb.A", "A">>, <<"sb.B", "B">>, <<"gi.S", "S">>, <<"oi.S", "S">>, <<"uo.T", "T">>, <<"tm.T", "T">>, <<"ch.T", "T">>,
     <<"ob.S", "S">>, <<"gd.T", "T">> >>

------------------------------------------------------------------------------
\* What main does, in programs that are right and in programs the checker is to refuse; a name is of one main.
Main(items) == Fn(<<>>, <<>>, I32, items)
TagOf(e) == StructOf("Tag", <<e>>)
GuardOf(e) == StructOf("Guard", <<e>>)
WrapE(e) == StructOf("Wrap", <<e>>)
CellE(e) == StructOf("Cell", <<e>>)
BothE(l, r) == CallOf(Variant("Both", 2, <<>>), <<l, r>>)
Show(e) == Method(e, "show", <<>>)
Plus(l, r) == Op("add", l, r)
MCGoodMains ==
  ("swaps" :> Main(<< Let("a1", Call("pair", <<Lit(1), Truth(1)>>)), LetTy("a2", PairOf(Bool, I32), Call("swap", <<V("a1")>>)),
                      Ret(Plus(Call("first", <<Call("swap", <<V("a2")>>)>>), Field(V("a2"), 2))) >>))
  @@ ("infers" :> Main(<< Let("b1", WrapE(None)), Do(Method(V("b1"), "set", <<Some(Lit(3))>>)),
                          Ret(Call("unwrap_or", <<Method(V("b1"), "peek", <<>>), Lit(0)>>)) >>))
  @@ ("methods" :> Main(<< Let("c1", WrapE(TagOf(Lit(1)))), Let("c2", Method(V("c1"), "with", <<Truth(1)>>)),
                           If(Field(V("c2"), 2), Block(<<Ret(Show(Field(V("c2"), 1)))>>)), Ret(Show(V("c1"))) >>))
  @@ ("nested" :> Main(<<Ret(Plus(Show(WrapE(WrapE(TagOf(Lit(1))))), Show(Borrow(WrapE(WrapE(Lit(2)))))))>>))
  @@ ("items" :> Main(<< Let("d1", Call("get_item", <<Borrow(Call("pair", <<Lit(2), Truth(1)>>))>>)),
                         If(Call("get_item", <<Borrow(TagOf(Lit(1)))>>), Block(<<Ret(Plus(V("d1"), Lit(1)))>>)), Ret(V("d1")) >>))
  @@ ("objects" :> Main(<< Let("e1", TagOf(Lit(3))), Ret(Plus(Call("show_dyn", <<Borrow(V("e1"))>>), Call("show_dyn", <<BorrowRw(V("e1"))>>))) >>))
  @@ ("guards" :> Main(<< Let("f1", TupleE(<<GuardOf(Lit(1)), Lit(4)>>)), Let("f2", Call("pair", <<Lit(1), GuardOf(Lit(2))>>)),
                          Let("f3", Some(GuardOf(Lit(3)))), Let("f6", ArrayE(<<WrapE(GuardOf(Lit(5)))>>)),
                          LetTy("f8", OptOf(HolderOf(Tag)), None),
                          Let("f7", StructOf("Holder", <<Some(StructOf("Holder", <<GuardOf(Lit(6))>>))>>)),
                          Ret(Match(V("f3"), <<Arm(PSome(PBind("f4")), Field(V("f4"), 1)), Arm(PNone, Lit(0))>>)) >>))
  @@ ("bounds" :> Main(<<Ret(Plus(Call("show_both", <<Borrow(Call("pair", <<Lit(1), TagOf(Lit(2))>>))>>), Call("only_bool", <<Borrow(TagOf(Lit(1)))>>)))>>))
  @@ ("recurses" :> Main(<< Let("g1", Call("choose", <<Truth(1), Truth(0), Lit(0)>>)),
                            If(V("g1"), Block(<<Ret(Call("times", <<Call("pair", <<Lit(1), V("g1")>>), Lit(2)>>))>>)), Ret(Lit(0)) >>))
  @@ ("arrays" :> Main(<< Let("h1", ArrayE(<<Lit(1), Lit(2), Lit(3)>>)), Let("h2", Lit(0)),
                          While(Op("gt", Lit(2), V("h2")), Block(<< Do(AssignTo(V("h2"), Plus(V("h2"), Lit(1)))),
                                                                    If(Op("eq", Index(V("h1"), V("h2")), Lit(2)), Block(<<Break>>)) >>)),
                          Ret(Plus(Call("third", <<Borrow(V("h1"))>>), V("h2"))) >>))
  @@ ("patterns" :> Main(<< LetPat(PTuple(<<PBind("i1"), PBind("i2")>>), TupleE(<<Lit(1), Truth(1)>>)),
                            Let("i3", Match(BothE(V("i1"), V("i2")),
                              << Arm(PVariant("Both", 2, <<PBind("i4"), PBind("i5")>>), Match(V("i5"), <<Arm(PBool(1), V("i4")), Arm(PBool(0), Lit(0))>>)),
                                 Arm(PWild, Minus(Lit(1))) >>)),
                            Ret(Match(TagOf(V("i3")), <<Arm(PStruct("Tag", <<PBind("i6")>>), V("i6")), Arm(PWild, Lit(5))>>)) >>))
  @@ ("written" :> Main(<< Let("j1", CallAt("id", <<Bool>>, <<Truth(1)>>)), Let("j2", StructAt("Pair", <<I32, Bool>>, <<Lit(1), V("j1")>>)),
                           Let("j3", MethodAt(WrapE(V("j2")), "with", <<Bool>>, <<V("j1")>>)), Ret(Field(Field(V("j3"), 1), 1)) >>))
  @@ ("postponed" :> Main(<< Let("m1", Call("or_item", <<Lit(3), Borrow(Call("pair", <<Lit(2), Truth(1)>>))>>)), Ret(V("m1")) >>))
  @@ ("reads" :> Main(<< Let("n1", CellE(Some(Lit(1)))), Ret(Call("unwrap_or", <<Method(V("n1"), "read", <<>>), Lit(0)>>)) >>))
  @@ ("picks" :> Main(<< Let("n2", CellE(Lit(1))), If(Method(V("n2"), "pick", <<Truth(1)>>), Block(<<Ret(Lit(2))>>)), Ret(Lit(0)) >>))
  @@ ("keeps" :> Main(<< Let("n3", CellE(Lit(1))), If(Method(V("n3"), "keep", <<Truth(1)>>), Block(<<Ret(Lit(2))>>)), Ret(Lit(0)) >>))
  @@ ("shown" :> Main(<<Ret(Plus(Show(Some(Lit(1))), Call("show_it", <<Borrow(Some(TagOf(Lit(1))))>>)))>>))
MCBadMains ==
  ("bad_written" :> Main(<<Let("k1", CallAt("id", <<Bool>>, <<Lit(3)>>)), Ret(Lit(0))>>))
  @@ ("bad_let" :> Main(<<LetTy("k2", PairOf(Bool, I32), Call("pair", <<Lit(1), Truth(1)>>)), Ret(Field(V("k2"), 2))>>))
  @@ ("bad_bound" :> Main(<<Ret(Call("show_it", <<Borrow(Truth(1))>>))>>))
  @@ ("bad_item" :> Main(<<Ret(Call("only_bool", <<Borrow(Call("pair", <<Lit(1), Truth(1)>>))>>))>>))
  @@ ("bad_return" :> Main(<<Ret(Truth(1))>>))
  @@ ("bad_condition" :> Main(<<If(Lit(3), Block(<<>>)), Ret(Lit(0))>>))
  @@ ("bad_field" :> Main(<<Let("k3", StructAt("Pair", <<I32, Bool>>, <<Truth(1), Truth(1)>>)), Ret(Field(V("k3"), 1))>>))
  @@ ("bad_fields" :> Main(<<Let("k4", StructOf("Pair", <<Lit(1)>>)), Ret(Field(V("k4"), 1))>>))
  @@ ("bad_method" :> Main(<<Ret(Method(TagOf(Lit(1)), "peek", <<>>))>>))
  @@ ("bad_cases" :> Main(<<Ret(Match(Call("id", <<Some(Lit(1))>>), <<Arm(PNone, Lit(0))>>))>>))
  @@ ("bad_arm" :> Main(<<Ret(Match(Some(Lit(1)), <<Arm(PNone, Lit(0)), Arm(PSome(PWild), Truth(1))>>))>>))
  @@ ("bad_index" :> Main(<<Let("k5", TupleE(<<Lit(1), Lit(2)>>)), Ret(Index(V("k5"), Lit(0)))>>))
  @@ ("bad_occurs" :> Main(<<Let("k6", None), Do(AssignTo(V("k6"), Some(V("k6")))), Ret(Lit(0))>>))
  @@ ("bad_unsized" :> Fn(<<>>, <<<<"k7", Ref(0, Dyn("Show"))>>>>, I32, <<Let("k8", Deref1(V("k7"))), Ret(Lit(0))>>))
  @@ ("bad_minus" :> Main(<<Let("k9", Minus(Truth(1))), Ret(Lit(0))>>))
  @@ ("bad_break" :> Main(<<Break, Ret(Lit(0))>>))
  @@ ("bad_drop" :> Main(<<Let("l1", GuardOf(Lit(1))), Do(Method(V("l1"), "drop", <<>>)), Ret(Lit(0))>>))
  @@ ("bad_deref" :> Main(<<Ret(Deref1(Lit(3)))>>))
  @@ ("bad_object" :> Main(<<Ret(Call("show_dyn", <<Borrow(GuardOf(Lit(1)))>>))>>))
  @@ ("bad_receiver" :> Main(<<Let("l2", WrapE(Lit(1))), Let("l3", Borrow(V("l2"))), Do(Method(V("l3"), "set", <<Lit(2)>>)), Ret(Lit(0))>>))
  @@ ("bad_operands" :> Main(<<Ret(Plus(Lit(1), Truth(1)))>>))
  @@ ("bad_payload" :> Main(<<Ret(Match(Some(Lit(1)), <<Arm(PVariant("Opt", 2, <<PBind("l4"), PBind("l5")>>), V("l5")), Arm(PWild, Lit(0))>>))>>))
  @@ ("unknown" :> Main(<<Let("l6", None), Ret(Lit(0))>>))
  @@ ("bad_set" :> Main(<<Let("l7", WrapE(Lit(1))), Do(Method(V("l7"), "set", <<Truth(1)>>)), Ret(Method(V("l7"), "peek", <<>>))>>))
  @@ ("bad_postponed" :> Main(<<Let("m2", Call("or_item", <<Truth(1), Borrow(Call("pair", <<Lit(2), Truth(1)>>))>>)), Ret(Lit(0))>>))
  @@ ("bad_unknown" :> Main(<<Let("m6", Call("id", <<None>>)), Ret(Lit(0))>>))
  @@ ("bad_place" :> Main(<<Do(AssignTo(Lit(1), Lit(2))), Ret(Lit(0))>>))
  @@ ("bad_member" :> Main(<<Let("m3", TagOf(Lit(1))), Ret(Field(V("m3"), 2))>>))
  @@ ("bad_part" :> Main(<<Ret(At(TupleE(<<Lit(1), Lit(2)>>), 3))>>))
  @@ ("bad_generics" :> Main(<<Let("m4", MethodAt(WrapE(Lit(1)), "with", <<Bool, Bool>>, <<Truth(1)>>)), Ret(Lit(0))>>))
  @@ ("bad_projection" :> Main(<<Let("m5", Call("or_item", <<Lit(1), Borrow(WrapE(Lit(1)))>>)), Ret(Lit(0))>>))
  @@ ("bad_shared" :> Main(<<Let("l8", Lit(1)), Let("l9", Borrow(V("l8"))), Do(Call("set_to", <<V("l9")>>)), Ret(V("l8"))>>))
\* The greatest common divisor calls itself with its parameters the other way round.
MCOwnFns ==
  ("gcd" :> Fn(<<"gd.T">>, <<<<"ga", P("gd.T")>>, <<"gb", P("gd.T")>>>>, P("gd.T"), <<Ret(Call("gcd", <<V("gb"), V("ga")>>))>>))
  @@ ("set_to" :> Fn(<<>>, <<<<"cell", Ref(1, I32)>>>>, Void, <<Do(AssignTo(Deref1(V("cell")), Lit(2)))>>))
  @@ ("empty" :> Main(<<Ret(Lit(0))>>))
  @@ ("shows_pair" :> Main(<<Ret(Show(StructOf("Pair", <<Truth(1), Lit(1)>>)))>>))
MCPrograms ==
  {[decls |-> MCDecls, traits |-> MCTraits, traitVars |-> MCTraitVars, foreignTraits |-> MCForeignTraits, impls |-> MCImpls,
    fns |-> MCFns @@ MCGoodMains @@ MCBadMains @@ MCOwnFns, bounds |-> MCBounds, itemBounds |-> MCItemBounds,
    symbols |-> MCSymbols]}
=============================================================================
