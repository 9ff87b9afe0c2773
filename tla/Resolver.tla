-------------------------------- MODULE Resolver --------------------------------
(***************************************************************************)
(* From the text of a program and of the providers it imports to the       *)
(* functions the generator receives: every unit is resolved on its own     *)
(* against the interfaces of the providers before it                       *)
(* (luna-semantic/src/resolver.rs, symbol.rs), and a provider leaves an    *)
(* interface for those after it (luna-driver/src/registry.rs).             *)
(*                                                                         *)
(* The symbol table and the state of the resolver are one record t that    *)
(* every operation takes and returns; scopes and symbols are numbered from *)
(* 1 and 0 is none, t.out is what the last operation returned.  A text is  *)
(* [vars, providers, items]: the types of its variables by name, the       *)
(* providers as [name, items] in the order they are loaded, and its own    *)
(* items.  After resolution a variable and a function stand for their      *)
(* symbol by its key.                                                      *)
(***************************************************************************)
EXTENDS SourceSyntax, StrictFold

Table(unit, prefix) ==
  [unit |-> unit, prefix |-> prefix, here |-> 1, symbols |-> <<>>, provided |-> <<>>, decls |-> <<>>, errors |-> {},
   scopes |-> <<[kind |-> "global", parent |-> 0, names |-> <<>>]>>, registering |-> FALSE, fns |-> <<>>, out |-> 0]

Report(t, error) == [t EXCEPT !.errors = @ \cup {error}]
Standing(t, scope) == [t EXCEPT !.here = scope]
Returning(t, x) == [t EXCEPT !.out = x]

CreateScope(t, kind) ==
  [t EXCEPT !.scopes = Append(@, [kind |-> kind, parent |-> t.here, names |-> <<>>]), !.out = Len(t.scopes) + 1]
EnterScope(t, kind) == Standing(CreateScope(t, kind), Len(t.scopes) + 1)
ExitScope(t) == Standing(t, t.scopes[t.here].parent)

-----------------------------------------------------------------------------
(* The symbol table.                                                       *)

\* A scope and the scopes around it, innermost first.
RECURSIVE ScopesFrom(_, _)
ScopesFrom(t, scope) == IF scope = 0 THEN <<>> ELSE <<scope>> \o ScopesFrom(t, t.scopes[scope].parent)

LookupExact(t, name, scope) == IF name \in DOMAIN t.scopes[scope].names THEN t.scopes[scope].names[name] ELSE 0
Lookup(t, name, scope) ==
  LET found == SelectSeq(ScopesFrom(t, scope), LAMBDA s : LookupExact(t, name, s) # 0)
  IN IF found = <<>> THEN 0 ELSE LookupExact(t, name, Head(found))

EnclosingModule(t, scope) == Head(SelectSeq(ScopesFrom(t, scope), LAMBDA s : t.scopes[s].kind \in {"module", "global"}))
IsAncestor(t, above, scope) == Contains(ScopesFrom(t, scope), above)

IsForeign(t, id) == t.symbols[id].provider \notin {"", t.unit}
Accessible(t, id) ==
  LET s == t.symbols[id]
  IN CASE s.vis = "public" -> TRUE
       [] s.vis = "internal" -> s.provider = t.unit
       [] s.vis = "private" -> ~ IsForeign(t, id) /\ IsAncestor(t, EnclosingModule(t, s.scope), EnclosingModule(t, t.here))

\* A name that is there already keeps its symbol; only the same declaration may declare it again.
DeclareSymbol(t, name, kind, vis, at) ==
  LET existing == LookupExact(t, name, t.here)
      id == Len(t.symbols) + 1
      new == [name |-> name, kind |-> kind, scope |-> t.here, vis |-> vis, at |-> at, provider |-> "", inner |-> 0,
              key |-> name \o "#" \o ToString(id)]
  IN CASE existing = 0 -> [t EXCEPT !.symbols = Append(@, new), !.scopes[t.here].names = (name :> id) @@ @, !.out = id]
       [] existing # 0 /\ t.symbols[existing].at = at -> Returning(t, existing)
       [] OTHER -> Report(Returning(t, existing), "duplicate")

\* t.out: whether the name could be imported.  Modules of one name are merged, up to the first conflict.
RECURSIVE AddImported(_, _, _, _)
AddImported(t, name, id, scope) ==
  LET existing == LookupExact(t, name, scope)
      old == t.symbols[existing]
      new == t.symbols[id]
      children == t.scopes[new.inner].names
      Child(a, x) == IF a.out THEN AddImported(a, x, children[x], old.inner) ELSE a
  IN CASE existing = 0 -> [t EXCEPT !.scopes[scope].names = (name :> id) @@ @, !.out = TRUE]
       [] existing = id -> Returning(t, TRUE)
       [] existing # 0 /\ old.provider # "" /\ old.provider = new.provider /\ old.name = new.name -> Returning(t, TRUE)
       [] existing # 0 /\ old.kind = "module" /\ new.kind = "module" ->
            FoldStrictly(Child, Returning(t, TRUE), InSomeOrder(DOMAIN children))
       [] OTHER -> Returning(t, FALSE)

-----------------------------------------------------------------------------
(* Declarations.                                                           *)

\* What a provider does not export stays there, except the names of its modules.
ResolveImport(t, item) ==
  LET offered == IF item.provider \in DOMAIN t.provided THEN t.scopes[t.provided[item.provider]].names ELSE <<>>
      exported == {x \in DOMAIN offered : t.symbols[offered[x]].vis = "public" \/ t.symbols[offered[x]].kind = "module"}
      Checked(a) == IF a.out THEN a ELSE Report(a, "conflict")
  IN FoldStrictly(LAMBDA a, x : Checked(AddImported(a, x, offered[x], t.here)), t, InSomeOrder(exported))

\* The scope a path of modules names, 0 for none.
InnerScope(t, id) == IF id = 0 THEN 0 ELSE t.symbols[id].inner
TargetScope(t, path) ==
  FoldLeft(LAMBDA scope, x : IF scope = 0 THEN 0 ELSE InnerScope(t, LookupExact(t, x, scope)),
           InnerScope(t, Lookup(t, Head(path), t.here)), Tail(path))

SetInner(t, id, scope) == [t EXCEPT !.symbols[id].inner = scope]
DeclareUsing(t, item, at) ==
  LET target == TargetScope(t, item.path)
      Sharing(a) == SetInner(a, a.out, target)
  IN IF target = 0 THEN Report(t, "unresolved") ELSE Sharing(DeclareSymbol(t, item.alias, "module", "private", at))

DeclareVariable(t, x) == DeclareSymbol(t, x, "variable", "private", <<Len(t.symbols) + 1>>)

DeclareFunction(t, item, at) ==
  LET Params(a) == FoldStrictly(LAMBDA b, p : DeclareVariable(b, p[1]), a, item.fn.params)
      Opened(a, id) == ExitScope(Params(SetInner(EnterScope(a, "function"), id, Len(a.scopes) + 1)))
      Known(a) == Opened([a EXCEPT !.decls = (at :> a.out) @@ @, !.symbols[a.out].key = t.prefix \o item.name], a.out)
  IN Known(DeclareSymbol(t, item.name, "function", item.vis, at))

\* A module continues whatever has its name.
RECURSIVE DeclareItem(_, _, _)
DeclareItems(t, items, at) == FoldStrictly(LAMBDA a, i : DeclareItem(a, items[i], Append(at, i)), t, [i \in DOMAIN items |-> i])

Within(t, scope, name) == [t EXCEPT !.here = scope, !.prefix = @ \o name \o "::"]
Outside(t, around) == [t EXCEPT !.here = around.here, !.prefix = around.prefix]
DeclareModule(t, item, at) ==
  LET existing == LookupExact(t, item.name, t.here)
      Scoped(a, id) == IF a.symbols[id].inner # 0 THEN a ELSE SetInner(CreateScope(a, "module"), id, Len(a.scopes) + 1)
      Filled(a, id) == Outside(DeclareItems(Within(a, a.symbols[id].inner, item.name), item.items, at), t)
      Opened(a) == Filled(Scoped([a EXCEPT !.decls = (at :> a.out) @@ @], a.out), a.out)
  IN Opened(IF existing # 0 THEN Returning(t, existing) ELSE DeclareSymbol(t, item.name, "module", item.vis, at))

\* Before macros are expanded, all but the functions of the program are declared once already.
DeclareItem(t, item, at) ==
  CASE item.k = "fn" -> IF t.registering THEN t ELSE DeclareFunction(t, item, at)
    [] item.k = "module" -> DeclareModule(t, item, at)
    [] item.k = "using" -> DeclareUsing(t, item, at)
    [] item.k = "import" -> ResolveImport(t, item)

-----------------------------------------------------------------------------
(* Bodies.  t.out is the node with its names resolved.                     *)

\* The first segment is looked up in the scopes around, the others in what it names, if they may be seen from here.
Visible(t, id) == IF id # 0 /\ Accessible(t, id) THEN id ELSE 0
SymbolAt(t, path) ==
  Visible(t, FoldLeft(LAMBDA id, x : IF InnerScope(t, id) = 0 THEN 0 ELSE Visible(t, LookupExact(t, x, t.symbols[id].inner)),
                      Lookup(t, Head(path), t.here), Tail(path)))
ResolvePath(t, path, kind) ==
  LET id == SymbolAt(t, path)
  IN IF id = 0 THEN Report(Returning(t, ""), "not found")
     ELSE IF t.symbols[id].kind # kind THEN Report(Returning(t, ""), "type") ELSE Returning(t, t.symbols[id].key)

RECURSIVE ResolvePattern(_, _)
ResolvePatterns(t, pats) ==
  FoldStrictly(LAMBDA a, pat : LET b == ResolvePattern(a, pat) IN [b EXCEPT !.out = Append(a.out, b.out)], Returning(t, <<>>), pats)
ResolvePattern(t, pat) ==
  LET Named(a) == Returning(a, [pat EXCEPT !.x = a.symbols[a.out].key])
      Parted(a) == Returning(a, IF pat.k = "enum" THEN [pat EXCEPT !.fields = a.out] ELSE [pat EXCEPT !.elems = a.out])
  IN CASE pat.k = "id" -> Named(DeclareVariable(t, pat.x))
       [] pat.k = "enum" -> Parted(ResolvePatterns(t, pat.fields))
       [] pat.k = "tuple" -> Parted(ResolvePatterns(t, pat.elems))
       [] OTHER -> Returning(t, pat)

RECURSIVE Resolve(_, _)
ResolveAll(t, nodes) ==
  FoldStrictly(LAMBDA a, e : LET b == Resolve(a, e) IN [b EXCEPT !.out = Append(a.out, b.out)], Returning(t, <<>>), nodes)

\* The parts of a node that are resolved one after the other.
Parts(e) ==
  CASE e.k \in {"bin", "logic"} -> <<"l", "r">>
    [] e.k = "method" -> <<"obj", "args">>
    [] e.k \in {"call", "agg", "variant"} -> <<"args">>
    [] e.k = "member" -> <<"obj">>
    [] e.k = "index" -> <<"obj", "at">>
    [] e.k = "assign" -> <<"to", "e">>
    [] e.k \in {"try", "await", "ref", "deref", "neg", "expr", "return", "let"} -> <<"e">>
    [] e.k = "while" -> <<"c", "body">>
    [] e.k = "if" -> <<"c", "then", "else">>
    [] e.k = "for" -> <<"init", "c", "step", "body">>
    [] e.k = "range" -> <<"lo", "hi", "body">>
    [] e.k = "each" -> <<"e", "body">>
    [] e.k = "block" -> <<"items", "tail">>
    [] e.k = "match" -> <<"e">>
    [] OTHER -> <<>>
ResolveParts(t, e) ==
  FoldStrictly(LAMBDA a, f : LET b == IF f \in {"args", "items"} THEN ResolveAll(a, e[f]) ELSE Resolve(a, e[f])
                             IN [b EXCEPT !.out = [a.out EXCEPT ![f] = b.out]],
               Returning(t, e), Parts(e))

\* The variable a let declares is declared before anything of its block is resolved, that of a loop before its bounds.
DeclarePattern(t, s) == LET a == ResolvePattern(t, s.pat) IN Returning(a, [s EXCEPT !.pat = a.out])
DeclareLets(t, items) ==
  FoldStrictly(LAMBDA a, s : IF s.k # "let" THEN Returning(a, Append(a.out, s))
                             ELSE LET b == DeclarePattern(a, s) IN [b EXCEPT !.out = Append(a.out, b.out)],
               Returning(t, <<>>), items)
DeclareOwn(t, s) ==
  CASE s.k = "block" -> LET a == DeclareLets(t, s.items) IN Returning(a, [s EXCEPT !.items = a.out])
    [] s.k = "for" -> LET a == DeclarePattern(t, s.init) IN Returning(a, [s EXCEPT !.init = a.out])
    [] s.k = "range" -> LET a == DeclareVariable(t, s.x) IN Returning(a, [s EXCEPT !.x = a.symbols[a.out].key])
    [] s.k = "each" -> DeclarePattern(t, s)
ResolveScoped(t, s) == LET a == DeclareOwn(EnterScope(t, "block"), s) IN ExitScope(ResolveParts(a, a.out))

ResolveArm(t, arm) ==
  LET a == DeclarePattern(EnterScope(t, "block"), arm)
      b == Resolve(a, arm.body)
  IN ExitScope(Returning(b, [a.out EXCEPT !.body = b.out]))
ResolveArms(t, e) ==
  LET all == FoldStrictly(LAMBDA a, arm : LET b == ResolveArm(a, arm) IN [b EXCEPT !.out = Append(a.out, b.out)],
                          Returning(t, <<>>), e.arms)
  IN Returning(all, [t.out EXCEPT !.arms = all.out])

ResolveNode(t, e) ==
  CASE e.k = "var" -> LET a == ResolvePath(t, <<e.x>>, "variable") IN Returning(a, Var(a.out))
    [] e.k = "call" -> LET a == ResolvePath(t, e.f, "function") IN ResolveParts(a, [e EXCEPT !.f = a.out])
    [] e.k \in {"block", "for", "range", "each"} -> ResolveScoped(t, e)
    [] e.k = "match" -> ResolveArms(ResolveParts(t, e), e)
    [] OTHER -> ResolveParts(t, e)
Resolve(t, e) == TheOnly({ResolveNode(a, e) : a \in {t}})   \* t is computed before it is used

RECURSIVE ResolveItem(_, _, _)
ResolveItems(t, items, at) == FoldStrictly(LAMBDA a, i : ResolveItem(a, items[i], Append(at, i)), t, [i \in DOMAIN items |-> i])
ResolveItem(t, item, at) ==
  LET symbol == t.symbols[t.decls[at]]
      Param(p) == <<t.symbols[LookupExact(t, p[1], symbol.inner)].key, p[2]>>
      Body(a) == [a EXCEPT !.fns = (symbol.key :> [item.fn EXCEPT !.params = [i \in DOMAIN @ |-> Param(@[i])], !.body = a.out]) @@ @]
  IN CASE item.k = "fn" -> Outside(Body(Resolve(Standing(t, symbol.inner), item.fn.body)), t)
       [] item.k = "module" -> Outside(ResolveItems(Standing(t, symbol.inner), item.items, at), t)
       [] OTHER -> t

-----------------------------------------------------------------------------
(* Interfaces: what of a unit is seen by the units after it.               *)

\* What a scope exports, by name: the symbol and what its own scope exports.  A scope is looked at once.
RECURSIVE ExtractScope(_, _, _)
ExtractScope(t, seen, scope) ==
  LET names == t.scopes[scope].names
      Kept(id) == IF IsForeign(t, id) THEN t.symbols[id].kind = "module"
                  ELSE t.symbols[id].vis = "public" \/ t.symbols[id].kind = "module"
      Below(a, id) == IF InnerScope(t, id) = 0 THEN [a EXCEPT !.tree = <<>>] ELSE ExtractScope(t, a.seen, InnerScope(t, id))
      Needed(id, below) == below # <<>> \/ (~ IsForeign(t, id) /\ t.symbols[id].vis = "public")
      Entry(id, below) == t.symbols[id].name :> [symbol |-> [t.symbols[id] EXCEPT !.provider = t.unit], children |-> below]
      Next(a, id) == LET sub == Below(a, id)
                     IN [seen |-> sub.seen, tree |-> IF Needed(id, sub.tree) THEN Entry(id, sub.tree) @@ a.tree ELSE a.tree]
  IN IF scope \in seen THEN [seen |-> seen, tree |-> <<>>]
     ELSE FoldStrictly(LAMBDA a, x : IF Kept(names[x]) THEN Next(a, names[x]) ELSE a,
                       [seen |-> seen \cup {scope}, tree |-> <<>>], InSomeOrder(DOMAIN names))

RECURSIVE InjectSymbols(_, _)
InjectSymbol(t, exported) ==
  LET s == exported.symbol
      Tagged(a) == [a EXCEPT !.symbols[a.out].provider = s.provider, !.symbols[a.out].key = s.key]
      Filled(a) == ExitScope(InjectSymbols(SetInner(EnterScope(a, "module"), a.out, Len(a.scopes) + 1), exported.children))
      Opened(a) == IF exported.children # <<>> \/ s.kind = "module" THEN Filled(a) ELSE a
  IN Opened(Tagged(DeclareSymbol(t, s.name, s.kind, s.vis, s.at)))
InjectSymbols(t, tree) == FoldStrictly(LAMBDA a, x : InjectSymbol(a, tree[x]), t, InSomeOrder(DOMAIN tree))

\* The symbols of a provider are in a scope of its own until they are imported.
Inject(t, interfaces) ==
  LET One(a, p) == ExitScope(InjectSymbols(EnterScope([a EXCEPT !.provided = (p :> Len(a.scopes) + 1) @@ @], "module"), interfaces[p]))
  IN FoldStrictly(One, t, InSomeOrder(DOMAIN interfaces))

-----------------------------------------------------------------------------
(* Units.  A unit with an error ends the compilation.                      *)

Program == ""
RegisterItems(t, items) ==
  IF t.unit # Program THEN t
  ELSE [DeclareItems([t EXCEPT !.registering = TRUE], items, <<t.unit>>) EXCEPT !.registering = FALSE]
ResolveProgram(t, items) == IF t.errors # {} THEN t ELSE ResolveItems(DeclareItems(t, items, <<t.unit>>), items, <<t.unit>>)
ResolveUnit(unit, prefix, items, interfaces) ==
  TheOnly({ResolveProgram(t, items) : t \in {RegisterItems(Inject(Table(unit, prefix), interfaces), items)}})

VarTypes(t, types) == FoldLeft(LAMBDA a, s : IF s.kind = "variable" THEN (s.key :> types[s.name]) @@ a ELSE a, <<>>, t.symbols)
Joined(a, t, types) ==
  [vars |-> VarTypes(t, types) @@ a.vars, fns |-> t.fns @@ a.fns, refused |-> t.errors # {},
   interfaces |-> (t.unit :> ExtractScope(t, {}, 1).tree) @@ a.interfaces]
ProviderUnit(p) == [name |-> p.name, prefix |-> IF p.name = "std" THEN "" ELSE p.name \o "/", items |-> p.items]
CompileUnits(text, units) ==
  FoldStrictly(LAMBDA a, u : IF a.refused THEN a
                             ELSE TheOnly({Joined(a, t, text.vars) : t \in {ResolveUnit(u.name, u.prefix, u.items, a.interfaces)}}),
               [vars |-> <<>>, fns |-> <<>>, refused |-> FALSE, interfaces |-> <<>>], units)
Compile(text) ==
  LET units == Append([i \in DOMAIN text.providers |-> ProviderUnit(text.providers[i])],
                      [name |-> Program, prefix |-> "", items |-> text.items])
      Outcome(all) == IF all.refused THEN [vars |-> <<>>, fns |-> <<>>, refused |-> TRUE]
                      ELSE [vars |-> all.vars, fns |-> all.fns, refused |-> FALSE]
  IN Outcome(CompileUnits(text, units))
=============================================================================
