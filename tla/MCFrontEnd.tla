-------------------------------- MODULE MCFrontEnd --------------------------------
(***************************************************************************)
(* The programs of GenericLibrary: each main with the implementations it   *)
(* needs, and for coherence every one or two of the others of one trait.   *)
(***************************************************************************)
EXTENDS GenericLibrary, ProgramTyping

MCExtras ==
  {e \in SUBSET (10..Len(MCImpls)) : Cardinality(e) <= 2 /\ \A i, j \in e : MCImpls[i].trait = MCImpls[j].trait}
MCMains ==
  [e \in MCExtras |->
     IF e = {} THEN {<<m>> : m \in (DOMAIN MCGoodMains \cup DOMAIN MCBadMains) \ {"shown", "bad_shared"}}
                    \cup {<<"set_to", "bad_shared">>, <<"gcd", "empty">>}
     ELSE IF e = {15} THEN {<<"shown">>} ELSE {<<"empty">>}]
FuelBound == 20
\* Two implementations of one trait for different instantiations of a type, and a call on the second.
MCPairExtras == {{16, 17}}
MCPairMains == ({16, 17} :> {<<"shows_pair">>})
------------------------------------------------------------------------------
\* A method with a parameter of its own written like one of its implementation or of the type it is for.
Homonymous(f) ==
  f \in DOMAIN Fns /\ \E g \in Range(Fns[f].gen) : \E i \in OwnersOf(f) :
    \E h \in Range(Impls[i].gen \o Decls[Impls[i].self.id].gen) : NameOf(h) = NameOf(g)
\* A program the front end accepts runs as it was typed: every value is of the type its expression was given in the
\* instance it is in, every call enters the code of the implementation that is for its receiver, and every match has a case
\* (typecheck_expr, try_coerce, check_bounds_for_call; mono.rs visit_expr).  Parameters looked up by name may be taken for one
\* another only where a method that has a homonym in its own surroundings is made.
OnlyHomonymsMistype ==
  stage = "done" => RunOf(FuelBound).bad = {} \/ \E inst \in DOMAIN mono.done : Homonymous(inst.fn)

\* "Distinct concrete generic instantiations ... are non-overlapping and permitted" (docs/mellis-language-semantic-audit.md:265),
\* and "at most one applicable impl" is for a trait and a type (261): a method call enters an implementation for its receiver.
ApplicableIsEntered == stage = "done" => "dispatch" \notin RunOf(FuelBound).bad

\* What a value owns: itself, the fields of a struct, every payload of an enum, the elements of a tuple or an array.
RECURSIVE OwnedParts(_)
OwnedParts(t) ==
  {t} \cup UNION {OwnedParts(part) : part \in CASE t.c = "nominal" -> Range(FieldTypes(t))
                                                [] t.c \in {"tuple", "array"} -> Range(t.args)
                                                [] OTHER -> {}}
DropsOf(t) ==
  {Instance(MethodOf(i, "drop"), PairsOf(Impls[i].gen, s)) :
     <<i, s>> \in UNION {{j} \X Matching(Ground, NoSubst, Impls[j].self, t) : j \in {k \in Range(impls) : Impls[k].trait = "Drop"}}}
RECURSIVE Nodes(_)
Nodes(e) == {e} \cup UNION {Nodes(e.args[i]) : i \in DOMAIN e.args}
\* The types of the variables of an instance that the end of their scope drops.
VariableTypes(inst) ==
  LET own == [cs |-> SubstOf(inst)]
      names == {Fns[inst.fn].params[i][1] : i \in DOMAIN Fns[inst.fn].params}
               \cup {e.sym : e \in {d \in Nodes(tables[inst.fn].body) : d.k \in {"let", "pbind"} /\ d.sym # ""}}
  IN {Substituted(own, ck.st[x]) : x \in names}
Resolves(inst, e) ==
  LET fr == mono.done[inst]
      byName == e.k = "call" /\ e.args[1].k = "fn"
      byReceiver == e.k = "method" /\ Peeled(fr.types[e.args[1].id]).c # "dyn"
  IN byName \/ byReceiver => e.id \in DOMAIN fr.calls /\ fr.calls[e.id] \in DOMAIN mono.done /\ fr.calls[e.id].fn \in DOMAIN Fns
\* Nothing the generator will ask for was left out: every call of every instance has the instance it enters, and for every
\* variable all that dropping it runs is there, whatever its parts are: their glue, and the drop of each implementation
\* that is for one of them (mono.rs discover_drop_obligations, process_worklist).
CodeIsClosed ==
  stage = "done" =>
    \A inst \in DOMAIN mono.done :
      /\ \A e \in Nodes(tables[inst.fn].body) : Resolves(inst, e)
      /\ \A t \in VariableTypes(inst) : \A part \in OwnedParts(t) :
           /\ DropsOf(part) \subseteq DOMAIN mono.done
           /\ part.c \in {"nominal", "tuple"} /\ UNION {DropsOf(u) : u \in OwnedParts(part)} # {} => part \in mono.glue

SmallTypes == {I32, Bool, Tag, WrapOf(I32), WrapOf(Bool), WrapOf(WrapOf(I32)), OptOf(Bool)}
GroundInstances ==
  [i \in DOMAIN Impls |-> {Instantiate(s, Impls[i].self) : s \in [Range(Impls[i].gen) -> SmallTypes]}]
\* Implementations of one trait are accepted together exactly when no type is of both: of what is accepted no two share an
\* instance, and what is refused though it is local shares one with an implementation accepted before it (coherence.rs).
CoherenceIsExact ==
  LET Share(i, j) == Impls[i].trait = Impls[j].trait /\ GroundInstances[i] \cap GroundInstances[j] # {}
      in == {i \in Range(ck.accepted) : Impls[i].trait # ""}
      refused == {i \in Range(impls) \ (Range(ck.accepted) \cup Range(pending)) : Local(i)}
  IN (\A i, j \in in : i # j => ~ Share(i, j)) /\ (\A i \in refused : \E j \in in : j < i /\ Share(i, j))
=============================================================================
