--------------------------------- MODULE FrontEnd ---------------------------------
(***************************************************************************)
(* A program from its implementations to the instances of its functions:   *)
(* implementations are registered, functions checked, what was postponed   *)
(* is solved, and if nothing was reported the instances are collected.     *)
(***************************************************************************)
EXTENDS Monomorphisation

CONSTANTS
  Programs, \* what may be declared
  Extras,   \* the sets of implementations a program may have besides its own
  Own,      \* the implementations every program has
  Library,  \* the functions every program has, in order
  Mains     \* [extras -> the functions a program with them may have of its own, in order]

VARIABLES
  pending,  \* implementations still to be registered, in order
  todo,     \* functions still to be checked, in order
  order,    \* functions checked, in order
  main,     \* the function the program starts from, "" until it is chosen
  stage     \* "impls", "check", "collect", "instances", "done" or "rejected"

vars == <<program, impls, ck, tables, mono, pending, todo, order, main, stage>>

Checker ==
  [accepted |-> <<>>, bound |-> [i \in 1..TraitVars |-> Unbound], st |-> NoSubst, et |-> <<>>, esub |-> <<>>, esym |-> <<>>, errs |-> {},
   obl |-> <<>>, items |-> [i \in DOMAIN Impls |-> Void], stack |-> {}, dyns |-> {}, out |-> Void, ok |-> TRUE,
   ret |-> Void, loops |-> 0]
Collector ==
  [work |-> <<>>, done |-> NoSubst, glue |-> {}, seen |-> {}, errs |-> {}, fn |-> "", cs |-> NoSubst, types |-> NoSubst,
   calls |-> NoSubst, barred |-> FALSE]

\* Resolution files the implementations before any of them is registered.
Init ==
  /\ program \in Programs
  /\ \E extra \in Extras : impls = SelectSeq([i \in DOMAIN Impls |-> i], LAMBDA i : i \in Own \cup extra)
  /\ pending = impls
  /\ todo = Library \o FoldLeft(LAMBDA acc, i : IF i \in Own THEN acc ELSE acc \o SetToSeq(Range(Impls[i].methods)), <<>>, impls)
  /\ ck = Checker /\ tables = NoSubst /\ mono = Collector
  /\ order = <<>> /\ main = "" /\ stage = "impls"

------------------------------------------------------------------------------
\* Locality and coherence.
Local(i) == (Impls[i].trait # "" /\ Impls[i].trait \notin ForeignTraits) \/ Impls[i].self.c = "nominal"
Conflicting(i) ==
  Impls[i].trait # "" /\ \E j \in Range(ck.accepted) : Impls[j].trait = Impls[i].trait /\ TypesOverlap(Impls[j].self, Impls[i].self)

\* An associated type is lowered among the implementations that were accepted, its own standing for itself.
Accepting(i) ==
  LET self == Proj(Impls[i].trait, Impls[i].self)
      with == [ck EXCEPT !.accepted = Append(@, i), !.items[i] = self]
  IN IF Impls[i].item = Void THEN [with EXCEPT !.items[i] = Void]
     ELSE TheOnly({[c EXCEPT !.items[i] = c.out] : c \in {Normalised(with, Impls[i].item)}})
RegisterImpl ==
  /\ stage = "impls"
  /\ LET i == Head(pending)
     IN ck' = IF ~ Local(i) THEN Fail(ck, "orphan") ELSE IF Conflicting(i) THEN Fail(ck, "conflict") ELSE Accepting(i)
  /\ pending' = Tail(pending)
  /\ stage' = IF Len(pending) = 1 THEN "check" ELSE stage
  /\ UNCHANGED <<program, impls, tables, mono, todo, order, main>>

------------------------------------------------------------------------------
\* Every node of a function's body has its own place in the tables.
RECURSIVE Numbered(_, _)
Numbered(node, n) ==
  LET Next1(acc, kid) == TheOnly({<<Append(acc[1], r[1]), r[2]>> : r \in {Numbered(kid, acc[2])}})
  IN TheOnly({ <<[node EXCEPT !.id = n, !.args = all[1]], all[2]>> : all \in {FoldStrictly(Next1, <<<<>>, n + 1>>, node.args)} })

\* The body is checked against tables of its own; what inference found stays.
Tables(c, body) == [body |-> body, et |-> c.et, esub |-> c.esub, esym |-> c.esym]
Checking(f) ==
  UNION {{ <<body, CheckFunction([ck EXCEPT !.et = [k \in 1..size |-> Unbound], !.esub = [k \in 1..size |-> NoSubst],
                                             !.esym = [k \in 1..size |-> ""]], f, body)>> :
           body \in {numbered[1]}, size \in {numbered[2] - 1} } : numbered \in {Numbered(Fns[f].body, 1)}}
CheckFn ==
  /\ stage = "check" /\ todo # <<>>
  /\ LET f == Head(todo)
     IN \E checked \in Checking(f) :
          /\ ck' = [checked[2] EXCEPT !.et = <<>>, !.esub = <<>>, !.esym = <<>>]
          /\ tables' = Assign(tables, f, Tables(checked[2], checked[1]))
          /\ order' = Append(order, f)
  /\ todo' = Tail(todo)
  /\ UNCHANGED <<program, impls, mono, pending, main, stage>>
\* The functions of the program that are not of the library follow it, main the last.
ChooseMain ==
  /\ stage = "check" /\ todo = <<>> /\ main = ""
  /\ \E own \in Mains[Range(impls) \ Own] : todo' = own /\ main' = Last(own)
  /\ UNCHANGED <<program, impls, ck, tables, mono, pending, order, stage>>

\* The postponed equalities are solved, and nothing is made of a program with an error.
Solve ==
  /\ stage = "check" /\ todo = <<>> /\ main # ""
  /\ \E c \in {SolveObligations(ck)} :
       /\ ck' = c
       /\ stage' = IF c.errs = {} THEN "collect" ELSE "rejected"
  /\ UNCHANGED <<program, impls, tables, mono, pending, todo, order, main>>

CollectRoots ==
  /\ stage = "collect"
  /\ mono' = [mono EXCEPT !.work = Roots(order, ck.dyns)]
  /\ stage' = "instances"
  /\ UNCHANGED <<program, impls, ck, tables, pending, todo, order, main>>

\* process_worklist: the instance asked for last comes first, and one that was made is passed over.
ProcessInstance ==
  /\ stage = "instances" /\ mono.work # <<>>
  /\ LET inst == Last(mono.work)
         popped == [mono EXCEPT !.work = Front(@)]
     IN mono' = IF inst \in DOMAIN mono.done THEN popped ELSE Process(popped, inst)
  /\ UNCHANGED <<program, impls, ck, tables, pending, todo, order, main, stage>>
FinishCollection ==
  /\ stage = "instances" /\ mono.work = <<>>
  /\ stage' = IF mono.errs = {} THEN "done" ELSE "rejected"
  /\ UNCHANGED <<program, impls, ck, tables, mono, pending, todo, order, main>>

Ended == stage \in {"done", "rejected"} /\ UNCHANGED vars
Next == RegisterImpl \/ CheckFn \/ ChooseMain \/ Solve \/ CollectRoots \/ ProcessInstance \/ FinishCollection \/ Ended
Spec == Init /\ [][Next]_vars /\ WF_vars(Next)
=============================================================================
