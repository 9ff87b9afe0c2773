---------------------------- MODULE Interprocedural ----------------------------
(***************************************************************************)
(* InterproceduralContext::compute_summaries                               *)
(* (crates/luna-borrowck/src/interprocedural.rs): the effect summaries of  *)
(* all functions of a module, by chaotic iteration over a worklist.        *)
(*                                                                         *)
(* The worklist is a HashSet that is drained into a batch, so a batch is   *)
(* processed in any order; a function whose summary changed puts its       *)
(* callers on the next worklist.  A new summary replaces the old one.      *)
(***************************************************************************)
EXTENDS Naturals, StrictFold

CONSTANTS
  Modules,        \* the modules that may be analysed
  Defined(_),     \* the functions of a module that have a body
  Extern(_),      \* its functions that are only declared
  Callees(_, _),  \* the functions a function calls directly
  Default(_, _),  \* CallEffectSummary::default_for_args
  Infer(_, _, _), \* the summary inferred for a function, given those of its callees
  Rounds          \* after how many rounds inferring all functions at once changes nothing

ASSUME RoundsAssumption == Rounds \in Nat

VARIABLES
  module,
  summaries,
  worklist,   \* what the next round of `while changed` will process
  batch,      \* what this round still has to process
  changed,
  done

interVars == <<module, summaries, worklist, batch, changed, done>>

Bodies == Defined(module)
\* The inference looks up the summaries of the functions that f calls directly.
Inferred(f) == Infer(module, f, [g \in Callees(module, f) \cap Bodies |-> summaries[g]])

\* Mistake: the callers of a function whose summary changed are not inferred again.
NoCallers(g) == {}

Callers(g) == {f \in Bodies \cup Extern(module) : g \in Callees(module, f)}

InterInit ==
  /\ module \in Modules
  /\ summaries = [f \in Bodies |-> Default(module, f)]
  /\ worklist = Bodies \cup Extern(module)
  /\ batch = {}
  /\ changed = TRUE
  /\ done = FALSE

\* Mistake: the loop condition is never reset.
NextRoundForever ==
  /\ batch = {}
  /\ ~done
  /\ batch' = worklist
  /\ worklist' = {}
  /\ UNCHANGED <<module, summaries, changed, done>>

\* `while changed`: drain the worklist into the next batch, or stop.
NextRound ==
  /\ batch = {}
  /\ ~done
  /\ \/ /\ changed
        /\ changed' = FALSE
        /\ batch' = worklist
        /\ worklist' = {}
        /\ UNCHANGED done
     \/ /\ ~changed
        /\ done' = TRUE
        /\ UNCHANGED <<changed, batch, worklist>>
  /\ UNCHANGED <<module, summaries>>

SkipExtern ==
  /\ \E f \in batch \ Bodies : batch' = batch \ {f}
  /\ UNCHANGED <<module, summaries, worklist, changed, done>>

Process(f) ==
  LET new == Inferred(f)
  IN  /\ f \in batch \cap Bodies
      /\ batch' = batch \ {f}
      /\ \/ /\ new = summaries[f]
            /\ UNCHANGED <<summaries, worklist, changed>>
         \/ /\ new # summaries[f]
            /\ summaries' = [summaries EXCEPT ![f] = new]
            /\ worklist' = worklist \cup Callers(f)
            /\ changed' = TRUE
      /\ UNCHANGED <<module, done>>

InterNext == NextRound \/ SkipExtern \/ \E f \in Bodies : Process(f)

InterSpec == InterInit /\ [][InterNext]_interVars /\ WF_interVars(InterNext)

-----------------------------------------------------------------------------
InterTypeOK ==
  /\ module \in Modules
  /\ DOMAIN summaries = Bodies
  /\ worklist \subseteq Bodies \cup Extern(module)
  /\ batch \subseteq Bodies \cup Extern(module)
  /\ changed \in BOOLEAN
  /\ done \in BOOLEAN

(***************************************************************************)
(* When the loop ends, no summary is stale: inferring any function again   *)
(* from the final summaries gives the summary it has.                      *)
(***************************************************************************)
SummariesAgree == done => \A f \in Bodies : Inferred(f) = summaries[f]

\* A function whose summary is out of date is waiting to be processed again.
StaleIsQueued ==
  \A f \in Bodies : Inferred(f) # summaries[f] => f \in batch \cup worklist

\* All functions at once are inferred from a table of summaries.
Round(m, table) ==
  [f \in Defined(m) |-> Infer(m, f, [g \in Callees(m, f) \cap Defined(m) |-> table[g]])]

Defaults(m) == [f \in Defined(m) |-> Default(m, f)]

Together(m) ==
  FoldStrictly(LAMBDA table, n : Round(m, table), Defaults(m), [n \in 1 .. Rounds |-> n])

(***************************************************************************)
(* The summaries do not depend on the order of the hash set: they are the  *)
(* ones that rounds of inferring all functions at once lead to.            *)
(***************************************************************************)
OrderIndependent == done => summaries = Together(module)

(***************************************************************************)
(* The order of the hash set.  T is a set of tables of summaries that the  *)
(* loop and the rounds stay in; R is an order of summaries in which        *)
(* inference only adds to the default and, as long as no summary exceeds   *)
(* the one the rounds end with, infers no less from more.                  *)
(***************************************************************************)
AtMost(m, R, t, u) == \A f \in Defined(m) : <<t[f], u[f]>> \in R

Closed(m, T) ==
  /\ Defaults(m) \in T
  /\ \A t \in T : /\ t = [f \in Defined(m) |-> t[f]]
                  /\ Round(m, t) \in T
                  /\ \A f \in Defined(m) : [t EXCEPT ![f] = Round(m, t)[f]] \in T

Ascends(m, T, R) ==
  /\ Closed(m, T)
  /\ \A t \in T : AtMost(m, R, t, t) /\ AtMost(m, R, Defaults(m), Round(m, t))
  /\ \A t, u \in T : AtMost(m, R, t, u) /\ AtMost(m, R, u, t) => t = u
  /\ Round(m, Together(m)) = Together(m)
  /\ \A u \in T : AtMost(m, R, u, Together(m)) =>
       \A t \in T : AtMost(m, R, t, u) => AtMost(m, R, Round(m, t), Round(m, u))

\* The inference of the module is monotone in some order.
Ascending(m) == \E T, R : Ascends(m, T, R)

\* The loop ends.
SummariesComputed == <>done
=============================================================================
