------------------------- MODULE InterproceduralProofs -------------------------
(***************************************************************************)
(* Proofs about the summary computation, for every module, every call      *)
(* graph and every inference: whenever the loop ends, in whatever order    *)
(* the hash set handed out the functions, no summary is stale.  The        *)
(* invariant is that a stale function is always still queued.  The second  *)
(* half is that the order cannot show in the summaries the loop ends with. *)
(***************************************************************************)
EXTENDS Interprocedural, IterationLemmas

QueueInv ==
  /\ InterTypeOK
  /\ StaleIsQueued
  /\ ~changed => worklist = {}
  /\ done => ~changed /\ batch = {}

LEMMA InterInitInv == InterInit => QueueInv
<1> SUFFICES ASSUME InterInit PROVE QueueInv
  OBVIOUS
<1>1. changed = TRUE /\ done = FALSE /\ worklist = Bodies \cup Extern(module) /\ batch = {}
  BY DEF InterInit
<1>2. module \in Modules /\ DOMAIN summaries = Bodies
  BY DEF InterInit
<1>3. InterTypeOK
  BY <1>1, <1>2 DEF InterTypeOK
<1>4. StaleIsQueued
  BY <1>1 DEF StaleIsQueued
<1> QED
  BY <1>1, <1>3, <1>4 DEF QueueInv

LEMMA InterTypeStep == InterTypeOK /\ [InterNext]_interVars => InterTypeOK'
<1> SUFFICES ASSUME InterTypeOK, [InterNext]_interVars PROVE InterTypeOK'
  OBVIOUS
<1>1. CASE NextRound
  BY <1>1 DEF NextRound, InterTypeOK, Bodies
<1>2. CASE SkipExtern
  BY <1>2 DEF SkipExtern, InterTypeOK, Bodies
<1>3. ASSUME NEW f \in Bodies, Process(f) PROVE InterTypeOK'
  <2>1. Callers(f) \subseteq Bodies \cup Extern(module)
    BY DEF Callers
  <2>2. /\ module' = module /\ done' = done
        /\ batch' \subseteq Bodies \cup Extern(module)
    BY <1>3 DEF Process, InterTypeOK
  <2>3. worklist' \subseteq Bodies \cup Extern(module)
    BY <1>3, <2>1 DEF Process, InterTypeOK
  <2>4. DOMAIN summaries' = Bodies
    BY <1>3 DEF Process, InterTypeOK
  <2>5. changed' \in BOOLEAN
    BY <1>3 DEF Process, InterTypeOK
  <2> QED
    BY <2>2, <2>3, <2>4, <2>5 DEF InterTypeOK, Bodies
<1>4. CASE UNCHANGED interVars
  BY <1>4 DEF interVars, InterTypeOK, Bodies
<1> QED
  BY <1>1, <1>2, <1>3, <1>4 DEF InterNext

\* The inference of f reads no more than the summaries of its callees.
LEMMA SameCallees ==
  ASSUME module' = module, NEW f,
         \A g \in Callees(module, f) \cap Bodies : summaries'[g] = summaries[g]
  PROVE  Inferred(f)' = Inferred(f)
<1>1. [g \in Callees(module, f) \cap Bodies |-> summaries'[g]]
        = [g \in Callees(module, f) \cap Bodies |-> summaries[g]]
  OBVIOUS
<1> QED
  BY <1>1 DEF Inferred, Bodies

LEMMA StaleStep == QueueInv /\ [InterNext]_interVars => StaleIsQueued'
<1> SUFFICES ASSUME QueueInv, [InterNext]_interVars, NEW h \in Bodies',
                    Inferred(h)' # summaries'[h]
             PROVE  h \in batch' \cup worklist'
  BY DEF StaleIsQueued
<1> USE DEF QueueInv
<1>0. module' = module /\ h \in Bodies
  BY DEF InterNext, NextRound, SkipExtern, Process, interVars, Bodies
<1>1. CASE NextRound
  <2>1. summaries' = summaries /\ batch' \cup worklist' = batch \cup worklist
    BY <1>1 DEF NextRound
  <2>2. Inferred(h)' = Inferred(h)
    BY <1>0, <2>1, SameCallees
  <2> QED
    BY <1>0, <2>1, <2>2 DEF StaleIsQueued
<1>2. CASE SkipExtern
  <2>1. summaries' = summaries /\ worklist' = worklist
    BY <1>2 DEF SkipExtern
  <2>2. PICK f \in batch \ Bodies : batch' = batch \ {f}
    BY <1>2 DEF SkipExtern
  <2>3. Inferred(h)' = Inferred(h)
    BY <1>0, <2>1, SameCallees
  <2> QED
    BY <1>0, <2>1, <2>2, <2>3 DEF StaleIsQueued
<1>3. ASSUME NEW f \in Bodies, Process(f) PROVE h \in batch' \cup worklist'
  <2>1. batch' = batch \ {f}
    BY <1>3 DEF Process
  <2>2. CASE Inferred(f) = summaries[f]
    <3>1. summaries' = summaries /\ worklist' = worklist
      BY <1>3, <2>2 DEF Process
    <3>2. Inferred(h)' = Inferred(h)
      BY <1>0, <3>1, SameCallees
    <3> QED
      BY <1>0, <2>1, <2>2, <3>1, <3>2 DEF StaleIsQueued
  <2>3. CASE Inferred(f) # summaries[f]
    <3>1. summaries' = [summaries EXCEPT ![f] = Inferred(f)] /\ worklist' = worklist \cup Callers(f)
      BY <1>3, <2>3 DEF Process
    <3>2. CASE f \in Callees(module, h)
      BY <1>0, <3>1, <3>2 DEF Callers
    <3>3. CASE f \notin Callees(module, h)
      <4>1. \A g \in Callees(module, h) \cap Bodies : summaries'[g] = summaries[g]
        BY <3>1, <3>3 DEF InterTypeOK
      <4>2. Inferred(h)' = Inferred(h)
        BY <1>0, <4>1, SameCallees
      <4>3. h # f
        BY <3>1, <4>2 DEF InterTypeOK
      <4>4. summaries'[h] = summaries[h]
        BY <1>0, <3>1, <4>3 DEF InterTypeOK
      <4>5. h \in batch \cup worklist
        BY <1>0, <4>2, <4>4 DEF StaleIsQueued
      <4> QED
        BY <2>1, <3>1, <4>3, <4>5
    <3> QED
      BY <3>2, <3>3
  <2> QED
    BY <2>2, <2>3
<1>4. CASE UNCHANGED interVars
  <2>1. Inferred(h)' = Inferred(h)
    BY <1>0, <1>4, SameCallees DEF interVars
  <2> QED
    BY <1>0, <1>4, <2>1 DEF interVars, StaleIsQueued
<1> QED
  BY <1>1, <1>2, <1>3, <1>4 DEF InterNext

LEMMA QuietStep == QueueInv /\ [InterNext]_interVars =>
                     /\ ~changed' => worklist' = {}
                     /\ done' => ~changed' /\ batch' = {}
<1> SUFFICES ASSUME QueueInv, [InterNext]_interVars
             PROVE  /\ ~changed' => worklist' = {}
                    /\ done' => ~changed' /\ batch' = {}
  OBVIOUS
<1>1. CASE NextRound
  BY <1>1 DEF NextRound, QueueInv
<1>2. CASE SkipExtern
  BY <1>2 DEF SkipExtern, QueueInv
<1>3. ASSUME NEW f \in Bodies, Process(f)
      PROVE  /\ ~changed' => worklist' = {}
             /\ done' => ~changed' /\ batch' = {}
  BY <1>3 DEF Process, QueueInv
<1>4. CASE UNCHANGED interVars
  BY <1>4 DEF interVars, QueueInv
<1> QED
  BY <1>1, <1>2, <1>3, <1>4 DEF InterNext

-----------------------------------------------------------------------------
\* The inductive invariant of the summary computation.
THEOREM QueueInvariant == InterSpec => []QueueInv
<1>1. InterInit => QueueInv
  BY InterInitInv
<1>2. QueueInv /\ [InterNext]_interVars => QueueInv'
  BY InterTypeStep, StaleStep, QuietStep DEF QueueInv
<1> QED
  BY <1>1, <1>2, PTL DEF InterSpec

\* A stale summary is never forgotten by the worklist.
THEOREM StaleNeverForgotten == InterSpec => []StaleIsQueued
<1>1. QueueInv => StaleIsQueued
  BY DEF QueueInv
<1> QED
  BY <1>1, QueueInvariant, PTL

\* The loop only ends at a fixed point of the inference.
THEOREM EndsAtFixedPoint == InterSpec => []SummariesAgree
<1>1. QueueInv => SummariesAgree
  <2> SUFFICES ASSUME QueueInv, done, NEW f \in Bodies PROVE Inferred(f) = summaries[f]
    BY DEF SummariesAgree
  <2>1. batch = {} /\ worklist = {}
    BY DEF QueueInv
  <2> QED
    BY <2>1 DEF QueueInv, StaleIsQueued
<1> QED
  BY <1>1, QueueInvariant, PTL

-----------------------------------------------------------------------------
(* The summaries do not depend on the order of the hash set.               *)

\* The rounds lead from the defaults to their last table.
LEMMA RoundsLead ==
  ASSUME NEW m, NEW T, Closed(m, T)
  PROVE  \E g : /\ g \in [0 .. Rounds -> T] /\ g[0] = Defaults(m) /\ g[Rounds] = Together(m)
                /\ \A i \in 1 .. Rounds : g[i] = Round(m, g[i - 1])
<1> DEFINE F == [t \in T |-> Round(m, t)]
           turns == [n \in 1 .. Rounds |-> n]
<1>1. F \in [T -> T] /\ Defaults(m) \in T /\ \A t \in T : F[t] = Round(m, t)
  BY DEF Closed
<1>2. PICK g : Iterates(g, T, Defaults(m), F, Rounds)
  <2> HIDE DEF F
  <2> QED
    BY <1>1, RoundsAssumption, IterationExists
<1>3. g \in [0 .. Rounds -> T] /\ g[0] = Defaults(m) /\ \A i \in 1 .. Rounds : g[i] = F[g[i - 1]]
  BY <1>2 DEF Iterates
<1>4. ASSUME NEW i \in 1 .. Rounds PROVE g[i] = Round(m, g[i - 1])
  <2>1. i - 1 \in 0 .. Rounds
    BY RoundsAssumption
  <2>2. g[i - 1] \in T /\ g[i] = F[g[i - 1]]
    BY <1>3, <2>1
  <2> HIDE DEF F
  <2> QED
    BY <1>1, <2>2
<1> HIDE DEF F
<1>5. Len(turns) = Rounds
  <2>1. turns \in Seq(Nat) /\ DOMAIN turns = 1 .. Rounds
    BY RoundsAssumption
  <2> QED
    BY <2>1, RoundsAssumption
<1> HIDE DEF turns
<1> DEFINE Fold(f) == f = [i \in 0 .. Len(turns) |->
                             IF i = 0 THEN Defaults(m)
                             ELSE TheOnly({Round(m, a) : a \in {f[i - 1]}})]
           fold == CHOOSE f : Fold(f)
<1>6. \A x : TheOnly({Round(m, a) : a \in {x}}) = Round(m, x)
  BY DEF TheOnly
<1>7. Fold(g)
  <2> DEFINE h == [i \in 0 .. Rounds |->
                     IF i = 0 THEN Defaults(m) ELSE TheOnly({Round(m, a) : a \in {g[i - 1]}})]
  <2>1. ASSUME NEW i \in 0 .. Rounds PROVE g[i] = h[i]
    <3>1. CASE i = 0
      BY <1>3, <3>1
    <3>2. CASE i # 0
      <4>1. i \in 1 .. Rounds
        BY <3>2, RoundsAssumption
      <4>2. h[i] = Round(m, g[i - 1])
        BY <1>6, <3>2
      <4> QED
        BY <1>4, <4>1, <4>2
    <3> QED
      BY <3>1, <3>2
  <2>2. g = h
    BY <1>3, <2>1
  <2> QED
    BY <1>5, <2>2
<1>8. Fold(fold)
  BY <1>7
<1>9. Together(m) = fold[Rounds]
  BY <1>5 DEF Together, FoldStrictly, turns
<1>10. \A i \in 0 .. Rounds : fold[i] = IF i = 0 THEN Defaults(m) ELSE Round(m, fold[i - 1])
  <2> HIDE DEF fold
  <2> QED
    BY <1>5, <1>6, <1>8
<1> HIDE DEF fold
<1> DEFINE G == {i \in 0 .. Rounds : fold[i] = g[i]}
<1>11. 0 \in G
  BY <1>3, <1>10, RoundsAssumption
<1>12. ASSUME NEW i \in 1 .. Rounds, i - 1 \in G PROVE i \in G
  <2>1. i \in 0 .. Rounds /\ i # 0
    BY RoundsAssumption
  <2> QED
    BY <1>4, <1>10, <1>12, <2>1
<1>13. Rounds \in G
  <2>1. G \in SUBSET (0 .. Rounds)
    OBVIOUS
  <2> HIDE DEF G
  <2>2. G = 0 .. Rounds
    BY <1>11, <1>12, <2>1, RoundsAssumption, Chain
  <2> QED
    BY <2>2, RoundsAssumption
<1> QED
  BY <1>3, <1>4, <1>9, <1>13

\* Where the rounds end is a table no smaller than the defaults.
LEMMA RoundsEnd ==
  ASSUME NEW m, NEW T, NEW R, Ascends(m, T, R)
  PROVE  Together(m) \in T /\ AtMost(m, R, Defaults(m), Together(m)) /\ AtMost(m, R, Together(m), Together(m))
<1>1. Closed(m, T)
  BY DEF Ascends
<1>2. Together(m) \in T
  <2>1. PICK g : g \in [0 .. Rounds -> T] /\ g[Rounds] = Together(m)
    BY <1>1, RoundsLead
  <2> QED
    BY <2>1, RoundsAssumption
<1> QED
  BY <1>2 DEF Ascends

\* No summary ever exceeds the one the rounds end with.
BoundedInv ==
  \A T, R : Ascends(module, T, R) => summaries \in T /\ AtMost(module, R, summaries, Together(module))

LEMMA BoundedStep ==
  ASSUME BoundedInv, NEW f \in Bodies, Process(f)
  PROVE  BoundedInv'
<1>1. module' = module
  BY DEF Process
<1> SUFFICES ASSUME NEW T, NEW R, Ascends(module, T, R)
             PROVE  summaries' \in T /\ AtMost(module, R, summaries', Together(module))
  BY <1>1 DEF BoundedInv
<1>2. summaries \in T /\ AtMost(module, R, summaries, Together(module))
  BY DEF BoundedInv
<1> DEFINE after == Round(module, summaries)
<1>3. after[f] = Inferred(f) /\ f \in Defined(module)
  BY DEF Round, Inferred, Bodies
<1>4. CASE summaries' = summaries
  BY <1>2, <1>4
<1>5. CASE summaries' = [summaries EXCEPT ![f] = Inferred(f)]
  <2>1. summaries' \in T
    BY <1>2, <1>3, <1>5 DEF Ascends, Closed
  <2>2. AtMost(module, R, after, Together(module))
    <3>1. Together(module) \in T /\ AtMost(module, R, Together(module), Together(module))
      BY RoundsEnd
    <3>2. Round(module, Together(module)) = Together(module)
      BY DEF Ascends
    <3>3. AtMost(module, R, after, Round(module, Together(module)))
      BY <1>2, <3>1 DEF Ascends
    <3> QED
      BY <3>2, <3>3
  <2>3. summaries = [g \in Defined(module) |-> summaries[g]]
    BY <1>2 DEF Ascends, Closed
  <2> HIDE DEF after
  <2>4. \A g \in Defined(module) : summaries'[g] = IF g = f THEN after[f] ELSE summaries[g]
    BY <1>3, <1>5, <2>3
  <2> QED
    BY <1>2, <1>3, <2>1, <2>2, <2>4 DEF AtMost
<1> QED
  BY <1>4, <1>5 DEF Process

LEMMA BoundedAlong ==
  ASSUME BoundedInv, [InterNext]_interVars
  PROVE  BoundedInv'
<1>1. CASE UNCHANGED <<module, summaries>>
  BY <1>1 DEF BoundedInv
<1>2. CASE \E f \in Bodies : Process(f)
  BY <1>2, BoundedStep
<1> QED
  BY <1>1, <1>2 DEF InterNext, NextRound, SkipExtern, interVars

\* Where the loop ends, the rounds are below: they start below and cannot get past a fixed point.
LEMMA EndsTogether ==
  ASSUME BoundedInv, SummariesAgree, done, Ascending(module)
  PROVE  summaries = Together(module)
<1>1. PICK T, R : Ascends(module, T, R)
  BY DEF Ascending
<1>2. summaries \in T /\ AtMost(module, R, summaries, Together(module))
  BY <1>1 DEF BoundedInv
<1>3. Round(module, summaries) = summaries
  <2>1. summaries = [f \in Defined(module) |-> summaries[f]]
    BY <1>1, <1>2 DEF Ascends, Closed
  <2>2. \A f \in Defined(module) : Inferred(f) = summaries[f]
    BY DEF SummariesAgree, Bodies
  <2>3. Round(module, summaries) = [f \in Defined(module) |-> Inferred(f)]
    BY DEF Round, Inferred, Bodies
  <2> QED
    BY <2>1, <2>2, <2>3
<1>4. PICK g : /\ g \in [0 .. Rounds -> T] /\ g[0] = Defaults(module) /\ g[Rounds] = Together(module)
               /\ \A i \in 1 .. Rounds : g[i] = Round(module, g[i - 1])
  BY <1>1, RoundsLead DEF Ascends
<1> DEFINE G == {i \in 0 .. Rounds : AtMost(module, R, g[i], summaries)}
<1>5. 0 \in G
  <2>1. AtMost(module, R, Defaults(module), Round(module, summaries))
    BY <1>1, <1>2 DEF Ascends
  <2> QED
    BY <1>3, <1>4, <2>1, RoundsAssumption
<1>6. ASSUME NEW i \in 1 .. Rounds, i - 1 \in G PROVE i \in G
  <2>1. i \in 0 .. Rounds /\ i - 1 \in 0 .. Rounds /\ AtMost(module, R, g[i - 1], summaries)
    BY <1>6, RoundsAssumption
  <2>2. g[i - 1] \in T /\ g[i] = Round(module, g[i - 1])
    BY <1>4, <2>1
  <2>3. AtMost(module, R, Round(module, g[i - 1]), Round(module, summaries))
    BY <1>1, <1>2, <2>1, <2>2 DEF Ascends
  <2> QED
    BY <1>3, <2>1, <2>2, <2>3
<1>7. AtMost(module, R, Together(module), summaries)
  <2>1. G \in SUBSET (0 .. Rounds)
    OBVIOUS
  <2> HIDE DEF G
  <2>2. Rounds \in G
    <3>1. G = 0 .. Rounds
      BY <1>5, <1>6, <2>1, RoundsAssumption, Chain
    <3> QED
      BY <3>1, RoundsAssumption
  <2> QED
    BY <1>4, <2>2 DEF G
<1> QED
  BY <1>1, <1>2, <1>7, RoundsEnd DEF Ascends

(***************************************************************************)
(* In whatever order the hash set hands out the functions, the loop can    *)
(* only end at the summaries that inferring all of them together leads to, *)
(* for every module in which a callee that does more never makes its       *)
(* caller do less.                                                         *)
(***************************************************************************)
THEOREM OrderDoesNotMatter == InterSpec => [](Ascending(module) => OrderIndependent)
<1>1. InterInit => BoundedInv
  <2> SUFFICES ASSUME InterInit, NEW T, NEW R, Ascends(module, T, R)
               PROVE  summaries \in T /\ AtMost(module, R, summaries, Together(module))
    BY DEF BoundedInv
  <2>1. summaries = Defaults(module)
    BY DEF InterInit, Defaults, Bodies
  <2> QED
    BY <2>1, RoundsEnd DEF Ascends, Closed
<1>2. BoundedInv /\ [InterNext]_interVars => BoundedInv'
  BY BoundedAlong
<1>3. BoundedInv /\ SummariesAgree => (Ascending(module) => OrderIndependent)
  BY EndsTogether DEF OrderIndependent
<1> QED
  BY <1>1, <1>2, <1>3, EndsAtFixedPoint, PTL DEF InterSpec
=============================================================================
