----------------------------- MODULE ProviderOrder -----------------------------
(***************************************************************************)
(* The order in which the providers of the sysroot are built               *)
(* (crates/luna-driver/src/sysroot_builder.rs): Kahn's algorithm with the  *)
(* smallest ready provider first, and the search that names a cycle when   *)
(* the algorithm gets stuck.                                               *)
(*                                                                         *)
(* A graph maps a provider, a number that stands for its name in           *)
(* lexicographic order, to the sequence of its imports.  The sequence is   *)
(* as long as the file has import declarations.                            *)
(***************************************************************************)
EXTENDS Naturals, Sequences, FiniteSets, SequencesExt, StrictFold

Least(S) == CHOOSE x \in S : \A y \in S : x <= y
Ascending(S) == SetToSortSeq(S, <)

\* An import of what is no provider is an error before the graph is sorted.
IsGraph(graph) ==
  /\ DOMAIN graph \subseteq Nat /\ IsFiniteSet(DOMAIN graph)
  /\ \A p \in DOMAIN graph : graph[p] \in Seq(DOMAIN graph)

Imports(graph, p) == ToSet(graph[p])

-----------------------------------------------------------------------------
(***************************************************************************)
(* The in-degree counts import declarations; a built provider takes one    *)
(* off every importer.                                                     *)
(***************************************************************************)
KahnStart(graph) ==
  [degree |-> [p \in DOMAIN graph |-> Len(graph[p])],
   queue  |-> {p \in DOMAIN graph : graph[p] = <<>>},
   result |-> <<>>]

\* Mistake: the last ready provider comes first.
KahnStepLatest(graph, k) ==
  LET node      == CHOOSE x \in k.queue : \A y \in k.queue : x >= y
      importers == {p \in DOMAIN graph : node \in Imports(graph, p)}
      degree    == [p \in DOMAIN graph |->
                      IF p \in importers /\ k.degree[p] > 0 THEN k.degree[p] - 1 ELSE k.degree[p]]
  IN  [degree |-> degree,
       queue  |-> (k.queue \ {node}) \cup {p \in importers : degree[p] = 0},
       result |-> Append(k.result, node)]

KahnStep(graph, k) ==
  LET node      == Least(k.queue)
      importers == {p \in DOMAIN graph : node \in Imports(graph, p)}
      degree    == [p \in DOMAIN graph |->
                      IF p \in importers /\ k.degree[p] > 0 THEN k.degree[p] - 1 ELSE k.degree[p]]
  IN  [degree |-> degree,
       queue  |-> (k.queue \ {node}) \cup {p \in importers : degree[p] = 0},
       result |-> Append(k.result, node)]

\* The loop ends with an empty queue, after at most as many turns as there are providers.
KahnTurn(graph, k) == IF k.queue = {} THEN k ELSE KahnStep(graph, k)

Kahn(graph) ==
  FoldStrictly(LAMBDA k, turn : KahnTurn(graph, k),
               KahnStart(graph), [turn \in 1 .. Cardinality(DOMAIN graph) |-> turn]).result

(***************************************************************************)
(* Depth-first search from `stack`'s last provider through blocked         *)
(* providers, smallest import first, until an import is on the stack.      *)
(***************************************************************************)
FindCycle(graph, blocked) ==
  LET Search == [stack : Seq(blocked), visited : SUBSET blocked]
      dfs[s \in Search] ==
        LET current == Last(s.stack)
            visit(acc, dep) ==
              CASE acc.cycle # <<>> -> acc
                [] acc.cycle = <<>> /\ dep \in ToSet(s.stack) ->
                     [acc EXCEPT !.cycle =
                        Append(SubSeq(s.stack, SelectInSeq(s.stack, LAMBDA p : p = dep), Len(s.stack)), dep)]
                [] acc.cycle = <<>> /\ dep \notin ToSet(s.stack) /\ dep \notin acc.visited ->
                     dfs[[stack |-> Append(s.stack, dep), visited |-> acc.visited]]
                [] OTHER -> acc
            found == FoldStrictly(visit, [cycle |-> <<>>, visited |-> s.visited],
                              Ascending(Imports(graph, current) \cap blocked))
        IN  IF found.cycle # <<>> THEN found
            ELSE [found EXCEPT !.visited = @ \cup {current}]
      start(acc, p) ==
        IF acc.cycle # <<>> \/ p \in acc.visited THEN acc
        ELSE dfs[[stack |-> <<p>>, visited |-> acc.visited]]
      found == FoldStrictly(start, [cycle |-> <<>>, visited |-> {}], Ascending(blocked))
  IN  IF found.cycle # <<>> THEN found.cycle ELSE Ascending(blocked)

\* The build order, or the cycle that is reported.
OrderOrCycle(graph, order) ==
  IF Len(order) = Cardinality(DOMAIN graph)
  THEN [ok |-> TRUE, path |-> order]
  ELSE [ok |-> FALSE, path |-> FindCycle(graph, DOMAIN graph \ ToSet(order))]

BuildOrder(graph) == TheOnly({OrderOrCycle(graph, order) : order \in {Kahn(graph)}})
=============================================================================
