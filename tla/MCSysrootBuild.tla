----------------------------- MODULE MCSysrootBuild -----------------------------
EXTENDS SysrootBuild

CONSTANTS b1, b2

\* Three providers that import one another in every way, and one that imports itself.
SimpleGraphs ==
  {[p \in 1 .. 3 |-> Ascending(g[p])] : g \in {h \in [1 .. 3 -> SUBSET (1 .. 3)] : \A p \in 1 .. 3 : p \notin h[p]}}
Narcissus == << <<>>, <<1, 2>>, <<2>> >>

\* A chain, and two providers that import each other.
Chain == << <<2>>, <<>> >>
Knot == << <<2>>, <<1>> >>

AllSetups == [graph : SimpleGraphs \cup {Narcissus}, source : {"good"}]
             \cup [graph : {Chain, Knot}, source : {"missing", "unreadable"}]
=============================================================================
