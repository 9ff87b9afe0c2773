-------------------------------- MODULE OwnedMap --------------------------------
(***************************************************************************)
(* What HashMap promises (libs/external/alloc/hashmap.ln): a finite map    *)
(* from keys to values with the answers of its operations.  An iteration   *)
(* visits every entry once, in any order, and reports the end only when it *)
(* has visited all of them; an iterator that owns the map takes the        *)
(* entries it visits out of it.                                            *)
(***************************************************************************)
EXTENDS Naturals, FiniteSets

CONSTANTS Keys, Values

VARIABLES
  map,      \* the entries
  mode,     \* "none", "open", "borrowed" by an iterator, "owned" by one
  visited,  \* the keys the iterator has visited
  answer    \* what the last operation returned

mapVars == <<map, mode, visited, answer>>

Nothing == <<>>   \* Option::None, or no answer
Truth(b) == IF b THEN 1 ELSE 0   \* a bool that is returned

EmptyMap == [k \in {} |-> Nothing]
At(k) == IF k \in DOMAIN map THEN <<map[k]>> ELSE Nothing

MapInit == map = EmptyMap /\ mode = "none" /\ visited = {} /\ answer = Nothing

Open ==
  /\ mode = "none"
  /\ mode' = "open"
  /\ answer' = Nothing
  /\ UNCHANGED <<map, visited>>

\* The caller is done with the answer and calls the next operation.
Forget == answer' = Nothing /\ UNCHANGED <<map, mode, visited>>

Put(k, v) ==
  /\ mode = "open"
  /\ map' = [j \in DOMAIN map \cup {k} |-> IF j = k THEN v ELSE map[j]]
  /\ answer' = <<Truth(k \notin DOMAIN map)>>
  /\ UNCHANGED <<mode, visited>>

Get(k) ==
  /\ mode = "open"
  /\ answer' = At(k)
  /\ UNCHANGED <<map, mode, visited>>

Change(k, v) ==
  /\ mode = "open"
  /\ map' = [j \in DOMAIN map |-> IF j = k THEN v ELSE map[j]]
  /\ answer' = At(k)
  /\ UNCHANGED <<mode, visited>>

Delete(k) ==
  /\ mode = "open"
  /\ map' = [j \in DOMAIN map \ {k} |-> map[j]]
  /\ answer' = <<Truth(k \in DOMAIN map)>>
  /\ UNCHANGED <<mode, visited>>

Size ==
  /\ mode = "open"
  /\ answer' = <<Cardinality(DOMAIN map)>>
  /\ UNCHANGED <<map, mode, visited>>

Empty ==
  /\ mode = "open"
  /\ map' = EmptyMap
  /\ answer' = Nothing
  /\ UNCHANGED <<mode, visited>>

Visit(by) ==
  /\ mode = "open"
  /\ mode' = by
  /\ visited' = {}
  /\ answer' = Nothing
  /\ UNCHANGED map

NextVisit ==
  /\ mode \in {"borrowed", "owned"}
  /\ \/ \E k \in DOMAIN map \ visited :
          /\ visited' = visited \cup {k}
          /\ answer' = <<k, map[k]>>
          /\ map' = IF mode = "borrowed" THEN map ELSE [j \in DOMAIN map \ {k} |-> map[j]]
     \/ /\ DOMAIN map \subseteq visited
        /\ answer' = Nothing
        /\ UNCHANGED <<map, visited>>
  /\ UNCHANGED mode

EndVisit ==
  /\ mode = "borrowed"
  /\ mode' = "open"
  /\ visited' = {}
  /\ answer' = Nothing
  /\ UNCHANGED map

Close ==
  /\ mode \in {"open", "owned"}
  /\ mode' = "none"
  /\ map' = EmptyMap
  /\ visited' = {}
  /\ answer' = Nothing

MapNext ==
  \/ Open \/ Forget \/ Size \/ Empty \/ NextVisit \/ EndVisit \/ Close
  \/ \E by \in {"borrowed", "owned"} : Visit(by)
  \/ \E k \in Keys : Get(k) \/ Delete(k) \/ \E v \in Values : Put(k, v) \/ Change(k, v)

MapSpec == MapInit /\ [][MapNext]_mapVars
=============================================================================
