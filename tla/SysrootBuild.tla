------------------------------ MODULE SysrootBuild ------------------------------
(***************************************************************************)
(* SysrootBuilder::build_all (crates/luna-driver/src/sysroot_builder.rs):  *)
(* several processes may try to build the sysroot.  A build takes the lock *)
(* file, checks that every source exists, reads the imports of every       *)
(* source, sorts, removes obsolete artifacts and compiles the providers in *)
(* order.  The lock guard removes the file on every way out, except when   *)
(* the process is killed.  A compilation that reports success need not     *)
(* have published a library.                                               *)
(***************************************************************************)
EXTENDS ProviderOrder

CONSTANTS
  Builders,
  Setups,       \* the import graphs the sources may have, and what may be wrong with the sources
  MaxCrashes    \* bound: how many builders are killed

Obsolete == 0   \* core, alloc and io, which are no providers any more

ASSUME SetupsAssumption == \A s \in Setups : IsGraph(s.graph) /\ Obsolete \notin DOMAIN s.graph

VARIABLES
  lock,       \* does .build.lock exist
  graph,      \* the imports in the sources
  source,     \* what is wrong with the sources: "good" (nothing), "missing" or "unreadable"
  pc,         \* what a builder is doing
  seen,       \* the import lists a builder has read so far
  order,      \* what a builder still has to compile, or the cycle it reports
  made,       \* the providers a builder has compiled, in this order
  unpublished, \* the providers whose compilation returned Ok(()) to a builder and published no library
  artifacts,  \* the libraries in the sysroot
  crashes

sysrootVars == <<lock, graph, source, pc, seen, order, made, unpublished, artifacts, crashes>>

Providers == DOMAIN graph
Working == {"check", "scan", "sort", "quarantine", "compile"}
Ended == {"refused", "built", "failed", "cycle", "crashed"}

SysrootInit ==
  /\ lock = FALSE
  /\ \E setup \in Setups : graph = setup.graph /\ source = setup.source
  /\ pc = [b \in Builders |-> "idle"]
  /\ seen = [b \in Builders |-> {}]
  /\ order = [b \in Builders |-> <<>>]
  /\ made = [b \in Builders |-> <<>>]
  /\ unpublished = [b \in Builders |-> {}]
  /\ artifacts \in {{}, {Obsolete}}
  /\ crashes = 0

\* Mistake: an existing lock file is taken over.
AcquireAnyway(b) ==
  /\ pc[b] = "idle"
  /\ lock' = TRUE
  /\ pc' = [pc EXCEPT ![b] = "check"]
  /\ UNCHANGED <<graph, source, seen, order, made, unpublished, artifacts, crashes>>

\* create_new fails when the file exists, and then no guard is made that could remove it.
Acquire(b) ==
  /\ pc[b] = "idle"
  /\ lock' = TRUE
  /\ pc' = [pc EXCEPT ![b] = IF lock THEN "refused" ELSE "check"]
  /\ UNCHANGED <<graph, source, seen, order, made, unpublished, artifacts, crashes>>

\* Mistake: only a successful build removes the lock file.
LeaveLocked(b, result) ==
  /\ pc' = [pc EXCEPT ![b] = result]
  /\ lock' = (result # "built")

\* The guard goes out of scope.
Leave(b, result) ==
  /\ pc' = [pc EXCEPT ![b] = result]
  /\ lock' = FALSE

CheckSources(b) ==
  /\ pc[b] = "check"
  /\ \/ source # "missing" /\ pc' = [pc EXCEPT ![b] = "scan"] /\ UNCHANGED lock
     \/ source = "missing" /\ Leave(b, "failed")
  /\ UNCHANGED <<graph, source, seen, order, made, unpublished, artifacts, crashes>>

\* The providers come out of a HashMap, in any order.
ReadImports(b) ==
  /\ pc[b] = "scan"
  /\ \E p \in Providers \ seen[b] :
       \/ /\ seen' = [seen EXCEPT ![b] = @ \cup {p}]
          /\ pc' = [pc EXCEPT ![b] = IF seen'[b] = Providers THEN "sort" ELSE "scan"]
          /\ UNCHANGED lock
       \/ source = "unreadable" /\ Leave(b, "failed") /\ UNCHANGED seen
  /\ UNCHANGED <<graph, source, order, made, unpublished, artifacts, crashes>>

Sort(b) ==
  /\ pc[b] = "sort"
  /\ \E sorted \in {BuildOrder(graph)} :
       /\ order' = [order EXCEPT ![b] = sorted.path]
       /\ \/ sorted.ok /\ pc' = [pc EXCEPT ![b] = "quarantine"] /\ UNCHANGED lock
          \/ ~sorted.ok /\ Leave(b, "cycle")
  /\ UNCHANGED <<graph, source, seen, made, unpublished, artifacts, crashes>>

Quarantine(b) ==
  /\ pc[b] = "quarantine"
  /\ artifacts' = artifacts \ {Obsolete}
  /\ pc' = [pc EXCEPT ![b] = "compile"]
  /\ UNCHANGED <<lock, graph, source, seen, order, made, unpublished, crashes>>

\* Mistake: a provider that fails to compile is passed over.
CompileOthers(b) ==
  /\ pc[b] = "compile"
  /\ order[b] # <<>>
  /\ artifacts' \in {artifacts, artifacts \cup {Head(order[b])}}
  /\ made' = [made EXCEPT ![b] = Append(@, Head(order[b]))]
  /\ order' = [order EXCEPT ![b] = Tail(@)]
  /\ UNCHANGED <<lock, graph, source, pc, seen, unpublished, crashes>>

(***************************************************************************)
(* The first error ends the build; what was compiled before stays.  compile *)
(* returns Ok(()) also when it publishes nothing: after an error of the    *)
(* MVIR verifier, and when the library cannot be serialised, written or    *)
(* renamed.  An older library then stays.  Those that import the provider  *)
(* read its library or else its source, and compile or fail as before.     *)
(***************************************************************************)
Compile(b) ==
  /\ pc[b] = "compile"
  /\ order[b] # <<>>
  /\ \/ /\ \/ /\ artifacts' = artifacts \cup {Head(order[b])}
              /\ UNCHANGED unpublished
           \/ /\ unpublished' = [unpublished EXCEPT ![b] = @ \cup {Head(order[b])}]
              /\ UNCHANGED artifacts
        /\ made' = [made EXCEPT ![b] = Append(@, Head(order[b]))]
        /\ order' = [order EXCEPT ![b] = Tail(@)]
        /\ UNCHANGED <<pc, lock>>
     \/ Leave(b, "failed") /\ UNCHANGED <<artifacts, unpublished, made, order>>
  /\ UNCHANGED <<graph, source, seen, crashes>>

Finish(b) ==
  /\ pc[b] = "compile"
  /\ order[b] = <<>>
  /\ Leave(b, "built")
  /\ UNCHANGED <<graph, source, seen, order, made, unpublished, artifacts, crashes>>

\* SIGKILL: the guard does not run.
Crash(b) ==
  /\ pc[b] \in Working
  /\ crashes < MaxCrashes
  /\ crashes' = crashes + 1
  /\ pc' = [pc EXCEPT ![b] = "crashed"]
  /\ UNCHANGED <<lock, graph, source, seen, order, made, unpublished, artifacts>>

\* The user removes a lock file that no running builder owns.
ClearLock ==
  /\ lock
  /\ \A b \in Builders : pc[b] \notin Working
  /\ \E b \in Builders : pc[b] = "crashed"
  /\ lock' = FALSE
  /\ UNCHANGED <<graph, source, pc, seen, order, made, unpublished, artifacts, crashes>>

\* The user runs the command again.
Retry(b) ==
  /\ pc[b] \in {"refused", "crashed"}
  /\ pc' = [pc EXCEPT ![b] = "idle"]
  /\ seen' = [seen EXCEPT ![b] = {}]
  /\ order' = [order EXCEPT ![b] = <<>>]
  /\ made' = [made EXCEPT ![b] = <<>>]
  /\ unpublished' = [unpublished EXCEPT ![b] = {}]
  /\ UNCHANGED <<lock, graph, source, artifacts, crashes>>

Work(b) ==
  \/ CheckSources(b)
  \/ ReadImports(b)
  \/ Sort(b)
  \/ Quarantine(b)
  \/ Compile(b)
  \/ Finish(b)

SysrootNext ==
  \/ \E b \in Builders : Acquire(b) \/ Work(b) \/ Crash(b) \/ Retry(b)
  \/ ClearLock

\* A running process keeps running; nobody has to start, kill or clear anything.
SysrootSpec ==
  SysrootInit /\ [][SysrootNext]_sysrootVars /\ \A b \in Builders : WF_sysrootVars(Work(b))

-----------------------------------------------------------------------------
\* Never are two builders at work on the same sysroot, and the lock file is there while one is.
OneBuilder ==
  \A b \in Builders : pc[b] \in Working =>
     /\ lock
     /\ \A c \in Builders : pc[c] \in Working => c = b

(***************************************************************************)
(* The build order is the documented one: of all providers whose imports   *)
(* have been built, the lexicographically first comes next.                *)
(***************************************************************************)
StableOrder ==
  \A b \in Builders : \A i \in DOMAIN made[b] :
     LET built == {made[b][j] : j \in 1 .. i - 1}
         ready == {p \in Providers \ built : Imports(graph, p) \subseteq built}
     IN  made[b][i] \in ready /\ \A p \in ready : made[b][i] <= p

\* What is reported as a cycle is one: each provider imports the next, and it ends where it starts.
CycleIsReal ==
  \A b \in Builders : pc[b] = "cycle" =>
     /\ Len(order[b]) > 1
     /\ order[b][1] = order[b][Len(order[b])]
     /\ \A i \in 1 .. Len(order[b]) - 1 : order[b][i + 1] \in Imports(graph, order[b][i])

(***************************************************************************)
(* A build that ends well has compiled every provider and leaves no        *)
(* obsolete library.  It does not promise the library of every provider:   *)
(* missing are only those whose compilation returned Ok(()) to this build  *)
(* without publishing one, whatever other builders did or left behind.     *)
(***************************************************************************)
BuiltIsComplete ==
  \A b \in Builders : pc[b] = "built" =>
     /\ ToSet(made[b]) = Providers
     /\ artifacts \subseteq Providers
     /\ Providers \ artifacts \subseteq unpublished[b]

\* A builder that nobody kills leaves the sysroot unlocked.
LockReleased ==
  \A b \in Builders : (pc[b] \in Working) ~> (pc[b] = "crashed" \/ ~lock)
=============================================================================
