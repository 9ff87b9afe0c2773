----------------------------- MODULE MoveRecompile -----------------------------
(***************************************************************************)
(* The same function checked by two runs of the compiler.  The place map   *)
(* of the move analysis is a HashMap with a seed of its own in each        *)
(* process, so the two runs may merge the same states in different orders  *)
(* (move_analysis.rs, merge).                                              *)
(***************************************************************************)
EXTENDS MoveCheck

VARIABLE previous   \* the results of the earlier runs on this function

recompileVars == <<vars, previous>>

Verdict == [diagnostics |-> diagnostics, deadDrops |-> deadDrops]

RecompileInit == Init /\ previous = {}

Compile == Next /\ UNCHANGED previous

\* A second compiler process starts over on the same source.
Recompile ==
  /\ phase \in {"run", "rejected"}
  /\ at = <<1, 1>>
  /\ previous = {}
  /\ previous' = {Verdict}
  /\ state' = [b \in Blocks |-> IF b = 1 THEN EntryState(func) ELSE DefaultState]
  /\ reachable' = {1}
  /\ changed' = FALSE
  /\ cursor' = 1
  /\ edge' = 0
  /\ out' = DefaultState
  /\ finished' = FALSE
  /\ phase' = "analyse"
  /\ emitted' = 0
  /\ diagnostics' = {}
  /\ deadDrops' = {}
  /\ UNCHANGED <<func, runVars>>

RecompileNext == Compile \/ Recompile

\* A compiler that was started runs to its verdict.
RecompileSpec ==
  /\ RecompileInit
  /\ [][RecompileNext]_recompileVars
  /\ WF_recompileVars((Analyse \/ EmitBlock \/ FinishCheck) /\ UNCHANGED previous)

Done == phase \in {"run", "returned", "rejected"}

(***************************************************************************)
(* Whether a function is accepted, and which drops are removed from it     *)
(* when it is, does not depend on the order in which the states merge.     *)
(***************************************************************************)
VerdictDeterministic ==
  Done => \A first \in previous :
            /\ (diagnostics = {}) <=> (first.diagnostics = {})
            /\ diagnostics = {} => deadDrops = first.deadDrops

\* The two runs report the same diagnostics.  Not so: which error a field gets follows the merge order.
DiagnosticsDeterministic == Done => \A first \in previous : diagnostics = first.diagnostics
=============================================================================
