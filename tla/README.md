# Mellis compiler: TLA+ models and proofs

Mellis (the sources still say Luna) is an ahead-of-time compiler in Rust for a language with
ownership, borrowing and lifetimes, with a standard library written in the language itself and a
small C runtime. This directory models the parts of it whose correctness depends on long sequences
of steps: name resolution across modules and imports; type inference, coherence and the collection of
instances; the lowering of programs to MVIR,
its optimiser, and what runs the result at compile time and natively; the borrow checker and the
analyses it runs on; the lowering of async functions; the builder of the sysroot, the loading of
modules and the files compilations leave for each other; and the hash table of the standard library.
TLC checks the models on small instances; TLAPS proves some of their theorems for every instance.

Every definition is translated from the source; `map` in `PROJECT.json` names the lines of each.
Paths below are relative to `src/`, `crates/` stands for `src/luna-rs/crates/`.

## The system

| Part | State | Operations | Interacts with |
|---|---|---|---|
| Lexer, parser, AST (`luna-lexer`, `luna-parser`, `luna-ast`) | token cursor, AST arena | tokenise, parse with recovery, relocate node ids | driver (files in, AST out) |
| Resolver, type checker, lifetimes, regions (`luna-semantic`) | symbol tables, scopes, type interner, semantic tables, region graph | declare, resolve, infer, unify, check; generate and solve region constraints | driver registry (imports), generator (tables) |
| Comptime, derive, macros (`luna-semantic`) | values, macro table, expansion depth | evaluate, expand, derive | parser, type checker |
| Monomorphisation (`luna-semantic/src/mono.rs`) | worklist of instances, substitution | collect, instantiate, cache | type checker, generator |
| MVIR generator, interpreter (`luna-mvir`) | current block, scope and loop stacks, value table | lower expressions and statements, emit drops at scope exit, drop glue | type checker tables, borrow checker |
| Borrow checker (`luna-borrowck`) | state of every block, diagnostics, dead drops, effect summaries | dataflow to a fixpoint, report, remove dead drops, infer summaries | MVIR functions |
| Async lowering (`luna-driver/src/async_lowering.rs`) | environment of a future: state number, child future, saved locals | split at awaits, save live locals, resume, cancel | suspension analysis (move analysis), generator's drops |
| Optimiser, LLVM backend (`luna-optimizer`, `luna-backend`) | MVIR function, LLVM module | verify, fold, remove dead code, emit, link | generator, driver |
| Module interfaces (`luna-llib`) | interface files (`.llib`) | write, read, validate | driver |
| Driver (`luna-driver`, `luna-cli`) | provider registry, loading stack, sysroot directory, artifacts | discover, load, compile, publish, build the sysroot | everything |
| Standard library (`libs/external`) | vectors, strings, hash tables, iterators | push, insert, rehash, iterate | runtime memory |
| C runtime (`runtime`) | panic state, heap, files, threads, mutexes | allocate, panic, I/O, spawn, lock | generated code |

Inside one compiler process the parts call each other in one direction: source, AST, tables, MVIR,
checks, object file. Compiler processes share the sysroot directory: its lock file, its interfaces
and its object files. A compiled program shares memory between the standard library, which keeps
ownership by hand, and the drops the compiler emits.

### What is hard, and what makes each part correct

- **Move analysis.** The state of a place is spread over entries for its ancestors and descendants,
  joined on every path, in the order of a hash set. Correct: an accepted function uses nothing that
  is gone, drops what it owns once, and the verdict is a function of the source.
- **Dataflow engine.** A round-robin pass that must not stop before the states that flow back into
  a loop are known, must not visit dead code, and must stop. Correct: it stops, at a fixpoint over
  the blocks a path reaches.
- **Loan analysis.** References are copied, kept in fields, passed to and returned from functions;
  loans are split in direct and carried ones and pruned on edges. Correct: an accepted function
  never uses a reference that was invalidated, or whose referent ended, and returns none to a local.
- **Effect summaries.** Chaotic iteration over a hash set, recursive functions, summaries that are
  replaced rather than joined. Correct: the loop ends, in any order, at the same consistent summaries.
- **Async lowering.** A future may be dropped between any two polls, and paths that moved different
  places meet at an await. Correct: a poll resumes where the last one stopped; completion and
  cancellation drop what the future owns, once.
- **Sysroot builder.** Processes that collide, fail or are killed in the middle. Correct: one builder
  at a time, the documented order, real cycles, a lock that only a killed process leaves behind, and in a
  build that ends well no library missing but those the compiler itself kept quiet about.
- **Hash table.** Tombstones, wrapping probe chains and growth that copies entries bitwise. Correct:
  it is a map, it owns every entry once, and there is always an empty slot for a search to end at.
- **Driver registry, artifacts.** Errors in the middle of a recursive load; sources, libraries and
  object files that change, or stop changing halfway, under a running session. Correct: the loading
  stack mirrors the loads in progress, a registered provider has all its imports registered and is
  never replaced, and a library is used only with the interfaces it was made with.
- **Generator, optimiser, backend, interpreter.** Scopes, temporaries and loops on stacks, left by
  returns, breaks and `?`; two machines for one code, one that checks and one that trusts. Correct: a
  program makes, uses and drops what its source says, in that order, on every way out of a scope; what
  the interpreter computes is what the program would compute; evaluation ends.
- **Resolver, interfaces.** Scopes, modules that are opened again, aliases, visibility, imports wherever
  they are written, merged in hash map order, and interfaces cut down for the units that follow. Correct: a
  name stands for what the text around it says or is refused, whoever imports whom.
- **Type checker, traits, monomorphisation.** Types are read before and after the variables in them are
  bound, equalities are postponed, implementations are found by the head of a type and found again for
  each instance. Correct: what is accepted runs as it was typed, in the instances that were made, and
  nothing the generator asks for is missing; implementations are refused exactly when they overlap.
- **Macros** (not modelled). Expansion with a limit of depth.

`PROJECT.json` lists the hazards at their lines, with the properties that watch them, and every
component with the reason where it is not modelled.

## Modules

```
StrictFold            MoveLattice            ControlFlow          OwnedMap
                          |                       |                   ^ refines
ForwardDataflow ----> MoveCheck             BorrowLoans           RawTable
   |        \             |   \                   |                   |---> RawTableProofs
   |         \            |    AsyncLowering      |               MCRawTable
   |          \      MoveRecompile   |            |
   |           \          |     MCAsyncLowering   |         ProviderOrder
   |            \     MCMoveCheck                 |               |
   |             `---------------------------> BorrowCheck    SysrootBuild ---> SysrootBuildProofs
ForwardDataflowProofs                             |               |
                                             MCBorrowCheck    MCSysrootBuild
IterationLemmas ---> MoveCheckProofs, RawTableProofs, SysrootBuildProofs, InterproceduralProofs
MoveCheck, ForwardDataflowProofs ---> MoveCheckProofs
AsyncLowering, MoveCheckProofs ---> AsyncLoweringProofs

EffectInference, Interprocedural ---> MCInterprocedural
                 Interprocedural ---> InterproceduralProofs

ModuleLoading ---> MCModuleLoading
ModuleLoading ---> ModuleLoadingProofs

SourceSyntax ---> MvirGenerator ---> MvirOptimiser ---> MvirMachine ---> SourceMeaning ---> MCLowering
      `---> Resolver (in MvirMachine)

SemanticTypes ---> TypeInference ---> TypeChecker ---> Monomorphisation ---> FrontEnd ---> ProgramTyping
      `---> GenericLibrary -------------------------------------------------------> MCFrontEnd <--'
```

The `MC` modules enumerate instances; the others take everything that varies as CONSTANTS.

**`ForwardDataflow`** is `DataflowEngine::run_forward` (`crates/luna-borrowck/src/dataflow.rs`) as a
state machine, parametric in the analysis. `cursor` is the block a pass is at, `edge` the successor
being propagated to, `changed` the local of that name; `SkipUnreachable`, `TransferBlock`,
`PropagateEdge`, `LeaveBlock` and `EndPass` are the steps of the loops. `MergeResults` is a set: one
of the analyses merges in the order of a hash set.

**`MoveLattice`** holds the states of places and the operations on them (`move_analysis.rs`:
`get_place_state`, `mark_moved` with the collapse of an exhausted struct, `mark_dropped`,
`mark_live`, `merge`). **`MoveCheck`** instantiates the engine with the move analysis and goes on
through the reporting pass, the removal of dead drops and the execution of what was accepted: `own`
records what each leaf place holds, `fault` each use, drop or loss that must not happen.
**`MoveRecompile`** starts a second compiler process on the same function, whose hash sets have other
seeds.

**`ControlFlow`** is what the borrow analysis knows before it starts: liveness (the backward engine,
as the fixpoint it computes), dominators, natural loops, the loops that a break or a return leaves,
and the locals that end on each edge (`cfg.rs`, `region_bridge.rs`). **`BorrowLoans`** has the state
of the loan analysis (direct and carried provenance, escaped loans, aliases) and its transfer, merge
and edge functions and access checks (`borrow_analysis.rs`). **`BorrowCheck`** runs them in the
engine, reports, and executes what was accepted with a semantics of its own: each reference knows
the place it points to, the borrows it was made by, and whether an access has ended it (`held`).

**`EffectInference`** is the effect lattice (`effect.rs`) and the taint analysis of one function
(`effect_inference.rs`) as a function of its code and its callees' summaries. **`Interprocedural`**
is the worklist (`interprocedural.rs`), parametric in the inference. A HashSet drained into a batch
is a set any member of which comes next.

**`AsyncLowering`** extends `MoveCheck` with the life of a future: the check, the removal of dead
drops, which makes the function another version of itself (`Without`), the second run of the move
analysis, on that version, that gives every await its drop set (`suspension.rs`), then kickoff, polls and
cancellation. The arguments are in the environment from the start, so the drop set before the first poll is that
after the declarations the function begins with (`Leading`). `fstate` and `child` are the fields of the
environment; the execution between two awaits is that of `MoveCheck`, but for what the resume function
leaves out (`Skip`): declarations, as locals live in the environment, and the drops of futures, which find no
callee. What is lost by either is recorded (`Abandon`). The future of an await on a call is in no local and has a
place of its own (`Temp`). A future may be destroyed after any poll.

**`ProviderOrder`** is the topological sort and the cycle search of `sysroot_builder.rs`,
**`SysrootBuild`** the build, by several processes that may be killed at any step; `Leave` is the
lock guard going out of scope. `Compile` has the three ends a call of `compile` has: a published library, an error,
and `Ok(())` with nothing published, which `unpublished` remembers. `artifacts` are the libraries that are
there, an older one after a compilation without a new one.

**`ModuleLoading`** has the files of a directory and of the sysroot (source, `.llib`, `.obj` under one
name), which of them an import leads to, when a library is valid, and a set of
compilations over them (`crates/luna-driver/src`: `lib.rs`, `session.rs`, `importer.rs`, `external.rs`,
`registry.rs`). The recursion of the loader is the stack `frames[p]`, with the compiled file at the
bottom; a frame is at one step of `load_component`: `validate` (a library before its imports),
`imports`, `extract` and `fill` (the object file of a library is written). `loading[p]` is
`loading_stack`, `registered[p]` stands for `providers` and `interfaces`. A text is a number; what it
imports and the fingerprint of its interface are CONSTANTS. Analysis and code generation are one step
that may fail. `Edit` changes a source, `Die` kills a process, between any two steps. What a record of a
dependency says is kept with the text it was made from, which the files do not have and the properties
compare with.

**`OwnedMap`** is what a map promises; **`RawTable`** is `libs/external/alloc/raw_table.ln` slot by
slot: linear probing, tombstones, growth one slot per step (`MoveSlot`, `FinishGrow`, `Place`),
borrowing and owning iterators, dropping in any state. `Map == INSTANCE OwnedMap WITH ...` maps the
slots, in both storages while the table grows, to the entries of the map. `dueKeys` and `dueValues`
are ledgers of what the table was given and has neither dropped nor handed back.

**`SourceSyntax`** is the syntax tree.
**`Resolver`** (`resolver.rs`, `symbol.rs`, and of `registry.rs` the extraction and the injection of exported
names) takes a text, its own items and those of the providers in the order they are loaded, through the
symbol table to the functions the generator receives: providers are resolved one after the other against
the interfaces of those before, the program last, with its first pass before macros. The table and the
resolver are one record that every operation takes and returns; `Compile` is all of it. **`MvirGenerator`** (`crates/luna-mvir/src/generator.rs`) is the lowering as a
function on the generator's record: what types own, blocks, scopes, temporaries, the targets of `break` and `continue`,
patterns, `?`, `for` with its protocol, drop glue; one operator for each form of expression, statement and
pattern. **`MvirOptimiser`** folds constants, removes dead code and verifies (`luna-optimizer`).
**`MvirMachine`** is the state machine: it resolves and lowers a program in `Init`, refuses it if a unit has an error, the
verifier does not take a function or a global is nowhere defined (`Buildable`), and executes one instruction a step
(`Execute`, `Fail`, `Invoke`, `RecursionLimit`, `Drop`, `Jump`, `Leave`, `Lost`, `OutOfSteps`), either as
the interpreter does (`interp.rs`: the state of every slot, checked arithmetic, the limits of steps and
depth) or as the code of the backend does (`llvm_codegen.rs`: wrapping, trusting). **`SourceMeaning`** is
no part of the compiler: it says directly what a program means, with an owner for every value and the
drops due at the end of a scope, and is what both machines are compared with. It reads the text before
resolution, by rules of its own: a name is that of the innermost scope that declares it; a function is found
among namespaces, sets of places in the texts of several units, and `Lawful` says that each name stands for
one thing. What is refused must have no meaning (`NothingGoneIsRead`), what is run must have one. **`MCLowering`** has the
programs.

**`SemanticTypes`** has types, what inference variables stand for, substitution, and the ways one type is
laid over another: `Overlap` (coherence), `Matching` (the search for an implementation), `MatchTypes`,
`BindGenerics`, `Coercions` (`ty.rs`, `coherence.rs`, `coercion.rs`). **`TypeInference`** is unification,
projections, postponed equalities, bounds and patterns, on a checker record `ck`; **`TypeChecker`** the type
of each expression and statement, the method a name stands for, and the substitution each call records
(`typechecker.rs`). **`Monomorphisation`** is the worklist of instances (`mono.rs`): substitution and its
order, the second search for methods, drop obligations, the barrier. A type parameter is an identity with a name
(`Symbols`); the checker goes by identity, and `mono.rs` by name where it orders pairs (`Ordered`), joins those of the
receiver and the call (`Joined`), maps an instance to the parameters of its function (`SubstOf`) and meets a
parameter it does not know (`Known`), and so do these definitions (`Named`, `ByName`). **`FrontEnd`** is the state machine:
implementations are registered one by one (`RegisterImpl`), functions checked one by one (`CheckFn`),
what was postponed is solved (`Solve`), and if nothing was reported instances are taken from the worklist
(`ProcessInstance`). **`ProgramTyping`** is no part of the compiler: it runs the instances that were made
on values that know their types, and records in `bad` every value that is not of the type its expression
was given, every call that enters the code of an implementation for another type, a call without an
instance, and a match without a case. **`GenericLibrary`** has the programs.

**`StrictFold`** has folds and a unique choice that TLC evaluates once. In several modules a
definition marked `Mistake` states a wrong variant of the one after it: the mutations under which
each property was seen to fail (`mutants` in `PROJECT.json`).

## Runs

| Run | What it asks | Instance and bounds |
|---|---|---|
| `move_check` | Does an accepted function use or drop what is gone, or lose a due drop? Does the engine stop at a fixpoint? Is the verdict deterministic? | Every function of four blocks over one scalar local (a second one in an inner scope) with at most two operations in each block, in a diamond, a loop, a loop with a break and code after a jump; and over a struct of two owned fields with and without a `Drop` implementation. Each is compiled twice. |
| `borrow_check` | Does an accepted function use a stale or dead reference, or return one to a local? Does the analysis know the loan behind every live reference? | About 2,600 functions over two data locals, reference variables of both kinds, a struct with a reference field, a reference parameter and a loop-local: straight-line code of four statements, diamonds, loops with and without a break, returned references. |
| `interprocedural` | Does the loop end, in any order, at the same and consistent summaries? | 54 modules of two mutually recursive functions and a helper, branching and looping, with an extern function. |
| `async_lowering` | Are drop sets complete and no larger than what is owned? Does a poll resume in place? Does completion lose anything? | Functions with up to three awaits in a diamond or a loop, around moves of a struct that is a parameter, its fields, a resource, a future and a local of the body's scope, with every choice of drops that may have been removed; cancelled after any poll. |
| `sysroot` | Exclusion, order, cycles, completeness, release of the lock | Two builders, one crash, each compilation published, failed or published nowhere, all 64 import graphs of three providers without self-imports and one with, missing and unreadable sources. |
| `raw_table` | Is the table a map? Does it own everything once? Is there always a free slot? Do insertions end? | Every sequence of operations over two hash functions: four keys that collide at the last slot so that their chain wraps into a fifth key's home; and eight keys that could fill eight slots with tombstones. Capacities 0, 8, 16; memory for storage of 8, 16 and 32 slots (`Sizes`). |
| `module_loading` | Does the loading stack mirror the loads in progress? Is what is registered closed under imports, and fresh? Do sessions end? | A process that makes libraries, started twice, and one that compiles a program, in one directory; three user modules of which the middle one and the base change their imports, one of the changes being a cycle, an internal and a public provider of the sysroot; three first states of the directory; one edit, one kill. |
| `lowering` | Does a program, resolved, lowered, optimised and run, make, use and drop what its source says? Does the interpreter compute the same or stop? Does it end? | 64 programs, each on inputs 0, 1 and 2, natively, at compile time or both. 28 are about control and values: nested scopes and loops left by every kind of jump, matches on enums and tuples, `?`, `for` with a dropped iterator, glue of a struct of two resources and of one with a drop of its own, methods, arithmetic at the limits of 8 bits, loops and recursion without end, with instructions in the loop and without (limits of 120 steps and depth 4). 36 are about names: shadowing, uses before and after a declaration, modules opened twice, aliases, paths, visibility, and up to three providers imported in every place, in conflict and not; 29 of these must be refused. |
| `find_endless_evaluation` | Does evaluation at compile time end? | The same machine, one program with an empty loop that one input does not reach. |
| `front_end` | Does what is accepted run as it was typed? Is an instance or a drop function missing? Are implementations refused exactly when they overlap? | A library of generic structs, enums, traits with an associated type, bounds and a generic `Drop`, with type parameters of equal names, with 17 mains that should be accepted and 32 that should not; and 83 sets of one or two further implementations of a trait (nested, repeated and swapped parameters, tuples, orphans). |
| `find_wrong_impl` | Does a call enter the implementation for its receiver? | Two implementations of a trait for two instantiations of a struct. |
| `find_lost_loan` | Is a loan carried through a field handed on by a call? | One function. |

The instances have four blocks because that is where joins, back edges, breaks and dead code first
appear together, and the lattices are finite per place, so two or three places exercise every entry
of the merge tables. Two compilations are enough for determinism, which is about pairs. Two builders
and one crash give every collision; three providers give cycles with a node leading into them. A
table of eight slots is the smallest the code makes, and growth doubles it; the hash functions are
chosen so that chains wrap and part again. The counters that are cut off are the numbers of crashes
(`MaxCrashes`), of
edits (`MaxEdits`), of kills (`MaxDeaths`) and of the starts of a process (`MaxStarts`): one edit and one
kill, at any point, with two sessions before or beside the one that uses their files are what it takes
for a file to be stale, and a chain of two imports what it takes for it to be stale at a distance. In `lowering` each program is there for a form of the
language, a way out of a scope or a limit, and eight bits have the boundaries of 32. In `front_end` the
execution of an accepted main stops after `FuelBound` calls and rounds, which none of them reaches, and overlap is
compared with the instances over the seven types of `SmallTypes`, which are enough to tell the implementations
of the library apart. Runs are without deadlock checking where a compilation, a build or a program ends.

The three runs named `find_...` show disagreements with the documentation; see Divergences.

### Fairness

- `MoveCheck`, `MoveRecompile`, `BorrowCheck`: weak fairness of the analysis and the report. A started
  compiler is a sequential program without waiting: it takes its next step. Nothing obliges anyone
  to compile a second time or to run the program.
- `Interprocedural`: the same; which function the hash set yields next is not fair in any sense.
- `SysrootBuild`: weak fairness of each running builder's own steps, never of crashes, of the user's
  retry or of clearing a stale lock.
- `ModuleLoading`: weak fairness of each process's own steps, never of starts, edits or kills.
- `RawTable`: weak fairness of the steps inside an insertion; the program need not call anything.
- `AsyncLowering`: none. Nobody has to poll a future.
- `MvirMachine`: weak fairness of the next step: neither the interpreter nor a compiled program waits.
- `FrontEnd`: the same; no property of its run uses it.

## What the checks show

- `AcceptedNeverUsesGone`, `OnlyPartsDropTwice`, `OnlyUnnoticedStoresLeak`: the move analysis, the collapse of
  exhausted structs and dead-drop elimination are sound up to two limits: a partly moved struct is
  dropped whole, and a field stored into a struct that goes on counting as moved is lost.
- `Fixpoint`, `VerdictDeterministic`: the engine's answers do not
  depend on where a pass was when nothing changed any more, nor on the hash seeds. (The text of the
  diagnostics does: `DiagnosticsDeterministic` is stated and does not hold.)
- `AcceptedNeverUsesStale`, `AcceptedNeverUsesDead`, `AcceptedNeverEscapes`, `ProvenanceIsSound`: the loan
  analysis is sound for references to locals and parameters that are made directly, copied, kept in
  a field and passed through functions with contracts. Rejections are not compared with anything.
- `SummariesAgree`, `StaleIsQueued`, `OrderIndependent`, `SummariesComputed`: on modules whose recursion
  keeps one kind of return effect the loop ends at the same summaries in any order.
- `DropSetMissesNothing`, `DropSetOnlyOwned`, `CompletionLosesOnlyFutures`, `ResumesWhereSuspended`: the
  state machine and its drop sets are right; what is done with them is not (Divergences).
- `OneBuilder`, `StableOrder`, `BuiltIsComplete`, `LockReleased`: the sysroot build, where
  no provider declares the same import twice. `BuiltIsComplete` is what "built" means and no more: every provider was
  compiled, no obsolete library is there, and a library that is missing is one whose compilation returned `Ok(())`
  without publishing it, to this build (Divergences).
- `LoadingStackIsExact`, `RegisteredIsClosed`, `ClosureIsFresh`, `SessionEnds`: each of the error returns of the loader leaves the session as it was, so a later import
  of the same name is judged rightly; what is registered fits together. `ClosureIsFresh` looks at what a
  library imports, directly or through others, and excepts records that are placeholders (Divergences).
- `ImplementsMap`, `NothingLeaksOrDropsTwice`, `RoomIsLeft`, `EntriesAreReachable`, `InsertionEnds`: the hash
  table.
- `NativeMatchesSource`, `NothingGoneIsRead`, `NothingDroppedTwice`: on programs that leak nothing by
  design (kind `clean`) native code calls the observed functions with the arguments and in the order the
  source says and returns its value; on all of them nothing is dropped twice or read after it is gone.
- `ComptimeMatchesSource`, `OnlyIdleLoopsGoOn`: where the interpreter gives a result it is the source's and no
  integer left its width; it ends unless it comes to a loop in which no instruction is executed, which it then
  stays in (`EvaluationEnds` does not hold, see Divergences). Where it stops with an error nothing is said.
- `OnlyHomonymsMistype`, `CodeIsClosed`, `CoherenceIsExact`: for programs within the limits listed under
  Divergences the checker's types, the second search for methods and the collected instances agree. Excepted
  are programs with an instance of a method that has a type parameter written like one of its implementation, or of
  the type the implementation is for; equal names in different surroundings, which every program here has, do no harm. What
  is refused is compared with nothing, coherence excepted.

## Proofs

Eight modules hold theorems and their proofs, or the lemmas they share.

**`IterationLemmas`** is the induction the other proofs need, from the standard theorem modules alone: a set
of naturals that is not empty has a least element; a set with 0 and the successor of each of its members
has everything up to a bound (`Chain`); and a function can be iterated any number of times
(`IterationExists`), so that the `CHOOSE` inside `FoldStrictly` denotes the fold it is meant to.

**`ForwardDataflowProofs`** holds for every set of functions, every analysis and every merge, with one
assumption: `ShapeAssumption`, that a function has a block and that terminators branch to blocks of
the function. `Fixpoint` says what holds when the engine stops and is not inductive. `FixpointInv`
adds what a pass in progress knows: the range of the cursor and the edge, that `out` is the transfer
of the block's entry state unless something changed (`EngineTypeOK`), that while nothing changed
every edge the pass has gone over is stable (`QuietPass`), and that the engine only stops at the end
of a quiet pass (`StopsQuiet`). The interesting step is `PropagateEdge`: if it leaves `changed` FALSE it
has left all states as they were, so the edges found stable still are, and its own edge is
(`QuietPropagate`). Theorems: `EngineTypeCorrect`, `StopsAtFixpoint`, `ReachesOnlyReachable`.

**`MoveCheckProofs`** is about the move checker with any set of places, any function the generator can
emit and any order in which the keys of two states are merged. The assumptions are what the
generator guarantees: places are finite and a place that is not a local is an owned field of a place
(`PlacesAssumption`); parameters come first, instructions name parts of declared locals, a block that returns has
no successor, and nothing branches to the entry block, whose label no other block has
(`FunctionsAssumption`, evaluated by TLC for the instances of `move_check` and `async_lowering`). The theorems have
`MoveEngine` as hypothesis, that the engine's constants are the operators of the move analysis, as every
`.cfg` of the project says. `MoveInvariant` is the inductive invariant, with these parts.
`AnalysisInv` and `FixpointInv`: the engine's states are states of places and, at the end, stable. Stability
as the engine means it is that merging again changes nothing; the lemmas on `MergePlaces` turn this
into what an execution needs: after merging, in any order of the keys, no place is there (`Here`:
its inherited state is `Live` or `PartialMoved`) unless both merged states say so (`MergeGives`, `FlowsAlong`).
`ReportInv`: a function without a report was looked at in all blocks that are reached, and every use had a
live place (`Accepted`). `PositionInv`: an execution stands at a place the analysis has reached.
`RunInv` is the simulation: a leaf that is there was not moved out or dropped (`NoneGone`), and is owned if
its local gets its values as a whole (`AllOwned`); one lemma each for the instructions, the branches and
the start. A place whose own state is live has no entry below it that says otherwise (`LiveIsWhole`), so
that the use of a struct is the use of all its leaves.
Theorems of this part: `MoveInvariant`; `ReadsAreThere`, that nothing moved out or dropped is read; `UsesAreThere`, which adds what
was never initialised, and `DropsAreThere`, which needs besides that a value with a `Drop` implementation
stays whole (`WholeInv`: below such a local there is no entry but `Live`); and the properties of the run that
follow, `NeverUsesGone` and `OnlyPartsAreDroppedTwice`.
The last four except locals that get their value field by field (`InParts`): those a struct literal is
written into (`generator.rs:2282-2335`) and those with a field that is assigned to. `mark_live` makes a struct live
with its first field; that the other fields follow before anything else is the generator's doing, and the
checker does not look. `ReadsAreThere` holds for these locals too. `LeafExtracts`: what is extracted is a field
without owned fields; a struct that is extracted counts as live above a field that was moved before.
`RootDrops`: only locals are dropped (`emit_drops_for_scope`). All functions of `MCMoveCheck` satisfy these
three; TLC evaluates that on the run (`CompiledAssumption`).

The second part of the module is the other direction: what is owned is known to be there, so a drop that is removed
had nothing to drop. The state of a struct alone does not say so. A struct whose last field is moved counts as
moved (the collapse in `mark_moved`), and one of its fields may then get a value again; `mark_live` makes a
struct live with its field only if the struct is directly around the field and was never initialised. `VouchInv` is the invariant: as
long as a leaf is owned, no place around it counts as vanished (`Vanished`: moved, dropped or never
initialised). A move keeps it because a struct collapses only when each of its fields
has vanished, so that by induction over the depth of places nothing below it is owned (`MovedVouches`,
`PartingPlace`); a merge because it calls a place vanished only if both paths do. The one exception
is named, `StoresNoticed`: every store into a field is into a struct that counts, after the store, as there.
`RemovedDropsAreDead` says that a removed drop finds nothing to drop. `NothingDueIsLost` (the property
`OnlyUnnoticedStoresLeak`) adds the scopes: in a function whose locals are each dropped at the
end of their scope or moved before, whose scopes do not end without that, and which declares no local
again while it is owned (`DropsItsLocals`, a property of the places where the generator puts drops, stated by an
annotation of what is settled before each instruction, `Settles`), an accepted execution loses nothing.
All 4224 functions of `MCMoveCheck` have such an annotation: `CompiledAssumption` names the greatest one.

**`AsyncLoweringProofs`** carries both over to futures, for every async function and every version of it without
some of its drops. The assumptions on the constants are those of `MoveCheck` and three more: the versions of a function are
functions (`VersionsAssumption`), no local is called like the future of an awaited call
(`TempAssumption`), and a parameter is declared once (`ParametersAssumption`); TLC evaluates them on the run.
`LifeInv` follows the phases: the first analysis, on the function, and the second, on its version, are
runs of the engine and end at a fixpoint, so `AnalysisInv` and `FixpointInv` hold of both; the
version has the same awaits in the same places, and awaits are numbered injectively, so that a
suspended future stands behind the await whose number it has stored (`LifeInvariant`, `ResumesAtItsAwait`).
`SuspensionInv` is about what the future owns between the polls. `DropSetIsComplete` needs two things at
once: nothing around an owned leaf has vanished (`Vouched`), and some entry of the state stands for it, one that `LivePlaces`
takes or one below it (`AllNamed`); the first alone would allow a leaf that no entry speaks of. A leaf
stored into a field of a field is the exception here too (`StoresTracked`), as is an entry `PartialMoved`, which is not taken and
must lie below one that is (`PartsTracked`). `DropSetIsOwned` is the simulation of the
first part (`OwnedAsSaid`) for the second analysis, which differs from the first only in drops that are gone: if none of the
drops that are left is dead in the second analysis (`NothingDead`), it finds the same. Its other
hypotheses are `WholeInits` and `RootDrops`, which all functions of `MCAsyncLowering` satisfy (its
`AsyncFunctionsAssumption`, evaluated on the run). `StoresTracked`, `PartsTracked` and `NothingDead` are about the result of
an analysis; TLC found them true in every state of the run when they were checked as invariants. With
two levels of fields `PartsTracked` is trivially true there.
`OnlyFuturesAreLost` is about the leaks of a future that is polled to its end. It has the argument of
`NothingDueIsLost` over again, along polls instead of calls (`CompletionInv`), with two differences. The
arguments are owned from the kickoff on, so that a parameter's declaration settles nothing (`Clears`); and the
drops that were removed are gone from the version, so that the second analysis has to find dead what the first
one removed (`DeadStays`), for otherwise a local would go on owning what nobody drops. What remains are the
drops that the resume function leaves out, those of futures. All functions of `MCAsyncLowering` have such an
annotation (`AsyncFunctionsAssumption` again); `DeadStays` and `StoresNoticed`, checked as invariants, are true in
every state of the run.

**`InterproceduralProofs`** holds for every module, call graph and inference function, without
assumptions on any of them. `QueueInv` is: a stale function is in the batch or on the worklist, the worklist is empty
unless `changed`, and the loop is done only with both empty. Processing `g` disturbs only its callers
(`SameCallees`), and those are queued. Theorems: `StaleNeverForgotten`, `EndsAtFixedPoint`. They say
nothing of termination, which does not hold in general.

A fixed point is not enough for `OrderIndependent`: with several of them the hash set would choose. That it does
not needs a callee that does more never to make its caller do less, and this is not true of every module
(`MixedModules`, see Divergences). `Ascending` says it of the one at hand: there is an order of summaries, and a set of
tables that inferring a function does not leave, in which inference adds to the default of every
function and, up to the table that inferring all functions together ends with (`Together`), infers no
less from more. `BoundedInv` is the invariant: no summary ever exceeds its entry in that table. When
the loop ends, its table is a fixed point, which the rounds of inferring all together start below and so
never get past (`EndsTogether`). Theorem: `OrderDoesNotMatter`. `Together` gives the rounds a bound, `Rounds`
(8 on the run, where every module is at rest after fewer); a module whose rounds do not come to rest within it is
not `Ascending`. All 54 modules of `RecursiveModules` are, with the tables the loop
can reach and the order in which `AccessKind::merge`, `OwnershipKind::merge` and `EscapeKind::merge` go up
(`ModulesAssumption` of `MCInterprocedural`, evaluated on the run).

**`SysrootBuildProofs`** holds for any number of builders, crashes and import graphs. `LockInv`, that the
lock file exists while a builder is at work and that there is one such builder, is inductive because
only the builder that created the file removes it and a user clears it only when nobody works.
The order has two parts. `KahnInv` is the invariant of the loop of the sort: what is queued or done has only
built imports, and has declared none of them twice; what has to wait has an in-degree above 0, which
is the number of its declarations less that of the built providers it imports; and each result was the
smallest that was ready. `KahnSteps` shows that a turn keeps it, `KahnRuns` that the fold over all turns ends
in it. A sort that orders everything has therefore always taken the first ready provider (`Sorted`).
`BuildInv` is about the builders: what one has made followed by what it has left is such an order, everything
it has made has its library, unless compiling it for this builder published none, and after the quarantine no
obsolete library is there; another builder's crash, retry or unpublished provider takes no library away. The assumption is `SetupsAssumption`: every import is that of a
provider, since `find_provider` ends the scan with an error otherwise, and an obsolete artifact is not a
provider's. Theorems: `BuildersExclude`, `OrderIsStable`, `BuildIsComplete`, and `SortsExactlyAcyclic`: if no
provider declares an import twice, the sort succeeds exactly when there is no cycle.

**`ModuleLoadingProofs`** holds for every import graph, any set of processes and any bounds, and uses no
assumption about the constants. `LoadingStackIsExact` is not inductive: it does not say that only the
top frame may be at a step without a name on the loading stack, nor what a rejected or an accepted
library would take off or put on. `Matches` relates a stack of frames to a sequence of names (every frame
but the top one waits for an import; the length of the one follows from the length and the top of the
other; the names are those of the frames and differ), with a lemma for each way a call begins, moves on
or returns. `Apart` adds that no name being loaded, and no library being validated, is registered: it is
kept because `Fresh` looks at both, and gives the second theorem. Theorems:
`LoadingStackIsAlwaysExact`, `RegisteredIsNeverReplaced`.

The second half of the module is about what is registered, with the assumptions of `ModuleLoading`
(`ArtifactsAssumption`, `LoadingAssumption`: what is compiled are files, sources and libraries have texts,
and the imports of a text are names). `ClosureInv` follows each import: for every frame none of whose
imports has failed, a name its text imports is still on its list, or is that of the frame above it, or is
registered (`Waits`); a provider whose object file is being written, and a name local imports remember,
is registered. A call moves a name from the list to the frame above (`SessionCalls`), a return from
there to the registry or to a failure (`ReturnGoesOn`), and with the list empty and nothing failed the
provider may be registered (`RegisterCloses`). What a provider imports is taken from the text in its
frame, which is the library's text if there is one, so that edits do not matter. Theorem:
`RegisteredIsAlwaysClosed`.

The third part builds on both. `ClosureIsFresh` speaks of everything behind a library, and the two checks
of a library look only at what is registered at the time. `FreshInv` keeps, for every entry, the set that
was registered when it was (`Holds`, `Agrees`): by `ClosureInv` that set is closed under imports and has
what the entry imports, so all that is behind the entry is in it; the second check compared the whole of
it with the record; and no entry is ever replaced. That equal fingerprints mean an equal interface of the
recorded text needs the rest: every record in a library, in a frame or in a file holds placeholders or
the fingerprints of the texts recorded with them (`Recorded`), which `Needs` writes, provided the libraries
there are at the start were written so (in `LoadingAssumption`) and that an interface does not depend on
the directory its file is in (`InterfaceAssumption`: `CanonicalInterface`, `luna-llib/src/metadata.rs:52`, has
names and types and no path). TLC checked `FreshInv` on the instance of the run first. Theorem:
`ClosureIsAlwaysFresh`.

**`RawTableProofs`** holds for any keys, values and hashes, any sizes of storage and every sequence of calls,
with the assumptions of `RawTable`: hashes are natural numbers (`HashesAssumption`); storage has 2^e slots with
e >= 3, as the rounding in `raw_table_with_capacity` and the doubling in `grow` make it (`SizesAssumption`);
and a table is created with a capacity there is memory for (`CapacitiesAssumption`). `Sizes` is the only
bound: a table that would need more storage stops growing, which in the code is an allocation that fails.
None of the properties is inductive: a free slot is left because the counters are exact; an entry is found
because the slots before it on its way are not empty; the counters are exact because keys are unique;
and that needs every search to find its key. `TableInv` is what holds together: the slots are entries of
distinct keys with their own hashes (`Shape`); every entry is reachable from its home, the counters
count, and entries and tombstones leave a slot (`Exact`); the new storage of a growth holds exactly
the entries before `moved`, all reachable, no tombstone, and room for the rest and the one that made it
grow (`Growing`); what an iterator has visited is what lies before its cursor (`Iterating`); and each
ledger counts the slots that hold its key or value (`Due`). The first half of the module is about any function
from slots to entries: probing visits every slot once (`EverySlotIsProbed`); a table with an empty slot has
a place where the search for a key stops, and it is the key's entry if there is one; placing an entry
there, replacing a value and making an entry a tombstone keep the chains. There is one lemma for each
action that preserves the invariant (`...Step`) and one that maps the action to the map's or to a stutter
(`...Maps`): the mapping of a state is a function of the entries alone (`Describes`), and moving an
entry between storages does not change the entries. Theorems: `TableIsWellTyped`, `RoomIsAlwaysLeft`,
`EntriesStayReachable`, `RehashingFindsRoom` (why the loop in `grow` ends), `NothingIsLostOrDroppedTwice`,
`TableImplementsMap`.

Only model-checked, and why:

- Everything about liveness (`BorrowCheckTerminates`, `OnlyIdleLoopsGoOn`, `SummariesComputed`, `LockReleased`,
  `InsertionEnds`, `SessionEnds`), which is out of TLAPS's reach.
- What the recursive functions and folds compute for every input where `IterationLemmas` was not applied: the loan
  transfer, the cycle that the sort reports, the lowering.
- `NativeMatchesSource`, `ComptimeMatchesSource`, `NothingDroppedTwice`, `NothingGoneIsRead`, `OnlyHomonymsMistype`,
  `CodeIsClosed`, `CoherenceIsExact`: they compare recursive evaluators and recursive searches in types,
  in modules with RECURSIVE operators, where nothing can be proved.
- `AcceptedNeverUsesStale`, `AcceptedNeverUsesDead`, `AcceptedNeverEscapes`, `ProvenanceIsSound`: the engine's theorems
  apply to the loan analysis as they are, but the simulation of the loan transfer, an operator of several hundred lines
  with folds over places, was not attempted.
- `VerdictDeterministic`: two compilations end alike, whatever the order of their merges. `MergePlaces` is not
  monotone place by place, so that the fixpoint need not be unique, and the argument for `OrderIndependent` does not
  apply.

## Divergences

Shown by a run of their own (`findings` in `PROJECT.json` quotes the lines):

1. `find_lost_loan`: the loans of a reference that was read from a field are carried ones, which a callee
   with `BorrowsFrom` does not hand on.
2. `find_endless_evaluation`: the interpreter counts instructions (`interp.rs:444`), and `while true {}` and `for (;;) {}`
   are lowered to blocks without any (`generator.rs:1463`, `1561`), so that evaluating them at compile time does not
   end, against `docs/phase16-comptime-plan.md:119`.
3. `find_wrong_impl`: of two implementations of a trait for two instantiations of one type, both accepted,
   a method call enters the first whatever its receiver is.

Stated in the models as properties that the code does not have, without a run of their own:

- `OnlyPartsDropTwice` (`MoveCheck`) excepts what does happen: a struct of which one field was moved is dropped
  whole, and the moved field dropped again. There is no drop flag, whatever the audit document says.
- `SummariesComputed` (`Interprocedural`) for the modules `MixedModules` of `MCInterprocedural`:
  `ReturnEffect::merge` is not monotone (`BorrowsCarried` is lost beside `BorrowsFrom`) and summaries are
  replaced, so those of a recursive function may alternate for ever (`interprocedural.rs:65`).
- `CancelLosesNothing` (`AsyncLowering`): the drop function of a future names no drop function for structs
  without a `Drop` implementation, and the unmangled method for those with one (`async_lowering.rs:1324`,
  against `docs/Phase15_async_await_Plan.md:56`).
- `PlaceholderIsNoEvidence` (`ModuleLoading`): a provider compiled from source has a fingerprint of zeros; a
  library that records it is valid with any later interface compiled from source (`registry.rs:1196`).
- `AcceptedNeverReturnsGone` (`MoveCheck`): the operand of a `Ret` is not checked against moves.
- `AcceptedNeverOverwritesOwned` (`MoveCheck`): an assignment emits no drop of the old value.
- `AcceptedNeverLeaks` (`MoveCheck`): a field that is stored back into a moved struct is not dropped.
- `DiagnosticsDeterministic` (`MoveRecompile`): which of two errors a field gets follows the merge order.
- `CancelDropsOnce` (`AsyncLowering`): a future awaited through a local is in the drop set and is the
  child future, so cancelling drops it twice.

Covered by the models and left out of the instances, because a property would not hold:

- Two import declarations of one provider count twice in the in-degree of the sysroot builder and are
  decremented once; the provider is reported as part of a cycle that does not exist
  (`sysroot_builder.rs:208`, against the comment at 258; `CycleIsReal` for a graph such as `<<2, 2>>`).
- A borrow through a reference issues no loan, and `&rw` variables can be copied; what the reference points
  to is unprotected (`borrow_analysis.rs:2024`, against `docs/memory/borrowck-ownership-rfc.md:178`).
- A name is loaded once, wherever it was found: a local import is satisfied by a contract of the same
  name and an external one by a local file that was loaded before, or that lies on the search path
  (`importer.rs:58`, `session.rs:91-111`, against rule M1 in `docs/normative-rules-p0-p1.md:386`); and a local
  module that imports the sysroot module of its own name is reported as a cycle.
- An object file beside a library is linked because it exists (`external.rs:231`, against
  `docs/luna_artifact_identity_refactoring.md:3`). It may be of another text: the process that wrote it is
  killed before it renames the library; two sessions compile different texts of the file and the
  renames alternate; the library was edited, rebuilt and failed in between. It may be cut off: the
  extracted object file is created and then filled (`std::fs::write`, `external.rs:239`), and a session
  that ends in between leaves it to all later ones.
- An internal provider is visible in every module that is loaded as a provider, the user's too
  (`external.rs:112-117`), so the same import fails when the module is compiled by itself.
- A library is validated before and after its own imports. What it records of a module it no longer
  reaches is not compared when that module is loaded later, by another import of the program
  (`external.rs:122-125` says graph-wide).

- `compile` returns `Ok(())` without a library after an error of the MVIR verifier (`luna-driver/src/lib.rs:467`, `491`)
  or of serialising, writing or renaming the library (`lib.rs:652-684`), and says nothing, as the builder asks it
  to be quiet. `build_all` goes on and ends well (`sysroot_builder.rs:171`, under the comment "Validate each artifact
  immediately" at 170); what imports the provider reads an older library or its source. `BuiltIsComplete` excepts
  exactly these providers.

In the lowering, the optimiser and the two machines:

- `x += e` is lowered as `x = e`: the parser keeps the operator (`luna-parser/src/expr.rs:81`), the type checker
  (`typechecker.rs:4004`) and the generator (`generator.rs:2272`) do not look at it. `CompoundStarts` in `MCLowering` has
  the meaning of `tests/semantic_maturity/sem2a_trait_01_generic_rw_receiver.ln:13`, which expects 42 of a counter of
  40; the test of the tool chain only asserts that the file is accepted. No run has a program with one.
- The interpreter replaces the field of a path instead of adding to it, so `a.b.c` reads `a.c`
  (`NestedMemberStarts` in `MCLowering`; `docs/phase16-comptime-plan.md:29` has nested fields evaluated).
- A `Drop` in the interpreter marks the slot moved before it enters the user's drop, which then fails when it
  reads its receiver; literals are `i32` there, casts do not truncate, bit operations stop it.
- A pattern of a variant without payload matches everything; variants are found by the end of their name,
  those of other enums included.
- Folding computes in 64 bits whatever the type; dead code elimination removes an await whose value is unused.
- The backend stores only the first payload of a variant; drop glue leaves the payloads of enums alone; an
  assignment drops nothing and temporaries that nobody takes are lost (the programs of kind `leaky`).
- `needs_drop` caches FALSE for what it finds while it is inside a cycle of types.

In the resolver and the interfaces; the texts avoid the first four:

- A scope is extracted once: in a provider with a module and an alias of it, the one the hash map has first gets
  what is in it, and the other has nothing in the interface (`registry.rs:1244`). Which of the two paths an
  importer can use differs from one run of the compiler to the next.
- Merging writes into the module of the provider imported first, so another namespace that imports only that
  provider sees the names of the other (`symbol.rs:194`).
- In a provider, which has no first pass, a module takes the symbol of a function of its name without an error.
- What is `internal` cannot be named inside its own provider while that is compiled: its symbols have no
  provider yet (`symbol.rs:288`).
- A `using` before the module it names is refused.
- The names a block declares are declared before any of it is resolved, so that `dec x = x` in an inner block is
  the inner `x`, which the generator takes for a global and the linker does not find. The meaning takes this
  rule from the code.

In the front end. `GenericLibrary` has no program among those that are to be accepted that meets one, but
for the first, which the mains `picks` and `keeps` do and `OnlyHomonymsMistype` excepts:

- Which type argument belongs to which parameter goes by the source text of names in `mono.rs` (523-542, 921,
  941-957, 972-1000, 1472, 1501). With `struct Wrap<T>`, `impl<U> Wrap<U> { fn with<T>(self, y: T) -> T }` the call
  `Wrap<i32>.with(true)` is accepted at `T = bool`; the pair for the `T` of `with` is dropped, as the `T` of `Wrap` is
  there before it, whose `i32` it then gets. A parameter of a method that is named like that of the implementation
  gets the type of the latter likewise.
- An instance refused at the barrier is not remembered: a recursive one asks for itself for ever
  (`mono.rs:462`, `656`); polymorphic recursion never ends either.
- Substituting a type for a parameter that occurs in it does not end (`ty.rs:190`). A generic function that calls
  itself with the arguments swapped overflows the stack of the compiler; in the model this is the error
  `"overflow"` of the function checked.
- A type parameter unifies with every type (`typechecker.rs:148`), references with pointers; what is still
  postponed on a parameter at the end is not reported. The tail of a function is not compared with its return type, a
  closure call checks no argument, and no call checks their number.
- Bounds are looked up by the head of a type and not at all for parameters; calls through a bound record no
  substitution; the errors of a receiver are dropped.
- Struct patterns bind the types of the declaration and not of the instance; exhaustiveness stops at the outermost
  pattern; `let x = None`, unused, is accepted with a type that was never found (the barrier excepts names of enum
  type and does not look at `let`; `docs/final_semantic_freeze_audit.md:77`).
- Of two methods of one name in two traits, and of the leftovers of a substitution, a hash map's order takes one; two
  inherent blocks of a type share the parameters of the first. Roots for trait objects leave generic implementations out.
- `Self` and `Self::Item` of a trait are one inference variable for all calls; a projection with two disjoint
  implementations is found by the checker and not by `mono.rs`.
- Coherence compares references without their mutability and does not look into arrays.

Seen while reading and outside the models: in an async function the drop of a future at the end of a
scope is never given a callee (`async_lowering.rs:108`; hence `CompletionLosesOnlyFutures`); the awaited
child is taken and neither polled nor freed (`async_lowering.rs:538`).

## Not modelled, and why

- In the loan analysis: closures, trait objects, slices, enum payloads, pointer arithmetic, futures,
  calls without a summary, and the region bridge beyond storage extents and returned references.
- In the move check: operands that are temporaries or have a Copy type, which do nothing in it.
- The polling of child futures: the repository has no executor.
- Integer widths in the hash table: capacities stay small (the overflow of the rounding at 2^63 is
  listed as a hazard).
- In module loading: the contents of interfaces, legacy `.mlib` and `.ms` files and packages, sysroot builds
  without contracts, reads and writes that fail, and libraries published under another name or
  directory than their source.
- In the lowering: closures, trait objects, slices and strings, async functions (in `AsyncLowering`), floating
  point, raw pointers and casts; of the backend only what an instruction does, not the text it emits.
- In the front end: closures and function values that are called, `for`, `?`, async, ranges, casts, comptime, slice
  methods, visibility, mutability of places, lifetimes, annotations, derive, mangling. Names are
  resolved: a method name belongs to one trait or type, so what hash maps choose between is a single thing; type
  parameters have identities and may be written alike.
- In the resolver: the names of types, traits and variants, associated functions, macros and their syntax
  contexts, lambdas and captures, lifetime signatures; of interfaces everything but exported functions and modules.
- Lifetimes and regions: a pass without interleaving over the whole program, whose outlives constraints would have to
  be modelled name by name.
- Lexer, parser, diagnostics, command line, editor support, options and iterators: sequential code
  without state that a model would tell apart better than a test.
- C runtime: wrappers of the operating system, one call deep.

## Plan

Done, in this order: the engine and the move analysis; summaries; the sysroot builder; the loan
analysis; the hash table; async lowering; module loading; lowering, optimiser and the two machines; type
inference, coherence and monomorphisation; names. Next, most important first:

1. **Region solver** (`luna-semantic`): reachability of constraints against a reference definition.
2. **Vectors and draining iterators** (`libs/external/alloc`): ownership ledgers as in `RawTable`,
   refining a sequence.
3. **Composition**: `MoveCheck` and `BorrowCheck` on what `MvirGenerator` makes of the programs of `MCLowering`.
4. **Closures and `for`** in the lowering and in the collection of instances.
5. **Loan analysis**: calls without a summary, closures, the older verdict beside the region bridge.

Proofs worth having next: that the loan of every live reference is known (`ProvenanceIsSound`), as a simulation in the
manner of `MoveInvariant`.
