----------------------------- MODULE ModuleLoading -----------------------------
(***************************************************************************)
(* Compilations that share a directory and a sysroot                       *)
(* (luna-driver/src/lib.rs, session.rs, importer.rs, external.rs,          *)
(* registry.rs).  A process compiles one file: it loads the providers of   *)
(* the language contracts, then whatever the file imports, each with its   *)
(* own imports first, and then publishes an object file and a library, or  *)
(* links a program.  The recursion of the loader is a stack of frames, the *)
(* compiled file at the bottom.  Files change between any two steps, and a *)
(* process may be killed between any two steps.                            *)
(***************************************************************************)
EXTENDS Naturals, Sequences

-----------------------------------------------------------------------------
(***************************************************************************)
(* What one compilation leaves for the next: the source of a module, its   *)
(* interface library (.llib) and its object file (.obj), beside each other *)
(* under one name; which file an import finds (importer.rs, session.rs,    *)
(* discovery.rs) and when a library is valid (validate_artifact,           *)
(* luna-llib/src/lib.rs).                                                  *)
(***************************************************************************)
CONSTANTS
  Names,        \* the names of modules
  Texts,        \* what a source file may contain
  Listed,       \* the names in sysroot.toml ...
  Internal,     \* ... and those of them that are internal
  Contracts,    \* the providers every session loads first, in this order
  Imports,      \* Imports[f][t]: the imports of text t of file f, in this order
  Interface,    \* Interface[f][t]: the fingerprint of the interface of text t of file f
  Placeholder,  \* the fingerprint of 32 zero bytes
  Absent,       \* no such file
  Torn,         \* an object file that is cut off
  SearchesUser  \* is the directory of the user's files on the search path

Places == {"user", "sysroot"}
Files == [place : Places, name : Names]
Kinds == {"local", "external"}

ASSUME ArtifactsAssumption ==
  /\ Internal \subseteq Listed /\ Listed \subseteq Names
  /\ Contracts \in Seq(Listed)
  /\ \A f \in Files : \A t \in Texts : Imports[f][t] \in Seq([kind : Kinds, name : Names])
  /\ Absent \notin Files /\ Absent \notin Texts /\ Torn \notin Texts
  /\ \A f \in Files : \A t \in Texts : Interface[f][t] # Placeholder

\* The interface of a module is about its names and types, and not about where its file is.
ASSUME InterfaceAssumption ==
  \A f, g \in Files : f.name = g.name => \A t \in Texts : Interface[f][t] = Interface[g][t]

VARIABLES
  sources,    \* the text of every source file
  libraries,  \* every .llib: the text it was made from, its record of dependencies, and an object file
  objects     \* every .obj: the text it was made from

Exists(f) == sources[f] # Absent \/ libraries[f] # Absent

\* A local import is a file beside the one with the import.  An external one must be listed in
\* sysroot.toml, and is looked for along the search path and then in the sysroot.
Lookup(from, import) ==
  LET at(place) == [place |-> place, name |-> import.name]
      path == CASE import.kind = "local" -> {from.place}
                [] import.name \notin Listed -> {}
                [] SearchesUser /\ Exists(at("user")) -> {"user"}
                [] OTHER -> {"sysroot"}
      found == {place \in path : Exists(at(place))}
  IN  IF found = {} THEN Absent ELSE at(CHOOSE place \in found : TRUE)

\* Mistake: the record of dependencies is not looked at.
SourceMatches(library, text, known) == text = Absent \/ text = library.text

\* A library is valid if the source beside it, when there is one, is the text it was made from, and
\* if every dependency it records that is loaded has the fingerprint it records.
ValidLibrary(library, text, known) ==
  /\ text = Absent \/ text = library.text
  /\ \A name \in DOMAIN library.needs \cap DOMAIN known :
       library.needs[name].fingerprint = known[name].fingerprint

-----------------------------------------------------------------------------
(* The sessions.                                                           *)

CONSTANTS
  Processes,
  Jobs,        \* Jobs[p]: what p may be asked to compile, and whether to a library
  Delivered,   \* the libraries and object files there may be at the start
  FirstTexts,  \* the sources at the start
  Edits,       \* the texts a file may be given
  MaxStarts,   \* bound: MaxStarts[p] is how often p is started
  MaxEdits,    \* bound: how often a source is changed
  MaxDeaths    \* bound: how many processes are killed

\* A record of dependencies: each fingerprint in it is the placeholder, or that of the interface of the
\* text the dependency had.
Recorded(needs) ==
  \A name \in DOMAIN needs : needs[name].fingerprint # Placeholder =>
    /\ needs[name].text \in Texts
    /\ \E f \in Files : f.name = name /\ needs[name].fingerprint = Interface[f][needs[name].text]

ASSUME LoadingAssumption ==
  /\ \A p \in Processes : \A j \in Jobs[p] : j.file \in Files
  /\ FirstTexts \in [Files -> Texts \cup {Absent}]
  /\ \A f \in Files : Edits[f] \subseteq Texts
  /\ \A d \in Delivered :
       /\ DOMAIN d.libraries = Files
       /\ \A f \in Files : d.libraries[f] # Absent =>
            d.libraries[f].text \in Texts /\ Recorded(d.libraries[f].needs)

VARIABLES
  phase,       \* "idle", "loading", "publish", "rename" or "link"
  job,         \* what is compiled, and the object file that goes into the library
  frames,      \* the calls of the loader
  loading,     \* loading_stack: the names of the providers being loaded
  registered,  \* providers and interfaces: what every loaded name stands for
  local,       \* local_providers: the names that local imports have loaded
  collected,   \* collected_objects
  starts, edits, deaths

stores == <<sources, libraries, objects>>
session == <<job, frames, loading, registered, local, collected>>
counters == <<starts, edits, deaths>>
loadingVars == <<stores, phase, session, counters>>

Nothing == [name \in {} |-> Absent]
NoJob == [file |-> Absent, library |-> FALSE, object |-> Absent]
NoLibrary == [text |-> Absent, needs |-> Nothing, object |-> Absent]

LoadingInit ==
  /\ sources = FirstTexts
  /\ \E d \in Delivered : libraries = d.libraries /\ objects = d.objects
  /\ phase = [p \in Processes |-> "idle"]
  /\ job = [p \in Processes |-> NoJob]
  /\ frames = [p \in Processes |-> <<>>]
  /\ loading = [p \in Processes |-> <<>>]
  /\ registered = [p \in Processes |-> Nothing]
  /\ local = [p \in Processes |-> {}]
  /\ collected = [p \in Processes |-> {}]
  /\ starts = [p \in Processes |-> 0]
  /\ edits = 0 /\ deaths = 0

Pop(s) == SubSeq(s, 1, Len(s) - 1)
Elements(s) == {s[i] : i \in 1 .. Len(s)}

Depth(p) == Len(frames[p])
Here(p) == frames[p][Depth(p)]
At(p, step) == phase[p] = "loading" /\ Depth(p) > 0 /\ Here(p).step = step

\* The process has ended: everything it had in memory is gone.
Forget(p) ==
  /\ phase' = [phase EXCEPT ![p] = "idle"]
  /\ job' = [job EXCEPT ![p] = NoJob]
  /\ frames' = [frames EXCEPT ![p] = <<>>]
  /\ loading' = [loading EXCEPT ![p] = <<>>]
  /\ registered' = [registered EXCEPT ![p] = Nothing]
  /\ local' = [local EXCEPT ![p] = {}]
  /\ collected' = [collected EXCEPT ![p] = {}]

-----------------------------------------------------------------------------
(* The start of a session. *)

External(names) == [i \in 1 .. Len(names) |-> [kind |-> "external", name |-> names[i]]]

Frame(file, kind, text, library, todo, step) ==
  [file |-> file, kind |-> kind, text |-> text, library |-> library, todo |-> todo,
   failed |-> FALSE, step |-> step]

Start(p) ==
  /\ phase[p] = "idle" /\ starts[p] < MaxStarts[p]
  /\ \E j \in Jobs[p] :
       /\ sources[j.file] # Absent
       /\ job' = [job EXCEPT ![p] = [file |-> j.file, library |-> j.library, object |-> Absent]]
       /\ frames' = [frames EXCEPT ![p] =
            << Frame(j.file, "root", sources[j.file], NoLibrary, External(Contracts), "bootstrap") >>]
  /\ phase' = [phase EXCEPT ![p] = "loading"]
  /\ starts' = [starts EXCEPT ![p] = @ + 1]
  /\ UNCHANGED <<stores, loading, registered, local, collected, edits, deaths>>

\* The contracts are loaded: the imports of the file are next.
EndBootstrap(p) ==
  /\ At(p, "bootstrap") /\ Here(p).todo = <<>> /\ ~Here(p).failed
  /\ frames' = [frames EXCEPT ![p][1].step = "imports",
                              ![p][1].todo = Imports[Here(p).file][Here(p).text]]
  /\ UNCHANGED <<stores, phase, job, loading, registered, local, collected, counters>>

-----------------------------------------------------------------------------
(* The next import of the file on top of the stack. *)

\* A failed contract ends the session at once; the imports of a file are all tried.
Importing(p) ==
  /\ At(p, "imports") \/ (At(p, "bootstrap") /\ ~Here(p).failed)
  /\ Here(p).todo # <<>>

Import(p) == Head(Here(p).todo)
Found(p) == Lookup(Here(p).file, Import(p))

\* The file that is compiled may not import an internal provider; a provider may.
Hidden(p) == Import(p).kind = "external" /\ Import(p).name \in Internal
             /\ At(p, "imports") /\ Depth(p) = 1

Done(s) == [s EXCEPT ![Len(s)].todo = Tail(@)]

\* Mistake: the diagnostics of an import are lost.
Forgive(s) == s

Blame(s) == [s EXCEPT ![Len(s)].failed = TRUE]

\* Loaded before: a name is loaded once in a session.
ImportKnown(p) ==
  /\ Importing(p) /\ ~Hidden(p)
  /\ \/ Import(p).kind = "local" /\ Import(p).name \in local[p]
     \/ /\ Import(p).name \notin Elements(loading[p])
        /\ Import(p).name \in DOMAIN registered[p]
        /\ Import(p).kind = "local" => Found(p) # Absent
  /\ frames' = [frames EXCEPT ![p] = Done(@)]
  /\ local' = [local EXCEPT ![p] = IF Import(p).kind = "local" THEN @ \cup {Import(p).name} ELSE @]
  /\ UNCHANGED <<stores, phase, job, loading, registered, collected, counters>>

\* Being loaded: a cycle is reported.
ImportCycle(p) ==
  /\ Importing(p)
  /\ ~(Import(p).kind = "local" /\ Import(p).name \in local[p])
  /\ Import(p).name \in Elements(loading[p])
  /\ frames' = [frames EXCEPT ![p] = Blame(Done(@))]
  /\ UNCHANGED <<stores, phase, job, loading, registered, local, collected, counters>>

\* An import that has to be loaded.
Fresh(p) ==
  /\ Importing(p) /\ ~Hidden(p)
  /\ Import(p).name \notin Elements(loading[p])
  /\ Import(p).name \notin DOMAIN registered[p]

\* Mistake: a local import is remembered as loaded before it is known to be.
RememberMissing(p) ==
  /\ Importing(p) /\ Found(p) = Absent /\ Import(p).kind = "local"
  /\ frames' = [frames EXCEPT ![p] = Blame(Done(@))]
  /\ local' = [local EXCEPT ![p] = @ \cup {Import(p).name}]
  /\ UNCHANGED <<stores, phase, job, loading, registered, collected, counters>>

\* Not there, or not visible: reported.
ImportMissing(p) ==
  /\ Importing(p)
  /\ Import(p).name \notin Elements(loading[p])
  /\ \/ Hidden(p)
     \/ /\ Found(p) = Absent
        /\ Import(p).name \notin (IF Import(p).kind = "local" THEN local[p] ELSE DOMAIN registered[p])
  /\ frames' = [frames EXCEPT ![p] = Blame(Done(@))]
  /\ UNCHANGED <<stores, phase, job, loading, registered, local, collected, counters>>

\* There is only a source: it is read, and its imports come next.
ImportSource(p) ==
  /\ Fresh(p) /\ Found(p) # Absent /\ libraries[Found(p)] = Absent
  /\ LET f == Found(p)
         t == sources[f]
     IN  frames' = [frames EXCEPT ![p] =
           Append(Done(@), Frame(f, Import(p).kind, t, NoLibrary, Imports[f][t], "imports"))]
  /\ loading' = [loading EXCEPT ![p] = Append(@, Import(p).name)]
  /\ UNCHANGED <<stores, phase, job, registered, local, collected, counters>>

\* There is a library: it is opened and its manifest is read.
ImportLibrary(p) ==
  /\ Fresh(p) /\ Found(p) # Absent /\ libraries[Found(p)] # Absent
  /\ LET f == Found(p)
         l == libraries[f]
     IN  frames' = [frames EXCEPT ![p] =
           Append(Done(@), Frame(f, Import(p).kind, l.text, l, <<>>, "validate"))]
  /\ UNCHANGED <<stores, phase, job, loading, registered, local, collected, counters>>

-----------------------------------------------------------------------------
(* One provider, from its first check to its registration. *)

Valid(p, text) == ValidLibrary(Here(p).library, text, registered[p])

\* A call of the loader returns: an error is passed to the importer, which goes on.
ReturnError(p) == frames' = [frames EXCEPT ![p] = Blame(Pop(@))]
ReturnLoaded(p) ==
  /\ frames' = [frames EXCEPT ![p] = Pop(@)]
  /\ local' = [local EXCEPT ![p] = IF Here(p).kind = "local" THEN @ \cup {Here(p).file.name} ELSE @]

RejectLibrary(p) ==
  /\ At(p, "validate") /\ ~Valid(p, sources[Here(p).file])
  /\ ReturnError(p)
  /\ UNCHANGED <<stores, phase, job, loading, registered, local, collected, counters>>

\* The imports are those of the syntax tree in the library.  That the provider is not being loaded
\* is tested here a second time.
AcceptLibrary(p) ==
  /\ At(p, "validate") /\ Valid(p, sources[Here(p).file])
  /\ Here(p).file.name \notin Elements(loading[p])
  /\ loading' = [loading EXCEPT ![p] = Append(@, Here(p).file.name)]
  /\ frames' = [frames EXCEPT ![p][Depth(p)].step = "imports",
                              ![p][Depth(p)].todo = Imports[Here(p).file][Here(p).text]]
  /\ UNCHANGED <<stores, phase, job, registered, local, collected, counters>>

\* Every import of a provider has been tried.
Imported(p) == At(p, "imports") /\ Here(p).todo = <<>> /\ Depth(p) > 1

\* Mistake: the error is returned and the provider stays on the loading stack.
RefuseAndStay(p) ==
  /\ Imported(p) /\ (Here(p).failed \/ ~Valid(p, Absent))
  /\ ReturnError(p)
  /\ UNCHANGED <<stores, phase, job, loading, registered, local, collected, counters>>

\* An import failed, or a dependency that is loaded now is not the one the library was made with.
Refuse(p) ==
  /\ Imported(p) /\ (Here(p).failed \/ ~Valid(p, Absent))
  /\ ReturnError(p)
  /\ loading' = [loading EXCEPT ![p] = Pop(@)]
  /\ UNCHANGED <<stores, phase, job, registered, local, collected, counters>>

\* The analysis of the provider reports something.
AnalysisFails(p) ==
  /\ Imported(p) /\ ~Here(p).failed /\ Valid(p, Absent)
  /\ ReturnError(p)
  /\ loading' = [loading EXCEPT ![p] = Pop(@)]
  /\ UNCHANGED <<stores, phase, job, registered, local, collected, counters>>

\* A provider that was compiled from its source has no fingerprint of its own.
Entry(frame) ==
  [file |-> frame.file, text |-> frame.text, needs |-> frame.library.needs,
   fingerprint |-> IF frame.library.text = Absent THEN Placeholder ELSE Interface[frame.file][frame.text]]

\* The provider is registered.  An object file beside a library is collected because it exists; if
\* there is none, the one in the library is written there.
Register(p) ==
  /\ Imported(p) /\ ~Here(p).failed /\ Valid(p, Absent)
  /\ registered' = [registered EXCEPT ![p] =
       [name \in DOMAIN @ \cup {Here(p).file.name} |->
          IF name = Here(p).file.name THEN Entry(Here(p)) ELSE @[name]]]
  /\ loading' = [loading EXCEPT ![p] = Pop(@)]
  /\ \/ /\ Here(p).library.text = Absent
        /\ ReturnLoaded(p)
        /\ UNCHANGED collected
     \/ /\ Here(p).library.text # Absent /\ objects[Here(p).file] # Absent
        /\ ReturnLoaded(p)
        /\ collected' = [collected EXCEPT ![p] = @ \cup {Here(p).file}]
     \/ /\ Here(p).library.text # Absent /\ objects[Here(p).file] = Absent
        /\ frames' = [frames EXCEPT ![p][Depth(p)].step = "extract"]
        /\ UNCHANGED <<local, collected>>
  /\ UNCHANGED <<stores, phase, job, counters>>

\* std::fs::write creates the file, or empties it, and then fills it.
CreateSidecar(p) ==
  /\ At(p, "extract")
  /\ objects' = [objects EXCEPT ![Here(p).file] = Torn]
  /\ frames' = [frames EXCEPT ![p][Depth(p)].step = "fill"]
  /\ UNCHANGED <<sources, libraries, phase, job, loading, registered, local, collected, counters>>

FillSidecar(p) ==
  /\ At(p, "fill")
  /\ objects' = [objects EXCEPT ![Here(p).file] = Here(p).library.object]
  /\ collected' = [collected EXCEPT ![p] = @ \cup {Here(p).file}]
  /\ ReturnLoaded(p)
  /\ UNCHANGED <<sources, libraries, phase, job, loading, registered, counters>>

-----------------------------------------------------------------------------
(* The end of a session. *)

\* The file itself, with every import tried.
Ready(p) == At(p, "imports") /\ Here(p).todo = <<>> /\ Depth(p) = 1

\* Mistake: a contract that failed is not noticed.
FailReady(p) ==
  /\ Ready(p)
  /\ Forget(p)
  /\ UNCHANGED <<stores, counters>>

\* A contract or an import failed, or the file has errors of its own.
Fail(p) ==
  /\ \/ At(p, "bootstrap") /\ Here(p).failed
     \/ Ready(p)
  /\ Forget(p)
  /\ UNCHANGED <<stores, counters>>

\* The object file is written beside its place and renamed.
EmitObject(p) ==
  /\ Ready(p) /\ ~Here(p).failed
  /\ objects' = [objects EXCEPT ![job[p].file] = Here(p).text]
  /\ phase' = [phase EXCEPT ![p] = IF job[p].library THEN "publish" ELSE "link"]
  /\ UNCHANGED <<sources, libraries, session, counters>>

\* The object file that goes into the library is read back from the directory.
ReadObject(p) ==
  /\ phase[p] = "publish"
  /\ job' = [job EXCEPT ![p].object = objects[job[p].file]]
  /\ phase' = [phase EXCEPT ![p] = "rename"]
  /\ UNCHANGED <<stores, frames, loading, registered, local, collected, counters>>

\* Every provider of the session is a dependency, with the fingerprint the session has for it (and,
\* not in the file, the text it had).
Needs(p) ==
  [name \in DOMAIN registered[p] \ {job[p].file.name} |->
     [fingerprint |-> registered[p][name].fingerprint, text |-> registered[p][name].text]]

PublishLibrary(p) ==
  /\ phase[p] = "rename"
  /\ libraries' = [libraries EXCEPT ![job[p].file] =
       [text |-> Here(p).text, needs |-> Needs(p), object |-> job[p].object]]
  /\ Forget(p)
  /\ UNCHANGED <<sources, objects, counters>>

\* The program is linked from its object file and the collected ones.
Link(p) ==
  /\ phase[p] = "link"
  /\ Forget(p)
  /\ UNCHANGED <<stores, counters>>

-----------------------------------------------------------------------------

Edit ==
  /\ edits < MaxEdits
  /\ \E f \in Files : \E t \in Edits[f] : t # sources[f] /\ sources' = [sources EXCEPT ![f] = t]
  /\ edits' = edits + 1
  /\ UNCHANGED <<libraries, objects, phase, session, starts, deaths>>

Die(p) ==
  /\ phase[p] # "idle" /\ deaths < MaxDeaths
  /\ deaths' = deaths + 1
  /\ Forget(p)
  /\ UNCHANGED <<stores, starts, edits>>

Work(p) ==
  \/ EndBootstrap(p) \/ ImportKnown(p) \/ ImportCycle(p) \/ ImportMissing(p)
  \/ ImportSource(p) \/ ImportLibrary(p) \/ RejectLibrary(p) \/ AcceptLibrary(p)
  \/ Refuse(p) \/ AnalysisFails(p) \/ Register(p) \/ CreateSidecar(p) \/ FillSidecar(p)
  \/ Fail(p) \/ EmitObject(p) \/ ReadObject(p) \/ PublishLibrary(p) \/ Link(p)

LoadingNext == Edit \/ \E p \in Processes : Start(p) \/ Work(p) \/ Die(p)

\* A process that is started goes on until it ends.
LoadingSpec == LoadingInit /\ [][LoadingNext]_loadingVars /\ \A p \in Processes : WF_loadingVars(Work(p))

-----------------------------------------------------------------------------
(* What is checked. *)

ImportedNames(file, text) == {import.name : import \in Elements(Imports[file][text])}

\* The variables have their types; a session that is not running has nothing.
LoadingTypeOK ==
  /\ \A f \in Files : sources[f] \in Texts \cup {Absent} /\ objects[f] \in Texts \cup {Absent, Torn}
  /\ \A f \in Files : libraries[f] # Absent =>
       libraries[f].text \in Texts /\ libraries[f].object \in Texts \cup {Torn}
  /\ \A p \in Processes :
       /\ phase[p] \in {"idle", "loading", "publish", "rename", "link"}
       /\ phase[p] = "idle" => frames[p] = <<>> /\ loading[p] = <<>> /\ collected[p] = {}
       /\ phase[p] # "idle" => frames[p] # <<>> /\ frames[p][1].file = job[p].file
       /\ phase[p] \notin {"idle", "loading"} => Depth(p) = 1
       /\ local[p] \subseteq DOMAIN registered[p] /\ DOMAIN registered[p] \subseteq Names
       /\ collected[p] \subseteq {registered[p][name].file : name \in DOMAIN registered[p]}

\* The loading stack has the providers that are being loaded, outermost first, and none of them twice:
\* every return of the loader, and there are a dozen error returns, takes off what its call put on.
LoadingStackIsExact ==
  \A p \in Processes :
    LET started == {i \in 2 .. Depth(p) : frames[p][i].step = "imports"}
    IN  /\ started = 2 .. Len(loading[p]) + 1
        /\ \A i \in started : frames[p][i].file.name = loading[p][i - 1]
        /\ \A i, j \in started : frames[p][i].file.name = frames[p][j].file.name => i = j

\* A cycle is reported only where there is one: the import leads to a file that is being loaded, and
\* from that file each import on the stack leads to the next.
ReportedCycleIsReal ==
  [][\A p \in Processes : ImportCycle(p) =>
       \E i \in 2 .. Depth(p) :
         /\ frames[p][i].file = Found(p)
         /\ \A j \in i .. Depth(p) - 1 :
              frames[p][j + 1].file.name \in ImportedNames(frames[p][j].file, frames[p][j].text)
    ]_loadingVars

\* A provider is registered only after everything it imports: an import that failed, at whatever
\* depth, keeps all that depend on it out of the registry.
RegisteredIsClosed ==
  \A p \in Processes : \A name \in DOMAIN registered[p] :
    ImportedNames(registered[p][name].file, registered[p][name].text) \subseteq DOMAIN registered[p]

\* What the session has for a name does not change while it runs, so that all that import it agree.
NeverReplaced ==
  [][\A p \in Processes : phase'[p] # "idle" =>
       \A name \in DOMAIN registered[p] :
         name \in DOMAIN registered'[p] /\ registered'[p][name] = registered[p][name]]_loadingVars

\* Everything that name imports, and so on.
Behind(p, name) ==
  {other \in DOMAIN registered[p] :
     \A closed \in SUBSET DOMAIN registered[p] :
       /\ ImportedNames(registered[p][name].file, registered[p][name].text) \subseteq closed
       /\ \A n \in closed : ImportedNames(registered[p][n].file, registered[p][n].text) \subseteq closed
       => other \in closed}

SameInterface(p, name, need) ==
  LET entry == registered[p][name]
  IN  Interface[entry.file][entry.text] = Interface[entry.file][need.text]

\* A library is used only with the interfaces it was made with, of every provider it imports directly
\* or through others, unless the record of it is a placeholder.
ClosureIsFresh ==
  \A p \in Processes : \A name \in DOMAIN registered[p] :
    LET needs == registered[p][name].needs
    IN  \A other \in Behind(p, name) \cap DOMAIN needs :
          needs[other].fingerprint # Placeholder => SameInterface(p, other, needs[other])

\* A placeholder is no evidence: as ClosureIsFresh, with no exception.
PlaceholderIsNoEvidence ==
  \A p \in Processes : \A name \in DOMAIN registered[p] :
    \A other \in Behind(p, name) \cap DOMAIN registered[p][name].needs :
      SameInterface(p, other, registered[p][name].needs[other])

\* A compilation that is started ends.
SessionEnds == \A p \in Processes : phase[p] # "idle" ~> phase[p] = "idle"
=============================================================================
