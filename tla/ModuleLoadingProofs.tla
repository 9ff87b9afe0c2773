-------------------------- MODULE ModuleLoadingProofs --------------------------
(***************************************************************************)
(* The loading stack of a session is exact; what it has registered is      *)
(* never replaced, is closed under imports, and has the interfaces it was  *)
(* made with: for every graph of imports, any number of processes and any  *)
(* edits and deaths.  The first two use no assumption about the constants: *)
(* the stack of frames is a sequence of records whose files and texts may  *)
(* be anything.                                                            *)
(***************************************************************************)
EXTENDS ModuleLoading, SequenceTheorems, TLAPS

\* The shape of a stack: a sequence of records with the fields of a frame; every frame but the one
\* on top waits for an import, and only the one at the bottom has contracts to load.
FrameFields == {"file", "kind", "text", "library", "todo", "failed", "step"}

IsList(s) == s \in Seq(Elements(s))

Stack(s) ==
  /\ IsList(s)
  /\ \A i \in 1 .. Len(s) : DOMAIN s[i] = FrameFields
  /\ \A i \in 1 .. Len(s) : i < Len(s) => s[i].step \in {"bootstrap", "imports"}
  /\ \A i \in 2 .. Len(s) : s[i].step # "bootstrap"
  /\ Len(s) > 0 => s[1].step \in {"bootstrap", "imports"}

\* How many frames of the stack s have a name on the loading stack.
Started(s) ==
  IF Len(s) = 0 THEN 0
  ELSE IF Len(s) > 1 /\ s[Len(s)].step # "imports" THEN Len(s) - 2 ELSE Len(s) - 1

\* The names l on the loading stack are those of the frames of s that are being loaded.
Matches(s, l) ==
  /\ Stack(s)
  /\ IsList(l)
  /\ Len(l) = Started(s)
  /\ \A i \in 1 .. Len(l) : l[i] = s[i + 1].file.name
  /\ \A i, j \in 1 .. Len(l) : l[i] = l[j] => i = j

\* A sequence over any set is one over its own elements.
LEMMA ListOf ==
  ASSUME NEW S, NEW s \in Seq(S)
  PROVE  IsList(s)
  BY DEF IsList, Elements

\* What appending does to a sequence.
LEMMA ListAppend ==
  ASSUME NEW s, IsList(s), NEW e
  PROVE  /\ IsList(Append(s, e))
         /\ Len(Append(s, e)) = Len(s) + 1
         /\ Append(s, e)[Len(s) + 1] = e
         /\ \A i \in 1 .. Len(s) : Append(s, e)[i] = s[i]
<1>1. PICK S : s \in Seq(S) /\ e \in S
  <2>1. s \in Seq(Elements(s) \cup {e})
    BY DEF IsList
  <2> QED
    BY <2>1
<1>2. Append(s, e) \in Seq(S)
  BY <1>1
<1>3. IsList(Append(s, e))
  BY <1>2, ListOf
<1> QED
  BY <1>1, <1>3

\* What popping does to a sequence.
LEMMA ListPop ==
  ASSUME NEW s, IsList(s), Len(s) > 0
  PROVE  /\ IsList(Pop(s))
         /\ Len(Pop(s)) = Len(s) - 1
         /\ \A i \in 1 .. Len(s) - 1 : Pop(s)[i] = s[i]
<1>1. PICK S : s \in Seq(S)
  BY DEF IsList
<1>2. Len(s) - 1 \in Int /\ \A i \in 1 .. Len(s) - 1 : s[i] \in S
  BY <1>1
<1> DEFINE n == Len(s) - 1
<1>3. /\ Pop(s) \in Seq(S)
      /\ Len(Pop(s)) = IF 1 <= n THEN n - 1 + 1 ELSE 0
      /\ \A i \in 1 .. n - 1 + 1 : Pop(s)[i] = s[1 + i - 1]
  <2> HIDE DEF n
  <2>1. Pop(s) = SubSeq(s, 1, n)
    BY DEF Pop, n
  <2> QED
    BY <1>1, <1>2, <2>1, SubSeqProperties DEF n
<1>4. IsList(Pop(s))
  BY <1>3, ListOf
<1>5. Len(s) \in Nat \ {0}
  BY <1>1
<1>6. n \in Nat /\ n = Len(s) - 1
  BY <1>5
<1> HIDE DEF n
<1>7. Len(Pop(s)) = n
  BY <1>3, <1>6
<1>8. \A i \in 1 .. n : Pop(s)[i] = s[i]
  BY <1>3, <1>6
<1> QED
  BY <1>4, <1>6, <1>7, <1>8

-----------------------------------------------------------------------------
(* What the steps of the loader do to a stack and its names. *)

\* The frames of t are those of s, but for what the top frame has tried.
SameFrames(s, t) ==
  /\ IsList(t) /\ Len(t) = Len(s)
  /\ \A i \in 1 .. Len(s) : /\ DOMAIN t[i] = FrameFields
                           /\ t[i].file = s[i].file
                           /\ t[i].text = s[i].text
                           /\ t[i].step = s[i].step

\* An import is taken off the list of the top frame: no file, text or step changes.
LEMMA DoneSame ==
  ASSUME NEW s, Stack(s), Len(s) > 0
  PROVE  SameFrames(s, Done(s))
<1> DEFINE n == Len(s)
<1> DEFINE e == [s[n] EXCEPT !.todo = Tail(@)]
<1>1. n \in 1 .. Len(s)
  BY DEF Stack, IsList
<1>2. Done(s) = [s EXCEPT ![n] = e]
  BY DEF Done
<1>3. DOMAIN e = FrameFields /\ e.file = s[n].file /\ e.text = s[n].text /\ e.step = s[n].step
  BY <1>1 DEF Stack, FrameFields
<1> HIDE DEF e, n
<1>4. /\ IsList(Done(s)) /\ Len(Done(s)) = Len(s)
      /\ \A i \in 1 .. Len(s) : Done(s)[i] = IF i = n THEN e ELSE s[i]
  <2>1. PICK S : s \in Seq(S) /\ e \in S
    <3>1. s \in Seq(Elements(s) \cup {e})
      BY DEF Stack, IsList
    <3> QED
      BY <3>1
  <2>2. Done(s) \in Seq(S)
    BY <1>1, <1>2, <2>1
  <2>3. IsList(Done(s))
    BY <2>2, ListOf
  <2> QED
    BY <1>1, <1>2, <2>1, <2>3
<1>5. ASSUME NEW i \in 1 .. Len(s)
      PROVE  /\ DOMAIN Done(s)[i] = FrameFields
             /\ Done(s)[i].file = s[i].file
             /\ Done(s)[i].text = s[i].text
             /\ Done(s)[i].step = s[i].step
  <2>1. CASE i = n
    <3>1. Done(s)[i] = e
      BY <1>4, <2>1
    <3> QED
      BY <1>3, <2>1, <3>1
  <2>2. CASE i # n
    <3>1. Done(s)[i] = s[i]
      BY <1>4, <2>2
    <3> QED
      BY <3>1 DEF Stack
  <2> QED
    BY <2>1, <2>2
<1> QED
  BY <1>4, <1>5 DEF SameFrames

\* The top frame is marked as failed: no file, text or step changes.
LEMMA BlameSame ==
  ASSUME NEW s, Stack(s), Len(s) > 0
  PROVE  SameFrames(s, Blame(s))
<1> DEFINE n == Len(s)
<1> DEFINE e == [s[n] EXCEPT !.failed = TRUE]
<1>1. n \in 1 .. Len(s)
  BY DEF Stack, IsList
<1>2. Blame(s) = [s EXCEPT ![n] = e]
  BY DEF Blame
<1>3. DOMAIN e = FrameFields /\ e.file = s[n].file /\ e.text = s[n].text /\ e.step = s[n].step
  BY <1>1 DEF Stack, FrameFields
<1> HIDE DEF e, n
<1>4. /\ IsList(Blame(s)) /\ Len(Blame(s)) = Len(s)
      /\ \A i \in 1 .. Len(s) : Blame(s)[i] = IF i = n THEN e ELSE s[i]
  <2>1. PICK S : s \in Seq(S) /\ e \in S
    <3>1. s \in Seq(Elements(s) \cup {e})
      BY DEF Stack, IsList
    <3> QED
      BY <3>1
  <2>2. Blame(s) \in Seq(S)
    BY <1>1, <1>2, <2>1
  <2>3. IsList(Blame(s))
    BY <2>2, ListOf
  <2> QED
    BY <1>1, <1>2, <2>1, <2>3
<1>5. ASSUME NEW i \in 1 .. Len(s)
      PROVE  /\ DOMAIN Blame(s)[i] = FrameFields
             /\ Blame(s)[i].file = s[i].file
             /\ Blame(s)[i].text = s[i].text
             /\ Blame(s)[i].step = s[i].step
  <2>1. CASE i = n
    <3>1. Blame(s)[i] = e
      BY <1>4, <2>1
    <3> QED
      BY <1>3, <2>1, <3>1
  <2>2. CASE i # n
    <3>1. Blame(s)[i] = s[i]
      BY <1>4, <2>2
    <3> QED
      BY <3>1 DEF Stack
  <2> QED
    BY <2>1, <2>2
<1> QED
  BY <1>4, <1>5 DEF SameFrames

\* The loading stack depends only on files and steps.
LEMMA SameMatches ==
  ASSUME NEW s, NEW l, Matches(s, l), NEW t, SameFrames(s, t)
  PROVE  Matches(t, l)
  BY DEF Matches, SameFrames, Stack, Started

\* A library is opened: a frame that has no name on the loading stack yet.
LEMMA OpenMatches ==
  ASSUME NEW s, NEW l, Matches(s, l), Len(s) > 0, s[Len(s)].step \in {"bootstrap", "imports"},
         NEW f, DOMAIN f = FrameFields, f.step = "validate"
  PROVE  Matches(Append(s, f), l)
  BY ListAppend DEF Matches, Stack, Started

\* A source is read: the frame and its name are put on.
LEMMA PushMatches ==
  ASSUME NEW s, NEW l, Matches(s, l), Len(s) > 0, s[Len(s)].step \in {"bootstrap", "imports"},
         NEW f, DOMAIN f = FrameFields, f.step = "imports", f.file.name \notin Elements(l)
  PROVE  Matches(Append(s, f), Append(l, f.file.name))
  BY ListAppend DEF Matches, Stack, Started, Elements

\* A frame whose name is on the loading stack returns, and both are taken off.
LEMMA PopMatches ==
  ASSUME NEW s, NEW l, Matches(s, l), Len(s) > 1, s[Len(s)].step = "imports"
  PROVE  Matches(Pop(s), Pop(l))
<1>1. /\ IsList(Pop(s)) /\ Len(Pop(s)) = Len(s) - 1
      /\ \A i \in 1 .. Len(s) - 1 : Pop(s)[i] = s[i]
  BY ListPop DEF Matches, Stack
<1>2. Stack(Pop(s)) /\ Len(s) \in Nat
  BY <1>1 DEF Matches, Stack, IsList
<1>3. Len(l) = Len(s) - 1
  BY <1>2 DEF Matches, Started
<1>4. /\ IsList(Pop(l)) /\ Len(Pop(l)) = Len(l) - 1
      /\ \A i \in 1 .. Len(l) - 1 : Pop(l)[i] = l[i]
  BY <1>2, <1>3, ListPop DEF Matches
<1>5. Len(Pop(l)) = Started(Pop(s))
  BY <1>1, <1>2, <1>3, <1>4 DEF Matches, Stack, Started
<1> QED
  BY <1>1, <1>2, <1>3, <1>4, <1>5 DEF Matches

\* A frame whose name is not on the loading stack returns.
LEMMA ReturnMatches ==
  ASSUME NEW s, NEW l, Matches(s, l), Len(s) > 1, s[Len(s)].step # "imports"
  PROVE  Matches(Pop(s), l)
<1>1. /\ IsList(Pop(s)) /\ Len(Pop(s)) = Len(s) - 1
      /\ \A i \in 1 .. Len(s) - 1 : Pop(s)[i] = s[i]
  BY ListPop DEF Matches, Stack
<1>2. Stack(Pop(s)) /\ Len(s) \in Nat
  BY <1>1 DEF Matches, Stack, IsList
<1>3. Len(l) = Len(s) - 2
  BY <1>2 DEF Matches, Started
<1>4. Len(l) = Started(Pop(s))
  BY <1>1, <1>2, <1>3 DEF Matches, Stack, Started
<1> QED
  BY <1>1, <1>2, <1>3, <1>4 DEF Matches

\* The frame on top is at another step of the same file.
StepsTo(s, t, step) ==
  /\ IsList(t) /\ Len(t) = Len(s)
  /\ \A i \in 1 .. Len(s) - 1 : t[i] = s[i]
  /\ DOMAIN t[Len(s)] = FrameFields
  /\ t[Len(s)].file = s[Len(s)].file
  /\ t[Len(s)].step = step

\* The two updates by which the actions move the top frame to another step.
LEMMA TopSteps ==
  ASSUME NEW s, Stack(s), Len(s) > 0, NEW step, NEW todo
  PROVE  /\ StepsTo(s, [s EXCEPT ![Len(s)].step = step], step)
         /\ StepsTo(s, [s EXCEPT ![Len(s)].step = step, ![Len(s)].todo = todo], step)
<1> DEFINE n == Len(s)
<1> DEFINE e == [s[n] EXCEPT !.step = step]
<1> DEFINE g == [s[n] EXCEPT !.step = step, !.todo = todo]
<1> DEFINE t == [s EXCEPT ![n].step = step]
<1> DEFINE u == [s EXCEPT ![n].step = step, ![n].todo = todo]
<1>1. n \in 1 .. Len(s)
  BY DEF Stack, IsList
<1>2. PICK S : s \in Seq(S) /\ e \in S /\ g \in S
  <2>1. s \in Seq(Elements(s) \cup {e, g})
    BY DEF Stack, IsList
  <2> QED
    BY <2>1
<1>3. t = [s EXCEPT ![n] = e] /\ u = [s EXCEPT ![n] = g]
  BY <1>1, <1>2
<1>4. /\ DOMAIN e = FrameFields /\ e.file = s[n].file /\ e.step = step
      /\ DOMAIN g = FrameFields /\ g.file = s[n].file /\ g.step = step
  BY <1>1 DEF Stack, FrameFields
<1>5. n = Len(s)
  OBVIOUS
<1> HIDE DEF n, e, g, t, u
<1>6. t \in Seq(S) /\ u \in Seq(S)
  BY <1>1, <1>2, <1>3
<1>7. IsList(t) /\ IsList(u)
  BY <1>6, ListOf
<1>8. StepsTo(s, t, step)
  BY <1>1, <1>2, <1>3, <1>4, <1>5, <1>7 DEF StepsTo
<1>9. StepsTo(s, u, step)
  BY <1>1, <1>2, <1>3, <1>4, <1>5, <1>7 DEF StepsTo
<1> QED
  BY <1>8, <1>9 DEF t, u, n

\* A provider that goes to another step leaves a stack.
LEMMA StackSteps ==
  ASSUME NEW s, Stack(s), Len(s) > 1, NEW step, step # "bootstrap", NEW t, StepsTo(s, t, step)
  PROVE  Stack(t)
<1>1. Len(s) \in Nat /\ Len(t) = Len(s) /\ IsList(t)
  BY DEF Stack, IsList, StepsTo
<1>2. ASSUME NEW i \in 1 .. Len(t)
      PROVE  /\ DOMAIN t[i] = FrameFields
             /\ i < Len(t) => t[i].step \in {"bootstrap", "imports"}
             /\ i > 1 => t[i].step # "bootstrap"
  <2>1. CASE i = Len(s)
    BY <1>1, <2>1 DEF StepsTo
  <2>2. CASE i # Len(s)
    <3>1. t[i] = s[i] /\ i \in 1 .. Len(s)
      BY <1>1, <2>2 DEF StepsTo
    <3>2. i \in 2 .. Len(s) \/ i = 1
      BY <1>1, <3>1
    <3> QED
      BY <1>1, <2>2, <3>1, <3>2 DEF Stack
  <2> QED
    BY <2>1, <2>2
<1>3. t[1].step \in {"bootstrap", "imports"}
  BY <1>1, <1>2
<1> QED
  BY <1>1, <1>2, <1>3 DEF Stack

\* The root goes from its contracts to its imports.
LEMMA BootMatches ==
  ASSUME NEW s, NEW l, Matches(s, l), Len(s) > 0, s[Len(s)].step = "bootstrap",
         NEW t, StepsTo(s, t, "imports")
  PROVE  Len(s) = 1 /\ Matches(t, l)
<1>1. Len(s) \in Nat
  BY DEF Matches, Stack, IsList
<1>2. Len(s) = 1
  <2> SUFFICES ASSUME Len(s) # 1
               PROVE  FALSE
    OBVIOUS
  <2>1. Len(s) \in 2 .. Len(s)
    BY <1>1
  <2>2. s[Len(s)].step # "bootstrap"
    BY <2>1 DEF Matches, Stack
  <2> QED
    BY <2>2
<1>3. Stack(t)
  <2>1. Len(t) = 1 /\ IsList(t) /\ DOMAIN t[1] = FrameFields /\ t[1].step = "imports"
    BY <1>2 DEF StepsTo
  <2> QED
    BY <2>1 DEF Stack
<1>4. Len(l) = 0 /\ Started(t) = 0
  BY <1>2 DEF Matches, Started, StepsTo
<1> QED
  BY <1>2, <1>3, <1>4 DEF Matches

\* A library is accepted: its name is put on.
LEMMA AcceptMatches ==
  ASSUME NEW s, NEW l, Matches(s, l), Len(s) > 0, s[Len(s)].step = "validate",
         s[Len(s)].file.name \notin Elements(l),
         NEW t, StepsTo(s, t, "imports")
  PROVE  Matches(t, Append(l, s[Len(s)].file.name))
<1>1. Len(s) \in Nat
  BY DEF Matches, Stack, IsList
<1>2. Len(s) > 1 /\ Len(l) = Len(s) - 2
  BY <1>1 DEF Matches, Stack, Started
<1>3. Stack(t)
  BY <1>1, <1>2 DEF Matches, Stack, StepsTo
<1>4. Started(t) = Len(s) - 1
  BY <1>1, <1>2 DEF StepsTo, Started
<1> DEFINE m == Append(l, s[Len(s)].file.name)
<1>5. /\ IsList(m) /\ Len(m) = Len(l) + 1
      /\ m[Len(l) + 1] = s[Len(s)].file.name
      /\ \A i \in 1 .. Len(l) : m[i] = l[i]
  BY ListAppend DEF Matches
<1> HIDE DEF m
<1>6. \A i \in 1 .. Len(m) : m[i] = t[i + 1].file.name
  BY <1>1, <1>2, <1>5 DEF Matches, StepsTo
<1>7. \A i, j \in 1 .. Len(m) : m[i] = m[j] => i = j
  BY <1>1, <1>2, <1>5 DEF Matches, Elements
<1>8. Matches(t, m)
  BY <1>2, <1>3, <1>4, <1>5, <1>6, <1>7 DEF Matches
<1> QED
  BY <1>8 DEF m

\* A provider is registered: its name is taken off while its frame has an object file to write.
LEMMA ExtractMatches ==
  ASSUME NEW s, NEW l, Matches(s, l), Len(s) > 1, s[Len(s)].step = "imports",
         NEW t, StepsTo(s, t, "extract")
  PROVE  Matches(t, Pop(l))
<1>1. Len(s) \in Nat
  BY DEF Matches, Stack, IsList
<1>2. Len(l) = Len(s) - 1
  BY <1>1 DEF Matches, Started
<1>3. /\ IsList(Pop(l)) /\ Len(Pop(l)) = Len(l) - 1
      /\ \A i \in 1 .. Len(l) - 1 : Pop(l)[i] = l[i]
  BY <1>1, <1>2, ListPop DEF Matches
<1>4. Stack(t)
  BY StackSteps DEF Matches
<1>5. Started(t) = Len(Pop(l))
  BY <1>1, <1>2, <1>3 DEF Started, StepsTo
<1> QED
  BY <1>1, <1>2, <1>3, <1>4, <1>5 DEF Matches, StepsTo

\* The object file of a provider is created: nothing is taken off.
LEMMA FillMatches ==
  ASSUME NEW s, NEW l, Matches(s, l), Len(s) > 0, s[Len(s)].step = "extract",
         NEW t, StepsTo(s, t, "fill")
  PROVE  Matches(t, l)
<1>1. Len(s) \in Nat
  BY DEF Matches, Stack, IsList
<1>2. Len(s) > 1
  BY <1>1 DEF Matches, Stack
<1>3. Stack(t)
  BY <1>2, StackSteps DEF Matches
<1>4. Len(l) = Len(s) - 2 /\ Started(t) = Len(s) - 2
  BY <1>1, <1>2 DEF Matches, Started, StepsTo
<1> QED
  BY <1>1, <1>2, <1>3, <1>4 DEF Matches, StepsTo

-----------------------------------------------------------------------------
(* The inductive invariant: the names on the loading stack are those of the frames that are being  *)
(* loaded, and neither they nor a library that is being checked are registered yet.                *)

Apart(s, l, r) ==
  /\ \A i \in 1 .. Len(l) : l[i] \notin DOMAIN r
  /\ Len(s) > 0 /\ s[Len(s)].step = "validate" => s[Len(s)].file.name \notin DOMAIN r

SessionInv(ph, s, l, r) ==
  /\ Matches(s, l)
  /\ Apart(s, l, r)
  /\ ph = "idle" => s = <<>>

LoadingInv ==
  /\ DOMAIN phase = Processes /\ DOMAIN frames = Processes
  /\ DOMAIN loading = Processes /\ DOMAIN registered = Processes
  /\ \A p \in Processes : SessionInv(phase[p], frames[p], loading[p], registered[p])

\* The other processes do not move.
OnlyMoves(p) ==
  /\ DOMAIN phase' = Processes /\ DOMAIN frames' = Processes
  /\ DOMAIN loading' = Processes /\ DOMAIN registered' = Processes
  /\ \A q \in Processes : q # p =>
       /\ phase'[q] = phase[q] /\ frames'[q] = frames[q]
       /\ loading'[q] = loading[q] /\ registered'[q] = registered[q]

Keeps(p) == SessionInv(phase'[p], frames'[p], loading'[p], registered'[p])

\* The invariant is kept if the one process that moves keeps its part.
LEMMA OneMoves ==
  ASSUME LoadingInv, NEW p \in Processes, OnlyMoves(p), Keeps(p)
  PROVE  LoadingInv'
<1>1. ASSUME NEW q \in Processes
      PROVE  SessionInv(phase'[q], frames'[q], loading'[q], registered'[q])
  BY DEF LoadingInv, OnlyMoves, Keeps
<1> QED
  BY <1>1 DEF LoadingInv, OnlyMoves

\* What an import finds has the name of the import.
LEMMA LookupName ==
  ASSUME NEW from, NEW import, Lookup(from, import) # Absent
  PROVE  Lookup(from, import).name = import.name
  BY DEF Lookup

\* A session that is not running has its part of the invariant.
LEMMA NothingKeeps ==
  ASSUME NEW ph, NEW r
  PROVE  SessionInv(ph, <<>>, <<>>, r)
<1>1. IsList(<<>>) /\ Len(<<>>) = 0
  BY DEF IsList
<1>2. Matches(<<>>, <<>>)
  BY <1>1 DEF Matches, Stack, Started
<1> QED
  BY <1>1, <1>2 DEF SessionInv, Apart

\* A process that ends, at any point, keeps the invariant.
LEMMA ForgetKeeps ==
  ASSUME LoadingInv, NEW p \in Processes, Forget(p)
  PROVE  LoadingInv'
<1>1. OnlyMoves(p) /\ frames'[p] = <<>> /\ loading'[p] = <<>>
  BY DEF Forget, OnlyMoves, LoadingInv
<1>2. Keeps(p)
  BY <1>1, NothingKeeps DEF Keeps
<1> QED
  BY <1>1, <1>2, OneMoves

\* The invariant holds at the start.
LEMMA LoadingInitInv == LoadingInit => LoadingInv
<1> SUFFICES ASSUME LoadingInit PROVE LoadingInv
  OBVIOUS
<1>1. ASSUME NEW p \in Processes
      PROVE  SessionInv(phase[p], frames[p], loading[p], registered[p])
  BY NothingKeeps DEF LoadingInit
<1> QED
  BY <1>1 DEF LoadingInit, LoadingInv

\* A session that starts has one frame and no name.
LEMMA StartKeeps ==
  ASSUME LoadingInv, NEW p \in Processes, Start(p)
  PROVE  LoadingInv'
<1>1. PICK f : frames'[p] = <<f>> /\ DOMAIN f = FrameFields /\ f.step = "bootstrap"
  BY DEF Start, Frame, FrameFields, LoadingInv
<1>2. phase[p] = "idle" /\ phase'[p] = "loading" /\ OnlyMoves(p)
      /\ loading' = loading /\ registered' = registered
  BY DEF Start, OnlyMoves, LoadingInv
<1>3. frames[p] = <<>> /\ Matches(<<>>, loading[p])
  BY <1>2 DEF LoadingInv, SessionInv
<1>4. IsList(loading[p]) /\ Len(loading[p]) = 0
  BY <1>3 DEF Matches, Started
<1>5. IsList(<<f>>) /\ Len(<<f>>) = 1 /\ <<f>>[1] = f
  <2>1. <<f>> \in Seq({f})
    OBVIOUS
  <2> QED
    BY <2>1, ListOf
<1>6. Stack(<<f>>)
  BY <1>1, <1>5 DEF Stack
<1>7. Matches(<<f>>, loading[p])
  BY <1>4, <1>5, <1>6 DEF Matches, Started
<1>8. Apart(<<f>>, loading[p], registered[p])
  BY <1>1, <1>4, <1>5 DEF Apart
<1>9. Keeps(p)
  BY <1>1, <1>2, <1>7, <1>8 DEF Keeps, SessionInv
<1> QED
  BY <1>2, <1>9, OneMoves

\* The contracts are loaded: no name is on the loading stack.
LEMMA RootGoesOn ==
  ASSUME LoadingInv, NEW p \in Processes, EndBootstrap(p)
  PROVE  LoadingInv'
<1> DEFINE s == frames[p]
<1> DEFINE t == frames'[p]
<1> DEFINE todo == Imports[Here(p).file][Here(p).text]
<1>1. Matches(s, loading[p]) /\ Apart(s, loading[p], registered[p]) /\ Stack(s)
  BY DEF LoadingInv, SessionInv, Matches
<1>2. Len(s) > 0 /\ s[Len(s)].step = "bootstrap" /\ phase'[p] = "loading"
      /\ loading'[p] = loading[p] /\ registered'[p] = registered[p] /\ OnlyMoves(p)
  BY DEF EndBootstrap, At, Here, Depth, OnlyMoves, LoadingInv
<1>3. /\ StepsTo(s, [s EXCEPT ![Len(s)].step = "imports", ![Len(s)].todo = todo], "imports")
      /\ Len(s) = 1
  <2> HIDE DEF todo
  <2>1. /\ StepsTo(s, [s EXCEPT ![Len(s)].step = "imports"], "imports")
        /\ StepsTo(s, [s EXCEPT ![Len(s)].step = "imports", ![Len(s)].todo = todo], "imports")
    BY <1>1, <1>2, TopSteps
  <2> QED
    BY <1>1, <1>2, <2>1, BootMatches
<1>4. t = [s EXCEPT ![Len(s)].step = "imports", ![Len(s)].todo = todo]
  BY <1>3 DEF EndBootstrap, LoadingInv
<1>5. Matches(t, loading[p])
  BY <1>1, <1>2, <1>3, <1>4, BootMatches
<1>6. Apart(t, loading[p], registered[p])
  BY <1>1, <1>3, <1>4 DEF Apart, StepsTo
<1>7. Keeps(p)
  BY <1>2, <1>5, <1>6 DEF Keeps, SessionInv
<1> QED
  BY <1>2, <1>7, OneMoves

\* An import that is known, that is missing, or that closes a cycle.
LEMMA TriedKeeps ==
  ASSUME LoadingInv, NEW p \in Processes, ImportKnown(p) \/ ImportCycle(p) \/ ImportMissing(p)
  PROVE  LoadingInv'
<1> DEFINE s == frames[p]
<1>1. Matches(s, loading[p]) /\ Apart(s, loading[p], registered[p]) /\ Stack(s)
  BY DEF LoadingInv, SessionInv, Matches
<1>2. Importing(p) /\ phase' = phase /\ loading' = loading /\ registered' = registered
  BY DEF ImportKnown, ImportCycle, ImportMissing
<1>3. phase[p] = "loading" /\ Len(s) > 0
  BY <1>2 DEF Importing, At, Depth
<1>4. frames' = [frames EXCEPT ![p] = Done(s)] \/ frames' = [frames EXCEPT ![p] = Blame(Done(s))]
  BY DEF ImportKnown, ImportCycle, ImportMissing
<1>5. OnlyMoves(p) /\ frames'[p] \in {Done(s), Blame(Done(s))}
  BY <1>2, <1>4 DEF OnlyMoves, LoadingInv
<1>6. SameFrames(s, Done(s))
  BY <1>1, <1>3, DoneSame
<1>7. Matches(Done(s), loading[p]) /\ Stack(Done(s)) /\ Len(Done(s)) > 0
  <2>1. Matches(Done(s), loading[p])
    BY <1>1, <1>6, SameMatches
  <2>2. Len(Done(s)) = Len(s)
    BY <1>6 DEF SameFrames
  <2> QED
    BY <1>3, <2>1, <2>2 DEF Matches
<1>8. SameFrames(Done(s), Blame(Done(s)))
  BY <1>7, BlameSame
<1>9. Len(s) \in Nat
  BY <1>1 DEF Stack, IsList
<1>10. SameFrames(s, frames'[p])
  BY <1>3, <1>5, <1>6, <1>8, <1>9 DEF SameFrames
<1>11. Matches(frames'[p], loading[p])
  BY <1>1, <1>10, SameMatches
<1>12. Apart(frames'[p], loading[p], registered[p])
  BY <1>1, <1>3, <1>9, <1>10 DEF Apart, SameFrames
<1>13. Keeps(p)
  BY <1>2, <1>3, <1>11, <1>12 DEF Keeps, SessionInv
<1> QED
  BY <1>5, <1>13, OneMoves

\* What an import that has to be loaded has to do with the stack.
LEMMA FreshFacts ==
  ASSUME LoadingInv, NEW p \in Processes, Fresh(p), Found(p) # Absent
  PROVE  /\ phase[p] = "loading"
         /\ Matches(Done(frames[p]), loading[p]) /\ Apart(frames[p], loading[p], registered[p])
         /\ Len(Done(frames[p])) > 0
         /\ Done(frames[p])[Len(Done(frames[p]))].step \in {"bootstrap", "imports"}
         /\ Found(p).name \notin Elements(loading[p]) /\ Found(p).name \notin DOMAIN registered[p]
         /\ Found(p).name = Import(p).name
<1> DEFINE s == frames[p]
<1>1. Matches(s, loading[p]) /\ Apart(s, loading[p], registered[p]) /\ Stack(s)
  BY DEF LoadingInv, SessionInv, Matches
<1>2. /\ phase[p] = "loading" /\ Len(s) > 0
      /\ s[Len(s)].step \in {"bootstrap", "imports"}
      /\ Import(p).name \notin Elements(loading[p]) /\ Import(p).name \notin DOMAIN registered[p]
  BY DEF Fresh, Importing, At, Here, Depth
<1>3. SameFrames(s, Done(s))
  BY <1>1, <1>2, DoneSame
<1>4. Len(s) \in Nat
  BY <1>1 DEF Stack, IsList
<1>5. /\ Matches(Done(s), loading[p])
      /\ Len(Done(s)) = Len(s) /\ Done(s)[Len(s)].step = s[Len(s)].step
  BY <1>1, <1>2, <1>3, <1>4, SameMatches DEF SameFrames
<1>6. Found(p).name = Import(p).name
  BY LookupName DEF Found
<1> QED
  BY <1>1, <1>2, <1>5, <1>6

\* A source is opened: its name is put on, and it was not there before.
LEMMA SourceKeeps ==
  ASSUME LoadingInv, NEW p \in Processes, ImportSource(p)
  PROVE  LoadingInv'
<1> DEFINE s == Done(frames[p])
<1> DEFINE l == loading[p]
<1> DEFINE f == Frame(Found(p), Import(p).kind, sources[Found(p)], NoLibrary,
                      Imports[Found(p)][sources[Found(p)]], "imports")
<1>1. Fresh(p) /\ Found(p) # Absent
  BY DEF ImportSource
<1>2. /\ frames'[p] = Append(s, f) /\ loading'[p] = Append(l, Import(p).name)
      /\ phase' = phase /\ registered' = registered /\ OnlyMoves(p)
  BY DEF ImportSource, OnlyMoves, LoadingInv
<1>3. DOMAIN f = FrameFields /\ f.step = "imports" /\ f.file = Found(p)
  BY DEF Frame, FrameFields
<1>4. /\ phase[p] = "loading" /\ Matches(s, l) /\ Apart(frames[p], l, registered[p])
      /\ Len(s) > 0 /\ s[Len(s)].step \in {"bootstrap", "imports"}
      /\ f.file.name \notin Elements(l) /\ f.file.name \notin DOMAIN registered[p]
      /\ f.file.name = Import(p).name
  BY <1>1, <1>3, FreshFacts
<1> HIDE DEF s, l, f
<1>5. Matches(Append(s, f), Append(l, f.file.name))
  BY <1>3, <1>4, PushMatches
<1>6. /\ Len(Append(l, f.file.name)) = Len(l) + 1 /\ Len(l) \in Nat
      /\ Append(l, f.file.name)[Len(l) + 1] = f.file.name
      /\ \A i \in 1 .. Len(l) : Append(l, f.file.name)[i] = l[i]
      /\ Append(s, f)[Len(Append(s, f))] = f
  <2>1. IsList(l) /\ IsList(s)
    BY <1>4 DEF Matches, Stack
  <2> QED
    BY <2>1, ListAppend DEF IsList
<1>7. Apart(Append(s, f), Append(l, f.file.name), registered[p])
  BY <1>3, <1>4, <1>6 DEF Apart
<1>8. Keeps(p)
  BY <1>2, <1>4, <1>5, <1>7 DEF Keeps, SessionInv
<1> QED
  BY <1>2, <1>8, OneMoves

\* A library is opened: its name is not registered, and not put on yet.
LEMMA LibraryKeeps ==
  ASSUME LoadingInv, NEW p \in Processes, ImportLibrary(p)
  PROVE  LoadingInv'
<1> DEFINE s == Done(frames[p])
<1> DEFINE l == loading[p]
<1> DEFINE f == Frame(Found(p), Import(p).kind, libraries[Found(p)].text, libraries[Found(p)], <<>>,
                      "validate")
<1>1. Fresh(p) /\ Found(p) # Absent
  BY DEF ImportLibrary
<1>2. /\ frames'[p] = Append(s, f) /\ loading' = loading
      /\ phase' = phase /\ registered' = registered /\ OnlyMoves(p)
  BY DEF ImportLibrary, OnlyMoves, LoadingInv
<1>3. DOMAIN f = FrameFields /\ f.step = "validate" /\ f.file = Found(p)
  BY DEF Frame, FrameFields
<1>4. /\ phase[p] = "loading" /\ Matches(s, l) /\ Apart(frames[p], l, registered[p])
      /\ Len(s) > 0 /\ s[Len(s)].step \in {"bootstrap", "imports"}
      /\ f.file.name \notin DOMAIN registered[p]
  BY <1>1, <1>3, FreshFacts
<1>5. loading'[p] = l /\ registered'[p] = registered[p] /\ phase'[p] = phase[p]
  BY <1>2
<1> HIDE DEF s, l, f
<1>6. Matches(Append(s, f), l)
  BY <1>3, <1>4, OpenMatches
<1>7. Append(s, f)[Len(Append(s, f))] = f
  BY <1>4, ListAppend DEF Matches, Stack
<1>8. Apart(Append(s, f), l, registered[p])
  BY <1>4, <1>7 DEF Apart
<1>9. Keeps(p)
  BY <1>2, <1>4, <1>5, <1>6, <1>8 DEF Keeps, SessionInv
<1> QED
  BY <1>2, <1>9, OneMoves

\* The frame below the one on top, after the call has returned.
LEMMA Returned ==
  ASSUME NEW s, Stack(s), Len(s) > 1,
         NEW l, Matches(Pop(s), l), NEW t, t = Pop(s) \/ t = Blame(Pop(s)),
         NEW r, \A i \in 1 .. Len(l) : l[i] \notin DOMAIN r
  PROVE  Matches(t, l) /\ Apart(t, l, r)
<1>1. Stack(Pop(s)) /\ Len(s) \in Nat
  BY DEF Matches, Stack, IsList
<1>2. Len(Pop(s)) = Len(s) - 1 /\ \A i \in 1 .. Len(s) - 1 : Pop(s)[i] = s[i]
  BY ListPop DEF Stack
<1>3. s[Len(s) - 1].step \in {"bootstrap", "imports"}
  <2>1. Len(s) - 1 \in 1 .. Len(s) /\ Len(s) - 1 < Len(s)
    BY <1>1
  <2> QED
    BY <2>1 DEF Stack
<1>4. Pop(s)[Len(Pop(s))].step # "validate"
  BY <1>1, <1>2, <1>3
<1>5. SameFrames(Pop(s), Blame(Pop(s)))
  BY <1>1, <1>2, BlameSame
<1>6. Matches(Blame(Pop(s)), l)
  BY <1>5, SameMatches
<1>7. Blame(Pop(s))[Len(Blame(Pop(s)))].step # "validate"
  BY <1>1, <1>2, <1>4, <1>5 DEF SameFrames
<1> QED
  BY <1>4, <1>6, <1>7 DEF Apart

\* A library is rejected: it has no name to take off.
LEMMA RejectKeeps ==
  ASSUME LoadingInv, NEW p \in Processes, RejectLibrary(p)
  PROVE  LoadingInv'
<1> DEFINE s == frames[p]
<1> DEFINE l == loading[p]
<1>1. Matches(s, l) /\ Apart(s, l, registered[p]) /\ Stack(s) /\ Len(s) \in Nat
  BY DEF LoadingInv, SessionInv, Matches, Stack, IsList
<1>2. Len(s) > 0 /\ s[Len(s)].step = "validate" /\ phase[p] = "loading"
  BY DEF RejectLibrary, At, Here, Depth
<1>3. /\ frames'[p] = Blame(Pop(s)) /\ phase'[p] = phase[p] /\ loading'[p] = l
      /\ registered'[p] = registered[p] /\ OnlyMoves(p)
  BY DEF RejectLibrary, ReturnError, OnlyMoves, LoadingInv
<1> HIDE DEF s, l
<1>4. Len(s) > 1
  BY <1>1, <1>2 DEF Stack
<1>5. Matches(Pop(s), l)
  BY <1>1, <1>2, <1>4, ReturnMatches
<1>6. \A i \in 1 .. Len(l) : l[i] \notin DOMAIN registered[p]
  BY <1>1 DEF Apart
<1>7. Matches(frames'[p], l) /\ Apart(frames'[p], l, registered[p])
  BY <1>1, <1>3, <1>4, <1>5, <1>6, Returned
<1>8. Keeps(p)
  BY <1>2, <1>3, <1>7 DEF Keeps, SessionInv
<1> QED
  BY <1>3, <1>8, OneMoves

\* A library is accepted: its name is put on, and it was not there before.
LEMMA AcceptKeeps ==
  ASSUME LoadingInv, NEW p \in Processes, AcceptLibrary(p)
  PROVE  LoadingInv'
<1> DEFINE s == frames[p]
<1> DEFINE l == loading[p]
<1> DEFINE name == s[Len(s)].file.name
<1> DEFINE todo == Imports[Here(p).file][Here(p).text]
<1> DEFINE t == [s EXCEPT ![Len(s)].step = "imports", ![Len(s)].todo = todo]
<1>1. Matches(s, l) /\ Apart(s, l, registered[p]) /\ Stack(s) /\ Len(s) \in Nat
  BY DEF LoadingInv, SessionInv, Matches, Stack, IsList
<1>2. Len(s) > 0 /\ s[Len(s)].step = "validate" /\ phase[p] = "loading" /\ name \notin Elements(l)
  BY DEF AcceptLibrary, At, Here, Depth
<1>3. /\ frames'[p] = t /\ phase'[p] = phase[p] /\ loading'[p] = Append(l, name)
      /\ registered'[p] = registered[p] /\ OnlyMoves(p)
  BY DEF AcceptLibrary, Here, Depth, OnlyMoves, LoadingInv
<1>4. StepsTo(s, t, "imports")
  <2> HIDE DEF todo
  <2> QED
    BY <1>1, <1>2, TopSteps
<1> HIDE DEF s, l, t
<1>5. Matches(t, Append(l, name))
  BY <1>1, <1>2, <1>4, AcceptMatches
<1>6. name \notin DOMAIN registered[p]
  BY <1>1, <1>2 DEF Apart
<1>7. /\ Len(Append(l, name)) = Len(l) + 1 /\ Len(l) \in Nat
      /\ Append(l, name)[Len(l) + 1] = name
      /\ \A i \in 1 .. Len(l) : Append(l, name)[i] = l[i]
  <2>1. IsList(l)
    BY <1>1 DEF Matches
  <2> QED
    BY <2>1, ListAppend DEF IsList
<1>8. \A i \in 1 .. Len(Append(l, name)) : Append(l, name)[i] \notin DOMAIN registered[p]
  BY <1>1, <1>6, <1>7 DEF Apart
<1>9. Len(t) = Len(s) /\ t[Len(t)].step = "imports"
  BY <1>4 DEF StepsTo
<1>10. Apart(t, Append(l, name), registered[p])
  BY <1>8, <1>9 DEF Apart
<1>11. Keeps(p)
  BY <1>2, <1>3, <1>5, <1>10 DEF Keeps, SessionInv
<1> QED
  BY <1>3, <1>11, OneMoves

\* The imports of a provider have been tried: its frame has a name, and they are the last ones.
LEMMA ImportedFacts ==
  ASSUME LoadingInv, NEW p \in Processes, Imported(p)
  PROVE  /\ phase[p] = "loading"
         /\ Stack(frames[p]) /\ Len(frames[p]) > 1 /\ Matches(frames[p], loading[p])
         /\ frames[p][Len(frames[p])].step = "imports"
         /\ Matches(Pop(frames[p]), Pop(loading[p]))
         /\ Len(loading[p]) > 0
         /\ loading[p][Len(loading[p])] = Here(p).file.name
         /\ Len(Pop(loading[p])) = Len(loading[p]) - 1
         /\ \A i \in 1 .. Len(Pop(loading[p])) :
              /\ Pop(loading[p])[i] \notin DOMAIN registered[p]
              /\ Pop(loading[p])[i] # Here(p).file.name
<1> DEFINE s == frames[p]
<1> DEFINE l == loading[p]
<1> DEFINE name == Here(p).file.name
<1>1. Matches(s, l) /\ Apart(s, l, registered[p]) /\ Stack(s) /\ Len(s) \in Nat
  BY DEF LoadingInv, SessionInv, Matches, Stack, IsList
<1>2. Len(s) > 1 /\ s[Len(s)].step = "imports" /\ phase[p] = "loading"
      /\ name = s[Len(s)].file.name
  BY DEF Imported, At, Here, Depth
<1> HIDE DEF s, l, name
<1>3. Matches(Pop(s), Pop(l))
  BY <1>1, <1>2, PopMatches
<1>4. Len(l) = Len(s) - 1
  BY <1>1, <1>2 DEF Matches, Started
<1>5. IsList(l)
  BY <1>1 DEF Matches
<1>6. Len(l) \in 1 .. Len(l) /\ Len(l) + 1 = Len(s)
  BY <1>1, <1>2, <1>4
<1>7. l[Len(l)] = name
  BY <1>1, <1>2, <1>6 DEF Matches
<1>8. Len(Pop(l)) = Len(l) - 1 /\ \A i \in 1 .. Len(l) - 1 : Pop(l)[i] = l[i]
  BY <1>2, <1>1, <1>4, <1>5, ListPop
<1>9. ASSUME NEW i \in 1 .. Len(Pop(l))
      PROVE  Pop(l)[i] \notin DOMAIN registered[p] /\ Pop(l)[i] # name
  <2>1. i \in 1 .. Len(l) /\ i # Len(l) /\ Pop(l)[i] = l[i]
    BY <1>1, <1>4, <1>8
  <2>2. l[i] \notin DOMAIN registered[p]
    BY <1>1, <2>1 DEF Apart
  <2>3. l[i] # name
    BY <1>1, <1>6, <1>7, <2>1 DEF Matches
  <2> QED
    BY <2>1, <2>2, <2>3
<1>10. Len(l) > 0
  BY <1>1, <1>2, <1>4
<1> QED
  BY <1>1, <1>2, <1>3, <1>7, <1>8, <1>9, <1>10 DEF s, l, name

\* A provider fails after its imports: its name is taken off.
LEMMA RefuseKeeps ==
  ASSUME LoadingInv, NEW p \in Processes, Refuse(p) \/ AnalysisFails(p)
  PROVE  LoadingInv'
<1> DEFINE s == frames[p]
<1> DEFINE l == loading[p]
<1>1. Imported(p)
  BY DEF Refuse, AnalysisFails
<1>2. /\ frames'[p] = Blame(Pop(s)) /\ phase'[p] = phase[p] /\ loading'[p] = Pop(l)
      /\ registered'[p] = registered[p] /\ OnlyMoves(p)
  BY DEF Refuse, AnalysisFails, ReturnError, OnlyMoves, LoadingInv
<1>3. Matches(frames'[p], Pop(l)) /\ Apart(frames'[p], Pop(l), registered[p])
  BY <1>1, <1>2, ImportedFacts, Returned
<1>4. Keeps(p)
  BY <1>1, <1>2, <1>3, ImportedFacts DEF Keeps, SessionInv
<1> QED
  BY <1>2, <1>4, OneMoves

\* What is registered: one more name, and the entries there were.
LEMMA RegisterAdds ==
  ASSUME LoadingInv, NEW p \in Processes, Register(p)
  PROVE  /\ DOMAIN registered'[p] = DOMAIN registered[p] \cup {Here(p).file.name}
         /\ registered'[p][Here(p).file.name] = Entry(Here(p))
         /\ \A name \in DOMAIN registered[p] :
              name # Here(p).file.name => registered'[p][name] = registered[p][name]
<1> DEFINE r == [name \in DOMAIN registered[p] \cup {Here(p).file.name} |->
                   IF name = Here(p).file.name THEN Entry(Here(p)) ELSE registered[p][name]]
<1>1. registered'[p] = r
  BY DEF Register, LoadingInv
<1> QED
  BY <1>1

\* A provider is registered: its name goes from the loading stack to the registry.
LEMMA RegisterKeeps ==
  ASSUME LoadingInv, NEW p \in Processes, Register(p)
  PROVE  LoadingInv'
<1> DEFINE s == frames[p]
<1> DEFINE l == loading[p]
<1> DEFINE r == registered'[p]
<1> DEFINE t == [s EXCEPT ![Len(s)].step = "extract"]
<1>1. Imported(p)
  BY DEF Register
<1>2. /\ phase'[p] = phase[p] /\ loading'[p] = Pop(l) /\ OnlyMoves(p)
      /\ frames'[p] \in {Pop(s), t}
  BY DEF Register, ReturnLoaded, OnlyMoves, LoadingInv, Depth
<1>3. DOMAIN r = DOMAIN registered[p] \cup {Here(p).file.name}
  BY RegisterAdds
<1>4. /\ Stack(s) /\ Len(s) > 1 /\ Matches(s, l) /\ s[Len(s)].step = "imports"
      /\ Matches(Pop(s), Pop(l)) /\ phase[p] = "loading"
      /\ \A i \in 1 .. Len(Pop(l)) : Pop(l)[i] \notin DOMAIN r
  BY <1>1, <1>3, ImportedFacts
<1> HIDE DEF s, l, r
<1>5. Matches(Pop(s), Pop(l)) /\ Apart(Pop(s), Pop(l), r)
  BY <1>4, Returned
<1>6. Matches(t, Pop(l)) /\ Apart(t, Pop(l), r)
  <2>1. Len(s) > 0
    BY <1>4 DEF Stack, IsList
  <2>2. StepsTo(s, t, "extract")
    BY <1>4, <2>1, TopSteps
  <2>3. t[Len(t)].step = "extract"
    BY <2>2 DEF StepsTo
  <2> HIDE DEF t
  <2>4. Matches(t, Pop(l))
    BY <1>4, <2>2, ExtractMatches
  <2> QED
    BY <1>4, <2>3, <2>4 DEF Apart
<1>7. Matches(frames'[p], Pop(l)) /\ Apart(frames'[p], Pop(l), r)
  BY <1>2, <1>5, <1>6
<1>8. Keeps(p)
  BY <1>2, <1>4, <1>7 DEF Keeps, SessionInv, r
<1> QED
  BY <1>2, <1>8, OneMoves

\* An object file is created: the name of its provider is off the stack already.
LEMMA CreateKeeps ==
  ASSUME LoadingInv, NEW p \in Processes, CreateSidecar(p)
  PROVE  LoadingInv'
<1> DEFINE s == frames[p]
<1> DEFINE l == loading[p]
<1> DEFINE t == [s EXCEPT ![Len(s)].step = "fill"]
<1>1. Matches(s, l) /\ Apart(s, l, registered[p]) /\ Stack(s) /\ Len(s) \in Nat
  BY DEF LoadingInv, SessionInv, Matches, Stack, IsList
<1>2. Len(s) > 0 /\ s[Len(s)].step = "extract" /\ phase[p] = "loading"
  BY DEF CreateSidecar, At, Here, Depth
<1>3. /\ frames'[p] = t /\ phase'[p] = phase[p] /\ loading'[p] = l
      /\ registered'[p] = registered[p] /\ OnlyMoves(p)
  BY DEF CreateSidecar, Depth, OnlyMoves, LoadingInv
<1>4. StepsTo(s, t, "fill")
  BY <1>1, <1>2, TopSteps
<1> HIDE DEF s, l, t
<1>5. Matches(t, l)
  BY <1>1, <1>2, <1>4, FillMatches
<1>6. t[Len(t)].step = "fill"
  BY <1>4 DEF StepsTo
<1>7. Apart(t, l, registered[p])
  BY <1>1, <1>6 DEF Apart
<1>8. Keeps(p)
  BY <1>2, <1>3, <1>5, <1>7 DEF Keeps, SessionInv
<1> QED
  BY <1>3, <1>8, OneMoves

\* An object file is filled and the call returns.
LEMMA FillKeeps ==
  ASSUME LoadingInv, NEW p \in Processes, FillSidecar(p)
  PROVE  LoadingInv'
<1> DEFINE s == frames[p]
<1> DEFINE l == loading[p]
<1>1. Matches(s, l) /\ Apart(s, l, registered[p]) /\ Stack(s) /\ Len(s) \in Nat
  BY DEF LoadingInv, SessionInv, Matches, Stack, IsList
<1>2. Len(s) > 0 /\ s[Len(s)].step = "fill" /\ phase[p] = "loading"
  BY DEF FillSidecar, At, Here, Depth
<1>3. /\ frames'[p] = Pop(s) /\ phase'[p] = phase[p] /\ loading'[p] = l
      /\ registered'[p] = registered[p] /\ OnlyMoves(p)
  BY DEF FillSidecar, ReturnLoaded, OnlyMoves, LoadingInv
<1> HIDE DEF s, l
<1>4. Len(s) > 1
  BY <1>1, <1>2 DEF Stack
<1>5. Matches(Pop(s), l)
  BY <1>1, <1>2, <1>4, ReturnMatches
<1>6. \A i \in 1 .. Len(l) : l[i] \notin DOMAIN registered[p]
  BY <1>1 DEF Apart
<1>7. Matches(frames'[p], l) /\ Apart(frames'[p], l, registered[p])
  BY <1>1, <1>3, <1>4, <1>5, <1>6, Returned
<1>8. Keeps(p)
  BY <1>2, <1>3, <1>7 DEF Keeps, SessionInv
<1> QED
  BY <1>3, <1>8, OneMoves

\* The steps after the imports leave the loader as it is, until the session is forgotten.
LEMMA EmitKeeps ==
  ASSUME LoadingInv, NEW p \in Processes, EmitObject(p) \/ ReadObject(p)
  PROVE  LoadingInv'
<1>1. /\ OnlyMoves(p) /\ phase'[p] # "idle"
      /\ frames' = frames /\ loading' = loading /\ registered' = registered
  BY DEF EmitObject, ReadObject, session, OnlyMoves, LoadingInv
<1>2. Keeps(p)
  BY <1>1 DEF Keeps, LoadingInv, SessionInv
<1> QED
  BY <1>1, <1>2, OneMoves

\* A session ends or is killed.
LEMMA EndKeeps ==
  ASSUME LoadingInv, NEW p \in Processes,
         Fail(p) \/ PublishLibrary(p) \/ Link(p) \/ Die(p)
  PROVE  LoadingInv'
<1>1. Forget(p)
  BY DEF Fail, PublishLibrary, Link, Die
<1> QED
  BY <1>1, ForgetKeeps

\* The invariant is inductive.
LEMMA LoadingNextInv == LoadingInv /\ [LoadingNext]_loadingVars => LoadingInv'
<1> SUFFICES ASSUME LoadingInv, [LoadingNext]_loadingVars
             PROVE  LoadingInv'
  OBVIOUS
<1>1. CASE UNCHANGED loadingVars \/ Edit
  <2>1. phase' = phase /\ frames' = frames /\ loading' = loading /\ registered' = registered
    BY <1>1 DEF loadingVars, session, Edit
  <2> QED
    BY <2>1 DEF LoadingInv
<1>2. ASSUME NEW p \in Processes, Start(p) \/ Die(p)
      PROVE  LoadingInv'
  BY <1>2, StartKeeps, EndKeeps
<1>3. ASSUME NEW p \in Processes, Work(p)
      PROVE  LoadingInv'
  <2>1. CASE EndBootstrap(p)
    BY <2>1, RootGoesOn
  <2>2. CASE ImportKnown(p) \/ ImportCycle(p) \/ ImportMissing(p)
    BY <2>2, TriedKeeps
  <2>3. CASE ImportSource(p)
    BY <2>3, SourceKeeps
  <2>4. CASE ImportLibrary(p)
    BY <2>4, LibraryKeeps
  <2>5. CASE RejectLibrary(p)
    BY <2>5, RejectKeeps
  <2>6. CASE AcceptLibrary(p)
    BY <2>6, AcceptKeeps
  <2>7. CASE Refuse(p) \/ AnalysisFails(p)
    BY <2>7, RefuseKeeps
  <2>8. CASE Register(p)
    BY <2>8, RegisterKeeps
  <2>9. CASE CreateSidecar(p)
    BY <2>9, CreateKeeps
  <2>10. CASE FillSidecar(p)
    BY <2>10, FillKeeps
  <2>11. CASE EmitObject(p) \/ ReadObject(p)
    BY <2>11, EmitKeeps
  <2>12. CASE Fail(p) \/ PublishLibrary(p) \/ Link(p)
    BY <2>12, EndKeeps
  <2> QED
    BY <1>3, <2>1, <2>2, <2>3, <2>4, <2>5, <2>6, <2>7, <2>8, <2>9, <2>10, <2>11, <2>12 DEF Work
<1> QED
  BY <1>1, <1>2, <1>3 DEF LoadingNext

\* The invariant holds always.
LEMMA LoadingAlways == LoadingSpec => []LoadingInv
  BY LoadingInitInv, LoadingNextInv, PTL DEF LoadingSpec

-----------------------------------------------------------------------------
(* The theorems. *)

\* The invariant implies the property.
LEMMA StackIsExact == LoadingInv => LoadingStackIsExact
<1> SUFFICES ASSUME LoadingInv, NEW p \in Processes
             PROVE  LET started == {i \in 2 .. Depth(p) : frames[p][i].step = "imports"}
                    IN  /\ started = 2 .. Len(loading[p]) + 1
                        /\ \A i \in started : frames[p][i].file.name = loading[p][i - 1]
                        /\ \A i, j \in started : frames[p][i].file.name = frames[p][j].file.name => i = j
  BY DEF LoadingStackIsExact
<1> DEFINE s == frames[p]
<1> DEFINE l == loading[p]
<1> DEFINE started == {i \in 2 .. Len(s) : s[i].step = "imports"}
<1>1. Matches(s, l) /\ Stack(s) /\ Len(s) \in Nat /\ Len(l) \in Nat
  BY DEF LoadingInv, SessionInv, Matches, Stack, IsList
<1> HIDE DEF s, l
<1>2. started = 2 .. Len(l) + 1
  <2>1. CASE Len(s) > 1 /\ s[Len(s)].step # "imports"
    <3>1. Len(l) = Len(s) - 2
      BY <1>1, <2>1 DEF Matches, Started
    <3>2. \A i \in 2 .. Len(s) : i # Len(s) => s[i].step = "imports"
      BY <1>1 DEF Stack
    <3> QED
      BY <1>1, <2>1, <3>1, <3>2
  <2>2. CASE Len(s) > 1 /\ s[Len(s)].step = "imports"
    <3>1. Len(l) = Len(s) - 1
      BY <1>1, <2>2 DEF Matches, Started
    <3>2. \A i \in 2 .. Len(s) : s[i].step = "imports"
      BY <1>1, <2>2 DEF Stack
    <3> QED
      BY <1>1, <2>2, <3>1, <3>2
  <2>3. CASE Len(s) <= 1
    <3>1. PICK n \in Nat : n = Len(s)
      BY <1>1
    <3>2. n <= 1 /\ ~(n > 1)
      BY <2>3, <3>1
    <3>3. Len(l) = 0
      <4>1. CASE n = 0
        BY <1>1, <3>1, <4>1 DEF Matches, Started
      <4>2. CASE n # 0
        <5>1. n = 1
          BY <3>2, <4>2
        <5> QED
          BY <1>1, <3>1, <5>1 DEF Matches, Started
      <4> QED
        BY <4>1, <4>2
    <3>4. started = {} /\ 2 .. Len(l) + 1 = {}
      BY <3>1, <3>2, <3>3
    <3> QED
      BY <3>4
  <2>4. Len(s) > 1 \/ Len(s) <= 1
    BY <1>1
  <2> HIDE DEF started
  <2> QED
    BY <2>1, <2>2, <2>3, <2>4
<1>3. ASSUME NEW i \in started
      PROVE  i - 1 \in 1 .. Len(l) /\ s[i].file.name = l[i - 1]
  <2>1. i \in Int /\ i - 1 \in 1 .. Len(l) /\ (i - 1) + 1 = i
    BY <1>1, <1>2
  <2> QED
    BY <1>1, <2>1 DEF Matches
<1>4. ASSUME NEW i \in started, NEW j \in started, s[i].file.name = s[j].file.name
      PROVE  i = j
  <2>1. i \in Int /\ j \in Int
    OBVIOUS
  <2>2. i - 1 = j - 1
    BY <1>1, <1>3, <1>4 DEF Matches
  <2> QED
    BY <2>1, <2>2
<1> QED
  BY <1>2, <1>3, <1>4 DEF s, l, Depth

\* Whatever the imports, the processes and the edits, and wherever a process is killed, the loading
\* stack holds the names of the providers that are being loaded, outermost first, and none of them
\* twice: so the cycle test sees every provider that is being loaded, and no other.
THEOREM LoadingStackIsAlwaysExact == LoadingSpec => []LoadingStackIsExact
<1>1. LoadingInv => LoadingStackIsExact
  BY StackIsExact
<1> QED
  BY <1>1, LoadingAlways, PTL

\* One step, seen by one process: the name it registers was on the loading stack, so it was not
\* registered.
LEMMA NoStepReplaces ==
  ASSUME LoadingInv, LoadingNext, NEW p \in Processes, phase'[p] # "idle",
         NEW name \in DOMAIN registered[p]
  PROVE  name \in DOMAIN registered'[p] /\ registered'[p][name] = registered[p][name]
<1>1. CASE registered'[p] = registered[p]
  BY <1>1
<1>2. CASE Register(p)
  <2>1. name # Here(p).file.name
    <3>1. Imported(p)
      BY <1>2 DEF Register
    <3>2. Len(loading[p]) \in 1 .. Len(loading[p]) /\ loading[p][Len(loading[p])] = Here(p).file.name
      <4>1. Len(loading[p]) \in Nat
        BY DEF LoadingInv, SessionInv, Matches, IsList
      <4> QED
        BY <3>1, <4>1, ImportedFacts
    <3>3. Apart(frames[p], loading[p], registered[p])
      BY DEF LoadingInv, SessionInv
    <3> QED
      BY <3>2, <3>3 DEF Apart
  <2> QED
    BY <1>2, <2>1, RegisterAdds
<1>3. ASSUME NEW q \in Processes, Start(q) \/ Work(q) \/ Die(q), ~Register(p)
      PROVE  registered'[p] = registered[p]
  <2>1. CASE Forget(q)
    <3>1. p # q
      BY <2>1 DEF Forget, LoadingInv
    <3> QED
      BY <2>1, <3>1 DEF Forget, LoadingInv
  <2>2. CASE Register(q)
    <3>1. p # q
      BY <1>3, <2>2
    <3> QED
      BY <2>2, <3>1 DEF Register, LoadingInv
  <2>3. CASE ~Forget(q) /\ ~Register(q)
    <3>1. registered' = registered
      BY <1>3, <2>3 DEF Start, Work, Die, EndBootstrap, ImportKnown, ImportCycle, ImportMissing,
           ImportSource, ImportLibrary, RejectLibrary, AcceptLibrary, Refuse, AnalysisFails,
           CreateSidecar, FillSidecar, Fail, EmitObject, ReadObject, PublishLibrary, Link, session
    <3> QED
      BY <3>1
  <2> QED
    BY <2>1, <2>2, <2>3
<1>4. CASE Edit
  BY <1>1, <1>4 DEF Edit, session
<1> QED
  BY <1>1, <1>2, <1>3, <1>4 DEF LoadingNext

\* What a session has for a name is never replaced while the session runs: a name that is being
\* loaded is not registered, so it cannot be registered twice.
THEOREM RegisteredIsNeverReplaced == LoadingSpec => NeverReplaced
<1>1. LoadingInv /\ [LoadingNext]_loadingVars =>
        [\A p \in Processes : phase'[p] # "idle" =>
           \A name \in DOMAIN registered[p] :
             name \in DOMAIN registered'[p] /\ registered'[p][name] = registered[p][name]]_loadingVars
  BY NoStepReplaces
<1> QED
  BY <1>1, LoadingAlways, PTL DEF LoadingSpec, NeverReplaced

-----------------------------------------------------------------------------
(* What a session has registered is closed under imports.  The argument follows one import from the *)
(* list of a frame to the registry: every name a provider imports is still on its list, or is that   *)
(* of the frame above it, or is registered, unless one of its imports has failed.                    *)

Requests == [kind : Kinds, name : Names]

\* The files contain texts, and a frame is about a text of a file.
FilesOK ==
  /\ DOMAIN sources = Files /\ \A f \in Files : sources[f] \in Texts \cup {Absent}
  /\ DOMAIN libraries = Files /\ \A f \in Files : libraries[f] # Absent => libraries[f].text \in Texts

FrameOK(f) == f.file \in Files /\ f.text \in Texts /\ f.todo \in Seq(Requests)

Pending(f) == {f.todo[i].name : i \in 1 .. Len(f.todo)}
Called(s, i) == IF i < Len(s) THEN {s[i + 1].file.name} ELSE {}

\* Where the imports of the i-th frame are.
Waits(s, i, r) ==
  s[i].step = "imports" /\ ~s[i].failed =>
    ImportedNames(s[i].file, s[i].text) \subseteq DOMAIN r \cup Pending(s[i]) \cup Called(s, i)

ClosedUnder(r) ==
  \A name \in DOMAIN r : ImportedNames(r[name].file, r[name].text) \subseteq DOMAIN r

ClosedSession(ph, s, r, k) ==
  /\ ph # "idle" => Len(s) > 0
  /\ \A i \in 1 .. Len(s) : FrameOK(s[i])
  /\ ClosedUnder(r)
  /\ \A i \in 2 .. Len(s) : Waits(s, i, r)
  /\ Len(s) > 0 /\ s[Len(s)].step \in {"extract", "fill"} => s[Len(s)].file.name \in DOMAIN r
  /\ k \subseteq DOMAIN r

ClosureInv ==
  /\ FilesOK
  /\ DOMAIN local = Processes
  /\ \A p \in Processes : ClosedSession(phase[p], frames[p], registered[p], local[p])

-----------------------------------------------------------------------------
(* Stacks. *)

\* The frames below the top go on waiting when only the top changes or is taken off, and the registry
\* grows.
LEMMA BelowWaits ==
  ASSUME NEW s, NEW t, NEW r, NEW q, Len(s) \in Nat, Len(t) \in Nat,
         \A i \in 2 .. Len(s) : i < Len(s) => Waits(s, i, r),
         DOMAIN r \subseteq DOMAIN q,
         Len(t) <= Len(s),
         \A i \in 1 .. Len(t) - 1 : t[i] = s[i],
         \A i \in 1 .. Len(t) : t[i].file = s[i].file
  PROVE  \A i \in 2 .. Len(t) : i < Len(t) => Waits(t, i, q)
<1> SUFFICES ASSUME NEW i \in 2 .. Len(t), i < Len(t)
             PROVE  Waits(t, i, q)
  OBVIOUS
<1>1. i \in 2 .. Len(s) /\ i < Len(s) /\ i \in 1 .. Len(t) - 1 /\ i + 1 \in 1 .. Len(t)
  OBVIOUS
<1>2. Waits(s, i, r) /\ t[i] = s[i] /\ t[i + 1].file = s[i + 1].file
  BY <1>1
<1>3. Called(t, i) = Called(s, i)
  BY <1>1, <1>2 DEF Called
<1> QED
  BY <1>2, <1>3 DEF Waits

\* What Done and Blame do to the top frame, in full.
LEMMA DoneTop ==
  ASSUME NEW s, Stack(s), Len(s) > 0
  PROVE  /\ Len(Done(s)) = Len(s) /\ Len(s) \in Nat
         /\ \A i \in 1 .. Len(s) - 1 : Done(s)[i] = s[i]
         /\ Done(s)[Len(s)].file = s[Len(s)].file
         /\ Done(s)[Len(s)].text = s[Len(s)].text
         /\ Done(s)[Len(s)].step = s[Len(s)].step
         /\ Done(s)[Len(s)].failed = s[Len(s)].failed
         /\ Done(s)[Len(s)].todo = Tail(s[Len(s)].todo)
<1> DEFINE n == Len(s)
<1> DEFINE e == [s[n] EXCEPT !.todo = Tail(@)]
<1>1. n \in 1 .. Len(s) /\ n \in Nat
  BY DEF Stack, IsList
<1>2. Done(s) = [s EXCEPT ![n] = e]
  BY DEF Done
<1>3. /\ e.file = s[n].file /\ e.text = s[n].text /\ e.step = s[n].step
      /\ e.failed = s[n].failed /\ e.todo = Tail(s[n].todo)
  BY <1>1 DEF Stack, FrameFields
<1>4. PICK S : s \in Seq(S) /\ e \in S
  <2> HIDE DEF e
  <2>1. s \in Seq(Elements(s) \cup {e})
    BY DEF Stack, IsList
  <2> QED
    BY <2>1
<1>5. n = Len(s)
  OBVIOUS
<1> HIDE DEF n, e
<1>6. Len(Done(s)) = Len(s) /\ Done(s)[n] = e /\ \A i \in 1 .. n - 1 : Done(s)[i] = s[i]
  BY <1>1, <1>2, <1>4, <1>5
<1> QED
  BY <1>1, <1>3, <1>5, <1>6

\* Likewise for a frame that is marked as failed.
LEMMA BlameTop ==
  ASSUME NEW s, Stack(s), Len(s) > 0
  PROVE  /\ Len(Blame(s)) = Len(s) /\ Len(s) \in Nat
         /\ \A i \in 1 .. Len(s) - 1 : Blame(s)[i] = s[i]
         /\ Blame(s)[Len(s)].file = s[Len(s)].file
         /\ Blame(s)[Len(s)].text = s[Len(s)].text
         /\ Blame(s)[Len(s)].step = s[Len(s)].step
         /\ Blame(s)[Len(s)].failed
         /\ Blame(s)[Len(s)].todo = s[Len(s)].todo
<1> DEFINE n == Len(s)
<1> DEFINE e == [s[n] EXCEPT !.failed = TRUE]
<1>1. n \in 1 .. Len(s) /\ n \in Nat
  BY DEF Stack, IsList
<1>2. Blame(s) = [s EXCEPT ![n] = e]
  BY DEF Blame
<1>3. /\ e.file = s[n].file /\ e.text = s[n].text /\ e.step = s[n].step
      /\ e.failed = TRUE /\ e.todo = s[n].todo
  BY <1>1 DEF Stack, FrameFields
<1>4. PICK S : s \in Seq(S) /\ e \in S
  <2> HIDE DEF e
  <2>1. s \in Seq(Elements(s) \cup {e})
    BY DEF Stack, IsList
  <2> QED
    BY <2>1
<1>5. n = Len(s)
  OBVIOUS
<1> HIDE DEF n, e
<1>6. Len(Blame(s)) = Len(s) /\ Blame(s)[n] = e /\ \A i \in 1 .. n - 1 : Blame(s)[i] = s[i]
  BY <1>1, <1>2, <1>4, <1>5
<1> QED
  BY <1>1, <1>3, <1>5, <1>6

\* The first of a list of imports is taken off.
LEMMA TailPending ==
  ASSUME NEW f, f.todo \in Seq(Requests), f.todo # <<>>, NEW g, g.todo = Tail(f.todo)
  PROVE  /\ Head(f.todo) \in Requests
         /\ g.todo \in Seq(Requests)
         /\ Pending(f) \subseteq Pending(g) \cup {Head(f.todo).name}
<1>1. Head(f.todo) \in Requests /\ Head(f.todo) = f.todo[1] /\ g.todo \in Seq(Requests)
  OBVIOUS
<1>2. ASSUME NEW i \in 1 .. Len(f.todo), i # 1
      PROVE  i - 1 \in 1 .. Len(g.todo) /\ g.todo[i - 1] = f.todo[i]
  <2>1. Len(g.todo) = Len(f.todo) - 1 /\ Len(f.todo) \in Nat
    OBVIOUS
  <2>2. i - 1 \in 1 .. Len(g.todo) /\ (i - 1) + 1 = i
    BY <1>2, <2>1
  <2> QED
    BY <2>2
<1>3. ASSUME NEW i \in 1 .. Len(f.todo)
      PROVE  f.todo[i].name \in Pending(g) \cup {Head(f.todo).name}
  <2>1. CASE i = 1
    BY <1>1, <2>1
  <2>2. CASE i # 1
    BY <1>2, <2>2 DEF Pending
  <2> QED
    BY <2>1, <2>2
<1> QED
  BY <1>1, <1>3 DEF Pending

\* What moving the top frame to another step leaves of it.
LEMMA TopFields ==
  ASSUME NEW s, Stack(s), Len(s) > 0, NEW step, NEW todo
  PROVE  /\ [s EXCEPT ![Len(s)].step = step][Len(s)].text = s[Len(s)].text
         /\ [s EXCEPT ![Len(s)].step = step][Len(s)].todo = s[Len(s)].todo
         /\ [s EXCEPT ![Len(s)].step = step, ![Len(s)].todo = todo][Len(s)].text = s[Len(s)].text
         /\ [s EXCEPT ![Len(s)].step = step, ![Len(s)].todo = todo][Len(s)].todo = todo
<1> DEFINE n == Len(s)
<1> DEFINE t == [s EXCEPT ![n].step = step]
<1> DEFINE u == [s EXCEPT ![n].step = step, ![n].todo = todo]
<1> DEFINE e == [s[n] EXCEPT !.step = step]
<1> DEFINE g == [s[n] EXCEPT !.step = step, !.todo = todo]
<1>1. n \in 1 .. Len(s)
  BY DEF Stack, IsList
<1>2. PICK S : s \in Seq(S) /\ e \in S /\ g \in S
  <2>1. s \in Seq(Elements(s) \cup {e, g})
    BY DEF Stack, IsList
  <2> QED
    BY <2>1
<1>3. t = [s EXCEPT ![n] = e] /\ u = [s EXCEPT ![n] = g]
  BY <1>1, <1>2
<1>4. e.text = s[n].text /\ e.todo = s[n].todo /\ g.text = s[n].text /\ g.todo = todo
  BY <1>1 DEF Stack, FrameFields
<1> HIDE DEF n, e, g, t, u
<1>5. t[n] = e /\ u[n] = g
  BY <1>1, <1>2, <1>3
<1> QED
  BY <1>4, <1>5 DEF n, t, u

\* The stack t is the stack s up to its own top, which waits for what is called or registered in q.
TopMoves(s, t, q) ==
  /\ Len(t) \in Nat /\ Len(t) > 0 /\ Len(t) <= Len(s)
  /\ \A i \in 1 .. Len(t) - 1 : t[i] = s[i]
  /\ t[Len(t)].file = s[Len(t)].file /\ FrameOK(t[Len(t)])
  /\ Len(t) > 1 => Waits(t, Len(t), q)
  /\ t[Len(t)].step \in {"extract", "fill"} => t[Len(t)].file.name \in DOMAIN q

\* The frame on top changes, or is taken off, while the registry grows: what has to be shown is about
\* the new top alone.
LEMMA SessionGoesOn ==
  ASSUME NEW ph, NEW s, NEW r, NEW k, ClosedSession(ph, s, r, k), Len(s) \in Nat,
         NEW q, DOMAIN r \subseteq DOMAIN q, ClosedUnder(q),
         NEW t, TopMoves(s, t, q),
         NEW m, m \subseteq DOMAIN q, NEW ph2
  PROVE  ClosedSession(ph2, t, q, m)
<1> USE DEF TopMoves
<1>1. \A i \in 1 .. Len(t) : t[i].file = s[i].file
  <2> SUFFICES ASSUME NEW i \in 1 .. Len(t) PROVE t[i].file = s[i].file
    OBVIOUS
  <2>1. CASE i = Len(t)
    BY <2>1
  <2>2. CASE i # Len(t)
    <3>1. i \in 1 .. Len(t) - 1
      BY <2>2
    <3> QED
      BY <3>1
  <2> QED
    BY <2>1, <2>2
<1>2. \A i \in 2 .. Len(s) : i < Len(s) => Waits(s, i, r)
  BY DEF ClosedSession
<1>3. \A i \in 2 .. Len(t) : i < Len(t) => Waits(t, i, q)
  BY <1>1, <1>2, BelowWaits
<1>4. ASSUME NEW i \in 2 .. Len(t)
      PROVE  Waits(t, i, q)
  <2>1. CASE i = Len(t)
    BY <2>1
  <2>2. CASE i # Len(t)
    BY <1>3, <2>2
  <2> QED
    BY <2>1, <2>2
<1>5. ASSUME NEW i \in 1 .. Len(t)
      PROVE  FrameOK(t[i])
  <2>1. CASE i = Len(t)
    BY <2>1
  <2>2. CASE i # Len(t)
    <3>1. i \in 1 .. Len(t) - 1 /\ i \in 1 .. Len(s)
      BY <2>2
    <3> QED
      BY <3>1 DEF ClosedSession
  <2> QED
    BY <2>1, <2>2
<1> QED
  BY <1>4, <1>5 DEF ClosedSession

\* A call is made: the import that is taken off the list of the frame on top is the name of the new
\* frame.
LEMMA SessionCalls ==
  ASSUME NEW ph, NEW s, NEW r, NEW k, ClosedSession(ph, s, r, k), Stack(s), Len(s) > 0,
         s[Len(s)].todo # <<>>,
         NEW f, FrameOK(f), f.file.name = Head(s[Len(s)].todo).name,
         f.step = "imports" => ImportedNames(f.file, f.text) \subseteq Pending(f),
         f.step \notin {"extract", "fill"}
  PROVE  ClosedSession(ph, Append(Done(s), f), r, k)
<1> DEFINE n == Len(s)
<1> DEFINE d == Done(s)
<1> DEFINE t == Append(d, f)
<1>1. /\ n \in Nat /\ Len(d) = n
      /\ \A i \in 1 .. n - 1 : d[i] = s[i]
      /\ d[n].file = s[n].file /\ d[n].text = s[n].text /\ d[n].step = s[n].step
      /\ d[n].failed = s[n].failed /\ d[n].todo = Tail(s[n].todo)
  BY DoneTop
<1>2. IsList(d)
  BY DoneSame DEF SameFrames
<1>3. /\ Len(t) = n + 1 /\ t[n + 1] = f /\ \A i \in 1 .. n : t[i] = d[i]
  BY <1>1, <1>2, ListAppend
<1> HIDE DEF n, d, t
<1>4. n > 0 /\ n \in 1 .. n /\ n = Len(s)
  BY <1>1 DEF n
<1>5. FrameOK(s[n])
  BY <1>4 DEF ClosedSession
<1>6. /\ d[n].todo \in Seq(Requests)
      /\ Pending(s[n]) \subseteq Pending(d[n]) \cup {f.file.name}
  BY <1>1, <1>4, <1>5, TailPending DEF FrameOK
<1>7. FrameOK(d[n])
  BY <1>1, <1>5, <1>6 DEF FrameOK
<1>8. ASSUME NEW i \in 1 .. n + 1
      PROVE  FrameOK(t[i])
  <2>1. CASE i = n + 1
    BY <1>3, <2>1
  <2>2. CASE i = n
    BY <1>3, <1>4, <1>7, <2>2
  <2>3. CASE i # n + 1 /\ i # n
    <3>1. i \in 1 .. n - 1 /\ i \in 1 .. n
      BY <1>1, <2>3
    <3>2. t[i] = s[i]
      BY <1>1, <1>3, <3>1
    <3> QED
      BY <1>4, <3>1, <3>2 DEF ClosedSession
  <2> QED
    BY <2>1, <2>2, <2>3
<1>9. ASSUME NEW i \in 2 .. n + 1
      PROVE  Waits(t, i, r)
  <2>1. CASE i = n + 1
    BY <1>3, <2>1 DEF Waits
  <2>2. CASE i = n
    <3>1. Called(t, n) = {f.file.name} /\ Called(s, n) = {}
      BY <1>3, <1>4 DEF Called
    <3>2. Waits(s, n, r)
      BY <1>4, <2>2 DEF ClosedSession
    <3>3. t[n] = d[n]
      BY <1>3, <1>4
    <3> QED
      BY <1>1, <1>6, <2>2, <3>1, <3>2, <3>3 DEF Waits
  <2>3. CASE i # n + 1 /\ i # n
    <3>1. i \in 1 .. n - 1 /\ i \in 1 .. n /\ i \in 2 .. n /\ i + 1 \in 1 .. n
      BY <1>1, <2>3
    <3>2. t[i] = s[i]
      BY <1>1, <1>3, <3>1
    <3>3. t[i + 1].file = s[i + 1].file
      <4>1. CASE i + 1 = n
        BY <1>1, <1>3, <3>1, <4>1
      <4>2. CASE i + 1 # n
        <5>1. i + 1 \in 1 .. n - 1
          BY <1>1, <3>1, <4>2
        <5> QED
          BY <1>1, <1>3, <3>1, <5>1
      <4> QED
        BY <4>1, <4>2
    <3>4. Waits(s, i, r)
      BY <1>4, <3>1 DEF ClosedSession
    <3>5. Called(t, i) = Called(s, i)
      <4>1. i < n /\ i < n + 1
        BY <1>1, <3>1
      <4> QED
        BY <1>3, <1>4, <3>3, <4>1 DEF Called
    <3> QED
      BY <3>2, <3>4, <3>5 DEF Waits
  <2> QED
    BY <2>1, <2>2, <2>3
<1>10. ClosedSession(ph, t, r, k)
  BY <1>1, <1>3, <1>4, <1>8, <1>9 DEF ClosedSession
<1> QED
  BY <1>10 DEF t, d

-----------------------------------------------------------------------------
(* What the imports of a file are. *)

\* The file an import finds is a file, and there is a source or a library of it.
LEMMA LookupFile ==
  ASSUME NEW from \in Files, NEW import \in Requests, Lookup(from, import) # Absent
  PROVE  Lookup(from, import) \in Files /\ Exists(Lookup(from, import))
<1> DEFINE at(place) == [place |-> place, name |-> import.name]
<1> DEFINE path == CASE import.kind = "local" -> {from.place}
                     [] import.name \notin Listed -> {}
                     [] SearchesUser /\ Exists(at("user")) -> {"user"}
                     [] OTHER -> {"sysroot"}
<1> DEFINE found == {place \in path : Exists(at(place))}
<1>1. Lookup(from, import) = IF found = {} THEN Absent ELSE at(CHOOSE place \in found : TRUE)
  BY DEF Lookup
<1>2. import.name \in Names /\ from.place \in Places
  BY DEF Requests, Files
<1>3. path \subseteq Places
  BY <1>2 DEF Places
<1> HIDE DEF path
<1>4. PICK place \in found : Lookup(from, import) = at(place)
  BY <1>1
<1>5. place \in Places /\ Exists(at(place))
  BY <1>3, <1>4
<1>6. at(place) \in Files
  BY <1>2, <1>5 DEF Files
<1> QED
  BY <1>4, <1>5, <1>6

\* The imports of a text are requests.
LEMMA ImportsAreRequests ==
  ASSUME NEW f \in Files, NEW t \in Texts
  PROVE  Imports[f][t] \in Seq(Requests)
  BY ArtifactsAssumption DEF Requests

\* A frame whose list is all that its file imports waits for nothing else.
LEMMA AllPending ==
  ASSUME NEW f, f.todo = Imports[f.file][f.text]
  PROVE  ImportedNames(f.file, f.text) \subseteq Pending(f)
  BY DEF ImportedNames, Elements, Pending

\* The contracts are requests.
LEMMA ContractsAreRequests == External(Contracts) \in Seq(Requests)
<1>1. Contracts \in Seq(Names) /\ Len(Contracts) \in Nat
  BY ArtifactsAssumption
<1>2. \A i \in 1 .. Len(Contracts) : [kind |-> "external", name |-> Contracts[i]] \in Requests
  BY <1>1 DEF Requests, Kinds
<1> QED
  BY <1>1, <1>2 DEF External

-----------------------------------------------------------------------------
(* The steps of a process. *)

\* The files stay what they are when no source and no library is written.
LEMMA FilesStay ==
  ASSUME FilesOK, sources' = sources, libraries' = libraries
  PROVE  FilesOK'
  BY DEF FilesOK

\* The other processes keep their names.
LocalMoves(p) ==
  DOMAIN local' = Processes /\ \A q \in Processes : q # p => local'[q] = local[q]

\* The invariant is kept if the one process that moves keeps its part.
LEMMA OneCloses ==
  ASSUME LoadingInv, ClosureInv, NEW p \in Processes, OnlyMoves(p), LocalMoves(p), FilesOK',
         ClosedSession(phase'[p], frames'[p], registered'[p], local'[p])
  PROVE  ClosureInv'
<1>1. ASSUME NEW q \in Processes
      PROVE  ClosedSession(phase'[q], frames'[q], registered'[q], local'[q])
  BY DEF ClosureInv, OnlyMoves, LocalMoves
<1> QED
  BY <1>1 DEF ClosureInv, LocalMoves

\* What is known of a process that runs.
LEMMA Running ==
  ASSUME LoadingInv, ClosureInv, NEW p \in Processes, phase[p] # "idle"
  PROVE  /\ Stack(frames[p]) /\ Len(frames[p]) \in Nat /\ Len(frames[p]) > 0
         /\ ClosedSession(phase[p], frames[p], registered[p], local[p])
         /\ Here(p) = frames[p][Len(frames[p])]
         /\ FrameOK(Here(p))
         /\ ClosedUnder(registered[p]) /\ local[p] \subseteq DOMAIN registered[p]
         /\ FilesOK
<1>1. Stack(frames[p]) /\ ClosedSession(phase[p], frames[p], registered[p], local[p]) /\ FilesOK
  BY DEF LoadingInv, SessionInv, Matches, ClosureInv
<1>2. Len(frames[p]) \in Nat /\ Len(frames[p]) > 0
  BY <1>1 DEF Stack, IsList, ClosedSession
<1>3. Here(p) = frames[p][Len(frames[p])] /\ Len(frames[p]) \in 1 .. Len(frames[p])
  BY <1>2 DEF Here, Depth
<1> QED
  BY <1>1, <1>2, <1>3 DEF ClosedSession

\* A session that has ended has its part of the invariant.
LEMMA NothingCloses ==
  ASSUME NEW r, ClosedUnder(r), NEW k, k \subseteq DOMAIN r
  PROVE  ClosedSession("idle", <<>>, r, k)
<1>1. Len(<<>>) = 0
  OBVIOUS
<1> QED
  BY <1>1 DEF ClosedSession

\* An empty registry is closed.
LEMMA NothingIsClosed == ClosedUnder(Nothing) /\ DOMAIN Nothing = {}
  BY DEF ClosedUnder, Nothing

\* A process ends; it may have written a library.
LEMMA ForgetCloses ==
  ASSUME LoadingInv, ClosureInv, NEW p \in Processes, Forget(p), FilesOK'
  PROVE  ClosureInv'
<1>1. OnlyMoves(p) /\ LocalMoves(p)
  BY DEF Forget, OnlyMoves, LocalMoves, LoadingInv, ClosureInv
<1>2. phase'[p] = "idle" /\ frames'[p] = <<>> /\ registered'[p] = Nothing /\ local'[p] = {}
  BY DEF Forget, LoadingInv, ClosureInv
<1>3. ClosedSession("idle", <<>>, Nothing, {})
  BY NothingIsClosed, NothingCloses
<1> QED
  BY <1>1, <1>2, <1>3, OneCloses

\* A session is over, or its process is killed.
LEMMA EndCloses ==
  ASSUME LoadingInv, ClosureInv, NEW p \in Processes, Fail(p) \/ Link(p) \/ Die(p)
  PROVE  ClosureInv'
<1>1. Forget(p) /\ FilesOK'
  BY FilesStay DEF Fail, Link, Die, stores, ClosureInv
<1> QED
  BY <1>1, ForgetCloses

\* A library is published: its text is the one the frame has.
LEMMA PublishCloses ==
  ASSUME LoadingInv, ClosureInv, NEW p \in Processes, PublishLibrary(p)
  PROVE  ClosureInv'
<1>1. Forget(p) /\ sources' = sources
  BY DEF PublishLibrary
<1>2. FrameOK(Here(p)) /\ FilesOK
  BY Running DEF PublishLibrary
<1> DEFINE l == [text |-> Here(p).text, needs |-> Needs(p), object |-> job[p].object]
<1>3. libraries' = [libraries EXCEPT ![job[p].file] = l]
  BY DEF PublishLibrary
<1>4. l.text \in Texts
  BY <1>2 DEF FrameOK
<1> HIDE DEF l
<1>5. FilesOK'
  BY <1>1, <1>2, <1>3, <1>4 DEF FilesOK
<1> QED
  BY <1>1, <1>5, ForgetCloses

\* A session starts with the contracts to load.
LEMMA StartCloses ==
  ASSUME LoadingInv, ClosureInv, NEW p \in Processes, Start(p)
  PROVE  ClosureInv'
<1>1. PICK j \in Jobs[p] :
        /\ sources[j.file] # Absent
        /\ frames' = [frames EXCEPT ![p] =
             << Frame(j.file, "root", sources[j.file], NoLibrary, External(Contracts), "bootstrap") >>]
  BY DEF Start
<1> DEFINE f == Frame(j.file, "root", sources[j.file], NoLibrary, External(Contracts), "bootstrap")
<1>2. /\ OnlyMoves(p) /\ LocalMoves(p) /\ FilesOK' /\ FilesOK
      /\ registered' = registered /\ local' = local /\ frames'[p] = <<f>>
  BY <1>1, FilesStay DEF Start, stores, OnlyMoves, LocalMoves, LoadingInv, ClosureInv
<1>3. j.file \in Files
  BY LoadingAssumption
<1>4. sources[j.file] \in Texts
  BY <1>1, <1>2, <1>3 DEF FilesOK
<1>5. f.file = j.file /\ f.text = sources[j.file] /\ f.todo = External(Contracts) /\ f.step = "bootstrap"
  BY DEF Frame
<1>6. FrameOK(f)
  BY <1>3, <1>4, <1>5, ContractsAreRequests DEF FrameOK
<1> HIDE DEF f
<1>7. Len(<<f>>) = 1 /\ <<f>>[1] = f
  OBVIOUS
<1>8. ClosedUnder(registered[p]) /\ local[p] \subseteq DOMAIN registered[p]
  BY DEF ClosureInv, ClosedSession
<1>9. ClosedSession(phase'[p], <<f>>, registered[p], local[p])
  BY <1>5, <1>6, <1>7, <1>8 DEF ClosedSession
<1> QED
  BY <1>2, <1>9, OneCloses

\* The contracts are loaded: the list of the file is all that it imports.
LEMMA RootCloses ==
  ASSUME LoadingInv, ClosureInv, NEW p \in Processes, EndBootstrap(p)
  PROVE  ClosureInv'
<1> DEFINE s == frames[p]
<1> DEFINE todo == Imports[Here(p).file][Here(p).text]
<1> DEFINE t == [s EXCEPT ![Len(s)].step = "imports", ![Len(s)].todo = todo]
<1>1. phase[p] # "idle" /\ s[Len(s)].step = "bootstrap" /\ Len(s) > 0
  BY DEF EndBootstrap, At, Here, Depth
<1>2. /\ Stack(s) /\ Len(s) \in Nat
      /\ ClosedSession(phase[p], s, registered[p], local[p])
      /\ Here(p) = s[Len(s)] /\ FrameOK(Here(p)) /\ FilesOK
      /\ ClosedUnder(registered[p]) /\ local[p] \subseteq DOMAIN registered[p]
  BY <1>1, Running
<1>3. todo \in Seq(Requests)
  BY <1>2, ImportsAreRequests DEF FrameOK
<1>4. Len(s) = 1
  <2> SUFFICES ASSUME Len(s) # 1 PROVE FALSE
    OBVIOUS
  <2>1. Len(s) \in Nat /\ Len(s) > 0 /\ Stack(s) /\ s[Len(s)].step = "bootstrap"
    BY <1>1, <1>2
  <2>2. PICK n \in Nat : n = Len(s)
    BY <2>1
  <2> HIDE DEF s, t
  <2>3. n \in 2 .. n
    <3>1. n # 0 /\ n # 1
      BY <2>1, <2>2
    <3> QED
      BY <3>1
  <2> QED
    BY <2>1, <2>2, <2>3 DEF Stack
<1>5. /\ OnlyMoves(p) /\ LocalMoves(p) /\ FilesOK' /\ frames'[p] = t
      /\ registered' = registered /\ local' = local
  BY <1>2, <1>4, FilesStay DEF EndBootstrap, stores, OnlyMoves, LocalMoves, LoadingInv, ClosureInv
<1>6. Here(p).file \in Files /\ Here(p).text \in Texts
  BY <1>2 DEF FrameOK
<1> HIDE DEF todo
<1> HIDE DEF s
<1>7. StepsTo(s, t, "imports") /\ t[Len(s)].text = s[Len(s)].text /\ t[Len(s)].todo = todo
  <2>1. StepsTo(s, t, "imports")
    BY <1>1, <1>2, TopSteps
  <2>2. t[Len(s)].text = s[Len(s)].text /\ t[Len(s)].todo = todo
    BY <1>1, <1>2, TopFields
  <2> QED
    BY <2>1, <2>2
<1> HIDE DEF t
<1>8. Len(t) = 1 /\ FrameOK(t[1]) /\ t[1].file = s[1].file /\ t[1].step = "imports"
  BY <1>2, <1>3, <1>4, <1>6, <1>7 DEF StepsTo, FrameOK
<1>9. Len(t) \in Nat /\ Len(t) > 0 /\ Len(t) <= Len(s) /\ ~(Len(t) > 1) /\ 1 .. Len(t) - 1 = {}
  BY <1>4, <1>8
<1>10. TopMoves(s, t, registered[p])
  BY <1>8, <1>9 DEF TopMoves
<1>11. ClosedSession(phase'[p], t, registered[p], local[p])
  BY <1>2, <1>10, SessionGoesOn
<1> QED
  BY <1>5, <1>11, OneCloses

\* What is known of a frame with imports on its list.
LEMMA ImportingFacts ==
  ASSUME LoadingInv, ClosureInv, NEW p \in Processes, Importing(p)
  PROVE  /\ phase[p] = "loading"
         /\ frames[p][Len(frames[p])].todo # <<>>
         /\ Import(p) = Head(frames[p][Len(frames[p])].todo)
         /\ frames[p][Len(frames[p])].step \in {"bootstrap", "imports"}
         /\ Import(p) \in Requests /\ Here(p).file \in Files
<1>1. phase[p] = "loading" /\ Here(p).todo # <<>> /\ Here(p).step \in {"bootstrap", "imports"}
  BY DEF Importing, At
<1>2. Here(p) = frames[p][Len(frames[p])] /\ FrameOK(Here(p))
  BY <1>1, Running
<1>3. Import(p) \in Requests
  BY <1>1, <1>2 DEF FrameOK, Import
<1> QED
  BY <1>1, <1>2, <1>3 DEF Import, FrameOK

\* The frame on top after an import that was tried and that needs no call.
LEMMA DoneGoesOn ==
  ASSUME NEW ph, NEW s, NEW r, NEW k, ClosedSession(ph, s, r, k), Stack(s), Len(s) > 0,
         s[Len(s)].todo # <<>>, s[Len(s)].step \in {"bootstrap", "imports"},
         NEW t, \/ t = Done(s) /\ Head(s[Len(s)].todo).name \in DOMAIN r
                \/ t = Blame(Done(s)),
         NEW m, m \subseteq DOMAIN r, NEW ph2
  PROVE  ClosedSession(ph2, t, r, m)
<1> DEFINE n == Len(s)
<1> DEFINE d == Done(s)
<1>1. /\ Len(d) = n /\ n \in Nat /\ n > 0
      /\ \A i \in 1 .. n - 1 : d[i] = s[i]
      /\ d[n].file = s[n].file /\ d[n].text = s[n].text /\ d[n].step = s[n].step
      /\ d[n].failed = s[n].failed /\ d[n].todo = Tail(s[n].todo)
  BY DoneTop
<1>2. Stack(d)
  BY DoneSame DEF SameFrames, Stack
<1>3. n \in 1 .. n /\ FrameOK(s[n]) /\ ClosedUnder(r)
  BY <1>1 DEF ClosedSession
<1>4. /\ d[n].todo \in Seq(Requests)
      /\ Pending(s[n]) \subseteq Pending(d[n]) \cup {Head(s[n].todo).name}
  BY <1>1, <1>3, TailPending DEF FrameOK
<1>5. FrameOK(d[n])
  BY <1>1, <1>3, <1>4 DEF FrameOK
<1>6. CASE t = d /\ Head(s[n].todo).name \in DOMAIN r
  <2>1. ASSUME n > 1
        PROVE  Waits(d, n, r)
    <3>1. Waits(s, n, r)
      BY <1>1, <2>1 DEF ClosedSession
    <3>2. Called(s, n) = {} /\ Called(d, n) = {}
      BY <1>1 DEF Called
    <3> HIDE DEF n, d
    <3> QED
      BY <1>1, <1>4, <1>6, <3>1, <3>2 DEF Waits
  <2> HIDE DEF d, n
  <2>2. Len(t) = n /\ n = Len(s) /\ Len(s) \in Nat
    BY <1>1, <1>6 DEF n
  <2>3. TopMoves(s, t, r)
    BY <1>1, <1>5, <1>6, <2>1, <2>2 DEF TopMoves
  <2> QED
    BY <1>3, <2>2, <2>3, SessionGoesOn
<1>7. CASE t = Blame(d)
  <2> HIDE DEF d
  <2>1. /\ Len(t) = n
        /\ \A i \in 1 .. n - 1 : t[i] = d[i]
        /\ t[n].file = d[n].file /\ t[n].text = d[n].text /\ t[n].step = d[n].step
        /\ t[n].failed /\ t[n].todo = d[n].todo
    BY <1>1, <1>2, <1>7, BlameTop
  <2>2. FrameOK(t[n])
    BY <1>5, <2>1 DEF FrameOK
  <2>3. Waits(t, n, r)
    BY <2>1 DEF Waits
  <2>4. \A i \in 1 .. n - 1 : t[i] = s[i]
    BY <1>1, <2>1
  <2> HIDE DEF n
  <2>5. Len(t) = n /\ n = Len(s) /\ Len(s) \in Nat
    BY <1>1, <2>1 DEF n
  <2>6. TopMoves(s, t, r)
    BY <1>1, <2>1, <2>2, <2>3, <2>4, <2>5 DEF TopMoves
  <2> QED
    BY <1>3, <2>5, <2>6, SessionGoesOn
<1> QED
  BY <1>6, <1>7

\* An import that is known, that is missing, or that closes a cycle.
LEMMA TriedCloses ==
  ASSUME LoadingInv, ClosureInv, NEW p \in Processes,
         ImportKnown(p) \/ ImportCycle(p) \/ ImportMissing(p)
  PROVE  ClosureInv'
<1> DEFINE s == frames[p]
<1> DEFINE r == registered[p]
<1>1. Importing(p) /\ phase' = phase /\ loading' = loading /\ registered' = registered
      /\ sources' = sources /\ libraries' = libraries
  BY DEF ImportKnown, ImportCycle, ImportMissing, stores
<1>2. /\ phase[p] = "loading" /\ s[Len(s)].todo # <<>> /\ Import(p) = Head(s[Len(s)].todo)
      /\ s[Len(s)].step \in {"bootstrap", "imports"}
  BY <1>1, ImportingFacts
<1>3. /\ Stack(s) /\ Len(s) > 0 /\ ClosedSession(phase[p], s, r, local[p])
      /\ local[p] \subseteq DOMAIN r /\ FilesOK
  BY <1>2, Running
<1>4. \/ /\ frames' = [frames EXCEPT ![p] = Done(s)]
         /\ Import(p).name \in DOMAIN r
         /\ local' = [local EXCEPT ![p] = IF Import(p).kind = "local" THEN @ \cup {Import(p).name} ELSE @]
      \/ frames' = [frames EXCEPT ![p] = Blame(Done(s))] /\ local' = local
  <2>1. CASE ImportKnown(p)
    BY <1>3, <2>1 DEF ImportKnown
  <2>2. CASE ImportCycle(p) \/ ImportMissing(p)
    BY <2>2 DEF ImportCycle, ImportMissing
  <2> QED
    BY <2>1, <2>2
<1>5. /\ OnlyMoves(p) /\ LocalMoves(p) /\ FilesOK' /\ local'[p] \subseteq DOMAIN r
      /\ \/ frames'[p] = Done(s) /\ Import(p).name \in DOMAIN r
         \/ frames'[p] = Blame(Done(s))
  <2>1. FilesOK'
    BY <1>1, <1>3, FilesStay
  <2> QED
    BY <1>1, <1>3, <1>4, <2>1 DEF OnlyMoves, LocalMoves, LoadingInv, ClosureInv
<1>6. ClosedSession(phase'[p], frames'[p], r, local'[p])
  <2> HIDE DEF s, r
  <2> QED
    BY <1>2, <1>3, <1>5, DoneGoesOn
<1> QED
  BY <1>1, <1>5, <1>6, OneCloses

\* A source is opened: all that it imports is on its list.
LEMMA SourceCloses ==
  ASSUME LoadingInv, ClosureInv, NEW p \in Processes, ImportSource(p)
  PROVE  ClosureInv'
<1> DEFINE s == frames[p]
<1> DEFINE todo == Imports[Found(p)][sources[Found(p)]]
<1> DEFINE f == Frame(Found(p), Import(p).kind, sources[Found(p)], NoLibrary, todo, "imports")
<1>1. Importing(p) /\ Found(p) # Absent /\ libraries[Found(p)] = Absent
  BY DEF ImportSource, Fresh
<1>2. /\ phase[p] = "loading" /\ s[Len(s)].todo # <<>> /\ Import(p) = Head(s[Len(s)].todo)
      /\ Import(p) \in Requests /\ Here(p).file \in Files
  BY <1>1, ImportingFacts
<1>3. /\ Stack(s) /\ Len(s) > 0 /\ ClosedSession(phase[p], s, registered[p], local[p]) /\ FilesOK
  BY <1>2, Running
<1>4. Found(p) \in Files /\ sources[Found(p)] # Absent
  BY <1>1, <1>2, LookupFile DEF Found, Exists
<1>5. sources[Found(p)] \in Texts
  BY <1>3, <1>4 DEF FilesOK
<1>6. Found(p).name = Import(p).name
  BY <1>1, LookupName DEF Found
<1>7. /\ OnlyMoves(p) /\ LocalMoves(p) /\ FilesOK' /\ frames'[p] = Append(Done(s), f)
      /\ phase' = phase /\ registered' = registered /\ local' = local
  BY <1>3, FilesStay DEF ImportSource, stores, OnlyMoves, LocalMoves, LoadingInv, ClosureInv
<1>8. todo \in Seq(Requests)
  BY <1>4, <1>5, ImportsAreRequests
<1>9. /\ f.file = Found(p) /\ f.text = sources[Found(p)] /\ f.todo = todo /\ f.step = "imports"
  BY DEF Frame
<1>10. FrameOK(f) /\ ImportedNames(f.file, f.text) \subseteq Pending(f)
  <2>1. f.todo = Imports[f.file][f.text]
    BY <1>9
  <2> HIDE DEF f
  <2> QED
    BY <1>4, <1>5, <1>8, <1>9, <2>1, AllPending DEF FrameOK
<1> HIDE DEF s, f, todo
<1>11. f.file.name = Head(s[Len(s)].todo).name /\ f.step \notin {"extract", "fill"}
  BY <1>2, <1>6, <1>9
<1>12. ClosedSession(phase[p], Append(Done(s), f), registered[p], local[p])
  BY <1>2, <1>3, <1>10, <1>11, SessionCalls
<1> QED
  BY <1>7, <1>12, OneCloses

\* A library is opened: nothing is on its list until it is accepted.
LEMMA LibraryCloses ==
  ASSUME LoadingInv, ClosureInv, NEW p \in Processes, ImportLibrary(p)
  PROVE  ClosureInv'
<1> DEFINE s == frames[p]
<1> DEFINE l == libraries[Found(p)]
<1> DEFINE f == Frame(Found(p), Import(p).kind, l.text, l, <<>>, "validate")
<1>1. Importing(p) /\ Found(p) # Absent /\ l # Absent
  BY DEF ImportLibrary, Fresh
<1>2. /\ phase[p] = "loading" /\ s[Len(s)].todo # <<>> /\ Import(p) = Head(s[Len(s)].todo)
      /\ Import(p) \in Requests /\ Here(p).file \in Files
  BY <1>1, ImportingFacts
<1>3. /\ Stack(s) /\ Len(s) > 0 /\ ClosedSession(phase[p], s, registered[p], local[p]) /\ FilesOK
  BY <1>2, Running
<1>4. Found(p) \in Files
  BY <1>1, <1>2, LookupFile DEF Found
<1>5. l.text \in Texts
  BY <1>1, <1>3, <1>4 DEF FilesOK
<1>6. Found(p).name = Import(p).name
  BY <1>1, LookupName DEF Found
<1>7. /\ OnlyMoves(p) /\ LocalMoves(p) /\ FilesOK' /\ frames'[p] = Append(Done(s), f)
      /\ phase' = phase /\ registered' = registered /\ local' = local
  BY <1>3, FilesStay DEF ImportLibrary, stores, OnlyMoves, LocalMoves, LoadingInv, ClosureInv
<1>8. f.file = Found(p) /\ f.text = l.text /\ f.todo = <<>> /\ f.step = "validate"
  BY DEF Frame
<1> HIDE DEF s, f, l
<1>9. FrameOK(f)
  <2>1. <<>> \in Seq(Requests)
    OBVIOUS
  <2> QED
    BY <1>4, <1>5, <1>8, <2>1 DEF FrameOK
<1>10. /\ f.file.name = Head(s[Len(s)].todo).name /\ f.step \notin {"extract", "fill"}
       /\ f.step # "imports"
  BY <1>2, <1>6, <1>8
<1>11. ClosedSession(phase[p], Append(Done(s), f), registered[p], local[p])
  BY <1>2, <1>3, <1>9, <1>10, SessionCalls
<1> QED
  BY <1>7, <1>11, OneCloses

\* A library is accepted: all that it imports is on its list.
LEMMA AcceptCloses ==
  ASSUME LoadingInv, ClosureInv, NEW p \in Processes, AcceptLibrary(p)
  PROVE  ClosureInv'
<1> DEFINE s == frames[p]
<1> DEFINE todo == Imports[Here(p).file][Here(p).text]
<1> DEFINE t == [s EXCEPT ![Len(s)].step = "imports", ![Len(s)].todo = todo]
<1>1. phase[p] # "idle"
  BY DEF AcceptLibrary, At
<1>2. /\ Stack(s) /\ Len(s) \in Nat /\ Len(s) > 0
      /\ ClosedSession(phase[p], s, registered[p], local[p])
      /\ Here(p) = s[Len(s)] /\ FrameOK(Here(p)) /\ FilesOK
      /\ ClosedUnder(registered[p]) /\ local[p] \subseteq DOMAIN registered[p]
  BY <1>1, Running
<1>3. Here(p).file \in Files /\ Here(p).text \in Texts
  BY <1>2 DEF FrameOK
<1>4. todo \in Seq(Requests)
  BY <1>3, ImportsAreRequests
<1>5. /\ OnlyMoves(p) /\ LocalMoves(p) /\ FilesOK' /\ frames'[p] = t
      /\ registered' = registered /\ local' = local
  BY <1>2, FilesStay DEF AcceptLibrary, Depth, stores, OnlyMoves, LocalMoves, LoadingInv, ClosureInv
<1>6. todo = Imports[s[Len(s)].file][s[Len(s)].text]
  BY <1>2
<1> HIDE DEF todo, s
<1>7. StepsTo(s, t, "imports") /\ t[Len(s)].text = s[Len(s)].text /\ t[Len(s)].todo = todo
  <2>1. StepsTo(s, t, "imports")
    BY <1>2, TopSteps
  <2>2. t[Len(s)].text = s[Len(s)].text /\ t[Len(s)].todo = todo
    BY <1>2, TopFields
  <2> QED
    BY <2>1, <2>2
<1> HIDE DEF t
<1> DEFINE e == t[Len(t)]
<1>8. /\ Len(t) = Len(s) /\ \A i \in 1 .. Len(t) - 1 : t[i] = s[i]
      /\ e.file = s[Len(s)].file /\ e.text = s[Len(s)].text /\ e.todo = todo /\ e.step = "imports"
  BY <1>7 DEF StepsTo
<1> HIDE DEF e
<1>9. FrameOK(e) /\ e.todo = Imports[e.file][e.text]
  BY <1>2, <1>3, <1>4, <1>6, <1>8 DEF FrameOK
<1>10. ImportedNames(e.file, e.text) \subseteq Pending(e)
  BY <1>9, AllPending
<1>11. Waits(t, Len(t), registered[p])
  BY <1>10 DEF Waits, e
<1>12. TopMoves(s, t, registered[p])
  BY <1>2, <1>8, <1>9, <1>11 DEF e, TopMoves
<1>13. ClosedSession(phase'[p], t, registered[p], local[p])
  BY <1>2, <1>12, SessionGoesOn
<1> QED
  BY <1>5, <1>13, OneCloses

\* A call returns, with an error or after the name of its provider is registered: the frame below is
\* on top again.
LEMMA ReturnGoesOn ==
  ASSUME NEW ph, NEW s, NEW r, NEW k, ClosedSession(ph, s, r, k), Stack(s), Len(s) > 1,
         Stack(Pop(s)),
         NEW q, DOMAIN r \subseteq DOMAIN q, ClosedUnder(q),
         NEW t, \/ t = Pop(s) /\ s[Len(s)].file.name \in DOMAIN q
                \/ t = Blame(Pop(s)),
         NEW m, m \subseteq DOMAIN q, NEW ph2
  PROVE  ClosedSession(ph2, t, q, m)
<1> DEFINE n == Len(s) - 1
<1> DEFINE d == Pop(s)
<1>1. Len(s) \in Nat
  BY DEF Stack, IsList
<1>2. Len(d) = n /\ \A i \in 1 .. n : d[i] = s[i]
  BY ListPop DEF Stack
<1>3. n \in Nat /\ n > 0 /\ n + 1 = Len(s) /\ n < Len(s) /\ n <= Len(s)
      /\ n \in 1 .. n /\ n \in 1 .. Len(s) /\ \A i \in 1 .. n - 1 : i \in 1 .. n
  BY <1>1
<1> HIDE DEF n, d
<1>4. d[n] = s[n] /\ FrameOK(s[n]) /\ s[n].step \in {"bootstrap", "imports"}
  BY <1>2, <1>3 DEF ClosedSession, Stack
<1>5. CASE t = d /\ s[Len(s)].file.name \in DOMAIN q
  <2>1. ASSUME n > 1
        PROVE  Waits(d, n, q)
    <3>1. n \in 2 .. Len(s)
      BY <1>3, <2>1
    <3>2. Waits(s, n, r)
      BY <3>1 DEF ClosedSession
    <3>3. Called(s, n) = {s[Len(s)].file.name} /\ Called(d, n) = {}
      BY <1>2, <1>3 DEF Called
    <3> QED
      BY <1>4, <1>5, <3>2, <3>3 DEF Waits
  <2>2. TopMoves(s, t, q)
    BY <1>2, <1>3, <1>4, <1>5, <2>1 DEF TopMoves
  <2> QED
    BY <1>1, <2>2, SessionGoesOn
<1>6. CASE t = Blame(d)
  <2>1. /\ Len(t) = n
        /\ \A i \in 1 .. n - 1 : t[i] = d[i]
        /\ t[n].file = d[n].file /\ t[n].text = d[n].text /\ t[n].step = d[n].step
        /\ t[n].failed /\ t[n].todo = d[n].todo
    <3>1. Stack(d) /\ Len(d) > 0
      BY <1>2, <1>3 DEF d
    <3> QED
      BY <1>2, <1>6, <3>1, BlameTop
  <2>2. FrameOK(t[n])
    BY <1>4, <2>1 DEF FrameOK
  <2>3. Waits(t, n, q)
    BY <2>1 DEF Waits
  <2>4. TopMoves(s, t, q)
    BY <1>2, <1>3, <1>4, <2>1, <2>2, <2>3 DEF TopMoves
  <2> QED
    BY <1>1, <2>4, SessionGoesOn
<1> QED
  BY <1>5, <1>6 DEF d

\* A provider that is registered has its object file written.
LEMMA WritingGoesOn ==
  ASSUME NEW ph, NEW s, NEW r, NEW k, ClosedSession(ph, s, r, k), Stack(s), Len(s) > 0,
         NEW step \in {"extract", "fill"},
         NEW q, DOMAIN r \subseteq DOMAIN q, ClosedUnder(q), s[Len(s)].file.name \in DOMAIN q,
         NEW m, m \subseteq DOMAIN q, NEW ph2
  PROVE  ClosedSession(ph2, [s EXCEPT ![Len(s)].step = step], q, m)
<1> DEFINE t == [s EXCEPT ![Len(s)].step = step]
<1>1. StepsTo(s, t, step)
  BY TopSteps
<1>2. t[Len(s)].text = s[Len(s)].text /\ t[Len(s)].todo = s[Len(s)].todo
  BY TopFields
<1>3. Len(s) \in Nat
  BY DEF Stack, IsList
<1>4. FrameOK(s[Len(s)])
  BY <1>3 DEF ClosedSession
<1> HIDE DEF t
<1>5. /\ Len(t) \in Nat /\ Len(t) > 0 /\ Len(t) <= Len(s) /\ Len(t) = Len(s)
      /\ \A i \in 1 .. Len(t) - 1 : t[i] = s[i]
      /\ t[Len(t)].file = s[Len(t)].file /\ t[Len(t)].step = step
  BY <1>1, <1>3 DEF StepsTo
<1>6. FrameOK(t[Len(t)])
  BY <1>2, <1>4, <1>5 DEF FrameOK
<1>7. Waits(t, Len(t), q)
  BY <1>5 DEF Waits
<1>8. t[Len(t)].file.name \in DOMAIN q
  BY <1>5
<1>9. TopMoves(s, t, q)
  BY <1>5, <1>6, <1>7, <1>8 DEF TopMoves
<1>10. ClosedSession(ph2, t, q, m)
  BY <1>3, <1>9, SessionGoesOn
<1> QED
  BY <1>10 DEF t

\* A library is not valid.
LEMMA RejectCloses ==
  ASSUME LoadingInv, ClosureInv, NEW p \in Processes, RejectLibrary(p)
  PROVE  ClosureInv'
<1> DEFINE s == frames[p]
<1>1. phase[p] # "idle" /\ s[Len(s)].step = "validate"
  BY DEF RejectLibrary, At, Here, Depth
<1>2. /\ Stack(s) /\ Len(s) \in Nat /\ Len(s) > 0
      /\ ClosedSession(phase[p], s, registered[p], local[p])
      /\ ClosedUnder(registered[p]) /\ local[p] \subseteq DOMAIN registered[p] /\ FilesOK
  BY <1>1, Running
<1>3. Matches(s, loading[p])
  BY DEF LoadingInv, SessionInv
<1>4. /\ OnlyMoves(p) /\ LocalMoves(p) /\ FilesOK' /\ frames'[p] = Blame(Pop(s))
      /\ registered' = registered /\ local' = local
  BY <1>2, FilesStay DEF RejectLibrary, ReturnError, stores, OnlyMoves, LocalMoves, LoadingInv, ClosureInv
<1> HIDE DEF s
<1>5. Len(s) > 1
  BY <1>1, <1>2 DEF Stack
<1>6. Stack(Pop(s))
  BY <1>1, <1>3, <1>5, ReturnMatches DEF Matches
<1>7. ClosedSession(phase'[p], frames'[p], registered[p], local[p])
  BY <1>2, <1>4, <1>5, <1>6, ReturnGoesOn
<1> QED
  BY <1>4, <1>7, OneCloses

\* A provider fails after its imports.
LEMMA RefuseCloses ==
  ASSUME LoadingInv, ClosureInv, NEW p \in Processes, Refuse(p) \/ AnalysisFails(p)
  PROVE  ClosureInv'
<1> DEFINE s == frames[p]
<1>1. Imported(p) /\ sources' = sources /\ libraries' = libraries
  BY DEF Refuse, AnalysisFails, stores
<1>2. Stack(s) /\ Len(s) > 1 /\ Stack(Pop(s)) /\ phase[p] = "loading"
  BY <1>1, ImportedFacts DEF Matches
<1>3. /\ ClosedSession(phase[p], s, registered[p], local[p])
      /\ ClosedUnder(registered[p]) /\ local[p] \subseteq DOMAIN registered[p] /\ FilesOK
  BY <1>2, Running
<1>4. /\ OnlyMoves(p) /\ LocalMoves(p) /\ FilesOK' /\ frames'[p] = Blame(Pop(s))
      /\ registered' = registered /\ local' = local
  <2>1. FilesOK'
    BY <1>1, <1>3, FilesStay
  <2> QED
    BY <2>1 DEF Refuse, AnalysisFails, ReturnError, OnlyMoves, LocalMoves, LoadingInv, ClosureInv
<1> HIDE DEF s
<1>5. ClosedSession(phase'[p], frames'[p], registered[p], local[p])
  BY <1>2, <1>3, <1>4, ReturnGoesOn
<1> QED
  BY <1>4, <1>5, OneCloses

\* A provider is registered: all that it imports is.
LEMMA RegisterCloses ==
  ASSUME LoadingInv, ClosureInv, NEW p \in Processes, Register(p)
  PROVE  ClosureInv'
<1> DEFINE s == frames[p]
<1> DEFINE r == registered[p]
<1> DEFINE q == registered'[p]
<1> DEFINE name == Here(p).file.name
<1> DEFINE u == [s EXCEPT ![Len(s)].step = "extract"]
<1>1. Imported(p) /\ ~Here(p).failed /\ Here(p).todo = <<>>
      /\ sources' = sources /\ libraries' = libraries
  BY DEF Register, Imported, stores
<1>2. /\ Stack(s) /\ Len(s) > 1 /\ Stack(Pop(s)) /\ phase[p] = "loading"
      /\ s[Len(s)].step = "imports"
  BY <1>1, ImportedFacts DEF Matches
<1>3. /\ Len(s) \in Nat /\ ClosedSession(phase[p], s, r, local[p])
      /\ Here(p) = s[Len(s)] /\ FrameOK(Here(p))
      /\ ClosedUnder(r) /\ local[p] \subseteq DOMAIN r /\ FilesOK
  BY <1>2, Running
<1>4. /\ DOMAIN q = DOMAIN r \cup {name} /\ q[name] = Entry(Here(p))
      /\ \A n \in DOMAIN r : n # name => q[n] = r[n]
  BY RegisterAdds
<1>5. Entry(Here(p)).file = Here(p).file /\ Entry(Here(p)).text = Here(p).text
  BY DEF Entry
<1>6. ImportedNames(Here(p).file, Here(p).text) \subseteq DOMAIN r
  <2>1. Len(s) \in 2 .. Len(s)
    <3> HIDE DEF s
    <3> QED
      BY <1>2, <1>3
  <2>2. Waits(s, Len(s), r)
    BY <1>3, <2>1 DEF ClosedSession
  <2>3. Called(s, Len(s)) = {} /\ Pending(s[Len(s)]) = {}
    BY <1>1, <1>3 DEF Called, Pending
  <2> HIDE DEF s
  <2> QED
    BY <1>1, <1>2, <1>3, <2>2, <2>3 DEF Waits
<1> HIDE DEF r, q, name
<1>7. ClosedUnder(q) /\ DOMAIN r \subseteq DOMAIN q /\ name \in DOMAIN q
  <2>1. ASSUME NEW n \in DOMAIN q
        PROVE  ImportedNames(q[n].file, q[n].text) \subseteq DOMAIN q
    <3>1. CASE n = name
      BY <1>4, <1>5, <1>6, <3>1
    <3>2. CASE n # name
      BY <1>3, <1>4, <3>2 DEF ClosedUnder
    <3> QED
      BY <3>1, <3>2
  <2> QED
    BY <1>4, <2>1 DEF ClosedUnder
<1>8. /\ OnlyMoves(p) /\ LocalMoves(p) /\ FilesOK'
      /\ local'[p] \subseteq DOMAIN q
      /\ frames'[p] \in {Pop(s), u}
  <2>1. FilesOK'
    BY <1>1, <1>3, FilesStay
  <2>2. LocalMoves(p) /\ local'[p] \subseteq local[p] \cup {name}
    BY DEF Register, ReturnLoaded, LocalMoves, ClosureInv, name
  <2>3. OnlyMoves(p) /\ frames'[p] \in {Pop(s), u}
    BY DEF Register, ReturnLoaded, Depth, OnlyMoves, LoadingInv
  <2> QED
    BY <1>3, <1>7, <2>1, <2>2, <2>3
<1>9. name = s[Len(s)].file.name
  BY <1>3 DEF name
<1> HIDE DEF s
<1>10. CASE frames'[p] = Pop(s)
  <2>1. ClosedSession(phase'[p], frames'[p], q, local'[p])
    BY <1>2, <1>3, <1>7, <1>8, <1>9, <1>10, ReturnGoesOn
  <2> QED
    BY <1>8, <2>1, OneCloses DEF q
<1>11. CASE frames'[p] = u
  <2>1. Len(s) > 0
    BY <1>2, <1>3
  <2>2. ClosedSession(phase'[p], u, q, local'[p])
    BY <1>2, <1>3, <1>7, <1>8, <1>9, <2>1, WritingGoesOn
  <2> QED
    BY <1>8, <1>11, <2>2, OneCloses DEF q
<1> QED
  BY <1>8, <1>10, <1>11

\* An object file is created.
LEMMA CreateCloses ==
  ASSUME LoadingInv, ClosureInv, NEW p \in Processes, CreateSidecar(p)
  PROVE  ClosureInv'
<1> DEFINE s == frames[p]
<1> DEFINE t == [s EXCEPT ![Len(s)].step = "fill"]
<1>1. phase[p] # "idle" /\ s[Len(s)].step = "extract"
  BY DEF CreateSidecar, At, Here, Depth
<1>2. /\ Stack(s) /\ Len(s) \in Nat /\ Len(s) > 0
      /\ ClosedSession(phase[p], s, registered[p], local[p])
      /\ Here(p) = s[Len(s)] /\ FrameOK(Here(p))
      /\ ClosedUnder(registered[p]) /\ local[p] \subseteq DOMAIN registered[p] /\ FilesOK
  BY <1>1, Running
<1>3. /\ OnlyMoves(p) /\ LocalMoves(p) /\ FilesOK' /\ frames'[p] = t
      /\ registered' = registered /\ local' = local
  BY <1>2, FilesStay DEF CreateSidecar, Depth, OnlyMoves, LocalMoves, LoadingInv, ClosureInv
<1>4. s[Len(s)].file.name \in DOMAIN registered[p]
  BY <1>1, <1>2 DEF ClosedSession
<1> HIDE DEF s
<1>5. ClosedSession(phase'[p], t, registered[p], local[p])
  BY <1>2, <1>4, WritingGoesOn
<1> QED
  BY <1>3, <1>5, OneCloses

\* An object file is filled and the call returns.
LEMMA FillCloses ==
  ASSUME LoadingInv, ClosureInv, NEW p \in Processes, FillSidecar(p)
  PROVE  ClosureInv'
<1> DEFINE s == frames[p]
<1>1. phase[p] # "idle" /\ s[Len(s)].step = "fill" /\ Here(p) = s[Len(s)]
  BY DEF FillSidecar, At, Here, Depth
<1>2. /\ Stack(s) /\ Len(s) \in Nat /\ Len(s) > 0
      /\ ClosedSession(phase[p], s, registered[p], local[p])
      /\ ClosedUnder(registered[p]) /\ local[p] \subseteq DOMAIN registered[p] /\ FilesOK
  BY <1>1, Running
<1>3. Matches(s, loading[p])
  BY DEF LoadingInv, SessionInv
<1>4. s[Len(s)].file.name \in DOMAIN registered[p]
  BY <1>1, <1>2 DEF ClosedSession
<1>5. /\ OnlyMoves(p) /\ LocalMoves(p) /\ FilesOK' /\ frames'[p] = Pop(s)
      /\ registered' = registered /\ local'[p] \subseteq DOMAIN registered[p]
  BY <1>1, <1>2, <1>4, FilesStay DEF FillSidecar, ReturnLoaded, OnlyMoves, LocalMoves, LoadingInv, ClosureInv
<1> HIDE DEF s
<1>6. Len(s) > 1
  BY <1>1, <1>2 DEF Stack
<1>7. Stack(Pop(s))
  BY <1>1, <1>3, <1>6, ReturnMatches DEF Matches
<1>8. ClosedSession(phase'[p], frames'[p], registered[p], local'[p])
  BY <1>2, <1>4, <1>5, <1>6, <1>7, ReturnGoesOn
<1> QED
  BY <1>5, <1>8, OneCloses

\* The object file is written and read: the loader is done.
LEMMA EmitCloses ==
  ASSUME LoadingInv, ClosureInv, NEW p \in Processes, EmitObject(p) \/ ReadObject(p)
  PROVE  ClosureInv'
<1>1. /\ phase[p] # "idle" /\ OnlyMoves(p) /\ LocalMoves(p)
      /\ sources' = sources /\ libraries' = libraries
      /\ frames' = frames /\ registered' = registered /\ local' = local
  BY DEF EmitObject, ReadObject, Ready, At, stores, session, OnlyMoves, LocalMoves, LoadingInv, ClosureInv
<1>2. FilesOK' /\ ClosedSession(phase'[p], frames'[p], registered'[p], local'[p])
  BY <1>1, FilesStay DEF ClosureInv, ClosedSession
<1> QED
  BY <1>1, <1>2, OneCloses

-----------------------------------------------------------------------------
(* The invariant and the theorem. *)

\* The invariant holds at the start.
LEMMA ClosureInit == LoadingInit => ClosureInv
<1> SUFFICES ASSUME LoadingInit PROVE ClosureInv
  OBVIOUS
<1>1. FilesOK
  BY LoadingAssumption DEF LoadingInit, FilesOK
<1>2. ASSUME NEW p \in Processes
      PROVE  ClosedSession(phase[p], frames[p], registered[p], local[p])
  BY NothingIsClosed, NothingCloses DEF LoadingInit
<1> QED
  BY <1>1, <1>2 DEF LoadingInit, ClosureInv

\* A source is edited: it has one of its texts, and no session sees it now.
LEMMA EditCloses ==
  ASSUME ClosureInv, Edit
  PROVE  ClosureInv'
<1>1. PICK f \in Files : \E t \in Edits[f] : sources' = [sources EXCEPT ![f] = t]
  BY DEF Edit
<1>2. PICK t \in Edits[f] : sources' = [sources EXCEPT ![f] = t]
  BY <1>1
<1>3. t \in Texts
  BY LoadingAssumption
<1>4. FilesOK'
  BY <1>2, <1>3 DEF Edit, FilesOK, ClosureInv
<1> QED
  BY <1>4 DEF Edit, session, ClosureInv

\* The invariant is inductive, given that the loading stack is exact.
LEMMA ClosureNext == LoadingInv /\ ClosureInv /\ [LoadingNext]_loadingVars => ClosureInv'
<1> SUFFICES ASSUME LoadingInv, ClosureInv, [LoadingNext]_loadingVars
             PROVE  ClosureInv'
  OBVIOUS
<1>1. CASE UNCHANGED loadingVars
  BY <1>1 DEF loadingVars, stores, session, ClosureInv, FilesOK
<1>2. CASE Edit
  BY <1>2, EditCloses
<1>3. ASSUME NEW p \in Processes, Start(p) \/ Die(p)
      PROVE  ClosureInv'
  BY <1>3, StartCloses, EndCloses
<1>4. ASSUME NEW p \in Processes, Work(p)
      PROVE  ClosureInv'
  <2>1. CASE EndBootstrap(p)
    BY <2>1, RootCloses
  <2>2. CASE ImportKnown(p) \/ ImportCycle(p) \/ ImportMissing(p)
    BY <2>2, TriedCloses
  <2>3. CASE ImportSource(p)
    BY <2>3, SourceCloses
  <2>4. CASE ImportLibrary(p)
    BY <2>4, LibraryCloses
  <2>5. CASE RejectLibrary(p)
    BY <2>5, RejectCloses
  <2>6. CASE AcceptLibrary(p)
    BY <2>6, AcceptCloses
  <2>7. CASE Refuse(p) \/ AnalysisFails(p)
    BY <2>7, RefuseCloses
  <2>8. CASE Register(p)
    BY <2>8, RegisterCloses
  <2>9. CASE CreateSidecar(p)
    BY <2>9, CreateCloses
  <2>10. CASE FillSidecar(p)
    BY <2>10, FillCloses
  <2>11. CASE EmitObject(p) \/ ReadObject(p)
    BY <2>11, EmitCloses
  <2>12. CASE PublishLibrary(p)
    BY <2>12, PublishCloses
  <2>13. CASE Fail(p) \/ Link(p)
    BY <2>13, EndCloses
  <2> QED
    BY <1>4, <2>1, <2>2, <2>3, <2>4, <2>5, <2>6, <2>7, <2>8, <2>9, <2>10, <2>11, <2>12, <2>13 DEF Work
<1> QED
  BY <1>1, <1>2, <1>3, <1>4 DEF LoadingNext

\* A provider is registered only after everything it imports, whatever the imports, the edits and the
\* failures, and wherever a process is killed: an import that failed at any depth keeps all that
\* depend on it out of the registry, so that no analysis meets a name that is not there.
THEOREM RegisteredIsAlwaysClosed == LoadingSpec => []RegisteredIsClosed
<1>1. ClosureInv => RegisteredIsClosed
  BY DEF ClosureInv, ClosedSession, ClosedUnder, RegisteredIsClosed
<1> QED
  BY <1>1, LoadingAlways, ClosureInit, ClosureNext, PTL DEF LoadingSpec

-----------------------------------------------------------------------------
(* A library is used only with the interfaces it was made with.  It is checked when it is           *)
(* registered, against all that is registered then: that set is closed under imports and contains   *)
(* what the library imports, so that all that is behind the library is in it, and none of it is     *)
(* ever replaced.                                                                                    *)

EntryOK(name, e) ==
  /\ e.file \in Files /\ e.file.name = name /\ e.text \in Texts
  /\ e.fingerprint \in {Placeholder, Interface[e.file][e.text]}
  /\ Recorded(e.needs)

\* Everything behind the entry e is in closed, and what is in closed is what e was made with.
Holds(closed, e, r) ==
  /\ ImportedNames(e.file, e.text) \subseteq closed
  /\ \A n \in closed : ImportedNames(r[n].file, r[n].text) \subseteq closed

Agrees(closed, e, r) ==
  \A n \in closed \cap DOMAIN e.needs : e.needs[n].fingerprint = r[n].fingerprint

FreshRegistry(r) ==
  \A name \in DOMAIN r :
    /\ EntryOK(name, r[name])
    /\ \E closed \in SUBSET DOMAIN r : Holds(closed, r[name], r) /\ Agrees(closed, r[name], r)

Carried(s) == \A i \in 1 .. Len(s) : Recorded(s[i].library.needs)

StoresOK == \A f \in Files : libraries[f] # Absent => Recorded(libraries[f].needs)

FreshInv ==
  /\ StoresOK
  /\ \A p \in Processes : Carried(frames[p]) /\ FreshRegistry(registered[p])

\* The invariant is kept if the one process that moves keeps its part, and no library is written.
LEMMA OneRefreshes ==
  ASSUME FreshInv, NEW p \in Processes, OnlyMoves(p), StoresOK',
         Carried(frames'[p]), FreshRegistry(registered'[p])
  PROVE  FreshInv'
<1>1. ASSUME NEW q \in Processes
      PROVE  Carried(frames'[q]) /\ FreshRegistry(registered'[q])
  <2>1. CASE q = p
    BY <2>1
  <2>2. CASE q # p
    BY <2>2 DEF FreshInv, OnlyMoves
  <2> QED
    BY <2>1, <2>2
<1> QED
  BY <1>1 DEF FreshInv

\* The libraries stay what they are when none is written.
LEMMA StoresStay ==
  ASSUME StoresOK, libraries' = libraries
  PROVE  StoresOK'
  BY DEF StoresOK

\* The frame on top changes, and has a library of the same kind.
LEMMA TopCarries ==
  ASSUME NEW s, IsList(s), Len(s) > 0, Carried(s), NEW e, Recorded(e.library.needs)
  PROVE  Carried([s EXCEPT ![Len(s)] = e])
<1> DEFINE n == Len(s)
<1> DEFINE t == [s EXCEPT ![n] = e]
<1>1. n \in 1 .. Len(s) /\ n = Len(s)
  BY DEF IsList
<1>2. PICK S : s \in Seq(S) /\ e \in S
  <2>1. s \in Seq(Elements(s) \cup {e})
    BY DEF IsList
  <2> QED
    BY <2>1
<1> HIDE DEF n
<1>3. /\ Len(t) = Len(s)
      /\ \A i \in 1 .. Len(s) : t[i] = IF i = n THEN e ELSE s[i]
  BY <1>1, <1>2
<1> HIDE DEF t
<1>4. ASSUME NEW i \in 1 .. Len(t)
      PROVE  Recorded(t[i].library.needs)
  <2>1. CASE i = n
    BY <1>3, <2>1
  <2>2. CASE i # n
    BY <1>3, <2>2 DEF Carried
  <2> QED
    BY <2>1, <2>2
<1>5. Carried(t)
  BY <1>4 DEF Carried
<1> QED
  BY <1>5 DEF t, n

\* The frame on top has the library it had before an import was tried, or failed, and at another step.
LEMMA StepCarries ==
  ASSUME NEW s, Stack(s), Len(s) > 0, Carried(s), NEW step, NEW todo
  PROVE  /\ Carried(Done(s)) /\ Carried(Blame(s))
         /\ Carried([s EXCEPT ![Len(s)].step = step])
         /\ Carried([s EXCEPT ![Len(s)].step = step, ![Len(s)].todo = todo])
<1> DEFINE n == Len(s)
<1> DEFINE a == [s[n] EXCEPT !.todo = Tail(@)]
<1> DEFINE b == [s[n] EXCEPT !.failed = TRUE]
<1> DEFINE c == [s[n] EXCEPT !.step = step]
<1> DEFINE d == [s[n] EXCEPT !.step = step, !.todo = todo]
<1> DEFINE t == [s EXCEPT ![n].step = step]
<1> DEFINE u == [s EXCEPT ![n].step = step, ![n].todo = todo]
<1>1. n \in 1 .. Len(s) /\ IsList(s)
  BY DEF Stack, IsList
<1>2. Done(s) = [s EXCEPT ![n] = a] /\ Blame(s) = [s EXCEPT ![n] = b]
  BY DEF Done, Blame
<1>3. t = [s EXCEPT ![n] = c] /\ u = [s EXCEPT ![n] = d]
  <2>1. PICK S : s \in Seq(S) /\ c \in S /\ d \in S
    <3>1. s \in Seq(Elements(s) \cup {c, d})
      BY <1>1 DEF IsList
    <3> QED
      BY <3>1
  <2> QED
    BY <1>1, <2>1
<1>4. /\ a.library = s[n].library /\ b.library = s[n].library
      /\ c.library = s[n].library /\ d.library = s[n].library
  BY <1>1 DEF Stack, FrameFields
<1>5. Recorded(s[n].library.needs)
  BY <1>1 DEF Carried
<1> HIDE DEF a, b, c, d, t, u
<1>6. /\ Carried([s EXCEPT ![Len(s)] = a]) /\ Carried([s EXCEPT ![Len(s)] = b])
      /\ Carried([s EXCEPT ![Len(s)] = c]) /\ Carried([s EXCEPT ![Len(s)] = d])
  BY <1>1, <1>4, <1>5, TopCarries
<1> QED
  BY <1>2, <1>3, <1>6 DEF t, u

\* A call is made: the new frame has a library.
LEMMA PushCarries ==
  ASSUME NEW s, IsList(s), Carried(s), NEW f, Recorded(f.library.needs)
  PROVE  Carried(Append(s, f))
<1>1. /\ Len(Append(s, f)) = Len(s) + 1 /\ Append(s, f)[Len(s) + 1] = f
      /\ \A i \in 1 .. Len(s) : Append(s, f)[i] = s[i]
  BY ListAppend
<1>2. Len(s) \in Nat
  BY DEF IsList
<1> DEFINE t == Append(s, f)
<1> HIDE DEF t
<1>3. ASSUME NEW i \in 1 .. Len(t)
      PROVE  Recorded(t[i].library.needs)
  <2>1. CASE i = Len(s) + 1
    BY <1>1, <2>1 DEF t
  <2>2. CASE i # Len(s) + 1
    <3>1. i \in 1 .. Len(s)
      BY <1>1, <1>2, <2>2 DEF t
    <3> QED
      BY <1>1, <3>1 DEF t, Carried
  <2> QED
    BY <2>1, <2>2
<1> QED
  BY <1>3 DEF Carried, t

\* A call returns.
LEMMA PopCarries ==
  ASSUME NEW s, Stack(s), Len(s) > 1, Carried(s), Stack(Pop(s))
  PROVE  Carried(Pop(s)) /\ Carried(Blame(Pop(s)))
<1>1. Len(s) \in Nat
  BY DEF Stack, IsList
<1>2. Len(Pop(s)) = Len(s) - 1 /\ \A i \in 1 .. Len(s) - 1 : Pop(s)[i] = s[i]
  BY <1>1, ListPop DEF Stack
<1>3. Carried(Pop(s))
  BY <1>1, <1>2 DEF Carried
<1>4. Len(Pop(s)) > 0
  BY <1>1, <1>2
<1> QED
  BY <1>3, <1>4, StepCarries

\* No library: nothing is recorded.
LEMMA NothingIsRecorded == Recorded(NoLibrary.needs) /\ FreshRegistry(Nothing)
<1>1. DOMAIN Nothing = {} /\ NoLibrary.needs = Nothing
  BY DEF Nothing, NoLibrary
<1> QED
  BY <1>1 DEF Recorded, FreshRegistry

-----------------------------------------------------------------------------
(* The steps of a process, again. *)

\* A process ends; it may have written a library.
LEMMA ForgetRefreshes ==
  ASSUME LoadingInv, FreshInv, NEW p \in Processes, Forget(p), StoresOK'
  PROVE  FreshInv'
<1>1. OnlyMoves(p) /\ frames'[p] = <<>> /\ registered'[p] = Nothing
  BY DEF Forget, OnlyMoves, LoadingInv
<1>2. Carried(<<>>)
  BY DEF Carried
<1> QED
  BY <1>1, <1>2, NothingIsRecorded, OneRefreshes

\* A session is over, or its process is killed.
LEMMA EndRefreshes ==
  ASSUME LoadingInv, FreshInv, NEW p \in Processes, Fail(p) \/ Link(p) \/ Die(p)
  PROVE  FreshInv'
<1>1. Forget(p) /\ libraries' = libraries
  BY DEF Fail, Link, Die, stores
<1> QED
  BY <1>1, StoresStay, ForgetRefreshes DEF FreshInv

\* A library is published: its record has the fingerprints and the texts of the session.
LEMMA PublishRefreshes ==
  ASSUME LoadingInv, ClosureInv, FreshInv, NEW p \in Processes, PublishLibrary(p)
  PROVE  FreshInv'
<1> DEFINE l == [text |-> Here(p).text, needs |-> Needs(p), object |-> job[p].object]
<1>1. Forget(p) /\ libraries' = [libraries EXCEPT ![job[p].file] = l]
  BY DEF PublishLibrary
<1>2. l.needs = Needs(p)
  OBVIOUS
<1>3. Recorded(Needs(p))
  <2> SUFFICES ASSUME NEW name \in DOMAIN Needs(p), Needs(p)[name].fingerprint # Placeholder
               PROVE  /\ Needs(p)[name].text \in Texts
                      /\ \E f \in Files : /\ f.name = name
                           /\ Needs(p)[name].fingerprint = Interface[f][Needs(p)[name].text]
    BY DEF Recorded
  <2>1. name \in DOMAIN registered[p]
    BY DEF Needs
  <2>2. Needs(p)[name] = [fingerprint |-> registered[p][name].fingerprint, text |-> registered[p][name].text]
    BY DEF Needs
  <2>3. /\ Needs(p)[name].fingerprint = registered[p][name].fingerprint
        /\ Needs(p)[name].text = registered[p][name].text
    BY <2>2
  <2>4. EntryOK(name, registered[p][name])
    BY <2>1 DEF FreshInv, FreshRegistry
  <2> QED
    BY <2>3, <2>4 DEF EntryOK
<1> HIDE DEF l
<1>4. StoresOK'
  <2> SUFFICES ASSUME NEW f \in Files, libraries'[f] # Absent
               PROVE  Recorded(libraries'[f].needs)
    BY DEF StoresOK
  <2>1. DOMAIN libraries = Files
    BY DEF ClosureInv, FilesOK
  <2>2. CASE f = job[p].file
    BY <1>1, <1>2, <1>3, <2>1, <2>2
  <2>3. CASE f # job[p].file
    BY <1>1, <2>1, <2>3 DEF FreshInv, StoresOK
  <2> QED
    BY <2>2, <2>3
<1> QED
  BY <1>1, <1>4, ForgetRefreshes

\* A session starts with no library.
LEMMA StartRefreshes ==
  ASSUME LoadingInv, FreshInv, NEW p \in Processes, Start(p)
  PROVE  FreshInv'
<1>1. PICK f : frames'[p] = <<f>> /\ f.library = NoLibrary
  BY DEF Start, Frame, LoadingInv
<1>2. OnlyMoves(p) /\ registered' = registered /\ libraries' = libraries
  BY DEF Start, stores, OnlyMoves, LoadingInv
<1>3. Len(<<f>>) = 1 /\ <<f>>[1] = f
  OBVIOUS
<1>4. Carried(<<f>>)
  BY <1>1, <1>3, NothingIsRecorded DEF Carried
<1> QED
  BY <1>1, <1>2, <1>4, StoresStay, OneRefreshes DEF FreshInv

\* The contracts are loaded, or a library is accepted: the frame on top goes on to its imports.
LEMMA AcceptRefreshes ==
  ASSUME LoadingInv, ClosureInv, FreshInv, NEW p \in Processes, EndBootstrap(p) \/ AcceptLibrary(p)
  PROVE  FreshInv'
<1> DEFINE s == frames[p]
<1> DEFINE todo == Imports[Here(p).file][Here(p).text]
<1> DEFINE t == [s EXCEPT ![Len(s)].step = "imports", ![Len(s)].todo = todo]
<1>1. phase[p] # "idle"
  BY DEF EndBootstrap, AcceptLibrary, At
<1>2. Stack(s) /\ Len(s) \in Nat /\ Len(s) > 0 /\ Here(p) = s[Len(s)]
  BY <1>1, Running
<1>3. OnlyMoves(p) /\ frames'[p] = t /\ registered' = registered /\ libraries' = libraries
  <2>1. CASE EndBootstrap(p)
    <3>1. Matches(s, loading[p]) /\ s[Len(s)].step = "bootstrap"
      BY <1>2, <2>1 DEF EndBootstrap, At, LoadingInv, SessionInv
    <3>2. StepsTo(s, [s EXCEPT ![Len(s)].step = "imports"], "imports")
      BY <1>2, TopSteps
    <3>3. Len(s) = 1
      <4> HIDE DEF s
      <4> QED
        BY <1>2, <3>1, <3>2, BootMatches
    <3> QED
      BY <2>1, <3>3 DEF EndBootstrap, stores, OnlyMoves, LoadingInv
  <2>2. CASE AcceptLibrary(p)
    BY <2>2 DEF AcceptLibrary, Depth, stores, OnlyMoves, LoadingInv
  <2> QED
    BY <2>1, <2>2
<1>4. Carried(s) /\ FreshRegistry(registered[p])
  BY DEF FreshInv
<1> HIDE DEF todo, s
<1>5. Carried(t)
  BY <1>2, <1>4, StepCarries
<1> HIDE DEF t
<1> QED
  BY <1>3, <1>4, <1>5, StoresStay, OneRefreshes DEF FreshInv

\* An import that is known, that is missing, or that closes a cycle.
LEMMA TriedRefreshes ==
  ASSUME LoadingInv, ClosureInv, FreshInv, NEW p \in Processes,
         ImportKnown(p) \/ ImportCycle(p) \/ ImportMissing(p)
  PROVE  FreshInv'
<1> DEFINE s == frames[p]
<1>1. phase[p] # "idle"
  BY DEF ImportKnown, ImportCycle, ImportMissing, Importing, At
<1>2. Stack(s) /\ Len(s) > 0
  BY <1>1, Running
<1>3. /\ OnlyMoves(p) /\ frames'[p] \in {Done(s), Blame(Done(s))}
      /\ registered' = registered /\ libraries' = libraries
  BY DEF ImportKnown, ImportCycle, ImportMissing, stores, OnlyMoves, LoadingInv
<1>4. Carried(s) /\ FreshRegistry(registered[p])
  BY DEF FreshInv
<1>5. Stack(Done(s)) /\ Len(Done(s)) = Len(s)
  <2>1. Matches(s, loading[p]) /\ SameFrames(s, Done(s))
    BY <1>2, DoneSame DEF LoadingInv, SessionInv
  <2>2. Matches(Done(s), loading[p])
    BY <2>1, SameMatches
  <2> QED
    BY <2>1, <2>2 DEF Matches, SameFrames
<1> HIDE DEF s
<1>6. Carried(Done(s))
  BY <1>2, <1>4, StepCarries
<1>7. Carried(Blame(Done(s)))
  BY <1>2, <1>5, <1>6, StepCarries
<1> QED
  BY <1>3, <1>4, <1>6, <1>7, StoresStay, OneRefreshes DEF FreshInv

\* A call is made: its frame has the library that was found, or none.
LEMMA CallRefreshes ==
  ASSUME LoadingInv, ClosureInv, FreshInv, NEW p \in Processes, ImportSource(p) \/ ImportLibrary(p)
  PROVE  FreshInv'
<1> DEFINE s == frames[p]
<1>1. Importing(p) /\ Found(p) # Absent
  BY DEF ImportSource, ImportLibrary, Fresh
<1>2. phase[p] = "loading" /\ Import(p) \in Requests /\ Here(p).file \in Files
  BY <1>1, ImportingFacts
<1>3. Stack(s) /\ Len(s) > 0
  BY <1>2, Running
<1>4. Found(p) \in Files
  BY <1>1, <1>2, LookupFile DEF Found
<1>5. OnlyMoves(p) /\ registered' = registered /\ libraries' = libraries
  BY DEF ImportSource, ImportLibrary, stores, OnlyMoves, LoadingInv
<1>6. PICK f : frames'[p] = Append(Done(s), f) /\ Recorded(f.library.needs)
  <2>1. CASE ImportSource(p)
    <3> DEFINE f == Frame(Found(p), Import(p).kind, sources[Found(p)], NoLibrary,
                          Imports[Found(p)][sources[Found(p)]], "imports")
    <3>1. frames'[p] = Append(Done(s), f)
      BY <2>1 DEF ImportSource, LoadingInv
    <3>2. f.library = NoLibrary
      BY DEF Frame
    <3> HIDE DEF f
    <3> QED
      BY <3>1, <3>2, NothingIsRecorded
  <2>2. CASE ImportLibrary(p)
    <3> DEFINE l == libraries[Found(p)]
    <3> DEFINE f == Frame(Found(p), Import(p).kind, l.text, l, <<>>, "validate")
    <3>1. frames'[p] = Append(Done(s), f)
      BY <2>2 DEF ImportLibrary, LoadingInv
    <3>2. f.library = l
      BY DEF Frame
    <3>3. Recorded(l.needs)
      BY <1>4, <2>2 DEF ImportLibrary, FreshInv, StoresOK
    <3> HIDE DEF f, l
    <3> QED
      BY <3>1, <3>2, <3>3
  <2> QED
    BY <2>1, <2>2
<1>7. Carried(s) /\ FreshRegistry(registered[p])
  BY DEF FreshInv
<1> HIDE DEF s
<1>8. IsList(Done(s)) /\ Carried(Done(s))
  BY <1>3, <1>7, DoneSame, StepCarries DEF SameFrames
<1>9. Carried(Append(Done(s), f))
  BY <1>6, <1>8, PushCarries
<1> QED
  BY <1>5, <1>6, <1>7, <1>9, StoresStay, OneRefreshes DEF FreshInv

\* A call returns and registers nothing.
LEMMA ReturnRefreshes ==
  ASSUME LoadingInv, ClosureInv, FreshInv, NEW p \in Processes,
         RejectLibrary(p) \/ Refuse(p) \/ AnalysisFails(p) \/ FillSidecar(p)
  PROVE  FreshInv'
<1> DEFINE s == frames[p]
<1>1. /\ phase[p] # "idle" /\ OnlyMoves(p) /\ frames'[p] \in {Pop(s), Blame(Pop(s))}
      /\ registered' = registered /\ libraries' = libraries
  BY DEF RejectLibrary, Refuse, AnalysisFails, FillSidecar, ReturnError, ReturnLoaded, Imported, At,
         stores, OnlyMoves, LoadingInv
<1>2. Stack(s) /\ Len(s) \in Nat /\ Len(s) > 0
  BY <1>1, Running
<1>3. Len(s) > 1 /\ Stack(Pop(s))
  <2>1. CASE Imported(p)
    BY <2>1, ImportedFacts DEF Matches
  <2>2. CASE At(p, "validate") \/ At(p, "fill")
    <3>1. s[Len(s)].step \in {"validate", "fill"} /\ Matches(s, loading[p])
      BY <2>2 DEF At, Here, Depth, LoadingInv, SessionInv
    <3> HIDE DEF s
    <3>2. Len(s) > 1
      BY <1>2, <3>1 DEF Stack
    <3>3. Matches(Pop(s), loading[p])
      BY <3>1, <3>2, ReturnMatches
    <3> QED
      BY <3>2, <3>3 DEF Matches
  <2> QED
    BY <2>1, <2>2 DEF RejectLibrary, Refuse, AnalysisFails, FillSidecar
<1>4. Carried(s) /\ FreshRegistry(registered[p])
  BY DEF FreshInv
<1> HIDE DEF s
<1>5. Carried(Pop(s)) /\ Carried(Blame(Pop(s)))
  BY <1>2, <1>3, <1>4, PopCarries
<1> QED
  BY <1>1, <1>4, <1>5, StoresStay, OneRefreshes DEF FreshInv

\* An object file is written or read: the stack has the libraries it had.
LEMMA WriteRefreshes ==
  ASSUME LoadingInv, ClosureInv, FreshInv, NEW p \in Processes,
         CreateSidecar(p) \/ EmitObject(p) \/ ReadObject(p)
  PROVE  FreshInv'
<1> DEFINE s == frames[p]
<1> DEFINE t == [s EXCEPT ![Len(s)].step = "fill"]
<1>1. /\ OnlyMoves(p) /\ registered' = registered /\ libraries' = libraries
      /\ (frames'[p] = t /\ phase[p] # "idle") \/ frames'[p] = s
  BY DEF CreateSidecar, EmitObject, ReadObject, At, Depth, stores, session, OnlyMoves, LoadingInv
<1>2. Carried(s) /\ FreshRegistry(registered[p])
  BY DEF FreshInv
<1>3. ASSUME phase[p] # "idle"
      PROVE  Carried(t)
  <2>1. Stack(s) /\ Len(s) > 0
    BY <1>3, Running
  <2> HIDE DEF s
  <2> QED
    BY <1>2, <2>1, StepCarries
<1> HIDE DEF s, t
<1> QED
  BY <1>1, <1>2, <1>3, StoresStay, OneRefreshes DEF FreshInv

\* An entry that is added to a registry: those that were there keep what is behind them, and the new
\* one has all that was there.
LEMMA EntryAdds ==
  ASSUME NEW r, FreshRegistry(r), ClosedUnder(r), NEW name, name \notin DOMAIN r,
         NEW q, DOMAIN q = DOMAIN r \cup {name}, \A n \in DOMAIN r : q[n] = r[n],
         EntryOK(name, q[name]), ImportedNames(q[name].file, q[name].text) \subseteq DOMAIN r,
         \A n \in DOMAIN q[name].needs \cap DOMAIN r : q[name].needs[n].fingerprint = r[n].fingerprint
  PROVE  FreshRegistry(q)
<1>1. ASSUME NEW n \in DOMAIN r
      PROVE  /\ EntryOK(n, q[n])
             /\ \E closed \in SUBSET DOMAIN q : Holds(closed, q[n], q) /\ Agrees(closed, q[n], q)
  <2>1. q[n] = r[n] /\ EntryOK(n, r[n])
    BY <1>1 DEF FreshRegistry
  <2>2. PICK closed \in SUBSET DOMAIN r : Holds(closed, r[n], r) /\ Agrees(closed, r[n], r)
    BY <1>1 DEF FreshRegistry
  <2>3. \A m \in closed : q[m] = r[m]
    OBVIOUS
  <2>4. Holds(closed, q[n], q)
    BY <2>1, <2>2, <2>3 DEF Holds
  <2>5. Agrees(closed, q[n], q)
    BY <2>1, <2>2, <2>3 DEF Agrees
  <2> QED
    BY <2>1, <2>4, <2>5
<1>2. DOMAIN r \in SUBSET DOMAIN q
  OBVIOUS
<1>3. Holds(DOMAIN r, q[name], q)
  BY DEF Holds, ClosedUnder
<1>4. Agrees(DOMAIN r, q[name], q)
  BY DEF Agrees
<1> QED
  BY <1>1, <1>2, <1>3, <1>4 DEF FreshRegistry

\* A provider is registered: its record agrees with all that is registered, and all that it imports is.
LEMMA RegisterRefreshes ==
  ASSUME LoadingInv, ClosureInv, FreshInv, NEW p \in Processes, Register(p)
  PROVE  FreshInv'
<1> DEFINE s == frames[p]
<1> DEFINE r == registered[p]
<1> DEFINE q == registered'[p]
<1> DEFINE f == Here(p)
<1> DEFINE name == f.file.name
<1> DEFINE t == [s EXCEPT ![Len(s)].step = "extract"]
<1>1. /\ Imported(p) /\ ~f.failed /\ f.todo = <<>> /\ libraries' = libraries
      /\ OnlyMoves(p) /\ frames'[p] \in {Pop(s), t}
  BY DEF Register, Imported, ReturnLoaded, Depth, stores, OnlyMoves, LoadingInv
<1>2. /\ Stack(s) /\ Len(s) > 1 /\ Stack(Pop(s)) /\ phase[p] = "loading"
      /\ s[Len(s)].step = "imports"
  BY <1>1, ImportedFacts DEF Matches
<1>3. /\ Len(s) \in Nat /\ Len(s) > 0 /\ ClosedSession(phase[p], s, r, local[p])
      /\ f = s[Len(s)] /\ FrameOK(f) /\ ClosedUnder(r)
  BY <1>2, Running
<1>4. Carried(s) /\ FreshRegistry(r)
  BY DEF FreshInv
<1>5. name \notin DOMAIN r
  <2> DEFINE l == loading[p]
  <2>1. l[Len(l)] = name /\ Len(l) > 0
    BY <1>1, ImportedFacts
  <2>2. IsList(l) /\ Apart(s, l, r)
    BY DEF LoadingInv, SessionInv, Matches
  <2> HIDE DEF l, s, r, name
  <2> QED
    BY <2>1, <2>2 DEF Apart, IsList
<1>6. /\ DOMAIN q = DOMAIN r \cup {name} /\ q[name] = Entry(f)
      /\ \A n \in DOMAIN r : q[n] = r[n]
  BY <1>5, RegisterAdds
<1>7. /\ Entry(f).file = f.file /\ Entry(f).text = f.text /\ Entry(f).needs = f.library.needs
      /\ Entry(f).fingerprint \in {Placeholder, Interface[f.file][f.text]}
  BY DEF Entry
<1>8. Recorded(f.library.needs)
  <2> HIDE DEF s
  <2> QED
    BY <1>3, <1>4 DEF Carried
<1>9. ImportedNames(f.file, f.text) \subseteq DOMAIN r
  <2>1. Len(s) \in 2 .. Len(s)
    <3> HIDE DEF s
    <3> QED
      BY <1>2, <1>3
  <2>2. Waits(s, Len(s), r)
    BY <1>3, <2>1 DEF ClosedSession
  <2>3. Called(s, Len(s)) = {} /\ Pending(s[Len(s)]) = {}
    BY <1>1, <1>3 DEF Called, Pending
  <2> HIDE DEF s
  <2> QED
    BY <1>1, <1>2, <1>3, <2>2, <2>3 DEF Waits
<1>10. \A n \in DOMAIN f.library.needs \cap DOMAIN r : f.library.needs[n].fingerprint = r[n].fingerprint
  BY DEF Register, Valid, ValidLibrary
<1> HIDE DEF r, q, f
<1>11. EntryOK(name, q[name])
  BY <1>3, <1>6, <1>7, <1>8 DEF EntryOK, FrameOK
<1>12. FreshRegistry(q)
  <2>1. ImportedNames(q[name].file, q[name].text) \subseteq DOMAIN r
    BY <1>6, <1>7, <1>9
  <2>2. \A n \in DOMAIN q[name].needs \cap DOMAIN r : q[name].needs[n].fingerprint = r[n].fingerprint
    BY <1>6, <1>7, <1>10
  <2>3. DOMAIN q = DOMAIN r \cup {name} /\ \A n \in DOMAIN r : q[n] = r[n]
    BY <1>6
  <2> HIDE DEF name
  <2> QED
    BY <1>3, <1>4, <1>5, <1>11, <2>1, <2>2, <2>3, EntryAdds
<1> HIDE DEF s
<1>13. Carried(Pop(s)) /\ Carried(t)
  BY <1>2, <1>3, <1>4, PopCarries, StepCarries
<1> HIDE DEF t
<1> QED
  BY <1>1, <1>12, <1>13, StoresStay, OneRefreshes DEF FreshInv, q

-----------------------------------------------------------------------------
(* The invariant and the theorem. *)

\* The invariant holds at the start.
LEMMA FreshInit == LoadingInit => FreshInv
<1> SUFFICES ASSUME LoadingInit PROVE FreshInv
  OBVIOUS
<1>1. StoresOK
  BY LoadingAssumption DEF LoadingInit, StoresOK
<1>2. Carried(<<>>)
  BY DEF Carried
<1> QED
  BY <1>1, <1>2, NothingIsRecorded DEF LoadingInit, FreshInv

\* The invariant is inductive, given that the loading stack is exact and the registry closed.
LEMMA FreshNext == LoadingInv /\ ClosureInv /\ FreshInv /\ [LoadingNext]_loadingVars => FreshInv'
<1> SUFFICES ASSUME LoadingInv, ClosureInv, FreshInv, [LoadingNext]_loadingVars
             PROVE  FreshInv'
  OBVIOUS
<1>1. CASE UNCHANGED loadingVars
  BY <1>1 DEF loadingVars, stores, session, FreshInv, StoresOK
<1>2. CASE Edit
  BY <1>2 DEF Edit, session, FreshInv, StoresOK
<1>3. ASSUME NEW p \in Processes, Start(p) \/ Die(p)
      PROVE  FreshInv'
  BY <1>3, StartRefreshes, EndRefreshes
<1>4. ASSUME NEW p \in Processes, Work(p)
      PROVE  FreshInv'
  <2>1. CASE EndBootstrap(p) \/ AcceptLibrary(p)
    BY <2>1, AcceptRefreshes
  <2>2. CASE ImportKnown(p) \/ ImportCycle(p) \/ ImportMissing(p)
    BY <2>2, TriedRefreshes
  <2>3. CASE ImportSource(p) \/ ImportLibrary(p)
    BY <2>3, CallRefreshes
  <2>4. CASE RejectLibrary(p) \/ Refuse(p) \/ AnalysisFails(p) \/ FillSidecar(p)
    BY <2>4, ReturnRefreshes
  <2>5. CASE Register(p)
    BY <2>5, RegisterRefreshes
  <2>6. CASE CreateSidecar(p) \/ EmitObject(p) \/ ReadObject(p)
    BY <2>6, WriteRefreshes
  <2>7. CASE PublishLibrary(p)
    BY <2>7, PublishRefreshes
  <2>8. CASE Fail(p) \/ Link(p)
    BY <2>8, EndRefreshes
  <2> QED
    BY <1>4, <2>1, <2>2, <2>3, <2>4, <2>5, <2>6, <2>7, <2>8 DEF Work
<1> QED
  BY <1>1, <1>2, <1>3, <1>4 DEF LoadingNext

\* What is behind a library agrees with its record.
LEMMA FreshImplies == FreshInv => ClosureIsFresh
<1> SUFFICES ASSUME FreshInv, NEW p \in Processes, NEW name \in DOMAIN registered[p],
                    NEW other \in Behind(p, name) \cap DOMAIN registered[p][name].needs,
                    registered[p][name].needs[other].fingerprint # Placeholder
             PROVE  SameInterface(p, other, registered[p][name].needs[other])
  BY DEF ClosureIsFresh
<1> DEFINE r == registered[p]
<1> DEFINE need == r[name].needs[other]
<1>1. FreshRegistry(r)
  BY DEF FreshInv
<1>2. PICK closed \in SUBSET DOMAIN r : Holds(closed, r[name], r) /\ Agrees(closed, r[name], r)
  BY <1>1 DEF FreshRegistry
<1>3. other \in closed /\ other \in DOMAIN r
  BY <1>2 DEF Behind, Holds
<1>4. need.fingerprint = r[other].fingerprint
  BY <1>2, <1>3 DEF Agrees
<1>5. EntryOK(other, r[other]) /\ EntryOK(name, r[name])
  BY <1>1, <1>3 DEF FreshRegistry
<1>6. need.fingerprint = Interface[r[other].file][r[other].text]
  BY <1>4, <1>5 DEF EntryOK
<1>7. PICK f \in Files : f.name = other /\ need.fingerprint = Interface[f][need.text] /\ need.text \in Texts
  BY <1>5 DEF EntryOK, Recorded
<1>8. Interface[f][need.text] = Interface[r[other].file][need.text]
  BY <1>5, <1>7, InterfaceAssumption DEF EntryOK
<1> QED
  BY <1>6, <1>7, <1>8 DEF SameInterface

\* A library is used only with the interfaces it was made with, of every provider it imports, directly
\* or through any number of others, unless the record of it is a placeholder: whatever is edited,
\* published or killed between the two checks of a library, and in whatever order its imports load.
THEOREM ClosureIsAlwaysFresh == LoadingSpec => []ClosureIsFresh
<1>1. LoadingSpec => []ClosureInv
  BY LoadingAlways, ClosureInit, ClosureNext, PTL DEF LoadingSpec
<1>2. LoadingSpec => []FreshInv
  BY <1>1, LoadingAlways, FreshInit, FreshNext, PTL DEF LoadingSpec
<1> QED
  BY <1>2, FreshImplies, PTL
=============================================================================
