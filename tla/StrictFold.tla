------------------------------- MODULE StrictFold -------------------------------
(***************************************************************************)
(* A left fold for folds inside actions: every intermediate result is      *)
(* evaluated once, where FoldLeft would evaluate it at each of its uses.   *)
(* The order of a hash map is some order of its keys.                      *)
(***************************************************************************)
EXTENDS Sequences, SequencesExt

TheOnly(S) == CHOOSE x \in S : TRUE

FoldStrictly(op(_, _), base, seq) ==
  LET fold[n \in 0..Len(seq)] == IF n = 0 THEN base ELSE TheOnly({op(a, seq[n]) : a \in {fold[n - 1]}})
  IN fold[Len(seq)]

InSomeOrder(S) ==
  LET order[T \in SUBSET S] == IF T = {} THEN <<>> ELSE LET x == TheOnly(T) IN <<x>> \o order[T \ {x}]
  IN order[S]
=============================================================================
