------------------------------ MODULE Filters -------------------------------
(***************************************************************************)
(* The list comprehension [x for x in s if x in S] of the code around the  *)
(* engine.                                                                 *)
(***************************************************************************)
EXTENDS Naturals, Sequences, SequencesExt

(* The elements of s that are in S, in their order                         *)
Only(s, S) ==
  LET add(kept, x) == IF x \in S THEN Append(kept, x) ELSE kept
  IN  FoldLeft(add, <<>>, s)
=============================================================================
