-------------------------------- MODULE Lists --------------------------------
(***************************************************************************)
(* What the layout and the tab manager share: dropping elements of a list. *)
(***************************************************************************)
EXTENDS Sequences, SequencesExt

\* Vec::retain, Iterator::filter: the elements that are in K, in their order.
Retain(s, K) == FoldLeft(LAMBDA kept, x : IF x \in K THEN Append(kept, x) ELSE kept, <<>>, s)
=============================================================================
