------------------------------- MODULE Lines --------------------------------
(***************************************************************************)
(* What the waiting lines of the loop's primitives need beyond Sequences.   *)
(* The operator is SequencesExt's; it is stated here so that the proofs     *)
(* about the lines carry this one definition and not that whole module.     *)
(***************************************************************************)
EXTENDS Naturals, Sequences

\* The sequence s without its i-th element.
RemoveAt(s, i) == SubSeq(s, 1, i - 1) \o SubSeq(s, i + 1, Len(s))
=============================================================================
