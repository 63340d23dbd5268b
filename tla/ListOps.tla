------------------------------- MODULE ListOps -------------------------------
(***************************************************************************)
(* Array.prototype.filter, as the reference profile uses it, in a form     *)
(* that can be proved about: the elements at the positions kept.           *)
(***************************************************************************)
EXTENDS Naturals, Sequences, FiniteSets, SequencesExt, FiniteSetsExt

(* The elements of seq at the positions kept, in the order they had.        *)
filtered(seq, kept) ==
  LET upTo[n \in 0..Len(seq)] ==
        IF n = 0 THEN <<>>
        ELSE IF n \in kept THEN Append(upTo[n - 1], seq[n]) ELSE upTo[n - 1]
  IN upTo[Len(seq)]
=============================================================================
