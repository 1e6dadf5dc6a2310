--------------------------- MODULE SequenceFilter ---------------------------
(***************************************************************************)
(* The elements of a sequence that are in a set, in their order, as the    *)
(* arrays and queues of lib are filtered.  SelectSeq would say the same,   *)
(* but the prover has no definition for it; SequenceLemmas proves what is  *)
(* needed of this one.                                                     *)
(***************************************************************************)
EXTENDS Integers, Sequences

\* What is kept of the first n elements of s, for each n.
KeptOfFirst(s, T) ==
  LET F[n \in 0..Len(s)] ==
        IF n = 0 THEN <<>> ELSE IF s[n] \in T THEN Append(F[n - 1], s[n]) ELSE F[n - 1]
  IN F

Filter(s, T) == KeptOfFirst(s, T)[Len(s)]
=============================================================================
