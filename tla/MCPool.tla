------------------------------- MODULE MCPool -------------------------------
(* Small instances of the pool for TLC. *)
EXTENDS Pool, TLC

Symmetry ==
  Permutations(Clients) \cup Permutations(ResetConns) \cup Permutations(Conns \ ResetConns)

=============================================================================
