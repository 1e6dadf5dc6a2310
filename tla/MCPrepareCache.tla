--------------------------- MODULE MCPrepareCache ---------------------------
(* An instance of PrepareCache for TLC; the .cfg file gives the constants.   *)
EXTENDS PrepareCache, TLC

\* SQL texts are alike.
Symmetry == Permutations(Sqls)

\* Bound: at most one of the calls is an execute() that is not pipelined, and at most one of
\* three is a prepare(); without a cache calls share no statement, and there are two.
Of(kind) == Cardinality({c \in Calls : how[c] = kind})
FewOfAKind == Of("late") <= 1 /\ (Of("prepare") <= 1 \/ Made <= 2) /\ (cacheSize > 0 \/ Made <= 2)
=============================================================================
