---------------------------- MODULE MCQueryEngine ----------------------------
(* Instances of QueryEngine for TLC. *)
EXTENDS QueryEngine, TLC

CONSTANTS c1   \* the conversation all queries are about

MCConvOf == [q \in Queries |-> c1]

Symmetry == Permutations(Queries)
=============================================================================
