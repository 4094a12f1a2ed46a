----------------------------- MODULE MCPipeline -----------------------------
(* Instances of Pipeline for TLC. *)
EXTENDS Pipeline, TLC

CONSTANTS d1, m1   \* the document all requests are about; the only domain

MCDocOf == [x \in Docs \cup Reprocs \cup Deletes |-> IF x \in Docs THEN x ELSE d1]
MCDomainOf == [d \in Docs |-> m1]

\* Worker processes are told apart by name only.
Symmetry == Permutations(Workers)
=============================================================================
