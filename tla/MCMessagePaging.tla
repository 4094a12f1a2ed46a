--------------------------- MODULE MCMessagePaging ---------------------------
(* Instances of MessagePaging for TLC. *)
EXTENDS MessagePaging, TLC

Symmetry == Permutations(Writers) \cup Permutations(Conversations)
=============================================================================
