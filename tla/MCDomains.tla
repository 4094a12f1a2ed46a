------------------------------ MODULE MCDomains ------------------------------
(* Instances of Domains for TLC. *)
EXTENDS Domains, TLC

CONSTANTS d1, d2, d3

\* Two domains of one user, one of another.
MCOwnerOf == d1 :> "owner" @@ d2 :> "owner" @@ d3 :> "other"
=============================================================================
