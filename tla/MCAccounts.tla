----------------------------- MODULE MCAccounts -----------------------------
(* Instances of Accounts for TLC. *)
EXTENDS Accounts, TLC

Symmetry == Permutations(Clients) \cup Permutations(Requests)
              \cup Permutations(Tokens)
=============================================================================
