----------------------------- MODULE MCRetrieval -----------------------------
(* Instances of Retrieval for TLC. *)
EXTENDS Retrieval, TLC

CONSTANTS c1, c2, c3, c4, c5, docA, docB, docX, m1, m2, mX

\* Two documents of the caller in two domains, one of somebody else; the first
\* has a chunk for a second indexing run.
MCDocOf    == c1 :> docA @@ c2 :> docA @@ c3 :> docA @@ c4 :> docB @@ c5 :> docX
MCDomainOf == docA :> m1 @@ docB :> m2 @@ docX :> mX
MCOwnerOf  == m1 :> "caller" @@ m2 :> "caller" @@ mX :> "other"
MCTokens   == c1 :> 1 @@ c2 :> 2 @@ c3 :> 1 @@ c4 :> 3 @@ c5 :> 1

\* Strict orders of the caller's chunks, ties, and chunks below the threshold;
\* the chunk of somebody else is always the best.
Similar(a, b, c, d) == c1 :> a @@ c2 :> b @@ c3 :> c @@ c4 :> d @@ c5 :> 5
MCQueries == {Similar(4, 1, 2, 3), Similar(2, 2, 2, 3), Similar(3, 2, 0, 2)}
=============================================================================
