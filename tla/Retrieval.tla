------------------------------ MODULE Retrieval ------------------------------
(***************************************************************************)
(* What a question is answered from: search (app/retrieval/service.py),    *)
(* assemble_context and extract_citations (app/query_engine/context.py),   *)
(* as handle_query calls them, and the search endpoint.                    *)
(*                                                                         *)
(* One request; requests only read.  Other requests and workers change     *)
(* what is stored whenever it awaits: between the check of the domain and  *)
(* the SELECT there is a call to OpenAI.                                   *)
(***************************************************************************)
EXTENDS Naturals, Sequences, FiniteSets, Functions

CONSTANTS
    Chunks,     \* rows of document_chunks, each the work of one indexing run
    DocOf,      \* document_chunks.document_id
    DomainOf,   \* documents.domain_id
    OwnerOf,    \* knowledge_domains.owner_id
    Caller,
    Tokens,     \* count_tokens of a chunk's text
    Queries,    \* what can be asked: the similarity of each chunk to it
    Threshold,  \* MIN_SIMILARITY_SCORE
    TopK,       \* top_k of the body; MAX_CHUNKS_PER_QUERY
    Budget,     \* CONTEXT_TOKEN_BUDGET
    None        \* no domain

Docs      == Range(DocOf)
DomainIds == Range(DomainOf)

ASSUME RetrievalAssumption ==
    /\ DOMAIN DocOf = Chunks /\ IsFiniteSet(Chunks)
    /\ DOMAIN DomainOf = Docs
    /\ DOMAIN OwnerOf = DomainIds
    /\ Tokens \in [Chunks -> 0..Budget]   \* a chunk has 512 at most, the budget is 6000
    /\ Queries \subseteq [Chunks -> Nat] /\ Threshold \in Nat
    /\ TopK \in Nat /\ Budget \in Nat
    /\ None \notin DomainIds

VARIABLES
    chunk,      \* a row of document_chunks: "none" before its INSERT, "dropped" after its DELETE
    deleted,    \* documents.deleted_at IS NOT NULL
    domains,    \* knowledge_domains
    step,       \* where the request is
    asked,      \* the domain_id it passes to search
    score,      \* similarity of each chunk to its query
    found,      \* what search returned
    pos,        \* turns of the loop of assemble_context
    selected, token_count,
    citations,
    lost        \* ghost: chunks nobody could reach any more when the request came

tables  == <<chunk, deleted, domains>>
packing == <<pos, selected, token_count>>
vars    == <<tables, step, asked, score, found, packing, citations, lost>>

Steps == {"idle", "embed", "select", "pack", "stream", "done", "ended"}
InDomain(c) == DomainOf[DocOf[c]]
ChunksOf(d) == {c \in Chunks : DocOf[c] = d}

Init ==
    /\ chunk = [c \in Chunks |-> "none"]
    /\ deleted = {}
    /\ domains = DomainIds
    /\ step = "idle"
    /\ asked = None
    /\ score = [c \in Chunks |-> 0]
    /\ found = <<>>
    /\ pos = 0 /\ selected = <<>> /\ token_count = 0
    /\ citations = <<>>
    /\ lost = {}

-----------------------------------------------------------------------------
(* What changes in the meantime *)

\* A run of the pipeline commits: its rows replace those of the document, which
\* may have been deleted while it ran.
Index(d) ==
    /\ DomainOf[d] \in domains
    /\ \E new \in SUBSET {c \in ChunksOf(d) : chunk[c] = "none"} :
          /\ new # {}
          /\ chunk' = [c \in Chunks |->
                          IF c \in new THEN "row"
                          ELSE IF c \in ChunksOf(d) /\ chunk[c] = "row" THEN "dropped"
                          ELSE chunk[c]]
    /\ UNCHANGED <<deleted, domains, step, asked, score, found, packing, citations, lost>>

\* soft_delete_document.
SoftDelete(d) ==
    /\ d \in Docs \ deleted
    /\ deleted' = deleted \cup {d}
    /\ UNCHANGED <<chunk, domains, step, asked, score, found, packing, citations, lost>>

\* delete_domain: documents and chunks go with the row.
DeleteDomain(m) ==
    /\ m \in domains
    /\ domains' = domains \ {m}
    /\ deleted' = deleted \cup {d \in Docs : DomainOf[d] = m}
    /\ chunk' = [c \in Chunks |->
                    IF InDomain(c) = m /\ chunk[c] = "row" THEN "dropped" ELSE chunk[c]]
    /\ UNCHANGED <<step, asked, score, found, packing, citations, lost>>

-----------------------------------------------------------------------------
(* search *)

Owned(m) == m \in domains /\ OwnerOf[m] = Caller

Unreachable ==
    {c \in Chunks : chunk[c] = "dropped" \/ DocOf[c] \in deleted \/ ~Owned(InDomain(c))}

\* The request comes in with a domain_id, of the body or of the conversation, and
\* search checks it; a NotFoundError ends the request.
Ask(m) ==
    /\ step = "idle"
    /\ asked' = m
    /\ lost' = Unreachable
    /\ step' = IF m = None \/ Owned(m) THEN "embed" ELSE "ended"
    /\ UNCHANGED <<tables, score, found, packing, citations>>

\* async_embed_text answers: the scores of this query.
Embed ==
    /\ step = "embed"
    /\ score' \in Queries
    /\ step' = "select"
    /\ UNCHANGED <<tables, asked, found, packing, citations, lost>>

\* Or fails: a ServiceUnavailableError.
EmbedFails ==
    /\ step = "embed"
    /\ step' = "ended"
    /\ UNCHANGED <<tables, asked, score, found, packing, citations, lost>>

\* kd.owner_id = :user_id
OwnerMatches(c) == OwnerOf[InDomain(c)] = Caller

\* Mutant: no d.deleted_at IS NULL.
UndeletedAlways(c) == TRUE

\* d.deleted_at IS NULL
Undeleted(c) == DocOf[c] \notin deleted

\* kd.id = :domain_id, when there is one
InScope(c) == asked # None => InDomain(c) = asked

\* The WHERE clause.
Qualifying ==
    {c \in Chunks : /\ chunk[c] = "row" /\ InDomain(c) \in domains
                    /\ OwnerMatches(c) /\ Undeleted(c) /\ InScope(c)
                    /\ score[c] >= Threshold}

\* ORDER BY, ties in any order.
Rankings(S) ==
    {s \in [1..Cardinality(S) -> S] :
        /\ Range(s) = S
        /\ \A i, j \in DOMAIN s : i < j => score[s[i]] >= score[s[j]]}

\* Mutant: one more, as a paging query would ask for.
LimitMore(S) == Cardinality(S) <= TopK + 1

\* LIMIT :top_k
Limit(S) == Cardinality(S) <= TopK

\* One statement, one snapshot.  The HNSW index is approximate and its candidates
\* are filtered afterwards: any of the qualifying rows may be left out.
Select ==
    /\ step = "select"
    /\ \E S \in SUBSET Qualifying : Limit(S) /\ found' \in Rankings(S)
    /\ step' \in {"pack", "ended"}   \* handle_query, or the search endpoint
    /\ UNCHANGED <<tables, asked, score, packing, citations, lost>>

-----------------------------------------------------------------------------
(* assemble_context: one turn of the loop, or its end *)

Fits(c) == token_count + Tokens[c] <= Budget

\* Mutant: continue.
AfterOverflowContinue == "pack"

\* break
AfterOverflow == "stream"

Take ==
    /\ step = "pack" /\ pos < Len(found)
    /\ Fits(found[pos + 1])
    /\ selected' = Append(selected, found[pos + 1])
    /\ token_count' = token_count + Tokens[found[pos + 1]]
    /\ pos' = pos + 1
    /\ UNCHANGED <<tables, step, asked, score, found, citations, lost>>

Overflow ==
    /\ step = "pack" /\ pos < Len(found)
    /\ ~Fits(found[pos + 1])
    /\ step' = AfterOverflow
    /\ pos' = pos + 1
    /\ UNCHANGED <<tables, asked, score, found, selected, token_count, citations, lost>>

\* The loop ran to its end; an empty result is answered without a context.
Packed ==
    /\ step = "pack" /\ pos = Len(found)
    /\ step' = IF found = <<>> THEN "ended" ELSE "stream"
    /\ UNCHANGED <<tables, asked, score, found, packing, citations, lost>>

\* Mutant: all results are cited.
CitedFound == found

\* selected_chunks, in the order of their [SOURCE i] labels.
Cited == selected

\* The stream is done: extract_citations.
Cite ==
    /\ step = "stream"
    /\ citations' = Cited
    /\ step' = "done"
    /\ UNCHANGED <<tables, asked, score, found, packing, lost>>

\* The stream is cancelled or fails; the client leaves before it.
Stop ==
    /\ step \in {"embed", "select", "pack", "stream"}
    /\ step' = "ended"
    /\ UNCHANGED <<tables, asked, score, found, packing, citations, lost>>

-----------------------------------------------------------------------------

Request ==
    \/ \E m \in DomainIds \cup {None} : Ask(m)
    \/ Embed \/ EmbedFails \/ Select
    \/ Take \/ Overflow \/ Packed \/ Cite \/ Stop

Next ==
    \/ Request
    \/ \E d \in Docs : Index(d) \/ SoftDelete(d)
    \/ \E m \in DomainIds : DeleteDomain(m)

Spec == Init /\ [][Next]_vars

-----------------------------------------------------------------------------
(* Properties *)

\* Each variable stays in its range; there are at most top_k results, each once
\* and similar enough, best first.
TypeOK ==
    /\ chunk \in [Chunks -> {"none", "row", "dropped"}]
    /\ deleted \subseteq Docs /\ domains \subseteq DomainIds /\ lost \subseteq Chunks
    /\ step \in Steps
    /\ asked \in DomainIds \cup {None}
    /\ score \in [Chunks -> Nat]
    /\ found \in Seq(Chunks) /\ selected \in Seq(Chunks) /\ citations \in Seq(Chunks)
    /\ pos \in 0..Len(found) /\ token_count \in Nat
    /\ Len(found) <= TopK /\ IsInjective(found)
    /\ \A i, j \in DOMAIN found : i < j => score[found[i]] >= score[found[j]]
    /\ \A c \in Range(found) : score[c] >= Threshold

\* What was removed or replaced before the domain of the request was checked, and
\* what belongs to somebody else, is not found, whatever is indexed or deleted
\* between the check and the SELECT; with a domain, nothing outside it.  What goes
\* in between is found or not as the SELECT sees it.
OnlyReachable ==
    \A c \in Range(found) : c \notin lost /\ (asked # None => InDomain(c) = asked)

Total(S) == SumFunctionOnSet(Tokens, S)
LeftOut  == Range(found) \ Range(selected)

\* "Higher-ranked chunks are always preferred": the context is within the budget, no chunk
\* left out is better than one in it, and when the model is asked the
\* best one left out would not have fitted.
BestWithinBudget ==
    /\ Total(Range(selected)) <= Budget
    /\ step \in {"stream", "done"} =>
          \A e \in LeftOut :
             /\ \A c \in Range(selected) : score[c] >= score[e]
             /\ \E b \in LeftOut : /\ score[b] >= score[e]
                                   /\ Total(Range(selected) \cup {b}) > Budget

\* "Include all chunks actually passed to LLM", and a "response must always
\* include citation references": an answer has a source, and citation i is the
\* chunk labelled [SOURCE i], the i-th best of those found.
Grounded ==
    step = "done" =>
        /\ citations # <<>>
        /\ Len(citations) = Len(selected)
        /\ \A i \in DOMAIN citations : citations[i] = selected[i] /\ selected[i] = found[i]
=============================================================================
