------------------------------ MODULE Chunking ------------------------------
(***************************************************************************)
(* What the stages of a run do to one document: chunk_text of              *)
(* app/processing/chunker.py cuts its tokens into overlapping windows,     *)
(* embed_texts of app/core/openai_client.py sends the chunks in batches,   *)
(* and extract_text compares the counts before the rows are written.       *)
(*                                                                         *)
(* A token is only "ink" or "space" (it decodes to whitespace); a chunk is *)
(* the half-open interval of positions it was cut from; an embedding is    *)
(* the number of the chunk it was computed from.                           *)
(***************************************************************************)
EXTENDS Naturals, Sequences

CONSTANTS
    Texts,    \* texts: sequences of paragraphs, stripped, each a sequence of
              \* tokens and empty when the paragraph is blank
    Sizes,    \* values of max_tokens and overlap
    BatchSize \* EMBEDDING_BATCH_SIZE

Tokens == {"ink", "space"}

ASSUME ChunkingAssumption ==
    /\ Texts \subseteq Seq(Seq(Tokens))
    /\ Sizes \subseteq Nat
    /\ BatchSize \in Nat \ {0}

VARIABLES
    phase,
    paragraphs,          \* those still to be encoded
    max_tokens, overlap,
    all_tokens,
    start,               \* of the next window
    chunks,              \* chunk_texts_list
    sent,                \* chunks sent to the embeddings API
    embeddings

arguments == <<max_tokens, overlap>>
vars == <<phase, paragraphs, arguments, all_tokens, start, chunks, sent, embeddings>>

Phases == {"encode", "window", "embed", "indexed", "rejected", "raised"}

Init ==
    /\ phase = "encode"
    /\ paragraphs \in Texts
    /\ max_tokens \in Sizes
    /\ overlap \in Sizes
    /\ all_tokens = <<>>
    /\ start = 0
    /\ chunks = <<>>
    /\ sent = 0
    /\ embeddings = <<>>

-----------------------------------------------------------------------------
(* chunk_text *)

\* The window would not advance.
Refuse ==
    /\ phase = "encode"
    /\ overlap >= max_tokens
    /\ phase' = "raised"
    /\ UNCHANGED <<paragraphs, arguments, all_tokens, start, chunks, sent, embeddings>>

\* The blank line between two paragraphs is one token.
Separator == IF all_tokens = <<>> THEN <<>> ELSE <<"space">>

\* One paragraph; blank ones are passed over.
Encode ==
    /\ phase = "encode"
    /\ overlap < max_tokens
    /\ paragraphs # <<>>
    /\ paragraphs' = Tail(paragraphs)
    /\ all_tokens' = IF Head(paragraphs) = <<>> THEN all_tokens
                     ELSE all_tokens \o Separator \o Head(paragraphs)
    /\ UNCHANGED <<phase, arguments, start, chunks, sent, embeddings>>

\* The encoder refuses a paragraph that spells one of its special tokens.
EncodeRaises ==
    /\ phase = "encode"
    /\ overlap < max_tokens
    /\ paragraphs # <<>> /\ Head(paragraphs) # <<>>
    /\ phase' = "raised"
    /\ UNCHANGED <<paragraphs, arguments, all_tokens, start, chunks, sent, embeddings>>

\* A text without tokens has no chunks.
Encoded ==
    /\ phase = "encode"
    /\ overlap < max_tokens
    /\ paragraphs = <<>>
    /\ phase' = IF all_tokens = <<>> THEN "embed" ELSE "window"
    /\ UNCHANGED <<paragraphs, arguments, all_tokens, start, chunks, sent, embeddings>>

\* Mutant: the last window is not capped.
EndUncapped == start + max_tokens

End == IF start + max_tokens < Len(all_tokens)
         THEN start + max_tokens ELSE Len(all_tokens)

\* Mutant: off by one.
StepTooFar == max_tokens - overlap + 1

Step == max_tokens - overlap

\* Mutant: no break; the loop goes on while start is inside the text.
ReachesEndNever(e) == start + Step >= Len(all_tokens)

\* The window that reaches the end of the text is the last.
ReachesEnd(e) == e >= Len(all_tokens)

\* Positions are those of the code, from 0.
Inked(lo, hi) == \E p \in lo..(hi - 1) : all_tokens[p + 1] = "ink"

\* A window that decodes to whitespace gives no chunk.
Window ==
    /\ phase = "window"
    /\ chunks' = IF Inked(start, End) THEN Append(chunks, [lo |-> start, hi |-> End])
                 ELSE chunks
    /\ IF ReachesEnd(End) THEN phase' = "embed" /\ UNCHANGED start
                    ELSE start' = start + Step /\ UNCHANGED phase
    /\ UNCHANGED <<paragraphs, arguments, all_tokens, sent, embeddings>>

-----------------------------------------------------------------------------
(* embed_texts and the checks of extract_text *)

NoChunks ==
    /\ phase = "embed"
    /\ chunks = <<>>
    /\ phase' = "rejected"
    /\ UNCHANGED <<paragraphs, arguments, all_tokens, start, chunks, sent, embeddings>>

\* The numbers of the chunks in the next batch.
Batch == {k \in DOMAIN chunks : sent < k /\ k <= sent + BatchSize}

\* The API answers with one embedding for each text, in their order, or it
\* leaves some out.
Answers ==
    LET n == IF sent + BatchSize < Len(chunks) THEN BatchSize ELSE Len(chunks) - sent
    IN  {[k \in 1..n |-> sent + k]} \cup UNION {[1..m -> Batch] : m \in 0..(n - 1)}

EmbedBatch ==
    /\ phase = "embed"
    /\ sent < Len(chunks)
    /\ \E a \in Answers : embeddings' = embeddings \o a
    /\ sent' = sent + BatchSize
    /\ UNCHANGED <<phase, paragraphs, arguments, all_tokens, start, chunks>>

EmbedRaises ==
    /\ phase = "embed"
    /\ sent < Len(chunks)
    /\ phase' = "raised"
    /\ UNCHANGED <<paragraphs, arguments, all_tokens, start, chunks, sent, embeddings>>

\* Mutant: the counts are not compared.
AcceptAny == TRUE

Accept == Len(embeddings) = Len(chunks)

\* Row i is written with text i and embedding i.
Index ==
    /\ phase = "embed"
    /\ chunks # <<>> /\ sent >= Len(chunks)
    /\ phase' = IF Accept THEN "indexed" ELSE "rejected"
    /\ UNCHANGED <<paragraphs, arguments, all_tokens, start, chunks, sent, embeddings>>

Next ==
    \/ Refuse \/ Encode \/ EncodeRaises \/ Encoded \/ Window
    \/ NoChunks \/ EmbedBatch \/ EmbedRaises \/ Index

Spec == Init /\ [][Next]_vars

-----------------------------------------------------------------------------
(* Properties *)

\* Each variable stays in its range; a chunk is a window of at most max_tokens
\* tokens of the text.
TypeOK ==
    /\ phase \in Phases
    /\ paragraphs \in Seq(Seq(Tokens))
    /\ max_tokens \in Nat
    /\ overlap \in Nat
    /\ all_tokens \in Seq(Tokens)
    /\ start \in Nat
    /\ chunks \in Seq([lo : Nat, hi : Nat])
    /\ \A i \in DOMAIN chunks : /\ chunks[i].lo < chunks[i].hi
                                /\ chunks[i].hi <= chunks[i].lo + max_tokens
                                /\ chunks[i].hi <= Len(all_tokens)
    /\ sent \in Nat
    /\ embeddings \in Seq(Nat)

\* "Overlapping chunks that share context at boundaries": any overlap + 1
\* consecutive tokens (fewer at the end of the text) that are not all white
\* stand together in one chunk.  So no token is lost either.
WholeRuns ==
    phase \in {"embed", "indexed"} =>
        \A p \in 0..(Len(all_tokens) - 1), q \in 0..(Len(all_tokens) - 1) :
            p <= q /\ q <= p + overlap /\ Inked(p, q + 1) =>
                \E i \in DOMAIN chunks : chunks[i].lo <= p /\ q < chunks[i].hi

\* No chunk lies inside another: each one begins and ends after the one before.
\* As a chunk begins inside the text, the loop also ends.
NoneInside ==
    \A i, k \in DOMAIN chunks : i < k =>
        chunks[i].lo < chunks[k].lo /\ chunks[i].hi < chunks[k].hi

\* The rows that are written pair each text with its own embedding, although
\* answers come in batches and may be short.
Aligned ==
    phase = "indexed" =>
        /\ Len(embeddings) = Len(chunks)
        /\ \A i \in DOMAIN chunks : embeddings[i] = i
=============================================================================
