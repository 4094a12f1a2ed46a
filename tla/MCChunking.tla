----------------------------- MODULE MCChunking -----------------------------
(* Instances of Chunking for TLC. *)
EXTENDS Chunking, SequencesExt

CONSTANT MaxParagraphs

\* A blank paragraph, a word, two words far apart, a sentence.
Paragraphs == {<<>>, <<"ink">>, <<"ink", "space", "space", "ink">>,
               <<"ink", "ink", "ink">>}

MCTexts == BoundedSeq(Paragraphs, MaxParagraphs)
=============================================================================
