--------------------------- MODULE ChunkingProofs ---------------------------
(***************************************************************************)
(* Proofs about Chunking, for every text, window size, overlap and batch   *)
(* size.                                                                   *)
(***************************************************************************)
EXTENDS Chunking, SequenceTheorems, TLAPS

-----------------------------------------------------------------------------
(* Types, and what each phase may rely on *)

\* Windows begin inside the text; nothing is sent before the text is cut.
PhaseOK ==
    /\ phase = "encode" => chunks = <<>> /\ start = 0
    /\ phase = "window" => overlap < max_tokens /\ start < Len(all_tokens)
    /\ phase \in {"encode", "window"} => sent = 0 /\ embeddings = <<>>

Shape == TypeOK /\ PhaseOK

LEMMA InitShape == Init => Shape
BY ChunkingAssumption DEF Init, Shape, TypeOK, PhaseOK, Phases

\* The bounds of a window, and the chunk it gives.
LEMMA WindowBounds ==
    ASSUME Shape, phase = "window"
    PROVE  /\ End \in Nat /\ start < End
           /\ End <= start + max_tokens /\ End <= Len(all_tokens)
           /\ Step \in Nat /\ 0 < Step
           /\ ReachesEnd(End) \/ End = start + max_tokens
BY DEF Shape, TypeOK, PhaseOK, End, Step, ReachesEnd

LEMMA EncodeShape == Shape /\ Encode => Shape'
<1> SUFFICES ASSUME Shape, Encode PROVE Shape'
  OBVIOUS
<1>0. paragraphs \in Seq(Seq(Tokens)) /\ paragraphs # <<>>
  BY DEF Encode, Shape, TypeOK
<1>1. /\ Head(paragraphs) \in Seq(Tokens)
      /\ Tail(paragraphs) \in Seq(Seq(Tokens))
      /\ Separator \in Seq(Tokens)
  <2>1. Head(paragraphs) \in Seq(Tokens) /\ Tail(paragraphs) \in Seq(Seq(Tokens))
    BY <1>0, HeadTailProperties
  <2>2. Separator \in Seq(Tokens)
    <3>1. <<>> \in Seq(Tokens)
      BY EmptySeq
    <3>2. <<"space">> \in Seq(Tokens)
      BY DEF Tokens
    <3> QED
      BY <3>1, <3>2 DEF Separator
  <2> QED
    BY <2>1, <2>2
<1>2. all_tokens' \in Seq(Tokens)
  BY <1>1 DEF Encode, Shape, TypeOK
<1> QED
  BY <1>1, <1>2 DEF Encode, Shape, TypeOK, PhaseOK, Phases, arguments

LEMMA EncodedShape == Shape /\ Encoded => Shape'
<1> SUFFICES ASSUME Shape, Encoded PROVE Shape'
  OBVIOUS
<1>1. all_tokens # <<>> => 0 < Len(all_tokens)
  BY DEF Shape, TypeOK
<1> QED
  BY <1>1 DEF Encoded, Shape, TypeOK, PhaseOK, Phases, arguments

\* What Window does to the chunks.
LEMMA WindowChunks ==
    ASSUME Shape, Window
    PROVE  /\ chunks' \in Seq([lo : Nat, hi : Nat])
           /\ Len(chunks) <= Len(chunks')
           /\ \A i \in DOMAIN chunks : i \in DOMAIN chunks' /\ chunks'[i] = chunks[i]
           /\ \A i \in DOMAIN chunks' :
                 \/ i \in DOMAIN chunks
                 \/ i = Len(chunks) + 1 /\ chunks'[i] = [lo |-> start, hi |-> End]
           /\ Inked(start, End) =>
                 /\ Len(chunks) + 1 \in DOMAIN chunks'
                 /\ chunks'[Len(chunks) + 1] = [lo |-> start, hi |-> End]
<1>1. End \in Nat /\ start \in Nat /\ chunks \in Seq([lo : Nat, hi : Nat])
  BY WindowBounds DEF Window, Shape, TypeOK
<1>2. [lo |-> start, hi |-> End] \in [lo : Nat, hi : Nat]
  BY <1>1
<1>3. CASE Inked(start, End)
  <2>1. chunks' = Append(chunks, [lo |-> start, hi |-> End])
    BY <1>3 DEF Window
  <2> DEFINE c == [lo |-> start, hi |-> End]
  <2>2. c \in [lo : Nat, hi : Nat] /\ chunks' = Append(chunks, c)
    BY <1>2, <2>1
  <2> HIDE DEF c
  <2>3. /\ chunks' \in Seq([lo : Nat, hi : Nat])
        /\ Len(chunks') = Len(chunks) + 1
        /\ \A i \in 1..Len(chunks) : chunks'[i] = chunks[i]
        /\ chunks'[Len(chunks) + 1] = c
    BY <1>1, <2>2, AppendProperties
  <2>4. DOMAIN chunks = 1..Len(chunks) /\ DOMAIN chunks' = 1..(Len(chunks) + 1)
        /\ Len(chunks) \in Nat
    BY <1>1, <2>3
  <2> QED
    BY <2>3, <2>4 DEF c
<1>4. CASE ~Inked(start, End)
  <2>1. chunks' = chunks
    BY <1>4 DEF Window
  <2> QED
    BY <1>1, <1>4, <2>1
<1> QED
  BY <1>3, <1>4

LEMMA WindowShape == Shape /\ Window => Shape'
<1> SUFFICES ASSUME Shape, Window PROVE Shape'
  OBVIOUS
<1>1. chunks' \in Seq([lo : Nat, hi : Nat])
  BY WindowChunks
<1>2. phase' \in Phases /\ start' \in Nat
  BY WindowBounds DEF Window, Shape, TypeOK, Phases
<1>3. \A i \in DOMAIN chunks' : /\ chunks'[i].lo < chunks'[i].hi
                                /\ chunks'[i].hi <= chunks'[i].lo + max_tokens
                                /\ chunks'[i].hi <= Len(all_tokens)
  <2> SUFFICES ASSUME NEW i \in DOMAIN chunks'
               PROVE  /\ chunks'[i].lo < chunks'[i].hi
                      /\ chunks'[i].hi <= chunks'[i].lo + max_tokens
                      /\ chunks'[i].hi <= Len(all_tokens)
    OBVIOUS
  <2>1. CASE i \in DOMAIN chunks
    <3>1. chunks'[i] = chunks[i]
      BY <2>1, WindowChunks
    <3> QED
      BY <2>1, <3>1 DEF Shape, TypeOK
  <2>2. CASE i = Len(chunks) + 1 /\ chunks'[i] = [lo |-> start, hi |-> End]
    <3>1. start < End /\ End <= start + max_tokens /\ End <= Len(all_tokens)
      BY WindowBounds DEF Window
    <3>2. chunks'[i].lo = start /\ chunks'[i].hi = End
      BY <2>2
    <3> QED
      BY <3>1, <3>2
  <2> QED
    BY <2>1, <2>2, WindowChunks
<1>4. phase' = "window" => start' < Len(all_tokens)
  <2>1. CASE ReachesEnd(End)
    BY <2>1 DEF Window
  <2>2. CASE ~ReachesEnd(End)
    BY <2>2, WindowBounds DEF Window, ReachesEnd, Step, Shape, TypeOK
  <2> QED
    BY <2>1, <2>2
<1> QED
  BY <1>1, <1>2, <1>3, <1>4 DEF Window, Shape, TypeOK, PhaseOK, arguments

\* An answer is a sequence of chunk numbers; it is either complete or short.
LEMMA AnswerShape ==
    ASSUME Shape, phase = "embed", sent < Len(chunks), NEW a \in Answers
    PROVE  /\ a \in Seq(Nat)
           /\ \/ /\ Len(a) = BatchSize \/ Len(a) = Len(chunks) - sent
                 /\ Len(a) <= BatchSize /\ Len(a) <= Len(chunks) - sent
                 /\ \A k \in 1..Len(a) : a[k] = sent + k
              \/ Len(a) < BatchSize /\ Len(a) < Len(chunks) - sent
<1> DEFINE n == IF sent + BatchSize < Len(chunks)
                  THEN BatchSize ELSE Len(chunks) - sent
<1>0. sent \in Nat /\ BatchSize \in Nat \ {0} /\ Len(chunks) \in Nat
  BY ChunkingAssumption DEF Shape, TypeOK
<1>1. /\ n \in Nat /\ n <= BatchSize /\ n <= Len(chunks) - sent
      /\ n = BatchSize \/ n = Len(chunks) - sent
  BY <1>0
<1>2. Batch \subseteq Nat
  BY DEF Batch, Shape, TypeOK
<1> HIDE DEF n
<1>3. CASE a = [k \in 1..n |-> sent + k]
  <2>1. a \in Seq(Nat) /\ Len(a) = n
    BY <1>0, <1>1, <1>3, IsASeq, LenProperties
  <2> QED
    BY <1>1, <1>3, <2>1
<1>4. ASSUME NEW m \in 0..(n - 1), a \in [1..m -> Batch]
      PROVE  a \in Seq(Nat) /\ Len(a) < BatchSize /\ Len(a) < Len(chunks) - sent
  <2>1. m \in Nat /\ m < n
    BY <1>1
  <2>2. a = [k \in 1..m |-> a[k]] /\ \A k \in 1..m : a[k] \in Nat
    BY <1>2, <1>4
  <2>3. a \in Seq(Nat) /\ Len(a) = m
    BY <2>1, <2>2
  <2> QED
    BY <1>0, <1>1, <2>1, <2>3
<1> QED
  BY <1>3, <1>4 DEF Answers, n

LEMMA EmbedShape == Shape /\ EmbedBatch => Shape'
<1> SUFFICES ASSUME Shape, EmbedBatch PROVE Shape'
  OBVIOUS
<1>1. embeddings' \in Seq(Nat)
  <2>1. PICK a \in Answers : embeddings' = embeddings \o a
    BY DEF EmbedBatch
  <2>2. a \in Seq(Nat)
    BY AnswerShape DEF EmbedBatch
  <2> QED
    BY <2>1, <2>2 DEF Shape, TypeOK
<1> QED
  BY <1>1, ChunkingAssumption DEF EmbedBatch, Shape, TypeOK, PhaseOK, arguments

LEMMA NextShape == Shape /\ [Next]_vars => Shape'
<1> SUFFICES ASSUME Shape, [Next]_vars PROVE Shape'
  OBVIOUS
<1>1. CASE Refuse \/ EncodeRaises \/ NoChunks \/ EmbedRaises \/ Index
  BY <1>1 DEF Refuse, EncodeRaises, NoChunks, EmbedRaises, Index, Shape, TypeOK, PhaseOK, Phases,
              arguments
<1>2. CASE UNCHANGED vars
  BY <1>2 DEF Shape, TypeOK, PhaseOK, vars, arguments
<1> QED
  BY <1>1, <1>2, EncodeShape, EncodedShape, WindowShape, EmbedShape DEF Next

\* Every chunk is an interval of the text of at most max_tokens tokens, and
\* the other variables keep their ranges.
THEOREM ChunkTypes == Spec => []TypeOK
<1>1. Shape => TypeOK
  BY DEF Shape
<1> QED
  BY <1>1, InitShape, NextShape, PTL DEF Spec

-----------------------------------------------------------------------------
(* No chunk inside another *)

\* While the window slides, every chunk so far began before it and ended
\* before the part that the next window adds.
Frontier ==
    phase = "window" =>
        \A i \in DOMAIN chunks :
            /\ chunks[i].lo < start
            /\ chunks[i].hi <= start + overlap
            /\ chunks[i].hi < Len(all_tokens)

LEMMA WindowFrontier ==
    ASSUME Shape, Frontier, NoneInside, Window
    PROVE  Frontier' /\ NoneInside'
<1>0. /\ chunks \in Seq([lo : Nat, hi : Nat]) /\ start \in Nat
      /\ max_tokens \in Nat /\ overlap \in Nat /\ overlap < max_tokens
      /\ Len(all_tokens) \in Nat /\ phase = "window"
      /\ UNCHANGED <<max_tokens, overlap, all_tokens>>
  BY DEF Window, Shape, TypeOK, PhaseOK, arguments
<1>1. /\ End \in Nat /\ start < End /\ End <= Len(all_tokens)
      /\ End = start + max_tokens \/ End = Len(all_tokens)
  BY <1>0, WindowBounds DEF End
<1>2. ASSUME NEW i \in DOMAIN chunks
      PROVE  /\ chunks'[i] = chunks[i]
             /\ chunks[i].lo \in Nat /\ chunks[i].hi \in Nat
             /\ chunks[i].lo < start /\ chunks[i].hi < End
             /\ chunks[i].hi <= start + overlap
             /\ chunks[i].hi < Len(all_tokens)
  <2>1. chunks'[i] = chunks[i]
    BY WindowChunks
  <2>2. chunks[i] \in [lo : Nat, hi : Nat]
    <3>1. i \in 1..Len(chunks)
      BY <1>0
    <3> QED
      BY <1>0, <3>1, ElementOfSeq
  <2> QED
    BY <2>1, <2>2, <1>0, <1>1 DEF Frontier
<1>3. ASSUME NEW i \in DOMAIN chunks', i \notin DOMAIN chunks
      PROVE  i = Len(chunks) + 1 /\ chunks'[i].lo = start /\ chunks'[i].hi = End
  <2>1. i = Len(chunks) + 1 /\ chunks'[i] = [lo |-> start, hi |-> End]
    BY <1>3, WindowChunks
  <2> QED
    BY <2>1
<1>4. NoneInside'
  <2> SUFFICES ASSUME NEW i \in DOMAIN chunks', NEW k \in DOMAIN chunks', i < k
               PROVE  /\ chunks'[i].lo < chunks'[k].lo
                      /\ chunks'[i].hi < chunks'[k].hi
    BY DEF NoneInside
  <2>1. CASE k \in DOMAIN chunks
    <3>1. DOMAIN chunks = 1..Len(chunks) /\ Len(chunks) \in Nat
      BY <1>0
    <3>2. DOMAIN chunks' = 1..Len(chunks')
      BY WindowChunks
    <3>3. i \in DOMAIN chunks
      BY <2>1, <3>1, <3>2
    <3> QED
      BY <2>1, <3>3, <1>2 DEF NoneInside
  <2>2. CASE k \notin DOMAIN chunks
    <3>1. k = Len(chunks) + 1 /\ chunks'[k].lo = start /\ chunks'[k].hi = End
      BY <2>2, <1>3
    <3>2. i \in DOMAIN chunks
      BY <3>1, <1>0, <1>3
    <3> QED
      BY <3>1, <3>2, <1>2
  <2> QED
    BY <2>1, <2>2
<1>5. Frontier'
  <2> SUFFICES ASSUME phase' = "window", NEW i \in DOMAIN chunks'
               PROVE  /\ chunks'[i].lo < start'
                      /\ chunks'[i].hi <= start' + overlap
                      /\ chunks'[i].hi < Len(all_tokens)
    BY <1>0 DEF Frontier
  <2>1. /\ start' = start + (max_tokens - overlap)
        /\ End < Len(all_tokens)
    BY <1>0, <1>1 DEF Window, ReachesEnd, Step
  <2>2. CASE i \in DOMAIN chunks
    BY <2>1, <2>2, <1>0, <1>2
  <2>3. CASE i \notin DOMAIN chunks
    BY <2>1, <2>3, <1>0, <1>1, <1>3
  <2> QED
    BY <2>2, <2>3
<1> QED
  BY <1>4, <1>5

\* No chunk lies inside another, for every text, window size and overlap.
THEOREM ChunksAdvance == Spec => []NoneInside
<1>1. Init => Frontier /\ NoneInside
  BY DEF Init, Frontier, NoneInside
<1>2. Shape /\ Frontier /\ NoneInside /\ [Next]_vars => Frontier' /\ NoneInside'
  <2> SUFFICES ASSUME Shape, Frontier, NoneInside, [Next]_vars
               PROVE  Frontier' /\ NoneInside'
    OBVIOUS
  <2>1. CASE Refuse \/ EncodeRaises \/ Encode \/ NoChunks \/ EmbedBatch \/ EmbedRaises \/ Index
    BY <2>1 DEF Refuse, EncodeRaises, Encode, NoChunks, EmbedBatch, EmbedRaises, Index, Frontier,
                NoneInside, arguments
  <2>2. CASE Encoded
    BY <2>2 DEF Encoded, Frontier, NoneInside, Shape, PhaseOK
  <2>3. CASE Window
    BY <2>3, WindowFrontier
  <2>4. CASE UNCHANGED vars
    BY <2>4 DEF vars, arguments, Frontier, NoneInside
  <2> QED
    BY <2>1, <2>2, <2>3, <2>4 DEF Next
<1> QED
  BY <1>1, <1>2, InitShape, NextShape, PTL DEF Spec

-----------------------------------------------------------------------------
(* Runs of overlap + 1 tokens stay whole *)

\* Positions p..q stand together in one chunk.
Together(p, q) == \E i \in DOMAIN chunks : chunks[i].lo <= p /\ q < chunks[i].hi

Run(p, q) == p <= q /\ q <= p + overlap /\ Inked(p, q + 1)

Positions == 0..(Len(all_tokens) - 1)

\* Runs that begin before the window have been cut already.
Behind ==
    phase = "window" =>
        \A p \in Positions, q \in Positions :
            p < start /\ Run(p, q) => Together(p, q)

LEMMA WindowRuns ==
    ASSUME Shape, Behind, Window
    PROVE  Behind' /\ WholeRuns'
<1>0. /\ chunks \in Seq([lo : Nat, hi : Nat]) /\ start \in Nat
      /\ max_tokens \in Nat /\ overlap \in Nat /\ overlap < max_tokens
      /\ Len(all_tokens) \in Nat /\ phase = "window"
      /\ UNCHANGED <<max_tokens, overlap, all_tokens>>
  BY DEF Window, Shape, TypeOK, PhaseOK, arguments
<1>1. /\ End \in Nat /\ start < End /\ End <= Len(all_tokens)
      /\ End = start + max_tokens \/ End = Len(all_tokens)
  BY <1>0, WindowBounds DEF End
<1>2. ASSUME NEW p \in Positions, NEW q \in Positions, Together(p, q)
      PROVE  Together(p, q)'
  <2>1. PICK i \in DOMAIN chunks : chunks[i].lo <= p /\ q < chunks[i].hi
    BY <1>2 DEF Together
  <2>2. i \in DOMAIN chunks' /\ chunks'[i] = chunks[i]
    BY <1>0, WindowChunks
  <2> QED
    BY <2>1, <2>2 DEF Together
<1>3. ASSUME NEW p \in Positions, NEW q \in Positions, Run(p, q), start <= p, q < End
      PROVE  Together(p, q)'
  <2>1. Inked(start, End)
    BY <1>0, <1>1, <1>3 DEF Run, Inked, Positions
  <2>2. /\ Len(chunks) + 1 \in DOMAIN chunks'
        /\ chunks'[Len(chunks) + 1] = [lo |-> start, hi |-> End]
    BY <2>1, WindowChunks
  <2> QED
    BY <1>3, <2>2 DEF Together
<1>4. ASSUME NEW p \in Positions, NEW q \in Positions, Run(p, q),
             p < start \/ q < End
      PROVE  Together(p, q)'
  <2>1. p \in Nat /\ q \in Nat
    BY <1>0 DEF Positions
  <2>2. CASE p < start
    BY <1>0, <1>2, <1>4, <2>2 DEF Behind
  <2>3. CASE ~(p < start)
    BY <1>0, <1>3, <1>4, <2>1, <2>3
  <2> QED
    BY <2>2, <2>3
<1>5. \A p, q : (Run(p, q)' <=> Run(p, q)) /\ Positions' = Positions
  BY <1>0 DEF Run, Inked, Positions
<1>6. CASE ReachesEnd(End)
  <2>1. phase' = "embed" /\ End = Len(all_tokens)
    BY <1>0, <1>1, <1>6 DEF Window, ReachesEnd
  <2>2. \A p \in Positions, q \in Positions : Run(p, q) => Together(p, q)'
    BY <1>0, <1>4, <2>1 DEF Positions
  <2>3. \A p \in Positions, q \in Positions :
           p <= q /\ q <= p + overlap /\ Inked(p, q + 1)' => Together(p, q)'
    BY <1>0, <1>5, <2>2 DEF Run
  <2> QED
    BY <1>0, <2>1, <2>3 DEF Behind, WholeRuns, Together, Positions
<1>7. CASE ~ReachesEnd(End)
  <2>1. /\ phase' = "window" /\ start' = start + (max_tokens - overlap)
        /\ End = start + max_tokens
    BY <1>0, <1>1, <1>7 DEF Window, ReachesEnd, Step
  <2>2. \A p \in Positions, q \in Positions :
           p < start' /\ Run(p, q) => p < start \/ q < End
    BY <1>0, <2>1 DEF Run, Positions
  <2>3. \A p \in Positions, q \in Positions :
           p < start' /\ Run(p, q) => Together(p, q)'
    BY <1>4, <2>2
  <2> QED
    BY <2>1, <2>3, <1>5 DEF Behind, WholeRuns
<1> QED
  BY <1>6, <1>7

\* Every run of overlap + 1 tokens that is not all white stands whole in one
\* chunk, for every text, window size and overlap.
THEOREM RunsStayWhole == Spec => []WholeRuns
<1>1. Init => Behind /\ WholeRuns
  BY DEF Init, Behind, WholeRuns
<1>2. Shape /\ Behind /\ WholeRuns /\ [Next]_vars => Behind' /\ WholeRuns'
  <2> SUFFICES ASSUME Shape, Behind, WholeRuns, [Next]_vars
               PROVE  Behind' /\ WholeRuns'
    OBVIOUS
  <2>1. CASE Refuse \/ EncodeRaises \/ Encode \/ NoChunks \/ EmbedRaises
    BY <2>1 DEF Refuse, EncodeRaises, Encode, NoChunks, EmbedRaises, Behind, WholeRuns
  <2>2. CASE EmbedBatch \/ Index
    <3>1. /\ phase = "embed" /\ phase' # "window"
          /\ UNCHANGED <<chunks, all_tokens, overlap>>
      BY <2>2 DEF EmbedBatch, Index, arguments
    <3>2. WholeRuns'
      BY <3>1 DEF WholeRuns, Inked
    <3> QED
      BY <3>1, <3>2 DEF Behind
  <2>3. CASE Encoded
    <3>1. CASE all_tokens = <<>>
      <4>1. Len(all_tokens') = 0 /\ phase' = "embed"
        BY <2>3, <3>1 DEF Encoded
      <4> QED
        BY <4>1 DEF Behind, WholeRuns
    <3>2. CASE all_tokens # <<>>
      <4>1. phase' = "window" /\ start' = 0 /\ all_tokens' \in Seq(Tokens)
        BY <2>3, <3>2 DEF Encoded, Shape, PhaseOK, TypeOK
      <4> QED
        BY <4>1 DEF Behind, WholeRuns, Positions
    <3> QED
      BY <3>1, <3>2
  <2>4. CASE Window
    BY <2>4, WindowRuns
  <2>5. CASE UNCHANGED vars
    <3>1. UNCHANGED <<phase, chunks, all_tokens, overlap, start>>
      BY <2>5 DEF vars, arguments
    <3>2. WholeRuns'
      BY <3>1 DEF WholeRuns, Inked
    <3>3. Behind'
      BY <3>1 DEF Behind, Run, Inked, Positions, Together
    <3> QED
      BY <3>2, <3>3
  <2> QED
    BY <2>1, <2>2, <2>3, <2>4, <2>5 DEF Next
<1> QED
  BY <1>1, <1>2, InitShape, NextShape, PTL DEF Spec

-----------------------------------------------------------------------------
(* Rows pair a text with its own embedding *)

\* After the batches for the first m chunks there are at most m embeddings,
\* and when none is missing each is that of its chunk.
InStep(m) ==
    /\ Len(embeddings) <= m
    /\ Len(embeddings) = m => \A i \in 1..m : embeddings[i] = i

Batches ==
    phase = "embed" =>
        /\ sent < Len(chunks) => InStep(sent)
        /\ sent >= Len(chunks) => InStep(Len(chunks))

LEMMA EmbedBatches ==
    ASSUME Shape, Batches, EmbedBatch
    PROVE  Batches'
<1>0. /\ sent \in Nat /\ Len(chunks) \in Nat /\ embeddings \in Seq(Nat)
      /\ BatchSize \in Nat /\ BatchSize > 0
      /\ phase = "embed" /\ sent < Len(chunks)
      /\ sent' = sent + BatchSize /\ chunks' = chunks
  BY ChunkingAssumption DEF EmbedBatch, Shape, TypeOK
<1>1. PICK a \in Answers : embeddings' = embeddings \o a
  BY DEF EmbedBatch
<1> DEFINE n == IF sent + BatchSize < Len(chunks)
                  THEN BatchSize ELSE Len(chunks) - sent
<1>2. n \in Nat
  BY <1>0
<1>3. /\ a \in Seq(Nat)
      /\ \/ Len(a) = n /\ \A k \in 1..Len(a) : a[k] = sent + k
         \/ Len(a) < n
  BY <1>0, AnswerShape
<1>4. /\ embeddings' \in Seq(Nat)
      /\ Len(embeddings') = Len(embeddings) + Len(a)
      /\ \A i \in 1..Len(embeddings') :
            embeddings'[i] = IF i <= Len(embeddings) THEN embeddings[i]
                             ELSE a[i - Len(embeddings)]
  BY <1>0, <1>1, <1>3, ConcatProperties
<1>5. InStep(sent)
  BY <1>0 DEF Batches
<1> HIDE DEF n
<1>6. Len(embeddings') <= sent + n
  BY <1>0, <1>2, <1>3, <1>4, <1>5 DEF InStep
<1>7. ASSUME Len(embeddings') = sent + n
      PROVE  \A i \in 1..(sent + n) : embeddings'[i] = i
  <2>1. /\ Len(embeddings) = sent /\ Len(a) = n
        /\ \A k \in 1..n : a[k] = sent + k
        /\ \A i \in 1..sent : embeddings[i] = i
    BY <1>0, <1>2, <1>3, <1>4, <1>5, <1>7 DEF InStep
  <2> SUFFICES ASSUME NEW i \in 1..(sent + n) PROVE embeddings'[i] = i
    OBVIOUS
  <2>2. CASE i <= sent
    BY <1>0, <1>2, <1>4, <1>7, <2>1, <2>2
  <2>3. CASE ~(i <= sent)
    <3>1. i - sent \in 1..n
      BY <1>0, <1>2, <2>3
    <3> QED
      BY <1>0, <1>2, <1>4, <1>7, <2>1, <2>3, <3>1
  <2> QED
    BY <2>2, <2>3
<1>8. CASE sent + BatchSize < Len(chunks)
  BY <1>0, <1>6, <1>7, <1>8 DEF n, Batches, InStep
<1>9. CASE ~(sent + BatchSize < Len(chunks))
  <2>1. sent + n = Len(chunks)
    BY <1>0, <1>9 DEF n
  <2> QED
    BY <1>0, <1>6, <1>7, <1>9, <2>1 DEF Batches, InStep
<1> QED
  BY <1>8, <1>9

\* The rows written for a document pair each text with the embedding computed
\* from it, for every text, batch size and sequence of complete or short
\* answers.
THEOREM RowsAligned == Spec => []Aligned
<1>1. Init => Batches /\ Aligned
  BY DEF Init, Batches, Aligned
<1>2. Shape /\ Batches /\ Aligned /\ [Next]_vars => Batches' /\ Aligned'
  <2> SUFFICES ASSUME Shape, Batches, Aligned, [Next]_vars
               PROVE  Batches' /\ Aligned'
    OBVIOUS
  <2>1. CASE Refuse \/ EncodeRaises \/ Encode \/ NoChunks \/ EmbedRaises
    BY <2>1 DEF Refuse, EncodeRaises, Encode, NoChunks, EmbedRaises, Batches, Aligned
  <2>2. CASE Encoded \/ Window
    <3>1. /\ phase' # "indexed" /\ sent' = 0 /\ embeddings' = <<>>
      BY <2>2 DEF Encoded, Window, Shape, PhaseOK
    <3>2. Len(chunks') \in Nat
      BY <2>2, EncodedShape, WindowShape DEF Shape, TypeOK
    <3> QED
      BY <3>1, <3>2 DEF Batches, Aligned, InStep
  <2>3. CASE EmbedBatch
    BY <2>3, EmbedBatches DEF EmbedBatch, Aligned
  <2>4. CASE Index
    <3>1. /\ phase = "embed" /\ phase' # "embed" /\ sent >= Len(chunks)
          /\ UNCHANGED <<chunks, embeddings>>
          /\ phase' = "indexed" => Len(embeddings) = Len(chunks)
      BY <2>4 DEF Index, Accept
    <3>2. DOMAIN chunks = 1..Len(chunks)
      BY DEF Shape, TypeOK
    <3> QED
      BY <3>1, <3>2 DEF Batches, InStep, Aligned
  <2>5. CASE UNCHANGED vars
    BY <2>5 DEF vars, Batches, InStep, Aligned
  <2> QED
    BY <2>1, <2>2, <2>3, <2>4, <2>5 DEF Next
<1> QED
  BY <1>1, <1>2, InitShape, NextShape, PTL DEF Spec

-----------------------------------------------------------------------------
(* Every text is done with *)

\* How many phases are still to come.
PhasesLeft == CASE phase = "encode" -> 3
                [] phase = "window" -> 2
                [] phase = "embed" -> 1
                [] OTHER -> 0

\* How much of its input the loop of the present phase still has to go through:
\* paragraphs, positions for the window, chunks without an answer.
LoopLeft == CASE phase = "encode" -> Len(paragraphs)
              [] phase = "window" -> Len(all_tokens) - start
              [] phase = "embed" /\ sent < Len(chunks) -> Len(chunks) - sent
              [] OTHER -> 0

\* The window moves on.
LEMMA WindowMovesOn ==
    ASSUME Shape, Window
    PROVE  \/ phase' = "embed"
           \/ /\ phase' = "window"
              /\ start \in Nat /\ start' \in Nat /\ start < start'
              /\ start' < Len(all_tokens) /\ Len(all_tokens) \in Nat
              /\ all_tokens' = all_tokens
<1>1. CASE ReachesEnd(End)
  BY <1>1 DEF Window
<1>2. CASE ~ReachesEnd(End)
  <2>1. /\ phase = "window" /\ phase' = "window" /\ start' = start + Step
        /\ all_tokens' = all_tokens
    BY <1>2 DEF Window
  <2>2. start \in Nat /\ Step \in Nat /\ 0 < Step /\ Len(all_tokens) \in Nat
    BY <2>1, WindowBounds DEF Shape, TypeOK
  <2>3. start + Step < Len(all_tokens)
    BY <1>2, <2>1, WindowBounds DEF ReachesEnd, Step, Shape, TypeOK, PhaseOK
  <2> QED
    BY <2>1, <2>2, <2>3
<1> QED
  BY <1>1, <1>2

LEMMA LeftIsNat == Shape => PhasesLeft \in 0..3 /\ LoopLeft \in Nat
<1> SUFFICES ASSUME Shape PROVE PhasesLeft \in 0..3 /\ LoopLeft \in Nat
  OBVIOUS
<1>1. Len(paragraphs) \in Nat /\ Len(all_tokens) \in Nat /\ Len(chunks) \in Nat
      /\ start \in Nat /\ sent \in Nat
  BY DEF Shape, TypeOK
<1>2. phase = "window" => Len(all_tokens) - start \in Nat
  BY <1>1 DEF Shape, PhaseOK
<1> QED
  BY <1>1, <1>2 DEF PhasesLeft, LoopLeft

LEMMA StepRunsDown ==
    ASSUME Shape, Next
    PROVE  \/ PhasesLeft' < PhasesLeft
           \/ PhasesLeft' = PhasesLeft /\ LoopLeft' < LoopLeft
<1>1. CASE Refuse \/ EncodeRaises \/ Encoded \/ NoChunks \/ EmbedRaises \/ Index
  BY <1>1 DEF Refuse, EncodeRaises, Encoded, NoChunks, EmbedRaises, Index, PhasesLeft
<1>2. CASE Encode
  <2>1. phase = "encode" /\ phase' = "encode" /\ paragraphs' = Tail(paragraphs)
    BY <1>2 DEF Encode
  <2>2. Len(Tail(paragraphs)) = Len(paragraphs) - 1 /\ Len(paragraphs) \in Nat
    BY <1>2 DEF Encode, Shape, TypeOK
  <2>3. LoopLeft = Len(paragraphs) /\ LoopLeft' = Len(Tail(paragraphs))
    BY <2>1 DEF LoopLeft
  <2> QED
    BY <2>1, <2>2, <2>3 DEF PhasesLeft
<1>3. CASE Window
  <2>1. CASE phase' = "embed"
    BY <1>3, <2>1 DEF Window, PhasesLeft
  <2>2. CASE /\ phase' = "window"
             /\ start \in Nat /\ start' \in Nat /\ start < start'
             /\ start' < Len(all_tokens) /\ Len(all_tokens) \in Nat
             /\ all_tokens' = all_tokens
    <3>1. phase = "window"
      BY <1>3 DEF Window
    <3>2. LoopLeft = Len(all_tokens) - start /\ LoopLeft' = Len(all_tokens) - start'
      BY <2>2, <3>1 DEF LoopLeft
    <3>3. ASSUME NEW n \in Nat, NEW i \in Nat, NEW k \in Nat, i < k
          PROVE  n - k < n - i
      BY <3>3
    <3> QED
      BY <2>2, <3>1, <3>2, <3>3 DEF PhasesLeft
  <2> QED
    BY <1>3, <2>1, <2>2, WindowMovesOn
<1>4. CASE EmbedBatch
  <2>1. /\ phase = "embed" /\ phase' = "embed" /\ sent < Len(chunks)
        /\ sent' = sent + BatchSize /\ chunks' = chunks
        /\ sent \in Nat /\ Len(chunks) \in Nat /\ BatchSize \in Nat \ {0}
    BY <1>4, ChunkingAssumption DEF EmbedBatch, Shape, TypeOK
  <2>2. LoopLeft = Len(chunks) - sent
    BY <2>1 DEF LoopLeft
  <2>3. LoopLeft' = IF sent + BatchSize < Len(chunks)
                    THEN Len(chunks) - (sent + BatchSize) ELSE 0
    BY <2>1 DEF LoopLeft
  <2>4. LoopLeft' < LoopLeft
    BY <2>1, <2>2, <2>3
  <2> QED
    BY <2>1, <2>4 DEF PhasesLeft
<1> QED
  BY <1>1, <1>2, <1>3, <1>4 DEF Next

\* A document's text is always done with, whatever its length, the window's
\* size, the overlap and the answers of the API: each step ends a phase or
\* takes its loop nearer to its end.  Pairs of natural numbers that go down in
\* this order go down finitely often.
THEOREM TextRunsDown ==
    Spec => /\ [](PhasesLeft \in 0..3 /\ LoopLeft \in Nat)
            /\ [][\/ PhasesLeft' < PhasesLeft
                  \/ PhasesLeft' = PhasesLeft /\ LoopLeft' < LoopLeft]_vars
<1>1. Shape /\ [Next]_vars =>
        [\/ PhasesLeft' < PhasesLeft
         \/ PhasesLeft' = PhasesLeft /\ LoopLeft' < LoopLeft]_vars
  BY StepRunsDown
<1> QED
  BY <1>1, InitShape, NextShape, LeftIsNat, PTL DEF Spec
=============================================================================
