--------------------------- MODULE RetrievalProofs ---------------------------
(***************************************************************************)
(* Proofs about Retrieval, for any chunks, documents, domains and scores.  *)
(***************************************************************************)
EXTENDS Retrieval, SequenceTheorems, SumTheorems

-----------------------------------------------------------------------------
(* The inductive invariant *)

\* What is removed stays removed.
LostInv == lost \subseteq Unreachable

\* The context is a beginning of the results; as the first of them always fits,
\* a model that is asked has a source.
PackInv ==
    /\ step \in {"idle", "embed", "select"} =>
          found = <<>> /\ selected = <<>> /\ pos = 0 /\ token_count = 0
    /\ step = "pack" => Len(selected) = pos
    /\ Len(selected) <= Len(found)
    /\ \A i \in 1..Len(selected) : selected[i] = found[i]
    /\ pos = 0 => token_count = 0
    /\ step \in {"stream", "done"} => selected # <<>>
    /\ step = "done" => citations = selected

\* token_count is the tokens of what was taken, and the loop was left before its
\* end for a chunk that did not fit.
CountInv ==
    /\ token_count = Total(Range(selected)) /\ token_count <= Budget
    /\ step \in {"stream", "done"} /\ Len(selected) < Len(found) =>
          token_count + Tokens[found[Len(selected) + 1]] > Budget

RetrievalInv == TypeOK /\ LostInv /\ OnlyReachable /\ PackInv /\ CountInv

LEMMA DataFacts ==
    /\ \A c \in Chunks : DocOf[c] \in Docs /\ InDomain(c) \in DomainIds
    /\ \A d \in Docs : DomainOf[d] \in DomainIds
BY RetrievalAssumption DEF Docs, DomainIds, Range, InDomain

LEMMA EmptyFacts ==
    /\ <<>> \in Seq(Chunks) /\ Len(<<>>) = 0 /\ DOMAIN <<>> = {}
    /\ \A s \in Seq(Chunks) : Len(s) \in Nat /\ DOMAIN s = 1..Len(s)
    /\ \A s \in Seq(Chunks) : s # <<>> <=> Len(s) > 0
BY EmptySeq, LenProperties

-----------------------------------------------------------------------------
(* Sums of tokens *)

LEMMA TotalFacts ==
    ASSUME NEW S \in SUBSET Chunks
    PROVE  /\ Total(S) \in Nat /\ (S = {} => Total(S) = 0)
           /\ \A x \in Chunks : x \notin S => Total(S \cup {x}) = Total(S) + Tokens[x]
<1>1. \A x \in Chunks : Tokens[x] \in Nat
  BY RetrievalAssumption
<1>2. Summable(Tokens, S)
  BY <1>1, RetrievalAssumption, FS_Subset DEF Summable
<1> QED
  BY <1>1, <1>2, SumStep, SumAdd DEF Total

-----------------------------------------------------------------------------
(* Results *)

\* A ranking of S lists each member once, best first.
LEMMA RankingFacts ==
    ASSUME NEW S \in SUBSET Chunks, NEW s \in Rankings(S)
    PROVE  /\ s \in Seq(Chunks) /\ Len(s) = Cardinality(S) /\ DOMAIN s = 1..Len(s)
           /\ Range(s) = S /\ IsInjective(s)
           /\ \A i, j \in DOMAIN s : i < j => score[s[i]] >= score[s[j]]
<1> DEFINE n == Cardinality(S)
<1>1. IsFiniteSet(S) /\ n \in Nat
  BY RetrievalAssumption, FS_Subset, FS_CardinalityType
<1>2. /\ s \in [1..n -> S] /\ Range(s) = S
      /\ \A i, j \in DOMAIN s : i < j => score[s[i]] >= score[s[j]]
  BY DEF Rankings
<1>3. IsFiniteSet(1..n) /\ Cardinality(1..n) = n
  BY <1>1, FS_Interval
<1>4. s \in Surjection(1..n, S)
  BY <1>2 DEF Surjection, Range
<1>5. s \in Injection(1..n, S)
  BY <1>3, <1>4, FS_Surjection
<1>6. s \in Seq(Chunks) /\ Len(s) = n /\ DOMAIN s = 1..n
  BY <1>1, <1>2
<1> QED
  BY <1>2, <1>5, <1>6 DEF Injection

\* What qualifies can be reached, and is in the domain asked for.
LEMMA QualifyingReachable ==
    \A c \in Qualifying : /\ c \in Chunks /\ c \notin Unreachable /\ score[c] >= Threshold
                          /\ asked # None => InDomain(c) = asked
BY DEF Qualifying, Unreachable, Owned, OwnerMatches, Undeleted, InScope

-----------------------------------------------------------------------------
(* Steps *)

\* The steps that change tables.
Changes ==
    \/ \E d \in Docs : Index(d) \/ SoftDelete(d)
    \/ \E m \in DomainIds : DeleteDomain(m)

TableType ==
    /\ chunk \in [Chunks -> {"none", "row", "dropped"}]
    /\ deleted \subseteq Docs /\ domains \subseteq DomainIds /\ lost \subseteq Chunks
    /\ asked \in DomainIds \cup {None}
    /\ score \in [Chunks -> Nat]

ResultType ==
    /\ step \in Steps
    /\ found \in Seq(Chunks) /\ selected \in Seq(Chunks) /\ citations \in Seq(Chunks)
    /\ pos \in 0..Len(found) /\ token_count \in Nat
    /\ Len(found) <= TopK /\ IsInjective(found)
    /\ \A i, j \in DOMAIN found : i < j => score[found[i]] >= score[found[j]]
    /\ \A c \in Range(found) : score[c] >= Threshold

LEMMA TypeParts == TypeOK <=> TableType /\ ResultType
BY DEF TypeOK, TableType, ResultType

LEMMA InitInv == Init => RetrievalInv
<1> SUFFICES ASSUME Init PROVE RetrievalInv
  OBVIOUS
<1>1. Range(<<>>) = {} /\ IsInjective(<<>>)
  BY EmptyFacts DEF Range, IsInjective
<1>2. TypeOK
  BY <1>1, EmptyFacts, RetrievalAssumption DEF Init, TypeOK, Steps
<1>3. LostInv /\ OnlyReachable /\ PackInv
  BY <1>1, EmptyFacts DEF Init, LostInv, OnlyReachable, PackInv
<1>4. CountInv
  <2>1. {} \in SUBSET Chunks /\ 0 <= Budget
    BY RetrievalAssumption
  <2>2. token_count = 0 /\ Range(selected) = {} /\ step = "idle"
    BY <1>1 DEF Init
  <2> QED
    BY <2>1, <2>2, TotalFacts DEF CountInv
<1> QED
  BY <1>2, <1>3, <1>4 DEF RetrievalInv

LEMMA TableStep == TypeOK /\ [Next]_vars => TableType'
<1> SUFFICES ASSUME TypeOK, [Next]_vars PROVE TableType'
  OBVIOUS
<1>0. TableType
  BY TypeParts
<1>1. CASE UNCHANGED <<tables, asked, score, lost>>
  BY <1>0, <1>1 DEF TableType, tables
<1>2. ASSUME NEW m \in DomainIds \cup {None}, Ask(m) PROVE TableType'
  BY <1>0, <1>2 DEF Ask, TableType, tables, Unreachable
<1>3. CASE Embed
  BY <1>0, <1>3, RetrievalAssumption DEF Embed, TableType, tables
<1>4. ASSUME NEW d \in Docs, Index(d) \/ SoftDelete(d) PROVE TableType'
  <2>1. CASE Index(d)
    BY <1>0, <2>1 DEF Index, TableType
  <2>2. CASE SoftDelete(d)
    BY <1>0, <2>2 DEF SoftDelete, TableType
  <2> QED
    BY <1>4, <2>1, <2>2
<1>5. ASSUME NEW m \in DomainIds, DeleteDomain(m) PROVE TableType'
  BY <1>0, <1>5 DEF DeleteDomain, TableType
<1> QED
  BY <1>1, <1>2, <1>3, <1>4, <1>5
     DEF Next, Request, EmbedFails, Select, Take, Overflow, Packed, Cite, Stop, vars, packing

LEMMA ResultStep == TypeOK /\ PackInv /\ [Next]_vars => ResultType' /\ PackInv'
<1> SUFFICES ASSUME TypeOK, PackInv, [Next]_vars PROVE ResultType' /\ PackInv'
  OBVIOUS
<1>0. TableType /\ ResultType
  BY TypeParts
<1>1. ASSUME UNCHANGED <<step, score, found, packing, citations>> PROVE ResultType' /\ PackInv'
  BY <1>0, <1>1 DEF ResultType, PackInv, packing
<1>2. ASSUME step' \in {"embed", "select", "ended"}, step \in {"idle", "embed"},
             UNCHANGED <<found, packing, citations>>
      PROVE  ResultType' /\ PackInv'
  <2>1. found' = <<>> /\ DOMAIN found' = {} /\ Range(found') = {}
    BY <1>2, EmptyFacts DEF PackInv, Range
  <2> QED
    BY <1>0, <1>2, <2>1, EmptyFacts DEF ResultType, PackInv, packing, Steps
<1>3. CASE Select
  <2>1. PICK S \in SUBSET Qualifying : Limit(S) /\ found' \in Rankings(S)
    BY <1>3 DEF Select
  <2>2. /\ S \in SUBSET Chunks /\ Cardinality(S) <= TopK
        /\ \A c \in S : score[c] >= Threshold
    BY <2>1, QualifyingReachable DEF Limit
  <2>3. /\ found' \in Seq(Chunks) /\ Len(found') <= TopK
        /\ Range(found') = S /\ IsInjective(found')
        /\ \A i, j \in DOMAIN found' : i < j => score[found'[i]] >= score[found'[j]]
    BY <2>1, <2>2, RankingFacts
  <2>4. /\ selected' = <<>> /\ pos' = 0 /\ token_count' = 0
        /\ UNCHANGED <<score, citations>> /\ step' \in {"pack", "ended"}
    BY <1>3 DEF Select, PackInv, packing
  <2>5. Len(found') \in Nat /\ Len(<<>>) = 0
    BY <2>3, EmptyFacts
  <2>6. ResultType'
    BY <1>0, <2>2, <2>3, <2>4, <2>5, EmptyFacts DEF ResultType, Steps
  <2> QED
    BY <2>4, <2>5, <2>6 DEF PackInv
<1>4. CASE Take
  <2> DEFINE c == found[pos + 1]
  <2>1. /\ pos \in Nat /\ pos < Len(found) /\ Len(selected) = pos /\ pos' = pos + 1
        /\ Len(found) \in Nat
    BY <1>0, <1>4, EmptyFacts DEF Take, PackInv, ResultType
  <2>2. c \in Chunks
    BY <1>0, <2>1, ElementOfSeq DEF ResultType
  <2>3. /\ selected' \in Seq(Chunks) /\ Len(selected') = pos + 1
        /\ \A i \in 1..pos : selected'[i] = selected[i]
        /\ selected'[pos + 1] = c /\ selected' # <<>>
    BY <1>0, <1>4, <2>1, <2>2, AppendProperties DEF Take, ResultType
  <2>4. token_count' \in Nat
    BY <1>0, <1>4, <2>2, RetrievalAssumption DEF Take, ResultType
  <2>5. UNCHANGED <<step, score, found, citations>> /\ step = "pack"
    BY <1>4 DEF Take
  <2>6. ResultType'
    BY <1>0, <2>1, <2>3, <2>4, <2>5 DEF ResultType
  <2>7. \A i \in 1..Len(selected') : selected'[i] = found'[i]
    BY <2>1, <2>3, <2>5 DEF PackInv
  <2> QED
    BY <2>1, <2>3, <2>5, <2>6, <2>7 DEF PackInv
<1>5. CASE Overflow
  <2>1. /\ pos \in Nat /\ pos < Len(found) /\ Len(selected) = pos /\ Len(found) \in Nat
    BY <1>0, <1>5, EmptyFacts DEF Overflow, PackInv, ResultType
  <2>2. pos # 0
    <3>1. ASSUME pos = 0 PROVE FALSE
      <4>1. found[1] \in Chunks
        BY <1>0, <2>1, ElementOfSeq DEF ResultType
      <4>2. token_count = 0 /\ Tokens[found[1]] \in 0..Budget
        BY <3>1, <4>1, RetrievalAssumption DEF PackInv
      <4> QED
        BY <1>5, <3>1, <4>2, RetrievalAssumption DEF Overflow, Fits
    <3> QED
      BY <3>1
  <2>3. selected # <<>>
    BY <2>1, <2>2, EmptyFacts
  <2> QED
    BY <1>0, <1>5, <2>1, <2>2, <2>3 DEF Overflow, AfterOverflow, ResultType, PackInv, Steps
<1>6. CASE Packed
  <2>1. found # <<>> => selected # <<>>
    BY <1>0, <1>6, EmptyFacts DEF Packed, PackInv, ResultType
  <2> QED
    BY <1>0, <1>6, <2>1 DEF Packed, ResultType, PackInv, packing, Steps
<1>7. CASE Cite
  BY <1>0, <1>7 DEF Cite, Cited, ResultType, PackInv, packing, Steps
<1>8. CASE Stop
  BY <1>0, <1>8 DEF Stop, ResultType, PackInv, packing, Steps
<1> QED
  BY <1>1, <1>2, <1>3, <1>4, <1>5, <1>6, <1>7, <1>8
     DEF Next, Request, Ask, Embed, EmbedFails, Index, SoftDelete, DeleteDomain, vars

LEMMA LostStep == TypeOK /\ LostInv /\ [Next]_vars => LostInv'
<1> SUFFICES ASSUME TypeOK, LostInv, [Next]_vars PROVE LostInv'
  OBVIOUS
<1>0. TableType
  BY TypeParts
<1>1. ASSUME UNCHANGED <<tables, lost>> PROVE LostInv'
  BY <1>1 DEF LostInv, Unreachable, Owned, tables
<1>2. ASSUME NEW m \in DomainIds \cup {None}, Ask(m) PROVE LostInv'
  BY <1>2 DEF Ask, LostInv, Unreachable, Owned, tables
<1>3. ASSUME NEW d \in Docs, Index(d) PROVE LostInv'
  BY <1>0, <1>3 DEF Index, LostInv, Unreachable, Owned, TableType
<1>4. ASSUME NEW d \in Docs, SoftDelete(d) PROVE LostInv'
  BY <1>4 DEF SoftDelete, LostInv, Unreachable, Owned
<1>5. ASSUME NEW m \in DomainIds, DeleteDomain(m) PROVE LostInv'
  BY <1>0, <1>5 DEF DeleteDomain, LostInv, Unreachable, Owned, TableType
<1> QED
  BY <1>1, <1>2, <1>3, <1>4, <1>5
     DEF Next, Request, Embed, EmbedFails, Select, Take, Overflow, Packed, Cite, Stop, vars

LEMMA ReachableStep ==
    TypeOK /\ LostInv /\ PackInv /\ OnlyReachable /\ [Next]_vars => OnlyReachable'
<1> SUFFICES ASSUME TypeOK, LostInv, PackInv, OnlyReachable, [Next]_vars PROVE OnlyReachable'
  OBVIOUS
<1>1. ASSUME UNCHANGED <<found, lost, asked>> PROVE OnlyReachable'
  BY <1>1 DEF OnlyReachable
<1>2. ASSUME NEW m \in DomainIds \cup {None}, Ask(m) PROVE OnlyReachable'
  BY <1>2, EmptyFacts DEF Ask, PackInv, OnlyReachable, Range
<1>3. CASE Select
  <2>1. PICK S \in SUBSET Qualifying : found' \in Rankings(S)
    BY <1>3 DEF Select
  <2>2. Range(found') = S
    BY <2>1, QualifyingReachable, RankingFacts
  <2> QED
    BY <1>3, <2>2, QualifyingReachable DEF Select, LostInv, OnlyReachable
<1> QED
  BY <1>1, <1>2, <1>3
     DEF Next, Request, Embed, EmbedFails, Take, Overflow, Packed, Cite, Stop, Index, SoftDelete,
         DeleteDomain, vars

LEMMA CountStep == TypeOK /\ PackInv /\ CountInv /\ [Next]_vars => CountInv'
<1> SUFFICES ASSUME TypeOK, PackInv, CountInv, [Next]_vars PROVE CountInv'
  OBVIOUS
<1>0. ResultType
  BY TypeParts
<1>1. ASSUME UNCHANGED <<step, found, packing>> PROVE CountInv'
  BY <1>1 DEF CountInv, packing
<1>2. ASSUME step' \notin {"stream", "done"}, UNCHANGED packing PROVE CountInv'
  BY <1>2 DEF CountInv, packing
<1>3. CASE Take
  <2> DEFINE c == found[pos + 1]
  <2>1. /\ pos \in Nat /\ pos < Len(found) /\ Len(selected) = pos /\ Len(found) \in Nat
        /\ DOMAIN found = 1..Len(found) /\ DOMAIN selected = 1..Len(selected)
    BY <1>0, <1>3, EmptyFacts DEF Take, PackInv, ResultType
  <2>2. c \in Chunks
    BY <1>0, <2>1, ElementOfSeq DEF ResultType
  <2>3. c \notin Range(selected)
    BY <1>0, <2>1 DEF PackInv, ResultType, Range, IsInjective
  <2>4. Range(selected') = Range(selected) \cup {c}
    <3>1. /\ selected' \in Seq(Chunks) /\ Len(selected') = pos + 1 /\ selected'[pos + 1] = c
          /\ \A i \in 1..pos : selected'[i] = selected[i]
      BY <1>0, <1>3, <2>1, <2>2, AppendProperties DEF Take, ResultType
    <3>2. DOMAIN selected' = 1..(pos + 1)
      BY <3>1, EmptyFacts
    <3>3. 1..(pos + 1) = 1..pos \cup {pos + 1}
      BY <2>1
    <3>4. Range(selected') = {selected'[i] : i \in 1..pos} \cup {selected'[pos + 1]}
      BY <3>2, <3>3 DEF Range
    <3>5. {selected'[i] : i \in 1..pos} = Range(selected)
      BY <2>1, <3>1 DEF Range
    <3> QED
      BY <3>1, <3>4, <3>5
  <2>5. Range(selected) \in SUBSET Chunks
    BY <1>0 DEF ResultType, Range
  <2>6. Total(Range(selected')) = Total(Range(selected)) + Tokens[c]
    BY <2>2, <2>3, <2>4, <2>5, TotalFacts
  <2>7. token_count' = token_count + Tokens[c] /\ token_count' <= Budget /\ step' = "pack"
    BY <1>3 DEF Take, Fits
  <2> QED
    BY <2>6, <2>7 DEF CountInv
<1>4. CASE Overflow
  <2>1. pos \in Nat /\ Len(selected) = pos /\ UNCHANGED <<found, selected, token_count>>
    BY <1>0, <1>4 DEF Overflow, PackInv, ResultType
  <2>2. ~(token_count + Tokens[found[pos + 1]] <= Budget) /\ found[pos + 1] \in Chunks
    BY <1>0, <1>4, <2>1, EmptyFacts, ElementOfSeq DEF Overflow, Fits, ResultType
  <2>3. token_count \in Nat /\ Tokens[found[pos + 1]] \in Nat /\ Budget \in Nat
    BY <1>0, <2>2, RetrievalAssumption DEF ResultType
  <2> QED
    BY <2>1, <2>2, <2>3 DEF CountInv
<1>5. CASE Packed
  <2>1. Len(selected) = Len(found) /\ Len(found) \in Nat /\ UNCHANGED <<found, packing>>
    BY <1>0, <1>5, EmptyFacts DEF Packed, PackInv, ResultType
  <2> QED
    BY <2>1 DEF CountInv, packing
<1>6. CASE Cite
  BY <1>6 DEF Cite, CountInv, packing
<1> QED
  BY <1>1, <1>2, <1>3, <1>4, <1>5, <1>6
     DEF Next, Request, Ask, Embed, EmbedFails, Select, Stop, Index, SoftDelete, DeleteDomain, vars

-----------------------------------------------------------------------------
(* Theorems *)

THEOREM RetrievalInvariant == Spec => []RetrievalInv
<1>1. RetrievalInv /\ [Next]_vars => RetrievalInv'
  BY TableStep, ResultStep, LostStep, ReachableStep, CountStep, TypeParts, PTL DEF RetrievalInv
<1> QED
  BY <1>1, InitInv, PTL DEF Spec

\* Types: at most top_k results, each once and similar enough, best first.
THEOREM RetrievalTypes == Spec => []TypeOK
BY RetrievalInvariant, PTL DEF RetrievalInv

\* Nothing is found that was removed before, belongs to somebody else or is
\* outside the domain asked for.
THEOREM FoundReachable == Spec => []OnlyReachable
BY RetrievalInvariant, PTL DEF RetrievalInv

\* An answer has sources, and they are the chunks it was given, in order.
THEOREM AnswersGrounded == Spec => []Grounded
<1>1. RetrievalInv => Grounded
  <2> SUFFICES ASSUME RetrievalInv, step = "done" PROVE
                /\ citations # <<>>
                /\ Len(citations) = Len(selected)
                /\ \A i \in DOMAIN citations : citations[i] = selected[i] /\ selected[i] = found[i]
    BY DEF Grounded
  <2>1. selected \in Seq(Chunks)
    BY DEF RetrievalInv, TypeOK
  <2> QED
    BY <2>1, EmptyFacts DEF RetrievalInv, PackInv
<1> QED
  BY <1>1, RetrievalInvariant, PTL

\* The context is within the budget, no chunk left out is better than one in it,
\* and when the model is asked the best left out would not have fitted.
THEOREM ContextBestWithinBudget == Spec => []BestWithinBudget
<1>1. RetrievalInv => BestWithinBudget
  <2> SUFFICES ASSUME RetrievalInv PROVE BestWithinBudget
    OBVIOUS
  <2>1. ResultType /\ CountInv /\ PackInv
    BY TypeParts DEF RetrievalInv
  <2>2. /\ Len(found) \in Nat /\ DOMAIN found = 1..Len(found)
        /\ Len(selected) \in Nat /\ DOMAIN selected = 1..Len(selected)
    BY <2>1, EmptyFacts DEF ResultType
  <2> DEFINE n == Len(selected)
             b == found[n + 1]
  <2>3. ASSUME step \in {"stream", "done"}, NEW e \in LeftOut
        PROVE  /\ \A c \in Range(selected) : score[c] >= score[e]
               /\ b \in LeftOut /\ score[b] >= score[e]
               /\ Total(Range(selected) \cup {b}) > Budget
    <3>1. PICK i \in 1..Len(found) : found[i] = e
      BY <2>2, <2>3 DEF LeftOut, Range
    <3>2. \A j \in 1..n : selected[j] = found[j] /\ j \in 1..Len(found)
      BY <2>1, <2>2 DEF PackInv
    <3>3. i > n
      BY <2>2, <2>3, <3>1, <3>2 DEF LeftOut, Range
    <3>4. \A c \in Range(selected) : \E j \in 1..n : c = found[j] /\ j \in 1..Len(found)
      BY <2>2, <3>2 DEF Range
    <3>5. \A c \in Range(selected) : score[c] >= score[e]
      BY <2>1, <2>2, <3>1, <3>3, <3>4 DEF ResultType
    <3>6. n + 1 \in 1..Len(found)
      BY <2>2, <3>1, <3>3
    <3>7. b \in Chunks /\ e \in Chunks
      BY <2>1, <3>1, <3>6, ElementOfSeq, <2>2 DEF ResultType
    <3>8. b \in LeftOut
      <4>1. b \in Range(found)
        BY <2>2, <3>6 DEF Range
      <4>2. \A j \in 1..n : found[j] # b
        BY <2>1, <2>2, <3>2, <3>6 DEF ResultType, IsInjective
      <4> QED
        BY <3>4, <4>1, <4>2 DEF LeftOut
    <3>9. score[b] >= score[e]
      <4>1. CASE i = n + 1
        <5>1. score \in [Chunks -> Nat]
          BY DEF RetrievalInv, TypeOK
        <5> QED
          BY <3>1, <3>7, <4>1, <5>1
      <4>2. CASE i # n + 1
        BY <2>1, <2>2, <3>1, <3>3, <3>6, <4>2 DEF ResultType
      <4> QED
        BY <4>1, <4>2
    <3>10. b \notin Range(selected) /\ Range(selected) \in SUBSET Chunks
      BY <2>1, <3>8 DEF LeftOut, ResultType, Range
    <3>11. Total(Range(selected) \cup {b}) = Total(Range(selected)) + Tokens[b]
      BY <3>7, <3>10, TotalFacts
    <3> QED
      BY <2>1, <2>2, <2>3, <3>5, <3>6, <3>8, <3>9, <3>11 DEF CountInv
  <2> HIDE DEF b
  <2> QED
    BY <2>1, <2>3 DEF BestWithinBudget, CountInv
<1> QED
  BY <1>1, RetrievalInvariant, PTL
=============================================================================
