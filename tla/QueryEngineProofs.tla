-------------------------- MODULE QueryEngineProofs --------------------------
(***************************************************************************)
(* Proofs about QueryEngine, for every set of conversations and queries    *)
(* and every length of an answer.                                          *)
(***************************************************************************)
EXTENDS QueryEngine, SequenceTheorems, TLAPS

-----------------------------------------------------------------------------
(* The inductive invariant *)

\* A token that is about to be sent is within the bound, none is sent before the
\* search has ended, and no more are sent after a cancel than in all.
TokensInv ==
    \A q \in Queries :
        /\ step[q] = "emit" => tokens[q] < MaxTokens
        /\ step[q] \in {"idle", "search"} => tokens[q] = 0
        /\ late[q] <= tokens[q]

\* A token sent after the cancel is the last as long as the flag is set.
CancelInv ==
    \A q \in Queries :
        /\ late[q] <= 1
        /\ late[q] = 1 => flag[q] /\ step[q] # "emit"

\* Only a stream that is done goes on to write.
DoneInv == \A q \in Queries : step[q] \in {"question", "answer"} => terminal[q] = "done"

\* What a query has written is what its step says.
WrittenInv ==
    \A q \in Queries :
        /\ step[q] \notin {"answer", "ended"} => ~Written(q, "user")
        /\ step[q] # "ended" => ~Written(q, "assistant")
        /\ step[q] = "answer" /\ ConvOf[q] \in conv => Written(q, "user")

Logs == Seq([query : Queries, role : Roles])

-----------------------------------------------------------------------------
(* One message more *)

\* A log with a message appended.
LEMMA AppendOne ==
    ASSUME NEW m \in Logs, NEW e \in [query : Queries, role : Roles]
    PROVE  /\ m \o <<e>> \in Logs
           /\ DOMAIN (m \o <<e>>) = 1..(Len(m) + 1) /\ DOMAIN m = 1..Len(m) /\ Len(m) \in Nat
           /\ \A i \in 1..Len(m) : (m \o <<e>>)[i] = m[i]
           /\ (m \o <<e>>)[Len(m) + 1] = e
<1>1. <<e>> \in Logs /\ Len(<<e>>) = 1 /\ <<e>>[1] = e
  BY DEF Logs
<1>2. /\ m \o <<e>> \in Logs
      /\ Len(m \o <<e>>) = Len(m) + 1
      /\ \A i \in 1..(Len(m) + 1) : (m \o <<e>>)[i] = IF i <= Len(m) THEN m[i] ELSE <<e>>[i - Len(m)]
  BY <1>1, ConcatProperties DEF Logs
<1>3. Len(m) \in Nat /\ DOMAIN m = 1..Len(m) /\ DOMAIN (m \o <<e>>) = 1..(Len(m) + 1)
  BY <1>2, LenProperties DEF Logs
<1> QED
  BY <1>1, <1>2, <1>3

\* What a query has written after an append.
LEMMA WrittenAfter ==
    ASSUME TypeOK, NEW q \in Queries, NEW role \in Roles, AppendMessage(q, role),
           NEW p \in Queries, NEW r \in Roles
    PROVE  Written(p, r)' <=> (Written(p, r) \/ (p = q /\ r = role))
<1> DEFINE c == ConvOf[q]  m == messages[c]  e == Message(q, role)
<1>1. c \in Conversations /\ ConvOf[p] \in Conversations
  BY QueryAssumption
<1>2. m \in Logs /\ e \in [query : Queries, role : Roles]
  BY <1>1 DEF TypeOK, Logs, Message
<1>3. messages' = [messages EXCEPT ![c] = m \o <<e>>]
  BY DEF AppendMessage
<1>4. CASE ConvOf[p] = c
  <2>1. messages'[ConvOf[p]] = m \o <<e>>
    BY <1>1, <1>3, <1>4 DEF TypeOK
  <2>2. Message(p, r) = e <=> p = q /\ r = role
    BY DEF Message
  <2> HIDE DEF m, e
  <2>3. (\E i \in DOMAIN (m \o <<e>>) : (m \o <<e>>)[i] = Message(p, r))
          <=> ((\E i \in DOMAIN m : m[i] = Message(p, r)) \/ Message(p, r) = e)
    BY <1>2, AppendOne
  <2> QED
    BY <1>4, <2>1, <2>2, <2>3 DEF Written, m
<1>5. CASE ConvOf[p] # c
  <2>1. messages'[ConvOf[p]] = messages[ConvOf[p]] /\ p # q
    BY <1>1, <1>3, <1>5 DEF TypeOK
  <2> QED
    BY <2>1 DEF Written
<1> QED
  BY <1>4, <1>5

\* Steps that leave the log alone leave what is written alone.
LEMMA WrittenSame ==
    ASSUME messages' = messages, NEW p \in Queries, NEW r \in Roles
    PROVE  Written(p, r)' <=> Written(p, r)
BY DEF Written

-----------------------------------------------------------------------------
(* Types *)

LEMMA InitType == Init => TypeOK
BY QueryAssumption DEF Init, TypeOK, Steps, Terminals, Logs

LEMMA QueryType ==
    ASSUME TypeOK, TokensInv, NEW q \in Queries, QueryStep(q)
    PROVE  TypeOK'
<1> USE DEF Goto, Send, rows, mine, stream
<1>0. ConvOf[q] \in Conversations
  BY QueryAssumption
<1>1. CASE SearchNotFound(q)
  BY <1>1 DEF TypeOK, SearchNotFound, Steps
<1>2. CASE SearchUnavailable(q)
  BY <1>2 DEF TypeOK, SearchUnavailable, Steps, Terminals
<1>3. CASE SearchEmpty(q)
  <2>1. tokens[q] + 1 \in 0..MaxTokens /\ late[q] + 1 \in 0..MaxTokens
    BY <1>3, QueryAssumption DEF SearchEmpty, TypeOK, TokensInv
  <2>2. /\ tokens' \in [Queries -> 0..MaxTokens]
        /\ late' \in [Queries -> 0..MaxTokens]
        /\ step' \in [Queries -> Steps]
    BY <1>3, <2>1 DEF SearchEmpty, SendToken, TypeOK, Steps
  <2> QED
    BY <1>3, <2>2 DEF SearchEmpty, TypeOK
<1>4. CASE SearchFound(q)
  BY <1>4 DEF TypeOK, SearchFound, Steps, Terminals
<1>5. CASE Poll(q)
  BY <1>5 DEF TypeOK, Poll, AfterCancel, Steps, Terminals
<1>6. CASE Emit(q)
  <2>1. tokens[q] + 1 \in 0..MaxTokens /\ late[q] + 1 \in 0..MaxTokens
    BY <1>6, QueryAssumption DEF Emit, TypeOK, TokensInv
  <2>2. /\ tokens' \in [Queries -> 0..MaxTokens]
        /\ late' \in [Queries -> 0..MaxTokens]
        /\ step' \in [Queries -> Steps]
    BY <1>6, <2>1 DEF Emit, SendToken, TypeOK, Steps
  <2> QED
    BY <1>6, <2>2 DEF Emit, TypeOK
<1>7. CASE StreamError(q) \/ StreamDone(q)
  BY <1>7 DEF TypeOK, StreamError, StreamDone, Steps, Terminals
<1>8. ASSUME NEW role \in Roles, AppendMessage(q, role), step[q] \in {"question", "answer"},
             step' = [step EXCEPT ![q] = IF role = "user" THEN "answer" ELSE "ended"],
             UNCHANGED <<myScope, stream, aborted, flag>>
      PROVE  TypeOK'
  <2> DEFINE c == ConvOf[q]  m == messages[c]  e == Message(q, role)
  <2>1. m \in Logs /\ e \in [query : Queries, role : Roles] /\ e.query = q
    BY <1>0 DEF TypeOK, Logs, Message
  <2>2. messages' = [messages EXCEPT ![c] = m \o <<e>>] /\ UNCHANGED <<conv, domain>>
    BY <1>8 DEF AppendMessage
  <2>3. title' \in [Conversations -> Queries \cup {NoTitle}]
        /\ myTitle' \in [Queries -> Queries \cup {NoTitle}]
    BY <1>0, <1>8 DEF AppendMessage, TypeOK
  <2>4. step' \in [Queries -> Steps]
        /\ \A p \in Queries : terminal'[p] # "none" => step'[p] \in {"question", "answer", "ended"}
    BY <1>8 DEF TypeOK, Steps
  <2> HIDE DEF m, e
  <2>5. m \o <<e>> \in Logs /\ \A i \in DOMAIN (m \o <<e>>) :
           (m \o <<e>>)[i] = e \/ (i \in DOMAIN m /\ (m \o <<e>>)[i] = m[i])
    <3> DEFINE L == Len(m)
    <3>1. /\ m \o <<e>> \in Logs /\ L \in Nat
          /\ DOMAIN (m \o <<e>>) = 1..(L + 1) /\ DOMAIN m = 1..L
          /\ (\A i \in 1..L : (m \o <<e>>)[i] = m[i]) /\ (m \o <<e>>)[L + 1] = e
      BY <2>1, AppendOne
    <3> HIDE DEF L
    <3>2. \A i \in 1..(L + 1) : i \in 1..L \/ i = L + 1
      BY <3>1
    <3> QED
      BY <3>1, <3>2
  <2>6. messages' \in [Conversations -> Logs]
    BY <1>0, <2>2, <2>5 DEF TypeOK, Logs
  <2>7. \A d \in Conversations : \A i \in DOMAIN messages'[d] : ConvOf[messages'[d][i].query] = d
    <3> SUFFICES ASSUME NEW d \in Conversations, NEW i \in DOMAIN messages'[d]
                 PROVE  ConvOf[messages'[d][i].query] = d
      OBVIOUS
    <3>1. CASE d = c
      <4>1. messages'[d] = m \o <<e>>
        BY <2>2, <3>1 DEF TypeOK
      <4>2. CASE messages'[d][i] = e
        BY <2>1, <3>1, <4>2
      <4>3. CASE i \in DOMAIN m /\ messages'[d][i] = m[i]
        BY <3>1, <4>3 DEF TypeOK, m
      <4> QED
        BY <2>5, <4>1, <4>2, <4>3
    <3>2. CASE d # c
      BY <2>2, <3>2 DEF TypeOK
    <3> QED
      BY <3>1, <3>2
  <2> QED
    BY <1>8, <2>2, <2>3, <2>4, <2>6, <2>7 DEF TypeOK, Logs
<1>9. CASE AppendQuestion(q)
  BY <1>8, <1>9 DEF AppendQuestion, Roles
<1>10. CASE AppendAnswer(q)
  BY <1>8, <1>10 DEF AppendAnswer, Roles
<1>11. CASE AppendFails(q)
  BY <1>11 DEF TypeOK, AppendFails, AfterFailure, Steps
<1> QED
  BY <1>1, <1>2, <1>3, <1>4, <1>5, <1>6, <1>7, <1>9, <1>10, <1>11 DEF QueryStep

LEMMA AroundType ==
    ASSUME TypeOK, NEW q \in Queries, Open(q) \/ Abort(q) \/ Cancel(q) \/ FlagExpires(q)
    PROVE  TypeOK'
<1> USE DEF Goto, rows, mine, stream
<1>1. CASE Open(q)
  BY <1>1, QueryAssumption DEF TypeOK, Open, Steps
<1>2. CASE Abort(q)
  BY <1>2 DEF TypeOK, Abort, Steps
<1>3. CASE Cancel(q)
  BY <1>3 DEF TypeOK, Cancel
<1>4. CASE FlagExpires(q)
  <2>1. 0 \in 0..MaxTokens
    BY QueryAssumption
  <2>2. flag' \in [Queries -> BOOLEAN] /\ late' \in [Queries -> 0..MaxTokens]
    BY <1>4, <2>1 DEF TypeOK, FlagExpires
  <2> QED
    BY <1>4, <2>2 DEF TypeOK, FlagExpires
<1> QED
  BY <1>1, <1>2, <1>3, <1>4

LEMMA DeleteType ==
    ASSUME TypeOK, DeleteDomain \/ \E c \in Conversations : DeleteConversation(c)
    PROVE  TypeOK'
<1>1. CASE DeleteDomain
  BY <1>1 DEF TypeOK, DeleteDomain, mine, stream
<1>2. ASSUME NEW c \in Conversations, DeleteConversation(c) PROVE TypeOK'
  <2>1. <<>> \in Seq([query : Queries, role : Roles]) /\ DOMAIN <<>> = {}
    BY EmptySeq
  <2>2. messages' \in [Conversations -> Seq([query : Queries, role : Roles])]
    BY <1>2, <2>1 DEF TypeOK, DeleteConversation
  <2>3. \A d \in Conversations : \A i \in DOMAIN messages'[d] : ConvOf[messages'[d][i].query] = d
    BY <1>2, <2>1 DEF TypeOK, DeleteConversation
  <2> QED
    BY <1>2, <2>2, <2>3 DEF TypeOK, DeleteConversation, mine, stream
<1> QED
  BY <1>1, <1>2

LEMMA TypeStep == TypeOK /\ TokensInv /\ [Next]_vars => TypeOK'
<1> SUFFICES ASSUME TypeOK, TokensInv, [Next]_vars PROVE TypeOK'
  OBVIOUS
<1>1. CASE UNCHANGED vars
  BY <1>1 DEF TypeOK, vars, rows, mine, stream
<1> QED
  BY <1>1, QueryType, AroundType, DeleteType DEF Next

-----------------------------------------------------------------------------
(* Tokens, cancels, and when a query may write *)

LEMMA TokensStep == TypeOK /\ TokensInv /\ [Next]_vars => TokensInv'
<1> SUFFICES ASSUME TypeOK, TokensInv, [Next]_vars PROVE TokensInv'
  OBVIOUS
<1> USE DEF Goto, Send, rows, mine, stream, TypeOK, TokensInv
<1>1. CASE UNCHANGED vars
  BY <1>1 DEF vars
<1>2. ASSUME NEW q \in Queries, Poll(q) PROVE TokensInv'
  BY <1>2 DEF Poll, AfterCancel
<1>3. ASSUME NEW q \in Queries, SearchEmpty(q) \/ Emit(q) PROVE TokensInv'
  <2>1. /\ \A p \in Queries \ {q} : step'[p] = step[p] /\ tokens'[p] = tokens[p] /\ late'[p] = late[p]
        /\ step'[q] \in {"nothing", "stream"}
        /\ tokens'[q] = tokens[q] + 1
        /\ late'[q] = late[q] + 1 \/ late'[q] = late[q]
    BY <1>3 DEF SearchEmpty, Emit, SendToken
  <2>2. tokens[q] \in Nat /\ late[q] \in Nat /\ late[q] <= tokens[q]
    BY QueryAssumption
  <2>3. late'[q] <= tokens'[q]
    BY <2>1, <2>2
  <2> QED
    BY <2>1, <2>3
<1>4. ASSUME NEW q \in Queries, FlagExpires(q) PROVE TokensInv'
  BY <1>4 DEF FlagExpires
<1>5. ASSUME NEW q \in Queries,
             SearchNotFound(q) \/ SearchUnavailable(q) \/ SearchFound(q)
             \/ StreamError(q) \/ StreamDone(q) \/ AppendFails(q)
      PROVE  TokensInv'
  BY <1>5 DEF SearchNotFound, SearchUnavailable, SearchFound, StreamError,
     StreamDone, AppendFails, AfterFailure
<1>6. ASSUME NEW q \in Queries, AppendQuestion(q) \/ AppendAnswer(q) \/ Open(q) \/ Abort(q) \/ Cancel(q)
      PROVE  TokensInv'
  BY <1>6 DEF AppendQuestion, AppendAnswer, AppendMessage, Open, Abort, Cancel
<1>7. CASE DeleteDomain \/ \E c \in Conversations : DeleteConversation(c)
  BY <1>7 DEF DeleteDomain, DeleteConversation
<1> QED
  BY <1>1, <1>2, <1>3, <1>4, <1>5, <1>6, <1>7 DEF Next, QueryStep

LEMMA CancelStep == TypeOK /\ TokensInv /\ CancelInv /\ [Next]_vars => CancelInv'
<1> SUFFICES ASSUME TypeOK, TokensInv, CancelInv, [Next]_vars PROVE CancelInv'
  OBVIOUS
<1> USE DEF Goto, Send, rows, mine, stream, TypeOK, CancelInv
<1>1. CASE UNCHANGED vars
  BY <1>1 DEF vars
<1>2. ASSUME NEW q \in Queries, Poll(q) PROVE CancelInv'
  BY <1>2 DEF Poll, AfterCancel, Cancelled
<1>3. ASSUME NEW q \in Queries, SearchEmpty(q) \/ Emit(q) PROVE CancelInv'
  <2>1. /\ late[q] = 0 /\ late' = [late EXCEPT ![q] = IF flag[q] THEN @ + 1 ELSE @]
        /\ flag' = flag
        /\ step' = [step EXCEPT ![q] = "nothing"] \/ step' = [step EXCEPT ![q] = "stream"]
    BY <1>3 DEF SearchEmpty, Emit, SendToken, TokensInv
  <2> QED
    BY <2>1
<1>4. ASSUME NEW q \in Queries, FlagExpires(q) PROVE CancelInv'
  BY <1>4 DEF FlagExpires
<1>5. ASSUME NEW q \in Queries,
             SearchNotFound(q) \/ SearchUnavailable(q) \/ SearchFound(q)
             \/ StreamError(q) \/ StreamDone(q) \/ AppendFails(q)
      PROVE  CancelInv'
  BY <1>5 DEF SearchNotFound, SearchUnavailable, SearchFound, StreamError,
     StreamDone, AppendFails, AfterFailure
<1>6. ASSUME NEW q \in Queries, AppendQuestion(q) \/ AppendAnswer(q) \/ Open(q) \/ Abort(q) \/ Cancel(q)
      PROVE  CancelInv'
  BY <1>6 DEF AppendQuestion, AppendAnswer, AppendMessage, Open, Abort, Cancel
<1>7. CASE DeleteDomain \/ \E c \in Conversations : DeleteConversation(c)
  BY <1>7 DEF DeleteDomain, DeleteConversation
<1> QED
  BY <1>1, <1>2, <1>3, <1>4, <1>5, <1>6, <1>7 DEF Next, QueryStep

LEMMA DoneStep == TypeOK /\ DoneInv /\ [Next]_vars => DoneInv'
<1> SUFFICES ASSUME TypeOK, DoneInv, [Next]_vars PROVE DoneInv'
  OBVIOUS
<1> USE DEF Goto, Send, rows, mine, stream, TypeOK, DoneInv
<1>1. CASE UNCHANGED vars
  BY <1>1 DEF vars
<1>2. ASSUME NEW q \in Queries, Poll(q) \/ Emit(q) \/ FlagExpires(q) PROVE DoneInv'
  BY <1>2 DEF Poll, AfterCancel, Emit, FlagExpires
<1>3. ASSUME NEW q \in Queries,
             SearchNotFound(q) \/ SearchUnavailable(q) \/ SearchEmpty(q) \/ SearchFound(q)
             \/ StreamError(q) \/ StreamDone(q) \/ AppendFails(q)
      PROVE  DoneInv'
  BY <1>3 DEF SearchNotFound, SearchUnavailable, SearchEmpty, SearchFound, StreamError,
     StreamDone, AppendFails, AfterFailure
<1>4. ASSUME NEW q \in Queries, AppendQuestion(q) \/ AppendAnswer(q) \/ Open(q) \/ Abort(q) \/ Cancel(q)
      PROVE  DoneInv'
  BY <1>4 DEF AppendQuestion, AppendAnswer, AppendMessage, Open, Abort, Cancel
<1>5. CASE DeleteDomain \/ \E c \in Conversations : DeleteConversation(c)
  BY <1>5 DEF DeleteDomain, DeleteConversation
<1> QED
  BY <1>1, <1>2, <1>3, <1>4, <1>5 DEF Next, QueryStep

-----------------------------------------------------------------------------
(* What is written *)

\* Steps of a query before and after its appends write nothing.
LEMMA WrittenUnwritten ==
    ASSUME TypeOK, WrittenInv, messages' = messages, conv' = conv,
           NEW q \in Queries, NEW s \in Steps, step' = [step EXCEPT ![q] = s],
           s = "answer" => step[q] = "answer",
           step[q] = "ended" => s = "ended",
           step[q] = "answer" => s \in {"answer", "ended"}
    PROVE  WrittenInv'
<1>1. \A p \in Queries, r \in Roles : Written(p, r)' <=> Written(p, r)
  BY WrittenSame
<1>2. \A p \in Queries : step'[p] = IF p = q THEN s ELSE step[p]
  BY DEF TypeOK
<1> QED
  BY <1>1, <1>2 DEF WrittenInv, Roles

LEMMA WrittenStep == TypeOK /\ WrittenInv /\ [Next]_vars => WrittenInv'
<1> SUFFICES ASSUME TypeOK, WrittenInv, [Next]_vars PROVE WrittenInv'
  OBVIOUS
<1> USE DEF Goto, rows, mine, stream
<1>1. ASSUME messages' = messages, step' = step, conv' = conv PROVE WrittenInv'
  <2>1. \A p \in Queries, r \in Roles : Written(p, r)' <=> Written(p, r)
    BY <1>1, WrittenSame
  <2> QED
    BY <1>1, <2>1 DEF WrittenInv, Roles
<1>2. CASE UNCHANGED vars
  BY <1>1, <1>2 DEF vars
<1>3. ASSUME NEW q \in Queries,
             Cancel(q) \/ FlagExpires(q)
      PROVE  WrittenInv'
  BY <1>1, <1>3 DEF Cancel, FlagExpires
<1>4. ASSUME NEW q \in Queries, Open(q) \/ SearchFound(q) \/ SearchEmpty(q) PROVE WrittenInv'
  BY <1>4, WrittenUnwritten DEF Open, SearchFound, SearchEmpty, Steps
<1>5. ASSUME NEW q \in Queries,
             SearchNotFound(q) \/ SearchUnavailable(q) \/ StreamError(q) \/ Abort(q)
      PROVE  WrittenInv'
  BY <1>5, WrittenUnwritten DEF SearchNotFound, SearchUnavailable, StreamError, Abort, Steps
<1>6. ASSUME NEW q \in Queries, StreamDone(q) \/ Emit(q) PROVE WrittenInv'
  BY <1>6, WrittenUnwritten DEF StreamDone, Emit, Steps
<1>7. ASSUME NEW q \in Queries, Poll(q) PROVE WrittenInv'
  <2>1. /\ step[q] = "stream" /\ messages' = messages /\ conv' = conv
        /\ step' = [step EXCEPT ![q] = "ended"] \/ step' = [step EXCEPT ![q] = "emit"]
    BY <1>7 DEF Poll, AfterCancel
  <2> QED
    BY <2>1, WrittenUnwritten DEF Steps
<1>8. ASSUME NEW q \in Queries, AppendFails(q) PROVE WrittenInv'
  BY <1>8, WrittenUnwritten DEF AppendFails, AfterFailure, Steps
<1>9. ASSUME NEW q \in Queries, AppendQuestion(q) PROVE WrittenInv'
  <2>1. \A p \in Queries, r \in Roles : Written(p, r)' <=> (Written(p, r) \/ (p = q /\ r = "user"))
    BY <1>9, WrittenAfter DEF AppendQuestion, Roles
  <2>2. \A p \in Queries : step'[p] = IF p = q THEN "answer" ELSE step[p]
    BY <1>9 DEF AppendQuestion, TypeOK
  <2>3. conv' = conv /\ step[q] = "question"
    BY <1>9 DEF AppendQuestion, AppendMessage
  <2> QED
    BY <2>1, <2>2, <2>3 DEF WrittenInv, Roles
<1>10. ASSUME NEW q \in Queries, AppendAnswer(q) PROVE WrittenInv'
  <2>1. \A p \in Queries, r \in Roles : Written(p, r)' <=> (Written(p, r) \/ (p = q /\ r = "assistant"))
    BY <1>10, WrittenAfter DEF AppendAnswer, Roles
  <2>2. \A p \in Queries : step'[p] = IF p = q THEN "ended" ELSE step[p]
    BY <1>10 DEF AppendAnswer, TypeOK
  <2>3. conv' = conv
    BY <1>10 DEF AppendAnswer, AppendMessage
  <2> QED
    BY <2>1, <2>2, <2>3 DEF WrittenInv, Roles
<1>11. CASE DeleteDomain
  BY <1>1, <1>11 DEF DeleteDomain
<1>12. ASSUME NEW c \in Conversations, DeleteConversation(c) PROVE WrittenInv'
  <2>1. \A p \in Queries, r \in Roles : Written(p, r)' <=> (Written(p, r) /\ ConvOf[p] # c)
    BY <1>12, QueryAssumption DEF DeleteConversation, TypeOK, Written
  <2>2. step' = step /\ conv' = conv \ {c}
    BY <1>12 DEF DeleteConversation
  <2> QED
    BY <2>1, <2>2 DEF WrittenInv, Roles
<1> QED
  BY <1>2, <1>3, <1>4, <1>5, <1>6, <1>7, <1>8, <1>9, <1>10, <1>11, <1>12 DEF Next, QueryStep

\* A step that leaves the logs alone, appends what was not there, or removes a conversation.
LEMMA LogStep ==
    ASSUME TypeOK, WrittenInv, [Next]_vars
    PROVE  \/ UNCHANGED messages /\ conv' = conv
           \/ \E q \in Queries, role \in Roles :
                 /\ AppendMessage(q, role) /\ ~Written(q, role)
                 /\ role = "assistant" => Written(q, "user")
                 /\ step[q] \in {"question", "answer"} /\ UNCHANGED terminal
           \/ \E c \in Conversations : DeleteConversation(c)
<1> USE DEF rows, mine, stream
<1>1. CASE UNCHANGED vars
  BY <1>1 DEF vars
<1>2. ASSUME NEW q \in Queries, AppendQuestion(q)
      PROVE  /\ AppendMessage(q, "user") /\ ~Written(q, "user")
             /\ step[q] \in {"question", "answer"} /\ UNCHANGED terminal
  BY <1>2 DEF AppendQuestion, WrittenInv
<1>3. ASSUME NEW q \in Queries, AppendAnswer(q)
      PROVE  /\ AppendMessage(q, "assistant") /\ ~Written(q, "assistant") /\ Written(q, "user")
             /\ step[q] \in {"question", "answer"} /\ UNCHANGED terminal
  BY <1>3 DEF AppendAnswer, AppendMessage, HasConversation, WrittenInv
<1>4. ASSUME NEW q \in Queries, QueryStep(q), ~AppendQuestion(q), ~AppendAnswer(q)
      PROVE  UNCHANGED messages /\ conv' = conv
  BY <1>4 DEF QueryStep, SearchNotFound, SearchUnavailable, SearchEmpty, SearchFound, Poll, Emit,
     StreamError, StreamDone, AppendFails
<1>5. ASSUME NEW q \in Queries, Open(q) \/ Abort(q) \/ Cancel(q) \/ FlagExpires(q)
      PROVE  UNCHANGED messages /\ conv' = conv
  BY <1>5 DEF Open, Abort, Cancel, FlagExpires
<1>6. CASE DeleteDomain
  BY <1>6 DEF DeleteDomain
<1> QED
  BY <1>1, <1>2, <1>3, <1>4, <1>5, <1>6 DEF Next, Roles

\* A query that outlives its conversation writes nothing.
DeletedStaysEmpty ==
    \A c \in Conversations : c \notin conv => messages[c] = <<>>

LEMMA DeletedStep == TypeOK /\ WrittenInv /\ DeletedStaysEmpty /\ [Next]_vars => DeletedStaysEmpty'
<1> SUFFICES ASSUME TypeOK, WrittenInv, DeletedStaysEmpty, [Next]_vars PROVE DeletedStaysEmpty'
  OBVIOUS
<1>1. ASSUME NEW q \in Queries, NEW role \in Roles, AppendMessage(q, role) PROVE DeletedStaysEmpty'
  BY <1>1 DEF AppendMessage, HasConversation, DeletedStaysEmpty, TypeOK
<1>2. ASSUME NEW c \in Conversations, DeleteConversation(c) PROVE DeletedStaysEmpty'
  BY <1>2 DEF DeleteConversation, DeletedStaysEmpty, TypeOK
<1>3. CASE UNCHANGED messages /\ conv' = conv
  BY <1>3 DEF DeletedStaysEmpty
<1> QED
  BY <1>1, <1>2, <1>3, LogStep

\* What AnswerFollowsQuestion says of one log.
Ordered(m) ==
    /\ \A i \in DOMAIN m : m[i].role = "assistant" =>
          \E k \in 1..(i - 1) : m[k] = Message(m[i].query, "user")
    /\ \A i, k \in DOMAIN m : m[i] = m[k] => i = k

\* The questions that stand before an answer still do when something is appended.
LEMMA OrderAfterAppend ==
    ASSUME NEW m \in Logs, NEW e \in [query : Queries, role : Roles], Ordered(m),
           \A i \in DOMAIN m : m[i] # e,
           e.role = "assistant" => \E k \in DOMAIN m : m[k] = Message(e.query, "user")
    PROVE  Ordered(m \o <<e>>)
<1> DEFINE n == m \o <<e>>
<1> DEFINE L == Len(m)
<1>1. /\ DOMAIN n = 1..(L + 1) /\ DOMAIN m = 1..L /\ L \in Nat
      /\ \A i \in 1..L : n[i] = m[i]
      /\ n[L + 1] = e
  BY AppendOne
<1> HIDE DEF L, n
<1>2. \A i \in DOMAIN n : i \in 1..L \/ i = L + 1
  BY <1>1
<1>3. ASSUME NEW i \in DOMAIN n, n[i].role = "assistant"
      PROVE  \E k \in 1..(i - 1) : n[k] = Message(n[i].query, "user")
  <2>1. CASE i \in 1..L
    <3>1. PICK k \in 1..(i - 1) : m[k] = Message(m[i].query, "user")
      BY <1>1, <1>3, <2>1 DEF Ordered
    <3>2. k \in 1..L
      BY <1>1, <2>1
    <3> QED
      BY <1>1, <2>1, <3>1, <3>2
  <2>2. CASE i = L + 1
    <3>1. PICK k \in 1..L : m[k] = Message(e.query, "user")
      BY <1>1, <1>3, <2>2
    <3>2. k \in 1..(i - 1)
      BY <1>1, <2>2
    <3> QED
      BY <1>1, <2>2, <3>1, <3>2
  <2> QED
    BY <1>2, <2>1, <2>2
<1>4. ASSUME NEW i \in DOMAIN n, NEW k \in DOMAIN n, n[i] = n[k] PROVE i = k
  BY <1>1, <1>2, <1>4 DEF Ordered
<1>5. Ordered(n)
  BY <1>3, <1>4 DEF Ordered
<1> QED
  BY <1>5 DEF n

LEMMA OrderStep == TypeOK /\ WrittenInv /\ AnswerFollowsQuestion /\ [Next]_vars => AnswerFollowsQuestion'
<1> SUFFICES ASSUME TypeOK, WrittenInv, AnswerFollowsQuestion, [Next]_vars
             PROVE  AnswerFollowsQuestion'
  OBVIOUS
<1>1. ASSUME NEW q \in Queries, NEW role \in Roles, AppendMessage(q, role), ~Written(q, role),
             role = "assistant" => Written(q, "user")
      PROVE  AnswerFollowsQuestion'
  <2> DEFINE c == ConvOf[q]  m == messages[c]  e == Message(q, role)  n == messages'[c]
  <2>1. c \in Conversations
    BY QueryAssumption
  <2>2. m \in Logs /\ e \in [query : Queries, role : Roles] /\ e.query = q /\ e.role = role
    BY <2>1 DEF TypeOK, Logs, Message
  <2>3. n = m \o <<e>> /\ \A d \in Conversations : d # c => messages'[d] = messages[d]
    BY <1>1, <2>1 DEF AppendMessage, TypeOK
  <2>4. Ordered(m)
    BY <2>1 DEF AnswerFollowsQuestion, Ordered
  <2>5. /\ \A i \in DOMAIN m : m[i] # e
        /\ e.role = "assistant" => \E k \in DOMAIN m : m[k] = Message(e.query, "user")
    BY <1>1, <2>2 DEF Written
  <2>6. Ordered(n)
    <3> HIDE DEF m, e, n
    <3> QED
      BY <2>2, <2>3, <2>4, <2>5, OrderAfterAppend
  <2>7. \A d \in Conversations : Ordered(messages'[d])
    <3>1. ASSUME NEW d \in Conversations PROVE Ordered(messages[d])
      BY DEF AnswerFollowsQuestion, Ordered
    <3>2. ASSUME NEW d \in Conversations PROVE d = c \/ messages'[d] = messages[d]
      BY <2>3
    <3> QED
      BY <2>6, <3>1, <3>2
  <2> QED
    BY <2>7 DEF AnswerFollowsQuestion, Ordered
<1>2. ASSUME NEW c \in Conversations, DeleteConversation(c) PROVE AnswerFollowsQuestion'
  <2>1. \A d \in Conversations : messages'[d] = IF d = c THEN <<>> ELSE messages[d]
    BY <1>2 DEF DeleteConversation, TypeOK
  <2>2. DOMAIN <<>> = {}
    BY EmptySeq
  <2>3. ASSUME NEW d \in Conversations
        PROVE  /\ \A i \in DOMAIN messages'[d] : messages'[d][i].role = "assistant" =>
                     \E k \in 1..(i - 1) : messages'[d][k] = Message(messages'[d][i].query, "user")
               /\ \A i, k \in DOMAIN messages'[d] : messages'[d][i] = messages'[d][k] => i = k
    BY <2>1, <2>2 DEF AnswerFollowsQuestion
  <2> QED
    BY <2>3 DEF AnswerFollowsQuestion
<1>3. CASE UNCHANGED messages
  BY <1>3 DEF AnswerFollowsQuestion
<1> QED
  BY <1>1, <1>2, <1>3, LogStep

-----------------------------------------------------------------------------
(* The promise of ConversationLog *)

\* A client is told once how its stream ended, and nothing is written in that step.
LEMMA TerminalStep ==
    ASSUME TypeOK, [Next]_vars, terminal' # terminal
    PROVE  /\ UNCHANGED <<conv, messages>>
           /\ \E q \in Queries, how \in {"done", "cancelled", "error"} :
                 terminal[q] = "none" /\ terminal' = [terminal EXCEPT ![q] = how]
<1> USE DEF rows, mine, stream, Send
<1>1. PICK q \in Queries : SearchUnavailable(q) \/ Poll(q) \/ StreamError(q) \/ StreamDone(q)
  <2>1. terminal' = terminal \/ \E q \in Queries : QueryStep(q)
    BY DEF Next, vars, Open, Abort, Cancel, FlagExpires, DeleteConversation, DeleteDomain
  <2> QED
    BY <2>1 DEF QueryStep, SearchNotFound, SearchEmpty, SearchFound, Emit, AppendQuestion, AppendAnswer, AppendFails
<1>2. step[q] \in {"search", "nothing", "stream"}
  BY <1>1 DEF SearchUnavailable, Poll, StreamError, StreamDone
<1>3. terminal[q] = "none"
  BY <1>2 DEF TypeOK
<1> QED
  BY <1>1, <1>3 DEF SearchUnavailable, Poll, StreamError, StreamDone

LEMMA LogNextStep ==
    ASSUME TypeOK, DoneInv, WrittenInv, [Next]_vars
    PROVE  [Log!LogNext]_(Log!logVars)
<1>1. CASE terminal' # terminal
  BY <1>1, TerminalStep DEF Log!LogNext, Log!Tell
<1>2. ASSUME terminal' = terminal, NEW q \in Queries, NEW role \in Roles,
             AppendMessage(q, role), ~Written(q, role), role = "assistant" => Written(q, "user"),
             step[q] \in {"question", "answer"}
      PROVE  Log!LogNext
  <2> DEFINE c == ConvOf[q]  m == messages[c]  e == Message(q, role)
  <2>1. c \in Conversations /\ m \in Logs /\ e \in [query : Queries, role : Roles]
    BY QueryAssumption DEF TypeOK, Logs, Message
  <2>2. m \o <<e>> = Append(m, e)
    <3> HIDE DEF m, e
    <3> QED
      BY <2>1, AppendIsConcat DEF Logs
  <2>3. messages' = [messages EXCEPT ![c] = Append(m, e)] /\ c \in conv /\ conv' = conv
    BY <1>2, <2>2 DEF AppendMessage, HasConversation
  <2>4. \A r : Log!InLog(q, r) <=> Written(q, r)
    BY DEF Log!InLog, Log!Entry, Written, Message
  <2>5. terminal[q] = "done"
    BY <1>2 DEF DoneInv
  <2>6. Log!Write(q, role)
    BY <1>2, <2>3, <2>4, <2>5 DEF Log!Write, Log!Entry, Message
  <2> QED
    BY <1>2, <2>4, <2>6 DEF Log!LogNext, Log!Question, Log!Answer, Roles
<1>3. ASSUME NEW c \in Conversations, DeleteConversation(c) PROVE Log!LogNext
  BY <1>3 DEF DeleteConversation, stream, Log!LogNext, Log!Remove
<1>4. CASE UNCHANGED <<messages, conv, terminal>>
  BY <1>4 DEF Log!logVars
<1> QED
  BY <1>1, <1>2, <1>3, <1>4, LogStep

-----------------------------------------------------------------------------
(* Theorems *)

QueryInv == TypeOK /\ TokensInv /\ CancelInv /\ DoneInv /\ WrittenInv

THEOREM QueryInvariant == Spec => []QueryInv
<1>1. Init => QueryInv
  <2>1. ASSUME Init PROVE TokensInv /\ CancelInv /\ DoneInv
    BY <2>1, QueryAssumption DEF Init, TokensInv, CancelInv, DoneInv
  <2>2. ASSUME Init PROVE WrittenInv
    BY <2>2, QueryAssumption, EmptySeq DEF Init, WrittenInv, Written
  <2> QED
    BY <2>1, <2>2, InitType DEF QueryInv
<1>2. QueryInv /\ [Next]_vars => QueryInv'
  BY TypeStep, TokensStep, CancelStep, DoneStep, WrittenStep DEF QueryInv
<1> QED
  BY <1>1, <1>2, PTL DEF Spec

\* Types: messages are in their own conversation, and a generator that has sent
\* its terminal event streams no more.
THEOREM QueryTypes == Spec => []TypeOK
BY QueryInvariant, PTL DEF QueryInv

\* At most one token follows a cancel.
THEOREM CancelPrompt == Spec => []CancelIsPrompt
<1>1. QueryInv => CancelIsPrompt
  BY DEF QueryInv, CancelInv, CancelIsPrompt
<1> QED
  BY <1>1, QueryInvariant, PTL

\* Only a query whose stream ended with the done event has messages.
THEOREM DoneIsWritten == Spec => []OnlyDoneIsWritten
<1>1. Init => OnlyDoneIsWritten
  BY QueryAssumption, EmptySeq DEF Init, OnlyDoneIsWritten, Written
<1>2. ASSUME QueryInv, OnlyDoneIsWritten, [Next]_vars PROVE OnlyDoneIsWritten'
  <2> USE DEF QueryInv
  <2>1. ASSUME NEW p \in Queries, NEW r \in Roles, Written(p, r)' PROVE Written(p, r) \/ terminal[p] = "done"
    <3>1. CASE UNCHANGED messages
      BY <2>1, <3>1, WrittenSame
    <3>2. ASSUME NEW q \in Queries, NEW role \in Roles, AppendMessage(q, role),
                 step[q] \in {"question", "answer"}
          PROVE  Written(p, r) \/ terminal[p] = "done"
      BY <1>2, <2>1, <3>2, WrittenAfter DEF DoneInv
    <3>3. ASSUME NEW c \in Conversations, DeleteConversation(c) PROVE Written(p, r)
      <4>1. messages'[ConvOf[p]] = IF ConvOf[p] = c THEN <<>> ELSE messages[ConvOf[p]]
        BY <1>2, <3>3, QueryAssumption DEF DeleteConversation, TypeOK
      <4> QED
        BY <2>1, <4>1, EmptySeq DEF Written
    <3> QED
      BY <1>2, <3>1, <3>2, <3>3, LogStep
  <2>2. ASSUME NEW p \in Queries, terminal[p] = "done" PROVE terminal'[p] = "done"
    <3>1. step[p] \in {"question", "answer", "ended"}
      BY <1>2, <2>2 DEF TypeOK
    <3>2. ASSUME NEW q \in Queries, QueryStep(q) PROVE terminal'[p] = "done"
      BY <1>2, <2>2, <3>1, <3>2 DEF QueryStep, SearchNotFound, SearchUnavailable, SearchEmpty,
         SearchFound, Poll, Emit, StreamError, StreamDone, AppendQuestion, AppendAnswer, AppendFails,
         Send, stream, TypeOK
    <3>3. ~(\E q \in Queries : QueryStep(q)) => UNCHANGED terminal
      BY <1>2 DEF Next, vars, stream, Open, Abort, Cancel, FlagExpires, DeleteConversation, DeleteDomain
    <3> QED
      BY <2>2, <3>2, <3>3
  <2> QED
    BY <1>2, <2>1, <2>2 DEF OnlyDoneIsWritten
<1> QED
  BY <1>1, <1>2, QueryInvariant, PTL DEF Spec

\* An answer stands after its question, and each is there once.
THEOREM AnswersFollow == Spec => []AnswerFollowsQuestion
<1>1. ASSUME Init PROVE AnswerFollowsQuestion
  <2>1. \A c \in Conversations : messages[c] = <<>>
    BY <1>1 DEF Init
  <2>2. DOMAIN <<>> = {}
    BY EmptySeq
  <2> QED
    BY <2>1, <2>2 DEF AnswerFollowsQuestion
<1>2. QueryInv /\ AnswerFollowsQuestion /\ [Next]_vars => AnswerFollowsQuestion'
  BY OrderStep DEF QueryInv
<1> QED
  BY <1>1, <1>2, QueryInvariant, PTL DEF Spec

\* The log that readers page through and the streams that clients wait for go as
\* ConversationLog says.
THEOREM ImplementsLog == Spec => ConversationLogSpec
<1>1. Init => Log!LogInit
  BY DEF Init, Log!LogInit
<1>2. QueryInv /\ [Next]_vars => [Log!LogNext]_(Log!logVars)
  BY LogNextStep DEF QueryInv
<1> QED
  BY <1>1, <1>2, QueryInvariant, PTL DEF Spec, ConversationLogSpec, Log!LogSpec

\* A deleted conversation stays empty.
THEOREM DeletedEmpty == Spec => []DeletedStaysEmpty
<1>1. Init => DeletedStaysEmpty
  BY DEF Init, DeletedStaysEmpty
<1>2. QueryInv /\ DeletedStaysEmpty /\ [Next]_vars => DeletedStaysEmpty'
  BY DeletedStep DEF QueryInv
<1> QED
  BY <1>1, <1>2, QueryInvariant, PTL DEF Spec

-----------------------------------------------------------------------------
(* How far a stream is from its end *)

\* The steps a generator has left that is at s and has sent t tokens; a token
\* takes two, its poll and its event.
StepsLeft(s, t) ==
    [idle |-> 2 * MaxTokens + 5, search |-> 2 * MaxTokens + 4, nothing |-> 3,
     stream |-> 2 * (MaxTokens - t) + 3, emit |-> 2 * (MaxTokens - t) + 2,
     question |-> 2, answer |-> 1, ended |-> 0][s]

Left(q) == StepsLeft(step[q], tokens[q])

LEMMA StepsFall ==
    ASSUME NEW t \in 0..MaxTokens
    PROVE  /\ \A s \in Steps : StepsLeft(s, t) \in Nat
           /\ \A s \in Steps \ {"ended"} : StepsLeft("ended", t) < StepsLeft(s, t)
           /\ StepsLeft("search", t) < StepsLeft("idle", t)
           /\ StepsLeft("stream", t) < StepsLeft("search", t)
           /\ \A s \in {"nothing", "stream"} : StepsLeft("question", t) < StepsLeft(s, t)
           /\ t < MaxTokens => StepsLeft("nothing", t + 1) < StepsLeft("search", t)
           /\ StepsLeft("emit", t) < StepsLeft("stream", t)
           /\ t < MaxTokens => StepsLeft("stream", t + 1) < StepsLeft("emit", t)
           /\ StepsLeft("answer", t) < StepsLeft("question", t)
BY QueryAssumption DEF StepsLeft, Steps

\* A query that moves has fewer steps left, and moves no other query.
LEMMA OneFalls ==
    ASSUME TypeOK, TokensInv, NEW q \in Queries, Open(q) \/ QueryStep(q) \/ Abort(q)
    PROVE  /\ Left(q)' < Left(q)
           /\ \A p \in Queries \ {q} : Left(p)' = Left(p)
<1> USE DEF Goto, stream
<1>0. step[q] \in Steps /\ tokens[q] \in 0..MaxTokens
  BY DEF TypeOK
<1>1. \A p \in Queries \ {q} : step'[p] = step[p] /\ tokens'[p] = tokens[p]
  BY DEF TypeOK, Open, Abort, QueryStep, SearchNotFound, SearchUnavailable, SearchEmpty,
     SearchFound, Poll, Emit, SendToken, StreamError, StreamDone, AppendQuestion, AppendAnswer,
     AppendFails
<1>2. CASE SearchEmpty(q) \/ Emit(q)
  <2>1. /\ tokens[q] < MaxTokens /\ tokens'[q] = tokens[q] + 1
        /\ \/ step[q] = "search" /\ step'[q] = "nothing"
           \/ step[q] = "emit" /\ step'[q] = "stream"
    BY <1>2, QueryAssumption DEF SearchEmpty, Emit, SendToken, TypeOK, TokensInv
  <2> QED
    BY <1>0, <1>1, <2>1, StepsFall DEF Left
<1>3. CASE ~SearchEmpty(q) /\ ~Emit(q)
  <2>1. /\ tokens'[q] = tokens[q]
        /\ \/ step[q] # "ended" /\ step'[q] = "ended"
           \/ step[q] = "idle" /\ step'[q] = "search"
           \/ step[q] = "search" /\ step'[q] = "stream"
           \/ step[q] \in {"nothing", "stream"} /\ step'[q] = "question"
           \/ step[q] = "stream" /\ step'[q] = "emit"
           \/ step[q] = "question" /\ step'[q] = "answer"
    BY <1>3 DEF TypeOK, Open, Abort, QueryStep, SearchNotFound, SearchUnavailable,
       SearchFound, Poll, AfterCancel, StreamError, StreamDone, AppendQuestion, AppendAnswer,
       AppendFails, AfterFailure
  <2> QED
    BY <1>0, <1>1, <2>1, StepsFall DEF Left
<1> QED
  BY <1>2, <1>3

\* Every step of a generator brings it nearer its end, and nothing that happens
\* around it - another query, a cancel, an expiring flag, a delete - takes it
\* back: a stream takes at most 2 * MaxTokens + 4 steps.
THEOREM StreamsRunDown ==
    Spec => /\ [](\A q \in Queries : Left(q) \in Nat)
            /\ [][\A q \in Queries : /\ QueryStep(q) => Left(q)' < Left(q)
                                     /\ Left(q)' = Left(q) \/ Left(q)' < Left(q)]_vars
<1>1. QueryInv => \A q \in Queries : Left(q) \in Nat
  BY StepsFall DEF QueryInv, TypeOK, Left
<1>2. QueryInv /\ Next => \A q \in Queries : /\ QueryStep(q) => Left(q)' < Left(q)
                                             /\ Left(q)' = Left(q) \/ Left(q)' < Left(q)
  <2> SUFFICES ASSUME QueryInv, Next, NEW q \in Queries
               PROVE  /\ QueryStep(q) => Left(q)' < Left(q)
                      /\ Left(q)' = Left(q) \/ Left(q)' < Left(q)
    OBVIOUS
  <2>1. ASSUME NEW p \in Queries, Open(p) \/ QueryStep(p) \/ Abort(p)
        PROVE  (p = q => Left(q)' < Left(q)) /\ (p # q => Left(q)' = Left(q))
    BY <2>1, OneFalls DEF QueryInv
  <2>2. UNCHANGED <<step, tokens>> => Left(q)' = Left(q)
    BY DEF Left
  <2>3. \/ UNCHANGED <<step, tokens>>
        \/ \E p \in Queries : Open(p) \/ QueryStep(p) \/ Abort(p)
    BY DEF Next, Cancel, FlagExpires, DeleteConversation, DeleteDomain, stream
  <2> QED
    BY <2>1, <2>2, <2>3
<1> QED
  BY <1>1, <1>2, QueryInvariant, PTL DEF Spec
=============================================================================
