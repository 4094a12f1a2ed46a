------------------------- MODULE MessagePagingProofs -------------------------
(***************************************************************************)
(* Proofs about MessagePaging, for any number of conversations, sessions   *)
(* and messages and for any page sizes.                                    *)
(***************************************************************************)
EXTENDS MessagePaging, FiniteSetTheorems, TLAPS

-----------------------------------------------------------------------------
(* The inductive invariant *)

\* A message is in one place: in one conversation, or in one open transaction,
\* where it is later than everything committed to that conversation.
MessagesInv ==
    /\ \A c \in Conversations \ alive : messages[c] = {}
    /\ \A c \in Conversations : \A m \in messages[c] : m <= clock
    /\ \A c, d \in Conversations : c # d => messages[c] \cap messages[d] = {}
    /\ \A w \in Writers : writer[w].message # 0 =>
          /\ writer[w].conv \in Conversations
          /\ writer[w].message <= clock
          /\ \A c \in Conversations : writer[w].message \notin messages[c]
          /\ \A m \in messages[writer[w].conv] : m < writer[w].message
          /\ \A v \in Writers : writer[v].message = writer[w].message => v = w

\* A cursor is a message that has been committed to its conversation, and the
\* request under way carries a cursor of the client.
CursorInv ==
    /\ \A c \in Conversations : cursor[c] <= clock
    /\ \A c \in alive : cursor[c] = First \/ cursor[c] \in messages[c]
    /\ \A c, d \in Conversations : c # d => cursor[d] \notin messages[c]
    /\ \A c \in Conversations, w \in Writers : cursor[c] # First =>
          writer[w].message # cursor[c]
    /\ request # NoRequest =>
          /\ request.conv \in Conversations
          /\ request.checked => request.cursor = cursor[request.conv]
          /\ ~request.checked =>
                request.cursor # First /\ \E d \in Conversations : request.cursor = cursor[d]

PagingInv == TypeOK /\ MessagesInv /\ CursorInv /\ ShownIsPrefix

USE PagingAssumption DEF Messages, First

LEMMA InitPaging == Init => PagingInv
BY DEF Init, PagingInv, TypeOK, MessagesInv, CursorInv, ShownIsPrefix, Idle, NoRequest

-----------------------------------------------------------------------------
(* append_message and delete_conversation *)

LEMMA UpdateStep ==
    ASSUME PagingInv, NEW w \in Writers, NEW c \in Conversations, Update(w, c)
    PROVE  PagingInv'
<1> USE DEF Update, PagingInv, rows, client
<1>1. TypeOK'
  BY DEF TypeOK, Free, Idle
<1>2. MessagesInv'
  BY DEF MessagesInv, TypeOK, Idle
<1>3. CursorInv' /\ ShownIsPrefix'
  BY DEF CursorInv, ShownIsPrefix, TypeOK, Idle
<1> QED
  BY <1>1, <1>2, <1>3

LEMMA InsertStep ==
    ASSUME PagingInv, NEW w \in Writers, Insert(w)
    PROVE  PagingInv'
<1> USE DEF Insert, PagingInv, rows, client
<1>1. TypeOK'
  BY DEF TypeOK
<1>2. MessagesInv'
  BY DEF MessagesInv, TypeOK
<1>3. CursorInv' /\ ShownIsPrefix'
  BY DEF CursorInv, ShownIsPrefix, TypeOK
<1> QED
  BY <1>1, <1>2, <1>3

\* The lock decides: what is committed is later than all there is, so it is
\* after every cursor.
LEMMA CommitStep ==
    ASSUME PagingInv, NEW w \in Writers, Commit(w)
    PROVE  PagingInv'
<1> DEFINE t == writer[w]
<1> USE DEF PagingInv
<1>0. /\ t.conv \in Conversations /\ t.conv \in alive
      /\ t.message \in Messages /\ t.message <= clock
      /\ messages' = [messages EXCEPT ![t.conv] = @ \cup {t.message}]
      /\ writer' = [writer EXCEPT ![w] = Idle]
      /\ UNCHANGED <<alive, clock, request, client>>
  BY DEF Commit, TypeOK, MessagesInv
<1>1. TypeOK'
  BY <1>0 DEF TypeOK, Idle, client
<1>2. MessagesInv'
  <2>1. \A v \in Writers : v # w => writer'[v] = writer[v] /\ writer[v].conv # t.conv
    BY <1>0 DEF TypeOK
  <2>2. writer'[w].message = 0
    BY <1>0 DEF TypeOK, Idle
  <2>3. \A c \in Conversations :
           messages'[c] = IF c = t.conv THEN messages[c] \cup {t.message} ELSE messages[c]
    BY <1>0 DEF TypeOK
  <2> QED
    BY <1>0, <2>1, <2>2, <2>3 DEF MessagesInv, TypeOK, Commit
<1>3. t.message > cursor[t.conv]
  BY <1>0 DEF MessagesInv, CursorInv, TypeOK, Commit
<1>4. CursorInv'
  <2>1. \A v \in Writers : writer'[v].message \in {0, writer[v].message}
    BY <1>0 DEF TypeOK, Idle
  <2>2. \A c \in Conversations : cursor[c] # t.message
    BY <1>0, <1>3 DEF CursorInv, TypeOK
  <2>3. \A c \in Conversations : messages'[c] \in {messages[c], messages[c] \cup {t.message}}
    BY <1>0 DEF TypeOK
  <2> QED
    BY <1>0, <2>1, <2>2, <2>3 DEF CursorInv, TypeOK, client
<1>5. ShownIsPrefix'
  BY <1>0, <1>3 DEF ShownIsPrefix, TypeOK, client
<1> QED
  BY <1>1, <1>2, <1>4, <1>5

LEMMA RollbackStep ==
    ASSUME PagingInv, NEW w \in Writers, Rollback(w)
    PROVE  PagingInv'
<1> USE DEF Rollback, PagingInv, rows, client
<1>1. TypeOK'
  BY DEF TypeOK, Idle
<1>2. MessagesInv'
  BY DEF MessagesInv, TypeOK, Idle
<1>3. CursorInv' /\ ShownIsPrefix'
  BY DEF CursorInv, ShownIsPrefix, TypeOK, Idle
<1> QED
  BY <1>1, <1>2, <1>3

LEMMA DeleteStep ==
    ASSUME PagingInv, NEW c \in Conversations, DeleteConversation(c)
    PROVE  PagingInv'
<1> USE DEF DeleteConversation, PagingInv, client
<1>1. TypeOK'
  BY DEF TypeOK, Free
<1>2. MessagesInv'
  BY DEF MessagesInv, TypeOK
<1>3. CursorInv' /\ ShownIsPrefix'
  BY DEF CursorInv, ShownIsPrefix, TypeOK
<1> QED
  BY <1>1, <1>2, <1>3

-----------------------------------------------------------------------------
(* list_messages_endpoint *)

LEMMA AskStep ==
    ASSUME PagingInv, NEW c \in Conversations, Ask(c)
    PROVE  PagingInv'
<1> USE DEF Ask, PagingInv, rows, client
<1>1. TypeOK'
  BY DEF TypeOK
<1>2. MessagesInv' /\ ShownIsPrefix'
  BY DEF MessagesInv, ShownIsPrefix
<1>3. CursorInv'
  <2>1. PICK d \in Conversations :
           /\ d = c \/ cursor[d] # First
           /\ request' = [conv |-> c, cursor |-> cursor[d], checked |-> cursor[d] = First]
    OBVIOUS
  <2>2. request'.conv = c /\ request'.cursor = cursor[d] /\ (request'.checked <=> cursor[d] = First)
    BY <2>1
  <2>3. request'.checked => request'.cursor = cursor[request'.conv]
    BY <2>1, <2>2
  <2> QED
    BY <2>2, <2>3 DEF CursorInv
<1> QED
  BY <1>1, <1>2, <1>3

\* A cursor that is a message of this conversation is the one of this
\* conversation.
LEMMA LookUpStep == PagingInv /\ LookUp => PagingInv'
<1> SUFFICES ASSUME PagingInv, LookUp PROVE PagingInv'
  OBVIOUS
<1> USE DEF LookUp, PagingInv, rows, client
<1>1. TypeOK'
  BY DEF TypeOK, NoRequest
<1>2. MessagesInv' /\ ShownIsPrefix'
  BY DEF MessagesInv, ShownIsPrefix
<1>3. CursorInv'
  <2>1. CASE Belongs(request.cursor, request.conv)
    <3>1. request.cursor = cursor[request.conv]
      BY <2>1 DEF CursorInv, Belongs
    <3>2. /\ request'.conv = request.conv /\ request'.cursor = request.cursor
          /\ request'.checked = TRUE
      BY <2>1 DEF TypeOK
    <3> QED
      BY <3>1, <3>2 DEF CursorInv
  <2>2. CASE ~Belongs(request.cursor, request.conv)
    BY <2>2 DEF CursorInv
  <2> QED
    BY <2>1, <2>2
<1> QED
  BY <1>1, <1>2, <1>3

\* What a page request reads, and what it makes of it.
Left(c) == {m \in messages[c] : request.cursor = First \/ Follows(m, request.cursor)}
Page(c, last) == {m \in Left(c) : m <= last}

LEMMA MessagesFinite ==
    ASSUME NEW S \in SUBSET Messages
    PROVE  IsFiniteSet(S) /\ Cardinality(S) \in Nat
<1>1. IsFiniteSet(1..MaxMessages)
  BY FS_Interval
<1>2. IsFiniteSet(S)
  BY <1>1, FS_Subset
<1> QED
  BY <1>2, FS_CardinalityType

LEMMA ReadFacts ==
    ASSUME PagingInv, Read
    PROVE  \E n \in PageSizes, last \in Left(request.conv) \cup {cursor[request.conv]} :
             LET c == request.conv IN
             /\ c \in Conversations
             /\ Left(c) = {m \in messages[c] : m > cursor[c]}
             /\ Left(c) \in SUBSET Messages /\ Page(c, last) \in SUBSET Left(c)
             /\ Cardinality(Page(c, last)) =
                   IF Cardinality(Left(c)) > n THEN n ELSE Cardinality(Left(c))
             /\ more' = [more EXCEPT ![c] = Cardinality(Left(c)) > n]
             /\ shown' = [shown EXCEPT ![c] = @ \cup Page(c, last)]
             /\ served' = [served EXCEPT ![c] = @ + Cardinality(Page(c, last))]
             /\ cursor' = [cursor EXCEPT ![c] = last]
             /\ request' = NoRequest /\ UNCHANGED <<rows, clock, writer>>
<1> DEFINE c == request.conv
<1> USE DEF PagingInv
<1>1. c \in Conversations /\ request.cursor = cursor[c] /\ cursor[c] \in {0} \cup Messages
  BY DEF Read, CursorInv, NoRequest, TypeOK
<1>2. Left(c) = {m \in messages[c] : m > cursor[c]} /\ Left(c) \in SUBSET Messages
  BY <1>1 DEF Left, Follows, TypeOK
<1>3. Cardinality(Left(c)) \in Nat
  BY <1>2, MessagesFinite
<1>4. PICK n \in PageSizes, last \in Left(c) \cup {cursor[c]} :
         /\ Cardinality(Page(c, last)) =
               IF Fetched(Left(c), n) > n THEN n ELSE Fetched(Left(c), n)
         /\ more' = [more EXCEPT ![c] = Fetched(Left(c), n) > n]
         /\ shown' = [shown EXCEPT ![c] = @ \cup Page(c, last)]
         /\ served' = [served EXCEPT ![c] = @ + Cardinality(Page(c, last))]
         /\ cursor' = [cursor EXCEPT ![c] = last]
  BY <1>1 DEF Read, Left, Page
<1>5. /\ Fetched(Left(c), n) > n <=> Cardinality(Left(c)) > n
      /\ ~(Fetched(Left(c), n) > n) => Fetched(Left(c), n) = Cardinality(Left(c))
  BY <1>3 DEF Fetched, Limit
<1> QED
  BY <1>1, <1>2, <1>4, <1>5 DEF Read, Page

\* The page follows on what was shown, and ends with the new cursor.
LEMMA PageExtends ==
    ASSUME PagingInv, NEW c \in alive, NEW last \in Left(c) \cup {cursor[c]},
           Left(c) = {m \in messages[c] : m > cursor[c]}
    PROVE  /\ shown[c] \cup Page(c, last) = {m \in messages[c] : m <= last}
           /\ shown[c] \cap Page(c, last) = {}
           /\ last = First \/ last \in messages[c]
<1>0. c \in Conversations /\ messages[c] \in SUBSET Nat /\ cursor[c] \in Nat
  BY DEF PagingInv, TypeOK
<1> QED
  BY <1>0 DEF PagingInv, ShownIsPrefix, CursorInv, Page

LEMMA ReadStep == PagingInv /\ Read => PagingInv'
<1> SUFFICES ASSUME PagingInv, Read PROVE PagingInv'
  OBVIOUS
<1> DEFINE c == request.conv
<1>1. PICK n \in PageSizes, last \in Left(c) \cup {cursor[c]} :
         /\ c \in Conversations
         /\ Left(c) = {m \in messages[c] : m > cursor[c]}
         /\ Left(c) \in SUBSET Messages /\ Page(c, last) \in SUBSET Left(c)
         /\ more' = [more EXCEPT ![c] = Cardinality(Left(c)) > n]
         /\ shown' = [shown EXCEPT ![c] = @ \cup Page(c, last)]
         /\ served' = [served EXCEPT ![c] = @ + Cardinality(Page(c, last))]
         /\ cursor' = [cursor EXCEPT ![c] = last]
         /\ request' = NoRequest /\ UNCHANGED <<rows, clock, writer>>
  BY ReadFacts
<1> USE DEF PagingInv
<1>2. last \in {0} \cup Messages /\ Cardinality(Page(c, last)) \in Nat
  BY <1>1, MessagesFinite DEF TypeOK
<1>3. TypeOK'
  BY <1>1, <1>2 DEF TypeOK, NoRequest, rows
<1>4. MessagesInv'
  BY <1>1 DEF MessagesInv, rows
<1>5. CursorInv'
  <2>1. last = cursor[c] \/ last \in messages[c]
    BY <1>1
  <2>2. \A d \in Conversations : cursor'[d] = IF d = c THEN last ELSE cursor[d]
    BY <1>1 DEF TypeOK
  <2> QED
    BY <1>1, <2>1, <2>2 DEF CursorInv, MessagesInv, TypeOK, rows, NoRequest
<1>6. ShownIsPrefix'
  <2>1. c \in alive => shown[c] \cup Page(c, last) = {m \in messages[c] : m <= last}
    BY <1>1, PageExtends
  <2> QED
    BY <1>1, <2>1 DEF ShownIsPrefix, TypeOK, rows
<1> QED
  BY <1>3, <1>4, <1>5, <1>6

LEMMA PagingStep == PagingInv /\ [Next]_vars => PagingInv'
<1> SUFFICES ASSUME PagingInv, [Next]_vars PROVE PagingInv'
  OBVIOUS
<1>1. CASE UNCHANGED vars
  BY <1>1 DEF PagingInv, TypeOK, MessagesInv, CursorInv, ShownIsPrefix, vars, rows, client
<1> QED
  BY <1>1, UpdateStep, InsertStep, CommitStep, RollbackStep, DeleteStep, AskStep,
     LookUpStep, ReadStep DEF Next

THEOREM PagingInvariant == Spec => []PagingInv
BY InitPaging, PagingStep, PTL DEF Spec

-----------------------------------------------------------------------------
(* Theorems *)

\* The types hold, and a conversation with an open append exists and has one
\* append at a time.
THEOREM PagingTypes == Spec => []TypeOK
BY PagingInvariant, PTL DEF PagingInv

\* A client has exactly the messages up to its cursor.
THEOREM NothingSkipped == Spec => []ShownIsPrefix
BY PagingInvariant, PTL DEF PagingInv

\* No message is sent twice: a page has nothing in common with what was shown.
THEOREM NothingTwice == Spec => []ServedOnce
<1>1. Init => ServedOnce
  BY FS_EmptySet DEF Init, ServedOnce
<1>2. ASSUME PagingInv, ServedOnce, [Next]_vars PROVE ServedOnce'
  <2>1. CASE Read
    <3> DEFINE c == request.conv
    <3>1. PICK last \in Left(c) \cup {cursor[c]} :
             /\ c \in Conversations
             /\ Left(c) = {m \in messages[c] : m > cursor[c]}
             /\ Left(c) \in SUBSET Messages /\ Page(c, last) \in SUBSET Left(c)
             /\ shown' = [shown EXCEPT ![c] = @ \cup Page(c, last)]
             /\ served' = [served EXCEPT ![c] = @ + Cardinality(Page(c, last))]
      BY <1>2, <2>1, ReadFacts
    <3>2. shown[c] \cap Page(c, last) = {}
      <4>1. CASE c \in alive
        BY <1>2, <3>1, <4>1, PageExtends
      <4>2. CASE c \notin alive
        BY <1>2, <3>1, <4>2 DEF PagingInv, MessagesInv
      <4> QED
        BY <4>1, <4>2
    <3>3. shown[c] \in SUBSET Messages /\ Page(c, last) \in SUBSET Messages
      BY <1>2, <3>1 DEF PagingInv, TypeOK
    <3>4. Cardinality(shown[c] \cup Page(c, last)) = Cardinality(shown[c]) + Cardinality(Page(c, last))
      BY <3>2, <3>3, MessagesFinite, FS_Union, FS_EmptySet
    <3> QED
      BY <1>2, <3>1, <3>4 DEF ServedOnce, PagingInv, TypeOK
  <2>2. CASE ~Read
    <3>1. UNCHANGED <<shown, served>>
      BY <1>2, <2>2 DEF Next, vars, client, Update, Insert, Commit, Rollback,
         DeleteConversation, Ask, LookUp
    <3> QED
      BY <1>2, <3>1 DEF ServedOnce
  <2> QED
    BY <2>1, <2>2
<1> QED
  BY <1>1, <1>2, PagingInvariant, PTL DEF Spec

\* What a client has read is the beginning of its conversation, once.
THEOREM ReadInOrder == Spec => []ReadOnceInOrder
BY NothingSkipped, NothingTwice, PTL DEF ReadOnceInOrder

\* There is a next_cursor exactly when something is left to read.
THEOREM LastPageIsLast == Spec => NextCursorTells
<1>1. ASSUME PagingInv, [Next]_vars, NEW c \in alive, request.conv = c, request.checked,
             request' = NoRequest
      PROVE  more'[c] <=> shown'[c] # messages[c]
  <2>0. c \in Conversations /\ request # NoRequest
    BY <1>1 DEF PagingInv, TypeOK, NoRequest
  <2>1. Read
    BY <1>1, <2>0 DEF Next, vars, client, Update, Insert, Commit, Rollback,
       DeleteConversation, Ask, LookUp
  <2>2. PICK n \in PageSizes, last \in Left(c) \cup {cursor[c]} :
           /\ Left(c) = {m \in messages[c] : m > cursor[c]}
           /\ Left(c) \in SUBSET Messages /\ Page(c, last) \in SUBSET Left(c)
           /\ Cardinality(Page(c, last)) =
                 IF Cardinality(Left(c)) > n THEN n ELSE Cardinality(Left(c))
           /\ more' = [more EXCEPT ![c] = Cardinality(Left(c)) > n]
           /\ shown' = [shown EXCEPT ![c] = @ \cup Page(c, last)]
    BY <1>1, <2>1, ReadFacts
  <2>3. more'[c] <=> Page(c, last) # Left(c)
    <3>1. IsFiniteSet(Left(c)) /\ Cardinality(Left(c)) \in Nat
      BY <2>2, MessagesFinite
    <3>2. Cardinality(Left(c)) = Cardinality(Page(c, last)) => Left(c) = Page(c, last)
      BY <2>2, <3>1, FS_Subset
    <3>3. more'[c] <=> Cardinality(Left(c)) > n
      BY <1>1, <2>0, <2>2 DEF PagingInv, TypeOK
    <3> QED
      BY <2>2, <3>1, <3>2, <3>3
  <2>4. shown[c] = {m \in messages[c] : m <= cursor[c]}
    BY <1>1 DEF PagingInv, ShownIsPrefix
  <2>5. shown'[c] = shown[c] \cup Page(c, last)
    BY <1>1, <2>0, <2>2 DEF PagingInv, TypeOK
  <2>6. messages[c] \in SUBSET Nat /\ cursor[c] \in Nat
    BY <1>1, <2>0 DEF PagingInv, TypeOK
  <2>7. shown'[c] = messages[c] <=> Page(c, last) = Left(c)
    <3>1. messages[c] = shown[c] \cup Left(c) /\ shown[c] \cap Left(c) = {}
      BY <2>2, <2>4, <2>6
    <3> QED
      BY <2>2, <2>5, <3>1
  <2> QED
    BY <2>3, <2>7
<1>2. PagingInv /\ [Next]_vars =>
         \A c \in alive : request.conv = c /\ request.checked /\ request' = NoRequest =>
            (more'[c] <=> shown'[c] # messages[c])
  BY <1>1
<1> QED
  BY <1>2, PagingInvariant, PTL DEF Spec, NextCursorTells

\* Paging through a conversation implements reading a log that grows at its end.
THEOREM ImplementsReader == Spec => ReaderSpec
<1> USE DEF Reader!ReaderNext, Reader!readerVars
<1>1. Init => Reader!ReaderInit
  BY DEF Init, Reader!ReaderInit
<1>2. ASSUME PagingInv, [Next]_vars PROVE [Reader!ReaderNext]_(Reader!readerVars)
  <2>1. CASE \E w \in Writers : Commit(w)
    <3>1. PICK w \in Writers : Commit(w)
      BY <2>1
    <3>2. Reader!Add(writer[w].conv)
      BY <1>2, <3>1 DEF Commit, Reader!Add, PagingInv, MessagesInv, TypeOK, client
    <3> QED
      BY <1>2, <3>1, <3>2 DEF Commit, PagingInv, MessagesInv
  <2>2. CASE \E c \in Conversations : DeleteConversation(c)
    BY <2>2 DEF DeleteConversation, Reader!Remove, client
  <2>3. CASE Read
    <3> DEFINE c == request.conv
    <3>1. PICK last \in Left(c) \cup {cursor[c]} :
             /\ c \in Conversations
             /\ Left(c) = {m \in messages[c] : m > cursor[c]}
             /\ Left(c) \in SUBSET Messages /\ Page(c, last) \in SUBSET Left(c)
             /\ shown' = [shown EXCEPT ![c] = @ \cup Page(c, last)]
             /\ UNCHANGED rows
      BY <1>2, <2>3, ReadFacts
    <3>2. Page(c, last) = {} => shown' = shown
      BY <1>2, <3>1 DEF PagingInv, TypeOK
    <3>3. CASE Page(c, last) = {}
      BY <3>1, <3>2, <3>3 DEF rows
    <3>4. CASE Page(c, last) # {}
      <4>1. c \in alive
        BY <1>2, <3>1, <3>4 DEF PagingInv, MessagesInv
      <4>2. last \in Messages
        BY <1>2, <3>1, <3>4, <4>1, PageExtends DEF PagingInv, TypeOK, Page
      <4>3. shown[c] \cup Page(c, last) = Reader!UpTo(c, last)
        BY <1>2, <3>1, <4>1, PageExtends DEF Reader!UpTo
      <4>4. Reader!Show(c)
        BY <1>2, <3>1, <4>1, <4>2, <4>3 DEF Reader!Show, rows, PagingInv, TypeOK
      <4> QED
        BY <3>1, <4>4
    <3> QED
      BY <3>3, <3>4
  <2>4. CASE ~(\E w \in Writers : Commit(w)) /\ ~(\E c \in Conversations : DeleteConversation(c)) /\ ~Read
    BY <1>2, <2>4 DEF Next, vars, rows, client, Update, Insert, Rollback, Ask, LookUp
  <2> QED
    BY <2>1, <2>2, <2>3, <2>4
<1> QED
  BY <1>1, <1>2, PagingInvariant, PTL DEF Spec, ReaderSpec, Reader!ReaderSpec
=============================================================================
