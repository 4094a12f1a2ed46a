---------------------------- MODULE MessagePaging ----------------------------
(***************************************************************************)
(* A client pages through its conversations (list_messages_endpoint and    *)
(* get_messages of app/conversations) while append_message and             *)
(* delete_conversation run in other sessions.                              *)
(*                                                                         *)
(* Here append_message is what it is to PostgreSQL: a transaction that     *)
(* updates the row of the conversation, inserts the message and commits.   *)
(* A message is named by its created_at, which the process takes when it   *)
(* sends the INSERT, before anybody else can see the row.                  *)
(***************************************************************************)
EXTENDS Naturals, FiniteSets

CONSTANTS
    Conversations,
    Writers,      \* sessions that run append_message
    PageSizes,
    MaxMessages,  \* bound: messages inserted in all
    None          \* no conversation

ASSUME PagingAssumption ==
    /\ None \notin Conversations
    /\ PageSizes \subseteq Nat \ {0}
    /\ MaxMessages \in Nat

Messages == 1..MaxMessages
First == 0  \* the cursor of a request for the first page

VARIABLES
    alive,     \* the conversations that exist
    messages,  \* the committed messages of a conversation
    clock,     \* the last created_at
    writer,    \* the transaction of a session: conversation, message (0: none yet)
    request,   \* the page request under way: conversation, cursor, checked or not
    cursor,    \* the last message the client has seen of a conversation
    shown,     \* what it has been shown of a conversation
    served,    \* ghost: how many messages it has been sent
    more       \* the last answer had a next_cursor

rows   == <<alive, messages>>
client == <<cursor, shown, served, more>>
vars   == <<rows, clock, writer, request, client>>

Idle      == [conv |-> None, message |-> 0]
NoRequest == [conv |-> None, cursor |-> First, checked |-> FALSE]

Init ==
    /\ alive = Conversations
    /\ messages = [c \in Conversations |-> {}]
    /\ clock = 0
    /\ writer = [w \in Writers |-> Idle]
    /\ request = NoRequest
    /\ cursor = [c \in Conversations |-> First]
    /\ shown = [c \in Conversations |-> {}]
    /\ served = [c \in Conversations |-> 0]
    /\ more = [c \in Conversations |-> FALSE]

-----------------------------------------------------------------------------
(* append_message and delete_conversation *)

\* Mutant: the conversation is not updated, so its row is not locked.
FreeAlways(c) == TRUE

\* Nobody else has an uncommitted UPDATE of the row.
Free(c) == \A w \in Writers : writer[w].conv # c

\* updated_at changes with every message; the mapper flushes it before the
\* INSERT, and the row stays locked until the transaction ends.
Update(w, c) ==
    /\ writer[w] = Idle
    /\ c \in alive
    /\ Free(c)
    /\ writer' = [writer EXCEPT ![w].conv = c]
    /\ UNCHANGED <<rows, clock, request, client>>

Insert(w) ==
    /\ writer[w].conv # None /\ writer[w].message = 0
    /\ clock < MaxMessages
    /\ clock' = clock + 1
    /\ writer' = [writer EXCEPT ![w].message = clock + 1]
    /\ UNCHANGED <<rows, request, client>>

Commit(w) ==
    LET t == writer[w] IN
    /\ t.message # 0
    /\ messages' = [messages EXCEPT ![t.conv] = @ \cup {t.message}]
    /\ writer' = [writer EXCEPT ![w] = Idle]
    /\ UNCHANGED <<alive, clock, request, client>>

\* A lost connection, a cancelled request.
Rollback(w) ==
    /\ writer[w] # Idle
    /\ writer' = [writer EXCEPT ![w] = Idle]
    /\ UNCHANGED <<rows, clock, request, client>>

\* The DELETE waits for the row, and the messages go with it.
DeleteConversation(c) ==
    /\ c \in alive
    /\ Free(c)
    /\ alive' = alive \ {c}
    /\ messages' = [messages EXCEPT ![c] = {}]
    /\ UNCHANGED <<clock, writer, request, client>>

-----------------------------------------------------------------------------
(* list_messages_endpoint: three statements, three snapshots *)

\* get_conversation_or_404.  The client continues after the last message it has
\* seen, or has mixed up two of its conversations.
Ask(c) ==
    /\ request = NoRequest
    /\ c \in alive
    /\ \E d \in Conversations :
          /\ d = c \/ cursor[d] # First
          /\ request' = [conv |-> c, cursor |-> cursor[d], checked |-> cursor[d] = First]
    /\ UNCHANGED <<rows, clock, writer, client>>

\* Mutant: any message will do.
BelongsAnywhere(m, c) == \E d \in Conversations : m \in messages[d]

\* The cursor message exists and is one of this conversation.
Belongs(m, c) == m \in messages[c]

LookUp ==
    /\ request # NoRequest /\ ~request.checked
    /\ request' = IF Belongs(request.cursor, request.conv)
                  THEN [request EXCEPT !.checked = TRUE]
                  ELSE NoRequest
    /\ UNCHANGED <<rows, clock, writer, client>>

\* Mutant: the page begins with the cursor message.
FollowsOrIs(m, k) == m >= k

\* created_at is strictly after that of the cursor message.
Follows(m, k) == m > k

\* Mutant: exactly a page is fetched.
LimitExact(n) == n

\* One more than a page is fetched, to know whether there is a next one.
Limit(n) == n + 1

Fetched(S, n) == IF Cardinality(S) <= Limit(n) THEN Cardinality(S) ELSE Limit(n)

\* ORDER BY created_at LIMIT: the page is what is left up to some message.
Read ==
    LET c    == request.conv
        left == {m \in messages[c] : request.cursor = First \/ Follows(m, request.cursor)}
    IN
    /\ request.checked
    /\ \E n \in PageSizes, last \in left \cup {request.cursor} :
          LET page == {m \in left : m <= last} IN
          /\ Cardinality(page) = IF Fetched(left, n) > n THEN n ELSE Fetched(left, n)
          /\ more' = [more EXCEPT ![c] = Fetched(left, n) > n]
          /\ shown' = [shown EXCEPT ![c] = @ \cup page]
          /\ served' = [served EXCEPT ![c] = @ + Cardinality(page)]
          /\ cursor' = [cursor EXCEPT ![c] = last]
    /\ request' = NoRequest
    /\ UNCHANGED <<rows, clock, writer>>

-----------------------------------------------------------------------------

Next ==
    \/ \E w \in Writers, c \in Conversations : Update(w, c)
    \/ \E w \in Writers : Insert(w) \/ Commit(w) \/ Rollback(w)
    \/ \E c \in Conversations : DeleteConversation(c) \/ Ask(c)
    \/ LookUp \/ Read

Spec == Init /\ [][Next]_vars

-----------------------------------------------------------------------------
(* Properties *)

\* Each variable stays in its range, and one transaction at a time has a
\* conversation, which exists as long.
TypeOK ==
    /\ alive \subseteq Conversations
    /\ messages \in [Conversations -> SUBSET Messages]
    /\ clock \in 0..MaxMessages
    /\ writer \in [Writers -> [conv : Conversations \cup {None}, message : {0} \cup Messages]]
    /\ request \in [conv : Conversations \cup {None}, cursor : {First} \cup Messages,
                    checked : BOOLEAN]
    /\ cursor \in [Conversations -> {First} \cup Messages]
    /\ shown \in [Conversations -> SUBSET Messages]
    /\ served \in [Conversations -> Nat]
    /\ more \in [Conversations -> BOOLEAN]
    /\ \A w \in Writers : writer[w].conv # None =>
          /\ writer[w].conv \in alive
          /\ \A v \in Writers : writer[v].conv = writer[w].conv => v = w

\* Nothing is skipped: a client has exactly the messages up to its cursor,
\* although messages were inserted before and committed after it read a page.
ShownIsPrefix ==
    \A c \in alive : shown[c] = {m \in messages[c] : m <= cursor[c]}

\* Nothing is sent twice.
ServedOnce ==
    \A c \in Conversations : served[c] = Cardinality(shown[c])

\* What a client that follows next_cursor has read is the conversation from its
\* beginning, without gaps and without repetitions, wherever it has come to.
ReadOnceInOrder == ShownIsPrefix /\ ServedOnce

\* "None: this is the last page (no more messages)": a page answers with a
\* next_cursor exactly when the client has not been shown everything there was.
NextCursorTells ==
    [][\A c \in alive :
          request.conv = c /\ request.checked /\ request' = NoRequest =>
             (more'[c] <=> shown'[c] # messages[c])]_vars

\* Paging is reading a log that only grows at its end.
Reader == INSTANCE ConversationReader WITH log <- messages
ReaderSpec == Reader!ReaderSpec
=============================================================================
