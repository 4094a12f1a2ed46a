----------------------------- MODULE QueryEngine -----------------------------
(***************************************************************************)
(* Streaming queries on conversations: handle_query of                     *)
(* app/query_engine/service.py with its router, and append_message and     *)
(* delete_conversation of app/conversations/service.py.                    *)
(*                                                                         *)
(* A query is an async generator: other requests run whenever it awaits.   *)
(* It works with the Conversation object loaded when the request came in   *)
(* (the session has expire_on_commit=False, so nothing reloads it), polls  *)
(* a Redis flag between tokens, and writes two messages after the stream   *)
(* has ended, each in a transaction of its own.                            *)
(***************************************************************************)
EXTENDS Naturals, Sequences

CONSTANTS
    Conversations,
    Queries,    \* query requests; also the name of the question's text
    ConvOf,     \* the conversation a query is about
    Scoped,     \* the conversations created with a domain_id
    MaxTokens,  \* bound: tokens the model produces for one answer
    NoTitle     \* conversations.title IS NULL

ASSUME QueryAssumption ==
    /\ ConvOf \in [Queries -> Conversations]
    /\ Scoped \subseteq Conversations
    /\ MaxTokens \in Nat \ {0}
    /\ NoTitle \notin Queries

Terminals == {"none", "done", "cancelled", "error"}
Steps == {"idle", "search", "nothing", "stream", "emit", "question", "answer", "ended"}

VARIABLES
    conv,      \* the conversations that exist
    title,     \* conversations.title: the query whose text it is
    messages,  \* the messages of a conversation, in the order of created_at
    domain,    \* the domain of the scoped conversations exists
    step,      \* where the generator of a query is
    myTitle,   \* title of the query's Conversation object
    myScope,   \* whether its domain_id is set
    tokens,    \* token events sent
    terminal,  \* the terminal event sent
    aborted,   \* the generator was stopped from outside
    flag,      \* cancel:{request_id} is set in Redis
    late       \* ghost: token events sent since the flag was set

rows   == <<conv, title, messages, domain>>
stream == <<tokens, terminal, late>>
mine   == <<myTitle, myScope>>
vars   == <<rows, step, mine, stream, aborted, flag>>

Roles == {"user", "assistant"}
Message(q, role) == [query |-> q, role |-> role]

Init ==
    /\ conv = Conversations
    /\ title = [c \in Conversations |-> NoTitle]
    /\ messages = [c \in Conversations |-> <<>>]
    /\ domain = TRUE
    /\ step = [q \in Queries |-> "idle"]
    /\ myTitle = [q \in Queries |-> NoTitle]
    /\ myScope = [q \in Queries |-> FALSE]
    /\ tokens = [q \in Queries |-> 0]
    /\ terminal = [q \in Queries |-> "none"]
    /\ aborted = [q \in Queries |-> FALSE]
    /\ flag = [q \in Queries |-> FALSE]
    /\ late = [q \in Queries |-> 0]

Goto(q, s) == step' = [step EXCEPT ![q] = s]
Send(q, event) == terminal' = [terminal EXCEPT ![q] = event]

-----------------------------------------------------------------------------
(* handle_query *)

\* The router loads the conversation; the first event announces request_id.
\* Its domain_id is NULL when the domain was deleted before (ON DELETE SET NULL).
Open(q) ==
    /\ step[q] = "idle"
    /\ ConvOf[q] \in conv
    /\ myTitle' = [myTitle EXCEPT ![q] = title[ConvOf[q]]]
    /\ myScope' = [myScope EXCEPT ![q] = ConvOf[q] \in Scoped /\ domain]
    /\ Goto(q, "search")
    /\ UNCHANGED <<rows, stream, aborted, flag>>

\* The domain went away since: search raises a NotFoundError, which
\* handle_query does not catch.
SearchNotFound(q) ==
    /\ step[q] = "search"
    /\ myScope[q] /\ ~domain
    /\ Goto(q, "ended")
    /\ UNCHANGED <<rows, mine, stream, aborted, flag>>

\* The query text could not be embedded.
SearchUnavailable(q) ==
    /\ step[q] = "search"
    /\ Send(q, "error")
    /\ Goto(q, "ended")
    /\ UNCHANGED <<rows, mine, tokens, late, aborted, flag>>

SendToken(q) ==
    /\ tokens' = [tokens EXCEPT ![q] = @ + 1]
    /\ late' = [late EXCEPT ![q] = IF flag[q] THEN @ + 1 ELSE @]

\* No chunk is similar enough: a fixed answer, in one token and without a poll.
SearchEmpty(q) ==
    /\ step[q] = "search"
    /\ SendToken(q)
    /\ Goto(q, "nothing")
    /\ UNCHANGED <<rows, mine, terminal, aborted, flag>>

\* Chunks, context and history are there; the model is asked.
SearchFound(q) ==
    /\ step[q] = "search"
    /\ Goto(q, "stream")
    /\ UNCHANGED <<rows, mine, stream, aborted, flag>>

\* Mutant: no polling.
CancelledNever(q) == FALSE

\* What the poll finds.
Cancelled(q) == flag[q]

\* Mutant: a cancelled stream is left as if it had ended.
AfterCancelBreak == "question"

\* Mutant: a cancelled stream goes on.
AfterCancelContinue == "stream"

AfterCancel == "ended"

\* A token arrives, and the flag is read before it is passed on.
Poll(q) ==
    /\ step[q] = "stream"
    /\ tokens[q] < MaxTokens
    /\ IF Cancelled(q)
         THEN Send(q, "cancelled") /\ Goto(q, AfterCancel)
         ELSE Goto(q, "emit") /\ UNCHANGED terminal
    /\ UNCHANGED <<rows, mine, tokens, late, aborted, flag>>

Emit(q) ==
    /\ step[q] = "emit"
    /\ SendToken(q)
    /\ Goto(q, "stream")
    /\ UNCHANGED <<rows, mine, terminal, aborted, flag>>

\* The model, or Redis at the poll, fails in the middle of the stream.
StreamError(q) ==
    /\ step[q] = "stream"
    /\ Send(q, "error")
    /\ Goto(q, "ended")
    /\ UNCHANGED <<rows, mine, tokens, late, aborted, flag>>

\* The stream is exhausted, or the fixed answer sent.
StreamDone(q) ==
    /\ step[q] \in {"stream", "nothing"}
    /\ Send(q, "done")
    /\ Goto(q, "question")
    /\ UNCHANGED <<rows, mine, tokens, late, aborted, flag>>

-----------------------------------------------------------------------------
(* append_message, once for the question and once for the answer *)

\* Mutant: the row of the conversation is not touched, nor its key checked.
HasConversationAlways(q) == TRUE

\* The UPDATE of the conversation finds its row and the foreign key holds.
HasConversation(q) == ConvOf[q] \in conv

\* Mutant: each append in a try block of its own.
AfterFailureGoesOn(s) == IF s = "question" THEN "answer" ELSE "ended"

\* Mutant: a failed append is tried again until it succeeds.
AfterFailureRetry(s) == s

\* Both appends are in one try block.
AfterFailure(s) == "ended"

\* The object had no title when it was loaded.
Titled(q, role) == role = "user" /\ myTitle[q] = NoTitle

\* INSERT and UPDATE in one transaction.  The UPDATE comes first and locks the
\* conversation, so messages get their created_at in the order of commit.
AppendMessage(q, role) ==
    LET c == ConvOf[q] IN
    /\ HasConversation(q)
    /\ messages' = [messages EXCEPT ![c] = @ \o <<Message(q, role)>>]
    /\ title' = IF Titled(q, role) THEN [title EXCEPT ![c] = q] ELSE title
    /\ myTitle' = IF Titled(q, role) THEN [myTitle EXCEPT ![q] = q] ELSE myTitle
    /\ UNCHANGED <<conv, domain>>

AppendQuestion(q) ==
    /\ step[q] = "question"
    /\ AppendMessage(q, "user")
    /\ Goto(q, "answer")
    /\ UNCHANGED <<myScope, stream, aborted, flag>>

AppendAnswer(q) ==
    /\ step[q] = "answer"
    /\ AppendMessage(q, "assistant")
    /\ Goto(q, "ended")
    /\ UNCHANGED <<myScope, stream, aborted, flag>>

\* An append fails (the conversation has gone, a lost connection): logged only.
AppendFails(q) ==
    /\ step[q] \in {"question", "answer"}
    /\ Goto(q, AfterFailure(step[q]))
    /\ UNCHANGED <<rows, mine, stream, aborted, flag>>

-----------------------------------------------------------------------------
(* Around the generator *)

\* The client disconnects, the API process dies, or an exception nobody catches
\* (a database error in search or in the history query) ends the generator.
Abort(q) ==
    /\ step[q] \notin {"idle", "ended"}
    /\ aborted' = [aborted EXCEPT ![q] = TRUE]
    /\ Goto(q, "ended")
    /\ UNCHANGED <<rows, mine, stream, flag>>

\* cancel_query, by a client that has seen request_id.  It does not look at the
\* stream, which may be over.
Cancel(q) ==
    /\ step[q] # "idle"
    /\ ConvOf[q] \in conv
    /\ flag' = [flag EXCEPT ![q] = TRUE]
    /\ UNCHANGED <<rows, step, mine, stream, aborted>>

\* 300 seconds after the last cancel_query.
FlagExpires(q) ==
    /\ flag[q]
    /\ flag' = [flag EXCEPT ![q] = FALSE]
    /\ late' = [late EXCEPT ![q] = 0]
    /\ UNCHANGED <<rows, step, mine, tokens, terminal, aborted>>

\* delete_conversation: the messages go with the row.
DeleteConversation(c) ==
    /\ c \in conv
    /\ conv' = conv \ {c}
    /\ messages' = [messages EXCEPT ![c] = <<>>]
    /\ UNCHANGED <<title, domain, step, mine, stream, aborted, flag>>

DeleteDomain ==
    /\ domain
    /\ domain' = FALSE
    /\ UNCHANGED <<conv, title, messages, step, mine, stream, aborted, flag>>

-----------------------------------------------------------------------------

QueryStep(q) ==
    \/ SearchNotFound(q) \/ SearchUnavailable(q) \/ SearchEmpty(q)
    \/ SearchFound(q) \/ Poll(q) \/ Emit(q) \/ StreamError(q) \/ StreamDone(q)
    \/ AppendQuestion(q) \/ AppendAnswer(q) \/ AppendFails(q)

Next ==
    \/ \E q \in Queries :
         Open(q) \/ QueryStep(q) \/ Abort(q) \/ Cancel(q) \/ FlagExpires(q)
    \/ \E c \in Conversations : DeleteConversation(c)
    \/ DeleteDomain

Spec == Init /\ [][Next]_vars

\* The event loop goes on with a generator that can go on, and the calls it
\* awaits return or fail (they have timeouts).  Answers are finite.
FairSpec == Spec /\ \A q \in Queries : WF_vars(QueryStep(q))

-----------------------------------------------------------------------------
(* Properties *)

\* Each variable stays in its range, messages are in their own conversation, and
\* a generator that has sent its terminal event streams no more.
TypeOK ==
    /\ conv \subseteq Conversations
    /\ title \in [Conversations -> Queries \cup {NoTitle}]
    /\ messages \in [Conversations -> Seq([query : Queries, role : Roles])]
    /\ domain \in BOOLEAN
    /\ step \in [Queries -> Steps]
    /\ myTitle \in [Queries -> Queries \cup {NoTitle}]
    /\ myScope \in [Queries -> BOOLEAN]
    /\ tokens \in [Queries -> 0..MaxTokens]
    /\ terminal \in [Queries -> Terminals]
    /\ aborted \in [Queries -> BOOLEAN]
    /\ flag \in [Queries -> BOOLEAN]
    /\ late \in [Queries -> 0..MaxTokens]
    /\ \A c \in Conversations : \A i \in DOMAIN messages[c] :
          ConvOf[messages[c][i].query] = c
    /\ \A q \in Queries : terminal[q] # "none" =>
          step[q] \in {"question", "answer", "ended"}

Written(q, role) ==
    \E i \in DOMAIN messages[ConvOf[q]] :
        messages[ConvOf[q]][i] = Message(q, role)

\* "No partial persistence": only a query whose stream ended with the done
\* event has messages; a cancelled, failed or aborted stream leaves none.
OnlyDoneIsWritten ==
    \A q \in Queries, role \in Roles : Written(q, role) => terminal[q] = "done"

\* An answer stands after its question, and each is there once, whatever other
\* queries write to the conversation and wherever an append fails.
AnswerFollowsQuestion ==
    \A c \in Conversations :
        LET m == messages[c] IN
        /\ \A i \in DOMAIN m : m[i].role = "assistant" =>
              \E k \in 1..(i - 1) : m[k] = Message(m[i].query, "user")
        /\ \A i, k \in DOMAIN m : m[i] = m[k] => i = k

\* Once the flag is set and as long as it is, at most the token whose poll came
\* before is sent.
CancelIsPrompt == \A q \in Queries : late[q] <= 1

\* The conversations and the streams keep the promise of ConversationLog: nothing
\* is written but the question and then the answer of a stream that told its
\* client it was done, each once, and nothing where the conversation has gone.
Log == INSTANCE ConversationLog
           WITH alive <- conv, log <- messages, told <- terminal

ConversationLogSpec == Log!LogSpec

\* Every stream ends.
StreamsEnd == \A q \in Queries : step[q] = "search" ~> step[q] = "ended"

-----------------------------------------------------------------------------
(* What a comment of the repository says, and the code does not do.          *)

\* Every way a stream is described to end, short of a disconnect, has a terminal
\* event.
EndsWithTerminal ==
    \A q \in Queries : step[q] = "ended" /\ ~aborted[q] => terminal[q] # "none"
=============================================================================
