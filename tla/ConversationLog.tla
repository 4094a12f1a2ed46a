--------------------------- MODULE ConversationLog ---------------------------
(***************************************************************************)
(* What streaming queries promise to the reader of a conversation and to   *)
(* the clients that wait for their streams.  A log is only appended to,    *)
(* until it goes with its conversation and nothing is written there any    *)
(* more.  A client is told once how its stream ended.  If it was told      *)
(* "done" its question may be found in the log, once, and after it,        *)
(* perhaps with others' messages between, its answer, once; whoever was    *)
(* told something else, or nothing yet, left nothing there.                *)
(***************************************************************************)
EXTENDS Sequences

CONSTANTS Conversations, Queries, ConvOf

VARIABLES
    alive,  \* the conversations that exist
    log,    \* the messages of a conversation
    told    \* what the client of a query was told last: "none" at first

logVars == <<alive, log, told>>

Entry(q, role) == [query |-> q, role |-> role]

InLog(q, role) == \E i \in DOMAIN log[ConvOf[q]] : log[ConvOf[q]][i] = Entry(q, role)

LogInit ==
    /\ alive = Conversations
    /\ log = [c \in Conversations |-> <<>>]
    /\ told = [q \in Queries |-> "none"]

Tell(q) ==
    /\ told[q] = "none"
    /\ \E how \in {"done", "cancelled", "error"} : told' = [told EXCEPT ![q] = how]
    /\ UNCHANGED <<alive, log>>

Write(q, role) ==
    /\ ConvOf[q] \in alive
    /\ told[q] = "done"
    /\ ~InLog(q, role)
    /\ log' = [log EXCEPT ![ConvOf[q]] = Append(@, Entry(q, role))]
    /\ UNCHANGED <<alive, told>>

Question(q) == Write(q, "user")

Answer(q) == InLog(q, "user") /\ Write(q, "assistant")

Remove(c) ==
    /\ c \in alive
    /\ alive' = alive \ {c}
    /\ log' = [log EXCEPT ![c] = <<>>]
    /\ UNCHANGED told

LogNext ==
    \/ \E q \in Queries : Tell(q) \/ Question(q) \/ Answer(q)
    \/ \E c \in Conversations : Remove(c)

LogSpec == LogInit /\ [][LogNext]_logVars
=============================================================================
