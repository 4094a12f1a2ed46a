-------------------------- MODULE ConversationReader --------------------------
(***************************************************************************)
(* What paging through a conversation promises: messages are only added at *)
(* the end, and what a client has been shown is always everything from the *)
(* first message up to some message.                                       *)
(***************************************************************************)
EXTENDS Naturals

CONSTANTS
    Conversations,
    Messages   \* numbers

VARIABLES
    alive,  \* the conversations that exist
    log,    \* the messages of a conversation; a larger number is later
    shown   \* what a client has read

readerVars == <<alive, log, shown>>

UpTo(c, m) == {k \in log[c] : k <= m}

ReaderInit ==
    /\ alive = Conversations
    /\ log = [c \in Conversations |-> {}]
    /\ shown = [c \in Conversations |-> {}]

Add(c) ==
    /\ c \in alive
    /\ \E m \in Messages :
          /\ \A k \in log[c] : k < m
          /\ log' = [log EXCEPT ![c] = @ \cup {m}]
    /\ UNCHANGED <<alive, shown>>

Show(c) ==
    /\ c \in alive
    /\ \E m \in Messages :
          /\ shown[c] \subseteq UpTo(c, m)
          /\ shown' = [shown EXCEPT ![c] = UpTo(c, m)]
    /\ UNCHANGED <<alive, log>>

Remove(c) ==
    /\ alive' = alive \ {c}
    /\ log' = [log EXCEPT ![c] = {}]
    /\ UNCHANGED shown

ReaderNext == \E c \in Conversations : Add(c) \/ Show(c) \/ Remove(c)

ReaderSpec == ReaderInit /\ [][ReaderNext]_readerVars
=============================================================================
