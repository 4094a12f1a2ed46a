------------------------------ MODULE Sessions ------------------------------
(***************************************************************************)
(* What accounts and refresh tokens promise.  An account comes into being  *)
(* together with its first token and stays.  Each sign-in begins a chain   *)
(* of tokens of one user: a rotation replaces the live one by a fresh one, *)
(* a logout ends the chain, and nothing else takes a token from anybody    *)
(* or brings one back to life.  A token that is not live is accepted from  *)
(* nobody.  A live one is accepted for one rotation at a time, unless its  *)
(* client stopped waiting for an answer and presented it once more: then   *)
(* both rotations may go through.                                          *)
(***************************************************************************)
CONSTANTS Users, Staff, Tokens, Requests, None

VARIABLES
    account,   \* "absent", "active" or "inactive"
    owner,     \* the user a token was issued to, None before
    chain,     \* the sign-in it goes back to, named by its first token
    live,      \* tokens that can be presented with success
    presented, \* the token a request was accepted with and may rotate
    excused    \* tokens whose client has stopped waiting for an answer

sessionVars == <<account, owner, chain, live, presented, excused>>

SessionsInit ==
    /\ account = [u \in Users |-> IF u \in Staff THEN "active" ELSE "absent"]
    /\ owner = [t \in Tokens |-> None]
    /\ chain = [t \in Tokens |-> None]
    /\ live = {}
    /\ presented = [r \in Requests |-> None]
    /\ excused = {}

Hand(t, u, first) ==
    /\ owner[t] = None
    /\ owner' = [owner EXCEPT ![t] = u]
    /\ chain' = [chain EXCEPT ![t] = first]

Register(u, t) ==
    /\ account[u] = "absent"
    /\ account' = [account EXCEPT ![u] = "active"]
    /\ Hand(t, u, t)
    /\ live' = live \cup {t}
    /\ UNCHANGED <<presented, excused>>

SignIn(u, t) ==
    /\ account[u] # "absent"
    /\ Hand(t, u, t)
    /\ live' = live \cup {t}
    /\ UNCHANGED <<account, presented, excused>>

Accept(r, s) ==
    /\ presented[r] = None
    /\ s \in live
    /\ (\E q \in Requests : presented[q] = s) => s \in excused
    /\ presented' = [presented EXCEPT ![r] = s]
    /\ UNCHANGED <<account, owner, chain, live, excused>>

Drop(r) ==
    /\ presented' = [presented EXCEPT ![r] = None]
    /\ UNCHANGED <<account, owner, chain, live, excused>>

Rotate(r, t) ==
    LET s == presented[r]
    IN  /\ s \in live \cup excused
        /\ Hand(t, owner[s], chain[s])
        /\ live' = (live \ {s}) \cup {t}
        /\ presented' = [presented EXCEPT ![r] = None]
        /\ UNCHANGED <<account, excused>>

LogOut(s) ==
    /\ s \in live
    /\ live' = live \ {s}
    /\ UNCHANGED <<account, owner, chain, presented, excused>>

Excuse(s) ==
    /\ owner[s] # None
    /\ excused' = excused \cup {s}
    /\ UNCHANGED <<account, owner, chain, live, presented>>

SetActive(u, value) ==
    /\ account[u] # "absent"
    /\ account' = [account EXCEPT ![u] = value]
    /\ UNCHANGED <<owner, chain, live, presented, excused>>

SessionsNext ==
    \/ \E u \in Users, t \in Tokens : Register(u, t) \/ SignIn(u, t)
    \/ \E r \in Requests, t \in Tokens : Accept(r, t) \/ Rotate(r, t)
    \/ \E r \in Requests : Drop(r)
    \/ \E s \in Tokens : LogOut(s) \/ Excuse(s)
    \/ \E u \in Users, value \in {"active", "inactive"} : SetActive(u, value)

SessionsSpec == SessionsInit /\ [][SessionsNext]_sessionVars
=============================================================================
