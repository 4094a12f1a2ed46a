------------------------------ MODULE Accounts ------------------------------
(***************************************************************************)
(* Accounts and sessions: app/auth/service.py, the activation endpoints of *)
(* app/admin/users_router.py and scripts/createsuperuser.py.               *)
(*                                                                         *)
(* Each request has a database session of its own and takes no lock, so    *)
(* between the SELECT that loads a row and the commit any other request    *)
(* may commit.  A client waits for the answer to its request, or gives it  *)
(* up and sends another while the first still runs.                        *)
(***************************************************************************)
EXTENDS Naturals

CONSTANTS
    Staff,     \* accounts made by scripts/createsuperuser.py: users.is_admin
    Users,     \* normalised e-mail addresses; an account is named by its address
    Clients,   \* devices; each keeps at most one refresh token
    Requests,  \* places for requests that run at the same time
    Tokens,    \* bound: refresh tokens issued in all
    MaxFaults, \* bound: answers given up and commits that fail
    None       \* no token, no request, no row

ASSUME AccountsAssumption ==
    /\ None \notin Users \cup Clients \cup Requests \cup Tokens
    /\ Staff \subseteq Users
    /\ MaxFaults \in Nat

VARIABLES
    account,   \* users.is_active, "absent" before the INSERT
    owner,     \* refresh_tokens.user_id, None before the INSERT
    revoked,
    held,      \* the refresh token a client would present
    waits,     \* the request a client waits for
    request,   \* what a request is about and how far its handler is
    change,    \* the activation request an admin has under way
    login,     \* ghost: the token this one was rotated from, back to a login
    abandoned, \* ghost: tokens presented by a request that was given up
    faults

tokens  == <<owner, revoked, login>>
devices == <<held, waits>>
vars    == <<account, tokens, devices, request, change, abandoned, faults>>

NoRequest == [op |-> None, user |-> None, token |-> None, step |-> "free"]
NoChange  == [user |-> None, value |-> None, seen |-> None]

Init ==
    /\ account = [u \in Users |-> IF u \in Staff THEN "active" ELSE "absent"]
    /\ owner = [t \in Tokens |-> None]
    /\ revoked = {}
    /\ held = [c \in Clients |-> None]
    /\ waits = [c \in Clients |-> None]
    /\ request = [r \in Requests |-> NoRequest]
    /\ change = [a \in Staff |-> NoChange]
    /\ login = [t \in Tokens |-> None]
    /\ abandoned = {}
    /\ faults = 0

Fault == faults < MaxFaults /\ faults' = faults + 1

-----------------------------------------------------------------------------
(* Clients *)

Send(c, r, op, u, t, step) ==
    /\ waits[c] = None /\ request[r] = NoRequest
    /\ waits' = [waits EXCEPT ![c] = r]
    /\ request' = [request EXCEPT ![r] = [op |-> op, user |-> u, token |-> t, step |-> step]]
    /\ UNCHANGED <<account, tokens, held, change, abandoned, faults>>

SignIn(c, r) ==
    /\ held[c] = None
    /\ \E op \in {"register", "login"}, u \in Users : Send(c, r, op, u, None, "user")

Present(c, r) ==
    /\ held[c] # None
    /\ \E op \in {"refresh", "logout"} : Send(c, r, op, owner[held[c]], held[c], "token")

\* The answer is lost or late; the handler goes on.
GiveUp(c) ==
    /\ waits[c] # None
    /\ Fault
    /\ waits' = [waits EXCEPT ![c] = None]
    /\ abandoned' = abandoned \cup ({request[waits[c]].token} \ {None})
    /\ UNCHANGED <<account, tokens, held, request, change>>

\* The handler ends; a client that still waits is left with token t.
Answer(r, t) ==
    /\ request' = [request EXCEPT ![r] = NoRequest]
    /\ held'  = [c \in Clients |-> IF waits[c] = r THEN t ELSE held[c]]
    /\ waits' = [c \in Clients |-> IF waits[c] = r THEN None ELSE waits[c]]

-----------------------------------------------------------------------------
(* Handlers *)

Goto(r, step) ==
    /\ request' = [request EXCEPT ![r].step = step]
    /\ UNCHANGED devices

\* Mutant: any token that was issued will do.
IsLiveIssued(t) == owner[t] # None

IsLive(t) == t \notin revoked

LoadToken(r) ==
    /\ request[r].step = "token"
    /\ IF IsLive(request[r].token)
       THEN Goto(r, IF request[r].op = "refresh" THEN "user" ELSE "commit")
       ELSE Answer(r, None)
    /\ UNCHANGED <<account, tokens, change, abandoned, faults>>

\* A token past its expires_at or a wrong password.  Neither time nor
\* passwords are modelled: any refresh and any login may be turned away.
Refuse(r) ==
    /\ \/ request[r].step = "token" /\ request[r].op = "refresh"
       \/ request[r].step = "user"  /\ request[r].op = "login"
    /\ Answer(r, None)
    /\ UNCHANGED <<account, tokens, change, abandoned, faults>>

\* Mutant: a refresh only looks whether the account exists.
AdmitsKnown(r) ==
    LET a == account[request[r].user]
    IN  CASE request[r].op = "register" -> a = "absent"
          [] request[r].op = "login"    -> a = "active"
          [] OTHER                      -> a # "absent"

Admits(r) ==
    account[request[r].user] = (IF request[r].op = "register" THEN "absent" ELSE "active")

LoadUser(r) ==
    /\ request[r].step = "user"
    /\ IF Admits(r) THEN Goto(r, "commit") ELSE Answer(r, None)
    /\ UNCHANGED <<account, tokens, change, abandoned, faults>>

\* The unique index on the address refuses a second account.
Conflict(r) ==
    /\ request[r].step = "commit" /\ request[r].op = "register"
    /\ account[request[r].user] # "absent"
    /\ Answer(r, None)
    /\ UNCHANGED <<account, tokens, change, abandoned, faults>>

\* Mutant: a rotation revokes all tokens of the user.
RotatedAll(r) == {t \in Tokens : owner[t] # None /\ owner[t] = request[r].user}

\* Mutant: the new token is issued and the old one stays.
RotatedNone(r) == {}

\* The tokens a refresh revokes.
Rotated(r) == {request[r].token}

\* One transaction: the new account or the revocation, and the new token.
Issue(r) ==
    LET q == request[r]
    IN  /\ q.step = "commit" /\ q.op # "logout"
        /\ q.op = "register" => account[q.user] = "absent"
        /\ \E t \in Tokens :
              /\ owner[t] = None
              /\ owner' = [owner EXCEPT ![t] = q.user]
              /\ login' = [login EXCEPT ![t] = IF q.op = "refresh" THEN login[q.token] ELSE t]
              /\ Answer(r, t)
        /\ account' = IF q.op = "register" THEN [account EXCEPT ![q.user] = "active"] ELSE account
        /\ revoked' = IF q.op = "refresh" THEN revoked \cup Rotated(r) ELSE revoked
        /\ UNCHANGED <<change, abandoned, faults>>

Revoke(r) ==
    /\ request[r].step = "commit" /\ request[r].op = "logout"
    /\ revoked' = revoked \cup {request[r].token}
    /\ Answer(r, None)
    /\ UNCHANGED <<account, owner, login, change, abandoned, faults>>

\* The commit fails and leaves nothing: the client is told so and keeps what it
\* presented.
CommitFails(r) ==
    /\ request[r].step = "commit"
    /\ Fault
    /\ Answer(r, request[r].token)
    /\ UNCHANGED <<account, tokens, change, abandoned>>

-----------------------------------------------------------------------------
(* Admins *)

\* Mutant: the missing row is not noticed.
FoundAnyway(u) == TRUE

Found(u) == account[u] # "absent"

\* require_admin, no admin deactivates his own account, the target is loaded.
LoadTarget(a, u, value) ==
    /\ change[a] = NoChange
    /\ account[a] = "active"
    /\ ~(value = "inactive" /\ u = a)
    /\ Found(u)
    /\ change' = [change EXCEPT ![a] = [user |-> u, value |-> value, seen |-> account[u]]]
    /\ UNCHANGED <<account, tokens, devices, request, abandoned, faults>>

\* SQLAlchemy writes the column when the value differs from the one loaded.
SetActive(a) ==
    /\ change[a] # NoChange
    /\ account' = IF change[a].seen = change[a].value THEN account
                  ELSE [account EXCEPT ![change[a].user] = change[a].value]
    /\ change' = [change EXCEPT ![a] = NoChange]
    /\ UNCHANGED <<tokens, devices, request, abandoned, faults>>

Next ==
    \/ \E c \in Clients, r \in Requests : SignIn(c, r) \/ Present(c, r)
    \/ \E c \in Clients : GiveUp(c)
    \/ \E r \in Requests :
          \/ LoadToken(r) \/ LoadUser(r) \/ Refuse(r) \/ Conflict(r)
          \/ Issue(r) \/ Revoke(r) \/ CommitFails(r)
    \/ \E a \in Staff : SetActive(a)
    \/ \E a \in Staff, u \in Users, value \in {"active", "inactive"} : LoadTarget(a, u, value)

Spec == Init /\ [][Next]_vars

-----------------------------------------------------------------------------
(* Properties *)

OrNone(S) == S \cup {None}

\* Each variable stays in its range; a handler past its load of a token or a
\* target has one.
TypeOK ==
    /\ account \in [Users -> {"absent", "active", "inactive"}]
    /\ owner \in [Tokens -> OrNone(Users)]
    /\ revoked \subseteq Tokens
    /\ held \in [Clients -> OrNone(Tokens)]
    /\ waits \in [Clients -> OrNone(Requests)]
    /\ request \in [Requests -> {NoRequest} \cup
          [op : {"register", "login"}, user : Users, token : {None}, step : {"user", "commit"}] \cup
          [op : {"refresh"}, user : Users, token : Tokens, step : {"token", "user", "commit"}] \cup
          [op : {"logout"}, user : Users, token : Tokens, step : {"token", "commit"}]]
    /\ change \in [Staff -> {NoChange} \cup
          [user : Users, value : {"active", "inactive"}, seen : {"active", "inactive"}]]
    /\ login \in [Tokens -> OrNone(Tokens)]
    /\ abandoned \subseteq Tokens
    /\ faults \in 0..MaxFaults

\* Rotation, logouts and sign-ins elsewhere never take a client's session away:
\* its token is revoked only when it gave up a request that presented it.  So
\* after a failed write "the old token remains valid" and a retry is safe.
ClientKeepsSession ==
    \A c \in Clients : waits[c] = None /\ held[c] \in revoked => held[c] \in abandoned

\* "Each refresh issues a new refresh token and revokes the old one": whatever
\* interleaves, one sign-in has at most one token that is not revoked, unless
\* the client gave up a request and presented the same token again.
OneLivePerLogin ==
    \A s, t \in Tokens \ revoked :
        /\ owner[s] # None /\ owner[t] # None
        /\ login[s] = login[t]
        /\ \A a \in abandoned : login[a] # login[s]
        => s = t

Quiet(u) ==
    /\ account[u] = "inactive"
    /\ \A r \in Requests : ~(request[r].user = u /\ request[r].step = "commit" /\
                             request[r].op # "logout")

\* "Deactivated users cannot authenticate": once a user is inactive and no
\* request that saw the user active is under way, none gets a token any more
\* until the user is reactivated.
DeactivationHolds ==
    [][\A u \in Users : Quiet(u) /\ account'[u] = "inactive" =>
          /\ Quiet(u)'
          /\ \A t \in Tokens : owner'[t] = u => owner[t] = u]_vars

Issued == {t \in Tokens : owner[t] # None}

\* The token a refresh has got past the check of, and may rotate.
Accepted(q) == IF q.op = "refresh" /\ q.step \in {"user", "commit"} THEN q.token ELSE None

Book == INSTANCE Sessions WITH
          chain <- login, live <- Issued \ revoked, excused <- abandoned,
          presented <- [r \in Requests |-> Accepted(request[r])]

\* Accounts and tokens go as Sessions says, whatever requests interleave, fail
\* or are repeated: a registration is all or nothing, two never make one
\* account, no token is accepted once it is revoked, and only the requests that
\* presented one token while it was live, which takes a client that gave the
\* first of them up, can rotate it more than once.
SignInSessions == Book!SessionsSpec

\* "Refresh tokens are single-use: each refresh issues a new refresh token and
\* revokes the old one" (workplan/components/auth.md:52): no sign-in has two
\* tokens that are not revoked.  A refresh takes no lock between the check of
\* the token and the commit, so of two that overlap both may be answered.
SingleUse == \A s, t \in Issued \ revoked : login[s] = login[t] => s = t
=============================================================================
