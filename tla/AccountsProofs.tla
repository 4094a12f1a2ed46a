--------------------------- MODULE AccountsProofs ---------------------------
(* Proofs of the safety properties of Accounts. *)
EXTENDS Accounts, TLAPS

-----------------------------------------------------------------------------
(* Strengthenings *)

\* Tokens that are held, presented, revoked or given up were issued, what an
\* admin is about to change exists, and a token comes from an issued token.
Backed ==
    /\ \A c \in Clients : held[c] # None => owner[held[c]] # None
    /\ \A r \in Requests : request[r].token # None => owner[request[r].token] # None
    /\ \A a \in Staff : change[a] # NoChange => account[change[a].user] # "absent"
    /\ \A t \in Tokens : owner[t] # None => login[t] \in Tokens /\ owner[login[t]] # None
    /\ \A t \in revoked \cup abandoned : owner[t] # None

\* A client waits for a request of its own, with its own token; a token is with
\* one client, and a request nobody waits for was given up.
Linked ==
    /\ \A c, d \in Clients : held[c] # None /\ held[c] = held[d] => c = d
    /\ \A c \in Clients : waits[c] # None =>
          request[waits[c]] # NoRequest /\ held[c] = request[waits[c]].token
    /\ \A c, d \in Clients : waits[c] # None /\ waits[c] = waits[d] => c = d
    /\ \A r \in Requests : request[r].token # None =>
          request[r].token \in abandoned \/ \E c \in Clients : waits[c] = r
    /\ \A c \in Clients : held[c] \in revoked => held[c] \in abandoned

SignInSet  == [op : {"register", "login"}, user : Users, token : {None}, step : {"user", "commit"}]
RefreshSet == [op : {"refresh"}, user : Users, token : Tokens, step : {"token", "user", "commit"}]
LogoutSet  == [op : {"logout"}, user : Users, token : Tokens, step : {"token", "commit"}]
RequestSet == {NoRequest} \cup SignInSet \cup RefreshSet \cup LogoutSet
ChangeSet  == {NoChange} \cup
    [user : Users, value : {"active", "inactive"}, seen : {"active", "inactive"}]

LEMMA TypeParts ==
    TypeOK <=> /\ account \in [Users -> {"absent", "active", "inactive"}]
               /\ owner \in [Tokens -> OrNone(Users)]
               /\ revoked \subseteq Tokens
               /\ held \in [Clients -> OrNone(Tokens)]
               /\ waits \in [Clients -> OrNone(Requests)]
               /\ request \in [Requests -> RequestSet]
               /\ change \in [Staff -> ChangeSet]
               /\ login \in [Tokens -> OrNone(Tokens)]
               /\ abandoned \subseteq Tokens
               /\ faults \in 0..MaxFaults
BY DEF TypeOK, RequestSet, SignInSet, RefreshSet, LogoutSet, ChangeSet

\* What is known of a request at each of its steps.
LEMMA RequestFacts ==
    ASSUME NEW q \in RequestSet
    PROVE  /\ q.step \in {"free", "token", "user", "commit"}
           /\ q.token \in OrNone(Tokens)
           /\ q # NoRequest => q.user \in Users
           /\ q.step # "free" => q # NoRequest
           /\ q # NoRequest => q.step # "free"
           /\ q.step = "token" => q \in RefreshSet \cup LogoutSet
           /\ q.step = "user" => q \in SignInSet \cup RefreshSet
           /\ q.op = "refresh" /\ q # NoRequest => q \in RefreshSet
           /\ q.op = "logout" /\ q # NoRequest => q \in LogoutSet
           /\ q.op = "register" /\ q # NoRequest => q \in SignInSet
           /\ q.token # None => q \in RefreshSet \cup LogoutSet
BY AccountsAssumption DEF RequestSet, SignInSet, RefreshSet, LogoutSet, NoRequest, OrNone

\* A request after Goto.
LEMMA Stepped ==
    ASSUME NEW q \in RequestSet, NEW s,
           \/ q \in SignInSet /\ s \in {"user", "commit"}
           \/ q \in RefreshSet /\ s \in {"token", "user", "commit"}
           \/ q \in LogoutSet /\ s \in {"token", "commit"}
    PROVE  /\ [q EXCEPT !.step = s] \in RequestSet
           /\ [q EXCEPT !.step = s].token = q.token
           /\ [q EXCEPT !.step = s].user = q.user
           /\ [q EXCEPT !.step = s].op = q.op
           /\ [q EXCEPT !.step = s].step = s
           /\ [q EXCEPT !.step = s] # NoRequest
BY AccountsAssumption DEF RequestSet, SignInSet, RefreshSet, LogoutSet, NoRequest

-----------------------------------------------------------------------------
(* What a step does to requests, clients and tokens.                         *)

\* A handler answers, or goes on with the request it has.
Answers(r, t) == request[r] # NoRequest /\ Answer(r, t)

GoesOn(r) ==
    /\ request[r] # NoRequest
    /\ \E q \in RequestSet :
          /\ request' = [request EXCEPT ![r] = q]
          /\ q # NoRequest /\ q.token = request[r].token
          /\ q.user = request[r].user /\ q.op = request[r].op
          /\ request[r].step = "token" => q.token \notin revoked
          /\ q.step # "token"
          /\ q.step = "commit" => q.op = "logout" \/ account[q.user] = (IF q.op = "register" THEN "absent" ELSE "active")
    /\ UNCHANGED devices

\* A handler that loads a row goes on, or turns the client away.
LEMMA LoadStep ==
    ASSUME TypeOK, NEW r \in Requests, LoadToken(r) \/ LoadUser(r) \/ Refuse(r) \/ Conflict(r)
    PROVE  /\ GoesOn(r) \/ Answers(r, None)
           /\ UNCHANGED <<account, tokens, change, abandoned, faults>>
<1> DEFINE q == request[r]
<1>1. request \in [Requests -> RequestSet] /\ q \in RequestSet
  BY TypeParts
<1>2. UNCHANGED <<account, tokens, change, abandoned, faults>>
  BY DEF LoadToken, LoadUser, Refuse, Conflict
<1>3. q.step # "free" /\ q # NoRequest
  BY <1>1, RequestFacts DEF LoadToken, LoadUser, Refuse, Conflict
<1>4. ASSUME NEW s, Goto(r, s),
             \/ q \in SignInSet /\ s \in {"user", "commit"}
             \/ q \in RefreshSet /\ s \in {"user", "commit"}
             \/ q \in LogoutSet /\ s = "commit",
             q.step = "token" => q.token \notin revoked,
             s = "commit" => q.op = "logout" \/ account[q.user] = (IF q.op = "register" THEN "absent" ELSE "active")
      PROVE  GoesOn(r)
  <2> DEFINE n == [q EXCEPT !.step = s]
  <2>1. request' = [request EXCEPT ![r] = n]
    BY <1>4 DEF Goto
  <2>2. /\ n \in RequestSet /\ n # NoRequest
        /\ n.token = q.token /\ n.user = q.user /\ n.op = q.op /\ n.step = s
    BY <1>1, <1>4, Stepped
  <2> HIDE DEF n
  <2> QED
    BY <1>3, <1>4, <2>1, <2>2 DEF GoesOn, Goto
<1>5. CASE LoadToken(r)
  <2>1. q \in RefreshSet \cup LogoutSet
    BY <1>1, <1>5, RequestFacts DEF LoadToken
  <2>2. (q \in RefreshSet => q.op = "refresh") /\ (q \in LogoutSet => q.op = "logout")
    BY DEF RefreshSet, LogoutSet
  <2>3. CASE q.token \in revoked
    BY <1>3, <1>5, <2>3 DEF LoadToken, IsLive, Answers
  <2>4. CASE q.token \notin revoked /\ q \in RefreshSet
    BY <1>4, <1>5, <2>2, <2>4 DEF LoadToken, IsLive
  <2>5. CASE q.token \notin revoked /\ q \in LogoutSet
    BY <1>4, <1>5, <2>2, <2>5 DEF LoadToken, IsLive
  <2> QED
    BY <1>2, <2>1, <2>3, <2>4, <2>5
<1>6. CASE LoadUser(r)
  <2>1. q \in SignInSet \cup RefreshSet
    BY <1>1, <1>6, RequestFacts DEF LoadUser
  <2>2. CASE Admits(r)
    <3>1. Goto(r, "commit")
      BY <1>6, <2>2 DEF LoadUser
    <3>2. account[q.user] = (IF q.op = "register" THEN "absent" ELSE "active")
      BY <2>2 DEF Admits
    <3> QED
      BY <1>2, <1>4, <1>6, <2>1, <3>1, <3>2 DEF LoadUser
  <2>3. CASE ~Admits(r)
    BY <1>2, <1>3, <1>6, <2>3 DEF LoadUser, Answers
  <2> QED
    BY <2>2, <2>3
<1>7. CASE Refuse(r) \/ Conflict(r)
  BY <1>2, <1>3, <1>7 DEF Refuse, Conflict, Answers
<1> QED
  BY <1>5, <1>6, <1>7

\* A client sends what it holds.
Sends(c, r) ==
    /\ waits[c] = None /\ request[r] = NoRequest
    /\ waits' = [waits EXCEPT ![c] = r]
    /\ \E q \in RequestSet :
          /\ request' = [request EXCEPT ![r] = q]
          /\ q # NoRequest /\ q.token = held[c] /\ q.step # "commit"
          /\ Accepted(q) = None
    /\ UNCHANGED <<account, tokens, held, change, abandoned, faults>>

LEMMA SendStep ==
    ASSUME TypeOK, Backed, NEW c \in Clients, NEW r \in Requests, SignIn(c, r) \/ Present(c, r)
    PROVE  Sends(c, r)
<1>1. CASE SignIn(c, r)
  <2>1. PICK op \in {"register", "login"}, u \in Users : Send(c, r, op, u, None, "user")
    BY <1>1 DEF SignIn
  <2> DEFINE q == [op |-> op, user |-> u, token |-> None, step |-> "user"]
  <2>2. q \in RequestSet /\ q # NoRequest /\ q.token = None /\ q.step # "commit" /\ Accepted(q) = None
    BY DEF RequestSet, SignInSet, NoRequest, Accepted
  <2>3. held[c] = None
    BY <1>1 DEF SignIn
  <2>4. request' = [request EXCEPT ![r] = q]
    BY <2>1 DEF Send
  <2> HIDE DEF q
  <2> QED
    BY <2>1, <2>2, <2>3, <2>4 DEF Send, Sends
<1>2. CASE Present(c, r)
  <2>1. PICK op \in {"refresh", "logout"} : Send(c, r, op, owner[held[c]], held[c], "token")
    BY <1>2 DEF Present
  <2> DEFINE q == [op |-> op, user |-> owner[held[c]], token |-> held[c], step |-> "token"]
  <2>2. held[c] \in Tokens /\ owner[held[c]] \in Users
    BY <1>2, TypeParts DEF Present, Backed, OrNone
  <2>3. /\ q \in RequestSet /\ q # NoRequest /\ q.token = held[c] /\ q.step # "commit"
        /\ Accepted(q) = None
    BY <2>2 DEF RequestSet, RefreshSet, LogoutSet, NoRequest, Accepted
  <2>4. request' = [request EXCEPT ![r] = q]
    BY <2>1 DEF Send
  <2> HIDE DEF q
  <2> QED
    BY <2>1, <2>3, <2>4 DEF Send, Sends
<1> QED
  BY <1>1, <1>2

\* What a request that is about to commit is.
LEMMA CommitFacts ==
    ASSUME TypeOK, Backed, NEW r \in Requests, request[r].step = "commit"
    PROVE  /\ request[r] # NoRequest /\ request[r].user \in Users
           /\ request[r].token \in OrNone(Tokens)
           /\ request[r].op \in {"refresh", "logout"} =>
                 request[r].token \in Tokens /\ owner[request[r].token] # None
<1>1. request[r] \in RequestSet
  BY TypeParts
<1>2. request[r] \in RefreshSet \cup LogoutSet => request[r].token \in Tokens
  BY DEF RefreshSet, LogoutSet
<1>3. request[r].token \in Tokens => owner[request[r].token] # None
  BY AccountsAssumption DEF Backed
<1> QED
  BY <1>1, <1>2, <1>3, RequestFacts

\* The ways requests and clients go on together.
LEMMA Steps ==
    ASSUME TypeOK, Backed, [Next]_vars
    PROVE  \/ UNCHANGED vars
           \/ \E c \in Clients, r \in Requests : Sends(c, r)
           \/ \E c \in Clients : GiveUp(c)
           \/ \E r \in Requests : /\ GoesOn(r) \/ Answers(r, None)
                                  /\ UNCHANGED <<account, tokens, change, abandoned, faults>>
           \/ \E r \in Requests : Issue(r) \/ Revoke(r) \/ CommitFails(r)
           \/ \E a \in Staff : SetActive(a)
           \/ \E a \in Staff, u \in Users, value \in {"active", "inactive"} : LoadTarget(a, u, value)
BY SendStep, LoadStep DEF Next

-----------------------------------------------------------------------------
(* Types *)

LEMMA InitType == Init => TypeOK /\ Backed /\ Linked
<1> SUFFICES ASSUME Init PROVE TypeOK /\ Backed /\ Linked
  OBVIOUS
<1>1. TypeOK
  BY AccountsAssumption, TypeParts DEF Init, RequestSet, ChangeSet, OrNone
<1>2. Backed /\ Linked
  BY AccountsAssumption DEF Init, Backed, Linked, NoRequest
<1> QED
  BY <1>1, <1>2

LEMMA TypeStep == TypeOK /\ Backed /\ [Next]_vars => TypeOK'
<1> SUFFICES ASSUME TypeOK, Backed, [Next]_vars PROVE TypeOK'
  OBVIOUS
<1> DEFINE T == /\ account \in [Users -> {"absent", "active", "inactive"}]
                /\ owner \in [Tokens -> OrNone(Users)]
                /\ revoked \subseteq Tokens
                /\ held \in [Clients -> OrNone(Tokens)]
                /\ waits \in [Clients -> OrNone(Requests)]
                /\ request \in [Requests -> RequestSet]
                /\ change \in [Staff -> ChangeSet]
                /\ login \in [Tokens -> OrNone(Tokens)]
                /\ abandoned \subseteq Tokens
                /\ faults \in 0..MaxFaults
<1>0. T
  BY TypeParts
<1>1. TypeOK' <=> T'
  BY TypeParts, PTL
<1> SUFFICES T'
  BY <1>1
<1> USE DEF tokens, devices
<1>2. ASSUME NEW r \in Requests, NEW t \in OrNone(Tokens), Answer(r, t)
      PROVE  /\ held' \in [Clients -> OrNone(Tokens)]
             /\ waits' \in [Clients -> OrNone(Requests)]
             /\ request' \in [Requests -> RequestSet]
  BY <1>0, <1>2 DEF Answer, OrNone, RequestSet
<1>3. CASE UNCHANGED vars
  BY <1>0, <1>3 DEF vars
<1>4. ASSUME NEW c \in Clients, NEW r \in Requests, Sends(c, r) PROVE T'
  BY <1>0, <1>4 DEF Sends, OrNone
<1>5. ASSUME NEW c \in Clients, GiveUp(c) PROVE T'
  <2>1. waits[c] \in Requests
    BY <1>0, <1>5 DEF GiveUp, OrNone
  <2>2. request[waits[c]].token \in OrNone(Tokens)
    BY <1>0, <2>1, RequestFacts
  <2>3. abandoned' \subseteq Tokens
    BY <1>0, <1>5, <2>2 DEF GiveUp, OrNone
  <2>4. faults' \in 0..MaxFaults
    BY <1>0, <1>5, AccountsAssumption DEF GiveUp, Fault
  <2> QED
    BY <1>0, <1>5, <2>3, <2>4 DEF GiveUp, OrNone
<1>6. ASSUME NEW r \in Requests, GoesOn(r) \/ Answers(r, None),
             UNCHANGED <<account, tokens, change, abandoned, faults>>
      PROVE  T'
  <2>1. CASE GoesOn(r)
    BY <1>0, <1>6, <2>1 DEF GoesOn
  <2>2. CASE Answers(r, None)
    BY <1>0, <1>2, <1>6, <2>2 DEF Answers, OrNone
  <2> QED
    BY <1>6, <2>1, <2>2
<1>7. ASSUME NEW r \in Requests, Issue(r) PROVE T'
  <2>1. PICK t \in Tokens : /\ owner' = [owner EXCEPT ![t] = request[r].user]
                            /\ login' = [login EXCEPT ![t] =
                                  IF request[r].op = "refresh" THEN login[request[r].token] ELSE t]
                            /\ Answer(r, t)
    BY <1>7 DEF Issue
  <2>2. /\ request[r].user \in Users
        /\ request[r].op = "refresh" => request[r].token \in Tokens
    BY <1>7, CommitFacts DEF Issue
  <2>3. owner' \in [Tokens -> OrNone(Users)] /\ login' \in [Tokens -> OrNone(Tokens)]
    BY <1>0, <2>1, <2>2 DEF OrNone
  <2>4. account' \in [Users -> {"absent", "active", "inactive"}]
    BY <1>0, <1>7, <2>2 DEF Issue
  <2>5. revoked' \subseteq Tokens
    BY <1>0, <1>7, <2>2 DEF Issue, Rotated
  <2>6. UNCHANGED <<change, abandoned, faults>>
    BY <1>7 DEF Issue
  <2> QED
    BY <1>0, <1>2, <2>1, <2>3, <2>4, <2>5, <2>6 DEF OrNone
<1>8. ASSUME NEW r \in Requests, Revoke(r) PROVE T'
  <2>1. request[r].token \in Tokens
    BY <1>8, CommitFacts DEF Revoke
  <2> QED
    BY <1>0, <1>2, <1>8, <2>1 DEF Revoke, OrNone
<1>9. ASSUME NEW r \in Requests, CommitFails(r) PROVE T'
  <2>1. request[r].token \in OrNone(Tokens)
    BY <1>9, CommitFacts DEF CommitFails
  <2>2. faults' \in 0..MaxFaults
    BY <1>0, <1>9, AccountsAssumption DEF CommitFails, Fault
  <2> QED
    BY <1>0, <1>2, <1>9, <2>1, <2>2 DEF CommitFails
<1>10. ASSUME NEW a \in Staff, SetActive(a) PROVE T'
  <2>1. change[a].user \in Users /\ change[a].value \in {"active", "inactive"}
    BY <1>0, <1>10 DEF SetActive, ChangeSet
  <2> QED
    BY <1>0, <1>10, <2>1 DEF SetActive, ChangeSet
<1>11. ASSUME NEW a \in Staff, NEW u \in Users, NEW value \in {"active", "inactive"},
              LoadTarget(a, u, value)
       PROVE  T'
  BY <1>0, <1>11 DEF LoadTarget, Found, ChangeSet
<1> QED
  BY <1>3, <1>4, <1>5, <1>6, <1>7, <1>8, <1>9, <1>10, <1>11, Steps

-----------------------------------------------------------------------------
(* Issued tokens *)

\* A token keeps its owner and the sign-in it comes from.
LEMMA OwnersStay ==
    ASSUME TypeOK, Backed, [Next]_vars, NEW x \in Tokens, owner[x] # None
    PROVE  owner'[x] = owner[x] /\ login'[x] = login[x]
<1> USE DEF tokens
<1>1. ASSUME NEW r \in Requests, Issue(r) PROVE owner'[x] = owner[x] /\ login'[x] = login[x]
  BY <1>1, TypeParts DEF Issue
<1> QED
  BY <1>1, Steps DEF vars, Sends, GiveUp, Revoke, CommitFails, SetActive, LoadTarget

LEMMA BackedStep == TypeOK /\ Backed /\ [Next]_vars => Backed'
<1> SUFFICES ASSUME TypeOK, Backed, [Next]_vars PROVE Backed'
  OBVIOUS
<1> USE DEF tokens, devices
<1>0. /\ owner \in [Tokens -> OrNone(Users)] /\ held \in [Clients -> OrNone(Tokens)]
      /\ request \in [Requests -> RequestSet] /\ change \in [Staff -> ChangeSet]
      /\ login \in [Tokens -> OrNone(Tokens)] /\ revoked \subseteq Tokens
      /\ abandoned \subseteq Tokens
      /\ account \in [Users -> {"absent", "active", "inactive"}]
      /\ None \notin Tokens \cup Users
  BY TypeParts, AccountsAssumption
<1>1. \A x \in Tokens : owner[x] # None => owner'[x] # None /\ login'[x] = login[x]
  BY OwnersStay
<1>2. ASSUME NEW c \in Clients, held'[c] # None PROVE owner'[held'[c]] # None
  <2>1. CASE held'[c] = held[c]
    BY <1>0, <1>1, <1>2, <2>1 DEF Backed, OrNone
  <2>2. ASSUME NEW r \in Requests, Issue(r), held'[c] # held[c] PROVE owner'[held'[c]] # None
    BY <1>0, <2>2, CommitFacts DEF Issue, Answer
  <2>3. ASSUME NEW r \in Requests, CommitFails(r), held'[c] # held[c] PROVE owner'[held'[c]] # None
    <3>1. held'[c] = request[r].token
      BY <1>0, <2>3 DEF CommitFails, Answer
    <3>2. request[r].token \in Tokens /\ owner[request[r].token] # None
      BY <1>0, <1>2, <2>3, <3>1, CommitFacts DEF CommitFails, Backed, OrNone
    <3> QED
      BY <1>1, <3>1, <3>2
  <2>4. ASSUME NEW r \in Requests, Answer(r, None) PROVE held'[c] = held[c]
    BY <1>0, <1>2, <2>4 DEF Answer
  <2> QED
    BY <2>1, <2>2, <2>3, <2>4, Steps
       DEF vars, Sends, GiveUp, GoesOn, Answers, Revoke, SetActive, LoadTarget
<1>3. ASSUME NEW r \in Requests, request'[r].token # None PROVE owner'[request'[r].token] # None
  <2>1. ASSUME request[r].token # None PROVE owner'[request[r].token] # None
    BY <1>0, <1>1, <2>1, RequestFacts DEF Backed, OrNone
  <2>2. request'[r].token = request[r].token \/ \E c \in Clients : request'[r].token = held[c]
    <3>1. ASSUME NEW q \in Requests, NEW t, Answer(q, t) PROVE request'[r].token = request[r].token
      BY <1>0, <1>3, <3>1 DEF Answer, NoRequest
    <3>2. ASSUME NEW q \in Requests, GoesOn(q) PROVE request'[r].token = request[r].token
      BY <1>0, <3>2 DEF GoesOn
    <3>3. ASSUME NEW c \in Clients, NEW q \in Requests, Sends(c, q)
          PROVE  request'[r].token = request[r].token \/ request'[r].token = held[c]
      BY <1>0, <3>3 DEF Sends
    <3> QED
      BY <3>1, <3>2, <3>3, Steps
         DEF vars, GiveUp, Answers, Issue, Revoke, CommitFails, SetActive, LoadTarget
  <2>3. ASSUME NEW c \in Clients, held[c] # None PROVE owner'[held[c]] # None
    BY <1>0, <1>1, <2>3 DEF Backed, OrNone
  <2> QED
    BY <1>3, <2>1, <2>2, <2>3
<1>4. ASSUME NEW a \in Staff, change'[a] # NoChange PROVE account'[change'[a].user] # "absent"
  <2>1. ASSUME NEW u \in Users, account[u] # "absent" PROVE account'[u] # "absent"
    <3>1. ASSUME NEW r \in Requests, Issue(r) PROVE account'[u] # "absent"
      BY <1>0, <2>1, <3>1 DEF Issue
    <3>2. ASSUME NEW b \in Staff, SetActive(b) PROVE account'[u] # "absent"
      BY <1>0, <2>1, <3>2 DEF SetActive, ChangeSet
    <3> QED
      BY <2>1, <3>1, <3>2, Steps
         DEF vars, Sends, GiveUp, Revoke, CommitFails, LoadTarget
  <2>2. \/ change'[a] = change[a] \/ change'[a] = NoChange
        \/ \E u \in Users : change'[a].user = u /\ account[u] # "absent"
    <3>1. ASSUME NEW b \in Staff, SetActive(b) PROVE change'[a] = change[a] \/ change'[a] = NoChange
      BY <1>0, <3>1 DEF SetActive
    <3>2. ASSUME NEW b \in Staff, NEW u \in Users, NEW value \in {"active", "inactive"}, LoadTarget(b, u, value)
          PROVE  change'[a] = change[a] \/ (change'[a].user = u /\ account[u] # "absent")
      BY <1>0, <3>2 DEF LoadTarget, Found
    <3> QED
      BY <3>1, <3>2, Steps DEF vars, Sends, GiveUp, Issue, Revoke, CommitFails
  <2>3. change[a] # NoChange => change[a].user \in Users /\ account[change[a].user] # "absent"
    BY <1>0 DEF Backed, ChangeSet
  <2> QED
    BY <1>4, <2>1, <2>2, <2>3
<1>5. ASSUME NEW t \in Tokens, owner'[t] # None PROVE login'[t] \in Tokens /\ owner'[login'[t]] # None
  <2>1. CASE owner[t] # None
    BY <1>1, <2>1 DEF Backed
  <2>2. ASSUME owner[t] = None, NEW r \in Requests, Issue(r)
        PROVE  login'[t] \in Tokens /\ owner'[login'[t]] # None
    <3>1. /\ owner' = [owner EXCEPT ![t] = request[r].user]
          /\ login' = [login EXCEPT ![t] =
                IF request[r].op = "refresh" THEN login[request[r].token] ELSE t]
      BY <1>0, <1>5, <2>2 DEF Issue
    <3>2. CASE request[r].op = "refresh"
      <4>1. request[r].token \in Tokens /\ owner[request[r].token] # None
        BY <2>2, <3>2, CommitFacts DEF Issue
      <4>2. login[request[r].token] \in Tokens /\ owner[login[request[r].token]] # None
        BY <4>1 DEF Backed
      <4> QED
        BY <1>0, <1>1, <3>1, <3>2, <4>2
    <3>3. CASE request[r].op # "refresh"
      BY <1>0, <1>5, <3>1, <3>3
    <3> QED
      BY <3>2, <3>3
  <2> QED
    BY <1>5, <2>1, <2>2, Steps DEF vars, Sends, GiveUp, Revoke, CommitFails, SetActive, LoadTarget
<1>6. ASSUME NEW t \in revoked' \cup abandoned' PROVE owner'[t] # None
  <2>1. CASE t \in revoked \cup abandoned
    BY <1>0, <1>1, <2>1 DEF Backed
  <2>2. ASSUME NEW r \in Requests, Issue(r) \/ Revoke(r), t \notin revoked \cup abandoned
        PROVE  owner'[t] # None
    <3>1. request[r].step = "commit" /\ request[r].op \in {"refresh", "logout"} /\ t = request[r].token
      BY <1>6, <2>2 DEF Issue, Revoke, Rotated
    <3> QED
      BY <1>1, <3>1, CommitFacts
  <2>3. ASSUME NEW c \in Clients, GiveUp(c), t \notin revoked \cup abandoned PROVE owner'[t] # None
    <3>1. waits[c] \in Requests
      BY <2>3, TypeParts DEF GiveUp, OrNone
    <3>2. t = request[waits[c]].token /\ t # None /\ owner' = owner
      BY <1>6, <2>3 DEF GiveUp
    <3> QED
      BY <3>1, <3>2 DEF Backed
  <2> QED
    BY <1>6, <2>1, <2>2, <2>3, Steps DEF vars, Sends, CommitFails, SetActive, LoadTarget
<1> QED
  BY <1>2, <1>3, <1>4, <1>5, <1>6 DEF Backed

-----------------------------------------------------------------------------
(* Clients and their requests *)

\* What an answer leaves of Linked: t is new, nothing, or what was presented.
LEMMA AnswerLinks ==
    ASSUME TypeOK, Backed, Linked, NEW r \in Requests, NEW t \in OrNone(Tokens),
           request[r] # NoRequest, Answer(r, t), abandoned' = abandoned,
           t = None \/ t = request[r].token \/ owner[t] = None
    PROVE  /\ \A c, d \in Clients : held'[c] # None /\ held'[c] = held'[d] => c = d
           /\ \A c \in Clients : waits'[c] # None =>
                 request'[waits'[c]] # NoRequest /\ held'[c] = request'[waits'[c]].token
           /\ \A c, d \in Clients : waits'[c] # None /\ waits'[c] = waits'[d] => c = d
           /\ \A q \in Requests : request'[q].token # None =>
                 request'[q].token \in abandoned' \/ \E c \in Clients : waits'[c] = q
<1>0. /\ held \in [Clients -> OrNone(Tokens)] /\ waits \in [Clients -> OrNone(Requests)]
      /\ request \in [Requests -> RequestSet]
      /\ None \notin Tokens \cup Requests
  BY TypeParts, AccountsAssumption
<1>1. \A c \in Clients :
         /\ waits[c] = r => held'[c] = t /\ waits'[c] = None
         /\ waits[c] # r => held'[c] = held[c] /\ waits'[c] = waits[c]
  BY DEF Answer
<1>2. request'[r] = NoRequest /\ \A q \in Requests : q # r => request'[q] = request[q]
  BY <1>0 DEF Answer
<1>3. ASSUME NEW c \in Clients, NEW d \in Clients, held'[c] # None, held'[c] = held'[d] PROVE c = d
  <2>1. CASE waits[c] = r /\ waits[d] = r
    BY <1>0, <2>1 DEF Linked
  <2>2. CASE waits[c] # r /\ waits[d] # r
    BY <1>1, <1>3, <2>2 DEF Linked
  <2>3. ASSUME NEW a \in Clients, NEW b \in Clients, waits[a] = r, waits[b] # r,
               held'[a] = held'[b], held'[a] # None
        PROVE  a = b
    <3>1. t # None /\ held[b] = t /\ held[a] = request[r].token
      BY <1>0, <1>1, <2>3 DEF Linked
    <3>2. owner[t] # None
      BY <3>1 DEF Backed
    <3> QED
      BY <3>1, <3>2 DEF Linked
  <2> QED
    BY <1>3, <2>1, <2>2, <2>3
<1>4. ASSUME NEW c \in Clients, waits'[c] # None
      PROVE  request'[waits'[c]] # NoRequest /\ held'[c] = request'[waits'[c]].token
  BY <1>0, <1>1, <1>2, <1>4 DEF Linked, OrNone
<1>5. ASSUME NEW c \in Clients, NEW d \in Clients, waits'[c] # None, waits'[c] = waits'[d] PROVE c = d
  BY <1>1, <1>5 DEF Linked
<1>6. ASSUME NEW q \in Requests, request'[q].token # None
      PROVE  request'[q].token \in abandoned' \/ \E c \in Clients : waits'[c] = q
  <2>1. q # r /\ request'[q] = request[q]
    BY <1>2, <1>6 DEF NoRequest
  <2> QED
    BY <1>1, <1>6, <2>1 DEF Linked
<1> QED
  BY <1>3, <1>4, <1>5, <1>6

\* A token that a request in flight is about to revoke is held by the client
\* that waits for that request, if the client has not given it up.
LEMMA PresentedBy ==
    ASSUME TypeOK, Linked, NEW r \in Requests, request[r] # NoRequest,
           NEW c \in Clients, held[c] # None, held[c] = request[r].token, waits[c] # r
    PROVE  held[c] \in abandoned
<1>1. CASE \E d \in Clients : waits[d] = r
  <2>1. PICK d \in Clients : waits[d] = r
    BY <1>1
  <2>2. held[d] = request[r].token
    BY <2>1, AccountsAssumption DEF Linked
  <2> QED
    BY <2>1, <2>2 DEF Linked
<1>2. CASE ~\E d \in Clients : waits[d] = r
  BY <1>2 DEF Linked
<1> QED
  BY <1>1, <1>2

LEMMA LinkedStep == TypeOK /\ Backed /\ Linked /\ [Next]_vars => Linked'
<1> SUFFICES ASSUME TypeOK, Backed, Linked, [Next]_vars PROVE Linked'
  OBVIOUS
<1> USE DEF tokens, devices
<1>0. /\ held \in [Clients -> OrNone(Tokens)] /\ waits \in [Clients -> OrNone(Requests)]
      /\ request \in [Requests -> RequestSet] /\ revoked \subseteq Tokens
      /\ owner \in [Tokens -> OrNone(Users)]
      /\ None \notin Tokens \cup Requests
  BY TypeParts, AccountsAssumption
<1>10. revoked' \subseteq Tokens
  BY TypeStep DEF TypeOK
<1>1. ASSUME UNCHANGED <<held, waits, request, revoked, abandoned>> PROVE Linked'
  BY <1>1 DEF Linked
<1>2. ASSUME NEW c \in Clients, NEW r \in Requests, Sends(c, r) PROVE Linked'
  <2>1. PICK q \in RequestSet : /\ request' = [request EXCEPT ![r] = q]
                                /\ q # NoRequest /\ q.token = held[c]
    BY <1>2 DEF Sends
  <2>2. /\ waits[c] = None /\ waits' = [waits EXCEPT ![c] = r] /\ request[r] = NoRequest
        /\ UNCHANGED <<held, revoked, abandoned>>
    BY <1>2 DEF Sends
  <2>3. \A d \in Clients : waits[d] # r
    BY <1>0, <2>2 DEF Linked
  <2>4. \A d \in Clients : waits'[d] = IF d = c THEN r ELSE waits[d]
    BY <1>0, <2>2
  <2>5. \A p \in Requests : request'[p] = IF p = r THEN q ELSE request[p]
    BY <1>0, <2>1
  <2>6. ASSUME NEW d \in Clients, waits'[d] # None
        PROVE  request'[waits'[d]] # NoRequest /\ held'[d] = request'[waits'[d]].token
    BY <1>0, <2>1, <2>2, <2>3, <2>4, <2>5, <2>6 DEF Linked, OrNone
  <2>7. ASSUME NEW d \in Clients, NEW e \in Clients, waits'[d] # None, waits'[d] = waits'[e]
        PROVE  d = e
    BY <2>3, <2>4, <2>7 DEF Linked
  <2>8. ASSUME NEW p \in Requests, request'[p].token # None
        PROVE  request'[p].token \in abandoned' \/ \E d \in Clients : waits'[d] = p
    <3>1. CASE p = r
      BY <2>4, <3>1
    <3>2. CASE p # r
      <4>1. request[p].token \in abandoned \/ \E d \in Clients : waits[d] = p
        BY <2>5, <2>8, <3>2 DEF Linked
      <4> QED
        BY <1>0, <2>2, <2>4, <2>5, <3>2, <4>1
    <3> QED
      BY <3>1, <3>2
  <2> QED
    BY <2>2, <2>6, <2>7, <2>8 DEF Linked
<1>3. ASSUME NEW c \in Clients, GiveUp(c) PROVE Linked'
  <2>1. waits[c] \in Requests /\ waits' = [waits EXCEPT ![c] = None]
        /\ abandoned' = abandoned \cup ({request[waits[c]].token} \ {None})
        /\ UNCHANGED <<held, request, revoked>>
    BY <1>0, <1>3 DEF GiveUp, OrNone
  <2>2. \A d \in Clients : waits'[d] = IF d = c THEN None ELSE waits[d]
    BY <1>0, <2>1
  <2>3. ASSUME NEW p \in Requests, request'[p].token # None
        PROVE  request'[p].token \in abandoned' \/ \E d \in Clients : waits'[d] = p
    <3>1. CASE waits[c] = p
      BY <2>1, <2>3, <3>1
    <3>2. CASE waits[c] # p
      <4>1. request[p].token \in abandoned \/ \E d \in Clients : waits[d] = p
        BY <2>1, <2>3 DEF Linked
      <4> QED
        BY <2>1, <2>2, <3>2, <4>1
    <3> QED
      BY <3>1, <3>2
  <2> QED
    BY <2>1, <2>2, <2>3 DEF Linked
<1>4. ASSUME NEW r \in Requests, GoesOn(r), UNCHANGED <<account, tokens, change, abandoned, faults>>
      PROVE  Linked'
  <2>1. PICK q \in RequestSet : /\ request' = [request EXCEPT ![r] = q]
                                /\ q # NoRequest /\ q.token = request[r].token
    BY <1>4 DEF GoesOn
  <2>2. UNCHANGED <<held, waits, revoked, abandoned>> /\ request[r] # NoRequest
    BY <1>4 DEF GoesOn
  <2>3. \A p \in Requests : /\ request'[p].token = request[p].token
                            /\ request[p] # NoRequest => request'[p] # NoRequest
    BY <1>0, <2>1, <2>2
  <2> QED
    BY <1>0, <2>2, <2>3 DEF Linked, OrNone
<1>5. ASSUME NEW r \in Requests, NEW t \in OrNone(Tokens), request[r] # NoRequest, Answer(r, t),
             abandoned' = abandoned, t = None \/ t = request[r].token \/ owner[t] = None,
             revoked' \subseteq revoked \cup {request[r].token},
             t = request[r].token => revoked' = revoked
      PROVE  Linked'
  <2>1. ASSUME NEW c \in Clients, held'[c] \in revoked' PROVE held'[c] \in abandoned'
    <3>1. CASE waits[c] = r
      <4>1. held'[c] = t /\ held[c] = request[r].token
        BY <1>0, <1>5, <3>1 DEF Answer, Linked
      <4>2. t \in Tokens \/ t = None
        BY DEF OrNone
      <4>3. CASE t = request[r].token
        BY <1>5, <2>1, <4>1, <4>3 DEF Linked
      <4>4. CASE t # request[r].token
        BY <1>0, <1>5, <2>1, <4>1, <4>4 DEF Backed
      <4> QED
        BY <4>3, <4>4
    <3>2. CASE waits[c] # r
      <4>1. held'[c] = held[c]
        BY <1>5, <3>2 DEF Answer
      <4>2. CASE held[c] \in revoked
        BY <1>5, <4>1, <4>2 DEF Linked
      <4>3. CASE held[c] = request[r].token /\ held[c] # None
        BY <1>5, <3>2, <4>1, <4>3, PresentedBy
      <4>4. held'[c] # None
        BY <1>0, <1>10, <2>1
      <4> QED
        BY <1>5, <2>1, <4>1, <4>2, <4>3, <4>4
    <3> QED
      BY <3>1, <3>2
  <2> QED
    BY <1>5, <2>1, AnswerLinks DEF Linked
<1>6. ASSUME NEW r \in Requests, Answers(r, None), UNCHANGED <<account, tokens, change, abandoned, faults>>
      PROVE  Linked'
  BY <1>5, <1>6 DEF Answers, OrNone
<1>7. ASSUME NEW r \in Requests, Issue(r) PROVE Linked'
  <2>1. PICK t \in Tokens : owner[t] = None /\ Answer(r, t)
    BY <1>7 DEF Issue
  <2>2. request[r] # NoRequest
    BY <1>7, CommitFacts DEF Issue
  <2>3. revoked' \subseteq revoked \cup {request[r].token} /\ abandoned' = abandoned
    BY <1>7 DEF Issue, Rotated
  <2>4. t = request[r].token => FALSE
    BY <1>0, <2>1 DEF Backed
  <2> QED
    BY <1>5, <2>1, <2>2, <2>3, <2>4 DEF OrNone
<1>8. ASSUME NEW r \in Requests, Revoke(r) PROVE Linked'
  <2>1. request[r] # NoRequest /\ request[r].token # None
    BY <1>0, <1>8, CommitFacts DEF Revoke
  <2> QED
    BY <1>5, <1>8, <2>1 DEF Revoke, OrNone
<1>9. ASSUME NEW r \in Requests, CommitFails(r) PROVE Linked'
  <2>1. request[r] # NoRequest /\ request[r].token \in OrNone(Tokens)
    BY <1>9, CommitFacts DEF CommitFails
  <2> QED
    BY <1>5, <1>9, <2>1 DEF CommitFails
<1> QED
  BY <1>1, <1>2, <1>3, <1>4, <1>6, <1>7, <1>8, <1>9, Steps DEF vars, SetActive, LoadTarget

-----------------------------------------------------------------------------
(* The properties, step by step *)

\* A registration is all or nothing: an account that registered has a token.
RegistrationWhole ==
    \A u \in Users : account[u] # "absent" /\ u \notin Staff =>
        \E t \in Tokens : owner[t] = u

LEMMA WholeStep == TypeOK /\ Backed /\ RegistrationWhole /\ [Next]_vars => RegistrationWhole'
<1> SUFFICES ASSUME TypeOK, Backed, RegistrationWhole, [Next]_vars,
                    NEW u \in Users, account'[u] # "absent", u \notin Staff
             PROVE  \E t \in Tokens : owner'[t] = u
  BY DEF RegistrationWhole
<1> USE DEF tokens, devices
<1>0. /\ account \in [Users -> {"absent", "active", "inactive"}] /\ change \in [Staff -> ChangeSet]
      /\ owner \in [Tokens -> OrNone(Users)]
      /\ u # None
  BY TypeParts, AccountsAssumption
<1>1. CASE account[u] # "absent"
  <2>1. PICK t \in Tokens : owner[t] = u
    BY <1>1 DEF RegistrationWhole
  <2> QED
    BY <1>0, <2>1, OwnersStay
<1>2. ASSUME account[u] = "absent", NEW r \in Requests, Issue(r) PROVE \E t \in Tokens : owner'[t] = u
  <2>1. request[r].user = u
    BY <1>0, <1>2 DEF Issue
  <2> QED
    BY <1>0, <1>2, <2>1 DEF Issue
<1>3. ASSUME account[u] = "absent", NEW a \in Staff, SetActive(a) PROVE FALSE
  BY <1>0, <1>3 DEF SetActive, Backed, ChangeSet
<1> QED
  BY <1>1, <1>2, <1>3, Steps DEF vars, Sends, GiveUp, Revoke, CommitFails, LoadTarget

\* A token that was revoked while a request presents it was given up.
LEMMA RevokedInFlight ==
    ASSUME TypeOK, Linked, NEW r \in Requests, request[r].token \in revoked
    PROVE  request[r].token \in abandoned
<1>1. request[r].token # None
  BY TypeParts, AccountsAssumption
<1>2. ASSUME NEW c \in Clients, waits[c] = r PROVE request[r].token \in abandoned
  BY <1>1, <1>2, AccountsAssumption DEF Linked
<1> QED
  BY <1>1, <1>2 DEF Linked

LEMMA LiveStep == TypeOK /\ Backed /\ Linked /\ OneLivePerLogin /\ [Next]_vars => OneLivePerLogin'
<1> SUFFICES ASSUME TypeOK, Backed, Linked, OneLivePerLogin, [Next]_vars,
                    NEW s \in Tokens, NEW t \in Tokens, s \notin revoked', t \notin revoked',
                    owner'[s] # None, owner'[t] # None, login'[s] = login'[t],
                    \A a \in abandoned' : login'[a] # login'[s]
             PROVE  s = t
  BY DEF OneLivePerLogin
<1> USE DEF tokens, devices
<1>0. /\ owner \in [Tokens -> OrNone(Users)] /\ login \in [Tokens -> OrNone(Tokens)]
      /\ revoked \subseteq Tokens /\ abandoned \subseteq Tokens
      /\ None \notin Tokens \cup Users
  BY TypeParts, AccountsAssumption
<1>1. revoked \subseteq revoked' /\ abandoned \subseteq abandoned'
  BY Steps DEF vars, Sends, GiveUp, Issue, Revoke, CommitFails, SetActive, LoadTarget
<1>2. ASSUME owner' = owner, login' = login PROVE s = t
  BY <1>1, <1>2 DEF OneLivePerLogin
<1>3. ASSUME NEW r \in Requests, Issue(r) PROVE s = t
  <2>1. PICK n \in Tokens : /\ owner[n] = None
                            /\ owner' = [owner EXCEPT ![n] = request[r].user]
                            /\ login' = [login EXCEPT ![n] =
                                  IF request[r].op = "refresh" THEN login[request[r].token] ELSE n]
    BY <1>3 DEF Issue
  <2>2. \A x \in Tokens : x # n => owner'[x] = owner[x] /\ login'[x] = login[x]
    BY <1>0, <2>1
  <2>3. abandoned' = abandoned
    BY <1>3 DEF Issue
  <2>4. CASE s # n /\ t # n
    <3>1. \A a \in abandoned : a # n => login[a] # login[s]
      BY <1>0, <2>2, <2>3, <2>4
    <3>2. ASSUME n \in abandoned PROVE login[n] # login[s]
      <4>1. \A a \in abandoned : owner[a] # None
        BY DEF Backed
      <4> QED
        BY <2>1, <3>2, <4>1
    <3> QED
      BY <1>1, <2>2, <2>4, <3>1, <3>2 DEF OneLivePerLogin
  <2>5. ASSUME NEW x \in Tokens, x # n, x \notin revoked', owner'[x] # None, login'[x] = login'[n],
               \A a \in abandoned' : login'[a] # login'[x]
        PROVE  FALSE
    <3>1. owner[x] # None /\ login[x] \in Tokens /\ owner[login[x]] # None
      BY <2>2, <2>5 DEF Backed
    <3>2. CASE request[r].op # "refresh"
      BY <1>0, <2>1, <2>2, <2>5, <3>1, <3>2
    <3>3. CASE request[r].op = "refresh"
      <4> DEFINE p == request[r].token
      <4>1. p \in Tokens /\ owner[p] # None /\ p \in revoked' /\ p # n
        BY <1>3, <2>1, <3>3, CommitFacts DEF Issue, Rotated
      <4>2. login[x] = login[p]
        BY <1>0, <2>1, <2>2, <2>5, <3>3
      <4>3. p \notin abandoned
        BY <2>2, <2>3, <2>5, <4>1, <4>2
      <4>4. p \notin revoked
        BY <4>3, RevokedInFlight
      <4>5. \A a \in abandoned : login[a] # login[x]
        <5>1. \A a \in abandoned : owner[a] # None
          BY DEF Backed
        <5> QED
          BY <1>0, <2>1, <2>2, <2>3, <2>5, <5>1
      <4>6. x = p
        <5>1. x \notin revoked
          BY <1>1, <2>5
        <5> HIDE DEF p
        <5> QED
          BY <3>1, <4>1, <4>2, <4>4, <4>5, <5>1 DEF OneLivePerLogin
      <4> QED
        BY <2>5, <4>1, <4>6
    <3> QED
      BY <3>2, <3>3
  <2> QED
    BY <2>4, <2>5
<1> QED
  BY <1>2, <1>3, Steps DEF vars, Sends, GiveUp, Revoke, CommitFails, SetActive, LoadTarget

LEMMA QuietStep ==
    ASSUME TypeOK, Backed, [Next]_vars, NEW u \in Users, Quiet(u), account'[u] = "inactive"
    PROVE  Quiet(u)' /\ \A t \in Tokens : owner'[t] = u => owner[t] = u
<1> USE DEF tokens, devices
<1>0. /\ owner \in [Tokens -> OrNone(Users)] /\ request \in [Requests -> RequestSet]
      /\ account[u] = "inactive"
  BY TypeParts DEF Quiet
<1>1. ASSUME NEW t \in Tokens, owner'[t] = u, owner[t] # u PROVE FALSE
  <2>1. ASSUME NEW r \in Requests, Issue(r) PROVE FALSE
    <3>1. request[r].user = u /\ request[r].step = "commit" /\ request[r].op # "logout"
      BY <1>0, <1>1, <2>1 DEF Issue
    <3> QED
      BY <3>1 DEF Quiet
  <2> QED
    BY <1>1, <2>1, Steps DEF vars, Sends, GiveUp, Revoke, CommitFails, SetActive, LoadTarget
<1>2. ASSUME NEW r \in Requests, request'[r].user = u, request'[r].step = "commit", request'[r].op # "logout"
      PROVE  FALSE
  <2>1. request'[r] # request[r]
    BY <1>2 DEF Quiet
  <2>2. ASSUME NEW q \in Requests, NEW t, Answer(q, t) PROVE FALSE
    BY <1>0, <1>2, <2>1, <2>2 DEF Answer, NoRequest
  <2>3. ASSUME NEW c \in Clients, NEW q \in Requests, Sends(c, q) PROVE FALSE
    BY <1>0, <1>2, <2>1, <2>3 DEF Sends
  <2>4. ASSUME NEW q \in Requests, GoesOn(q) PROVE FALSE
    BY <1>0, <1>2, <2>1, <2>4 DEF GoesOn
  <2> QED
    BY <2>1, <2>2, <2>3, <2>4, Steps
       DEF vars, GiveUp, Answers, Issue, Revoke, CommitFails, SetActive, LoadTarget
<1> QED
  BY <1>1, <1>2 DEF Quiet

-----------------------------------------------------------------------------
(* The session book *)

\* A request that presents a token is its owner's.
OwnRequests == \A r \in Requests : request[r].token # None => request[r].user = owner[request[r].token]

LEMMA OwnStep == TypeOK /\ Backed /\ OwnRequests /\ [Next]_vars => OwnRequests'
<1> SUFFICES ASSUME TypeOK, Backed, OwnRequests, [Next]_vars,
                    NEW r \in Requests, request'[r].token # None
             PROVE  request'[r].user = owner'[request'[r].token]
  BY DEF OwnRequests
<1>0. request \in [Requests -> RequestSet] /\ owner \in [Tokens -> OrNone(Users)]
      /\ held \in [Clients -> OrNone(Tokens)]
  BY TypeParts
<1>1. ASSUME request'[r].token = request[r].token, request'[r].user = request[r].user
      PROVE  request'[r].user = owner'[request'[r].token]
  <2>1. request[r].token \in Tokens /\ owner[request[r].token] # None
    BY <1>0, <1>1, RequestFacts DEF Backed, OrNone
  <2> QED
    BY <1>1, <2>1, OwnersStay DEF OwnRequests
<1>2. ASSUME NEW q \in Requests, NEW t, Answer(q, t) PROVE request'[r] = request[r]
  BY <1>0, <1>2 DEF Answer, NoRequest
<1>3. ASSUME NEW q \in Requests, GoesOn(q)
      PROVE  request'[r].token = request[r].token /\ request'[r].user = request[r].user
  BY <1>0, <1>3 DEF GoesOn
<1>4. ASSUME NEW c \in Clients, NEW q \in Requests, SignIn(c, q)
      PROVE  request'[r] = request[r]
  BY <1>0, <1>4, AccountsAssumption DEF SignIn, Send
<1>5. ASSUME NEW c \in Clients, NEW q \in Requests, Present(c, q)
      PROVE  request'[r].user = owner'[request'[r].token]
  <2>1. request'[r] = request[r] \/ (request'[r].user = owner[held[c]] /\ request'[r].token = held[c])
    <3>1. PICK op \in {"refresh", "logout"} : Send(c, q, op, owner[held[c]], held[c], "token")
      BY <1>5 DEF Present
    <3> DEFINE n == [op |-> op, user |-> owner[held[c]], token |-> held[c], step |-> "token"]
    <3>2. n.user = owner[held[c]] /\ n.token = held[c]
      OBVIOUS
    <3>3. request' = [request EXCEPT ![q] = n]
      BY <3>1 DEF Send
    <3> HIDE DEF n
    <3> QED
      BY <1>0, <3>2, <3>3
  <2>2. owner' = owner
    BY <1>5 DEF Present, Send, tokens
  <2> QED
    BY <1>1, <2>1, <2>2
<1>6. CASE \E c \in Clients, q \in Requests : SignIn(c, q) \/ Present(c, q)
  BY <1>1, <1>4, <1>5, <1>6
<1>7. CASE ~\E c \in Clients, q \in Requests : SignIn(c, q) \/ Present(c, q)
  <2>1. request'[r] = request[r] \/ \E q \in Requests : GoesOn(q)
    BY <1>2, <1>7, LoadStep DEF Next, vars, GiveUp, Answers, Issue, Revoke, CommitFails, SetActive, LoadTarget
  <2> QED
    BY <1>1, <1>3, <2>1
<1> QED
  BY <1>6, <1>7

\* Accounts stay: who was let in for a sign-in has one.
KnownSignIns ==
    \A r \in Requests : request[r].step = "commit" /\ request[r].op = "login" =>
        account[request[r].user] # "absent"

LEMMA KnownStep == TypeOK /\ Backed /\ KnownSignIns /\ [Next]_vars => KnownSignIns'
<1> SUFFICES ASSUME TypeOK, Backed, KnownSignIns, [Next]_vars,
                    NEW r \in Requests, request'[r].step = "commit", request'[r].op = "login"
             PROVE  account'[request'[r].user] # "absent"
  BY DEF KnownSignIns
<1>0. request \in [Requests -> RequestSet] /\ change \in [Staff -> ChangeSet]
      /\ account \in [Users -> {"absent", "active", "inactive"}]
  BY TypeParts
<1>1. ASSUME NEW u \in Users, account[u] # "absent" PROVE account'[u] # "absent"
  <2>1. ASSUME NEW q \in Requests, Issue(q) PROVE account'[u] # "absent"
    BY <1>0, <1>1, <2>1 DEF Issue
  <2>2. ASSUME NEW b \in Staff, SetActive(b) PROVE account'[u] # "absent"
    BY <1>0, <1>1, <2>2 DEF SetActive, ChangeSet
  <2> QED
    BY <1>1, <2>1, <2>2, Steps
       DEF vars, Sends, GiveUp, Revoke, CommitFails, LoadTarget
<1>2. CASE request'[r] = request[r]
  <2>1. request[r].step = "commit" /\ request[r].op = "login"
    BY <1>2
  <2>2. request[r].user \in Users
    BY <2>1, CommitFacts
  <2> QED
    BY <1>1, <1>2, <2>1, <2>2 DEF KnownSignIns
<1>3. ASSUME NEW q \in Requests, NEW t, Answer(q, t) PROVE request'[r] = request[r]
  BY <1>0, <1>3 DEF Answer, NoRequest
<1>4. ASSUME NEW c \in Clients, NEW q \in Requests, Sends(c, q) PROVE request'[r] = request[r]
  BY <1>0, <1>4 DEF Sends
<1>5. ASSUME NEW q \in Requests, GoesOn(q), UNCHANGED account, request'[r] # request[r]
      PROVE  account'[request'[r].user] # "absent"
  <2>1. PICK n \in RequestSet :
            /\ request' = [request EXCEPT ![q] = n]
            /\ n # NoRequest
            /\ n.step = "commit" => n.op = "logout" \/ account[n.user] = (IF n.op = "register" THEN "absent" ELSE "active")
    BY <1>5 DEF GoesOn
  <2>2. request'[r] = n
    BY <1>0, <1>5, <2>1
  <2>3. account[n.user] = "active"
    BY <2>1, <2>2
  <2> QED
    BY <1>5, <2>2, <2>3
<1> QED
  BY <1>2, <1>3, <1>4, <1>5, Steps
     DEF vars, GiveUp, Answers, Issue, Revoke, CommitFails, SetActive, LoadTarget

\* The token a refresh is about to replace is live or was given up.
LEMMA PresentedOpen ==
    ASSUME TypeOK, Backed, Linked, NEW r \in Requests,
           request[r].step = "commit", request[r].op = "refresh"
    PROVE  request[r].token \in (Issued \ revoked) \cup abandoned
<1>1. request[r].token \in Tokens /\ owner[request[r].token] # None
  BY CommitFacts
<1>2. request[r].token \in revoked => request[r].token \in abandoned
  BY RevokedInFlight
<1> QED
  BY <1>1, <1>2 DEF Issued

\* What handing out t does to the live tokens.
LEMMA HandedOut ==
    ASSUME TypeOK, Backed, NEW t \in Tokens, owner[t] = None, NEW u \in Users,
           owner' = [owner EXCEPT ![t] = u], NEW S,
           t \notin S, revoked' = revoked \cup S
    PROVE  (Issued \ revoked)' = ((Issued \ revoked) \ S) \cup {t}
<1>1. t \notin revoked
  BY DEF Backed
<1>2. owner \in [Tokens -> OrNone(Users)] /\ None \notin Users
  BY TypeParts, AccountsAssumption
<1>3. Issued' = Issued \cup {t}
  BY <1>2 DEF Issued
<1>4. (Issued \ revoked)' = Issued' \ revoked'
  OBVIOUS
<1> QED
  BY <1>1, <1>3, <1>4

\* The tokens that requests were accepted with.
Shown == [r \in Requests |-> Accepted(request[r])]

LEMMA ShownMoves ==
    ASSUME TypeOK, NEW r \in Requests, NEW q, request' = [request EXCEPT ![r] = q]
    PROVE  Shown' = [Shown EXCEPT ![r] = Accepted(q)]
<1>1. ASSUME NEW n \in Requests PROVE Accepted(request'[n]) = IF n = r THEN Accepted(q) ELSE Accepted(request[n])
  BY TypeParts
<1>2. Shown' = [n \in Requests |-> Accepted(request'[n])]
  BY DEF Shown, Accepted
<1>3. [Shown EXCEPT ![r] = Accepted(q)] =
          [n \in Requests |-> IF n = r THEN Accepted(q) ELSE Accepted(request[n])]
  BY DEF Shown
<1> QED
  BY <1>1, <1>2, <1>3

LEMMA ShownAnswers ==
    ASSUME TypeOK, NEW r \in Requests, NEW t, Answer(r, t)
    PROVE  Shown' = [Shown EXCEPT ![r] = None]
<1>1. request' = [request EXCEPT ![r] = NoRequest]
  BY DEF Answer
<1>2. Accepted(NoRequest) = None
  BY DEF Accepted, NoRequest
<1> QED
  BY <1>1, <1>2, ShownMoves

LEMMA ShownStays ==
    ASSUME request' = request
    PROVE  Shown' = Shown
BY DEF Shown, Accepted

\* A request that commits registers, signs in or rotates.
LEMMA IssueBooked ==
    ASSUME TypeOK, Backed, Linked, OwnRequests, KnownSignIns, NEW r \in Requests, Issue(r)
    PROVE  Book!SessionsNext
<1> DEFINE q == request[r]
<1>0. /\ q.step = "commit" /\ q.op # "logout"
      /\ q.op = "register" => account[q.user] = "absent"
      /\ account' = IF q.op = "register" THEN [account EXCEPT ![q.user] = "active"] ELSE account
      /\ revoked' = IF q.op = "refresh" THEN revoked \cup Rotated(r) ELSE revoked
      /\ abandoned' = abandoned
  BY DEF Issue
<1>1. PICK t \in Tokens : /\ owner[t] = None
                          /\ owner' = [owner EXCEPT ![t] = q.user]
                          /\ login' = [login EXCEPT ![t] = IF q.op = "refresh" THEN login[q.token] ELSE t]
                          /\ Answer(r, t)
  BY DEF Issue
<1>2. q.user \in Users
  BY <1>0, CommitFacts
<1>s. Shown' = [Shown EXCEPT ![r] = None] /\ Shown[r] = Accepted(q)
  BY <1>1, ShownAnswers DEF Shown
<1>3. CASE q.op = "refresh"
  <2>1. q.token \in Tokens /\ owner[q.token] # None /\ q.token # t
    BY <1>0, <1>1, <1>3, CommitFacts
  <2>2. (Issued \ revoked)' = ((Issued \ revoked) \ {q.token}) \cup {t}
    <3>1. revoked' = revoked \cup {q.token}
      BY <1>0, <1>3 DEF Rotated
    <3> QED
      BY <1>1, <1>2, <2>1, <3>1, HandedOut
  <2>3. q.user = owner[q.token]
    BY <2>1, AccountsAssumption DEF OwnRequests
  <2>4. q.token \in (Issued \ revoked) \cup abandoned
    BY <1>0, <1>3, PresentedOpen
  <2>s. Shown[r] = q.token
    BY <1>0, <1>3, <1>s DEF Accepted
  <2>5. Book!Rotate(r, t)
    BY <1>0, <1>1, <1>3, <1>s, <2>2, <2>3, <2>4, <2>s DEF Book!Rotate, Book!Hand, Shown
  <2> QED
    BY <2>1, <2>5 DEF Book!SessionsNext
<1>4. CASE q.op # "refresh"
  <2>1. (Issued \ revoked)' = (Issued \ revoked) \cup {t}
    <3> DEFINE S == {}
    <3>1. t \notin S /\ revoked' = revoked \cup S
      BY <1>0, <1>4
    <3> HIDE DEF S
    <3>2. (Issued \ revoked)' = ((Issued \ revoked) \ S) \cup {t}
      BY <1>1, <1>2, <3>1, HandedOut
    <3> QED
      BY <3>2 DEF S
  <2>s. Shown' = Shown
    <3>1. Shown[r] = None
      BY <1>4, <1>s DEF Accepted
    <3> QED
      BY <1>s, <3>1 DEF Shown
  <2>2. CASE q.op = "register"
    <3>1. Book!Register(q.user, t)
      BY <1>0, <1>1, <1>4, <2>1, <2>2, <2>s DEF Book!Register, Book!Hand, Shown
    <3> QED
      BY <1>2, <3>1 DEF Book!SessionsNext
  <2>3. CASE q.op # "register"
    <3>0. q.op = "login"
      BY <1>0, <1>4, <2>3, TypeParts, RequestFacts DEF RequestSet, SignInSet, RefreshSet, LogoutSet, NoRequest
    <3>1. Book!SignIn(q.user, t)
      BY <1>0, <1>1, <1>4, <2>1, <2>3, <2>s, <3>0 DEF Book!SignIn, Book!Hand, KnownSignIns, Shown
    <3> QED
      BY <1>2, <3>1 DEF Book!SessionsNext
  <2> QED
    BY <2>2, <2>3
<1> QED
  BY <1>3, <1>4

\* A refresh is accepted when its token is found not revoked; another one that
\* was accepted with the same token has been given up.
LEMMA GoesOnBooked ==
    ASSUME TypeOK, Backed, Linked, NEW r \in Requests, GoesOn(r),
           UNCHANGED <<account, tokens, change, abandoned, faults>>
    PROVE  Book!SessionsNext \/ UNCHANGED Book!sessionVars
<1>1. PICK n \in RequestSet :
          /\ request' = [request EXCEPT ![r] = n]
          /\ n # NoRequest /\ n.token = request[r].token
          /\ n.op = request[r].op
          /\ request[r].step = "token" => n.token \notin revoked
          /\ n.step # "token"
  BY DEF GoesOn
<1>2. request[r] \in RequestSet /\ request[r] # NoRequest
  BY TypeParts DEF GoesOn
<1>3. Shown' = [Shown EXCEPT ![r] = Accepted(n)] /\ Shown[r] = Accepted(request[r])
  BY <1>1, ShownMoves DEF Shown
<1>4. UNCHANGED <<account, owner, login, revoked, abandoned>> /\ (Issued \ revoked)' = Issued \ revoked
  BY DEF tokens, Issued
<1>5. CASE n.op = "refresh" /\ request[r].step = "token"
  <2> DEFINE s == n.token
  <2>1. s \in Tokens /\ owner[s] # None /\ n.step \in {"user", "commit"}
    <3>1. n \in RefreshSet
      BY <1>1, <1>5, RequestFacts
    <3>2. n.token \in Tokens /\ n.step \in {"user", "commit"}
      BY <1>1, <3>1 DEF RefreshSet
    <3> QED
      BY <1>1, <3>2, AccountsAssumption DEF Backed
  <2>2. Shown[r] = None /\ Accepted(n) = s
    BY <1>3, <1>5, <2>1 DEF Accepted
  <2>3. s \in Issued \ revoked
    BY <1>1, <1>5, <2>1 DEF Issued
  <2>4. ASSUME NEW q \in Requests, Shown[q] = s PROVE s \in abandoned
    <3>1. q # r /\ Accepted(request[q]) = s
      BY <2>1, <2>2, <2>4, AccountsAssumption DEF Shown
    <3>2. request[q].token = s
      BY <2>1, <3>1, AccountsAssumption DEF Accepted
    <3>3. CASE \E c \in Clients : waits[c] = r
      <4>1. PICK c \in Clients : waits[c] = r
        BY <3>3
      <4>2. held[c] = s /\ waits[c] # q
        BY <1>1, <3>1, <4>1, AccountsAssumption DEF Linked
      <4>3. request[q] # NoRequest
        BY <2>1, <3>2, AccountsAssumption DEF NoRequest
      <4> QED
        BY <2>1, <3>2, <4>2, <4>3, PresentedBy, AccountsAssumption
    <3>4. CASE ~\E c \in Clients : waits[c] = r
      BY <1>1, <2>1, <3>4, AccountsAssumption DEF Linked
    <3> QED
      BY <3>3, <3>4
  <2> HIDE DEF s
  <2>5. Book!Accept(r, s)
    BY <1>3, <1>4, <2>2, <2>3, <2>4 DEF Book!Accept, Shown
  <2> QED
    BY <2>1, <2>5 DEF Book!SessionsNext
<1>6. CASE ~(n.op = "refresh" /\ request[r].step = "token")
  <2>1. Accepted(n) = Accepted(request[r])
    <3>1. CASE n.op # "refresh"
      BY <1>1, <3>1 DEF Accepted
    <3>2. CASE n.op = "refresh"
      <4>1. n \in RefreshSet /\ request[r] \in RefreshSet
        BY <1>1, <1>2, <3>2, RequestFacts
      <4>2. n.step \in {"user", "commit"} /\ request[r].step \in {"user", "commit"}
        BY <1>1, <1>6, <3>2, <4>1 DEF RefreshSet
      <4> QED
        BY <1>1, <3>2, <4>2 DEF Accepted
    <3> QED
      BY <3>1, <3>2
  <2>2. Shown' = Shown
    BY <1>3, <2>1 DEF Shown
  <2> QED
    BY <1>4, <2>2 DEF Book!sessionVars, Shown
<1> QED
  BY <1>5, <1>6

\* Every step is one of the session book, or none it knows of.
LEMMA BookStep ==
    TypeOK /\ Backed /\ Linked /\ OwnRequests /\ KnownSignIns /\ [Next]_vars => [Book!SessionsNext]_(Book!sessionVars)
<1> SUFFICES ASSUME TypeOK, Backed, Linked, OwnRequests, KnownSignIns, [Next]_vars
             PROVE  [Book!SessionsNext]_(Book!sessionVars)
  OBVIOUS
<1> USE DEF tokens
<1> DEFINE Same == UNCHANGED <<account, owner, login, revoked, abandoned>>
<1>0. Same /\ Shown' = Shown => UNCHANGED Book!sessionVars
  BY DEF Book!sessionVars, Issued, Shown
<1>a. ASSUME NEW r \in Requests, NEW t, Same, Answer(r, t) PROVE [Book!SessionsNext]_(Book!sessionVars)
  <2>1. Shown' = [Shown EXCEPT ![r] = None]
    BY <1>a, ShownAnswers
  <2>2. (Issued \ revoked)' = Issued \ revoked
    BY <1>a DEF Issued
  <2>3. Book!Drop(r)
    BY <1>a, <2>1, <2>2 DEF Book!Drop, Shown
  <2> QED
    BY <2>3 DEF Book!SessionsNext
<1>1. ASSUME NEW c \in Clients, GiveUp(c) PROVE [Book!SessionsNext]_(Book!sessionVars)
  <2> DEFINE s == request[waits[c]].token
  <2>0. Shown' = Shown
    BY <1>1, ShownStays DEF GiveUp
  <2>1. waits[c] \in Requests
    BY <1>1, TypeParts DEF GiveUp, OrNone
  <2>2. CASE s = None
    BY <1>0, <1>1, <2>0, <2>2 DEF GiveUp
  <2>3. CASE s # None
    <3>1. s \in Tokens /\ owner[s] # None
      BY <2>1, <2>3, TypeParts, RequestFacts DEF Backed, OrNone
    <3>2. Book!Excuse(s)
      BY <1>1, <2>0, <2>3, <3>1 DEF GiveUp, Book!Excuse, Issued, Shown
    <3> QED
      BY <3>1, <3>2 DEF Book!SessionsNext
  <2> QED
    BY <2>2, <2>3
<1>2. ASSUME NEW r \in Requests, Revoke(r) PROVE [Book!SessionsNext]_(Book!sessionVars)
  <2> DEFINE s == request[r].token
  <2>0. Shown' = Shown
    <3>1. Shown' = [Shown EXCEPT ![r] = None] /\ Shown[r] = Accepted(request[r])
      BY <1>2, ShownAnswers DEF Revoke, Shown
    <3>2. Shown[r] = None
      BY <1>2, <3>1 DEF Revoke, Accepted
    <3> QED
      BY <3>1, <3>2 DEF Shown
  <2>1. s \in Tokens /\ owner[s] # None
    BY <1>2, CommitFacts DEF Revoke
  <2>2. CASE s \in revoked
    <3>1. revoked' = revoked
      BY <1>2, <2>2 DEF Revoke
    <3> QED
      BY <1>0, <1>2, <2>0, <3>1 DEF Revoke
  <2>3. CASE s \notin revoked
    <3>1. (Issued \ revoked)' = (Issued \ revoked) \ {s}
      BY <1>2 DEF Revoke, Issued
    <3>2. Book!LogOut(s)
      BY <1>2, <2>0, <2>1, <2>3, <3>1 DEF Revoke, Book!LogOut, Issued, Shown
    <3> QED
      BY <2>1, <3>2 DEF Book!SessionsNext
  <2> QED
    BY <2>2, <2>3
<1>3. ASSUME NEW a \in Staff, SetActive(a) PROVE [Book!SessionsNext]_(Book!sessionVars)
  <2> DEFINE u == change[a].user
             value == change[a].value
  <2>0. Shown' = Shown
    BY <1>3, ShownStays DEF SetActive
  <2>1. u \in Users /\ value \in {"active", "inactive"} /\ account[u] # "absent"
    BY <1>3, TypeParts DEF SetActive, Backed, ChangeSet
  <2>2. CASE change[a].seen = value
    BY <1>0, <1>3, <2>0, <2>2 DEF SetActive
  <2>3. CASE change[a].seen # value
    <3>1. Book!SetActive(u, value)
      BY <1>3, <2>0, <2>1, <2>3 DEF SetActive, Book!SetActive, Issued, Shown
    <3> QED
      BY <2>1, <3>1 DEF Book!SessionsNext
  <2> QED
    BY <2>2, <2>3
<1>4. ASSUME NEW r \in Requests, Issue(r) PROVE [Book!SessionsNext]_(Book!sessionVars)
  BY <1>4, IssueBooked
<1>5. ASSUME NEW c \in Clients, NEW r \in Requests, Sends(c, r)
      PROVE  [Book!SessionsNext]_(Book!sessionVars)
  <2>1. PICK q : request' = [request EXCEPT ![r] = q] /\ Accepted(q) = None
    BY <1>5 DEF Sends
  <2>2. Shown' = [Shown EXCEPT ![r] = None] /\ Shown[r] = Accepted(request[r])
    BY <2>1, ShownMoves DEF Shown
  <2>3. Shown[r] = None
    BY <1>5, <2>2 DEF Sends, Accepted, NoRequest
  <2>4. Shown' = Shown
    BY <2>2, <2>3 DEF Shown
  <2> QED
    BY <1>0, <1>5, <2>4 DEF Sends
<1>6. ASSUME NEW r \in Requests, GoesOn(r) \/ Answers(r, None),
             UNCHANGED <<account, tokens, change, abandoned, faults>>
      PROVE  [Book!SessionsNext]_(Book!sessionVars)
  BY <1>6, <1>a, GoesOnBooked DEF Answers
<1>7. ASSUME NEW r \in Requests, CommitFails(r) PROVE [Book!SessionsNext]_(Book!sessionVars)
  BY <1>7, <1>a DEF CommitFails
<1>8. ASSUME Same, request' = request PROVE [Book!SessionsNext]_(Book!sessionVars)
  BY <1>0, <1>8, ShownStays
<1>9. (Same /\ request' = request) \/ (\E c \in Clients : GiveUp(c))
      \/ (\E c \in Clients, r \in Requests : Sends(c, r))
      \/ (\E r \in Requests : /\ GoesOn(r) \/ Answers(r, None)
                              /\ UNCHANGED <<account, tokens, change, abandoned, faults>>)
      \/ (\E r \in Requests : Issue(r) \/ Revoke(r) \/ CommitFails(r))
      \/ \E a \in Staff : SetActive(a)
  BY Steps DEF vars, LoadTarget
<1> HIDE DEF Same
<1> QED
  BY <1>1, <1>2, <1>3, <1>4, <1>5, <1>6, <1>7, <1>8, <1>9

-----------------------------------------------------------------------------
(* Theorems *)

AccountsInv == TypeOK /\ Backed /\ Linked

THEOREM AccountsInvariant == Spec => []AccountsInv
<1>1. Init => AccountsInv
  BY InitType DEF AccountsInv
<1>2. AccountsInv /\ [Next]_vars => AccountsInv'
  BY TypeStep, BackedStep, LinkedStep DEF AccountsInv
<1> QED
  BY <1>1, <1>2, PTL DEF Spec

\* Types: a handler past its load of a token or a target has one.
THEOREM AccountTypes == Spec => []TypeOK
BY AccountsInvariant, PTL DEF AccountsInv

\* An account that registered has a refresh token.
THEOREM RegistrationIsWhole == Spec => []RegistrationWhole
<1>1. Init => RegistrationWhole
  BY DEF Init, RegistrationWhole
<1>2. AccountsInv /\ RegistrationWhole /\ [Next]_vars => RegistrationWhole'
  BY WholeStep DEF AccountsInv
<1> QED
  BY <1>1, <1>2, AccountsInvariant, PTL DEF Spec

\* Registrations, sign-ins, rotations, logouts and activations of any number of
\* users and devices, interleaved, failing and repeated, go as Sessions says.
THEOREM ImplementsSessions == Spec => SignInSessions
<1>1. Init => Book!SessionsInit /\ OwnRequests /\ KnownSignIns
  <2>1. Init => Issued \ revoked = {}
    BY DEF Init, Issued
  <2>2. Init => Book!SessionsInit
    BY <2>1 DEF Init, Book!SessionsInit, Accepted, NoRequest
  <2>3. Init => \A r \in Requests : request[r].token = None /\ request[r].step = "free"
    BY DEF Init, NoRequest
  <2> QED
    BY <2>2, <2>3 DEF OwnRequests, KnownSignIns
<1>2. AccountsInv /\ OwnRequests /\ KnownSignIns /\ [Next]_vars =>
          OwnRequests' /\ KnownSignIns' /\ [Book!SessionsNext]_(Book!sessionVars)
  BY OwnStep, KnownStep, BookStep DEF AccountsInv
<1> QED
  BY <1>1, <1>2, AccountsInvariant, PTL DEF Spec, SignInSessions, Book!SessionsSpec

\* A client that gave nothing up has a token that is not revoked.
THEOREM SessionKept == Spec => []ClientKeepsSession
<1>1. AccountsInv => ClientKeepsSession
  BY DEF AccountsInv, Linked, ClientKeepsSession
<1> QED
  BY <1>1, AccountsInvariant, PTL

\* One sign-in, one token that is not revoked.
THEOREM RotationRevokes == Spec => []OneLivePerLogin
<1>1. Init => OneLivePerLogin
  BY DEF Init, OneLivePerLogin
<1>2. AccountsInv /\ OneLivePerLogin /\ [Next]_vars => OneLivePerLogin'
  BY LiveStep DEF AccountsInv
<1> QED
  BY <1>1, <1>2, AccountsInvariant, PTL DEF Spec

\* A user who is inactive gets no token.
THEOREM DeactivatedStaysOut == Spec => DeactivationHolds
<1>1. AccountsInv /\ [Next]_vars =>
         [\A u \in Users : Quiet(u) /\ account'[u] = "inactive" =>
             /\ Quiet(u)'
             /\ \A t \in Tokens : owner'[t] = u => owner[t] = u]_vars
  BY QuietStep DEF AccountsInv
<1> QED
  BY <1>1, AccountsInvariant, PTL DEF Spec, DeactivationHolds
=============================================================================
