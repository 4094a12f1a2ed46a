---------------------------- MODULE DomainsProofs ----------------------------
(***************************************************************************)
(* Proofs about Domains, for every set of domains, names and requests.     *)
(***************************************************************************)
EXTENDS Domains, FiniteSetTheorems, WellFoundedInduction, TLAPS

-----------------------------------------------------------------------------
(* Strengthenings *)

\* What a request that is at a step must have asked for.
Shaped ==
    \A r \in Requests :
        /\ step[r] # "idle" => ask[r].op \in Ops /\ ask[r].domain \in DomainIds
        /\ step[r] # "idle" /\ ask[r].op = "create" => ask[r].name \in Names /\ ask[r].text \in Texts
        /\ step[r] = "index" => ask[r].op = "patch" /\ Renames(r)
        /\ step[r] = "commit" => ask[r].op # "converse"

\* A row is written by one transaction at a time, and a domain under creation by
\* its creator alone.
Exclusive ==
    /\ \A r, s \in Requests :
          r # s /\ step[r] \in {"index", "commit"} /\ step[s] \in {"index", "commit"} =>
              ask[r].domain # ask[s].domain
    /\ \A r \in Requests : step[r] \in {"write", "commit"} /\ ask[r].op = "create" =>
          /\ row[ask[r].domain] = Absent
          /\ \A s \in Requests \ {r} : ask[s].domain = ask[r].domain => step[s] \in Answers

\* A name that is about to be committed is nobody else's, and nobody else is
\* about to commit it.
Claimed ==
    \A r \in Requests : Claims(r) =>
        /\ Rivals(r) = {}
        /\ \A s \in Requests \ {r} :
              Claims(s) /\ SameOwner(r, ask[s].domain) => NewName(s) # NewName(r)

Asked == [op : Ops, domain : DomainIds, name : Names \cup {Keep}, text : Texts \cup {Keep}]

LEMMA TypeParts ==
    TypeOK => /\ row \in [DomainIds -> Rows \cup NoRow]
              /\ scope \in [Requests -> DomainIds \cup {None}]
              /\ ask \in [Requests -> {NoRequest} \cup Asked]
              /\ seen \in [Requests -> Rows \cup NoRow]
              /\ step \in [Requests -> Steps]
              /\ Keep \notin Names \cup Texts
BY DomainsAssumption DEF TypeOK, Asked

LEMMA LiveIsRow ==
    ASSUME NEW x \in Rows \cup NoRow
    PROVE  x \notin NoRow <=> x \in Rows
BY DomainsAssumption DEF Rows, NoRow

\* The name a rename writes is the one asked for.
LEMMA NameAsked ==
    ASSUME TypeOK, Shaped, NEW r \in Requests, step[r] # "idle", Renames(r)
    PROVE  NewName(r) = ask[r].name /\ NewName(r) \in Names
<1>1. ask[r] \in Asked /\ Keep \notin Names
  BY TypeParts DEF Shaped, NoRequest, Asked
<1>2. ask[r].name # Keep
  BY <1>1 DEF Renames, Shaped
<1> QED
  BY <1>1, <1>2 DEF NewName, Asked

\* What a commit writes is a row.
LEMMA WrittenRow ==
    ASSUME TypeOK, Shaped, NEW r \in Requests, step[r] = "commit", ask[r].op # "delete"
    PROVE  /\ Written(r) \in Rows
           /\ Renames(r) => Written(r).name = ask[r].name
           /\ ~Renames(r) => Live(ask[r].domain) /\ Written(r).name = row[ask[r].domain].name
<1>1. /\ ask[r].op \in {"create", "patch"} /\ ask[r].domain \in DomainIds
      /\ ask[r].op = "create" => ask[r].name \in Names /\ ask[r].text \in Texts
      /\ ask[r].op = "create" => Renames(r)
  BY DEF Shaped, Ops, Renames
<1>2. ask[r].op = "patch" => Live(ask[r].domain) /\ row[ask[r].domain] \in Rows
  BY <1>1, TypeParts, LiveIsRow DEF TypeOK, Live
<1>3. Renames(r) => NewName(r) = ask[r].name /\ NewName(r) \in Names
  BY NameAsked
<1>4. Written(r).name \in Names
  BY <1>1, <1>2, <1>3 DEF Written, Rows
<1>5. Written(r).text \in Texts
  <2>1. ask[r].text \in Texts \cup {Keep}
    BY <1>1, TypeParts DEF Shaped, NoRequest, Asked
  <2>2. CASE ask[r].op = "create"
    BY <1>1, <2>2, TypeParts DEF Written
  <2>3. CASE ask[r].op = "patch"
    BY <1>2, <2>1, <2>3 DEF Written, Rows
  <2> QED
    BY <1>1, <2>2, <2>3
<1>6. Written(r) \in Rows
  BY <1>4, <1>5 DEF Written, Rows
<1> QED
  BY <1>1, <1>2, <1>3, <1>6 DEF Written

-----------------------------------------------------------------------------
(* The steps of a request *)

\* r arrives, moves to a step that commits nothing, or commits.
Arrives(r) ==
    /\ step[r] = "idle"
    /\ \/ \E d \in DomainIds : ReceiveCreate(r, d)
       \/ \E d \in DomainIds : Receive(r, d)

Moves(r, s) == Goto(r, s) /\ UNCHANGED <<row, ask, seen>>

Enters(r) ==
    /\ (step[r] = "write" /\ ask[r].op = "create") \/ step[r] = "index"
    /\ Ahead(r) = {}
    /\ Moves(r, IF Taken(r) THEN "conflict" ELSE "commit")

Locks(r) ==
    /\ step[r] = "write" /\ ask[r].op \in {"patch", "delete"}
    /\ \A s \in Requests \ {r} : ~Holds(s, ask[r].domain)
    /\ ask[r].op = "patch" => Live(ask[r].domain)
    /\ \/ Renames(r) /\ Moves(r, "index")
       \/ ~Renames(r) /\ Moves(r, "commit")

Ends(r) == step[r] # "idle" /\ \E s \in {"ok", "missing", "error"} : Moves(r, s)

Takes(r) ==
    \/ Arrives(r) /\ UNCHANGED <<row, scope>>
    \/ (Enters(r) \/ Locks(r) \/ Ends(r)) /\ UNCHANGED scope
    \/ Commit(r)
    \/ Ends(r) /\ Live(ask[r].domain) /\ scope' = [scope EXCEPT ![r] = ask[r].domain]

LEMMA StepOf ==
    ASSUME TypeOK, Shaped, NEW r \in Requests,
           (\E d \in DomainIds : ReceiveCreate(r, d) \/ Receive(r, d)) \/ Handle(r) \/ Abort(r)
    PROVE  Takes(r)
<1> USE DEF Takes
<1>1. CASE \E d \in DomainIds : ReceiveCreate(r, d) \/ Receive(r, d)
  BY <1>1 DEF ReceiveCreate, Receive, Arrives
<1>2. CASE Insert(r)
  BY <1>2 DEF Insert, EnterName, WaitsFor, AfterConflict, Enters, Moves, Goto
<1>3. CASE Lock(r)
  <2>1. \A s \in Requests \ {r} : ~Holds(s, ask[r].domain)
    BY <1>3 DEF Lock, WaitsFor
  <2>2. CASE Stale(r)
    BY <1>3, <2>2 DEF Lock, Ends, Moves, Goto
  <2>3. CASE ~Stale(r)
    BY <1>3, <2>1, <2>3 DEF Lock, Locks, Moves, Goto, Stale
  <2> QED
    BY <2>2, <2>3
<1>4. CASE Index(r)
  BY <1>4 DEF Index, EnterName, WaitsFor, AfterConflict, Enters, Moves, Goto
<1>5. CASE Deadlock(r)
  <2>1. WaitsFor(r) # {}
    BY <1>5 DEF Deadlock
  <2>2. step[r] # "idle"
    BY <2>1 DEF WaitsFor
  <2> QED
    BY <1>5, <2>2 DEF Deadlock, Ends, Moves, Goto
<1>6. CASE Refresh(r)
  BY <1>6 DEF Refresh, Ends, Moves, Goto
<1>7. CASE Converse(r)
  BY <1>7 DEF Converse, HasDomain, Ends, Moves, Goto
<1>8. CASE Abort(r)
  BY <1>8 DEF Abort, Ends, Moves, Goto
<1> QED
  BY <1>1, <1>2, <1>3, <1>4, <1>5, <1>6, <1>7, <1>8 DEF Handle

LEMMA NextTakes ==
    TypeOK /\ Shaped /\ [Next]_vars => UNCHANGED vars \/ \E r \in Requests : Takes(r)
<1>1. ASSUME TypeOK, Shaped, Next PROVE \E r \in Requests : Takes(r)
  <2>1. PICK r \in Requests :
            (\E d \in DomainIds : ReceiveCreate(r, d) \/ Receive(r, d)) \/ Handle(r) \/ Abort(r)
    BY <1>1 DEF Next
  <2>2. Takes(r)
    BY <1>1, <2>1, StepOf
  <2> QED
    BY <2>2
<1> QED
  BY <1>1

\* What r asks for when it arrives.
Arrival(r, q, s) ==
    /\ q \in Asked
    /\ ask' = [ask EXCEPT ![r] = q]
    /\ s \in {"write", "missing"} /\ step' = [step EXCEPT ![r] = s]
    /\ \A p \in Requests \ {r} : seen'[p] = seen[p]
    /\ seen' \in [Requests -> Rows \cup NoRow]
    /\ q.op = "create" => /\ q.name \in Names /\ q.text \in Texts
                          /\ row[q.domain] = Absent
                          /\ \A p \in Requests : ask[p].domain # q.domain
    /\ q.op # "create" /\ s = "write" => Live(q.domain)

LEMMA ArriveStep ==
    ASSUME TypeOK, NEW r \in Requests, Arrives(r)
    PROVE  \E q \in Asked, s \in {"write", "missing"} : Arrival(r, q, s)
<1>1. ASSUME NEW d \in DomainIds, ReceiveCreate(r, d)
      PROVE  \E q \in Asked, s \in {"write", "missing"} : Arrival(r, q, s)
  <2>1. PICK n \in Names, t \in Texts :
            ask' = [ask EXCEPT ![r] = [op |-> "create", domain |-> d, name |-> n, text |-> t]]
    BY <1>1 DEF ReceiveCreate
  <2> DEFINE q == [op |-> "create", domain |-> d, name |-> n, text |-> t]
  <2>2. q \in Asked /\ q.op = "create" /\ q.domain = d /\ q.name = n /\ q.text = t
    BY DEF Asked, Ops
  <2>3. ask' = [ask EXCEPT ![r] = q]
    BY <2>1
  <2> HIDE DEF q
  <2>4. Arrival(r, q, "write")
    BY <1>1, <2>2, <2>3, TypeParts DEF ReceiveCreate, Goto, Arrival
  <2> QED
    BY <2>2, <2>4
<1>2. ASSUME NEW d \in DomainIds, Receive(r, d)
      PROVE  \E q \in Asked, s \in {"write", "missing"} : Arrival(r, q, s)
  <2>1. PICK op \in Ops \ {"create"}, n \in Names \cup {Keep}, t \in Texts \cup {Keep} :
            ask' = [ask EXCEPT ![r] = [op |-> op, domain |-> d, name |-> n, text |-> t]]
    BY <1>2 DEF Receive
  <2> DEFINE q == [op |-> op, domain |-> d, name |-> n, text |-> t]
             s == IF Live(d) THEN "write" ELSE "missing"
  <2>2. q \in Asked /\ q.op # "create" /\ q.domain = d
    BY DEF Asked
  <2>3. ask' = [ask EXCEPT ![r] = q]
    BY <2>1
  <2>4. /\ seen' \in [Requests -> Rows \cup NoRow]
        /\ \A p \in Requests \ {r} : seen'[p] = seen[p]
    BY <1>2, TypeParts DEF Receive
  <2> HIDE DEF q
  <2>5. Arrival(r, q, s)
    BY <1>2, <2>2, <2>3, <2>4 DEF Receive, Goto, Arrival
  <2> QED
    BY <2>2, <2>5
<1> QED
  BY <1>1, <1>2 DEF Arrives

\* A request whose question and row do not change writes what it wrote before.
LEMMA Frame ==
    ASSUME NEW s \in Requests, ask'[s] = ask[s], seen'[s] = seen[s]
    PROVE  /\ Renames(s)' <=> Renames(s)
           /\ NewName(s)' = NewName(s)
BY DEF Renames, NewName

-----------------------------------------------------------------------------
(* Types *)

LEMMA InitType == Init => TypeOK /\ Shaped /\ Exclusive /\ Claimed
<1> SUFFICES ASSUME Init PROVE TypeOK /\ Shaped /\ Exclusive /\ Claimed
  OBVIOUS
<1>1. row \in [DomainIds -> Rows \cup NoRow]
  BY DomainsAssumption DEF Init, Rows, NoRow
<1>2. TypeOK
  BY <1>1 DEF Init, TypeOK, Steps, NoRow
<1>3. Shaped /\ Exclusive /\ Claimed
  BY DEF Init, Shaped, Exclusive, Claimed, Claims
<1> QED
  BY <1>2, <1>3

LEMMA TypeStep == TypeOK /\ Shaped /\ Exclusive /\ [Next]_vars => TypeOK'
<1> SUFFICES ASSUME TypeOK, Shaped, Exclusive, [Next]_vars PROVE TypeOK'
  OBVIOUS
<1> DEFINE T == /\ row \in [DomainIds -> Rows \cup NoRow]
                /\ scope \in [Requests -> DomainIds \cup {None}]
                /\ ask \in [Requests -> {NoRequest} \cup Asked]
                /\ seen \in [Requests -> Rows \cup NoRow]
                /\ step \in [Requests -> Steps]
           P == \A s \in Requests : step[s] \in {"index", "commit"} /\ ask[s].op = "patch" =>
                    Live(ask[s].domain)
<1>0. T /\ P
  BY TypeParts DEF TypeOK
<1>1. SUFFICES T' /\ P'
  BY DEF TypeOK, Asked
<1>2. CASE UNCHANGED vars
  BY <1>0, <1>2 DEF vars, Live
<1>3. ASSUME NEW r \in Requests, Arrives(r), UNCHANGED <<row, scope>> PROVE T' /\ P'
  <2>1. PICK q \in Asked, s \in {"write", "missing"} : Arrival(r, q, s)
    BY <1>3, ArriveStep
  <2>2. T'
    BY <1>0, <1>3, <2>1 DEF Arrival, Steps, Answers
  <2>3. P'
    BY <1>0, <1>3, <2>1 DEF Arrival, Live
  <2> QED
    BY <2>2, <2>3
<1>4. ASSUME NEW r \in Requests, NEW s \in Steps, Moves(r, s),
             s \in {"index", "commit"} /\ ask[r].op = "patch" => Live(ask[r].domain),
             scope' \in [Requests -> DomainIds \cup {None}]
      PROVE  T' /\ P'
  <2>1. step' = [step EXCEPT ![r] = s] /\ UNCHANGED <<row, ask, seen>>
    BY <1>4 DEF Moves, Goto
  <2>2. T'
    BY <1>0, <1>4, <2>1
  <2>3. P'
    BY <1>0, <1>4, <2>1 DEF Live
  <2> QED
    BY <2>2, <2>3
<1>5. ASSUME NEW r \in Requests, Enters(r) \/ Locks(r) \/ Ends(r),
             scope' \in [Requests -> DomainIds \cup {None}]
      PROVE  T' /\ P'
  <2>1. ASSUME Enters(r) PROVE T' /\ P'
    <3>1. ask[r].op = "patch" => Live(ask[r].domain)
      BY <1>0, <2>1 DEF Enters
    <3> QED
      BY <1>4, <1>5, <2>1, <3>1 DEF Enters, Steps, Answers
  <2>2. ASSUME Locks(r) PROVE T' /\ P'
    BY <1>4, <1>5, <2>2 DEF Locks, Steps
  <2>3. ASSUME Ends(r) PROVE T' /\ P'
    BY <1>4, <1>5, <2>3 DEF Ends, Steps, Answers
  <2> QED
    BY <1>5, <2>1, <2>2, <2>3
<1>6. ASSUME NEW r \in Requests, Ends(r), scope' = [scope EXCEPT ![r] = ask[r].domain] PROVE T' /\ P'
  <2>1. ask[r].domain \in DomainIds
    BY <1>6 DEF Ends, Shaped
  <2> QED
    BY <1>0, <1>5, <1>6, <2>1
<1>7. ASSUME NEW r \in Requests, Commit(r) PROVE T' /\ P'
  <2> DEFINE d == ask[r].domain
  <2>1. d \in DomainIds
    BY <1>7 DEF Commit, Shaped
  <2>2. scope' \in [Requests -> DomainIds \cup {None}]
    BY <1>0, <1>7 DEF Commit
  <2>3. step' \in [Requests -> Steps] /\ step'[r] \in {"ok", "refresh"}
        /\ \A s \in Requests \ {r} : step'[s] = step[s]
    BY <1>0, <1>7 DEF Commit, Goto, Steps, Answers
  <2>4. UNCHANGED <<ask, seen>>
    BY <1>7 DEF Commit
  <2>5. /\ row' \in [DomainIds -> Rows \cup NoRow]
        /\ \A e \in DomainIds \ {d} : row'[e] = row[e]
    <3>1. CASE ask[r].op = "delete"
      BY <1>0, <1>7, <3>1 DEF Commit, NoRow
    <3>2. CASE ask[r].op # "delete"
      <4>1. Written(r) \in Rows
        BY <1>7, <3>2, WrittenRow DEF Commit
      <4> QED
        BY <1>0, <1>7, <3>2, <4>1 DEF Commit
    <3> QED
      BY <3>1, <3>2
  <2>6. ASSUME NEW s \in Requests, step'[s] \in {"index", "commit"}, ask'[s].op = "patch"
        PROVE  Live(ask[s].domain)'
    <3>1. s # r /\ step[s] \in {"index", "commit"} /\ step[r] = "commit"
      BY <1>7, <2>3, <2>6 DEF Commit
    <3>2. ask[s].domain # d /\ ask[s].domain \in DomainIds
      BY <3>1 DEF Exclusive, Shaped
    <3>3. Live(ask[s].domain)
      BY <1>0, <2>4, <2>6, <3>1
    <3> QED
      BY <2>4, <2>5, <3>2, <3>3 DEF Live
  <2> QED
    BY <1>0, <2>2, <2>3, <2>4, <2>5, <2>6
<1> QED
  BY <1>0, <1>2, <1>3, <1>5, <1>6, <1>7, NextTakes DEF Takes

-----------------------------------------------------------------------------
(* The strengthenings, step by step *)

LEMMA ShapedStep == TypeOK /\ Shaped /\ [Next]_vars => Shaped'
<1> SUFFICES ASSUME TypeOK, Shaped, [Next]_vars PROVE Shaped'
  OBVIOUS
<1>0. ask \in [Requests -> {NoRequest} \cup Asked] /\ step \in [Requests -> Steps]
  BY TypeParts
<1>1. CASE UNCHANGED vars
  BY <1>1, Frame DEF vars, Shaped
<1>2. ASSUME NEW r \in Requests, Arrives(r) PROVE Shaped'
  <2>1. PICK q \in Asked, s \in {"write", "missing"} : Arrival(r, q, s)
    BY <1>2, ArriveStep
  <2>2. q.op \in Ops /\ q.domain \in DomainIds
    BY DEF Asked
  <2>3. /\ ask'[r] = q /\ step'[r] = s
        /\ \A p \in Requests \ {r} : ask'[p] = ask[p] /\ step'[p] = step[p] /\ seen'[p] = seen[p]
    BY <1>0, <2>1 DEF Arrival
  <2>4. q.op = "create" => q.name \in Names /\ q.text \in Texts
    BY <2>1 DEF Arrival
  <2> QED
    BY <2>2, <2>3, <2>4, Frame DEF Shaped
<1>3. ASSUME NEW r \in Requests, NEW s, Goto(r, s), UNCHANGED <<ask, seen>>,
             step[r] # "idle",
             s = "index" => ask[r].op = "patch" /\ Renames(r),
             s = "commit" => ask[r].op # "converse"
      PROVE  Shaped'
  <2>1. step'[r] = s /\ \A p \in Requests \ {r} : step'[p] = step[p]
    BY <1>0, <1>3 DEF Goto
  <2>2. \A p \in Requests : (Renames(p)' <=> Renames(p)) /\ ask'[p] = ask[p]
    BY <1>3, Frame
  <2> QED
    BY <1>3, <2>1, <2>2 DEF Shaped
<1>4. ASSUME NEW r \in Requests, Enters(r) \/ Locks(r) \/ Ends(r) PROVE Shaped'
  <2>1. CASE Enters(r)
    BY <1>3, <2>1 DEF Enters, Moves, Shaped
  <2>2. CASE Locks(r)
    <3>1. ask[r].op = "patch" \/ ~Renames(r)
      BY <2>2 DEF Locks, Renames
    <3> QED
      BY <1>3, <2>2, <3>1 DEF Locks, Moves
  <2>3. CASE Ends(r)
    BY <1>3, <2>3 DEF Ends, Moves
  <2> QED
    BY <1>4, <2>1, <2>2, <2>3
<1>5. ASSUME NEW r \in Requests, Commit(r) PROVE Shaped'
  BY <1>3, <1>5 DEF Commit
<1> QED
  BY <1>1, <1>2, <1>4, <1>5, NextTakes DEF Takes

LEMMA ExclusiveStep == TypeOK /\ Shaped /\ Exclusive /\ [Next]_vars => Exclusive'
<1> SUFFICES ASSUME TypeOK, Shaped, Exclusive, [Next]_vars PROVE Exclusive'
  OBVIOUS
<1>0. /\ ask \in [Requests -> {NoRequest} \cup Asked] /\ step \in [Requests -> Steps]
      /\ row \in [DomainIds -> Rows \cup NoRow]
  BY TypeParts
<1>1. CASE UNCHANGED vars
  BY <1>1 DEF vars, Exclusive
<1>2. ASSUME NEW r \in Requests, Arrives(r), UNCHANGED <<row, scope>> PROVE Exclusive'
  <2>1. PICK q \in Asked, s \in {"write", "missing"} : Arrival(r, q, s)
    BY <1>2, ArriveStep
  <2>2. /\ ask'[r] = q /\ step'[r] = s /\ row' = row
        /\ \A p \in Requests \ {r} : ask'[p] = ask[p] /\ step'[p] = step[p]
    BY <1>0, <1>2, <2>1 DEF Arrival
  <2>3. \A p, t \in Requests :
           p # t /\ step'[p] \in {"index", "commit"} /\ step'[t] \in {"index", "commit"} =>
              ask'[p].domain # ask'[t].domain
    BY <2>2 DEF Exclusive
  <2>4. ASSUME s = "write", q.op = "create"
        PROVE  row[q.domain] = Absent /\ \A p \in Requests : ask[p].domain # q.domain
    BY <2>1, <2>4 DEF Arrival
  <2>5. ASSUME NEW p \in Requests \ {r}, step[p] \in {"write", "commit"}, ask[p].op = "create",
               q.domain = ask[p].domain
        PROVE  s \in Answers
    <3>1. row[q.domain] = Absent
      BY <2>5 DEF Exclusive
    <3>2. ~Live(q.domain) /\ q.op # "create"
      BY <2>1, <2>5, <3>1 DEF Live, NoRow, Arrival
    <3> QED
      BY <2>1, <3>2 DEF Arrival, Answers
  <2>6. ASSUME NEW p \in Requests, step'[p] \in {"write", "commit"}, ask'[p].op = "create"
        PROVE  /\ row'[ask'[p].domain] = Absent
               /\ \A t \in Requests \ {p} : ask'[t].domain = ask'[p].domain => step'[t] \in Answers
    <3>1. CASE p = r
      BY <2>2, <2>4, <2>6, <3>1
    <3>2. CASE p # r
      BY <2>2, <2>5, <2>6, <3>2 DEF Exclusive
    <3> QED
      BY <3>1, <3>2
  <2> QED
    BY <2>3, <2>6 DEF Exclusive
<1>3. ASSUME NEW r \in Requests, NEW s, Moves(r, s), s # "write", step[r] # "idle",
             step[r] \notin Answers \/ s \in Answers,
             s = "commit" /\ ask[r].op = "create" => step[r] \in {"write", "commit"},
             s \in {"index", "commit"} => \A p \in Requests \ {r} :
                 ask[p].domain = ask[r].domain => step[p] \notin {"index", "commit"}
      PROVE  Exclusive'
  <2>1. /\ step'[r] = s /\ ask' = ask /\ row' = row
        /\ \A p \in Requests \ {r} : step'[p] = step[p]
    BY <1>0, <1>3 DEF Moves, Goto
  <2>2. \A p, t \in Requests :
           p # t /\ step'[p] \in {"index", "commit"} /\ step'[t] \in {"index", "commit"} =>
              ask'[p].domain # ask'[t].domain
    BY <1>3, <2>1 DEF Exclusive
  <2>3. ASSUME NEW p \in Requests, step'[p] \in {"write", "commit"}, ask[p].op = "create"
        PROVE  /\ row[ask[p].domain] = Absent
               /\ \A t \in Requests \ {p} : ask[t].domain = ask[p].domain => step'[t] \in Answers
    <3>1. step[p] \in {"write", "commit"}
      BY <1>3, <2>1, <2>3
    <3> QED
      BY <1>3, <2>1, <2>3, <3>1 DEF Exclusive
  <2> QED
    BY <2>1, <2>2, <2>3 DEF Exclusive
<1>4. ASSUME NEW r \in Requests, Enters(r) PROVE Exclusive'
  <2>1. ASSUME NEW p \in Requests \ {r}, ask[p].domain = ask[r].domain
        PROVE  step[p] \notin {"index", "commit"}
    <3>1. CASE step[r] = "index"
      BY <2>1, <3>1 DEF Exclusive
    <3>2. CASE step[r] = "write" /\ ask[r].op = "create"
      BY <2>1, <3>2 DEF Exclusive, Answers
    <3> QED
      BY <1>4, <3>1, <3>2 DEF Enters
  <2>2. step[r] \notin Answers /\ step[r] # "idle" /\ (ask[r].op = "create" => step[r] = "write")
    BY <1>4 DEF Enters, Answers, Shaped
  <2> QED
    BY <1>3, <1>4, <2>1, <2>2 DEF Enters, Answers
<1>5. ASSUME NEW r \in Requests, Locks(r) PROVE Exclusive'
  <2>1. \A p \in Requests \ {r} : ask[p].domain = ask[r].domain => step[p] \notin {"index", "commit"}
    BY <1>5 DEF Locks, Holds
  <2> QED
    BY <1>3, <1>5, <2>1 DEF Locks, Answers
<1>6. ASSUME NEW r \in Requests, Ends(r) PROVE Exclusive'
  BY <1>3, <1>6 DEF Ends, Answers
<1>7. ASSUME NEW r \in Requests, Commit(r) PROVE Exclusive'
  <2> DEFINE d == ask[r].domain
  <2>1. /\ step'[r] \in {"ok", "refresh"} /\ ask' = ask /\ step[r] = "commit"
        /\ \A p \in Requests \ {r} : step'[p] = step[p]
        /\ \A e \in DomainIds \ {d} : row'[e] = row[e]
    BY <1>0, <1>7 DEF Commit, Goto
  <2>2. \A p, t \in Requests :
           p # t /\ step'[p] \in {"index", "commit"} /\ step'[t] \in {"index", "commit"} =>
              ask'[p].domain # ask'[t].domain
    BY <2>1 DEF Exclusive
  <2>3. ASSUME NEW p \in Requests, step'[p] \in {"write", "commit"}, ask[p].op = "create"
        PROVE  /\ row'[ask[p].domain] = Absent
               /\ \A t \in Requests \ {p} : ask[t].domain = ask[p].domain => step'[t] \in Answers
    <3>1. p # r /\ step[p] \in {"write", "commit"} /\ ask[p].domain \in DomainIds
      BY <2>1, <2>3 DEF Shaped
    <3>2. ask[p].domain # d
      BY <2>1, <2>3, <3>1 DEF Exclusive, Answers
    <3> QED
      BY <2>1, <2>3, <3>1, <3>2 DEF Exclusive
  <2> QED
    BY <2>1, <2>2, <2>3 DEF Exclusive
<1> QED
  BY <1>1, <1>2, <1>4, <1>5, <1>6, <1>7, NextTakes DEF Takes

\* What a commit does to the rows.
LEMMA CommitRows ==
    ASSUME TypeOK, Shaped, NEW r \in Requests, Commit(r)
    PROVE  /\ step[r] = "commit" /\ ask[r].domain \in DomainIds /\ UNCHANGED <<ask, seen>>
           /\ step'[r] # "commit" /\ \A s \in Requests \ {r} : step'[s] = step[s]
           /\ \A e \in DomainIds : e # ask[r].domain => row'[e] = row[e]
           /\ row'[ask[r].domain] = IF ask[r].op = "delete" THEN Gone ELSE Written(r)
           /\ ask[r].op # "delete" => Written(r) \in Rows
BY TypeParts, WrittenRow DEF Commit, Goto, Shaped

LEMMA ClaimedStep == TypeOK /\ Shaped /\ Claimed /\ [Next]_vars => Claimed'
<1> SUFFICES ASSUME TypeOK, Shaped, Claimed, [Next]_vars PROVE Claimed'
  OBVIOUS
<1>0. /\ ask \in [Requests -> {NoRequest} \cup Asked] /\ step \in [Requests -> Steps]
      /\ row \in [DomainIds -> Rows \cup NoRow]
  BY TypeParts
<1>1. ASSUME NEW r \in Requests, Claims(r)',
             \A s \in Requests : Claims(s)' => Claims(s) /\ ask'[s] = ask[s] /\ seen'[s] = seen[s],
             row' = row
      PROVE  /\ Rivals(r)' = {}
             /\ \A s \in Requests \ {r} :
                   Claims(s)' /\ SameOwner(r, ask[s].domain)' => NewName(s)' # NewName(r)'
  <2>1. Claims(r) /\ ask'[r] = ask[r] /\ NewName(r)' = NewName(r)
    BY <1>1, Frame
  <2>2. Rivals(r)' = Rivals(r)
    BY <1>1, <2>1 DEF Rivals, Live, SameOwner
  <2>3. ASSUME NEW s \in Requests \ {r}, Claims(s)', SameOwner(r, ask[s].domain)'
        PROVE  NewName(s)' # NewName(r)'
    <3>1. Claims(s) /\ ask'[s] = ask[s] /\ NewName(s)' = NewName(s)
      BY <1>1, <2>3, Frame
    <3>2. SameOwner(r, ask[s].domain)
      BY <2>1, <2>3, <3>1 DEF SameOwner
    <3> QED
      BY <2>1, <3>1, <3>2 DEF Claimed
  <2> QED
    BY <2>1, <2>2, <2>3 DEF Claimed
<1>2. ASSUME row' = row,
             \A s \in Requests : Claims(s)' => Claims(s) /\ ask'[s] = ask[s] /\ seen'[s] = seen[s]
      PROVE  Claimed'
  BY <1>1, <1>2 DEF Claimed
<1>3. CASE UNCHANGED vars
  BY <1>2, <1>3, Frame DEF vars, Claims
<1>4. ASSUME NEW r \in Requests, Arrives(r), UNCHANGED <<row, scope>> PROVE Claimed'
  <2>1. PICK q \in Asked, s \in {"write", "missing"} : Arrival(r, q, s)
    BY <1>4, ArriveStep
  <2>2. /\ step'[r] # "commit"
        /\ \A p \in Requests \ {r} : ask'[p] = ask[p] /\ step'[p] = step[p] /\ seen'[p] = seen[p]
    BY <1>0, <2>1 DEF Arrival
  <2>3. \A p \in Requests : Claims(p)' => Claims(p) /\ ask'[p] = ask[p] /\ seen'[p] = seen[p]
    BY <2>2, Frame DEF Claims
  <2> QED
    BY <1>2, <1>4, <2>3
<1>5. ASSUME NEW r \in Requests, NEW s, Moves(r, s), s # "commit" \/ ~Renames(r) PROVE Claimed'
  <2>1. /\ step'[r] = s /\ ask' = ask /\ row' = row /\ seen' = seen
        /\ \A p \in Requests \ {r} : step'[p] = step[p]
    BY <1>0, <1>5 DEF Moves, Goto
  <2>2. \A p \in Requests : Claims(p)' => Claims(p) /\ ask'[p] = ask[p] /\ seen'[p] = seen[p]
    BY <1>5, <2>1, Frame DEF Claims
  <2> QED
    BY <1>2, <2>1, <2>2
<1>6. ASSUME NEW r \in Requests, Ahead(r) = {}, Moves(r, "commit"), ~Taken(r) PROVE Claimed'
  <2>1. /\ step'[r] = "commit" /\ ask' = ask /\ row' = row /\ seen' = seen
        /\ \A p \in Requests \ {r} : step'[p] = step[p]
    BY <1>0, <1>6 DEF Moves, Goto
  <2>2. \A p \in Requests : /\ Rivals(p)' = Rivals(p) /\ NewName(p)' = NewName(p)
                            /\ \A d \in DomainIds : SameOwner(p, d)' <=> SameOwner(p, d)
    BY <2>1, Frame DEF Rivals, Live, SameOwner
  <2>3. \A p \in Requests \ {r} : Claims(p)' => Claims(p) /\ ask[p].domain \in DomainIds
    BY <2>1, Frame DEF Claims, Shaped
  <2>4. \A p \in Requests \ {r} : Claims(p) /\ SameOwner(r, ask[p].domain) => NewName(p) # NewName(r)
    BY <1>6 DEF Ahead
  <2>5. \A p \in Requests \ {r} : SameOwner(p, ask[r].domain) <=> SameOwner(r, ask[p].domain)
    BY DEF SameOwner
  <2>6. ASSUME NEW p \in Requests, Claims(p)'
        PROVE  /\ Rivals(p) = {}
               /\ \A t \in Requests \ {p} :
                     Claims(t)' /\ SameOwner(p, ask[t].domain) => NewName(t) # NewName(p)
    <3>1. CASE p = r
      BY <1>6, <2>3, <2>4, <3>1 DEF Taken
    <3>2. CASE p # r
      <4>1. Claims(p)
        BY <2>3, <2>6, <3>2
      <4>2. Rivals(p) = {}
        BY <4>1 DEF Claimed
      <4>3. ASSUME NEW t \in Requests \ {p}, Claims(t)', SameOwner(p, ask[t].domain)
            PROVE  NewName(t) # NewName(p)
        <5>1. CASE t = r
          BY <2>4, <2>5, <3>2, <4>1, <4>3, <5>1
        <5>2. CASE t # r
          BY <2>3, <4>1, <4>3, <5>2 DEF Claimed
        <5> QED
          BY <5>1, <5>2
      <4> QED
        BY <4>2, <4>3
    <3> QED
      BY <3>1, <3>2
  <2>7. \A p, t \in Requests : SameOwner(p, ask[t].domain)' <=> SameOwner(p, ask[t].domain)
    BY <2>1 DEF SameOwner
  <2> QED
    BY <2>2, <2>6, <2>7 DEF Claimed
<1>7. ASSUME NEW r \in Requests, Enters(r) \/ Locks(r) \/ Ends(r) PROVE Claimed'
  <2>1. CASE Enters(r) /\ Taken(r)
    BY <1>5, <2>1 DEF Enters
  <2>2. CASE Enters(r) /\ ~Taken(r)
    BY <1>6, <2>2 DEF Enters
  <2>3. CASE Locks(r)
    BY <1>5, <2>3 DEF Locks
  <2>4. CASE Ends(r)
    BY <1>5, <2>4 DEF Ends
  <2> QED
    BY <1>7, <2>1, <2>2, <2>3, <2>4
<1>8. ASSUME NEW r \in Requests, Commit(r) PROVE Claimed'
  <2> DEFINE d == ask[r].domain
  <2>1. /\ step[r] = "commit" /\ d \in DomainIds /\ UNCHANGED <<ask, seen>>
        /\ step'[r] # "commit" /\ \A s \in Requests \ {r} : step'[s] = step[s]
        /\ \A e \in DomainIds : e # d => row'[e] = row[e]
        /\ row'[d] = IF ask[r].op = "delete" THEN Gone ELSE Written(r)
    BY <1>8, CommitRows
  <2>2. \A p \in Requests : Claims(p)' => p # r /\ Claims(p)
    BY <2>1, Frame DEF Claims
  <2>3. \A p \in Requests : /\ NewName(p)' = NewName(p)
                            /\ \A e \in DomainIds : SameOwner(p, e)' <=> SameOwner(p, e)
    BY <2>1, Frame DEF SameOwner
  <2>4. ASSUME NEW p \in Requests \ {r}, Claims(p), NEW e \in Rivals(p)' PROVE FALSE
    <3>1. /\ e \in DomainIds \ {ask[p].domain} /\ row'[e] \notin NoRow
          /\ SameOwner(p, e) /\ row'[e].name = NewName(p)
      BY <2>1, <2>3, <2>4 DEF Rivals, Live
    <3>2. Rivals(p) = {}
      BY <2>4 DEF Claimed
    <3>3. CASE e # d
      BY <2>1, <3>1, <3>2, <3>3 DEF Rivals, Live
    <3>4. CASE e = d
      <4>1. ask[r].op # "delete" /\ Written(r).name = NewName(p)
        BY <2>1, <3>1, <3>4 DEF NoRow
      <4>2. CASE Renames(r)
        <5>1. Claims(r) /\ NewName(r) = NewName(p)
          BY <1>8, <2>1, <4>1, <4>2, WrittenRow, NameAsked DEF Claims
        <5> QED
          BY <2>4, <3>1, <3>4, <5>1 DEF Claimed
      <4>3. CASE ~Renames(r)
        <5>1. Live(d) /\ row[d].name = NewName(p)
          BY <2>1, <4>1, <4>3, WrittenRow
        <5> QED
          BY <3>1, <3>2, <3>4, <5>1 DEF Rivals
      <4> QED
        BY <4>2, <4>3
    <3> QED
      BY <3>3, <3>4
  <2>5. ASSUME NEW p \in Requests, Claims(p)'
        PROVE  /\ Rivals(p)' = {}
               /\ \A t \in Requests \ {p} :
                     Claims(t)' /\ SameOwner(p, ask[t].domain)' => NewName(t)' # NewName(p)'
    <3>1. Rivals(p)' = {}
      BY <2>2, <2>4, <2>5
    <3>2. \A t \in Requests : SameOwner(p, ask[t].domain)' <=> SameOwner(p, ask[t].domain)
      BY <2>1 DEF SameOwner
    <3> QED
      BY <2>2, <2>3, <2>5, <3>1, <3>2 DEF Claimed
  <2> QED
    BY <2>5 DEF Claimed
<1> QED
  BY <1>3, <1>4, <1>7, <1>8, NextTakes DEF Takes

-----------------------------------------------------------------------------
(* The properties, step by step *)

\* Rows change only when something is committed.
LEMMA RowStep ==
    ASSUME TypeOK, Shaped, [Next]_vars
    PROVE  row' = row \/ \E r \in Requests : Commit(r)
BY NextTakes DEF vars, Takes, Enters, Locks, Ends, Moves

LEMMA NamesStep == TypeOK /\ Shaped /\ Claimed /\ NamesStayUnique /\ [Next]_vars => NamesStayUnique'
<1> SUFFICES ASSUME TypeOK, Shaped, Claimed, NamesStayUnique, [Next]_vars,
                    NEW d \in DomainIds, NEW e \in DomainIds, Live(d)', Live(e)',
                    OwnerOf[d] = OwnerOf[e], row'[d].name = row'[e].name
             PROVE  d = e
  BY DEF NamesStayUnique, UniqueNames
<1>1. CASE row' = row
  BY <1>1 DEF NamesStayUnique, UniqueNames, Live
<1>2. ASSUME NEW r \in Requests, Commit(r) PROVE d = e
  <2> DEFINE c == ask[r].domain
  <2>1. /\ step[r] = "commit" /\ c \in DomainIds
        /\ \A x \in DomainIds : x # c => row'[x] = row[x]
        /\ row'[c] = IF ask[r].op = "delete" THEN Gone ELSE Written(r)
    BY <1>2, CommitRows
  <2>2. ASSUME NEW x \in DomainIds, x # c, Live(x), row'[c] \notin NoRow, OwnerOf[x] = OwnerOf[c],
               row[x].name = row'[c].name
        PROVE  FALSE
    <3>1. ask[r].op # "delete" /\ row'[c] = Written(r)
      BY <2>1, <2>2 DEF NoRow
    <3>2. CASE Renames(r)
      <4>1. Claims(r) /\ row[x].name = NewName(r)
        BY <1>2, <2>1, <2>2, <3>1, <3>2, WrittenRow, NameAsked DEF Claims
      <4> QED
        BY <2>2, <4>1 DEF Claimed, Rivals, SameOwner
    <3>3. CASE ~Renames(r)
      <4>1. Live(c) /\ row[x].name = row[c].name
        BY <2>1, <2>2, <3>1, <3>3, WrittenRow
      <4> QED
        BY <2>1, <2>2, <4>1 DEF NamesStayUnique, UniqueNames
    <3> QED
      BY <3>2, <3>3
  <2>0. row'[d] \notin NoRow /\ row'[e] \notin NoRow
    BY DEF Live
  <2>3. CASE d # c /\ e # c
    BY <2>0, <2>1, <2>3 DEF NamesStayUnique, UniqueNames, Live
  <2>4. CASE d = c /\ e # c
    BY <2>0, <2>1, <2>2, <2>4 DEF Live
  <2>5. CASE d # c /\ e = c
    BY <2>0, <2>1, <2>2, <2>5 DEF Live
  <2> QED
    BY <2>3, <2>4, <2>5
<1> QED
  BY <1>1, <1>2, RowStep

LEMMA ScopeStep == TypeOK /\ Shaped /\ ScopeExists /\ [Next]_vars => ScopeExists'
<1> SUFFICES ASSUME TypeOK, Shaped, ScopeExists, [Next]_vars,
                    NEW s \in Requests, scope'[s] # None
             PROVE  Live(scope[s])'
  BY DEF ScopeExists
<1>0. scope \in [Requests -> DomainIds \cup {None}]
  BY TypeParts
<1>1. ASSUME UNCHANGED <<row, scope>> PROVE Live(scope[s])'
  BY <1>1 DEF ScopeExists, Live
<1>2. ASSUME NEW r \in Requests, Ends(r), Live(ask[r].domain),
             scope' = [scope EXCEPT ![r] = ask[r].domain]
      PROVE  Live(scope[s])'
  BY <1>0, <1>2 DEF ScopeExists, Live, Ends, Moves
<1>3. ASSUME NEW r \in Requests, Commit(r) PROVE Live(scope[s])'
  <2> DEFINE c == ask[r].domain
  <2>1. /\ c \in DomainIds
        /\ \A x \in DomainIds : x # c => row'[x] = row[x]
        /\ row'[c] = IF ask[r].op = "delete" THEN Gone ELSE Written(r)
        /\ ask[r].op # "delete" => Written(r) \in Rows
    BY <1>3, CommitRows
  <2>2. scope'[s] = scope[s] /\ (scope[s] = c => ask[r].op # "delete")
    BY <1>0, <1>3 DEF Commit
  <2>3. scope[s] \in DomainIds /\ Live(scope[s])
    BY <1>0, <2>2 DEF ScopeExists
  <2> QED
    BY <2>1, <2>2, <2>3, LiveIsRow DEF Live
<1> QED
  BY <1>1, <1>2, <1>3, NextTakes DEF Takes, vars, Enters, Locks, Ends, Moves

LEMMA AskedStep ==
    ASSUME TypeOK, Shaped, [Next]_vars, NEW d \in DomainIds, Live(d), row'[d] \notin NoRow
    PROVE  /\ row'[d].name # row[d].name =>
                 \E r \in Requests : step[r] = "commit" /\ ask[r].domain = d /\
                                     step'[r] # "commit" /\ ask[r].name = row'[d].name
           /\ row'[d].text # row[d].text =>
                 \E r \in Requests : step[r] = "commit" /\ ask[r].domain = d /\
                                     step'[r] # "commit" /\ ask[r].text = row'[d].text
<1>1. CASE row' = row
  BY <1>1
<1>2. ASSUME NEW r \in Requests, Commit(r)
      PROVE  \/ row'[d] = row[d]
             \/ /\ step[r] = "commit" /\ ask[r].domain = d /\ step'[r] # "commit"
                /\ row'[d].name # row[d].name => ask[r].name = row'[d].name
                /\ row'[d].text # row[d].text => ask[r].text = row'[d].text
  <2>1. CASE ask[r].domain # d
    BY <1>2, <2>1, CommitRows
  <2>2. CASE ask[r].domain = d
    <3>1. step[r] = "commit" /\ step'[r] # "commit" /\ ask[r].op # "delete" /\ row'[d] = Written(r)
      BY <1>2, <2>2, CommitRows DEF NoRow
    <3>2. row'[d].name # row[d].name => ask[r].name = row'[d].name
      BY <2>2, <3>1, WrittenRow
    <3>3. row'[d].text # row[d].text => ask[r].text = row'[d].text
      BY <2>2, <3>1 DEF Written
    <3> QED
      BY <2>2, <3>1, <3>2, <3>3
  <2> QED
    BY <2>1, <2>2
<1> QED
  BY <1>1, <1>2, RowStep

-----------------------------------------------------------------------------
(* Theorems *)

DomainsInv == TypeOK /\ Shaped /\ Exclusive /\ Claimed

THEOREM DomainsInvariant == Spec => []DomainsInv
<1>1. Init => DomainsInv
  BY InitType DEF DomainsInv
<1>2. DomainsInv /\ [Next]_vars => DomainsInv'
  BY TypeStep, ShapedStep, ExclusiveStep, ClaimedStep DEF DomainsInv
<1> QED
  BY <1>1, <1>2, PTL DEF Spec

\* Types: what is about to be committed by an UPDATE has a row to write to.
THEOREM DomainTypes == Spec => []TypeOK
BY DomainsInvariant, PTL DEF DomainsInv

\* Two domains of one user never have one name.
THEOREM NamesUnique == Spec => []NamesStayUnique
<1>1. Init => NamesStayUnique
  BY DEF Init, NamesStayUnique
<1>2. DomainsInv /\ NamesStayUnique /\ [Next]_vars => NamesStayUnique'
  BY NamesStep DEF DomainsInv
<1> QED
  BY <1>1, <1>2, DomainsInvariant, PTL DEF Spec

\* The domain of a conversation exists.
THEOREM ScopesExist == Spec => []ScopeExists
<1>1. Init => ScopeExists
  BY DEF Init, ScopeExists
<1>2. DomainsInv /\ ScopeExists /\ [Next]_vars => ScopeExists'
  BY ScopeStep DEF DomainsInv
<1> QED
  BY <1>1, <1>2, DomainsInvariant, PTL DEF Spec

\* A PATCH changes what it asks for.
THEOREM OnlyAskedIsWritten == Spec => OnlyAskedChanges
<1>1. DomainsInv /\ [Next]_vars =>
         [\A d \in DomainIds : Live(d) /\ row'[d] \notin NoRow =>
             /\ row'[d].name # row[d].name =>
                   \E r \in Requests : step[r] = "commit" /\ ask[r].domain = d /\
                                       step'[r] # "commit" /\ ask[r].name = row'[d].name
             /\ row'[d].text # row[d].text =>
                   \E r \in Requests : step[r] = "commit" /\ ask[r].domain = d /\
                                       step'[r] # "commit" /\ ask[r].text = row'[d].text]_vars
  BY AskedStep DEF DomainsInv
<1> QED
  BY <1>1, DomainsInvariant, PTL DEF Spec, OnlyAskedChanges

-----------------------------------------------------------------------------
(* Nobody waits for ever *)

Unanswered == {r \in Requests : step[r] \in {"write", "index", "commit", "refresh"}}

\* What the deadlock detector looks for.
Cycle(S) == \A s \in S : WaitsFor(s) \cap S # {} /\ \E q \in S : s \in WaitsFor(q)

\* The guards of the actions of Handle, those of Deadlock the last.
CanGoOn(r) ==
    \/ step[r] \in {"commit", "refresh"}
    \/ step[r] = "write" /\ ask[r].op \in Ops /\ WaitsFor(r) = {}
    \/ step[r] = "index" /\ WaitsFor(r) = {}
    \/ \E S \in SUBSET Requests : r \in S /\ Cycle(S)

\* Everybody in S waits for somebody in S.
Waiting(S) == S # {} /\ \A s \in S : WaitsFor(s) \cap S # {}

LEMMA WaitsForOthers ==
    ASSUME NEW r \in Requests, NEW s \in WaitsFor(r)
    PROVE  s \in Requests \ {r} /\ step[s] \in {"index", "commit"}
BY DEF WaitsFor, Ahead, Claims, Vacates, Holds

\* A smallest set of waiting requests is a cycle: one nobody waits for could be
\* left out.
LEMMA WaitingHasCycle ==
    ASSUME IsFiniteSet(Requests), NEW W \in SUBSET Requests, Waiting(W)
    PROVE  \E S \in SUBSET Requests : S # {} /\ Cycle(S)
<1> DEFINE T == {S \in SUBSET Requests : Waiting(S)}
           R == StrictSubsetOrdering(Requests)
<1>1. IsWellFoundedOn(R, SUBSET Requests)
  BY FS_StrictSubsetOrderingWellFounded, FS_FiniteSubsetsOfFinite
<1>2. T \subseteq SUBSET Requests /\ W \in T
  OBVIOUS
<1>3. PICK S \in T : \A U \in T : ~(<<U, S>> \in R)
  <2> HIDE DEF T, R
  <2> QED
    BY <1>1, <1>2, WFMin
<1>4. S \in SUBSET Requests /\ Waiting(S)
  OBVIOUS
<1>5. ASSUME NEW s \in S, \A q \in S : s \notin WaitsFor(q) PROVE FALSE
  <2> DEFINE U == S \ {s}
  <2>1. s \in Requests /\ \A q \in S : WaitsFor(q) \cap S = WaitsFor(q) \cap U
    BY <1>4, <1>5
  <2>2. PICK t \in WaitsFor(s) : t \in S
    BY <1>4, <1>5 DEF Waiting
  <2>3. t \in U
    BY <2>1, <2>2, WaitsForOthers
  <2>4. Waiting(U)
    BY <1>4, <2>1, <2>3 DEF Waiting
  <2>5. U \in T /\ U \subseteq S /\ U # S
    BY <1>4, <1>5, <2>4
  <2>6. <<U, S>> \in R
    BY <1>4, <2>5 DEF StrictSubsetOrdering
  <2> QED
    BY <1>3, <2>5, <2>6
<1>6. Cycle(S)
  BY <1>4, <1>5 DEF Cycle, Waiting
<1> QED
  BY <1>4, <1>6 DEF Waiting

\* As long as a request is not answered, one of them can go on, if only because
\* the deadlock detector ends it: whatever waits for a lock or an index entry
\* is waited for in a cycle, or waits in the end for one that does not wait.
THEOREM NobodyIsStuck ==
    ASSUME IsFiniteSet(Requests)
    PROVE  Spec => [](Unanswered # {} => \E r \in Unanswered : CanGoOn(r))
<1>1. DomainsInv => (Unanswered # {} => \E r \in Unanswered : CanGoOn(r))
  <2> SUFFICES ASSUME DomainsInv, Unanswered # {}, \A r \in Unanswered : ~CanGoOn(r)
               PROVE  FALSE
    OBVIOUS
  <2>1. \A r \in Unanswered : step[r] \in {"write", "index"} /\ WaitsFor(r) # {}
    BY DEF Unanswered, CanGoOn, DomainsInv, Shaped
  <2>2. \A r \in Unanswered : WaitsFor(r) \subseteq Unanswered
    BY WaitsForOthers DEF Unanswered
  <2>3. Unanswered \in SUBSET Requests /\ Waiting(Unanswered)
    BY <2>1, <2>2 DEF Unanswered, Waiting
  <2>4. PICK S \in SUBSET Requests : S # {} /\ Cycle(S)
    BY <2>3, WaitingHasCycle
  <2>5. PICK s \in S : \E q \in S : s \in WaitsFor(q)
    BY <2>4 DEF Cycle
  <2>6. s \in Unanswered
    BY <2>5, WaitsForOthers DEF Unanswered
  <2> QED
    BY <2>4, <2>5, <2>6 DEF CanGoOn
<1> QED
  BY <1>1, DomainsInvariant, PTL

\* The steps a handler has left.
StepsLeft == [idle |-> 5, write |-> 4, index |-> 3, commit |-> 2, refresh |-> 1,
              ok |-> 0, conflict |-> 0, missing |-> 0, error |-> 0]

\* Every step takes one request nearer to its answer and leaves the others where
\* they are: nothing is tried again, and an answer is the last a request does.
\* With NobodyIsStuck, all requests are answered if those who can go on do.
THEOREM RequestsRunDown ==
    Spec => [][\E r \in Requests : /\ StepsLeft[step'[r]] < StepsLeft[step[r]]
                                  /\ \A s \in Requests \ {r} : step'[s] = step[s]]_vars
<1>1. DomainsInv /\ Next =>
          \E r \in Requests : /\ StepsLeft[step'[r]] < StepsLeft[step[r]]
                             /\ \A s \in Requests \ {r} : step'[s] = step[s]
  <2> SUFFICES ASSUME DomainsInv, Next
               PROVE  \E r \in Requests : /\ StepsLeft[step'[r]] < StepsLeft[step[r]]
                                         /\ \A s \in Requests \ {r} : step'[s] = step[s]
    OBVIOUS
  <2>1. PICK r \in Requests :
            (\E d \in DomainIds : ReceiveCreate(r, d) \/ Receive(r, d)) \/ Handle(r) \/ Abort(r)
    BY DEF Next
  <2>2. step \in [Requests -> Steps]
    BY DEF DomainsInv, TypeOK
  <2>3. \E s \in Steps : step' = [step EXCEPT ![r] = s] /\ StepsLeft[s] < StepsLeft[step[r]]
    <3> USE DEF Goto, Steps, Answers, StepsLeft
    <3>1. CASE \E d \in DomainIds : ReceiveCreate(r, d) \/ Receive(r, d)
      BY <3>1 DEF ReceiveCreate, Receive
    <3>2. CASE Insert(r) \/ Lock(r) \/ Index(r)
      BY <3>2 DEF Insert, Lock, Index, EnterName, AfterConflict
    <3>3. CASE Commit(r) \/ Refresh(r) \/ Converse(r) \/ Abort(r)
      BY <3>3 DEF Commit, Refresh, Converse, Abort
    <3>4. CASE Deadlock(r)
      <4>1. WaitsFor(r) # {}
        BY <3>4 DEF Deadlock
      <4>2. step[r] \in {"write", "index"}
        BY <4>1 DEF WaitsFor
      <4> QED
        BY <3>4, <4>2 DEF Deadlock
    <3> QED
      BY <2>1, <3>1, <3>2, <3>3, <3>4 DEF Handle
  <2> QED
    BY <2>2, <2>3
<1> QED
  BY <1>1, DomainsInvariant, PTL DEF Spec
=============================================================================
