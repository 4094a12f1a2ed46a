------------------------------- MODULE Domains -------------------------------
(***************************************************************************)
(* Knowledge domains: app/domains/service.py with its router, and          *)
(* create_conversation with a domain_id (app/conversations/service.py).    *)
(*                                                                         *)
(* A request loads the domain, then writes it in a transaction that locks  *)
(* its row and enters its name in the unique index; an index entry another *)
(* open transaction makes or removes has to be waited for.                 *)
(***************************************************************************)
EXTENDS FiniteSets

CONSTANTS
    DomainIds,
    OwnerOf,   \* knowledge_domains.owner_id
    Names, Texts,
    NoText,    \* the description of a domain that was given none
    Requests,  \* each is made once at most
    Keep,      \* a field that is not in the body of a PATCH
    None,      \* no domain
    Absent,    \* a row before its INSERT
    Gone       \* and after its DELETE

ASSUME DomainsAssumption ==
    /\ DOMAIN OwnerOf = DomainIds
    /\ Keep \notin Names \cup Texts
    /\ NoText \in Texts
    /\ None \notin DomainIds
    /\ {Absent, Gone} \cap [name : Names, text : Texts] = {} /\ Absent # Gone

VARIABLES
    row,    \* the committed row: name and description
    scope,  \* conversations.domain_id of the conversation a request made
    ask,    \* what a request asks for
    seen,   \* the row as get_domain_or_404 loaded it
    step    \* how far its handler is, or what it answered

vars == <<row, scope, ask, seen, step>>

Rows    == [name : Names, text : Texts]
NoRow   == {Absent, Gone}
Ops     == {"create", "patch", "delete", "converse"}
Answers == {"ok", "conflict", "missing", "error"}
Steps   == {"idle", "write", "index", "commit", "refresh"} \cup Answers

NoRequest == [op |-> None, domain |-> None, name |-> Keep, text |-> Keep]

Live(d) == row[d] \notin NoRow

\* uq_domains_owner_name.
UniqueNames ==
    \A d, e \in DomainIds :
        Live(d) /\ Live(e) /\ OwnerOf[d] = OwnerOf[e] /\ row[d].name = row[e].name => d = e

Init ==
    /\ row \in [DomainIds -> [name : Names, text : {NoText}] \cup {Absent}]
    /\ UniqueNames
    /\ scope = [r \in Requests |-> None]
    /\ ask = [r \in Requests |-> NoRequest]
    /\ seen = [r \in Requests |-> Absent]
    /\ step = [r \in Requests |-> "idle"]

Goto(r, s) == step' = [step EXCEPT ![r] = s]

-----------------------------------------------------------------------------
(* Requests *)

\* The body has a name, and no domain has its id yet.
ReceiveCreate(r, d) ==
    /\ step[r] = "idle" /\ row[d] = Absent
    /\ \A s \in Requests : ask[s].domain # d
    /\ \E n \in Names, t \in Texts :
          ask' = [ask EXCEPT ![r] = [op |-> "create", domain |-> d, name |-> n, text |-> t]]
    /\ Goto(r, "write")
    /\ UNCHANGED <<row, scope, seen>>

\* get_domain_or_404 finds the domain of the caller, or answers at once.  A PATCH
\* without a field is refused before it gets to the database.
Receive(r, d) ==
    /\ step[r] = "idle"
    /\ \E op \in Ops \ {"create"}, n \in Names \cup {Keep}, t \in Texts \cup {Keep} :
          /\ op = "patch" <=> (n # Keep \/ t # Keep)
          /\ ask' = [ask EXCEPT ![r] = [op |-> op, domain |-> d, name |-> n, text |-> t]]
    /\ seen' = [seen EXCEPT ![r] = row[d]]
    /\ Goto(r, IF Live(d) THEN "write" ELSE "missing")
    /\ UNCHANGED <<row, scope>>

-----------------------------------------------------------------------------
(* Locks and the unique index *)

\* Mutant: the object is written as it was loaded.
RenamesAlways(r) == ask[r].op \in {"create", "patch"}

\* The ORM writes the name when it differs from the one loaded.
Renames(r) ==
    \/ ask[r].op = "create"
    \/ ask[r].op = "patch" /\ ask[r].name # Keep /\ ask[r].name # seen[r].name

\* r has written the row of d and not yet committed.
Holds(r, d) == step[r] \in {"index", "commit"} /\ ask[r].domain = d

\* What it wrote takes the old name out of the index.
Vacates(r, d) == Holds(r, d) /\ (ask[r].op = "delete" \/ Renames(r))

\* Its new name is in the index.
Claims(r) == step[r] = "commit" /\ Renames(r)

NewName(r) == IF ask[r].name = Keep THEN seen[r].name ELSE ask[r].name
SameOwner(r, d) == OwnerOf[ask[r].domain] = OwnerOf[d]

\* Another domain has the name r wants.
Rivals(r) == {d \in DomainIds \ {ask[r].domain} :
                 Live(d) /\ SameOwner(r, d) /\ row[d].name = NewName(r)}

\* The transactions whose end r has to wait for before it knows.
Ahead(r) == {s \in Requests \ {r} :
                \/ Claims(s) /\ SameOwner(r, ask[s].domain) /\ NewName(s) = NewName(r)
                \/ \E d \in Rivals(r) : Vacates(s, d)}

\* Mutant: there is no unique constraint.
TakenNever(r) == FALSE

Taken(r) == Rivals(r) # {}

\* What a request that cannot go on waits for.
WaitsFor(r) ==
    IF step[r] = "index" \/ (step[r] = "write" /\ ask[r].op = "create")
    THEN Ahead(r)
    ELSE {s \in Requests \ {r} :
             /\ step[r] = "write"
             /\ IF ask[r].op = "converse" THEN Vacates(s, ask[r].domain)
                                          ELSE Holds(s, ask[r].domain)}

-----------------------------------------------------------------------------
(* Handlers *)

\* Mutant: after an IntegrityError the write is tried again.
AfterConflictRetry(r) == step[r]

\* create_domain and update_domain roll back and raise a ConflictError.
AfterConflict(r) == "conflict"

EnterName(r) == Goto(r, IF Taken(r) THEN AfterConflict(r) ELSE "commit")

\* Mutant: an index entry that is not committed turns a create away.
InsertAtOnce(r) ==
    /\ step[r] = "write" /\ ask[r].op = "create"
    /\ Goto(r, IF Taken(r) \/ Ahead(r) # {} THEN AfterConflict(r) ELSE "commit")
    /\ UNCHANGED <<row, scope, ask, seen>>

\* INSERT of create_domain.
Insert(r) ==
    /\ step[r] = "write" /\ ask[r].op = "create"
    /\ WaitsFor(r) = {}
    /\ EnterName(r)
    /\ UNCHANGED <<row, scope, ask, seen>>

\* Mutant: the number of rows an UPDATE changed is not looked at.
StaleNever(r) == FALSE

\* The UPDATE finds no row: a StaleDataError.  A DELETE only warns.
Stale(r) == ask[r].op = "patch" /\ ~Live(ask[r].domain)

\* UPDATE or DELETE.
Lock(r) ==
    /\ step[r] = "write" /\ ask[r].op \in {"patch", "delete"}
    /\ WaitsFor(r) = {}
    /\ Goto(r, IF Stale(r) THEN "error"
               ELSE IF Renames(r) THEN "index" ELSE "commit")
    /\ UNCHANGED <<row, scope, ask, seen>>

\* The new name of an UPDATE, once its row is locked.
Index(r) ==
    /\ step[r] = "index"
    /\ WaitsFor(r) = {}
    /\ EnterName(r)
    /\ UNCHANGED <<row, scope, ask, seen>>

\* Renames, each to a name the next is about to leave, wait for each other:
\* PostgreSQL ends one, with an error that is not an IntegrityError.
Deadlock(r) ==
    /\ \E S \in SUBSET Requests :
          r \in S /\ \A s \in S : WaitsFor(s) \cap S # {} /\ \E q \in S : s \in WaitsFor(q)
    /\ Goto(r, "error")
    /\ UNCHANGED <<row, scope, ask, seen>>

\* A lost connection.
Abort(r) ==
    /\ step[r] \in {"write", "index", "commit"}
    /\ Goto(r, "error")
    /\ UNCHANGED <<row, scope, ask, seen>>

\* The row with what the request writes.
Written(r) ==
    [name |-> IF Renames(r) THEN NewName(r) ELSE row[ask[r].domain].name,
     text |-> IF ask[r].text = Keep \/ (ask[r].op = "patch" /\ ask[r].text = seen[r].text)
              THEN row[ask[r].domain].text
              ELSE ask[r].text]

\* A deleted domain leaves its conversations without one.
Commit(r) ==
    LET d == ask[r].domain IN
    /\ step[r] = "commit"
    /\ IF ask[r].op = "delete"
       THEN /\ row' = [row EXCEPT ![d] = Gone]
            /\ scope' = [s \in Requests |-> IF scope[s] = d THEN None ELSE scope[s]]
            /\ Goto(r, "ok")
       ELSE /\ row' = [row EXCEPT ![d] = Written(r)]
            /\ Goto(r, "refresh")
            /\ UNCHANGED scope
    /\ UNCHANGED <<ask, seen>>

\* The row is read again for the answer; it may have gone.
Refresh(r) ==
    /\ step[r] = "refresh"
    /\ Goto(r, IF Live(ask[r].domain) THEN "ok" ELSE "error")
    /\ UNCHANGED <<row, scope, ask, seen>>

\* Mutant: the foreign key is not checked.
HasDomainAlways(r) == TRUE

\* The foreign key of conversations.domain_id.
HasDomain(r) == Live(ask[r].domain)

\* create_conversation: INSERT and commit; a rename or a delete of the domain
\* that is under way is waited for.
Converse(r) ==
    /\ step[r] = "write" /\ ask[r].op = "converse"
    /\ WaitsFor(r) = {}
    /\ IF HasDomain(r)
       THEN scope' = [scope EXCEPT ![r] = ask[r].domain] /\ Goto(r, "ok")
       ELSE UNCHANGED scope /\ Goto(r, "error")
    /\ UNCHANGED <<row, ask, seen>>

-----------------------------------------------------------------------------

Handle(r) ==
    Insert(r) \/ Lock(r) \/ Index(r) \/ Deadlock(r) \/ Commit(r) \/ Refresh(r) \/ Converse(r)

Next ==
    \E r \in Requests :
        \/ \E d \in DomainIds : ReceiveCreate(r, d) \/ Receive(r, d)
        \/ Handle(r) \/ Abort(r)

Spec == Init /\ [][Next]_vars

\* A request that has been received goes on when it can; the deadlock detector
\* is part of that.
FairSpec == Spec /\ \A r \in Requests : WF_vars(Handle(r))

-----------------------------------------------------------------------------
(* Properties *)

\* Each variable stays in its range, and what commits has a row to write to.
TypeOK ==
    /\ row \in [DomainIds -> Rows \cup NoRow]
    /\ scope \in [Requests -> DomainIds \cup {None}]
    /\ ask \in [Requests -> {NoRequest} \cup
          [op : Ops, domain : DomainIds, name : Names \cup {Keep}, text : Texts \cup {Keep}]]
    /\ seen \in [Requests -> Rows \cup NoRow]
    /\ step \in [Requests -> Steps]
    /\ \A r \in Requests : step[r] \in {"index", "commit"} /\ ask[r].op = "patch" =>
          Live(ask[r].domain)

\* "Domain name must be unique per user": whatever creates, renames and deletes
\* overlap, and whichever of them fail.
NamesStayUnique == UniqueNames

\* "name=None with field omitted means 'don't change'": a request that did not
\* ask for a name never undoes a rename that was committed after it loaded the
\* row, and likewise for the description.
OnlyAskedChanges ==
    [][\A d \in DomainIds : Live(d) /\ row'[d] \notin NoRow =>
          /\ row'[d].name # row[d].name =>
                \E r \in Requests : step[r] = "commit" /\ ask[r].domain = d /\
                                    step'[r] # "commit" /\ ask[r].name = row'[d].name
          /\ row'[d].text # row[d].text =>
                \E r \in Requests : step[r] = "commit" /\ ask[r].domain = d /\
                                    step'[r] # "commit" /\ ask[r].text = row'[d].text]_vars

\* A conversation with a domain_id has a domain, although the domain may be
\* deleted between the check and the INSERT, or while the INSERT waits.
ScopeExists == \A r \in Requests : scope[r] # None => Live(scope[r])

\* Every request is answered: renames that wait for each other do not wait for
\* ever, and what a failed one held is free again.
EveryRequestAnswered ==
    \A r \in Requests : step[r] = "write" ~> step[r] \in Answers

\* "Already exists" is never said for nothing: a name a user asks for comes into
\* use by a domain of that user, be it another one, unless the request fails.
\* So nobody is turned away by a create or a rename that fails in its turn.
NameIsUsed ==
    \A r \in Requests :
        step[r] = "write" /\ Renames(r) ~>
            \/ step[r] = "error"
            \/ /\ step[r] # "idle"
               /\ \E d \in DomainIds : Live(d) /\ SameOwner(r, d) /\ row[d].name = ask[r].name
=============================================================================
