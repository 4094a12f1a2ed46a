------------------------------ MODULE Pipeline ------------------------------
(***************************************************************************)
(* The life of a document: the upload, soft-delete and reprocess handlers  *)
(* of app/documents/service.py, the Celery task extract_text of            *)
(* app/processing/tasks.py, and the domain delete of                       *)
(* app/domains/service.py, which share the rows of PostgreSQL and the      *)
(* cpu_bound queue of the broker.                                          *)
(*                                                                         *)
(* Every handler is cut where another transaction can come between: after  *)
(* the SELECT that loads a row, and after each commit.  A transaction      *)
(* itself is two steps when it deletes chunks: the DELETE statement picks  *)
(* the rows it sees (READ COMMITTED), the commit applies everything.       *)
(* One "chunk set" stands for all the rows one run of the task inserts.    *)
(***************************************************************************)
EXTENDS Naturals, FiniteSets, Sequences

CONSTANTS
    Docs,        \* documents; each is also the name of its upload request
    Reprocs,     \* admin reprocess requests
    Deletes,     \* soft-delete requests of the owner
    Domains,     \* knowledge domains
    Workers,     \* processes of the Celery worker (docker-compose: -c 2)
    ChunkSets,   \* identities of inserted chunk sets
    DocOf,       \* the document a request is about
    DomainOf,    \* the domain a document is uploaded to
    MaxRetries,  \* max_retries of the task (3)
    MaxFaults,   \* bound: failures injected in one behaviour
    NoMessage    \* what an idle worker holds

ASSUME PipelineAssumption ==
    /\ DocOf \in [Docs \cup Reprocs \cup Deletes -> Docs]
    /\ \A d \in Docs : DocOf[d] = d
    /\ DomainOf \in [Docs -> Domains]
    /\ Docs \cap Reprocs = {} /\ Workers \cap Reprocs = {}
    /\ MaxRetries \in Nat
    /\ MaxFaults \in Nat

\* A message of the task.  Celery does not tell two messages with the same task
\* id apart, but either of them can be run: every copy has a number of its own,
\* which a retry and the redelivery of an unacknowledged message keep.
Message == [copy : Nat, retries : 0..MaxRetries]

ASSUME NoMessageAssumption == NoMessage \notin Message

Stored   == {"pending", "processing", "indexed", "failed"}
Statuses == Stored \cup {"absent", "gone"}
PCs      == {"idle", "load", "claim", "work", "index", "reject", "except",
             "retry", "retried", "finish"}

VARIABLES
    status,      \* documents.status; "absent" before the INSERT, "gone" after
                 \* the row was removed by the cascade of a domain delete
    deleted,     \* documents.deleted_at IS NOT NULL
    chunk_count, \* documents.chunk_count, in chunk sets
    chunks,      \* the committed chunk sets of a document
    domains,     \* the rows of knowledge_domains
    sent,        \* the document of each message put into the queue, by copy
    queued,      \* the messages no process runs: in the broker, or prefetched
    pc, job,     \* where a worker process is, and the message it holds
    snap,        \* the chunk sets an open transaction has deleted
    up, rp, dl,  \* progress of upload, reprocess and soft-delete requests
    seen,        \* the status the reprocess handler loaded, until its commit
    lost,        \* ghost: documents whose last status write has no follow-up
                 \* any more, because a failure destroyed it
    faults       \* failures injected so far

rows    == <<status, deleted, chunk_count, chunks, domains>>
broker  == <<sent, queued>>
workers == <<pc, job>>
api     == <<up, rp, dl, seen>>
vars    == <<rows, broker, workers, snap, api, lost, faults>>

Exists(d) == status[d] \in Stored

Init ==
    /\ status = [d \in Docs |-> "absent"]
    /\ deleted = [d \in Docs |-> FALSE]
    /\ chunk_count = [d \in Docs |-> 0]
    /\ chunks = [d \in Docs |-> {}]
    /\ domains = Domains
    /\ sent = <<>>
    /\ queued = {}
    /\ pc = [w \in Workers |-> "idle"]
    /\ job = [w \in Workers |-> NoMessage]
    /\ snap = [p \in Workers \cup Reprocs |-> {}]
    /\ up = [d \in Docs |-> "idle"]
    /\ rp = [r \in Reprocs |-> "idle"]
    /\ dl = [x \in Deletes |-> "idle"]
    /\ seen = [r \in Reprocs |-> "absent"]
    /\ lost = {}
    /\ faults = 0

-----------------------------------------------------------------------------
(* The helpers of the handlers *)

\* A copy of a message for d that was not there before.
NewCopy(d, n) ==
    /\ sent' = Append(sent, d)
    /\ queued' = queued \cup {[copy |-> Len(sent) + 1, retries |-> n]}

\* db.refresh after the commit raises when the row has gone; otherwise
\* enqueue_processing publishes the task.
Publish(d) == IF Exists(d) THEN NewCopy(d, 0) ELSE UNCHANGED broker

\* Mutant: delivery without reservation.
TakeShared(q) == queued' = queued

\* A prefetched message is reserved: no other worker gets it.
Take(q) == queued' = queued \ {q}

\* Mutant: messages are acknowledged when they are delivered.
AckEarly(q) == UNCHANGED broker

\* task_acks_late and task_reject_on_worker_lost: the message of a worker that
\* died goes back to the queue.
Redeliver(q) == queued' = queued \cup {q} /\ UNCHANGED sent

\* A message that has not been acknowledged is put into the queue while the
\* message itself lives on, waiting or in the hands of a process.
Duplicate(q) == NewCopy(sent[q.copy], q.retries)

DocOfWorker(w) == sent[job[w].copy]

\* A commit removes the rows S.  The DELETE of another open transaction that had
\* picked one of them waited for this commit, and passes over it.
Remove(S) == snap' = [p \in DOMAIN snap |-> snap[p] \ S]

Release(w) ==
    /\ pc' = [pc EXCEPT ![w] = "idle"]
    /\ job' = [job EXCEPT ![w] = NoMessage]

-----------------------------------------------------------------------------
(* upload_document *)

\* The domain is there (get_domain_or_404); the file is read and stored.
UploadCheck(d) ==
    /\ up[d] = "idle"
    /\ DomainOf[d] \in domains
    /\ up' = [up EXCEPT ![d] = "checked"]
    /\ UNCHANGED <<rows, broker, workers, snap, rp, dl, seen, lost, faults>>

\* INSERT and commit; the foreign key refuses it when the domain went away.
UploadCommit(d) ==
    /\ up[d] = "checked"
    /\ IF DomainOf[d] \in domains
         THEN /\ status' = [status EXCEPT ![d] = "pending"]
              /\ up' = [up EXCEPT ![d] = "committed"]
         ELSE /\ up' = [up EXCEPT ![d] = "done"]
              /\ UNCHANGED status
    /\ UNCHANGED <<deleted, chunk_count, chunks, domains, broker, workers, snap,
                   rp, dl, seen, lost, faults>>

UploadEnqueue(d) ==
    /\ up[d] = "committed"
    /\ up' = [up EXCEPT ![d] = "done"]
    /\ Publish(d)
    /\ UNCHANGED <<rows, workers, snap, rp, dl, seen, lost, faults>>

-----------------------------------------------------------------------------
(* reprocess_document, behind get_any_document_or_404 *)

ReprocLoad(r) ==
    /\ rp[r] = "idle"
    /\ Exists(DocOf[r]) /\ ~deleted[DocOf[r]]
    /\ rp' = [rp EXCEPT ![r] = "loaded"]
    /\ seen' = [seen EXCEPT ![r] = status[DocOf[r]]]
    /\ UNCHANGED <<rows, broker, workers, snap, up, dl, lost, faults>>

ReprocDelete(r) ==
    /\ rp[r] = "loaded"
    /\ rp' = [rp EXCEPT ![r] = "cleared"]
    /\ snap' = [snap EXCEPT ![r] = chunks[DocOf[r]]]
    /\ UNCHANGED <<rows, broker, workers, up, dl, seen, lost, faults>>

\* SQLAlchemy writes the columns that differ from what was loaded: a document
\* loaded as pending keeps whatever status another transaction gave it since.
Reset(r, s) == IF seen[r] = "pending" THEN s ELSE "pending"

\* The commit of the chunk DELETE and of the UPDATE of the row.
ReprocCommit(r) ==
    LET d == DocOf[r] IN
    /\ rp[r] = "cleared"
    /\ Exists(d)
    /\ status' = [status EXCEPT ![d] = Reset(r, @)]
    /\ chunks' = [chunks EXCEPT ![d] = @ \ snap[r]]
    /\ Remove(snap[r])
    /\ lost' = IF status'[d] = "pending" THEN lost \ {d} ELSE lost
    /\ rp' = [rp EXCEPT ![r] = "committed"]
    /\ seen' = [seen EXCEPT ![r] = "absent"]
    /\ UNCHANGED <<deleted, chunk_count, domains, broker, workers, up, dl,
                   faults>>

\* The transaction fails (the row has gone, a deadlock, a lost connection) and
\* is rolled back; the request ends with a 500.
ReprocAbort(r) ==
    /\ rp[r] \in {"loaded", "cleared"}
    /\ rp' = [rp EXCEPT ![r] = "aborted"]
    /\ seen' = [seen EXCEPT ![r] = "absent"]
    /\ snap' = [snap EXCEPT ![r] = {}]
    /\ UNCHANGED <<rows, broker, workers, up, dl, lost, faults>>

ReprocEnqueue(r) ==
    /\ rp[r] = "committed"
    /\ rp' = [rp EXCEPT ![r] = "done"]
    /\ Publish(DocOf[r])
    /\ UNCHANGED <<rows, workers, snap, up, dl, seen, lost, faults>>

-----------------------------------------------------------------------------
(* soft_delete_document and delete_domain *)

\* The row is loaded and its status checked: 409 while processing.
DeleteLoad(x) ==
    /\ dl[x] = "idle"
    /\ Exists(DocOf[x]) /\ ~deleted[DocOf[x]]
    /\ status[DocOf[x]] # "processing"
    /\ dl' = [dl EXCEPT ![x] = "loaded"]
    /\ UNCHANGED <<rows, broker, workers, snap, up, rp, seen, lost, faults>>

\* Only deleted_at is written, and the status is not read again.
DeleteCommit(x) ==
    LET d == DocOf[x] IN
    /\ dl[x] = "loaded"
    /\ deleted' = [deleted EXCEPT ![d] = @ \/ Exists(d)]
    /\ dl' = [dl EXCEPT ![x] = "done"]
    /\ UNCHANGED <<status, chunk_count, chunks, domains, broker, workers, snap,
                   up, rp, seen, lost, faults>>

\* The rows a domain delete takes with it: both foreign keys cascade.
Cascade(m) == {d \in Docs : Exists(d) /\ DomainOf[d] = m}

DomainDelete(m) ==
    /\ m \in domains
    /\ domains' = domains \ {m}
    /\ status' = [d \in Docs |-> IF d \in Cascade(m) THEN "gone" ELSE status[d]]
    /\ deleted' = [d \in Docs |-> deleted[d] \/ d \in Cascade(m)]
    /\ chunks' = [d \in Docs |-> IF d \in Cascade(m) THEN {} ELSE chunks[d]]
    /\ Remove(UNION {chunks[d] : d \in Cascade(m)})
    /\ UNCHANGED <<chunk_count, broker, workers, api, lost, faults>>

-----------------------------------------------------------------------------
(* extract_text, run by a worker *)

Deliver(w) ==
    /\ pc[w] = "idle"
    /\ \E q \in queued :
         /\ Take(q)
         /\ job' = [job EXCEPT ![w] = q]
    /\ pc' = [pc EXCEPT ![w] = "load"]
    /\ UNCHANGED <<rows, sent, snap, api, lost, faults>>

\* What the guard turns away.
Skips(d) == ~Exists(d) \/ deleted[d] \/ status[d] = "processing"

\* The guard's SELECT; a message it turns away is acknowledged.
Load(w) ==
    /\ pc[w] = "load"
    /\ IF Skips(DocOfWorker(w))
         THEN Release(w)
         ELSE pc' = [pc EXCEPT ![w] = "claim"] /\ UNCHANGED job
    /\ UNCHANGED <<rows, broker, snap, api, lost, faults>>

\* The guard's UPDATE, by primary key only: it does not ask for the status the
\* SELECT saw.  When the row has gone the commit raises outside the try block
\* and the task ends.
Claim(w) ==
    LET d == DocOfWorker(w) IN
    /\ pc[w] = "claim"
    /\ IF Exists(d)
         THEN /\ status' = [status EXCEPT ![d] = "processing"]
              /\ lost' = lost \ {d}
              /\ pc' = [pc EXCEPT ![w] = "work"]
              /\ UNCHANGED job
         ELSE /\ Release(w)
              /\ UNCHANGED <<status, lost>>
    /\ UNCHANGED <<deleted, chunk_count, chunks, domains, broker, snap, api,
                   faults>>

\* Reading file_key after the commit loads the row again; if it has gone, the
\* task ends.
Vanished(w) ==
    /\ pc[w] = "work"
    /\ ~Exists(DocOfWorker(w))
    /\ Release(w)
    /\ UNCHANGED <<rows, broker, snap, api, lost, faults>>

\* Mutant: an early return forgets _mark_failed.
OutcomesSilent == {"index", "finish", "except"}

\* How the stages up to the DELETE of _stage_index can end: ready to index, an
\* unusable document (no text, no chunks, a short embedding answer), or an
\* exception.
Outcomes == {"index", "reject", "except"}

\* Mutant: _stage_index inserts without deleting.
ClearedNothing(d) == {}

\* The chunk sets the transaction of _stage_index deletes.
Cleared(d) == chunks[d]

\* Mutant: the DELETE is committed on its own.
WorkEager(w) ==
    /\ pc[w] = "work"
    /\ \E o \in Outcomes :
         /\ pc' = [pc EXCEPT ![w] = o]
         /\ chunks' = IF o = "index"
                        THEN [chunks EXCEPT ![DocOfWorker(w)] = {}]
                        ELSE chunks
    /\ UNCHANGED <<status, deleted, chunk_count, domains, broker, job, snap, api,
                   lost, faults>>

Work(w) ==
    /\ pc[w] = "work"
    /\ \E o \in Outcomes :
         /\ pc' = [pc EXCEPT ![w] = o]
         /\ snap' = IF o = "index"
                      THEN [snap EXCEPT ![w] = Cleared(DocOfWorker(w))]
                      ELSE snap
    /\ UNCHANGED <<rows, broker, job, api, lost, faults>>

\* db.get finds the row, or there is nothing to write.
WriteStatus(d, s) == IF Exists(d) THEN [status EXCEPT ![d] = s] ELSE status

\* Mutant: rows are inserted without the foreign key.
HasRowEver(d) == status[d] # "absent"

\* The foreign key of document_chunks lets rows be inserted.
HasRow(d) == Exists(d)

Unused == {c \in ChunkSets : /\ \A d \in Docs : c \notin chunks[d]
                             /\ \A p \in Workers \cup Reprocs : c \notin snap[p]}

\* The rows of an INSERT are new: any identity that is not in use will do.
Fresh == CHOOSE c \in Unused : TRUE

\* INSERT, UPDATE and commit of _stage_index.
IndexCommit(w) ==
    LET d == DocOfWorker(w) IN
    /\ pc[w] = "index"
    /\ HasRow(d)
    /\ Unused # {}
    /\ chunks' = [chunks EXCEPT ![d] = (@ \ snap[w]) \cup {Fresh}]
    /\ status' = WriteStatus(d, "indexed")
    /\ chunk_count' = [chunk_count EXCEPT ![d] = 1]
    /\ lost' = lost \ {d}
    /\ Remove(snap[w])
    /\ pc' = [pc EXCEPT ![w] = "finish"]
    /\ UNCHANGED <<deleted, domains, broker, job, api, faults>>

\* The transaction of _stage_index fails (the row has gone, a deadlock, a lost
\* connection), or the soft time limit strikes before the task has returned.
IndexExcept(w) ==
    /\ pc[w] \in {"index", "finish"}
    /\ pc' = [pc EXCEPT ![w] = "except"]
    /\ snap' = [snap EXCEPT ![w] = {}]
    /\ UNCHANGED <<rows, broker, job, api, lost, faults>>

\* Where the task goes on after _mark_failed: the unusable document returns,
\* the exception handler comes to its retry.
AfterMark(p) == IF p = "reject" THEN "finish" ELSE "retry"

\* _mark_failed, in a session of its own.
MarkFailed(w) ==
    LET d == DocOfWorker(w) IN
    /\ pc[w] \in {"reject", "except"}
    /\ status' = WriteStatus(d, "failed")
    /\ lost' = lost \ {d}
    /\ pc' = [pc EXCEPT ![w] = AfterMark(@)]
    /\ UNCHANGED <<deleted, chunk_count, chunks, domains, broker, job, snap, api,
                   faults>>

\* Mutant: one retry too many.
MayRetryOnceMore(q) == q.retries <= MaxRetries

MayRetry(q) == q.retries < MaxRetries

\* Mutant: the message is published anew instead of retried.
SameTry(n) == n

NextTry(n) == n + 1

\* self.retry publishes the message again, with its counter raised, and raises
\* Retry; the delivered message is not acknowledged before the task has ended.
\* Without a retry left it raises the exception, and the task ends.
Retry(w) ==
    /\ pc[w] = "retry"
    /\ IF MayRetry(job[w])
         THEN /\ queued' = queued \cup {[job[w] EXCEPT !.retries = NextTry(@)]}
              /\ pc' = [pc EXCEPT ![w] = "retried"]
              /\ UNCHANGED <<sent, job>>
         ELSE /\ Release(w)
              /\ UNCHANGED broker
    /\ UNCHANGED <<rows, snap, api, lost, faults>>

\* The task returned or raised Retry: its message is acknowledged.
Finish(w) ==
    /\ pc[w] \in {"finish", "retried"}
    /\ Release(w)
    /\ UNCHANGED <<rows, broker, snap, api, lost, faults>>

-----------------------------------------------------------------------------
(* Failures.  Each spends one of MaxFaults; a failure that destroys the only *)
(* thing that would have carried a document on puts the document in lost.   *)

Fault == faults < MaxFaults /\ faults' = faults + 1

\* Between the commit that claims a document and the commit that records how
\* the run ended.
Running == {"work", "index", "reject", "except"}

\* The worker process dies.  Its message is delivered again, but the guard of
\* the new run will turn a claimed document away.  When the retry has been
\* published and the message not been acknowledged, both are there.
WorkerLost(w) ==
    /\ pc[w] # "idle"
    /\ Fault
    /\ IF pc[w] = "retried" THEN Duplicate(job[w]) ELSE Redeliver(job[w])
    /\ lost' = IF pc[w] \in Running THEN lost \cup {DocOfWorker(w)} ELSE lost
    /\ snap' = [snap EXCEPT ![w] = {}]
    /\ Release(w)
    /\ UNCHANGED <<rows, api>>

\* Redis delivers a message again that was not acknowledged within the
\* visibility timeout (an hour, from when a worker prefetched it), whether it
\* still waits for a free process or is being run.
TimedOut ==
    /\ Fault
    /\ \E q \in queued \cup {job[w] : w \in {v \in Workers : pc[v] # "idle"}} :
         Duplicate(q)
    /\ UNCHANGED <<rows, workers, snap, api, lost>>

\* The task ends outside its try block and its message is acknowledged: a
\* database error in the guard, the hard time limit, a retry that cannot be
\* published.
TaskDropped(w) ==
    /\ pc[w] \in Running \cup {"load", "claim", "retry"}
    /\ Fault
    /\ lost' = IF pc[w] = "retry" THEN lost ELSE lost \cup {DocOfWorker(w)}
    /\ snap' = [snap EXCEPT ![w] = {}]
    /\ Release(w)
    /\ UNCHANGED <<rows, broker, api>>

\* _mark_failed swallows its own error.
MarkLost(w) ==
    /\ pc[w] \in {"reject", "except"}
    /\ Fault
    /\ pc' = [pc EXCEPT ![w] = AfterMark(@)]
    /\ lost' = lost \cup {DocOfWorker(w)}
    /\ UNCHANGED <<rows, broker, job, snap, api>>

\* enqueue_processing swallows the error of the broker, or the API process
\* dies between the commit and the publication.
UploadEnqueueLost(d) ==
    /\ up[d] = "committed"
    /\ Fault
    /\ up' = [up EXCEPT ![d] = "done"]
    /\ lost' = lost \cup {d}
    /\ UNCHANGED <<rows, broker, workers, snap, rp, dl, seen>>

ReprocEnqueueLost(r) ==
    /\ rp[r] = "committed"
    /\ Fault
    /\ rp' = [rp EXCEPT ![r] = "done"]
    /\ lost' = lost \cup {DocOf[r]}
    /\ UNCHANGED <<rows, broker, workers, snap, up, dl, seen>>

-----------------------------------------------------------------------------

\* Steps of a task that has been delivered.
TaskStep(w) ==
    \/ Load(w) \/ Claim(w) \/ Vanished(w) \/ Work(w) \/ IndexCommit(w)
    \/ IndexExcept(w) \/ MarkFailed(w) \/ Retry(w) \/ Finish(w)

\* Steps of a request that has been accepted.
UploadStep(d) == UploadCommit(d) \/ UploadEnqueue(d)
ReprocStep(r) ==
    ReprocDelete(r) \/ ReprocCommit(r) \/ ReprocAbort(r) \/ ReprocEnqueue(r)

WorkerFault(w) == WorkerLost(w) \/ TaskDropped(w) \/ MarkLost(w)

Next ==
    \/ \E d \in Docs : UploadCheck(d) \/ UploadStep(d) \/ UploadEnqueueLost(d)
    \/ \E r \in Reprocs : ReprocLoad(r) \/ ReprocStep(r) \/ ReprocEnqueueLost(r)
    \/ \E x \in Deletes : DeleteLoad(x) \/ DeleteCommit(x)
    \/ \E m \in Domains : DomainDelete(m)
    \/ \E w \in Workers : Deliver(w) \/ TaskStep(w) \/ WorkerFault(w)
    \/ TimedOut

Spec == Init /\ [][Next]_vars

\* An accepted request runs to its end, an idle worker takes a waiting message,
\* and a task goes on (its time limit ends a stage that hangs).  Nobody has to
\* send a request, and no failure has to happen.
Fairness ==
    /\ \A d \in Docs : WF_vars(UploadStep(d))
    /\ \A r \in Reprocs : WF_vars(ReprocStep(r))
    /\ \A w \in Workers : WF_vars(Deliver(w)) /\ WF_vars(TaskStep(w))

FairSpec == Spec /\ Fairness

-----------------------------------------------------------------------------
(* Properties *)

\* The variables stay in their ranges: no retry counter above max_retries, at
\* most MaxFaults failures.
TypeOK ==
    /\ status \in [Docs -> Statuses]
    /\ deleted \in [Docs -> BOOLEAN]
    /\ chunk_count \in [Docs -> {0, 1}]
    /\ chunks \in [Docs -> SUBSET ChunkSets]
    /\ domains \subseteq Domains
    /\ sent \in Seq(Docs)
    /\ queued \subseteq Message
    /\ \A q \in queued : q.copy \in DOMAIN sent
    /\ pc \in [Workers -> PCs]
    /\ job \in [Workers -> Message \cup {NoMessage}]
    /\ \A w \in Workers : IF pc[w] = "idle" THEN job[w] = NoMessage
                          ELSE job[w] \in Message /\ job[w].copy \in DOMAIN sent
    /\ snap \in [Workers \cup Reprocs -> SUBSET ChunkSets]
    /\ up \in [Docs -> {"idle", "checked", "committed", "done"}]
    /\ rp \in [Reprocs -> {"idle", "loaded", "cleared", "committed", "done",
                        "aborted"}]
    /\ dl \in [Deletes -> {"idle", "loaded", "done"}]
    /\ seen \in [Reprocs -> Statuses]
    /\ lost \subseteq Docs
    /\ faults \in 0..MaxFaults

Runs(w, d) == pc[w] \in Running /\ DocOfWorker(w) = d

\* A document is "processing" only while a run that will write its outcome is
\* under way, or after a failure that is on record in lost: no interleaving of
\* retries, reprocess requests, deletes and duplicate runs alone strands a
\* document in the status that the guard turns away.
ProcessingIsOwned ==
    \A d \in Docs : status[d] = "processing" =>
        d \in lost \/ \E w \in Workers : Runs(w, d)

\* A message of d is waiting, or is about to be published, or is in the hands
\* of a worker that has not yet claimed d.
HasJob(d) ==
    \/ \E q \in queued : sent[q.copy] = d
    \/ up[d] = "committed"
    \/ \E r \in Reprocs : rp[r] = "committed" /\ DocOf[r] = d
    \/ \E w \in Workers : pc[w] \in {"load", "claim"} /\ DocOfWorker(w) = d

\* A visible pending document has a job that will take it up, or is on record
\* in lost.  A reprocess takes a document out of lost, so this is also what
\* enqueue_processing's docstring says: a document left pending "can be
\* recovered via admin reprocess".
PendingHasJob ==
    \A d \in Docs : status[d] = "pending" /\ ~deleted[d] =>
        d \in lost \/ HasJob(d)

\* A run that outlives its document leaves no chunks behind.
GoneIsEmpty == \A d \in Docs : status[d] = "gone" => chunks[d] = {}

CopiesOf(d) == {i \in DOMAIN sent : sent[i] = d}

\* A document never holds the chunks of more runs than messages were sent for
\* it: one by the upload, one by each reprocess, one by each delivery that was
\* duplicated.  Retries and redeliveries of a message add nothing, however
\* the DELETE of one run falls between the DELETE and the commit of another.
ChunkSetsBounded ==
    \A d \in Docs : Cardinality(chunks[d]) <= Cardinality(CopiesOf(d))

\* A reprocess of d got as far as its commit.
Reprocessed(d) ==
    \E r \in Reprocs : DocOf[r] = d /\ rp[r] \in {"committed", "done"}

\* Documents with a second message: one by a reprocess that got as far as its
\* commit, or one by a delivery that was duplicated.
Repeated ==
    {d \in Docs : Reprocessed(d) \/ \E i, j \in CopiesOf(d) : i # j}

\* However often the run of a document was repeated after an exception, a crash
\* or a redelivery, its chunks are those of one run and chunk_count says so,
\* unless there was a second message.
OneChunkSet ==
    \A d \in Docs : d \notin Repeated /\ Exists(d) =>
        /\ Cardinality(chunks[d]) = chunk_count[d]
        /\ status[d] = "indexed" => chunk_count[d] = 1

\* The pipeline keeps the promise of DocumentLifecycle, with or without reprocess
\* requests.
Lifecycle == INSTANCE DocumentLifecycle
                 WITH content <- [d \in Docs |-> chunks[d] # {}],
                      repeated <- Repeated

LifecycleSpec == Lifecycle!Spec

Settled(d) == status[d] \in {"indexed", "failed", "gone"}

\* A document that waits or is in process gets an outcome, through retries,
\* redeliveries and the guard: unless the end of its run was lost, or the owner
\* deleted it before a run had claimed it.
AttemptsSettle ==
    \A d \in Docs : status[d] \in {"pending", "processing"} ~>
        Settled(d) \/ d \in lost \/ (status[d] = "pending" /\ deleted[d])

\* Retries come to an end: once no more requests are made, the queue is empty
\* and the workers idle for good.
Quiesces == <>[](queued = {} /\ \A w \in Workers : pc[w] = "idle")

-----------------------------------------------------------------------------
(* What documents and comments of the repository say, and the code does not  *)
(* do: each has a run of its own that finds a counterexample.                *)

\* "A document in status `processing` cannot be deleted": no document becomes
\* deleted, while its row exists, in status processing.
ProcessingNotDeleted ==
    \A d \in Docs : ~(status[d] = "processing" /\ deleted[d])

\* "Index: clear existing chunks before re-inserting - prevents duplicates":
\* a document never has the chunks of two runs.
NoDuplicateChunks == \A d \in Docs : Cardinality(chunks[d]) <= 1
=============================================================================
