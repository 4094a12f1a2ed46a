--------------------------- MODULE PipelineProofs ---------------------------
(***************************************************************************)
(* Proofs about Pipeline, for every set of documents, requests, workers    *)
(* and domains, and every bound on retries and failures.                   *)
(***************************************************************************)
EXTENDS Pipeline, SumTheorems, FiniteSetTheorems, TLAPS

-----------------------------------------------------------------------------
(* Messages *)

\* The messages a step finds are still about the same documents.
MessagesStay ==
    /\ sent' \in Seq(Docs)
    /\ DOMAIN sent \subseteq DOMAIN sent'
    /\ \A i \in DOMAIN sent : sent'[i] = sent[i]

LEMMA SameMessages == TypeOK /\ UNCHANGED sent => MessagesStay
BY DEF TypeOK, MessagesStay

\* A new copy has a number of its own.
LEMMA CopyIsNew ==
    ASSUME TypeOK, NEW d \in Docs, NEW n \in 0..MaxRetries, NewCopy(d, n)
    PROVE  /\ MessagesStay
           /\ DOMAIN sent' = DOMAIN sent \cup {Len(sent) + 1}
           /\ Len(sent) + 1 \notin DOMAIN sent
           /\ sent'[Len(sent) + 1] = d
           /\ \E q \in Message : /\ q.copy = Len(sent) + 1 /\ q.retries = n
                                 /\ queued' = queued \cup {q}
<1> DEFINE q == [copy |-> Len(sent) + 1, retries |-> n]
<1>1. sent \in Seq(Docs) /\ Len(sent) \in Nat /\ sent' = Append(sent, d)
  BY DEF TypeOK, NewCopy
<1>2. q \in Message /\ q.copy = Len(sent) + 1 /\ q.retries = n /\ queued' = queued \cup {q}
  BY <1>1 DEF Message, NewCopy
<1>3. /\ sent' \in Seq(Docs) /\ sent'[Len(sent) + 1] = d
      /\ DOMAIN sent = 1..Len(sent) /\ DOMAIN sent' = 1..(Len(sent) + 1)
      /\ \A i \in 1..Len(sent) : sent'[i] = sent[i]
  BY <1>1
<1> HIDE DEF q
<1>4. DOMAIN sent' = DOMAIN sent \cup {Len(sent) + 1} /\ Len(sent) + 1 \notin DOMAIN sent
  BY <1>1, <1>3
<1> QED
  BY <1>2, <1>3, <1>4 DEF MessagesStay

\* A retry is a message like the one it follows, with its counter raised.
LEMMA RetryIsMessage ==
    ASSUME NEW q \in Message, MayRetry(q)
    PROVE  \E p \in Message : /\ p = [q EXCEPT !.retries = NextTry(@)]
                              /\ p.copy = q.copy /\ p.retries = q.retries + 1
<1>1. q.retries + 1 \in 0..MaxRetries
  BY PipelineAssumption DEF Message, MayRetry
<1>2. q = [copy |-> q.copy, retries |-> q.retries] /\ q.copy \in Nat
  BY DEF Message
<1> DEFINE p == [copy |-> q.copy, retries |-> q.retries + 1]
<1>3. p = [q EXCEPT !.retries = NextTry(@)]
  BY <1>2 DEF NextTry
<1> QED
  BY <1>1, <1>2, <1>3 DEF Message

\* What a busy worker holds.
LEMMA HeldMessage ==
    ASSUME TypeOK, NEW w \in Workers, pc[w] # "idle"
    PROVE  /\ job[w] \in Message /\ job[w].copy \in DOMAIN sent
           /\ job[w].retries \in 0..MaxRetries /\ DocOfWorker(w) \in Docs
BY DEF TypeOK, DocOfWorker, Message

\* The messages that can be duplicated.
LEMMA DuplicateIsNew ==
    ASSUME TypeOK, NEW q \in Message, q.copy \in DOMAIN sent, Duplicate(q)
    PROVE  NewCopy(sent[q.copy], q.retries) /\ sent[q.copy] \in Docs /\ q.retries \in 0..MaxRetries
BY DEF TypeOK, Duplicate, Message

LEMMA TimedOutIsNew ==
    ASSUME TypeOK, TimedOut
    PROVE  \E q \in Message : q.copy \in DOMAIN sent /\ Duplicate(q)
BY HeldMessage DEF TypeOK, TimedOut

-----------------------------------------------------------------------------
(* Type correctness, one lemma for each group of disjuncts of Next *)

BrokerOK ==
    /\ sent \in Seq(Docs)
    /\ queued \subseteq Message
    /\ \A q \in queued : q.copy \in DOMAIN sent
    /\ job \in [Workers -> Message \cup {NoMessage}]
    /\ \A w \in Workers : IF pc[w] = "idle" THEN job[w] = NoMessage
                          ELSE job[w] \in Message /\ job[w].copy \in DOMAIN sent

\* The queue and the workers keep their types when a message is added.
LEMMA BrokerGrows ==
    ASSUME TypeOK, MessagesStay, NEW q \in Message, q.copy \in DOMAIN sent',
           queued' = queued \cup {q}, UNCHANGED <<pc, job>>
    PROVE  BrokerOK'
BY DEF TypeOK, BrokerOK, MessagesStay

LEMMA PublishType ==
    ASSUME TypeOK, NEW d \in Docs, Publish(d), UNCHANGED <<pc, job>>
    PROVE  BrokerOK'
<1>1. CASE Exists(d)
  <2>1. 0 \in 0..MaxRetries
    BY PipelineAssumption
  <2> QED
    BY <1>1, <2>1, CopyIsNew, BrokerGrows DEF Publish
<1>2. CASE ~Exists(d)
  BY <1>2 DEF Publish, broker, TypeOK, BrokerOK
<1> QED
  BY <1>1, <1>2

LEMMA InitType == Init => TypeOK
BY PipelineAssumption
   DEF Init, TypeOK, Statuses, Stored, PCs

LEMMA UploadType ==
    ASSUME TypeOK, NEW d \in Docs,
           UploadCheck(d) \/ UploadStep(d) \/ UploadEnqueueLost(d)
    PROVE  TypeOK'
<1>1. CASE UploadCheck(d)
  BY <1>1 DEF TypeOK, UploadCheck, rows, broker, workers
<1>2. CASE UploadCommit(d)
  BY <1>2 DEF TypeOK, UploadCommit, broker, workers, Statuses, Stored
<1>3. CASE UploadEnqueue(d)
  <2>1. BrokerOK'
    BY <1>3, PublishType DEF UploadEnqueue, workers
  <2> QED
    BY <1>3, <2>1 DEF TypeOK, BrokerOK, UploadEnqueue, rows, workers
<1>4. CASE UploadEnqueueLost(d)
  BY <1>4, PipelineAssumption
     DEF TypeOK, UploadEnqueueLost, Fault, rows, broker, workers
<1> QED
  BY <1>1, <1>2, <1>3, <1>4 DEF UploadStep

LEMMA ReprocType ==
    ASSUME TypeOK, NEW r \in Reprocs,
           ReprocLoad(r) \/ ReprocStep(r) \/ ReprocEnqueueLost(r)
    PROVE  TypeOK'
<1>0. DocOf[r] \in Docs
  BY PipelineAssumption
<1>1. CASE ReprocLoad(r)
  BY <1>0, <1>1 DEF TypeOK, ReprocLoad, rows, broker, workers
<1>2. CASE ReprocDelete(r)
  BY <1>0, <1>2 DEF TypeOK, ReprocDelete, rows, broker, workers
<1>3. CASE ReprocCommit(r)
  BY <1>0, <1>3
     DEF TypeOK, ReprocCommit, Remove, Reset, broker, workers, Statuses, Stored
<1>4. CASE ReprocAbort(r)
  BY <1>4 DEF TypeOK, ReprocAbort, rows, broker, workers, Statuses
<1>5. CASE ReprocEnqueue(r)
  <2>1. BrokerOK'
    BY <1>0, <1>5, PublishType DEF ReprocEnqueue, workers
  <2> QED
    BY <1>5, <2>1 DEF TypeOK, BrokerOK, ReprocEnqueue, rows, workers
<1>6. CASE ReprocEnqueueLost(r)
  BY <1>0, <1>6, PipelineAssumption
     DEF TypeOK, ReprocEnqueueLost, Fault, rows, broker, workers
<1> QED
  BY <1>1, <1>2, <1>3, <1>4, <1>5, <1>6 DEF ReprocStep

LEMMA DeleteType ==
    ASSUME TypeOK, NEW x \in Deletes, DeleteLoad(x) \/ DeleteCommit(x)
    PROVE  TypeOK'
<1>0. DocOf[x] \in Docs
  BY PipelineAssumption
<1>1. CASE DeleteLoad(x)
  BY <1>1 DEF TypeOK, DeleteLoad, rows, broker, workers
<1>2. CASE DeleteCommit(x)
  BY <1>0, <1>2 DEF TypeOK, DeleteCommit, Exists, broker, workers
<1> QED
  BY <1>1, <1>2

LEMMA DomainType ==
    ASSUME TypeOK, NEW m \in Domains, DomainDelete(m)
    PROVE  TypeOK'
<1> USE DEF DomainDelete, TypeOK
<1>1. status' \in [Docs -> Statuses]
  BY DEF Statuses
<1>2. deleted' \in [Docs -> BOOLEAN]
  OBVIOUS
<1>3. chunks' \in [Docs -> SUBSET ChunkSets]
  OBVIOUS
<1>4. snap' \in [Workers \cup Reprocs -> SUBSET ChunkSets]
  BY DEF Remove
<1> QED
  BY <1>1, <1>2, <1>3, <1>4 DEF broker, workers, api

LEMMA DeliverType ==
    ASSUME TypeOK, NEW w \in Workers, Deliver(w)
    PROVE  TypeOK'
BY NoMessageAssumption DEF TypeOK, Deliver, Take, rows, api, PCs

LEMMA RetryType ==
    ASSUME TypeOK, NEW w \in Workers, Retry(w)
    PROVE  TypeOK'
<1>1. CASE MayRetry(job[w])
  <2>1. job[w] \in Message /\ job[w].copy \in DOMAIN sent
    BY HeldMessage DEF Retry
  <2>2. PICK p \in Message : p = [job[w] EXCEPT !.retries = NextTry(@)] /\ p.copy = job[w].copy
    BY <1>1, <2>1, RetryIsMessage
  <2>3. queued' = queued \cup {p} /\ pc' = [pc EXCEPT ![w] = "retried"] /\ UNCHANGED <<sent, job>>
    BY <1>1, <2>2 DEF Retry
  <2>4. BrokerOK'
    BY <2>1, <2>2, <2>3 DEF TypeOK, BrokerOK, Retry
  <2> QED
    BY <2>3, <2>4 DEF TypeOK, BrokerOK, Retry, rows, api, PCs
<1>2. CASE ~MayRetry(job[w])
  BY <1>2 DEF TypeOK, Retry, Release, rows, broker, api, PCs
<1> QED
  BY <1>1, <1>2

LEMMA TaskType ==
    ASSUME TypeOK, NEW w \in Workers, TaskStep(w)
    PROVE  TypeOK'
<1>0. pc[w] # "idle" => DocOfWorker(w) \in Docs
  BY HeldMessage
<1>1. CASE Load(w)
  <2>1. CASE Skips(DocOfWorker(w))
    BY <1>1, <2>1 DEF TypeOK, Load, Release, rows, broker, api, PCs
  <2>2. CASE ~Skips(DocOfWorker(w))
    BY <1>1, <2>2 DEF TypeOK, Load, rows, broker, api, PCs
  <2> QED
    BY <2>1, <2>2
<1>2. CASE Claim(w)
  <2>1. CASE Exists(DocOfWorker(w))
    BY <1>0, <1>2, <2>1 DEF TypeOK, Claim, broker, api, PCs, Statuses, Stored
  <2>2. CASE ~Exists(DocOfWorker(w))
    BY <1>2, <2>2 DEF TypeOK, Claim, Release, broker, api, PCs
  <2> QED
    BY <2>1, <2>2
<1>3. CASE Vanished(w)
  BY <1>3 DEF TypeOK, Vanished, Release, rows, broker, api, PCs
<1>4. CASE Work(w)
  BY <1>0, <1>4 DEF TypeOK, Work, Outcomes, Cleared, rows, broker, api, PCs
<1>5. CASE IndexCommit(w)
  <2>1. Fresh \in ChunkSets
    BY <1>5 DEF IndexCommit, Fresh, Unused
  <2> QED
    BY <1>0, <1>5, <2>1
       DEF TypeOK, IndexCommit, Remove, WriteStatus, broker, api, PCs,
           Statuses, Stored
<1>6. CASE IndexExcept(w)
  BY <1>6 DEF TypeOK, IndexExcept, rows, broker, api, PCs
<1>7. CASE MarkFailed(w)
  BY <1>0, <1>7
     DEF TypeOK, MarkFailed, WriteStatus, AfterMark, broker, api, PCs,
         Statuses, Stored
<1>8. CASE Retry(w)
  BY <1>8, RetryType
<1>9. CASE Finish(w)
  BY <1>9 DEF TypeOK, Finish, Release, rows, broker, api, PCs
<1> QED
  BY <1>1, <1>2, <1>3, <1>4, <1>5, <1>6, <1>7, <1>8, <1>9 DEF TaskStep

LEMMA WorkerLostType ==
    ASSUME TypeOK, NEW w \in Workers, WorkerLost(w)
    PROVE  TypeOK'
<1>0. job[w] \in Message /\ job[w].copy \in DOMAIN sent /\ DocOfWorker(w) \in Docs
  BY HeldMessage DEF WorkerLost
<1>1. MessagesStay /\ \E q \in Message : q.copy \in DOMAIN sent' /\ queued' = queued \cup {q}
  <2>1. CASE pc[w] = "retried"
    BY <1>0, <2>1, DuplicateIsNew, CopyIsNew DEF WorkerLost
  <2>2. CASE pc[w] # "retried"
    BY <1>0, <2>2, SameMessages DEF WorkerLost, Redeliver
  <2> QED
    BY <2>1, <2>2
<1>2. BrokerOK'
  BY <1>1 DEF TypeOK, BrokerOK, MessagesStay, WorkerLost, Release
<1> QED
  BY <1>0, <1>2, PipelineAssumption
     DEF TypeOK, BrokerOK, WorkerLost, Fault, Release, rows, api, PCs

LEMMA FaultType ==
    ASSUME TypeOK, NEW w \in Workers, WorkerFault(w)
    PROVE  TypeOK'
<1>0. pc[w] # "idle" => DocOfWorker(w) \in Docs
  BY HeldMessage
<1>1. CASE WorkerLost(w)
  BY <1>1, WorkerLostType
<1>2. CASE TaskDropped(w)
  BY <1>0, <1>2, PipelineAssumption
     DEF TypeOK, TaskDropped, Fault, Release, Running, rows, broker, api, PCs
<1>3. CASE MarkLost(w)
  BY <1>0, <1>3, PipelineAssumption
     DEF TypeOK, MarkLost, Fault, AfterMark, rows, broker, api, PCs
<1> QED
  BY <1>1, <1>2, <1>3 DEF WorkerFault

LEMMA TimedOutType == TypeOK /\ TimedOut => TypeOK'
<1> SUFFICES ASSUME TypeOK, TimedOut PROVE TypeOK'
  OBVIOUS
<1>1. MessagesStay /\ \E q \in Message : q.copy \in DOMAIN sent' /\ queued' = queued \cup {q}
  BY TimedOutIsNew, DuplicateIsNew, CopyIsNew
<1>2. BrokerOK'
  BY <1>1, BrokerGrows DEF TimedOut, workers
<1> QED
  BY <1>2, PipelineAssumption DEF TypeOK, BrokerOK, TimedOut, Fault, rows, workers, api

LEMMA NextType == TypeOK /\ [Next]_vars => TypeOK'
<1> SUFFICES ASSUME TypeOK, [Next]_vars PROVE TypeOK'
  OBVIOUS
<1>1. CASE \E d \in Docs : UploadCheck(d) \/ UploadStep(d) \/ UploadEnqueueLost(d)
  BY <1>1, UploadType
<1>2. CASE \E r \in Reprocs :
             ReprocLoad(r) \/ ReprocStep(r) \/ ReprocEnqueueLost(r)
  BY <1>2, ReprocType
<1>3. CASE \E x \in Deletes : DeleteLoad(x) \/ DeleteCommit(x)
  BY <1>3, DeleteType
<1>4. CASE \E m \in Domains : DomainDelete(m)
  BY <1>4, DomainType
<1>5. CASE \E w \in Workers : Deliver(w) \/ TaskStep(w) \/ WorkerFault(w)
  BY <1>5, DeliverType, TaskType, FaultType
<1>6. CASE TimedOut
  BY <1>6, TimedOutType
<1>7. CASE UNCHANGED vars
  BY <1>7 DEF TypeOK, vars, rows, broker, workers, api
<1> QED
  BY <1>1, <1>2, <1>3, <1>4, <1>5, <1>6, <1>7 DEF Next

\* Every variable of the pipeline stays in its range; in particular no message
\* is ever retried more than max_retries times.
THEOREM TypeCorrect == Spec => []TypeOK
<1>1. Init => TypeOK
  BY InitType
<1>2. TypeOK /\ [Next]_vars => TypeOK'
  BY NextType
<1> QED
  BY <1>1, <1>2, PTL DEF Spec

-----------------------------------------------------------------------------
(* What every step leaves alone *)

\* A message keeps its document.
LEMMA NextMessages == TypeOK /\ [Next]_vars => MessagesStay
<1> SUFFICES ASSUME TypeOK, [Next]_vars PROVE MessagesStay
  OBVIOUS
<1>0. 0 \in 0..MaxRetries
  BY PipelineAssumption
<1>1. ASSUME NEW d \in Docs, Publish(d) PROVE MessagesStay
  BY <1>0, <1>1, CopyIsNew, SameMessages DEF Publish, broker
<1>2. ASSUME NEW d \in Docs, UploadCheck(d) \/ UploadStep(d) \/ UploadEnqueueLost(d)
      PROVE  MessagesStay
  BY <1>1, <1>2, SameMessages
     DEF UploadCheck, UploadStep, UploadCommit, UploadEnqueue, UploadEnqueueLost, broker
<1>3. ASSUME NEW r \in Reprocs, ReprocLoad(r) \/ ReprocStep(r) \/ ReprocEnqueueLost(r)
      PROVE  MessagesStay
  BY <1>1, <1>3, SameMessages, PipelineAssumption
     DEF ReprocLoad, ReprocStep, ReprocDelete, ReprocCommit, ReprocAbort, ReprocEnqueue,
         ReprocEnqueueLost, broker
<1>4. ASSUME NEW w \in Workers, WorkerLost(w) PROVE MessagesStay
  BY <1>4, HeldMessage, DuplicateIsNew, CopyIsNew, SameMessages DEF WorkerLost, Redeliver
<1>5. CASE TimedOut
  BY <1>5, TimedOutIsNew, DuplicateIsNew, CopyIsNew
<1>6. CASE UNCHANGED sent
  BY <1>6, SameMessages
<1>7. ASSUME NEW w \in Workers, Deliver(w) \/ TaskStep(w) \/ TaskDropped(w) \/ MarkLost(w)
      PROVE  UNCHANGED sent
  BY <1>7 DEF Deliver, TaskStep, Load, Claim, Vanished, Work, IndexCommit, IndexExcept, MarkFailed,
              Retry, Finish, TaskDropped, MarkLost, broker
<1>8. ASSUME UNCHANGED vars \/ (\E x \in Deletes : DeleteLoad(x) \/ DeleteCommit(x))
                            \/ (\E m \in Domains : DomainDelete(m))
      PROVE  UNCHANGED sent
  BY <1>8 DEF vars, DeleteLoad, DeleteCommit, DomainDelete, broker
<1> QED
  BY <1>2, <1>3, <1>4, <1>5, <1>6, <1>7, <1>8 DEF Next, WorkerFault

\* So does the worker that holds it.
LEMMA DocStays ==
    ASSUME TypeOK, MessagesStay, NEW w \in Workers, pc[w] # "idle", job'[w] = job[w]
    PROVE  DocOfWorker(w)' = DocOfWorker(w)
BY HeldMessage DEF MessagesStay, DocOfWorker

LEMMA RunStays ==
    ASSUME TypeOK, MessagesStay, NEW w \in Workers, pc'[w] = pc[w], job'[w] = job[w],
           NEW d \in Docs
    PROVE  Runs(w, d)' <=> Runs(w, d)
BY DocStays DEF Runs, Running

\* A step of w is none of the others.
LEMMA OthersStay ==
    ASSUME TypeOK, NEW w \in Workers, Deliver(w) \/ TaskStep(w) \/ WorkerFault(w)
    PROVE  \A v \in Workers \ {w} : pc'[v] = pc[v] /\ job'[v] = job[v]
BY DEF Deliver, TaskStep, WorkerFault, Load, Claim, Vanished, Work, IndexCommit, IndexExcept,
       MarkFailed, Retry, Finish, WorkerLost, TaskDropped, MarkLost, Release, TypeOK

\* Requests, and the clock of the broker, leave the workers alone.
LEMMA WorkersStay ==
    ASSUME \/ \E d \in Docs :
                UploadCheck(d) \/ UploadStep(d) \/ UploadEnqueueLost(d)
           \/ \E r \in Reprocs :
                ReprocLoad(r) \/ ReprocStep(r) \/ ReprocEnqueueLost(r)
           \/ \E x \in Deletes : DeleteLoad(x) \/ DeleteCommit(x)
           \/ \E m \in Domains : DomainDelete(m)
           \/ TimedOut
    PROVE  UNCHANGED <<pc, job>>
BY DEF UploadCheck, UploadStep, UploadCommit, UploadEnqueue, UploadEnqueueLost, ReprocLoad, ReprocStep,
       ReprocDelete, ReprocCommit, ReprocAbort, ReprocEnqueue, ReprocEnqueueLost, DeleteLoad,
       DeleteCommit, DomainDelete, TimedOut, workers

-----------------------------------------------------------------------------
(* ProcessingIsOwned is inductive beside TypeOK.  A status becomes processing *)
(* in Claim, whose worker then owns the document; an owner leaves Running by  *)
(* writing another status, by finding the row gone, or by a failure that puts *)
(* the document in lost; and lost is only left by a step that writes the      *)
(* status.                                                                    *)

LEMMA OwnedByRequests ==
    ASSUME TypeOK, MessagesStay, ProcessingIsOwned,
           \/ \E d \in Docs :
                UploadCheck(d) \/ UploadStep(d) \/ UploadEnqueueLost(d)
           \/ \E r \in Reprocs :
                ReprocLoad(r) \/ ReprocStep(r) \/ ReprocEnqueueLost(r)
           \/ \E x \in Deletes : DeleteLoad(x) \/ DeleteCommit(x)
           \/ \E m \in Domains : DomainDelete(m)
           \/ TimedOut
    PROVE  ProcessingIsOwned'
<1>0. \A w \in Workers, d \in Docs : Runs(w, d)' <=> Runs(w, d)
  BY WorkersStay, RunStays
\* It is enough that nothing becomes processing, and what leaves lost is not.
<1>1. SUFFICES \A d \in Docs :
                 status'[d] = "processing" => /\ status[d] = "processing"
                                              /\ d \in lost => d \in lost'
  BY <1>0 DEF ProcessingIsOwned
<1>2. ASSUME NEW d \in Docs, UploadCheck(d) \/ UploadStep(d) \/ UploadEnqueueLost(d),
             NEW e \in Docs, status'[e] = "processing"
      PROVE  status[e] = "processing" /\ (e \in lost => e \in lost')
  BY <1>2 DEF UploadCheck, UploadStep, UploadCommit, UploadEnqueue, UploadEnqueueLost, rows, TypeOK
<1>3. ASSUME NEW r \in Reprocs, ReprocLoad(r) \/ ReprocStep(r) \/ ReprocEnqueueLost(r),
             NEW e \in Docs, status'[e] = "processing"
      PROVE  status[e] = "processing" /\ (e \in lost => e \in lost')
  BY <1>3 DEF ReprocLoad, ReprocStep, ReprocDelete, ReprocCommit, Reset, ReprocAbort, ReprocEnqueue,
              ReprocEnqueueLost, rows, TypeOK
<1>4. ASSUME NEW x \in Deletes, DeleteLoad(x) \/ DeleteCommit(x)
      PROVE  UNCHANGED <<status, lost>>
  BY <1>4 DEF DeleteLoad, DeleteCommit, rows
<1>5. ASSUME NEW m \in Domains, DomainDelete(m), NEW e \in Docs, status'[e] = "processing"
      PROVE  status[e] = "processing" /\ (e \in lost => e \in lost')
  BY <1>5 DEF DomainDelete, TypeOK
<1>6. CASE TimedOut
  BY <1>6 DEF TimedOut, rows
<1> QED
  BY <1>2, <1>3, <1>4, <1>5, <1>6

\* A step of worker w leaves the runs of the others alone, so only the document
\* of w needs an argument.
LEMMA OwnedByTask ==
    ASSUME TypeOK, MessagesStay, ProcessingIsOwned, NEW w \in Workers,
           Deliver(w) \/ TaskStep(w) \/ WorkerFault(w)
    PROVE  ProcessingIsOwned'
<1> DEFINE D == DocOfWorker(w)
<1>0. pc[w] # "idle" => D \in Docs
  BY HeldMessage
<1>a. pc[w] # "idle" /\ job'[w] = job[w] => DocOfWorker(w)' = D
  BY DocStays
<1>1. SUFFICES ASSUME NEW e \in Docs, status'[e] = "processing"
               PROVE  e \in lost' \/ \E v \in Workers : Runs(v, e)'
  BY DEF ProcessingIsOwned
<1>2. \A v \in Workers \ {w} : Runs(v, e) => Runs(v, e)'
  BY OthersStay, RunStays
<1>3. SUFFICES ASSUME status[e] = "processing" => e \in lost \/ Runs(w, e)
               PROVE  e \in lost' \/ Runs(w, e)'
  BY <1>2 DEF ProcessingIsOwned
<1> HIDE DEF D
<1>b. Runs(w, e) <=> pc[w] \in Running /\ D = e
  BY DEF Runs, D
<1>c. Runs(w, e)' <=> pc'[w] \in Running /\ DocOfWorker(w)' = e
  BY DEF Runs
<1>4. CASE Claim(w)
  <2>1. CASE Exists(D)
    <3>1. /\ pc[w] = "claim" /\ pc'[w] = "work" /\ job'[w] = job[w]
          /\ lost' = lost \ {D} /\ \A x \in Docs \ {D} : status'[x] = status[x]
      BY <1>4, <2>1 DEF Claim, TypeOK, D
    <3> QED
      BY <1>0, <1>a, <1>b, <1>c, <1>1, <1>3, <3>1 DEF Running
  <2>2. CASE ~Exists(D)
    BY <1>4, <1>1, <1>3, <1>b, <2>2 DEF Claim, Running, D
  <2> QED
    BY <2>1, <2>2
<1>5. CASE IndexCommit(w) \/ MarkFailed(w)
  <2>1. D \in Docs /\ lost' = lost \ {D} /\ status' = WriteStatus(D, status'[D])
    BY <1>0, <1>5 DEF IndexCommit, MarkFailed, WriteStatus, TypeOK, D
  <2>2. status'[D] # "processing"
    BY <1>0, <1>5 DEF IndexCommit, MarkFailed, WriteStatus, TypeOK, Exists, Stored, D
  <2> QED
    BY <1>1, <1>3, <1>b, <2>1, <2>2 DEF WriteStatus, TypeOK
<1>6. CASE Vanished(w)
  BY <1>1, <1>3, <1>b, <1>6 DEF Vanished, Exists, Stored, rows, D
<1>7. CASE Work(w) \/ IndexExcept(w)
  <2>1. pc'[w] \in Running \/ pc[w] \notin Running
    BY <1>7 DEF Work, Outcomes, IndexExcept, Running, TypeOK
  <2>2. pc[w] # "idle" /\ UNCHANGED <<status, lost, job>>
    BY <1>7 DEF Work, IndexExcept, rows
  <2> QED
    BY <1>a, <1>b, <1>c, <1>1, <1>3, <2>1, <2>2
<1>8. CASE Deliver(w) \/ Load(w) \/ Retry(w) \/ Finish(w)
  BY <1>1, <1>3, <1>b, <1>8 DEF Deliver, Load, Retry, Finish, Running, rows
<1>9. CASE WorkerFault(w)
  BY <1>1, <1>3, <1>b, <1>9
     DEF WorkerFault, WorkerLost, TaskDropped, MarkLost, Running, rows, D
<1> QED
  BY <1>4, <1>5, <1>6, <1>7, <1>8, <1>9 DEF TaskStep

\* No interleaving of requests, runs, retries, redeliveries and duplicated
\* messages leaves a document "processing" without a run that will write its
\* outcome: only the failures recorded in lost do.
THEOREM ProcessingOwned == Spec => []ProcessingIsOwned
<1>1. Init => ProcessingIsOwned
  BY DEF Init, ProcessingIsOwned
<1>2. TypeOK /\ ProcessingIsOwned /\ [Next]_vars => ProcessingIsOwned'
  <2> SUFFICES ASSUME TypeOK, ProcessingIsOwned, [Next]_vars
               PROVE  ProcessingIsOwned'
    OBVIOUS
  <2>0. MessagesStay
    BY NextMessages
  <2>1. CASE UNCHANGED vars
    BY <2>1 DEF ProcessingIsOwned, Runs, DocOfWorker, vars, rows, broker, workers
  <2>2. CASE Next
    BY <2>0, <2>2, OwnedByRequests, OwnedByTask DEF Next
  <2> QED
    BY <2>1, <2>2
<1> QED
  BY <1>1, <1>2, TypeCorrect, PTL DEF Spec

-----------------------------------------------------------------------------
(* PendingHasJob is inductive beside TypeOK.  The job of a pending document is *)
(* handed on from the committed request to the queue, from the queue to a     *)
(* worker, and back to the queue when the worker dies.                        *)

Queued(d)  == \E q \in queued : sent[q.copy] = d
InHand(w, d) == pc[w] \in {"load", "claim"} /\ DocOfWorker(w) = d

LEMMA QueuedStays ==
    ASSUME TypeOK, MessagesStay, queued \subseteq queued', NEW d, Queued(d)
    PROVE  Queued(d)'
BY DEF TypeOK, MessagesStay, Queued

LEMMA InHandStays ==
    ASSUME TypeOK, MessagesStay, NEW w \in Workers, NEW d, InHand(w, d),
           pc'[w] = pc[w], job'[w] = job[w]
    PROVE  InHand(w, d)'
BY DocStays DEF InHand

LEMMA JobIs ==
    ASSUME NEW d
    PROVE  HasJob(d) <=> \/ Queued(d) \/ up[d] = "committed"
                         \/ \E r \in Reprocs : rp[r] = "committed" /\ DocOf[r] = d
                         \/ \E w \in Workers : InHand(w, d)
BY DEF HasJob, Queued, InHand

\* What Publish puts into the queue.
LEMMA PublishQueues ==
    ASSUME TypeOK, NEW d \in Docs, Publish(d)
    PROVE  queued \subseteq queued' /\ (Exists(d) => Queued(d)')
<1>1. CASE Exists(d)
  <2>1. 0 \in 0..MaxRetries /\ NewCopy(d, 0)
    BY <1>1, PipelineAssumption DEF Publish
  <2> QED
    BY <2>1, CopyIsNew DEF Queued
<1>2. CASE ~Exists(d)
  BY <1>2 DEF Publish, broker
<1> QED
  BY <1>1, <1>2

LEMMA PendingByRequests ==
    ASSUME TypeOK, MessagesStay, PendingHasJob,
           \/ \E d \in Docs :
                UploadCheck(d) \/ UploadStep(d) \/ UploadEnqueueLost(d)
           \/ \E r \in Reprocs :
                ReprocLoad(r) \/ ReprocStep(r) \/ ReprocEnqueueLost(r)
           \/ \E x \in Deletes : DeleteLoad(x) \/ DeleteCommit(x)
           \/ \E m \in Domains : DomainDelete(m)
           \/ TimedOut
    PROVE  PendingHasJob'
<1> SUFFICES ASSUME NEW e \in Docs, status'[e] = "pending", ~deleted'[e]
             PROVE  e \in lost' \/ HasJob(e)'
  BY DEF PendingHasJob
<1>0. status[e] = "pending" /\ ~deleted[e] => e \in lost \/ HasJob(e)
  BY DEF PendingHasJob
<1>j. HasJob(e)' <=> \/ Queued(e)' \/ up'[e] = "committed"
                     \/ \E r \in Reprocs : rp'[r] = "committed" /\ DocOf[r] = e
                     \/ \E w \in Workers : InHand(w, e)'
  BY DEF HasJob, Queued, InHand
<1>w. \A w \in Workers : InHand(w, e) => InHand(w, e)'
  BY WorkersStay, InHandStays
<1>q. queued \subseteq queued' => (Queued(e) => Queued(e)')
  BY QueuedStays
<1> USE DEF TypeOK
<1>1. ASSUME NEW d \in Docs, UploadCheck(d) \/ UploadCommit(d)
      PROVE  e \in lost' \/ HasJob(e)'
  BY <1>0, <1>1, <1>j, <1>w, <1>q, JobIs DEF UploadCheck, UploadCommit, rows, broker
<1>2. ASSUME NEW d \in Docs, UploadEnqueue(d)
      PROVE  e \in lost' \/ HasJob(e)'
  <2>1. queued \subseteq queued' /\ (Exists(d) => Queued(d)')
    BY <1>2, PublishQueues DEF UploadEnqueue
  <2>2. Exists(e)
    BY <1>2 DEF UploadEnqueue, Exists, Stored, rows
  <2> QED
    BY <1>0, <1>2, <1>j, <1>w, <1>q, <2>1, <2>2, JobIs DEF UploadEnqueue, rows
<1>3. ASSUME NEW d \in Docs, UploadEnqueueLost(d)
      PROVE  e \in lost' \/ HasJob(e)'
  BY <1>0, <1>3, <1>j, <1>w, <1>q, JobIs DEF UploadEnqueueLost, rows, broker
<1>4. ASSUME NEW r \in Reprocs, ReprocLoad(r) \/ ReprocDelete(r) \/ ReprocAbort(r)
      PROVE  e \in lost' \/ HasJob(e)'
  BY <1>0, <1>4, <1>j, <1>w, <1>q, JobIs
     DEF ReprocLoad, ReprocDelete, ReprocAbort, rows, broker
<1>5. ASSUME NEW r \in Reprocs, ReprocCommit(r)
      PROVE  e \in lost' \/ HasJob(e)'
  <2>1. \A x \in Docs \ {DocOf[r]} : status'[x] = status[x] /\ (x \in lost => x \in lost')
    BY <1>5 DEF ReprocCommit
  <2>2. rp'[r] = "committed" /\ \A s \in Reprocs : rp[s] = "committed" => rp'[s] = "committed"
    BY <1>5 DEF ReprocCommit
  <2>3. UNCHANGED <<queued, up, deleted>>
    BY <1>5 DEF ReprocCommit, broker
  <2> QED
    BY <1>0, <1>j, <1>w, <1>q, <2>1, <2>2, <2>3, JobIs
<1>6. ASSUME NEW r \in Reprocs, ReprocEnqueue(r)
      PROVE  e \in lost' \/ HasJob(e)'
  <2>1. queued \subseteq queued' /\ (Exists(DocOf[r]) => Queued(DocOf[r])')
    BY <1>6, PublishQueues, PipelineAssumption DEF ReprocEnqueue
  <2>2. Exists(e)
    BY <1>6 DEF ReprocEnqueue, Exists, Stored, rows
  <2> QED
    BY <1>0, <1>6, <1>j, <1>w, <1>q, <2>1, <2>2, JobIs DEF ReprocEnqueue, rows
<1>7. ASSUME NEW r \in Reprocs, ReprocEnqueueLost(r)
      PROVE  e \in lost' \/ HasJob(e)'
  BY <1>0, <1>7, <1>j, <1>w, <1>q, JobIs DEF ReprocEnqueueLost, rows, broker
<1>8. ASSUME NEW x \in Deletes, DeleteLoad(x) \/ DeleteCommit(x)
      PROVE  e \in lost' \/ HasJob(e)'
  <2>1. ~deleted[e]
    BY <1>8 DEF DeleteLoad, DeleteCommit, rows
  <2> QED
    BY <1>0, <1>8, <1>j, <1>w, <1>q, <2>1, JobIs DEF DeleteLoad, DeleteCommit, rows, broker
<1>9. ASSUME NEW m \in Domains, DomainDelete(m)
      PROVE  e \in lost' \/ HasJob(e)'
  BY <1>0, <1>9, <1>j, <1>w, <1>q, JobIs DEF DomainDelete, broker, api
<1>10. CASE TimedOut
  <2>1. PICK q \in Message : q.copy \in DOMAIN sent /\ Duplicate(q)
    BY <1>10, TimedOutIsNew
  <2>2. queued \subseteq queued'
    BY <2>1, DuplicateIsNew, CopyIsNew
  <2> QED
    BY <1>0, <1>10, <1>j, <1>w, <1>q, <2>2, JobIs DEF TimedOut, rows, api
<1> QED
  BY <1>1, <1>2, <1>3, <1>4, <1>5, <1>6, <1>7, <1>8, <1>9, <1>10
     DEF UploadStep, ReprocStep

LEMMA PendingByTask ==
    ASSUME TypeOK, MessagesStay, PendingHasJob, NEW w \in Workers,
           Deliver(w) \/ TaskStep(w) \/ WorkerFault(w)
    PROVE  PendingHasJob'
<1>1. SUFFICES ASSUME NEW e \in Docs, status'[e] = "pending", ~deleted'[e]
               PROVE  e \in lost' \/ HasJob(e)'
  BY DEF PendingHasJob
<1>2. status[e] = "pending" /\ ~deleted[e] => e \in lost \/ HasJob(e)
  BY DEF PendingHasJob
<1>j. HasJob(e)' <=> \/ Queued(e)' \/ up'[e] = "committed"
                     \/ \E r \in Reprocs : rp'[r] = "committed" /\ DocOf[r] = e
                     \/ \E v \in Workers : InHand(v, e)'
  BY DEF HasJob, Queued, InHand
<1>v. \A v \in Workers \ {w} : InHand(v, e) => InHand(v, e)'
  BY OthersStay, InHandStays
<1>q. queued \subseteq queued' => (Queued(e) => Queued(e)')
  BY QueuedStays
<1>a. UNCHANGED <<up, rp, deleted>>
  BY DEF Deliver, TaskStep, WorkerFault, Load, Claim, Vanished, Work, IndexCommit, IndexExcept,
         MarkFailed, Retry, Finish, WorkerLost, TaskDropped, MarkLost, rows, api
\* What is left to show: the job is not lost with what w had in hand.
<1>3. SUFFICES ASSUME HasJob(e) => HasJob(e)' \/ e \in lost',
                      status[e] = "pending" /\ (e \in lost => e \in lost')
               PROVE  e \in lost' \/ HasJob(e)'
  <2>1. status[e] = "pending" /\ (e \in lost => e \in lost')
    <3> USE <1>1, HeldMessage DEF TypeOK
    <3>1. CASE Claim(w)
      BY <3>1 DEF Claim
    <3>2. CASE IndexCommit(w) \/ MarkFailed(w)
      <4>1. DocOfWorker(w) \in Docs /\ lost' = lost \ {DocOfWorker(w)}
        BY <3>2 DEF IndexCommit, MarkFailed
      <4>2. \/ status' = [status EXCEPT ![DocOfWorker(w)] = "indexed"]
            \/ status' = [status EXCEPT ![DocOfWorker(w)] = "failed"]
            \/ status' = status /\ ~Exists(DocOfWorker(w))
        BY <3>2 DEF IndexCommit, MarkFailed, WriteStatus
      <4> QED
        BY <4>1, <4>2 DEF Exists, Stored
    <3>3. CASE \/ Deliver(w) \/ Load(w) \/ Vanished(w) \/ Work(w) \/ IndexExcept(w)
               \/ Retry(w) \/ Finish(w) \/ WorkerFault(w)
      BY <3>3 DEF Deliver, Load, Vanished, Work, IndexExcept, Retry, Finish, WorkerFault,
                  WorkerLost, TaskDropped, MarkLost, rows
    <3> QED
      BY <3>1, <3>2, <3>3 DEF TaskStep
  <2>2. queued \subseteq queued' /\ ~InHand(w, e) => (HasJob(e) => HasJob(e)')
    BY <1>j, <1>v, <1>q, <1>a, JobIs
  <2>3. CASE Deliver(w)
    <3>1. PICK q \in queued : queued' = queued \ {q} /\ job' = [job EXCEPT ![w] = q]
      BY <2>3 DEF Deliver, Take
    <3>2. pc'[w] = "load" /\ job'[w] = q /\ sent' = sent /\ ~InHand(w, e)
      BY <2>3, <3>1 DEF Deliver, TypeOK, InHand
    <3>3. sent[q.copy] = e => InHand(w, e)'
      BY <3>2 DEF InHand, DocOfWorker
    <3>4. sent[q.copy] # e => (Queued(e) => Queued(e)')
      BY <3>1, <3>2 DEF Queued
    <3> QED
      BY <1>j, <1>v, <1>a, <3>2, <3>3, <3>4, <2>1, <1>2, JobIs
  <2>4. CASE Load(w)
    <3>1. CASE Skips(DocOfWorker(w))
      <4>1. ~InHand(w, e)
        BY <1>1, <1>a, <2>1, <3>1 DEF InHand, Skips, Exists, Stored
      <4> QED
        BY <2>2, <2>4, <4>1, <2>1 DEF Load, broker
    <3>2. CASE ~Skips(DocOfWorker(w))
      <4>1. InHand(w, e) => InHand(w, e)'
        BY <2>4, <3>2, HeldMessage DEF Load, InHand, DocOfWorker, broker, TypeOK
      <4> QED
        BY <1>j, <1>v, <1>a, <1>q, <2>1, <2>4, <4>1, JobIs DEF Load, broker
    <3> QED
      BY <3>1, <3>2
  <2>5. CASE Claim(w)
    <3>1. ~InHand(w, e)
      BY <1>1, <2>1, <2>5 DEF Claim, InHand, Exists, Stored, TypeOK
    <3> QED
      BY <2>1, <2>2, <2>5, <3>1 DEF Claim, broker
  <2>6. CASE Vanished(w) \/ Work(w) \/ IndexCommit(w) \/ IndexExcept(w) \/ MarkFailed(w) \/ Retry(w)
             \/ Finish(w) \/ MarkLost(w)
    BY <2>1, <2>2, <2>6 DEF Vanished, Work, IndexCommit, IndexExcept, MarkFailed, Retry, Finish,
                            MarkLost, InHand, broker
  <2>7. CASE WorkerLost(w)
    <3>1. CASE pc[w] = "retried"
      <4>1. queued \subseteq queued'
        BY <2>7, <3>1, HeldMessage, DuplicateIsNew, CopyIsNew DEF WorkerLost
      <4> QED
        BY <2>1, <2>2, <3>1, <4>1 DEF InHand
    <3>2. CASE pc[w] # "retried"
      <4>1. queued' = queued \cup {job[w]} /\ sent' = sent
        BY <2>7, <3>2 DEF WorkerLost, Redeliver
      <4>2. InHand(w, e) => Queued(e)'
        BY <4>1 DEF InHand, Queued, DocOfWorker
      <4> QED
        BY <1>j, <1>v, <1>a, <1>q, <2>1, <4>1, <4>2, JobIs
    <3> QED
      BY <3>1, <3>2
  <2>8. CASE TaskDropped(w)
    <3>1. InHand(w, e) => e \in lost'
      BY <2>8 DEF TaskDropped, InHand
    <3> QED
      BY <2>1, <2>2, <2>8, <3>1 DEF TaskDropped, broker
  <2> QED
    BY <2>1, <2>3, <2>4, <2>5, <2>6, <2>7, <2>8 DEF TaskStep, WorkerFault
<1> QED
  BY <1>1, <1>2, <1>3, <1>a

\* A visible pending document always has a job to take it up, short of the
\* failures recorded in lost.
THEOREM PendingFollowed == Spec => []PendingHasJob
<1>1. Init => PendingHasJob
  BY DEF Init, PendingHasJob
<1>2. TypeOK /\ PendingHasJob /\ [Next]_vars => PendingHasJob'
  <2> SUFFICES ASSUME TypeOK, PendingHasJob, [Next]_vars
               PROVE  PendingHasJob'
    OBVIOUS
  <2>0. MessagesStay
    BY NextMessages
  <2>1. CASE UNCHANGED vars
    BY <2>1 DEF PendingHasJob, HasJob, DocOfWorker,
                vars, rows, broker, workers, api
  <2>2. CASE Next
    BY <2>0, <2>2, PendingByRequests, PendingByTask DEF Next
  <2> QED
    BY <2>1, <2>2
<1> QED
  BY <1>1, <1>2, TypeCorrect, PTL DEF Spec

-----------------------------------------------------------------------------
(* A copy of a message is in one place: in the queue, or in the hands of one  *)
(* worker, until that worker has published the retry that takes its place.    *)
(* And it is about a document that was inserted.                              *)

Holds(w) == pc[w] \notin {"idle", "retried"}

SingleHolder ==
    /\ \A w \in Workers : Holds(w) => \A q \in queued : q.copy # job[w].copy
    /\ \A v, w \in Workers : Holds(v) /\ Holds(w) /\ job[v].copy = job[w].copy => v = w
    /\ \A p, q \in queued : p.copy = q.copy => p = q

SentExist == \A i \in DOMAIN sent : status[sent[i]] # "absent"

HolderInv == TypeOK /\ SingleHolder /\ SentExist

\* Nothing is queued that was not, and who holds a message held it.
LEMMA HolderKeeps ==
    ASSUME SingleHolder, queued' \subseteq queued,
           \A v \in Workers : Holds(v)' => Holds(v) /\ job'[v] = job[v]
    PROVE  SingleHolder'
BY DEF SingleHolder

\* A message is queued whose copy nobody holds any more.
LEMMA HolderAdds ==
    ASSUME SingleHolder, NEW q, queued' = queued \cup {q}, \A p \in queued : p.copy # q.copy,
           \A v \in Workers : Holds(v)' => Holds(v) /\ job'[v] = job[v] /\ job[v].copy # q.copy
    PROVE  SingleHolder'
BY DEF SingleHolder

LEMMA HolderCopies ==
    ASSUME HolderInv, NEW d \in Docs, status[d] # "absent", NEW n \in 0..MaxRetries, NewCopy(d, n),
           \A v \in Workers : Holds(v)' => Holds(v) /\ job'[v] = job[v], UNCHANGED status
    PROVE  SingleHolder' /\ SentExist'
<1>1. PICK q \in Message : q.copy = Len(sent) + 1 /\ queued' = queued \cup {q}
  BY CopyIsNew DEF HolderInv
<1>2. /\ Len(sent) + 1 \notin DOMAIN sent /\ MessagesStay
      /\ DOMAIN sent' = DOMAIN sent \cup {Len(sent) + 1} /\ sent'[Len(sent) + 1] = d
  BY CopyIsNew DEF HolderInv
<1>3. \A p \in queued : p.copy # q.copy
  BY <1>1, <1>2 DEF HolderInv, TypeOK
<1>4. \A v \in Workers : Holds(v) => job[v].copy # q.copy
  BY <1>1, <1>2, HeldMessage DEF HolderInv, Holds
<1>5. SingleHolder'
  BY <1>1, <1>3, <1>4, HolderAdds DEF HolderInv
<1>6. SentExist'
  BY <1>2 DEF HolderInv, SentExist, MessagesStay
<1> QED
  BY <1>5, <1>6

LEMMA HolderPublishes ==
    ASSUME HolderInv, NEW d \in Docs, Publish(d), UNCHANGED <<status, pc, job>>
    PROVE  SingleHolder' /\ SentExist'
<1>1. CASE Exists(d)
  BY <1>1, HolderCopies, PipelineAssumption DEF Publish, Exists, Stored, Holds
<1>2. CASE ~Exists(d)
  BY <1>2 DEF Publish, broker, HolderInv, SingleHolder, SentExist, Holds
<1> QED
  BY <1>1, <1>2

LEMMA HolderByRequests ==
    ASSUME HolderInv,
           \/ \E d \in Docs :
                UploadCheck(d) \/ UploadStep(d) \/ UploadEnqueueLost(d)
           \/ \E r \in Reprocs :
                ReprocLoad(r) \/ ReprocStep(r) \/ ReprocEnqueueLost(r)
           \/ \E x \in Deletes : DeleteLoad(x) \/ DeleteCommit(x)
           \/ \E m \in Domains : DomainDelete(m)
           \/ TimedOut
    PROVE  SingleHolder' /\ SentExist'
<1>0. UNCHANGED <<pc, job>>
  BY WorkersStay
<1>1. ASSUME NEW d \in Docs, UploadEnqueue(d)
      PROVE  SingleHolder' /\ SentExist'
  BY <1>0, <1>1, HolderPublishes DEF UploadEnqueue, rows
<1>2. ASSUME NEW r \in Reprocs, ReprocEnqueue(r)
      PROVE  SingleHolder' /\ SentExist'
  BY <1>0, <1>2, HolderPublishes, PipelineAssumption DEF ReprocEnqueue, rows
\* Otherwise no status becomes absent.
<1>3. ASSUME UNCHANGED broker, \A i \in Docs : status[i] # "absent" => status'[i] # "absent"
      PROVE  SingleHolder' /\ SentExist'
  BY <1>0, <1>3, HolderKeeps DEF broker, HolderInv, SentExist, Holds, TypeOK
<1>4. ASSUME NEW d \in Docs, UploadCheck(d) \/ UploadCommit(d) \/ UploadEnqueueLost(d)
      PROVE  SingleHolder' /\ SentExist'
  BY <1>3, <1>4 DEF UploadCheck, UploadCommit, UploadEnqueueLost, HolderInv, TypeOK, rows
<1>5. ASSUME NEW r \in Reprocs,
             \/ ReprocLoad(r) \/ ReprocDelete(r) \/ ReprocCommit(r)
             \/ ReprocAbort(r) \/ ReprocEnqueueLost(r)
      PROVE  SingleHolder' /\ SentExist'
  BY <1>3, <1>5 DEF ReprocLoad, ReprocDelete, ReprocCommit, Reset, ReprocAbort, ReprocEnqueueLost,
                    HolderInv, TypeOK, rows
<1>6. ASSUME NEW x \in Deletes, DeleteLoad(x) \/ DeleteCommit(x)
      PROVE  SingleHolder' /\ SentExist'
  BY <1>3, <1>6 DEF DeleteLoad, DeleteCommit, rows
<1>7. ASSUME NEW m \in Domains, DomainDelete(m)
      PROVE  SingleHolder' /\ SentExist'
  BY <1>3, <1>7 DEF DomainDelete, HolderInv, TypeOK
<1>8. CASE TimedOut
  <2>1. PICK q \in Message : q.copy \in DOMAIN sent /\ Duplicate(q)
    BY <1>8, TimedOutIsNew DEF HolderInv
  <2>2. NewCopy(sent[q.copy], q.retries) /\ sent[q.copy] \in Docs /\ q.retries \in 0..MaxRetries
    BY <2>1, DuplicateIsNew DEF HolderInv
  <2> QED
    BY <1>0, <1>8, <2>1, <2>2, HolderCopies DEF TimedOut, rows, HolderInv, SentExist, Holds
<1> QED
  BY <1>1, <1>2, <1>4, <1>5, <1>6, <1>7, <1>8 DEF UploadStep, ReprocStep

LEMMA HolderByTask ==
    ASSUME HolderInv, NEW w \in Workers,
           Deliver(w) \/ TaskStep(w) \/ WorkerFault(w)
    PROVE  SingleHolder' /\ SentExist'
<1>0. TypeOK /\ SingleHolder /\ SentExist
  BY DEF HolderInv
<1>o. \A v \in Workers \ {w} : pc'[v] = pc[v] /\ job'[v] = job[v]
  BY <1>0, OthersStay
<1>1. ASSUME UNCHANGED sent, \A i \in Docs : status[i] # "absent" => status'[i] # "absent"
      PROVE  SentExist'
  BY <1>0, <1>1 DEF SentExist, TypeOK
<1>2. CASE Deliver(w)
  <2>1. PICK q \in queued : queued' = queued \ {q} /\ job' = [job EXCEPT ![w] = q]
    BY <1>2 DEF Deliver, Take
  <2>2. pc[w] = "idle" /\ job'[w] = q
    BY <1>0, <1>2, <2>1 DEF Deliver, TypeOK
  <2>3. SingleHolder'
    BY <1>0, <1>o, <2>1, <2>2 DEF SingleHolder, Holds
  <2> QED
    BY <1>1, <1>2, <2>3 DEF Deliver, rows
<1>3. CASE \/ Load(w) \/ Claim(w) \/ Vanished(w) \/ Work(w) \/ IndexCommit(w) \/ IndexExcept(w)
           \/ MarkFailed(w) \/ Finish(w) \/ TaskDropped(w) \/ MarkLost(w)
  <2>1. UNCHANGED <<sent, queued>> /\ \A i \in Docs : status[i] # "absent" => status'[i] # "absent"
    BY <1>0, <1>3 DEF Load, Claim, Vanished, Work, IndexCommit, IndexExcept, MarkFailed, Finish,
       TaskDropped, MarkLost, WriteStatus, rows, broker, TypeOK
  <2>2. Holds(w)' => Holds(w) /\ job'[w] = job[w]
    BY <1>0, <1>3 DEF Load, Claim, Vanished, Work, Outcomes, IndexCommit, IndexExcept, MarkFailed,
       Finish, TaskDropped, MarkLost, AfterMark, Release, Holds, TypeOK
  <2> QED
    BY <1>0, <1>o, <1>1, <2>1, <2>2, HolderKeeps DEF Holds
<1>4. CASE Retry(w)
  <2>1. CASE MayRetry(job[w])
    <3>1. job[w] \in Message /\ Holds(w)
      BY <1>0, <1>4, HeldMessage DEF Retry, Holds
    <3>2. PICK p \in Message : p = [job[w] EXCEPT !.retries = NextTry(@)] /\ p.copy = job[w].copy
      BY <2>1, <3>1, RetryIsMessage
    <3>3. queued' = queued \cup {p} /\ ~Holds(w)'
      BY <1>0, <1>4, <2>1, <3>2 DEF Retry, Holds, TypeOK
    <3>a. \A v \in Workers : Holds(v)' => v # w /\ Holds(v) /\ job'[v] = job[v]
      BY <1>o, <3>3 DEF Holds
    <3>b. \A q \in queued : q.copy # p.copy
      BY <1>0, <3>1, <3>2 DEF SingleHolder
    <3>c. \A v \in Workers : Holds(v)' => job[v].copy # p.copy
      BY <1>0, <3>1, <3>2, <3>a DEF SingleHolder
    <3>4. SingleHolder'
      BY <1>0, <3>3, <3>a, <3>b, <3>c, HolderAdds
    <3> QED
      BY <1>1, <1>4, <2>1, <3>4 DEF Retry, rows
  <2>2. CASE ~MayRetry(job[w])
    <3>1. ~Holds(w)' /\ UNCHANGED broker
      BY <1>0, <1>4, <2>2 DEF Retry, Release, Holds, TypeOK
    <3> QED
      BY <1>0, <1>o, <1>1, <1>4, <3>1, HolderKeeps DEF Retry, rows, broker, Holds
  <2> QED
    BY <2>1, <2>2
<1>5. CASE WorkerLost(w)
  <2>0. ~Holds(w)' /\ UNCHANGED status
    BY <1>0, <1>5 DEF WorkerLost, Release, Holds, TypeOK, rows
  <2>h. \A v \in Workers : Holds(v)' => v # w /\ Holds(v) /\ job'[v] = job[v]
    BY <1>o, <2>0 DEF Holds
  <2>j. job[w] \in Message /\ job[w].copy \in DOMAIN sent
    BY <1>0, <1>5, HeldMessage DEF WorkerLost
  <2>1. CASE pc[w] = "retried"
    <3>1. /\ NewCopy(sent[job[w].copy], job[w].retries) /\ sent[job[w].copy] \in Docs
          /\ job[w].retries \in 0..MaxRetries
      BY <1>0, <1>5, <2>1, <2>j, DuplicateIsNew DEF WorkerLost
    <3> QED
      BY <1>0, <2>0, <2>h, <2>j, <3>1, HolderCopies DEF SentExist
  <2>2. CASE pc[w] # "retried"
    <3>1. queued' = queued \cup {job[w]} /\ UNCHANGED sent /\ Holds(w)
      BY <1>5, <2>2 DEF WorkerLost, Redeliver, Holds
    <3>a. \A q \in queued : q.copy # job[w].copy
      BY <1>0, <3>1 DEF SingleHolder
    <3>b. \A v \in Workers : Holds(v)' => job[v].copy # job[w].copy
      BY <1>0, <2>h, <3>1 DEF SingleHolder
    <3>2. SingleHolder'
      BY <1>0, <2>h, <3>1, <3>a, <3>b, HolderAdds
    <3> QED
      BY <1>1, <2>0, <3>1, <3>2
  <2> QED
    BY <2>1, <2>2
<1> QED
  BY <1>2, <1>3, <1>4, <1>5 DEF TaskStep, WorkerFault

LEMMA HolderInit == Init => HolderInv
BY InitType DEF Init, HolderInv, SingleHolder, SentExist, Holds

LEMMA HolderNext == HolderInv /\ [Next]_vars => HolderInv'
<1> SUFFICES ASSUME HolderInv, [Next]_vars PROVE HolderInv'
  OBVIOUS
<1>1. TypeOK'
  BY NextType DEF HolderInv
<1>2. CASE UNCHANGED vars
  BY <1>1, <1>2 DEF HolderInv, SingleHolder, SentExist, Holds, vars, rows, broker, workers
<1>3. CASE Next
  BY <1>1, <1>3, HolderByRequests, HolderByTask DEF Next, HolderInv
<1> QED
  BY <1>2, <1>3

LEMMA HolderInvariant == Spec => []HolderInv
BY HolderInit, HolderNext, PTL DEF Spec

\* Workers at work on a document hold different copies of its messages, so there
\* are no more of them than copies.
LEMMA NoMoreThanCopies ==
    ASSUME HolderInv, NEW d \in Docs, NEW P \in SUBSET Workers,
           \A w \in P : Holds(w) /\ DocOfWorker(w) = d
    PROVE  /\ IsFiniteSet(CopiesOf(d)) /\ Cardinality(CopiesOf(d)) \in Nat
           /\ IsFiniteSet(P) /\ Cardinality(P) \in Nat
           /\ Cardinality(P) <= Cardinality(CopiesOf(d))
<1>1. IsFiniteSet(CopiesOf(d)) /\ Cardinality(CopiesOf(d)) \in Nat
  <2>1. sent \in Seq(Docs) /\ Len(sent) \in Nat /\ DOMAIN sent = 1..Len(sent)
    BY DEF HolderInv, TypeOK
  <2>2. IsFiniteSet(1..Len(sent)) /\ CopiesOf(d) \subseteq 1..Len(sent)
    BY <2>1, FS_Interval DEF CopiesOf
  <2> QED
    BY <2>2, FS_Subset, FS_CardinalityType
<1> DEFINE f == [w \in P |-> job[w].copy]
<1>2. f \in Injection(P, CopiesOf(d))
  <2>1. \A w \in P : f[w] \in CopiesOf(d)
    BY HeldMessage DEF HolderInv, Holds, CopiesOf, DocOfWorker
  <2>2. \A v, w \in P : f[v] = f[w] => v = w
    BY DEF HolderInv, SingleHolder
  <2> QED
    BY <2>1, <2>2 DEF Injection, IsInjective
<1>3. IsFiniteSet(P) /\ Cardinality(P) <= Cardinality(CopiesOf(d))
  BY <1>1, <1>2, FS_Injection
<1> QED
  BY <1>1, <1>3, FS_CardinalityType

-----------------------------------------------------------------------------
(* Chunk sets have one owner, and an open transaction has deleted only rows   *)
(* that are there: another commit that removed them took them away from it.   *)

ApartInv ==
    /\ \A d, e \in Docs : d # e => chunks[d] \cap chunks[e] = {}
    /\ \A w \in Workers : snap[w] # {} => pc[w] = "index" /\ snap[w] \subseteq chunks[DocOfWorker(w)]
    /\ \A r \in Reprocs : snap[r] \subseteq chunks[DocOf[r]]

\* A step that only removes the rows S.
Removes(S) == Remove(S) /\ \A e \in Docs : chunks'[e] = chunks[e] \ S

\* A step that removes nothing: what an open transaction of a worker has
\* deleted stays.
Quiet == UNCHANGED chunks /\ \A v \in Workers : pc'[v] = "index" => snap'[v] = snap[v]

LEMMA IndexWas ==
    ASSUME TypeOK, MessagesStay, [Next]_vars, NEW v \in Workers, ~Work(v), pc'[v] = "index"
    PROVE  pc[v] = "index" /\ job'[v] = job[v] /\ DocOfWorker(v)' = DocOfWorker(v)
<1>1. pc[v] = "index" /\ job'[v] = job[v]
  <2>1. ASSUME NEW w \in Workers, Deliver(w) \/ TaskStep(w) \/ WorkerFault(w)
        PROVE  pc[v] = "index" /\ job'[v] = job[v]
    <3>1. CASE v # w
      BY <2>1, <3>1, OthersStay
    <3>2. CASE v = w
      <4> pc \in [Workers -> PCs]
        BY DEF TypeOK
      <4> QED
        BY <2>1, <3>2 DEF Deliver, TaskStep, WorkerFault, Load, Claim, Vanished, IndexCommit,
           IndexExcept, MarkFailed, AfterMark, Retry, Finish, WorkerLost, TaskDropped, MarkLost, Release
    <3> QED
      BY <3>1, <3>2
  <2>2. CASE UNCHANGED <<pc, job>>
    BY <2>2
  <2> QED
    BY <2>1, <2>2, WorkersStay DEF Next, vars, workers
<1> QED
  BY <1>1, DocStays

\* Every step is of one of these kinds.
LEMMA ChunkSteps ==
    ASSUME TypeOK, ApartInv, [Next]_vars
    PROVE  \/ \E w \in Workers : Work(w) \/ IndexCommit(w)
           \/ \E S : Removes(S)
           \/ Quiet
<1> USE DEF TypeOK
<1>1. ASSUME NEW d \in Docs, UploadCheck(d) \/ UploadStep(d) \/ UploadEnqueueLost(d)
      PROVE  Quiet
  BY <1>1 DEF Quiet, UploadCheck, UploadStep, UploadCommit, UploadEnqueue, UploadEnqueueLost, rows
<1>2. ASSUME NEW r \in Reprocs, ReprocCommit(r)
      PROVE  \E S : Removes(S)
  <2>1. \A e \in Docs \ {DocOf[r]} : chunks'[e] = chunks[e] /\ chunks[e] \cap snap[r] = {}
    BY <1>2, PipelineAssumption DEF ReprocCommit, ApartInv
  <2>2. chunks'[DocOf[r]] = chunks[DocOf[r]] \ snap[r]
    BY <1>2, PipelineAssumption DEF ReprocCommit
  <2>3. Removes(snap[r])
    BY <1>2, <2>1, <2>2 DEF ReprocCommit, Removes
  <2> QED
    BY <2>3
<1>3. ASSUME NEW r \in Reprocs,
             \/ ReprocLoad(r) \/ ReprocDelete(r) \/ ReprocAbort(r) \/ ReprocEnqueue(r)
             \/ ReprocEnqueueLost(r)
      PROVE  Quiet
  BY <1>3, PipelineAssumption
     DEF Quiet, ReprocLoad, ReprocDelete, ReprocAbort, ReprocEnqueue, ReprocEnqueueLost, rows
<1>4. ASSUME NEW x \in Deletes, DeleteLoad(x) \/ DeleteCommit(x)
      PROVE  Quiet
  BY <1>4 DEF Quiet, DeleteLoad, DeleteCommit, rows
<1>5. ASSUME NEW m \in Domains, DomainDelete(m)
      PROVE  \E S : Removes(S)
  <2> DEFINE S == UNION {chunks[d] : d \in Cascade(m)}
  <2>0. Cascade(m) \subseteq Docs
    BY DEF Cascade
  <2>1. \A e \in Docs : chunks'[e] = IF e \in Cascade(m) THEN {} ELSE chunks[e]
    BY <1>5 DEF DomainDelete
  <2>2. \A e \in Cascade(m) : chunks[e] \subseteq S
    OBVIOUS
  <2>3. \A e \in Docs \ Cascade(m) : chunks[e] \cap S = {}
    BY <2>0 DEF ApartInv
  <2>4. Remove(S)
    BY <1>5 DEF DomainDelete
  <2> HIDE DEF S
  <2>5. Removes(S)
    BY <2>1, <2>2, <2>3, <2>4 DEF Removes
  <2> QED
    BY <2>5
<1>6. ASSUME NEW w \in Workers, Deliver(w) \/ TaskStep(w) \/ WorkerFault(w),
             ~Work(w), ~IndexCommit(w)
      PROVE  Quiet
  <2>1. UNCHANGED chunks /\ \A v \in Workers \ {w} : snap'[v] = snap[v]
    BY <1>6 DEF Deliver, TaskStep, WorkerFault, Load, Claim, Vanished, IndexExcept, MarkFailed, Retry,
       Finish, WorkerLost, TaskDropped, MarkLost, rows
  <2>2. pc'[w] # "index"
    BY <1>6 DEF Deliver, TaskStep, WorkerFault, Load, Claim, Vanished, IndexExcept, MarkFailed,
       AfterMark, Retry, Finish, WorkerLost, TaskDropped, MarkLost, Release
  <2> QED
    BY <2>1, <2>2 DEF Quiet
<1>7. CASE TimedOut \/ UNCHANGED vars
  BY <1>7 DEF Quiet, TimedOut, vars, rows
<1> QED
  BY <1>1, <1>2, <1>3, <1>4, <1>5, <1>6, <1>7 DEF Next, ReprocStep

\* What the commit of _stage_index does to the chunks.
LEMMA CommitChunks ==
    ASSUME TypeOK, ApartInv, NEW w \in Workers, IndexCommit(w)
    PROVE  /\ DocOfWorker(w) \in Docs
           /\ \A e \in Docs : Fresh \notin chunks[e]
           /\ Remove(snap[w])
           /\ chunks'[DocOfWorker(w)] = (chunks[DocOfWorker(w)] \ snap[w]) \cup {Fresh}
           /\ \A e \in Docs \ {DocOfWorker(w)} : chunks'[e] = chunks[e] \ snap[w]
<1>0. DocOfWorker(w) \in Docs
  BY HeldMessage DEF IndexCommit
<1>1. \A e \in Docs : Fresh \notin chunks[e]
  <2>1. Fresh \in Unused
    BY DEF IndexCommit, Fresh
  <2> QED
    BY <2>1 DEF Unused
<1>2. snap[w] \subseteq chunks[DocOfWorker(w)]
  BY DEF ApartInv
<1>3. \A e \in Docs \ {DocOfWorker(w)} : chunks[e] \cap snap[w] = {}
  BY <1>0, <1>2 DEF ApartInv
<1>4. chunks' = [chunks EXCEPT ![DocOfWorker(w)] = (chunks[DocOfWorker(w)] \ snap[w]) \cup {Fresh}]
  BY DEF IndexCommit
<1> QED
  BY <1>0, <1>1, <1>3, <1>4 DEF IndexCommit, TypeOK

\* A transaction only loses deleted rows, except when it deletes some.
LEMMA SnapSteps ==
    ASSUME TypeOK, [Next]_vars, NEW p \in Workers \cup Reprocs
    PROVE  \/ snap'[p] \subseteq snap[p]
           \/ /\ p \in Workers /\ Work(p) /\ pc'[p] = "index"
              /\ snap'[p] = chunks[DocOfWorker(p)]
           \/ p \in Reprocs /\ UNCHANGED chunks /\ snap'[p] = chunks[DocOf[p]]
<1>0. DOMAIN snap = Workers \cup Reprocs
  BY DEF TypeOK
<1>1. ASSUME UNCHANGED snap \/ (\E S : Remove(S)) \/ \E q : snap' = [snap EXCEPT ![q] = {}]
      PROVE  snap'[p] \subseteq snap[p]
  BY <1>0, <1>1 DEF Remove
<1>2. ASSUME NEW d \in Docs, UploadCheck(d) \/ UploadStep(d) \/ UploadEnqueueLost(d)
      PROVE  UNCHANGED snap
  BY <1>2 DEF UploadCheck, UploadStep, UploadCommit, UploadEnqueue, UploadEnqueueLost
<1>3. ASSUME NEW r \in Reprocs, ReprocLoad(r) \/ ReprocEnqueue(r) \/ ReprocEnqueueLost(r)
      PROVE  UNCHANGED snap
  BY <1>3 DEF ReprocLoad, ReprocEnqueue, ReprocEnqueueLost
<1>4. ASSUME NEW r \in Reprocs, ReprocCommit(r) \/ ReprocAbort(r)
      PROVE  (\E S : Remove(S)) \/ \E q : snap' = [snap EXCEPT ![q] = {}]
  BY <1>4 DEF ReprocCommit, ReprocAbort
<1>5. ASSUME NEW r \in Reprocs, ReprocDelete(r)
      PROVE  snap'[p] \subseteq snap[p] \/ (p = r /\ UNCHANGED chunks /\ snap'[p] = chunks[DocOf[p]])
  BY <1>0, <1>5 DEF ReprocDelete, rows
<1>6. ASSUME NEW x \in Deletes, DeleteLoad(x) \/ DeleteCommit(x)
      PROVE  UNCHANGED snap
  BY <1>6 DEF DeleteLoad, DeleteCommit
<1>7. ASSUME NEW m \in Domains, DomainDelete(m)
      PROVE  \E S : Remove(S)
  BY <1>7 DEF DomainDelete
<1>8. ASSUME NEW w \in Workers,
             \/ Deliver(w) \/ Load(w) \/ Claim(w) \/ Vanished(w) \/ MarkFailed(w) \/ Retry(w)
             \/ Finish(w) \/ MarkLost(w)
      PROVE  UNCHANGED snap
  BY <1>8 DEF Deliver, Load, Claim, Vanished, MarkFailed, Retry, Finish, MarkLost
<1>9. ASSUME NEW w \in Workers,
             IndexCommit(w) \/ IndexExcept(w) \/ WorkerLost(w) \/ TaskDropped(w)
      PROVE  (\E S : Remove(S)) \/ \E q : snap' = [snap EXCEPT ![q] = {}]
  BY <1>9 DEF IndexCommit, IndexExcept, WorkerLost, TaskDropped
<1>10. ASSUME NEW w \in Workers, Work(w)
       PROVE  \/ snap'[p] \subseteq snap[p]
              \/ p = w /\ pc'[p] = "index" /\ snap'[p] = chunks[DocOfWorker(p)]
  <2>1. PICK o \in Outcomes : /\ pc' = [pc EXCEPT ![w] = o]
                              /\ snap' = IF o = "index" THEN [snap EXCEPT ![w] = chunks[DocOfWorker(w)]] ELSE snap
    BY <1>10 DEF Work, Cleared
  <2>2. CASE o = "index"
    <3>1. pc'[w] = "index" /\ snap' = [snap EXCEPT ![w] = chunks[DocOfWorker(w)]]
      BY <2>1, <2>2 DEF TypeOK
    <3> QED
      BY <1>0, <3>1
  <2>3. CASE o # "index"
    BY <2>1, <2>3
  <2> QED
    BY <2>2, <2>3
<1>11. CASE TimedOut \/ UNCHANGED vars
  BY <1>11 DEF TimedOut, vars
<1>12. CASE Next
  BY <1>1, <1>2, <1>3, <1>4, <1>5, <1>6, <1>7, <1>8, <1>9, <1>10, <1>11, <1>12
     DEF Next, ReprocStep, TaskStep, WorkerFault
<1> QED
  BY <1>1, <1>11, <1>12

LEMMA ApartNext == HolderInv /\ ApartInv /\ [Next]_vars => ApartInv'
<1> SUFFICES ASSUME HolderInv, ApartInv, [Next]_vars PROVE ApartInv'
  OBVIOUS
<1>0. TypeOK /\ TypeOK' /\ MessagesStay
  BY NextMessages, NextType DEF HolderInv
<1>a. DOMAIN snap = Workers \cup Reprocs /\ \A r \in Reprocs : DocOf[r] \in Docs
  BY <1>0, PipelineAssumption DEF TypeOK
<1>b. \A v \in Workers : snap[v] # {} => DocOfWorker(v) \in Docs
  BY <1>0, HeldMessage DEF ApartInv
\* Who keeps deleted rows is still in its transaction.
<1>1. ASSUME NEW v \in Workers, snap'[v] # {}, snap'[v] \subseteq snap[v]
      PROVE  /\ pc[v] = "index" /\ pc'[v] = "index"
             /\ DocOfWorker(v)' = DocOfWorker(v) /\ DocOfWorker(v) \in Docs
  <2>1. pc[v] = "index" /\ DocOfWorker(v) \in Docs
    BY <1>1, <1>b DEF ApartInv
  <2>2. pc'[v] = "index"
    <3>1. ASSUME NEW w \in Workers, Deliver(w) \/ TaskStep(w) \/ WorkerFault(w)
          PROVE  pc'[v] = "index"
      <4>1. CASE v # w
        BY <1>0, <2>1, <3>1, <4>1, OthersStay
      <4>2. CASE v = w /\ IndexCommit(w)
        BY <1>1, <1>a, <4>2 DEF IndexCommit, Remove
      <4>3. CASE v = w /\ ~IndexCommit(w)
        BY <1>0, <1>1, <1>a, <2>1, <3>1, <4>3 DEF Deliver, TaskStep, WorkerFault, Load, Claim,
           Vanished, Work, IndexExcept, MarkFailed, Retry, Finish, WorkerLost, TaskDropped, MarkLost
      <4> QED
        BY <4>1, <4>2, <4>3
    <3>2. CASE UNCHANGED <<pc, job>>
      BY <2>1, <3>2
    <3> QED
      BY <3>1, <3>2, WorkersStay DEF Next, vars, workers
  <2>3. ~Work(v)
    BY <2>1 DEF Work
  <2> QED
    BY <1>0, <2>1, <2>2, <2>3, IndexWas
<1>2. ASSUME NEW S, Removes(S) PROVE ApartInv'
  BY <1>1, <1>2, <1>a DEF Removes, Remove, ApartInv
<1>3. ASSUME NEW w \in Workers, IndexCommit(w) PROVE ApartInv'
  BY <1>0, <1>1, <1>3, <1>a, CommitChunks DEF Remove, ApartInv
<1>4. ASSUME UNCHANGED chunks PROVE ApartInv'
  <2>1. ASSUME NEW v \in Workers, snap'[v] # {}
        PROVE  pc'[v] = "index" /\ snap'[v] \subseteq chunks'[DocOfWorker(v)']
    <3>1. CASE snap'[v] \subseteq snap[v]
      BY <1>1, <1>4, <2>1, <3>1 DEF ApartInv
    <3>2. CASE Work(v) /\ pc'[v] = "index" /\ snap'[v] = chunks[DocOfWorker(v)]
      BY <1>4, <3>2 DEF Work, DocOfWorker, broker
    <3> QED
      BY <1>0, <3>1, <3>2, SnapSteps, PipelineAssumption
  <2>2. ASSUME NEW r \in Reprocs
        PROVE  snap'[r] \subseteq chunks'[DocOf[r]]
    BY <1>0, <1>4, SnapSteps, PipelineAssumption DEF ApartInv
  <2> QED
    BY <1>4, <2>1, <2>2 DEF ApartInv
<1>5. ASSUME NEW w \in Workers, Work(w) PROVE UNCHANGED chunks
  BY <1>5 DEF Work, rows
<1> QED
  BY <1>0, <1>2, <1>3, <1>4, <1>5, ChunkSteps DEF Quiet

LEMMA ApartInit == Init => ApartInv
BY DEF Init, ApartInv

-----------------------------------------------------------------------------
(* No more chunk sets than messages.  Whoever has deleted and not committed    *)
(* yet will add one set: the sets that will be left when all of them have      *)
(* committed, and they themselves, are together at most as many as the copies. *)

Indexing(d) == {w \in Workers : pc[w] = "index" /\ DocOfWorker(w) = d}

\* The chunk sets no transaction of P has deleted.
Kept(d, P) == {c \in chunks[d] : \A w \in P : c \notin snap[w]}

BoundInv ==
    \A d \in Docs :
        /\ IsFiniteSet(chunks[d])
        /\ \A P \in SUBSET Indexing(d) :
             Cardinality(Kept(d, P)) + Cardinality(P) <= Cardinality(CopiesOf(d))

\* Fewer sets, and more copies, are within the bound.
LEMMA WithinBound ==
    ASSUME NEW K, IsFiniteSet(K), NEW K2 \in SUBSET K, NEW P, IsFiniteSet(P),
           NEW C2, IsFiniteSet(C2), NEW C \in SUBSET C2,
           Cardinality(K) + Cardinality(P) <= Cardinality(C)
    PROVE  Cardinality(K2) + Cardinality(P) <= Cardinality(C2)
<1>1. IsFiniteSet(K2) /\ IsFiniteSet(C) /\ Cardinality(K2) <= Cardinality(K) /\ Cardinality(C) <= Cardinality(C2)
  BY FS_Subset
<1> QED
  BY <1>1, FS_CardinalityType

\* One of P commits: its set is added, and it leaves P.
LEMMA OneMore ==
    ASSUME NEW K, IsFiniteSet(K), NEW c, NEW K2 \in SUBSET (K \cup {c}),
           NEW Q, IsFiniteSet(Q), NEW w \in Q, NEW n \in Nat,
           Cardinality(K) + Cardinality(Q) <= n
    PROVE  Cardinality(K2) + Cardinality(Q \ {w}) <= n
<1>1. /\ IsFiniteSet(K \cup {c}) /\ Cardinality(K \cup {c}) <= Cardinality(K) + 1
      /\ Cardinality(K2) <= Cardinality(K \cup {c}) /\ IsFiniteSet(K2)
      /\ IsFiniteSet(Q \ {w}) /\ Cardinality(Q \ {w}) = Cardinality(Q) - 1
  <2>1. IsFiniteSet(K \cup {c}) /\ Cardinality(K \cup {c}) <= Cardinality(K) + 1
    <3>1. /\ IsFiniteSet(K \cup {c})
          /\ Cardinality(K \cup {c}) = IF c \in K THEN Cardinality(K) ELSE Cardinality(K) + 1
      BY FS_AddElement
    <3>2. Cardinality(K) \in Nat
      BY FS_CardinalityType
    <3> QED
      BY <3>1, <3>2
  <2>2. IsFiniteSet(Q \ {w}) /\ Cardinality(Q \ {w}) = Cardinality(Q) - 1
    BY FS_RemoveElement
  <2> QED
    BY <2>1, <2>2, FS_Subset
<1> QED
  BY <1>1, FS_CardinalityType

LEMMA CopiesGrow ==
    ASSUME TypeOK, TypeOK', MessagesStay, NEW d \in Docs
    PROVE  IsFiniteSet(CopiesOf(d)') /\ CopiesOf(d) \subseteq CopiesOf(d)'
<1>1. IsFiniteSet(CopiesOf(d)')
  <2>1. sent' \in Seq(Docs) /\ Len(sent') \in Nat /\ DOMAIN sent' = 1..Len(sent')
    BY DEF TypeOK
  <2>2. IsFiniteSet(1..Len(sent')) /\ CopiesOf(d)' \subseteq 1..Len(sent')
    BY <2>1, FS_Interval DEF CopiesOf
  <2> QED
    BY <2>2, FS_Subset
<1> QED
  BY <1>1 DEF CopiesOf, MessagesStay

LEMMA IndexingIsFinite ==
    ASSUME HolderInv, NEW d \in Docs, NEW P \in SUBSET Indexing(d)
    PROVE  /\ IsFiniteSet(P) /\ Cardinality(P) <= Cardinality(CopiesOf(d))
           /\ P \in SUBSET Workers
           /\ \A w \in P : pc[w] = "index" /\ DocOfWorker(w) = d
<1>1. P \in SUBSET Workers /\ \A w \in P : pc[w] = "index" /\ DocOfWorker(w) = d
  BY DEF Indexing
<1>2. \A w \in P : Holds(w) /\ DocOfWorker(w) = d
  BY <1>1 DEF Holds
<1> QED
  BY <1>1, <1>2, NoMoreThanCopies

LEMMA IndexingIsFiniteNext ==
    ASSUME NEW d \in Docs, NEW P
    PROVE  (HolderInv /\ P \in SUBSET Indexing(d) =>
              IsFiniteSet(P) /\ Cardinality(P) <= Cardinality(CopiesOf(d)))'
<1>1. HolderInv /\ P \in SUBSET Indexing(d) =>
        IsFiniteSet(P) /\ Cardinality(P) <= Cardinality(CopiesOf(d))
  BY IndexingIsFinite
<1> QED
  BY <1>1, PTL

LEMMA BoundNext ==
    ASSUME HolderInv, HolderInv', ApartInv, BoundInv, [Next]_vars
    PROVE  BoundInv'
<1>0. TypeOK /\ TypeOK' /\ MessagesStay
  BY NextMessages DEF HolderInv
<1>f. \A e \in Docs : IsFiniteSet(chunks'[e])
  <2>1. ASSUME NEW e \in Docs, NEW c, chunks'[e] \subseteq chunks[e] \cup {c}
        PROVE  IsFiniteSet(chunks'[e])
    BY <2>1, FS_AddElement, FS_Subset DEF BoundInv
  <2>2. ASSUME NEW w \in Workers, Work(w) PROVE UNCHANGED chunks
    BY <2>2 DEF Work, rows
  <2>3. ASSUME NEW w \in Workers, IndexCommit(w), NEW e \in Docs
        PROVE  chunks'[e] \subseteq chunks[e] \cup {Fresh}
    BY <1>0, <2>3, CommitChunks
  <2>4. \A e \in Docs : \E c : chunks'[e] \subseteq chunks[e] \cup {c}
    BY <1>0, <2>2, <2>3, ChunkSteps DEF Quiet, Removes
  <2> QED
    BY <2>1, <2>4
<1> SUFFICES ASSUME NEW d \in Docs, NEW P \in SUBSET Indexing(d)'
             PROVE  Cardinality(Kept(d, P)') + Cardinality(P) <= Cardinality(CopiesOf(d)')
  BY <1>f DEF BoundInv
<1>1. P \in SUBSET Workers /\ \A w \in P : pc'[w] = "index" /\ DocOfWorker(w)' = d
  BY DEF Indexing
<1>2. IsFiniteSet(CopiesOf(d)') /\ CopiesOf(d) \subseteq CopiesOf(d)'
  BY <1>0, CopiesGrow
<1>3. IsFiniteSet(P) /\ Cardinality(P) <= Cardinality(CopiesOf(d)')
  BY IndexingIsFiniteNext
\* P did not change, and no set was added.
<1>4. ASSUME P \in SUBSET Indexing(d), Kept(d, P)' \subseteq Kept(d, P)
      PROVE  Cardinality(Kept(d, P)') + Cardinality(P) <= Cardinality(CopiesOf(d)')
  <2>1. IsFiniteSet(Kept(d, P)) /\ Cardinality(Kept(d, P)) + Cardinality(P) <= Cardinality(CopiesOf(d))
    BY <1>4, FS_Subset DEF BoundInv, Kept
  <2> QED
    BY <1>2, <1>3, <1>4, <2>1, WithinBound
<1>5. ASSUME \A v \in P : ~Work(v) PROVE P \in SUBSET Indexing(d)
  <2>1. \A v \in P : pc[v] = "index" /\ DocOfWorker(v) = d
    BY <1>0, <1>1, <1>5, IndexWas
  <2> QED
    BY <1>1, <2>1 DEF Indexing
\* The DELETE of a transaction of P leaves nothing.
<1>6. ASSUME NEW w \in P, Work(w)
      PROVE  Cardinality(Kept(d, P)') + Cardinality(P) <= Cardinality(CopiesOf(d)')
  <2>1. snap'[w] = chunks[DocOfWorker(w)] /\ UNCHANGED <<chunks, job, sent>>
    <3>1. \E o \in Outcomes : /\ pc' = [pc EXCEPT ![w] = o]
                              /\ snap' = IF o = "index" THEN [snap EXCEPT ![w] = chunks[DocOfWorker(w)]] ELSE snap
      BY <1>6 DEF Work, Cleared
    <3>2. snap' = [snap EXCEPT ![w] = chunks[DocOfWorker(w)]]
      BY <1>0, <1>1, <3>1 DEF TypeOK
    <3> QED
      BY <1>0, <1>1, <1>6, <3>2 DEF TypeOK, Work, rows, broker
  <2>2. DocOfWorker(w) = d
    BY <1>1, <2>1 DEF DocOfWorker
  <2>3. Kept(d, P)' = {}
    BY <2>1, <2>2 DEF Kept
  <2>4. Cardinality(Kept(d, P)') = 0 /\ Cardinality(P) \in Nat
    BY <1>3, <2>3, FS_EmptySet, FS_CardinalityType
  <2> QED
    BY <1>3, <2>4
<1>7. ASSUME NEW w \in Workers, IndexCommit(w)
      PROVE  Cardinality(Kept(d, P)') + Cardinality(P) <= Cardinality(CopiesOf(d)')
  <2>0. pc[w] = "index" /\ pc'[w] = "finish" /\ UNCHANGED <<job, sent>>
    BY <1>0, <1>7 DEF IndexCommit, TypeOK, broker
  <2>1. P \in SUBSET Indexing(d) /\ w \notin P
    <3>1. \A v \in P : v # w /\ pc[v] = pc'[v]
      BY <1>0, <1>1, <1>7, <2>0, OthersStay DEF TaskStep
    <3>2. \A v \in P : pc[v] = "index" /\ DocOfWorker(v) = d
      BY <1>1, <2>0, <3>1 DEF DocOfWorker
    <3> QED
      BY <1>1, <3>1, <3>2 DEF Indexing
  <2>2. /\ \A e \in Docs : Fresh \notin chunks[e]
        /\ Remove(snap[w])
        /\ chunks'[DocOfWorker(w)] = (chunks[DocOfWorker(w)] \ snap[w]) \cup {Fresh}
        /\ \A e \in Docs \ {DocOfWorker(w)} : chunks'[e] = chunks[e] \ snap[w]
    BY <1>0, <1>7, CommitChunks
  <2>3. \A v \in P : snap'[v] = snap[v] \ snap[w]
    BY <1>0, <1>1, <2>2 DEF Remove, TypeOK
  <2>4. CASE DocOfWorker(w) # d
    <3>1. Kept(d, P)' \subseteq Kept(d, P)
      BY <2>2, <2>3, <2>4 DEF Kept
    <3> QED
      BY <1>4, <2>1, <3>1
  <2>5. CASE DocOfWorker(w) = d
    <3> DEFINE Q == P \cup {w}
    <3>1. Q \in SUBSET Indexing(d) /\ w \in Q /\ P = Q \ {w}
      BY <2>0, <2>1, <2>5 DEF Indexing
    <3>2. IsFiniteSet(Q)
      BY <3>1, IndexingIsFinite
    <3>3. IsFiniteSet(Kept(d, Q)) /\ Cardinality(Kept(d, Q)) + Cardinality(Q) <= Cardinality(CopiesOf(d))
      BY <3>1, FS_Subset DEF BoundInv, Kept
    <3>4. Kept(d, P)' \subseteq Kept(d, Q) \cup {Fresh}
      BY <2>2, <2>3, <2>5 DEF Kept
    <3>5. CopiesOf(d)' = CopiesOf(d) /\ Cardinality(CopiesOf(d)) \in Nat
      BY <1>2, <2>0, FS_CardinalityType DEF CopiesOf
    <3> HIDE DEF Q
    <3>6. Cardinality(Kept(d, P)') + Cardinality(Q \ {w}) <= Cardinality(CopiesOf(d))
      BY <3>1, <3>2, <3>3, <3>4, <3>5, OneMore
    <3> QED
      BY <3>1, <3>5, <3>6
  <2> QED
    BY <2>4, <2>5
<1>8. CASE (\A v \in P : ~Work(v)) /\ ~\E w \in Workers : IndexCommit(w)
  <2>0. P \in SUBSET Indexing(d)
    BY <1>5, <1>8
  <2>1. ASSUME NEW w \in Workers, Work(w) PROVE Kept(d, P)' \subseteq Kept(d, P)
    <3>1. UNCHANGED chunks /\ \A v \in P : snap'[v] = snap[v]
      BY <1>0, <1>1, <1>8, <2>1 DEF Work, rows, TypeOK
    <3> QED
      BY <3>1 DEF Kept
  <2>2. ASSUME NEW S, Removes(S) PROVE Kept(d, P)' \subseteq Kept(d, P)
    <3>1. \A v \in P : snap'[v] = snap[v] \ S
      BY <1>0, <1>1, <2>2 DEF Removes, Remove, TypeOK
    <3> QED
      BY <2>2, <3>1 DEF Kept, Removes
  <2>3. ASSUME Quiet PROVE Kept(d, P)' \subseteq Kept(d, P)
    BY <1>1, <2>3 DEF Kept, Quiet
  <2> QED
    BY <1>0, <1>4, <1>8, <2>0, <2>1, <2>2, <2>3, ChunkSteps
<1> QED
  BY <1>6, <1>7, <1>8

BoundInvAll == HolderInv /\ ApartInv /\ BoundInv

LEMMA BoundInvariant == Spec => []BoundInvAll
<1>1. Init => BoundInvAll
  <2> SUFFICES ASSUME Init PROVE BoundInv
    BY HolderInit, ApartInit DEF BoundInvAll
  <2>1. \A d \in Docs : chunks[d] = {} /\ Indexing(d) = {} /\ CopiesOf(d) = {}
    BY DEF Init, Indexing, CopiesOf
  <2>2. \A d \in Docs : Kept(d, {}) = {}
    BY <2>1 DEF Kept
  <2>3. IsFiniteSet({}) /\ Cardinality({}) = 0
    BY FS_EmptySet
  <2> QED
    BY <2>1, <2>2, <2>3 DEF BoundInv
<1>2. BoundInvAll /\ [Next]_vars => BoundInvAll'
  BY HolderNext, ApartNext, BoundNext DEF BoundInvAll
<1> QED
  BY <1>1, <1>2, PTL DEF Spec

\* A document never holds the chunks of more runs than messages were sent for
\* it, however the transactions of the runs overlap: neither a retry nor the
\* redelivery of a message adds chunks to those that are there.
THEOREM NoMoreSetsThanMessages == Spec => []ChunkSetsBounded
<1>1. BoundInvAll => ChunkSetsBounded
  <2> SUFFICES ASSUME BoundInvAll, NEW d \in Docs
               PROVE  Cardinality(chunks[d]) <= Cardinality(CopiesOf(d))
    BY DEF ChunkSetsBounded
  <2>1. Kept(d, {}) = chunks[d] /\ {} \in SUBSET Indexing(d)
    BY DEF Kept
  <2>2. Cardinality(chunks[d]) + Cardinality({}) <= Cardinality(CopiesOf(d))
    BY <2>1 DEF BoundInvAll, BoundInv
  <2>3. Cardinality({}) = 0 /\ Cardinality(chunks[d]) \in Nat
    BY FS_EmptySet, FS_CardinalityType DEF BoundInvAll, BoundInv
  <2> QED
    BY <2>2, <2>3
<1> QED
  BY <1>1, BoundInvariant, PTL

-----------------------------------------------------------------------------
(* A row that is gone leaves no chunks behind: inserting them needs the row.  *)

THEOREM NoOrphans == Spec => []GoneIsEmpty
<1>1. Init => GoneIsEmpty
  BY DEF Init, GoneIsEmpty
<1>2. TypeOK /\ GoneIsEmpty /\ [Next]_vars => GoneIsEmpty'
  <2> SUFFICES ASSUME TypeOK, GoneIsEmpty, [Next]_vars, NEW e \in Docs,
                      status'[e] = "gone"
               PROVE  chunks'[e] = {}
    BY DEF GoneIsEmpty
  <2> USE DEF GoneIsEmpty, TypeOK, Exists, Stored
  <2>1. ASSUME NEW d \in Docs, UploadCheck(d) \/ UploadStep(d) \/ UploadEnqueueLost(d)
        PROVE  chunks'[e] = {}
    BY <2>1 DEF UploadCheck, UploadStep, UploadCommit, UploadEnqueue,
                UploadEnqueueLost, rows
  <2>2. ASSUME NEW r \in Reprocs,
               ReprocLoad(r) \/ ReprocStep(r) \/ ReprocEnqueueLost(r)
        PROVE  chunks'[e] = {}
    BY <2>2 DEF ReprocLoad, ReprocStep, ReprocDelete, ReprocCommit, ReprocAbort,
                ReprocEnqueue, ReprocEnqueueLost, Reset, rows
  <2>3. ASSUME NEW x \in Deletes, DeleteLoad(x) \/ DeleteCommit(x)
        PROVE  chunks'[e] = {}
    BY <2>3 DEF DeleteLoad, DeleteCommit, rows
  <2>4. ASSUME NEW m \in Domains, DomainDelete(m)
        PROVE  chunks'[e] = {}
    BY <2>4 DEF DomainDelete
  <2>5. ASSUME NEW w \in Workers, Deliver(w) \/ WorkerFault(w)
        PROVE  chunks'[e] = {}
    BY <2>5 DEF Deliver, WorkerFault, WorkerLost, TaskDropped, MarkLost, rows
  <2>6. ASSUME NEW w \in Workers, TaskStep(w)
        PROVE  chunks'[e] = {}
    BY <2>6 DEF TaskStep, Load, Claim, Vanished, Work, IndexCommit, WriteStatus, HasRow,
                IndexExcept, MarkFailed, Retry, Finish, rows
  <2>7. CASE TimedOut \/ UNCHANGED vars
    BY <2>7 DEF TimedOut, vars, rows
  <2> QED
    BY <2>1, <2>2, <2>3, <2>4, <2>5, <2>6, <2>7 DEF Next
<1> QED
  BY <1>1, <1>2, TypeCorrect, PTL DEF Spec

-----------------------------------------------------------------------------
(* The chunks of a document with one message.  The worker that holds the      *)
(* message knows the status it wrote, and the transaction of _stage_index      *)
(* deletes all the chunks there are, because nobody else inserts any.          *)

LEMMA RepeatedGrows ==
    ASSUME TypeOK, MessagesStay, [Next]_vars, NEW d \in Docs, d \in Repeated
    PROVE  d \in Repeated'
<1>1. ASSUME NEW r \in Reprocs, rp[r] \in {"committed", "done"}
      PROVE  rp'[r] \in {"committed", "done"}
  <2> USE DEF TypeOK
  <2>1. ASSUME NEW q \in Reprocs, ReprocLoad(q) \/ ReprocStep(q) \/ ReprocEnqueueLost(q)
        PROVE  rp'[r] \in {"committed", "done"}
    BY <1>1, <2>1 DEF ReprocLoad, ReprocStep, ReprocDelete, ReprocCommit, ReprocAbort, ReprocEnqueue,
                      ReprocEnqueueLost
  <2>2. CASE UNCHANGED rp
    BY <1>1, <2>2
  <2>3. ASSUME NEW w \in Workers, Deliver(w) \/ TaskStep(w) \/ WorkerFault(w)
        PROVE  UNCHANGED rp
    BY <2>3 DEF Deliver, TaskStep, WorkerFault, Load, Claim, Vanished, Work, IndexCommit, IndexExcept,
                MarkFailed, Retry, Finish, WorkerLost, TaskDropped, MarkLost, api
  <2>4. ASSUME \/ \E q \in Docs : UploadCheck(q) \/ UploadStep(q) \/ UploadEnqueueLost(q)
               \/ \E x \in Deletes : DeleteLoad(x) \/ DeleteCommit(x)
               \/ \E m \in Domains : DomainDelete(m)
               \/ TimedOut \/ UNCHANGED vars
        PROVE  UNCHANGED rp
    BY <2>4 DEF UploadCheck, UploadStep, UploadCommit, UploadEnqueue, UploadEnqueueLost, DeleteLoad,
                DeleteCommit, DomainDelete, TimedOut, vars, api
  <2> QED
    BY <2>1, <2>2, <2>3, <2>4 DEF Next
<1>2. CopiesOf(d) \subseteq CopiesOf(d)'
  BY DEF CopiesOf, MessagesStay
<1> QED
  BY <1>1, <1>2 DEF Repeated, Reprocessed

\* One copy is in the hands of one worker.
LEMMA OneWorkerPerDocument ==
    ASSUME HolderInv, NEW d \in Docs, d \notin Repeated,
           NEW v \in Workers, Holds(v), DocOfWorker(v) = d,
           NEW w \in Workers, Holds(w), DocOfWorker(w) = d
    PROVE  v = w
<1>1. job[v].copy \in CopiesOf(d) /\ job[w].copy \in CopiesOf(d)
  BY HeldMessage DEF HolderInv, Holds, CopiesOf, DocOfWorker
<1>2. job[v].copy = job[w].copy
  BY <1>1 DEF Repeated
<1> QED
  BY <1>2 DEF HolderInv, SingleHolder

\* The transaction of _stage_index has deleted all the chunks there are.
ClearsAll(d) ==
    d \notin Repeated =>
        \A w \in Workers : pc[w] = "index" /\ DocOfWorker(w) = d => snap[w] = chunks[d]

LEMMA ClearsAllNext ==
    ASSUME HolderInv, ApartInv, NEW e \in Docs, ClearsAll(e), [Next]_vars
    PROVE  ClearsAll(e)'
<1>0. TypeOK /\ MessagesStay
  BY NextMessages DEF HolderInv
<1> SUFFICES ASSUME e \notin Repeated', NEW v \in Workers, pc'[v] = "index", DocOfWorker(v)' = e
             PROVE  snap'[v] = chunks'[e]
  BY DEF ClearsAll
<1>r. e \notin Repeated
  BY <1>0, RepeatedGrows
<1>1. CASE Work(v)
  <2>1. PICK o \in Outcomes : /\ pc' = [pc EXCEPT ![v] = o]
                              /\ snap' = IF o = "index" THEN [snap EXCEPT ![v] = chunks[DocOfWorker(v)]] ELSE snap
    BY <1>1 DEF Work, Cleared
  <2>2. o = "index"
    BY <1>0, <2>1 DEF TypeOK
  <2>3. snap'[v] = chunks[DocOfWorker(v)]
    BY <1>0, <2>1, <2>2 DEF TypeOK
  <2> QED
    BY <1>1, <2>3 DEF Work, rows, broker, DocOfWorker
<1>2. CASE ~Work(v)
  <2>1. pc[v] = "index" /\ DocOfWorker(v) = e
    BY <1>0, <1>2, IndexWas
  <2>2. snap[v] = chunks[e] /\ DOMAIN snap = Workers \cup Reprocs
    BY <1>0, <1>r, <2>1 DEF ClearsAll, TypeOK
  <2>3. ASSUME NEW w \in Workers, Work(w) PROVE snap'[v] = chunks'[e]
    BY <1>0, <1>2, <2>2, <2>3 DEF Work, rows, TypeOK
  <2>4. ASSUME NEW w \in Workers, IndexCommit(w) PROVE snap'[v] = chunks'[e]
    <3>1. w # v /\ pc[w] = "index"
      BY <1>0, <2>4 DEF IndexCommit, TypeOK
    <3>2. DocOfWorker(w) # e
      BY <1>r, <2>1, <3>1, OneWorkerPerDocument DEF Holds
    <3>3. chunks'[e] = chunks[e] \ snap[w]
      BY <1>0, <2>4, <3>2, CommitChunks
    <3>4. Remove(snap[w])
      BY <1>0, <2>4, CommitChunks
    <3> QED
      BY <2>2, <3>3, <3>4 DEF Remove
  <2>5. ASSUME NEW S, Removes(S) PROVE snap'[v] = chunks'[e]
    BY <2>2, <2>5 DEF Removes, Remove
  <2>6. ASSUME Quiet PROVE snap'[v] = chunks'[e]
    BY <2>2, <2>6 DEF Quiet
  <2> QED
    BY <1>0, <2>3, <2>4, <2>5, <2>6, ChunkSteps
<1> QED
  BY <1>1, <1>2

NotYetInserted(d) ==
    /\ up[d] \in {"idle", "checked"} => status[d] = "absent"
    /\ status[d] = "absent" => chunks[d] = {} /\ chunk_count[d] = 0

ContentMatches(d) ==
    Exists(d) =>
        /\ \/ chunks[d] = {} /\ chunk_count[d] = 0
           \/ (\E c \in ChunkSets : chunks[d] = {c}) /\ chunk_count[d] = 1
        /\ status[d] = "indexed" => chunk_count[d] = 1

RunKnows(w, d) ==
    Holds(w) /\ DocOfWorker(w) = d /\ Exists(d) =>
        /\ pc[w] \in {"work", "index", "reject"} => status[d] = "processing"
        /\ pc[w] \in {"except", "finish"} => status[d] # "pending"

ContentInv(d) ==
    /\ NotYetInserted(d)
    /\ ClearsAll(d)
    /\ d \notin Repeated => ContentMatches(d) /\ \A w \in Workers : RunKnows(w, d)

\* What is known of a document stays true while nothing happens to it.
RowStays(d) == status'[d] = status[d] /\ chunks'[d] = chunks[d] /\ chunk_count'[d] = chunk_count[d]

LEMMA KnowledgeStays ==
    ASSUME TypeOK, MessagesStay, NEW d \in Docs, status'[d] \in {status[d], "gone"},
           NEW w \in Workers, RunKnows(w, d),
           Holds(w)' => Holds(w) /\ pc'[w] = pc[w] /\ job'[w] = job[w]
    PROVE  RunKnows(w, d)'
<1>1. Holds(w)' => DocOfWorker(w)' = DocOfWorker(w)
  BY DocStays DEF Holds
<1> QED
  BY <1>1 DEF RunKnows, Exists, Stored

LEMMA ContentByRequests ==
    ASSUME HolderInv, ApartInv, NEW e \in Docs, ContentInv(e),
           \/ \E d \in Docs :
                UploadCheck(d) \/ UploadStep(d) \/ UploadEnqueueLost(d)
           \/ \E r \in Reprocs :
                ReprocLoad(r) \/ ReprocStep(r) \/ ReprocEnqueueLost(r)
           \/ \E x \in Deletes : DeleteLoad(x) \/ DeleteCommit(x)
           \/ \E m \in Domains : DomainDelete(m)
           \/ TimedOut
    PROVE  ContentInv(e)'
<1>0. [Next]_vars /\ TypeOK /\ MessagesStay
  BY NextMessages DEF HolderInv, Next
<1>c. ClearsAll(e)'
  BY <1>0, ClearsAllNext DEF ContentInv
<1>p. UNCHANGED <<pc, job>>
  BY WorkersStay
<1>r. e \notin Repeated' => e \notin Repeated
  BY <1>0, RepeatedGrows
<1>k. ASSUME status'[e] \in {status[e], "gone"}, e \notin Repeated
      PROVE  \A w \in Workers : RunKnows(w, e)'
  BY <1>0, <1>k, <1>p, KnowledgeStays DEF ContentInv, Holds
<1>s. ASSUME RowStays(e), up'[e] \in {"idle", "checked"} => up[e] \in {"idle", "checked"}
      PROVE  ContentInv(e)'
  BY <1>c, <1>k, <1>r, <1>s DEF RowStays, ContentInv, NotYetInserted, ContentMatches, Exists
<1>1. ASSUME NEW d \in Docs, UploadCheck(d)
      PROVE  ContentInv(e)'
  BY <1>0, <1>1, <1>s DEF UploadCheck, rows, RowStays, TypeOK
<1>2. ASSUME NEW d \in Docs, UploadCommit(d)
      PROVE  ContentInv(e)'
  <2>1. CASE d = e /\ DomainOf[d] \in domains
    <3>1. status[e] = "absent" /\ status'[e] = "pending" /\ up'[e] = "committed" /\ UNCHANGED <<chunks, chunk_count>>
      BY <1>0, <1>2, <2>1 DEF UploadCommit, TypeOK, ContentInv, NotYetInserted
    <3>2. \A w \in Workers : Holds(w) => DocOfWorker(w) # e
      BY <3>1, HeldMessage DEF HolderInv, SentExist, Holds, DocOfWorker
    <3>3. \A w \in Workers : Holds(w)' => DocOfWorker(w)' # e
      BY <1>0, <1>p, <3>2, DocStays DEF Holds
    <3> QED
      BY <1>c, <3>1, <3>3 DEF ContentInv, NotYetInserted, ContentMatches, RunKnows
  <2>2. CASE ~(d = e /\ DomainOf[d] \in domains)
    <3>1. RowStays(e)
      BY <1>0, <1>2, <2>2 DEF UploadCommit, TypeOK, RowStays
    <3> QED
      BY <1>0, <1>2, <1>s, <3>1 DEF UploadCommit, TypeOK
  <2> QED
    BY <2>1, <2>2
<1>3. ASSUME NEW d \in Docs, UploadEnqueue(d) \/ UploadEnqueueLost(d)
      PROVE  ContentInv(e)'
  BY <1>0, <1>3, <1>s DEF UploadEnqueue, UploadEnqueueLost, rows, RowStays, TypeOK
<1>4. ASSUME NEW r \in Reprocs, ReprocCommit(r)
      PROVE  ContentInv(e)'
  <2>1. CASE DocOf[r] = e
    <3>1. rp'[r] = "committed"
      BY <1>0, <1>4 DEF ReprocCommit, TypeOK
    <3>2. e \in Repeated'
      BY <2>1, <3>1 DEF Repeated, Reprocessed
    <3>3. NotYetInserted(e)'
      BY <1>0, <1>4, <2>1 DEF ReprocCommit, Reset, ContentInv, NotYetInserted, Exists, Stored, TypeOK
    <3> QED
      BY <1>c, <3>2, <3>3 DEF ContentInv
  <2>2. CASE DocOf[r] # e
    <3>1. RowStays(e) /\ UNCHANGED up
      BY <1>0, <1>4, <2>2 DEF ReprocCommit, TypeOK, RowStays
    <3> QED
      BY <1>s, <3>1
  <2> QED
    BY <2>1, <2>2
<1>5. ASSUME NEW r \in Reprocs,
             \/ ReprocLoad(r) \/ ReprocDelete(r) \/ ReprocAbort(r) \/ ReprocEnqueue(r)
             \/ ReprocEnqueueLost(r)
      PROVE  ContentInv(e)'
  BY <1>5, <1>s DEF ReprocLoad, ReprocDelete, ReprocAbort, ReprocEnqueue, ReprocEnqueueLost, rows, RowStays
<1>6. ASSUME NEW x \in Deletes, DeleteLoad(x) \/ DeleteCommit(x)
      PROVE  ContentInv(e)'
  BY <1>6, <1>s DEF DeleteLoad, DeleteCommit, rows, RowStays
<1>7. ASSUME NEW m \in Domains, DomainDelete(m)
      PROVE  ContentInv(e)'
  <2>1. UNCHANGED <<up, chunk_count>>
    BY <1>7 DEF DomainDelete, api
  <2>2. CASE e \in Cascade(m)
    <3>1. status[e] # "absent" /\ status'[e] = "gone"
      BY <1>7, <2>2 DEF DomainDelete, Cascade, Exists, Stored
    <3> QED
      BY <1>c, <1>k, <1>r, <2>1, <3>1 DEF ContentInv, NotYetInserted, ContentMatches, Exists, Stored
  <2>3. CASE e \notin Cascade(m)
    <3>1. RowStays(e)
      BY <1>7, <2>1, <2>3 DEF DomainDelete, RowStays
    <3> QED
      BY <1>s, <2>1, <3>1
  <2> QED
    BY <2>2, <2>3
<1>8. CASE TimedOut
  BY <1>8, <1>s DEF TimedOut, rows, api, RowStays
<1> QED
  BY <1>1, <1>2, <1>3, <1>4, <1>5, <1>6, <1>7, <1>8 DEF UploadStep, ReprocStep

LEMMA ContentByTask ==
    ASSUME HolderInv, ApartInv, NEW e \in Docs, ContentInv(e), NEW w \in Workers,
           Deliver(w) \/ TaskStep(w) \/ WorkerFault(w)
    PROVE  ContentInv(e)'
<1>0. [Next]_vars /\ TypeOK /\ MessagesStay
  BY NextMessages DEF HolderInv, Next
<1>c. ClearsAll(e)'
  BY <1>0, ClearsAllNext DEF ContentInv
<1>r. e \notin Repeated' => e \notin Repeated
  BY <1>0, RepeatedGrows
<1>u. UNCHANGED up
  BY DEF Deliver, TaskStep, WorkerFault, Load, Claim, Vanished, Work, IndexCommit, IndexExcept,
         MarkFailed, Retry, Finish, WorkerLost, TaskDropped, MarkLost, api
<1>o. \A v \in Workers \ {w} : pc'[v] = pc[v] /\ job'[v] = job[v]
  BY <1>0, OthersStay
<1>w. pc[w] # "idle" => DocOfWorker(w) \in Docs
  BY <1>0, HeldMessage
\* Nothing happens to the row, and w knows nothing it did not know.
<1>1. ASSUME RowStays(e), e \notin Repeated => RunKnows(w, e)'
      PROVE  ContentInv(e)'
  <2>1. e \notin Repeated => \A v \in Workers \ {w} : RunKnows(v, e)'
    BY <1>0, <1>1, <1>o, KnowledgeStays DEF ContentInv, RowStays, Holds
  <2> QED
    BY <1>c, <1>r, <1>u, <1>1, <2>1 DEF RowStays, ContentInv, NotYetInserted, ContentMatches, Exists
\* Nobody else is at work on the document of w.
<1>2. ASSUME Holds(w), DocOfWorker(w) = e, e \notin Repeated
      PROVE  \A v \in Workers \ {w} : RunKnows(v, e)'
  <2>1. \A v \in Workers \ {w} : Holds(v) => DocOfWorker(v) # e
    BY <1>2, OneWorkerPerDocument
  <2>2. \A v \in Workers \ {w} : Holds(v)' => DocOfWorker(v)' # e
    BY <1>0, <1>o, <2>1, DocStays DEF Holds
  <2> QED
    BY <2>2 DEF RunKnows
<1>3. ASSUME ~Holds(w)' \/ pc'[w] \in {"load", "claim", "retry"} PROVE RunKnows(w, e)'
  BY <1>3 DEF RunKnows
<1>4. CASE \/ Deliver(w) \/ Load(w) \/ Vanished(w) \/ Retry(w) \/ Finish(w)
           \/ WorkerLost(w) \/ TaskDropped(w)
  <2>1. ~Holds(w)' \/ pc'[w] \in {"load", "claim", "retry"}
    BY <1>0, <1>4 DEF Deliver, Load, Vanished, Retry, Finish, WorkerLost, TaskDropped, Release, Holds, TypeOK
  <2>2. RowStays(e)
    BY <1>4 DEF Deliver, Load, Vanished, Retry, Finish, WorkerLost, TaskDropped, rows, RowStays
  <2> QED
    BY <1>1, <1>3, <2>1, <2>2
<1>5. ASSUME UNCHANGED job, pc[w] # "idle" PROVE DocOfWorker(w)' = DocOfWorker(w)
  BY <1>0, <1>5, DocStays
<1>6. CASE Claim(w)
  <2>1. CASE Exists(DocOfWorker(w)) /\ DocOfWorker(w) = e
    <3>1. /\ status'[e] = "processing" /\ pc'[w] = "work" /\ Holds(w) /\ Exists(e)
          /\ UNCHANGED <<chunks, chunk_count, job>>
      BY <1>0, <1>6, <2>1 DEF Claim, TypeOK, Holds
    <3>2. RunKnows(w, e)'
      BY <3>1 DEF RunKnows
    <3>3. NotYetInserted(e)' /\ (e \notin Repeated => ContentMatches(e)')
      BY <1>u, <3>1 DEF ContentInv, NotYetInserted, ContentMatches, Exists, Stored
    <3> QED
      BY <1>c, <1>r, <1>2, <2>1, <3>1, <3>2, <3>3 DEF ContentInv
  <2>2. CASE Exists(DocOfWorker(w)) /\ DocOfWorker(w) # e
    <3>1. RowStays(e) /\ UNCHANGED job /\ pc[w] # "idle"
      BY <1>0, <1>6, <2>2 DEF Claim, TypeOK, RowStays
    <3> QED
      BY <1>1, <1>5, <2>2, <3>1 DEF RunKnows
  <2>3. CASE ~Exists(DocOfWorker(w))
    <3>1. RowStays(e) /\ ~Holds(w)'
      BY <1>0, <1>6, <2>3 DEF Claim, Release, TypeOK, RowStays, Holds
    <3> QED
      BY <1>1, <1>3, <3>1
  <2> QED
    BY <2>1, <2>2, <2>3
<1>7. CASE Work(w)
  <2>1. RowStays(e) /\ UNCHANGED job /\ Holds(w) /\ pc'[w] \in {"index", "reject", "except"}
    BY <1>0, <1>7 DEF Work, Outcomes, rows, RowStays, TypeOK, Holds
  <2>2. e \notin Repeated => RunKnows(w, e)'
    BY <1>5, <1>7, <2>1 DEF Work, ContentInv, RunKnows, RowStays, Exists, Holds
  <2> QED
    BY <1>1, <2>1, <2>2
<1>8. CASE IndexExcept(w)
  <2>1. RowStays(e) /\ UNCHANGED job /\ Holds(w) /\ pc[w] \in {"index", "finish"} /\ pc'[w] = "except"
    BY <1>0, <1>8 DEF IndexExcept, rows, RowStays, TypeOK, Holds
  <2>2. e \notin Repeated => RunKnows(w, e)'
    BY <1>5, <2>1 DEF ContentInv, RunKnows, RowStays, Exists, Holds
  <2> QED
    BY <1>1, <2>1, <2>2
<1>9. CASE MarkFailed(w) \/ MarkLost(w)
  <2>1. /\ UNCHANGED <<job, chunks, chunk_count>> /\ Holds(w)
        /\ pc[w] \in {"reject", "except"} /\ pc'[w] = AfterMark(pc[w])
    BY <1>0, <1>9 DEF MarkFailed, MarkLost, rows, TypeOK, Holds
  <2>2. CASE MarkFailed(w) /\ DocOfWorker(w) = e /\ Exists(e)
    <3>1. status'[e] = "failed"
      BY <1>0, <2>2 DEF MarkFailed, WriteStatus, TypeOK
    <3>2. RunKnows(w, e)'
      BY <2>1, <3>1 DEF RunKnows, AfterMark
    <3>3. NotYetInserted(e)' /\ (e \notin Repeated => ContentMatches(e)')
      BY <1>u, <2>1, <2>2, <3>1 DEF ContentInv, NotYetInserted, ContentMatches, Exists, Stored
    <3> QED
      BY <1>c, <1>r, <1>2, <2>1, <2>2, <3>2, <3>3 DEF ContentInv
  <2>3. CASE ~(MarkFailed(w) /\ DocOfWorker(w) = e /\ Exists(e))
    <3>1. RowStays(e)
      BY <1>0, <1>9, <2>1, <2>3 DEF MarkFailed, WriteStatus, MarkLost, rows, RowStays, TypeOK
    <3>2. e \notin Repeated => RunKnows(w, e)'
      BY <1>5, <2>1, <3>1 DEF ContentInv, RunKnows, RowStays, Exists, Holds, AfterMark
    <3> QED
      BY <1>1, <3>1, <3>2
  <2> QED
    BY <2>2, <2>3
<1>10. CASE IndexCommit(w)
  <2>1. pc[w] = "index" /\ pc'[w] = "finish" /\ Holds(w) /\ UNCHANGED job /\ Exists(DocOfWorker(w))
    BY <1>0, <1>10 DEF IndexCommit, HasRow, TypeOK, Holds
  <2>2. CASE DocOfWorker(w) # e
    <3>1. RowStays(e)
      BY <1>0, <1>10, <2>2 DEF IndexCommit, WriteStatus, TypeOK, RowStays
    <3> QED
      BY <1>1, <1>5, <2>1, <2>2, <3>1 DEF RunKnows
  <2>3. CASE DocOfWorker(w) = e
    <3>1. /\ status'[e] = "indexed" /\ chunk_count'[e] = 1 /\ Fresh \in ChunkSets
          /\ chunks'[e] = (chunks[e] \ snap[w]) \cup {Fresh}
      BY <1>0, <1>10, <2>1, <2>3 DEF IndexCommit, WriteStatus, TypeOK, Fresh, Unused
    <3>2. e \notin Repeated => chunks'[e] = {Fresh}
      BY <2>1, <2>3, <3>1 DEF ContentInv, ClearsAll
    <3>3. RunKnows(w, e)'
      BY <2>1, <3>1 DEF RunKnows
    <3>4. NotYetInserted(e)' /\ (e \notin Repeated => ContentMatches(e)')
      BY <1>u, <2>1, <2>3, <3>1, <3>2 DEF ContentInv, NotYetInserted, ContentMatches, Exists, Stored
    <3> QED
      BY <1>c, <1>r, <1>2, <2>1, <2>3, <3>3, <3>4 DEF ContentInv
  <2> QED
    BY <2>2, <2>3
<1> QED
  BY <1>4, <1>6, <1>7, <1>8, <1>9, <1>10 DEF TaskStep, WorkerFault

ContentInvAll == HolderInv /\ ApartInv /\ \A d \in Docs : ContentInv(d)

LEMMA ContentInvariant == Spec => []ContentInvAll
<1>1. Init => ContentInvAll
  <2> SUFFICES ASSUME Init, NEW d \in Docs PROVE ContentInv(d)
    BY HolderInit, ApartInit DEF ContentInvAll
  <2>1. \A w \in Workers : pc[w] = "idle"
    BY DEF Init
  <2>2. chunks[d] = {} /\ chunk_count[d] = 0 /\ status[d] = "absent"
    BY DEF Init
  <2> QED
    BY <2>1, <2>2 DEF ContentInv, NotYetInserted, ClearsAll, ContentMatches, RunKnows, Holds, Exists, Stored
<1>2. ContentInvAll /\ [Next]_vars => ContentInvAll'
  <2> SUFFICES ASSUME HolderInv, ApartInv, \A d \in Docs : ContentInv(d), [Next]_vars,
                      NEW e \in Docs
               PROVE  ContentInv(e)'
    BY HolderNext, ApartNext DEF ContentInvAll
  <2>1. CASE UNCHANGED vars
    BY <2>1 DEF ContentInv, NotYetInserted, ClearsAll, ContentMatches, RunKnows, Holds, Repeated,
                Reprocessed, CopiesOf, Exists, DocOfWorker, vars, rows, workers, broker, api
  <2>2. CASE Next
    BY <2>2, ContentByRequests, ContentByTask DEF Next
  <2> QED
    BY <2>1, <2>2
<1> QED
  BY <1>1, <1>2, PTL DEF Spec

\* However often the run of a document was repeated after exceptions, crashes
\* and redeliveries, its chunks are those of one run, as many as chunk_count
\* says, and they are there when the document is indexed: as long as there is
\* no second message for it.
THEOREM ChunksOfOneRun == Spec => []OneChunkSet
<1>1. ContentInvAll => OneChunkSet
  <2> SUFFICES ASSUME ContentInvAll, NEW d \in Docs, d \notin Repeated, Exists(d)
               PROVE  /\ Cardinality(chunks[d]) = chunk_count[d]
                      /\ status[d] = "indexed" => chunk_count[d] = 1
    BY DEF OneChunkSet
  <2>1. ContentMatches(d)
    BY DEF ContentInvAll, ContentInv
  <2>2. CASE chunks[d] = {} /\ chunk_count[d] = 0
    BY <2>1, <2>2, FS_EmptySet DEF ContentMatches
  <2>3. CASE (\E c \in ChunkSets : chunks[d] = {c}) /\ chunk_count[d] = 1
    BY <2>1, <2>3, FS_Singleton DEF ContentMatches
  <2> QED
    BY <2>1, <2>2, <2>3 DEF ContentMatches
<1> QED
  BY <1>1, ContentInvariant, PTL

-----------------------------------------------------------------------------
(* The pipeline implements DocumentLifecycle.                                 *)

\* What makes a document repeated: a new copy of its message, the commit of a
\* reprocess, and nothing else.
LEMMA RepeatedStays ==
    ASSUME UNCHANGED sent, \A d \in Docs : Reprocessed(d)' <=> Reprocessed(d)
    PROVE  UNCHANGED Repeated
BY DEF Repeated, CopiesOf

LEMMA RepeatedByCopy ==
    ASSUME TypeOK, NEW d \in Docs, NEW n \in 0..MaxRetries, NewCopy(d, n),
           \A e \in Docs : Reprocessed(e)' <=> Reprocessed(e)
    PROVE  Repeated' \in {Repeated, Repeated \cup {d}}
<1>1. \A e \in Docs \ {d} : CopiesOf(e)' = CopiesOf(e)
  BY CopyIsNew DEF CopiesOf, MessagesStay
<1>2. CopiesOf(d) \subseteq CopiesOf(d)'
  BY CopyIsNew DEF CopiesOf, MessagesStay
<1>3. \A e \in Docs \ {d} : e \in Repeated' <=> e \in Repeated
  BY <1>1 DEF Repeated
<1>4. d \in Repeated => d \in Repeated'
  BY <1>2 DEF Repeated
<1>5. Repeated \subseteq Docs /\ Repeated' \subseteq Docs
  BY DEF Repeated
<1> QED
  BY <1>3, <1>4, <1>5

\* A step that sends a message and touches no row.
LEMMA RepeatStep ==
    ASSUME TypeOK, NEW d \in Docs, NEW n \in 0..MaxRetries, NewCopy(d, n), UNCHANGED rows,
           \A e \in Docs : Reprocessed(e)' <=> Reprocessed(e)
    PROVE  [Lifecycle!Next]_(Lifecycle!vars)
<1>1. CASE UNCHANGED Repeated
  BY <1>1 DEF Lifecycle!vars, rows
<1>2. CASE Repeated' = Repeated \cup {d}
  BY <1>2 DEF Lifecycle!Next, Lifecycle!Repeat, rows
<1> QED
  BY <1>1, <1>2, RepeatedByCopy

LEMMA PublishStep ==
    ASSUME TypeOK, NEW d \in Docs, Publish(d), UNCHANGED rows,
           \A e \in Docs : Reprocessed(e)' <=> Reprocessed(e)
    PROVE  [Lifecycle!Next]_(Lifecycle!vars)
<1>1. CASE Exists(d)
  BY <1>1, RepeatStep, PipelineAssumption DEF Publish
<1>2. CASE ~Exists(d)
  BY <1>2, RepeatedStays DEF Publish, broker, Lifecycle!vars, rows
<1> QED
  BY <1>1, <1>2

LEMMA LifecycleByRequests ==
    ASSUME ContentInvAll,
           \/ \E d \in Docs :
                UploadCheck(d) \/ UploadStep(d) \/ UploadEnqueueLost(d)
           \/ \E r \in Reprocs :
                ReprocLoad(r) \/ ReprocStep(r) \/ ReprocEnqueueLost(r)
           \/ \E x \in Deletes : DeleteLoad(x) \/ DeleteCommit(x)
           \/ \E m \in Domains : DomainDelete(m)
           \/ TimedOut
    PROVE  [Lifecycle!Next]_(Lifecycle!vars)
<1> DEFINE content == [d \in Docs |-> chunks[d] # {}]
<1>0. TypeOK /\ \A d \in Docs : ContentInv(d)
  BY DEF ContentInvAll, HolderInv
<1>1. ASSUME UNCHANGED <<status, deleted, chunks, Repeated>>
      PROVE  UNCHANGED Lifecycle!vars
  BY <1>1 DEF Lifecycle!vars
<1>2. ASSUME NEW d \in Docs, UploadCheck(d) \/ UploadCommit(d) \/ UploadEnqueueLost(d)
      PROVE  [Lifecycle!Next]_(Lifecycle!vars)
  <2>1. UNCHANGED Repeated
    BY <1>2, RepeatedStays
       DEF UploadCheck, UploadCommit, UploadEnqueueLost, Reprocessed, broker
  <2>2. CASE UploadCommit(d) /\ DomainOf[d] \in domains
    <3>1. status[d] = "absent"
      BY <1>0, <2>2 DEF UploadCommit, ContentInv, NotYetInserted
    <3>2. Lifecycle!Upload(d)
      BY <2>1, <2>2, <3>1 DEF UploadCommit, Lifecycle!Upload
    <3> QED
      BY <3>2 DEF Lifecycle!Next
  <2>3. CASE ~(UploadCommit(d) /\ DomainOf[d] \in domains)
    BY <1>1, <1>2, <2>1, <2>3 DEF UploadCheck, UploadCommit, UploadEnqueueLost, rows
  <2> QED
    BY <2>2, <2>3
<1>3. ASSUME NEW d \in Docs, UploadEnqueue(d)
      PROVE  [Lifecycle!Next]_(Lifecycle!vars)
  BY <1>0, <1>3, PublishStep DEF UploadEnqueue, Reprocessed
<1>4. ASSUME NEW r \in Reprocs, ReprocCommit(r)
      PROVE  [Lifecycle!Next]_(Lifecycle!vars)
  <2>0. PICK d \in Docs : d = DocOf[r] /\ Exists(d)
    BY <1>4, PipelineAssumption DEF ReprocCommit
  <2>1. Repeated' = Repeated \cup {d}
    <3>1. CopiesOf(d)' = CopiesOf(d) /\ \A e \in Docs : CopiesOf(e)' = CopiesOf(e)
      BY <1>4 DEF ReprocCommit, broker, CopiesOf
    <3>2. Reprocessed(d)' /\ \A e \in Docs \ {d} : Reprocessed(e)' <=> Reprocessed(e)
      BY <1>0, <1>4, <2>0 DEF ReprocCommit, Reprocessed, TypeOK
    <3> QED
      BY <3>1, <3>2 DEF Repeated
  <2>2. status' \in {status, [status EXCEPT ![d] = "pending"]}
    <3>1. status' = [status EXCEPT ![d] = Reset(r, status[d])]
      BY <1>4, <2>0 DEF ReprocCommit
    <3> QED
      BY <1>0, <3>1 DEF Reset, TypeOK
  <2>3. content' \in {content, [content EXCEPT ![d] = FALSE]}
    <3>1. \A e \in Docs \ {d} : chunks'[e] = chunks[e]
      BY <1>0, <1>4, <2>0 DEF ReprocCommit, TypeOK
    <3>2. chunks'[d] \subseteq chunks[d]
      BY <1>0, <1>4, <2>0 DEF ReprocCommit, TypeOK
    <3>3. CASE chunks'[d] = {}
      BY <3>1, <3>3
    <3>4. CASE chunks'[d] # {}
      BY <3>1, <3>2, <3>4
    <3> QED
      BY <3>3, <3>4
  <2>4. Lifecycle!Reprocess(d)
    BY <1>4, <2>0, <2>1, <2>2, <2>3
       DEF Lifecycle!Reprocess, Lifecycle!Present, Exists, Stored, ReprocCommit
  <2> QED
    BY <2>4 DEF Lifecycle!Next
<1>5. ASSUME NEW r \in Reprocs,
             ReprocLoad(r) \/ ReprocDelete(r) \/ ReprocAbort(r) \/ ReprocEnqueueLost(r)
      PROVE  [Lifecycle!Next]_(Lifecycle!vars)
  <2>1. UNCHANGED sent /\ \A e \in Docs : Reprocessed(e)' <=> Reprocessed(e)
    BY <1>0, <1>5
       DEF ReprocLoad, ReprocDelete, ReprocAbort, ReprocEnqueueLost, Reprocessed, broker, TypeOK
  <2> QED
    BY <1>1, <1>5, <2>1, RepeatedStays
       DEF ReprocLoad, ReprocDelete, ReprocAbort, ReprocEnqueueLost, rows
<1>6. ASSUME NEW r \in Reprocs, ReprocEnqueue(r)
      PROVE  [Lifecycle!Next]_(Lifecycle!vars)
  <2>1. \A e \in Docs : Reprocessed(e)' <=> Reprocessed(e)
    BY <1>0, <1>6 DEF ReprocEnqueue, Reprocessed, TypeOK
  <2> QED
    BY <1>0, <1>6, <2>1, PublishStep, PipelineAssumption DEF ReprocEnqueue
<1>7. ASSUME NEW x \in Deletes, DeleteLoad(x) \/ DeleteCommit(x)
      PROVE  [Lifecycle!Next]_(Lifecycle!vars)
  <2>0. PICK d \in Docs : d = DocOf[x]
    BY PipelineAssumption
  <2>1. UNCHANGED Repeated
    BY <1>7, RepeatedStays DEF DeleteLoad, DeleteCommit, Reprocessed, broker
  <2>2. CASE DeleteCommit(x) /\ Exists(d)
    <3>1. deleted' = [deleted EXCEPT ![d] = TRUE] /\ UNCHANGED <<status, chunks>>
      BY <1>0, <2>0, <2>2 DEF DeleteCommit, TypeOK
    <3>2. Lifecycle!Delete(d)
      BY <2>1, <2>2, <3>1 DEF Lifecycle!Delete, Lifecycle!Present, Exists, Stored
    <3> QED
      BY <3>2 DEF Lifecycle!Next
  <2>3. CASE DeleteLoad(x) \/ (DeleteCommit(x) /\ ~Exists(d))
    BY <1>0, <1>1, <2>0, <2>1, <2>3 DEF DeleteLoad, DeleteCommit, rows, TypeOK
  <2> QED
    BY <1>7, <2>2, <2>3
<1>8. ASSUME NEW m \in Domains, DomainDelete(m)
      PROVE  [Lifecycle!Next]_(Lifecycle!vars)
  <2>0. UNCHANGED Repeated
    BY <1>8, RepeatedStays DEF DomainDelete, Reprocessed, broker, api
  <2>1. Cascade(m) = {d \in Docs : DomainOf[d] = m /\ Lifecycle!Present(d)}
    BY <1>0 DEF Cascade, Exists, Stored, Statuses, Lifecycle!Present, TypeOK
  <2>2. content' = [d \in Docs |-> d \notin Cascade(m) /\ content[d]]
    BY <1>8 DEF DomainDelete
  <2>3. deleted' = [d \in Docs |-> d \in Cascade(m) \/ deleted[d]]
    BY <1>0, <1>8 DEF DomainDelete, TypeOK
  <2>4. Lifecycle!Purge(m)
    BY <1>8, <2>0, <2>1, <2>2, <2>3 DEF DomainDelete, Lifecycle!Purge
  <2> QED
    BY <2>4 DEF Lifecycle!Next
<1>9. CASE TimedOut
  <2>1. PICK q \in Message : q.copy \in DOMAIN sent /\ Duplicate(q)
    BY <1>0, <1>9, TimedOutIsNew
  <2>2. NewCopy(sent[q.copy], q.retries) /\ sent[q.copy] \in Docs /\ q.retries \in 0..MaxRetries
    BY <1>0, <2>1, DuplicateIsNew
  <2> QED
    BY <1>0, <1>9, <2>2, RepeatStep DEF TimedOut, api, Reprocessed
<1> QED
  BY <1>2, <1>3, <1>4, <1>5, <1>6, <1>7, <1>8, <1>9 DEF UploadStep, ReprocStep

LEMMA LifecycleByTask ==
    ASSUME ContentInvAll, NEW w \in Workers, Deliver(w) \/ TaskStep(w) \/ WorkerFault(w)
    PROVE  [Lifecycle!Next]_(Lifecycle!vars)
<1> DEFINE content == [d \in Docs |-> chunks[d] # {}]
<1>0. TypeOK /\ HolderInv /\ \A d \in Docs : ContentInv(d)
  BY DEF ContentInvAll, HolderInv
<1>a. \A e \in Docs : Reprocessed(e)' <=> Reprocessed(e)
  BY DEF Deliver, TaskStep, WorkerFault, Load, Claim, Vanished, Work, IndexCommit, IndexExcept,
         MarkFailed, Retry, Finish, WorkerLost, TaskDropped, MarkLost, api, Reprocessed
<1>b. ASSUME UNCHANGED <<status, deleted, chunks, sent>>
      PROVE  UNCHANGED Lifecycle!vars
  BY <1>a, <1>b, RepeatedStays DEF Lifecycle!vars
<1>1. ASSUME pc[w] # "idle" PROVE \E d \in Docs : DocOfWorker(w) = d /\ (d \in Repeated \/ RunKnows(w, d))
  BY <1>0, <1>1, HeldMessage DEF ContentInv
<1>2. CASE Claim(w)
  <2>1. PICK d \in Docs : DocOfWorker(w) = d
    BY <1>1, <1>2 DEF Claim
  <2>r. UNCHANGED Repeated
    BY <1>2, <1>a, RepeatedStays DEF Claim, broker
  <2>2. CASE Exists(d) /\ status[d] # "processing"
    <3>1. Lifecycle!Start(d)
      BY <1>2, <2>1, <2>2, <2>r DEF Claim, Exists, Stored, Lifecycle!Start
    <3> QED
      BY <3>1 DEF Lifecycle!Next
  <2>3. CASE ~(Exists(d) /\ status[d] # "processing")
    BY <1>0, <1>2, <1>b, <2>1, <2>3 DEF Claim, TypeOK, broker
  <2> QED
    BY <2>2, <2>3
<1>3. CASE IndexCommit(w)
  <2>1. PICK d \in Docs : DocOfWorker(w) = d /\ (d \in Repeated \/ RunKnows(w, d))
    BY <1>1, <1>3 DEF IndexCommit
  <2>r. UNCHANGED Repeated
    BY <1>3, <1>a, RepeatedStays DEF IndexCommit, broker
  <2>2. pc[w] = "index" /\ Exists(d)
    BY <1>3, <2>1 DEF IndexCommit, HasRow
  <2>3. status[d] = "processing" \/ d \in Repeated
    BY <2>1, <2>2 DEF RunKnows, Holds
  <2>4. chunks'[d] # {} /\ \A x \in Docs \ {d} : chunks'[x] = chunks[x]
    <3>1. chunks' = [chunks EXCEPT ![d] = (chunks[d] \ snap[w]) \cup {Fresh}]
      BY <1>3, <2>1 DEF IndexCommit
    <3> QED
      BY <1>0, <3>1 DEF TypeOK
  <2>5. content' = [content EXCEPT ![d] = TRUE]
    BY <2>4
  <2>6. status' = [status EXCEPT ![d] = "indexed"] /\ UNCHANGED deleted
    BY <1>3, <2>1, <2>2 DEF IndexCommit, WriteStatus
  <2>7. Lifecycle!Publish(d)
    BY <2>2, <2>3, <2>5, <2>6, <2>r
       DEF Lifecycle!Publish, Lifecycle!Present, Exists, Stored
  <2> QED
    BY <2>7 DEF Lifecycle!Next
<1>4. CASE MarkFailed(w)
  <2>1. PICK d \in Docs : DocOfWorker(w) = d /\ (d \in Repeated \/ RunKnows(w, d))
    BY <1>1, <1>4 DEF MarkFailed
  <2>r. UNCHANGED Repeated
    BY <1>4, <1>a, RepeatedStays DEF MarkFailed, broker
  <2>2. CASE Exists(d) /\ status[d] # "failed"
    <3>1. status[d] \in {"processing", "indexed"} \/ d \in Repeated
      BY <1>4, <2>1, <2>2 DEF MarkFailed, RunKnows, Holds, Exists, Stored
    <3>2. Lifecycle!Fail(d)
      BY <1>4, <2>1, <2>2, <2>r, <3>1
         DEF MarkFailed, WriteStatus, Lifecycle!Fail, Lifecycle!Present, Exists, Stored
    <3> QED
      BY <3>2 DEF Lifecycle!Next
  <2>3. CASE ~(Exists(d) /\ status[d] # "failed")
    BY <1>0, <1>4, <1>b, <2>1, <2>3 DEF MarkFailed, WriteStatus, TypeOK, broker
  <2> QED
    BY <2>2, <2>3
<1>5. CASE \/ Deliver(w) \/ Load(w) \/ Vanished(w) \/ Work(w) \/ IndexExcept(w) \/ Finish(w)
           \/ TaskDropped(w) \/ MarkLost(w)
  BY <1>5, <1>b
     DEF Deliver, Load, Vanished, Work, IndexExcept, Finish, TaskDropped, MarkLost, rows, broker
<1>6. CASE Retry(w)
  BY <1>6, <1>b DEF Retry, rows, broker
<1>7. CASE WorkerLost(w)
  <2>1. CASE pc[w] = "retried"
    <3>1. NewCopy(sent[job[w].copy], job[w].retries) /\ sent[job[w].copy] \in Docs
          /\ job[w].retries \in 0..MaxRetries
      BY <1>0, <1>7, <2>1, HeldMessage, DuplicateIsNew DEF WorkerLost
    <3> QED
      BY <1>0, <1>7, <1>a, <3>1, RepeatStep DEF WorkerLost
  <2>2. CASE pc[w] # "retried"
    BY <1>7, <1>b, <2>2 DEF WorkerLost, Redeliver, rows
  <2> QED
    BY <2>1, <2>2
<1> QED
  BY <1>2, <1>3, <1>4, <1>5, <1>6, <1>7 DEF TaskStep, WorkerFault

\* An owner sees what DocumentLifecycle says: content appears at once and
\* complete with the status "indexed", goes away only with its domain or by a
\* reprocess, and a document without a second message comes by every status
\* from the one before it.
THEOREM ImplementsLifecycle == Spec => LifecycleSpec
<1>1. Init => Lifecycle!Init
  <2> SUFFICES ASSUME Init PROVE Lifecycle!Init
    OBVIOUS
  <2>1. Repeated = {}
    BY DEF Init, Repeated, Reprocessed, CopiesOf
  <2> QED
    BY <2>1 DEF Init, Lifecycle!Init
<1>2. ContentInvAll /\ [Next]_vars => [Lifecycle!Next]_(Lifecycle!vars)
  <2> SUFFICES ASSUME ContentInvAll, [Next]_vars PROVE [Lifecycle!Next]_(Lifecycle!vars)
    OBVIOUS
  <2>1. CASE UNCHANGED vars
    BY <2>1, RepeatedStays DEF vars, rows, broker, api, Reprocessed, Lifecycle!vars
  <2>2. CASE Next
    BY <2>2, LifecycleByRequests, LifecycleByTask DEF Next
  <2> QED
    BY <2>1, <2>2
<1> QED
  BY <1>1, <1>2, ContentInvariant, PTL DEF Spec, LifecycleSpec, Lifecycle!Spec

-----------------------------------------------------------------------------
(* Everything comes to an end *)

\* As many of each as you like, but finitely many.
FiniteSystem ==
    /\ IsFiniteSet(Docs) /\ IsFiniteSet(Reprocs) /\ IsFiniteSet(Deletes)
    /\ IsFiniteSet(Domains) /\ IsFiniteSet(Workers)

\* The steps a message in the queue can cost: nine for its delivery and the run
\* up to the acknowledgement, and nine for each retry it has left.
Cost(q) == 9 * (MaxRetries - q.retries) + 9

\* What a new message costs.
Whole == 9 * MaxRetries + 9

\* The steps of the run of a worker, where it is.
TaskLeft == [load |-> 8, claim |-> 7, work |-> 6, index |-> 5, reject |-> 5,
             finish |-> 4, except |-> 3, retry |-> 2]

\* The steps of a worker and of the retries of its message.
WorkLeft(p, q) ==
    IF p = "idle" THEN 0
    ELSE IF p = "retried" THEN 1
    ELSE TaskLeft[p] + 9 * (MaxRetries - q.retries)

\* The steps a request has left, its message included.
UploadLeft == [idle |-> Whole + 3, checked |-> Whole + 2, committed |-> Whole + 1, done |-> 0]
ReprocLeft == [idle |-> Whole + 4, loaded |-> Whole + 3, cleared |-> Whole + 2,
               committed |-> Whole + 1, done |-> 0, aborted |-> 0]
DeleteLeft == [idle |-> 2, loaded |-> 1, done |-> 0]

UploadWeight == [d \in Docs |-> UploadLeft[up[d]]]
ReprocWeight == [r \in Reprocs |-> ReprocLeft[rp[r]]]
DeleteWeight == [x \in Deletes |-> DeleteLeft[dl[x]]]
WorkWeight   == [w \in Workers |-> WorkLeft(pc[w], job[w])]
QueueWeight  == [q \in Message |-> Cost(q)]

Uploading    == SumFunctionOnSet(UploadWeight, Docs)
Reprocessing == SumFunctionOnSet(ReprocWeight, Reprocs)
Deleting     == SumFunctionOnSet(DeleteWeight, Deletes)
Working      == SumFunctionOnSet(WorkWeight, Workers)
Waiting      == SumFunctionOnSet(QueueWeight, queued)

\* A failure that has not happened yet may put one message into the queue again.
FaultsLeft == (Whole + 1) * (MaxFaults - faults)

\* What is left of everything.
Fuel == Uploading + Reprocessing + Deleting + Cardinality(domains)
            + Working + Waiting + FaultsLeft

LEMMA Ranks ==
    /\ Whole \in Nat
    /\ \A s \in {"idle", "checked", "committed", "done"} : UploadLeft[s] \in Nat
    /\ \A s \in {"idle", "loaded", "cleared", "committed", "done", "aborted"} : ReprocLeft[s] \in Nat
    /\ \A s \in {"idle", "loaded", "done"} : DeleteLeft[s] \in Nat
BY PipelineAssumption DEF UploadLeft, ReprocLeft, DeleteLeft, Whole

LEMMA MessageRanks ==
    ASSUME NEW q \in Message
    PROVE  /\ MaxRetries - q.retries \in Nat
           /\ Cost(q) \in Nat /\ Cost(q) <= Whole
           /\ \A p \in PCs : WorkLeft(p, q) \in Nat
<1>1. q.retries \in 0..MaxRetries /\ MaxRetries \in Nat
  BY PipelineAssumption DEF Message
<1>2. MaxRetries - q.retries \in Nat /\ Cost(q) \in Nat /\ Cost(q) <= Whole
  BY <1>1 DEF Cost, Whole
<1>3. ASSUME NEW p \in PCs PROVE WorkLeft(p, q) \in Nat
  <2>1. p \notin {"idle", "retried"} => TaskLeft[p] \in Nat
    BY DEF PCs, TaskLeft
  <2> QED
    BY <1>2, <2>1 DEF WorkLeft
<1> QED
  BY <1>2, <1>3

LEMMA WorkLeftInNat ==
    ASSUME TypeOK, NEW w \in Workers
    PROVE  WorkLeft(pc[w], job[w]) \in Nat
<1>1. CASE pc[w] = "idle"
  BY <1>1 DEF WorkLeft
<1>2. CASE pc[w] # "idle"
  BY <1>2, MessageRanks DEF TypeOK
<1> QED
  BY <1>1, <1>2

\* Each part is a natural number.
PartsOK ==
    /\ Uploading \in Nat /\ Reprocessing \in Nat /\ Deleting \in Nat
    /\ Cardinality(domains) \in Nat
    /\ Working \in Nat /\ Waiting \in Nat /\ FaultsLeft \in Nat

Weights ==
    /\ UploadWeight \in [Docs -> Nat] /\ ReprocWeight \in [Reprocs -> Nat]
    /\ DeleteWeight \in [Deletes -> Nat] /\ WorkWeight \in [Workers -> Nat]

LEMMA WeightsInNat == TypeOK => Weights
<1> SUFFICES ASSUME TypeOK PROVE Weights
  OBVIOUS
<1>1. UploadWeight \in [Docs -> Nat]
  BY Ranks DEF TypeOK, UploadWeight
<1>2. ReprocWeight \in [Reprocs -> Nat]
  BY Ranks DEF TypeOK, ReprocWeight
<1>3. DeleteWeight \in [Deletes -> Nat]
  BY Ranks DEF TypeOK, DeleteWeight
<1>4. WorkWeight \in [Workers -> Nat]
  BY WorkLeftInNat DEF WorkWeight
<1> QED
  BY <1>1, <1>2, <1>3, <1>4 DEF Weights

LEMMA SumInNat ==
    ASSUME NEW S, IsFiniteSet(S), NEW f, \A x \in S : f[x] \in Nat
    PROVE  SumFunctionOnSet(f, S) \in Nat
BY SumStep DEF Summable

QueueOK == TypeOK /\ IsFiniteSet(queued)

LEMMA Parts == FiniteSystem /\ QueueOK => PartsOK
<1> SUFFICES ASSUME FiniteSystem, QueueOK PROVE PartsOK
  OBVIOUS
<1>0. TypeOK /\ Weights /\ IsFiniteSet(queued)
  BY WeightsInNat DEF QueueOK
<1>1. Uploading \in Nat /\ Reprocessing \in Nat /\ Deleting \in Nat /\ Working \in Nat
  BY <1>0, SumInNat DEF Weights, FiniteSystem, Uploading, Reprocessing, Deleting, Working
<1>2. Waiting \in Nat
  <2>1. \A q \in queued : QueueWeight[q] \in Nat
    BY <1>0, MessageRanks DEF TypeOK, QueueWeight
  <2> QED
    BY <1>0, <2>1, SumInNat DEF Waiting
<1>3. Cardinality(domains) \in Nat
  BY <1>0, FS_Subset, FS_CardinalityType DEF FiniteSystem, TypeOK
<1>4. FaultsLeft \in Nat
  <2>1. MaxFaults - faults \in Nat
    BY <1>0, PipelineAssumption DEF TypeOK
  <2>2. ASSUME NEW n \in Nat, NEW k \in Nat PROVE (n + 1) * k \in Nat
    OBVIOUS
  <2> QED
    BY <2>1, <2>2, Ranks DEF FaultsLeft
<1> QED
  BY <1>1, <1>2, <1>3, <1>4 DEF PartsOK

LEMMA WeightsNext == TypeOK' => Weights'
<1>1. TypeOK => Weights
  BY WeightsInNat
<1> QED
  BY <1>1, PTL

LEMMA PartsNext ==
    ASSUME FiniteSystem
    PROVE  QueueOK' => PartsOK'
<1>1. QueueOK => PartsOK
  BY Parts
<1> QED
  BY <1>1, PTL

\* A sum changes as the one thing in it that changes.
LEMMA SumMoves ==
    ASSUME NEW S, IsFiniteSet(S), NEW f \in [S -> Nat], NEW g \in [S -> Nat], NEW x \in S,
           \A y \in S \ {x} : g[y] = f[y], NEW n \in Nat, NEW m \in Nat, g[x] + n <= f[x] + m
    PROVE  SumFunctionOnSet(g, S) + n <= SumFunctionOnSet(f, S) + m
<1>1. Summable(f, S) /\ Summable(g, S)
  BY DEF Summable
<1>2. SumFunctionOnSet(g, S) + f[x] = SumFunctionOnSet(f, S) + g[x]
  BY <1>1, SumChange
<1>3. SumFunctionOnSet(g, S) \in Nat /\ SumFunctionOnSet(f, S) \in Nat
  BY <1>1, SumStep
<1>4. f[x] \in Nat /\ g[x] \in Nat
  OBVIOUS
<1> QED
  BY <1>2, <1>3, <1>4

LEMMA UploadMoves ==
    ASSUME FiniteSystem, TypeOK, TypeOK', NEW d \in Docs, \A e \in Docs \ {d} : up'[e] = up[e],
           NEW n \in Nat, UploadLeft[up'[d]] + n <= UploadLeft[up[d]]
    PROVE  Uploading' + n <= Uploading
<1>1. UploadWeight \in [Docs -> Nat] /\ UploadWeight' \in [Docs -> Nat] /\ IsFiniteSet(Docs)
  BY WeightsInNat, WeightsNext DEF Weights, FiniteSystem
<1>2. \A e \in Docs \ {d} : UploadWeight'[e] = UploadWeight[e]
  BY DEF UploadWeight
<1>3. UploadWeight'[d] + n <= UploadWeight[d] + 0
  BY <1>1 DEF UploadWeight
<1>4. SumFunctionOnSet(UploadWeight', Docs) + n <= SumFunctionOnSet(UploadWeight, Docs) + 0
  BY <1>1, <1>2, <1>3, SumMoves
<1>5. SumFunctionOnSet(UploadWeight, Docs) \in Nat
  BY <1>1, SumInNat
<1> QED
  BY <1>4, <1>5 DEF Uploading

LEMMA ReprocMoves ==
    ASSUME FiniteSystem, TypeOK, TypeOK', NEW r \in Reprocs, \A e \in Reprocs \ {r} : rp'[e] = rp[e],
           NEW n \in Nat, ReprocLeft[rp'[r]] + n <= ReprocLeft[rp[r]]
    PROVE  Reprocessing' + n <= Reprocessing
<1>1. ReprocWeight \in [Reprocs -> Nat] /\ ReprocWeight' \in [Reprocs -> Nat] /\ IsFiniteSet(Reprocs)
  BY WeightsInNat, WeightsNext DEF Weights, FiniteSystem
<1>2. \A e \in Reprocs \ {r} : ReprocWeight'[e] = ReprocWeight[e]
  BY DEF ReprocWeight
<1>3. ReprocWeight'[r] + n <= ReprocWeight[r] + 0
  BY <1>1 DEF ReprocWeight
<1>4. SumFunctionOnSet(ReprocWeight', Reprocs) + n <= SumFunctionOnSet(ReprocWeight, Reprocs) + 0
  BY <1>1, <1>2, <1>3, SumMoves
<1>5. SumFunctionOnSet(ReprocWeight, Reprocs) \in Nat
  BY <1>1, SumInNat
<1> QED
  BY <1>4, <1>5 DEF Reprocessing

LEMMA DeleteMoves ==
    ASSUME FiniteSystem, TypeOK, TypeOK', NEW x \in Deletes, \A e \in Deletes \ {x} : dl'[e] = dl[e],
           NEW n \in Nat, DeleteLeft[dl'[x]] + n <= DeleteLeft[dl[x]]
    PROVE  Deleting' + n <= Deleting
<1>1. DeleteWeight \in [Deletes -> Nat] /\ DeleteWeight' \in [Deletes -> Nat] /\ IsFiniteSet(Deletes)
  BY WeightsInNat, WeightsNext DEF Weights, FiniteSystem
<1>2. \A e \in Deletes \ {x} : DeleteWeight'[e] = DeleteWeight[e]
  BY DEF DeleteWeight
<1>3. DeleteWeight'[x] + n <= DeleteWeight[x] + 0
  BY <1>1 DEF DeleteWeight
<1>4. SumFunctionOnSet(DeleteWeight', Deletes) + n <= SumFunctionOnSet(DeleteWeight, Deletes) + 0
  BY <1>1, <1>2, <1>3, SumMoves
<1>5. SumFunctionOnSet(DeleteWeight, Deletes) \in Nat
  BY <1>1, SumInNat
<1> QED
  BY <1>4, <1>5 DEF Deleting

\* Workers move one at a time.
LEMMA WorkMoves ==
    ASSUME FiniteSystem, TypeOK, TypeOK', NEW w \in Workers,
           \A v \in Workers \ {w} : pc'[v] = pc[v] /\ job'[v] = job[v],
           NEW n \in Nat, NEW m \in Nat,
           WorkLeft(pc'[w], job'[w]) + n <= WorkLeft(pc[w], job[w]) + m
    PROVE  Working' + n <= Working + m
<1>1. WorkWeight \in [Workers -> Nat] /\ WorkWeight' \in [Workers -> Nat] /\ IsFiniteSet(Workers)
  BY WeightsInNat, WeightsNext DEF Weights, FiniteSystem
<1>2. \A v \in Workers \ {w} : WorkWeight'[v] = WorkWeight[v]
  BY DEF WorkWeight
<1>3. WorkWeight'[w] + n <= WorkWeight[w] + m
  BY DEF WorkWeight
<1>4. SumFunctionOnSet(WorkWeight', Workers) + n <= SumFunctionOnSet(WorkWeight, Workers) + m
  BY <1>1, <1>2, <1>3, SumMoves
<1> QED
  BY <1>4 DEF Working

LEMMA QueueAdds ==
    ASSUME QueueOK, NEW q \in Message, queued' = queued \cup {q}
    PROVE  Waiting \in Nat /\ Waiting' \in Nat /\ Waiting' <= Waiting + Cost(q)
<1>1. QueueWeight[q] = Cost(q) /\ Cost(q) \in Nat /\ Summable(QueueWeight, queued)
  BY MessageRanks DEF QueueOK, TypeOK, QueueWeight, Summable
<1>2. Waiting \in Nat
  BY <1>1, SumStep DEF Waiting
<1>3. CASE q \in queued
  <2>1. queued' = queued
    BY <1>3
  <2>2. Waiting' = Waiting
    BY <2>1 DEF Waiting, QueueWeight
  <2> QED
    BY <1>1, <1>2, <2>2
<1>4. CASE q \notin queued
  <2>1. SumFunctionOnSet(QueueWeight, queued \cup {q}) = SumFunctionOnSet(QueueWeight, queued) + QueueWeight[q]
    BY <1>1, <1>4, SumAdd
  <2>2. QueueWeight' = QueueWeight
    BY DEF QueueWeight
  <2>3. Waiting' = Waiting + Cost(q)
    BY <1>1, <2>1, <2>2 DEF Waiting
  <2> QED
    BY <1>1, <1>2, <2>3
<1> QED
  BY <1>3, <1>4

LEMMA QueueTakes ==
    ASSUME QueueOK, NEW q \in queued, queued' = queued \ {q}
    PROVE  Waiting \in Nat /\ Waiting' \in Nat /\ Waiting' + Cost(q) = Waiting
<1>1. QueueWeight[q] = Cost(q) /\ Cost(q) \in Nat /\ Summable(QueueWeight, queued)
  BY MessageRanks DEF QueueOK, TypeOK, QueueWeight, Summable
<1>2. SumFunctionOnSet(QueueWeight, queued) = QueueWeight[q] + SumFunctionOnSet(QueueWeight, queued \ {q})
  BY <1>1, SumRemove
<1>3. Summable(QueueWeight, queued \ {q})
  BY <1>1, FS_RemoveElement DEF Summable
<1>4. SumFunctionOnSet(QueueWeight, queued \ {q}) \in Nat
  BY <1>3, SumStep
<1>5. QueueWeight' = QueueWeight
  BY DEF QueueWeight
<1>6. Waiting' = SumFunctionOnSet(QueueWeight, queued \ {q})
  BY <1>5 DEF Waiting
<1> QED
  BY <1>1, <1>2, <1>4, <1>6 DEF Waiting

\* A new copy costs no more than a whole message.
LEMMA CopyWaits ==
    ASSUME QueueOK, NEW d \in Docs, NEW n \in 0..MaxRetries, NewCopy(d, n)
    PROVE  Waiting' \in Nat /\ Waiting' <= Waiting + Whole
<1>1. PICK q \in Message : queued' = queued \cup {q}
  BY CopyIsNew DEF QueueOK
<1>2. Cost(q) \in Nat /\ Cost(q) <= Whole /\ Whole \in Nat
  BY MessageRanks, Ranks
<1>3. Waiting \in Nat /\ Waiting' \in Nat /\ Waiting' <= Waiting + Cost(q)
  BY <1>1, QueueAdds
<1> QED
  BY <1>2, <1>3

LEMMA PublishWaits ==
    ASSUME QueueOK, NEW d \in Docs, Publish(d), Waiting \in Nat
    PROVE  Waiting' \in Nat /\ Waiting' <= Waiting + Whole
<1>1. CASE Exists(d)
  BY <1>1, CopyWaits, PipelineAssumption DEF Publish
<1>2. CASE ~Exists(d)
  <2>1. Waiting' = Waiting
    BY <1>2 DEF Publish, broker, Waiting, QueueWeight
  <2> QED
    BY <2>1, Ranks
<1> QED
  BY <1>1, <1>2

LEMMA FaultSpent ==
    ASSUME TypeOK, Fault
    PROVE  FaultsLeft' + Whole + 1 = FaultsLeft
<1> DEFINE k == MaxFaults - (faults + 1)
<1>1. k \in Nat /\ MaxFaults - faults = k + 1 /\ Whole \in Nat
  BY PipelineAssumption, Ranks DEF TypeOK, Fault
<1>2. ASSUME NEW a \in Nat, NEW b \in Nat PROVE (a + 1) * b + a + 1 = (a + 1) * (b + 1)
  OBVIOUS
<1>3. FaultsLeft' = (Whole + 1) * k
  BY DEF FaultsLeft, Fault, Whole
<1>4. FaultsLeft = (Whole + 1) * (k + 1)
  BY <1>1 DEF FaultsLeft
<1> HIDE DEF k
<1> QED
  BY <1>1, <1>2, <1>3, <1>4

LEMMA FaultsOnlyFall ==
    ASSUME TypeOK, PartsOK, PartsOK', UNCHANGED faults \/ Fault
    PROVE  FaultsLeft' <= FaultsLeft
<1>1. FaultsLeft \in Nat /\ FaultsLeft' \in Nat /\ Whole \in Nat
  BY Ranks DEF PartsOK
<1>2. CASE UNCHANGED faults
  BY <1>1, <1>2 DEF FaultsLeft
<1>3. CASE Fault
  <2>1. ASSUME NEW f \in Nat, f + Whole + 1 = FaultsLeft PROVE f <= FaultsLeft
    BY <1>1, <2>1
  <2> QED
    BY <1>1, <1>3, <2>1, FaultSpent
<1> QED
  BY <1>2, <1>3

\* A part of variables that stay is the same.
LEMMA Still ==
    /\ UNCHANGED up => Uploading' = Uploading
    /\ UNCHANGED rp => Reprocessing' = Reprocessing
    /\ UNCHANGED dl => Deleting' = Deleting
    /\ UNCHANGED domains => Cardinality(domains)' = Cardinality(domains)
    /\ UNCHANGED <<pc, job>> => Working' = Working
    /\ UNCHANGED queued => Waiting' = Waiting
    /\ UNCHANGED faults => FaultsLeft' = FaultsLeft
BY DEF Uploading, UploadWeight, Reprocessing, ReprocWeight, Deleting, DeleteWeight,
       Working, WorkWeight, Waiting, QueueWeight, FaultsLeft

\* The ways to come closer to the end.  A request does a step, or one that sends
\* a message, or a failure happens to it; or the tasks do a step.
RequestsLeft == Uploading + Reprocessing + Deleting + Cardinality(domains)
TasksLeft    == Working + Waiting + FaultsLeft

LEMMA RequestsFall ==
    ASSUME PartsOK, PartsOK', NEW n \in Nat,
           \/ /\ Uploading' + n <= Uploading /\ Reprocessing' = Reprocessing
              /\ Deleting' = Deleting /\ Cardinality(domains)' = Cardinality(domains)
           \/ /\ Reprocessing' + n <= Reprocessing /\ Uploading' = Uploading
              /\ Deleting' = Deleting /\ Cardinality(domains)' = Cardinality(domains)
           \/ /\ Deleting' + n <= Deleting /\ Uploading' = Uploading
              /\ Reprocessing' = Reprocessing /\ Cardinality(domains)' = Cardinality(domains)
           \/ /\ Cardinality(domains)' + n <= Cardinality(domains) /\ Uploading' = Uploading
              /\ Reprocessing' = Reprocessing /\ Deleting' = Deleting
    PROVE  RequestsLeft' + n <= RequestsLeft
<1>1. ASSUME NEW u \in Nat, NEW r \in Nat, NEW x \in Nat, NEW m \in Nat,
             \/ u + n <= Uploading /\ r = Reprocessing /\ x = Deleting /\ m = Cardinality(domains)
             \/ r + n <= Reprocessing /\ u = Uploading /\ x = Deleting /\ m = Cardinality(domains)
             \/ x + n <= Deleting /\ u = Uploading /\ r = Reprocessing /\ m = Cardinality(domains)
             \/ m + n <= Cardinality(domains) /\ u = Uploading /\ r = Reprocessing /\ x = Deleting
      PROVE  (u + r + x + m) + n <= RequestsLeft
  BY <1>1 DEF PartsOK, RequestsLeft
<1> QED
  BY <1>1 DEF PartsOK, RequestsLeft

\* Requests leave the workers alone.
LEMMA TasksWait ==
    ASSUME PartsOK, PartsOK', NEW n \in Nat,
           Working' = Working, Waiting' <= Waiting + n, FaultsLeft' <= FaultsLeft
    PROVE  TasksLeft' <= TasksLeft + n
<1>1. ASSUME NEW q \in Nat, NEW f \in Nat, q <= Waiting + n, f <= FaultsLeft
      PROVE  Working + q + f <= TasksLeft + n
  BY <1>1 DEF PartsOK, TasksLeft
<1> QED
  BY <1>1 DEF PartsOK, TasksLeft

\* A step of a run, a delivery, a retry, or a failure.
LEMMA TasksFall ==
    ASSUME PartsOK, PartsOK', NEW n \in Nat,
           \/ Working' + 1 <= Working /\ Waiting' = Waiting /\ FaultsLeft' <= FaultsLeft
           \/ Working' <= Working + n /\ Waiting' + (n + 1) = Waiting /\ FaultsLeft' = FaultsLeft
           \/ Working' + (n + 1) <= Working /\ Waiting' <= Waiting + n /\ FaultsLeft' = FaultsLeft
           \/ Working' <= Working /\ Waiting' <= Waiting + Whole /\ FaultsLeft' + Whole + 1 = FaultsLeft
    PROVE  TasksLeft' + 1 <= TasksLeft
<1>1. ASSUME NEW k \in Nat, NEW q \in Nat, NEW f \in Nat,
             \/ k + 1 <= Working /\ q = Waiting /\ f <= FaultsLeft
             \/ k <= Working + n /\ q + (n + 1) = Waiting /\ f = FaultsLeft
             \/ k + (n + 1) <= Working /\ q <= Waiting + n /\ f = FaultsLeft
             \/ k <= Working /\ q <= Waiting + Whole /\ f + Whole + 1 = FaultsLeft
      PROVE  (k + q + f) + 1 <= TasksLeft
  BY <1>1, Ranks DEF PartsOK, TasksLeft
<1> QED
  BY <1>1 DEF PartsOK, TasksLeft

LEMMA PartsSum ==
    PartsOK => RequestsLeft \in Nat /\ TasksLeft \in Nat /\ Fuel = RequestsLeft + TasksLeft
BY DEF PartsOK, RequestsLeft, TasksLeft, Fuel

LEMMA PartsSumNext ==
    (PartsOK => RequestsLeft \in Nat /\ TasksLeft \in Nat /\ Fuel = RequestsLeft + TasksLeft)'
BY PartsSum, PTL

LEMMA Burns ==
    ASSUME PartsOK, PartsOK',
           \/ RequestsLeft' + 1 <= RequestsLeft /\ TasksLeft' <= TasksLeft + 0
           \/ RequestsLeft' + (Whole + 1) <= RequestsLeft /\ TasksLeft' <= TasksLeft + Whole
           \/ RequestsLeft' = RequestsLeft /\ TasksLeft' + 1 <= TasksLeft
    PROVE  Fuel' < Fuel
<1>1. RequestsLeft \in Nat /\ TasksLeft \in Nat /\ Fuel = RequestsLeft + TasksLeft
  BY PartsSum
<1>2. RequestsLeft' \in Nat /\ TasksLeft' \in Nat /\ Fuel' = RequestsLeft' + TasksLeft'
  BY PartsSumNext
<1>3. ASSUME NEW r \in Nat, NEW t \in Nat,
             \/ r + 1 <= RequestsLeft /\ t <= TasksLeft + 0
             \/ r + (Whole + 1) <= RequestsLeft /\ t <= TasksLeft + Whole
             \/ r = RequestsLeft /\ t + 1 <= TasksLeft
      PROVE  r + t < RequestsLeft + TasksLeft
  BY <1>1, <1>3, Ranks
<1> QED
  BY <1>1, <1>2, <1>3

LEMMA UploadBurns ==
    ASSUME FiniteSystem, QueueOK, QueueOK', NEW d \in Docs,
           UploadCheck(d) \/ UploadStep(d) \/ UploadEnqueueLost(d)
    PROVE  Fuel' < Fuel
<1>1. PartsOK /\ PartsOK' /\ TypeOK /\ TypeOK'
  BY Parts, PartsNext DEF QueueOK
<1>s. /\ Reprocessing' = Reprocessing /\ Deleting' = Deleting /\ Working' = Working
      /\ Cardinality(domains)' = Cardinality(domains)
  BY Still DEF UploadCheck, UploadStep, UploadCommit, UploadEnqueue, UploadEnqueueLost,
               rows, broker, workers
<1>r. ASSUME NEW n \in Nat, Uploading' + n <= Uploading
      PROVE  RequestsLeft' + n <= RequestsLeft
  BY <1>1, <1>s, <1>r, RequestsFall
<1>o. \A e \in Docs \ {d} : up'[e] = up[e]
  BY <1>1 DEF UploadCheck, UploadStep, UploadCommit, UploadEnqueue, UploadEnqueueLost, TypeOK
<1>2. CASE UploadEnqueue(d)
  <2>1. up[d] = "committed" /\ up'[d] = "done" /\ UNCHANGED faults
    BY <1>1, <1>2 DEF UploadEnqueue, TypeOK
  <2>2. RequestsLeft' + (Whole + 1) <= RequestsLeft
    <3>1. UploadLeft[up'[d]] + (Whole + 1) <= UploadLeft[up[d]] /\ Whole + 1 \in Nat
      BY <2>1, Ranks DEF UploadLeft
    <3> QED
      BY <1>1, <1>o, <1>r, <3>1, UploadMoves
  <2>3. Waiting' <= Waiting + Whole
    BY <1>1, <1>2, PublishWaits DEF UploadEnqueue, PartsOK
  <2>4. TasksLeft' <= TasksLeft + Whole
    <3>1. FaultsLeft' <= FaultsLeft
      BY <1>1, <2>1, FaultsOnlyFall
    <3> QED
      BY <1>1, <1>s, <2>3, <3>1, Ranks, TasksWait
  <2> QED
    BY <1>1, <2>2, <2>4, Burns, Ranks, PartsSum, PartsSumNext
<1>3. CASE UploadCheck(d) \/ UploadCommit(d) \/ UploadEnqueueLost(d)
  <2>1. UploadLeft[up'[d]] + 1 <= UploadLeft[up[d]]
    <3>1. \/ up[d] = "idle" /\ up'[d] = "checked"
          \/ up[d] = "checked" /\ up'[d] \in {"committed", "done"}
          \/ up[d] = "committed" /\ up'[d] = "done"
      BY <1>1, <1>3 DEF UploadCheck, UploadCommit, UploadEnqueueLost, TypeOK
    <3> QED
      BY <3>1, Ranks DEF UploadLeft
  <2>2. RequestsLeft' + 1 <= RequestsLeft
    BY <1>1, <1>o, <1>r, <2>1, UploadMoves
  <2>3. Waiting' = Waiting /\ FaultsLeft' <= FaultsLeft
    <3>1. Waiting' = Waiting
      BY <1>3, Still DEF UploadCheck, UploadCommit, UploadEnqueueLost, broker
    <3>2. UNCHANGED faults \/ Fault
      BY <1>3 DEF UploadCheck, UploadCommit, UploadEnqueueLost
    <3> QED
      BY <1>1, <3>1, <3>2, FaultsOnlyFall
  <2>4. TasksLeft' <= TasksLeft + 0
    <3>1. Waiting' <= Waiting + 0
      BY <1>1, <2>3 DEF PartsOK
    <3> QED
      BY <1>1, <1>s, <2>3, <3>1, TasksWait
  <2> QED
    BY <1>1, <2>2, <2>4, Burns
<1> QED
  BY <1>2, <1>3 DEF UploadStep

LEMMA ReprocBurns ==
    ASSUME FiniteSystem, QueueOK, QueueOK', NEW r \in Reprocs,
           ReprocLoad(r) \/ ReprocStep(r) \/ ReprocEnqueueLost(r)
    PROVE  Fuel' < Fuel
<1>1. PartsOK /\ PartsOK' /\ TypeOK /\ TypeOK'
  BY Parts, PartsNext DEF QueueOK
<1>s. /\ Uploading' = Uploading /\ Deleting' = Deleting /\ Working' = Working
      /\ Cardinality(domains)' = Cardinality(domains)
  BY Still DEF ReprocLoad, ReprocStep, ReprocDelete, ReprocCommit, ReprocAbort, ReprocEnqueue,
               ReprocEnqueueLost, rows, broker, workers
<1>r. ASSUME NEW n \in Nat, Reprocessing' + n <= Reprocessing
      PROVE  RequestsLeft' + n <= RequestsLeft
  BY <1>1, <1>s, <1>r, RequestsFall
<1>o. \A e \in Reprocs \ {r} : rp'[e] = rp[e]
  BY <1>1 DEF ReprocLoad, ReprocStep, ReprocDelete, ReprocCommit, ReprocAbort, ReprocEnqueue,
              ReprocEnqueueLost, TypeOK
<1>2. CASE ReprocEnqueue(r)
  <2>1. rp[r] = "committed" /\ rp'[r] = "done" /\ UNCHANGED faults
    BY <1>1, <1>2 DEF ReprocEnqueue, TypeOK
  <2>2. RequestsLeft' + (Whole + 1) <= RequestsLeft
    <3>1. ReprocLeft[rp'[r]] + (Whole + 1) <= ReprocLeft[rp[r]] /\ Whole + 1 \in Nat
      BY <2>1, Ranks DEF ReprocLeft
    <3> QED
      BY <1>1, <1>o, <1>r, <3>1, ReprocMoves
  <2>3. Waiting' <= Waiting + Whole
    BY <1>1, <1>2, PublishWaits, PipelineAssumption DEF ReprocEnqueue, PartsOK
  <2>4. TasksLeft' <= TasksLeft + Whole
    <3>1. FaultsLeft' <= FaultsLeft
      BY <1>1, <2>1, FaultsOnlyFall
    <3> QED
      BY <1>1, <1>s, <2>3, <3>1, Ranks, TasksWait
  <2> QED
    BY <1>1, <2>2, <2>4, Burns, Ranks, PartsSum, PartsSumNext
<1>3. CASE \/ ReprocLoad(r) \/ ReprocDelete(r) \/ ReprocCommit(r) \/ ReprocAbort(r)
           \/ ReprocEnqueueLost(r)
  <2>1. ReprocLeft[rp'[r]] + 1 <= ReprocLeft[rp[r]]
    <3>1. \/ rp[r] = "idle" /\ rp'[r] = "loaded"
          \/ rp[r] = "loaded" /\ rp'[r] \in {"cleared", "aborted"}
          \/ rp[r] = "cleared" /\ rp'[r] \in {"committed", "aborted"}
          \/ rp[r] = "committed" /\ rp'[r] = "done"
      BY <1>1, <1>3 DEF ReprocLoad, ReprocDelete, ReprocCommit, ReprocAbort, ReprocEnqueueLost, TypeOK
    <3> QED
      BY <3>1, Ranks DEF ReprocLeft
  <2>2. RequestsLeft' + 1 <= RequestsLeft
    BY <1>1, <1>o, <1>r, <2>1, ReprocMoves
  <2>3. Waiting' = Waiting /\ FaultsLeft' <= FaultsLeft
    <3>1. Waiting' = Waiting
      BY <1>3, Still DEF ReprocLoad, ReprocDelete, ReprocCommit, ReprocAbort, ReprocEnqueueLost, broker
    <3>2. UNCHANGED faults \/ Fault
      BY <1>3 DEF ReprocLoad, ReprocDelete, ReprocCommit, ReprocAbort, ReprocEnqueueLost
    <3> QED
      BY <1>1, <3>1, <3>2, FaultsOnlyFall
  <2>4. TasksLeft' <= TasksLeft + 0
    <3>1. Waiting' <= Waiting + 0
      BY <1>1, <2>3 DEF PartsOK
    <3> QED
      BY <1>1, <1>s, <2>3, <3>1, TasksWait
  <2> QED
    BY <1>1, <2>2, <2>4, Burns
<1> QED
  BY <1>2, <1>3 DEF ReprocStep

LEMMA DeleteBurns ==
    ASSUME FiniteSystem, QueueOK, QueueOK', NEW x \in Deletes, DeleteLoad(x) \/ DeleteCommit(x)
    PROVE  Fuel' < Fuel
<1>1. PartsOK /\ PartsOK' /\ TypeOK /\ TypeOK'
  BY Parts, PartsNext DEF QueueOK
<1>s. /\ Uploading' = Uploading /\ Reprocessing' = Reprocessing /\ Working' = Working
      /\ Cardinality(domains)' = Cardinality(domains) /\ Waiting' = Waiting /\ FaultsLeft' = FaultsLeft
  BY Still DEF DeleteLoad, DeleteCommit, rows, broker, workers
<1>2. Deleting' + 1 <= Deleting
  <2>1. \A e \in Deletes \ {x} : dl'[e] = dl[e]
    BY <1>1 DEF DeleteLoad, DeleteCommit, TypeOK
  <2>2. DeleteLeft[dl'[x]] + 1 <= DeleteLeft[dl[x]]
    BY <1>1 DEF DeleteLoad, DeleteCommit, DeleteLeft, TypeOK
  <2> QED
    BY <1>1, <2>1, <2>2, DeleteMoves
<1>3. RequestsLeft' + 1 <= RequestsLeft
  BY <1>1, <1>s, <1>2, RequestsFall
<1>4. TasksLeft' <= TasksLeft + 0
  <2>1. TasksLeft' = TasksLeft /\ TasksLeft \in Nat
    BY <1>1, <1>s, PartsSum DEF TasksLeft
  <2> QED
    BY <2>1
<1> QED
  BY <1>1, <1>3, <1>4, Burns

LEMMA DomainBurns ==
    ASSUME FiniteSystem, QueueOK, QueueOK', NEW m \in Domains, DomainDelete(m)
    PROVE  Fuel' < Fuel
<1>1. PartsOK /\ PartsOK' /\ TypeOK /\ TypeOK'
  BY Parts, PartsNext DEF QueueOK
<1>s. /\ Uploading' = Uploading /\ Reprocessing' = Reprocessing /\ Deleting' = Deleting
      /\ Working' = Working /\ Waiting' = Waiting /\ FaultsLeft' = FaultsLeft
  BY Still DEF DomainDelete, broker, workers, api
<1>2. Cardinality(domains)' + 1 <= Cardinality(domains)
  <2>1. IsFiniteSet(domains) /\ Cardinality(domains) \in Nat
    BY <1>1, FS_Subset, FS_CardinalityType DEF FiniteSystem, TypeOK
  <2>2. m \in domains /\ domains' = domains \ {m}
    BY DEF DomainDelete
  <2>3. Cardinality(domains \ {m}) = Cardinality(domains) - 1
    BY <2>1, <2>2, FS_RemoveElement
  <2> QED
    BY <2>1, <2>2, <2>3
<1>3. RequestsLeft' + 1 <= RequestsLeft
  BY <1>1, <1>s, <1>2, RequestsFall
<1>4. TasksLeft' <= TasksLeft + 0
  <2>1. TasksLeft' = TasksLeft /\ TasksLeft \in Nat
    BY <1>1, <1>s, PartsSum DEF TasksLeft
  <2> QED
    BY <2>1
<1> QED
  BY <1>1, <1>3, <1>4, Burns

\* A run goes one step further, or ends.
LEMMA WorkLeftFalls ==
    ASSUME NEW q \in Message, NEW p \in PCs \ {"idle"}, NEW p2 \in PCs, NEW q2,
           \/ p2 = "idle"
           \/ q2 = q /\ p # "retried" /\ p2 # "retried" /\ TaskLeft[p2] < TaskLeft[p]
    PROVE  WorkLeft(p2, q2) + 1 <= WorkLeft(p, q)
<1>1. MaxRetries - q.retries \in Nat
  BY MessageRanks
<1>2. ASSUME NEW s \in PCs \ {"idle", "retried"} PROVE TaskLeft[s] \in Nat /\ TaskLeft[s] >= 1
  BY <1>2 DEF TaskLeft, PCs
<1>3. CASE p2 = "idle"
  <2>1. CASE p = "retried"
    BY <1>3, <2>1 DEF WorkLeft
  <2>2. CASE p # "retried"
    BY <1>1, <1>2, <1>3, <2>2 DEF WorkLeft
  <2> QED
    BY <2>1, <2>2
<1>4. CASE p2 # "idle"
  BY <1>1, <1>2, <1>4 DEF WorkLeft
<1> QED
  BY <1>3, <1>4

LEMMA WorkFalls ==
    ASSUME FiniteSystem, TypeOK, TypeOK', PartsOK, PartsOK', NEW w \in Workers, pc[w] # "idle",
           \A v \in Workers \ {w} : pc'[v] = pc[v] /\ job'[v] = job[v],
           \/ pc'[w] = "idle"
           \/ /\ job'[w] = job[w] /\ pc[w] # "retried" /\ pc'[w] # "retried"
              /\ TaskLeft[pc'[w]] < TaskLeft[pc[w]]
    PROVE  Working' + 1 <= Working
<1>1. job[w] \in Message /\ pc[w] \in PCs \ {"idle"} /\ pc'[w] \in PCs
  BY HeldMessage DEF TypeOK
<1>2. WorkLeft(pc'[w], job'[w]) + 1 <= WorkLeft(pc[w], job[w])
  BY <1>1, WorkLeftFalls
<1>3. WorkLeft(pc'[w], job'[w]) + 1 <= WorkLeft(pc[w], job[w]) + 0
  BY <1>2, WorkLeftInNat
<1>4. Working' + 1 <= Working + 0
  BY <1>3, WorkMoves
<1>5. ASSUME NEW m \in Nat, NEW n \in Nat, m + 1 <= n + 0 PROVE m + 1 <= n
  BY <1>5
<1>6. Working' \in Nat /\ Working \in Nat
  BY DEF PartsOK
<1> QED
  BY <1>4, <1>5, <1>6

LEMMA TaskBurns ==
    ASSUME FiniteSystem, QueueOK, QueueOK', NEW w \in Workers, Deliver(w) \/ TaskStep(w)
    PROVE  Fuel' < Fuel
<1>1. PartsOK /\ PartsOK' /\ TypeOK /\ TypeOK'
  BY Parts, PartsNext DEF QueueOK
<1>o. \A v \in Workers \ {w} : pc'[v] = pc[v] /\ job'[v] = job[v]
  BY <1>1, OthersStay
<1>s. RequestsLeft' = RequestsLeft /\ FaultsLeft' = FaultsLeft
  <2>1. UNCHANGED <<up, rp, dl, domains, faults>>
    BY DEF Deliver, TaskStep, Load, Claim, Vanished, Work, IndexCommit, IndexExcept, MarkFailed,
           Retry, Finish, rows, api
  <2> QED
    BY <2>1, Still DEF RequestsLeft
<1>b. ASSUME TasksLeft' + 1 <= TasksLeft PROVE Fuel' < Fuel
  BY <1>1, <1>s, <1>b, Burns
<1>2. CASE Deliver(w)
  <2>1. PICK q \in queued : queued' = queued \ {q} /\ job' = [job EXCEPT ![w] = q]
    BY <1>2 DEF Deliver, Take
  <2>2. pc[w] = "idle" /\ pc'[w] = "load" /\ job'[w] = q /\ q \in Message
    BY <1>1, <1>2, <2>1 DEF Deliver, TypeOK
  <2> DEFINE n == 9 * (MaxRetries - q.retries) + 8
  <2>3. n \in Nat /\ Cost(q) = n + 1
    BY <2>2, MessageRanks DEF Cost
  <2>4. Waiting' + (n + 1) = Waiting
    BY <2>1, <2>3, QueueTakes
  <2>5. WorkLeft(pc'[w], job'[w]) + 0 <= WorkLeft(pc[w], job[w]) + n
    <3>1. WorkLeft("load", q) = n
      BY <2>2, MessageRanks DEF WorkLeft, TaskLeft
    <3>2. WorkLeft("idle", job[w]) = 0
      BY DEF WorkLeft
    <3>3. WorkLeft(pc'[w], job'[w]) = n /\ WorkLeft(pc[w], job[w]) = 0
      BY <2>2, <3>1, <3>2
    <3> HIDE DEF n
    <3> QED
      BY <2>3, <3>3
  <2> HIDE DEF n
  <2>6. Working' + 0 <= Working + n
    BY <1>1, <1>o, <2>3, <2>5, WorkMoves
  <2>7. Working' <= Working + n
    BY <1>1, <2>6 DEF PartsOK
  <2> QED
    BY <1>1, <1>s, <1>b, <2>3, <2>4, <2>7, TasksFall
<1>3. CASE \/ Load(w) \/ Claim(w) \/ Vanished(w) \/ Work(w) \/ IndexCommit(w) \/ IndexExcept(w)
           \/ MarkFailed(w) \/ Finish(w)
  <2>1. /\ pc[w] # "idle"
        /\ \/ pc'[w] = "idle"
           \/ /\ job'[w] = job[w] /\ pc[w] # "retried" /\ pc'[w] # "retried"
              /\ TaskLeft[pc'[w]] < TaskLeft[pc[w]]
    <3>1. \/ pc[w] # "idle" /\ pc'[w] = "idle"
          \/ /\ UNCHANGED job
             /\ \/ pc[w] = "load" /\ pc'[w] = "claim"
                \/ pc[w] = "claim" /\ pc'[w] = "work"
                \/ pc[w] = "work" /\ pc'[w] \in Outcomes
                \/ pc[w] = "index" /\ pc'[w] \in {"finish", "except"}
                \/ pc[w] = "finish" /\ pc'[w] = "except"
                \/ pc[w] = "reject" /\ pc'[w] = "finish"
                \/ pc[w] = "except" /\ pc'[w] = "retry"
      BY <1>1, <1>3 DEF Load, Claim, Vanished, Work, IndexCommit, IndexExcept, MarkFailed, Finish,
                        Release, AfterMark, TypeOK
    <3> QED
      BY <3>1 DEF Outcomes, TaskLeft
  <2>2. Working' + 1 <= Working
    BY <1>1, <1>o, <2>1, WorkFalls
  <2>3. Waiting' = Waiting
    BY <1>3, Still
       DEF Load, Claim, Vanished, Work, IndexCommit, IndexExcept, MarkFailed, Finish, broker
  <2>4. FaultsLeft' <= FaultsLeft
    BY <1>1, <1>s DEF PartsOK
  <2> QED
    BY <1>1, <1>b, <2>2, <2>3, <2>4, TasksFall
<1>4. CASE Retry(w)
  <2>0. job[w] \in Message /\ pc[w] = "retry"
    BY <1>1, <1>4, HeldMessage DEF Retry
  <2>1. CASE MayRetry(job[w])
    <3>1. PICK p \in Message : p = [job[w] EXCEPT !.retries = NextTry(@)] /\ p.retries = job[w].retries + 1
      BY <2>0, <2>1, RetryIsMessage
    <3>2. queued' = queued \cup {p} /\ pc'[w] = "retried" /\ job'[w] = job[w]
      BY <1>1, <1>4, <2>1, <3>1 DEF Retry, TypeOK
    <3> DEFINE n == 9 * (MaxRetries - job[w].retries)
    <3>3. n \in Nat /\ Cost(p) = n
      BY <2>0, <3>1, MessageRanks, PipelineAssumption DEF Cost, Message
    <3>4. WorkLeft(pc'[w], job'[w]) + (n + 1) <= WorkLeft(pc[w], job[w]) + 0
      <4>1. WorkLeft(pc'[w], job'[w]) = 1 /\ WorkLeft(pc[w], job[w]) = n + 2
        BY <2>0, <3>2, <3>3 DEF WorkLeft, TaskLeft
      <4> HIDE DEF n
      <4> QED
        BY <3>3, <4>1
    <3> HIDE DEF n
    <3>5. Waiting' <= Waiting + n
      BY <3>2, <3>3, QueueAdds
    <3>6. Working' + (n + 1) <= Working + 0
      BY <1>1, <1>o, <3>3, <3>4, WorkMoves
    <3>7. Working' + (n + 1) <= Working
      BY <1>1, <3>6 DEF PartsOK
    <3> QED
      BY <1>1, <1>s, <1>b, <3>3, <3>5, <3>7, TasksFall
  <2>2. CASE ~MayRetry(job[w])
    <3>1. pc'[w] = "idle" /\ UNCHANGED queued
      BY <1>1, <1>4, <2>2 DEF Retry, Release, broker, TypeOK
    <3>2. Working' + 1 <= Working
      BY <1>1, <1>o, <2>0, <3>1, WorkFalls
    <3>3. Waiting' = Waiting /\ FaultsLeft' <= FaultsLeft
      BY <1>1, <1>s, <3>1, Still DEF PartsOK
    <3> QED
      BY <1>1, <1>b, <3>2, <3>3, TasksFall
  <2> QED
    BY <2>1, <2>2
<1> QED
  BY <1>2, <1>3, <1>4 DEF TaskStep

\* A failure, whatever it puts into the queue again.
LEMMA FailureBurns ==
    ASSUME FiniteSystem, QueueOK, QueueOK', Fault, Working' <= Working, Waiting' <= Waiting + Whole,
           UNCHANGED <<up, rp, dl, domains>>
    PROVE  Fuel' < Fuel
<1>1. PartsOK /\ PartsOK' /\ TypeOK
  BY Parts, PartsNext DEF QueueOK
<1>2. RequestsLeft' = RequestsLeft
  BY Still DEF RequestsLeft
<1>3. FaultsLeft' + Whole + 1 = FaultsLeft
  BY <1>1, FaultSpent
<1>4. TasksLeft' + 1 <= TasksLeft
  BY <1>1, <1>3, TasksFall
<1> QED
  BY <1>1, <1>2, <1>4, Burns

LEMMA FaultBurns ==
    ASSUME FiniteSystem, QueueOK, QueueOK', NEW w \in Workers, WorkerFault(w)
    PROVE  Fuel' < Fuel
<1>1. PartsOK /\ PartsOK' /\ TypeOK /\ TypeOK'
  BY Parts, PartsNext DEF QueueOK
<1>2. Fault /\ UNCHANGED <<up, rp, dl, domains>> /\ pc[w] # "idle"
  BY DEF WorkerFault, WorkerLost, TaskDropped, MarkLost, Running, rows, api
<1>3. Working' <= Working
  <2>1. \/ pc'[w] = "idle"
        \/ /\ job'[w] = job[w] /\ pc[w] # "retried" /\ pc'[w] # "retried"
           /\ TaskLeft[pc'[w]] < TaskLeft[pc[w]]
    <3>1. \/ pc'[w] = "idle"
          \/ UNCHANGED job /\ \/ pc[w] = "reject" /\ pc'[w] = "finish"
                              \/ pc[w] = "except" /\ pc'[w] = "retry"
      BY <1>1 DEF WorkerFault, WorkerLost, TaskDropped, MarkLost, Release, AfterMark, TypeOK
    <3> QED
      BY <3>1 DEF TaskLeft
  <2>2. \A v \in Workers \ {w} : pc'[v] = pc[v] /\ job'[v] = job[v]
    BY <1>1, OthersStay
  <2>3. Working' + 1 <= Working
    BY <1>1, <1>2, <2>1, <2>2, WorkFalls
  <2>4. ASSUME NEW k \in Nat, k + 1 <= Working PROVE k <= Working
    BY <1>1, <2>4 DEF PartsOK
  <2> QED
    BY <1>1, <2>3, <2>4 DEF PartsOK
<1>4. Waiting' <= Waiting + Whole
  <2>0. ASSUME UNCHANGED queued PROVE Waiting' <= Waiting + Whole
    <3>1. Waiting' = Waiting /\ Waiting \in Nat /\ Whole \in Nat
      BY <1>1, <2>0, Still, Ranks DEF PartsOK
    <3> QED
      BY <3>1
  <2>1. CASE WorkerLost(w)
    <3>0. job[w] \in Message /\ job[w].copy \in DOMAIN sent
      BY <1>1, <1>2, HeldMessage
    <3>1. CASE pc[w] = "retried"
      BY <1>1, <2>1, <3>0, <3>1, DuplicateIsNew, CopyWaits DEF WorkerLost
    <3>2. CASE pc[w] # "retried"
      <4>1. queued' = queued \cup {job[w]}
        BY <2>1, <3>2 DEF WorkerLost, Redeliver
      <4>2. Waiting \in Nat /\ Waiting' \in Nat /\ Waiting' <= Waiting + Cost(job[w])
        BY <3>0, <4>1, QueueAdds
      <4>3. Cost(job[w]) \in Nat /\ Cost(job[w]) <= Whole /\ Whole \in Nat
        BY <3>0, MessageRanks, Ranks
      <4> QED
        BY <4>2, <4>3
    <3> QED
      BY <3>1, <3>2
  <2>2. CASE TaskDropped(w) \/ MarkLost(w)
    BY <2>0, <2>2 DEF TaskDropped, MarkLost, broker
  <2> QED
    BY <2>1, <2>2 DEF WorkerFault
<1> QED
  BY <1>2, <1>3, <1>4, FailureBurns

LEMMA TimedOutBurns ==
    ASSUME FiniteSystem, QueueOK, QueueOK', TimedOut
    PROVE  Fuel' < Fuel
<1>1. PartsOK /\ PartsOK' /\ TypeOK
  BY Parts, PartsNext DEF QueueOK
<1>2. Fault /\ UNCHANGED <<up, rp, dl, domains, pc, job>>
  BY DEF TimedOut, rows, workers, api
<1>3. Working' <= Working
  BY <1>1, <1>2, Still DEF PartsOK
<1>4. Waiting' <= Waiting + Whole
  BY <1>1, TimedOutIsNew, DuplicateIsNew, CopyWaits
<1> QED
  BY <1>2, <1>3, <1>4, FailureBurns

\* A step adds at most one message to the queue.
LEMMA QueueGrows ==
    ASSUME TypeOK, [Next]_vars
    PROVE  \E q : queued' \subseteq queued \cup {q}
<1>1. ASSUME NEW d, NEW n, NewCopy(d, n) PROVE \E q : queued' \subseteq queued \cup {q}
  BY <1>1 DEF NewCopy
<1>2. ASSUME NEW d \in Docs, UploadCheck(d) \/ UploadStep(d) \/ UploadEnqueueLost(d)
      PROVE  \E q : queued' \subseteq queued \cup {q}
  BY <1>1, <1>2
     DEF UploadCheck, UploadStep, UploadCommit, UploadEnqueue, UploadEnqueueLost, Publish, broker
<1>3. ASSUME NEW r \in Reprocs, ReprocLoad(r) \/ ReprocStep(r) \/ ReprocEnqueueLost(r)
      PROVE  \E q : queued' \subseteq queued \cup {q}
  BY <1>1, <1>3
     DEF ReprocLoad, ReprocStep, ReprocDelete, ReprocCommit, ReprocAbort, ReprocEnqueue,
         ReprocEnqueueLost, Publish, broker
<1>4. ASSUME NEW w \in Workers, Deliver(w) \/ TaskStep(w)
      PROVE  \E q : queued' \subseteq queued \cup {q}
  BY <1>4 DEF Deliver, Take, TaskStep, Load, Claim, Vanished, Work, IndexCommit, IndexExcept,
              MarkFailed, Retry, Finish, broker
<1>5. ASSUME NEW w \in Workers, WorkerFault(w)
      PROVE  \E q : queued' \subseteq queued \cup {q}
  BY <1>1, <1>5 DEF WorkerFault, WorkerLost, Redeliver, Duplicate, TaskDropped, MarkLost, broker
<1>6. CASE TimedOut
  BY <1>1, <1>6 DEF TimedOut, Duplicate
<1>7. ASSUME \/ \E x \in Deletes : DeleteLoad(x) \/ DeleteCommit(x)
             \/ \E m \in Domains : DomainDelete(m)
             \/ UNCHANGED vars
      PROVE  UNCHANGED queued
  BY <1>7 DEF DeleteLoad, DeleteCommit, DomainDelete, vars, broker
<1> QED
  BY <1>2, <1>3, <1>4, <1>5, <1>6, <1>7 DEF Next

LEMMA QueueInvariant == Spec => []QueueOK
<1>1. Init => QueueOK
  BY InitType, FS_EmptySet DEF Init, QueueOK
<1>2. QueueOK /\ [Next]_vars => QueueOK'
  <2> SUFFICES ASSUME QueueOK, [Next]_vars PROVE QueueOK'
    OBVIOUS
  <2>1. PICK q : queued' \subseteq queued \cup {q}
    BY QueueGrows DEF QueueOK
  <2>2. IsFiniteSet(queued')
    BY <2>1, FS_AddElement, FS_Subset DEF QueueOK
  <2> QED
    BY <2>2, NextType DEF QueueOK
<1> QED
  BY <1>1, <1>2, PTL DEF Spec

LEMMA FuelInNat == FiniteSystem /\ QueueOK => Fuel \in Nat
BY Parts, PartsSum DEF Fuel, PartsOK

\* Every step uses up fuel, of which a state has finitely much: with finitely
\* many requests and failures no behaviour goes on for ever, whatever the
\* workers do, and a document is not retried or redelivered without end.
THEOREM EverythingEnds ==
    ASSUME FiniteSystem
    PROVE  Spec => [](Fuel \in Nat) /\ [][Fuel' < Fuel]_vars
<1>1. QueueOK /\ QueueOK' /\ Next => Fuel' < Fuel
  BY UploadBurns, ReprocBurns, DeleteBurns, DomainBurns, TaskBurns, FaultBurns, TimedOutBurns
     DEF Next
<1>2. QueueOK => Fuel \in Nat
  BY FuelInNat
<1> QED
  BY <1>1, <1>2, QueueInvariant, PTL DEF Spec

\* No message waits, no worker is busy, no request has still to send its message.
AtRest ==
    /\ queued = {} /\ \A w \in Workers : pc[w] = "idle"
    /\ \A d \in Docs : up[d] # "committed"
    /\ \A r \in Reprocs : rp[r] # "committed"

\* Where the behaviours end: once the messages are through, every document that
\* was uploaded has its outcome, but those a failure lost and those deleted
\* while they waited.  None is left in "processing" but a lost one.
THEOREM RestIsSettled ==
    Spec => [](AtRest => \A d \in Docs : \/ status[d] = "absent" \/ Settled(d) \/ d \in lost
                                         \/ status[d] = "pending" /\ deleted[d])
<1>1. TypeOK /\ ProcessingIsOwned /\ PendingHasJob =>
          (AtRest => \A d \in Docs : \/ status[d] = "absent" \/ Settled(d) \/ d \in lost
                                     \/ status[d] = "pending" /\ deleted[d])
  <2> SUFFICES ASSUME TypeOK, ProcessingIsOwned, PendingHasJob, AtRest, NEW d \in Docs, d \notin lost
               PROVE  \/ status[d] = "absent" \/ Settled(d)
                      \/ status[d] = "pending" /\ deleted[d]
    OBVIOUS
  <2>1. status[d] # "processing"
    BY DEF ProcessingIsOwned, Runs, Running, AtRest
  <2>2. status[d] = "pending" => deleted[d]
    BY DEF PendingHasJob, HasJob, AtRest
  <2> QED
    BY <2>1, <2>2 DEF TypeOK, Statuses, Stored, Settled
<1> QED
  BY <1>1, TypeCorrect, ProcessingOwned, PendingFollowed, PTL
=============================================================================
