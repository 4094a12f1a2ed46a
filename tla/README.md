# AtlasDB: specifications and proofs

TLA+ models of the AtlasDB backend (`src/app`), the TLC runs that check them and the
theorems about them that TLAPS has checked. Paths below are relative to `src/`.

AtlasDB stores documents in knowledge domains, splits and embeds them in the background,
and answers questions about them in conversations, streaming the answer. What can go
wrong in it is nearly all between things: an API request and a worker on the same row, a
crash between a commit and the next step, a decision made on an object loaded long ago.
The models are about that; text, vectors and layout are abstracted away.

## 1. Inventory

| Component | State it keeps | Operations | Talks to |
|---|---|---|---|
| documents (`app/documents`, `app/admin/documents_router.py`) | rows of `documents`: status, `deleted_at`, `chunk_count`; the stored file | upload, get, list, soft delete, admin reprocess | domains (ownership), storage, the broker |
| processing (`app/processing/tasks.py`, `app/celery_app.py`) | rows of `document_chunks`, the status; the retry counter and the copies of a message | `extract_text`: guard, extract, chunk, embed, index; `_mark_failed`; retry | the broker (Redis), PostgreSQL, OpenAI, storage |
| processing algorithms (`chunker.py`, `extractors.py`, `core/openai_client.py`) | none | `chunk_text`, extractors, `embed_texts` | OpenAI |
| domains (`app/domains`) | rows of `knowledge_domains`, unique name per owner | create, get, list, update, delete with cascade | documents, conversations (foreign keys) |
| conversations (`app/conversations`) | rows of `conversations` and `messages` | create, list, get, delete, page through messages, `append_message` | domains |
| query_engine (`app/query_engine`) | a stream in progress; `cancel:{request_id}` in Redis | query (a server-sent event stream), cancel | retrieval, conversations, OpenAI, Redis |
| retrieval (`app/retrieval`) | none | `search` | domains, documents, OpenAI |
| auth (`app/auth`, `core/security.py`, `core/dependencies.py`) | rows of `refresh_tokens` | register, login, refresh, logout, `get_current_user` | users |
| users and admin (`app/users`, `app/admin/users_router.py`) | rows of `users` | profile update, list, deactivate, reactivate | auth |
| storage, application shell, migrations, scripts | files; configuration | store, retrieve, delete; wiring | - |

**How they interact.** API handlers are coroutines of one event loop, each with its own
database session; workers are two processes of a Celery worker (`docker-compose.yml:28`)
with sessions of their own. They share only PostgreSQL (READ COMMITTED), the `cpu_bound`
queue and a Redis key. No handler takes a row lock or makes an UPDATE conditional on what
it read, so between the SELECT that loads a row and the commit that writes it any other
transaction may commit.

**Which behaviours are hard, and what makes each component correct**

* *documents and processing.* The status column is at once the display for the owner and
  the lock against duplicate runs. Messages are acknowledged late and delivered again when
  a worker dies; the guard turns a claimed document away, also from the redelivery that
  would have to finish it. A retry publishes the message anew after the document was
  marked failed and before the delivered one is acknowledged, so a crash in between leaves
  two. Soft delete, reprocess and domain delete come at any moment. Correct
  means: a document never stays pending or processing with nobody to carry it on, its
  chunks are those of one run unless a second message was sent for it and never those
  of more runs than messages, its content appears whole and does not go away by itself, a
  removed document leaves nothing behind, and everything comes to rest.
* *query_engine and conversations.* A stream holds a Conversation object for as long as
  the model talks. Meanwhile the conversation, its domain, its title and the cancel flag
  change. Correct means: only finished streams are written, question before answer, once
  each; a cancel takes effect at the next token; every stream ends.
* *conversations.* A reader pages with a cursor while messages are appended; `created_at` is
  taken when a message is inserted, and others see it only after the commit. Correct means:
  nothing is skipped or shown twice, and a page without a next cursor is the last.
* *processing algorithms.* Window bounds and batch bounds. Correct means: no text
  is lost, what is no longer than the overlap is never cut in two, chunk *i* gets embedding
  *i*.
* *auth and users.* Checks before inserts, backed by unique indexes; rotation of
  refresh tokens while a client retries; deactivation while requests run. Correct means: a
  registration is all or nothing, a revoked token is accepted from nobody, a rotation
  neither takes a session away nor forks it (the code does not keep the latter when a client
  repeats a refresh that still runs), a deactivation takes effect.
* *domains.* A unique name per owner under concurrent creates, renames and deletes; writes
  that wait for an index entry or a row, in cycles if it comes to that; objects loaded before another
  PATCH was committed. Correct means: names stay unique, who is turned away
  because of a name is turned away by a domain that comes to have it, no request undoes what it was not asked to touch, nobody waits for ever.
* *retrieval and query context.* The domain is checked, then OpenAI is called, then the
  SELECT runs: what is stored changes in between. Results, context and citations are three lists that
  must number the same chunks alike. Correct means: nothing that is gone or somebody
  else's is found, the context is the best that fits, every answer has its sources.

The hazards are listed line by line in `PROJECT.json`; each names the properties that
watch it, or says why none does.

## 2. Modules

| Module | What it is |
|---|---|
| `DocumentLifecycle` | abstract specification: what the pipeline promises about status, deletion and content of a document, with fewer promises about the status when a second message was sent for it |
| `Pipeline` | the upload, soft-delete, reprocess and domain-delete handlers, the queue, and the task `extract_text`, with failures |
| `MCPipeline` | instances of `Pipeline` for TLC |
| `PipelineProofs` | theorems about `Pipeline`, proved with TLAPS |
| `QueryEngine` | `handle_query`, `cancel_query`, `append_message`, `delete_conversation` |
| `MCQueryEngine` | instances of `QueryEngine` for TLC |
| `ConversationLog` | abstract specification: what the queries on a conversation promise to its readers and to the clients of their streams |
| `QueryEngineProofs` | theorems about `QueryEngine`, proved with TLAPS |
| `ConversationReader` | abstract specification: what paging through a conversation promises |
| `MessagePaging` | `get_messages` with its endpoint, against `append_message` as a transaction and `delete_conversation` |
| `MCMessagePaging` | instances of `MessagePaging` for TLC |
| `MessagePagingProofs` | theorems about `MessagePaging`, proved with TLAPS |
| `Chunking` | the algorithms of a run: `chunk_text`, `embed_texts`, the comparison of the counts |
| `MCChunking` | instances of `Chunking` for TLC: the texts |
| `ChunkingProofs` | theorems about `Chunking`, proved with TLAPS |
| `Accounts` | registration, login, token refresh, logout, activation |
| `MCAccounts` | instances of `Accounts` for TLC |
| `Sessions` | abstract specification: what accounts and refresh tokens promise |
| `AccountsProofs` | theorems about `Accounts`, proved with TLAPS |
| `Domains` | create, update and delete of a domain, `create_conversation` with a `domain_id`; row locks and the unique index |
| `MCDomains` | instances of `Domains` for TLC |
| `DomainsProofs` | theorems about `Domains`, proved with TLAPS |
| `Retrieval` | `search`, `assemble_context`, `extract_citations` |
| `MCRetrieval` | instances of `Retrieval` for TLC: documents, scores |
| `RetrievalProofs` | theorems about `Retrieval`, proved with TLAPS |
| `SumTheorems` | lemmas about sums over finite sets, used by `PipelineProofs` and `RetrievalProofs` |

`Pipeline` and `Chunking` look at the same task at two scales: what `Pipeline` takes as one
stage with an outcome is the whole of `Chunking`. `Retrieval` reads what `Pipeline` writes, and
takes its index transaction, the soft delete and the cascade as one action each. What
`QueryEngine` takes as the one step `search` with its outcomes is `Retrieval`, and
`Retrieval` goes on with context and citations, which `QueryEngine` abstracts away.
`QueryEngine` and `MessagePaging` share `append_message`: one step in the first, a
transaction of three steps in the second, which justifies that the first keeps messages
in a sequence. `Domains` has the races of delete, rename and create; its cascade is in
`Pipeline` and `Retrieval`. `Accounts` stands alone, since every other handler asks it one
question when the request comes in (`get_current_user`).

### Pipeline

| Code | Model |
|---|---|
| row of `documents` | `status` (with `"absent"` before the INSERT and `"gone"` after the cascade), `deleted`, `chunk_count` |
| rows of `document_chunks` | `chunks[d]`, a set of *chunk sets*: all the rows one run inserts are one element |
| rows of `knowledge_domains` | `domains` |
| `cpu_bound` queue, `request.retries` | `queued`, a set of messages `[copy, retries]`; `sent[i]` is the document of copy *i* |
| a worker process | `pc[w]`, and `job[w]`, the message it holds and has not acknowledged |
| an open transaction that has executed its chunk DELETE | `snap[p]`, the chunk sets it has deleted and not yet committed |
| a request in flight | `up`, `rp`, `dl`, and `seen[r]`, the status the reprocess handler loaded |

| Handler | Actions |
|---|---|
| `upload_document` | `UploadCheck`, `UploadCommit`, `UploadEnqueue` (`UploadEnqueueLost`) |
| `reprocess_document` | `ReprocLoad`, `ReprocDelete`, `ReprocCommit` or `ReprocAbort`, `ReprocEnqueue` (`ReprocEnqueueLost`) |
| `soft_delete_document` | `DeleteLoad`, `DeleteCommit` |
| `delete_domain` | `DomainDelete` |
| `extract_text` | `Deliver`, `Load`, `Claim`, `Vanished`, `Work`, `IndexCommit`, `IndexExcept`, `MarkFailed`, `Retry`, `Finish` |
| failures | `WorkerLost`, `TimedOut`, `TaskDropped`, `MarkLost` and the two above |

Why the steps are cut where they are:

* A handler is cut after the SELECT that loads the row and after each commit. `_mark_failed`
  and the load at the end of `_stage_index` are one step with their commit: the UPDATE they
  lead to does not depend on what was read.
* A transaction that deletes chunks is two steps: the DELETE picks the rows committed by
  then (`snap`), the commit applies DELETE, INSERT and UPDATE together. Row locks can only
  delay or abort such a transaction; an abort is `ReprocAbort` or `IndexExcept`.
* SQLAlchemy writes only the columns whose value differs from the one loaded. For
  `soft_delete_document` this means the status is not written; for `reprocess_document` it
  means that a row loaded as `pending` keeps the status another transaction gave it
  (`Reset`). The claim in `extract_text` always writes, because the guard lets no
  `processing` row pass; `_mark_failed` and `_stage_index` load the row in the same step.
* `self.retry` publishes the new message (`Retry`, to `"retried"`), and the delivered one is
  acknowledged when the task has ended (`Finish`): two steps. A worker that dies in between
  leaves both, the retry in the queue and the delivered message to be delivered again
  (`WorkerLost`).
* Celery gives the retry and a redelivery the same task id, and nothing in the code or in
  Celery runs an id only once. So messages are not told apart by their id but numbered:
  `Publish` makes a copy, a retry and the redelivery of a dead worker's message *are* the
  copy they replace, and where the replaced message lives on, `Duplicate` makes a
  further copy. A message waiting for its countdown is in `queued` like any other.
* Redis delivers a message again when it is not acknowledged within the visibility timeout
  (an hour, the default, which `celery_app.py` leaves). The hour counts from the moment a worker
  prefetches the message, and it may then wait behind others, so no time limit
  of a single run excludes this: `TimedOut` duplicates any message that waits or is being run.
* Read-only requests are left out: they change nothing.

`faults` counts the failures so far, `TimedOut` among them, at most `MaxFaults`. `lost` is
a ghost: the documents whose last status write has no follow-up any more because a failure destroyed it (the
broker refused the message, the worker died after the claim, `_mark_failed` failed). No
handler reads it. Without it the invariants could only speak about behaviours without
failures; with it they say that a document is stranded *only* by such a failure, and
that a successful reprocess takes it out again. A duplicated message puts nothing in `lost`:
it excuses nothing about being stranded. What it does excuse is named `Repeated`: documents with
a second message, from a reprocess or a duplicate. Two messages can be in two runs at once,
because the guard reads and claims in two steps; then both runs can insert their chunks
(`OneChunkSet` does not hold), and one run can mark failed what the other indexes. For those
documents `ChunkSetsBounded` says how far it can go, and `DocumentLifecycle` what still holds.

### QueryEngine

| Code | Model |
|---|---|
| rows of `conversations`, `messages` | `conv`, `title`, `messages` (a sequence: see below) |
| the domain of a scoped conversation | `domain` (deleting it sets `domain_id` to NULL) |
| the generator of a query | `step[q]`, `tokens[q]`, `terminal[q]`, `aborted[q]` |
| its Conversation object | `myTitle[q]`, `myScope[q]` |
| `cancel:{request_id}` | `flag[q]`; `late[q]` is a ghost that counts tokens sent while it was set |

`search` is one step with its possible outcomes (`SearchNotFound`, `SearchUnavailable`,
`SearchEmpty`, `SearchFound`). `SearchEmpty` sends its one token without a poll (`SendToken`)
and goes on to `"nothing"`, from where the stream is done. Any other token is two steps,
the poll of the flag and the event, so that a cancel can fall between. `append_message` is one step: its UPDATE of the conversation
always writes (`updated_at`), is flushed before the INSERT of the message, and so locks the
row until the commit; `created_at` is taken at the INSERT, so messages are ordered as they
are committed and the log of a conversation is a sequence.

Assumption about the framework: the session of a request stays open while the response
streams (FastAPI 0.118 and later; `requirements.txt` asks for 0.115 or later). With the
versions before 0.118 the Conversation object is detached when the stream begins, and
`append_message` would write the messages but neither the title nor `updated_at`.

### Chunking

| Code | Model |
|---|---|
| tokens of tiktoken | `"ink"` or `"space"`, whichever they decode to; a separator is one token |
| `all_tokens`, `start`, `end` | `all_tokens`, `start`, `End` |
| a chunk's text | the interval `[lo, hi)` of positions it was decoded from |
| an embedding | the number of the chunk it was computed from |
| the loop of `embed_texts` | `sent`, advanced by `EmbedBatch` |

The actions are the statements in their order: the guard (`Refuse`), one paragraph
(`Encode`, or `EncodeRaises` when the text spells a special token of the encoder), the early return (`Encoded`), one turn of the window loop (`Window`), one call
of the API (`EmbedBatch`, `EmbedRaises`), the two checks of the task (`NoChunks`, `Index`).
The API is assumed to answer with the embeddings in order or to leave some out, never to
send more than it was asked for. `strip` on a decoded window removes white space at its
ends only, which is why the properties speak of runs that are not all white.

### Accounts

| Code | Model |
|---|---|
| row of `users` | `account[u]`; `Staff` are those with `is_admin`, created by the script before |
| rows of `refresh_tokens` | `owner`, `revoked`; a token stands for its hash |
| a request | `request[r]`: operation, user, token, and the step its handler has reached |
| an activation request | `change[a]`, with `is_active` as it was loaded |
| a device | `held[c]`, the token it would present, and `waits[c]` |

| Handler | Actions |
|---|---|
| `register_user` | `LoadUser`, then `Issue` or `Conflict` |
| `authenticate_user` | `LoadUser` (or `Refuse`: wrong password), `Issue` |
| `refresh_access_token` | `LoadToken` (or `Refuse`: expired), `LoadUser`, `Issue` |
| `logout_user` | `LoadToken`, `Revoke` |
| `deactivate_user`, `reactivate_user` | `LoadTarget`, `SetActive` |

Handlers are cut after each SELECT and at the commit, as in `Pipeline`; the two SELECTs of an
activation request (the admin, the target) are one step, since nothing in the model can
come between them that a property tells apart. A flush that waits for another
transaction's row with the same address is ordered by that transaction's commit, so
flush and commit are one step. What a device does is outside the repository: it keeps the
token of the last answer it got, drops it when a request with it is refused, keeps it when
the server fails, and may stop waiting (`GiveUp`) while the handler goes on. `Sessions` sees the tokens with which
requests have been let in (`presented`): `Accept` asks that the token is live and, unless
its client has given up a request with it, that no other request is let in with it already;
`Rotate` happens once for each acceptance. That is as much as the code keeps of "single-use":
it has no lock between the check (`auth/service.py:75`) and the commit (`:87`), so two
overlapping refreshes by a client that repeats itself both get a token. The run `single_use` shows it.

### MessagePaging

| Code | Model |
|---|---|
| rows of `conversations` | `alive` |
| committed rows of `messages` | `messages[c]`, a set; a message is named by its `created_at` |
| `datetime.now` in the default of `created_at` | `clock` |
| the open transaction of a session in `append_message` | `writer[w]` |
| a page request | `request`: conversation, cursor, whether the cursor has been looked up |
| the client | `cursor`, `shown`, `more` per conversation; `served` is a ghost that counts what came twice |

| Code | Actions |
|---|---|
| `append_message` | `Update` (takes the row lock), `Insert` (takes the time), `Commit` or `Rollback` |
| `delete_conversation` | `DeleteConversation` |
| `list_messages_endpoint`, `get_messages` | `Ask`, `LookUp` (the cursor must be of this conversation), `Read` |

Three facts about the libraries carry the model. The mapper flushes the changed Conversation
before the new Message, because the one is the parent of the other, and `updated_at`
always changes, so the UPDATE is always sent and locks the row until the commit. The default of
`created_at` is a Python callable, evaluated when the INSERT is sent. A page is fetched by
one statement, hence from one snapshot. Assumed about the machine: one API process, whose
clock does not go back between two inserts and gives two messages of a conversation
different times.
A client may mix up the cursors of its conversations; it always asks for the page after its own cursor otherwise.

### Domains

| Code | Model |
|---|---|
| rows of `knowledge_domains` | `row[d]`: name and description, `Absent` before the INSERT, `Gone` after the DELETE |
| `uq_domains_owner_name` | `Rivals` (committed entries), `Ahead` (entries other transactions are adding or removing) |
| a conversation's `domain_id` | `scope[r]`, of the conversation request *r* has made |
| a request and its Domain object | `ask[r]`, `seen[r]`, `step[r]` |

| Handler | Actions |
|---|---|
| `create_domain` | `ReceiveCreate`, `Insert`, `Commit`, `Refresh` |
| `update_domain` | `Receive`, `Lock`, `Index` (when the name changes), `Commit`, `Refresh` |
| `delete_domain` | `Receive`, `Lock`, `Commit` |
| `create_conversation` | `Receive`, `Converse` |
| failures | `Deadlock`, `Abort` |

A statement that meets an uncommitted index entry or a locked row waits (`WaitsFor`): an
INSERT for the entry, an UPDATE or DELETE for the row and then for the entry, the foreign-key
check of a conversation's INSERT for a transaction that changes the key or deletes the row.
The name is in a unique index, so a rename counts as a change of the key. A cycle of waits
is ended by PostgreSQL with an error that is not an `IntegrityError`; the handler does
not catch it and the answer is a 500, as it is when an UPDATE finds no row
(`StaleDataError`) or the row is gone when it is refreshed after the commit. The ORM
writes only columns that differ from the object as loaded, which is what `Renames` and
`Written` say. A request is made once at most; a retry by the client is another request.
A domain's `seen` in a create is not read.

"Already exists" is told by a committed row only: who meets an uncommitted entry waits for the
transaction to end, and if that one fails, the name is free. A state invariant about it would repeat
the guard (`Taken`), so the property is about what comes of it: `NameIsUsed`, a name
that was asked for comes to be the name of a domain of that user, unless the request ends with an
error. It would fail if a create were turned away by an entry that is then rolled back.

### Retrieval

| Code | Model |
|---|---|
| rows of `document_chunks`, `documents.deleted_at`, `knowledge_domains` | `chunk`, `deleted`, `domains` |
| the cosine similarity of a query and a chunk | `score[c]`, any of the functions in `Queries` |
| the rows `search` returns | `found` |
| `assemble_context` | `pos`, `selected`, `token_count`; `Take`, `Overflow`, `Packed` |
| `extract_citations` | `Cite` |
| an indexing run, a soft delete, a domain delete | `Index`, `SoftDelete`, `DeleteDomain` |

One request is enough, because requests only read. The index on the embeddings is an approximate
one (HNSW) and PostgreSQL filters its candidates afterwards, so `Select` may return any
`top_k` or fewer of the rows that qualify, in the order of their scores. Chunks without
an embedding do not occur, since the index transaction inserts text and embedding
together. `Tokens` are at most `Budget`: `CHUNK_MAX_TOKENS` is 512 and
`CONTEXT_TOKEN_BUDGET` is 6000; `Grounded` needs it. A conversation whose domain was
deleted has no `domain_id` any more and its next query searches all domains of the user;
the code means it so (ON DELETE SET NULL), and `asked` is what the request passes on.

## 3. Runs

| Run | Module, configuration | Shows |
|---|---|---|
| `pipeline` | `MCPipeline`, `Pipeline.cfg` | one document, a reprocess, a soft delete, a domain delete, three workers, one retry, one failure: `TypeOK`, `ProcessingIsOwned`, `PendingHasJob`, `GoneIsEmpty`, `ChunkSetsBounded`, `OneChunkSet`, and `Pipeline` implements `DocumentLifecycle` (`LifecycleSpec`; 1 280 000 states) |
| `pipeline_live` | `PipelineLive.cfg` | two workers, no soft delete: `AttemptsSettle`, `Quiesces` under fairness (281 000 states) |
| `query_stream` | `MCQueryEngine`, `QueryStream.cfg` | two queries on one conversation, two tokens each: `TypeOK`, `OnlyDoneIsWritten`, `AnswerFollowsQuestion`, `CancelIsPrompt`, `StreamsEnd`, and `QueryEngine` implements `ConversationLog` (135 000 states) |
| `chunking` | `MCChunking`, `Chunking.cfg` | all texts of up to three paragraphs of four kinds, `max_tokens` and `overlap` 0 to 4, batches of two: `TypeOK`, `WholeRuns`, `NoneInside`, `Aligned` (141 000 states) |
| `accounts` | `MCAccounts`, `Accounts.cfg` | two devices, two users of whom one is an admin, two requests at a time, three tokens, one fault: `TypeOK`, `ClientKeepsSession`, `OneLivePerLogin`, `DeactivationHolds`, and `Accounts` implements `Sessions` (`SignInSessions`; 320 000 states) |
| `message_paging` | `MCMessagePaging`, `MessagePaging.cfg` | two conversations, two writing sessions, five messages, pages of one and two: `TypeOK`, `ReadOnceInOrder`, `NextCursorTells`, and `MessagePaging` implements `ConversationReader` (78 000 states) |
| `domains` | `MCDomains`, `Domains.cfg` | two domains of one owner and one of another, two names, two requests of any kind: `TypeOK`, `NamesStayUnique`, `ScopeExists`, `OnlyAskedChanges`, `EveryRequestAnswered`, `NameIsUsed` (346 000 states) |
| `retrieval` | `MCRetrieval`, `Retrieval.cfg` | five chunks of three documents in three domains, one of them somebody else's, three queries: `TypeOK`, `OnlyReachable`, `BestWithinBudget`, `Grounded` (880 000 states) |

Four runs check what the repository says of itself and find a counterexample:

| Run | Statement | What happens |
|---|---|---|
| `delete_processing` | a document in status `processing` cannot be deleted (`workplan/components/documents.md:54`) | the status is checked on the loaded row, a worker claims the document, `deleted_at` is committed |
| `duplicate_chunks` | clearing before inserting prevents duplicates (`workplan/components/processing_pipeline.md:71`, `:114`) | a reprocess resets a document that is being processed, a second run passes the guard, both delete before either commits |
| `single_use` | refresh tokens are single-use, each refresh revokes the old one (`workplan/components/auth.md:52`) | a client gives up a refresh and repeats it while the first still runs; both passed the check, both are answered with a token, and the sign-in has two that are not revoked |
| `terminal_event` | a retrieval failure ends the stream with an error event (`app/query_engine/service.py:15`) | the domain was deleted, `search` raises `NotFoundError`, nobody catches it |

More differences between the code and what is said of it can be read off the models, and
have no run:

* `reprocess_document` writes no status when the row was loaded as pending
  (`app/documents/service.py:233`; its comment at `:224` says it resets to pending), so the
  status a worker has committed since stays.
* `reprocess_document` leaves `chunk_count` (`app/documents/schemas.py:21` says 0 until
  indexed).
* Question and answer are two commits (`app/query_engine/service.py:187`;
  `workplan/components/query_engine.md:62` says they are persisted atomically), so a question
  can stay alone; `AnswerFollowsQuestion` excludes only an answer without its question.
* A sign-in or refresh that has seen its user active is answered with a token although the
  user is deactivated before it commits (`app/auth/service.py:81`;
  `workplan/components/users.md:42` says deactivated users cannot authenticate).
  `DeactivationHolds` says that only such a request gets a token, none that comes later.
* The second of two concurrent first questions overwrites the title of the first
  (`app/conversations/service.py:195`; `:17` says it is the first user message).
* Overlapping context is not deduplicated, as `workplan/components/query_engine.md:29` says,
  and a failing SELECT is not turned into a 503, as `workplan/components/retrieval.md:71`
  says.
* Deleting a domain removes its documents' rows through the foreign key
  (`workplan/components/domains.md:43` says they are soft-deleted).
* `scripts/createsuperuser.py:30` stores the address as typed, while `app/auth/schemas.py`
  lowers it on every request, so an account made with a capital letter cannot log in.

**Bounds and why they are enough.** Three workers in `pipeline` are one more than the
configured concurrency: with two messages of one document in two runs a third run can meet
them, which is how an upload, a reprocess and a duplicate overlap. One document carries all
requests; documents meet only in the deletion of their domain, and the theorems of section 4
hold for any number. `MaxRetries` is 1 instead of 3: one retry separates "first", "retried"
and "exhausted". `MaxFaults` is 1, so a run has one crash, one duplicate or one lost
message; failures that hit the recovery from a failure are covered by the same theorems,
which hold for any number. `pipeline_live` has two workers and no soft delete, to keep the
graph small enough for the check of a liveness property; that a document
deleted while it waits ends as pending and deleted or with an outcome is `RestIsSettled`,
which is proved. There is one chunk set more
than workers: a commit deletes all that its worker could see, so what stays was put there by the other
workers since, one set each at most, and a set that is in no row can be used again; an INSERT
never lacks one. `MaxTokens` 2 lets a cancel come before, between and after
tokens. Window sizes up to 4 over texts of up to 14 tokens give every relation of size,
overlap and text length (no overlap, one-token step, text shorter than a window, ending
with it, one beyond it), and up to seven batches, so that a short answer comes first, in
the middle and last.
Three tokens are the least for two devices, one of which rotates, and for a rotation
that forks after a request was given up. In `message_paging` two writers are enough to
compete for a row, a second conversation for a mixed-up cursor, and five messages for three
pages of two. In `domains` two requests race and two renames can wait for each other in a
cycle; the third domain shows that another owner's names do not matter. In `retrieval` one document has a chunk
for a second indexing run, the queries rank the chunks strictly, with ties and with one
below the threshold, and sizes 1, 2 and 3 against a budget of 3 give a chunk
that fits exactly, one that does not, and a smaller one after it; `top_k` is one less than
the chunks the caller has. Symmetry is used in the safety runs only, over
workers, chunk sets, devices, requests, tokens, writers and conversations, which no definition tells apart; the runs of liveness properties use none. Deadlock checking is
off because requests are finite in number and the system may come to rest.

**Fairness.** `Pipeline`: an accepted request runs to its end, an idle worker takes a
waiting message, a delivered task goes on. The event loop and the Celery pool schedule
that, and the time limits end a stage that hangs. Weak fairness is per request and per
worker process; no request has to be made and no failure has to happen. `QueryEngine`: a
generator goes on; the awaited calls return or fail, answers are finite (`MaxTokens`). For
OpenAI the default timeouts of its client see to that; for Redis and PostgreSQL no timeout is configured
(`core/redis_client.py`, `core/database.py`), so it is assumed that the connection answers or breaks. Nobody has to cancel or disconnect. `Domains`: a request that has come in goes
on when it can. The event loop schedules it, PostgreSQL wakes who waits for a lock when its
holder ends, and its deadlock detector ends one of a cycle; that is why `Deadlock` is
in the fair `Handle` and `Abort` is not.

`Chunking`, `Accounts`, `MessagePaging` and `Retrieval` have no liveness property and no
fairness: loops over given data, or requests that wait for nobody but the database.

## 4. Proofs

`PipelineProofs` proves, for any sets of documents, requests, workers and chunk sets, any
retry limit and any number of failures, from `PipelineAssumption` and `NoMessageAssumption` alone:

| Theorem | Property |
|---|---|
| `TypeCorrect` | `TypeOK` |
| `ProcessingOwned` | `ProcessingIsOwned` |
| `PendingFollowed` | `PendingHasJob` |
| `NoMoreSetsThanMessages` | `ChunkSetsBounded` |
| `ChunksOfOneRun` | `OneChunkSet` |
| `NoOrphans` | `GoneIsEmpty` |
| `ImplementsLifecycle` | `LifecycleSpec`: `Pipeline` implements `DocumentLifecycle` |
| `EverythingEnds` | every step makes `Fuel`, a natural number, smaller, when the sets are finite |
| `RestIsSettled` | at rest every document is settled, not uploaded, lost to a failure, or pending and deleted |

The argument has four layers. `HolderInv` is `TypeOK`, `SingleHolder` and the fact that a
message is sent only for a document that was inserted. `SingleHolder` is about *copies*: one is in the
queue or with one worker, except that a worker at `"retried"` still has the message whose
retry it has published; its death makes a new copy, which is why this is inductive in spite of
crashes and timeouts. `ProcessingIsOwned` and `PendingHasJob` need none of it: every action
that takes a run or a message away either writes the status or puts the document in `lost`,
and no further copy harms them. `ApartInv` says that no chunk set is in two documents and
that an open transaction has deleted only rows that are still there. `ChunkSetsBounded` rests
on both through `BoundInv`: take any of the runs that are about to commit; the chunk sets none of
them has deleted, and one for each of them, are together no more than the copies. Taking *any*
of them makes it inductive, since a commit leaves those it does not contain alone; at the moment of
a DELETE nothing is kept and the runs are no more than the copies they hold.
`ContentInvAll` says, for a document without a second message, that one worker at most is on it,
that `snap` of a worker about to commit is exactly what is in the table, and how `chunk_count`
goes with `chunks`; `OneChunkSet` and the refinement rest on it. The proofs of a step have
one case per action.

`EverythingEnds` is what makes `Quiesces` true for every size of the system: `Fuel` adds
up the steps that requests and tasks under way have left and nine for every attempt a message
has left, whether it waits or may still be sent by a request or copied by a failure.
A delivery, a redelivery, a duplicate and a retry each trade one of these for steps and come out
lower, because the retry counter only goes up, a failure uses up one of `MaxFaults`, and a message
that is turned away by the guard is acknowledged. `RestIsSettled` then says where it ends. What
it leaves to TLC (`AttemptsSettle`) is fairness: that somebody can take a step before that, and does.

`ChunkingProofs` proves, for any set of texts, any sizes and any batch size, from
`ChunkingAssumption`:

| Theorem | Property |
|---|---|
| `ChunkTypes` | `TypeOK` |
| `RunsStayWhole` | `WholeRuns` |
| `ChunksAdvance` | `NoneInside` |
| `RowsAligned` | `Aligned` |
| `TextRunsDown` | each step ends a phase or takes its loop nearer to its end |

`Shape` adds to the types what each phase relies on (the window begins inside the text,
nothing is sent before the text is cut). `RunsStayWhole` needs `Behind`: while the window
slides, every run that begins before it is already whole in some chunk; a run that
begins in the step just taken ends within the window because step plus overlap is the window's
size. `ChunksAdvance` needs `Frontier`, how far the chunks so far reach. `RowsAligned`
needs `Batches`: after each batch there are at most as many embeddings as chunks sent, and if there
are as many, none was left out and each is in its place; that is why comparing only the
counts is enough. `TextRunsDown` needs `Shape` alone: the guard has let only an overlap below the
window's size through, so the window moves on.

`MessagePagingProofs` proves, for any conversations, writers, page sizes and number of
messages, from `PagingAssumption`:

| Theorem | Property |
|---|---|
| `PagingTypes` | `TypeOK` |
| `ReadInOrder` | `ReadOnceInOrder` |
| `LastPageIsLast` | `NextCursorTells` |
| `ImplementsReader` | `ReaderSpec` |

`PagingInv` has `MessagesInv` (a message about to be committed is later than everything in its
conversation, because its transaction has the row to itself) and `CursorInv` (a cursor is
a message of its conversation and of no other, also while a request carries it). Without
the first a message could be committed behind a cursor; the row lock is what keeps it from that.

`QueryEngineProofs` proves, for any conversations, queries and length of answers, from
`QueryAssumption`:

| Theorem | Property |
|---|---|
| `QueryTypes` | `TypeOK` |
| `CancelPrompt` | `CancelIsPrompt` |
| `DoneIsWritten` | `OnlyDoneIsWritten` |
| `AnswersFollow` | `AnswerFollowsQuestion` |
| `ImplementsLog` | `ConversationLogSpec`: `QueryEngine` implements `ConversationLog` |
| `DeletedEmpty` | a deleted conversation stays empty |
| `StreamsRunDown` | each step of a generator leaves it fewer steps, of at most `2 * MaxTokens + 4`, and no other step gives it any |

`TokensInv` says that no token is sent before the search has ended, so the one of an empty
search is the first. `CancelInv` says that a generator past a late token is never about to send another;
`WrittenInv` relates the step of a generator to what is in the table, except that the
conversation may be gone: who is about to write the answer has written the question.
The order of a log is then kept by each append, whatever the other queries append.
`ImplementsLog` maps the terminal event to `told` and each of the two appends to a step of
the log; in the abstract specification an append asks for the conversation, the
right terminal event and its place after the question, which the code never checks and
`WrittenInv` provides.

`AccountsProofs` proves, for any users, admins, devices, requests and tokens and any number of
faults, from `AccountsAssumption`:

| Theorem | Property |
|---|---|
| `AccountTypes` | `TypeOK` |
| `ImplementsSessions` | `SignInSessions`: `Accounts` implements `Sessions` |
| `RegistrationIsWhole` | an account that registered has a token |
| `SessionKept` | `ClientKeepsSession` |
| `RotationRevokes` | `OneLivePerLogin` |
| `DeactivatedStaysOut` | `DeactivationHolds` |

`Backed` says that every token somebody holds or presents was issued, so that a new one is
nobody's. `Linked` says who presents what: a token is on one device, a device waits for a
request with its own token, and a token presented by a request nobody waits for was given
up. From it, a rotation can only revoke the token of the device that gets the new one, and
a token can only be rotated twice after it was given up. `ImplementsSessions` rests on that and on
two facts more: a request presents a token of its own user (`OwnRequests`), and who was let in for a
sign-in still has an account when the token is written (`KnownSignIns`), since accounts are never
removed. What a request was accepted with (`Shown`) appears when `LoadToken` has found the
token not revoked and goes with the answer; that nobody else was accepted with it, or its client gave
up, is `Linked` once more. A commit of `Issue` is a registration, a sign-in or a rotation of the book; whatever only
loads, waits or fails is a stutter, and so is a second logout with one token.

`DomainsProofs` proves, for any domains, owners, names and requests, from
`DomainsAssumption`:

| Theorem | Property |
|---|---|
| `DomainTypes` | `TypeOK` |
| `NamesUnique` | `NamesStayUnique` |
| `ScopesExist` | `ScopeExists` |
| `OnlyAskedIsWritten` | `OnlyAskedChanges` |
| `NobodyIsStuck` | while a request is unanswered, one can go on or a cycle is there for the deadlock detector, when the requests are finitely many |
| `RequestsRunDown` | each step takes one request nearer to its answer and leaves the others where they are |

`NamesStayUnique` needs `Claimed`: a name in the index and not yet committed is in no
committed row of the owner and in no other open transaction. `Exclusive`, that a row is written by one
transaction at a time, is what keeps the row of an UPDATE in place until its commit.
`NobodyIsStuck` is about any number of requests, so about cycles of any length: suppose nobody
can go on. Then everybody unanswered waits, and for somebody unanswered. Of the sets of
requests in which each waits for another, a smallest one (there is one, strict inclusion of
finite sets being well-founded) is a cycle, for one that nobody in it waits for
could be taken out; and a cycle is what `Deadlock` ends. `CanGoOn` says in state variables when
an action of `Handle` is enabled, since the prover has no `ENABLED`.

`RetrievalProofs` proves, for any chunks, documents, domains, scores, budget and `top_k`, from
`RetrievalAssumption`:

| Theorem | Property |
|---|---|
| `RetrievalTypes` | `TypeOK` |
| `FoundReachable` | `OnlyReachable` |
| `ContextBestWithinBudget` | `BestWithinBudget` |
| `AnswersGrounded` | `Grounded` |

`LostInv` says that what could not be reached when the request came in cannot be reached later;
`PackInv` that the context is a beginning of the results and, as the first result
always fits, not empty when the model is asked. `CountInv` says that `token_count`, which the loop
adds up chunk by chunk, is the sum over the set of chunks taken, and that a context that
ends before the results do ends at one that does not fit.

`SumTheorems` has the lemmas about `SumFunctionOnSet` and `SumFunction` of the community modules
that `CountInv` and `Fuel` rest on: the sum over a finite set is a natural number, taking an
element out lowers it by the element's value, changing one value changes it by as much. They are proved
from the definition of the fold by induction on the set. The library's induction theorems take an
operator as a parameter, which the provers cannot instantiate; `NatSetInduction` says
the same of a *set* of numbers, so a proof by induction first forms the set of the
numbers for which its claim holds.

**Only model-checked:** the liveness properties `AttemptsSettle`, `Quiesces`, `StreamsEnd`,
`EveryRequestAnswered` and `NameIsUsed`, because fairness and `ENABLED` are out of
the prover's reach. What most of them rest on is proved for every size of the system:
that no behaviour goes on for ever (`EverythingEnds`, `StreamsRunDown`, `RequestsRunDown`), that
nobody waits in vain (`NobodyIsStuck`) and where it ends (`RestIsSettled`). Every other
property of the passing runs is a theorem.

## 5. Not modelled

* Lists with offsets (documents, domains, conversations, users): they change nothing, and
  an offset promises nothing while rows come and go.
* The profile update (`app/users/service.py`): a name nothing depends on, and a password,
  whose check is an outcome in `Accounts`; the later of two writes stays.
* Upload validation and extractors: pure functions of a file's bytes, most of them in libraries.
* Hashing, JSON web tokens, rate limiting: libraries. Their answers are outcomes in
  `Accounts`.
* Storage: file I/O behind an interface; its failures are outcomes of a stage in `Pipeline`.
* Configuration, middleware, error formats, migrations: no state that interleaves.
* The wording of prompts, excerpts and answers.

## 6. Plan

Done: `DocumentLifecycle`, `Pipeline`, `Chunking`, `QueryEngine`, `Accounts`,
`ConversationReader`, `MessagePaging`, `Domains`, `Retrieval`, `ConversationLog`, `Sessions`, their runs,
the proofs of their safety properties and refinements, and the measures behind the
liveness properties.

Left, in this order:

1. `Pipeline` and `Retrieval` in one module, so that `Index` is the commit of the task
   and not an action of its own.
2. A run of `Domains` with three requests, for cycles of three (`NobodyIsStuck` has them).
