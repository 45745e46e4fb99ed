# KnowPilot: TLA+ models, checks and proofs

KnowPilot is a Django / Celery / React knowledge assistant. Its own logic sits in
`src/backend/apps`: turns of a chat are generated by Celery workers and streamed through
Redis, workspaces are governed by long-lived requests, and side effects leave through an
outbox. This directory models the parts of that logic that are concurrent, fail in the
middle, or run for a long time, and checks and proves what makes them correct.

Paths below are relative to `src/backend/apps` unless they start with `src/`.

## 1. Inventory

| Part | State it keeps | Operations | Talks to | What is hard | What makes it correct |
|---|---|---|---|---|---|
| Chat turns (`chat/services.py`) | `ChatTurn` rows, `Message` rows | begin, transition, retry; cancellation when the membership ends | every chat component, members | every writer saves over the row from its own copy | one answer per turn; what is completed or cancelled by the client is final |
| v3 generation (`chat/v3_views.py`, `tasks.py`, `generation.py`) | Celery queue `chat_generation`, task state in memory | accept, enqueue, generate, cancel, converge | rows, lease, capacity, streams | redelivery, autoretry, worker loss, faults between any two calls | a single writer per session, no second answer, every turn ends |
| Session lease (`chat/coordination.py`) | Redis key with a token | acquire, renew, ensure_owned, release | v2 and v3 generation | renewal thread, expiry, take-over | at most one owner; a lost lease is noticed |
| Generation capacity (`chat/capacity.py`) | Redis sorted set of reservations | reserve, renew, release, outstanding | web, task, metrics | callers' clocks, lost answers, leaked members, late releases | never more than the limit; places come back |
| Event streams (`chat/stream_events*.py`) | Redis streams, sequence checkpoints | append, batch, replay, converge | workers, SSE readers | append fails after the row was saved | a terminal event is the last one; done means answered |
| v2 inline stream (`chat/views.py`) | generator in the request thread | send_message | lease, streams | client leaves in the middle | lease and store are given back |
| Session memory (`chat/tasks.py`, `memory.py`) | summary, facts, watermark | update_session_memory | turns, LLM | LLM call between read and write | no message folded twice |
| Circuit breaker (`core/circuit_breaker.py`) | state, failures, clock of the last failure | state, allow_request, record_* | pipeline threads | outcomes arrive long after admission | opens at the threshold, is left after the timeout |
| Action outbox (`notifications/outbox_services.py`, `tasks.py`) | outbox rows with state, lease, attempt | enqueue, wake, sweep, claim, settle | join workflow, Celery, providers | lost wakeups, outlived leases, ambiguous failures | every row is delivered, duplicates need a fault |
| Workspace deletion and purge (`spaces/deletion_*.py`, `purge_services.py`) | request, impact cache, job, checkpoints, tombstone | archive, restore, submit, confirm, cancel, claim, wipe, complete, fail | all registered tables, file storage, Redis | owner races dispatcher, leases without renewal, partial failure | destruction is authorised, irrevocable and complete |
| Governed operations (`spaces/governed.py`) | idempotency row per actor, operation, key | probe, claim, complete, replay, durable failure | every governed service | repeated and concurrent requests, errors after writes | one effect, the recorded answer |
| Ownership (`spaces/ownership_services.py`) | owner and ownership version of a workspace, one nomination | request, accept, decline, cancel, force | members, offboarding, outbox | nominations that outlive the nominator | one owner, changed only by acceptance or override |
| Members and offboarding (`spaces/member_services.py`, `admin_views.py`, `rbac/offboarding.py`) | membership rows, accounts | update, remove, assign, offboard, older invite code | ownership, the member's chat | doors without the workspace lock, a deferred trigger | the owner's row is the owner's |
| Join workflow (`spaces/join_services.py`) | codes, access requests, invitations, join policy | issue, redeem, request, decide, invite, answer, join | members, governed operations, outbox | expiry, races of reviewers, late answers | limits of a code, no role change, invitations under their owner |
| Workspace creation (`spaces/creation_services.py`) | creation request, locator reservation | submit, review, create | governed operations | review against expiry | one workspace per approved request |
| Document versions and review (`knowledge/views.py`, `review_views.py`) | documents with a parent, review requests | upload, batch upload, edit, version, roll back, submit, approve, reject, reindex, archive | governed operations, ingestion | two versions in flight, two reviewers, lock order, edits that save an old row | review gate, successors, one verdict |
| Ingestion (`knowledge/ingestion.py`, `rag/services.py`) | ingestion jobs, document status, chunks | enqueue, dispatch, ingest, retry | Celery, embedding service | early acknowledgement, refused or doubled messages | processing means that somebody works |
| Knowledge maintenance (`knowledge/tasks.py`) | document status, chunks | stale scan, confirmation, reclaim | documents | ids listed first, written later | the above, beside it |
| Retrieval (`rag/*`) | none of its own | retrieve, generate | breaker, LLM | numerical | not a state machine |
| SSE readers and frontend (`v3_views`, `src/frontend/src/stream`, `store`) | cursor, store | follow, reconnect, apply | streams | reconnect, replay, earlier attempts | every event applied once, in order |
| Users, audit, templates, taxonomy, API forms | single rows | CRUD | | little | validation |

`PROJECT.json` lists every part with its status, every hazard with its line, and every
definition with the lines it models.

## 2. Modules

| Module | Models | Extended by |
|---|---|---|
| `TurnContract` | what a durable turn promises its client, without queue, workers or Redis | refined by `ChatGeneration` |
| `ChatGeneration` | one session: web requests, queue, workers, rows, lease, capacity set, streams, cancel, polls | `MCChatGeneration`, `ChatGenerationProofs`, `ChatAttemptProofs` |
| `GenerationCapacity` | the Lua scripts over the sorted set with expiry times and skewed clocks | `MCGenerationCapacity`, `GenerationCapacityProofs` |
| `CircuitBreaker` | the breaker and the threads of the pipeline | `MCCircuitBreaker`, `CircuitBreakerProofs` |
| `OutboxContract` | what the outbox promises a business transaction: owed, sent, delivered | refined by `ActionOutbox` |
| `ActionOutbox` | outbox rows, tasks, sweep, workers, provider | `MCActionOutbox`, `ActionOutboxProofs` |
| `DeletionContract` | what a permanent deletion promises the owner of the workspace | refined by `WorkspacePurge` |
| `WorkspacePurge` | one workspace, its deletion request, the dispatchers and the stores | `MCWorkspacePurge`, `WorkspacePurgeProofs` |
| `OwnershipContract` | the ownership register: owner, version, nominee | refined by `JoinWorkflow` |
| `WorkspaceMembers` | owner, membership rows, accounts, nomination, and every door that writes them | `JoinWorkflow` |
| `JoinWorkflow` | codes, requests, invitations and the review screen, composed with `WorkspaceMembers` | `MCJoinWorkflow`, `JoinWorkflowProofs` |
| `OperationContract` | what an Idempotency-Key promises its caller | refined by `DocumentLifecycle` |
| `GovernedOperation` | the record of a key: probe, claim, commit, abort, answer | `DocumentLifecycle` |
| `DocumentLifecycle` | documents, reviews, jobs, messages, web processes and workers, composed with `GovernedOperation` | `MCDocumentLifecycle`, `DocumentLifecycleProofs` |

The five contracts are written for the party that relies on a component, from what its tables,
statuses and answers say, and end with what that party may conclude (`FinishedForGood`, `Honest`,
`Consent`, `VersionNamesTenure`, `OneAnswerPerKey`). The proofs first show the refinement and then derive
those conclusions from the contract alone.

The MC modules hold symmetry sets, and for the two models with the most operations a bound on the effort of a
history. A `Mutant:` definition is a plausible bug next to
the definition it would replace; no specification uses it.

### ChatGeneration
A worker's `pc` names the next database or Redis call of `generate_chat_turn_v3` and
`iter_chat_turn`; every call is one step. A worker's record holds the copy of status and
message id it loaded: `SaveRow` writes over the row as `transition_chat_turn` does, after
checking the copy (`services.py:143`). `web` walks through `accept_chat_turn_v3` with its
clean-up. Retrieval, text and citations are left out; a pipeline is "one more token", "ends"
or "fails". A stream is a sequence of event names, because readers stop at a terminal one.
The rest of a session (other turns) is the same module with two turns. Times are absorbed:
`stale` stands for `updated_at` older than the lease TTL, and expiry is an action.

One writer of these rows is outside the chat. When a workspace removes or demotes a member,
`_fence_member_access` (`spaces/member_services.py:108-164`) deletes the leases of the member's
sessions and cancels their active turns; that is `RemoveMember`, and the row then is `revoked`.
The workers are not told: one that generates notices the lost lease or not, and saves its own copy
over the row. Redis that does not answer refuses the removal (503), which is no step; the deleted
key does not come back when the removal's transaction rolls back, which is a step without rows.
`revoked` is written as `cancelled` by the code; the model keeps the name apart because the
guarantees differ, and `TurnContract` has it as `Revoke` and `Overrule`. After a removal the web
request no longer begins turns of a closed session; the model lets it, which only adds histories.

### GenerationCapacity
Holds the same reservations with times: `registry` maps a turn to the ticks left, by the
clock of Redis' data; every caller brings a clock error within `Skew`. `ChatGeneration` keeps
overlapping tasks of one turn, this module keeps the clocks; neither needs both.
The end of a turn and the release of its place are two steps, as the row is failed or retryable
before the `finally` clause runs (`chat/tasks.py:217-229`): `leaving` counts the releases a turn has
yet to get, without a bound on how long they take, and `robbed` is history: running turns
whose new reservation a release of an earlier attempt took. `cleanup_failure` of the web request
releases before it fails the row, so `Enqueue` stays one step; where a task is retried because Redis did
not answer, its release and its return to the queue are joined, and the overlap is `ChatGeneration`'s.

### CircuitBreaker
`state` is a property with a side effect (`OPEN` decays to `HALF_OPEN` when read), so
`AskState` and `AllowRequest` are two steps, as the lock is released between them. Recovery is
`RecoveryTimeout` ticks; `clock` is absorbed at that bound.

### ActionOutbox
Rows with state, attempt, lease and back-off in ticks; `tasks` counts messages in the queue,
`swept` the ids a sweep has read and not yet sent; `outlived` is history: rows one of whose
deliveries outlived its lease. Claiming, delivering and settling are separate transactions
(`_claim_event`, the adapter, the fenced update).

### WorkspacePurge
Content of the workspace is one version number: the manifest digest depends on it. `wiped[s]` is the
version a store's handler removed. Blockers other than the purge's own rows are one bit; the purge's own
rows block according to `BlockerRows`, because the registry in the database says so and the services'
tests replace it. The handlers of the search and vector stores acknowledge without removing anything
(their rows go with the database), so only `blob` and `replay` are `Physical`. The handler of `replay`
(`spaces/purge_services.py:1085-1127`) removes the keys of the second API version; the streams of the
third (`chat:v3:turn:...`, `chat/stream_events_v3.py:111`) it does not know. They are `streams`, the
ticks until the last of them expires: a turn appends only in a workspace that is not archived, an active
turn is a blocker, and `CHAT_EVENT_V3_TTL_SECONDS` is 900 s where the archive lasts days.
`StreamAssumption` says `StreamTicks <= ArchiveTicks`; no code compares the two. `renew_purge_lease` has
no caller and is no action. Submitting, confirming and cancelling is open to platform administrators too
(`spaces/deletion_services.py:112-115`, `172-175`): "the owner" of `DeletionContract` is whoever may act
for the owner. For `DeletionContract` the workspace is the pair of its owner's tenure and its content;
the age of a request is counted by the contract in the same ticks; the stages are the statuses of the
request.

### WorkspaceMembers and JoinWorkflow
Every service locks the workspace row first, so a call is one step, and a refused call is none.
A membership row is role, status, `term` (no expiry, a date, a passed date) and whether it came
from an invitation; account flags and the nomination are variables of their own. `Doors` says
which older doors are open: the assignment screen, the legacy invite code, the review screen of
the administrators. That screen is two steps (`OpenReview`, `WriteReview`), because it reads the
request without a lock. Expiry of a term, nomination, code, request or invitation is an action.
Left out: the value of the join code, mails and notices, e-mail addresses (an address stands for
its account), archived parents, `membership_version`, and the record of a repeated request, which
`GovernedOperation` models. Demoting or removing a member also fences the member's chat
(`member_services.py:256`, `339`): that half is `ChatGeneration`'s `RemoveMember`, and its refusal when
Redis is down is a refused call here.

### GovernedOperation
One call is `Send`, `Probe`, `Claim`, `Enter`, `Commit` or `Abort`, `Reply`; `Lose` is the death of
the process (an open transaction rolls back) or of the response. `KeyFree` is PostgreSQL: a second
insert of a key waits for the first transaction. The loser gets a server error: the handler of
the IntegrityError (`governed.py:214`) queries inside the atomic block that the error has broken.
The extending module gives the command: its row lock with `Enter`, its effect with `Commit`.

### DocumentLifecycle
Web requests run outside a transaction unless they open one, so a handler is a thread with a next
step and a row (`thread`); the nightly tasks, which list ids and write later, are threads too.
Version creation and rollback are calls of `GovernedOperation`. Locks are derived: a call at work
holds the row of its document, an approval the rows of the review, document, workspace
(`select_related` without `of`) and then parent; `SpaceFree` makes every insert that refers to the
workspace wait. `Deadlock` follows from these and is broken by the database. An ingestion job is
its row, a message of the broker and a worker (`mark`, `ingest`, `publish`, `close` or `fail`).
The message is acknowledged when it is taken; the last retry waits 240 s, the visibility timeout
is 180 s, so it may come twice (`copy`). `chunks` is the set of documents that have chunks,
`scheduled` marks a version that is not yet in force, `by` says which door made the document, and
`stranded` is history: documents whose work was cut off, or which an edit put back into processing.
The doors are the upload (with or without review), the batch upload, which never looks at the review
policy (`BatchUpload`, `batch_views.py:199-222`), version creation and rollback. A PATCH of title or tags
(`views.py:157-161`) reads the row, and saves all of it without a lock: `BeginEdit` and `SaveEdit`, which
writes back the status that was read, whatever the row has become.
Left out: users, roles and separation of duties, calendar days, the number of chunks, hard deletion,
several workspaces and the copies that cloning a workspace makes (`spaces/views.py:236-270`, one more door
straight into processing, of the new workspace), the statuses `uploading` and `expired`, which no code
writes, and refusals that are recorded as failed.

## 3. Runs

| Run | Instance | What it shows |
|---|---|---|
| `breaker` | 3 threads, threshold 3, timeout 2 | state and count never come apart, a failed probe re-opens, `OPEN` is left |
| `chat_redelivery` | 2 turns, 2 workers, 1 attempt, 2 of: crash, failing store, capacity, save, lease or broker call, removal of the member | the system implements `TurnContract`; one answer, nothing after a terminal event, what is completed or cancelled by the client is final |
| `chat_polled` | 1 turn, 2 workers, 1 fault of crash, database, ambiguous, slow, delay | answer if and only if completed, done means answered, single writer; with a polling client every turn ends |
| `outbox_faults` | 2 rows, 2 workers, 2 faults of 5 kinds | the system implements `OutboxContract`; fencing, finality, exclusive delivery, eventual delivery |
| `capacity` | 2 turns, limit 1, TTL 5, task limit 2, skew 1, 3 faults, 2 late releases per turn | the limit holds, running turns that no late release robbed within it, places come back |
| `purge` | 2 dispatchers, 3 events of 6 kinds, 4 lifecycle versions | the system implements `DeletionContract`; authority, irrevocability, completeness (event streams included), one dispatcher |
| `join` | 3 accounts, 1 code, 2 requests, 1 invitation, 2 tenures, effort 6 | one owner through every door, the ownership register, limits of a code, no role change by joining, no service changes a request that has its end |
| `documents` | 4 documents, 2 calls with one key, 2 web processes, 1 worker, 3 reviews, 2 jobs, effort 6 | review gate beside batch upload and edits, successors, one version per key and its answer, final verdicts, stranded only by a fault or an edit, work ends |
| `chat_overwrite` | 1 turn, 2 workers, 2 attempts, 1 crash | finding 1 |
| `purge_never_completes` | 1 dispatcher, no event | finding 2 |
| `double_version` | 2 calls with different keys, effort 4 | finding 3 |
| `join_overruled` | as `join`, the review screen the only other door, effort 4 | finding 4 |

### Bounds and why they are enough
- **Turns, rows, threads.** Turns interact through the lease and the capacity set only, rows
  of the outbox through queue and workers only: two of each show every pairwise conflict.
  Three threads let the breaker's threshold be reached while another caller is between its
  two steps; two turns and a limit of one leave a competitor, and either may be
  tried again before its first task has released.
- **Accounts and documents.** Three accounts are an owner, a successor and an administrator. Four
  documents are one that is indexed and three that are created: two children of one parent and a
  grandchild or a second upload. Two calls are a command and its retry (or, in `double_version`, two
  editors). Two web processes show every pair of handlers; the second worker, whose concurrency
  only multiplies the double delivery, is left to the proofs, which have any number.
- **Effort.** Doors and handlers are many and histories long, so `join` and `documents` bound a
  history by the sum of its costs: in `join` a step costs one and one of member management three,
  six in all; in `documents` a fault costs one, a version, a step of a review or a reindex two,
  other ingestion, maintenance and an edit three, six in all, and what follows from something begun is free.
  So a history holds for instance a command, its retry and two faults; two version commands and an
  approval; a batch upload or an upload beside an edit; an upload, a reindex and a fault.
- **Faults.** A budget shared by all kinds; the interesting histories need one (a redelivery)
  or two (a redelivery and a failed clean-up). `chat_polled` uses one of any kind that can
  strand a turn, `chat_redelivery` two that compose, `purge` and `capacity` three. `chat_polled` has no
  removal of the member, because a removed member cannot poll. Removals count as faults: they are as rare.
- **Times.** Periods are one to five ticks, with the order the deployment has: TTL longer than the task
  limit plus twice the skew, archive retention longer than confirmation, lease shorter than retention,
  streams not longer than the archive. Each period can run out before, in and after every step.
- **Counters.** `MaxAttempts` bounds retries, `MaxLeaving` the tasks of a turn that have yet to release,
  `MaxRetries` those of an ingestion, `MaxLife` archive/restore rounds, `MaxTenures` changes of owner,
  `MaxTasks` messages per row (more messages than workers add nothing; `Wake` absorbs them),
  `BackoffExponent` and `BackoffCap` are the code's `min` with smaller numbers.

Type invariants are proved for every module with proofs, and no run repeats them.
Larger instances that no run repeats were checked too: one turn with three attempts, two faults and removals
has `OneAnswer`, `FinishedIsFinal` and the contract; three turns with a limit of one hold `ActiveWithinLimit`.

### Symmetry
Turns, workers and request rows are interchangeable in the runs that check invariants, a refinement or
box-action properties. Runs with a leads-to property use no symmetry; in `documents` rows are created
in order and the first idle process takes new work.

### Fairness
- *Chat.* Weak fairness of the web request, of each worker, and of expiry: gunicorn and Celery
  run, Redis expires keys. A status poll is a client's decision; `PolledSpec` adds strong fairness
  of the poll, which is the assumption "somebody keeps asking". Late acknowledgement redelivers
  after the visibility timeout of 180 s (`src/backend/config/settings/base.py:416`); the threads pool
  of `src/docker-compose.capacity.yml` does not enforce a task's time limit, which is the fault `slow`.
- *Outbox.* The sweep runs every 60 s (`base.py:253`). Claims of a row are strongly fair: the
  queue is first-in first-out, so a message that stays in it reaches a worker even if that
  worker is busy again and again.
- *Capacity.* Tasks and web requests go on, and time passes; a lost worker is not fair.
- *Breaker.* Time passes and a thread that asked gets its answer. Nobody is forced to ask:
  `OpenIsLeft` excepts the histories in which nobody asks any more or failures go on for ever.
- *Purge.* The management command runs again and again (`Dispatch` weakly fair) and time passes.
- *Documents.* Calls, handlers and workers that do not die go on, and PostgreSQL breaks a cycle of
  locks; nothing that a user or a timer begins is fair.
- *Join.* No liveness is claimed: every step is somebody's decision or a date.

## 4. Proofs

TLAPS proves the following for every value of the constants. The runs above check the same
formulas on small instances first.

- **`ChatGenerationProofs`**: `TypeOK`, `AnswerIffCompleted`, `DoneMeansAnswer` for any number of
  turns, workers and faults. Alone they are not inductive: a worker about to save could hold a
  copy with an answer. `WorkerFacts` says what a worker's record may hold at each `pc` (a worker
  before the saving transaction has no message, one about to emit `done` has stored it); `IInv` is
  the conjunction. `SingleWriterTheorem` assumes only that no lease call or renewal
  fails and that no removal deletes the lease (`"lease"` and `"removal"` are no faults; crashes and every
  other fault stay), and rests on `Holding`: a generating worker is the owner of the lease.
- **`ChatAttemptProofs`**: what holds while one task at a time writes a turn, in three settings.
  `OneAttempt` (one attempt of the client, no task beyond the visibility timeout, no ambiguous
  enqueueing; crashes, redelivery, task retries, removals and every other fault allowed): `OneAnswer`,
  `FinishedIsFinal` and `NothingAfterTerminal`. `OneTask` says that the message is in the queue or with
  one worker, `Recorded` that a worker of a finished row is past its saves and one of an answered row
  does not generate again, `Streamed` that a worker of an ended stream is before the replay or after its
  last append. `NothingRepeats` (any number of attempts; saves, lease calls and the broker fail, the
  member is removed, but no task is lost, repeated or late): `ImplementsContract`. `Attended` says that
  an attempt is with the request, in the queue or with one live task and its row then is active and
  fresh; so a failed turn is begun again only when nobody is left to write it. `Punctual` (`OneAttempt`
  without late messages): `ImplementsContract` again, through crashes and redelivery, by `Faithful`: the
  copy that a worker may still save is active exactly when the row is, because a row is failed by a poll
  only when nobody has the turn, and the next run of a task reads what the last one saved. In the second
  and the third setting the conclusions of `TurnContract` follow (`ClientTheorem`), and for any number
  of retries one answer and final rows (`RetryTheorem`). Final are the turns that are completed or that
  the client cancelled; a turn that a removal revoked is overruled by the worker it did not stop, and
  the contract says so (`Overrule`): it may end as failed or cancelled, or be active again and be
  answered. The settings cannot be widened: with two attempts, each single fault of crash, store,
  capacity or ambiguous, and late messages even with one attempt, gives TLC a history that breaks the
  contract. Finding 1 is one of them.
- **`CircuitBreakerProofs`**: types; closed exactly while fewer failures than the threshold are counted;
  a failure while probing re-opens and restarts the clock.
- **`ActionOutboxProofs`**: fencing (`NewestAttemptOwnsRow` with `SentCounted`), finality of a
  delivered row (`DeliveredAtRest`: such a row waits for nothing and holds no lease), and exclusive
  delivery through `LeaseHeld`: a worker whose delivery is in time holds an unexpired lease under
  the row's newest attempt. `DuplicatesNeedFaults` rests on `Accounted`: one message of a row is free, and
  it is used up by a row that is delivered or whose newest attempt is promising; otherwise every call
  made or under way was paid for by a fault. No kind of fault is excluded. The refinement of
  `OutboxContract` (`OutboxTheorem`) follows from these: a settlement passes the fence only for the newest
  attempt, and that one has sent (`SentTheorem`); the guard of `Send` is `Accounted`; `Known` says that
  no task, sweep, worker or message belongs to a row that does not exist. `HonestTheorem` is
  what the contract then says by itself.
- **`GenerationCapacityProofs`**: the set never exceeds the limit, for all clocks; and if `TTL >
  TaskLimit + 2 * Skew` and no task overruns, running turns are members unless a late release took their
  place (`RunningHeld`), so no more than the limit run beside those. The code validates its settings
  (`src/backend/config/settings/parsing.py:30`) but not this relation.
- **`JoinWorkflowProofs`**: types, `OwnerMirror`, `PendingIsCurrent`, `CodeBudget`, `JoinKeepsStanding`,
  `AcceptedUnderAuthority` and the refinement of `OwnershipContract`, for any accounts, doors, codes and
  limits. `OwnerMirror` and `PendingIsCurrent` hold each other up: accepting is safe because a standing
  nomination names the present owner and tenure, and it does because every change of owner goes through
  `HandOver` or `Voided`. `TenureTheorem` is the consequence of the contract: the ownership version,
  which every service compares, changes exactly with the owner. `VerdictTheorem`: no decision,
  cancellation, redemption, expiry or acceptance by a service changes a request that got its end. The
  review screen does (finding 4); `OverruleTheorem` says that it then writes verdict and reviewer and
  nothing else of the row, and only where it was opened before. `Named` says that a request in use names
  an account and its code. `CodeBudget` counts requests: accepted ones plus pending ones, by
  cardinalities of sets.
- **`DocumentLifecycleProofs`**: types, `VerdictIsFinal`, `OneVersionPerKey`, the refinement of
  `OperationContract`, `SupersededByPublished`, `Gate` and `StrandedByFault`, for any number of
  documents, calls, processes and workers. Six strengthenings: `Links` (handlers, messages and workers
  refer to rows that exist), `LockInv` (one approval holds the workspace, its review is undecided),
  `KeyInv` (a key is held by one call and then has no record; an answer names a record; every version
  has one), `GateInv` (jobs and handlers of an upload, a batch or an administrator's retry belong to
  documents that did not come by the gate, had a review approved or were reindexed; that excludes the
  retry as a way round for histories longer than the run's), `BusyInv` (a document in processing has
  somebody who will write its status, or an edit stranded it; a worker that only closes its job does not
  count), `EditsGivenWay` (an edit that will write `superseded` back has read it from a row that has a
  successor). `CallersOfOneKey` is what the contract means for two callers: with one key they asked for
  the same and got the same, or one is told the key is taken by another request.
- **`WorkspacePurgeProofs`**: `DestructionIsAuthorised`, `CompletedMeansWiped`, `OnePurger`,
  `PurgeIsIrrevocable`, for both contents of the registry. Three strengthenings: `Authority` (a live
  request keeps the workspace archived; a scheduled one will have served both periods when its wait
  ends), `Lineage` (one dispatcher, at a store; no checkpoint before the start) and `Contents` (an
  acknowledged store was wiped of at least what the request froze; content only grows, so equality at
  completion follows from the second manifest). `WipedTheorem` uses `StreamAssumption` for the streams
  that no handler deletes: nothing is appended to them while the workspace is archived, and the archive
  outlasts them. `DeployedRegistryTheorem` proves finding 2 for every instance and with every fault, as
  safety: while the registry names the purge's own rows no request is ever completed. `DeletionTheorem`
  is the refinement of `DeletionContract`: each command, claim, store, failure and completion is a step
  or a stutter of it; the ages of the contract are related to the waits of the model by `Authority`, and
  that what is completed is what was agreed by `Contents` and the versions compared at the claim and at
  the end. `ConsentTheorem` is the consequence for the owner.

The assumptions are the named ASSUMEs of the modules (positive limits, natural periods, known
kinds of faults) and the hypotheses named above. Everything is `Init => IInv`, one lemma per
action, and a last temporal step.

Model-checked only: every liveness property (`TurnsEnd`, `PlacesComeBack`, `EventuallyDelivered`,
`OpenIsLeft`, `WorkEnds`), which needs fairness. Every invariant, action property and refinement of a
passing run is proved; those of `ChatAttemptProofs` under the settings above, because they fail
beyond them.

## 5. Findings

1. **A finished row is overwritten** (`chat/services.py:143`, run `chat_overwrite`). Two tasks of
   one turn exist after a retry that overtakes a redelivery; the later saves from its stale copy.
   The design document of 22 July 2026 (line 139) says the turn is read again before each transition.
   One task and one attempt are enough when the member is removed meanwhile: the worker saves over the
   cancellation of `spaces/member_services.py:157`. The contract calls that turn revoked and allows it.
2. **A purge is never completed** (`spaces/purge_services.py:890`, run `purge_never_completes`).
   Migration 0015 registers the purge's job and checkpoints as open tasks; they block the
   completion and then every further claim. With the registry that the tests substitute the
   protocol has the properties of run `purge`.
3. **Concurrent edits make two current versions** (`knowledge/views.py:853`, run `double_version`).
   The lock on the edited document only puts the two commands in order; the second does not look at
   the status again and makes another active child of a superseded parent. The design of 19 July 2026
   (line 93) says two versions cannot come about.
4. **A verdict is overruled** (`spaces/admin_views.py:670`, run `join_overruled`). The administrators'
   review screen looks at the status outside any transaction and saves its verdict over the one that
   `decide_access_request` gave meanwhile. The specification of 16 July 2026 (line 2378) says concurrent
   decisions yield one outcome.

### Also seen while modelling
No run reports these; the models contain the behaviour.

*Chat and capacity.* A redelivered task that meets the dead worker's lease is dropped
(`chat/generation.py:524`) where the design document (line 137) says it retries; only a status poll ends
its turn. A waiting turn renews its reservation once, not every 30 s as line 57 says. A turn tried again
before its first task has released loses its new place to that release (`chat/tasks.py:225-229`), so
without any fault more turns than the limit generate; `ActiveWithinLimit` excepts the robbed ones. A
retry that comes between the save of `failed` and the append of the error event
(`chat/generation.py:651`) gets that event behind its own `meta` and `queued`; its task finds a stream
that ends in a terminal event and leaves, and a poll fails the new attempt. So `NothingAfterTerminal` is
claimed for one attempt only. The breaker's docstring speaks of one test request where any number is
admitted.

*Purge and outbox.* A purge whose dispatcher died stays `executing`: only scheduled and failed requests
are claimed, where the module's docstring and the specification (lines 2143-2144) call the same job
resumable. `DeletionContract` promises no completion, so no run is about it. A delivery that outlives
its lease is repeated.

*Join and members.*
- An approval on the administrators' review screen demotes an effective member to guest and leaves the
  expiry date.
- The legacy invite code (`spaces/views.py:382`) restores a removed row with its old role and counts
  uses without a lock.
- Requests of an account that was let in by another door stay pending (`join_services.py:1366`;
  lines 2399-2406 of the specification promise otherwise), and answers by invitation, by the review
  screen or by another code never give the pending place of the first code back.
- Invitations made by administrators cannot be accepted: the inviter has to be the owner then.
  Members who came by invitation or have an expiry date can never become owner (the table refuses).
- A pending invitation or transfer past its date blocks a new one until somebody answers it; no
  hourly task expires them.
- `cancel_access_request` and `create_invitation` take their locks in another order than the one
  documented (specification, section 20.3); the victim of the deadlock gets a server error.

*Governed operations.* A concurrent duplicate of a key gets a server error instead of the
recorded answer or `operation_in_progress`; repeating it later is safe, which is what
`OperationContract` promises.

*Documents.*
- A batch upload into a workspace that requires review is indexed without one, and a reindex indexes a
  document that waits for review or was rejected: `knowledge/models.py:73-75` and `review_views.py:7-10` say
  approval is the only transition that triggers indexing. `Gate` speaks of documents that came in by the
  review door, and names the reindex as its exception.
- A PATCH that was read while the document was in processing and is saved after the worker published leaves it
  in processing with nobody at work; likewise a PATCH revives a superseded or archived document.
  `StrandedByFault` names the exception.
- An empty text leaves the document in processing (`rag/services.py:92` expects the pipeline to have
  set the status), and so does a request refused because the workspace was archived meanwhile.
- Approvals out of order leave parent and child active; a version whose embedding fails supersedes its
  parent and leaves nothing served; a rejection by a second review takes a published document out.
- The stale scan and the confirmation of freshness write by ids read earlier, over an archived
  or superseded status.
- A reindex adds chunks to those that are there, and chunks the original file of an edited version.
- An approval and a version command of the same parent can deadlock; the victim's caller tries again.

## 6. Not modelled, and why

Retrieval and language-model work (numerical, no state of their own), API forms, taxonomy,
templates, audit listings (single rows in one request), migrations, seeds, deployment, vendored
skills. The v2 inline stream, session memory, SSE readers, workspace creation and the frontend are
state machines and are in the plan. Within the modelled parts: the sweep's row limit, payload
digests, audit rows, metrics and citations are left out; the manifest's digest is a version number;
section 2 says what each module leaves out.

## 7. Plan

In this order, the most important first:

1. `SessionMemory`: read, LLM, compare-and-set of the watermark; no message folded twice.
   Theorem: summaries are prefixes.
2. `StreamReader`, composed with the streams of `ChatGeneration`: cursor, re-authorisation,
   earlier attempts, expiry; then the frontend transport as its client.
3. `WorkspaceCreation`: locator reservation, review and creation under `GovernedOperation`, with
   the durable refusals that version creation does not have.
4. Composition: `JoinWorkflow` with `ActionOutbox` through `Enqueue`, `WorkspaceMembers` with
   `WorkspacePurge` in place of `OwnershipChanges`, `DocumentLifecycle` with the archive of a workspace.

## 8. Running

    tlc -workers 2 -config Purge.cfg MCWorkspacePurge
    tlapm WorkspacePurgeProofs.tla

The longest run takes about three minutes on two cores; `PROJECT.json` names module and configuration
of each.
