-------------------------- MODULE DocumentLifecycle --------------------------
(***************************************************************************)
(* The documents of one workspace: their versions, their reviews and their *)
(* ingestion.  Web requests run without a surrounding transaction, so a    *)
(* handler is a thread with several steps; version creation is a governed  *)
(* call; ingestion is a job row, a message of the broker and a worker; the *)
(* nightly tasks list documents first and write them later.  Row locks are *)
(* held by a call at work and by an approval, which also locks the row of  *)
(* the workspace and so keeps every insert that refers to it waiting.      *)
(* Chunks are a set of documents that have some; a scheduled version is    *)
(* one that is not in force yet.                                           *)
(***************************************************************************)
EXTENDS GovernedOperation, Naturals

CONSTANTS Docs, Jobs, Reviews,   \* the rows that can be created, in order
          NoDoc,
          Threads,               \* the web and beat processes, in order
          Workers,               \* the ingestion workers, in order
          MaxRetries             \* retries of an ingestion task

ASSUME DocumentAssumption ==
  /\ Docs \subseteq Nat /\ Jobs \subseteq Nat /\ Reviews \subseteq Nat
  /\ Threads \subseteq Nat /\ Workers \subseteq Nat
  /\ 1 \in Docs /\ NoDoc \notin Docs
  /\ NoRequest \notin [doc : Docs, when : {"now", "later"}]
  /\ MaxRetries \in Nat

VARIABLES doc,        \* the document rows
          chunks,     \* the documents that have chunks in the index
          review,     \* the review request rows
          job,        \* the ingestion job rows
          queue,      \* the messages of the broker
          thread,     \* thread[h]: the next step of a handler, and its row
          worker,     \* worker[w]: the next step of a worker, and its message
          stranded    \* history: documents whose work was cut off, or set back by an edit

docVars == <<doc, chunks, review, job, queue, thread, worker, stranded>>

vars == <<doc, chunks, review, job, queue, thread, worker, stranded,
          records, stage, asked, answer>>

Published == {"active", "stale"}
Statuses == {"draft", "pending_review", "rejected", "processing", "active",
             "stale", "failed", "superseded", "archived"}
DocRow == [st : Statuses \cup {"absent"}, parent : Docs \cup {NoDoc},
           by : {"none", "direct", "gate", "batch", "version"}, scheduled : BOOLEAN]
ReviewRow == [doc : Docs \cup {NoDoc},
              decision : {"none", "pending", "approved", "rejected"}]
Triggers == {"upload", "batch", "reindex", "admin_retry"}
JobRow == [st : {"none", "queued", "processing", "retrying", "succeeded", "failed"},
           doc : Docs \cup {NoDoc}, trigger : Triggers \cup {"none"}]
Message == [job : Jobs, tries : 0..MaxRetries, copy : {1, 2}]
Request == [doc : Docs, when : {"now", "later"}]

AtDoc == Triggers \cup {"stage", "file", "refused", "fresh", "stale", "reclaim"}
AtReview == {"approve", "reject", "parent", "publish"}
Idle == [at |-> "idle", item |-> NoDoc]
Handler == {Idle} \cup [at : AtDoc, item : Docs] \cup [at : AtReview, item : Reviews]
                  \cup [at : {"dispatch"}, item : Jobs]
                  \cup [at : {"edit"}, item : Docs, was : Statuses]
Free == [at |-> "idle"]
Task == {Free} \cup [at : {"mark", "ingest", "publish", "close", "empty", "fail", "failjob"},
                     job : Jobs, tries : 0..MaxRetries]

TypeOK == /\ doc \in [Docs -> DocRow]
          /\ chunks \subseteq Docs
          /\ review \in [Reviews -> ReviewRow]
          /\ job \in [Jobs -> JobRow]
          /\ queue \subseteq Message
          /\ thread \in [Threads -> Handler]
          /\ worker \in [Workers -> Task]
          /\ stranded \subseteq Docs
          /\ GovernedTypeOK({KeyOf[c] : c \in Calls}, Request, Docs)

Row(st, parent, by) == [st |-> st, parent |-> parent, by |-> by, scheduled |-> FALSE]

Absent == Row("absent", NoDoc, "none")

(* Document 1 was published directly and is indexed. *)
Init == /\ doc = [d \in Docs |-> IF d = 1 THEN Row("active", NoDoc, "direct") ELSE Absent]
        /\ chunks = {1}
        /\ review = [r \in Reviews |-> [doc |-> NoDoc, decision |-> "none"]]
        /\ job = [j \in Jobs |-> [st |-> "none", doc |-> NoDoc, trigger |-> "none"]]
        /\ queue = {}
        /\ thread = [h \in Threads |-> Idle]
        /\ worker = [w \in Workers |-> Free]
        /\ stranded = {}
        /\ GovernedInit

-----------------------------------------------------------------------------
(* Rows and locks *)

Exists(d) == doc[d].st # "absent"

(* Rows are created in order; the first idle process takes new work. *)
NewDoc(d) == ~Exists(d) /\ \A e \in Docs : e < d => Exists(e)
NewReview(r) == review[r].doc = NoDoc /\ \A q \in Reviews : q < r => review[q].doc # NoDoc
NewJob(j) == job[j].doc = NoDoc /\ \A k \in Jobs : k < j => job[k].doc # NoDoc
NewThread(h) == thread[h] = Idle /\ \A g \in Threads : g < h => thread[g] # Idle

Approving == {h \in Threads : thread[h].at \in {"parent", "publish"}}
SpaceFree == Approving = {}
RowFree(d) ==
  /\ \A c \in Calls : stage[c] = "work" => asked[c].doc # d
  /\ \A h \in Approving :
       /\ review[thread[h].item].doc # d
       /\ thread[h].at = "publish" => doc[review[thread[h].item].doc].parent # d

Goes(h, at, item) == thread' = [thread EXCEPT ![h] = [at |-> at, item |-> item]]
Ends(h) == thread' = [thread EXCEPT ![h] = Idle]
At(h, at) == thread[h].at = at
Sets(d, st) == doc' = [doc EXCEPT ![d].st = st]

PendingReview(d) == \E r \in Reviews : review[r].doc = d /\ review[r].decision = "pending"
Filed(r, d) == review' = [review EXCEPT ![r] = [doc |-> d, decision |-> "pending"]]
ActiveJob(d) == \E j \in Jobs : job[j].doc = d /\ job[j].st \in {"queued", "processing", "retrying"}

-----------------------------------------------------------------------------
(* Uploads, edits and the review gate *)

(* Mutant: the upload goes on to the ingestion although a review is required. *)
UploadAnyway(h, d, gated) ==
  /\ NewThread(h) /\ NewDoc(d) /\ SpaceFree
  /\ doc' = [doc EXCEPT ![d] = Row("draft", NoDoc, IF gated THEN "gate" ELSE "direct")]
  /\ Goes(h, "upload", d)
  /\ UNCHANGED <<chunks, review, job, queue, worker, stranded, governedVars>>

(* The row is committed as a draft; what follows depends on the review policy. *)
Upload(h, d, gated) ==
  /\ NewThread(h) /\ NewDoc(d) /\ SpaceFree
  /\ doc' = [doc EXCEPT ![d] = Row("draft", NoDoc, IF gated THEN "gate" ELSE "direct")]
  /\ Goes(h, IF gated THEN "stage" ELSE "upload", d)
  /\ UNCHANGED <<chunks, review, job, queue, worker, stranded, governedVars>>

(* A file of a batch is a row in processing on its way to the ingestion, whatever *)
(* the review policy says.                                                       *)
BatchUpload(h, d) ==
  /\ NewThread(h) /\ NewDoc(d) /\ SpaceFree
  /\ doc' = [doc EXCEPT ![d] = Row("processing", NoDoc, "batch")]
  /\ Goes(h, "batch", d)
  /\ UNCHANGED <<chunks, review, job, queue, worker, stranded, governedVars>>

(* PATCH: the row is read ... *)
BeginEdit(h, d) ==
  /\ NewThread(h) /\ Exists(d)
  /\ thread' = [thread EXCEPT ![h] = [at |-> "edit", item |-> d, was |-> doc[d].st]]
  /\ UNCHANGED <<doc, chunks, review, job, queue, worker, stranded, governedVars>>

(* ... and saved as a whole, with the status it had then. *)
SaveEdit(h) ==
  LET d == thread[h].item
      was == thread[h].was
  IN  /\ At(h, "edit") /\ RowFree(d)
      /\ Sets(d, was)
      /\ stranded' = IF was = "processing" /\ doc[d].st # "processing"
                     THEN stranded \cup {d} ELSE stranded
      /\ Ends(h)
      /\ UNCHANGED <<chunks, review, job, queue, worker, governedVars>>

SubmitReview(h, d) ==
  /\ NewThread(h)
  /\ doc[d].st \in {"draft", "rejected", "pending_review", "failed"}
  /\ ~PendingReview(d)
  /\ Goes(h, IF doc[d].st = "pending_review" THEN "file" ELSE "stage", d)
  /\ UNCHANGED <<doc, chunks, review, job, queue, worker, stranded, governedVars>>

StageForReview(h) ==
  LET d == thread[h].item IN
  /\ At(h, "stage") /\ RowFree(d)
  /\ Sets(d, "pending_review")
  /\ Goes(h, "file", d)
  /\ UNCHANGED <<chunks, review, job, queue, worker, stranded, governedVars>>

(* After the search for conflicts; one pending review per document. *)
FileReview(h) ==
  LET d == thread[h].item IN
  /\ At(h, "file") /\ SpaceFree /\ RowFree(d)
  /\ IF PendingReview(d) THEN UNCHANGED review
     ELSE \E r \in Reviews : NewReview(r) /\ Filed(r, d)
  /\ Ends(h)
  /\ UNCHANGED <<doc, chunks, job, queue, worker, stranded, governedVars>>

(* Mutant: the parent gives way when the version is staged, not when approved. *)
StagePendingVersionSwitches(d, e, r) ==
  /\ Exists(d) /\ NewDoc(e) /\ NewReview(r)
  /\ SpaceFree /\ RowFree(d)
  /\ doc' = [doc EXCEPT ![e] = Row("pending_review", d, "gate"), ![d].st = "superseded"]
  /\ Filed(r, e)
  /\ UNCHANGED <<chunks, job, queue, thread, worker, stranded, governedVars>>

(* A new version in a workspace that requires review: one transaction. *)
StagePendingVersion(d, e, r) ==
  /\ Exists(d) /\ NewDoc(e) /\ NewReview(r)
  /\ SpaceFree /\ RowFree(d)
  /\ doc' = [doc EXCEPT ![e] = Row("pending_review", d, "gate")]
  /\ Filed(r, e)
  /\ UNCHANGED <<chunks, job, queue, thread, worker, stranded, governedVars>>

-----------------------------------------------------------------------------
(* Version creation and rollback: a governed call *)

SendVersion(c, request) ==
  /\ Exists(request.doc)
  /\ Send(c, request)
  /\ UNCHANGED docVars

ProbeRecord(c) == Probe(c) /\ UNCHANGED docVars

ClaimKey(c) == Claim(c) /\ UNCHANGED docVars

LockDocument(c) == Enter(c) /\ RowFree(asked[c].doc) /\ UNCHANGED docVars

(* The new row with its chunks; one in force at once replaces its parent, and *)
(* does so too when the embedding service fails and the new row ends failed.  *)
CreateVersion(c, e, outcome) ==
  LET d == asked[c].doc
      now == asked[c].when = "now"
      new == [Row(IF outcome = "zero" THEN "failed" ELSE "active", d, "version")
                EXCEPT !.scheduled = ~now]
  IN  /\ stage[c] = "work" /\ NewDoc(e) /\ SpaceFree
      /\ doc' = [doc EXCEPT ![e] = new, ![d].st = IF now THEN "superseded" ELSE @]
      /\ chunks' = (IF now THEN chunks \ {d} ELSE chunks)
                   \cup (IF outcome = "stored" THEN {e} ELSE {})
      /\ Commit(c, e)
      /\ UNCHANGED <<review, job, queue, thread, worker, stranded>>

AbortVersion(c) == Abort(c) /\ UNCHANGED docVars

ReplyVersion(c) == Reply(c) /\ UNCHANGED docVars

LoseCall(c) == Lose(c) /\ UNCHANGED docVars

-----------------------------------------------------------------------------
(* Decisions *)

(* The screen is resolved without a lock and without a look at the decision. *)
Decide(h, r, verdict) ==
  /\ NewThread(h) /\ review[r].doc # NoDoc
  /\ Goes(h, verdict, r)
  /\ UNCHANGED <<doc, chunks, review, job, queue, worker, stranded, governedVars>>

(* Mutant: the decision is not read again under the lock. *)
UndecidedAlways(r) == review[r].doc # NoDoc

Undecided(r) == review[r].decision = "pending"

Reject(h) ==
  LET r == thread[h].item
      d == review[r].doc
  IN  /\ At(h, "reject") /\ SpaceFree /\ RowFree(d)
      /\ IF Undecided(r)
         THEN Sets(d, "rejected") /\ review' = [review EXCEPT ![r].decision = "rejected"]
         ELSE UNCHANGED <<doc, review>>
      /\ Ends(h)
      /\ UNCHANGED <<chunks, job, queue, worker, stranded, governedVars>>

(* The rows of the review, its document and the workspace, then the parent's. *)
LockReview(h) ==
  LET r == thread[h].item
      d == review[r].doc
  IN  /\ At(h, "approve") /\ SpaceFree /\ RowFree(d)
      /\ IF ~Undecided(r) THEN Ends(h)
         ELSE Goes(h, IF doc[d].parent = NoDoc THEN "publish" ELSE "parent", r)
      /\ UNCHANGED <<doc, chunks, review, job, queue, worker, stranded, governedVars>>

LockParent(h) ==
  /\ At(h, "parent")
  /\ RowFree(doc[review[thread[h].item].doc].parent)
  /\ Goes(h, "publish", thread[h].item)
  /\ UNCHANGED <<doc, chunks, review, job, queue, worker, stranded, governedVars>>

(* A published parent gives way; the document becomes active, with chunks, or   *)
(* processing when only its file can be indexed; conflicting documents the     *)
(* reviewer ticked become stale.                                               *)
Publish(h, how, ticked) ==
  LET r == thread[h].item
      d == review[r].doc
      replaced == {p \in Docs : p = doc[d].parent /\ doc[p].st \in Published}
      Status(e) == IF e = d THEN (IF how = "file" THEN "processing" ELSE "active")
                   ELSE IF e \in replaced THEN "superseded"
                   ELSE IF e \in ticked THEN "stale" ELSE doc[e].st
  IN  /\ At(h, "publish")
      /\ \A e \in ticked : doc[e].st = "active" /\ RowFree(e)
      /\ doc' = [e \in Docs |-> [doc[e] EXCEPT !.st = Status(e)]]
      /\ chunks' = (chunks \ replaced) \cup (IF how = "stored" THEN {d} ELSE {})
      /\ review' = [review EXCEPT ![r].decision = "approved"]
      /\ IF how = "file" THEN Goes(h, "upload", d) ELSE Ends(h)
      /\ UNCHANGED <<job, queue, worker, stranded, governedVars>>

(* The database breaks a cycle of waits: the call holds the parent's row and  *)
(* needs the workspace's, the approval holds that one and needs the parent's. *)
Deadlock(c, h) == /\ At(h, "parent") /\ stage[c] = "work"
                  /\ asked[c].doc = doc[review[thread[h].item].doc].parent

BreakDeadlock(c, h) ==
  /\ Deadlock(c, h)
  /\ \/ Ends(h) /\ UNCHANGED governedVars
     \/ Abort(c) /\ UNCHANGED thread
  /\ UNCHANGED <<doc, chunks, review, job, queue, worker, stranded>>

-----------------------------------------------------------------------------
(* Ingestion requests *)

Reindex(h, d) ==
  /\ NewThread(h) /\ RowFree(d)
  /\ doc[d].st \notin {"absent", "processing", "archived"}
  /\ Sets(d, "processing")
  /\ Goes(h, "reindex", d)
  /\ UNCHANGED <<chunks, review, job, queue, worker, stranded, governedVars>>

RetryJob(h, j) ==
  /\ NewThread(h)
  /\ job[j].st = "failed" /\ doc[job[j].doc].st # "archived"
  /\ Goes(h, "admin_retry", job[j].doc)
  /\ UNCHANGED <<doc, chunks, review, job, queue, worker, stranded, governedVars>>

(* Only an administrator's retry is refused beside other work on the document. *)
Enqueue(h) ==
  LET d == thread[h].item
      refused == At(h, "admin_retry") /\ ActiveJob(d)
  IN  /\ thread[h].at \in Triggers
      /\ RowFree(d) /\ SpaceFree
      /\ \/ refused /\ Ends(h) /\ UNCHANGED <<doc, job>>
         \/ /\ ~refused
            /\ Sets(d, "processing")
            /\ \E j \in Jobs :
                 /\ NewJob(j)
                 /\ job' = [job EXCEPT ![j] = [st |-> "queued", doc |-> d,
                                               trigger |-> thread[h].at]]
                 /\ Goes(h, "dispatch", j)
      /\ UNCHANGED <<chunks, review, queue, worker, stranded, governedVars>>

Dispatch(h) ==
  /\ At(h, "dispatch")
  /\ queue' = queue \cup {[job |-> thread[h].item, tries |-> 0, copy |-> 1]}
  /\ Ends(h)
  /\ UNCHANGED <<doc, chunks, review, job, worker, stranded, governedVars>>

DispatchFails(h) ==
  /\ At(h, "dispatch")
  /\ job' = [job EXCEPT ![thread[h].item].st = "failed"]
  /\ Goes(h, "refused", job[thread[h].item].doc)
  /\ UNCHANGED <<doc, chunks, review, queue, worker, stranded, governedVars>>

(* Mutant: only the job is told that its message was refused. *)
FailUndispatchedSilent(h) ==
  /\ At(h, "refused") /\ Ends(h)
  /\ UNCHANGED <<doc, chunks, review, job, queue, worker, stranded, governedVars>>

FailUndispatched(h) ==
  /\ At(h, "refused") /\ RowFree(thread[h].item)
  /\ Sets(thread[h].item, "failed")
  /\ Ends(h)
  /\ UNCHANGED <<chunks, review, job, queue, worker, stranded, governedVars>>

(* The process dies, the database fails, or the workspace was archived before *)
(* the job could be made: a transaction rolls back, what was committed stays. *)
Abandon(h) ==
  LET item == thread[h].item IN
  /\ thread[h] # Idle
  /\ Ends(h)
  /\ stranded' = stranded \cup (IF thread[h].at \in Triggers \cup {"refused"} THEN {item}
                                ELSE IF At(h, "dispatch") THEN {job[item].doc} ELSE {})
  /\ UNCHANGED <<doc, chunks, review, job, queue, worker, governedVars>>

-----------------------------------------------------------------------------
(* The ingestion task; its message is acknowledged when it is taken *)

Works(w, at) == worker' = [worker EXCEPT ![w].at = at]
Rests(w) == worker' = [worker EXCEPT ![w] = Free]
DocOf(w) == job[worker[w].job].doc
JobSt(w, st) == job' = [job EXCEPT ![worker[w].job].st = st]

Take(w, message) ==
  /\ worker[w] = Free /\ \A v \in Workers : v < w => worker[v] # Free
  /\ message \in queue
  /\ queue' = queue \ {message}
  /\ job' = [job EXCEPT ![message.job].st = "processing"]
  /\ worker' = [worker EXCEPT ![w] =
                  [at |-> "mark", job |-> message.job, tries |-> message.tries]]
  /\ UNCHANGED <<doc, chunks, review, thread, stranded, governedVars>>

MarkProcessing(w) ==
  /\ worker[w].at = "mark" /\ RowFree(DocOf(w))
  /\ Sets(DocOf(w), "processing")
  /\ Works(w, "ingest")
  /\ UNCHANGED <<chunks, review, job, queue, thread, stranded, governedVars>>

(* The pipeline stores the chunks one by one: all, some before an error, or   *)
(* none.  Useless vectors end the document failed; an empty text is not marked. *)
Ingest(w, outcome) ==
  LET d == DocOf(w) IN
  /\ worker[w].at = "ingest" /\ RowFree(d) /\ SpaceFree
  /\ chunks' = IF outcome \in {"stored", "partial"} THEN chunks \cup {d} ELSE chunks
  /\ IF outcome = "zero" THEN Sets(d, "failed") ELSE UNCHANGED doc
  /\ stranded' = IF outcome = "empty" THEN stranded \cup {d} ELSE stranded
  /\ Works(w, CASE outcome = "stored" -> "publish"
                [] outcome \in {"zero", "empty"} -> "empty"
                [] outcome \in {"partial", "error"} -> "fail")
  /\ UNCHANGED <<review, job, queue, thread, governedVars>>

Outcomes == {"stored", "partial", "error", "zero", "empty"}

PublishIngested(w) ==
  /\ worker[w].at = "publish" /\ RowFree(DocOf(w))
  /\ Sets(DocOf(w), "active")
  /\ Works(w, "close")
  /\ UNCHANGED <<chunks, review, job, queue, thread, stranded, governedVars>>

CloseJob(w) ==
  /\ worker[w].at \in {"close", "empty"}
  /\ JobSt(w, IF worker[w].at = "close" THEN "succeeded" ELSE "failed")
  /\ Rests(w)
  /\ UNCHANGED <<doc, chunks, review, queue, thread, stranded, governedVars>>

Final(w) == worker[w].tries = MaxRetries

FailDocument(w) ==
  /\ worker[w].at = "fail" /\ RowFree(DocOf(w))
  /\ Sets(DocOf(w), IF Final(w) THEN "failed" ELSE "processing")
  /\ Works(w, "failjob")
  /\ UNCHANGED <<chunks, review, job, queue, thread, stranded, governedVars>>

(* Mutant: the row is told of the retry and the message is forgotten. *)
RetryMessagesForgotten(w, copies) == {}

(* The last retry waits longer than the visibility timeout of the broker, which *)
(* may then deliver it twice.                                                   *)
RetryMessages(w, copies) ==
  IF Final(w) THEN {}
  ELSE {[job |-> worker[w].job, tries |-> worker[w].tries + 1, copy |-> n] : n \in copies}

FailJob(w, copies) ==
  /\ worker[w].at = "failjob"
  /\ copies = {1, 2} => worker[w].tries + 1 = MaxRetries
  /\ JobSt(w, IF Final(w) THEN "failed" ELSE "retrying")
  /\ queue' = queue \cup RetryMessages(w, copies)
  /\ Rests(w)
  /\ UNCHANGED <<doc, chunks, review, thread, stranded, governedVars>>

WorkerDies(w) ==
  /\ worker[w] # Free
  /\ Rests(w)
  /\ stranded' = stranded \cup {DocOf(w)}
  /\ UNCHANGED <<doc, chunks, review, job, queue, thread, governedVars>>

-----------------------------------------------------------------------------
(* Maintenance: rows are read, later written without a second look *)

Maintain(h, d) ==
  /\ NewThread(h)
  /\ \/ doc[d].st = "active" /\ Goes(h, "stale", d)
     \/ doc[d].st = "stale" /\ Goes(h, "fresh", d)
     \/ doc[d].st \in {"superseded", "archived"} /\ Goes(h, "reclaim", d)
  /\ UNCHANGED <<doc, chunks, review, job, queue, worker, stranded, governedVars>>

WriteFreshness(h) ==
  LET d == thread[h].item IN
  /\ thread[h].at \in {"stale", "fresh"} /\ RowFree(d)
  /\ Sets(d, IF At(h, "stale") THEN "stale" ELSE "active")
  /\ Ends(h)
  /\ UNCHANGED <<chunks, review, job, queue, worker, stranded, governedVars>>

ReclaimChunks(h) ==
  /\ At(h, "reclaim")
  /\ chunks' = chunks \ {thread[h].item}
  /\ Ends(h)
  /\ UNCHANGED <<doc, review, job, queue, worker, stranded, governedVars>>

Archive(d) ==
  /\ Exists(d) /\ RowFree(d)
  /\ Sets(d, "archived")
  /\ UNCHANGED <<chunks, review, job, queue, thread, worker, stranded, governedVars>>

-----------------------------------------------------------------------------
(* What users and nightly tasks begin, what goes wrong, and what goes on *)

BeginVersion == \E c \in Calls, request \in Request : SendVersion(c, request)

BeginReview ==
  \/ \E d, e \in Docs, r \in Reviews : StagePendingVersion(d, e, r)
  \/ \E h \in Threads :
       \/ \E d \in Docs : SubmitReview(h, d) \/ Upload(h, d, TRUE)
       \/ \E r \in Reviews, verdict \in {"approve", "reject"} : Decide(h, r, verdict)

BeginIngestion == \E h \in Threads :
  \/ \E d \in Docs : Upload(h, d, FALSE) \/ BatchUpload(h, d) \/ Reindex(h, d)
  \/ \E j \in Jobs : RetryJob(h, j)

BeginMaintenance == \E d \in Docs : \/ Archive(d)
                                   \/ \E h \in Threads : Maintain(h, d) \/ BeginEdit(h, d)

CallFault == \E c \in Calls : AbortVersion(c) \/ LoseCall(c)

ProcessFault == \/ \E h \in Threads : Abandon(h) \/ DispatchFails(h)
                \/ \E w \in Workers : WorkerDies(w)

CallStep(c) == \/ ProbeRecord(c) \/ ClaimKey(c) \/ LockDocument(c) \/ ReplyVersion(c)
               \/ \E e \in Docs, outcome \in {"stored", "empty", "zero"} :
                    CreateVersion(c, e, outcome)

ThreadStep(h) == \/ SaveEdit(h) \/ StageForReview(h) \/ FileReview(h) \/ Reject(h)
                 \/ LockReview(h) \/ LockParent(h)
                 \/ \E how \in {"stored", "bare", "file"}, ticked \in SUBSET Docs :
                      Publish(h, how, ticked)
                 \/ Enqueue(h) \/ Dispatch(h) \/ FailUndispatched(h)
                 \/ WriteFreshness(h) \/ ReclaimChunks(h)

WorkerStep(w) == \/ \E message \in queue : Take(w, message)
                 \/ MarkProcessing(w) \/ PublishIngested(w) \/ CloseJob(w) \/ FailDocument(w)
                 \/ \E outcome \in Outcomes : Ingest(w, outcome)
                 \/ \E copies \in {{1}, {1, 2}} : FailJob(w, copies)

Step == \/ \E c \in Calls : CallStep(c) \/ \E h \in Threads : BreakDeadlock(c, h)
        \/ \E h \in Threads : ThreadStep(h)
        \/ \E w \in Workers : WorkerStep(w)

Next == \/ BeginVersion \/ BeginReview \/ BeginIngestion \/ BeginMaintenance
        \/ CallFault \/ ProcessFault
        \/ Step

Spec == Init /\ [][Next]_vars

(* Processes that do not die go on; the database breaks deadlocks. *)
Fairness == /\ \A c \in Calls : WF_vars(CallStep(c))
            /\ \A c \in Calls, h \in Threads : WF_vars(BreakDeadlock(c, h))
            /\ \A h \in Threads : WF_vars(ThreadStep(h))
            /\ \A w \in Workers : WF_vars(WorkerStep(w))

-----------------------------------------------------------------------------
(* Properties *)

Approved(d) == \E r \in Reviews : review[r].doc = d /\ review[r].decision = "approved"

(* A document that came in by the review gate, as an upload or as a version   *)
(* for review, has chunks in the index only once one of its reviews was       *)
(* approved or somebody asked to reindex it, which looks at no review; an     *)
(* administrator's retry is no way round, and an edit that brings back an old *)
(* status is none (publication of review_views, Document.status).             *)
Gate == \A d \in chunks :
          doc[d].by = "gate" =>
            Approved(d) \/ \E j \in Jobs : job[j].doc = d /\ job[j].trigger = "reindex"

(* A version gives way only to a child that was published: created directly  *)
(* or approved (_create_version_atomically and _publish_approved_version).   *)
SupersededByPublished ==
  \A d \in Docs : doc[d].st = "superseded" =>
    \E e \in Docs : doc[e].parent = d /\ (doc[e].by = "version" \/ Approved(e))

(* However a version command is retried, its key has one record, every version *)
(* is the result of one record, and that record names its parent.              *)
OneVersionPerKey ==
  /\ \A a, b \in records : a.key = b.key \/ a.body = b.body => a = b
  /\ \A d \in Docs : doc[d].by = "version" =>
       \E row \in records : row.body = d /\ row.request.doc = doc[d].parent

(* Somebody has work on the document that will end with a status. *)
InWork(d) ==
  \/ \E h \in Threads :
       \/ thread[h].item = d /\ thread[h].at \in {"upload", "batch", "reindex", "refused"}
       \/ At(h, "dispatch") /\ job[thread[h].item].doc = d
  \/ \E m \in queue : job[m.job].doc = d
  \/ \E w \in Workers : worker[w] # Free /\ DocOf(w) = d

(* A document stays in processing without anybody working on it only when a   *)
(* process died, a step was refused after the status was written, its text    *)
(* was empty, or an edit that had read it in processing was saved after it    *)
(* had left processing.                                                       *)
StrandedByFault == \A d \in Docs : doc[d].st = "processing" => InWork(d) \/ d \in stranded

(* Two reviewers who decide at the same time: the first verdict stands. *)
VerdictIsFinal ==
  [][\A r \in Reviews : review[r].decision \in {"approved", "rejected"} =>
       review'[r] = review[r]]_vars

(* The version command keeps the promise of its key. *)
Operation == INSTANCE OperationContract WITH
  Requests <- Request, Bodies <- Docs, outcome <- records,
  told <- [c \in Calls |-> IF stage[c] = "done" THEN answer[c] ELSE NoAnswer]

ImplementsOperation == Operation!Spec

(* What has been begun comes to an end: a version command gets its answer, also *)
(* beside an approval of a child of its document, and an ingestion job ends,    *)
(* unless a fault has stranded its document.                                    *)
Unfinished == \/ \E c \in Calls : InFlight(c)
              \/ \E j \in Jobs : /\ job[j].st \in {"queued", "processing", "retrying"}
                                  /\ job[j].doc \notin stranded

WorkEnds == Unfinished ~> ~Unfinished

(* Refuted: concurrent edits of one document do not lead to two versions that *)
(* are both served.                                                           *)
Served(d) == doc[d].st \in Published /\ d \in chunks /\ ~doc[d].scheduled
NoDoubleVersion == \A d, e \in Docs :
  Served(d) /\ Served(e) /\ doc[d].parent # NoDoc /\ doc[d].parent = doc[e].parent => d = e
=============================================================================
