----------------------- MODULE DocumentLifecycleProofs -----------------------
(***************************************************************************)
(* TLAPS proofs about GovernedOperation and DocumentLifecycle, for any     *)
(* calls and keys, any rows, processes and workers, and any retry limit.   *)
(***************************************************************************)
EXTENDS DocumentLifecycle, TLAPS

(* Rows that are referred to exist, rows that do not exist are blank. *)
DocLinks == \A d \in Docs : Exists(d) \/ doc[d] = Absent
ChunkLinks == \A d \in chunks : Exists(d)
ReviewLinks == \A r \in Reviews : review[r].doc # NoDoc => Exists(review[r].doc)
JobLinks == \A j \in Jobs : IF job[j].doc = NoDoc THEN job[j].st = "none"
                                                   ELSE Exists(job[j].doc)
ItemLinks(h) == /\ thread[h].at \in AtDoc \cup {"edit"} => Exists(thread[h].item)
                /\ thread[h].at \in AtReview => review[thread[h].item].doc # NoDoc
                /\ At(h, "dispatch") => job[thread[h].item].doc # NoDoc
ThreadLinks == \A h \in Threads : ItemLinks(h)
QueueLinks == \A m \in queue : job[m.job].doc # NoDoc
WorkerLinks == \A w \in Workers : worker[w] # Free => job[worker[w].job].doc # NoDoc
CallLinks == \A c \in Calls : stage[c] # "idle" => asked[c] \in Request /\ Exists(asked[c].doc)

Links == /\ DocLinks /\ ChunkLinks /\ ReviewLinks /\ JobLinks /\ ThreadLinks
         /\ QueueLinks /\ WorkerLinks /\ CallLinks

TInv == TypeOK /\ Links

(* What a step may do to each table. *)
Keys == {KeyOf[c] : c \in Calls}
DocFrame == /\ doc' \in [Docs -> DocRow]
            /\ \A d \in Docs : /\ Exists(d)' \/ doc'[d] = Absent
                               /\ Exists(d) => /\ Exists(d)'
                                               /\ doc'[d].parent = doc[d].parent
                                               /\ doc'[d].by = doc[d].by
ChunkFrame == \A d \in chunks' : d \in Docs /\ (d \in chunks \/ Exists(d)')
ReviewFrame == /\ review' \in [Reviews -> ReviewRow]
               /\ \A r \in Reviews :
                    /\ review[r].doc # NoDoc => review'[r].doc = review[r].doc
                    /\ review'[r].doc = review[r].doc \/ Exists(review[r].doc)'
JobFrame == /\ job' \in [Jobs -> JobRow]
            /\ \A j \in Jobs :
                 /\ job[j].doc # NoDoc => /\ job'[j].doc = job[j].doc
                                          /\ job'[j].trigger = job[j].trigger
                 /\ \/ job'[j] = job[j]
                    \/ job'[j].doc # NoDoc /\ job'[j].doc = job[j].doc
                    \/ job'[j].doc # NoDoc /\ Exists(job[j].doc)'
ThreadFrame == /\ thread' \in [Threads -> Handler]
               /\ \A h \in Threads : thread'[h] = thread[h] \/ ItemLinks(h)'
QueueFrame == \A m \in queue' : m \in Message /\ (m \in queue \/ job'[m.job].doc # NoDoc)
WorkerFrame ==
  /\ worker' \in [Workers -> Task]
  /\ \A w \in Workers : \/ worker'[w] = Free
                        \/ worker[w] # Free /\ worker'[w].job = worker[w].job
                        \/ job'[worker'[w].job].doc # NoDoc
CallFrame == /\ GovernedTypeOK(Keys, Request, Docs)'
             /\ \A c \in Calls : stage'[c] # "idle" =>
                  \/ stage[c] # "idle" /\ asked'[c] = asked[c]
                  \/ asked'[c] \in Request /\ Exists(asked[c].doc)'

Frames == /\ DocFrame /\ ChunkFrame /\ ReviewFrame /\ JobFrame /\ ThreadFrame
          /\ QueueFrame /\ WorkerFrame /\ CallFrame /\ stranded' \subseteq Docs

-----------------------------------------------------------------------------
(* Types of rows *)

LEMMA HandlerType ==
  ASSUME NEW t \in Handler
  PROVE  /\ t.at \in AtDoc \cup {"edit"} => t.item \in Docs
         /\ t.at = "edit" => t.was \in Statuses
         /\ t.at \in AtReview => t.item \in Reviews
         /\ t.at = "dispatch" => t.item \in Jobs
         /\ t.at = "idle" => t = Idle
         /\ t.at \in {"idle", "dispatch", "edit"} \cup AtDoc \cup AtReview
BY DEF Handler, Idle, AtDoc, AtReview, Triggers

LEMMA TaskType ==
  ASSUME NEW t \in Task, t # Free
  PROVE  /\ t.job \in Jobs /\ t.tries \in 0..MaxRetries
         /\ t.at \in {"mark", "ingest", "publish", "close", "empty", "fail", "failjob"}
BY DEF Task, Free

LEMMA TaskMoves ==
  ASSUME NEW t \in Task, t # Free, NEW n,
         NEW at \in {"mark", "ingest", "publish", "close", "empty", "fail", "failjob"},
         n = [t EXCEPT !.at = at]
  PROVE  n \in Task /\ n # Free /\ n.at = at /\ n.job = t.job /\ n.tries = t.tries
BY DEF Task, Free

LEMMA RowTyped ==
  ASSUME NEW st \in {"draft", "pending_review", "processing", "active", "failed"},
         NEW p \in Docs \cup {NoDoc}, NEW by \in {"direct", "gate", "batch", "version"}
  PROVE  /\ Row(st, p, by) \in DocRow
         /\ Row(st, p, by).st = st /\ Row(st, p, by).parent = p /\ Row(st, p, by).by = by
         /\ Absent \in DocRow /\ Absent.st = "absent"
BY DEF Row, DocRow, Absent, Statuses

LEMMA Rescheduled ==
  ASSUME NEW r \in DocRow, NEW later \in BOOLEAN, NEW n, n = [r EXCEPT !.scheduled = later]
  PROVE  n \in DocRow /\ n.st = r.st /\ n.parent = r.parent /\ n.by = r.by
BY DEF DocRow, Statuses

(* The frames are what the invariant needs. *)
LEMMA FramesKeep ==
  ASSUME DocumentAssumption, TInv, Frames
  PROVE  TInv'
<1> USE DEF TInv
<1>1. TypeOK'
  BY DEF Frames, DocFrame, ChunkFrame, ReviewFrame, JobFrame, ThreadFrame, QueueFrame,
         WorkerFrame, CallFrame, TypeOK, Keys
<1>d. \A d \in Docs : Exists(d) => Exists(d)'
  BY DEF Frames, DocFrame
<1>2. DocLinks' /\ ChunkLinks'
  BY <1>d DEF Frames, DocFrame, ChunkFrame, DocLinks, ChunkLinks, Links, TypeOK
<1>3. ReviewLinks'
  <2> SUFFICES ASSUME NEW r \in Reviews, review'[r].doc # NoDoc
               PROVE  Exists(review[r].doc)'
    BY DEF ReviewLinks
  <2>1. review'[r].doc = review[r].doc \/ Exists(review[r].doc)'
    BY DEF Frames, ReviewFrame
  <2>2. CASE review'[r].doc = review[r].doc
    <3>1. Exists(review[r].doc) /\ review[r].doc \in Docs
      BY <2>2 DEF Links, ReviewLinks, TypeOK, ReviewRow
    <3> QED
      BY <2>2, <3>1, <1>d DEF Exists
  <2> QED
    BY <2>1, <2>2
<1>4. JobLinks'
  <2> SUFFICES ASSUME NEW j \in Jobs
               PROVE  IF job'[j].doc = NoDoc THEN job'[j].st = "none" ELSE Exists(job[j].doc)'
    BY DEF JobLinks
  <2>1. CASE job'[j].doc = job[j].doc
    <3>1. CASE job[j].doc = NoDoc
      BY <2>1, <3>1 DEF Frames, JobFrame, Links, JobLinks
    <3>2. CASE job[j].doc # NoDoc
      <4>1. Exists(job[j].doc) /\ job[j].doc \in Docs
        BY <3>2 DEF Links, JobLinks, TypeOK, JobRow
      <4> QED
        BY <2>1, <3>2, <4>1, <1>d DEF Exists
    <3> QED
      BY <3>1, <3>2
  <2>2. CASE job'[j].doc # job[j].doc
    BY <2>2 DEF Frames, JobFrame
  <2> QED
    BY <2>1, <2>2
<1>j. \A j \in Jobs : job[j].doc # NoDoc => job'[j].doc # NoDoc
  BY DEF Frames, JobFrame
<1>r. \A r \in Reviews : review[r].doc # NoDoc => review'[r].doc # NoDoc
  BY DEF Frames, ReviewFrame
<1>5. ThreadLinks'
  <2> SUFFICES ASSUME NEW h \in Threads, thread'[h] = thread[h]
               PROVE  ItemLinks(h)'
    BY DEF ThreadLinks, Frames, ThreadFrame
  <2>1. thread[h] \in Handler /\ ItemLinks(h)
    BY DEF TypeOK, Links, ThreadLinks
  <2> QED
    BY <2>1, <1>d, <1>j, <1>r, HandlerType DEF ItemLinks, At
<1>6. QueueLinks'
  <2> SUFFICES ASSUME NEW m \in queue' PROVE job'[m.job].doc # NoDoc
    BY DEF QueueLinks
  <2>1. CASE m \in queue
    BY <2>1, <1>j DEF Links, QueueLinks, TypeOK, Message
  <2> QED
    BY <2>1 DEF Frames, QueueFrame
<1>7. WorkerLinks'
  <2> SUFFICES ASSUME NEW w \in Workers, worker'[w] # Free PROVE job'[worker'[w].job].doc # NoDoc
    BY DEF WorkerLinks
  <2>1. CASE worker[w] # Free /\ worker'[w].job = worker[w].job
    <3>1. worker[w] \in Task /\ worker[w] # Free
      BY <2>1 DEF TypeOK
    <3>2. worker[w].job \in Jobs
      BY <3>1, TaskType
    <3>3. job[worker[w].job].doc # NoDoc
      BY <3>1 DEF Links, WorkerLinks
    <3> QED
      BY <2>1, <3>2, <3>3, <1>j
  <2> QED
    BY <2>1 DEF Frames, WorkerFrame
<1>8. CallLinks'
  <2> SUFFICES ASSUME NEW c \in Calls, stage'[c] # "idle"
               PROVE  asked'[c] \in Request /\ Exists(asked[c].doc)'
    BY DEF CallLinks
  <2>1. CASE stage[c] # "idle" /\ asked'[c] = asked[c]
    <3>1. asked[c] \in Request /\ Exists(asked[c].doc)
      BY <2>1 DEF Links, CallLinks
    <3>2. asked[c].doc \in Docs
      BY <3>1 DEF Request
    <3> QED
      BY <2>1, <3>1, <3>2, <1>d DEF Exists
  <2> QED
    BY <2>1 DEF Frames, CallFrame
<1> QED
  BY <1>1, <1>2, <1>3, <1>4, <1>5, <1>6, <1>7, <1>8 DEF Links

-----------------------------------------------------------------------------
(* What the steps of a handler and of a worker know about their rows *)

LEMMA ItemFacts ==
  ASSUME DocumentAssumption, TInv, NEW h \in Threads
  PROVE  /\ thread[h].at \in AtDoc \cup {"edit"} =>
              thread[h].item \in Docs /\ Exists(thread[h].item)
         /\ thread[h].at = "edit" => thread[h].was \in Statuses
         /\ thread[h].at \in AtReview =>
              /\ thread[h].item \in Reviews
              /\ review[thread[h].item].doc \in Docs
              /\ Exists(review[thread[h].item].doc)
         /\ thread[h].at = "dispatch" =>
              /\ thread[h].item \in Jobs
              /\ job[thread[h].item].doc \in Docs
              /\ Exists(job[thread[h].item].doc)
<1>1. thread[h] \in Handler /\ ItemLinks(h)
  BY DEF TInv, TypeOK, Links, ThreadLinks
<1>2. CASE thread[h].at \in AtDoc \cup {"edit"}
  BY <1>1, <1>2, HandlerType DEF ItemLinks, AtDoc, AtReview, Triggers
<1>3. CASE thread[h].at \in AtReview
  <2>1. thread[h].item \in Reviews /\ review[thread[h].item].doc # NoDoc
    BY <1>1, <1>3, HandlerType DEF ItemLinks
  <2> QED
    BY <2>1, <1>3 DEF TInv, TypeOK, ReviewRow, Links, ReviewLinks, AtDoc, AtReview, Triggers
<1>4. CASE thread[h].at = "dispatch"
  <2>1. thread[h].item \in Jobs /\ job[thread[h].item].doc # NoDoc
    BY <1>1, <1>4, HandlerType DEF ItemLinks, At
  <2> QED
    BY <2>1, <1>4 DEF TInv, TypeOK, JobRow, Links, JobLinks, AtDoc, AtReview, Triggers
<1> QED
  BY <1>2, <1>3, <1>4

LEMMA WorkerFacts ==
  ASSUME DocumentAssumption, TInv, NEW w \in Workers, worker[w] # Free
  PROVE  /\ worker[w] \in Task /\ worker[w].job \in Jobs
         /\ job[worker[w].job].doc # NoDoc
         /\ DocOf(w) \in Docs /\ Exists(DocOf(w))
<1>1. worker[w] \in Task /\ job[worker[w].job].doc # NoDoc
  BY DEF TInv, TypeOK, Links, WorkerLinks
<1>2. worker[w].job \in Jobs
  BY <1>1, TaskType
<1>3. job[worker[w].job] \in JobRow
  BY <1>2 DEF TInv, TypeOK
<1>4. DocOf(w) \in Docs
  BY <1>1, <1>3 DEF JobRow, DocOf
<1>5. Exists(DocOf(w))
  BY <1>1, <1>2 DEF TInv, Links, JobLinks, DocOf
<1> QED
  BY <1>1, <1>2, <1>4, <1>5

-----------------------------------------------------------------------------
(* Frames of single tables *)

LEMMA SameFrames ==
  ASSUME DocumentAssumption, TInv
  PROVE  /\ UNCHANGED doc => DocFrame
         /\ UNCHANGED chunks => ChunkFrame
         /\ UNCHANGED review => ReviewFrame
         /\ UNCHANGED job => JobFrame
         /\ UNCHANGED thread => ThreadFrame
         /\ UNCHANGED queue => QueueFrame
         /\ UNCHANGED worker => WorkerFrame
         /\ UNCHANGED governedVars => CallFrame
         /\ UNCHANGED stranded => stranded' \subseteq Docs
<1> USE DEF TInv, TypeOK
<1>1. UNCHANGED doc => DocFrame
  BY DEF DocFrame, Links, DocLinks, Exists
<1>2. UNCHANGED chunks => ChunkFrame
  BY DEF ChunkFrame
<1>3. UNCHANGED review => ReviewFrame
  BY DEF ReviewFrame
<1>4. UNCHANGED job => JobFrame
  BY DEF JobFrame
<1>5. UNCHANGED thread => ThreadFrame
  BY DEF ThreadFrame
<1>6. UNCHANGED queue => QueueFrame
  BY DEF QueueFrame
<1>7. UNCHANGED worker => WorkerFrame
  <2> SUFFICES ASSUME UNCHANGED worker PROVE WorkerFrame
    OBVIOUS
  <2>1. worker' \in [Workers -> Task]
    OBVIOUS
  <2>2. \A w \in Workers : worker'[w] = worker[w]
    OBVIOUS
  <2> QED
    BY <2>1, <2>2 DEF WorkerFrame
<1>8. UNCHANGED governedVars => CallFrame
  BY DEF CallFrame, governedVars, GovernedTypeOK, Keys
<1>9. UNCHANGED stranded => stranded' \subseteq Docs
  OBVIOUS
<1> QED
  BY <1>1, <1>2, <1>3, <1>4, <1>5, <1>6, <1>7, <1>8, <1>9

(* A status is written on a row that exists. *)
LEMMA SetsFrame ==
  ASSUME DocumentAssumption, TInv, NEW d \in Docs, Exists(d), NEW st \in Statuses, Sets(d, st)
  PROVE  /\ DocFrame
         /\ doc'[d].st = st
         /\ \A e \in Docs : e # d => doc'[e] = doc[e]
<1>1. doc \in [Docs -> DocRow] /\ DocLinks
  BY DEF TInv, TypeOK, Links
<1>2. doc'[d] = [doc[d] EXCEPT !.st = st] /\ \A e \in Docs : e # d => doc'[e] = doc[e]
  BY <1>1 DEF Sets
<1>3. doc[d] \in DocRow
  BY <1>1
<1>4. /\ doc'[d] \in DocRow /\ doc'[d].st = st
      /\ doc'[d].parent = doc[d].parent /\ doc'[d].by = doc[d].by
  BY <1>2, <1>3 DEF DocRow, Statuses
<1>5. doc' \in [Docs -> DocRow]
  <2>1. DOMAIN doc' = Docs /\ doc' = [e \in Docs |-> doc'[e]]
    BY <1>1 DEF Sets
  <2>2. \A e \in Docs : doc'[e] \in DocRow
    BY <1>1, <1>2, <1>4
  <2> QED
    BY <2>1, <2>2
<1>6. Exists(d)'
  BY <1>4 DEF Exists, Statuses
<1> QED
  BY <1>1, <1>2, <1>4, <1>5, <1>6 DEF DocFrame, Exists, DocLinks

(* A row is made; another may get a new status. *)
LEMMA NewRowFrame ==
  ASSUME DocumentAssumption, TInv, NEW e \in Docs, ~Exists(e),
         doc' \in [Docs -> DocRow], doc'[e].st # "absent",
         \A x \in Docs : x # e =>
           \/ doc'[x] = doc[x]
           \/ /\ Exists(x) /\ doc'[x].st # "absent"
              /\ doc'[x].parent = doc[x].parent /\ doc'[x].by = doc[x].by
  PROVE  DocFrame
<1>1. DocLinks
  BY DEF TInv, Links
<1> QED
  BY <1>1 DEF DocFrame, Exists, DocLinks

LEMMA GoesFrame ==
  ASSUME DocumentAssumption, TInv, NEW h \in Threads, NEW at, NEW item,
         Goes(h, at, item), [at |-> at, item |-> item] \in Handler,
         at # "edit", at \in AtDoc => Exists(item)',
         at \in AtReview => review'[item].doc # NoDoc,
         at = "dispatch" => job'[item].doc # NoDoc
  PROVE  /\ ThreadFrame
         /\ thread'[h] = [at |-> at, item |-> item]
         /\ thread'[h].at = at /\ thread'[h].item = item
         /\ \A g \in Threads : g # h => thread'[g] = thread[g]
<1>1. thread \in [Threads -> Handler]
  BY DEF TInv, TypeOK
<1>2. /\ thread' \in [Threads -> Handler]
      /\ thread'[h] = [at |-> at, item |-> item]
      /\ \A g \in Threads : g # h => thread'[g] = thread[g]
  BY <1>1 DEF Goes
<1>3. thread'[h].at = at /\ thread'[h].item = item
  BY <1>2
<1>4. ItemLinks(h)'
  BY <1>3 DEF ItemLinks, At, Exists
<1> QED
  BY <1>2, <1>3, <1>4 DEF ThreadFrame

LEMMA EndsFrame ==
  ASSUME DocumentAssumption, TInv, NEW h \in Threads, Ends(h)
  PROVE  /\ ThreadFrame
         /\ thread'[h] = Idle /\ thread'[h].at = "idle"
         /\ \A g \in Threads : g # h => thread'[g] = thread[g]
<1>1. thread \in [Threads -> Handler] /\ Idle \in Handler
  BY DEF TInv, TypeOK, Handler
<1>2. /\ thread' \in [Threads -> Handler]
      /\ thread'[h] = Idle
      /\ \A g \in Threads : g # h => thread'[g] = thread[g]
  BY <1>1 DEF Ends
<1>3. ItemLinks(h)' /\ thread'[h].at = "idle"
  BY <1>2 DEF ItemLinks, At, Idle, AtDoc, AtReview, Triggers
<1> QED
  BY <1>2, <1>3 DEF ThreadFrame

LEMMA WorksFrame ==
  ASSUME DocumentAssumption, TInv, NEW w \in Workers, worker[w] # Free,
         NEW at \in {"mark", "ingest", "publish", "close", "empty", "fail", "failjob"},
         Works(w, at)
  PROVE  /\ WorkerFrame
         /\ worker'[w].at = at /\ worker'[w] # Free /\ worker'[w].job = worker[w].job
         /\ worker'[w].tries = worker[w].tries
         /\ \A v \in Workers : v # w => worker'[v] = worker[v]
<1>1. worker \in [Workers -> Task] /\ worker[w] \in Task
  BY DEF TInv, TypeOK
<1>2. worker'[w] = [worker[w] EXCEPT !.at = at] /\ \A v \in Workers : v # w => worker'[v] = worker[v]
  BY <1>1 DEF Works
<1>3. /\ worker'[w] \in Task /\ worker'[w].at = at /\ worker'[w].job = worker[w].job
      /\ worker'[w] # Free /\ worker'[w].tries = worker[w].tries
  BY <1>1, <1>2, TaskMoves
<1>4. worker' \in [Workers -> Task]
  <2>1. worker' = [v \in Workers |-> worker'[v]]
    BY <1>1 DEF Works
  <2> QED
    BY <2>1, <1>1, <1>2, <1>3
<1>5. \A v \in Workers : \/ worker'[v] = Free
                         \/ worker[v] # Free /\ worker'[v].job = worker[v].job
  BY <1>2, <1>3
<1> QED
  BY <1>2, <1>3, <1>4, <1>5 DEF WorkerFrame

LEMMA RestsFrame ==
  ASSUME DocumentAssumption, TInv, NEW w \in Workers, Rests(w)
  PROVE  /\ WorkerFrame
         /\ worker'[w] = Free
         /\ \A v \in Workers : v # w => worker'[v] = worker[v]
<1>1. worker \in [Workers -> Task] /\ Free \in Task
  BY DEF TInv, TypeOK, Task
<1> QED
  BY <1>1 DEF Rests, WorkerFrame

(* A new status of a job that exists. *)
LEMMA JobStatusFrame ==
  ASSUME DocumentAssumption, TInv, NEW j \in Jobs, job[j].doc # NoDoc,
         NEW st \in {"queued", "processing", "retrying", "succeeded", "failed"},
         job' = [job EXCEPT ![j].st = st]
  PROVE  /\ JobFrame
         /\ job'[j].st = st /\ job'[j].doc = job[j].doc /\ job'[j].trigger = job[j].trigger
         /\ \A k \in Jobs : k # j => job'[k] = job[k]
<1>1. job \in [Jobs -> JobRow] /\ job[j] \in JobRow
  BY DEF TInv, TypeOK
<1>2. job'[j] = [job[j] EXCEPT !.st = st] /\ \A k \in Jobs : k # j => job'[k] = job[k]
  BY <1>1
<1>3. /\ job'[j] \in JobRow /\ job'[j].st = st
      /\ job'[j].doc = job[j].doc /\ job'[j].trigger = job[j].trigger
  BY <1>1, <1>2 DEF JobRow
<1>4. job' \in [Jobs -> JobRow]
  <2>1. job' = [k \in Jobs |-> job'[k]]
    BY <1>1
  <2> QED
    BY <2>1, <1>1, <1>2, <1>3
<1> QED
  BY <1>2, <1>3, <1>4 DEF JobFrame

(* A verdict is written, or a review is filed for a document that exists. *)
LEMMA VerdictFrame ==
  ASSUME DocumentAssumption, TInv, NEW r \in Reviews, review[r].doc # NoDoc,
         NEW verdict \in {"approved", "rejected"},
         review' = [review EXCEPT ![r].decision = verdict]
  PROVE  /\ ReviewFrame
         /\ review'[r].decision = verdict /\ review'[r].doc = review[r].doc
         /\ \A q \in Reviews : q # r => review'[q] = review[q]
<1>1. review \in [Reviews -> ReviewRow] /\ review[r] \in ReviewRow
  BY DEF TInv, TypeOK
<1>2. review'[r] = [review[r] EXCEPT !.decision = verdict]
      /\ \A q \in Reviews : q # r => review'[q] = review[q]
  BY <1>1
<1>3. review'[r] \in ReviewRow /\ review'[r].decision = verdict
      /\ review'[r].doc = review[r].doc
  BY <1>1, <1>2 DEF ReviewRow
<1>4. review' \in [Reviews -> ReviewRow]
  <2>1. review' = [q \in Reviews |-> review'[q]]
    BY <1>1
  <2> QED
    BY <2>1, <1>1, <1>2, <1>3
<1> QED
  BY <1>2, <1>3, <1>4 DEF ReviewFrame

LEMMA FiledFrame ==
  ASSUME DocumentAssumption, TInv, NEW r \in Reviews, NEW d \in Docs, NewReview(r),
         Filed(r, d), Exists(d)'
  PROVE  /\ ReviewFrame
         /\ review'[r] = [doc |-> d, decision |-> "pending"]
         /\ \A q \in Reviews : q # r => review'[q] = review[q]
<1>1. review \in [Reviews -> ReviewRow]
  BY DEF TInv, TypeOK
<1>2. /\ review'[r] = [doc |-> d, decision |-> "pending"]
      /\ \A q \in Reviews : q # r => review'[q] = review[q]
      /\ review' \in [Reviews -> ReviewRow]
  BY <1>1 DEF Filed, ReviewRow
<1>3. Exists(review[r].doc)'
  BY <1>2 DEF Exists
<1> QED
  BY <1>2, <1>3 DEF ReviewFrame, NewReview

(* The handler of a call: every step keeps the types, only Send asks. *)
LEMMA CallFrames ==
  ASSUME DocumentAssumption, TInv, NEW c \in Calls
  PROVE  /\ Probe(c) => CallFrame /\ UNCHANGED asked
         /\ Claim(c) => CallFrame /\ UNCHANGED asked
         /\ Enter(c) => CallFrame /\ UNCHANGED asked
         /\ Abort(c) => CallFrame /\ UNCHANGED asked
         /\ Reply(c) => CallFrame /\ UNCHANGED asked
         /\ Lose(c) => CallFrame /\ UNCHANGED asked
<1> USE DEF CallFrame, GovernedTypeOK, Stages
<1>1. GovernedTypeOK(Keys, Request, Docs)
  BY DEF TInv, TypeOK, Keys
<1>2. NoBody \in Docs \cup {NoBody}
  OBVIOUS
<1>3. ASSUME NEW kind \in {"made", "reused", "error"}, NEW body \in Docs \cup {NoBody},
             Responds(c, kind, body), UNCHANGED <<records, asked>>, stage[c] # "idle"
      PROVE  CallFrame
  <2>1. stage' = [stage EXCEPT ![c] = "reply"]
        /\ answer' = [answer EXCEPT ![c] = [kind |-> kind, body |-> body]]
    BY <1>3 DEF Responds
  <2>2. stage' \in [Calls -> Stages]
    BY <2>1, <1>1
  <2>3. [kind |-> kind, body |-> body] \in
          [kind : {"none", "made", "reused", "error"}, body : Docs \cup {NoBody}]
    BY <1>3
  <2>4. answer' \in [Calls -> [kind : {"none", "made", "reused", "error"},
                               body : Docs \cup {NoBody}]]
    BY <2>1, <2>3, <1>1
  <2>5. \A o \in Calls : stage'[o] # "idle" => stage[o] # "idle"
    BY <2>1, <1>1, <1>3
  <2> QED
    BY <2>2, <2>4, <2>5, <1>1, <1>3
<1>4. ASSUME NEW st \in Stages, stage' = [stage EXCEPT ![c] = st],
             UNCHANGED <<records, asked, answer>>, stage[c] # "idle"
      PROVE  CallFrame
  <2>1. stage' \in [Calls -> Stages] /\ \A o \in Calls : stage'[o] # "idle" => stage[o] # "idle"
    BY <1>1, <1>4
  <2> QED
    BY <2>1, <1>1, <1>4
<1>5. ASSUME Probe(c) PROVE CallFrame
  <2>1. CASE stage' = [stage EXCEPT ![c] = "claim"] /\ UNCHANGED answer
    BY <2>1, <1>4, <1>5 DEF Probe
  <2>2. CASE \E row \in RecordsOf(c) : AnswerOf(c, row)
    <3>1. PICK row \in RecordsOf(c) : AnswerOf(c, row)
      BY <2>2
    <3>2. row.body \in Docs
      BY <1>1 DEF RecordsOf
    <3>3. stage[c] # "idle" /\ UNCHANGED <<records, asked>>
      BY <1>5 DEF Probe
    <3>4. Responds(c, "made", row.body) \/ Responds(c, "reused", NoBody)
      BY <3>1 DEF AnswerOf
    <3> QED
      BY <3>2, <3>3, <3>4, <1>3
  <2> QED
    BY <1>5, <2>1, <2>2 DEF Probe
<1>6. ASSUME Claim(c) PROVE CallFrame
  <2>1. CASE stage' = [stage EXCEPT ![c] = "lock"] /\ UNCHANGED answer
    BY <2>1, <1>4, <1>6 DEF Claim
  <2>2. CASE Responds(c, "error", NoBody)
    BY <2>2, <1>3, <1>6 DEF Claim
  <2> QED
    BY <1>6, <2>1, <2>2 DEF Claim
<1>7. ASSUME Enter(c) PROVE CallFrame
  BY <1>7, <1>4 DEF Enter
<1>8. ASSUME Abort(c) PROVE CallFrame
  BY <1>8, <1>3 DEF Abort, Holds
<1>9. ASSUME Reply(c) PROVE CallFrame
  BY <1>9, <1>4 DEF Reply
<1>10. ASSUME Lose(c) PROVE CallFrame
  BY <1>10, <1>4 DEF Lose, InFlight
<1>11. Probe(c) \/ Claim(c) \/ Enter(c) \/ Abort(c) \/ Reply(c) \/ Lose(c) => UNCHANGED asked
  BY DEF Probe, Claim, Enter, Abort, Reply, Lose
<1> QED
  BY <1>5, <1>6, <1>7, <1>8, <1>9, <1>10, <1>11

-----------------------------------------------------------------------------
(* Every step keeps the frames: steps of calls *)

LEMMA SendFrames ==
  ASSUME DocumentAssumption, TInv, NEW c \in Calls, NEW request \in Request,
         SendVersion(c, request)
  PROVE  Frames
<1>1. GovernedTypeOK(Keys, Request, Docs)
  BY DEF TInv, TypeOK, Keys
<1>2. /\ stage' = [stage EXCEPT ![c] = "probe"] /\ asked' = [asked EXCEPT ![c] = request]
      /\ UNCHANGED <<records, answer>> /\ UNCHANGED docVars
  BY DEF SendVersion, Send
<1>3. GovernedTypeOK(Keys, Request, Docs)'
  BY <1>1, <1>2 DEF GovernedTypeOK, Stages
<1>4. asked'[c] \in Request /\ Exists(asked[c].doc)'
  BY <1>1, <1>2 DEF GovernedTypeOK, SendVersion, Exists, docVars
<1>5. \A o \in Calls : o # c => stage'[o] = stage[o] /\ asked'[o] = asked[o]
  BY <1>1, <1>2 DEF GovernedTypeOK
<1>6. CallFrame
  BY <1>3, <1>4, <1>5 DEF CallFrame
<1> QED
  BY <1>2, <1>6, SameFrames DEF Frames, docVars

LEMMA QuietCallFrames ==
  ASSUME DocumentAssumption, TInv, NEW c \in Calls,
         ProbeRecord(c) \/ ClaimKey(c) \/ LockDocument(c) \/ AbortVersion(c)
         \/ ReplyVersion(c) \/ LoseCall(c)
  PROVE  Frames /\ UNCHANGED docVars
<1>1. CallFrame /\ UNCHANGED docVars
  BY CallFrames DEF ProbeRecord, ClaimKey, LockDocument, AbortVersion, ReplyVersion, LoseCall
<1> QED
  BY <1>1, SameFrames DEF Frames, docVars

(* The rows of a version command, and what becomes of them. *)
LEMMA CreateVersionRows ==
  ASSUME DocumentAssumption, TInv, NEW c \in Calls, NEW e \in Docs,
         NEW outcome \in {"stored", "empty", "zero"}, CreateVersion(c, e, outcome)
  PROVE  /\ asked[c] \in Request /\ asked[c].doc \in Docs /\ Exists(asked[c].doc)
         /\ e # asked[c].doc /\ ~Exists(e)
         /\ doc'[e] \in DocRow /\ doc'[e].parent = asked[c].doc /\ doc'[e].by = "version"
         /\ doc'[e].st \in {"active", "failed"}
         /\ doc'[asked[c].doc] \in DocRow
         /\ doc'[asked[c].doc].st \in {doc[asked[c].doc].st, "superseded"}
         /\ doc'[asked[c].doc].parent = doc[asked[c].doc].parent
         /\ doc'[asked[c].doc].by = doc[asked[c].doc].by
         /\ \A x \in Docs : x # e /\ x # asked[c].doc => doc'[x] = doc[x]
         /\ doc' \in [Docs -> DocRow]
<1> DEFINE d == asked[c].doc
           now == asked[c].when = "now"
           fresh == Row(IF outcome = "zero" THEN "failed" ELSE "active", d, "version")
           new == [fresh EXCEPT !.scheduled = ~now]
<1>1. asked[c] \in Request /\ Exists(d) /\ d \in Docs
  <2>1. stage[c] # "idle"
    BY DEF CreateVersion
  <2>2. asked[c] \in Request /\ Exists(d)
    BY <2>1 DEF TInv, Links, CallLinks
  <2> QED
    BY <2>2 DEF Request
<1>2. ~Exists(e) /\ e # d
  BY <1>1 DEF CreateVersion, NewDoc
<1>3. fresh \in DocRow /\ fresh.parent = d /\ fresh.by = "version"
      /\ fresh.st \in {"active", "failed"}
  <2> DEFINE st == IF outcome = "zero" THEN "failed" ELSE "active"
  <2>1. st \in {"active", "failed"}
    OBVIOUS
  <2> HIDE DEF st, d
  <2> QED
    BY <1>1, <2>1, RowTyped
<1>4. new \in DocRow /\ new.parent = d /\ new.by = "version" /\ new.st \in {"active", "failed"}
  <2> DEFINE later == ~now
  <2>1. later \in BOOLEAN
    OBVIOUS
  <2> HIDE DEF fresh, later, d
  <2> QED
    BY <1>3, <2>1, Rescheduled
<1>5. doc' = [doc EXCEPT ![e] = new, ![d].st = IF now THEN "superseded" ELSE @]
  BY DEF CreateVersion
<1>6. doc \in [Docs -> DocRow] /\ doc[d] \in DocRow
  BY <1>1 DEF TInv, TypeOK
<1>7. /\ doc'[e] = new
      /\ doc'[d] = [doc[d] EXCEPT !.st = IF now THEN "superseded" ELSE @]
      /\ \A x \in Docs : x # e /\ x # d => doc'[x] = doc[x]
      /\ doc' = [x \in Docs |-> doc'[x]]
  <2> HIDE DEF new, d, now
  <2> QED
    BY <1>1, <1>2, <1>5, <1>6
<1>8. /\ doc'[d] \in DocRow /\ doc'[d].parent = doc[d].parent /\ doc'[d].by = doc[d].by
      /\ doc'[d].st \in {doc[d].st, "superseded"}
  <2> HIDE DEF d, now
  <2> QED
    BY <1>6, <1>7 DEF DocRow, Statuses
<1>9. doc' \in [Docs -> DocRow]
  <2> HIDE DEF new, d, now
  <2> QED
    BY <1>4, <1>6, <1>7, <1>8
<1>10. /\ doc'[e] \in DocRow /\ doc'[e].parent = d /\ doc'[e].by = "version"
       /\ doc'[e].st \in {"active", "failed"}
  <2> HIDE DEF new, d, now
  <2> QED
    BY <1>4, <1>7
<1> HIDE DEF new
<1> QED
  BY <1>1, <1>2, <1>7, <1>8, <1>9, <1>10

LEMMA CreateVersionFrames ==
  ASSUME DocumentAssumption, TInv, NEW c \in Calls, NEW e \in Docs,
         NEW outcome \in {"stored", "empty", "zero"}, CreateVersion(c, e, outcome)
  PROVE  Frames
<1> DEFINE d == asked[c].doc
<1>1. DocFrame
  <2>1. doc'[e].st # "absent" /\ doc'[d].st # "absent"
    BY CreateVersionRows DEF Exists
  <2>2. \A x \in Docs : x # e =>
          \/ doc'[x] = doc[x]
          \/ /\ Exists(x) /\ doc'[x].st # "absent"
             /\ doc'[x].parent = doc[x].parent /\ doc'[x].by = doc[x].by
    BY <2>1, CreateVersionRows
  <2> QED
    BY <2>1, <2>2, CreateVersionRows, NewRowFrame
<1>2. ChunkFrame
  <2>1. Exists(e)'
    BY CreateVersionRows DEF Exists
  <2>2. chunks' \subseteq chunks \cup {e}
    BY DEF CreateVersion
  <2> QED
    BY <2>1, <2>2 DEF ChunkFrame, TInv, TypeOK
<1>3. CallFrame
  <2>1. GovernedTypeOK(Keys, Request, Docs) /\ KeyOf[c] \in Keys /\ asked[c] \in Request
    BY CreateVersionRows DEF TInv, TypeOK, Keys
  <2>2. /\ records' = records \cup {[key |-> KeyOf[c], request |-> asked[c], body |-> e]}
        /\ stage' = [stage EXCEPT ![c] = "reply"]
        /\ answer' = [answer EXCEPT ![c] = [kind |-> "made", body |-> e]]
        /\ UNCHANGED asked /\ stage[c] = "work"
    BY DEF CreateVersion, Commit, Responds
  <2>3. records' \subseteq [key : Keys, request : Request, body : Docs]
    BY <2>1, <2>2 DEF GovernedTypeOK
  <2>4. stage' \in [Calls -> Stages]
    BY <2>1, <2>2 DEF GovernedTypeOK, Stages
  <2>5. answer' \in [Calls -> [kind : {"none", "made", "reused", "error"},
                               body : Docs \cup {NoBody}]]
    BY <2>1, <2>2 DEF GovernedTypeOK
  <2>6. asked' \in [Calls -> Request \cup {NoRequest}]
    BY <2>1, <2>2 DEF GovernedTypeOK
  <2>7. \A o \in Calls : stage'[o] # "idle" => stage[o] # "idle" /\ asked'[o] = asked[o]
    BY <2>1, <2>2 DEF GovernedTypeOK
  <2> QED
    BY <2>3, <2>4, <2>5, <2>6, <2>7 DEF CallFrame, GovernedTypeOK
<1> QED
  BY <1>1, <1>2, <1>3, SameFrames DEF Frames, CreateVersion

-----------------------------------------------------------------------------
(* Steps of the review gate *)

LEMMA UploadRows ==
  ASSUME DocumentAssumption, TInv, NEW h \in Threads, NEW d \in Docs, NEW gated \in BOOLEAN,
         Upload(h, d, gated)
  PROVE  /\ DocFrame /\ ~Exists(d) /\ Exists(d)'
         /\ doc'[d].st = "draft" /\ doc'[d].by = (IF gated THEN "gate" ELSE "direct")
         /\ doc'[d].parent = NoDoc
         /\ \A x \in Docs : x # d => doc'[x] = doc[x]
<1> DEFINE by == IF gated THEN "gate" ELSE "direct"
           new == Row("draft", NoDoc, by)
<1>1. new \in DocRow /\ new.st = "draft" /\ new.by = by /\ new.parent = NoDoc
  <2>1. by \in {"direct", "gate", "version"} /\ NoDoc \in Docs \cup {NoDoc}
    OBVIOUS
  <2> HIDE DEF by
  <2>2. /\ Row("draft", NoDoc, by) \in DocRow
        /\ Row("draft", NoDoc, by).st = "draft" /\ Row("draft", NoDoc, by).parent = NoDoc
        /\ Row("draft", NoDoc, by).by = by
    BY <2>1 DEF Row, DocRow, Statuses
  <2> QED
    BY <2>2
<1>2. doc \in [Docs -> DocRow] /\ doc' = [doc EXCEPT ![d] = new] /\ ~Exists(d)
  BY DEF TInv, TypeOK, Upload, NewDoc
<1> HIDE DEF new
<1>3. /\ doc' \in [Docs -> DocRow] /\ doc'[d] = new
      /\ \A x \in Docs : x # d => doc'[x] = doc[x]
  BY <1>1, <1>2
<1>4. DocFrame
  BY <1>1, <1>2, <1>3, NewRowFrame
<1>5. /\ doc'[d].st = "draft" /\ doc'[d].by = by /\ doc'[d].parent = NoDoc
  BY <1>1, <1>3
<1>6. Exists(d)'
  BY <1>5 DEF Exists
<1> QED
  BY <1>2, <1>3, <1>4, <1>5, <1>6

LEMMA UploadFrames ==
  ASSUME DocumentAssumption, TInv, NEW h \in Threads, NEW d \in Docs, NEW gated \in BOOLEAN,
         Upload(h, d, gated)
  PROVE  Frames
<1> DEFINE at == IF gated THEN "stage" ELSE "upload"
<1>1. [at |-> at, item |-> d] \in Handler /\ at \in AtDoc
  BY DEF Handler, AtDoc, Triggers
<1>2. at \notin AtReview /\ at \notin {"dispatch", "edit"}
  BY DEF AtReview
<1>3. Goes(h, at, d)
  BY DEF Upload
<1> HIDE DEF at
<1>4. ThreadFrame
  BY <1>1, <1>2, <1>3, GoesFrame, UploadRows
<1> QED
  BY <1>4, UploadRows, SameFrames DEF Frames, Upload

(* A file of a batch. *)
LEMMA BatchUploadRows ==
  ASSUME DocumentAssumption, TInv, NEW h \in Threads, NEW d \in Docs, BatchUpload(h, d)
  PROVE  /\ DocFrame /\ ~Exists(d) /\ Exists(d)'
         /\ doc'[d].st = "processing" /\ doc'[d].by = "batch" /\ doc'[d].parent = NoDoc
         /\ \A x \in Docs : x # d => doc'[x] = doc[x]
<1> DEFINE new == Row("processing", NoDoc, "batch")
<1>1. new \in DocRow /\ new.st = "processing" /\ new.by = "batch" /\ new.parent = NoDoc
  BY DEF Row, DocRow, Statuses
<1>2. doc \in [Docs -> DocRow] /\ doc' = [doc EXCEPT ![d] = new] /\ ~Exists(d)
  BY DEF TInv, TypeOK, BatchUpload, NewDoc
<1> HIDE DEF new
<1>3. /\ doc' \in [Docs -> DocRow] /\ doc'[d] = new
      /\ \A x \in Docs : x # d => doc'[x] = doc[x]
  BY <1>1, <1>2
<1>4. DocFrame
  BY <1>1, <1>2, <1>3, NewRowFrame
<1> QED
  BY <1>1, <1>2, <1>3, <1>4 DEF Exists

LEMMA GoesDoc ==
  ASSUME DocumentAssumption, TInv, NEW h \in Threads, NEW at \in AtDoc, NEW d \in Docs,
         Goes(h, at, d), Exists(d)'
  PROVE  /\ ThreadFrame
         /\ thread'[h] = [at |-> at, item |-> d]
         /\ thread'[h].at = at /\ thread'[h].item = d
         /\ \A g \in Threads : g # h => thread'[g] = thread[g]
<1>1. [at |-> at, item |-> d] \in Handler
  BY DEF Handler
<1>2. at \notin AtReview /\ at \notin {"dispatch", "edit"}
  BY DEF AtDoc, AtReview, Triggers
<1> QED
  BY <1>1, <1>2, GoesFrame

LEMMA GoesReview ==
  ASSUME DocumentAssumption, TInv, NEW h \in Threads, NEW at \in AtReview, NEW r \in Reviews,
         Goes(h, at, r), review'[r].doc # NoDoc
  PROVE  /\ ThreadFrame
         /\ thread'[h] = [at |-> at, item |-> r]
         /\ thread'[h].at = at /\ thread'[h].item = r
         /\ \A g \in Threads : g # h => thread'[g] = thread[g]
<1>1. [at |-> at, item |-> r] \in Handler
  BY DEF Handler
<1>2. at \notin AtDoc /\ at \notin {"dispatch", "edit"}
  BY DEF AtDoc, AtReview, Triggers
<1> QED
  BY <1>1, <1>2, GoesFrame

LEMMA GoesJob ==
  ASSUME DocumentAssumption, TInv, NEW h \in Threads, NEW j \in Jobs,
         Goes(h, "dispatch", j), job'[j].doc # NoDoc
  PROVE  /\ ThreadFrame
         /\ thread'[h] = [at |-> "dispatch", item |-> j]
         /\ thread'[h].at = "dispatch" /\ thread'[h].item = j
         /\ \A g \in Threads : g # h => thread'[g] = thread[g]
<1>1. [at |-> "dispatch", item |-> j] \in Handler
  BY DEF Handler
<1>2. "dispatch" \notin AtDoc /\ "dispatch" \notin AtReview
  BY DEF AtDoc, AtReview, Triggers
<1> QED
  BY <1>1, <1>2, GoesFrame

LEMMA BatchUploadFrames ==
  ASSUME DocumentAssumption, TInv, NEW h \in Threads, NEW d \in Docs, BatchUpload(h, d)
  PROVE  /\ Frames
         /\ thread'[h].at = "batch" /\ thread'[h].item = d
         /\ \A g \in Threads : g # h => thread'[g] = thread[g]
<1>0. Exists(d)'
  BY BatchUploadRows
<1>1. "batch" \in AtDoc /\ Goes(h, "batch", d)
  BY DEF AtDoc, Triggers, BatchUpload
<1>2. /\ ThreadFrame /\ thread'[h].at = "batch" /\ thread'[h].item = d
      /\ \A g \in Threads : g # h => thread'[g] = thread[g]
  BY <1>0, <1>1, GoesDoc
<1> QED
  BY <1>2, BatchUploadRows, SameFrames DEF Frames, BatchUpload

(* An edit remembers a status, and writes it back. *)
LEMMA BeginEditFrames ==
  ASSUME DocumentAssumption, TInv, NEW h \in Threads, NEW d \in Docs, BeginEdit(h, d)
  PROVE  /\ Frames
         /\ thread'[h].at = "edit" /\ thread'[h].item = d /\ thread'[h].was = doc[d].st
         /\ \A g \in Threads : g # h => thread'[g] = thread[g]
<1> DEFINE edit == [at |-> "edit", item |-> d, was |-> doc[d].st]
<1>1. doc[d].st \in Statuses /\ thread \in [Threads -> Handler]
  BY DEF TInv, TypeOK, DocRow, BeginEdit, Exists
<1>2. edit \in Handler
  BY <1>1 DEF Handler
<1>3. thread' = [thread EXCEPT ![h] = edit]
  BY DEF BeginEdit
<1>4. edit.at = "edit" /\ edit.item = d /\ edit.was = doc[d].st
  OBVIOUS
<1> HIDE DEF edit
<1>5. /\ thread' \in [Threads -> Handler] /\ thread'[h] = edit
      /\ \A g \in Threads : g # h => thread'[g] = thread[g]
  BY <1>1, <1>2, <1>3
<1>6. ItemLinks(h)'
  BY <1>4, <1>5 DEF ItemLinks, At, AtReview, BeginEdit, Exists
<1>7. ThreadFrame
  BY <1>5, <1>6 DEF ThreadFrame
<1> QED
  BY <1>4, <1>5, <1>7, SameFrames DEF Frames, BeginEdit

LEMMA SaveEditFrames ==
  ASSUME DocumentAssumption, TInv, NEW h \in Threads, SaveEdit(h)
  PROVE  /\ Frames
         /\ thread[h].at = "edit" /\ thread[h].item \in Docs /\ Exists(thread[h].item)
         /\ thread[h].was \in Statuses
         /\ doc'[thread[h].item].st = thread[h].was
         /\ \A e \in Docs : e # thread[h].item => doc'[e] = doc[e]
         /\ thread'[h] = Idle /\ thread'[h].at = "idle"
         /\ \A g \in Threads : g # h => thread'[g] = thread[g]
<1> DEFINE d == thread[h].item
           was == thread[h].was
<1>1. thread[h].at = "edit" /\ d \in Docs /\ Exists(d) /\ was \in Statuses
  BY ItemFacts DEF SaveEdit, At
<1>2. Sets(d, was) /\ Ends(h) /\ stranded' \subseteq stranded \cup {d}
  BY DEF SaveEdit
<1> HIDE DEF d, was
<1>3. /\ DocFrame /\ doc'[d].st = was
      /\ \A e \in Docs : e # d => doc'[e] = doc[e]
  BY <1>1, <1>2, SetsFrame
<1>4. /\ ThreadFrame /\ thread'[h] = Idle /\ thread'[h].at = "idle"
      /\ \A g \in Threads : g # h => thread'[g] = thread[g]
  BY <1>2, EndsFrame
<1>5. stranded' \subseteq Docs
  BY <1>1, <1>2 DEF TInv, TypeOK
<1>6. Frames
  BY <1>3, <1>4, <1>5, SameFrames DEF Frames, SaveEdit
<1> QED
  BY <1>1, <1>3, <1>4, <1>6 DEF d, was

LEMMA SubmitReviewFrames ==
  ASSUME DocumentAssumption, TInv, NEW h \in Threads, NEW d \in Docs, SubmitReview(h, d)
  PROVE  Frames
<1> DEFINE at == IF doc[d].st = "pending_review" THEN "file" ELSE "stage"
<1>1. at \in AtDoc /\ Goes(h, at, d) /\ Exists(d)'
  BY DEF SubmitReview, AtDoc, Exists
<1> HIDE DEF at
<1>2. ThreadFrame
  BY <1>1, GoesDoc
<1> QED
  BY <1>2, SameFrames DEF Frames, SubmitReview

LEMMA StageForReviewFrames ==
  ASSUME DocumentAssumption, TInv, NEW h \in Threads, StageForReview(h)
  PROVE  /\ Frames
         /\ thread[h].item \in Docs
         /\ doc'[thread[h].item].st = "pending_review"
         /\ \A e \in Docs : e # thread[h].item => doc'[e] = doc[e]
         /\ thread'[h].at = "file"
         /\ \A g \in Threads : g # h => thread'[g] = thread[g]
<1> DEFINE d == thread[h].item
<1>1. d \in Docs /\ Exists(d)
  BY ItemFacts DEF StageForReview, At, AtDoc
<1>2. Sets(d, "pending_review") /\ Goes(h, "file", d)
  BY DEF StageForReview
<1>3. "pending_review" \in Statuses /\ "file" \in AtDoc
  BY DEF Statuses, AtDoc
<1> HIDE DEF d
<1>4. /\ DocFrame /\ doc'[d].st = "pending_review"
      /\ \A e \in Docs : e # d => doc'[e] = doc[e]
  BY <1>1, <1>2, <1>3, SetsFrame
<1>5. /\ ThreadFrame /\ thread'[h].at = "file"
      /\ \A g \in Threads : g # h => thread'[g] = thread[g]
  BY <1>1, <1>2, <1>3, <1>4, GoesDoc DEF Exists
<1>6. Frames
  BY <1>4, <1>5, SameFrames DEF Frames, StageForReview
<1> QED
  BY <1>1, <1>4, <1>5, <1>6 DEF d

LEMMA FileReviewFrames ==
  ASSUME DocumentAssumption, TInv, NEW h \in Threads, FileReview(h)
  PROVE  Frames
<1> DEFINE d == thread[h].item
<1>1. d \in Docs /\ Exists(d)
  BY ItemFacts DEF FileReview, At, AtDoc
<1>2. UNCHANGED doc /\ Ends(h)
  BY DEF FileReview
<1>3. doc'[d].st # "absent"
  BY <1>1, <1>2 DEF Exists
<1>4. ReviewFrame
  <2>1. CASE UNCHANGED review
    BY <2>1, SameFrames
  <2>2. CASE \E r \in Reviews : NewReview(r) /\ Filed(r, d)
    <3>1. PICK r \in Reviews : NewReview(r) /\ Filed(r, d)
      BY <2>2
    <3> HIDE DEF d
    <3> QED
      BY <1>1, <1>3, <3>1, FiledFrame DEF Exists
  <2> QED
    BY <2>1, <2>2 DEF FileReview
<1> QED
  BY <1>4, EndsFrame, SameFrames DEF Frames, FileReview

LEMMA StagePendingVersionRows ==
  ASSUME DocumentAssumption, TInv, NEW d \in Docs, NEW e \in Docs, NEW r \in Reviews,
         StagePendingVersion(d, e, r)
  PROVE  /\ Frames /\ ~Exists(e) /\ e # d
         /\ doc'[e].st = "pending_review" /\ doc'[e].parent = d /\ doc'[e].by = "gate"
         /\ \A x \in Docs : x # e => doc'[x] = doc[x]
         /\ review'[r] = [doc |-> e, decision |-> "pending"]
         /\ \A q \in Reviews : q # r => review'[q] = review[q]
<1> DEFINE new == Row("pending_review", d, "gate")
<1>1. /\ new \in DocRow
      /\ new.st = "pending_review" /\ new.parent = d /\ new.by = "gate"
  BY DEF Row, DocRow, Statuses
<1>2. doc \in [Docs -> DocRow] /\ doc' = [doc EXCEPT ![e] = new] /\ ~Exists(e) /\ Exists(d)
  BY DEF TInv, TypeOK, StagePendingVersion, NewDoc
<1> HIDE DEF new
<1>3. /\ doc' \in [Docs -> DocRow] /\ doc'[e] = new
      /\ \A x \in Docs : x # e => doc'[x] = doc[x]
  BY <1>1, <1>2
<1>4. DocFrame
  BY <1>1, <1>2, <1>3, NewRowFrame
<1>5. /\ ReviewFrame
      /\ review'[r] = [doc |-> e, decision |-> "pending"]
      /\ \A q \in Reviews : q # r => review'[q] = review[q]
  <2>1. Exists(e)'
    BY <1>1, <1>3 DEF Exists
  <2> QED
    BY <2>1, FiledFrame DEF StagePendingVersion
<1>6. Frames
  BY <1>4, <1>5, SameFrames DEF Frames, StagePendingVersion
<1> QED
  BY <1>1, <1>2, <1>3, <1>5, <1>6

LEMMA DecideFrames ==
  ASSUME DocumentAssumption, TInv, NEW h \in Threads, NEW r \in Reviews,
         NEW verdict \in {"approve", "reject"}, Decide(h, r, verdict)
  PROVE  Frames /\ \A g \in Threads : thread'[g] # thread[g] => thread'[g].at = verdict
<1>1. /\ verdict \in AtReview /\ Goes(h, verdict, r) /\ review'[r].doc # NoDoc
  BY DEF Decide, AtReview
<1>2. /\ ThreadFrame /\ thread'[h].at = verdict
      /\ \A g \in Threads : g # h => thread'[g] = thread[g]
  BY <1>1, GoesReview
<1> QED
  BY <1>2, SameFrames DEF Frames, Decide

LEMMA RejectFrames ==
  ASSUME DocumentAssumption, TInv, NEW h \in Threads, Reject(h)
  PROVE  /\ Frames
         /\ thread[h].item \in Reviews
         /\ UNCHANGED <<doc, review>>
            \/ /\ Undecided(thread[h].item)
               /\ review[thread[h].item].doc \in Docs
               /\ doc'[review[thread[h].item].doc].st = "rejected"
               /\ \A e \in Docs : e # review[thread[h].item].doc => doc'[e] = doc[e]
               /\ review'[thread[h].item].decision = "rejected"
               /\ review'[thread[h].item].doc = review[thread[h].item].doc
               /\ \A q \in Reviews : q # thread[h].item => review'[q] = review[q]
<1> DEFINE r == thread[h].item
           d == review[r].doc
<1>1. r \in Reviews /\ d \in Docs /\ Exists(d) /\ d # NoDoc
  BY ItemFacts DEF Reject, At, AtReview, DocumentAssumption
<1>2. CASE UNCHANGED <<doc, review>>
  <2>1. Frames
    BY <1>2, EndsFrame, SameFrames DEF Frames, Reject
  <2> QED
    BY <1>1, <1>2, <2>1
<1>3. CASE Undecided(r) /\ Sets(d, "rejected")
           /\ review' = [review EXCEPT ![r].decision = "rejected"]
  <2>1. "rejected" \in Statuses
    BY DEF Statuses
  <2> HIDE DEF r, d
  <2>2. /\ DocFrame /\ doc'[d].st = "rejected" /\ \A e \in Docs : e # d => doc'[e] = doc[e]
    BY <1>1, <1>3, <2>1, SetsFrame
  <2>3. /\ ReviewFrame /\ review'[r].decision = "rejected" /\ review'[r].doc = d
        /\ \A q \in Reviews : q # r => review'[q] = review[q]
    BY <1>1, <1>3, VerdictFrame DEF d
  <2>4. Frames
    BY <2>2, <2>3, EndsFrame, SameFrames DEF Frames, Reject
  <2> QED
    BY <1>1, <1>3, <2>2, <2>3, <2>4 DEF r, d
<1> QED
  BY <1>2, <1>3 DEF Reject

LEMMA LockReviewFrames ==
  ASSUME DocumentAssumption, TInv, NEW h \in Threads, LockReview(h)
  PROVE  /\ Frames
         /\ thread[h].item \in Reviews
         /\ \/ thread'[h] = Idle
            \/ /\ Undecided(thread[h].item)
               /\ thread'[h].at \in {"parent", "publish"} /\ thread'[h].item = thread[h].item
         /\ \A g \in Threads : g # h => thread'[g] = thread[g]
<1> DEFINE r == thread[h].item
           at == IF doc[review[r].doc].parent = NoDoc THEN "publish" ELSE "parent"
<1>1. /\ r \in Reviews /\ review[r].doc \in Docs /\ review'[r].doc # NoDoc
  BY ItemFacts DEF LockReview, At, AtReview, DocumentAssumption
<1>2. CASE Ends(h)
  BY <1>1, <1>2, EndsFrame, SameFrames DEF Frames, LockReview
<1>3. CASE Undecided(r) /\ Goes(h, at, r)
  <2>1. at \in AtReview /\ at \in {"parent", "publish"}
    BY DEF AtReview
  <2> HIDE DEF at, r
  <2>2. /\ ThreadFrame /\ thread'[h].at = at /\ thread'[h].item = r
        /\ \A g \in Threads : g # h => thread'[g] = thread[g]
    BY <1>1, <1>3, <2>1, GoesReview
  <2>3. Frames
    BY <2>2, SameFrames DEF Frames, LockReview
  <2> QED
    BY <1>1, <1>3, <2>1, <2>2, <2>3 DEF r
<1> QED
  BY <1>2, <1>3 DEF LockReview

LEMMA LockParentFrames ==
  ASSUME DocumentAssumption, TInv, NEW h \in Threads, LockParent(h)
  PROVE  /\ Frames
         /\ thread'[h].at = "publish" /\ thread'[h].item = thread[h].item
         /\ \A g \in Threads : g # h => thread'[g] = thread[g]
<1> DEFINE r == thread[h].item
<1>1. /\ r \in Reviews /\ review[r].doc \in Docs /\ review'[r].doc # NoDoc
  BY ItemFacts DEF LockParent, At, AtReview, DocumentAssumption
<1>2. Goes(h, "publish", r) /\ "publish" \in AtReview
  BY DEF LockParent, AtReview
<1> HIDE DEF r
<1>3. /\ ThreadFrame /\ thread'[h].at = "publish" /\ thread'[h].item = r
      /\ \A g \in Threads : g # h => thread'[g] = thread[g]
  BY <1>1, <1>2, GoesReview
<1> QED
  BY <1>3, SameFrames DEF Frames, LockParent, r

(* What publication makes of the rows. *)
Replaced(d) == {p \in Docs : p = doc[d].parent /\ doc[p].st \in Published}

Publishes(h, how, r, d) ==
  /\ r = thread[h].item /\ d = review[r].doc /\ Exists(d)
  /\ DocFrame
  /\ doc'[d].st \in {"processing", "active"}
  /\ doc'[d].st = "processing" => how = "file"
  /\ \A x \in Docs : x # d =>
       \/ doc'[x].st = doc[x].st
       \/ doc'[x].st = "superseded" /\ x = doc[d].parent
       \/ doc'[x].st = "stale"
  /\ \A x \in Docs : doc'[x].parent = doc[x].parent /\ doc'[x].by = doc[x].by
  /\ \A x \in Docs : ~Exists(x) => doc'[x] = doc[x]
  /\ chunks' \subseteq chunks \cup {d}
  /\ ReviewFrame /\ review'[r].decision = "approved" /\ review'[r].doc = d
  /\ \A q \in Reviews : q # r => review'[q] = review[q]
  /\ IF how = "file" THEN Goes(h, "upload", d) ELSE Ends(h)

LEMMA PublishRows ==
  ASSUME DocumentAssumption, TInv, NEW h \in Threads, NEW how \in {"stored", "bare", "file"},
         NEW ticked \in SUBSET Docs, Publish(h, how, ticked)
  PROVE  \E r \in Reviews, d \in Docs : Publishes(h, how, r, d)
<1>1. PICK r \in Reviews, d \in Docs : r = thread[h].item /\ d = review[r].doc /\ Exists(d)
  BY ItemFacts DEF Publish, At, AtReview
<1> DEFINE Status(e) == IF e = d THEN (IF how = "file" THEN "processing" ELSE "active")
                        ELSE IF e \in Replaced(d) THEN "superseded"
                        ELSE IF e \in ticked THEN "stale" ELSE doc[e].st
<1>2. /\ doc' = [e \in Docs |-> [doc[e] EXCEPT !.st = Status(e)]]
      /\ chunks' = (chunks \ Replaced(d)) \cup (IF how = "stored" THEN {d} ELSE {})
      /\ review' = [review EXCEPT ![r].decision = "approved"]
      /\ IF how = "file" THEN Goes(h, "upload", d) ELSE Ends(h)
      /\ \A e \in ticked : doc[e].st = "active"
  BY <1>1 DEF Publish, Replaced
<1>3. doc \in [Docs -> DocRow] /\ DocLinks
  BY DEF TInv, TypeOK, Links
<1>4. \A e \in Docs :
        /\ Status(e) \in {"absent"} \cup Statuses
        /\ Status(e) = "absent" => doc[e].st = "absent" /\ e # d
  BY <1>3 DEF Statuses, DocRow
<1>5. \A e \in Docs : e # d =>
        \/ Status(e) = doc[e].st
        \/ Status(e) = "superseded" /\ e = doc[d].parent /\ doc[e].st # "absent"
        \/ Status(e) = "stale" /\ doc[e].st # "absent"
  BY <1>2 DEF Replaced, Published
<1>6. Status(d) \in {"processing", "active"} /\ (Status(d) = "processing" => how = "file")
  OBVIOUS
<1> HIDE DEF Status
<1>7. \A e \in Docs : /\ doc'[e] \in DocRow /\ doc'[e].st = Status(e)
                      /\ doc'[e].parent = doc[e].parent /\ doc'[e].by = doc[e].by
                      /\ Status(e) = "absent" => doc'[e] = doc[e]
  <2> SUFFICES ASSUME NEW e \in Docs
               PROVE  /\ doc'[e] \in DocRow /\ doc'[e].st = Status(e)
                      /\ doc'[e].parent = doc[e].parent /\ doc'[e].by = doc[e].by
                      /\ Status(e) = "absent" => doc'[e] = doc[e]
    OBVIOUS
  <2>1. doc'[e] = [doc[e] EXCEPT !.st = Status(e)]
    BY <1>2
  <2>2. doc[e] \in DocRow /\ Status(e) \in {"absent"} \cup Statuses
    BY <1>3, <1>4
  <2> QED
    BY <2>1, <2>2, <1>4 DEF DocRow, Statuses
<1>8. DocFrame
  <2>1. doc' \in [Docs -> DocRow]
    <3>1. doc' = [e \in Docs |-> doc'[e]]
      BY <1>2
    <3> QED
      BY <3>1, <1>7
  <2>2. \A e \in Docs : Exists(e)' \/ doc'[e] = Absent
    BY <1>3, <1>4, <1>7 DEF Exists, DocLinks
  <2>3. \A e \in Docs : Exists(e) => Exists(e)'
    BY <1>4, <1>7 DEF Exists
  <2> QED
    BY <2>1, <2>2, <2>3, <1>7 DEF DocFrame
<1>9. /\ ReviewFrame /\ review'[r].decision = "approved" /\ review'[r].doc = d
      /\ \A q \in Reviews : q # r => review'[q] = review[q]
  BY <1>1, <1>2, VerdictFrame DEF DocumentAssumption
<1>10. \A x \in Docs : x # d =>
         \/ doc'[x].st = doc[x].st
         \/ doc'[x].st = "superseded" /\ x = doc[d].parent
         \/ doc'[x].st = "stale"
  <2> SUFFICES ASSUME NEW x \in Docs, x # d
               PROVE  \/ doc'[x].st = doc[x].st
                      \/ doc'[x].st = "superseded" /\ x = doc[d].parent
                      \/ doc'[x].st = "stale"
    OBVIOUS
  <2>1. doc'[x].st = Status(x)
    BY <1>7
  <2> QED
    BY <1>5, <2>1
<1>11. /\ doc'[d].st \in {"processing", "active"}
       /\ doc'[d].st = "processing" => how = "file"
       /\ chunks' \subseteq chunks \cup {d}
  BY <1>2, <1>6, <1>7
<1>12. \A x \in Docs : ~Exists(x) => doc'[x] = doc[x]
  <2> SUFFICES ASSUME NEW x \in Docs, ~Exists(x) PROVE doc'[x] = doc[x]
    OBVIOUS
  <2>1. doc[x].st = "absent" /\ x # d
    BY <1>1 DEF Exists
  <2>2. Status(x) = "absent"
    BY <2>1, <1>2 DEF Status, Replaced, Published
  <2> QED
    BY <2>2, <1>7
<1> WITNESS r \in Reviews, d \in Docs
<1> QED
  BY <1>1, <1>2, <1>7, <1>8, <1>9, <1>10, <1>11, <1>12 DEF Publishes

LEMMA PublishFrames ==
  ASSUME DocumentAssumption, TInv, NEW h \in Threads, NEW how \in {"stored", "bare", "file"},
         NEW ticked \in SUBSET Docs, Publish(h, how, ticked)
  PROVE  Frames
<1>0. PICK r \in Reviews, d \in Docs : Publishes(h, how, r, d)
  BY PublishRows
<1>1. /\ DocFrame /\ doc'[d].st \in {"processing", "active"}
      /\ chunks' \subseteq chunks \cup {d} /\ ReviewFrame
      /\ IF how = "file" THEN Goes(h, "upload", d) ELSE Ends(h)
  BY <1>0 DEF Publishes
<1>2. Exists(d)'
  BY <1>1 DEF Exists
<1>3. ChunkFrame
  BY <1>1, <1>2 DEF ChunkFrame, TInv, TypeOK
<1>4. ThreadFrame
  <2>1. "upload" \in AtDoc
    BY DEF AtDoc, Triggers
  <2> QED
    BY <2>1, <1>1, <1>2, GoesDoc, EndsFrame
<1> QED
  BY <1>1, <1>3, <1>4, SameFrames DEF Frames, Publish

LEMMA BreakDeadlockFrames ==
  ASSUME DocumentAssumption, TInv, NEW c \in Calls, NEW h \in Threads, BreakDeadlock(c, h)
  PROVE  Frames
<1>1. ThreadFrame /\ CallFrame
  BY CallFrames, EndsFrame, SameFrames DEF BreakDeadlock
<1> QED
  BY <1>1, SameFrames DEF Frames, BreakDeadlock

-----------------------------------------------------------------------------
(* Steps towards the ingestion *)

LEMMA ReindexFrames ==
  ASSUME DocumentAssumption, TInv, NEW h \in Threads, NEW d \in Docs, Reindex(h, d)
  PROVE  Frames
<1>1. /\ Exists(d) /\ Sets(d, "processing") /\ Goes(h, "reindex", d)
      /\ "processing" \in Statuses /\ "reindex" \in AtDoc
  BY DEF Reindex, Exists, Statuses, AtDoc, Triggers
<1>2. DocFrame /\ Exists(d)'
  BY <1>1, SetsFrame DEF Exists
<1>3. ThreadFrame
  BY <1>1, <1>2, GoesDoc
<1> QED
  BY <1>2, <1>3, SameFrames DEF Frames, Reindex

LEMMA RetryJobFrames ==
  ASSUME DocumentAssumption, TInv, NEW h \in Threads, NEW j \in Jobs, RetryJob(h, j)
  PROVE  Frames
<1>1. PICK d : d = job[j].doc
  OBVIOUS
<1>2. d \in Docs /\ Exists(d)
  BY <1>1 DEF RetryJob, TInv, TypeOK, JobRow, Links, JobLinks
<1>3. Exists(d)' /\ Goes(h, "admin_retry", d) /\ "admin_retry" \in AtDoc
  BY <1>1, <1>2 DEF RetryJob, Exists, AtDoc, Triggers
<1>4. ThreadFrame
  BY <1>2, <1>3, GoesDoc
<1> QED
  BY <1>4, SameFrames DEF Frames, RetryJob

(* The job a request makes. *)
LEMMA EnqueueRows ==
  ASSUME DocumentAssumption, TInv, NEW h \in Threads, Enqueue(h)
  PROVE  \/ Ends(h) /\ At(h, "admin_retry") /\ UNCHANGED <<doc, job>>
         \/ \E d \in Docs, j \in Jobs :
              /\ d = thread[h].item /\ Exists(d) /\ job[j].doc = NoDoc
              /\ Sets(d, "processing") /\ Goes(h, "dispatch", j)
              /\ job'[j] = [st |-> "queued", doc |-> d, trigger |-> thread[h].at]
              /\ \A k \in Jobs : k # j => job'[k] = job[k]
              /\ JobFrame /\ DocFrame /\ ThreadFrame
<1>1. CASE Ends(h) /\ At(h, "admin_retry") /\ UNCHANGED <<doc, job>>
  BY <1>1
<1>2. ASSUME Sets(thread[h].item, "processing"),
             NEW j \in Jobs, NewJob(j), Goes(h, "dispatch", j),
             job' = [job EXCEPT ![j] = [st |-> "queued", doc |-> thread[h].item,
                                        trigger |-> thread[h].at]]
      PROVE  \E d \in Docs, k \in Jobs :
              /\ d = thread[h].item /\ Exists(d) /\ job[k].doc = NoDoc
              /\ Sets(d, "processing") /\ Goes(h, "dispatch", k)
              /\ job'[k] = [st |-> "queued", doc |-> d, trigger |-> thread[h].at]
              /\ \A i \in Jobs : i # k => job'[i] = job[i]
              /\ JobFrame /\ DocFrame /\ ThreadFrame
  <2>1. PICK d \in Docs : d = thread[h].item /\ Exists(d)
    BY ItemFacts DEF Enqueue, AtDoc
  <2>2. Sets(d, "processing") /\ "processing" \in Statuses
    BY <1>2, <2>1 DEF Statuses
  <2>3. DocFrame /\ Exists(d)'
    BY <2>1, <2>2, SetsFrame DEF Exists, Statuses
  <2> DEFINE new == [st |-> "queued", doc |-> d, trigger |-> thread[h].at]
  <2>4. new \in JobRow /\ new.doc = d
    BY DEF Enqueue, JobRow
  <2>5. job \in [Jobs -> JobRow] /\ job' = [job EXCEPT ![j] = new] /\ job[j].doc = NoDoc
    BY <1>2, <2>1 DEF TInv, TypeOK, NewJob
  <2> HIDE DEF new
  <2>6. /\ job' \in [Jobs -> JobRow] /\ job'[j] = new
        /\ \A k \in Jobs : k # j => job'[k] = job[k]
    BY <2>4, <2>5
  <2>7. job'[j].doc # NoDoc /\ Exists(job[j].doc)'
    BY <2>3, <2>4, <2>6 DEF DocumentAssumption, Exists
  <2>8. JobFrame
    BY <2>5, <2>6, <2>7 DEF JobFrame
  <2>9. ThreadFrame
    BY <1>2, <2>7, GoesJob
  <2> QED
    BY <1>2, <2>1, <2>2, <2>3, <2>5, <2>6, <2>8, <2>9 DEF new
<1> QED
  BY <1>1, <1>2 DEF Enqueue

LEMMA EnqueueFrames ==
  ASSUME DocumentAssumption, TInv, NEW h \in Threads, Enqueue(h)
  PROVE  Frames
<1>1. JobFrame /\ DocFrame /\ ThreadFrame
  <2>1. CASE Ends(h) /\ UNCHANGED <<doc, job>>
    BY <2>1, EndsFrame, SameFrames
  <2> QED
    BY <2>1, EnqueueRows
<1> QED
  BY <1>1, SameFrames DEF Frames, Enqueue

LEMMA DispatchFrames ==
  ASSUME DocumentAssumption, TInv, NEW h \in Threads, Dispatch(h)
  PROVE  Frames
<1>1. thread[h].item \in Jobs /\ job'[thread[h].item].doc # NoDoc
  BY ItemFacts DEF Dispatch, At, DocumentAssumption
<1>2. 0 \in 0..MaxRetries
  BY DEF DocumentAssumption
<1>3. QueueFrame
  BY <1>1, <1>2 DEF QueueFrame, Dispatch, Message, TInv, TypeOK
<1> QED
  BY <1>3, EndsFrame, SameFrames DEF Frames, Dispatch

LEMMA DispatchFailsFrames ==
  ASSUME DocumentAssumption, TInv, NEW h \in Threads, DispatchFails(h)
  PROVE  Frames
<1>1. PICK j \in Jobs, d \in Docs : j = thread[h].item /\ d = job[j].doc /\ Exists(d)
  BY ItemFacts DEF DispatchFails, At
<1>2. /\ job' = [job EXCEPT ![j].st = "failed"] /\ Goes(h, "refused", d) /\ UNCHANGED doc
      /\ d # NoDoc
  BY <1>1 DEF DispatchFails, DocumentAssumption
<1>3. JobFrame
  BY <1>1, <1>2, JobStatusFrame
<1>4. Exists(d)' /\ "refused" \in AtDoc
  BY <1>1, <1>2 DEF Exists, AtDoc
<1>5. ThreadFrame
  BY <1>2, <1>4, GoesDoc
<1> QED
  BY <1>3, <1>5, SameFrames DEF Frames, DispatchFails

LEMMA FailUndispatchedFrames ==
  ASSUME DocumentAssumption, TInv, NEW h \in Threads, FailUndispatched(h)
  PROVE  Frames
<1>1. /\ thread[h].item \in Docs /\ Exists(thread[h].item) /\ Sets(thread[h].item, "failed")
      /\ "failed" \in Statuses
  BY ItemFacts DEF FailUndispatched, At, AtDoc, Statuses
<1>2. DocFrame
  BY <1>1, SetsFrame
<1> QED
  BY <1>2, EndsFrame, SameFrames DEF Frames, FailUndispatched

LEMMA AbandonFrames ==
  ASSUME DocumentAssumption, TInv, NEW h \in Threads, Abandon(h)
  PROVE  Frames
<1>1. thread[h].at \in Triggers \cup {"refused"} => thread[h].item \in Docs
  BY ItemFacts DEF AtDoc
<1>2. thread[h].at = "dispatch" => job[thread[h].item].doc \in Docs
  BY ItemFacts
<1>3. stranded' \subseteq Docs
  BY <1>1, <1>2 DEF Abandon, At, TInv, TypeOK
<1> QED
  BY <1>3, EndsFrame, SameFrames DEF Frames, Abandon

-----------------------------------------------------------------------------
(* Steps of the ingestion worker *)

LEMMA TakeFrames ==
  ASSUME DocumentAssumption, TInv, NEW w \in Workers, NEW m \in queue, Take(w, m)
  PROVE  /\ Frames /\ m \in Message
         /\ job'[m.job].doc = job[m.job].doc
         /\ worker'[w] # Free /\ worker'[w].job = m.job
         /\ \A v \in Workers : v # w => worker'[v] = worker[v]
<1>1. m \in Message /\ m.job \in Jobs /\ m.tries \in 0..MaxRetries /\ job[m.job].doc # NoDoc
  BY DEF TInv, TypeOK, Links, QueueLinks, Message
<1>2. /\ JobFrame /\ job'[m.job].doc = job[m.job].doc
  BY <1>1, JobStatusFrame DEF Take
<1> DEFINE new == [at |-> "mark", job |-> m.job, tries |-> m.tries]
<1>3. new \in Task /\ new # Free /\ new.job = m.job
  BY <1>1 DEF Task, Free
<1>4. worker \in [Workers -> Task] /\ worker' = [worker EXCEPT ![w] = new]
  BY DEF TInv, TypeOK, Take
<1> HIDE DEF new
<1>5. /\ worker' \in [Workers -> Task] /\ worker'[w] = new
      /\ \A v \in Workers : v # w => worker'[v] = worker[v]
  BY <1>3, <1>4
<1>6. WorkerFrame
  <2>1. job'[worker'[w].job].doc # NoDoc
    BY <1>1, <1>2, <1>3, <1>5
  <2> QED
    BY <1>5, <2>1 DEF WorkerFrame
<1>7. QueueFrame
  BY DEF Take, QueueFrame, TInv, TypeOK
<1>8. Frames
  BY <1>2, <1>6, <1>7, SameFrames DEF Frames, Take
<1> QED
  BY <1>1, <1>2, <1>3, <1>5, <1>8

(* The steps that write the status of the document and go on. *)
LEMMA MarksFrames ==
  ASSUME DocumentAssumption, TInv, NEW w \in Workers,
         MarkProcessing(w) \/ PublishIngested(w) \/ FailDocument(w)
  PROVE  /\ Frames
         /\ worker[w] # Free /\ worker'[w] # Free /\ worker'[w].job = worker[w].job
         /\ \A v \in Workers : v # w => worker'[v] = worker[v]
         /\ DocOf(w) \in Docs
         /\ doc'[DocOf(w)].st \in {"processing", "active", "failed"}
         /\ \A e \in Docs : e # DocOf(w) => doc'[e] = doc[e]
<1>1. worker[w] # Free
  BY DEF Free, MarkProcessing, PublishIngested, FailDocument
<1>2. PICK d \in Docs : d = DocOf(w) /\ Exists(d)
  BY <1>1, WorkerFacts
<1>3. PICK st \in {"processing", "active", "failed"} : Sets(d, st)
  BY <1>2 DEF MarkProcessing, PublishIngested, FailDocument
<1>4. st \in Statuses
  BY DEF Statuses
<1>5. DocFrame /\ doc'[d].st = st /\ \A e \in Docs : e # d => doc'[e] = doc[e]
  BY <1>2, <1>3, <1>4, SetsFrame
<1>6. PICK at \in {"mark", "ingest", "publish", "close", "empty", "fail", "failjob"} : Works(w, at)
  BY DEF MarkProcessing, PublishIngested, FailDocument
<1>7. /\ WorkerFrame /\ worker'[w] # Free /\ worker'[w].job = worker[w].job
      /\ \A v \in Workers : v # w => worker'[v] = worker[v]
  BY <1>1, <1>6, WorksFrame
<1>8. Frames
  BY <1>5, <1>7, SameFrames DEF Frames, MarkProcessing, PublishIngested, FailDocument
<1> QED
  BY <1>1, <1>2, <1>5, <1>7, <1>8

LEMMA IngestFrames ==
  ASSUME DocumentAssumption, TInv, NEW w \in Workers, NEW outcome \in Outcomes,
         Ingest(w, outcome)
  PROVE  /\ Frames
         /\ worker[w] # Free /\ worker'[w] # Free /\ worker'[w].job = worker[w].job
         /\ \A v \in Workers : v # w => worker'[v] = worker[v]
         /\ DocOf(w) \in Docs
         /\ doc'[DocOf(w)].st \in {doc[DocOf(w)].st, "failed"}
         /\ \A e \in Docs : e # DocOf(w) => doc'[e] = doc[e]
<1>1. worker[w] # Free
  BY DEF Free, Ingest
<1>2. PICK d \in Docs : d = DocOf(w) /\ Exists(d)
  BY <1>1, WorkerFacts
<1>3. "failed" \in Statuses
  BY DEF Statuses
<1>4. /\ DocFrame /\ Exists(d)' /\ doc'[d].st \in {doc[d].st, "failed"}
      /\ \A e \in Docs : e # d => doc'[e] = doc[e]
  <2>1. CASE UNCHANGED doc
    BY <1>2, <2>1, SameFrames DEF Exists
  <2>2. CASE Sets(d, "failed")
    BY <1>2, <1>3, <2>2, SetsFrame DEF Exists
  <2> QED
    BY <1>2, <2>1, <2>2 DEF Ingest
<1>5. ChunkFrame
  <2>1. chunks' \subseteq chunks \cup {d}
    BY <1>2 DEF Ingest
  <2> QED
    BY <1>4, <2>1 DEF ChunkFrame, TInv, TypeOK
<1>6. PICK at \in {"mark", "ingest", "publish", "close", "empty", "fail", "failjob"} : Works(w, at)
  <2>1. CASE outcome = "stored"
    BY <2>1 DEF Ingest
  <2>2. CASE outcome \in {"zero", "empty"}
    <3>1. outcome # "stored"
      BY <2>2
    <3> QED
      BY <2>2, <3>1 DEF Ingest
  <2>3. CASE outcome \in {"partial", "error"}
    <3>1. outcome # "stored" /\ outcome # "zero" /\ outcome # "empty"
      BY <2>3
    <3> QED
      BY <2>3, <3>1 DEF Ingest
  <2> QED
    BY <2>1, <2>2, <2>3 DEF Outcomes
<1>7. /\ WorkerFrame /\ worker'[w] # Free /\ worker'[w].job = worker[w].job
      /\ \A v \in Workers : v # w => worker'[v] = worker[v]
  BY <1>1, <1>6, WorksFrame
<1>8. stranded' \subseteq Docs
  BY <1>2 DEF Ingest, TInv, TypeOK
<1>9. Frames
  BY <1>4, <1>5, <1>7, <1>8, SameFrames DEF Frames, Ingest
<1> QED
  BY <1>1, <1>2, <1>4, <1>7, <1>9

LEMMA CloseJobFrames ==
  ASSUME DocumentAssumption, TInv, NEW w \in Workers, CloseJob(w)
  PROVE  Frames
<1>1. worker[w] # Free
  BY DEF Free, CloseJob
<1>2. PICK j \in Jobs : j = worker[w].job /\ job[j].doc # NoDoc
  BY <1>1, WorkerFacts
<1>3. PICK st \in {"succeeded", "failed"} : job' = [job EXCEPT ![j].st = st]
  BY <1>2 DEF CloseJob, JobSt
<1>4. JobFrame
  BY <1>2, <1>3, JobStatusFrame
<1> QED
  BY <1>4, RestsFrame, SameFrames DEF Frames, CloseJob

LEMMA FailJobFrames ==
  ASSUME DocumentAssumption, TInv, NEW w \in Workers, NEW copies \in {{1}, {1, 2}},
         FailJob(w, copies)
  PROVE  /\ Frames /\ worker[w] # Free
         /\ \A j \in Jobs : job'[j].doc = job[j].doc
<1>1. worker[w] # Free
  BY DEF Free, FailJob
<1>2. PICK j \in Jobs : j = worker[w].job /\ job[j].doc # NoDoc
  BY <1>1, WorkerFacts
<1>3. PICK st \in {"retrying", "failed"} : job' = [job EXCEPT ![j].st = st]
  BY <1>2 DEF FailJob, JobSt
<1>4. JobFrame /\ \A k \in Jobs : job'[k].doc = job[k].doc
  BY <1>2, <1>3, JobStatusFrame
<1>5. QueueFrame
  <2>1. \A m \in RetryMessages(w, copies) : m \in Message /\ m.job = j
    <3>1. worker[w].tries \in 0..MaxRetries
      BY <1>1, TaskType DEF TInv, TypeOK
    <3>2. worker[w].tries # MaxRetries => worker[w].tries + 1 \in 0..MaxRetries
      BY <3>1 DEF DocumentAssumption
    <3> QED
      BY <1>2, <3>2 DEF RetryMessages, Final, Message
  <2>2. queue' = queue \cup RetryMessages(w, copies)
    BY DEF FailJob
  <2> QED
    BY <1>2, <1>4, <2>1, <2>2 DEF QueueFrame, TInv, TypeOK
<1> QED
  BY <1>1, <1>4, <1>5, RestsFrame, SameFrames DEF Frames, FailJob

LEMMA WorkerDiesFrames ==
  ASSUME DocumentAssumption, TInv, NEW w \in Workers, WorkerDies(w)
  PROVE  Frames
<1>1. DocOf(w) \in Docs
  BY WorkerFacts DEF WorkerDies
<1>2. stranded' \subseteq Docs
  BY <1>1 DEF WorkerDies, TInv, TypeOK
<1> QED
  BY <1>2, RestsFrame, SameFrames DEF Frames, WorkerDies

-----------------------------------------------------------------------------
(* Steps of the maintenance *)

LEMMA MaintainFrames ==
  ASSUME DocumentAssumption, TInv, NEW h \in Threads, NEW d \in Docs, Maintain(h, d)
  PROVE  Frames
<1>1. PICK at \in {"stale", "fresh", "reclaim"} : Goes(h, at, d)
  BY DEF Maintain
<1>2. Exists(d)' /\ at \in AtDoc
  BY DEF Maintain, Exists, AtDoc
<1>3. ThreadFrame
  BY <1>1, <1>2, GoesDoc
<1> QED
  BY <1>3, SameFrames DEF Frames, Maintain

LEMMA WriteFreshnessFrames ==
  ASSUME DocumentAssumption, TInv, NEW h \in Threads, WriteFreshness(h)
  PROVE  /\ Frames
         /\ thread[h].item \in Docs /\ doc'[thread[h].item].st \in {"stale", "active"}
         /\ \A e \in Docs : e # thread[h].item => doc'[e] = doc[e]
<1>1. PICK d \in Docs : d = thread[h].item /\ Exists(d)
  BY ItemFacts DEF WriteFreshness, AtDoc
<1>2. PICK st \in {"stale", "active"} : Sets(d, st)
  BY <1>1 DEF WriteFreshness
<1>3. DocFrame /\ doc'[d].st = st /\ \A e \in Docs : e # d => doc'[e] = doc[e]
  BY <1>1, <1>2, SetsFrame DEF Statuses
<1>4. Frames
  BY <1>3, EndsFrame, SameFrames DEF Frames, WriteFreshness
<1> QED
  BY <1>1, <1>3, <1>4

LEMMA ReclaimChunksFrames ==
  ASSUME DocumentAssumption, TInv, NEW h \in Threads, ReclaimChunks(h)
  PROVE  Frames
<1>1. ChunkFrame
  BY DEF ReclaimChunks, ChunkFrame, TInv, TypeOK
<1> QED
  BY <1>1, EndsFrame, SameFrames DEF Frames, ReclaimChunks

LEMMA ArchiveFrames ==
  ASSUME DocumentAssumption, TInv, NEW d \in Docs, Archive(d)
  PROVE  /\ Frames
         /\ doc'[d].st = "archived" /\ \A e \in Docs : e # d => doc'[e] = doc[e]
<1>1. "archived" \in Statuses
  BY DEF Statuses
<1>2. DocFrame /\ doc'[d].st = "archived" /\ \A e \in Docs : e # d => doc'[e] = doc[e]
  BY <1>1, SetsFrame DEF Archive
<1> QED
  BY <1>2, SameFrames DEF Frames, Archive

-----------------------------------------------------------------------------
(* Types *)

LEMMA ThreadStepFrames ==
  ASSUME DocumentAssumption, TInv, NEW h \in Threads, ThreadStep(h)
  PROVE  Frames
BY SaveEditFrames, StageForReviewFrames, FileReviewFrames, RejectFrames, LockReviewFrames, LockParentFrames,
   PublishFrames, EnqueueFrames, DispatchFrames, FailUndispatchedFrames, WriteFreshnessFrames,
   ReclaimChunksFrames DEF ThreadStep

LEMMA WorkerStepFrames ==
  ASSUME DocumentAssumption, TInv, NEW w \in Workers, WorkerStep(w)
  PROVE  Frames
BY TakeFrames, MarksFrames, IngestFrames, CloseJobFrames, FailJobFrames DEF WorkerStep

LEMMA StepFrames ==
  ASSUME DocumentAssumption, TInv, Next
  PROVE  Frames
<1>1. CASE BeginVersion
  BY <1>1, SendFrames DEF BeginVersion
<1>2. CASE BeginReview
  BY <1>2, StagePendingVersionRows, SubmitReviewFrames, UploadFrames, DecideFrames
     DEF BeginReview
<1>3. CASE BeginIngestion
  BY <1>3, UploadFrames, BatchUploadFrames, ReindexFrames, RetryJobFrames DEF BeginIngestion
<1>4. CASE BeginMaintenance
  BY <1>4, ArchiveFrames, MaintainFrames, BeginEditFrames DEF BeginMaintenance
<1>5. CASE CallFault
  BY <1>5, QuietCallFrames DEF CallFault
<1>6. CASE ProcessFault
  BY <1>6, AbandonFrames, DispatchFailsFrames, WorkerDiesFrames DEF ProcessFault
<1>7. CASE \E c \in Calls : CallStep(c)
  BY <1>7, QuietCallFrames, CreateVersionFrames DEF CallStep
<1>8. CASE \E c \in Calls, h \in Threads : BreakDeadlock(c, h)
  BY <1>8, BreakDeadlockFrames
<1>9. CASE \E h \in Threads : ThreadStep(h)
  BY <1>9, ThreadStepFrames
<1>10. CASE \E w \in Workers : WorkerStep(w)
  BY <1>10, WorkerStepFrames
<1> QED
  BY <1>1, <1>2, <1>3, <1>4, <1>5, <1>6, <1>7, <1>8, <1>9, <1>10 DEF Next, Step

LEMMA TypeStep ==
  ASSUME DocumentAssumption, TInv, [Next]_vars
  PROVE  TInv'
<1>1. CASE Next
  BY <1>1, StepFrames, FramesKeep
<1>2. CASE UNCHANGED vars
  <2>1. Frames
    BY <1>2, SameFrames DEF Frames, vars, governedVars
  <2> QED
    BY <2>1, FramesKeep
<1> QED
  BY <1>1, <1>2

LEMMA TypeInit ==
  ASSUME DocumentAssumption, Init
  PROVE  TInv
<1>1. Row("active", NoDoc, "direct") \in DocRow /\ Absent \in DocRow
  BY DEF Row, DocRow, Absent, Statuses
<1>2. \A d \in Docs : doc[d] = IF d = 1 THEN Row("active", NoDoc, "direct") ELSE Absent
  BY DEF Init
<1>3. doc \in [Docs -> DocRow]
  BY <1>1 DEF Init
<1>4. DocLinks /\ ChunkLinks
  <2>1. Exists(1)
    BY <1>2 DEF Exists, Row, DocumentAssumption
  <2> QED
    BY <1>2, <2>1 DEF DocLinks, ChunkLinks, Init
<1>5. review \in [Reviews -> ReviewRow] /\ ReviewLinks
  BY DEF Init, ReviewRow, ReviewLinks
<1>6. job \in [Jobs -> JobRow] /\ JobLinks
  BY DEF Init, JobRow, JobLinks
<1>7. thread \in [Threads -> Handler] /\ ThreadLinks
  BY DEF Init, Handler, Idle, ThreadLinks, ItemLinks, At, AtDoc, AtReview, Triggers
<1>8. worker \in [Workers -> Task] /\ WorkerLinks
  BY DEF Init, Task, WorkerLinks
<1>9. GovernedTypeOK(Keys, Request, Docs) /\ CallLinks
  BY DEF Init, GovernedInit, GovernedTypeOK, Stages, NoAnswer, CallLinks
<1>10. chunks \subseteq Docs /\ queue \subseteq Message /\ stranded \subseteq Docs /\ QueueLinks
  BY DEF Init, QueueLinks, DocumentAssumption
<1> QED
  BY <1>3, <1>4, <1>5, <1>6, <1>7, <1>8, <1>9, <1>10 DEF TInv, TypeOK, Links, Keys

(* Every row, message, handler and worker keeps its type, and refers only to *)
(* rows that exist, for any number of them.                                  *)
THEOREM Typed == Spec => []TInv
<1>1. Init => TInv
  BY TypeInit, DocumentAssumption
<1>2. TInv /\ [Next]_vars => TInv'
  BY TypeStep, DocumentAssumption
<1> QED
  BY <1>1, <1>2, PTL DEF Spec

(* Every row, message, handler and worker keeps its type. *)
THEOREM TypeCorrect == Spec => []TypeOK
<1>1. TInv => TypeOK
  BY DEF TInv
<1> QED
  BY <1>1, Typed, PTL

-----------------------------------------------------------------------------
(* One approval at a time, of a review that is still pending *)

AtWork == {"parent", "publish"}

LockInv == /\ \A r \in Reviews : review[r].doc = NoDoc => review[r].decision = "none"
           /\ \A g, h \in Threads : thread[g].at \in AtWork /\ thread[h].at \in AtWork => g = h
           /\ \A h \in Threads : thread[h].at \in AtWork => Undecided(thread[h].item)

(* No handler begins an approval, or the one that does goes on. *)
NoneEnters == \A h \in Threads : thread'[h].at \in AtWork =>
                thread[h].at \in AtWork /\ thread'[h].item = thread[h].item

LEMMA Leaves ==
  ASSUME DocumentAssumption, TInv, NEW h \in Threads,
         \/ Ends(h) \/ UNCHANGED thread
         \/ \E at, item : Goes(h, at, item) /\ at \notin AtWork
  PROVE  NoneEnters
<1>1. thread \in [Threads -> Handler]
  BY DEF TInv, TypeOK
<1>2. CASE Ends(h)
  BY <1>1, <1>2 DEF Ends, NoneEnters, AtWork, Idle
<1>3. CASE UNCHANGED thread
  BY <1>3 DEF NoneEnters
<1>4. ASSUME NEW at, NEW item, Goes(h, at, item), at \notin AtWork PROVE NoneEnters
  BY <1>1, <1>4 DEF Goes, NoneEnters
<1> QED
  BY <1>2, <1>3, <1>4

LEMMA LockQuiet ==
  ASSUME TInv, LockInv, NoneEnters, UNCHANGED review
  PROVE  LockInv'
BY DEF LockInv, NoneEnters, Undecided, AtWork

(* What a step does to the reviews and to the approvals at work. *)
QuietReviews == UNCHANGED review /\ NoneEnters
FiledOne == SpaceFree /\ NoneEnters /\ \E r \in Reviews, d \in Docs :
  /\ NewReview(r) /\ review'[r] = [doc |-> d, decision |-> "pending"] /\ Exists(d)'
  /\ \A q \in Reviews : q # r => review'[q] = review[q]
RejectedOne == SpaceFree /\ NoneEnters /\ \E r \in Reviews :
  /\ Undecided(r) /\ review'[r].decision = "rejected" /\ review'[r].doc = review[r].doc
  /\ \A q \in Reviews : q # r => review'[q] = review[q]

LEMMA ReviewMoves ==
  ASSUME DocumentAssumption, TInv, Next
  PROVE  \/ QuietReviews \/ FiledOne \/ RejectedOne
         \/ \E h \in Threads : LockReview(h) \/ LockParent(h)
         \/ \E h \in Threads, how \in {"stored", "bare", "file"}, ticked \in SUBSET Docs :
              Publish(h, how, ticked)
<1>0. \A h \in Threads : Ends(h) \/ UNCHANGED thread => NoneEnters
  BY Leaves
<1>1. CASE BeginVersion
  BY <1>1 DEF BeginVersion, SendVersion, docVars, QuietReviews, NoneEnters
<1>2. ASSUME NEW h \in Threads, NEW d \in Docs, NEW gated \in BOOLEAN, Upload(h, d, gated)
      PROVE  QuietReviews
  BY <1>2, Leaves DEF Upload, AtWork, QuietReviews
<1>3. ASSUME NEW h \in Threads, NEW d \in Docs, SubmitReview(h, d)
      PROVE  QuietReviews
  BY <1>3, Leaves DEF SubmitReview, AtWork, QuietReviews
<1>4. ASSUME NEW h \in Threads, NEW r \in Reviews, NEW verdict \in {"approve", "reject"},
             Decide(h, r, verdict)
      PROVE  QuietReviews
  BY <1>4, Leaves DEF Decide, AtWork, QuietReviews
<1>5. ASSUME NEW d \in Docs, NEW e \in Docs, NEW r \in Reviews, StagePendingVersion(d, e, r)
      PROVE  FiledOne
  <2>1. /\ review'[r] = [doc |-> e, decision |-> "pending"] /\ doc'[e].st = "pending_review"
        /\ \A q \in Reviews : q # r => review'[q] = review[q]
    BY <1>5, StagePendingVersionRows
  <2>2. Exists(e)'
    BY <2>1 DEF Exists
  <2> QED
    BY <1>5, <2>1, <2>2 DEF StagePendingVersion, FiledOne, NoneEnters
<1>6. CASE BeginReview
  BY <1>6, <1>2, <1>3, <1>4, <1>5 DEF BeginReview
<1>7. CASE BeginIngestion
  <2>1. ASSUME NEW h \in Threads, NEW d \in Docs, Reindex(h, d) PROVE QuietReviews
    BY <2>1, Leaves DEF Reindex, AtWork, QuietReviews
  <2>2. ASSUME NEW h \in Threads, NEW j \in Jobs, RetryJob(h, j) PROVE QuietReviews
    BY <2>2, Leaves DEF RetryJob, AtWork, QuietReviews
  <2>3. ASSUME NEW h \in Threads, NEW d \in Docs, BatchUpload(h, d) PROVE QuietReviews
    BY <2>3, Leaves DEF BatchUpload, AtWork, QuietReviews
  <2> QED
    BY <1>7, <1>2, <2>1, <2>2, <2>3 DEF BeginIngestion
<1>8. CASE BeginMaintenance
  <2>1. ASSUME NEW d \in Docs, Archive(d) PROVE QuietReviews
    BY <2>1 DEF Archive, QuietReviews, NoneEnters
  <2>2. ASSUME NEW h \in Threads, NEW d \in Docs, Maintain(h, d) PROVE QuietReviews
    <3>1. \E at, item : Goes(h, at, item) /\ at \notin AtWork
      BY <2>2 DEF Maintain, AtWork
    <3> QED
      BY <2>2, <3>1, Leaves DEF Maintain, QuietReviews
  <2>3. ASSUME NEW h \in Threads, NEW d \in Docs, BeginEdit(h, d) PROVE QuietReviews
    <3>1. thread'[h].at = "edit" /\ \A g \in Threads : g # h => thread'[g] = thread[g]
      BY <2>3, BeginEditFrames
    <3> QED
      BY <2>3, <3>1 DEF BeginEdit, AtWork, QuietReviews, NoneEnters
  <2> QED
    BY <1>8, <2>1, <2>2, <2>3 DEF BeginMaintenance
<1>9. CASE CallFault
  BY <1>9 DEF CallFault, AbortVersion, LoseCall, docVars, QuietReviews, NoneEnters
<1>10. CASE ProcessFault
  <2>1. ASSUME NEW h \in Threads, Abandon(h) PROVE QuietReviews
    BY <2>1, <1>0 DEF Abandon, QuietReviews
  <2>2. ASSUME NEW h \in Threads, DispatchFails(h) PROVE QuietReviews
    BY <2>2, Leaves DEF DispatchFails, AtWork, QuietReviews
  <2>3. ASSUME NEW w \in Workers, WorkerDies(w) PROVE QuietReviews
    BY <2>3 DEF WorkerDies, QuietReviews, NoneEnters
  <2> QED
    BY <1>10, <2>1, <2>2, <2>3 DEF ProcessFault
<1>11. ASSUME NEW c \in Calls, CallStep(c) PROVE QuietReviews
  BY <1>11 DEF CallStep, ProbeRecord, ClaimKey, LockDocument, ReplyVersion, CreateVersion,
              docVars, QuietReviews, NoneEnters
<1>12. ASSUME NEW c \in Calls, NEW h \in Threads, BreakDeadlock(c, h) PROVE QuietReviews
  BY <1>12, <1>0 DEF BreakDeadlock, QuietReviews
<1>13. ASSUME NEW h \in Threads, FileReview(h) PROVE QuietReviews \/ FiledOne
  <2>1. SpaceFree /\ NoneEnters
    BY <1>13, <1>0 DEF FileReview
  <2>2. CASE UNCHANGED review
    BY <2>1, <2>2 DEF QuietReviews
  <2>3. CASE \E r \in Reviews : NewReview(r) /\ Filed(r, thread[h].item)
    <3>1. PICK d \in Docs : d = thread[h].item /\ Exists(d)
      BY <1>13, ItemFacts DEF FileReview, At, AtDoc
    <3>2. PICK r \in Reviews : NewReview(r) /\ Filed(r, d)
      BY <2>3, <3>1
    <3>3. Exists(d)'
      BY <1>13, <3>1 DEF FileReview, Exists
    <3>4. /\ review'[r] = [doc |-> d, decision |-> "pending"]
          /\ \A q \in Reviews : q # r => review'[q] = review[q]
      BY <3>2, <3>3, FiledFrame
    <3> QED
      BY <2>1, <3>2, <3>3, <3>4 DEF FiledOne
  <2> QED
    BY <1>13, <2>2, <2>3 DEF FileReview
<1>14. ASSUME NEW h \in Threads, Reject(h) PROVE QuietReviews \/ RejectedOne
  <2>1. SpaceFree /\ NoneEnters
    BY <1>14, <1>0 DEF Reject
  <2> QED
    BY <1>14, <2>1, RejectFrames DEF QuietReviews, RejectedOne
<1>15. ASSUME NEW h \in Threads, StageForReview(h) PROVE QuietReviews
  BY <1>15, Leaves DEF StageForReview, AtWork, QuietReviews
<1>16. ASSUME NEW h \in Threads,
              \/ SaveEdit(h) \/ Dispatch(h) \/ FailUndispatched(h) \/ WriteFreshness(h)
              \/ ReclaimChunks(h)
       PROVE  QuietReviews
  BY <1>16, <1>0 DEF SaveEdit, Dispatch, FailUndispatched, WriteFreshness, ReclaimChunks, QuietReviews
<1>17. ASSUME NEW h \in Threads, Enqueue(h) PROVE QuietReviews
  <2>1. Ends(h) \/ \E j \in Jobs : Goes(h, "dispatch", j)
    BY <1>17 DEF Enqueue
  <2>2. NoneEnters
    BY <2>1, Leaves DEF AtWork
  <2> QED
    BY <1>17, <2>2 DEF Enqueue, QuietReviews
<1>18. CASE \E h \in Threads : ThreadStep(h)
  BY <1>18, <1>13, <1>14, <1>15, <1>16, <1>17 DEF ThreadStep
<1>19. ASSUME NEW w \in Workers, WorkerStep(w) PROVE QuietReviews
  BY <1>19 DEF WorkerStep, Take, MarkProcessing, PublishIngested, CloseJob, FailDocument, Ingest,
              FailJob, QuietReviews, NoneEnters
<1> QED
  BY <1>1, <1>6, <1>7, <1>8, <1>9, <1>10, <1>11, <1>12, <1>18, <1>19 DEF Next, Step

LEMMA LockStep ==
  ASSUME DocumentAssumption, TInv, LockInv, [Next]_vars
  PROVE  LockInv'
<1> USE DEF LockInv
<1>1. CASE QuietReviews
  BY <1>1, LockQuiet DEF QuietReviews
<1>2. CASE FiledOne
  <2>1. \A h \in Threads : thread'[h].at \notin AtWork
    BY <1>2 DEF FiledOne, SpaceFree, Approving, NoneEnters, AtWork
  <2>2. PICK r \in Reviews, d \in Docs :
          /\ review'[r] = [doc |-> d, decision |-> "pending"]
          /\ \A q \in Reviews : q # r => review'[q] = review[q]
    BY <1>2 DEF FiledOne
  <2>3. review'[r].doc # NoDoc
    BY <2>2 DEF DocumentAssumption
  <2> QED
    BY <2>1, <2>2, <2>3
<1>3. CASE RejectedOne
  <2>1. \A h \in Threads : thread'[h].at \notin AtWork
    BY <1>3 DEF RejectedOne, SpaceFree, Approving, NoneEnters, AtWork
  <2>2. PICK r \in Reviews :
          /\ Undecided(r) /\ review'[r].doc = review[r].doc
          /\ \A q \in Reviews : q # r => review'[q] = review[q]
    BY <1>3 DEF RejectedOne
  <2>3. review'[r].doc # NoDoc
    BY <2>2 DEF Undecided
  <2> QED
    BY <2>1, <2>2, <2>3
<1>4. ASSUME NEW h \in Threads, LockReview(h) PROVE LockInv'
  <2>1. /\ \A g \in Threads : thread[g].at \notin AtWork
        /\ UNCHANGED review
    BY <1>4 DEF LockReview, SpaceFree, Approving, AtWork
  <2>2. \A g \in Threads : g # h => thread'[g] = thread[g]
    BY <1>4, LockReviewFrames
  <2>3. thread'[h].at \in AtWork => Undecided(thread[h].item) /\ thread'[h].item = thread[h].item
    BY <1>4, LockReviewFrames DEF Idle, AtWork
  <2> QED
    BY <2>1, <2>2, <2>3 DEF Undecided
<1>5. ASSUME NEW h \in Threads, LockParent(h) PROVE LockInv'
  <2>1. /\ thread[h].at \in AtWork /\ UNCHANGED review
    BY <1>5 DEF LockParent, At, AtWork
  <2>2. /\ thread'[h].item = thread[h].item
        /\ \A g \in Threads : g # h => thread'[g] = thread[g]
    BY <1>5, LockParentFrames
  <2> QED
    BY <2>1, <2>2 DEF Undecided
<1>6. ASSUME NEW h \in Threads, NEW how \in {"stored", "bare", "file"},
             NEW ticked \in SUBSET Docs, Publish(h, how, ticked)
      PROVE  LockInv'
  <2>0. PICK r \in Reviews, d \in Docs : Publishes(h, how, r, d)
    BY <1>6, PublishRows
  <2>1. /\ review'[r].doc = d
        /\ \A q \in Reviews : q # r => review'[q] = review[q]
        /\ IF how = "file" THEN Goes(h, "upload", d) ELSE Ends(h)
    BY <2>0 DEF Publishes
  <2>2. thread[h].at \in AtWork
    BY <1>6 DEF Publish, At, AtWork
  <2>3. thread \in [Threads -> Handler]
    BY DEF TInv, TypeOK
  <2>4. thread'[h].at \notin AtWork /\ \A g \in Threads : g # h => thread'[g] = thread[g]
    <3>1. CASE Goes(h, "upload", d)
      BY <2>3, <3>1 DEF Goes, AtWork
    <3>2. CASE Ends(h)
      BY <2>3, <3>2 DEF Ends, Idle, AtWork
    <3> QED
      BY <2>1, <3>1, <3>2
  <2>5. \A g \in Threads : thread'[g].at \notin AtWork
    BY <2>2, <2>4
  <2>6. review'[r].doc # NoDoc
    BY <2>1 DEF DocumentAssumption
  <2> QED
    BY <2>1, <2>5, <2>6
<1>7. CASE UNCHANGED vars
  BY <1>7, LockQuiet DEF vars, NoneEnters
<1> QED
  BY <1>1, <1>2, <1>3, <1>4, <1>5, <1>6, <1>7, ReviewMoves

LEMMA VerdictStep ==
  ASSUME DocumentAssumption, TInv, LockInv, [Next]_vars,
         NEW r \in Reviews, review[r].decision \in {"approved", "rejected"}
  PROVE  review'[r] = review[r]
<1>1. CASE UNCHANGED review
  BY <1>1
<1>2. CASE FiledOne
  BY <1>2 DEF FiledOne, NewReview, LockInv
<1>3. CASE RejectedOne
  BY <1>3 DEF RejectedOne, Undecided
<1>4. ASSUME NEW h \in Threads, NEW how \in {"stored", "bare", "file"},
             NEW ticked \in SUBSET Docs, Publish(h, how, ticked)
      PROVE  review'[r] = review[r]
  <2>0. PICK q \in Reviews, d \in Docs : Publishes(h, how, q, d)
    BY <1>4, PublishRows
  <2>1. q = thread[h].item /\ \A x \in Reviews : x # q => review'[x] = review[x]
    BY <2>0 DEF Publishes
  <2>2. Undecided(q)
    BY <1>4, <2>1 DEF Publish, At, AtWork, LockInv
  <2> QED
    BY <2>1, <2>2 DEF Undecided
<1> QED
  BY <1>1, <1>2, <1>3, <1>4, ReviewMoves DEF QuietReviews, LockReview, LockParent, vars

(* At most one approval holds the workspace, and its review is undecided. *)
THEOREM OneApproval == Spec => []LockInv
<1>1. Init => LockInv
  BY DEF Init, LockInv, Idle, AtWork
<1>2. TInv /\ LockInv /\ [Next]_vars => LockInv'
  BY LockStep, DocumentAssumption
<1> QED
  BY <1>1, <1>2, Typed, PTL DEF Spec

(* A verdict on a review is never changed, however many reviewers decide. *)
THEOREM VerdictStands == Spec => VerdictIsFinal
<1>1. TInv /\ LockInv /\ [Next]_vars =>
        [\A r \in Reviews : review[r].decision \in {"approved", "rejected"} =>
           review'[r] = review[r]]_vars
  BY VerdictStep, DocumentAssumption
<1> QED
  BY <1>1, Typed, OneApproval, PTL DEF Spec, VerdictIsFinal

-----------------------------------------------------------------------------
(* What a step does to the documents and to the governed calls *)

(* No row is made and none is superseded. *)
QuietDocs == \A x \in Docs :
  doc'[x] = doc[x] \/ /\ Exists(x) /\ doc'[x].st \notin {"absent", "superseded"}
                      /\ doc'[x].parent = doc[x].parent /\ doc'[x].by = doc[x].by

LEMMA SetsQuiet ==
  ASSUME DocumentAssumption, TInv, NEW d \in Docs, Exists(d),
         NEW st \in Statuses \ {"superseded"}, Sets(d, st)
  PROVE  QuietDocs
<1>1. /\ DocFrame /\ doc'[d].st = st /\ st \notin {"absent", "superseded"}
      /\ \A e \in Docs : e # d => doc'[e] = doc[e]
  BY SetsFrame DEF Statuses
<1> QED
  BY <1>1 DEF QuietDocs, DocFrame

CreatesOne == \E c \in Calls, e \in Docs, outcome \in {"stored", "empty", "zero"} :
                CreateVersion(c, e, outcome)
UploadsOne == \E h \in Threads, d \in Docs, gated \in BOOLEAN : Upload(h, d, gated)
BatchesOne == \E h \in Threads, d \in Docs : BatchUpload(h, d)
EditsOne == \E h \in Threads : SaveEdit(h)
StagesOne == \E d, e \in Docs, r \in Reviews : StagePendingVersion(d, e, r)
PublishesOne == \E h \in Threads, how \in {"stored", "bare", "file"}, ticked \in SUBSET Docs :
                  Publish(h, how, ticked)

LEMMA RowMoves ==
  ASSUME DocumentAssumption, TInv, Next
  PROVE  QuietDocs \/ CreatesOne \/ UploadsOne \/ BatchesOne \/ EditsOne \/ StagesOne
         \/ PublishesOne
<1>0. UNCHANGED doc => QuietDocs
  BY DEF QuietDocs
<1>s. {"pending_review", "rejected", "processing", "active", "stale", "failed", "archived"}
        \subseteq Statuses \ {"superseded"}
  BY DEF Statuses
<1>1. CASE BeginVersion \/ CallFault
  BY <1>0, <1>1 DEF BeginVersion, CallFault, SendVersion, AbortVersion, LoseCall, docVars
<1>2. CASE BeginReview
  BY <1>0, <1>2 DEF BeginReview, SubmitReview, Decide, UploadsOne, StagesOne
<1>3. CASE BeginIngestion
  <2>1. ASSUME NEW h \in Threads, NEW d \in Docs, Reindex(h, d) PROVE QuietDocs
    BY <2>1, <1>s, SetsQuiet DEF Reindex, Exists
  <2> QED
    BY <1>0, <1>3, <2>1 DEF BeginIngestion, RetryJob, UploadsOne, BatchesOne
<1>4. CASE BeginMaintenance
  <2>1. ASSUME NEW d \in Docs, Archive(d) PROVE QuietDocs
    BY <2>1, <1>s, SetsQuiet DEF Archive
  <2> QED
    BY <1>0, <1>4, <2>1 DEF BeginMaintenance, Maintain, BeginEdit
<1>5. CASE ProcessFault
  BY <1>0, <1>5 DEF ProcessFault, Abandon, DispatchFails, WorkerDies
<1>6. ASSUME NEW c \in Calls, CallStep(c) PROVE QuietDocs \/ CreatesOne
  BY <1>0, <1>6 DEF CallStep, ProbeRecord, ClaimKey, LockDocument, ReplyVersion, docVars, CreatesOne
<1>7. ASSUME NEW c \in Calls, NEW h \in Threads, BreakDeadlock(c, h) PROVE QuietDocs
  BY <1>0, <1>7 DEF BreakDeadlock
<1>8. ASSUME NEW h \in Threads, ThreadStep(h)
      PROVE  QuietDocs \/ EditsOne \/ PublishesOne
  <2>1. ASSUME StageForReview(h) \/ FailUndispatched(h) \/ WriteFreshness(h) PROVE QuietDocs
    <3>1. PICK d \in Docs : d = thread[h].item /\ Exists(d)
      BY <2>1, ItemFacts DEF StageForReview, FailUndispatched, WriteFreshness, At, AtDoc
    <3>2. Sets(d, "pending_review") \/ Sets(d, "failed") \/ Sets(d, "stale") \/ Sets(d, "active")
      BY <2>1, <3>1 DEF StageForReview, FailUndispatched, WriteFreshness
    <3> QED
      BY <3>1, <3>2, <1>s, SetsQuiet
  <2>2. ASSUME Reject(h) PROVE QuietDocs
    <3>1. PICK d \in Docs : d = review[thread[h].item].doc /\ Exists(d)
      BY <2>2, ItemFacts DEF Reject, At, AtReview
    <3> QED
      BY <2>2, <3>1, <1>0, <1>s, SetsQuiet DEF Reject
  <2>3. ASSUME Enqueue(h) PROVE QuietDocs
    <3>1. PICK d \in Docs : d = thread[h].item /\ Exists(d)
      BY <2>3, ItemFacts DEF Enqueue, AtDoc
    <3> QED
      BY <2>3, <3>1, <1>0, <1>s, SetsQuiet DEF Enqueue
  <2> QED
    BY <1>0, <1>8, <2>1, <2>2, <2>3 DEF ThreadStep, FileReview, LockReview, LockParent, Dispatch,
                                      ReclaimChunks, PublishesOne, EditsOne
<1>9. ASSUME NEW w \in Workers, WorkerStep(w) PROVE QuietDocs
  <2>1. ASSUME MarkProcessing(w) \/ PublishIngested(w) \/ FailDocument(w)
               \/ \E outcome \in Outcomes : Ingest(w, outcome)
        PROVE  QuietDocs
    <3>1. worker[w] # Free
      BY <2>1 DEF MarkProcessing, PublishIngested, FailDocument, Ingest, Free
    <3>2. PICK d \in Docs : d = DocOf(w) /\ Exists(d)
      BY <3>1, WorkerFacts
    <3>3. Sets(d, "processing") \/ Sets(d, "active") \/ Sets(d, "failed") \/ UNCHANGED doc
      BY <2>1, <3>2 DEF MarkProcessing, PublishIngested, FailDocument, Ingest
    <3> QED
      BY <3>2, <3>3, <1>0, <1>s, SetsQuiet
  <2> QED
    BY <1>0, <1>9, <2>1 DEF WorkerStep, Take, CloseJob, FailJob
<1> QED
  BY <1>1, <1>2, <1>3, <1>4, <1>5, <1>6, <1>7, <1>8, <1>9 DEF Next, Step

QuietCall(c) == Probe(c) \/ Claim(c) \/ Enter(c) \/ Abort(c) \/ Reply(c) \/ Lose(c)

LEMMA GovernedMoves ==
  ASSUME Next
  PROVE  \/ UNCHANGED governedVars
         \/ \E c \in Calls : QuietCall(c)
         \/ \E c \in Calls, request \in Request : Send(c, request)
         \/ CreatesOne
<1>1. CASE BeginVersion \/ CallFault
  BY <1>1 DEF BeginVersion, CallFault, SendVersion, AbortVersion, LoseCall, QuietCall
<1>2. CASE BeginReview
  BY <1>2 DEF BeginReview, StagePendingVersion, SubmitReview, Upload, Decide
<1>3. CASE BeginIngestion
  BY <1>3 DEF BeginIngestion, Upload, BatchUpload, Reindex, RetryJob
<1>4. CASE BeginMaintenance
  BY <1>4 DEF BeginMaintenance, Archive, Maintain, BeginEdit
<1>5. CASE ProcessFault
  BY <1>5 DEF ProcessFault, Abandon, DispatchFails, WorkerDies
<1>6. CASE \E c \in Calls : CallStep(c)
  BY <1>6 DEF CallStep, ProbeRecord, ClaimKey, LockDocument, ReplyVersion, CreatesOne, QuietCall
<1>7. CASE \E c \in Calls, h \in Threads : BreakDeadlock(c, h)
  BY <1>7 DEF BreakDeadlock, QuietCall
<1>8. CASE \E h \in Threads : ThreadStep(h)
  BY <1>8 DEF ThreadStep, SaveEdit, StageForReview, FileReview, Reject, LockReview, LockParent,
              Publish, Enqueue, Dispatch, FailUndispatched, WriteFreshness, ReclaimChunks
<1>9. CASE \E w \in Workers : WorkerStep(w)
  BY <1>9 DEF WorkerStep, Take, MarkProcessing, PublishIngested, CloseJob, FailDocument, Ingest,
              FailJob
<1> QED
  BY <1>1, <1>2, <1>3, <1>4, <1>5, <1>6, <1>7, <1>8, <1>9 DEF Next, Step

-----------------------------------------------------------------------------
(* The key of a version command *)

(* The records are unique by key and by version, a transaction that holds a *)
(* key holds it alone and before any record of it, and an answer agrees     *)
(* with the records.                                                        *)
UniqueRecords == \A a, b \in records : a.key = b.key \/ a.body = b.body => a = b
HeldOnce == \A b, c \in Calls : Holds(b) /\ Holds(c) /\ KeyOf[b] = KeyOf[c] => b = c
HeldFirst == \A c \in Calls : Holds(c) => RecordsOf(c) = {}
AnswerTrue(c) ==
  \/ answer[c].kind = "error"
  \/ /\ answer[c].kind = "made"
     /\ [key |-> KeyOf[c], request |-> asked[c], body |-> answer[c].body] \in records
  \/ /\ answer[c].kind = "reused"
     /\ \E row \in records : row.key = KeyOf[c] /\ row.request # asked[c]
Answered == \A c \in Calls :
  /\ stage[c] = "idle" => asked[c] = NoRequest
  /\ stage[c] \in {"reply", "done"} => AnswerTrue(c)
RecordedRows == \A row \in records : Exists(row.body)
VersionsRecorded == \A d \in Docs : doc[d].by = "version" =>
                      \E row \in records : row.body = d /\ row.request.doc = doc[d].parent

KeyInv == /\ UniqueRecords /\ HeldOnce /\ HeldFirst /\ Answered
          /\ RecordedRows /\ VersionsRecorded

LEMMA ResponseOf ==
  ASSUME GovernedTypeOK(Keys, Request, Docs), NEW c \in Calls, NEW kind, NEW body,
         Responds(c, kind, body)
  PROVE  /\ stage'[c] = "reply" /\ answer'[c] = [kind |-> kind, body |-> body]
         /\ answer'[c].kind = kind /\ answer'[c].body = body
         /\ \A o \in Calls : o # c => stage'[o] = stage[o] /\ answer'[o] = answer[o]
BY DEF GovernedTypeOK, Responds

(* What a quiet step of a call does to that call; the others stand still. *)
LEMMA CallMoves ==
  ASSUME DocumentAssumption, TInv, KeyInv, NEW c \in Calls,
         QuietCall(c)
  PROVE  /\ UNCHANGED <<records, asked>>
         /\ stage[c] # "idle" /\ stage'[c] # "idle"
         /\ \A o \in Calls : o # c => stage'[o] = stage[o] /\ answer'[o] = answer[o]
         /\ Holds(c)' /\ ~Holds(c) => KeyFree(c) /\ RecordsOf(c) = {}
         /\ stage'[c] \in {"reply", "done"} => AnswerTrue(c)'
<1>0. GovernedTypeOK(Keys, Request, Docs)
  BY DEF TInv, TypeOK, Keys
<1>1. UNCHANGED <<records, asked>> /\ stage[c] # "idle"
  BY DEF QuietCall, Probe, Claim, Enter, Abort, Reply, Lose, Holds, InFlight
<1>2. ASSUME NEW st \in {"claim", "lock", "work", "lost"}, stage' = [stage EXCEPT ![c] = st],
             UNCHANGED answer
      PROVE  /\ stage'[c] = st
             /\ \A o \in Calls : o # c => stage'[o] = stage[o] /\ answer'[o] = answer[o]
  BY <1>0, <1>2 DEF GovernedTypeOK
<1>3. CASE Responds(c, "error", NoBody)
  <2>1. /\ stage'[c] = "reply" /\ answer'[c].kind = "error"
        /\ \A o \in Calls : o # c => stage'[o] = stage[o] /\ answer'[o] = answer[o]
    BY <1>0, <1>3, ResponseOf
  <2> QED
    BY <1>1, <2>1 DEF Holds, AnswerTrue
<1>4. CASE Probe(c)
  <2>1. CASE stage' = [stage EXCEPT ![c] = "claim"] /\ UNCHANGED answer
    BY <1>1, <1>2, <2>1 DEF Holds
  <2>2. ASSUME NEW row \in RecordsOf(c), AnswerOf(c, row)
        PROVE  /\ stage'[c] = "reply" /\ AnswerTrue(c)'
               /\ \A o \in Calls : o # c => stage'[o] = stage[o] /\ answer'[o] = answer[o]
    <3>1. row \in records /\ row.key = KeyOf[c] /\ row \in [key : Keys, request : Request, body : Docs]
      BY <1>0 DEF RecordsOf, GovernedTypeOK
    <3>2. row = [key |-> row.key, request |-> row.request, body |-> row.body]
      BY <3>1
    <3>3. CASE row.request = asked[c]
      <4>1. Responds(c, "made", row.body)
        BY <2>2, <3>3 DEF AnswerOf
      <4>b. PICK body : body = row.body
        OBVIOUS
      <4>r. Responds(c, "made", body)
        BY <4>1, <4>b
      <4>2. /\ stage'[c] = "reply" /\ answer'[c].kind = "made" /\ answer'[c].body = body
            /\ \A o \in Calls : o # c => stage'[o] = stage[o] /\ answer'[o] = answer[o]
        BY <1>0, <4>r DEF Responds, GovernedTypeOK
      <4>3. [key |-> KeyOf[c], request |-> asked[c], body |-> row.body] \in records
        BY <3>1, <3>2, <3>3
      <4> QED
        BY <1>1, <4>b, <4>2, <4>3 DEF AnswerTrue
    <3>4. CASE row.request # asked[c]
      <4>1. Responds(c, "reused", NoBody)
        BY <2>2, <3>4 DEF AnswerOf
      <4>2. /\ stage'[c] = "reply" /\ answer'[c].kind = "reused"
            /\ \A o \in Calls : o # c => stage'[o] = stage[o] /\ answer'[o] = answer[o]
        BY <1>0, <4>1, ResponseOf
      <4> QED
        BY <1>1, <3>1, <3>4, <4>2 DEF AnswerTrue
    <3> QED
      BY <3>3, <3>4
  <2> QED
    BY <1>1, <1>4, <2>1, <2>2 DEF Probe, Holds
<1>5. CASE Claim(c)
  <2>1. CASE RecordsOf(c) = {} /\ stage' = [stage EXCEPT ![c] = "lock"] /\ UNCHANGED answer
    BY <1>1, <1>2, <1>5, <2>1 DEF Claim, Holds
  <2> QED
    BY <1>3, <1>5, <2>1 DEF Claim
<1>6. CASE Enter(c)
  BY <1>1, <1>2, <1>6 DEF Enter, Holds
<1>7. CASE Abort(c)
  BY <1>3, <1>7 DEF Abort
<1>8. CASE Reply(c)
  <2>1. /\ stage[c] = "reply" /\ stage'[c] = "done" /\ UNCHANGED answer
        /\ \A o \in Calls : o # c => stage'[o] = stage[o]
    BY <1>0, <1>8 DEF Reply, GovernedTypeOK
  <2>2. AnswerTrue(c)
    BY <2>1 DEF KeyInv, Answered
  <2> QED
    BY <1>1, <2>1, <2>2 DEF Holds, AnswerTrue
<1>9. CASE Lose(c)
  BY <1>1, <1>2, <1>9 DEF Lose, Holds
<1> QED
  BY <1>4, <1>5, <1>6, <1>7, <1>8, <1>9 DEF QuietCall

(* No row of a version appears and none is lost. *)
SameVersions == /\ \A d \in Docs : Exists(d) => Exists(d)'
                /\ \A d \in Docs : doc'[d].by = "version" =>
                     doc[d].by = "version" /\ doc'[d].parent = doc[d].parent

LEMMA VersionsStay ==
  ASSUME DocumentAssumption, TInv, [Next]_vars, ~CreatesOne
  PROVE  SameVersions
<1>0. CASE UNCHANGED vars
  BY <1>0 DEF vars, SameVersions, Exists
<1>1. CASE QuietDocs
  <2>1. \A d \in Docs : Exists(d) => Exists(d)'
    BY <1>1 DEF QuietDocs, Exists
  <2>2. \A d \in Docs : doc'[d].by = doc[d].by /\ doc'[d].parent = doc[d].parent
    BY <1>1 DEF QuietDocs
  <2> QED
    BY <2>1, <2>2 DEF SameVersions
<1>2. CASE UploadsOne
  <2>1. PICK h \in Threads, d \in Docs, gated \in BOOLEAN : Upload(h, d, gated)
    BY <1>2 DEF UploadsOne
  <2>2. /\ ~Exists(d) /\ doc'[d].by # "version" /\ \A x \in Docs : x # d => doc'[x] = doc[x]
    BY <2>1, UploadRows
  <2> QED
    BY <2>2 DEF SameVersions, Exists
<1>3. CASE StagesOne
  <2>1. PICK d \in Docs, e \in Docs, r \in Reviews : StagePendingVersion(d, e, r)
    BY <1>3 DEF StagesOne
  <2>a. ~Exists(e)
    BY <2>1 DEF StagePendingVersion, NewDoc
  <2>b. doc'[e].by = "gate"
    BY <2>1, StagePendingVersionRows
  <2>c. \A x \in Docs : x # e => doc'[x] = doc[x]
    BY <2>1 DEF StagePendingVersion, TInv, TypeOK
  <2>2. /\ ~Exists(e) /\ doc'[e].by # "version" /\ \A x \in Docs : x # e => doc'[x] = doc[x]
    BY <2>a, <2>b, <2>c
  <2> QED
    BY <2>2 DEF SameVersions, Exists
<1>4. CASE PublishesOne
  <2>1. PICK h \in Threads, how \in {"stored", "bare", "file"}, ticked \in SUBSET Docs :
          Publish(h, how, ticked)
    BY <1>4 DEF PublishesOne
  <2>2. PICK r \in Reviews, d \in Docs : Publishes(h, how, r, d)
    BY <2>1, PublishRows
  <2>3. /\ DocFrame /\ \A x \in Docs : doc'[x].parent = doc[x].parent /\ doc'[x].by = doc[x].by
    BY <2>2 DEF Publishes
  <2> QED
    BY <2>3 DEF SameVersions, DocFrame
<1>5. CASE BatchesOne
  <2>1. PICK h \in Threads, d \in Docs : BatchUpload(h, d)
    BY <1>5 DEF BatchesOne
  <2>2. /\ ~Exists(d) /\ doc'[d].by # "version" /\ \A x \in Docs : x # d => doc'[x] = doc[x]
    BY <2>1, BatchUploadRows
  <2> QED
    BY <2>2 DEF SameVersions, Exists
<1>6. CASE EditsOne
  <2>1. PICK h \in Threads : SaveEdit(h)
    BY <1>6 DEF EditsOne
  <2>2. PICK d \in Docs : Exists(d) /\ DocFrame /\ \A x \in Docs : x # d => doc'[x] = doc[x]
    BY <2>1, SaveEditFrames DEF Frames
  <2> QED
    BY <2>2 DEF SameVersions, DocFrame, Exists
<1> QED
  BY <1>0, <1>1, <1>2, <1>3, <1>4, <1>5, <1>6, RowMoves

(* As long as records and the versions there are stay, each keeps its record. *)
LEMMA RecordsStay ==
  ASSUME VersionsRecorded, SameVersions, records' = records
  PROVE  VersionsRecorded'
<1> SUFFICES ASSUME NEW d \in Docs, doc'[d].by = "version"
             PROVE  \E row \in records : row.body = d /\ row.request.doc = doc'[d].parent
  BY DEF VersionsRecorded
<1>1. doc[d].by = "version" /\ doc'[d].parent = doc[d].parent
  BY DEF SameVersions
<1> QED
  BY <1>1 DEF VersionsRecorded

LEMMA KeyQuiet ==
  ASSUME DocumentAssumption, TInv, KeyInv, SameVersions, UNCHANGED <<records, asked>>,
         \A c \in Calls : /\ stage[c] # "idle" => stage'[c] # "idle"
                          /\ stage'[c] = "idle" => stage[c] = "idle"
                          /\ Holds(c)' => Holds(c)
                          /\ stage'[c] \in {"reply", "done"} => AnswerTrue(c)'
  PROVE  KeyInv'
<1> USE DEF KeyInv
<1>0. records \subseteq [key : Keys, request : Request, body : Docs]
  BY DEF TInv, TypeOK, GovernedTypeOK, Keys
<1>1. UniqueRecords' /\ HeldOnce'
  BY DEF UniqueRecords, HeldOnce
<1>2. HeldFirst'
  BY DEF HeldFirst, RecordsOf
<1>3. Answered'
  BY DEF Answered
<1>4. RecordedRows'
  BY <1>0 DEF RecordedRows, SameVersions, Exists
<1>5. VersionsRecorded'
  BY RecordsStay
<1> QED
  BY <1>1, <1>2, <1>3, <1>4, <1>5

(* A version command commits its record, its row and its answer. *)
LEMMA KeyCommit ==
  ASSUME DocumentAssumption, TInv, KeyInv, NEW c \in Calls, NEW e \in Docs,
         NEW outcome \in {"stored", "empty", "zero"}, CreateVersion(c, e, outcome)
  PROVE  KeyInv'
<1> USE DEF KeyInv
<1> DEFINE new == [key |-> KeyOf[c], request |-> asked[c], body |-> e]
<1>0. GovernedTypeOK(Keys, Request, Docs)
  BY DEF TInv, TypeOK, Keys
<1>1. /\ stage[c] = "work" /\ records' = records \cup {new} /\ UNCHANGED asked
      /\ Responds(c, "made", e)
  BY DEF CreateVersion, Commit
<1>2. /\ stage'[c] = "reply" /\ answer'[c].kind = "made" /\ answer'[c].body = e
      /\ \A o \in Calls : o # c => stage'[o] = stage[o] /\ answer'[o] = answer[o]
  BY <1>0, <1>1 DEF Responds, GovernedTypeOK
<1>3. Holds(c) /\ RecordsOf(c) = {}
  BY <1>1 DEF Holds, HeldFirst
<1>4. new.key = KeyOf[c] /\ new.request = asked[c] /\ new.body = e
  OBVIOUS
<1>5. asked[c] \in Request /\ asked[c].doc \in Docs /\ ~Exists(e)
  BY CreateVersionRows
<1>6. \A row \in records : row.key # KeyOf[c] /\ row.body # e
  BY <1>3, <1>5 DEF RecordsOf, RecordedRows
<1> HIDE DEF new
<1>7. UniqueRecords'
  BY <1>1, <1>4, <1>6 DEF UniqueRecords
<1>8. HeldOnce'
  BY <1>2 DEF HeldOnce, Holds
<1>9. HeldFirst'
  <2> SUFFICES ASSUME NEW o \in Calls, Holds(o)' PROVE RecordsOf(o)' = {}
    BY DEF HeldFirst
  <2>1. o # c /\ Holds(o)
    BY <1>2 DEF Holds
  <2>2. KeyOf[o] # KeyOf[c] /\ RecordsOf(o) = {}
    BY <1>3, <2>1 DEF HeldOnce, HeldFirst
  <2> QED
    BY <1>1, <1>4, <2>2 DEF RecordsOf
<1>10. Answered'
  <2>1. AnswerTrue(c)'
    BY <1>1, <1>2 DEF AnswerTrue, new
  <2>2. \A o \in Calls : o # c /\ AnswerTrue(o) => AnswerTrue(o)'
    BY <1>1, <1>2 DEF AnswerTrue
  <2> QED
    BY <1>1, <1>2, <2>1, <2>2 DEF Answered
<1>11. RecordedRows'
  <2>1. DocFrame /\ Exists(e)'
    BY CreateVersionFrames, CreateVersionRows DEF Frames, Exists
  <2>2. \A row \in records : row.body \in Docs /\ Exists(row.body)
    BY <1>0 DEF RecordedRows, GovernedTypeOK
  <2>3. \A row \in records : doc'[row.body].st # "absent"
    BY <2>1, <2>2 DEF DocFrame, Exists
  <2>4. doc'[new.body].st # "absent"
    BY <2>1, <1>4 DEF Exists
  <2> QED
    BY <1>1, <2>3, <2>4 DEF RecordedRows, Exists
<1>12. VersionsRecorded'
  <2> SUFFICES ASSUME NEW d \in Docs, doc'[d].by = "version"
               PROVE  \E row \in records' : row.body = d /\ row.request.doc = doc'[d].parent
    BY DEF VersionsRecorded
  <2>1. CASE d = e
    <3>1. doc'[e].parent = asked[c].doc
      BY CreateVersionRows
    <3>2. new \in records' /\ new.body = d /\ new.request.doc = doc'[d].parent
      BY <1>1, <1>4, <2>1, <3>1
    <3> QED
      BY <3>2
  <2>2. CASE d # e
    <3>1. doc[d].by = "version" /\ doc'[d].parent = doc[d].parent
      BY <2>2, CreateVersionRows
    <3>2. PICK row \in records : row.body = d /\ row.request.doc = doc[d].parent
      BY <3>1 DEF VersionsRecorded
    <3>3. row \in records' /\ row.request.doc = doc'[d].parent
      BY <1>1, <3>1, <3>2
    <3> QED
      BY <3>2, <3>3
  <2> QED
    BY <2>1, <2>2
<1> QED
  BY <1>7, <1>8, <1>9, <1>10, <1>11, <1>12

LEMMA KeyStep ==
  ASSUME DocumentAssumption, TInv, KeyInv, [Next]_vars
  PROVE  KeyInv'
<1>0. GovernedTypeOK(Keys, Request, Docs)
  BY DEF TInv, TypeOK, Keys
<1>a. \A o \in Calls : stage[o] \in {"reply", "done"} => AnswerTrue(o)
  BY DEF KeyInv, Answered
<1>1. CASE CreatesOne
  BY <1>1, KeyCommit DEF CreatesOne
<1>2. CASE ~CreatesOne /\ UNCHANGED governedVars
  <2>1. /\ UNCHANGED <<records, asked, stage, answer>> /\ SameVersions
    BY <1>2, VersionsStay DEF governedVars
  <2> QED
    BY <2>1, <1>a, KeyQuiet DEF Holds, AnswerTrue
<1>3. ASSUME NEW c \in Calls, QuietCall(c), ~CreatesOne PROVE KeyInv'
  <2>1. SameVersions
    BY <1>3, VersionsStay
  <2>2. /\ UNCHANGED <<records, asked>>
        /\ stage[c] # "idle" /\ stage'[c] # "idle"
        /\ \A o \in Calls : o # c => stage'[o] = stage[o] /\ answer'[o] = answer[o]
        /\ Holds(c)' /\ ~Holds(c) => KeyFree(c) /\ RecordsOf(c) = {}
        /\ stage'[c] \in {"reply", "done"} => AnswerTrue(c)'
    BY <1>3, CallMoves
  <2>3. \A o \in Calls : stage'[o] \in {"reply", "done"} => AnswerTrue(o)'
    BY <2>2, <1>a DEF AnswerTrue
  <2>4. \A o \in Calls : /\ stage[o] # "idle" => stage'[o] # "idle"
                         /\ stage'[o] = "idle" => stage[o] = "idle"
                         /\ o # c => (Holds(o)' <=> Holds(o))
    BY <2>2 DEF Holds
  <2>5. CASE ~(Holds(c)' /\ ~Holds(c))
    BY <2>1, <2>2, <2>3, <2>4, <2>5, KeyQuiet
  <2>6. CASE Holds(c)' /\ ~Holds(c)
    <3>1. KeyFree(c) /\ RecordsOf(c) = {}
      BY <2>2, <2>6
    <3>2. HeldOnce'
      BY <2>4, <3>1 DEF HeldOnce, KeyFree, KeyInv
    <3>3. HeldFirst'
      BY <2>2, <2>4, <3>1 DEF HeldFirst, RecordsOf, KeyInv
    <3>4. Answered'
      BY <2>2, <2>3, <2>4 DEF Answered, KeyInv
    <3>5. UniqueRecords'
      BY <2>2 DEF UniqueRecords, KeyInv
    <3>6. RecordedRows'
      <4>1. \A row \in records : row.body \in Docs
        BY <1>0 DEF GovernedTypeOK
      <4> QED
        BY <4>1, <2>1, <2>2 DEF RecordedRows, SameVersions, Exists, KeyInv
    <3>7. VersionsRecorded'
      BY <2>1, <2>2, RecordsStay DEF KeyInv
    <3> QED
      BY <3>2, <3>3, <3>4, <3>5, <3>6, <3>7 DEF KeyInv
  <2> QED
    BY <2>5, <2>6
<1>4. ASSUME NEW c \in Calls, NEW request \in Request, Send(c, request), ~CreatesOne
      PROVE  KeyInv'
  <2>1. SameVersions
    BY <1>4, VersionsStay
  <2>2. /\ UNCHANGED <<records, answer>> /\ stage[c] = "idle" /\ stage'[c] = "probe"
        /\ \A o \in Calls : o # c => stage'[o] = stage[o] /\ asked'[o] = asked[o]
    BY <1>0, <1>4 DEF Send, GovernedTypeOK
  <2>3. \A o \in Calls : stage'[o] \in {"reply", "done"} => AnswerTrue(o)'
    BY <2>2, <1>a DEF AnswerTrue
  <2>4. HeldOnce' /\ HeldFirst'
    BY <2>2 DEF HeldOnce, HeldFirst, Holds, RecordsOf, KeyInv
  <2>5. Answered'
    BY <2>2, <2>3 DEF Answered, KeyInv
  <2>6. UniqueRecords'
    BY <2>2 DEF UniqueRecords, KeyInv
  <2>8. VersionsRecorded'
    BY <2>1, <2>2, RecordsStay DEF KeyInv
  <2>7. RecordedRows'
    <3>1. \A row \in records : row.body \in Docs
      BY <1>0 DEF GovernedTypeOK
    <3> QED
      BY <3>1, <2>1, <2>2 DEF RecordedRows, SameVersions, Exists, KeyInv
  <2> QED
    BY <2>4, <2>5, <2>6, <2>7, <2>8 DEF KeyInv
<1>5. CASE UNCHANGED vars
  <2>1. SameVersions /\ UNCHANGED <<records, asked, stage, answer>>
    BY <1>5 DEF vars, SameVersions, Exists
  <2> QED
    BY <2>1, <1>a, KeyQuiet DEF Holds, AnswerTrue
<1> QED
  BY <1>1, <1>2, <1>3, <1>4, <1>5, GovernedMoves

LEMMA KeyInit == ASSUME DocumentAssumption, Init PROVE KeyInv
<1>1. \A d \in Docs : doc[d].by # "version"
  BY DEF Init, Row, Absent
<1>2. records = {} /\ \A c \in Calls : stage[c] = "idle" /\ asked[c] = NoRequest
  BY DEF Init, GovernedInit
<1> QED
  BY <1>1, <1>2 DEF KeyInv, UniqueRecords, HeldOnce, HeldFirst, Holds, Answered, RecordedRows,
                    VersionsRecorded

(* Keys are unique, held by one call at a time, and every version has its record. *)
THEOREM KeysHeld == Spec => []KeyInv
<1>1. Init => KeyInv
  BY KeyInit, DocumentAssumption
<1>2. TInv /\ KeyInv /\ [Next]_vars => KeyInv'
  BY KeyStep, DocumentAssumption
<1> QED
  BY <1>1, <1>2, Typed, PTL DEF Spec

(* A key has one record and a record one version, and every version created *)
(* by a command has the record that names its parent.                       *)
THEOREM KeyCreatesOneVersion == Spec => []OneVersionPerKey
<1>1. KeyInv => OneVersionPerKey
  BY DEF KeyInv, UniqueRecords, VersionsRecorded, OneVersionPerKey
<1> QED
  BY <1>1, KeysHeld, PTL

-----------------------------------------------------------------------------
(* The version command implements the contract of its key *)

Told == [c \in Calls |-> IF stage[c] = "done" THEN answer[c] ELSE NoAnswer]

LEMMA OperationInit == ASSUME DocumentAssumption, Init PROVE Operation!Init
<1>1. \A c \in Calls : stage[c] = "idle" /\ asked[c] = NoRequest
  BY DEF Init, GovernedInit
<1>2. records = {} /\ asked = [c \in Calls |-> NoRequest]
  BY DEF Init, GovernedInit
<1>3. Told = [c \in Calls |-> NoAnswer]
  BY <1>1 DEF Told
<1>4. NoAnswer = Operation!Untold
  BY DEF NoAnswer, Operation!Untold
<1> QED
  BY <1>2, <1>3, <1>4 DEF Operation!Init, Told

LEMMA OperationStep ==
  ASSUME DocumentAssumption, TInv, KeyInv, [Next]_vars
  PROVE  [Operation!Next]_(Operation!vars)
<1>0. GovernedTypeOK(Keys, Request, Docs)
  BY DEF TInv, TypeOK, Keys
<1>n. NoRequest \notin Request
  BY DEF DocumentAssumption, Request
<1>s. UNCHANGED <<records, asked, Told>> => UNCHANGED Operation!vars
  BY DEF Operation!vars, Told
<1>1. CASE UNCHANGED governedVars \/ UNCHANGED vars
  <2>1. UNCHANGED <<records, asked, Told>>
    BY <1>1 DEF governedVars, vars, Told
  <2> QED
    BY <2>1, <1>s
<1>2. ASSUME NEW c \in Calls, NEW request \in Request, Send(c, request)
      PROVE  Operation!Next
  <2>1. stage[c] = "idle" /\ stage'[c] = "probe" /\ UNCHANGED <<records, answer>>
        /\ \A o \in Calls : o # c => stage'[o] = stage[o]
    BY <1>0, <1>2 DEF Send, GovernedTypeOK
  <2>2. Told' = Told
    BY <2>1 DEF Told
  <2>3. asked[c] = NoRequest /\ asked' = [asked EXCEPT ![c] = request]
    BY <1>2, <2>1 DEF Send, KeyInv, Answered
  <2>4. Operation!Ask(c, request)
    BY <2>1, <2>2, <2>3 DEF Operation!Ask, Told
  <2> QED
    BY <2>4 DEF Operation!Next
<1>3. ASSUME NEW c \in Calls, NEW e \in Docs, NEW outcome \in {"stored", "empty", "zero"},
             CreateVersion(c, e, outcome)
      PROVE  Operation!Next
  <2>1. /\ stage[c] = "work" /\ UNCHANGED asked /\ Responds(c, "made", e)
        /\ records' = records \cup {[key |-> KeyOf[c], request |-> asked[c], body |-> e]}
    BY <1>3 DEF CreateVersion, Commit
  <2>2. /\ stage'[c] = "reply"
        /\ \A o \in Calls : o # c => stage'[o] = stage[o] /\ answer'[o] = answer[o]
    BY <1>0, <2>1 DEF Responds, GovernedTypeOK
  <2>3. Told' = Told
    BY <2>1, <2>2 DEF Told
  <2>4. asked[c] # NoRequest
    BY <1>3, <1>n, CreateVersionRows
  <2>5. \A row \in records : row.key # KeyOf[c]
    BY <2>1 DEF KeyInv, HeldFirst, Holds, RecordsOf
  <2>6. Operation!Decide(c, e)
    BY <2>1, <2>3, <2>4, <2>5 DEF Operation!Decide, Told
  <2> QED
    BY <2>6 DEF Operation!Next
<1>4. ASSUME NEW c \in Calls, QuietCall(c), ~Reply(c) PROVE UNCHANGED Operation!vars
  <2>1. stage[c] # "done" /\ stage'[c] # "done"
    BY <1>0, <1>4 DEF QuietCall, Probe, AnswerOf, Claim, Enter, Abort, Lose, Holds, InFlight,
                      Responds, GovernedTypeOK
  <2>2. /\ UNCHANGED <<records, asked>>
        /\ \A o \in Calls : o # c => stage'[o] = stage[o] /\ answer'[o] = answer[o]
    BY <1>4, CallMoves
  <2>3. Told' = Told
    BY <2>1, <2>2 DEF Told
  <2> QED
    BY <2>2, <2>3, <1>s
<1>5. ASSUME NEW c \in Calls, Reply(c) PROVE Operation!Next
  <2>1. /\ stage[c] = "reply" /\ stage'[c] = "done" /\ UNCHANGED <<records, asked, answer>>
        /\ \A o \in Calls : o # c => stage'[o] = stage[o]
    BY <1>0, <1>5 DEF Reply, GovernedTypeOK
  <2>2. AnswerTrue(c) /\ asked[c] # NoRequest
    BY <2>1, <1>n DEF KeyInv, Answered, TInv, Links, CallLinks
  <2>3. answer[c] \in Operation!Answers
    <3>1. answer[c] \in [kind : {"none", "made", "reused", "error"}, body : Docs \cup {NoBody}]
      BY <1>0 DEF GovernedTypeOK
    <3>2. answer[c].kind \in {"made", "reused", "error"}
      BY <2>2 DEF AnswerTrue
    <3> QED
      BY <3>1, <3>2 DEF Operation!Answers
  <2>4. PICK said \in Operation!Answers : said = answer[c]
    BY <2>3
  <2>5. Operation!Truthful(c, said)
    BY <2>2, <2>4 DEF AnswerTrue, Operation!Truthful
  <2>6. Told[c] = Operation!Untold /\ Told' = [Told EXCEPT ![c] = said]
    BY <2>1, <2>4 DEF Told, NoAnswer, Operation!Untold
  <2>7. Operation!Tell(c, said)
    BY <2>1, <2>2, <2>5, <2>6 DEF Operation!Tell, Told
  <2> QED
    BY <2>7 DEF Operation!Next
<1> QED
  BY <1>1, <1>2, <1>3, <1>4, <1>5, GovernedMoves DEF CreatesOne

(* However calls are retried, raced, lost and aborted: a key is decided once, *)
(* and every answer is the one result of its key or a refusal.                *)
THEOREM VersionCommandImplementsContract == Spec => ImplementsOperation
<1>1. Init => Operation!Init
  BY OperationInit, DocumentAssumption
<1>2. TInv /\ KeyInv /\ [Next]_vars => [Operation!Next]_(Operation!vars)
  BY OperationStep, DocumentAssumption
<1> QED
  BY <1>1, <1>2, Typed, KeysHeld, PTL DEF Spec, ImplementsOperation, Operation!Spec

-----------------------------------------------------------------------------
(* What has been approved stays approved *)

LEMMA AnyFrames ==
  ASSUME DocumentAssumption, TInv, [Next]_vars
  PROVE  Frames
<1>1. CASE UNCHANGED vars
  BY <1>1, SameFrames DEF Frames, vars, governedVars
<1> QED
  BY <1>1, StepFrames

LEMMA ApprovedStays ==
  ASSUME DocumentAssumption, TInv, LockInv, [Next]_vars, NEW d \in Docs, Approved(d)
  PROVE  Approved(d)'
<1>1. PICK r \in Reviews : review[r].doc = d /\ review[r].decision = "approved"
  BY DEF Approved
<1>2. review'[r] = review[r]
  BY <1>1, VerdictStep
<1> QED
  BY <1>1, <1>2 DEF Approved

(* A handler ends, goes on, or begins an edit. *)
LEMMA ThreadMoves ==
  ASSUME Next
  PROVE  \/ UNCHANGED thread
         \/ \E h \in Threads : Ends(h) \/ \E at, item : Goes(h, at, item) /\ at # "edit"
         \/ \E h \in Threads, d \in Docs : BeginEdit(h, d)
<1> DEFINE Moves(h) == Ends(h) \/ \E at, item : Goes(h, at, item) /\ at # "edit"
<1>1. CASE BeginVersion \/ CallFault
  BY <1>1 DEF BeginVersion, CallFault, SendVersion, AbortVersion, LoseCall, docVars
<1>2. CASE BeginReview
  <2>1. ASSUME NEW h \in Threads, NEW d \in Docs, NEW gated \in BOOLEAN, Upload(h, d, gated)
        PROVE  Moves(h)
    BY <2>1 DEF Upload
  <2>2. ASSUME NEW h \in Threads, NEW d \in Docs, SubmitReview(h, d) PROVE Moves(h)
    BY <2>2 DEF SubmitReview
  <2>3. ASSUME NEW h \in Threads, NEW r \in Reviews, NEW verdict \in {"approve", "reject"},
               Decide(h, r, verdict)
        PROVE  Moves(h)
    BY <2>3 DEF Decide
  <2>4. ASSUME NEW d \in Docs, NEW e \in Docs, NEW r \in Reviews, StagePendingVersion(d, e, r)
        PROVE  UNCHANGED thread
    BY <2>4 DEF StagePendingVersion
  <2> HIDE DEF Moves
  <2>5. UNCHANGED thread \/ \E h \in Threads : Moves(h)
    BY <1>2, <2>1, <2>2, <2>3, <2>4 DEF BeginReview
  <2> QED
    BY <2>5 DEF Moves
<1>3. CASE BeginIngestion
  <2>1. ASSUME NEW h \in Threads, NEW d \in Docs,
               Upload(h, d, FALSE) \/ BatchUpload(h, d) \/ Reindex(h, d)
        PROVE  Moves(h)
    BY <2>1 DEF Upload, BatchUpload, Reindex
  <2>2. ASSUME NEW h \in Threads, NEW j \in Jobs, RetryJob(h, j) PROVE Moves(h)
    BY <2>2 DEF RetryJob
  <2> HIDE DEF Moves
  <2>3. \E h \in Threads : Moves(h)
    BY <1>3, <2>1, <2>2 DEF BeginIngestion
  <2> QED
    BY <2>3 DEF Moves
<1>4. CASE BeginMaintenance
  <2>1. ASSUME NEW h \in Threads, NEW d \in Docs, Maintain(h, d) PROVE Moves(h)
    BY <2>1 DEF Maintain
  <2>2. ASSUME NEW d \in Docs, Archive(d) PROVE UNCHANGED thread
    BY <2>2 DEF Archive
  <2> HIDE DEF Moves
  <2>3. \/ UNCHANGED thread \/ \E h \in Threads : Moves(h)
        \/ \E h \in Threads, d \in Docs : BeginEdit(h, d)
    BY <1>4, <2>1, <2>2 DEF BeginMaintenance
  <2> QED
    BY <2>3 DEF Moves
<1>5. CASE ProcessFault
  <2>1. ASSUME NEW h \in Threads, Abandon(h) \/ DispatchFails(h) PROVE Moves(h)
    BY <2>1 DEF Abandon, DispatchFails
  <2>2. ASSUME NEW w \in Workers, WorkerDies(w) PROVE UNCHANGED thread
    BY <2>2 DEF WorkerDies
  <2> HIDE DEF Moves
  <2>3. UNCHANGED thread \/ \E h \in Threads : Moves(h)
    BY <1>5, <2>1, <2>2 DEF ProcessFault
  <2> QED
    BY <2>3 DEF Moves
<1>6. ASSUME NEW c \in Calls, CallStep(c) PROVE UNCHANGED thread
  BY <1>6 DEF CallStep, ProbeRecord, ClaimKey, LockDocument, ReplyVersion, CreateVersion, docVars
<1>7. ASSUME NEW c \in Calls, NEW h \in Threads, BreakDeadlock(c, h)
      PROVE  UNCHANGED thread \/ Moves(h)
  BY <1>7 DEF BreakDeadlock
<1>8. ASSUME NEW h \in Threads, ThreadStep(h) PROVE Moves(h)
  <2>1. ASSUME SaveEdit(h) \/ StageForReview(h) \/ FileReview(h) \/ Reject(h) \/ LockParent(h)
               \/ Dispatch(h) \/ FailUndispatched(h) \/ WriteFreshness(h) \/ ReclaimChunks(h)
        PROVE  Moves(h)
    BY <2>1 DEF SaveEdit, StageForReview, FileReview, Reject, LockParent, Dispatch,
                FailUndispatched, WriteFreshness, ReclaimChunks
  <2>2. ASSUME LockReview(h) PROVE Moves(h)
    <3>1. Ends(h) \/ \E item : Goes(h, "publish", item) \/ Goes(h, "parent", item)
      BY <2>2 DEF LockReview
    <3> QED
      BY <3>1
  <2>3. ASSUME NEW how \in {"stored", "bare", "file"}, NEW ticked \in SUBSET Docs,
               Publish(h, how, ticked)
        PROVE  Moves(h)
    <3>1. Ends(h) \/ \E item : Goes(h, "upload", item)
      BY <2>3 DEF Publish
    <3> QED
      BY <3>1
  <2>4. ASSUME Enqueue(h) PROVE Moves(h)
    <3>1. Ends(h) \/ \E item : Goes(h, "dispatch", item)
      BY <2>4 DEF Enqueue
    <3> QED
      BY <3>1
  <2> HIDE DEF Moves
  <2> QED
    BY <1>8, <2>1, <2>2, <2>3, <2>4 DEF ThreadStep
<1>9. ASSUME NEW w \in Workers, WorkerStep(w) PROVE UNCHANGED thread
  BY <1>9 DEF WorkerStep, Take, MarkProcessing, PublishIngested, CloseJob, FailDocument, Ingest,
              FailJob
<1> HIDE DEF Moves
<1>10. \/ UNCHANGED thread \/ \E h \in Threads : Moves(h)
       \/ \E h \in Threads, d \in Docs : BeginEdit(h, d)
  <2>1. CASE UNCHANGED thread \/ \E h \in Threads, d \in Docs : BeginEdit(h, d)
    BY <2>1
  <2>2. CASE \E h \in Threads : Ends(h) \/ \E at, item : Goes(h, at, item) /\ at # "edit"
    BY <2>2 DEF Moves
  <2> QED
    BY <1>1, <1>2, <1>3, <1>4, <1>5, <1>6, <1>7, <1>8, <1>9, <2>1, <2>2 DEF Next, Step
<1> QED
  BY <1>10 DEF Moves

-----------------------------------------------------------------------------
(* A version gives way only to a published child *)

(* An edit can write the status superseded only where it has read it. *)
GivenWay(d) == \E e \in Docs : doc[e].parent = d /\ (doc[e].by = "version" \/ Approved(e))
EditsGivenWay == \A h \in Threads : At(h, "edit") /\ thread[h].was = "superseded" =>
                   GivenWay(thread[h].item)
SupersededInv == SupersededByPublished /\ EditsGivenWay

LEMMA ChildStays ==
  ASSUME DocumentAssumption, TInv, LockInv, [Next]_vars, NEW d \in Docs, NEW e \in Docs,
         doc[e].parent = d, doc[e].by = "version" \/ Approved(e)
  PROVE  doc'[e].parent = d /\ (doc'[e].by = "version" \/ Approved(e)')
<1>1. Exists(e)
  BY DEF TInv, Links, DocLinks, Absent, Row, DocumentAssumption
<1>2. doc'[e].parent = d /\ doc'[e].by = doc[e].by
  BY <1>1, AnyFrames DEF Frames, DocFrame
<1> QED
  BY <1>2, ApprovedStays

LEMMA GivenWayStays ==
  ASSUME DocumentAssumption, TInv, LockInv, [Next]_vars, NEW d \in Docs, GivenWay(d)
  PROVE  GivenWay(d)'
BY ChildStays DEF GivenWay

LEMMA EditsStep ==
  ASSUME DocumentAssumption, TInv, LockInv, SupersededInv, [Next]_vars
  PROVE  EditsGivenWay'
<1> SUFFICES ASSUME NEW h \in Threads, thread'[h].at = "edit", thread'[h].was = "superseded"
             PROVE  GivenWay(thread[h].item)'
  BY DEF EditsGivenWay, At
<1>0. thread \in [Threads -> Handler]
  BY DEF TInv, TypeOK
<1>1. CASE thread'[h] = thread[h]
  <2>1. PICK d \in Docs : d = thread[h].item
    BY <1>1, ItemFacts
  <2>2. GivenWay(d)
    BY <1>1, <2>1 DEF SupersededInv, EditsGivenWay, At
  <2>3. GivenWay(d)' /\ d = thread'[h].item
    BY <1>1, <2>1, <2>2, GivenWayStays
  <2> QED
    BY <2>3 DEF GivenWay, Approved
<1>2. ASSUME NEW g \in Threads, NEW d \in Docs, BeginEdit(g, d), thread'[h] # thread[h]
      PROVE  GivenWay(thread[h].item)'
  <2>1. h = g /\ thread'[h].item = d /\ thread'[h].was = doc[d].st
    BY <1>2, BeginEditFrames
  <2>2. GivenWay(d)
    BY <2>1 DEF SupersededInv, SupersededByPublished, GivenWay
  <2>3. GivenWay(d)'
    BY <2>2, GivenWayStays
  <2> QED
    BY <2>1, <2>3 DEF GivenWay, Approved
<1>3. CASE UNCHANGED thread
  BY <1>1, <1>3
<1>4. ASSUME NEW g \in Threads, Ends(g) \/ \E at, item : Goes(g, at, item) /\ at # "edit"
      PROVE  thread'[h] = thread[h]
  BY <1>0, <1>4 DEF Ends, Goes, Idle
<1> QED
  BY <1>1, <1>2, <1>3, <1>4, ThreadMoves DEF vars

LEMMA SupersededStep ==
  ASSUME DocumentAssumption, TInv, LockInv, SupersededInv, [Next]_vars
  PROVE  SupersededByPublished'
<1> SUFFICES ASSUME NEW d \in Docs, doc'[d].st = "superseded"
             PROVE  \E e \in Docs : doc'[e].parent = d /\ (doc'[e].by = "version" \/ Approved(e)')
  BY DEF SupersededByPublished
<1>1. CASE doc[d].st = "superseded"
  <2>1. PICK e \in Docs : doc[e].parent = d /\ (doc[e].by = "version" \/ Approved(e))
    BY <1>1 DEF SupersededInv, SupersededByPublished
  <2> QED
    BY <2>1, ChildStays
<1>2. CASE doc[d].st # "superseded" /\ Next
  <2>1. CASE QuietDocs
    BY <1>2, <2>1 DEF QuietDocs
  <2>2. CASE UploadsOne
    <3>1. PICK h \in Threads, x \in Docs, gated \in BOOLEAN : Upload(h, x, gated)
      BY <2>2 DEF UploadsOne
    <3>2. doc'[x].st = "draft" /\ \A y \in Docs : y # x => doc'[y] = doc[y]
      BY <3>1, UploadRows
    <3> QED
      BY <1>2, <3>2
  <2>3. CASE StagesOne
    <3>1. PICK x \in Docs, e \in Docs, r \in Reviews : StagePendingVersion(x, e, r)
      BY <2>3 DEF StagesOne
    <3>2. doc'[e].st = "pending_review"
      BY <3>1 DEF StagePendingVersion, TInv, TypeOK, Row
    <3>3. \A y \in Docs : y # e => doc'[y] = doc[y]
      BY <3>1 DEF StagePendingVersion, TInv, TypeOK
    <3> QED
      BY <1>2, <3>2, <3>3
  <2>4. CASE CreatesOne
    <3>1. PICK c \in Calls, e \in Docs, outcome \in {"stored", "empty", "zero"} :
            CreateVersion(c, e, outcome)
      BY <2>4 DEF CreatesOne
    <3>2. d = asked[c].doc /\ doc'[e].parent = asked[c].doc /\ doc'[e].by = "version"
      BY <1>2, <3>1, CreateVersionRows
    <3> QED
      BY <3>2
  <2>5. CASE PublishesOne
    <3>1. PICK h \in Threads, how \in {"stored", "bare", "file"}, ticked \in SUBSET Docs :
            Publish(h, how, ticked)
      BY <2>5 DEF PublishesOne
    <3>2. PICK r \in Reviews, e \in Docs : Publishes(h, how, r, e)
      BY <3>1, PublishRows
    <3>3. d = doc[e].parent
      BY <1>2, <3>2 DEF Publishes
    <3>4. doc'[e].parent = d /\ Approved(e)'
      BY <3>2, <3>3 DEF Publishes, Approved
    <3> QED
      BY <3>4
  <2>6. CASE BatchesOne
    <3>1. PICK h \in Threads, x \in Docs : BatchUpload(h, x)
      BY <2>6 DEF BatchesOne
    <3>2. doc'[x].st = "processing" /\ \A y \in Docs : y # x => doc'[y] = doc[y]
      BY <3>1, BatchUploadRows
    <3> QED
      BY <1>2, <3>2
  <2>7. CASE EditsOne
    <3>1. PICK h \in Threads : SaveEdit(h)
      BY <2>7 DEF EditsOne
    <3>2. d = thread[h].item /\ thread[h].at = "edit" /\ thread[h].was = "superseded"
      BY <1>2, <3>1, SaveEditFrames
    <3>3. GivenWay(d)
      BY <3>2 DEF SupersededInv, EditsGivenWay, At
    <3> QED
      BY <3>3, GivenWayStays DEF GivenWay
  <2> QED
    BY <1>2, <2>1, <2>2, <2>3, <2>4, <2>5, <2>6, <2>7, RowMoves
<1>3. CASE doc[d].st # "superseded" /\ UNCHANGED vars
  BY <1>3 DEF vars
<1> QED
  BY <1>1, <1>2, <1>3

(* A superseded document has a child that was created directly or approved,   *)
(* also when an edit that has read superseded writes it back later.           *)
THEOREM SupersededHasSuccessor == Spec => []SupersededByPublished
<1>1. Init => SupersededInv
  BY DEF Init, SupersededInv, SupersededByPublished, EditsGivenWay, At, Idle, Row, Absent
<1>2. TInv /\ LockInv /\ SupersededInv /\ [Next]_vars => SupersededInv'
  BY SupersededStep, EditsStep, DocumentAssumption DEF SupersededInv
<1>3. SupersededInv => SupersededByPublished
  BY DEF SupersededInv
<1> QED
  BY <1>1, <1>2, <1>3, Typed, OneApproval, PTL DEF Spec

-----------------------------------------------------------------------------
(* The review gate *)

Released(d) == \/ doc[d].by # "gate" \/ Approved(d)
               \/ \E j \in Jobs : job[j].doc = d /\ job[j].trigger = "reindex"

(* The handlers on their way to a job that do not bring their own release. *)
Entering == {"upload", "batch", "admin_retry"}

(* The chunks, the jobs and the handlers on their way to a job are those of *)
(* released documents.                                                      *)
GateInv == /\ \A d \in chunks : Released(d)
           /\ \A j \in Jobs : job[j].doc # NoDoc => Released(job[j].doc)
           /\ \A h \in Threads : thread[h].at \in Entering => Released(thread[h].item)

GateQuiet == /\ chunks' \subseteq chunks
             /\ \A j \in Jobs : job'[j].doc = job[j].doc
             /\ \A h \in Threads : thread'[h].at \in Entering => thread'[h] = thread[h]

IngestsOne == \E w \in Workers, outcome \in Outcomes : Ingest(w, outcome)
EnqueuesOne == \E h \in Threads : Enqueue(h)
RetriesOne == \E h \in Threads, j \in Jobs : RetryJob(h, j)

LEMMA GateThreads ==
  ASSUME DocumentAssumption, TInv, NEW h \in Threads,
         Ends(h) \/ UNCHANGED thread \/ \E at, item : Goes(h, at, item) /\ at \notin Entering
  PROVE  \A g \in Threads : thread'[g].at \in Entering => thread'[g] = thread[g]
<1>1. thread \in [Threads -> Handler]
  BY DEF TInv, TypeOK
<1>2. CASE Ends(h)
  BY <1>1, <1>2 DEF Ends, Idle, Entering
<1>3. ASSUME NEW at, NEW item, Goes(h, at, item), at \notin Entering
      PROVE  \A g \in Threads : thread'[g].at \in Entering => thread'[g] = thread[g]
  BY <1>1, <1>3 DEF Goes
<1> QED
  BY <1>2, <1>3

LEMMA GateMoves ==
  ASSUME DocumentAssumption, TInv, Next
  PROVE  GateQuiet \/ CreatesOne \/ UploadsOne \/ BatchesOne \/ RetriesOne \/ PublishesOne
         \/ IngestsOne \/ EnqueuesOne
<1> USE DEF GateQuiet, Entering
<1>1. CASE BeginVersion \/ CallFault
  BY <1>1 DEF BeginVersion, CallFault, SendVersion, AbortVersion, LoseCall, docVars
<1>2. CASE BeginReview
  <2>1. ASSUME NEW h \in Threads, NEW d \in Docs, SubmitReview(h, d) PROVE GateQuiet
    <3>1. /\ \E at, item : Goes(h, at, item) /\ at \notin Entering
          /\ UNCHANGED <<chunks, job>>
      BY <2>1 DEF SubmitReview
    <3> QED
      BY <3>1, GateThreads
  <2>2. ASSUME NEW h \in Threads, NEW r \in Reviews, NEW verdict \in {"approve", "reject"},
               Decide(h, r, verdict)
        PROVE  GateQuiet
    <3>1. /\ \E at, item : Goes(h, at, item) /\ at \notin Entering
          /\ UNCHANGED <<chunks, job>>
      BY <2>2 DEF Decide
    <3> QED
      BY <3>1, GateThreads
  <2>3. ASSUME NEW d \in Docs, NEW e \in Docs, NEW r \in Reviews, StagePendingVersion(d, e, r)
        PROVE  GateQuiet
    BY <2>3 DEF StagePendingVersion
  <2> QED
    BY <1>2, <2>1, <2>2, <2>3 DEF BeginReview, UploadsOne
<1>3. CASE BeginIngestion
  <2>1. ASSUME NEW h \in Threads, NEW d \in Docs, Reindex(h, d) PROVE GateQuiet
    <3>1. /\ \E at, item : Goes(h, at, item) /\ at \notin Entering
          /\ UNCHANGED <<chunks, job>>
      BY <2>1 DEF Reindex
    <3> QED
      BY <3>1, GateThreads
  <2> QED
    BY <1>3, <2>1 DEF BeginIngestion, UploadsOne, BatchesOne, RetriesOne
<1>4. CASE BeginMaintenance
  <2>1. ASSUME NEW d \in Docs, Archive(d) PROVE GateQuiet
    BY <2>1 DEF Archive
  <2>2. ASSUME NEW h \in Threads, NEW d \in Docs, Maintain(h, d) PROVE GateQuiet
    <3>1. /\ \E at, item : Goes(h, at, item) /\ at \notin Entering
          /\ UNCHANGED <<chunks, job>>
      BY <2>2 DEF Maintain
    <3> QED
      BY <3>1, GateThreads
  <2>3. ASSUME NEW h \in Threads, NEW d \in Docs, BeginEdit(h, d) PROVE GateQuiet
    <3>1. thread'[h].at = "edit" /\ \A g \in Threads : g # h => thread'[g] = thread[g]
      BY <2>3, BeginEditFrames
    <3> QED
      BY <2>3, <3>1 DEF BeginEdit
  <2> QED
    BY <1>4, <2>1, <2>2, <2>3 DEF BeginMaintenance
<1>5. CASE ProcessFault
  <2>1. ASSUME NEW h \in Threads, Abandon(h) PROVE GateQuiet
    <3>1. Ends(h) /\ UNCHANGED <<chunks, job>>
      BY <2>1 DEF Abandon
    <3> QED
      BY <3>1, GateThreads
  <2>2. ASSUME NEW h \in Threads, DispatchFails(h) PROVE GateQuiet
    <3>1. PICK j \in Jobs : j = thread[h].item /\ job[j].doc \in Docs
      BY <2>2, ItemFacts DEF DispatchFails, At
    <3>2. job' = [job EXCEPT ![j].st = "failed"] /\ job[j].doc # NoDoc
      BY <2>2, <3>1 DEF DispatchFails, DocumentAssumption
    <3>3. \A k \in Jobs : job'[k].doc = job[k].doc
      BY <3>2, JobStatusFrame
    <3> QED
      BY <2>2, <3>3, GateThreads DEF DispatchFails
  <2>3. ASSUME NEW w \in Workers, WorkerDies(w) PROVE GateQuiet
    BY <2>3 DEF WorkerDies
  <2> QED
    BY <1>5, <2>1, <2>2, <2>3 DEF ProcessFault
<1>6. ASSUME NEW c \in Calls, CallStep(c) PROVE GateQuiet \/ CreatesOne
  BY <1>6 DEF CallStep, ProbeRecord, ClaimKey, LockDocument, ReplyVersion, docVars, CreatesOne
<1>7. ASSUME NEW c \in Calls, NEW h \in Threads, BreakDeadlock(c, h) PROVE GateQuiet
  BY <1>7, GateThreads DEF BreakDeadlock
<1>8. ASSUME NEW h \in Threads, ThreadStep(h) PROVE GateQuiet \/ PublishesOne \/ EnqueuesOne
  <2>1. ASSUME SaveEdit(h) \/ StageForReview(h) \/ FileReview(h) \/ Reject(h) \/ Dispatch(h)
               \/ FailUndispatched(h) \/ WriteFreshness(h) \/ ReclaimChunks(h) \/ LockParent(h)
        PROVE  GateQuiet
    <3>1. Ends(h) \/ \E at, item : Goes(h, at, item) /\ at \notin Entering
      BY <2>1 DEF SaveEdit, StageForReview, FileReview, Reject, Dispatch, FailUndispatched,
                  WriteFreshness, ReclaimChunks, LockParent
    <3>2. chunks' \subseteq chunks /\ UNCHANGED job
      BY <2>1 DEF SaveEdit, StageForReview, FileReview, Reject, Dispatch, FailUndispatched,
                  WriteFreshness, ReclaimChunks, LockParent
    <3> QED
      BY <3>1, <3>2, GateThreads
  <2>2. ASSUME LockReview(h) PROVE GateQuiet
    <3>1. Ends(h) \/ \E item : Goes(h, "publish", item) \/ Goes(h, "parent", item)
      BY <2>2 DEF LockReview
    <3> QED
      BY <2>2, <3>1, GateThreads DEF LockReview
  <2> QED
    BY <1>8, <2>1, <2>2 DEF ThreadStep, PublishesOne, EnqueuesOne
<1>9. ASSUME NEW w \in Workers, WorkerStep(w) PROVE GateQuiet \/ IngestsOne
  <2>1. ASSUME MarkProcessing(w) \/ PublishIngested(w) \/ FailDocument(w) PROVE GateQuiet
    BY <2>1 DEF MarkProcessing, PublishIngested, FailDocument
  <2>2. ASSUME NEW m \in queue, Take(w, m) PROVE GateQuiet
    <3>1. m.job \in Jobs /\ job[m.job].doc # NoDoc
      BY DEF TInv, TypeOK, Links, QueueLinks, Message
    <3>2. \A k \in Jobs : job'[k].doc = job[k].doc
      BY <2>2, <3>1, JobStatusFrame DEF Take
    <3> QED
      BY <2>2, <3>2 DEF Take
  <2>3. ASSUME CloseJob(w) PROVE GateQuiet
    <3>1. worker[w] # Free
      BY <2>3 DEF CloseJob, Free
    <3>2. PICK j \in Jobs : j = worker[w].job /\ job[j].doc # NoDoc
      BY <3>1, WorkerFacts
    <3>3. PICK st \in {"succeeded", "failed"} : job' = [job EXCEPT ![j].st = st]
      BY <2>3, <3>2 DEF CloseJob, JobSt
    <3>4. \A k \in Jobs : job'[k].doc = job[k].doc
      BY <3>2, <3>3, JobStatusFrame
    <3> QED
      BY <2>3, <3>4 DEF CloseJob
  <2>4. ASSUME NEW copies \in {{1}, {1, 2}}, FailJob(w, copies) PROVE GateQuiet
    <3>1. \A k \in Jobs : job'[k].doc = job[k].doc
      BY <2>4, FailJobFrames
    <3> QED
      BY <2>4, <3>1 DEF FailJob
  <2> QED
    BY <1>9, <2>1, <2>2, <2>3, <2>4 DEF WorkerStep, IngestsOne
<1> QED
  BY <1>1, <1>2, <1>3, <1>4, <1>5, <1>6, <1>7, <1>8, <1>9 DEF Next, Step

LEMMA ReleasedStays ==
  ASSUME DocumentAssumption, TInv, LockInv, [Next]_vars, NEW d \in Docs, Exists(d), Released(d)
  PROVE  Released(d)'
<1>1. CASE doc[d].by # "gate"
  BY <1>1, AnyFrames DEF Frames, DocFrame, Released
<1>2. CASE Approved(d)
  BY <1>2, ApprovedStays DEF Released
<1>3. ASSUME NEW j \in Jobs, job[j].doc = d, job[j].trigger = "reindex" PROVE Released(d)'
  <2>1. job'[j].doc = d /\ job'[j].trigger = job[j].trigger
    BY <1>3, AnyFrames DEF Frames, JobFrame, DocumentAssumption
  <2> QED
    BY <1>3, <2>1 DEF Released
<1> QED
  BY <1>1, <1>2, <1>3 DEF Released

(* What was released before the step still is. *)
LEMMA GateKept ==
  ASSUME DocumentAssumption, TInv, LockInv, GateInv, [Next]_vars
  PROVE  /\ \A d \in chunks : Released(d)'
         /\ \A j \in Jobs : job[j].doc # NoDoc /\ job'[j].doc = job[j].doc => Released(job[j].doc)'
         /\ \A h \in Threads : thread[h].at \in Entering /\ thread'[h] = thread[h] =>
              Released(thread[h].item)'
<1>1. ASSUME NEW d \in chunks PROVE Released(d)'
  BY ReleasedStays DEF GateInv, TInv, TypeOK, Links, ChunkLinks
<1>2. ASSUME NEW j \in Jobs, job[j].doc # NoDoc, job'[j].doc = job[j].doc
      PROVE  Released(job[j].doc)'
  <2>1. PICK d \in Docs : d = job[j].doc /\ Exists(d)
    BY <1>2 DEF TInv, TypeOK, JobRow, Links, JobLinks
  <2>2. Released(d)'
    BY <1>2, <2>1, ReleasedStays DEF GateInv
  <2>3. d = job'[j].doc
    BY <1>2, <2>1
  <2> QED
    BY <2>2, <2>3 DEF Released, Approved
<1>3. ASSUME NEW h \in Threads, thread[h].at \in Entering, thread'[h] = thread[h]
      PROVE  Released(thread[h].item)'
  <2>1. PICK d \in Docs : d = thread[h].item /\ Exists(d)
    BY <1>3, ItemFacts DEF AtDoc, Triggers, Entering
  <2>2. Released(d)'
    BY <1>3, <2>1, ReleasedStays DEF GateInv
  <2>3. d = thread'[h].item
    BY <1>3, <2>1
  <2> QED
    BY <2>2, <2>3 DEF Released, Approved
<1> QED
  BY <1>1, <1>2, <1>3

LEMMA GateStep ==
  ASSUME DocumentAssumption, TInv, LockInv, GateInv, [Next]_vars
  PROVE  GateInv'
<1>k. /\ \A d \in chunks : Released(d)'
      /\ \A j \in Jobs : job[j].doc # NoDoc /\ job'[j].doc = job[j].doc => Released(job[j].doc)'
      /\ \A h \in Threads : thread[h].at \in Entering /\ thread'[h] = thread[h] =>
           Released(thread[h].item)'
  BY GateKept
<1>q. ASSUME GateQuiet PROVE GateInv'
  BY <1>q, <1>k DEF GateQuiet, GateInv
<1>1. CASE UNCHANGED vars
  <2>1. GateQuiet
    BY <1>1 DEF vars, GateQuiet
  <2> QED
    BY <2>1, <1>q
<1>2. CASE CreatesOne
  <2>1. PICK c \in Calls, e \in Docs, outcome \in {"stored", "empty", "zero"} :
          CreateVersion(c, e, outcome)
    BY <1>2 DEF CreatesOne
  <2>2. chunks' \subseteq chunks \cup {e} /\ UNCHANGED <<job, thread>>
    BY <2>1 DEF CreateVersion
  <2>3. doc'[e].by # "gate"
    BY <2>1, CreateVersionRows
  <2>4. Released(e)'
    BY <2>3 DEF Released
  <2> QED
    BY <2>2, <2>4, <1>k DEF GateInv
<1>3. CASE UploadsOne
  <2>1. PICK h \in Threads, d \in Docs, gated \in BOOLEAN : Upload(h, d, gated)
    BY <1>3 DEF UploadsOne
  <2>2. /\ doc'[d].by = (IF gated THEN "gate" ELSE "direct") /\ UNCHANGED <<chunks, job>>
        /\ Goes(h, IF gated THEN "stage" ELSE "upload", d)
    BY <2>1, UploadRows DEF Upload
  <2>3. thread'[h] = [at |-> IF gated THEN "stage" ELSE "upload", item |-> d]
        /\ \A g \in Threads : g # h => thread'[g] = thread[g]
    BY <2>2 DEF Goes, TInv, TypeOK
  <2>4. thread'[h].at \in Entering => ~gated /\ thread'[h].item = d
    BY <2>3 DEF Entering
  <2>5. ~gated => Released(d)'
    BY <2>2 DEF Released
  <2> QED
    BY <2>2, <2>3, <2>4, <2>5, <1>k DEF GateInv
<1>4. CASE PublishesOne
  <2>1. PICK h \in Threads, how \in {"stored", "bare", "file"}, ticked \in SUBSET Docs :
          Publish(h, how, ticked)
    BY <1>4 DEF PublishesOne
  <2>2. PICK r \in Reviews, d \in Docs : Publishes(h, how, r, d)
    BY <2>1, PublishRows
  <2>3. /\ chunks' \subseteq chunks \cup {d} /\ review'[r].decision = "approved"
        /\ review'[r].doc = d /\ IF how = "file" THEN Goes(h, "upload", d) ELSE Ends(h)
    BY <2>2 DEF Publishes
  <2>4. UNCHANGED job
    BY <2>1 DEF Publish
  <2>5. Released(d)'
    BY <2>3 DEF Released, Approved
  <2>6. /\ thread'[h].at \in Entering => thread'[h].item = d
        /\ \A g \in Threads : g # h => thread'[g] = thread[g]
    <3>1. CASE Goes(h, "upload", d)
      BY <3>1 DEF Goes, TInv, TypeOK
    <3>2. CASE Ends(h)
      BY <3>2 DEF Ends, Idle, TInv, TypeOK, Entering
    <3> QED
      BY <2>3, <3>1, <3>2
  <2> QED
    BY <2>3, <2>4, <2>5, <2>6, <1>k DEF GateInv
<1>5. CASE IngestsOne
  <2>1. PICK w \in Workers, outcome \in Outcomes : Ingest(w, outcome)
    BY <1>5 DEF IngestsOne
  <2>2. worker[w] # Free
    BY <2>1 DEF Ingest, Free
  <2>3. PICK j \in Jobs : j = worker[w].job /\ job[j].doc # NoDoc
    BY <2>2, WorkerFacts
  <2>4. chunks' \subseteq chunks \cup {job[j].doc} /\ UNCHANGED <<job, thread>>
    BY <2>1, <2>3 DEF Ingest, DocOf
  <2>5. PICK d : d = job[j].doc
    OBVIOUS
  <2>6. Released(d)'
    <3>1. Released(job[j].doc)' /\ job'[j].doc = d
      BY <2>3, <2>4, <2>5, <1>k
    <3> QED
      BY <3>1 DEF Released, Approved
  <2> QED
    BY <2>4, <2>5, <2>6, <1>k DEF GateInv
<1>6. CASE EnqueuesOne
  <2>1. PICK h \in Threads : Enqueue(h)
    BY <1>6 DEF EnqueuesOne
  <2>2. UNCHANGED chunks /\ thread[h].at \in Triggers
    BY <2>1 DEF Enqueue
  <2>3. CASE Ends(h) /\ UNCHANGED job
    <3>1. GateQuiet
      BY <2>2, <2>3, GateThreads DEF GateQuiet
    <3> QED
      BY <3>1, <1>q
  <2>4. ASSUME NEW d \in Docs, NEW j \in Jobs, d = thread[h].item, Exists(d),
               Goes(h, "dispatch", j),
               job'[j] = [st |-> "queued", doc |-> d, trigger |-> thread[h].at],
               \A k \in Jobs : k # j => job'[k] = job[k]
        PROVE  GateInv'
    <3>1. \A g \in Threads : thread'[g].at \in Entering => thread'[g] = thread[g]
      BY <2>4, GateThreads DEF Entering
    <3>2. job'[j].doc = d /\ job'[j].trigger = thread[h].at
      BY <2>4
    <3>3. Released(d)'
      <4>1. CASE thread[h].at \in Entering
        BY <2>4, <4>1, ReleasedStays DEF GateInv
      <4>2. CASE thread[h].at \notin Entering
        <5>1. job'[j].trigger = "reindex"
          BY <2>2, <3>2, <4>2 DEF Entering, Triggers
        <5> QED
          BY <3>2, <5>1 DEF Released
      <4> QED
        BY <4>1, <4>2
    <3>4. \A k \in Jobs : job'[k].doc # NoDoc => Released(job[k].doc)'
      <4> SUFFICES ASSUME NEW k \in Jobs, job'[k].doc # NoDoc PROVE Released(job[k].doc)'
        OBVIOUS
      <4>1. CASE k = j
        BY <3>2, <3>3, <4>1 DEF Released, Approved
      <4>2. CASE k # j
        BY <2>4, <4>2, <1>k
      <4> QED
        BY <4>1, <4>2
    <3> QED
      BY <2>2, <3>1, <3>4, <1>k DEF GateInv
  <2> QED
    BY <2>1, <2>3, <2>4, EnqueueRows
<1>7. CASE BatchesOne
  <2>1. PICK h \in Threads, d \in Docs : BatchUpload(h, d)
    BY <1>7 DEF BatchesOne
  <2>2. doc'[d].by = "batch" /\ UNCHANGED <<chunks, job>>
    BY <2>1, BatchUploadRows DEF BatchUpload
  <2>3. Released(d)'
    BY <2>2 DEF Released
  <2>4. thread'[h].item = d /\ \A g \in Threads : g # h => thread'[g] = thread[g]
    BY <2>1, BatchUploadFrames
  <2> QED
    BY <2>2, <2>3, <2>4, <1>k DEF GateInv
<1>8. CASE RetriesOne
  <2>1. PICK h \in Threads, j \in Jobs : RetryJob(h, j)
    BY <1>8 DEF RetriesOne
  <2>2. PICK d : d = job[j].doc
    OBVIOUS
  <2>3. d \in Docs /\ Exists(d) /\ Released(d)
    BY <2>1, <2>2 DEF RetryJob, TInv, TypeOK, JobRow, Links, JobLinks, GateInv
  <2>4. Goes(h, "admin_retry", d) /\ UNCHANGED <<chunks, job>>
    BY <2>1, <2>2 DEF RetryJob
  <2>5. thread'[h].item = d /\ \A g \in Threads : g # h => thread'[g] = thread[g]
    BY <2>4 DEF Goes, TInv, TypeOK
  <2>6. Released(d)'
    BY <2>3, ReleasedStays
  <2> QED
    BY <2>4, <2>5, <2>6, <1>k DEF GateInv
<1> QED
  BY <1>q, <1>1, <1>2, <1>3, <1>4, <1>5, <1>6, <1>7, <1>8, GateMoves

(* A document that came in by the review gate is indexed only after an        *)
(* approval or a reindex; neither an administrator's retry nor an edit that   *)
(* brings back an old status is a way round.                                  *)
THEOREM ReviewGates == Spec => []Gate
<1>1. Init => GateInv
  BY DocumentAssumption DEF Init, GateInv, Released, Entering, Row, Idle
<1>2. TInv /\ LockInv /\ GateInv /\ [Next]_vars => GateInv'
  BY GateStep, DocumentAssumption
<1>3. GateInv => Gate
  BY DEF GateInv, Released, Gate
<1> QED
  BY <1>1, <1>2, <1>3, Typed, OneApproval, PTL DEF Spec

-----------------------------------------------------------------------------
(* A document that is being processed is somebody's work *)

ThreadBusy(h, d) == \/ thread[h].item = d /\ thread[h].at \in {"upload", "batch", "reindex", "refused"}
                    \/ At(h, "dispatch") /\ job[thread[h].item].doc = d
QueueBusy(d) == \E m \in queue : job[m.job].doc = d
(* A worker that only has to close its job does not write a status any more. *)
WorkerBusy(w, d) == /\ worker[w] # Free /\ DocOf(w) = d
                    /\ \/ worker[w].at \in {"mark", "ingest", "publish", "fail"}
                       \/ worker[w].at = "failjob" /\ ~Final(w)

Busy(d) == \/ \E h \in Threads : ThreadBusy(h, d)
           \/ QueueBusy(d)
           \/ \E w \in Workers : WorkerBusy(w, d)

BusyInv == \A d \in Docs : doc[d].st = "processing" => Busy(d) \/ d \in stranded

(* A step that gives work up only by stranding the document. *)
WorkQuiet ==
  /\ stranded \subseteq stranded' /\ queue \subseteq queue'
  /\ \A d \in Docs : doc'[d].st = "processing" => doc[d].st = "processing"
  /\ \A h \in Threads, d \in Docs : ThreadBusy(h, d) => thread'[h] = thread[h] \/ d \in stranded'
  /\ \A w \in Workers, d \in Docs : WorkerBusy(w, d) => worker'[w] = worker[w] \/ d \in stranded'

(* A step that hands the work on one document over, or ends it. *)
WorkMoves(o) ==
  /\ stranded \subseteq stranded'
  /\ doc'[o].st = "processing" => Busy(o)' \/ o \in stranded'
  /\ \A d \in Docs \ {o} : doc'[d].st = "processing" => doc[d].st = "processing"
  /\ \A h \in Threads, d \in Docs \ {o} : ThreadBusy(h, d) => thread'[h] = thread[h]
  /\ \A m \in queue : job[m.job].doc # o => m \in queue'
  /\ \A w \in Workers, d \in Docs \ {o} : WorkerBusy(w, d) => worker'[w] = worker[w]

LEMMA BusyKept ==
  ASSUME DocumentAssumption, TInv, Frames, NEW d \in Docs, Busy(d),
         \A h \in Threads : ThreadBusy(h, d) => thread'[h] = thread[h] \/ d \in stranded',
         \A m \in queue : job[m.job].doc = d => m \in queue',
         \A w \in Workers : WorkerBusy(w, d) => worker'[w] = worker[w] \/ d \in stranded'
  PROVE  Busy(d)' \/ d \in stranded'
<1>j. \A j \in Jobs : job[j].doc = d => job'[j].doc = d
  BY DEF Frames, JobFrame, DocumentAssumption
<1>1. ASSUME NEW h \in Threads, ThreadBusy(h, d), thread'[h] = thread[h] PROVE Busy(d)'
  <2>1. thread[h].at = "dispatch" => thread[h].item \in Jobs
    BY ItemFacts
  <2>2. ThreadBusy(h, d)'
    BY <1>1, <1>j, <2>1 DEF ThreadBusy, At
  <2> QED
    BY <2>2 DEF Busy
<1>2. ASSUME NEW m \in queue, job[m.job].doc = d PROVE Busy(d)'
  <2>1. m \in queue' /\ job'[m.job].doc = d
    BY <1>2, <1>j DEF TInv, TypeOK, Message
  <2> QED
    BY <2>1 DEF Busy, QueueBusy
<1>3. ASSUME NEW w \in Workers, WorkerBusy(w, d), worker'[w] = worker[w] PROVE Busy(d)'
  <2>1. worker[w].job \in Jobs /\ job'[worker[w].job].doc = d
    BY <1>3, <1>j, WorkerFacts DEF WorkerBusy, DocOf
  <2>2. WorkerBusy(w, d)'
    BY <1>3, <2>1 DEF WorkerBusy, DocOf, Final
  <2> QED
    BY <2>2 DEF Busy
<1> QED
  BY <1>1, <1>2, <1>3 DEF Busy, QueueBusy

LEMMA QuietKeepsBusy ==
  ASSUME DocumentAssumption, TInv, Frames, BusyInv, WorkQuiet
  PROVE  BusyInv'
<1> SUFFICES ASSUME NEW d \in Docs, doc'[d].st = "processing" PROVE Busy(d)' \/ d \in stranded'
  BY DEF BusyInv
<1>1. doc[d].st = "processing" /\ (Busy(d) \/ d \in stranded)
  BY DEF WorkQuiet, BusyInv
<1> QED
  BY <1>1, BusyKept DEF WorkQuiet

LEMMA MovesKeepBusy ==
  ASSUME DocumentAssumption, TInv, Frames, BusyInv, NEW o \in Docs, WorkMoves(o)
  PROVE  BusyInv'
<1> SUFFICES ASSUME NEW d \in Docs, doc'[d].st = "processing" PROVE Busy(d)' \/ d \in stranded'
  BY DEF BusyInv
<1>1. CASE d = o
  BY <1>1 DEF WorkMoves
<1>2. CASE d # o
  <2>1. doc[d].st = "processing" /\ (Busy(d) \/ d \in stranded)
    BY <1>2 DEF WorkMoves, BusyInv
  <2> QED
    BY <1>2, <2>1, BusyKept DEF WorkMoves
<1> QED
  BY <1>1, <1>2

(* The work of a handler is on one document, that of a worker too. *)
LEMMA ThreadBusyAt ==
  ASSUME DocumentAssumption, TInv, NEW h \in Threads, NEW d \in Docs, ThreadBusy(h, d)
  PROVE  /\ thread[h].at \in {"upload", "batch", "reindex", "refused", "dispatch"}
         /\ thread[h].at # "dispatch" => thread[h].item = d
         /\ thread[h].at = "dispatch" => job[thread[h].item].doc = d
BY DEF ThreadBusy, At

LEMMA ThreadsQuiet ==
  ASSUME DocumentAssumption, TInv, NEW h \in Threads,
         Ends(h) \/ \E at, item : Goes(h, at, item),
         thread[h].at \notin {"upload", "batch", "reindex", "refused", "dispatch"}
  PROVE  \A g \in Threads, d \in Docs : ThreadBusy(g, d) => thread'[g] = thread[g]
<1>1. \A g \in Threads : g # h => thread'[g] = thread[g]
  BY DEF Ends, Goes, TInv, TypeOK
<1>2. \A d \in Docs : ~ThreadBusy(h, d)
  BY DEF ThreadBusy, At
<1> QED
  BY <1>1, <1>2

LEMMA OneThreadMoves ==
  ASSUME DocumentAssumption, TInv, NEW h \in Threads, NEW o \in Docs,
         Ends(h) \/ \E at, item : Goes(h, at, item),
         thread[h].at = "dispatch" => job[thread[h].item].doc = o,
         thread[h].at \in {"upload", "batch", "reindex", "refused"} => thread[h].item = o
  PROVE  \A g \in Threads, d \in Docs \ {o} : ThreadBusy(g, d) => thread'[g] = thread[g]
<1>1. \A g \in Threads : g # h => thread'[g] = thread[g]
  BY DEF Ends, Goes, TInv, TypeOK
<1>2. \A d \in Docs \ {o} : ~ThreadBusy(h, d)
  BY DEF ThreadBusy, At
<1> QED
  BY <1>1, <1>2

LEMMA OneWorkerMoves ==
  ASSUME DocumentAssumption, TInv, NEW w \in Workers, NEW o \in Docs,
         \A v \in Workers : v # w => worker'[v] = worker[v],
         worker[w] # Free => DocOf(w) = o
  PROVE  \A v \in Workers, d \in Docs \ {o} : WorkerBusy(v, d) => worker'[v] = worker[v]
BY DEF WorkerBusy

LEMMA SetsProcessing ==
  ASSUME DocumentAssumption, TInv, NEW o \in Docs, Exists(o), NEW st \in Statuses, Sets(o, st)
  PROVE  /\ doc'[o].st = st
         /\ \A d \in Docs \ {o} : doc'[d].st = "processing" => doc[d].st = "processing"
BY SetsFrame

LEMMA ReindexWork ==
  ASSUME DocumentAssumption, TInv, NEW h \in Threads, NEW d \in Docs, Reindex(h, d)
  PROVE  WorkMoves(d)
<1>1. /\ Exists(d) /\ Sets(d, "processing") /\ Goes(h, "reindex", d) /\ thread[h].at = "idle"
      /\ UNCHANGED <<queue, worker, stranded, job>> /\ "processing" \in Statuses
  BY DEF Reindex, Exists, Statuses, NewThread, Idle
<1>2. \A g \in Threads, x \in Docs : ThreadBusy(g, x) => thread'[g] = thread[g]
  BY <1>1, ThreadsQuiet
<1>3. thread'[h].at = "reindex" /\ thread'[h].item = d
  BY <1>1 DEF Goes, TInv, TypeOK
<1>4. Busy(d)'
  BY <1>3 DEF Busy, ThreadBusy
<1> QED
  BY <1>1, <1>2, <1>4, SetsProcessing DEF WorkMoves

LEMMA BatchUploadWork ==
  ASSUME DocumentAssumption, TInv, NEW h \in Threads, NEW d \in Docs, BatchUpload(h, d)
  PROVE  WorkMoves(d)
<1>1. /\ thread[h].at = "idle" /\ Goes(h, "batch", d)
      /\ UNCHANGED <<queue, worker, stranded, job>>
  BY DEF BatchUpload, NewThread, Idle
<1>2. \A g \in Threads, x \in Docs : ThreadBusy(g, x) => thread'[g] = thread[g]
  BY <1>1, ThreadsQuiet
<1>3. /\ thread'[h].at = "batch" /\ thread'[h].item = d
      /\ \A x \in Docs : x # d => doc'[x] = doc[x]
  BY BatchUploadFrames, BatchUploadRows
<1>4. Busy(d)'
  BY <1>3 DEF Busy, ThreadBusy
<1> QED
  BY <1>1, <1>2, <1>3, <1>4 DEF WorkMoves

LEMMA PublishWork ==
  ASSUME DocumentAssumption, TInv, NEW h \in Threads, NEW how \in {"stored", "bare", "file"},
         NEW ticked \in SUBSET Docs, Publish(h, how, ticked)
  PROVE  \E d \in Docs : WorkMoves(d)
<1>1. PICK r \in Reviews, d \in Docs : Publishes(h, how, r, d)
  BY PublishRows
<1>2. /\ UNCHANGED <<queue, worker, stranded, job>> /\ thread[h].at = "publish"
  BY DEF Publish, At
<1>3. /\ doc'[d].st = "processing" => how = "file"
      /\ \A x \in Docs : x # d =>
           \/ doc'[x].st = doc[x].st
           \/ doc'[x].st = "superseded" /\ x = doc[d].parent
           \/ doc'[x].st = "stale"
      /\ IF how = "file" THEN Goes(h, "upload", d) ELSE Ends(h)
  BY <1>1 DEF Publishes
<1>4. Ends(h) \/ \E at, item : Goes(h, at, item)
  BY <1>3
<1>5. \A g \in Threads, x \in Docs : ThreadBusy(g, x) => thread'[g] = thread[g]
  BY <1>2, <1>4, ThreadsQuiet
<1>6. how = "file" => Busy(d)'
  <2> SUFFICES ASSUME how = "file" PROVE Busy(d)'
    OBVIOUS
  <2>1. thread'[h].at = "upload" /\ thread'[h].item = d
    BY <1>3 DEF Goes, TInv, TypeOK
  <2> QED
    BY <2>1 DEF Busy, ThreadBusy
<1>7. WorkMoves(d)
  BY <1>2, <1>3, <1>5, <1>6 DEF WorkMoves
<1> QED
  BY <1>7

LEMMA EnqueueWork ==
  ASSUME DocumentAssumption, TInv, NEW h \in Threads, Enqueue(h)
  PROVE  WorkQuiet \/ \E d \in Docs : WorkMoves(d)
<1>0. /\ UNCHANGED <<queue, worker, stranded>>
  BY DEF Enqueue
<1>1. CASE Ends(h) /\ At(h, "admin_retry") /\ UNCHANGED <<doc, job>>
  <2>1. \A g \in Threads, x \in Docs : ThreadBusy(g, x) => thread'[g] = thread[g]
    BY <1>1, ThreadsQuiet DEF At
  <2> QED
    BY <1>0, <1>1, <2>1 DEF WorkQuiet
<1>2. ASSUME NEW d \in Docs, NEW j \in Jobs, d = thread[h].item, Exists(d), job[j].doc = NoDoc,
             Sets(d, "processing"), Goes(h, "dispatch", j),
             job'[j] = [st |-> "queued", doc |-> d, trigger |-> thread[h].at]
      PROVE  WorkMoves(d)
  <2>1. thread[h].at \in Triggers /\ "processing" \in Statuses
    BY DEF Enqueue, Statuses
  <2>2. \A g \in Threads, x \in Docs \ {d} : ThreadBusy(g, x) => thread'[g] = thread[g]
    BY <1>2, <2>1, OneThreadMoves DEF Triggers
  <2>3. thread'[h].at = "dispatch" /\ thread'[h].item = j /\ job'[j].doc = d
    BY <1>2 DEF Goes, TInv, TypeOK
  <2>4. Busy(d)'
    BY <2>3 DEF Busy, ThreadBusy, At
  <2> QED
    BY <1>0, <1>2, <2>1, <2>2, <2>4, SetsProcessing DEF WorkMoves
<1> QED
  BY <1>1, <1>2, EnqueueRows

LEMMA DispatchWork ==
  ASSUME DocumentAssumption, TInv, NEW h \in Threads, Dispatch(h) \/ DispatchFails(h)
  PROVE  \E d \in Docs : WorkMoves(d)
<1>1. PICK j \in Jobs, d \in Docs : j = thread[h].item /\ d = job[j].doc /\ d # NoDoc
  BY ItemFacts DEF Dispatch, DispatchFails, At, DocumentAssumption
<1>2. /\ UNCHANGED <<doc, worker, stranded>> /\ queue \subseteq queue' /\ thread[h].at = "dispatch"
      /\ Ends(h) \/ \E at, item : Goes(h, at, item)
  BY DEF Dispatch, DispatchFails, At
<1>3. \A g \in Threads, x \in Docs \ {d} : ThreadBusy(g, x) => thread'[g] = thread[g]
  BY <1>1, <1>2, OneThreadMoves
<1>4. Busy(d)'
  <2>1. CASE Dispatch(h)
    <3> DEFINE m == [job |-> j, tries |-> 0, copy |-> 1]
    <3>1. m \in queue' /\ UNCHANGED job
      BY <1>1, <2>1 DEF Dispatch
    <3>2. job'[m.job].doc = d
      BY <1>1, <3>1
    <3> QED
      BY <3>1, <3>2 DEF Busy, QueueBusy
  <2>2. CASE DispatchFails(h)
    <3>1. Goes(h, "refused", d)
      BY <1>1, <2>2 DEF DispatchFails
    <3>2. thread'[h].at = "refused" /\ thread'[h].item = d
      BY <3>1 DEF Goes, TInv, TypeOK
    <3> QED
      BY <3>2 DEF Busy, ThreadBusy
  <2> QED
    BY <2>1, <2>2
<1>5. WorkMoves(d)
  BY <1>2, <1>3, <1>4 DEF WorkMoves
<1> QED
  BY <1>5

LEMMA FailUndispatchedWork ==
  ASSUME DocumentAssumption, TInv, NEW h \in Threads, FailUndispatched(h)
  PROVE  \E d \in Docs : WorkMoves(d)
<1>1. PICK d \in Docs : d = thread[h].item /\ Exists(d)
  BY ItemFacts DEF FailUndispatched, At, AtDoc
<1>2. /\ Sets(d, "failed") /\ Ends(h) /\ thread[h].at = "refused" /\ "failed" \in Statuses
      /\ UNCHANGED <<queue, worker, stranded, job>>
  BY <1>1 DEF FailUndispatched, At, Statuses
<1>3. \A g \in Threads, x \in Docs \ {d} : ThreadBusy(g, x) => thread'[g] = thread[g]
  BY <1>1, <1>2, OneThreadMoves
<1>4. WorkMoves(d)
  BY <1>1, <1>2, <1>3, SetsProcessing DEF WorkMoves
<1> QED
  BY <1>4

LEMMA TakeWork ==
  ASSUME DocumentAssumption, TInv, NEW w \in Workers, NEW m \in queue, Take(w, m)
  PROVE  \E d \in Docs : WorkMoves(d)
<1>1. PICK d \in Docs : d = job[m.job].doc
  BY DEF TInv, TypeOK, Links, QueueLinks, Message, JobRow
<1>2. /\ worker[w] = Free /\ queue' = queue \ {m} /\ UNCHANGED <<doc, thread, stranded>>
  BY DEF Take
<1>3. /\ job'[m.job].doc = d /\ worker'[w] # Free /\ worker'[w].job = m.job
      /\ \A v \in Workers : v # w => worker'[v] = worker[v]
  BY <1>1, TakeFrames
<1>4. worker'[w].at = "mark"
  BY DEF Take, TInv, TypeOK
<1>5. WorkerBusy(w, d)'
  BY <1>3, <1>4 DEF WorkerBusy, DocOf
<1>6. \A v \in Workers, x \in Docs \ {d} : WorkerBusy(v, x) => worker'[v] = worker[v]
  BY <1>2, <1>3 DEF WorkerBusy
<1>7. WorkMoves(d)
  BY <1>1, <1>2, <1>5, <1>6 DEF WorkMoves, Busy
<1> QED
  BY <1>7

LEMMA MarksWork ==
  ASSUME DocumentAssumption, TInv, NEW w \in Workers,
         MarkProcessing(w) \/ PublishIngested(w) \/ FailDocument(w)
  PROVE  \E d \in Docs : WorkMoves(d)
<1>1. worker[w] # Free /\ UNCHANGED <<queue, thread, stranded, job>>
  BY DEF Free, MarkProcessing, PublishIngested, FailDocument
<1>2. PICK d \in Docs : d = DocOf(w) /\ Exists(d)
  BY <1>1, WorkerFacts
<1>3. /\ worker'[w] # Free /\ worker'[w].job = worker[w].job
      /\ \A v \in Workers : v # w => worker'[v] = worker[v]
      /\ \A e \in Docs : e # d => doc'[e] = doc[e]
  BY <1>2, MarksFrames
<1>4. \A v \in Workers, x \in Docs \ {d} : WorkerBusy(v, x) => worker'[v] = worker[v]
  BY <1>2, <1>3, OneWorkerMoves
<1>5. job'[worker'[w].job].doc = d
  BY <1>1, <1>2, <1>3 DEF DocOf
<1>6. CASE MarkProcessing(w)
  <2>1. worker'[w].at = "ingest"
    BY <1>1, <1>6, WorksFrame DEF MarkProcessing
  <2>2. WorkerBusy(w, d)'
    BY <1>3, <1>5, <2>1 DEF WorkerBusy, DocOf
  <2> QED
    BY <1>1, <1>3, <1>4, <2>2 DEF WorkMoves, Busy
<1>7. CASE PublishIngested(w)
  <2>1. doc'[d].st = "active"
    BY <1>2, <1>7, SetsFrame DEF PublishIngested, Statuses
  <2> QED
    BY <1>1, <1>3, <1>4, <2>1 DEF WorkMoves
<1>8. CASE FailDocument(w)
  <2>1. CASE Final(w)
    <3>1. Sets(d, "failed")
      BY <1>2, <1>8, <2>1 DEF FailDocument
    <3>2. doc'[d].st = "failed"
      BY <1>2, <3>1, SetsFrame DEF Statuses
    <3> QED
      BY <1>1, <1>3, <1>4, <3>2 DEF WorkMoves
  <2>2. CASE ~Final(w)
    <3>1. Works(w, "failjob")
      BY <1>8 DEF FailDocument
    <3>2. worker'[w].at = "failjob" /\ worker'[w].tries = worker[w].tries
      BY <1>1, <3>1, WorksFrame
    <3>3. WorkerBusy(w, d)'
      BY <1>3, <1>5, <2>2, <3>2 DEF WorkerBusy, DocOf, Final
    <3> QED
      BY <1>1, <1>3, <1>4, <3>3 DEF WorkMoves, Busy
  <2> QED
    BY <2>1, <2>2
<1> QED
  BY <1>6, <1>7, <1>8

LEMMA IngestWork ==
  ASSUME DocumentAssumption, TInv, NEW w \in Workers, NEW outcome \in Outcomes,
         Ingest(w, outcome)
  PROVE  \E d \in Docs : WorkMoves(d)
<1>1. worker[w] # Free /\ UNCHANGED <<queue, thread, job>> /\ stranded \subseteq stranded'
  BY DEF Free, Ingest
<1>2. PICK d \in Docs : d = DocOf(w) /\ Exists(d)
  BY <1>1, WorkerFacts
<1>3. /\ worker'[w] # Free /\ worker'[w].job = worker[w].job
      /\ \A v \in Workers : v # w => worker'[v] = worker[v]
      /\ \A e \in Docs : e # d => doc'[e] = doc[e]
  BY <1>2, IngestFrames
<1>4. \A v \in Workers, x \in Docs \ {d} : WorkerBusy(v, x) => worker'[v] = worker[v]
  BY <1>2, <1>3, OneWorkerMoves
<1>5. job'[worker'[w].job].doc = d
  BY <1>1, <1>2, <1>3 DEF DocOf
<1>6. CASE outcome = "zero"
  <2>1. doc'[d].st = "failed"
    BY <1>2, <1>6, SetsFrame DEF Ingest, Statuses
  <2> QED
    BY <1>1, <1>3, <1>4, <2>1 DEF WorkMoves
<1>7. CASE outcome = "empty"
  <2>1. d \in stranded'
    BY <1>2, <1>7 DEF Ingest
  <2> QED
    BY <1>1, <1>3, <1>4, <2>1 DEF WorkMoves
<1>8. CASE outcome \in {"stored", "partial", "error"}
  <2>1. Works(w, "publish") \/ Works(w, "fail")
    <3>1. outcome \notin {"zero", "empty"} /\ (outcome = "stored" \/ outcome \in {"partial", "error"})
      BY <1>8
    <3>2. CASE outcome = "stored"
      BY <3>2 DEF Ingest
    <3>3. CASE outcome # "stored"
      BY <3>1, <3>3 DEF Ingest
    <3> QED
      BY <3>2, <3>3
  <2>2. worker'[w].at \in {"publish", "fail"}
    BY <1>1, <2>1, WorksFrame
  <2>3. WorkerBusy(w, d)'
    BY <1>3, <1>5, <2>2 DEF WorkerBusy, DocOf
  <2> QED
    BY <1>1, <1>3, <1>4, <2>3 DEF WorkMoves, Busy
<1> QED
  BY <1>6, <1>7, <1>8 DEF Outcomes

LEMMA FailJobWork ==
  ASSUME DocumentAssumption, TInv, NEW w \in Workers, NEW copies \in {{1}, {1, 2}},
         FailJob(w, copies)
  PROVE  WorkQuiet \/ \E d \in Docs : WorkMoves(d)
<1>1. /\ worker[w] # Free /\ UNCHANGED <<doc, thread, stranded>> /\ queue \subseteq queue'
      /\ worker[w].at = "failjob" /\ Rests(w) /\ queue' = queue \cup RetryMessages(w, copies)
  BY DEF Free, FailJob
<1>2. PICK d \in Docs, j \in Jobs : d = DocOf(w) /\ j = worker[w].job /\ job[j].doc = d
  BY <1>1, WorkerFacts DEF DocOf
<1>3. \A v \in Workers : v # w => worker'[v] = worker[v]
  BY <1>1, RestsFrame
<1>4. CASE Final(w)
  <2>1. \A x \in Docs : ~WorkerBusy(w, x)
    BY <1>1, <1>4 DEF WorkerBusy
  <2> QED
    BY <1>1, <1>3, <2>1 DEF WorkQuiet
<1>5. CASE ~Final(w)
  <2> DEFINE m == [job |-> j, tries |-> worker[w].tries + 1, copy |-> 1]
  <2>1. m \in RetryMessages(w, copies)
    BY <1>2, <1>5 DEF RetryMessages
  <2>2. job'[m.job].doc = d
    BY <1>2, FailJobFrames
  <2>3. Busy(d)'
    BY <1>1, <2>1, <2>2 DEF Busy, QueueBusy
  <2>4. \A v \in Workers, x \in Docs \ {d} : WorkerBusy(v, x) => worker'[v] = worker[v]
    BY <1>2, <1>3, OneWorkerMoves
  <2>5. WorkMoves(d)
    BY <1>1, <2>3, <2>4 DEF WorkMoves
  <2> QED
    BY <2>5
<1> QED
  BY <1>4, <1>5

(* The steps that neither begin nor hand over any work. *)
LEMMA CallsWorkQuiet ==
  ASSUME DocumentAssumption, TInv,
         BeginVersion \/ CallFault \/ \E c \in Calls : CallStep(c)
  PROVE  WorkQuiet
<1>1. UNCHANGED <<queue, thread, worker, stranded>>
  BY DEF BeginVersion, CallFault, CallStep, SendVersion, ProbeRecord, ClaimKey, LockDocument,
         ReplyVersion, AbortVersion, LoseCall, CreateVersion, docVars
<1>2. \A d \in Docs : doc'[d].st = "processing" => doc[d].st = "processing"
  <2>1. CASE UNCHANGED doc
    BY <2>1
  <2>2. CASE CreatesOne
    <3>1. PICK c \in Calls, e \in Docs, outcome \in {"stored", "empty", "zero"} :
            CreateVersion(c, e, outcome)
      BY <2>2 DEF CreatesOne
    <3>2. /\ doc'[e].st \in {"active", "failed"}
          /\ doc'[asked[c].doc].st \in {doc[asked[c].doc].st, "superseded"}
          /\ \A x \in Docs : x # e /\ x # asked[c].doc => doc'[x] = doc[x]
      BY <3>1, CreateVersionRows
    <3> QED
      BY <3>2
  <2> QED
    BY <2>1, <2>2 DEF BeginVersion, CallFault, CallStep, SendVersion, ProbeRecord, ClaimKey,
                      LockDocument, ReplyVersion, AbortVersion, LoseCall, docVars, CreatesOne
<1> QED
  BY <1>1, <1>2 DEF WorkQuiet

(* A handler that has no work leaves or goes on, and no row is set to processing. *)
LEMMA IdleWorkQuiet ==
  ASSUME DocumentAssumption, TInv, NEW h \in Threads,
         Ends(h) \/ \E at, item : Goes(h, at, item),
         thread[h].at \notin {"upload", "batch", "reindex", "refused", "dispatch"},
         UNCHANGED <<queue, worker, stranded>>,
         \A d \in Docs : doc'[d].st = "processing" => doc[d].st = "processing"
  PROVE  WorkQuiet
BY ThreadsQuiet DEF WorkQuiet

LEMMA SetsNotProcessing ==
  ASSUME DocumentAssumption, TInv, NEW d \in Docs, Exists(d), NEW st \in Statuses,
         st # "processing", Sets(d, st)
  PROVE  \A x \in Docs : doc'[x].st = "processing" => doc[x].st = "processing"
BY SetsFrame

(* An edit that writes processing back has found it, or strands the document. *)
LEMMA SaveEditWork ==
  ASSUME DocumentAssumption, TInv, NEW h \in Threads, SaveEdit(h)
  PROVE  WorkQuiet \/ \E d \in Docs : WorkMoves(d)
<1>1. PICK d \in Docs : d = thread[h].item
  BY SaveEditFrames
<1>2. /\ thread[h].at = "edit" /\ Ends(h) /\ UNCHANGED <<queue, worker, job>>
      /\ doc'[d].st = thread[h].was /\ \A x \in Docs : x # d => doc'[x] = doc[x]
  BY <1>1, SaveEditFrames DEF SaveEdit
<1>3. \A g \in Threads, x \in Docs : ThreadBusy(g, x) => thread'[g] = thread[g]
  BY <1>2, ThreadsQuiet
<1>4. CASE thread[h].was = "processing" /\ doc[d].st # "processing"
  <2>1. stranded' = stranded \cup {d}
    BY <1>1, <1>4 DEF SaveEdit
  <2>2. WorkMoves(d)
    BY <1>2, <1>3, <2>1 DEF WorkMoves
  <2> QED
    BY <2>2
<1>5. CASE ~(thread[h].was = "processing" /\ doc[d].st # "processing")
  <2>1. UNCHANGED stranded
    BY <1>1, <1>5 DEF SaveEdit
  <2>2. \A x \in Docs : doc'[x].st = "processing" => doc[x].st = "processing"
    BY <1>2, <1>5
  <2> QED
    BY <1>2, <2>1, <2>2, IdleWorkQuiet
<1> QED
  BY <1>4, <1>5

LEMMA BeginWorkQuiet ==
  ASSUME DocumentAssumption, TInv, BeginReview \/ BeginIngestion \/ BeginMaintenance
  PROVE  WorkQuiet \/ \E d \in Docs : WorkMoves(d)
<1>0. \A h \in Threads : NewThread(h) => thread[h].at = "idle"
  BY DEF NewThread, Idle
<1>1. ASSUME NEW h \in Threads, NEW d \in Docs, NEW gated \in BOOLEAN, Upload(h, d, gated)
      PROVE  WorkQuiet
  <2>1. doc'[d].st = "draft" /\ \A x \in Docs : x # d => doc'[x] = doc[x]
    BY <1>1, UploadRows
  <2>2. /\ \E at, item : Goes(h, at, item)
        /\ UNCHANGED <<queue, worker, stranded>> /\ thread[h].at = "idle"
    BY <1>0, <1>1 DEF Upload
  <2>3. \A x \in Docs : doc'[x].st = "processing" => doc[x].st = "processing"
    BY <2>1
  <2> QED
    BY <2>2, <2>3, IdleWorkQuiet
<1>2. ASSUME NEW h \in Threads, NEW d \in Docs, SubmitReview(h, d) \/ Maintain(h, d)
      PROVE  WorkQuiet
  <2>1. /\ \E at, item : Goes(h, at, item)
        /\ UNCHANGED <<queue, worker, stranded, doc>> /\ thread[h].at = "idle"
    BY <1>0, <1>2 DEF SubmitReview, Maintain
  <2> QED
    BY <2>1, IdleWorkQuiet
<1>3. ASSUME NEW h \in Threads, NEW r \in Reviews, NEW verdict \in {"approve", "reject"},
             Decide(h, r, verdict)
      PROVE  WorkQuiet
  <2>1. /\ \E at, item : Goes(h, at, item)
        /\ UNCHANGED <<queue, worker, stranded, doc>> /\ thread[h].at = "idle"
    BY <1>0, <1>3 DEF Decide
  <2> QED
    BY <2>1, IdleWorkQuiet
<1>4. ASSUME NEW h \in Threads, NEW j \in Jobs, RetryJob(h, j) PROVE WorkQuiet
  <2>1. /\ \E at, item : Goes(h, at, item)
        /\ UNCHANGED <<queue, worker, stranded, doc>> /\ thread[h].at = "idle"
    BY <1>0, <1>4 DEF RetryJob
  <2> QED
    BY <2>1, IdleWorkQuiet
<1>5. ASSUME NEW d \in Docs, NEW e \in Docs, NEW r \in Reviews, StagePendingVersion(d, e, r)
      PROVE  WorkQuiet
  <2>1. doc'[e].st = "pending_review" /\ \A x \in Docs : x # e => doc'[x] = doc[x]
    BY <1>5 DEF StagePendingVersion, TInv, TypeOK, Row
  <2>2. UNCHANGED <<queue, worker, stranded, thread>>
    BY <1>5 DEF StagePendingVersion
  <2> QED
    BY <2>1, <2>2 DEF WorkQuiet
<1>6. ASSUME NEW d \in Docs, Archive(d) PROVE WorkQuiet
  <2>1. doc'[d].st = "archived" /\ \A x \in Docs : x # d => doc'[x] = doc[x]
    BY <1>6, ArchiveFrames
  <2>2. UNCHANGED <<queue, worker, stranded, thread>>
    BY <1>6 DEF Archive
  <2> QED
    BY <2>1, <2>2 DEF WorkQuiet
<1>7. ASSUME NEW h \in Threads, NEW d \in Docs, BeginEdit(h, d) PROVE WorkQuiet
  <2>1. \A g \in Threads : g # h => thread'[g] = thread[g]
    BY <1>7, BeginEditFrames
  <2>2. \A x \in Docs : ~ThreadBusy(h, x)
    BY <1>0, <1>7 DEF BeginEdit, ThreadBusy, At
  <2>3. UNCHANGED <<doc, queue, worker, stranded>>
    BY <1>7 DEF BeginEdit
  <2> QED
    BY <2>1, <2>2, <2>3 DEF WorkQuiet
<1> QED
  BY <1>1, <1>2, <1>3, <1>4, <1>5, <1>6, <1>7, ReindexWork, BatchUploadWork
     DEF BeginReview, BeginIngestion, BeginMaintenance

LEMMA FaultWork ==
  ASSUME DocumentAssumption, TInv, ProcessFault
  PROVE  WorkQuiet \/ \E d \in Docs : WorkMoves(d)
<1>1. ASSUME NEW h \in Threads, Abandon(h) PROVE WorkQuiet
  <2>1. \A g \in Threads : g # h => thread'[g] = thread[g]
    BY <1>1, EndsFrame DEF Abandon
  <2>2. ASSUME NEW d \in Docs, ThreadBusy(h, d) PROVE d \in stranded'
    BY <1>1, <2>2, ThreadBusyAt DEF Abandon, At, Triggers
  <2>3. UNCHANGED <<doc, queue, worker>> /\ stranded \subseteq stranded'
    BY <1>1 DEF Abandon
  <2> QED
    BY <2>1, <2>2, <2>3 DEF WorkQuiet
<1>2. ASSUME NEW w \in Workers, WorkerDies(w) PROVE WorkQuiet
  <2>1. \A v \in Workers : v # w => worker'[v] = worker[v]
    BY <1>2, RestsFrame DEF WorkerDies
  <2>2. ASSUME NEW d \in Docs, WorkerBusy(w, d) PROVE d \in stranded'
    BY <1>2, <2>2 DEF WorkerDies, WorkerBusy
  <2>3. UNCHANGED <<doc, queue, thread>> /\ stranded \subseteq stranded'
    BY <1>2 DEF WorkerDies
  <2> QED
    BY <2>1, <2>2, <2>3 DEF WorkQuiet
<1> QED
  BY <1>1, <1>2, DispatchWork DEF ProcessFault

LEMMA ThreadStepWork ==
  ASSUME DocumentAssumption, TInv, NEW h \in Threads, ThreadStep(h)
  PROVE  WorkQuiet \/ \E d \in Docs : WorkMoves(d)
<1> DEFINE Quiet == \A d \in Docs : doc'[d].st = "processing" => doc[d].st = "processing"
<1>1. ASSUME StageForReview(h) \/ WriteFreshness(h) PROVE WorkQuiet
  <2>1. PICK d \in Docs : d = thread[h].item /\ Exists(d)
    BY <1>1, ItemFacts DEF StageForReview, WriteFreshness, At, AtDoc
  <2>2. PICK st \in {"pending_review", "stale", "active"} : Sets(d, st)
    BY <1>1, <2>1 DEF StageForReview, WriteFreshness
  <2>3. Quiet
    BY <2>1, <2>2, SetsNotProcessing DEF Statuses
  <2>4. /\ Ends(h) \/ \E at, item : Goes(h, at, item)
        /\ UNCHANGED <<queue, worker, stranded>>
        /\ thread[h].at \in {"stage", "stale", "fresh"}
    BY <1>1 DEF StageForReview, WriteFreshness, At
  <2> QED
    BY <2>3, <2>4, IdleWorkQuiet
<1>2. ASSUME Reject(h) PROVE WorkQuiet
  <2>1. PICK d \in Docs : d = review[thread[h].item].doc /\ Exists(d)
    BY <1>2, ItemFacts DEF Reject, At, AtReview
  <2>2. Sets(d, "rejected") \/ UNCHANGED doc
    BY <1>2, <2>1 DEF Reject
  <2>3. Quiet
    BY <2>1, <2>2, SetsNotProcessing DEF Statuses
  <2>4. Ends(h) /\ UNCHANGED <<queue, worker, stranded>> /\ thread[h].at = "reject"
    BY <1>2 DEF Reject, At
  <2> QED
    BY <2>3, <2>4, IdleWorkQuiet
<1>3. ASSUME FileReview(h) \/ LockReview(h) \/ LockParent(h) \/ ReclaimChunks(h) PROVE WorkQuiet
  <2>1. /\ Ends(h) \/ \E at, item : Goes(h, at, item)
        /\ UNCHANGED <<queue, worker, stranded, doc>>
        /\ thread[h].at \in {"file", "approve", "parent", "reclaim"}
    BY <1>3 DEF FileReview, LockReview, LockParent, ReclaimChunks, At
  <2> QED
    BY <2>1, IdleWorkQuiet
<1> QED
  BY <1>1, <1>2, <1>3, SaveEditWork, PublishWork, EnqueueWork, DispatchWork, FailUndispatchedWork DEF ThreadStep

LEMMA WorkerStepWork ==
  ASSUME DocumentAssumption, TInv, NEW w \in Workers, WorkerStep(w)
  PROVE  WorkQuiet \/ \E d \in Docs : WorkMoves(d)
<1>1. ASSUME CloseJob(w) PROVE WorkQuiet
  <2>1. /\ Rests(w) /\ worker[w].at \in {"close", "empty"}
        /\ UNCHANGED <<doc, queue, thread, stranded>>
    BY <1>1 DEF CloseJob
  <2>2. \A v \in Workers : v # w => worker'[v] = worker[v]
    BY <2>1, RestsFrame
  <2>3. \A d \in Docs : ~WorkerBusy(w, d)
    BY <2>1 DEF WorkerBusy
  <2> QED
    BY <2>1, <2>2, <2>3 DEF WorkQuiet
<1> QED
  BY <1>1, TakeWork, MarksWork, IngestWork, FailJobWork DEF WorkerStep

LEMMA BusyStep ==
  ASSUME DocumentAssumption, TInv, BusyInv, [Next]_vars
  PROVE  BusyInv'
<1>0. Frames
  BY AnyFrames
<1>1. CASE Next
  <2>1. ASSUME NEW c \in Calls, NEW h \in Threads, BreakDeadlock(c, h) PROVE WorkQuiet
    <3>1. /\ UNCHANGED <<doc, queue, worker, stranded>> /\ thread[h].at = "parent"
          /\ Ends(h) \/ UNCHANGED thread
      BY <2>1 DEF BreakDeadlock, Deadlock, At
    <3>2. CASE Ends(h)
      BY <3>1, <3>2, IdleWorkQuiet
    <3>3. CASE UNCHANGED thread
      BY <3>1, <3>3 DEF WorkQuiet
    <3> QED
      BY <3>1, <3>2, <3>3
  <2>2. WorkQuiet \/ \E d \in Docs : WorkMoves(d)
    BY <1>1, <2>1, CallsWorkQuiet, BeginWorkQuiet, FaultWork, ThreadStepWork, WorkerStepWork
       DEF Next, Step
  <2> QED
    BY <1>0, <2>2, QuietKeepsBusy, MovesKeepBusy
<1>2. CASE UNCHANGED vars
  <2>1. WorkQuiet
    BY <1>2 DEF vars, WorkQuiet
  <2> QED
    BY <1>0, <2>1, QuietKeepsBusy
<1> QED
  BY <1>1, <1>2

(* A document stays in processing without anybody at work on it only when a   *)
(* fault, a refused step, an empty text or an edit that wrote back the status *)
(* it had read has stranded it.                                               *)
THEOREM ProcessingIsWork == Spec => []StrandedByFault
<1>1. Init => BusyInv
  BY DEF Init, BusyInv, Row, Absent
<1>2. TInv /\ BusyInv /\ [Next]_vars => BusyInv'
  BY BusyStep, DocumentAssumption
<1>3. BusyInv => StrandedByFault
  BY DEF BusyInv, Busy, ThreadBusy, QueueBusy, WorkerBusy, StrandedByFault, InWork
<1> QED
  BY <1>1, <1>2, <1>3, Typed, PTL DEF Spec

-----------------------------------------------------------------------------
(* What the contract gives to the callers of one key *)

Decided(c, body) == [key |-> KeyOf[c], request |-> asked[c], body |-> body]

Backed(c) ==
  /\ Told[c] # NoAnswer => asked[c] # NoRequest /\ Told[c].kind # "none"
  /\ Told[c].kind = "made" => Decided(c, Told[c].body) \in records
  /\ Told[c].kind = "reused" =>
       \E decided \in records : decided.key = KeyOf[c] /\ decided.request # asked[c]

ContractInv == /\ asked \in [Calls -> Request \cup {NoRequest}]
               /\ \A a, b \in records : a.key = b.key => a = b
               /\ \A c \in Calls : Backed(c)

(* Answers keep their backing while nothing is taken back. *)
LEMMA BackingKept ==
  ASSUME NEW c \in Calls, Backed(c), records \subseteq records',
         Told[c] # NoAnswer => asked'[c] = asked[c], Told'[c] = Told[c]
  PROVE  Backed(c)'
<1>1. CASE Told[c] = NoAnswer
  BY <1>1 DEF Backed, NoAnswer
<1>2. CASE Told[c] # NoAnswer
  BY <1>2 DEF Backed, Decided
<1> QED
  BY <1>1, <1>2

LEMMA ContractStep ==
  ASSUME DocumentAssumption, ContractInv, [Operation!Next]_(Operation!vars)
  PROVE  ContractInv' /\ \A c \in Calls : Told[c] # NoAnswer => Told'[c] = Told[c]
<1>1. CASE UNCHANGED Operation!vars
  <2>1. UNCHANGED <<records, asked, Told>>
    BY <1>1 DEF Operation!vars, Told
  <2> QED
    BY <2>1, BackingKept DEF ContractInv
<1>2. ASSUME NEW c \in Calls, NEW request \in Request, Operation!Ask(c, request)
      PROVE  ContractInv' /\ \A o \in Calls : Told[o] # NoAnswer => Told'[o] = Told[o]
  <2>1. /\ asked[c] = NoRequest /\ asked' = [asked EXCEPT ![c] = request]
        /\ UNCHANGED <<records, Told>>
    BY <1>2 DEF Operation!Ask, Told
  <2>2. \A o \in Calls : Told[o] # NoAnswer => asked'[o] = asked[o]
    BY <2>1 DEF ContractInv, Backed
  <2> QED
    BY <2>1, <2>2, BackingKept DEF ContractInv
<1>3. ASSUME NEW c \in Calls, NEW body \in Docs, Operation!Decide(c, body)
      PROVE  ContractInv' /\ \A o \in Calls : Told[o] # NoAnswer => Told'[o] = Told[o]
  <2>1. /\ \A decided \in records : decided.key # KeyOf[c]
        /\ records' = records \cup {Decided(c, body)}
        /\ UNCHANGED <<asked, Told>>
    BY <1>3 DEF Operation!Decide, Told, Decided
  <2>2. Decided(c, body).key = KeyOf[c]
    BY DEF Decided
  <2>3. \A a, b \in records' : a.key = b.key => a = b
    BY <2>1, <2>2 DEF ContractInv
  <2>4. \A o \in Calls : Backed(o)'
    BY <2>1, BackingKept DEF ContractInv
  <2> QED
    BY <2>1, <2>3, <2>4 DEF ContractInv
<1>4. ASSUME NEW c \in Calls, NEW said \in Operation!Answers, Operation!Tell(c, said)
      PROVE  ContractInv' /\ \A o \in Calls : Told[o] # NoAnswer => Told'[o] = Told[o]
  <2>1. /\ asked[c] # NoRequest /\ Told[c] = Operation!Untold
        /\ Told' = [Told EXCEPT ![c] = said]
        /\ UNCHANGED <<records, asked>>
    BY <1>4 DEF Operation!Tell, Told
  <2>2. Operation!Truthful(c, said)
    BY <1>4 DEF Operation!Tell
  <2>3. Told[c] = NoAnswer /\ Told'[c] = said /\ \A o \in Calls \ {c} : Told'[o] = Told[o]
    BY <2>1 DEF Told, NoAnswer, Operation!Untold
  <2>4. said.kind \in {"made", "reused", "error"}
    BY DEF Operation!Answers
  <2>5. Backed(c)'
    BY <2>1, <2>2, <2>3, <2>4 DEF Backed, Operation!Truthful, Decided
  <2>6. \A o \in Calls \ {c} : Backed(o)'
    BY <2>1, <2>3, BackingKept DEF ContractInv
  <2> QED
    BY <2>1, <2>3, <2>5, <2>6 DEF ContractInv
<1> QED
  BY <1>1, <1>2, <1>3, <1>4 DEF Operation!Next

LEMMA ContractAnswers ==
  Operation!Spec => []Operation!OneAnswerPerKey /\ Operation!AnswersStand
<1>1. Operation!Init => ContractInv
  <2> SUFFICES ASSUME Operation!Init PROVE ContractInv
    OBVIOUS
  <2>1. records = {} /\ asked = [c \in Calls |-> NoRequest] /\ Told = [c \in Calls |-> NoAnswer]
    BY DEF Operation!Init, Told, Operation!Untold, NoAnswer
  <2>2. \A c \in Calls : Told[c] = NoAnswer /\ NoAnswer.kind = "none"
    BY <2>1 DEF NoAnswer
  <2> QED
    BY <2>1, <2>2 DEF ContractInv, Backed
<1>2. ContractInv /\ [Operation!Next]_(Operation!vars) =>
        ContractInv' /\ [Operation!AnswerStands]_(Operation!vars)
  <2> SUFFICES ASSUME ContractInv, [Operation!Next]_(Operation!vars)
               PROVE  ContractInv' /\ Operation!AnswerStands
    OBVIOUS
  <2>1. ContractInv' /\ \A c \in Calls : Told[c] # NoAnswer => Told'[c] = Told[c]
    BY ContractStep, DocumentAssumption
  <2> QED
    BY <2>1 DEF Operation!AnswerStands, Operation!Untold, NoAnswer, Told
<1>3. ContractInv => Operation!OneAnswerPerKey
  <2> SUFFICES ASSUME ContractInv, NEW c \in Calls, NEW d \in Calls,
                      KeyOf[c] = KeyOf[d], Told[d].kind = "made"
               PROVE  /\ Told[c].kind = "made" => Told[c].body = Told[d].body /\ asked[c] = asked[d]
                      /\ Told[c].kind = "reused" => asked[c] # asked[d]
    BY DEF Operation!OneAnswerPerKey, Told
  <2>1. Backed(c) /\ Backed(d) /\ Decided(d, Told[d].body) \in records
    BY DEF ContractInv, Backed
  <2>2. \A body : /\ Decided(c, body).key = KeyOf[c] /\ Decided(d, body).key = KeyOf[c]
                  /\ Decided(c, body).request = asked[c] /\ Decided(d, body).request = asked[d]
                  /\ Decided(c, body).body = body /\ Decided(d, body).body = body
    BY DEF Decided
  <2> HIDE DEF Decided
  <2>3. CASE Told[c].kind = "made"
    <3>1. Decided(c, Told[c].body) = Decided(d, Told[d].body)
      BY <2>1, <2>2, <2>3 DEF ContractInv, Backed
    <3> QED
      BY <2>2, <2>3, <3>1
  <2>4. CASE Told[c].kind = "reused"
    <3>1. PICK decided \in records : decided.key = KeyOf[c] /\ decided.request # asked[c]
      BY <2>1, <2>4 DEF Backed
    <3>2. decided = Decided(d, Told[d].body)
      BY <2>1, <2>2, <3>1 DEF ContractInv
    <3> QED
      BY <2>2, <2>4, <3>1, <3>2
  <2> QED
    BY <2>3, <2>4
<1> QED
  BY <1>1, <1>2, <1>3, PTL DEF Operation!Spec, Operation!AnswersStand

(* All callers who get a result under one key asked for the same version    *)
(* and get the same one, a caller told that the key is taken had asked for  *)
(* another, and no answer is taken back.                                    *)
THEOREM CallersOfOneKey == Spec => []Operation!OneAnswerPerKey /\ Operation!AnswersStand
BY VersionCommandImplementsContract, ContractAnswers, PTL DEF ImplementsOperation
=============================================================================
