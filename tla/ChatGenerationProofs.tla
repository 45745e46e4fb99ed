------------------------ MODULE ChatGenerationProofs ------------------------
(***************************************************************************)
(* TLAPS proofs about ChatGeneration, for any number of turns, workers,    *)
(* attempts and faults of every kind: a row has an answer exactly when it  *)
(* is completed, and a done event never precedes its answer.               *)
(***************************************************************************)
EXTENDS ChatGeneration, SequenceTheorems, TLAPS

(* Program counters at which a worker may still save its copy of the row. *)
MaySave == {"acquire", "mark", "taskSave"} \cup Generating

(***************************************************************************)
(* What a worker knows: it has a turn, a copy it may still save has no     *)
(* answer, an exception is on its way to failed or cancelled, and a done   *)
(* event is only due once the answer is stored.                            *)
(***************************************************************************)
WorkerFacts ==
    \A w \in Workers :
        /\ work[w].pc # "idle" => work[w].turn \in Turns
        /\ work[w].pc \in MaySave => work[w].msg = 0
        /\ work[w].pc = "mark" => work[w].goal \in {"failed", "cancelled"}
        /\ work[w].pc = "emitDone" => answers[work[w].turn] > 0

IInv == TypeOK /\ AnswerIffCompleted /\ DoneMeansAnswer /\ WorkerFacts

-----------------------------------------------------------------------------
(* Appending events other than done brings no done event into a stream. *)
LEMMA EmitNoDone ==
    ASSUME NEW s \in Seq(Events), NEW e \in Seq(Events),
           \A i \in DOMAIN e : e[i] # "done",
           NEW j \in DOMAIN (s \o e), (s \o e)[j] = "done"
    PROVE  \E i \in DOMAIN s : s[i] = "done"
<1>1. /\ Len(s \o e) = Len(s) + Len(e)
      /\ \A i \in 1..Len(s) + Len(e) :
            (s \o e)[i] = IF i <= Len(s) THEN s[i] ELSE e[i - Len(s)]
  BY ConcatProperties
<1>2. s \o e \in Seq(Events)
  BY ConcatProperties
<1>3. j \in 1..Len(s) + Len(e)
  BY <1>1, <1>2
<1>4. j <= Len(s)
  <2> SUFFICES ASSUME ~(j <= Len(s)) PROVE FALSE
    OBVIOUS
  <2>1. j - Len(s) \in DOMAIN e
    BY <1>3
  <2> QED  BY <1>1, <1>3, <2>1
<1> QED  BY <1>1, <1>3, <1>4

(* An appended stream has its type. *)
LEMMA EmitTyped ==
    ASSUME stream \in [Turns -> Seq(Events)], NEW t \in Turns,
           NEW e \in Seq(Events), Emit(t, e)
    PROVE  stream' \in [Turns -> Seq(Events)]
<1>1. stream[t] \o e \in Seq(Events)
  BY ConcatProperties
<1> QED  BY <1>1 DEF Emit

(* Appending events other than done keeps DoneMeansAnswer. *)
LEMMA EmitKeepsDone ==
    ASSUME stream \in [Turns -> Seq(Events)], NEW t \in Turns,
           NEW e \in Seq(Events), \A i \in DOMAIN e : e[i] # "done",
           Emit(t, e), DoneMeansAnswer, UNCHANGED answers
    PROVE  DoneMeansAnswer'
<1> SUFFICES ASSUME NEW u \in Turns, NEW j \in DOMAIN stream'[u], stream'[u][j] = "done"
             PROVE  answers[u] > 0
  BY DEF DoneMeansAnswer
<1>1. CASE u # t
  BY <1>1 DEF Emit, DoneMeansAnswer
<1>2. CASE u = t
  <2>1. stream'[u] = stream[t] \o e
    BY <1>2 DEF Emit
  <2>2. \E i \in DOMAIN stream[t] : stream[t][i] = "done"
    BY <2>1, EmitNoDone
  <2> QED  BY <1>2, <2>2 DEF DoneMeansAnswer
<1> QED  BY <1>1, <1>2

(* The initial state. *)
LEMMA InitIInv == Init => IInv
<1> SUFFICES ASSUME Init PROVE IInv
  OBVIOUS
<1>1. TypeOK
  BY LimitAssumption, AttemptsAssumption, FaultAssumption
     DEF Init, TypeOK, Statuses, WorkerStates, Idle, PCs
<1>2. AnswerIffCompleted /\ DoneMeansAnswer /\ WorkerFacts
  BY DEF Init, AnswerIffCompleted, DoneMeansAnswer, WorkerFacts, Idle, MaySave, Generating
<1> QED  BY <1>1, <1>2 DEF IInv

-----------------------------------------------------------------------------
(* Saving a row as anything but completed, and without an answer, keeps the *)
(* database part of the invariant. *)
LEMMA SaveRowKeeps ==
    ASSUME TypeOK, AnswerIffCompleted, NEW t \in Turns,
           NEW status \in Statuses \ {"completed"}, SaveRow(t, status, 0)
    PROVE  /\ row' \in [Turns -> [status : Statuses, msg : Nat]]
           /\ attempt' \in [Turns -> 0..MaxAttempts]
           /\ stale' \in [Turns -> BOOLEAN]
           /\ answers' \in [Turns -> Nat]
           /\ AnswerIffCompleted'
           /\ UNCHANGED answers
BY DEF TypeOK, AnswerIffCompleted, SaveRow

(* A fault counts within its budget. *)
LEMMA FaultTyped ==
    ASSUME faults \in 0..MaxFaults, NEW kind, Fault(kind) \/ NoFault
    PROVE  faults' \in 0..MaxFaults
BY FaultAssumption DEF Fault, NoFault

(* The actions of the web request. *)
LEMMA WebKeeps ==
    ASSUME IInv, NEW t \in Turns, BeginChatTurn(t) \/ Web(t)
    PROVE  IInv'
<1> USE DEF IInv
<1>0. WorkerFacts /\ UNCHANGED <<work, answers>> => WorkerFacts'
  BY DEF WorkerFacts
<1>1. CASE BeginChatTurn(t)
  <2>1. TypeOK'
    BY <1>1, AttemptsAssumption DEF BeginChatTurn, TypeOK, Statuses, ActiveStatuses
  <2>2. AnswerIffCompleted'
    BY <1>1 DEF BeginChatTurn, TypeOK, AnswerIffCompleted
  <2>3. DoneMeansAnswer'
    BY <1>1 DEF BeginChatTurn, DoneMeansAnswer
  <2> QED  BY <1>0, <1>1, <2>1, <2>2, <2>3 DEF BeginChatTurn
<1>2. CASE Reserve(t)
  <2>1. faults' \in 0..MaxFaults
    BY <1>2, FaultTyped DEF Reserve, TypeOK
  <2>2. TypeOK'
    BY <1>2, <2>1 DEF Reserve, TypeOK, dbVars
  <2> QED
    BY <1>0, <1>2, <2>2 DEF Reserve, dbVars, AnswerIffCompleted, DoneMeansAnswer
<1>3. CASE Publish(t)
  <2>1. PICK e \in {<<>>, <<"meta">>, <<"meta", "queued">>} : Emit(t, e)
    BY <1>3 DEF Publish
  <2>2. e \in Seq(Events) /\ \A i \in DOMAIN e : e[i] # "done"
    <3>1. CASE e = <<>>
      BY <3>1
    <3>2. CASE e = <<"meta">>
      BY <3>2 DEF Events
    <3>3. CASE e = <<"meta", "queued">>
      BY <3>3 DEF Events
    <3> QED  BY <3>1, <3>2, <3>3
  <2>3. faults' \in 0..MaxFaults
    BY <1>3, FaultTyped DEF Publish, TypeOK
  <2>4. stream' \in [Turns -> Seq(Events)]
    BY <2>1, <2>2, EmitTyped DEF TypeOK
  <2>5. UNCHANGED <<dbVars, queue, work, lease, reserved, cancel>>
    BY <1>3 DEF Publish
  <2>6. web' \in [Turns -> {"idle", "reserve", "publish", "enqueue", "undo", "release", "fail"}]
    BY <1>3 DEF Publish, TypeOK
  <2>7. TypeOK'
    BY <2>3, <2>4, <2>5, <2>6 DEF TypeOK, dbVars
  <2>8. DoneMeansAnswer'
    BY <2>1, <2>2, <2>5, EmitKeepsDone DEF TypeOK, dbVars
  <2> QED
    BY <1>0, <2>5, <2>7, <2>8 DEF dbVars, AnswerIffCompleted
<1>4. CASE Enqueue(t)
  <2>1. faults' \in 0..MaxFaults
    BY <1>4, FaultTyped DEF Enqueue, TypeOK
  <2>2. queue' \in [Turns -> Nat]
    BY <1>4 DEF Enqueue, TypeOK
  <2>3. web' \in [Turns -> {"idle", "reserve", "publish", "enqueue", "undo", "release", "fail"}]
    BY <1>4 DEF Enqueue, TypeOK
  <2>4. TypeOK'
    BY <1>4, <2>1, <2>2, <2>3 DEF Enqueue, TypeOK, dbVars
  <2> QED
    BY <1>0, <1>4, <2>4 DEF Enqueue, dbVars, AnswerIffCompleted, DoneMeansAnswer
<1>5. CASE UndoEvent(t)
  <2>1. faults' \in 0..MaxFaults
    BY <1>5, FaultTyped DEF UndoEvent, TypeOK
  <2>2. UNCHANGED <<dbVars, queue, work, lease, reserved, cancel>>
    BY <1>5 DEF UndoEvent
  <2>3. <<"error">> \in Seq(Events) /\ \A i \in DOMAIN <<"error">> : <<"error">>[i] # "done"
    BY DEF Events, TerminalEvents
  <2>4. stream' \in [Turns -> Seq(Events)] /\ DoneMeansAnswer'
    <3>1. CASE Emit(t, <<"error">>)
      BY <2>2, <2>3, <3>1, EmitTyped, EmitKeepsDone DEF TypeOK, dbVars
    <3>2. CASE UNCHANGED stream
      BY <2>2, <3>2 DEF TypeOK, dbVars, DoneMeansAnswer
    <3> QED  BY <1>5, <3>1, <3>2 DEF UndoEvent
  <2>5. TypeOK'
    BY <1>5, <2>1, <2>2, <2>4 DEF UndoEvent, TypeOK, dbVars
  <2> QED
    BY <1>0, <2>2, <2>4, <2>5 DEF dbVars, AnswerIffCompleted
<1>6. CASE UndoReservation(t)
  <2>1. faults' \in 0..MaxFaults
    BY <1>6, FaultTyped DEF UndoReservation, TypeOK
  <2>2. TypeOK'
    BY <1>6, <2>1 DEF UndoReservation, TypeOK, dbVars
  <2> QED
    BY <1>0, <1>6, <2>2 DEF UndoReservation, dbVars, AnswerIffCompleted, DoneMeansAnswer
<1>7. CASE FailActiveTurn(t)
  <2>1. faults' \in 0..MaxFaults
    BY <1>7, FaultTyped DEF FailActiveTurn, TypeOK
  <2>2. SaveRow(t, "failed", 0) \/ UNCHANGED dbVars
    BY <1>7 DEF FailActiveTurn
  <2>3. /\ row' \in [Turns -> [status : Statuses, msg : Nat]]
        /\ attempt' \in [Turns -> 0..MaxAttempts]
        /\ stale' \in [Turns -> BOOLEAN]
        /\ answers' \in [Turns -> Nat]
        /\ AnswerIffCompleted'
        /\ UNCHANGED answers
    BY <2>2, SaveRowKeeps DEF Statuses, dbVars, TypeOK, AnswerIffCompleted
  <2>4. TypeOK'
    BY <1>7, <2>1, <2>3 DEF FailActiveTurn, TypeOK
  <2> QED
    BY <1>0, <1>7, <2>3, <2>4 DEF FailActiveTurn, DoneMeansAnswer
<1> QED
  BY <1>1, <1>2, <1>3, <1>4, <1>5, <1>6, <1>7 DEF Web

-----------------------------------------------------------------------------
(* Steps that leave the database and the streams alone. *)
LEMMA QuietKeeps ==
    ASSUME IInv, UNCHANGED <<dbVars, web, stream>>,
           work' \in [Workers -> WorkerStates], WorkerFacts',
           queue' \in [Turns -> Nat], lease' \in Workers \cup {NoOwner, Orphan},
           reserved' \subseteq Turns, cancel' \in [Turns -> BOOLEAN],
           faults' \in 0..MaxFaults
    PROVE  IInv'
BY DEF IInv, TypeOK, AnswerIffCompleted, DoneMeansAnswer, dbVars

(* A worker's record changes to one that has the facts, answers only grow. *)
LEMMA WorkKeeps ==
    ASSUME IInv, NEW w \in Workers, NEW r \in WorkerStates,
           work' = [work EXCEPT ![w] = r],
           r.pc # "idle" => r.turn \in Turns,
           r.pc \in MaySave => r.msg = 0,
           r.pc = "mark" => r.goal \in {"failed", "cancelled"},
           r.pc = "emitDone" => answers'[r.turn] > 0,
           \A t \in Turns : answers[t] > 0 => answers'[t] > 0
    PROVE  work' \in [Workers -> WorkerStates] /\ WorkerFacts'
<1>1. work' \in [Workers -> WorkerStates]
  BY DEF IInv, TypeOK
<1>2. ASSUME NEW v \in Workers
      PROVE  /\ work'[v].pc # "idle" => work'[v].turn \in Turns
             /\ work'[v].pc \in MaySave => work'[v].msg = 0
             /\ work'[v].pc = "mark" => work'[v].goal \in {"failed", "cancelled"}
             /\ work'[v].pc = "emitDone" => answers'[work'[v].turn] > 0
  <2>1. CASE v = w
    BY <2>1 DEF IInv, TypeOK
  <2>2. CASE v # w
    <3>1. work'[v] = work[v]
      BY <2>2 DEF IInv, TypeOK
    <3> QED  BY <3>1 DEF IInv, WorkerFacts
  <2> QED  BY <2>1, <2>2
<1> QED  BY <1>1, <1>2 DEF WorkerFacts

(* The worker actions that only read the database. *)
LEMMA ReadingKeeps ==
    ASSUME IInv, NEW w \in Workers,
           \/ RenewCapacity(w) \/ LoadTurn(w) \/ AcquireLease(w)
           \/ StopAtCheck(w) \/ PassCheck(w) \/ PipelineToken(w)
           \/ PipelineEnds(w) \/ PipelineFails(w)
           \/ Close(w) \/ TaskRead(w) \/ Finish(w)
    PROVE  IInv'
<1>0. work[w] \in WorkerStates /\ work \in [Workers -> WorkerStates]
  BY DEF IInv, TypeOK
<1>1. work[w].pc # "idle" => work[w].turn \in Turns
  BY DEF IInv, WorkerFacts
<1> DEFINE t == work[w].turn
           r == work'[w]
<1>2. UNCHANGED <<dbVars, web, stream>>
  BY DEF RenewCapacity, LoadTurn, AcquireLease, StopAtCheck, PassCheck, PipelineToken,
     PipelineEnds, PipelineFails, Close, TaskRead, Finish
<1>3. faults' \in 0..MaxFaults
  BY FaultTyped DEF IInv, TypeOK, NoFault, RenewCapacity, LoadTurn, AcquireLease, StopAtCheck, PassCheck, PipelineToken,
     PipelineEnds, PipelineFails, Close, TaskRead, Finish
<1>4. r \in WorkerStates /\ work' = [work EXCEPT ![w] = r]
  <2>1. CASE LoadTurn(w) \/ TaskRead(w)
    BY <1>0, <1>1, <2>1 DEF LoadTurn, TaskRead, WorkerStates, PCs, PreSave, Generating,
       IInv, TypeOK
  <2>2. CASE Finish(w)
    BY <1>0, <2>2 DEF Finish, WorkerStates, PCs, Idle, Statuses
  <2>3. CASE RenewCapacity(w) \/ AcquireLease(w) \/ StopAtCheck(w) \/ PassCheck(w)
    BY <1>0, <2>3 DEF RenewCapacity, AcquireLease, StopAtCheck, PassCheck, Goto, Raise,
       WorkerStates, PCs, PreSave, Generating
  <2>4. CASE PipelineToken(w) \/ PipelineEnds(w) \/ PipelineFails(w) \/ Close(w)
    BY <1>0, <2>4 DEF PipelineToken, PipelineEnds, PipelineFails, Close, Goto, Raise,
       WorkerStates, PCs, PreSave, Generating
  <2> QED  BY <2>1, <2>2, <2>3, <2>4
<1>5. /\ r.pc # "idle" => r.turn \in Turns
      /\ r.pc \in MaySave => r.msg = 0
      /\ r.pc = "mark" => r.goal \in {"failed", "cancelled"}
      /\ r.pc # "emitDone"
  <2>0. work[w].pc \in MaySave => work[w].msg = 0
    BY DEF IInv, WorkerFacts
  <2>1. CASE LoadTurn(w) \/ TaskRead(w)
    <3>1. row[work[w].turn].status # "completed" => row[work[w].turn].msg = 0
      BY <1>1, <2>1 DEF LoadTurn, TaskRead, IInv, AnswerIffCompleted
    <3> QED
      BY <1>0, <1>1, <2>1, <3>1 DEF LoadTurn, TaskRead, WorkerStates, MaySave, Generating,
         ActiveStatuses
  <2>2. CASE Finish(w)
    BY <1>0, <2>2 DEF Finish, Idle, MaySave, Generating
  <2>3. CASE RenewCapacity(w) \/ AcquireLease(w) \/ StopAtCheck(w) \/ PassCheck(w)
    BY <1>0, <1>1, <2>0, <2>3 DEF RenewCapacity, AcquireLease, StopAtCheck, PassCheck,
       Goto, Raise, WorkerStates, MaySave, CheckPoints, Generating
  <2>4. CASE PipelineToken(w) \/ PipelineEnds(w) \/ PipelineFails(w) \/ Close(w)
    BY <1>0, <1>1, <2>0, <2>4 DEF PipelineToken, PipelineEnds, PipelineFails, Close,
       Goto, Raise, WorkerStates, MaySave, Generating
  <2> QED  BY <2>1, <2>2, <2>3, <2>4
<1>6. work' \in [Workers -> WorkerStates] /\ WorkerFacts'
  BY <1>2, <1>4, <1>5, WorkKeeps DEF dbVars
<1>7. queue' \in [Turns -> Nat]
  <2>1. CASE Finish(w)
    <3>1. t \in Turns /\ queue \in [Turns -> Nat]
      BY <1>1, <2>1 DEF Finish, IInv, TypeOK
    <3>2. queue' = queue \/ queue' = [queue EXCEPT ![t] = @ + 1]
      BY <2>1 DEF Finish
    <3> QED  BY <3>1, <3>2
  <2>2. CASE ~Finish(w)
    BY <2>2 DEF IInv, TypeOK, RenewCapacity, LoadTurn, AcquireLease, StopAtCheck, PassCheck,
       PipelineToken, PipelineEnds, PipelineFails, Close, TaskRead
  <2> QED  BY <2>1, <2>2
<1>8. lease' \in Workers \cup {NoOwner, Orphan} /\ reserved' \subseteq Turns
  BY DEF IInv, TypeOK, RenewCapacity, LoadTurn, AcquireLease, StopAtCheck, PassCheck,
     PipelineToken, PipelineEnds, PipelineFails, Close, TaskRead, Finish
<1>9. cancel' \in [Turns -> BOOLEAN]
  <2>1. cancel' = cancel \/ cancel' = [cancel EXCEPT ![t] = FALSE]
    BY DEF RenewCapacity, LoadTurn, AcquireLease, StopAtCheck, PassCheck,
       PipelineToken, PipelineEnds, PipelineFails, Close, TaskRead, Finish
  <2> QED  BY <2>1 DEF IInv, TypeOK
<1> QED  BY <1>2, <1>3, <1>6, <1>7, <1>8, <1>9, QuietKeeps

(* A move of the program counter changes nothing else of the record. *)
LEMMA GotoKeeps ==
    ASSUME work \in [Workers -> WorkerStates], NEW w \in Workers, NEW pc \in PCs, Goto(w, pc)
    PROVE  /\ work'[w] \in WorkerStates /\ work' = [work EXCEPT ![w] = work'[w]]
           /\ work'[w].pc = pc /\ work'[w].turn = work[w].turn /\ work'[w].msg = work[w].msg
           /\ work'[w].goal = work[w].goal
BY DEF Goto, WorkerStates

(* What a worker appends is typed, and it holds a done event only at emitDone. *)
LEMMA DueTyped ==
    ASSUME NEW w \in Workers
    PROVE  /\ Due(w) \in Seq(Events)
           /\ work[w].pc # "emitDone" => \A i \in DOMAIN Due(w) : Due(w)[i] # "done"
<1> DEFINE text == IF work[w].text = "pending" THEN <<"delta">> ELSE <<>>
<1>1. text \in Seq(Events) /\ \A i \in DOMAIN text : text[i] # "done"
  <2>1. CASE work[w].text = "pending"
    BY <2>1 DEF Events
  <2>2. CASE work[w].text # "pending"
    BY <2>2
  <2> QED  BY <2>1, <2>2
<1>2. ASSUME NEW last \in {"done", "error"}
      PROVE  /\ text \o <<last>> \in Seq(Events)
             /\ last = "error" => \A i \in DOMAIN (text \o <<last>>) : (text \o <<last>>)[i] # "done"
  <2>1. <<last>> \in Seq(Events) /\ \A i \in DOMAIN <<last>> : <<last>>[i] = last
    BY DEF Events, TerminalEvents
  <2>2. text \o <<last>> \in Seq(Events)
    BY <1>1, <2>1, ConcatProperties
  <2>3. ASSUME last = "error", NEW i \in DOMAIN (text \o <<last>>), (text \o <<last>>)[i] = "done"
        PROVE  FALSE
    <3>1. \A j \in DOMAIN <<last>> : <<last>>[j] # "done"
      BY <2>1, <2>3
    <3> QED  BY <1>1, <2>1, <2>3, <3>1, EmitNoDone
  <2> QED  BY <2>2, <2>3
<1>3. /\ <<"queued">> \in Seq(Events) /\ \A i \in DOMAIN <<"queued">> : <<"queued">>[i] # "done"
      /\ <<"retrieving">> \in Seq(Events)
      /\ \A i \in DOMAIN <<"retrieving">> : <<"retrieving">>[i] # "done"
      /\ <<>> \in Seq(Events) /\ \A i \in DOMAIN <<>> : <<>>[i] # "done"
  BY DEF Events
<1>4. text \o <<"done">> \in Seq(Events)
  BY <1>2
<1>5. /\ text \o <<"error">> \in Seq(Events)
      /\ \A i \in DOMAIN (text \o <<"error">>) : (text \o <<"error">>)[i] # "done"
  BY <1>2
<1> DEFINE again == work[w].pc = "replay" /\ \A i \in DOMAIN stream[work[w].turn] : stream[work[w].turn][i] # "queued"
<1>6. /\ again => Due(w) = <<"queued">>
      /\ work[w].pc = "replay" /\ ~again => Due(w) = <<>>
      /\ work[w].pc = "emitR" => Due(w) = <<"retrieving">>
      /\ work[w].pc = "loop" => Due(w) = text
      /\ work[w].pc = "emitDone" => Due(w) = text \o <<"done">>
      /\ work[w].pc = "emitErr" => Due(w) = text \o <<"error">>
      /\ work[w].pc \notin {"replay", "emitR", "loop", "emitDone", "emitErr"} => Due(w) = <<>>
  BY Zenon DEF Due
<1> HIDE DEF text, again
<1> QED  BY <1>1, <1>3, <1>4, <1>5, <1>6

(* Appending what is due, or the part of it before a failure. *)
LEMMA DueKeepsDone ==
    ASSUME IInv, NEW w \in Workers, work[w].turn \in Turns, NEW n \in 0..Len(Due(w)),
           Emit(work[w].turn, SubSeq(Due(w), 1, n)), UNCHANGED answers
    PROVE  stream' \in [Turns -> Seq(Events)] /\ DoneMeansAnswer'
<1> DEFINE t == work[w].turn
           e == SubSeq(Due(w), 1, n)
<1>0. stream \in [Turns -> Seq(Events)]
  BY DEF IInv, TypeOK
<1>1. Due(w) \in Seq(Events) /\ n \in Nat /\ n <= Len(Due(w)) /\ Len(Due(w)) \in Nat
  BY DueTyped
<1>2. \A i \in 1..n : Due(w)[i] \in Events
  BY <1>1
<1>3. e \in Seq(Events) /\ Len(e) = n /\ \A i \in 1..n : e[i] = Due(w)[i]
  BY <1>1, <1>2, SubSeqProperties
<1>4. stream' \in [Turns -> Seq(Events)]
  BY <1>0, <1>3, EmitTyped
<1>5. CASE work[w].pc = "emitDone"
  <2>1. answers[t] > 0
    BY <1>5 DEF IInv, WorkerFacts
  <2>2. \A u \in Turns : u # t => stream'[u] = stream[u]
    BY <1>0 DEF Emit
  <2> QED  BY <1>4, <2>1, <2>2 DEF IInv, DoneMeansAnswer
<1>6. CASE work[w].pc # "emitDone"
  <2>1. \A i \in DOMAIN e : e[i] # "done"
    BY <1>1, <1>3, <1>6, DueTyped
  <2> QED  BY <1>0, <1>3, <1>4, <2>1, EmitKeepsDone DEF IInv
<1> QED  BY <1>5, <1>6

(* The worker actions that append to the event stream. *)
LEMMA EmittingKeeps ==
    ASSUME IInv, NEW w \in Workers,
           Replay(w) \/ EmitRetrieving(w) \/ FlushText(w) \/ EmitTerminal(w) \/ StoreFails(w)
    PROVE  IInv'
<1> DEFINE t == work[w].turn
           r == work'[w]
<1>0. /\ work[w] \in WorkerStates /\ work \in [Workers -> WorkerStates]
      /\ t \in Turns
      /\ work[w].pc \in MaySave => work[w].msg = 0
  BY DEF IInv, TypeOK, WorkerFacts, Replay, EmitRetrieving, FlushText, EmitTerminal, StoreFails
<1>1. UNCHANGED <<dbVars, web, queue, lease, reserved, cancel>>
  BY DEF Replay, EmitRetrieving, FlushText, EmitTerminal, StoreFails
<1>2. faults' \in 0..MaxFaults
  BY FaultTyped DEF IInv, TypeOK, NoFault, Replay, EmitRetrieving, FlushText, EmitTerminal, StoreFails
<1>3. /\ r \in WorkerStates /\ work' = [work EXCEPT ![w] = r]
      /\ r.turn = t /\ r.msg = work[w].msg
      /\ r.pc \in {"finish", "load", "loop", "close", "taskRead"}
      /\ r.pc = "loop" => work[w].pc \in Generating
  <2>1. CASE Replay(w)
    <3>1. Goto(w, "finish") \/ Goto(w, "load")
      BY <2>1, Zenon DEF Replay
    <3> QED  BY <1>0, <3>1, GotoKeeps DEF PCs, PreSave
  <2>2. CASE EmitRetrieving(w)
    <3>1. Goto(w, "loop") /\ work[w].pc = "emitR"
      BY <2>2, Zenon DEF EmitRetrieving
    <3> QED  BY <1>0, <3>1, GotoKeeps DEF PCs, Generating
  <2>3. CASE FlushText(w)
    BY <1>0, <2>3 DEF FlushText, WorkerStates, PCs, Generating
  <2>4. CASE EmitTerminal(w)
    <3>1. Goto(w, "close")
      BY <2>4, Zenon DEF EmitTerminal
    <3> QED  BY <1>0, <3>1, GotoKeeps DEF PCs
  <2>5. CASE StoreFails(w)
    BY <1>0, <2>5 DEF StoreFails, WorkerStates, PCs
  <2> QED  BY <2>1, <2>2, <2>3, <2>4, <2>5
<1>4. work' \in [Workers -> WorkerStates] /\ WorkerFacts'
  BY <1>0, <1>1, <1>3, WorkKeeps DEF dbVars, MaySave, Generating
<1>5. stream' \in [Turns -> Seq(Events)] /\ DoneMeansAnswer'
  <2>1. UNCHANGED answers
    BY <1>1 DEF dbVars
  <2>2. CASE UNCHANGED stream
    BY <2>1, <2>2 DEF IInv, TypeOK, DoneMeansAnswer
  <2>3. CASE Emit(t, Due(w))
    <3>1. Len(Due(w)) \in 0..Len(Due(w)) /\ SubSeq(Due(w), 1, Len(Due(w))) = Due(w)
      BY DueTyped, SubSeqFull
    <3> QED  BY <1>0, <2>1, <2>3, <3>1, DueKeepsDone
  <2>4. CASE \E n \in 0..Len(Due(w)) : Emit(t, SubSeq(Due(w), 1, n))
    BY <1>0, <2>1, <2>4, DueKeepsDone
  <2> QED  BY <2>2, <2>3, <2>4, Zenon DEF Replay, EmitRetrieving, FlushText, EmitTerminal, StoreFails
<1> QED
  BY <1>1, <1>2, <1>4, <1>5 DEF IInv, TypeOK, AnswerIffCompleted, dbVars

(* The worker actions that write the database. *)
LEMMA SavingKeeps ==
    ASSUME IInv, NEW w \in Workers,
           \/ \E from \in {"saveR", "saveA", "saveS"}, status \in ActiveStatuses, to \in Generating :
                Transition(w, from, status, to)
           \/ Mark(w) \/ TaskSave(w) \/ PersistCompletedTurn(w)
    PROVE  IInv'
<1> DEFINE t == work[w].turn
           r == work'[w]
<1>0. /\ work[w] \in WorkerStates /\ work \in [Workers -> WorkerStates]
      /\ t \in Turns
      /\ work[w].pc \in MaySave => work[w].msg = 0
      /\ work[w].pc = "mark" => work[w].goal \in {"failed", "cancelled"}
  BY DEF IInv, TypeOK, WorkerFacts, Transition, Mark, TaskSave, PersistCompletedTurn
<1>1. UNCHANGED <<web, queue, lease, reserved, cancel, stream>>
  BY DEF Transition, Mark, TaskSave, PersistCompletedTurn
<1>2. faults' \in 0..MaxFaults
  BY FaultTyped DEF IInv, TypeOK, NoFault, Transition, Mark, TaskSave, PersistCompletedTurn
<1>3. SUFFICES /\ row' \in [Turns -> [status : Statuses, msg : Nat]]
               /\ attempt' \in [Turns -> 0..MaxAttempts]
               /\ stale' \in [Turns -> BOOLEAN]
               /\ answers' \in [Turns -> Nat]
               /\ AnswerIffCompleted'
               /\ \A u \in Turns : answers'[u] >= answers[u]
               /\ r \in WorkerStates /\ work' = [work EXCEPT ![w] = r]
               /\ r.turn = t
               /\ r.pc \in MaySave => r.msg = 0
               /\ r.pc = "mark" => r.goal \in {"failed", "cancelled"}
               /\ r.pc = "emitDone" => answers'[t] > 0
  <2>1. \A u \in Turns : answers[u] > 0 => answers'[u] > 0
    BY <1>3 DEF IInv, TypeOK
  <2>2. work' \in [Workers -> WorkerStates] /\ WorkerFacts'
    BY <1>0, <1>3, <2>1, WorkKeeps
  <2>3. TypeOK'
    BY <1>1, <1>2, <1>3, <2>2 DEF IInv, TypeOK
  <2>4. DoneMeansAnswer'
    BY <1>1, <2>1 DEF IInv, DoneMeansAnswer
  <2> QED  BY <1>3, <2>2, <2>3, <2>4 DEF IInv
<1>4. ASSUME UNCHANGED dbVars
      PROVE  /\ row' \in [Turns -> [status : Statuses, msg : Nat]]
             /\ attempt' \in [Turns -> 0..MaxAttempts]
             /\ stale' \in [Turns -> BOOLEAN]
             /\ answers' \in [Turns -> Nat]
             /\ AnswerIffCompleted'
             /\ UNCHANGED answers
  BY <1>4 DEF IInv, TypeOK, AnswerIffCompleted, dbVars
<1>5. CASE \E from \in {"saveR", "saveA", "saveS"}, status \in ActiveStatuses, to \in Generating :
             Transition(w, from, status, to)
  <2> PICK from \in {"saveR", "saveA", "saveS"}, status \in ActiveStatuses, to \in Generating :
           Transition(w, from, status, to)
    BY <1>5
  <2>1. work[w].msg = 0
    BY <1>0 DEF Transition, MaySave, Generating
  <2>2. SaveRow(t, status, 0) \/ UNCHANGED dbVars
    BY <2>1 DEF Transition
  <2>3. /\ r \in WorkerStates /\ work' = [work EXCEPT ![w] = r]
        /\ r.turn = t /\ r.msg = 0 /\ r.pc \in Generating \cup {"mark"}
        /\ r.pc = "mark" => r.goal = "failed"
    <3>1. \/ work' = [work EXCEPT ![w].pc = to, ![w].mem = status]
          \/ work' = [work EXCEPT ![w].pc = "mark", ![w].goal = "failed"]
          \/ work' = [work EXCEPT ![w].pc = "mark", ![w].goal = "failed", ![w].mem = status]
      BY DEF Transition, Raise
    <3>2. to \in PCs /\ status \in Statuses /\ "mark" \in PCs /\ "mark" \notin Generating
      BY DEF PCs, Generating, Statuses
    <3> QED  BY <1>0, <2>1, <3>1, <3>2 DEF WorkerStates
  <2>4. status \in Statuses \ {"completed"}
    BY DEF Statuses, ActiveStatuses
  <2>5. CASE SaveRow(t, status, 0)
    BY <1>0, <2>3, <2>4, <2>5, SaveRowKeeps DEF IInv, TypeOK, Generating
  <2>6. CASE UNCHANGED dbVars
    BY <1>4, <2>3, <2>6 DEF Generating, IInv, TypeOK
  <2> QED  BY <2>2, <2>5, <2>6
<1>6. CASE Mark(w)
  <2>1. work[w].msg = 0 /\ work[w].goal \in Statuses \ {"completed"}
    BY <1>0, <1>6 DEF Mark, MaySave, Statuses
  <2>2. SaveRow(t, work[w].goal, 0) \/ UNCHANGED dbVars
    BY <1>6, <2>1 DEF Mark
  <2>3. Goto(w, "emitErr")
    BY <1>6 DEF Mark
  <2>4. /\ r \in WorkerStates /\ work' = [work EXCEPT ![w] = r]
        /\ r.turn = t /\ r.msg = 0 /\ r.pc = "emitErr"
    BY <1>0, <2>1, <2>3, GotoKeeps DEF PCs
  <2>5. CASE SaveRow(t, work[w].goal, 0)
    BY <1>0, <2>1, <2>4, <2>5, SaveRowKeeps DEF IInv, TypeOK
  <2>6. CASE UNCHANGED dbVars
    BY <1>4, <2>4, <2>6 DEF IInv, TypeOK
  <2> QED  BY <2>2, <2>5, <2>6
<1>7. CASE TaskSave(w)
  <2>1. work[w].msg = 0
    BY <1>0, <1>7 DEF TaskSave, MaySave
  <2>2. SaveRow(t, "failed", 0) \/ UNCHANGED dbVars
    BY <1>7, <2>1 DEF TaskSave
  <2>3. Goto(w, "finish")
    BY <1>7 DEF TaskSave
  <2>4. /\ r \in WorkerStates /\ work' = [work EXCEPT ![w] = r]
        /\ r.turn = t /\ r.msg = 0 /\ r.pc = "finish"
    BY <1>0, <2>1, <2>3, GotoKeeps DEF PCs
  <2>5. CASE SaveRow(t, "failed", 0)
    <3>1. "failed" \in Statuses \ {"completed"}
      BY DEF Statuses
    <3>2. TypeOK /\ AnswerIffCompleted /\ t \in Turns
      BY <1>0 DEF IInv
    <3>3. /\ row' \in [Turns -> [status : Statuses, msg : Nat]]
          /\ attempt' \in [Turns -> 0..MaxAttempts] /\ stale' \in [Turns -> BOOLEAN]
          /\ answers' \in [Turns -> Nat] /\ AnswerIffCompleted' /\ UNCHANGED answers
      BY <2>5, <3>1, <3>2, SaveRowKeeps
    <3> QED  BY <1>0, <2>4, <3>3
  <2>6. CASE UNCHANGED dbVars
    BY <1>4, <2>4, <2>6 DEF IInv, TypeOK
  <2> QED  BY <2>2, <2>5, <2>6
<1>8. CASE PersistCompletedTurn(w)
  <2>1. CASE row[t].status = "completed" /\ row[t].msg # 0 /\ UNCHANGED dbVars
             /\ work' = [work EXCEPT ![w].pc = "emitDone", ![w].mem = "completed", ![w].msg = row[t].msg]
    <3>1. row[t].msg \in Nat /\ answers[t] \in Nat /\ answers[t] > 0
      BY <1>0, <2>1 DEF IInv, TypeOK, AnswerIffCompleted
    <3>2. /\ r \in WorkerStates /\ work' = [work EXCEPT ![w] = r]
          /\ r.turn = t /\ r.pc = "emitDone"
      BY <1>0, <2>1, <3>1 DEF WorkerStates, PCs, Statuses
    <3> QED  BY <1>4, <2>1, <3>1, <3>2 DEF MaySave, Generating, IInv, TypeOK
  <2>2. CASE /\ answers' = [answers EXCEPT ![t] = @ + 1]
             /\ row' = [row EXCEPT ![t] = [status |-> "completed", msg |-> answers[t] + 1]]
             /\ stale' = [stale EXCEPT ![t] = FALSE]
             /\ work' = [work EXCEPT ![w].pc = "emitDone", ![w].mem = "completed", ![w].msg = answers[t] + 1]
             /\ UNCHANGED attempt
    <3>1. answers[t] \in Nat
      BY <1>0 DEF IInv, TypeOK
    <3>2. /\ r \in WorkerStates /\ work' = [work EXCEPT ![w] = r]
          /\ r.turn = t /\ r.pc = "emitDone"
      <4>1. "emitDone" \in PCs /\ "completed" \in Statuses /\ answers[t] + 1 \in Nat
        BY <3>1 DEF PCs, Statuses
      <4>2. work' = [work EXCEPT ![w].pc = "emitDone", ![w].mem = "completed", ![w].msg = answers[t] + 1]
        BY <2>2
      <4> QED  BY <1>0, <4>1, <4>2 DEF WorkerStates
    <3>3. /\ row' \in [Turns -> [status : Statuses, msg : Nat]]
          /\ attempt' \in [Turns -> 0..MaxAttempts]
          /\ stale' \in [Turns -> BOOLEAN]
          /\ answers' \in [Turns -> Nat]
          /\ \A u \in Turns : answers'[u] >= answers[u]
          /\ answers'[t] > 0
      BY <1>0, <2>2, <3>1 DEF IInv, TypeOK, Statuses
    <3>4. AnswerIffCompleted'
      BY <1>0, <2>2, <3>1 DEF IInv, TypeOK, AnswerIffCompleted
    <3> QED  BY <3>2, <3>3, <3>4 DEF MaySave, Generating
  <2>3. CASE Raise(w, "failed") /\ UNCHANGED dbVars
    <3>1. work[w].msg = 0
      BY <1>0, <1>8 DEF PersistCompletedTurn, MaySave, Generating
    <3>2. /\ r \in WorkerStates /\ work' = [work EXCEPT ![w] = r]
          /\ r.turn = t /\ r.msg = 0 /\ r.pc = "mark" /\ r.goal = "failed"
      BY <1>0, <2>3, <3>1 DEF Raise, WorkerStates, PCs
    <3> QED  BY <1>4, <2>3, <3>2 DEF IInv, TypeOK
  <2> QED  BY <1>8, <2>1, <2>2, <2>3 DEF PersistCompletedTurn
<1> QED  BY <1>5, <1>6, <1>7, <1>8

(* Delivery and the loss of leases, workers and acknowledgements. *)
LEMMA WorkerFaultsKeep ==
    ASSUME IInv, NEW w \in Workers,
           (\E t \in Turns : Deliver(w, t)) \/ LoseLease(w) \/ Crash(w) \/ Redeliver(w)
    PROVE  IInv'
<1>0. work[w] \in WorkerStates /\ work \in [Workers -> WorkerStates] /\ queue \in [Turns -> Nat]
  BY DEF IInv, TypeOK
<1>1. work[w].pc # "idle" => work[w].turn \in Turns
  BY DEF IInv, WorkerFacts
<1>2. UNCHANGED <<dbVars, web, stream>> /\ UNCHANGED <<cancel, reserved>>
  BY DEF Deliver, LoseLease, Crash, Redeliver
<1>3. faults' \in 0..MaxFaults
  BY FaultTyped DEF IInv, TypeOK, NoFault, Deliver, LoseLease, Crash, Redeliver
<1>4. Idle \in WorkerStates /\ Idle.pc = "idle"
  BY DEF Idle, WorkerStates, PCs, Statuses
<1>5. ASSUME NEW t \in Turns, Deliver(w, t)
      PROVE  IInv'
  <2> DEFINE r == [Idle EXCEPT !.pc = "renew", !.turn = t]
  <2>1. r \in WorkerStates /\ r.pc = "renew" /\ r.turn = t
    BY DEF Idle, WorkerStates, PCs, PreSave, Statuses
  <2>2. work' = [work EXCEPT ![w] = r]
    BY <1>5 DEF Deliver
  <2>3. work' \in [Workers -> WorkerStates] /\ WorkerFacts'
    BY <1>2, <2>1, <2>2, WorkKeeps DEF dbVars, MaySave, Generating
  <2>4. queue' = [queue EXCEPT ![t] = @ - 1] /\ queue[t] > 0 /\ UNCHANGED lease
    BY <1>5 DEF Deliver
  <2>5. queue' \in [Turns -> Nat]
    BY <1>0, <2>4
  <2> QED  BY <1>2, <1>3, <2>3, <2>4, <2>5, QuietKeeps DEF IInv, TypeOK
<1>6. CASE LoseLease(w)
  <2>1. UNCHANGED queue /\ lease' \in Workers \cup {NoOwner, Orphan}
    BY <1>6 DEF LoseLease, IInv, TypeOK
  <2>2. work' \in [Workers -> WorkerStates] /\ WorkerFacts'
    <3>1. CASE UNCHANGED work
      BY <1>2, <3>1 DEF IInv, TypeOK, WorkerFacts, dbVars
    <3>2. CASE work' = [work EXCEPT ![w].lost = TRUE]
      <4> DEFINE r == [work[w] EXCEPT !.lost = TRUE]
      <4>1. /\ r \in WorkerStates /\ work' = [work EXCEPT ![w] = r]
            /\ r.pc = work[w].pc /\ r.turn = work[w].turn
            /\ r.msg = work[w].msg /\ r.goal = work[w].goal
        BY <1>0, <3>2 DEF WorkerStates
      <4>2. /\ work[w].pc \in MaySave => work[w].msg = 0
            /\ work[w].pc = "mark" => work[w].goal \in {"failed", "cancelled"}
            /\ work[w].pc = "emitDone" => answers[work[w].turn] > 0
        BY DEF IInv, WorkerFacts
      <4> HIDE DEF r
      <4> QED  BY <1>1, <1>2, <4>1, <4>2, WorkKeeps DEF dbVars
    <3> QED  BY <1>6, <3>1, <3>2 DEF LoseLease
  <2> QED  BY <1>2, <1>3, <2>1, <2>2, QuietKeeps DEF IInv, TypeOK
<1>7. CASE Crash(w) \/ Redeliver(w)
  <2>1. queue' = [queue EXCEPT ![work[w].turn] = @ + 1] /\ work[w].turn \in Turns
    BY <1>1, <1>7 DEF Crash, Redeliver
  <2>2. queue' \in [Turns -> Nat]
    BY <1>0, <2>1
  <2>3. lease' \in Workers \cup {NoOwner, Orphan}
    BY <1>7 DEF Crash, Redeliver, IInv, TypeOK
  <2>4. work' \in [Workers -> WorkerStates] /\ WorkerFacts'
    <3>1. CASE UNCHANGED work
      BY <1>2, <3>1 DEF IInv, TypeOK, WorkerFacts, dbVars
    <3>2. CASE work' = [work EXCEPT ![w] = Idle]
      <4> HIDE DEF Idle
      <4> QED  BY <1>2, <1>4, <3>2, WorkKeeps DEF dbVars, MaySave, Generating
    <3> QED  BY <1>7, <3>1, <3>2 DEF Crash, Redeliver
  <2> QED  BY <1>2, <1>3, <2>2, <2>3, <2>4, QuietKeeps DEF IInv, TypeOK
<1> QED  BY <1>5, <1>6, <1>7

(* The client's requests and the passage of time. *)
LEMMA ClientAndTimeKeep ==
    ASSUME IInv,
           \/ \E t \in Turns : \/ RequestCancel(t) \/ ConvergeStaleTurn(t)
                              \/ GrowStale(t) \/ ReservationExpires(t)
           \/ LeaseExpires \/ RemoveMember
    PROVE  IInv'
<1>0. ASSUME UNCHANGED <<work, answers>> PROVE WorkerFacts'
  BY <1>0 DEF IInv, WorkerFacts
<1>1. ASSUME NEW t \in Turns, ConvergeStaleTurn(t)
      PROVE  IInv'
  <2>1. row[t].status \in ActiveStatuses /\ row' = [row EXCEPT ![t].status = "failed"]
    BY <1>1 DEF ConvergeStaleTurn
  <2>2. row' \in [Turns -> [status : Statuses, msg : Nat]]
    BY <2>1 DEF IInv, TypeOK, Statuses
  <2>3. AnswerIffCompleted'
    BY <1>1, <2>1 DEF ConvergeStaleTurn, IInv, TypeOK, AnswerIffCompleted, ActiveStatuses
  <2>4. TypeOK'
    BY <1>1, <2>2 DEF ConvergeStaleTurn, IInv, TypeOK
  <2> QED
    BY <1>0, <1>1, <2>3, <2>4 DEF ConvergeStaleTurn, IInv, DoneMeansAnswer
<1>2. ASSUME NEW t \in Turns, RequestCancel(t) \/ GrowStale(t) \/ ReservationExpires(t)
      PROVE  IInv'
  <2>1. TypeOK'
    BY <1>2 DEF RequestCancel, GrowStale, ReservationExpires, IInv, TypeOK, dbVars
  <2>2. UNCHANGED <<row, answers, work, stream>>
    BY <1>2 DEF RequestCancel, GrowStale, ReservationExpires, dbVars
  <2> QED
    BY <1>0, <2>1, <2>2 DEF IInv, AnswerIffCompleted, DoneMeansAnswer
<1>3. CASE LeaseExpires
  BY <1>0, <1>3 DEF LeaseExpires, IInv, TypeOK, AnswerIffCompleted, DoneMeansAnswer, dbVars
<1>4. CASE RemoveMember
  <2>1. /\ UNCHANGED <<attempt, answers, web, queue, work, reserved, cancel, stream>>
        /\ lease' = NoOwner /\ faults' \in 0..MaxFaults
    BY <1>4, FaultAssumption DEF RemoveMember, Fault, IInv, TypeOK
  <2>2. /\ row \in [Turns -> [status : Statuses, msg : Nat]] /\ stale \in [Turns -> BOOLEAN]
        /\ AnswerIffCompleted
    BY DEF IInv, TypeOK
  <2>3. CASE UNCHANGED <<row, stale>>
    BY <1>0, <2>1, <2>3 DEF IInv, TypeOK, AnswerIffCompleted, DoneMeansAnswer
  <2>4. CASE /\ row' = [t \in Turns |->
                          IF row[t].status \in ActiveStatuses THEN [row[t] EXCEPT !.status = "revoked"]
                          ELSE row[t]]
             /\ stale' = [t \in Turns |-> stale[t] /\ row[t].status \notin ActiveStatuses]
    <3>1. row' \in [Turns -> [status : Statuses, msg : Nat]] /\ stale' \in [Turns -> BOOLEAN]
      BY <2>2, <2>4 DEF Statuses
    <3>2. AnswerIffCompleted'
      <4> SUFFICES ASSUME NEW t \in Turns
                   PROVE  /\ row'[t].msg # 0 <=> row'[t].status = "completed"
                          /\ row'[t].msg <= answers[t]
        BY <2>1 DEF AnswerIffCompleted
      <4>1. /\ row[t].msg # 0 <=> row[t].status = "completed"
            /\ row[t].msg <= answers[t]
        BY <2>2 DEF AnswerIffCompleted
      <4>2. CASE row[t].status \in ActiveStatuses
        BY <2>2, <2>4, <4>1, <4>2 DEF ActiveStatuses
      <4>3. CASE row[t].status \notin ActiveStatuses
        BY <2>4, <4>1, <4>3
      <4> QED  BY <4>2, <4>3
    <3> QED  BY <1>0, <2>1, <3>1, <3>2 DEF IInv, TypeOK, DoneMeansAnswer
  <2> QED  BY <1>4, <2>3, <2>4 DEF RemoveMember
<1> QED  BY <1>1, <1>2, <1>3, <1>4

(* IInv is inductive. *)
LEMMA NextIInv == IInv /\ [Next]_vars => IInv'
<1> SUFFICES ASSUME IInv, [Next]_vars PROVE IInv'
  OBVIOUS
<1>1. CASE UNCHANGED vars
  BY <1>1 DEF vars, IInv, TypeOK, AnswerIffCompleted, DoneMeansAnswer, WorkerFacts
<1>2. ASSUME NEW t \in Turns, BeginChatTurn(t) \/ Web(t)
      PROVE  IInv'
  BY <1>2, WebKeeps
<1>3. ASSUME NEW w \in Workers, WorkerStep(w)
      PROVE  IInv'
  <2>1. /\ \A from \in {"saveR", "saveA", "saveS"}, status \in ActiveStatuses, to \in Generating :
              Transition(w, from, status, to) => IInv'
        /\ Mark(w) \/ TaskSave(w) \/ PersistCompletedTurn(w) => IInv'
    BY SavingKeeps
  <2>2. /\ {"retrieving", "answering", "saving"} \subseteq ActiveStatuses
        /\ {"emitR", "loop", "checkP"} \subseteq Generating
    BY DEF ActiveStatuses, Generating
  <2>3. (\/ Transition(w, "saveR", "retrieving", "emitR")
         \/ Transition(w, "saveA", "answering", "loop")
         \/ Transition(w, "saveS", "saving", "checkP")) => IInv'
    BY <2>1, <2>2
  <2>4. (\/ RenewCapacity(w) \/ LoadTurn(w) \/ AcquireLease(w)
         \/ StopAtCheck(w) \/ PassCheck(w) \/ PipelineToken(w)
         \/ PipelineEnds(w) \/ PipelineFails(w)
         \/ Close(w) \/ TaskRead(w) \/ Finish(w)) => IInv'
    BY ReadingKeeps
  <2>5. Replay(w) \/ EmitRetrieving(w) \/ FlushText(w) \/ EmitTerminal(w) \/ StoreFails(w) => IInv'
    BY EmittingKeeps
  <2> QED
    BY <1>3, <2>1, <2>3, <2>4, <2>5 DEF WorkerStep
<1>4. ASSUME NEW w \in Workers,
             (\E t \in Turns : Deliver(w, t)) \/ LoseLease(w) \/ Crash(w) \/ Redeliver(w)
      PROVE  IInv'
  BY <1>4, WorkerFaultsKeep
<1>5. CASE \/ \E t \in Turns : \/ RequestCancel(t) \/ ConvergeStaleTurn(t)
                               \/ GrowStale(t) \/ ReservationExpires(t)
           \/ LeaseExpires \/ RemoveMember
  BY <1>5, ClientAndTimeKeep
<1>6. CASE Quiet
  BY <1>1, <1>6 DEF Quiet
<1> QED  BY <1>1, <1>2, <1>3, <1>4, <1>5, <1>6 DEF Next

(* Every reachable state has the inductive invariant. *)
LEMMA Invariance == Spec => []IInv
BY InitIInv, NextIInv, PTL DEF Spec

(***************************************************************************)
(* Every variable of accept_chat_turn_v3, generate_chat_turn_v3 and the    *)
(* Redis keys keeps its type whatever fails.                               *)
(***************************************************************************)
THEOREM TypeTheorem == Spec => []TypeOK
<1>1. IInv => TypeOK
  BY DEF IInv
<1> QED  BY <1>1, Invariance, PTL

(***************************************************************************)
(* However many writers of different age save a ChatTurn row, and whatever *)
(* fails, the row has an assistant message exactly when it is completed.   *)
(***************************************************************************)
THEOREM AnswerTheorem == Spec => []AnswerIffCompleted
<1>1. IInv => AnswerIffCompleted
  BY DEF IInv
<1> QED  BY <1>1, Invariance, PTL

(***************************************************************************)
(* A done event in the stream of a turn means that its answer was stored   *)
(* by _persist_completed_turn.                                             *)
(***************************************************************************)
THEOREM DoneTheorem == Spec => []DoneMeansAnswer
<1>1. IInv => DoneMeansAnswer
  BY DEF IInv
<1> QED  BY <1>1, Invariance, PTL

-----------------------------------------------------------------------------
(***************************************************************************)
(* While lease calls and keys are reliable, a worker between acquiring the *)
(* session lease and the end of its saving transaction owns the lease.     *)
(***************************************************************************)
Holding == \A w \in Workers : work[w].pc \in Generating => lease = w

(* A step of one worker: where it goes, and what it does to the lease. *)
LEMMA HoldingKeeps ==
    ASSUME TypeOK, Holding, NEW w \in Workers,
           \A v \in Workers \ {w} : work'[v] = work[v],
           lease' = lease \/ lease \in {NoOwner, w},
           work'[w].pc \in Generating => lease' = w
    PROVE  Holding'
<1> SUFFICES ASSUME NEW v \in Workers, work'[v].pc \in Generating PROVE lease' = v
  BY DEF Holding
<1>1. CASE v = w
  BY <1>1
<1>2. CASE v # w
  <2>1. work[v].pc \in Generating
    BY <1>2
  <2>2. lease = v
    BY <2>1 DEF Holding
  <2>3. lease \notin {NoOwner, w}
    BY <1>2, <2>2, OwnerAssumption
  <2> QED  BY <2>2, <2>3
<1> QED  BY <1>1, <1>2

(* Holding is inductive when no lease fault and no removal happens. *)
LEMMA NextHolding ==
    ASSUME "lease" \notin FaultKinds, "removal" \notin FaultKinds, TypeOK, Holding, [Next]_vars
    PROVE  Holding'
<1>1. CASE UNCHANGED <<work, lease>>
  BY <1>1 DEF Holding
<1>2. ASSUME NEW w \in Workers, WorkerStep(w)
      PROVE  Holding'
  <2>0. work[w] \in WorkerStates /\ work \in [Workers -> WorkerStates]
    BY DEF TypeOK
  <2>1. work[w].pc \in Generating => lease = w
    BY DEF Holding
  <2>2. CASE RenewCapacity(w) \/ LoadTurn(w) \/ AcquireLease(w) \/ StopAtCheck(w)
    <3>1. \A v \in Workers \ {w} : work'[v] = work[v]
      BY <2>0, <2>2 DEF RenewCapacity, LoadTurn, AcquireLease, StopAtCheck, Goto, Raise
    <3>2. lease' = lease \/ lease = NoOwner
      BY <2>2 DEF RenewCapacity, LoadTurn, AcquireLease, StopAtCheck
    <3>3. work'[w].pc \in Generating => lease' = w
      BY <2>0, <2>2 DEF RenewCapacity, LoadTurn, AcquireLease, StopAtCheck, Goto, Raise,
         Generating, WorkerStates
    <3> QED  BY <3>1, <3>2, <3>3, HoldingKeeps
  <2>3. CASE \/ PassCheck(w) \/ PipelineToken(w) \/ PipelineEnds(w) \/ PipelineFails(w)
             \/ StoreFails(w) \/ FlushText(w)
    <3>1. \A v \in Workers \ {w} : work'[v] = work[v]
      BY <2>0, <2>3 DEF PassCheck, PipelineToken, PipelineEnds, PipelineFails, StoreFails,
         FlushText, Goto, Raise
    <3>2. UNCHANGED lease
      BY <2>3 DEF PassCheck, PipelineToken, PipelineEnds, PipelineFails, StoreFails, FlushText
    <3>3. work'[w].pc \in Generating => work[w].pc \in Generating
      BY <2>0, <2>3 DEF PassCheck, PipelineToken, PipelineEnds, PipelineFails, StoreFails,
         FlushText, Goto, Raise, Generating, CheckPoints, WorkerStates
    <3> QED  BY <2>1, <3>1, <3>2, <3>3, HoldingKeeps
  <2>4. CASE Replay(w)
    <3>1. Goto(w, "finish") \/ Goto(w, "load")
      BY <2>4, Zenon DEF Replay
    <3>2. UNCHANGED lease
      BY <2>4, Zenon DEF Replay
    <3>3. (\A v \in Workers \ {w} : work'[v] = work[v]) /\ work'[w].pc \notin Generating
      <4>1. CASE Goto(w, "finish")
        BY <2>0, <4>1 DEF Goto, Generating, WorkerStates
      <4>2. CASE Goto(w, "load")
        BY <2>0, <4>2 DEF Goto, Generating, WorkerStates
      <4> QED  BY <3>1, <4>1, <4>2
    <3> QED  BY <3>2, <3>3, HoldingKeeps
  <2>5. CASE EmitRetrieving(w)
    <3>1. Goto(w, "loop") /\ work[w].pc = "emitR" /\ UNCHANGED lease
      BY <2>5, Zenon DEF EmitRetrieving
    <3> QED  BY <2>0, <2>1, <3>1, HoldingKeeps DEF Goto, Generating
  <2>6. CASE EmitTerminal(w)
    <3>1. Goto(w, "close") /\ UNCHANGED lease
      BY <2>6, Zenon DEF EmitTerminal
    <3> QED  BY <2>0, <3>1, HoldingKeeps DEF Goto, Generating
  <2>7. CASE Close(w)
    <3>1. lease' = lease \/ lease = w
      BY <2>7 DEF Close
    <3>2. Goto(w, "taskRead") \/ Goto(w, "finish")
      BY <2>7 DEF Close
    <3>3. (\A v \in Workers \ {w} : work'[v] = work[v]) /\ work'[w].pc \notin Generating
      <4>1. CASE Goto(w, "taskRead")
        BY <2>0, <4>1 DEF Goto, Generating, WorkerStates
      <4>2. CASE Goto(w, "finish")
        BY <2>0, <4>2 DEF Goto, Generating, WorkerStates
      <4> QED  BY <3>2, <4>1, <4>2
    <3> QED  BY <3>1, <3>3, HoldingKeeps
  <2>8. CASE Mark(w) \/ TaskSave(w) \/ TaskRead(w) \/ Finish(w)
    <3>1. UNCHANGED lease
      BY <2>8 DEF Mark, TaskSave, TaskRead, Finish
    <3>2. /\ \A v \in Workers \ {w} : work'[v] = work[v]
          /\ work'[w].pc \notin Generating
      BY <2>0, <2>8 DEF Mark, TaskSave, TaskRead, Finish, Goto, Idle, Generating, WorkerStates
    <3> QED  BY <3>1, <3>2, HoldingKeeps
  <2>9. CASE PersistCompletedTurn(w)
    <3>1. UNCHANGED lease /\ work[w].pc \in Generating
      BY <2>9 DEF PersistCompletedTurn, Generating
    <3>2. \A v \in Workers \ {w} : work'[v] = work[v]
      BY <2>0, <2>9 DEF PersistCompletedTurn, Raise
    <3>3. lease = w
      BY <2>1, <3>1
    <3> QED  BY <3>1, <3>2, <3>3, HoldingKeeps
  <2>10. ASSUME NEW from \in Generating, NEW status, NEW to, Transition(w, from, status, to)
         PROVE  Holding'
    <3>1. UNCHANGED lease /\ work[w].pc \in Generating
      BY <2>10 DEF Transition
    <3>2. \A v \in Workers \ {w} : work'[v] = work[v]
      BY <2>0, <2>10 DEF Transition, Raise
    <3>3. lease = w
      BY <2>1, <3>1
    <3> QED  BY <3>1, <3>2, <3>3, HoldingKeeps
  <2>11. {"saveR", "saveA", "saveS"} \subseteq Generating
    BY DEF Generating
  <2> QED
    BY <1>2, <2>2, <2>3, <2>4, <2>5, <2>6, <2>7, <2>8, <2>9, <2>10, <2>11 DEF WorkerStep
<1>3. ASSUME NEW w \in Workers, NEW t \in Turns, Deliver(w, t)
      PROVE  Holding'
  <2>1. work' = [work EXCEPT ![w] = [Idle EXCEPT !.pc = "renew", !.turn = t]] /\ UNCHANGED lease
    BY <1>3 DEF Deliver
  <2> QED  BY <2>1, HoldingKeeps DEF TypeOK, Idle, Generating
<1>4. ASSUME NEW w \in Workers, Crash(w)
      PROVE  Holding'
  <2>1. work' = [work EXCEPT ![w] = Idle] /\ (lease' = lease \/ lease = w)
    BY <1>4 DEF Crash
  <2> QED  BY <2>1, HoldingKeeps DEF TypeOK, Idle, Generating
<1>5. CASE LeaseExpires
  <2>1. lease = Orphan /\ UNCHANGED work
    BY <1>5 DEF LeaseExpires
  <2> QED  BY <2>1, OwnerAssumption DEF Holding
<1>6. ASSUME NEW w \in Workers, LoseLease(w)
      PROVE  Holding'
  BY <1>6 DEF LoseLease, Fault
<1>7. CASE \E t \in Turns : \/ BeginChatTurn(t) \/ Web(t) \/ RequestCancel(t)
                           \/ ConvergeStaleTurn(t) \/ GrowStale(t) \/ ReservationExpires(t)
  BY <1>1, <1>7 DEF BeginChatTurn, Web, Reserve, Publish, Enqueue, UndoEvent, UndoReservation,
     FailActiveTurn, RequestCancel, ConvergeStaleTurn, GrowStale, ReservationExpires
<1>8. CASE (\E w \in Workers : Redeliver(w)) \/ Quiet \/ UNCHANGED vars
  BY <1>1, <1>8 DEF Redeliver, Quiet, vars
<1>9. ~RemoveMember
  BY DEF RemoveMember, Fault
<1> QED  BY <1>2, <1>3, <1>4, <1>5, <1>6, <1>7, <1>8, <1>9 DEF Next

(***************************************************************************)
(* RedisSessionLease makes iter_chat_turn the session's single writer,     *)
(* through crashes and every other fault, as long as the lease itself does *)
(* not fail and no removal of a member deletes it: acquire is SET NX,      *)
(* release compares the token.                                             *)
(***************************************************************************)
THEOREM SingleWriterTheorem ==
    ASSUME "lease" \notin FaultKinds, "removal" \notin FaultKinds
    PROVE  Spec => []SingleWriter
<1>1. Init => Holding
  BY DEF Init, Holding, Idle, Generating
<1>2. TypeOK /\ Holding /\ [Next]_vars => Holding'
  BY NextHolding
<1>3. Holding => SingleWriter
  BY DEF Holding, SingleWriter
<1> QED  BY <1>1, <1>2, <1>3, TypeTheorem, PTL DEF Spec
=============================================================================
