--------------------------- MODULE ChatGeneration ---------------------------
(***************************************************************************)
(* Asynchronous chat generation (protocol v3) of one chat session:         *)
(*                                                                         *)
(*   web      v3_views.accept_chat_turn_v3 after services.begin_chat_turn  *)
(*   queue    the Celery queue chat_generation (late ack, redelivery when  *)
(*            a worker is lost)                                            *)
(*   workers  tasks.generate_chat_turn_v3 around generation.iter_chat_turn *)
(*   rows     the ChatTurn table and the assistant Message rows            *)
(*   Redis    session lease, capacity reservations, cancel keys and the    *)
(*            event stream of each turn                                    *)
(*   client   retry, cancel, and the status poll that converges dead turns *)
(*                                                                         *)
(* Every database or Redis call is a step of its own.  A worker keeps the  *)
(* status it loaded, and later wrote, in memory: transition_chat_turn      *)
(* validates against that copy and saves over whatever the row holds.      *)
(*                                                                         *)
(* Faults are chosen by FaultKinds and share one budget:                   *)
(*   crash    a worker dies (killed, hard time limit, lost host)           *)
(*   store    an append to the event stream fails, or the checkpoint of the *)
(*            sequence number in the database after it                     *)
(*   lease    a lease call or a renewal fails, or the key disappears       *)
(*   capacity the capacity Redis does not answer                           *)
(*   database a save of the turn raises                                    *)
(*   broker   enqueueing raises, and the message is not in the queue       *)
(*   ambiguous  enqueueing raises although the broker took the message     *)
(*   slow     a task outlives the broker's visibility timeout, the lease   *)
(*            TTL and its reservation (the threads pool of the capacity    *)
(*            deployment does not enforce the task's time limit)           *)
(*   removal  not a fault but rare enough to count as one: the owner of    *)
(*            the session loses the membership of the workspace            *)
(* and without a budget                                                    *)
(*   delay    a message may wait in the queue longer than the lease TTL    *)
(***************************************************************************)
EXTENDS Naturals, Sequences, FiniteSets

CONSTANTS
    Turns,          \* client request ids used in the session, one turn each
    Workers,        \* task slots of the generation workers
    Limit,          \* CHAT_GENERATION_MAX_OUTSTANDING
    MaxAttempts,    \* bound on attempt_count: how often the client retries
    FaultKinds,     \* faults that may happen
    MaxFaults       \* their budget

AllFaults ==
    {"crash", "store", "lease", "capacity", "database", "broker", "ambiguous", "slow",
     "removal", "delay"}

ASSUME LimitAssumption == Limit \in Nat \ {0}
ASSUME AttemptsAssumption == MaxAttempts \in Nat \ {0}
ASSUME FaultAssumption == FaultKinds \subseteq AllFaults /\ MaxFaults \in Nat

NoOwner == "none"       \* the lease key is absent
Orphan == "orphan"      \* it holds the token of a dead worker
NoTurn == "none"

ASSUME OwnerAssumption ==
    /\ NoOwner \notin Workers /\ Orphan \notin Workers /\ NoTurn \notin Turns

VARIABLES
    row,        \* ChatTurn rows: [status, msg]; msg = 0: no assistant message
    attempt,    \* attempt_count
    stale,      \* updated_at is further back than LEASE_TTL_SECONDS
    answers,    \* assistant Message rows created for the turn
    web,        \* the request that accepts the turn
    queue,      \* messages for the turn in the queue
    work,       \* what each worker is doing
    lease,      \* the session lease
    reserved,   \* members of the capacity set
    cancel,     \* cancel keys
    stream,     \* event streams
    faults      \* faults so far

dbVars == <<row, attempt, stale, answers>>
vars == <<row, attempt, stale, answers, web, queue, work, lease, reserved, cancel, stream, faults>>

-----------------------------------------------------------------------------
(* The lifecycle table and its check against the in-memory status.  A row *)
(* that is revoked has status cancelled and error_code membership_revoked. *)

ActiveStatuses == {"accepted", "retrieving", "reasoning", "answering", "saving"}
Statuses == ActiveStatuses \cup {"none", "completed", "failed", "cancelled", "revoked"}

AllowedTransitions ==
    [s \in Statuses |->
        CASE s = "accepted"   -> {"retrieving", "failed", "cancelled"}
          [] s = "retrieving" -> {"reasoning", "answering", "saving", "failed", "cancelled"}
          [] s = "reasoning"  -> {"answering", "saving", "failed", "cancelled"}
          [] s = "answering"  -> {"saving", "failed", "cancelled"}
          [] s = "saving"     -> {"completed", "failed", "cancelled"}
          [] s = "failed"     -> {"accepted"}
          [] OTHER            -> {}]

MayTransition(from, to) == to = from \/ to \in AllowedTransitions[from]

(* turn.save(update_fields=...): unconditional, refreshes updated_at. *)
SaveRow(t, status, msg) ==
    /\ row' = [row EXCEPT ![t] = [status |-> status, msg |-> msg]]
    /\ stale' = [stale EXCEPT ![t] = FALSE]
    /\ UNCHANGED <<attempt, answers>>

Emit(t, events) == stream' = [stream EXCEPT ![t] = @ \o events]

TerminalEvents == {"done", "error"}
Events == {"meta", "queued", "retrieving", "delta"} \cup TerminalEvents

Fault(kind) ==
    /\ kind \in FaultKinds
    /\ faults < MaxFaults
    /\ faults' = faults + 1

NoFault == UNCHANGED faults

-----------------------------------------------------------------------------
(* Workers: program counter, turn, in-memory status and assistant message, *)
(* how the run ends, whether answer text waits in the batcher or was sent, *)
(* and whether the lease object knows that it lost the lease.              *)

Idle == [pc |-> "idle", turn |-> NoTurn, mem |-> "none", msg |-> 0,
         goal |-> "none", text |-> "none", lost |-> FALSE]

PreSave == {"renew", "replay", "load", "acquire", "checkR", "saveR"}
Generating == {"checkR", "saveR", "emitR", "loop", "saveA", "checkS", "saveS", "checkP", "persist"}
CheckPoints == {"checkR", "loop", "checkS", "checkP"}
PCs == PreSave \cup Generating
       \cup {"idle", "emitDone", "mark", "emitErr", "close", "taskRead", "taskSave", "finish"}

WorkerStates ==
    [pc : PCs, turn : Turns \cup {NoTurn}, mem : Statuses, msg : Nat,
     goal : {"none", "failed", "cancelled", "store", "retry"},
     text : {"none", "pending", "sent"}, lost : BOOLEAN]

Goto(w, pc) == work' = [work EXCEPT ![w].pc = pc]

(* An exception handler of iter_chat_turn: mark the turn, emit the error event, clean up. *)
Raise(w, goal) == work' = [work EXCEPT ![w].pc = "mark", ![w].goal = goal]

OnTurn(t) == {w \in Workers : work[w].turn = t}

Init ==
    /\ row = [t \in Turns |-> [status |-> "none", msg |-> 0]]
    /\ attempt = [t \in Turns |-> 0]
    /\ stale = [t \in Turns |-> FALSE]
    /\ answers = [t \in Turns |-> 0]
    /\ web = [t \in Turns |-> "idle"]
    /\ queue = [t \in Turns |-> 0]
    /\ work = [w \in Workers |-> Idle]
    /\ lease = NoOwner
    /\ reserved = {}
    /\ cancel = [t \in Turns |-> FALSE]
    /\ stream = [t \in Turns |-> <<>>]
    /\ faults = 0

-----------------------------------------------------------------------------
(* Web: begin_chat_turn and accept_chat_turn_v3. *)

(* begin_chat_turn, a new turn or the retry of a failed one.  Every error code *)
(* this path persists is in RETRYABLE_ERROR_CODES; a repeated request for an *)
(* active, completed or cancelled turn changes nothing. *)
BeginChatTurn(t) ==
    /\ web[t] = "idle"
    /\ row[t].status \in {"none", "failed"}
    /\ attempt[t] < MaxAttempts
    /\ row' = [row EXCEPT ![t] = [status |-> "accepted", msg |-> 0]]
    /\ attempt' = [attempt EXCEPT ![t] = @ + 1]
    /\ stale' = [stale EXCEPT ![t] = FALSE]
    /\ web' = [web EXCEPT ![t] = "reserve"]
    /\ UNCHANGED <<answers, queue, work, lease, reserved, cancel, stream, faults>>

(* capacity.reserve: refused when full, failed when Redis does not answer. *)
Reserve(t) ==
    /\ web[t] = "reserve"
    /\ \/ /\ t \in reserved \/ Cardinality(reserved) < Limit
          /\ reserved' = reserved \cup {t}
          /\ web' = [web EXCEPT ![t] = "publish"]
          /\ NoFault
       \/ /\ t \notin reserved /\ Cardinality(reserved) >= Limit
          /\ web' = [web EXCEPT ![t] = "fail"]
          /\ UNCHANGED reserved /\ NoFault
       \/ /\ Fault("capacity")
          /\ web' = [web EXCEPT ![t] = "fail"]
          /\ UNCHANGED reserved
    /\ UNCHANGED <<dbVars, queue, work, lease, cancel, stream>>

(* The meta and queued events; either append, or its checkpoint, may fail. *)
Publish(t) ==
    /\ web[t] = "publish"
    /\ \/ /\ Emit(t, <<"meta", "queued">>)
          /\ web' = [web EXCEPT ![t] = "enqueue"]
          /\ NoFault
       \/ /\ Fault("store")
          /\ \E done \in {<<>>, <<"meta">>, <<"meta", "queued">>} : Emit(t, done)
          /\ web' = [web EXCEPT ![t] = "release"]
    /\ UNCHANGED <<dbVars, queue, work, lease, reserved, cancel>>

(* enqueue_after_commit. *)
Enqueue(t) ==
    /\ web[t] = "enqueue"
    /\ \/ /\ queue' = [queue EXCEPT ![t] = @ + 1]
          /\ web' = [web EXCEPT ![t] = "idle"]
          /\ NoFault
       \/ /\ Fault("broker")
          /\ web' = [web EXCEPT ![t] = "undo"]
          /\ UNCHANGED queue
       \/ /\ Fault("ambiguous")
          /\ queue' = [queue EXCEPT ![t] = @ + 1]
          /\ web' = [web EXCEPT ![t] = "undo"]
    /\ UNCHANGED <<dbVars, work, lease, reserved, cancel, stream>>

(* cleanup_failure(persist_event=True): the error event; a failure is suppressed. *)
UndoEvent(t) ==
    /\ web[t] = "undo"
    /\ web' = [web EXCEPT ![t] = "release"]
    /\ \/ Emit(t, <<"error">>) /\ NoFault
       \/ Fault("store") /\ (UNCHANGED stream \/ Emit(t, <<"error">>))
    /\ UNCHANGED <<dbVars, queue, work, lease, reserved, cancel>>

(* cleanup_failure: the reservation, also when Redis fails to drop it. *)
UndoReservation(t) ==
    /\ web[t] = "release"
    /\ web' = [web EXCEPT ![t] = "fail"]
    /\ \/ reserved' = reserved \ {t} /\ NoFault
       \/ Fault("capacity") /\ UNCHANGED reserved
    /\ UNCHANGED <<dbVars, queue, work, lease, cancel, stream>>

(* _fail_active_turn on the request's own copy, which still says accepted. *)
FailActiveTurn(t) ==
    /\ web[t] = "fail"
    /\ \/ SaveRow(t, "failed", 0) /\ NoFault
       \/ Fault("database") /\ UNCHANGED dbVars
    /\ web' = [web EXCEPT ![t] = "idle"]
    /\ UNCHANGED <<queue, work, lease, reserved, cancel, stream>>

Web(t) ==
    \/ Reserve(t) \/ Publish(t) \/ Enqueue(t)
    \/ UndoEvent(t) \/ UndoReservation(t) \/ FailActiveTurn(t)

-----------------------------------------------------------------------------
(* Workers: generate_chat_turn_v3. *)

(* A free slot takes a message; it stays unacknowledged until the task ends. *)
Deliver(w, t) ==
    /\ work[w].pc = "idle" /\ queue[t] > 0
    /\ queue' = [queue EXCEPT ![t] = @ - 1]
    /\ work' = [work EXCEPT ![w] = [Idle EXCEPT !.pc = "renew", !.turn = t]]
    /\ UNCHANGED <<dbVars, web, lease, reserved, cancel, stream, faults>>

(* capacity.renew: a lost reservation fails the turn, a dead Redis also retries the task. *)
RenewCapacity(w) ==
    /\ work[w].pc = "renew"
    /\ \/ /\ work[w].turn \in reserved
          /\ Goto(w, "replay")
          /\ NoFault
       \/ /\ work[w].turn \notin reserved
          /\ Goto(w, "taskRead")
          /\ NoFault
       \/ /\ Fault("capacity")
          /\ work' = [work EXCEPT ![w].pc = "taskRead", ![w].goal = "retry"]
    /\ UNCHANGED <<dbVars, web, queue, lease, reserved, cancel, stream>>

(* The events a worker appends next; text in the batcher goes before a terminal event. *)
Due(w) ==
    LET t == work[w].turn
        text == IF work[w].text = "pending" THEN <<"delta">> ELSE <<>>
    IN  CASE work[w].pc = "replay" /\ \A i \in DOMAIN stream[t] : stream[t][i] # "queued" -> <<"queued">>
          [] work[w].pc = "emitR"    -> <<"retrieving">>
          [] work[w].pc = "loop"     -> text
          [] work[w].pc = "emitDone" -> text \o <<"done">>
          [] work[w].pc = "emitErr"  -> text \o <<"error">>
          [] OTHER                   -> <<>>

(* Mutant: the replayed stream is not looked at for a terminal event. *)
ReplayIgnoresTerminal(w) ==
    /\ work[w].pc = "replay"
    /\ Goto(w, "load")
    /\ UNCHANGED <<dbVars, web, queue, lease, reserved, cancel, stream, faults>>

(* stream.replay: a stream that ends in a terminal event is not generated again. *)
Replay(w) ==
    LET t == work[w].turn
        terminal == stream[t] # <<>> /\ stream[t][Len(stream[t])] \in TerminalEvents
    IN  /\ work[w].pc = "replay"
        /\ \/ terminal /\ Goto(w, "finish") /\ UNCHANGED stream
           \/ ~terminal /\ Goto(w, "load") /\ Emit(t, Due(w))
        /\ UNCHANGED <<dbVars, web, queue, lease, reserved, cancel, faults>>

(* Mutant: the task takes the turn for a new one instead of reading the row. *)
LoadTurnAssumesFresh(w) ==
    /\ work[w].pc = "load"
    /\ work' = [work EXCEPT ![w].mem = "accepted", ![w].msg = 0, ![w].pc = "acquire"]
    /\ UNCHANGED <<dbVars, web, queue, lease, reserved, cancel, stream, faults>>

(* _load_turn: only a completed or cancelled row ends the run here. *)
LoadTurn(w) ==
    LET r == row[work[w].turn]
    IN  /\ work[w].pc = "load"
        /\ work' = [work EXCEPT ![w].mem = r.status, ![w].msg = r.msg,
                        ![w].pc = IF r.status \in {"completed", "cancelled", "revoked"} THEN "finish" ELSE "acquire"]
        /\ UNCHANGED <<dbVars, web, queue, lease, reserved, cancel, stream, faults>>

(* Mutant: SET without NX. *)
AcquireAnyLease(w) ==
    /\ work[w].pc = "acquire"
    /\ lease' = w /\ Goto(w, "checkR") /\ NoFault
    /\ UNCHANGED <<dbVars, web, queue, reserved, cancel, stream>>

(* lease.acquire: SET NX.  SessionBusyError leaves iter_chat_turn through its *)
(* finally clause and the task without touching the turn. *)
AcquireLease(w) ==
    /\ work[w].pc = "acquire"
    /\ \/ lease = NoOwner /\ lease' = w /\ Goto(w, "checkR") /\ NoFault
       \/ lease # NoOwner /\ Goto(w, "close") /\ UNCHANGED lease /\ NoFault
       \/ Fault("lease") /\ Raise(w, "failed") /\ UNCHANGED lease
    /\ UNCHANGED <<dbVars, web, queue, reserved, cancel, stream>>

(* probe.raise_if_requested and lease.ensure_owned. *)
Stopped(w) == cancel[work[w].turn] \/ work[w].lost \/ lease # w

StopAtCheck(w) ==
    /\ work[w].pc \in CheckPoints
    /\ Stopped(w)
    /\ Raise(w, IF cancel[work[w].turn] THEN "cancelled" ELSE "failed")
    /\ UNCHANGED <<dbVars, web, queue, lease, reserved, cancel, stream, faults>>

PassCheck(w) ==
    /\ work[w].pc \in CheckPoints
    /\ ~Stopped(w)
    /\ \/ work[w].pc = "checkR" /\ Goto(w, "saveR")
       \/ work[w].pc = "checkS" /\ Goto(w, "saveS")
       \/ work[w].pc = "checkP" /\ Goto(w, "persist")
    /\ UNCHANGED <<dbVars, web, queue, lease, reserved, cancel, stream, faults>>

(* transition_chat_turn on the worker's copy.  A transition the table forbids *)
(* raises; so does a failing save, which leaves the new status in the copy. *)
Transition(w, from, status, to) ==
    /\ work[w].pc = from
    /\ \/ /\ MayTransition(work[w].mem, status)
          /\ SaveRow(work[w].turn, status, work[w].msg)
          /\ work' = [work EXCEPT ![w].pc = to, ![w].mem = status]
          /\ NoFault
       \/ /\ ~MayTransition(work[w].mem, status)
          /\ Raise(w, "failed")
          /\ UNCHANGED dbVars /\ NoFault
       \/ /\ MayTransition(work[w].mem, status)
          /\ Fault("database")
          /\ work' = [work EXCEPT ![w].pc = "mark", ![w].goal = "failed", ![w].mem = status]
          /\ UNCHANGED dbVars
    /\ UNCHANGED <<web, queue, lease, reserved, cancel, stream>>

EmitRetrieving(w) ==
    /\ work[w].pc = "emitR"
    /\ Emit(work[w].turn, Due(w))
    /\ Goto(w, "loop")
    /\ UNCHANGED <<dbVars, web, queue, lease, reserved, cancel, faults>>

(* One answer token of the pipeline after the checks, the first one moves the *)
(* row to answering; the text goes to the batcher. *)
PipelineToken(w) ==
    /\ work[w].pc = "loop" /\ ~Stopped(w) /\ work[w].text = "none"
    /\ work' = [work EXCEPT ![w].text = "pending",
                    ![w].pc = IF work[w].mem = "answering" THEN "loop" ELSE "saveA"]
    /\ UNCHANGED <<dbVars, web, queue, lease, reserved, cancel, stream, faults>>

(* The batcher is full or 50 ms old: its text is appended. *)
FlushText(w) ==
    /\ work[w].pc = "loop" /\ work[w].text = "pending"
    /\ Emit(work[w].turn, Due(w))
    /\ work' = [work EXCEPT ![w].text = "sent"]
    /\ UNCHANGED <<dbVars, web, queue, lease, reserved, cancel, faults>>

PipelineEnds(w) ==
    /\ work[w].pc = "loop"
    /\ Goto(w, "checkS")
    /\ UNCHANGED <<dbVars, web, queue, lease, reserved, cancel, stream, faults>>

(* The pipeline cannot be built, or provider error, deadline, soft time limit or *)
(* any other exception of the stream; the saving transaction rolls back on one. *)
PipelineFails(w) ==
    /\ work[w].pc \in {"saveR", "loop", "persist"}
    /\ Raise(w, "failed")
    /\ UNCHANGED <<dbVars, web, queue, lease, reserved, cancel, stream, faults>>

(* Mutant: an invalid transition of the locked row is swallowed. *)
PersistSwallows(w) ==
    LET t == work[w].turn
    IN  /\ work[w].pc = "persist"
        /\ \/ /\ row[t].status = "saving"
              /\ answers' = [answers EXCEPT ![t] = @ + 1]
              /\ row' = [row EXCEPT ![t] = [status |-> "completed", msg |-> answers[t] + 1]]
              /\ UNCHANGED <<stale, attempt>>
           \/ /\ row[t].status # "saving"
              /\ UNCHANGED dbVars
        /\ Goto(w, "emitDone")
        /\ UNCHANGED <<web, queue, lease, reserved, cancel, stream, faults>>

(* _persist_completed_turn: one transaction on the locked row.  An answer that *)
(* is already there is returned; a row that is not saving makes it roll back. *)
PersistCompletedTurn(w) ==
    LET t == work[w].turn
    IN  /\ work[w].pc = "persist"
        /\ \/ /\ row[t].status = "completed" /\ row[t].msg # 0
              /\ work' = [work EXCEPT ![w].pc = "emitDone", ![w].mem = "completed", ![w].msg = row[t].msg]
              /\ UNCHANGED dbVars
           \/ /\ MayTransition(row[t].status, "completed") /\ row[t].status # "completed"
              /\ answers' = [answers EXCEPT ![t] = @ + 1]
              /\ row' = [row EXCEPT ![t] = [status |-> "completed", msg |-> answers[t] + 1]]
              /\ stale' = [stale EXCEPT ![t] = FALSE]
              /\ work' = [work EXCEPT ![w].pc = "emitDone", ![w].mem = "completed", ![w].msg = answers[t] + 1]
              /\ UNCHANGED attempt
           \/ /\ ~MayTransition(row[t].status, "completed")
              /\ Raise(w, "failed")
              /\ UNCHANGED dbVars
        /\ UNCHANGED <<web, queue, lease, reserved, cancel, stream, faults>>

(* _mark_failed and _mark_cancelled: a forbidden transition and a failing save *)
(* are only logged. *)
Mark(w) ==
    /\ work[w].pc = "mark"
    /\ \/ /\ MayTransition(work[w].mem, work[w].goal)
          /\ SaveRow(work[w].turn, work[w].goal, work[w].msg)
          /\ NoFault
       \/ ~MayTransition(work[w].mem, work[w].goal) /\ UNCHANGED dbVars /\ NoFault
       \/ Fault("database") /\ UNCHANGED dbVars
    /\ Goto(w, "emitErr")
    /\ UNCHANGED <<web, queue, lease, reserved, cancel, stream>>

EmitTerminal(w) ==
    /\ work[w].pc \in {"emitDone", "emitErr"}
    /\ Emit(work[w].turn, Due(w))
    /\ Goto(w, "close")
    /\ UNCHANGED <<dbVars, web, queue, lease, reserved, cancel, faults>>

(* EventStoreUnavailableError, raised before an append, or after it when the *)
(* checkpoint fails; the generator, if there is one, is closed first. *)
StoreFails(w) ==
    /\ work[w].pc \in {"replay", "emitR", "loop", "emitDone", "emitErr"}
    /\ Fault("store")
    /\ \E n \in 0..Len(Due(w)) : Emit(work[w].turn, SubSeq(Due(w), 1, n))
    /\ work' = [work EXCEPT ![w].goal = "store",
                    ![w].pc = IF work[w].pc = "replay" THEN "taskRead" ELSE "close"]
    /\ UNCHANGED <<dbVars, web, queue, lease, reserved, cancel>>

(* finally of iter_chat_turn: compare-and-delete the lease, clear the cancel key. *)
Close(w) ==
    /\ work[w].pc = "close"
    /\ lease' = IF lease = w THEN NoOwner ELSE lease
    /\ cancel' = [cancel EXCEPT ![work[w].turn] = FALSE]
    /\ Goto(w, IF work[w].goal = "store" THEN "taskRead" ELSE "finish")
    /\ UNCHANGED <<dbVars, web, queue, reserved, stream, faults>>

(* Mutant: the guard on the status is dropped. *)
TaskReadUnguarded(w) ==
    LET r == row[work[w].turn]
    IN  /\ work[w].pc = "taskRead"
        /\ work' = [work EXCEPT ![w].mem = r.status, ![w].msg = r.msg, ![w].pc = "taskSave"]
        /\ UNCHANGED <<dbVars, web, queue, lease, reserved, cancel, stream, faults>>

(* _mark_task_failed reads the row, and gives up unless it is active ... *)
TaskRead(w) ==
    LET r == row[work[w].turn]
    IN  /\ work[w].pc = "taskRead"
        /\ work' = [work EXCEPT ![w].mem = r.status, ![w].msg = r.msg,
                        ![w].pc = IF r.status \in ActiveStatuses THEN "taskSave" ELSE "finish"]
        /\ UNCHANGED <<dbVars, web, queue, lease, reserved, cancel, stream, faults>>

(* ... and then saves it as failed. *)
TaskSave(w) ==
    /\ work[w].pc = "taskSave"
    /\ \/ SaveRow(work[w].turn, "failed", work[w].msg) /\ NoFault
       \/ Fault("database") /\ UNCHANGED dbVars
    /\ Goto(w, "finish")
    /\ UNCHANGED <<web, queue, lease, reserved, cancel, stream>>

(* finally of the task, then the acknowledgement; autoretry sends the message again. *)
Finish(w) ==
    LET t == work[w].turn
    IN  /\ work[w].pc = "finish"
        /\ \/ reserved' = reserved \ {t} /\ NoFault
           \/ Fault("capacity") /\ UNCHANGED reserved
        /\ cancel' = [cancel EXCEPT ![t] = FALSE]
        /\ queue' = IF work[w].goal = "retry" THEN [queue EXCEPT ![t] = @ + 1] ELSE queue
        /\ work' = [work EXCEPT ![w] = Idle]
        /\ UNCHANGED <<dbVars, web, lease, stream>>

WorkerStep(w) ==
    \/ RenewCapacity(w) \/ Replay(w) \/ LoadTurn(w) \/ AcquireLease(w)
    \/ StopAtCheck(w) \/ PassCheck(w)
    \/ Transition(w, "saveR", "retrieving", "emitR")
    \/ EmitRetrieving(w)
    \/ PipelineToken(w) \/ FlushText(w) \/ PipelineEnds(w) \/ PipelineFails(w)
    \/ Transition(w, "saveA", "answering", "loop")
    \/ Transition(w, "saveS", "saving", "checkP")
    \/ PersistCompletedTurn(w) \/ Mark(w) \/ EmitTerminal(w) \/ StoreFails(w)
    \/ Close(w) \/ TaskRead(w) \/ TaskSave(w) \/ Finish(w)

-----------------------------------------------------------------------------
(* Client, time and faults. *)

(* cancel_chat_turn_v3. *)
RequestCancel(t) ==
    /\ row[t].status \in ActiveStatuses
    /\ ~cancel[t]
    /\ cancel' = [cancel EXCEPT ![t] = TRUE]
    /\ UNCHANGED <<dbVars, web, queue, work, lease, reserved, stream, faults>>

(* Mutant: the status poll of an accepted turn refreshes updated_at instead of failing it. *)
ConvergeTouchesAccepted(t) ==
    /\ row[t].status \in ActiveStatuses
    /\ stale[t]
    /\ lease = NoOwner
    /\ row' = [row EXCEPT ![t].status = IF @ = "accepted" THEN @ ELSE "failed"]
    /\ stale' = [stale EXCEPT ![t] = FALSE]
    /\ UNCHANGED <<attempt, answers, web, queue, work, lease, reserved, cancel, stream, faults>>

(* converge_stale_turn, run by a status or replay request of the owner. *)
ConvergeStaleTurn(t) ==
    /\ row[t].status \in ActiveStatuses
    /\ stale[t]
    /\ lease = NoOwner
    /\ row' = [row EXCEPT ![t].status = "failed"]
    /\ stale' = [stale EXCEPT ![t] = FALSE]
    /\ UNCHANGED <<attempt, answers, web, queue, work, lease, reserved, cancel, stream, faults>>

(* LEASE_TTL_SECONDS pass without a save.  A task within its limit of 100 s *)
(* needs for that a turn nobody runs, or one that waited in the queue. *)
GrowStale(t) ==
    /\ row[t].status \in ActiveStatuses /\ ~stale[t] /\ web[t] = "idle"
    /\ \/ queue[t] = 0 /\ OnTurn(t) = {}
       \/ "slow" \in FaultKinds
       \/ "delay" \in FaultKinds /\ \A w \in OnTurn(t) : work[w].pc \in PreSave
    /\ stale' = [stale EXCEPT ![t] = TRUE]
    /\ UNCHANGED <<row, attempt, answers, web, queue, work, lease, reserved, cancel, stream, faults>>

(* The reservation TTL passes: it is renewed when a task starts and outlives the task. *)
ReservationExpires(t) ==
    /\ t \in reserved /\ web[t] = "idle"
    /\ OnTurn(t) = {} \/ "slow" \in FaultKinds
    /\ queue[t] = 0 \/ "delay" \in FaultKinds
    /\ reserved' = reserved \ {t}
    /\ UNCHANGED <<dbVars, web, queue, work, lease, cancel, stream, faults>>

(* The lease of a dead worker runs out; a live one is renewed. *)
LeaseExpires ==
    /\ lease = Orphan
    /\ lease' = NoOwner
    /\ UNCHANGED <<dbVars, web, queue, work, reserved, cancel, stream, faults>>

(* A renewal fails, or Redis loses the key of a live worker. *)
LoseLease(w) ==
    /\ lease = w
    /\ Fault("lease")
    /\ \/ lease' = NoOwner /\ UNCHANGED work
       \/ work' = [work EXCEPT ![w].lost = TRUE] /\ UNCHANGED lease
    /\ UNCHANGED <<dbVars, web, queue, reserved, cancel, stream>>

(* A worker dies anywhere in the task; the broker delivers the message again. *)
Crash(w) ==
    /\ work[w].pc # "idle"
    /\ Fault("crash")
    /\ queue' = [queue EXCEPT ![work[w].turn] = @ + 1]
    /\ lease' = IF lease = w THEN Orphan ELSE lease
    /\ work' = [work EXCEPT ![w] = Idle]
    /\ UNCHANGED <<dbVars, web, reserved, cancel, stream>>

(* The visibility timeout passes while the worker still runs the task. *)
Redeliver(w) ==
    /\ work[w].pc # "idle"
    /\ Fault("slow")
    /\ queue' = [queue EXCEPT ![work[w].turn] = @ + 1]
    /\ UNCHANGED <<dbVars, web, work, lease, reserved, cancel, stream>>

(* Mutant: the filter on active turns is dropped. *)
RemoveMemberFromAll ==
    /\ Fault("removal")
    /\ lease' = NoOwner
    /\ row' = [t \in Turns |->
                 IF row[t].status # "none" THEN [row[t] EXCEPT !.status = "revoked"] ELSE row[t]]
    /\ stale' = [t \in Turns |-> FALSE]
    /\ UNCHANGED <<attempt, answers, web, queue, work, reserved, cancel, stream>>

(***************************************************************************)
(* _fence_member_access: the workspace removes or suspends the member.     *)
(* Under the locks of the rows the session lease is deleted in Redis and   *)
(* the active turns are cancelled; the workers are not told.  The deleted  *)
(* key does not come back when the transaction rolls back; a Redis that    *)
(* does not answer refuses the call.                                       *)
(***************************************************************************)
RemoveMember ==
    /\ Fault("removal")
    /\ lease' = NoOwner
    /\ \/ /\ row' = [t \in Turns |->
                        IF row[t].status \in ActiveStatuses THEN [row[t] EXCEPT !.status = "revoked"]
                        ELSE row[t]]
          /\ stale' = [t \in Turns |-> stale[t] /\ row[t].status \notin ActiveStatuses]
       \/ UNCHANGED <<row, stale>>
    /\ UNCHANGED <<attempt, answers, web, queue, work, reserved, cancel, stream>>

(* Every turn is over and nothing is left to do. *)
Quiet ==
    /\ \A t \in Turns : /\ row[t].status \notin ActiveStatuses
                        /\ web[t] = "idle" /\ queue[t] = 0 /\ t \notin reserved
    /\ \A w \in Workers : work[w].pc = "idle"
    /\ UNCHANGED vars

Next ==
    \/ \E t \in Turns :
        \/ BeginChatTurn(t) \/ Web(t)
        \/ RequestCancel(t) \/ ConvergeStaleTurn(t)
        \/ GrowStale(t) \/ ReservationExpires(t)
    \/ \E w \in Workers :
        \/ \E t \in Turns : Deliver(w, t)
        \/ WorkerStep(w) \/ LoseLease(w) \/ Crash(w) \/ Redeliver(w)
    \/ LeaseExpires \/ RemoveMember
    \/ Quiet

Spec == Init /\ [][Next]_vars

(***************************************************************************)
(* Fairness of the parts the deployment keeps running: web requests end,   *)
(* Celery hands messages to free slots, task code runs, time passes and    *)
(* Redis expires keys.  A status poll is a client's choice, so it is only  *)
(* fair in PolledSpec.                                                     *)
(***************************************************************************)
ServerFairness ==
    /\ \A t \in Turns : WF_vars(Web(t)) /\ WF_vars(GrowStale(t)) /\ WF_vars(ReservationExpires(t))
    /\ \A w \in Workers : WF_vars(WorkerStep(w) \/ \E t \in Turns : Deliver(w, t))
    /\ WF_vars(LeaseExpires)

ServerSpec == Spec /\ ServerFairness

PolledSpec == ServerSpec /\ \A t \in Turns : SF_vars(ConvergeStaleTurn(t))

-----------------------------------------------------------------------------
(* Every variable has its type. *)
TypeOK ==
    /\ row \in [Turns -> [status : Statuses, msg : Nat]]
    /\ attempt \in [Turns -> 0..MaxAttempts]
    /\ stale \in [Turns -> BOOLEAN]
    /\ answers \in [Turns -> Nat]
    /\ web \in [Turns -> {"idle", "reserve", "publish", "enqueue", "undo", "release", "fail"}]
    /\ queue \in [Turns -> Nat]
    /\ work \in [Workers -> WorkerStates]
    /\ lease \in Workers \cup {NoOwner, Orphan}
    /\ reserved \subseteq Turns
    /\ cancel \in [Turns -> BOOLEAN]
    /\ stream \in [Turns -> Seq(Events)]
    /\ faults \in 0..MaxFaults

(***************************************************************************)
(* A row refers to an assistant message exactly when it is completed, and  *)
(* that message was stored.  Several writers save status and message from  *)
(* copies of different age; none of them leaves a completed turn without   *)
(* its answer, or a failed or cancelled one with an answer.                *)
(***************************************************************************)
AnswerIffCompleted ==
    \A t \in Turns :
        /\ row[t].msg # 0 <=> row[t].status = "completed"
        /\ row[t].msg <= answers[t]

(***************************************************************************)
(* A done event is never in a stream before the answer is in the database, *)
(* whatever fails between the saving transaction and the append.           *)
(***************************************************************************)
DoneMeansAnswer ==
    \A t \in Turns :
        (\E i \in DOMAIN stream[t] : stream[t][i] = "done") => answers[t] > 0

(***************************************************************************)
(* Session single writer: two workers are never both between acquiring the *)
(* session lease and the end of the saving transaction, as long as no key  *)
(* is lost and no member is removed, which deletes it under the worker.    *)
(***************************************************************************)
SingleWriter ==
    \A v, w \in Workers :
        work[v].pc \in Generating /\ work[w].pc \in Generating => v = w

(***************************************************************************)
(* After the terminal event of an attempt nothing is appended to the       *)
(* stream until the client retries: clients stop reading at that event.    *)
(***************************************************************************)
NothingAfterTerminal ==
    \A t \in Turns : \A i \in 1..(Len(stream[t]) - 1) :
        stream[t][i] \in TerminalEvents => stream[t][i + 1] = "meta"

(***************************************************************************)
(* Design section 5: a task does not overwrite a concurrent completion or  *)
(* cancellation.  A cancellation is the one the client asked for; the one  *)
(* that a lost membership writes (a revoked row) is overwritten.           *)
(***************************************************************************)
FinishedIsFinal ==
    [][\A t \in Turns :
        row[t].status \in {"completed", "cancelled"} => row'[t] = row[t]]_vars

(***************************************************************************)
(* Worker loss and retry do not store a second assistant message.          *)
(***************************************************************************)
OneAnswer == \A t \in Turns : answers[t] <= 1

(***************************************************************************)
(* Every accepted turn ends: completed, cancelled or failed.               *)
(***************************************************************************)
TurnsEnd ==
    \A t \in Turns : row[t].status \in ActiveStatuses ~> row[t].status \notin ActiveStatuses

(* The abstract turn: the active statuses folded into one. *)
PhaseOf(status) ==
    IF status \in ActiveStatuses THEN "active" ELSE IF status = "none" THEN "absent" ELSE status

Contract == INSTANCE TurnContract WITH phase <- [t \in Turns |-> PhaseOf(row[t].status)]

(***************************************************************************)
(* Queue, workers, lease, streams and crashes together implement the turn  *)
(* contract.                                                               *)
(***************************************************************************)
ImplementsContract == Contract!Spec
=============================================================================
