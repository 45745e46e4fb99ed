------------------------- MODULE ChatAttemptProofs -------------------------
(***************************************************************************)
(* TLAPS proofs about ChatGeneration under three restrictions of what may  *)
(* happen, each of which leaves one task at a time to write a turn.        *)
(*                                                                         *)
(* OneAttempt: the client makes one attempt, the broker does not report a  *)
(* message it took as refused, and no task outlives the visibility         *)
(* timeout.  Crashes and redelivery, retries of the task, failing stores,  *)
(* saves, leases and capacity calls, expired keys, late messages and the   *)
(* removal of the member are all allowed.  Then the work done before a     *)
(* crash is never repeated: one answer, a row that is completed or that    *)
(* the client cancelled is final, and a stream ends once.                  *)
(*                                                                         *)
(* NothingRepeats: any number of attempts, failing saves, lease calls,     *)
(* refused messages and removals, but no task is lost, repeated or late.   *)
(* Then the system implements TurnContract, and each turn has at most one  *)
(* answer.                                                                 *)
(*                                                                         *)
(* Punctual: OneAttempt, and no message waits in the queue longer than a   *)
(* lease lives.  Then crashes and redelivery, retries of the task and      *)
(* every failing call of the first setting are steps of TurnContract.      *)
(*                                                                         *)
(* In all three a turn that the loss of the membership cancelled (revoked) *)
(* is not final: the task that runs it saves over it, and the contract     *)
(* says so (Overrule).                                                     *)
(***************************************************************************)
EXTENDS ChatGenerationProofs

(* The setting. *)
OneAttempt == MaxAttempts = 1 /\ "slow" \notin FaultKinds /\ "ambiguous" \notin FaultKinds

(* A worker runs a task of the turn; nobody does, and none is queued. *)
Task(w, t) == work[w].pc # "idle" /\ work[w].turn = t
NoTask(t) == queue[t] = 0 /\ \A w \in Workers : ~Task(w, t)

(* The turn was not handed to the queue yet. *)
Unsent(t) == attempt[t] = 0 \/ web[t] # "idle"

(***************************************************************************)
(* There is one task for a turn: in the queue or with one worker.          *)
(***************************************************************************)
OneTaskOf(t) ==
    /\ queue[t] \in {0, 1}
    /\ queue[t] = 1 => \A w \in Workers : ~Task(w, t)
    /\ \A v, w \in Workers : Task(v, t) /\ Task(w, t) => v = w
    /\ Unsent(t) => NoTask(t)
    /\ attempt[t] = 0 => web[t] = "idle"

OneTask == \A t \in Turns : OneTaskOf(t)


-----------------------------------------------------------------------------
(* The program counter moves; the rest of the record stays. *)
LEMMA MoveFrame ==
    ASSUME work \in [Workers -> WorkerStates], NEW w \in Workers, NEW pc, Goto(w, pc)
    PROVE  /\ \A v \in Workers \ {w} : work'[v] = work[v]
           /\ work'[w].pc = pc /\ work'[w].turn = work[w].turn /\ work'[w].mem = work[w].mem
           /\ work'[w].goal = work[w].goal
BY DEF Goto, WorkerStates

(* A step of a worker concerns its own record and its own turn, and only   *)
(* its end puts a message back into the queue. *)
LEMMA StepFrame ==
    ASSUME IInv, NEW w \in Workers, WorkerStep(w)
    PROVE  /\ work[w].pc # "idle" /\ work[w].turn \in Turns
           /\ UNCHANGED <<web, attempt>>
           /\ \A v \in Workers \ {w} : work'[v] = work[v]
           /\ \/ work'[w].pc # "idle" /\ work'[w].turn = work[w].turn /\ queue' = queue
              \/ /\ work'[w].pc = "idle"
                 /\ queue' = queue \/ queue' = [queue EXCEPT ![work[w].turn] = @ + 1]
<1>0. work[w] \in WorkerStates /\ work \in [Workers -> WorkerStates]
  BY DEF IInv, TypeOK
<1>1. work[w].pc # "idle" => work[w].turn \in Turns
  BY DEF IInv, WorkerFacts
<1> DEFINE Goes == /\ \A v \in Workers \ {w} : work'[v] = work[v]
                   /\ work'[w].pc # "idle" /\ work'[w].turn = work[w].turn
<1>2. CASE RenewCapacity(w) \/ LoadTurn(w) \/ AcquireLease(w) \/ StopAtCheck(w) \/ PassCheck(w)
  <2>1. work[w].pc # "idle" /\ UNCHANGED <<web, attempt, queue>>
    BY <1>2 DEF RenewCapacity, LoadTurn, AcquireLease, StopAtCheck, PassCheck, CheckPoints, dbVars
  <2>2. Goes
    BY <1>0, <1>2 DEF RenewCapacity, LoadTurn, AcquireLease, StopAtCheck, PassCheck, Goto, Raise,
       WorkerStates
  <2> QED  BY <1>1, <2>1, <2>2
<1>3. CASE PipelineToken(w) \/ PipelineEnds(w) \/ PipelineFails(w) \/ FlushText(w) \/ StoreFails(w)
  <2>1. work[w].pc # "idle" /\ UNCHANGED <<web, attempt, queue>>
    BY <1>3 DEF PipelineToken, PipelineEnds, PipelineFails, FlushText, StoreFails, dbVars
  <2>2. Goes
    BY <1>0, <1>3 DEF PipelineToken, PipelineEnds, PipelineFails, FlushText, StoreFails, Goto, Raise,
       WorkerStates
  <2> QED  BY <1>1, <2>1, <2>2
<1>4. CASE Replay(w)
  <2>1. work[w].pc = "replay" /\ UNCHANGED <<web, attempt, queue>> /\ (Goto(w, "finish") \/ Goto(w, "load"))
    BY <1>4, Zenon DEF Replay, dbVars
  <2>2. Goes
    <3>1. CASE Goto(w, "finish")
      BY <1>0, <3>1, MoveFrame
    <3>2. CASE Goto(w, "load")
      BY <1>0, <3>2, MoveFrame
    <3> QED  BY <2>1, <3>1, <3>2
  <2> QED  BY <1>1, <2>1, <2>2
<1>5. CASE EmitRetrieving(w) \/ EmitTerminal(w)
  <2>1. work[w].pc # "idle" /\ UNCHANGED <<web, attempt, queue>> /\ (Goto(w, "loop") \/ Goto(w, "close"))
    BY <1>5, Zenon DEF EmitRetrieving, EmitTerminal, dbVars
  <2>2. Goes
    <3>1. CASE Goto(w, "loop")
      BY <1>0, <3>1, MoveFrame
    <3>2. CASE Goto(w, "close")
      BY <1>0, <3>2, MoveFrame
    <3> QED  BY <2>1, <3>1, <3>2
  <2> QED  BY <1>1, <2>1, <2>2
<1>6. CASE Close(w) \/ TaskRead(w) \/ TaskSave(w) \/ Mark(w)
  <2>1. work[w].pc # "idle" /\ UNCHANGED <<web, attempt, queue>>
    BY <1>6 DEF Close, TaskRead, TaskSave, Mark, SaveRow, dbVars
  <2>2. Goes
    BY <1>0, <1>6 DEF Close, TaskRead, TaskSave, Mark, Goto, WorkerStates
  <2> QED  BY <1>1, <2>1, <2>2
<1>7. CASE PersistCompletedTurn(w)
  <2>1. work[w].pc # "idle" /\ UNCHANGED <<web, attempt, queue>>
    BY <1>7 DEF PersistCompletedTurn, dbVars
  <2>2. Goes
    BY <1>0, <1>7 DEF PersistCompletedTurn, Raise, WorkerStates
  <2> QED  BY <1>1, <2>1, <2>2
<1>8. ASSUME NEW from \in {"saveR", "saveA", "saveS"}, NEW status, NEW to \in {"emitR", "loop", "checkP"},
             Transition(w, from, status, to)
      PROVE  work[w].pc # "idle" /\ UNCHANGED <<web, attempt, queue>> /\ Goes
  <2>1. work[w].pc # "idle" /\ UNCHANGED <<web, attempt, queue>>
    BY <1>8 DEF Transition, SaveRow, dbVars
  <2>2. Goes
    BY <1>0, <1>8 DEF Transition, Raise, WorkerStates
  <2> QED  BY <2>1, <2>2
<1>9. CASE Finish(w)
  <2>1. work[w].pc # "idle" /\ UNCHANGED <<web, attempt>>
    BY <1>9 DEF Finish, dbVars
  <2>2. work' = [work EXCEPT ![w] = Idle]
    BY <1>9 DEF Finish
  <2>3. (\A v \in Workers \ {w} : work'[v] = work[v]) /\ work'[w].pc = "idle"
    BY <1>0, <2>2 DEF Idle
  <2>4. queue' = queue \/ queue' = [queue EXCEPT ![work[w].turn] = @ + 1]
    BY <1>9 DEF Finish
  <2> QED  BY <1>1, <2>1, <2>3, <2>4
<1> HIDE DEF Goes
<1>10. (\/ Transition(w, "saveR", "retrieving", "emitR")
        \/ Transition(w, "saveA", "answering", "loop")
        \/ Transition(w, "saveS", "saving", "checkP"))
       => work[w].pc # "idle" /\ UNCHANGED <<web, attempt, queue>> /\ Goes
  BY <1>8
<1> QED
  BY <1>1, <1>2, <1>3, <1>4, <1>5, <1>6, <1>7, <1>9, <1>10 DEF WorkerStep, Goes

-----------------------------------------------------------------------------
(* A worker's step, or its death, keeps the turn's task with that worker,  *)
(* puts it back into the queue, or ends it. *)
LEMMA TaskKept ==
    ASSUME TypeOK, OneTask, UNCHANGED <<web, attempt>>, NEW w \in Workers,
           work[w].pc # "idle", work[w].turn \in Turns,
           \A v \in Workers \ {w} : work'[v] = work[v],
           \/ work'[w].pc # "idle" /\ work'[w].turn = work[w].turn /\ queue' = queue
           \/ /\ work'[w].pc = "idle"
              /\ queue' = queue \/ queue' = [queue EXCEPT ![work[w].turn] = @ + 1]
    PROVE  OneTask'
<1> SUFFICES ASSUME NEW t \in Turns PROVE OneTaskOf(t)'
  BY DEF OneTask
<1>0. OneTaskOf(t)
  BY DEF OneTask
<1>1. \A v \in Workers : Task(v, t)' => Task(v, t)
  BY DEF Task
<1>2. CASE t # work[w].turn
  <2>1. queue'[t] = queue[t]
    BY <1>2 DEF TypeOK
  <2> QED  BY <1>0, <1>1, <2>1 DEF OneTaskOf, Unsent, NoTask
<1>3. CASE t = work[w].turn
  <2>1. Task(w, t) /\ queue[t] = 0 /\ ~Unsent(t)
    BY <1>0, <1>3 DEF OneTaskOf, Task, NoTask
  <2>2. \A v \in Workers : Task(v, t)' => v = w
    BY <1>0, <1>1, <2>1 DEF OneTaskOf
  <2>3. queue'[t] \in {0, 1} /\ (queue'[t] = 1 => work'[w].pc = "idle")
    BY <1>3, <2>1 DEF TypeOK
  <2>4. ~Unsent(t)'
    BY <2>1 DEF Unsent
  <2> QED  BY <2>1, <2>2, <2>3, <2>4 DEF OneTaskOf, Task, Unsent
<1> QED  BY <1>2, <1>3

(* Every step leaves at most one task for a turn. *)
LEMMA NextOneTask ==
    ASSUME OneAttempt, IInv, OneTask, [Next]_vars
    PROVE  OneTask'
<1>0. TypeOK
  BY DEF IInv
<1>1. CASE UNCHANGED <<attempt, web, queue, work>>
  BY <1>1 DEF OneTask, OneTaskOf, Unsent, NoTask, Task
<1>2. ASSUME NEW w \in Workers, WorkerStep(w)
      PROVE  OneTask'
  BY <1>0, <1>2, StepFrame, TaskKept
<1>3. ASSUME NEW w \in Workers, Crash(w) \/ LoseLease(w)
      PROVE  OneTask'
  <2>1. CASE UNCHANGED work
    <3>1. CASE LoseLease(w)
      BY <1>1, <2>1, <3>1 DEF LoseLease, dbVars
    <3>2. CASE Crash(w)
      <4>1. work'[w].pc = "idle" /\ work[w].pc # "idle"
        BY <1>0, <3>2 DEF Crash, TypeOK, Idle
      <4> QED  BY <2>1, <4>1
    <3> QED  BY <1>3, <3>1, <3>2
  <2>2. CASE Crash(w)
    <3>1. /\ work' = [work EXCEPT ![w] = Idle] /\ work[w].pc # "idle"
          /\ queue' = [queue EXCEPT ![work[w].turn] = @ + 1] /\ UNCHANGED <<web, attempt>>
      BY <2>2 DEF Crash, dbVars
    <3>2. work[w].turn \in Turns
      BY <3>1 DEF IInv, WorkerFacts
    <3>3. work'[w].pc = "idle" /\ \A v \in Workers \ {w} : work'[v] = work[v]
      BY <1>0, <3>1 DEF TypeOK, Idle
    <3> QED  BY <1>0, <3>1, <3>2, <3>3, TaskKept
  <2>3. CASE LoseLease(w) /\ work' = [work EXCEPT ![w].lost = TRUE]
    <3>1. UNCHANGED <<web, attempt, queue>>
      BY <2>3 DEF LoseLease, dbVars
    <3>2. \A v \in Workers : work'[v].pc = work[v].pc /\ work'[v].turn = work[v].turn
      BY <1>0, <2>3 DEF TypeOK, WorkerStates
    <3> QED  BY <3>1, <3>2 DEF OneTask, OneTaskOf, Unsent, NoTask, Task
  <2> QED  BY <1>3, <2>1, <2>2, <2>3 DEF LoseLease
<1>4. ASSUME NEW w \in Workers, NEW t \in Turns, Deliver(w, t)
      PROVE  OneTask'
  <2>1. /\ work[w].pc = "idle" /\ queue[t] > 0 /\ queue' = [queue EXCEPT ![t] = @ - 1]
        /\ work' = [work EXCEPT ![w] = [Idle EXCEPT !.pc = "renew", !.turn = t]]
        /\ UNCHANGED <<web, attempt>>
    BY <1>4 DEF Deliver, dbVars
  <2>2. /\ \A v \in Workers \ {w} : work'[v] = work[v]
        /\ work'[w].pc = "renew" /\ work'[w].turn = t
    BY <1>0, <2>1 DEF TypeOK, Idle
  <2> SUFFICES ASSUME NEW u \in Turns PROVE OneTaskOf(u)'
    BY DEF OneTask
  <2>3. OneTaskOf(u)
    BY DEF OneTask
  <2>4. CASE u # t
    <3>1. queue'[u] = queue[u] /\ \A v \in Workers : Task(v, u)' => Task(v, u)
      BY <1>0, <2>1, <2>2, <2>4 DEF TypeOK, Task
    <3> QED  BY <2>1, <2>3, <3>1 DEF OneTaskOf, Unsent, NoTask
  <2>5. CASE u = t
    <3>1. queue[t] = 1 /\ queue'[t] = 0
      BY <1>0, <2>1, <2>3, <2>5 DEF OneTaskOf, TypeOK
    <3>2. ~Unsent(t) /\ \A v \in Workers : ~Task(v, t)
      BY <2>3, <2>5, <3>1 DEF OneTaskOf, NoTask
    <3>3. \A v \in Workers : Task(v, t)' => v = w
      BY <2>2, <3>2 DEF Task
    <3>4. ~Unsent(t)'
      BY <2>1, <3>2 DEF Unsent
    <3> QED  BY <2>5, <3>1, <3>3, <3>4 DEF OneTaskOf, Unsent
  <2> QED  BY <2>4, <2>5
<1>5. ASSUME NEW t \in Turns, BeginChatTurn(t) \/ Web(t)
      PROVE  OneTask'
  <2>0. UNCHANGED work
    BY <1>5 DEF BeginChatTurn, Web, Reserve, Publish, Enqueue, UndoEvent, UndoReservation, FailActiveTurn
  <2>1. /\ \A u \in Turns : u # t => attempt'[u] = attempt[u] /\ web'[u] = web[u] /\ queue'[u] = queue[u]
        /\ Unsent(t)
        /\ attempt'[t] # 0
        /\ queue'[t] = queue[t] \/ (queue'[t] = queue[t] + 1 /\ web'[t] = "idle")
    <3>1. CASE BeginChatTurn(t)
      <4>1. attempt[t] = 0
        BY <1>0, <3>1 DEF BeginChatTurn, OneAttempt, TypeOK
      <4>2. attempt'[t] = 1
        BY <1>0, <3>1, <4>1 DEF BeginChatTurn, TypeOK
      <4> QED  BY <1>0, <3>1, <4>1, <4>2 DEF BeginChatTurn, TypeOK, Unsent
    <3>2. CASE Web(t)
      <4>1. web[t] # "idle" /\ UNCHANGED attempt
        BY <3>2 DEF Web, Reserve, Publish, Enqueue, UndoEvent, UndoReservation, FailActiveTurn, SaveRow, dbVars
      <4>2. attempt[t] # 0
        BY <4>1 DEF OneTask, OneTaskOf
      <4>3. \A u \in Turns : u # t => web'[u] = web[u]
        BY <1>0, <3>2 DEF Web, Reserve, Publish, Enqueue, UndoEvent, UndoReservation, FailActiveTurn, TypeOK
      <4>4. \/ queue' = queue
            \/ queue' = [queue EXCEPT ![t] = @ + 1] /\ web' = [web EXCEPT ![t] = "idle"]
        BY <3>2 DEF Web, Reserve, Publish, Enqueue, UndoEvent, UndoReservation, FailActiveTurn,
           Fault, OneAttempt
      <4> QED  BY <1>0, <4>1, <4>2, <4>3, <4>4 DEF TypeOK, Unsent
    <3> QED  BY <1>5, <3>1, <3>2
  <2> SUFFICES ASSUME NEW u \in Turns PROVE OneTaskOf(u)'
    BY DEF OneTask
  <2>2. OneTaskOf(u)
    BY DEF OneTask
  <2>3. CASE u # t
    BY <2>0, <2>1, <2>2, <2>3 DEF OneTaskOf, Unsent, NoTask, Task
  <2>4. CASE u = t
    <3>1. queue[t] = 0 /\ \A v \in Workers : ~Task(v, t)
      BY <2>1, <2>2, <2>4 DEF OneTaskOf, NoTask
    <3>2. \A v \in Workers : ~Task(v, t)'
      BY <2>0, <3>1 DEF Task
    <3> QED  BY <2>1, <2>4, <3>1, <3>2 DEF OneTaskOf, Unsent, NoTask
  <2> QED  BY <2>3, <2>4
<1>6. CASE \/ \E t \in Turns : \/ RequestCancel(t) \/ ConvergeStaleTurn(t)
                              \/ GrowStale(t) \/ ReservationExpires(t)
           \/ LeaseExpires \/ RemoveMember \/ Quiet \/ UNCHANGED vars
  BY <1>1, <1>6 DEF RequestCancel, ConvergeStaleTurn, GrowStale, ReservationExpires, LeaseExpires,
     RemoveMember, Quiet, vars, dbVars
<1>7. ASSUME NEW w \in Workers, Redeliver(w) PROVE FALSE
  BY <1>7 DEF Redeliver, Fault, OneAttempt
<1> QED  BY <1>2, <1>3, <1>4, <1>5, <1>6, <1>7 DEF Next
-----------------------------------------------------------------------------
Settled == {"completed", "cancelled"}

(* Program counters past the first save of the generation. *)
Late == {"emitR", "loop", "saveA", "checkS", "saveS", "checkP", "persist"}

(***************************************************************************)
(* What a worker can still do to the row: nothing once it is completed or  *)
(* cancelled, and no second generation once there is an answer.            *)
(***************************************************************************)
Harmless(w, t) ==
    /\ row[t].status \in Settled => work[w].pc \notin MaySave
    /\ answers[t] = 1 =>
         /\ work[w].pc \notin Late
         /\ work[w].pc \in {"acquire", "checkR", "saveR"} => work[w].mem \notin ActiveStatuses

RecordedOf(t) ==
    /\ Unsent(t) => answers[t] = 0 /\ row[t].status \notin Settled
    /\ answers[t] \in {0, 1}
    /\ answers[t] = 1 => row[t].status \notin ActiveStatuses
    /\ \A w \in Workers : Task(w, t) => Harmless(w, t)

Recorded == \A t \in Turns : RecordedOf(t)


-----------------------------------------------------------------------------
(* Only an accepted or a retrieving turn starts to retrieve. *)
LEMMA RetrievingFrom ==
    ASSUME NEW mem \in Statuses, MayTransition(mem, "retrieving")
    PROVE  mem \in ActiveStatuses
BY DEF MayTransition, AllowedTransitions, Statuses, ActiveStatuses

(* What a worker's step may make of the row and the worker. *)
Sound(w, t) ==
    /\ answers'[t] \in {0, 1}
    /\ answers'[t] = 1 => row'[t].status \notin ActiveStatuses
    /\ Harmless(w, t)'
    /\ row[t].status \in Settled => row'[t] = row[t]

(* A step of a worker that only reads the row. *)
LEMMA ReadingSound ==
    ASSUME IInv, NEW w \in Workers, NEW t \in Turns, t = work[w].turn,
           answers[t] \in {0, 1}, answers[t] = 1 => row[t].status \notin ActiveStatuses,
           Harmless(w, t), UNCHANGED <<row, answers>>,
           /\ work'[w].pc \in MaySave => work[w].pc \in MaySave \/ row[t].status \notin Settled
           /\ work'[w].pc \in Late =>
                \/ work[w].pc \in Late
                \/ work[w].pc = "saveR" /\ work[w].mem \in ActiveStatuses
           /\ work'[w].pc \in {"acquire", "checkR", "saveR"} =>
                \/ work[w].pc \in {"acquire", "checkR", "saveR"} /\ work'[w].mem = work[w].mem
                \/ work'[w].mem = row[t].status
    PROVE  Sound(w, t)
BY DEF Sound, Harmless

(* Each step of a worker. *)
LEMMA StepSound ==
    ASSUME IInv, NEW w \in Workers, NEW t \in Turns, t = work[w].turn,
           answers[t] \in {0, 1}, answers[t] = 1 => row[t].status \notin ActiveStatuses,
           Harmless(w, t), WorkerStep(w)
    PROVE  /\ Sound(w, t)
           /\ \A u \in Turns : u # t => row'[u] = row[u] /\ answers'[u] = answers[u]
<1>0. /\ work[w] \in WorkerStates /\ work \in [Workers -> WorkerStates]
      /\ row \in [Turns -> [status : Statuses, msg : Nat]] /\ answers \in [Turns -> Nat]
  BY DEF IInv, TypeOK
<1> DEFINE Goal == /\ Sound(w, t)
                   /\ \A u \in Turns : u # t => row'[u] = row[u] /\ answers'[u] = answers[u]
           Moved == /\ work'[w].pc \in MaySave => work[w].pc \in MaySave \/ row[t].status \notin Settled
                    /\ work'[w].pc \in Late => work[w].pc \in Late
                    /\ work'[w].pc \in {"acquire", "checkR", "saveR"} =>
                         \/ work[w].pc \in {"acquire", "checkR", "saveR"} /\ work'[w].mem = work[w].mem
                         \/ work'[w].mem = row[t].status
<1>1. UNCHANGED <<row, answers>> /\ Moved => Goal
  BY ReadingSound
<1>2. CASE RenewCapacity(w) \/ LoadTurn(w) \/ AcquireLease(w) \/ StopAtCheck(w) \/ PassCheck(w)
  <2>1. UNCHANGED <<row, answers>>
    BY <1>2 DEF RenewCapacity, LoadTurn, AcquireLease, StopAtCheck, PassCheck, dbVars
  <2>2. CASE RenewCapacity(w)
    BY <1>0, <1>1, <2>1, <2>2 DEF RenewCapacity, Goto, WorkerStates, MaySave, Late, Generating
  <2>3. CASE LoadTurn(w)
    <3>1. work'[w].mem = row[t].status
      BY <1>0, <2>3 DEF LoadTurn, WorkerStates
    <3>2. work'[w].pc = IF row[t].status \in {"completed", "cancelled"} THEN "finish" ELSE "acquire"
      BY <1>0, <2>3 DEF LoadTurn, WorkerStates
    <3> QED  BY <1>1, <2>1, <3>1, <3>2 DEF MaySave, Late, Generating, Settled
  <2>4. CASE AcquireLease(w)
    BY <1>0, <1>1, <2>1, <2>4 DEF AcquireLease, Goto, Raise, WorkerStates, MaySave, Late, Generating
  <2>5. CASE StopAtCheck(w)
    BY <1>0, <1>1, <2>1, <2>5 DEF StopAtCheck, Raise, CheckPoints, WorkerStates, MaySave, Late, Generating
  <2>6. CASE PassCheck(w)
    BY <1>0, <1>1, <2>1, <2>6 DEF PassCheck, Goto, CheckPoints, WorkerStates, MaySave, Late, Generating
  <2> QED  BY <1>2, <2>2, <2>3, <2>4, <2>5, <2>6
<1>3. CASE PipelineToken(w) \/ PipelineEnds(w) \/ PipelineFails(w) \/ FlushText(w) \/ StoreFails(w)
  <2>1. UNCHANGED <<row, answers>>
    BY <1>3 DEF PipelineToken, PipelineEnds, PipelineFails, FlushText, StoreFails, dbVars
  <2>2. CASE PipelineToken(w) \/ PipelineEnds(w) \/ FlushText(w)
    BY <1>0, <1>1, <2>1, <2>2 DEF PipelineToken, PipelineEnds, FlushText, Goto, WorkerStates,
       MaySave, Late, Generating
  <2>3. CASE PipelineFails(w)
    BY <1>0, <1>1, <2>1, <2>3 DEF PipelineFails, Raise, WorkerStates, MaySave, Late, Generating
  <2>4. CASE StoreFails(w)
    <3>1. work'[w].pc \in {"taskRead", "close"}
      BY <1>0, <2>4 DEF StoreFails, WorkerStates
    <3> QED  BY <1>1, <2>1, <3>1 DEF MaySave, Late, Generating
  <2> QED  BY <1>3, <2>2, <2>3, <2>4
<1>4. CASE Replay(w) \/ EmitTerminal(w)
  <2>1. UNCHANGED <<row, answers>> /\ (Goto(w, "finish") \/ Goto(w, "load") \/ Goto(w, "close"))
    BY <1>4, Zenon DEF Replay, EmitTerminal, dbVars
  <2>2. work'[w].pc \in {"finish", "load", "close"}
    BY <1>0, <2>1, MoveFrame
  <2> QED  BY <1>1, <2>1, <2>2 DEF MaySave, Late, Generating
<1>5. CASE EmitRetrieving(w)
  <2>1. UNCHANGED <<row, answers>> /\ Goto(w, "loop") /\ work[w].pc = "emitR"
    BY <1>5, Zenon DEF EmitRetrieving, dbVars
  <2>2. work'[w].pc = "loop"
    BY <1>0, <2>1, MoveFrame
  <2> QED  BY <1>1, <2>1, <2>2 DEF MaySave, Late, Generating
<1>6. CASE Close(w) \/ Finish(w)
  <2>1. UNCHANGED <<row, answers>>
    BY <1>6 DEF Close, Finish, dbVars
  <2>2. work'[w].pc \in {"taskRead", "finish", "idle"}
    BY <1>0, <1>6 DEF Close, Finish, Goto, Idle, WorkerStates
  <2> QED  BY <1>1, <2>1, <2>2 DEF MaySave, Late, Generating
<1>7. CASE TaskRead(w)
  <2>1. UNCHANGED <<row, answers>>
    BY <1>7 DEF TaskRead, dbVars
  <2>2. work'[w].pc = IF row[t].status \in ActiveStatuses THEN "taskSave" ELSE "finish"
    BY <1>0, <1>7 DEF TaskRead, WorkerStates
  <2> QED  BY <1>1, <2>1, <2>2 DEF MaySave, Late, Generating, Settled, ActiveStatuses
<1>8. CASE TaskSave(w) \/ Mark(w)
  <2>1. work[w].pc \in MaySave /\ UNCHANGED answers
    BY <1>8 DEF TaskSave, Mark, MaySave, SaveRow, dbVars
  <2>2. work'[w].pc \in {"finish", "emitErr"}
    BY <1>0, <1>8 DEF TaskSave, Mark, Goto, WorkerStates
  <2>3. work[w].pc = "mark" => work[w].goal \in {"failed", "cancelled"}
    BY DEF IInv, WorkerFacts
  <2>4. \/ UNCHANGED row
        \/ row' = [row EXCEPT ![t] = [status |-> "failed", msg |-> work[w].msg]]
        \/ row' = [row EXCEPT ![t] = [status |-> "cancelled", msg |-> work[w].msg]]
    BY <1>8, <2>3 DEF TaskSave, Mark, SaveRow, dbVars
  <2>5. row'[t] = row[t] \/ row'[t].status \in {"failed", "cancelled"}
    BY <1>0, <2>4
  <2>6. row[t].status \notin Settled
    BY <2>1 DEF Harmless
  <2> QED  BY <1>0, <2>1, <2>2, <2>4, <2>5, <2>6 DEF Sound, Harmless, MaySave, Late, Generating, ActiveStatuses
<1>9. CASE PersistCompletedTurn(w)
  <2>1. answers[t] = 0 /\ row[t].status \notin Settled
    BY <1>9 DEF PersistCompletedTurn, Harmless, MaySave, Late, Generating
  <2>2. CASE UNCHANGED <<row, answers>> /\ Raise(w, "failed")
    <3>1. work'[w].pc = "mark"
      BY <1>0, <2>2 DEF Raise, WorkerStates
    <3> QED  BY <2>1, <2>2, <3>1 DEF Sound, Harmless
  <2>3. CASE /\ answers' = [answers EXCEPT ![t] = @ + 1]
             /\ row' = [row EXCEPT ![t] = [status |-> "completed", msg |-> answers[t] + 1]]
             /\ work' = [work EXCEPT ![w].pc = "emitDone", ![w].mem = "completed", ![w].msg = answers[t] + 1]
    <3>1. answers'[t] = 1 /\ row'[t].status = "completed" /\ work'[w].pc = "emitDone"
      BY <1>0, <2>1, <2>3 DEF WorkerStates
    <3> QED  BY <1>0, <2>1, <2>3, <3>1 DEF Sound, Harmless, MaySave, Late, Generating, ActiveStatuses
  <2> QED  BY <1>9, <2>1, <2>2, <2>3 DEF PersistCompletedTurn, Settled, dbVars
<1>10. ASSUME NEW from \in {"saveR", "saveA", "saveS"}, NEW status \in ActiveStatuses,
              NEW to \in {"emitR", "loop", "checkP"}, from = "saveR" => status = "retrieving",
              Transition(w, from, status, to)
       PROVE  Goal
  <2>1. work[w].pc = from /\ row[t].status \notin Settled /\ UNCHANGED answers
    BY <1>10 DEF Transition, Harmless, MaySave, Generating, SaveRow, dbVars
  <2>2. MayTransition(work[w].mem, status) => answers[t] = 0
    <3>1. from \in Late => answers[t] = 0
      BY <2>1 DEF Harmless
    <3>2. ASSUME from = "saveR", MayTransition(work[w].mem, status) PROVE answers[t] = 0
      <4>1. work[w].mem \in ActiveStatuses
        BY <1>0, <1>10, <3>2, RetrievingFrom DEF WorkerStates
      <4> QED  BY <2>1, <3>2, <4>1 DEF Harmless
    <3> QED  BY <1>10, <3>1, <3>2 DEF Late
  <2>3. CASE UNCHANGED row
    <3>1. work'[w].pc = "mark" \/ answers[t] = 0
      BY <1>0, <1>10, <2>2 DEF Transition, Raise, WorkerStates
    <3> QED  BY <1>10, <2>1, <2>3, <3>1 DEF Sound, Harmless, Late, Generating, MaySave
  <2>4. CASE /\ MayTransition(work[w].mem, status)
             /\ row' = [row EXCEPT ![t] = [status |-> status, msg |-> work[w].msg]]
    <3>1. row'[t].status \in ActiveStatuses /\ answers'[t] = 0
      BY <1>0, <2>1, <2>2, <2>4
    <3> QED  BY <1>0, <2>1, <2>4, <3>1 DEF Sound, Harmless, ActiveStatuses, Settled
  <2> QED  BY <1>10, <2>3, <2>4 DEF Transition, SaveRow, dbVars
<1> HIDE DEF Goal, Moved
<1>11. (\/ Transition(w, "saveR", "retrieving", "emitR")
        \/ Transition(w, "saveA", "answering", "loop")
        \/ Transition(w, "saveS", "saving", "checkP")) => Goal
  BY <1>10 DEF ActiveStatuses
<1> QED
  BY <1>2, <1>3, <1>4, <1>5, <1>6, <1>7, <1>8, <1>9, <1>11 DEF WorkerStep, Goal

(* A turn that a step does not touch. *)
LEMMA UntouchedRecorded ==
    ASSUME NEW t \in Turns, RecordedOf(t),
           Unsent(t)' => Unsent(t), row'[t] = row[t], answers'[t] = answers[t],
           \A w \in Workers : Task(w, t)' => Task(w, t) /\ work'[w].pc = work[w].pc
                                             /\ work'[w].mem = work[w].mem
    PROVE  RecordedOf(t)'
BY DEF RecordedOf, Harmless

(* Rows that a step finishes, answers or overwrites: none but those of the *)
(* one task of the turn. *)
RowsKept == \A t \in Turns : row[t].status \in Settled => row'[t] = row[t]

(***************************************************************************)
(* The removal of the member revokes every active turn of the session, or  *)
(* only deletes its lease.                                                 *)
(***************************************************************************)
LEMMA RemovalFrame ==
    ASSUME IInv, RemoveMember
    PROVE  /\ UNCHANGED <<attempt, answers, web, queue, work, reserved, cancel, stream>>
           /\ \A t \in Turns :
                \/ row'[t] = row[t] /\ stale'[t] = stale[t]
                \/ /\ row[t].status \in ActiveStatuses
                   /\ row'[t].status = "revoked" /\ ~stale'[t]
           /\ \/ \A t \in Turns : row'[t] = row[t]
              \/ \A t \in Turns : /\ row[t].status \in ActiveStatuses => row'[t].status = "revoked"
                                  /\ row[t].status \notin ActiveStatuses => row'[t] = row[t]
<1>0. /\ row \in [Turns -> [status : Statuses, msg : Nat]] /\ stale \in [Turns -> BOOLEAN]
      /\ UNCHANGED <<attempt, answers, web, queue, work, reserved, cancel, stream>>
  BY DEF IInv, TypeOK, RemoveMember
<1>1. CASE UNCHANGED <<row, stale>>
  BY <1>0, <1>1
<1>2. CASE /\ row' = [t \in Turns |->
                        IF row[t].status \in ActiveStatuses THEN [row[t] EXCEPT !.status = "revoked"]
                        ELSE row[t]]
           /\ stale' = [t \in Turns |-> stale[t] /\ row[t].status \notin ActiveStatuses]
  <2>1. \A t \in Turns :
          /\ row[t].status \in ActiveStatuses => row'[t].status = "revoked" /\ ~stale'[t]
          /\ row[t].status \notin ActiveStatuses => row'[t] = row[t] /\ stale'[t] = stale[t]
    BY <1>0, <1>2
  <2> QED  BY <1>0, <2>1
<1> QED  BY <1>1, <1>2 DEF RemoveMember

(* Every step records at most one answer and keeps finished rows. *)
LEMMA NextRecorded ==
    ASSUME OneAttempt, IInv, OneTask, Recorded, [Next]_vars
    PROVE  Recorded' /\ RowsKept
<1>0. /\ work \in [Workers -> WorkerStates] /\ row \in [Turns -> [status : Statuses, msg : Nat]]
      /\ attempt \in [Turns -> 0..MaxAttempts] /\ answers \in [Turns -> Nat]
  BY DEF IInv, TypeOK
<1>1. CASE UNCHANGED <<row, answers, attempt, web, work>>
  <2>1. Recorded'
    BY <1>1, UntouchedRecorded DEF Recorded, Unsent, Task
  <2> QED  BY <1>1, <2>1 DEF RowsKept
<1>2. ASSUME NEW w \in Workers, WorkerStep(w)
      PROVE  Recorded' /\ RowsKept
  <2>0. PICK t \in Turns : t = work[w].turn
    BY <1>2, StepFrame
  <2>1. /\ work[w].pc # "idle" /\ UNCHANGED <<web, attempt>>
        /\ \A v \in Workers \ {w} : work'[v] = work[v]
        /\ work'[w].pc = "idle" \/ work'[w].turn = t
    BY <1>2, <2>0, StepFrame
  <2>2. Task(w, t) /\ RecordedOf(t) /\ OneTaskOf(t)
    BY <2>0, <2>1 DEF Task, Recorded, OneTask
  <2>3. ~Unsent(t) /\ \A v \in Workers : Task(v, t) => v = w
    BY <2>2 DEF OneTaskOf, NoTask
  <2>4. Harmless(w, t) /\ answers[t] \in {0, 1} /\ (answers[t] = 1 => row[t].status \notin ActiveStatuses)
    BY <2>2 DEF RecordedOf
  <2>5. /\ Sound(w, t)
        /\ \A u \in Turns : u # t => row'[u] = row[u] /\ answers'[u] = answers[u]
    BY <1>2, <2>0, <2>4, StepSound
  <2>6. RecordedOf(t)'
    <3>1. \A v \in Workers : Task(v, t)' => v = w
      BY <2>1, <2>3 DEF Task
    <3>2. ~Unsent(t)'
      BY <2>1, <2>3 DEF Unsent
    <3> QED  BY <2>5, <3>1, <3>2 DEF RecordedOf, Sound
  <2>7. ASSUME NEW u \in Turns, u # t PROVE RecordedOf(u)'
    <3>1. Unsent(u)' => Unsent(u)
      BY <2>1 DEF Unsent
    <3>2. \A v \in Workers : Task(v, u)' => Task(v, u) /\ work'[v] = work[v]
      BY <2>1, <2>7 DEF Task
    <3> QED  BY <2>5, <2>7, <3>1, <3>2, UntouchedRecorded DEF Recorded
  <2> QED  BY <2>5, <2>6, <2>7 DEF Recorded, RowsKept, Sound
<1>3. ASSUME NEW w \in Workers, (\E t \in Turns : Deliver(w, t)) \/ Crash(w) \/ LoseLease(w)
      PROVE  Recorded' /\ RowsKept
  <2>1. UNCHANGED <<row, answers, attempt, web>>
    BY <1>3 DEF Deliver, Crash, LoseLease, dbVars
  <2>2. \/ work' = work
        \/ work' = [work EXCEPT ![w] = Idle]
        \/ work' = [work EXCEPT ![w].lost = TRUE]
        \/ \E t \in Turns : work' = [work EXCEPT ![w] = [Idle EXCEPT !.pc = "renew", !.turn = t]]
    BY <1>3 DEF Deliver, Crash, LoseLease
  <2>3. /\ \A v \in Workers \ {w} : work'[v] = work[v]
        /\ \/ work'[w].pc \in {"idle", "renew"}
           \/ work'[w].pc = work[w].pc /\ work'[w].mem = work[w].mem /\ work'[w].turn = work[w].turn
    <3>1. CASE work' = work
      BY <3>1
    <3>2. CASE work' = [work EXCEPT ![w] = Idle]
      BY <1>0, <3>2 DEF Idle
    <3>3. CASE work' = [work EXCEPT ![w].lost = TRUE]
      BY <1>0, <3>3 DEF WorkerStates
    <3>4. ASSUME NEW t \in Turns, work' = [work EXCEPT ![w] = [Idle EXCEPT !.pc = "renew", !.turn = t]]
          PROVE  work'[w].pc = "renew" /\ \A v \in Workers \ {w} : work'[v] = work[v]
      BY <1>0, <3>4 DEF Idle
    <3> QED  BY <2>2, <3>1, <3>2, <3>3, <3>4
  <2>4. ASSUME NEW t \in Turns PROVE RecordedOf(t)'
    <3>1. RecordedOf(t) /\ (Unsent(t)' => Unsent(t))
      BY <2>1 DEF Recorded, Unsent
    <3>2. ASSUME NEW v \in Workers, Task(v, t)' PROVE Harmless(v, t)'
      <4>1. CASE work'[v].pc = "renew"
        BY <4>1 DEF Harmless, MaySave, Late, Generating
      <4>2. CASE work'[v].pc # "renew"
        BY <2>1, <2>3, <3>1, <3>2, <4>2 DEF Task, Harmless, RecordedOf
      <4> QED  BY <4>1, <4>2
    <3> QED  BY <2>1, <3>1, <3>2 DEF RecordedOf
  <2> QED  BY <2>1, <2>4 DEF Recorded, RowsKept
<1>4. ASSUME NEW t \in Turns, BeginChatTurn(t) \/ Web(t)
      PROVE  Recorded' /\ RowsKept
  <2>1. UNCHANGED <<work, answers>>
    BY <1>4 DEF BeginChatTurn, Web, Reserve, Publish, Enqueue, UndoEvent, UndoReservation,
       FailActiveTurn, SaveRow, dbVars
  <2>2. \A u \in Turns : u # t => row'[u] = row[u] /\ attempt'[u] = attempt[u] /\ web'[u] = web[u]
    BY <1>0, <1>4 DEF BeginChatTurn, Web, Reserve, Publish, Enqueue, UndoEvent, UndoReservation,
       FailActiveTurn, SaveRow, dbVars, IInv, TypeOK
  <2>3. Unsent(t)
    BY <1>0, <1>4 DEF BeginChatTurn, Web, Reserve, Publish, Enqueue, UndoEvent, UndoReservation,
       FailActiveTurn, Unsent, OneAttempt
  <2>4. answers[t] = 0 /\ row[t].status \notin Settled /\ \A v \in Workers : ~Task(v, t)
    BY <2>3 DEF Recorded, RecordedOf, OneTask, OneTaskOf, NoTask
  <2>5. row'[t] = row[t] \/ row'[t].status \in {"accepted", "failed"}
    BY <1>0, <1>4 DEF BeginChatTurn, Web, Reserve, Publish, Enqueue, UndoEvent, UndoReservation,
       FailActiveTurn, SaveRow, dbVars
  <2>6. RecordedOf(t)'
    <3>1. \A v \in Workers : ~Task(v, t)'
      BY <2>1, <2>4 DEF Task
    <3> QED  BY <2>1, <2>4, <2>5, <3>1 DEF RecordedOf, Settled
  <2>7. ASSUME NEW u \in Turns, u # t PROVE RecordedOf(u)'
    BY <2>1, <2>2, <2>7, UntouchedRecorded DEF Recorded, Unsent, Task
  <2> QED  BY <2>2, <2>4, <2>6, <2>7 DEF Recorded, RowsKept
<1>5. ASSUME NEW t \in Turns, ConvergeStaleTurn(t)
      PROVE  Recorded' /\ RowsKept
  <2>1. /\ row[t].status \in ActiveStatuses /\ row' = [row EXCEPT ![t].status = "failed"]
        /\ UNCHANGED <<answers, attempt, web, work>>
    BY <1>5 DEF ConvergeStaleTurn
  <2>2. row'[t].status = "failed" /\ \A u \in Turns : u # t => row'[u] = row[u]
    BY <1>0, <2>1
  <2>3. RecordedOf(t)'
    BY <2>1, <2>2 DEF Recorded, RecordedOf, Harmless, Settled, Unsent, Task
  <2>4. ASSUME NEW u \in Turns, u # t PROVE RecordedOf(u)'
    BY <2>1, <2>2, <2>4, UntouchedRecorded DEF Recorded, Unsent, Task
  <2> QED  BY <2>1, <2>2, <2>3, <2>4 DEF Recorded, RowsKept, Settled, ActiveStatuses
<1>6. CASE \/ \E t \in Turns : RequestCancel(t) \/ GrowStale(t) \/ ReservationExpires(t)
           \/ LeaseExpires \/ Quiet \/ UNCHANGED vars
  BY <1>1, <1>6 DEF RequestCancel, GrowStale, ReservationExpires, LeaseExpires, Quiet, vars, dbVars
<1>7. ASSUME NEW w \in Workers, Redeliver(w) PROVE FALSE
  BY <1>7 DEF Redeliver, Fault, OneAttempt
<1>8. CASE RemoveMember
  <2>1. /\ UNCHANGED <<attempt, answers, web, work>>
        /\ \A t \in Turns : \/ row'[t] = row[t]
                            \/ row[t].status \in ActiveStatuses /\ row'[t].status = "revoked"
    BY <1>8, RemovalFrame
  <2>2. ASSUME NEW t \in Turns PROVE RecordedOf(t)'
    <3>1. RecordedOf(t)
      BY DEF Recorded
    <3>2. CASE row'[t] = row[t]
      BY <2>1, <3>1, <3>2, UntouchedRecorded DEF Unsent, Task
    <3>3. CASE row[t].status \in ActiveStatuses /\ row'[t].status = "revoked"
      BY <2>1, <3>1, <3>3 DEF RecordedOf, Harmless, Unsent, Task, Settled, ActiveStatuses
    <3> QED  BY <2>1, <3>2, <3>3
  <2>3. RowsKept
    BY <2>1 DEF RowsKept, Settled, ActiveStatuses
  <2> QED  BY <2>2, <2>3 DEF Recorded
<1> QED  BY <1>2, <1>3, <1>4, <1>5, <1>6, <1>7, <1>8 DEF Next

(* The two invariants hold initially. *)
LEMMA InitTask == Init => OneTask /\ Recorded
BY DEF Init, OneTask, OneTaskOf, Recorded, RecordedOf, Unsent, NoTask, Task, Idle, Settled

(***************************************************************************)
(* One attempt of the client stores at most one assistant message, however *)
(* often workers die, tasks are retried, saves fail or the lease is lost   *)
(* (_load_turn, the lifecycle table and _persist_completed_turn).          *)
(***************************************************************************)
THEOREM OneAnswerTheorem ==
    ASSUME OneAttempt
    PROVE  Spec => []OneAnswer
<1>1. IInv /\ OneTask /\ Recorded /\ [Next]_vars => OneTask' /\ Recorded'
  BY NextOneTask, NextRecorded
<1>2. Recorded => OneAnswer
  BY DEF Recorded, RecordedOf, OneAnswer
<1> QED  BY InitTask, Invariance, <1>1, <1>2, PTL DEF Spec

(***************************************************************************)
(* Then a row that is completed or that the client cancelled is never      *)
(* written again, although transition_chat_turn and the failure paths save *)
(* without a comparison.  A revoked row is; the theorem is silent on it.   *)
(***************************************************************************)
THEOREM FinishedTheorem ==
    ASSUME OneAttempt
    PROVE  Spec => FinishedIsFinal
<1>1. IInv /\ OneTask /\ Recorded /\ [Next]_vars => OneTask' /\ Recorded'
  BY NextOneTask, NextRecorded
<1>2. IInv /\ OneTask /\ Recorded /\ [Next]_vars
        => [\A t \in Turns : row[t].status \in {"completed", "cancelled"} => row'[t] = row[t]]_vars
  BY NextRecorded DEF RowsKept, Settled
<1> QED  BY InitTask, Invariance, <1>1, <1>2, PTL DEF Spec, FinishedIsFinal
-----------------------------------------------------------------------------
Ended(s) == s # <<>> /\ s[Len(s)] \in TerminalEvents
EndsOnce(s) == \A i \in 1..(Len(s) - 1) : s[i] \notin TerminalEvents
Announced(s) == \E i \in DOMAIN s : s[i] = "queued"

(* Program counters at which nothing more is appended to an ended stream. *)
Silent == {"renew", "replay", "close", "taskRead", "taskSave", "finish"}

StreamedOf(t) ==
    /\ EndsOnce(stream[t])
    /\ attempt[t] = 0 \/ web[t] \in {"reserve", "publish"} => stream[t] = <<>>
    /\ web[t] \in {"enqueue", "undo"} => ~Ended(stream[t])
    /\ web[t] = "enqueue" \/ ~NoTask(t) => Announced(stream[t])
    /\ Ended(stream[t]) => \A w \in Workers : Task(w, t) => work[w].pc \in Silent

Streamed == \A t \in Turns : StreamedOf(t)

(* Appending to a stream that has not ended. *)
LEMMA AppendEnds ==
    ASSUME NEW s \in Seq(Events), NEW e \in Seq(Events), EndsOnce(s), EndsOnce(e),
           ~Ended(s) \/ e = <<>>
    PROVE  /\ EndsOnce(s \o e)
           /\ Announced(s) => Announced(s \o e)
           /\ Ended(s \o e) => Ended(e) \/ (Ended(s) /\ e = <<>>)
<1>0. /\ Len(s) \in Nat /\ DOMAIN s = 1..Len(s) /\ Len(e) \in Nat /\ DOMAIN e = 1..Len(e)
      /\ s # <<>> => Len(s) # 0
      /\ e # <<>> => Len(e) # 0
  BY LenProperties, EmptySeq
<1>1. /\ s \o e \in Seq(Events) /\ Len(s \o e) = Len(s) + Len(e)
      /\ \A i \in 1..Len(s) + Len(e) : (s \o e)[i] = IF i <= Len(s) THEN s[i] ELSE e[i - Len(s)]
  BY ConcatProperties
<1>2. DOMAIN (s \o e) = 1..Len(s) + Len(e)
  BY <1>1, LenProperties
<1>3. CASE e = <<>>
  <2>1. s \o e = s
    BY <1>3, ConcatEmptySeq
  <2> QED  BY <1>3, <2>1
<1>4. CASE e # <<>>
  <2>1. ASSUME NEW i \in 1..(Len(s) + Len(e) - 1) PROVE (s \o e)[i] \notin TerminalEvents
    <3>1. CASE i < Len(s)
      <4>1. i \in 1..(Len(s) - 1) /\ (s \o e)[i] = s[i]
        BY <1>0, <1>1, <2>1, <3>1
      <4> QED  BY <4>1 DEF EndsOnce
    <3>2. CASE i = Len(s)
      <4>1. (s \o e)[i] = s[Len(s)] /\ s # <<>>
        BY <1>0, <1>1, <2>1, <3>2
      <4> QED  BY <1>4, <4>1 DEF Ended
    <3>3. CASE i > Len(s)
      <4>1. i - Len(s) \in 1..(Len(e) - 1) /\ (s \o e)[i] = e[i - Len(s)]
        BY <1>0, <1>1, <2>1, <3>3
      <4> QED  BY <4>1 DEF EndsOnce
    <3>4. i \in Int /\ Len(s) \in Int
      BY <1>0, <2>1
    <3>5. i < Len(s) \/ i = Len(s) \/ i > Len(s)
      BY <3>4
    <3> QED  BY <3>1, <3>2, <3>3, <3>5
  <2>2. EndsOnce(s \o e)
    BY <1>1, <2>1 DEF EndsOnce
  <2>3. ASSUME Announced(s) PROVE Announced(s \o e)
    <3>1. PICK i \in 1..Len(s) : s[i] = "queued"
      BY <1>0, <2>3 DEF Announced
    <3>2. i \in 1..Len(s) + Len(e) /\ (s \o e)[i] = "queued"
      BY <1>0, <1>1, <3>1
    <3> QED  BY <1>2, <3>2 DEF Announced
  <2>4. ASSUME Ended(s \o e) PROVE Ended(e)
    <3>1. (s \o e)[Len(s) + Len(e)] = e[Len(e)]
      <4>1. Len(s) + Len(e) \in 1..Len(s) + Len(e) /\ ~(Len(s) + Len(e) <= Len(s))
        BY <1>0, <1>4
      <4>2. Len(s) + Len(e) - Len(s) = Len(e)
        BY <1>0
      <4> QED  BY <1>1, <4>1, <4>2
    <3> QED  BY <1>1, <1>4, <2>4, <3>1 DEF Ended
  <2> QED  BY <2>2, <2>3, <2>4
<1> QED  BY <1>3, <1>4

(* One event, or none. *)
LEMMA ShortEnds ==
    /\ <<>> \in Seq(Events) /\ EndsOnce(<<>>) /\ ~Ended(<<>>)
    /\ \A x \in Events : /\ <<x>> \in Seq(Events) /\ EndsOnce(<<x>>)
                         /\ Ended(<<x>>) => x \in TerminalEvents
BY DEF EndsOnce, Ended

(* What a worker appends has at most a terminal event at its end, only     *)
(* at the end of the generation; a task of an announced turn begins        *)
(* without an event. *)
LEMMA DueEnds ==
    ASSUME NEW w \in Workers
    PROVE  /\ EndsOnce(Due(w))
           /\ Ended(Due(w)) => work[w].pc \in {"emitDone", "emitErr"}
           /\ work[w].pc = "replay" /\ Announced(stream[work[w].turn]) => Due(w) = <<>>
<1> DEFINE text == IF work[w].text = "pending" THEN <<"delta">> ELSE <<>>
           again == work[w].pc = "replay" /\ \A i \in DOMAIN stream[work[w].turn] : stream[work[w].turn][i] # "queued"
<1>1. text \in Seq(Events) /\ EndsOnce(text) /\ ~Ended(text)
  <2>1. <<"delta">> \in Seq(Events) /\ EndsOnce(<<"delta">>) /\ ~Ended(<<"delta">>)
    BY ShortEnds DEF Events, TerminalEvents
  <2> QED  BY <2>1, ShortEnds
<1>2. again => ~Announced(stream[work[w].turn])
  BY DEF Announced
<1>3. /\ again => Due(w) = <<"queued">>
      /\ work[w].pc = "replay" /\ ~again => Due(w) = <<>>
      /\ work[w].pc = "emitR" => Due(w) = <<"retrieving">>
      /\ work[w].pc = "loop" => Due(w) = text
      /\ work[w].pc = "emitDone" => Due(w) = text \o <<"done">>
      /\ work[w].pc = "emitErr" => Due(w) = text \o <<"error">>
      /\ work[w].pc \notin {"replay", "emitR", "loop", "emitDone", "emitErr"} => Due(w) = <<>>
  BY Zenon DEF Due
<1>4. \A x \in {"done", "error"} : EndsOnce(text \o <<x>>)
  <2> TAKE x \in {"done", "error"}
  <2>1. <<x>> \in Seq(Events) /\ EndsOnce(<<x>>)
    BY ShortEnds DEF Events, TerminalEvents
  <2> HIDE DEF text
  <2> QED  BY <1>1, <2>1, AppendEnds
<1>5. /\ EndsOnce(<<"queued">>) /\ ~Ended(<<"queued">>)
      /\ EndsOnce(<<"retrieving">>) /\ ~Ended(<<"retrieving">>)
  BY ShortEnds DEF Events, TerminalEvents
<1>6. EndsOnce(<<>>) /\ ~Ended(<<>>)
  BY ShortEnds
<1> HIDE DEF text, again
<1>7. again => work[w].pc = "replay"
  BY DEF again
<1> QED  BY <1>1, <1>2, <1>3, <1>4, <1>5, <1>6, <1>7

(* So has the part of it that a failing store lets through. *)
LEMMA PartEnds ==
    ASSUME NEW w \in Workers, NEW n \in 0..Len(Due(w))
    PROVE  /\ SubSeq(Due(w), 1, n) \in Seq(Events) /\ EndsOnce(SubSeq(Due(w), 1, n))
           /\ Ended(SubSeq(Due(w), 1, n)) => work[w].pc \in {"emitDone", "emitErr"}
           /\ work[w].pc = "replay" /\ Announced(stream[work[w].turn]) => SubSeq(Due(w), 1, n) = <<>>
<1> DEFINE d == Due(w)
           e == SubSeq(d, 1, n)
<1>1. d \in Seq(Events) /\ Len(d) \in Nat /\ n \in Nat /\ n <= Len(d)
  BY DueTyped, LenProperties
<1>2. /\ EndsOnce(d) /\ (Ended(d) => work[w].pc \in {"emitDone", "emitErr"})
      /\ work[w].pc = "replay" /\ Announced(stream[work[w].turn]) => d = <<>>
  BY DueEnds
<1>3. \A i \in 1..n : d[i] \in Events
  BY <1>1
<1>4. e \in Seq(Events) /\ Len(e) = n /\ \A i \in 1..n : e[i] = d[i]
  BY <1>1, <1>3, SubSeqProperties
<1>5. EndsOnce(e)
  BY <1>1, <1>2, <1>4 DEF EndsOnce
<1>6. ASSUME Ended(e) PROVE Ended(d)
  <2>1. n # 0 /\ d[n] \in TerminalEvents
    BY <1>1, <1>4, <1>6, EmptySeq DEF Ended
  <2>2. n = Len(d)
    BY <1>1, <1>2, <2>1 DEF EndsOnce
  <2> QED  BY <1>1, <2>1, <2>2, EmptySeq DEF Ended
<1>7. d = <<>> => e = <<>>
  <2> HAVE d = <<>>
  <2>1. n = 0
    BY <1>1, EmptySeq
  <2> QED  BY <1>4, <2>1, EmptySeq
<1> QED  BY <1>2, <1>4, <1>5, <1>6, <1>7

(* A step of a worker appends to its own stream only, and not to an ended  *)
(* one. *)
LEMMA StepStreamed ==
    ASSUME IInv, NEW w \in Workers, NEW t \in Turns, t = work[w].turn,
           EndsOnce(stream[t]), Announced(stream[t]),
           Ended(stream[t]) => work[w].pc \in Silent, WorkerStep(w)
    PROVE  /\ EndsOnce(stream'[t]) /\ Announced(stream'[t])
           /\ Ended(stream'[t]) => work'[w].pc \in Silent \cup {"idle"}
           /\ \A u \in Turns : u # t => stream'[u] = stream[u]
<1>0. /\ work[w] \in WorkerStates /\ work \in [Workers -> WorkerStates]
      /\ stream \in [Turns -> Seq(Events)]
  BY DEF IInv, TypeOK
<1> DEFINE Goal == /\ EndsOnce(stream'[t]) /\ Announced(stream'[t])
                   /\ Ended(stream'[t]) => work'[w].pc \in Silent \cup {"idle"}
                   /\ \A u \in Turns : u # t => stream'[u] = stream[u]
<1>1. ASSUME NEW e \in Seq(Events), Emit(t, e), EndsOnce(e), ~Ended(stream[t]) \/ e = <<>>,
             Ended(e) \/ Ended(stream[t]) => work'[w].pc \in Silent \cup {"idle"}
      PROVE  Goal
  <2>1. stream'[t] = stream[t] \o e /\ \A u \in Turns : u # t => stream'[u] = stream[u]
    BY <1>0, <1>1 DEF Emit
  <2>2. /\ EndsOnce(stream[t] \o e) /\ Announced(stream[t] \o e)
        /\ Ended(stream[t] \o e) => Ended(e) \/ Ended(stream[t])
    BY <1>0, <1>1, AppendEnds
  <2> QED  BY <1>1, <2>1, <2>2
<1>2. /\ Due(w) \in Seq(Events) /\ EndsOnce(Due(w))
      /\ Ended(Due(w)) => work[w].pc \in {"emitDone", "emitErr"}
      /\ work[w].pc = "replay" => Due(w) = <<>>
  BY DueTyped, DueEnds
<1>3. CASE RenewCapacity(w) \/ Close(w) \/ TaskRead(w) \/ TaskSave(w) \/ Finish(w)
  <2>1. UNCHANGED stream
    BY <1>3 DEF RenewCapacity, Close, TaskRead, TaskSave, Finish
  <2>2. work'[w].pc \in Silent \cup {"idle"}
    BY <1>0, <1>3 DEF RenewCapacity, Close, TaskRead, TaskSave, Finish, Goto, Idle, WorkerStates, Silent
  <2> QED  BY <2>1, <2>2
<1>4. CASE \/ LoadTurn(w) \/ AcquireLease(w) \/ StopAtCheck(w) \/ PassCheck(w)
           \/ PipelineToken(w) \/ PipelineEnds(w) \/ PipelineFails(w)
           \/ PersistCompletedTurn(w) \/ Mark(w)
  <2>1. UNCHANGED stream /\ work[w].pc \notin Silent
    BY <1>4 DEF LoadTurn, AcquireLease, StopAtCheck, PassCheck, PipelineToken, PipelineEnds,
       PipelineFails, PersistCompletedTurn, Mark, CheckPoints, Silent
  <2> QED  BY <2>1
<1>5. CASE \/ Transition(w, "saveR", "retrieving", "emitR")
           \/ Transition(w, "saveA", "answering", "loop")
           \/ Transition(w, "saveS", "saving", "checkP")
  <2>1. UNCHANGED stream /\ work[w].pc \notin Silent
    BY <1>5 DEF Transition, Silent
  <2> QED  BY <2>1
<1>6. CASE Replay(w)
  <2>1. \/ UNCHANGED stream /\ Goto(w, "finish")
        \/ Goto(w, "load") /\ Emit(t, Due(w)) /\ work[w].pc = "replay" /\ ~Ended(stream[t])
    BY <1>6, Zenon DEF Replay, Ended
  <2>2. CASE UNCHANGED stream /\ Goto(w, "finish")
    <3>1. work'[w].pc = "finish"
      BY <1>0, <2>2, MoveFrame
    <3> QED  BY <2>2, <3>1 DEF Silent
  <2>3. CASE Goto(w, "load") /\ Emit(t, Due(w)) /\ work[w].pc = "replay" /\ ~Ended(stream[t])
    <3>1. ~Ended(Due(w))
      BY <1>2, <2>3
    <3> QED  BY <1>1, <1>2, <2>3, <3>1
  <2> QED  BY <2>1, <2>2, <2>3
<1>7. CASE EmitRetrieving(w) \/ FlushText(w) \/ EmitTerminal(w)
  <2>1. /\ Emit(t, Due(w)) /\ work[w].pc \in {"emitR", "loop", "emitDone", "emitErr"}
        /\ work[w].pc \in {"emitDone", "emitErr"} => Goto(w, "close")
    BY <1>7, Zenon DEF EmitRetrieving, FlushText, EmitTerminal
  <2>2. ~Ended(stream[t])
    BY <2>1 DEF Silent
  <2>3. Ended(Due(w)) => work'[w].pc = "close"
    <3> HAVE Ended(Due(w))
    <3>1. Goto(w, "close")
      BY <1>2, <2>1
    <3> QED  BY <1>0, <3>1, MoveFrame
  <2>4. "close" \in Silent
    BY DEF Silent
  <2> QED  BY <1>1, <1>2, <2>1, <2>2, <2>3, <2>4
<1>8. CASE StoreFails(w)
  <2>1. PICK n \in 0..Len(Due(w)) : Emit(t, SubSeq(Due(w), 1, n))
    BY <1>8, Zenon DEF StoreFails
  <2> DEFINE e == SubSeq(Due(w), 1, n)
  <2>2. /\ e \in Seq(Events) /\ EndsOnce(e)
        /\ work[w].pc = "replay" => e = <<>>
    BY PartEnds
  <2>3. work[w].pc \notin Silent \/ work[w].pc = "replay"
    BY <1>8, Zenon DEF StoreFails, Silent
  <2>4. work'[w].pc \in Silent
    <3>1. work' = [work EXCEPT ![w].goal = "store",
                     ![w].pc = IF work[w].pc = "replay" THEN "taskRead" ELSE "close"]
      BY <1>8, Zenon DEF StoreFails
    <3>2. work'[w].pc \in {"taskRead", "close"}
      BY <1>0, <3>1 DEF WorkerStates
    <3> QED  BY <3>2 DEF Silent
  <2>5. Emit(t, e)
    BY <2>1
  <2> HIDE DEF e
  <2> QED  BY <1>1, <2>2, <2>3, <2>4, <2>5
<1> HIDE DEF Goal
<1> QED
  BY <1>3, <1>4, <1>5, <1>6, <1>7, <1>8 DEF WorkerStep, Goal

(* A stream that a step does not touch. *)
LEMMA UntouchedStreamed ==
    ASSUME NEW t \in Turns, StreamedOf(t),
           attempt'[t] = attempt[t], web'[t] = web[t], queue'[t] = queue[t], stream'[t] = stream[t],
           \A w \in Workers : Task(w, t)' => Task(w, t) /\ work'[w].pc = work[w].pc
    PROVE  StreamedOf(t)'
BY DEF StreamedOf, NoTask

(* The web request writes the first events, or one error after them. *)
LEMMA WebStreamed ==
    ASSUME OneAttempt, IInv, OneTask, Streamed, NEW t \in Turns, BeginChatTurn(t) \/ Web(t)
    PROVE  /\ StreamedOf(t)'
           /\ \A u \in Turns : u # t => /\ attempt'[u] = attempt[u] /\ web'[u] = web[u]
                                        /\ queue'[u] = queue[u] /\ stream'[u] = stream[u]
           /\ UNCHANGED work
<1>0. /\ attempt \in [Turns -> 0..MaxAttempts] /\ queue \in [Turns -> Nat]
      /\ web \in [Turns -> {"idle", "reserve", "publish", "enqueue", "undo", "release", "fail"}]
      /\ stream \in [Turns -> Seq(Events)]
  BY DEF IInv, TypeOK
<1>1. UNCHANGED work
  BY DEF BeginChatTurn, Web, Reserve, Publish, Enqueue, UndoEvent, UndoReservation, FailActiveTurn
<1>2. \A u \in Turns : u # t => /\ attempt'[u] = attempt[u] /\ web'[u] = web[u]
                                /\ queue'[u] = queue[u] /\ stream'[u] = stream[u]
  <2>1. CASE BeginChatTurn(t) \/ Reserve(t) \/ Enqueue(t) \/ UndoReservation(t) \/ FailActiveTurn(t)
    BY <1>0, <2>1 DEF BeginChatTurn, Reserve, Enqueue, UndoReservation, FailActiveTurn, SaveRow, dbVars
  <2>2. CASE Publish(t) \/ UndoEvent(t)
    <3>1. UNCHANGED <<attempt, queue>> /\ \A u \in Turns : u # t => web'[u] = web[u]
      BY <1>0, <2>2 DEF Publish, UndoEvent, dbVars
    <3>2. \A u \in Turns : u # t => stream'[u] = stream[u]
      BY <1>0, <2>2 DEF Publish, UndoEvent, Emit
    <3> QED  BY <3>1, <3>2
  <2> QED  BY <2>1, <2>2 DEF Web
<1>3. StreamedOf(t) /\ OneTaskOf(t)
  BY DEF Streamed, OneTask
<1>4. Unsent(t)
  BY <1>0 DEF BeginChatTurn, Web, Reserve, Publish, Enqueue, UndoEvent, UndoReservation,
     FailActiveTurn, Unsent, OneAttempt
<1>5. NoTask(t) /\ (web[t] # "idle" => attempt[t] # 0)
  BY <1>3, <1>4 DEF OneTaskOf
<1>6. \A w \in Workers : ~Task(w, t)'
  BY <1>1, <1>5 DEF NoTask, Task
<1>7. EndsOnce(<<>>) /\ ~Ended(<<>>) /\ <<>> \in Seq(Events)
  BY ShortEnds
<1>8. CASE BeginChatTurn(t)
  <2>1. web'[t] = "reserve" /\ UNCHANGED <<stream, queue>> /\ attempt[t] = 0
    BY <1>0, <1>8 DEF BeginChatTurn, OneAttempt
  <2>2. stream[t] = <<>> /\ NoTask(t)'
    BY <1>3, <1>5, <1>6, <2>1 DEF StreamedOf, NoTask
  <2> QED  BY <1>1, <1>2, <1>6, <1>7, <2>1, <2>2 DEF StreamedOf
<1>9. CASE Reserve(t)
  <2>1. /\ web[t] = "reserve" /\ web'[t] \in {"publish", "fail"}
        /\ UNCHANGED <<attempt, stream, queue>>
    BY <1>0, <1>9 DEF Reserve, dbVars
  <2>2. stream[t] = <<>> /\ NoTask(t)'
    BY <1>3, <1>5, <1>6, <2>1 DEF StreamedOf, NoTask
  <2> QED  BY <1>1, <1>2, <1>6, <1>7, <2>1, <2>2 DEF StreamedOf
<1>10. CASE Publish(t)
  <2>1. PICK e \in {<<>>, <<"meta">>, <<"meta", "queued">>} :
          Emit(t, e) /\ (web' = [web EXCEPT ![t] = "enqueue"] => e = <<"meta", "queued">>)
    <3>1. CASE /\ Emit(t, <<"meta", "queued">>)
               /\ web' = [web EXCEPT ![t] = "enqueue"]
      BY <3>1
    <3>2. CASE /\ \E done \in {<<>>, <<"meta">>, <<"meta", "queued">>} : Emit(t, done)
               /\ web' = [web EXCEPT ![t] = "release"]
      <4>1. web'[t] = "release"
        BY <1>0, <3>2
      <4>2. web' # [web EXCEPT ![t] = "enqueue"]
        BY <1>0, <4>1
      <4> QED  BY <3>2, <4>2
    <3> QED  BY <1>10, <3>1, <3>2 DEF Publish
  <2>2. /\ web[t] = "publish" /\ UNCHANGED <<attempt, queue>>
        /\ (web'[t] = "enqueue" /\ e = <<"meta", "queued">>) \/ web'[t] = "release"
    BY <1>0, <1>10, <2>1 DEF Publish, dbVars
  <2>3. stream[t] = <<>>
    BY <1>3, <2>2 DEF StreamedOf
  <2>4. e \in Seq(Events) /\ EndsOnce(e) /\ ~Ended(e) /\ (e = <<"meta", "queued">> => Announced(e))
    <3>1. CASE e = <<>>
      BY <1>7, <3>1
    <3>2. CASE e = <<"meta">>
      BY <3>2, ShortEnds DEF Events, TerminalEvents
    <3>3. CASE e = <<"meta", "queued">>
      <4>1. e \in Seq(Events) /\ Len(e) = 2 /\ DOMAIN e = 1..2 /\ e[1] = "meta" /\ e[2] = "queued"
        BY <3>3 DEF Events
      <4> QED  BY <4>1 DEF EndsOnce, Ended, Announced, TerminalEvents
    <3> QED  BY <2>1, <3>1, <3>2, <3>3
  <2>5. stream'[t] = e
    <3>1. stream'[t] = stream[t] \o e
      BY <1>0, <2>1 DEF Emit
    <3> QED  BY <2>3, <2>4, <3>1, ConcatEmptySeq
  <2>6. NoTask(t)' /\ attempt'[t] # 0
    BY <1>5, <1>6, <2>2 DEF NoTask
  <2> QED  BY <1>1, <1>2, <2>2, <2>4, <2>5, <2>6 DEF StreamedOf
<1>11. CASE Enqueue(t)
  <2>1. /\ web[t] = "enqueue" /\ web'[t] \in {"idle", "undo"} /\ UNCHANGED <<attempt, stream>>
    BY <1>0, <1>11 DEF Enqueue, dbVars
  <2>2. Announced(stream[t]) /\ ~Ended(stream[t]) /\ EndsOnce(stream[t]) /\ attempt'[t] # 0
    BY <1>3, <1>5, <2>1 DEF StreamedOf
  <2> QED  BY <1>1, <1>2, <2>1, <2>2 DEF StreamedOf
<1>12. CASE UndoEvent(t)
  <2>1. /\ web[t] = "undo" /\ web'[t] = "release" /\ UNCHANGED <<attempt, queue>>
        /\ Emit(t, <<"error">>) \/ UNCHANGED stream
    BY <1>0, <1>12 DEF UndoEvent, dbVars
  <2>2. EndsOnce(stream[t]) /\ ~Ended(stream[t])
    BY <1>3, <2>1 DEF StreamedOf
  <2>3. EndsOnce(stream'[t])
    <3>1. CASE UNCHANGED stream
      BY <2>2, <3>1
    <3>2. CASE Emit(t, <<"error">>)
      <4>1. stream'[t] = stream[t] \o <<"error">>
        BY <1>0, <3>2 DEF Emit
      <4>2. <<"error">> \in Seq(Events) /\ EndsOnce(<<"error">>)
        BY ShortEnds DEF Events, TerminalEvents
      <4>3. \A e \in Seq(Events) : EndsOnce(e) => EndsOnce(stream[t] \o e)
        BY <1>0, <2>2, AppendEnds
      <4> QED  BY <4>1, <4>2, <4>3
    <3> QED  BY <2>1, <3>1, <3>2
  <2>4. NoTask(t)' /\ attempt'[t] # 0
    BY <1>5, <1>6, <2>1 DEF NoTask
  <2> QED  BY <1>1, <1>2, <1>6, <2>1, <2>3, <2>4 DEF StreamedOf
<1>13. CASE UndoReservation(t) \/ FailActiveTurn(t)
  <2>1. /\ web[t] # "idle" /\ web'[t] \in {"fail", "idle"} /\ UNCHANGED <<attempt, queue, stream>>
    BY <1>0, <1>13 DEF UndoReservation, FailActiveTurn, SaveRow, dbVars
  <2>2. NoTask(t)' /\ attempt'[t] # 0 /\ EndsOnce(stream[t])
    BY <1>3, <1>5, <1>6, <2>1 DEF NoTask, StreamedOf
  <2> QED  BY <1>1, <1>2, <1>6, <2>1, <2>2 DEF StreamedOf
<1> QED
  BY <1>1, <1>2, <1>8, <1>9, <1>10, <1>11, <1>12, <1>13 DEF Web

(* Every step keeps the streams of one ending. *)
LEMMA NextStreamed ==
    ASSUME OneAttempt, IInv, OneTask, Streamed, [Next]_vars
    PROVE  Streamed'
<1>0. /\ work \in [Workers -> WorkerStates] /\ queue \in [Turns -> Nat]
  BY DEF IInv, TypeOK
<1>1. CASE UNCHANGED <<attempt, web, queue, work, stream>>
  BY <1>1, UntouchedStreamed DEF Streamed, Task
<1>2. ASSUME NEW w \in Workers, WorkerStep(w)
      PROVE  Streamed'
  <2>0. PICK t \in Turns : t = work[w].turn
    BY <1>2, StepFrame
  <2>1. /\ work[w].pc # "idle" /\ UNCHANGED <<web, attempt>>
        /\ \A v \in Workers \ {w} : work'[v] = work[v]
        /\ work'[w].pc = "idle" \/ work'[w].turn = t
        /\ queue' = queue \/ queue' = [queue EXCEPT ![t] = @ + 1]
    BY <1>2, <2>0, StepFrame
  <2>2. Task(w, t) /\ StreamedOf(t) /\ OneTaskOf(t)
    BY <2>0, <2>1 DEF Task, Streamed, OneTask
  <2>3. ~Unsent(t) /\ ~NoTask(t) /\ \A v \in Workers : Task(v, t) => v = w
    BY <2>2 DEF OneTaskOf, NoTask
  <2>4. EndsOnce(stream[t]) /\ Announced(stream[t]) /\ (Ended(stream[t]) => work[w].pc \in Silent)
    BY <2>2, <2>3 DEF StreamedOf
  <2>5. /\ EndsOnce(stream'[t]) /\ Announced(stream'[t])
        /\ Ended(stream'[t]) => work'[w].pc \in Silent \cup {"idle"}
        /\ \A u \in Turns : u # t => stream'[u] = stream[u]
    BY <1>2, <2>0, <2>4, StepStreamed
  <2>6. StreamedOf(t)'
    <3>1. \A v \in Workers : Task(v, t)' => v = w /\ work'[w].pc # "idle"
      BY <2>1, <2>3 DEF Task
    <3>2. attempt'[t] # 0 /\ web'[t] = "idle"
      BY <2>1, <2>3 DEF Unsent
    <3> QED  BY <2>5, <3>1, <3>2 DEF StreamedOf
  <2>7. ASSUME NEW u \in Turns, u # t PROVE StreamedOf(u)'
    <3>1. \A v \in Workers : Task(v, u)' => Task(v, u) /\ work'[v] = work[v]
      BY <2>1, <2>7 DEF Task
    <3>2. queue'[u] = queue[u]
      BY <1>0, <2>1, <2>7
    <3> QED  BY <2>1, <2>5, <2>7, <3>1, <3>2, UntouchedStreamed DEF Streamed
  <2> QED  BY <2>6, <2>7 DEF Streamed
<1>3. ASSUME NEW w \in Workers, NEW t \in Turns, Deliver(w, t)
      PROVE  Streamed'
  <2>1. /\ queue[t] > 0 /\ queue' = [queue EXCEPT ![t] = @ - 1]
        /\ work' = [work EXCEPT ![w] = [Idle EXCEPT !.pc = "renew", !.turn = t]]
        /\ UNCHANGED <<web, attempt, stream>>
    BY <1>3 DEF Deliver, dbVars
  <2>2. /\ \A v \in Workers \ {w} : work'[v] = work[v]
        /\ work'[w].pc = "renew" /\ work'[w].turn = t
    BY <1>0, <2>1 DEF Idle
  <2> SUFFICES ASSUME NEW u \in Turns PROVE StreamedOf(u)'
    BY DEF Streamed
  <2>3. StreamedOf(u)
    BY DEF Streamed
  <2>4. CASE u # t
    <3>1. queue'[u] = queue[u] /\ \A v \in Workers : Task(v, u)' => Task(v, u) /\ work'[v] = work[v]
      BY <1>0, <2>1, <2>2, <2>4 DEF Task
    <3> QED  BY <2>1, <2>3, <3>1, UntouchedStreamed
  <2>5. CASE u = t
    <3>1. Announced(stream[u])
      BY <1>0, <2>1, <2>3, <2>5 DEF StreamedOf, NoTask
    <3>2. \A v \in Workers : Task(v, u)' => v = w \/ (Task(v, u) /\ work'[v] = work[v])
      BY <2>2 DEF Task
    <3>3. "renew" \in Silent
      BY DEF Silent
    <3>4. Ended(stream[u]) => \A v \in Workers : Task(v, u)' => work'[v].pc \in Silent
      BY <2>2, <2>3, <3>2, <3>3 DEF StreamedOf
    <3> QED  BY <2>1, <2>3, <3>1, <3>4 DEF StreamedOf
  <2> QED  BY <2>4, <2>5
<1>4. ASSUME NEW w \in Workers, Crash(w)
      PROVE  Streamed'
  <2>1. /\ work' = [work EXCEPT ![w] = Idle] /\ work[w].pc # "idle"
        /\ queue' = [queue EXCEPT ![work[w].turn] = @ + 1] /\ UNCHANGED <<web, attempt, stream>>
    BY <1>4 DEF Crash, dbVars
  <2>2. PICK t \in Turns : t = work[w].turn
    BY <2>1 DEF IInv, WorkerFacts
  <2>3. work'[w].pc = "idle" /\ \A v \in Workers \ {w} : work'[v] = work[v]
    BY <1>0, <2>1 DEF Idle
  <2> SUFFICES ASSUME NEW u \in Turns PROVE StreamedOf(u)'
    BY DEF Streamed
  <2>4. StreamedOf(u) /\ \A v \in Workers : Task(v, u)' => Task(v, u) /\ work'[v] = work[v]
    BY <2>3 DEF Streamed, Task
  <2>5. CASE u # t
    <3>1. queue'[u] = queue[u]
      BY <1>0, <2>1, <2>2, <2>5
    <3> QED  BY <2>1, <2>4, <3>1, UntouchedStreamed
  <2>6. CASE u = t
    <3>1. ~NoTask(u)
      BY <2>1, <2>2, <2>6 DEF NoTask, Task
    <3> QED  BY <2>1, <2>4, <3>1 DEF StreamedOf
  <2> QED  BY <2>5, <2>6
<1>5. ASSUME NEW w \in Workers, LoseLease(w)
      PROVE  Streamed'
  <2>1. UNCHANGED <<web, attempt, stream, queue>>
    BY <1>5 DEF LoseLease, dbVars
  <2>2. \A v \in Workers : work'[v].pc = work[v].pc /\ work'[v].turn = work[v].turn
    BY <1>0, <1>5 DEF LoseLease, WorkerStates
  <2>3. \A t \in Turns : StreamedOf(t)'
    BY <2>1, <2>2, UntouchedStreamed DEF Streamed, Task
  <2> QED  BY <2>3 DEF Streamed
<1>6. ASSUME NEW t \in Turns, BeginChatTurn(t) \/ Web(t)
      PROVE  Streamed'
  <2>1. /\ StreamedOf(t)' /\ UNCHANGED work
        /\ \A u \in Turns : u # t => /\ attempt'[u] = attempt[u] /\ web'[u] = web[u]
                                     /\ queue'[u] = queue[u] /\ stream'[u] = stream[u]
    BY <1>6, WebStreamed
  <2>2. ASSUME NEW u \in Turns, u # t PROVE StreamedOf(u)'
    BY <2>1, <2>2, UntouchedStreamed DEF Streamed, Task
  <2> QED  BY <2>1, <2>2 DEF Streamed
<1>7. CASE \/ \E t \in Turns : \/ RequestCancel(t) \/ ConvergeStaleTurn(t)
                              \/ GrowStale(t) \/ ReservationExpires(t)
           \/ LeaseExpires \/ RemoveMember \/ Quiet \/ UNCHANGED vars
  BY <1>1, <1>7 DEF RequestCancel, ConvergeStaleTurn, GrowStale, ReservationExpires, LeaseExpires,
     RemoveMember, Quiet, vars, dbVars
<1>8. ASSUME NEW w \in Workers, Redeliver(w) PROVE FALSE
  BY <1>8 DEF Redeliver, Fault, OneAttempt
<1> QED  BY <1>2, <1>3, <1>4, <1>5, <1>6, <1>7, <1>8 DEF Next

(***************************************************************************)
(* One attempt of the client leads to at most one terminal event, and      *)
(* nothing follows it in the stream, whatever dies or fails around the     *)
(* append (stream.replay at the start of the task).                        *)
(***************************************************************************)
THEOREM TerminalTheorem ==
    ASSUME OneAttempt
    PROVE  Spec => []NothingAfterTerminal
<1>1. Init => Streamed
  <2>1. EndsOnce(<<>>) /\ ~Ended(<<>>)
    BY ShortEnds
  <2> QED  BY <2>1 DEF Init, Streamed, StreamedOf, NoTask, Task, Idle
<1>2. IInv /\ OneTask /\ Recorded /\ [Next]_vars => OneTask' /\ Recorded'
  BY NextOneTask, NextRecorded
<1>3. IInv /\ OneTask /\ Streamed /\ [Next]_vars => Streamed'
  BY NextStreamed
<1>4. Streamed => NothingAfterTerminal
  BY DEF Streamed, StreamedOf, EndsOnce, NothingAfterTerminal
<1> QED  BY InitTask, Invariance, <1>1, <1>2, <1>3, <1>4, PTL DEF Spec
-----------------------------------------------------------------------------
(* The second setting: calls of the lease, saves and the broker fail and   *)
(* the member may be removed, but no task is lost, repeated or late.  The  *)
(* client may make any number of attempts. *)
NothingRepeats == FaultKinds \subseteq {"lease", "database", "broker", "removal"}

(* A turn that is under way, or was revoked while it was. *)
Pending == ActiveStatuses \cup {"revoked"}

(* Program counters after which a task does nothing more to its turn. *)
Spent == {"emitDone", "emitErr", "close", "finish"}

Live(w, t) == Task(w, t) /\ work[w].pc \notin Spent

(* Nobody will write the row unless asked to: no request, message or task. *)
Free(t) == web[t] = "idle" /\ queue[t] = 0 /\ \A w \in Workers : ~Live(w, t)

(***************************************************************************)
(* An attempt is with the web request, in the queue or with one live task, *)
(* and while it is anywhere its row is active or revoked.  So a failed     *)
(* turn can be begun again: nobody is left to overwrite the new attempt.   *)
(***************************************************************************)
AttendedOf(t) ==
    /\ queue[t] \in {0, 1}
    /\ web[t] # "idle" => queue[t] = 0
    /\ \A v \in Workers : Live(v, t) =>
         /\ web[t] = "idle" /\ queue[t] = 0
         /\ \A w \in Workers : Live(w, t) => v = w
         /\ work[v].pc \in MaySave => work[v].mem \in ActiveStatuses
    /\ \A w \in Workers : Task(w, t) => work[w].goal \notin {"store", "retry"}
    /\ Free(t) \/ (row[t].status \in Pending /\ ~stale[t])
    /\ row[t].status # "completed" => answers[t] = 0

Attended == \A t \in Turns : AttendedOf(t)

(* How a step may change a turn: not at all, or as the contract says. *)
Kept(t) ==
    /\ PhaseOf(row'[t].status) = PhaseOf(row[t].status)
    /\ attempt'[t] = attempt[t] /\ answers'[t] = answers[t]

Ends(t) ==
    /\ row[t].status \in Pending /\ row'[t].status \in {"failed", "cancelled"}
    /\ attempt'[t] = attempt[t] /\ answers'[t] = answers[t]

Completes(t) ==
    /\ row[t].status \in ActiveStatuses /\ row'[t].status = "completed"
    /\ attempt'[t] = attempt[t] /\ answers[t] = 0 /\ answers'[t] = 1

Begins(t) ==
    /\ row[t].status \in {"none", "failed"} /\ row'[t].status = "accepted"
    /\ attempt'[t] = attempt[t] + 1 /\ answers'[t] = answers[t]

(* The task that runs a revoked turn saves over it. *)
Resumes(t) ==
    /\ row[t].status = "revoked" /\ row'[t].status \in ActiveStatuses
    /\ attempt'[t] = attempt[t] /\ answers'[t] = answers[t]

Moves(t) == Kept(t) \/ Ends(t) \/ Completes(t) \/ Begins(t) \/ Resumes(t)

(* Such a change of one turn is a step of the contract. *)
LEMMA MoveImplements ==
    ASSUME TypeOK, TypeOK', NEW t \in Turns, Moves(t), \A u \in Turns : u # t => Kept(u)
    PROVE  [Contract!Next]_(Contract!vars)
<1> DEFINE ph == [u \in Turns |-> PhaseOf(row[u].status)]
           qh == [u \in Turns |-> PhaseOf(row'[u].status)]
<1>1. /\ attempt \in [Turns -> 0..MaxAttempts] /\ attempt' \in [Turns -> 0..MaxAttempts]
      /\ answers \in [Turns -> Nat] /\ answers' \in [Turns -> Nat]
  BY DEF TypeOK
<1>2. \A u \in Turns : u # t => qh[u] = ph[u] /\ attempt'[u] = attempt[u] /\ answers'[u] = answers[u]
  BY DEF Kept
<1>3. qh = [ph EXCEPT ![t] = qh[t]]
  BY <1>2
<1>4. attempt' = [attempt EXCEPT ![t] = attempt'[t]] /\ answers' = [answers EXCEPT ![t] = answers'[t]]
  BY <1>1, <1>2
<1>5. CASE Kept(t)
  <2>1. qh[t] = ph[t] /\ attempt'[t] = attempt[t] /\ answers'[t] = answers[t]
    BY <1>5 DEF Kept
  <2>2. qh = ph /\ attempt' = attempt /\ answers' = answers
    BY <1>1, <1>2, <2>1
  <2> QED  BY <2>2 DEF Contract!vars
<1>6. CASE Ends(t)
  <2>1. /\ ph[t] \in {"active", "revoked"} /\ qh[t] \in {"failed", "cancelled"}
        /\ attempt' = attempt /\ answers' = answers
    BY <1>1, <1>4, <1>6 DEF Ends, PhaseOf, ActiveStatuses, Pending
  <2>2. Contract!Fail(t) \/ Contract!Cancel(t) \/ Contract!Overrule(t)
    BY <1>3, <2>1 DEF Contract!Fail, Contract!Cancel, Contract!Overrule, Contract!Move
  <2> QED  BY <2>2 DEF Contract!Next
<1>9. CASE Resumes(t)
  <2>1. ph[t] = "revoked" /\ qh[t] = "active" /\ attempt' = attempt /\ answers' = answers
    BY <1>1, <1>4, <1>9 DEF Resumes, PhaseOf, ActiveStatuses
  <2>2. Contract!Overrule(t)
    BY <1>3, <2>1 DEF Contract!Overrule, Contract!Move
  <2> QED  BY <2>2 DEF Contract!Next
<1>7. CASE Completes(t)
  <2>1. /\ ph[t] = "active" /\ qh[t] = "completed" /\ attempt' = attempt
        /\ answers[t] = 0 /\ answers' = [answers EXCEPT ![t] = 1]
    BY <1>1, <1>4, <1>7 DEF Completes, PhaseOf, ActiveStatuses, Pending
  <2>2. Contract!Complete(t)
    BY <1>3, <2>1 DEF Contract!Complete, Contract!Move
  <2> QED  BY <2>2 DEF Contract!Next
<1>8. CASE Begins(t)
  <2>1. /\ ph[t] \in {"absent", "failed"} /\ qh[t] = "active" /\ answers' = answers
        /\ attempt' = [attempt EXCEPT ![t] = @ + 1]
    BY <1>1, <1>4, <1>8 DEF Begins, PhaseOf, ActiveStatuses, Pending
  <2>2. Contract!Begin(t)
    BY <1>3, <2>1 DEF Contract!Begin, Contract!Move
  <2> QED  BY <2>2 DEF Contract!Next
<1> QED  BY <1>5, <1>6, <1>7, <1>8, <1>9 DEF Moves

(* The removal of the member is the contract's. *)
LEMMA RemovalImplements ==
    ASSUME IInv, RemoveMember
    PROVE  [Contract!Next]_(Contract!vars)
<1> DEFINE ph == [u \in Turns |-> PhaseOf(row[u].status)]
           qh == [u \in Turns |-> PhaseOf(row'[u].status)]
<1>0. UNCHANGED <<attempt, answers>>
  BY RemovalFrame
<1>1. CASE \A t \in Turns : row'[t] = row[t]
  <2>1. qh = ph
    BY <1>1
  <2> QED  BY <1>0, <2>1 DEF Contract!vars
<1>2. CASE \A t \in Turns : /\ row[t].status \in ActiveStatuses => row'[t].status = "revoked"
                            /\ row[t].status \notin ActiveStatuses => row'[t] = row[t]
  <2>1. \A t \in Turns : qh[t] = IF ph[t] = "active" THEN "revoked" ELSE ph[t]
    <3> SUFFICES ASSUME NEW t \in Turns
                 PROVE  qh[t] = IF ph[t] = "active" THEN "revoked" ELSE ph[t]
      OBVIOUS
    <3>1. row[t].status \in Statuses
      BY DEF IInv, TypeOK
    <3>2. CASE row[t].status \in ActiveStatuses
      <4>1. row'[t].status = "revoked"
        BY <1>2, <3>2
      <4> QED  BY <3>2, <4>1 DEF PhaseOf, ActiveStatuses
    <3>3. CASE row[t].status \notin ActiveStatuses
      <4>1. row'[t].status = row[t].status
        BY <1>2, <3>3
      <4>2. PhaseOf(row[t].status) # "active"
        BY <3>1, <3>3 DEF PhaseOf, ActiveStatuses, Statuses
      <4> QED  BY <4>1, <4>2
    <3> QED  BY <3>2, <3>3
  <2>2. qh = [t \in Turns |-> IF ph[t] = "active" THEN "revoked" ELSE ph[t]]
    BY <2>1
  <2>3. Contract!Revoke
    BY <1>0, <2>2 DEF Contract!Revoke
  <2> QED  BY <2>3 DEF Contract!Next
<1> QED  BY <1>1, <1>2, RemovalFrame

(* A turn that a step does not touch. *)
LEMMA UntouchedAttended ==
    ASSUME NEW t \in Turns, AttendedOf(t),
           row'[t] = row[t], stale'[t] = stale[t], answers'[t] = answers[t],
           web'[t] = web[t], queue'[t] = queue[t],
           \A w \in Workers : Task(w, t)' =>
             /\ Task(w, t) /\ work'[w].pc = work[w].pc /\ work'[w].mem = work[w].mem
             /\ work'[w].goal = work[w].goal
    PROVE  AttendedOf(t)'
<1>1. \A w \in Workers : Live(w, t)' => Live(w, t)
  BY DEF Live
<1> QED  BY <1>1 DEF AttendedOf, Free, Live

(* A live task goes on with an active row, or is through with its turn. *)
LEMMA LiveAttended ==
    ASSUME NEW t \in Turns, AttendedOf(t), NEW w \in Workers, Live(w, t),
           UNCHANGED <<web, queue>>, \A v \in Workers \ {w} : work'[v] = work[v],
           work'[w].goal \notin {"store", "retry"},
           work'[w].pc \in MaySave => work'[w].mem \in ActiveStatuses,
           work'[w].pc \in Spent \/ (row'[t].status \in Pending /\ ~stale'[t]),
           row'[t].status # "completed" => answers'[t] = 0
    PROVE  AttendedOf(t)'
<1>1. \A v \in Workers : Live(v, t)' => v = w
  BY DEF AttendedOf, Live, Task
<1>2. web[t] = "idle" /\ queue[t] = 0
  BY DEF AttendedOf
<1>3. \A v \in Workers : Task(v, t)' => work'[v].goal \notin {"store", "retry"}
  BY DEF AttendedOf, Task
<1>4. Free(t)' \/ (row'[t].status \in Pending /\ ~stale'[t])
  BY <1>1, <1>2 DEF Free, Live
<1> QED  BY <1>1, <1>2, <1>3, <1>4 DEF AttendedOf

(* A task that is through with its turn only cleans up. *)
LEMMA SpentAttended ==
    ASSUME NEW t \in Turns, AttendedOf(t), NEW w \in Workers, Task(w, t), ~Live(w, t),
           UNCHANGED <<row, stale, answers, web, queue>>,
           \A v \in Workers \ {w} : work'[v] = work[v],
           work'[w].pc = "idle" \/ (work'[w].pc \in Spent /\ work'[w].goal = work[w].goal)
    PROVE  AttendedOf(t)'
<1>1. \A v \in Workers : Live(v, t)' => Live(v, t) /\ v # w
  BY DEF Live, Task
<1>2. \A v \in Workers : Task(v, t)' => work'[v].goal \notin {"store", "retry"}
  BY DEF AttendedOf, Task
<1> QED  BY <1>1, <1>2 DEF AttendedOf, Free

(* Faults that the second setting leaves out. *)
LEMMA NoSuchFault ==
    ASSUME NothingRepeats
    PROVE  /\ ~Fault("crash") /\ ~Fault("store") /\ ~Fault("capacity")
           /\ ~Fault("ambiguous") /\ ~Fault("slow")
           /\ "slow" \notin FaultKinds /\ "delay" \notin FaultKinds
BY DEF NothingRepeats, Fault

(* Each step of a worker. *)
LEMMA StepAttended ==
    ASSUME NothingRepeats, IInv, NEW w \in Workers, NEW t \in Turns, t = work[w].turn,
           AttendedOf(t), WorkerStep(w)
    PROVE  /\ AttendedOf(t)' /\ Moves(t)
           /\ \A u \in Turns : u # t =>
                row'[u] = row[u] /\ stale'[u] = stale[u] /\ answers'[u] = answers[u]
           /\ UNCHANGED <<web, queue, attempt>>
<1> DEFINE Goal == /\ AttendedOf(t)' /\ Moves(t)
                   /\ \A u \in Turns : u # t =>
                        row'[u] = row[u] /\ stale'[u] = stale[u] /\ answers'[u] = answers[u]
                   /\ UNCHANGED <<web, queue, attempt>>
           Same == UNCHANGED <<row, stale, answers>>
           Goes == work'[w].goal = work[w].goal \/ work'[w].goal \in {"failed", "cancelled"}
           Copies == work'[w].pc \in MaySave =>
                       \/ work[w].pc \in MaySave /\ work'[w].mem = work[w].mem
                       \/ work'[w].mem = row[t].status /\ row[t].status # "revoked"
<1>0. /\ work[w] \in WorkerStates /\ work \in [Workers -> WorkerStates]
      /\ row \in [Turns -> [status : Statuses, msg : Nat]] /\ answers \in [Turns -> Nat]
      /\ stale \in [Turns -> BOOLEAN]
  BY DEF IInv, TypeOK
<1>1. /\ Task(w, t) /\ UNCHANGED <<web, attempt>>
      /\ \A v \in Workers \ {w} : work'[v] = work[v]
      /\ work'[w].pc # "idle" => queue' = queue /\ work'[w].turn = t
  BY StepFrame DEF Task
<1>2. work[w].goal \notin {"store", "retry"}
  BY <1>1 DEF AttendedOf
<1>3. Same => Moves(t) /\ \A u \in Turns : row'[u] = row[u] /\ stale'[u] = stale[u] /\ answers'[u] = answers[u]
  BY <1>1 DEF Moves, Kept
<1>4. Live(w, t) => /\ web[t] = "idle" /\ queue[t] = 0
                    /\ row[t].status \in Pending /\ ~stale[t] /\ answers[t] = 0
                    /\ work[w].pc \in MaySave => work[w].mem \in ActiveStatuses
  BY DEF AttendedOf, Free, ActiveStatuses, Pending
<1>5. work[w].pc \notin Spent => Live(w, t)
  BY <1>1 DEF Live
(* A step that leaves the row alone. *)
<1>6. Live(w, t) /\ Same /\ work'[w].pc # "idle" /\ Goes /\ Copies => Goal
  <2> SUFFICES ASSUME Live(w, t), Same, work'[w].pc # "idle", Goes, Copies PROVE Goal
    OBVIOUS
  <2>1. work'[w].goal \notin {"store", "retry"}
    BY <1>2
  <2>2. work'[w].pc \in MaySave => work'[w].mem \in ActiveStatuses
    BY <1>4 DEF Pending
  <2>3. AttendedOf(t)'
    BY <1>1, <1>4, <2>1, <2>2, LiveAttended
  <2> QED  BY <1>1, <1>3, <2>3
<1>7. CASE RenewCapacity(w) \/ LoadTurn(w) \/ AcquireLease(w) \/ StopAtCheck(w) \/ PassCheck(w)
  <2>1. Same /\ work[w].pc \notin Spent
    BY <1>7 DEF RenewCapacity, LoadTurn, AcquireLease, StopAtCheck, PassCheck, CheckPoints, dbVars, Spent
  <2>2. CASE RenewCapacity(w)
    <3>1. work'[w].pc \in {"replay", "taskRead"} /\ work'[w].goal = work[w].goal
      BY <1>0, <2>2, NoSuchFault DEF RenewCapacity, Goto, WorkerStates
    <3> QED  BY <1>5, <1>6, <2>1, <3>1 DEF MaySave, Generating
  <2>3. CASE LoadTurn(w)
    <3>1. /\ work'[w].mem = row[t].status /\ work'[w].goal = work[w].goal
          /\ work'[w].pc = "finish" \/ (work'[w].pc = "acquire" /\ row[t].status # "revoked")
      BY <1>0, <2>3 DEF LoadTurn, WorkerStates
    <3> QED  BY <1>5, <1>6, <2>1, <3>1 DEF MaySave, Generating
  <2>4. CASE AcquireLease(w)
    <3>1. /\ work'[w].pc \in {"checkR", "close", "mark"} /\ work'[w].mem = work[w].mem /\ Goes
          /\ work[w].pc = "acquire"
      BY <1>0, <2>4 DEF AcquireLease, Goto, Raise, WorkerStates
    <3> QED  BY <1>5, <1>6, <2>1, <3>1 DEF MaySave
  <2>5. CASE StopAtCheck(w)
    <3>1. /\ work'[w].pc = "mark" /\ work'[w].mem = work[w].mem /\ Goes
          /\ work[w].pc \in CheckPoints
      BY <1>0, <2>5 DEF StopAtCheck, Raise, WorkerStates
    <3> QED  BY <1>5, <1>6, <2>1, <3>1 DEF MaySave, CheckPoints, Generating
  <2>6. CASE PassCheck(w)
    <3>1. /\ work'[w].pc \in Generating /\ work'[w].mem = work[w].mem /\ Goes
          /\ work[w].pc \in CheckPoints
      BY <1>0, <2>6 DEF PassCheck, Goto, WorkerStates, Generating
    <3> QED  BY <1>5, <1>6, <2>1, <3>1 DEF MaySave, CheckPoints, Generating
  <2> QED  BY <1>7, <2>2, <2>3, <2>4, <2>5, <2>6
<1>8. CASE PipelineToken(w) \/ PipelineEnds(w) \/ PipelineFails(w) \/ FlushText(w)
  <2>1. Same /\ work[w].pc \notin Spent /\ work[w].pc \in MaySave
    BY <1>8 DEF PipelineToken, PipelineEnds, PipelineFails, FlushText, dbVars, Spent, MaySave, Generating
  <2>2. work'[w].mem = work[w].mem /\ Goes /\ work'[w].pc # "idle"
    BY <1>0, <1>8 DEF PipelineToken, PipelineEnds, PipelineFails, FlushText, Goto, Raise, WorkerStates
  <2> QED  BY <1>5, <1>6, <2>1, <2>2
<1>9. CASE Replay(w) \/ EmitRetrieving(w)
  <2>1. /\ Same /\ \/ work[w].pc = "replay" /\ (Goto(w, "finish") \/ Goto(w, "load"))
                   \/ work[w].pc = "emitR" /\ Goto(w, "loop")
    BY <1>9, Zenon DEF Replay, EmitRetrieving, dbVars
  <2>2. /\ work'[w].pc \in {"finish", "load"} \/ (work'[w].pc = "loop" /\ work[w].pc = "emitR")
        /\ work'[w].mem = work[w].mem /\ work'[w].goal = work[w].goal
    BY <1>0, <2>1, MoveFrame
  <2> QED  BY <1>5, <1>6, <2>1, <2>2 DEF MaySave, Generating, Spent
<1>10. CASE EmitTerminal(w) \/ Close(w) \/ Finish(w)
  <2>1. Same /\ work[w].pc \in Spent
    BY <1>10, Zenon DEF EmitTerminal, Close, Finish, dbVars, Spent
  <2>2. /\ queue' = queue
        /\ work'[w].pc = "idle" \/ (work'[w].pc \in Spent /\ work'[w].goal = work[w].goal)
    <3>1. CASE EmitTerminal(w)
      <4>1. Goto(w, "close") /\ queue' = queue
        BY <3>1, Zenon DEF EmitTerminal
      <4> QED  BY <1>0, <4>1, MoveFrame DEF Spent
    <3>2. CASE Close(w)
      <4>1. Goto(w, "finish") /\ queue' = queue
        BY <1>2, <3>2 DEF Close
      <4> QED  BY <1>0, <4>1, MoveFrame DEF Spent
    <3>3. CASE Finish(w)
      <4>1. work' = [work EXCEPT ![w] = Idle] /\ queue' = queue
        BY <1>2, <3>3 DEF Finish
      <4> QED  BY <1>0, <4>1 DEF Idle
    <3> QED  BY <1>10, <3>1, <3>2, <3>3
  <2>3. AttendedOf(t)'
    BY <1>1, <2>1, <2>2, SpentAttended DEF Live
  <2> QED  BY <1>1, <1>3, <2>1, <2>2, <2>3
<1>11. CASE TaskRead(w)
  <2>1. Same /\ work[w].pc \notin Spent
    BY <1>11 DEF TaskRead, dbVars, Spent
  <2>2. /\ work'[w].mem = row[t].status /\ work'[w].goal = work[w].goal
        /\ work'[w].pc = "finish" \/ (work'[w].pc = "taskSave" /\ row[t].status \in ActiveStatuses)
    BY <1>0, <1>11 DEF TaskRead, WorkerStates
  <2> QED  BY <1>5, <1>6, <2>1, <2>2 DEF MaySave, Generating, ActiveStatuses
<1>12. CASE TaskSave(w) \/ Mark(w)
  <2>1. work[w].pc \in {"taskSave", "mark"} /\ UNCHANGED answers
    BY <1>12 DEF TaskSave, Mark, SaveRow, dbVars
  <2>2. Live(w, t)
    BY <1>5, <2>1 DEF Spent
  <2>3. work'[w].pc \in {"finish", "emitErr"} /\ work'[w].goal = work[w].goal
    BY <1>0, <1>12 DEF TaskSave, Mark, Goto, WorkerStates
  <2>4. work[w].pc = "mark" => work[w].goal \in {"failed", "cancelled"}
    BY DEF IInv, WorkerFacts
  <2>5. \/ UNCHANGED <<row, stale>>
        \/ /\ \/ row' = [row EXCEPT ![t] = [status |-> "failed", msg |-> work[w].msg]]
              \/ row' = [row EXCEPT ![t] = [status |-> "cancelled", msg |-> work[w].msg]]
           /\ stale' = [stale EXCEPT ![t] = FALSE]
    BY <1>12, <2>4 DEF TaskSave, Mark, SaveRow, dbVars
  <2>6. /\ row'[t] = row[t] \/ row'[t].status \in {"failed", "cancelled"}
        /\ \A u \in Turns : u # t => row'[u] = row[u] /\ stale'[u] = stale[u]
    BY <1>0, <2>5
  <2>7. AttendedOf(t)'
    <3>1. work'[w].pc \in Spent /\ work'[w].pc \notin MaySave
      BY <2>3 DEF Spent, MaySave, Generating
    <3>2. work'[w].goal \notin {"store", "retry"} /\ answers'[t] = 0 /\ UNCHANGED <<web, queue>>
      BY <1>1, <1>2, <1>4, <2>1, <2>2, <2>3
    <3> QED  BY <1>1, <2>2, <3>1, <3>2, LiveAttended
  <2>8. Moves(t)
    BY <1>1, <1>4, <2>1, <2>2, <2>6 DEF Moves, Kept, Ends
  <2> QED  BY <1>1, <2>1, <2>3, <2>6, <2>7, <2>8
<1>13. CASE PersistCompletedTurn(w)
  <2>1. work[w].pc = "persist"
    BY <1>13 DEF PersistCompletedTurn
  <2>2. Live(w, t) /\ work[w].pc \in MaySave
    BY <1>5, <2>1 DEF Spent, MaySave, Generating
  <2>3. CASE Same /\ Raise(w, "failed")
    <3>1. work'[w].pc = "mark" /\ work'[w].mem = work[w].mem /\ Goes
      BY <1>0, <2>3 DEF Raise, WorkerStates
    <3> QED  BY <1>6, <2>2, <2>3, <3>1
  <2>4. CASE /\ answers' = [answers EXCEPT ![t] = @ + 1]
             /\ row' = [row EXCEPT ![t] = [status |-> "completed", msg |-> answers[t] + 1]]
             /\ stale' = [stale EXCEPT ![t] = FALSE]
             /\ work' = [work EXCEPT ![w].pc = "emitDone", ![w].mem = "completed", ![w].msg = answers[t] + 1]
             /\ row[t].status # "revoked"
    <3>1. /\ answers'[t] = 1 /\ row'[t].status = "completed"
          /\ work'[w].pc = "emitDone" /\ work'[w].goal = work[w].goal
          /\ \A u \in Turns : u # t =>
               row'[u] = row[u] /\ stale'[u] = stale[u] /\ answers'[u] = answers[u]
      BY <1>0, <1>4, <2>2, <2>4 DEF WorkerStates
    <3>2. AttendedOf(t)'
      BY <1>1, <1>2, <2>2, <3>1, LiveAttended DEF Spent, MaySave, Generating
    <3>3. Moves(t)
      BY <1>1, <1>4, <2>2, <2>4, <3>1 DEF Moves, Completes, Pending
    <3> QED  BY <1>1, <3>1, <3>2, <3>3
  <2>5. row[t].status # "completed"
    BY <1>4, <2>2 DEF ActiveStatuses, Pending
  <2>6. ~MayTransition("revoked", "completed")
    BY DEF MayTransition, AllowedTransitions, Statuses, ActiveStatuses
  <2> QED  BY <1>13, <2>3, <2>4, <2>5, <2>6 DEF PersistCompletedTurn, dbVars
<1>14. ASSUME NEW from \in {"saveR", "saveA", "saveS"}, NEW status \in ActiveStatuses,
              NEW to \in {"emitR", "loop", "checkP"}, Transition(w, from, status, to)
       PROVE  Goal
  <2>1. work[w].pc = from /\ UNCHANGED answers
    BY <1>14 DEF Transition, SaveRow, dbVars
  <2>2. Live(w, t) /\ work[w].pc \in MaySave
    BY <1>5, <1>14, <2>1 DEF Spent, MaySave, Generating
  <2>3. /\ Goes /\ work'[w].pc # "idle"
        /\ work'[w].mem = work[w].mem \/ work'[w].mem = status
    BY <1>0, <1>14 DEF Transition, Raise, WorkerStates
  <2>4. \/ UNCHANGED <<row, stale>>
        \/ /\ row' = [row EXCEPT ![t] = [status |-> status, msg |-> work[w].msg]]
           /\ stale' = [stale EXCEPT ![t] = FALSE]
    BY <1>14 DEF Transition, SaveRow, dbVars
  <2>5. /\ row'[t] = row[t] \/ row'[t].status \in ActiveStatuses
        /\ row'[t].status \in Pending /\ ~stale'[t]
        /\ \A u \in Turns : u # t => row'[u] = row[u] /\ stale'[u] = stale[u]
    BY <1>0, <1>4, <1>14, <2>2, <2>4 DEF Pending
  <2>6. AttendedOf(t)'
    <3>1. work'[w].goal \notin {"store", "retry"} /\ work'[w].mem \in ActiveStatuses
      BY <1>2, <1>4, <1>14, <2>2, <2>3
    <3>2. answers'[t] = 0 /\ UNCHANGED <<web, queue>>
      BY <1>1, <1>4, <2>1, <2>2, <2>3
    <3> QED  BY <1>1, <2>2, <2>5, <3>1, <3>2, LiveAttended
  <2>7. Moves(t)
    BY <1>1, <1>4, <2>1, <2>2, <2>5 DEF Moves, Kept, Resumes, PhaseOf, Pending
  <2> QED  BY <1>1, <2>1, <2>3, <2>5, <2>6, <2>7
<1>15. ~StoreFails(w)
  BY NoSuchFault, Zenon DEF StoreFails
<1> HIDE DEF Goal, Same, Goes, Copies
<1>16. (\/ Transition(w, "saveR", "retrieving", "emitR")
        \/ Transition(w, "saveA", "answering", "loop")
        \/ Transition(w, "saveS", "saving", "checkP")) => Goal
  BY <1>14 DEF ActiveStatuses, Pending
<1> QED
  BY <1>7, <1>8, <1>9, <1>10, <1>11, <1>12, <1>13, <1>15, <1>16 DEF WorkerStep, Goal

(* A step that leaves turns, tasks and queue alone. *)
LEMMA QuietAttended ==
    ASSUME Attended, TypeOK, TypeOK', UNCHANGED <<row, stale, answers, attempt, web, queue>>,
           \A w \in Workers : /\ work'[w].pc = work[w].pc /\ work'[w].turn = work[w].turn
                              /\ work'[w].mem = work[w].mem /\ work'[w].goal = work[w].goal
    PROVE  Attended' /\ [Contract!Next]_(Contract!vars)
<1>1. Attended'
  BY UntouchedAttended DEF Attended, Task
<1>2. UNCHANGED Contract!vars
  BY DEF Contract!vars
<1> QED  BY <1>1, <1>2

(* The web request begins an attempt, hands it over, or fails it. *)
LEMMA WebAttended ==
    ASSUME NothingRepeats, IInv, NEW t \in Turns, AttendedOf(t), BeginChatTurn(t) \/ Web(t)
    PROVE  /\ AttendedOf(t)' /\ Moves(t) /\ UNCHANGED work
           /\ \A u \in Turns : u # t =>
                /\ row'[u] = row[u] /\ stale'[u] = stale[u] /\ answers'[u] = answers[u]
                /\ attempt'[u] = attempt[u] /\ web'[u] = web[u] /\ queue'[u] = queue[u]
<1>0. /\ row \in [Turns -> [status : Statuses, msg : Nat]] /\ stale \in [Turns -> BOOLEAN]
      /\ attempt \in [Turns -> 0..MaxAttempts] /\ queue \in [Turns -> Nat]
      /\ web \in [Turns -> {"idle", "reserve", "publish", "enqueue", "undo", "release", "fail"}]
  BY DEF IInv, TypeOK
<1>1. UNCHANGED <<work, answers>>
  BY DEF BeginChatTurn, Web, Reserve, Publish, Enqueue, UndoEvent, UndoReservation, FailActiveTurn,
     SaveRow, dbVars
<1>2. \A w \in Workers : (Task(w, t)' <=> Task(w, t)) /\ (Live(w, t)' <=> Live(w, t))
  BY <1>1 DEF Task, Live
<1>3. \A w \in Workers : Task(w, t)' => work'[w].goal \notin {"store", "retry"}
  BY <1>1, <1>2 DEF AttendedOf
<1>4. ASSUME queue[t] = 0, \A w \in Workers : ~Live(w, t), queue'[t] \in {0, 1},
             web'[t] # "idle" => queue'[t] = 0,
             \/ web'[t] = "idle" /\ queue'[t] = 0
             \/ row'[t].status \in Pending /\ ~stale'[t],
             row'[t].status # "completed" => answers[t] = 0
      PROVE  AttendedOf(t)'
  BY <1>1, <1>2, <1>3, <1>4 DEF AttendedOf, Free
<1>5. CASE BeginChatTurn(t)
  <2>1. /\ web[t] = "idle" /\ row[t].status \in {"none", "failed"} /\ UNCHANGED queue
        /\ row' = [row EXCEPT ![t] = [status |-> "accepted", msg |-> 0]]
        /\ attempt' = [attempt EXCEPT ![t] = @ + 1]
        /\ stale' = [stale EXCEPT ![t] = FALSE]
        /\ web' = [web EXCEPT ![t] = "reserve"]
    BY <1>5 DEF BeginChatTurn
  <2>2. /\ row'[t].status = "accepted" /\ attempt'[t] = attempt[t] + 1 /\ ~stale'[t]
        /\ web'[t] = "reserve" /\ queue'[t] = queue[t]
        /\ \A u \in Turns : u # t => /\ row'[u] = row[u] /\ stale'[u] = stale[u]
                                     /\ attempt'[u] = attempt[u] /\ web'[u] = web[u]
    BY <1>0, <2>1
  <2>3. queue[t] = 0 /\ (\A w \in Workers : ~Live(w, t)) /\ answers[t] = 0
    BY <2>1 DEF AttendedOf, Free, ActiveStatuses, Pending
  <2>4. AttendedOf(t)'
    BY <1>4, <2>2, <2>3 DEF ActiveStatuses, Pending
  <2>5. Moves(t)
    BY <1>1, <2>1, <2>2 DEF Moves, Begins
  <2> QED  BY <1>1, <2>1, <2>2, <2>4, <2>5
<1>6. ASSUME Web(t)
      PROVE  /\ web[t] # "idle" /\ queue[t] = 0 /\ \A w \in Workers : ~Live(w, t)
             /\ row[t].status \in Pending /\ ~stale[t] /\ answers[t] = 0
             /\ UNCHANGED attempt
  <2>1. web[t] # "idle" /\ UNCHANGED attempt
    BY <1>6 DEF Web, Reserve, Publish, Enqueue, UndoEvent, UndoReservation, FailActiveTurn, SaveRow, dbVars
  <2> QED  BY <2>1 DEF AttendedOf, Free, ActiveStatuses, Pending
<1>7. CASE Reserve(t) \/ Publish(t) \/ Enqueue(t) \/ UndoEvent(t) \/ UndoReservation(t)
  <2>1. Web(t) /\ UNCHANGED <<row, stale>>
    BY <1>7 DEF Web, Reserve, Publish, Enqueue, UndoEvent, UndoReservation, dbVars
  <2>2. \A u \in Turns : u # t => web'[u] = web[u] /\ queue'[u] = queue[u]
    BY <1>0, <1>7 DEF Reserve, Publish, Enqueue, UndoEvent, UndoReservation
  <2>3. \/ UNCHANGED queue
        \/ queue' = [queue EXCEPT ![t] = @ + 1] /\ web' = [web EXCEPT ![t] = "idle"]
    BY <1>7, NoSuchFault DEF Reserve, Publish, Enqueue, UndoEvent, UndoReservation
  <2>4. queue'[t] \in {0, 1} /\ (web'[t] # "idle" => queue'[t] = 0)
    BY <1>0, <1>6, <2>1, <2>3
  <2>5. AttendedOf(t)' /\ Moves(t)
    BY <1>1, <1>4, <1>6, <2>1, <2>4 DEF Moves, Kept
  <2> QED  BY <1>1, <1>6, <2>1, <2>2, <2>5
<1>8. CASE FailActiveTurn(t)
  <2>1. /\ Web(t) /\ UNCHANGED queue /\ web' = [web EXCEPT ![t] = "idle"]
        /\ \/ UNCHANGED <<row, stale>>
           \/ /\ row' = [row EXCEPT ![t] = [status |-> "failed", msg |-> 0]]
              /\ stale' = [stale EXCEPT ![t] = FALSE]
    BY <1>8 DEF Web, FailActiveTurn, SaveRow, dbVars
  <2>2. /\ web'[t] = "idle" /\ queue'[t] = queue[t]
        /\ row'[t] = row[t] \/ row'[t].status = "failed"
        /\ \A u \in Turns : u # t => row'[u] = row[u] /\ stale'[u] = stale[u] /\ web'[u] = web[u]
    BY <1>0, <2>1
  <2>3. AttendedOf(t)'
    BY <1>4, <1>6, <2>1, <2>2
  <2>4. Moves(t)
    BY <1>1, <1>6, <2>1, <2>2 DEF Moves, Kept, Ends
  <2> QED  BY <1>1, <1>6, <2>1, <2>2, <2>3, <2>4
<1> QED  BY <1>5, <1>7, <1>8 DEF Web

(* A slot takes the message of an attempt. *)
LEMMA DeliverAttended ==
    ASSUME IInv, Attended, NEW w \in Workers, NEW t \in Turns, Deliver(w, t)
    PROVE  Attended' /\ UNCHANGED Contract!vars
<1>0. work \in [Workers -> WorkerStates] /\ queue \in [Turns -> Nat]
  BY DEF IInv, TypeOK
<1>1. /\ work[w].pc = "idle" /\ queue[t] > 0 /\ queue' = [queue EXCEPT ![t] = @ - 1]
      /\ work' = [work EXCEPT ![w] = [Idle EXCEPT !.pc = "renew", !.turn = t]]
      /\ UNCHANGED <<row, stale, answers, attempt, web>>
  BY DEF Deliver, dbVars
<1>2. /\ \A v \in Workers \ {w} : work'[v] = work[v]
      /\ work'[w].pc = "renew" /\ work'[w].turn = t /\ work'[w].goal = "none"
  BY <1>0, <1>1 DEF Idle
<1>3. ASSUME NEW u \in Turns, u # t PROVE AttendedOf(u)'
  <2>1. queue'[u] = queue[u]
    BY <1>0, <1>1, <1>3
  <2>2. \A v \in Workers : Task(v, u)' => Task(v, u) /\ work'[v] = work[v]
    BY <1>2, <1>3 DEF Task
  <2> QED  BY <1>1, <2>1, <2>2, UntouchedAttended DEF Attended
<1>4. AttendedOf(t)'
  <2>1. AttendedOf(t)
    BY DEF Attended
  <2>2. queue[t] = 1 /\ web[t] = "idle" /\ row[t].status \in Pending /\ ~stale[t]
    BY <1>1, <2>1 DEF AttendedOf, Free
  <2>3. queue'[t] = 0 /\ web'[t] = "idle"
    BY <1>0, <1>1, <2>2
  <2>4. \A v \in Workers : ~Live(v, t)
    BY <2>1, <2>2 DEF AttendedOf
  <2>5. \A v \in Workers : Live(v, t)' => v = w
    BY <1>2, <2>4 DEF Live, Task
  <2>6. \A v \in Workers : Task(v, t)' => work'[v].goal \notin {"store", "retry"}
    BY <1>2, <2>1 DEF AttendedOf, Task
  <2>7. work'[w].pc \notin MaySave
    BY <1>2 DEF MaySave, Generating
  <2> QED  BY <1>1, <2>1, <2>2, <2>3, <2>5, <2>6, <2>7 DEF AttendedOf
<1>5. UNCHANGED Contract!vars
  BY <1>1 DEF Contract!vars
<1> QED  BY <1>3, <1>4, <1>5 DEF Attended

(* An attempt turns stale only when nobody attends to it, and a poll then  *)
(* fails it. *)
LEMMA PollAttended ==
    ASSUME NothingRepeats, IInv, NEW t \in Turns, AttendedOf(t),
           GrowStale(t) \/ ConvergeStaleTurn(t)
    PROVE  /\ AttendedOf(t)' /\ Moves(t) /\ UNCHANGED <<work, answers, attempt, web, queue>>
           /\ \A u \in Turns : u # t => row'[u] = row[u] /\ stale'[u] = stale[u]
<1>0. row \in [Turns -> [status : Statuses, msg : Nat]] /\ stale \in [Turns -> BOOLEAN]
  BY DEF IInv, TypeOK
<1>1. UNCHANGED <<work, answers, attempt, web, queue>> /\ row[t].status \in Pending
  BY DEF GrowStale, ConvergeStaleTurn, Pending
<1>2. Free(t)
  <2>1. CASE ConvergeStaleTurn(t)
    BY <2>1 DEF ConvergeStaleTurn, AttendedOf
  <2>2. CASE GrowStale(t)
    <3>1. web[t] = "idle" /\ queue[t] = 0 /\ OnTurn(t) = {}
      BY <2>2, NoSuchFault DEF GrowStale
    <3> QED  BY <3>1 DEF Free, Live, Task, OnTurn
  <2> QED  BY <2>1, <2>2
<1>3. /\ row'[t] = row[t] \/ row'[t].status = "failed"
      /\ \A u \in Turns : u # t => row'[u] = row[u] /\ stale'[u] = stale[u]
  BY <1>0 DEF GrowStale, ConvergeStaleTurn
<1>4. Free(t)'
  BY <1>1, <1>2 DEF Free, Live, Task
<1>5. row[t].status # "completed" /\ answers[t] = 0
  BY <1>1 DEF AttendedOf, ActiveStatuses, Pending
<1>6. AttendedOf(t)'
  BY <1>1, <1>4, <1>5 DEF AttendedOf, Free, Live, Task
<1>7. Moves(t)
  BY <1>1, <1>3 DEF Moves, Kept, Ends
<1> QED  BY <1>1, <1>3, <1>6, <1>7

(* Every step keeps the attempts attended and is a step of the contract. *)
LEMMA NextAttended ==
    ASSUME NothingRepeats, IInv, IInv', Attended, [Next]_vars
    PROVE  Attended' /\ [Contract!Next]_(Contract!vars)
<1>0. /\ TypeOK /\ TypeOK' /\ work \in [Workers -> WorkerStates] /\ queue \in [Turns -> Nat]
  BY DEF IInv, TypeOK
<1>1. CASE UNCHANGED <<row, stale, answers, attempt, web, queue, work>>
  BY <1>0, <1>1, QuietAttended
<1>2. ASSUME NEW w \in Workers, WorkerStep(w)
      PROVE  Attended' /\ [Contract!Next]_(Contract!vars)
  <2>0. PICK t \in Turns : t = work[w].turn
    BY <1>2, StepFrame
  <2>1. /\ AttendedOf(t)' /\ Moves(t)
        /\ \A u \in Turns : u # t =>
             row'[u] = row[u] /\ stale'[u] = stale[u] /\ answers'[u] = answers[u]
        /\ UNCHANGED <<web, queue, attempt>>
    BY <1>2, <2>0, StepAttended DEF Attended
  <2>2. /\ \A v \in Workers \ {w} : work'[v] = work[v]
        /\ work'[w].pc = "idle" \/ work'[w].turn = t
    BY <1>2, <2>0, StepFrame
  <2>3. ASSUME NEW u \in Turns, u # t PROVE AttendedOf(u)'
    <3>1. \A v \in Workers : Task(v, u)' => Task(v, u) /\ work'[v] = work[v]
      BY <2>2, <2>3 DEF Task
    <3> QED  BY <2>1, <2>3, <3>1, UntouchedAttended DEF Attended
  <2>4. \A u \in Turns : u # t => Kept(u)
    BY <2>1 DEF Kept
  <2> QED  BY <1>0, <2>1, <2>3, <2>4, MoveImplements DEF Attended
<1>3. ASSUME NEW t \in Turns, BeginChatTurn(t) \/ Web(t)
      PROVE  Attended' /\ [Contract!Next]_(Contract!vars)
  <2>1. /\ AttendedOf(t)' /\ Moves(t) /\ UNCHANGED work
        /\ \A u \in Turns : u # t =>
             /\ row'[u] = row[u] /\ stale'[u] = stale[u] /\ answers'[u] = answers[u]
             /\ attempt'[u] = attempt[u] /\ web'[u] = web[u] /\ queue'[u] = queue[u]
    BY <1>3, WebAttended DEF Attended
  <2>2. ASSUME NEW u \in Turns, u # t PROVE AttendedOf(u)'
    BY <2>1, <2>2, UntouchedAttended DEF Attended, Task
  <2>3. \A u \in Turns : u # t => Kept(u)
    BY <2>1 DEF Kept
  <2> QED  BY <1>0, <2>1, <2>2, <2>3, MoveImplements DEF Attended
<1>4. ASSUME NEW t \in Turns, GrowStale(t) \/ ConvergeStaleTurn(t)
      PROVE  Attended' /\ [Contract!Next]_(Contract!vars)
  <2>1. /\ AttendedOf(t)' /\ Moves(t) /\ UNCHANGED <<work, answers, attempt, web, queue>>
        /\ \A u \in Turns : u # t => row'[u] = row[u] /\ stale'[u] = stale[u]
    BY <1>4, PollAttended DEF Attended
  <2>2. ASSUME NEW u \in Turns, u # t PROVE AttendedOf(u)'
    BY <2>1, <2>2, UntouchedAttended DEF Attended, Task
  <2>3. \A u \in Turns : u # t => Kept(u)
    BY <2>1 DEF Kept
  <2> QED  BY <1>0, <2>1, <2>2, <2>3, MoveImplements DEF Attended
<1>5. ASSUME NEW w \in Workers, NEW t \in Turns, Deliver(w, t)
      PROVE  Attended' /\ [Contract!Next]_(Contract!vars)
  BY <1>5, DeliverAttended
<1>6. ASSUME NEW w \in Workers, LoseLease(w)
      PROVE  Attended' /\ [Contract!Next]_(Contract!vars)
  <2>1. /\ UNCHANGED <<row, stale, answers, attempt, web, queue>>
        /\ work' = work \/ work' = [work EXCEPT ![w].lost = TRUE]
    BY <1>6 DEF LoseLease, dbVars
  <2>2. \A v \in Workers : /\ work'[v].pc = work[v].pc /\ work'[v].turn = work[v].turn
                           /\ work'[v].mem = work[v].mem /\ work'[v].goal = work[v].goal
    BY <1>0, <2>1 DEF WorkerStates
  <2> QED  BY <1>0, <2>1, <2>2, QuietAttended
<1>7. CASE \/ \E t \in Turns : RequestCancel(t) \/ ReservationExpires(t)
           \/ LeaseExpires \/ Quiet \/ UNCHANGED vars
  BY <1>1, <1>7 DEF RequestCancel, ReservationExpires, LeaseExpires, Quiet, vars, dbVars
<1>8. ASSUME NEW w \in Workers, Crash(w) \/ Redeliver(w) PROVE FALSE
  BY <1>8, NoSuchFault DEF Crash, Redeliver
<1>9. CASE RemoveMember
  <2>1. /\ UNCHANGED <<attempt, answers, web, queue, work>>
        /\ \A t \in Turns : \/ row'[t] = row[t] /\ stale'[t] = stale[t]
                            \/ /\ row[t].status \in ActiveStatuses
                               /\ row'[t].status = "revoked" /\ ~stale'[t]
    BY <1>9, RemovalFrame
  <2>2. ASSUME NEW t \in Turns PROVE AttendedOf(t)'
    <3>1. AttendedOf(t)
      BY DEF Attended
    <3>2. CASE row'[t] = row[t] /\ stale'[t] = stale[t]
      BY <2>1, <3>1, <3>2, UntouchedAttended DEF Task
    <3>3. CASE row[t].status \in ActiveStatuses /\ row'[t].status = "revoked" /\ ~stale'[t]
      <4>1. answers[t] = 0
        BY <3>1, <3>3 DEF AttendedOf, ActiveStatuses
      <4>2. \A v \in Workers : (Task(v, t)' <=> Task(v, t)) /\ (Live(v, t)' <=> Live(v, t))
        BY <2>1 DEF Task, Live
      <4> QED  BY <2>1, <3>1, <3>3, <4>1, <4>2 DEF AttendedOf, Free, Pending
    <3> QED  BY <2>1, <3>2, <3>3
  <2> QED  BY <1>9, <2>2, RemovalImplements DEF Attended
<1> QED  BY <1>2, <1>3, <1>4, <1>5, <1>6, <1>7, <1>8, <1>9 DEF Next

(***************************************************************************)
(* As long as no task is lost, repeated or late, queue, workers, lease and *)
(* streams implement the turn contract, for any number of attempts: a      *)
(* failed turn that the client begins again has nobody left who writes it, *)
(* and a revoked one is overruled by nobody but the task that runs it.     *)
(***************************************************************************)
THEOREM ContractTheorem ==
    ASSUME NothingRepeats
    PROVE  Spec => ImplementsContract
<1>1. Init => Contract!Init
  BY DEF Init, Contract!Init, PhaseOf, ActiveStatuses, Pending
<1>2. Init => Attended
  BY DEF Init, Attended, AttendedOf, Free, Live, Task, Idle
<1>3. IInv /\ IInv' /\ Attended /\ [Next]_vars => Attended' /\ [Contract!Next]_(Contract!vars)
  BY NextAttended
<1> QED
  BY <1>1, <1>2, <1>3, Invariance, PTL DEF Spec, ImplementsContract, Contract!Spec

-----------------------------------------------------------------------------
(* The third setting: one attempt, as in the first, whose messages do not  *)
(* wait in the queue longer than a lease lives. *)
Punctual == OneAttempt /\ "delay" \notin FaultKinds

(* Program counters before the generation's first save, or after it failed. *)
Early == {"acquire", "checkR", "saveR", "mark"}

(***************************************************************************)
(* The copy a worker may still save says of the row what matters: that the *)
(* turn is active.  The copy of a turn that an earlier run of the task     *)
(* failed says failed, and gets no further than another failure.           *)
(***************************************************************************)
CopyOf(w, t) ==
    \/ work[w].mem \in ActiveStatuses /\ row[t].status \in Pending
    \/ work[w].mem = "failed" /\ row[t].status = "failed" /\ work[w].pc \in Early

(* A row only grows stale, and is only failed by a poll, when nobody has the turn. *)
FaithfulOf(t) ==
    /\ stale[t] => web[t] = "idle" /\ NoTask(t)
    /\ web[t] # "idle" => row[t].status \in Pending
    /\ attempt[t] # 0 => row[t].status # "none"
    /\ \A w \in Workers : Task(w, t) /\ work[w].pc \in MaySave => CopyOf(w, t)

Faithful == \A t \in Turns : FaithfulOf(t)

(* A turn that a step does not touch. *)
LEMMA UntouchedFaithful ==
    ASSUME NEW t \in Turns, FaithfulOf(t),
           row'[t] = row[t], stale'[t] = stale[t], web'[t] = web[t], attempt'[t] = attempt[t],
           stale[t] => queue'[t] = queue[t],
           \A w \in Workers : Task(w, t)' =>
             Task(w, t) /\ work'[w].pc = work[w].pc /\ work'[w].mem = work[w].mem
    PROVE  FaithfulOf(t)'
BY DEF FaithfulOf, NoTask, CopyOf

(* The worker that has the turn moves on, or gives it up. *)
LEMMA WorkerFaithful ==
    ASSUME NEW t \in Turns, FaithfulOf(t), OneTaskOf(t), NEW w \in Workers, Task(w, t),
           UNCHANGED web, \A v \in Workers \ {w} : work'[v] = work[v],
           ~stale'[t], row'[t].status # "none",
           work'[w].pc \in MaySave => CopyOf(w, t)'
    PROVE  FaithfulOf(t)'
<1>1. web[t] = "idle"
  BY DEF OneTaskOf, Unsent, NoTask
<1>2. \A v \in Workers : Task(v, t)' => v = w
  BY DEF OneTaskOf, Task
<1> QED  BY <1>1, <1>2 DEF FaithfulOf

(* Each step of a worker. *)
LEMMA StepFaithful ==
    ASSUME IInv, NEW w \in Workers, NEW t \in Turns, t = work[w].turn,
           OneTaskOf(t), RecordedOf(t), FaithfulOf(t), WorkerStep(w)
    PROVE  /\ FaithfulOf(t)' /\ Moves(t)
           /\ \A u \in Turns : u # t =>
                row'[u] = row[u] /\ stale'[u] = stale[u] /\ answers'[u] = answers[u]
<1> DEFINE Goal == /\ FaithfulOf(t)' /\ Moves(t)
                   /\ \A u \in Turns : u # t =>
                        row'[u] = row[u] /\ stale'[u] = stale[u] /\ answers'[u] = answers[u]
           Same == UNCHANGED <<row, stale, answers>>
           Copies == work'[w].pc \in MaySave =>
                       \/ /\ work[w].pc \in MaySave /\ work'[w].mem = work[w].mem
                          /\ work[w].pc \notin Early \/ work'[w].pc \in Early
                       \/ /\ work'[w].mem = row[t].status
                          /\ \/ row[t].status \in ActiveStatuses
                             \/ row[t].status = "failed" /\ work'[w].pc \in Early
<1>0. /\ work[w] \in WorkerStates /\ work \in [Workers -> WorkerStates]
      /\ row \in [Turns -> [status : Statuses, msg : Nat]] /\ answers \in [Turns -> Nat]
      /\ stale \in [Turns -> BOOLEAN]
  BY DEF IInv, TypeOK
<1>1. /\ Task(w, t) /\ UNCHANGED <<web, attempt>>
      /\ \A v \in Workers \ {w} : work'[v] = work[v]
  BY StepFrame DEF Task
<1>2. /\ ~stale[t] /\ row[t].status # "none"
      /\ work[w].pc \in MaySave => CopyOf(w, t)
  BY <1>1 DEF FaithfulOf, OneTaskOf, Unsent, NoTask
<1>3. Harmless(w, t) /\ answers[t] \in {0, 1}
  BY <1>1 DEF RecordedOf
(* A step that leaves the row alone. *)
<1>4. Same /\ Copies => Goal
  <2> SUFFICES ASSUME Same, Copies PROVE Goal
    OBVIOUS
  <2>1. work'[w].pc \in MaySave => CopyOf(w, t)'
    BY <1>2 DEF CopyOf, Pending
  <2>2. FaithfulOf(t)'
    BY <1>1, <1>2, <2>1, WorkerFaithful
  <2>3. Moves(t)
    BY <1>1 DEF Moves, Kept
  <2> QED  BY <2>2, <2>3
<1>5. CASE RenewCapacity(w) \/ LoadTurn(w) \/ AcquireLease(w) \/ StopAtCheck(w) \/ PassCheck(w)
  <2>1. Same
    BY <1>5 DEF RenewCapacity, LoadTurn, AcquireLease, StopAtCheck, PassCheck, dbVars
  <2>2. CASE RenewCapacity(w)
    <3>1. work'[w].pc \in {"replay", "taskRead"}
      BY <1>0, <2>2 DEF RenewCapacity, Goto, WorkerStates
    <3> QED  BY <1>4, <2>1, <3>1 DEF MaySave, Generating
  <2>3. CASE LoadTurn(w)
    <3>1. /\ work'[w].mem = row[t].status
          /\ work'[w].pc = IF row[t].status \in {"completed", "cancelled", "revoked"} THEN "finish" ELSE "acquire"
      BY <1>0, <2>3 DEF LoadTurn, WorkerStates
    <3>2. row[t].status \in Statuses
      BY <1>0
    <3>3. Copies
      BY <1>2, <3>1, <3>2 DEF MaySave, Generating, Early, Statuses
    <3> QED  BY <1>4, <2>1, <3>3
  <2>4. CASE AcquireLease(w)
    <3>1. /\ work'[w].pc \in {"checkR", "close", "mark"} /\ work'[w].mem = work[w].mem
          /\ work[w].pc = "acquire"
      BY <1>0, <2>4 DEF AcquireLease, Goto, Raise, WorkerStates
    <3> QED  BY <1>4, <2>1, <3>1 DEF MaySave, Generating, Early
  <2>5. CASE StopAtCheck(w)
    <3>1. work'[w].pc = "mark" /\ work'[w].mem = work[w].mem /\ work[w].pc \in CheckPoints
      BY <1>0, <2>5 DEF StopAtCheck, Raise, WorkerStates
    <3> QED  BY <1>4, <2>1, <3>1 DEF MaySave, CheckPoints, Generating, Early
  <2>6. CASE PassCheck(w)
    <3>1. /\ work'[w].mem = work[w].mem
          /\ \/ work[w].pc = "checkR" /\ work'[w].pc = "saveR"
             \/ work[w].pc = "checkS" /\ work'[w].pc = "saveS"
             \/ work[w].pc = "checkP" /\ work'[w].pc = "persist"
      BY <1>0, <2>6 DEF PassCheck, Goto, WorkerStates
    <3> QED  BY <1>4, <2>1, <3>1 DEF MaySave, Generating, Early
  <2> QED  BY <1>5, <2>2, <2>3, <2>4, <2>5, <2>6
<1>6. CASE PipelineToken(w) \/ PipelineEnds(w) \/ PipelineFails(w) \/ FlushText(w)
  <2>1. Same
    BY <1>6 DEF PipelineToken, PipelineEnds, PipelineFails, FlushText, dbVars
  <2>2. /\ work'[w].mem = work[w].mem
        /\ \/ work[w].pc = "loop" /\ work'[w].pc \in {"loop", "saveA", "checkS"}
           \/ work[w].pc \in {"saveR", "loop", "persist"} /\ work'[w].pc = "mark"
    BY <1>0, <1>6 DEF PipelineToken, PipelineEnds, PipelineFails, FlushText, Goto, Raise, WorkerStates
  <2> QED  BY <1>4, <2>1, <2>2 DEF MaySave, Generating, Early
<1>7. CASE Replay(w) \/ EmitRetrieving(w) \/ EmitTerminal(w)
  <2>1. /\ Same
        /\ \/ Goto(w, "finish") \/ Goto(w, "load") \/ Goto(w, "close")
           \/ work[w].pc = "emitR" /\ Goto(w, "loop")
    BY <1>7, Zenon DEF Replay, EmitRetrieving, EmitTerminal, dbVars
  <2>2. \/ work'[w].pc \in {"finish", "load", "close"}
        \/ work'[w].pc = "loop" /\ work[w].pc = "emitR" /\ work'[w].mem = work[w].mem
    BY <1>0, <2>1, MoveFrame
  <2> QED  BY <1>4, <2>1, <2>2 DEF MaySave, Generating, Early
<1>8. CASE StoreFails(w) \/ Close(w) \/ Finish(w)
  <2>1. Same
    BY <1>8 DEF StoreFails, Close, Finish, dbVars
  <2>2. work'[w].pc \in {"taskRead", "close", "finish", "idle"}
    BY <1>0, <1>8 DEF StoreFails, Close, Finish, Goto, Idle, WorkerStates
  <2> QED  BY <1>4, <2>1, <2>2 DEF MaySave, Generating
<1>9. CASE TaskRead(w)
  <2>1. Same
    BY <1>9 DEF TaskRead, dbVars
  <2>2. /\ work'[w].mem = row[t].status
        /\ work'[w].pc = IF row[t].status \in ActiveStatuses THEN "taskSave" ELSE "finish"
    BY <1>0, <1>9 DEF TaskRead, WorkerStates
  <2> QED  BY <1>4, <2>1, <2>2 DEF MaySave, Generating
<1>10. CASE TaskSave(w) \/ Mark(w)
  <2>1. work[w].pc \in {"taskSave", "mark"} /\ UNCHANGED answers
    BY <1>10 DEF TaskSave, Mark, SaveRow, dbVars
  <2>2. work'[w].pc \in {"finish", "emitErr"}
    BY <1>0, <1>10 DEF TaskSave, Mark, Goto, WorkerStates
  <2>3. CopyOf(w, t)
    BY <1>2, <2>1 DEF MaySave
  <2>4. work[w].pc = "mark" => work[w].goal \in {"failed", "cancelled"}
    BY DEF IInv, WorkerFacts
  <2>5. \/ UNCHANGED <<row, stale>>
        \/ /\ row' = [row EXCEPT ![t] = [status |-> "failed", msg |-> work[w].msg]]
           /\ stale' = [stale EXCEPT ![t] = FALSE]
        \/ /\ row' = [row EXCEPT ![t] = [status |-> "cancelled", msg |-> work[w].msg]]
           /\ stale' = [stale EXCEPT ![t] = FALSE]
           /\ work[w].mem # "failed"
    <3>1. CASE TaskSave(w)
      BY <3>1 DEF TaskSave, SaveRow, dbVars
    <3>2. CASE Mark(w)
      <4>1. ~MayTransition("failed", "cancelled")
        BY DEF MayTransition, AllowedTransitions, Statuses, ActiveStatuses, Pending
      <4> QED  BY <2>4, <3>2, <4>1 DEF Mark, SaveRow, dbVars
    <3> QED  BY <1>10, <3>1, <3>2
  <2>6. /\ ~stale'[t]
        /\ \/ row'[t] = row[t] \/ row'[t].status = "failed"
           \/ row'[t].status = "cancelled" /\ row[t].status \in Pending
        /\ \A u \in Turns : u # t => row'[u] = row[u] /\ stale'[u] = stale[u]
    BY <1>0, <1>2, <2>3, <2>5 DEF CopyOf
  <2>7. row[t].status = "failed" \/ row[t].status \in Pending
    BY <2>3 DEF CopyOf
  <2>8. Moves(t)
    BY <1>1, <2>1, <2>6, <2>7 DEF Moves, Kept, Ends
  <2>9. FaithfulOf(t)'
    <3>1. work'[w].pc \notin MaySave /\ row'[t].status # "none"
      BY <1>2, <2>2, <2>6 DEF MaySave, Generating
    <3> QED  BY <1>1, <2>6, <3>1, WorkerFaithful
  <2> QED  BY <2>1, <2>6, <2>8, <2>9
<1>11. CASE PersistCompletedTurn(w)
  <2>1. work[w].pc = "persist"
    BY <1>11 DEF PersistCompletedTurn
  <2>2. row[t].status \in Pending /\ answers[t] = 0
    BY <1>2, <1>3, <2>1 DEF MaySave, Generating, CopyOf, Early, Harmless, Late
  <2>3. CASE Same /\ Raise(w, "failed")
    <3>1. work'[w].pc = "mark" /\ work'[w].mem = work[w].mem
      BY <1>0, <2>3 DEF Raise, WorkerStates
    <3> QED  BY <1>4, <2>1, <2>3, <3>1 DEF MaySave, Generating, Early
  <2>4. CASE /\ answers' = [answers EXCEPT ![t] = @ + 1]
             /\ row' = [row EXCEPT ![t] = [status |-> "completed", msg |-> answers[t] + 1]]
             /\ stale' = [stale EXCEPT ![t] = FALSE]
             /\ work' = [work EXCEPT ![w].pc = "emitDone", ![w].mem = "completed", ![w].msg = answers[t] + 1]
             /\ row[t].status # "revoked"
    <3>1. /\ answers'[t] = 1 /\ row'[t].status = "completed" /\ ~stale'[t]
          /\ work'[w].pc = "emitDone"
          /\ \A u \in Turns : u # t =>
               row'[u] = row[u] /\ stale'[u] = stale[u] /\ answers'[u] = answers[u]
      BY <1>0, <2>2, <2>4 DEF WorkerStates
    <3>2. FaithfulOf(t)'
      BY <1>1, <3>1, WorkerFaithful DEF MaySave, Generating
    <3>3. Moves(t)
      BY <1>1, <2>2, <2>4, <3>1 DEF Moves, Completes, Pending
    <3> QED  BY <3>1, <3>2, <3>3
  <2>5. row[t].status # "completed"
    BY <2>2 DEF ActiveStatuses, Pending
  <2>6. ~MayTransition("revoked", "completed")
    BY DEF MayTransition, AllowedTransitions, Statuses, ActiveStatuses
  <2> QED  BY <1>11, <2>3, <2>4, <2>5, <2>6 DEF PersistCompletedTurn, dbVars
<1>12. ASSUME NEW from \in {"saveR", "saveA", "saveS"}, NEW status \in ActiveStatuses,
              NEW to \in {"emitR", "loop", "checkP"}, from = "saveR" => status = "retrieving",
              Transition(w, from, status, to)
       PROVE  Goal
  <2>1. work[w].pc = from /\ UNCHANGED answers
    BY <1>12 DEF Transition, SaveRow, dbVars
  <2>2. CopyOf(w, t)
    BY <1>2, <1>12, <2>1 DEF MaySave, Generating
  <2>3. MayTransition(work[w].mem, status) => row[t].status \in Pending
    <3>1. CASE from = "saveR"
      BY <1>0, <1>12, <2>2, <3>1, RetrievingFrom DEF CopyOf, WorkerStates, ActiveStatuses, Pending
    <3>2. CASE from # "saveR"
      BY <1>12, <2>1, <2>2, <3>2 DEF CopyOf, Early
    <3> QED  BY <3>1, <3>2
  <2>4. CASE Same /\ Raise(w, "failed")
    <3>1. work'[w].pc = "mark" /\ work'[w].mem = work[w].mem
      BY <1>0, <2>4 DEF Raise, WorkerStates
    <3> QED  BY <1>4, <1>12, <2>1, <2>4, <3>1 DEF MaySave, Generating, Early
  <2>5. CASE MayTransition(work[w].mem, status) /\ work'[w].mem = status
             /\ \/ UNCHANGED <<row, stale>>
                \/ /\ row' = [row EXCEPT ![t] = [status |-> status, msg |-> work[w].msg]]
                   /\ stale' = [stale EXCEPT ![t] = FALSE]
    <3>1. /\ row[t].status \in Pending /\ row'[t].status \in Pending /\ ~stale'[t]
          /\ row'[t] = row[t] \/ row'[t].status \in ActiveStatuses
          /\ \A u \in Turns : u # t => row'[u] = row[u] /\ stale'[u] = stale[u]
      BY <1>0, <1>2, <1>12, <2>3, <2>5 DEF Pending
    <3>2. CopyOf(w, t)'
      BY <1>12, <2>5, <3>1 DEF CopyOf
    <3>3. FaithfulOf(t)'
      BY <1>1, <3>1, <3>2, WorkerFaithful DEF ActiveStatuses, Pending
    <3>4. Moves(t)
      BY <1>1, <2>1, <3>1 DEF Moves, Kept, Resumes, PhaseOf, Pending
    <3> QED  BY <2>1, <3>1, <3>3, <3>4
  <2>6. \/ Same /\ Raise(w, "failed")
        \/ /\ MayTransition(work[w].mem, status) /\ work'[w].mem = status
           /\ \/ UNCHANGED <<row, stale>>
              \/ /\ row' = [row EXCEPT ![t] = [status |-> status, msg |-> work[w].msg]]
                 /\ stale' = [stale EXCEPT ![t] = FALSE]
    BY <1>0, <1>12 DEF Transition, SaveRow, dbVars, WorkerStates
  <2> QED  BY <2>4, <2>5, <2>6
<1> HIDE DEF Goal, Same, Copies
<1>13. (\/ Transition(w, "saveR", "retrieving", "emitR")
        \/ Transition(w, "saveA", "answering", "loop")
        \/ Transition(w, "saveS", "saving", "checkP")) => Goal
  BY <1>12 DEF ActiveStatuses, Pending
<1> QED
  BY <1>5, <1>6, <1>7, <1>8, <1>9, <1>10, <1>11, <1>13 DEF WorkerStep, Goal

(* The web request, the client and time. *)
LEMMA AskedFaithful ==
    ASSUME Punctual, IInv, OneTask, NEW t \in Turns, FaithfulOf(t),
           BeginChatTurn(t) \/ Web(t) \/ GrowStale(t) \/ ConvergeStaleTurn(t)
    PROVE  /\ FaithfulOf(t)' /\ Moves(t) /\ UNCHANGED work
           /\ \A u \in Turns : u # t =>
                /\ row'[u] = row[u] /\ stale'[u] = stale[u] /\ answers'[u] = answers[u]
                /\ attempt'[u] = attempt[u] /\ web'[u] = web[u] /\ queue'[u] = queue[u]
<1>0. /\ row \in [Turns -> [status : Statuses, msg : Nat]] /\ stale \in [Turns -> BOOLEAN]
      /\ attempt \in [Turns -> 0..MaxAttempts] /\ queue \in [Turns -> Nat]
      /\ web \in [Turns -> {"idle", "reserve", "publish", "enqueue", "undo", "release", "fail"}]
  BY DEF IInv, TypeOK
<1>1. UNCHANGED <<work, answers>>
  BY DEF BeginChatTurn, Web, Reserve, Publish, Enqueue, UndoEvent, UndoReservation, FailActiveTurn,
     GrowStale, ConvergeStaleTurn, SaveRow, dbVars
<1>2. OneTaskOf(t)
  BY DEF OneTask
<1>3. \A w \in Workers : Task(w, t)' <=> Task(w, t)
  BY <1>1 DEF Task
<1>4. CASE BeginChatTurn(t)
  <2>1. /\ row[t].status \in {"none", "failed"} /\ attempt[t] = 0 /\ UNCHANGED queue
        /\ row' = [row EXCEPT ![t] = [status |-> "accepted", msg |-> 0]]
        /\ attempt' = [attempt EXCEPT ![t] = @ + 1]
        /\ stale' = [stale EXCEPT ![t] = FALSE]
        /\ web' = [web EXCEPT ![t] = "reserve"]
    BY <1>0, <1>4 DEF BeginChatTurn, Punctual, OneAttempt
  <2>2. /\ row'[t].status = "accepted" /\ attempt'[t] = attempt[t] + 1 /\ ~stale'[t]
        /\ \A u \in Turns : u # t => /\ row'[u] = row[u] /\ stale'[u] = stale[u]
                                     /\ attempt'[u] = attempt[u] /\ web'[u] = web[u]
    BY <1>0, <2>1
  <2>3. FaithfulOf(t)'
    BY <1>2, <1>3, <2>1, <2>2 DEF FaithfulOf, OneTaskOf, Unsent, NoTask, ActiveStatuses, Pending
  <2>4. Moves(t)
    BY <1>1, <2>1, <2>2 DEF Moves, Begins
  <2> QED  BY <1>1, <2>1, <2>2, <2>3, <2>4
<1>5. ASSUME Web(t)
      PROVE  /\ web[t] # "idle" /\ NoTask(t) /\ UNCHANGED attempt
             /\ row[t].status \in Pending /\ ~stale[t]
  <2>1. web[t] # "idle" /\ UNCHANGED attempt
    BY <1>5 DEF Web, Reserve, Publish, Enqueue, UndoEvent, UndoReservation, FailActiveTurn, SaveRow, dbVars
  <2> QED  BY <1>2, <2>1 DEF FaithfulOf, OneTaskOf, Unsent
<1>6. CASE Reserve(t) \/ Publish(t) \/ Enqueue(t) \/ UndoEvent(t) \/ UndoReservation(t)
  <2>1. Web(t) /\ UNCHANGED <<row, stale>>
    BY <1>6 DEF Web, Reserve, Publish, Enqueue, UndoEvent, UndoReservation, dbVars
  <2>2. \A u \in Turns : u # t => web'[u] = web[u] /\ queue'[u] = queue[u]
    BY <1>0, <1>6 DEF Reserve, Publish, Enqueue, UndoEvent, UndoReservation
  <2>3. FaithfulOf(t)'
    BY <1>3, <1>5, <2>1 DEF FaithfulOf, NoTask, ActiveStatuses, Pending
  <2>4. Moves(t)
    BY <1>1, <1>5, <2>1 DEF Moves, Kept
  <2> QED  BY <1>1, <1>5, <2>1, <2>2, <2>3, <2>4
<1>7. CASE FailActiveTurn(t)
  <2>1. /\ Web(t) /\ UNCHANGED queue /\ web' = [web EXCEPT ![t] = "idle"]
        /\ \/ UNCHANGED <<row, stale>>
           \/ /\ row' = [row EXCEPT ![t] = [status |-> "failed", msg |-> 0]]
              /\ stale' = [stale EXCEPT ![t] = FALSE]
    BY <1>7 DEF Web, FailActiveTurn, SaveRow, dbVars
  <2>2. /\ web'[t] = "idle" /\ ~stale'[t]
        /\ row'[t] = row[t] \/ row'[t].status = "failed"
        /\ \A u \in Turns : u # t => row'[u] = row[u] /\ stale'[u] = stale[u] /\ web'[u] = web[u]
    BY <1>0, <1>5, <2>1
  <2>3. FaithfulOf(t)'
    BY <1>3, <1>5, <2>1, <2>2 DEF FaithfulOf, NoTask, ActiveStatuses, Pending
  <2>4. Moves(t)
    BY <1>1, <1>5, <2>1, <2>2 DEF Moves, Kept, Ends
  <2> QED  BY <1>1, <1>5, <2>1, <2>2, <2>3, <2>4
<1>8. CASE GrowStale(t)
  <2>1. /\ web[t] = "idle" /\ queue[t] = 0 /\ OnTurn(t) = {}
        /\ stale' = [stale EXCEPT ![t] = TRUE] /\ UNCHANGED <<row, attempt, web, queue>>
    BY <1>8 DEF GrowStale, Punctual, OneAttempt
  <2>2. \A w \in Workers : ~Task(w, t)
    BY <2>1 DEF OnTurn, Task
  <2>3. FaithfulOf(t)'
    BY <1>3, <2>1, <2>2 DEF FaithfulOf, NoTask
  <2>4. Moves(t) /\ \A u \in Turns : u # t => stale'[u] = stale[u]
    BY <1>0, <1>1, <2>1 DEF Moves, Kept
  <2> QED  BY <1>1, <2>1, <2>3, <2>4
<1>9. CASE ConvergeStaleTurn(t)
  <2>1. /\ stale[t] /\ row[t].status \in Pending
        /\ row' = [row EXCEPT ![t].status = "failed"] /\ stale' = [stale EXCEPT ![t] = FALSE]
        /\ UNCHANGED <<attempt, web, queue>>
    BY <1>9 DEF ConvergeStaleTurn, Pending
  <2>2. /\ row'[t].status = "failed" /\ ~stale'[t]
        /\ \A u \in Turns : u # t => row'[u] = row[u] /\ stale'[u] = stale[u]
    BY <1>0, <2>1
  <2>3. FaithfulOf(t)'
    BY <1>3, <2>1, <2>2 DEF FaithfulOf, NoTask
  <2>4. Moves(t)
    BY <1>1, <2>1, <2>2 DEF Moves, Ends
  <2> QED  BY <1>1, <2>1, <2>2, <2>3, <2>4
<1> QED  BY <1>4, <1>6, <1>7, <1>8, <1>9 DEF Web

(* A slot takes the message, or a worker dies with it. *)
LEMMA HandedFaithful ==
    ASSUME IInv, OneTask, Faithful, NEW w \in Workers, (\E t \in Turns : Deliver(w, t)) \/ Crash(w)
    PROVE  Faithful' /\ UNCHANGED Contract!vars
<1>0. work \in [Workers -> WorkerStates] /\ queue \in [Turns -> Nat]
  BY DEF IInv, TypeOK
<1>1. UNCHANGED <<row, stale, answers, attempt, web>>
  BY DEF Deliver, Crash, dbVars
<1>2. PICK t \in Turns : Deliver(w, t) \/ (Crash(w) /\ work[w].turn = t)
  BY DEF IInv, WorkerFacts, Crash
<1>3. /\ \A v \in Workers \ {w} : work'[v] = work[v]
      /\ \A u \in Turns : u # t => queue'[u] = queue[u]
      /\ work'[w].pc \in {"idle", "renew"}
      /\ work'[w].pc = "renew" => work'[w].turn = t
  <2>1. CASE Deliver(w, t)
    BY <1>0, <2>1 DEF Deliver, Idle
  <2>2. CASE Crash(w) /\ work[w].turn = t
    <3>1. work' = [work EXCEPT ![w] = Idle] /\ queue' = [queue EXCEPT ![t] = @ + 1]
      BY <2>2 DEF Crash
    <3> QED  BY <1>0, <3>1 DEF Idle
  <2> QED  BY <1>2, <2>1, <2>2
<1>4. ~stale[t]
  <2>1. CASE Deliver(w, t)
    <3>1. queue[t] # 0
      <4>1. queue[t] > 0 /\ queue[t] \in Nat
        BY <1>0, <2>1 DEF Deliver
      <4> QED  BY <4>1
    <3>2. FaithfulOf(t)
      BY DEF Faithful
    <3> QED  BY <3>1, <3>2 DEF FaithfulOf, NoTask
  <2>2. CASE Crash(w) /\ work[w].turn = t
    BY <2>2 DEF Crash, Faithful, FaithfulOf, NoTask, Task
  <2> QED  BY <1>2, <2>1, <2>2
<1>5. ASSUME NEW u \in Turns, u # t PROVE FaithfulOf(u)'
  <2>1. \A v \in Workers : Task(v, u)' => Task(v, u) /\ work'[v] = work[v]
    BY <1>3, <1>5 DEF Task
  <2> QED  BY <1>1, <1>3, <1>5, <2>1, UntouchedFaithful DEF Faithful
<1>6. FaithfulOf(t)'
  <2>1. \A v \in Workers : Task(v, t)' /\ work'[v].pc \in MaySave =>
             Task(v, t) /\ work'[v] = work[v]
    BY <1>3 DEF Task, MaySave, Generating
  <2> QED  BY <1>1, <1>4, <2>1 DEF Faithful, FaithfulOf, CopyOf
<1>7. UNCHANGED Contract!vars
  BY <1>1 DEF Contract!vars
<1> QED  BY <1>5, <1>6, <1>7 DEF Faithful

(* Every step keeps the copies faithful and is a step of the contract. *)
LEMMA NextFaithful ==
    ASSUME Punctual, IInv, IInv', OneTask, Recorded, Faithful, [Next]_vars
    PROVE  Faithful' /\ [Contract!Next]_(Contract!vars)
<1>0. /\ TypeOK /\ TypeOK' /\ work \in [Workers -> WorkerStates] /\ queue \in [Turns -> Nat]
  BY DEF IInv, TypeOK
<1>1. ASSUME UNCHANGED <<row, stale, answers, attempt, web, queue>>,
             \A v \in Workers : /\ work'[v].pc = work[v].pc /\ work'[v].turn = work[v].turn
                                /\ work'[v].mem = work[v].mem
      PROVE  Faithful' /\ [Contract!Next]_(Contract!vars)
  <2>1. Faithful'
    BY <1>1, UntouchedFaithful DEF Faithful, Task
  <2>2. UNCHANGED Contract!vars
    BY <1>1 DEF Contract!vars
  <2> QED  BY <2>1, <2>2
<1>2. ASSUME NEW w \in Workers, WorkerStep(w)
      PROVE  Faithful' /\ [Contract!Next]_(Contract!vars)
  <2>0. PICK t \in Turns : t = work[w].turn
    BY <1>2, StepFrame
  <2>1. /\ FaithfulOf(t)' /\ Moves(t)
        /\ \A u \in Turns : u # t =>
             row'[u] = row[u] /\ stale'[u] = stale[u] /\ answers'[u] = answers[u]
    BY <1>2, <2>0, StepFaithful DEF Faithful, OneTask, Recorded
  <2>2. /\ UNCHANGED <<web, attempt>> /\ \A v \in Workers \ {w} : work'[v] = work[v]
        /\ work'[w].pc = "idle" \/ work'[w].turn = t
        /\ queue' = queue \/ queue' = [queue EXCEPT ![t] = @ + 1]
    BY <1>2, <2>0, StepFrame
  <2>3. ASSUME NEW u \in Turns, u # t PROVE FaithfulOf(u)'
    <3>1. \A v \in Workers : Task(v, u)' => Task(v, u) /\ work'[v] = work[v]
      BY <2>2, <2>3 DEF Task
    <3>2. queue'[u] = queue[u]
      BY <1>0, <2>2, <2>3
    <3> QED  BY <2>1, <2>2, <2>3, <3>1, <3>2, UntouchedFaithful DEF Faithful
  <2>4. \A u \in Turns : u # t => Kept(u)
    BY <2>1, <2>2 DEF Kept
  <2> QED  BY <1>0, <2>1, <2>3, <2>4, MoveImplements DEF Faithful
<1>3. ASSUME NEW t \in Turns, BeginChatTurn(t) \/ Web(t) \/ GrowStale(t) \/ ConvergeStaleTurn(t)
      PROVE  Faithful' /\ [Contract!Next]_(Contract!vars)
  <2>1. /\ FaithfulOf(t)' /\ Moves(t) /\ UNCHANGED work
        /\ \A u \in Turns : u # t =>
             /\ row'[u] = row[u] /\ stale'[u] = stale[u] /\ answers'[u] = answers[u]
             /\ attempt'[u] = attempt[u] /\ web'[u] = web[u] /\ queue'[u] = queue[u]
    BY <1>3, AskedFaithful DEF Faithful
  <2>2. ASSUME NEW u \in Turns, u # t PROVE FaithfulOf(u)'
    BY <2>1, <2>2, UntouchedFaithful DEF Faithful, Task
  <2>3. \A u \in Turns : u # t => Kept(u)
    BY <2>1 DEF Kept
  <2> QED  BY <1>0, <2>1, <2>2, <2>3, MoveImplements DEF Faithful
<1>4. ASSUME NEW w \in Workers, (\E t \in Turns : Deliver(w, t)) \/ Crash(w)
      PROVE  Faithful' /\ [Contract!Next]_(Contract!vars)
  BY <1>4, HandedFaithful
<1>5. ASSUME NEW w \in Workers, LoseLease(w)
      PROVE  Faithful' /\ [Contract!Next]_(Contract!vars)
  <2>1. /\ UNCHANGED <<row, stale, answers, attempt, web, queue>>
        /\ work' = work \/ work' = [work EXCEPT ![w].lost = TRUE]
    BY <1>5 DEF LoseLease, dbVars
  <2>2. \A v \in Workers : /\ work'[v].pc = work[v].pc /\ work'[v].turn = work[v].turn
                           /\ work'[v].mem = work[v].mem
    BY <1>0, <2>1 DEF WorkerStates
  <2> QED  BY <1>1, <2>1, <2>2
<1>6. CASE \/ \E t \in Turns : RequestCancel(t) \/ ReservationExpires(t)
           \/ LeaseExpires \/ Quiet \/ UNCHANGED vars
  BY <1>1, <1>6 DEF RequestCancel, ReservationExpires, LeaseExpires, Quiet, vars, dbVars
<1>7. ASSUME NEW w \in Workers, Redeliver(w) PROVE FALSE
  BY <1>7 DEF Redeliver, Fault, Punctual, OneAttempt
<1>8. CASE RemoveMember
  <2>1. /\ UNCHANGED <<attempt, answers, web, queue, work>>
        /\ \A t \in Turns : \/ row'[t] = row[t] /\ stale'[t] = stale[t]
                            \/ /\ row[t].status \in ActiveStatuses
                               /\ row'[t].status = "revoked" /\ ~stale'[t]
    BY <1>8, RemovalFrame
  <2>2. ASSUME NEW t \in Turns PROVE FaithfulOf(t)'
    <3>1. FaithfulOf(t)
      BY DEF Faithful
    <3>2. CASE row'[t] = row[t] /\ stale'[t] = stale[t]
      BY <2>1, <3>1, <3>2, UntouchedFaithful DEF Task
    <3>3. CASE row[t].status \in ActiveStatuses /\ row'[t].status = "revoked" /\ ~stale'[t]
      <4>1. \A w \in Workers : Task(w, t) /\ work[w].pc \in MaySave => work[w].mem \in ActiveStatuses
        BY <3>1, <3>3 DEF FaithfulOf, CopyOf, ActiveStatuses
      <4> QED  BY <2>1, <3>1, <3>3, <4>1 DEF FaithfulOf, CopyOf, Task, Pending
    <3> QED  BY <2>1, <3>2, <3>3
  <2> QED  BY <1>8, <2>2, RemovalImplements DEF Faithful
<1> QED  BY <1>2, <1>3, <1>4, <1>5, <1>6, <1>7, <1>8 DEF Next

(***************************************************************************)
(* One attempt whose messages do not wait too long implements the turn     *)
(* contract although workers die and tasks are delivered again and         *)
(* retried: the next run of the task reads what the last one saved.        *)
(***************************************************************************)
THEOREM CrashTheorem ==
    ASSUME Punctual
    PROVE  Spec => ImplementsContract
<1>1. Init => Contract!Init
  BY DEF Init, Contract!Init, PhaseOf, ActiveStatuses, Pending
<1>2. Init => Faithful
  BY DEF Init, Faithful, FaithfulOf, Task, Idle
<1>3. OneAttempt
  BY DEF Punctual
<1>4. IInv /\ IInv' /\ OneTask /\ Recorded /\ Faithful /\ [Next]_vars
        => OneTask' /\ Recorded' /\ Faithful' /\ [Contract!Next]_(Contract!vars)
  BY <1>3, NextOneTask, NextRecorded, NextFaithful
<1> QED
  BY <1>1, <1>2, <1>4, InitTask, Invariance, PTL DEF Spec, ImplementsContract, Contract!Spec

-----------------------------------------------------------------------------
(* What the contract implies by itself. *)
LEMMA ContractInit == Contract!Init => Contract!AnsweredIffCompleted
BY DEF Contract!Init, Contract!AnsweredIffCompleted

LEMMA ContractStep ==
    ASSUME Contract!AnsweredIffCompleted, [Contract!Next]_(Contract!vars), TypeOK, TypeOK'
    PROVE  Contract!AnsweredIffCompleted' /\ Contract!FinishedStays
<1> DEFINE ph == [u \in Turns |-> PhaseOf(row[u].status)]
           qh == [u \in Turns |-> PhaseOf(row'[u].status)]
<1>0. answers \in [Turns -> Nat] /\ attempt \in [Turns -> 0..MaxAttempts]
  BY DEF TypeOK
<1>1. CASE UNCHANGED Contract!vars
  <2>1. qh = ph /\ UNCHANGED <<attempt, answers>>
    BY <1>1 DEF Contract!vars
  <2> QED  BY <2>1 DEF Contract!AnsweredIffCompleted, Contract!FinishedStays
<1>2. ASSUME NEW t \in Turns,
             \/ Contract!Begin(t) \/ Contract!Fail(t) \/ Contract!Cancel(t)
             \/ Contract!Complete(t) \/ Contract!Overrule(t)
      PROVE  Contract!AnsweredIffCompleted' /\ Contract!FinishedStays
  <2>1. \E to \in {"active", "failed", "cancelled", "completed"} : qh = [ph EXCEPT ![t] = to]
    BY <1>2 DEF Contract!Begin, Contract!Fail, Contract!Cancel, Contract!Complete, Contract!Overrule,
       Contract!Move
  <2>2. \A u \in Turns : u # t => qh[u] = ph[u] /\ attempt'[u] = attempt[u] /\ answers'[u] = answers[u]
    <3>1. \A u \in Turns : u # t => qh[u] = ph[u]
      BY <2>1
    <3>2. \A u \in Turns : u # t => attempt'[u] = attempt[u] /\ answers'[u] = answers[u]
      BY <1>0, <1>2 DEF Contract!Begin, Contract!Fail, Contract!Cancel, Contract!Complete, Contract!Overrule
    <3> QED  BY <3>1, <3>2
  <2>3. ph[t] \notin {"completed", "cancelled"}
    BY <1>2 DEF Contract!Begin, Contract!Fail, Contract!Cancel, Contract!Complete, Contract!Overrule,
       Contract!Move
  <2>4. answers'[t] = IF qh[t] = "completed" THEN 1 ELSE 0
    <3>1. answers[t] = 0
      BY <2>3 DEF Contract!AnsweredIffCompleted
    <3>2. CASE Contract!Complete(t)
      <4>1. qh = [ph EXCEPT ![t] = "completed"] /\ answers' = [answers EXCEPT ![t] = 1]
        BY <3>2 DEF Contract!Complete, Contract!Move
      <4> QED  BY <1>0, <4>1
    <3>3. CASE Contract!Begin(t) \/ Contract!Fail(t) \/ Contract!Cancel(t) \/ Contract!Overrule(t)
      <4>1. \/ qh = [ph EXCEPT ![t] = "active"] \/ qh = [ph EXCEPT ![t] = "failed"]
            \/ qh = [ph EXCEPT ![t] = "cancelled"]
        BY <3>3 DEF Contract!Begin, Contract!Fail, Contract!Cancel, Contract!Overrule, Contract!Move
      <4>2. qh[t] # "completed"
        BY <4>1
      <4>3. answers' = answers
        BY <3>3 DEF Contract!Begin, Contract!Fail, Contract!Cancel, Contract!Overrule
      <4> QED  BY <3>1, <4>2, <4>3
    <3> QED  BY <1>2, <3>2, <3>3
  <2> QED  BY <2>2, <2>3, <2>4 DEF Contract!AnsweredIffCompleted, Contract!FinishedStays
<1>3. CASE Contract!Revoke
  <2>1. /\ qh = [u \in Turns |-> IF ph[u] = "active" THEN "revoked" ELSE ph[u]]
        /\ UNCHANGED <<attempt, answers>>
    BY <1>3 DEF Contract!Revoke
  <2>2. \A u \in Turns : /\ qh[u] = "completed" <=> ph[u] = "completed"
                         /\ ph[u] \in {"completed", "cancelled"} => qh[u] = ph[u]
    BY <2>1
  <2> QED  BY <2>1, <2>2 DEF Contract!AnsweredIffCompleted, Contract!FinishedStays
<1> QED  BY <1>1, <1>2, <1>3 DEF Contract!Next

(***************************************************************************)
(* Where the contract is implemented the client may rely on what it says:  *)
(* an answer exactly for a completed turn, and turns that stay as they are *)
(* once completed or cancelled by the client.                              *)
(* It covers any number of attempts without crashes, and one with them.    *)
(***************************************************************************)
THEOREM ClientTheorem ==
    ASSUME NothingRepeats \/ Punctual
    PROVE  Spec => []Contract!AnsweredIffCompleted /\ Contract!FinishedForGood
<1>1. Spec => Contract!Spec
  BY ContractTheorem, CrashTheorem DEF ImplementsContract
<1>2. IInv => TypeOK
  BY DEF IInv
<1>3. /\ Contract!AnsweredIffCompleted /\ [Contract!Next]_(Contract!vars) /\ TypeOK /\ TypeOK'
         => Contract!AnsweredIffCompleted'
      /\ Contract!AnsweredIffCompleted /\ [Contract!Next]_(Contract!vars) /\ TypeOK /\ TypeOK'
         => [Contract!FinishedStays]_(Contract!vars)
  BY ContractStep
<1> QED
  BY <1>1, <1>2, <1>3, ContractInit, Invariance, PTL DEF Contract!Spec, Contract!FinishedForGood

(* What that says of the rows. *)
LEMMA AnsweredOnce == Contract!AnsweredIffCompleted => OneAnswer
BY DEF Contract!AnsweredIffCompleted, OneAnswer

LEMMA StaysFinal ==
    ASSUME IInv, IInv', Contract!AnsweredIffCompleted, Contract!AnsweredIffCompleted',
           [Contract!FinishedStays]_(Contract!vars), NEW t \in Turns,
           row[t].status \in {"completed", "cancelled"}
    PROVE  row'[t] = row[t]
<1>0. /\ row[t] \in [status : Statuses, msg : Nat] /\ row'[t] \in [status : Statuses, msg : Nat]
      /\ answers[t] \in Nat /\ answers'[t] \in Nat
  BY DEF IInv, TypeOK
<1>1. PhaseOf(row[t].status) = row[t].status
  BY DEF PhaseOf, ActiveStatuses
<1>2. PhaseOf(row'[t].status) = PhaseOf(row[t].status)
  <2>1. CASE UNCHANGED Contract!vars
    <3>1. [u \in Turns |-> PhaseOf(row'[u].status)] = [u \in Turns |-> PhaseOf(row[u].status)]
      BY <2>1 DEF Contract!vars
    <3>2. /\ [u \in Turns |-> PhaseOf(row'[u].status)][t] = PhaseOf(row'[t].status)
          /\ [u \in Turns |-> PhaseOf(row[u].status)][t] = PhaseOf(row[t].status)
      OBVIOUS
    <3> QED  BY <3>1, <3>2
  <2>2. CASE Contract!FinishedStays
    BY <1>1, <2>2 DEF Contract!FinishedStays
  <2> QED  BY <2>1, <2>2
<1>3. row'[t].status = row[t].status
  BY <1>1, <1>2 DEF PhaseOf, ActiveStatuses
<1>4. row'[t].msg = row[t].msg
  <2>1. answers[t] \in {0, 1} /\ answers'[t] \in {0, 1}
    BY DEF Contract!AnsweredIffCompleted
  <2>2. /\ row[t].msg # 0 <=> row[t].status = "completed"
        /\ row'[t].msg # 0 <=> row'[t].status = "completed"
        /\ row[t].msg <= answers[t] /\ row'[t].msg <= answers'[t]
    BY DEF IInv, AnswerIffCompleted
  <2> QED  BY <1>0, <1>3, <2>1, <2>2
<1> QED  BY <1>0, <1>3, <1>4

(***************************************************************************)
(* However often a client retries a failed turn, as long as no task is     *)
(* lost, repeated or late: one answer, and rows that are completed or      *)
(* cancelled by the client are final.                                      *)
(***************************************************************************)
THEOREM RetryTheorem ==
    ASSUME NothingRepeats
    PROVE  Spec => []OneAnswer /\ FinishedIsFinal
<1>1. Spec => []Contract!AnsweredIffCompleted /\ [][Contract!FinishedStays]_(Contract!vars)
  BY ClientTheorem DEF Contract!FinishedForGood
<1>2. IInv /\ IInv' /\ Contract!AnsweredIffCompleted /\ Contract!AnsweredIffCompleted'
      /\ [Contract!FinishedStays]_(Contract!vars)
        => [\A t \in Turns : row[t].status \in {"completed", "cancelled"} => row'[t] = row[t]]_vars
  BY StaysFinal
<1> QED  BY <1>1, <1>2, AnsweredOnce, Invariance, PTL DEF FinishedIsFinal
=============================================================================
