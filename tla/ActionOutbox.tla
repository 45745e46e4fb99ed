---------------------------- MODULE ActionOutbox ----------------------------
(***************************************************************************)
(* Durable delivery of notification side effects                           *)
(* (backend/apps/notifications/outbox_services.py and tasks.py).  A        *)
(* business transaction inserts a row and wakes a delivery task; the task  *)
(* claims the row under a lease, calls the delivery adapter outside any    *)
(* transaction, and settles the row if its attempt is still the current    *)
(* one.  A periodic sweep wakes rows that are due, retryable or whose      *)
(* lease ran out.                                                          *)
(*                                                                         *)
(* Time: wait and lease of a row count the ticks until next_attempt_at and *)
(* lease_expires_at; 0 means past or null.                                 *)
(*                                                                         *)
(* Faults share one budget:                                                *)
(*   lost       a wakeup does not reach the broker, or its message is lost *)
(*   reject     the adapter raises and nothing was sent                    *)
(*   ambiguous  the adapter raises although the provider took the message  *)
(*   crash      the worker dies after the claim (messages are acknowledged *)
(*              early, so nobody redelivers)                               *)
(*   slow       a delivery outlives its lease (the lease is 60 s, the task *)
(*              limit half an hour)                                        *)
(***************************************************************************)
EXTENDS Naturals, FiniteSets

CONSTANTS
    Events,             \* aggregate transition and recipient, one row each
    Workers,            \* slots of the default Celery queue
    LeaseTicks,         \* lease_seconds of _claim_event
    BackoffCap,         \* 3600 in dispatch_action_outbox_event
    BackoffExponent,    \* 10 there
    MaxTasks,           \* bound on the messages for one row in the queue
    FaultKinds,         \* faults that may happen
    MaxFaults           \* their budget

ASSUME LeaseAssumption == LeaseTicks \in Nat \ {0}
ASSUME BackoffAssumption == BackoffCap \in Nat /\ BackoffExponent \in Nat
ASSUME BoundAssumption == MaxTasks \in Nat \ {0} /\ MaxFaults \in Nat
ASSUME KindAssumption == FaultKinds \subseteq {"lost", "reject", "ambiguous", "crash", "slow"}

VARIABLES
    row,        \* ActionOutboxEvent rows: [state, attempt, wait, lease]
    tasks,      \* deliver_action_outbox_event messages in the queue
    swept,      \* ids a running sweep has read and not yet enqueued
    work,       \* what each worker is doing
    sends,      \* how often the provider took the message (history)
    outlived,   \* rows whose lease ended while its holder worked (history)
    faults      \* faults so far

vars == <<row, tasks, swept, work, sends, outlived, faults>>

States == {"absent", "pending", "delivering", "delivered", "failed"}

Least(a, b) == IF a <= b THEN a ELSE b

(* Seconds until the next try after a failed attempt: doubled, up to a cap. *)
Backoff(attempt) ==
    LET delay == 2 ^ Least(attempt, BackoffExponent)
    IN  IF delay \in 0..BackoffCap THEN delay ELSE BackoffCap

Idle == [pc |-> "idle"]
Busy(w) == work[w].pc # "idle"
Current(w) == work[w].attempt = row[work[w].event].attempt

Fault(kind) ==
    /\ kind \in FaultKinds
    /\ faults < MaxFaults
    /\ faults' = faults + 1

NoFault == UNCHANGED faults

Init ==
    /\ row = [e \in Events |-> [state |-> "absent", attempt |-> 0, wait |-> 0, lease |-> 0]]
    /\ tasks = [e \in Events |-> 0]
    /\ swept = {}
    /\ work = [w \in Workers |-> Idle]
    /\ sends = [e \in Events |-> 0]
    /\ outlived = {}
    /\ faults = 0

-----------------------------------------------------------------------------
(* A message for the row enters the queue, or is lost.  The bound MaxTasks *)
(* absorbs further messages: they could at most claim the row once more. *)
Wake(e) ==
    \/ tasks' = [tasks EXCEPT ![e] = Least(@ + 1, MaxTasks)] /\ NoFault
    \/ Fault("lost") /\ UNCHANGED tasks

(* enqueue_action_outbox and, on commit, wake_action_outbox.  A replay of the *)
(* business operation finds its row and only wakes the task again. *)
EnqueueActionOutbox(e) ==
    /\ row' = IF row[e].state = "absent" THEN [row EXCEPT ![e].state = "pending"] ELSE row
    /\ Wake(e)
    /\ UNCHANGED <<swept, work, sends, outlived>>

(* Mutant: rows whose worker died are not swept. *)
DueSkipsExpired(e) == row[e].state \in {"pending", "failed"} /\ row[e].wait = 0

(* The query of sweep_action_outbox. *)
Due(e) ==
    \/ row[e].state \in {"pending", "failed"} /\ row[e].wait = 0
    \/ row[e].state = "delivering" /\ row[e].lease = 0

(* sweep_action_outbox reads the due rows, then wakes them one by one. *)
SweepRead ==
    /\ swept = {}
    /\ swept' = {e \in Events : Due(e)}
    /\ UNCHANGED <<row, tasks, work, sends, outlived, faults>>

SweepSend(e) ==
    /\ e \in swept
    /\ swept' = swept \ {e}
    /\ Wake(e)
    /\ UNCHANGED <<row, work, sends, outlived>>

(* The broker refuses a message of the sweep: the rows after it are not woken. *)
SweepAborts ==
    /\ swept # {}
    /\ Fault("lost")
    /\ swept' = {}
    /\ UNCHANGED <<row, tasks, work, sends, outlived>>

(* Mutant: a live lease does not keep a second worker out. *)
ClaimableDespiteLease(e) == row[e].state # "delivered" /\ row[e].wait = 0

(* The early returns of _claim_event. *)
Claimable(e) ==
    /\ row[e].state # "delivered"
    /\ ~(row[e].state = "delivering" /\ row[e].lease > 0)
    /\ row[e].wait = 0

(* A worker takes a message and runs _claim_event on the locked row. *)
Claim(w, e) ==
    /\ ~Busy(w) /\ tasks[e] > 0
    /\ tasks' = [tasks EXCEPT ![e] = @ - 1]
    /\ IF Claimable(e)
       THEN /\ row' = [row EXCEPT ![e].state = "delivering", ![e].attempt = @ + 1, ![e].lease = LeaseTicks]
            /\ work' = [work EXCEPT ![w] = [pc |-> "deliver", event |-> e, attempt |-> row[e].attempt + 1]]
       ELSE UNCHANGED <<row, work>>
    /\ UNCHANGED <<swept, sends, outlived, faults>>

(* deliver(event). *)
Deliver(w) ==
    LET e == work[w].event
    IN  /\ work[w].pc = "deliver"
        /\ \/ /\ sends' = [sends EXCEPT ![e] = @ + 1]
              /\ work' = [work EXCEPT ![w].pc = "sent"]
              /\ NoFault
           \/ /\ Fault("reject")
              /\ work' = [work EXCEPT ![w].pc = "raised"]
              /\ UNCHANGED sends
           \/ /\ Fault("ambiguous")
              /\ sends' = [sends EXCEPT ![e] = @ + 1]
              /\ work' = [work EXCEPT ![w].pc = "raised"]
        /\ UNCHANGED <<row, tasks, swept, outlived>>

(* Mutant: the attempt is not compared. *)
FencedByStateOnly(w) == row[work[w].event].state = "delivering"

(* Mutant: neither state nor attempt is compared. *)
Unfenced(w) == TRUE

(* The fence of both settling transactions. *)
Fenced(w) == row[work[w].event].state = "delivering" /\ Current(w)

(* Mutant: the sent message counts as a failed attempt. *)
SettleSentAsFailed(w) ==
    LET e == work[w].event
    IN  /\ work[w].pc = "sent"
        /\ row' = IF Fenced(w)
                  THEN [row EXCEPT ![e].state = "failed", ![e].wait = 0, ![e].lease = 0]
                  ELSE row
        /\ work' = [work EXCEPT ![w] = Idle]
        /\ UNCHANGED <<tasks, swept, sends, outlived, faults>>

(* The transaction after a delivery. *)
SettleSent(w) ==
    LET e == work[w].event
    IN  /\ work[w].pc = "sent"
        /\ row' = IF Fenced(w)
                  THEN [row EXCEPT ![e].state = "delivered", ![e].wait = 0, ![e].lease = 0]
                  ELSE row
        /\ work' = [work EXCEPT ![w] = Idle]
        /\ UNCHANGED <<tasks, swept, sends, outlived, faults>>

(* Mutant: any end of an attempt settles the row as delivered. *)
SettleRaisedAsDelivered(w) ==
    LET e == work[w].event
    IN  /\ work[w].pc = "raised"
        /\ row' = IF Fenced(w)
                  THEN [row EXCEPT ![e].state = "delivered", ![e].wait = 0, ![e].lease = 0]
                  ELSE row
        /\ work' = [work EXCEPT ![w] = Idle]
        /\ UNCHANGED <<tasks, swept, sends, outlived, faults>>

(* The exception branch. *)
SettleRaised(w) ==
    LET e == work[w].event
    IN  /\ work[w].pc = "raised"
        /\ row' = IF Fenced(w)
                  THEN [row EXCEPT ![e].state = "failed", ![e].lease = 0,
                                   ![e].wait = Backoff(work[w].attempt)]
                  ELSE row
        /\ work' = [work EXCEPT ![w] = Idle]
        /\ UNCHANGED <<tasks, swept, sends, outlived, faults>>

WorkerStep(w) ==
    \/ \E e \in Events : Claim(w, e)
    \/ Deliver(w) \/ SettleSent(w) \/ SettleRaised(w)

(* The worker dies; its row stays delivering until the lease runs out. *)
Crash(w) ==
    /\ Busy(w)
    /\ Fault("crash")
    /\ work' = [work EXCEPT ![w] = Idle]
    /\ UNCHANGED <<row, tasks, swept, sends, outlived>>

LoseMessage(e) ==
    /\ tasks[e] > 0
    /\ Fault("lost")
    /\ tasks' = [tasks EXCEPT ![e] = @ - 1]
    /\ UNCHANGED <<row, swept, work, sends, outlived>>

(* Rows whose lease ends with this tick while their worker goes on. *)
Outlived ==
    {work[w].event : w \in {v \in Workers : Busy(v) /\ Current(v) /\ row[work[v].event].lease = 1}}

(* A tick that ends the lease of a running delivery takes a slow fault. *)
Tick ==
    /\ IF Outlived # {} THEN Fault("slow") ELSE NoFault
    /\ outlived' = outlived \cup Outlived
    /\ row' = [e \in Events |-> [row[e] EXCEPT
                !.wait = IF @ = 0 THEN 0 ELSE @ - 1,
                !.lease = IF @ = 0 THEN 0 ELSE @ - 1]]
    /\ UNCHANGED <<tasks, swept, work, sends>>

Next ==
    \/ \E e \in Events : EnqueueActionOutbox(e) \/ SweepSend(e) \/ LoseMessage(e)
    \/ SweepRead \/ SweepAborts
    \/ \E w \in Workers : WorkerStep(w) \/ Crash(w)
    \/ Tick

Spec == Init /\ [][Next]_vars

(* Celery beat runs the sweep, workers run tasks, time passes.  The queue is *)
(* first in, first out: other rows' messages do not overtake one forever. *)
Fairness ==
    /\ WF_vars(SweepRead) /\ \A e \in Events : WF_vars(SweepSend(e))
    /\ \A w \in Workers : WF_vars(Deliver(w) \/ SettleSent(w) \/ SettleRaised(w))
    /\ \A e \in Events : SF_vars(\E w \in Workers : Claim(w, e))
    /\ WF_vars(Tick)

FairSpec == Spec /\ Fairness

-----------------------------------------------------------------------------
WorkerStates ==
    {Idle} \cup [pc : {"deliver", "sent", "raised"}, event : Events, attempt : Nat]

(* Every variable has its type. *)
TypeOK ==
    /\ row \in [Events -> [state : States, attempt : Nat, wait : Nat, lease : 0..LeaseTicks]]
    /\ tasks \in [Events -> Nat]
    /\ swept \subseteq Events
    /\ work \in [Workers -> WorkerStates]
    /\ sends \in [Events -> Nat]
    /\ outlived \subseteq Events
    /\ faults \in 0..MaxFaults

(***************************************************************************)
(* Fencing: running attempts of a row are different ones, none is newer    *)
(* than the row, and while the newest runs the row is delivering, whatever *)
(* became of older attempts that outlived their lease.  So the outcome of  *)
(* the newest attempt is never discarded.                                  *)
(***************************************************************************)
NewestAttemptOwnsRow ==
    \A w \in Workers : Busy(w) =>
        /\ work[w].attempt <= row[work[w].event].attempt
        /\ Current(w) => row[work[w].event].state = "delivering"
        /\ \A v \in Workers :
              Busy(v) /\ work[v].event = work[w].event /\ work[v].attempt = work[w].attempt => v = w

(***************************************************************************)
(* Each further message to a recipient is paid for by a fault: duplicate   *)
(* wakeups and sweeps alone never send twice.                              *)
(***************************************************************************)
DuplicatesNeedFaults == \A e \in Events : sends[e] <= 1 + faults

(***************************************************************************)
(* A delivered row never changes again, whichever attempt ends afterwards. *)
(***************************************************************************)
DeliveredIsFinal ==
    [][\A e \in Events : row[e].state = "delivered" => row'[e] = row[e]]_vars

(***************************************************************************)
(* Two workers never deliver the same row at the same time, unless an      *)
(* earlier delivery of that row outlived its lease.                        *)
(***************************************************************************)
ExclusiveDelivery ==
    \A v, w \in Workers :
        Busy(v) /\ Busy(w) /\ work[v].event = work[w].event => v = w \/ work[v].event \in outlived

(* A row as the business transaction knows it. *)
DebtOf(state) ==
    IF state = "absent" THEN "none" ELSE IF state = "delivered" THEN "delivered" ELSE "owed"

Outbox == INSTANCE OutboxContract WITH debt <- [e \in Events |-> DebtOf(row[e].state)]

(***************************************************************************)
(* Queue, sweep, leases, fences and failures together keep the promise of  *)
(* OutboxContract: what is delivered was sent and stays delivered, only    *)
(* what is owed is sent, and whatever is sent again follows a failure.     *)
(***************************************************************************)
ImplementsOutbox == Outbox!Spec

(***************************************************************************)
(* Every row is delivered in the end, through lost wakeups, refusals and   *)
(* dead workers.                                                           *)
(***************************************************************************)
EventuallyDelivered ==
    \A e \in Events : row[e].state # "absent" ~> row[e].state = "delivered"
=============================================================================
