------------------------- MODULE ActionOutboxProofs -------------------------
(***************************************************************************)
(* TLAPS proofs about ActionOutbox for any number of rows and workers, any *)
(* lease, back-off and queue length and any fault budget: fencing by the   *)
(* attempt number, finality of a delivered row, exclusive delivery of rows *)
(* whose lease was not outlived, an account of duplicates in which each is *)
(* paid for by a fault, and from these the refinement of OutboxContract.   *)
(***************************************************************************)
EXTENDS ActionOutbox, FiniteSetTheorems, TLAPS

(* A message taken by the provider is counted for a worker that saw it taken. *)
SentCounted == \A w \in Workers : work[w].pc = "sent" => sends[work[w].event] > 0

(* A row is only ever delivered after the provider took its message. *)
DeliveredMeansSent ==
    \A e \in Events : row[e].state = "delivered" => sends[e] > 0

IInv == TypeOK /\ NewestAttemptOwnsRow /\ SentCounted /\ DeliveredMeansSent

-----------------------------------------------------------------------------
(* Back-off is a number of ticks. *)
LEMMA BackoffTyped == \A n : Backoff(n) \in Nat
BY BackoffAssumption DEF Backoff

(* A fault counts within its budget. *)
LEMMA FaultTyped ==
    ASSUME faults \in 0..MaxFaults, NEW kind, Fault(kind) \/ NoFault
    PROVE  faults' \in 0..MaxFaults
BY BoundAssumption DEF Fault, NoFault

(* The record of a busy worker. *)
LEMMA BusyTyped ==
    ASSUME TypeOK, NEW w \in Workers, Busy(w)
    PROVE  /\ work[w] \in [pc : {"deliver", "sent", "raised"}, event : Events, attempt : Nat]
           /\ work[w].event \in Events /\ work[w].attempt \in Nat
           /\ work[w].pc \in {"deliver", "sent", "raised"}
BY DEF TypeOK, WorkerStates, Busy, Idle

(* The initial state. *)
LEMMA InitIInv == Init => IInv
BY BoundAssumption, LeaseAssumption
   DEF Init, IInv, TypeOK, States, WorkerStates, Idle, NewestAttemptOwnsRow, Busy,
       SentCounted, DeliveredMeansSent

(* Steps that change neither rows nor workers and send nothing. *)
LEMMA QueueKeeps ==
    ASSUME IInv, UNCHANGED <<row, work, sends, outlived>>, tasks' \in [Events -> Nat],
           swept' \subseteq Events, faults' \in 0..MaxFaults
    PROVE  IInv'
BY DEF IInv, TypeOK, NewestAttemptOwnsRow, SentCounted, DeliveredMeansSent, Busy, Current

(* A worker becomes idle. *)
LEMMA IdleKeeps ==
    ASSUME IInv, NEW w \in Workers, work' = [work EXCEPT ![w] = Idle],
           UNCHANGED <<row, tasks, swept, sends, outlived>>, faults' \in 0..MaxFaults
    PROVE  IInv'
<1>1. \A v \in Workers : Busy(v)' => v # w /\ work'[v] = work[v] /\ Busy(v)
  BY DEF IInv, TypeOK, Busy, Idle
<1>2. TypeOK'
  BY DEF IInv, TypeOK, WorkerStates
<1>3. NewestAttemptOwnsRow'
  BY <1>1 DEF IInv, NewestAttemptOwnsRow, Current
<1>4. SentCounted'
  BY <1>1 DEF IInv, SentCounted, Busy, TypeOK, Idle
<1> QED  BY <1>2, <1>3, <1>4 DEF IInv, DeliveredMeansSent

(* Settling a row and its worker. *)
LEMMA SettleKeeps ==
    ASSUME IInv, NEW w \in Workers, Busy(w), Fenced(w),
           NEW state \in States \ {"absent"}, NEW wait \in Nat,
           state = "delivered" => work[w].pc = "sent",
           row' = [row EXCEPT ![work[w].event].state = state, ![work[w].event].wait = wait,
                              ![work[w].event].lease = 0],
           work' = [work EXCEPT ![w] = Idle],
           UNCHANGED <<tasks, swept, sends, outlived, faults>>
    PROVE  IInv'
<1> DEFINE e == work[w].event
<1>0. e \in Events /\ work[w].attempt \in Nat /\ work[w].attempt = row[e].attempt
  BY BusyTyped DEF IInv, Fenced, Current
<1>1. \A v \in Workers : Busy(v)' => v # w /\ work'[v] = work[v] /\ Busy(v)
  BY DEF IInv, TypeOK, Busy, Idle
<1>2. \A x \in Events : /\ row'[x].attempt = row[x].attempt
                        /\ x # e => row'[x] = row[x]
                        /\ x = e => row'[x].state = state
  BY <1>0 DEF IInv, TypeOK
<1>3. TypeOK'
  <2>1. row' \in [Events -> [state : States, attempt : Nat, wait : Nat, lease : 0..LeaseTicks]]
    <3>1. row[e] \in [state : States, attempt : Nat, wait : Nat, lease : 0..LeaseTicks]
      BY <1>0 DEF IInv, TypeOK
    <3>2. 0 \in 0..LeaseTicks /\ state \in States
      BY LeaseAssumption
    <3>3. [[[row[e] EXCEPT !.state = state] EXCEPT !.wait = wait] EXCEPT !.lease = 0]
            \in [state : States, attempt : Nat, wait : Nat, lease : 0..LeaseTicks]
      BY <3>1, <3>2
    <3> QED  BY <1>0, <3>3, <3>2 DEF IInv, TypeOK
  <2> QED  BY <2>1 DEF IInv, TypeOK, WorkerStates
<1>4. NewestAttemptOwnsRow'
  <2> SUFFICES ASSUME NEW v \in Workers, Busy(v)'
               PROVE  /\ work'[v].attempt <= row'[work'[v].event].attempt
                      /\ Current(v)' => row'[work'[v].event].state = "delivering"
                      /\ \A u \in Workers :
                           Busy(u)' /\ work'[u].event = work'[v].event
                             /\ work'[u].attempt = work'[v].attempt => u = v
    BY DEF NewestAttemptOwnsRow
  <2>1. v # w /\ work'[v] = work[v] /\ Busy(v) /\ work[v].event \in Events
    BY <1>1, BusyTyped DEF IInv
  <2>2. /\ work[v].attempt <= row[work[v].event].attempt
        /\ Current(v) => row[work[v].event].state = "delivering"
        /\ \A u \in Workers : Busy(u) /\ work[u].event = work[v].event
                              /\ work[u].attempt = work[v].attempt => u = v
    BY <2>1 DEF IInv, NewestAttemptOwnsRow
  <2>3. Current(v) => work[v].event # e
    BY <1>0, <2>1, <2>2 DEF Current
  <2>4. row'[work[v].event].attempt = row[work[v].event].attempt
    BY <1>2, <2>1
  <2>5. Current(v)' => row'[work'[v].event].state = "delivering"
    <3>1. Current(v)' => Current(v)
      BY <2>1, <2>4 DEF Current
    <3> QED  BY <1>2, <2>1, <2>2, <2>3, <3>1
  <2>6. \A u \in Workers : Busy(u)' /\ work'[u].event = work'[v].event
                           /\ work'[u].attempt = work'[v].attempt => u = v
    BY <1>1, <2>1, <2>2
  <2> QED  BY <2>1, <2>2, <2>4, <2>5, <2>6
<1>5. SentCounted'
  BY <1>1 DEF IInv, SentCounted, Busy, TypeOK, Idle
<1>6. DeliveredMeansSent'
  <2>1. state = "delivered" => sends[e] > 0
    BY DEF IInv, SentCounted
  <2> QED  BY <1>2, <2>1 DEF IInv, DeliveredMeansSent
<1> QED  BY <1>3, <1>4, <1>5, <1>6 DEF IInv

-----------------------------------------------------------------------------
(* A wakeup adds a message or loses it. *)
LEMMA WakeTyped ==
    ASSUME TypeOK, NEW e \in Events, Wake(e)
    PROVE  tasks' \in [Events -> Nat] /\ faults' \in 0..MaxFaults
<1>1. tasks' \in [Events -> Nat]
  <2>1. Least(tasks[e] + 1, MaxTasks) \in Nat
    BY BoundAssumption DEF TypeOK, Least
  <2> QED  BY <2>1 DEF TypeOK, Wake
<1>2. faults' \in 0..MaxFaults
  BY FaultTyped DEF TypeOK, Wake
<1> QED  BY <1>1, <1>2

(* A row is created, or found. *)
LEMMA EnqueueStep ==
    ASSUME IInv, NEW e \in Events, EnqueueActionOutbox(e)
    PROVE  IInv'
<1>1. tasks' \in [Events -> Nat] /\ faults' \in 0..MaxFaults
  BY WakeTyped DEF IInv, EnqueueActionOutbox
<1>2. CASE row[e].state # "absent"
  BY <1>1, <1>2, QueueKeeps DEF EnqueueActionOutbox, IInv, TypeOK
<1>3. CASE row[e].state = "absent"
  <2>1. row' = [row EXCEPT ![e].state = "pending"] /\ UNCHANGED <<swept, work, sends, outlived>>
    BY <1>3 DEF EnqueueActionOutbox
  <2>2. \A x \in Events : /\ row'[x].attempt = row[x].attempt
                          /\ row'[x].state = IF x = e THEN "pending" ELSE row[x].state
    BY <2>1 DEF IInv, TypeOK
  <2>3. TypeOK'
    <3>1. [row[e] EXCEPT !.state = "pending"]
            \in [state : States, attempt : Nat, wait : Nat, lease : 0..LeaseTicks]
      BY DEF IInv, TypeOK, States
    <3> QED  BY <1>1, <2>1, <3>1 DEF IInv, TypeOK
  <2>4. \A w \in Workers : Busy(w) => work[w].event \in Events
    BY BusyTyped DEF IInv
  <2>5. NewestAttemptOwnsRow'
    <3> SUFFICES ASSUME NEW w \in Workers, Busy(w)
                 PROVE  /\ work[w].attempt <= row'[work[w].event].attempt
                        /\ work[w].attempt = row'[work[w].event].attempt
                             => row'[work[w].event].state = "delivering"
                        /\ \A v \in Workers : Busy(v) /\ work[v].event = work[w].event
                                              /\ work[v].attempt = work[w].attempt => v = w
      BY <2>1 DEF NewestAttemptOwnsRow, Busy, Current
    <3> QED  BY <1>3, <2>2, <2>4 DEF IInv, NewestAttemptOwnsRow, Current
  <2>6. SentCounted'
    BY <2>1 DEF IInv, SentCounted
  <2> QED  BY <2>1, <2>2, <2>3, <2>5, <2>6 DEF IInv, DeliveredMeansSent
<1> QED  BY <1>2, <1>3

(* A worker claims a row, or drops a message for a row that is not claimable. *)
LEMMA ClaimStep ==
    ASSUME IInv, NEW w \in Workers, NEW e \in Events, Claim(w, e)
    PROVE  IInv'
<1>1. tasks' \in [Events -> Nat] /\ UNCHANGED <<swept, sends, outlived, faults>>
  BY DEF Claim, IInv, TypeOK
<1>2. CASE ~Claimable(e)
  BY <1>1, <1>2, QueueKeeps DEF Claim, IInv, TypeOK
<1>3. CASE Claimable(e)
  <2> DEFINE n == row[e].attempt + 1
  <2>0. n \in Nat /\ n > row[e].attempt
    BY DEF IInv, TypeOK
  <2>1. /\ row' = [row EXCEPT ![e].state = "delivering", ![e].attempt = @ + 1, ![e].lease = LeaseTicks]
        /\ work' = [work EXCEPT ![w] = [pc |-> "deliver", event |-> e, attempt |-> n]]
    BY <1>3 DEF Claim
  <2>2. \A x \in Events : /\ x # e => row'[x] = row[x]
                          /\ x = e => row'[x].attempt = n /\ row'[x].state = "delivering"
    BY <2>1 DEF IInv, TypeOK
  <2>3. \A v \in Workers : v # w => work'[v] = work[v]
    BY <2>1 DEF IInv, TypeOK
  <2>4. work'[w] = [pc |-> "deliver", event |-> e, attempt |-> n]
    BY <2>1 DEF IInv, TypeOK
  <2>5. TypeOK'
    <3>1. row[e] \in [state : States, attempt : Nat, wait : Nat, lease : 0..LeaseTicks]
      BY DEF IInv, TypeOK
    <3>2. LeaseTicks \in 0..LeaseTicks /\ "delivering" \in States
      BY LeaseAssumption DEF States
    <3>3. [[[row[e] EXCEPT !.state = "delivering"] EXCEPT !.attempt = n] EXCEPT !.lease = LeaseTicks]
            \in [state : States, attempt : Nat, wait : Nat, lease : 0..LeaseTicks]
      BY <3>1, <3>2, <2>0
    <3>4. row' \in [Events -> [state : States, attempt : Nat, wait : Nat, lease : 0..LeaseTicks]]
      BY <2>1, <3>3, <3>1 DEF IInv, TypeOK
    <3>5. work' \in [Workers -> WorkerStates]
      BY <2>1, <2>0 DEF IInv, TypeOK, WorkerStates
    <3> QED  BY <1>1, <3>4, <3>5 DEF IInv, TypeOK
  <2>6. NewestAttemptOwnsRow'
    <3> SUFFICES ASSUME NEW v \in Workers, Busy(v)'
                 PROVE  /\ work'[v].attempt <= row'[work'[v].event].attempt
                        /\ Current(v)' => row'[work'[v].event].state = "delivering"
                        /\ \A u \in Workers :
                             Busy(u)' /\ work'[u].event = work'[v].event
                               /\ work'[u].attempt = work'[v].attempt => u = v
      BY DEF NewestAttemptOwnsRow
    <3>1. \A u \in Workers : Busy(u)' /\ u # w =>
             /\ work[u].event \in Events /\ work[u].attempt \in Nat
             /\ work[u].attempt <= row[work[u].event].attempt
             /\ Busy(u)
      <4> TAKE u \in Workers
      <4> HAVE Busy(u)' /\ u # w
      <4>1. Busy(u)
        BY <2>3 DEF Busy
      <4> QED  BY <4>1, BusyTyped DEF IInv, NewestAttemptOwnsRow
    <3>2. \A u \in Workers : Busy(u)' /\ u # w /\ work'[u].event = e
                              => work'[u].attempt < n
      BY <3>1, <2>0, <2>3 DEF IInv, TypeOK
    <3>3. CASE v = w
      BY <3>3, <3>2, <2>2, <2>4, <2>0
    <3>4. CASE v # w
      <4>1. Busy(v) /\ work'[v] = work[v] /\ work[v].event \in Events
        BY <3>4, <3>1, <2>3
      <4>2. /\ work[v].attempt <= row[work[v].event].attempt
            /\ Current(v) => row[work[v].event].state = "delivering"
            /\ \A u \in Workers : Busy(u) /\ work[u].event = work[v].event
                                  /\ work[u].attempt = work[v].attempt => u = v
        BY <4>1 DEF IInv, NewestAttemptOwnsRow
      <4>3. work'[v].attempt <= row'[work'[v].event].attempt
        BY <4>1, <4>2, <3>1, <3>2, <3>4, <2>2, <2>0
      <4>4. Current(v)' => row'[work'[v].event].state = "delivering"
        BY <4>1, <4>2, <2>2 DEF Current
      <4>5. ASSUME NEW u \in Workers, Busy(u)', work'[u].event = work'[v].event,
                   work'[u].attempt = work'[v].attempt
            PROVE  u = v
        <5>1. CASE u = w
          BY <5>1, <4>5, <3>2, <3>4, <3>1, <2>4, <2>0, <2>3
        <5>2. CASE u # w
          BY <5>2, <4>5, <4>1, <4>2, <3>1, <2>3
        <5> QED  BY <5>1, <5>2
      <4> QED  BY <4>3, <4>4, <4>5
    <3> QED  BY <3>3, <3>4
  <2>7. SentCounted'
    BY <1>1, <2>3, <2>4 DEF IInv, SentCounted
  <2>8. DeliveredMeansSent'
    BY <1>1, <2>2 DEF IInv, DeliveredMeansSent
  <2> QED  BY <2>5, <2>6, <2>7, <2>8 DEF IInv
<1> QED  BY <1>2, <1>3

(* The call of the adapter ends. *)
LEMMA DeliverStep ==
    ASSUME IInv, NEW w \in Workers, Deliver(w)
    PROVE  IInv'
<1> DEFINE e == work[w].event
<1>0. Busy(w) /\ e \in Events /\ UNCHANGED <<row, tasks, swept, outlived>>
  BY BusyTyped DEF Deliver, Busy, IInv
<1>1. PICK pc \in {"sent", "raised"} :
          /\ work' = [work EXCEPT ![w].pc = pc]
          /\ sends' \in {sends, [sends EXCEPT ![e] = @ + 1]}
          /\ pc = "sent" => sends' = [sends EXCEPT ![e] = @ + 1]
  BY DEF Deliver
<1>2. faults' \in 0..MaxFaults
  BY FaultTyped DEF Deliver, IInv, TypeOK
<1>3. \A v \in Workers : /\ Busy(v)' => Busy(v)
                         /\ work'[v].event = work[v].event /\ work'[v].attempt = work[v].attempt
                         /\ v # w => work'[v] = work[v]
                         /\ v = w => work'[v].pc = pc
  <2>1. work[w] \in [pc : {"deliver", "sent", "raised"}, event : Events, attempt : Nat]
    BY <1>0, BusyTyped DEF IInv
  <2> QED  BY <1>0, <1>1, <2>1 DEF IInv, TypeOK, Busy
<1>4. /\ sends' \in [Events -> Nat]
      /\ \A x \in Events : sends'[x] >= sends[x]
      /\ pc = "sent" => sends'[e] > 0
  BY <1>0, <1>1 DEF IInv, TypeOK
<1>5. TypeOK'
  <2>1. [work[w] EXCEPT !.pc = pc] \in [pc : {"deliver", "sent", "raised"}, event : Events, attempt : Nat]
    BY <1>0, BusyTyped DEF IInv
  <2>2. work' \in [Workers -> WorkerStates]
    BY <1>1, <2>1 DEF IInv, TypeOK, WorkerStates
  <2> QED  BY <1>0, <1>2, <1>4, <2>2 DEF IInv, TypeOK
<1>6. NewestAttemptOwnsRow'
  BY <1>0, <1>3 DEF IInv, NewestAttemptOwnsRow, Current
<1>7. SentCounted'
  <2> SUFFICES ASSUME NEW v \in Workers, work'[v].pc = "sent"
               PROVE  sends'[work'[v].event] > 0
    BY DEF SentCounted
  <2>1. CASE v = w
    BY <2>1, <1>3, <1>4
  <2>2. CASE v # w
    <3>1. work[v].pc = "sent" /\ work'[v] = work[v] /\ sends[work[v].event] > 0
      BY <2>2, <1>3 DEF IInv, SentCounted
    <3>2. work[v].event \in Events
      BY <3>1, BusyTyped DEF IInv, Busy
    <3> QED  BY <3>1, <3>2, <1>4 DEF IInv, TypeOK
  <2> QED  BY <2>1, <2>2
<1>8. DeliveredMeansSent'
  BY <1>0, <1>4 DEF IInv, DeliveredMeansSent, TypeOK
<1> QED  BY <1>5, <1>6, <1>7, <1>8 DEF IInv

(* The two settling transactions. *)
LEMMA SettleStep ==
    ASSUME IInv, NEW w \in Workers, SettleSent(w) \/ SettleRaised(w)
    PROVE  IInv'
<1>0. Busy(w) /\ work' = [work EXCEPT ![w] = Idle] /\ UNCHANGED <<tasks, swept, sends, outlived, faults>>
  BY DEF SettleSent, SettleRaised, Busy
<1>1. CASE ~Fenced(w)
  BY <1>0, <1>1, IdleKeeps DEF SettleSent, SettleRaised, IInv, TypeOK
<1>2. CASE Fenced(w) /\ SettleSent(w)
  <2>1. work[w].pc = "sent"
    BY <1>2 DEF SettleSent
  <2>2. row' = [row EXCEPT ![work[w].event].state = "delivered", ![work[w].event].wait = 0,
                           ![work[w].event].lease = 0]
    BY <1>2 DEF SettleSent
  <2>3. "delivered" \in States \ {"absent"} /\ 0 \in Nat
    BY DEF States
  <2> QED  BY <1>0, <1>2, <2>1, <2>2, <2>3, SettleKeeps
<1>3. CASE Fenced(w) /\ SettleRaised(w)
  <2>1. row' = [row EXCEPT ![work[w].event].state = "failed", ![work[w].event].lease = 0,
                           ![work[w].event].wait = Backoff(work[w].attempt)]
    BY <1>3 DEF SettleRaised
  <2>2. row' = [row EXCEPT ![work[w].event].state = "failed",
                           ![work[w].event].wait = Backoff(work[w].attempt),
                           ![work[w].event].lease = 0]
    BY <1>0, <2>1, BusyTyped DEF IInv, TypeOK
  <2>3. "failed" \in States \ {"absent"} /\ Backoff(work[w].attempt) \in Nat
    BY BackoffTyped DEF States
  <2> QED  BY <1>0, <1>3, <2>2, <2>3, SettleKeeps
<1> QED  BY <1>1, <1>2, <1>3

(* Time passes for every row. *)
LEMMA TickStep ==
    ASSUME IInv, Tick
    PROVE  IInv'
<1>1. UNCHANGED <<tasks, swept, work, sends>>
  BY DEF Tick
<1>2. faults' \in 0..MaxFaults
  BY FaultTyped DEF Tick, IInv, TypeOK
<1>3. row' = [e \in Events |-> [row[e] EXCEPT !.wait = IF @ = 0 THEN 0 ELSE @ - 1,
                                              !.lease = IF @ = 0 THEN 0 ELSE @ - 1]]
  BY DEF Tick
<1>4. \A e \in Events :
        /\ row'[e].state = row[e].state /\ row'[e].attempt = row[e].attempt
        /\ row'[e] \in [state : States, attempt : Nat, wait : Nat, lease : 0..LeaseTicks]
  <2> SUFFICES ASSUME NEW e \in Events
               PROVE  /\ row'[e].state = row[e].state /\ row'[e].attempt = row[e].attempt
                      /\ row'[e] \in [state : States, attempt : Nat, wait : Nat, lease : 0..LeaseTicks]
    OBVIOUS
  <2>1. row[e] \in [state : States, attempt : Nat, wait : Nat, lease : 0..LeaseTicks]
    BY DEF IInv, TypeOK
  <2>2. PICK a \in Nat, l \in 0..LeaseTicks :
          row'[e] = [[row[e] EXCEPT !.wait = a] EXCEPT !.lease = l]
    <3>1. /\ (IF row[e].wait = 0 THEN 0 ELSE row[e].wait - 1) \in Nat
          /\ (IF row[e].lease = 0 THEN 0 ELSE row[e].lease - 1) \in 0..LeaseTicks
      BY <2>1, LeaseAssumption
    <3> QED  BY <1>3, <2>1, <3>1
  <2> QED  BY <2>1, <2>2
<1>5. TypeOK'
  <2>1. outlived' \subseteq Events
    <3>1. \A w \in Workers : Busy(w) => work[w].event \in Events
      BY BusyTyped DEF IInv
    <3>2. Outlived \subseteq Events
      BY <3>1 DEF Outlived
    <3> QED  BY <3>2 DEF Tick, IInv, TypeOK
  <2> QED  BY <1>1, <1>2, <1>3, <1>4, <2>1 DEF IInv, TypeOK
<1>6. NewestAttemptOwnsRow'
  <2>1. \A w \in Workers : Busy(w) => work[w].event \in Events
    BY BusyTyped DEF IInv
  <2> QED  BY <1>1, <1>4, <2>1 DEF IInv, NewestAttemptOwnsRow, Busy, Current
<1> QED  BY <1>1, <1>4, <1>5, <1>6 DEF IInv, SentCounted, DeliveredMeansSent

(* Every step preserves the inductive invariant. *)
LEMMA NextIInv == IInv /\ [Next]_vars => IInv'
<1> SUFFICES ASSUME IInv, [Next]_vars PROVE IInv'
  OBVIOUS
<1>1. CASE UNCHANGED vars
  BY <1>1, QueueKeeps DEF vars, IInv, TypeOK
<1>2. ASSUME NEW e \in Events, EnqueueActionOutbox(e) PROVE IInv'
  BY <1>2, EnqueueStep
<1>3. ASSUME NEW e \in Events, SweepSend(e) \/ LoseMessage(e) PROVE IInv'
  <2>1. tasks' \in [Events -> Nat] /\ faults' \in 0..MaxFaults
    <3>1. CASE SweepSend(e)
      BY <3>1, WakeTyped DEF SweepSend, IInv
    <3>2. CASE LoseMessage(e)
      BY <3>2, FaultTyped DEF LoseMessage, IInv, TypeOK
    <3> QED  BY <1>3, <3>1, <3>2
  <2>2. UNCHANGED <<row, work, sends, outlived>> /\ swept' \subseteq Events
    BY <1>3 DEF SweepSend, LoseMessage, IInv, TypeOK
  <2> QED  BY <2>1, <2>2, QueueKeeps
<1>4. CASE SweepRead
  BY <1>4, QueueKeeps DEF SweepRead, IInv, TypeOK
<1>5. CASE SweepAborts
  <2>1. faults' \in 0..MaxFaults
    BY <1>5, FaultTyped DEF SweepAborts, IInv, TypeOK
  <2> QED  BY <1>5, <2>1, QueueKeeps DEF SweepAborts, IInv, TypeOK
<1>6. ASSUME NEW w \in Workers, NEW e \in Events, Claim(w, e) PROVE IInv'
  BY <1>6, ClaimStep
<1>7. ASSUME NEW w \in Workers, Deliver(w) PROVE IInv'
  BY <1>7, DeliverStep
<1>8. ASSUME NEW w \in Workers, SettleSent(w) \/ SettleRaised(w) PROVE IInv'
  BY <1>8, SettleStep
<1>9. ASSUME NEW w \in Workers, Crash(w) PROVE IInv'
  <2>1. faults' \in 0..MaxFaults
    BY <1>9, FaultTyped DEF Crash, IInv, TypeOK
  <2> QED  BY <1>9, <2>1, IdleKeeps DEF Crash
<1>10. CASE Tick
  BY <1>10, TickStep
<1> QED
  BY <1>1, <1>2, <1>3, <1>4, <1>5, <1>6, <1>7, <1>8, <1>9, <1>10 DEF Next, WorkerStep

(***************************************************************************)
(* Every variable has its type (the rows, queue and workers of             *)
(* outbox_services.py and tasks.py).                                       *)
(***************************************************************************)
THEOREM TypeTheorem == Spec => []TypeOK
<1>1. IInv => TypeOK
  BY DEF IInv
<1> QED  BY InitIInv, NextIInv, <1>1, PTL DEF Spec

(***************************************************************************)
(* Fencing: the newest attempt of a row owns it, for any lease and any     *)
(* delivery that outlives it (the comparison of attempt_count in           *)
(* dispatch_action_outbox_event).                                          *)
(***************************************************************************)
THEOREM FencingTheorem == Spec => []NewestAttemptOwnsRow
<1>1. IInv => NewestAttemptOwnsRow
  BY DEF IInv
<1> QED  BY InitIInv, NextIInv, <1>1, PTL DEF Spec

(***************************************************************************)
(* A delivered row was sent: no end of an attempt but a successful call of *)
(* the adapter marks it delivered.                                         *)
(***************************************************************************)
THEOREM SentTheorem == Spec => []DeliveredMeansSent
<1>1. IInv => DeliveredMeansSent
  BY DEF IInv
<1> QED  BY InitIInv, NextIInv, <1>1, PTL DEF Spec

-----------------------------------------------------------------------------
(* A delivered row waits for nothing and holds no lease. *)
DeliveredAtRest ==
    \A e \in Events : row[e].state = "delivered" => row[e].wait = 0 /\ row[e].lease = 0

(* What a step may do to a delivered row: nothing. *)
DeliveredKept == \A e \in Events : row[e].state = "delivered" => row'[e] = row[e]

(* A step that leaves delivered rows alone and delivers rows at rest. *)
LEMMA KeptStep ==
    ASSUME IInv, DeliveredAtRest, [Next]_vars
    PROVE  DeliveredKept /\ DeliveredAtRest'
<1>1. CASE row' = row
  BY <1>1 DEF DeliveredKept, DeliveredAtRest
<1>2. ASSUME NEW e \in Events, EnqueueActionOutbox(e), row[e].state = "absent"
      PROVE  DeliveredKept /\ DeliveredAtRest'
  <2>1. \A x \in Events : /\ x # e => row'[x] = row[x]
                          /\ x = e => row'[x].state = "pending"
    BY <1>2 DEF EnqueueActionOutbox, IInv, TypeOK
  <2> QED  BY <1>2, <2>1 DEF DeliveredKept, DeliveredAtRest
<1>3. ASSUME NEW w \in Workers, NEW e \in Events, Claim(w, e), Claimable(e)
      PROVE  DeliveredKept /\ DeliveredAtRest'
  <2>1. \A x \in Events : /\ x # e => row'[x] = row[x]
                          /\ x = e => row'[x].state = "delivering"
    BY <1>3 DEF Claim, IInv, TypeOK
  <2> QED  BY <1>3, <2>1 DEF DeliveredKept, DeliveredAtRest, Claimable
<1>4. ASSUME NEW w \in Workers, SettleSent(w) \/ SettleRaised(w), Fenced(w)
      PROVE  DeliveredKept /\ DeliveredAtRest'
  <2> DEFINE e == work[w].event
  <2>1. e \in Events
    BY <1>4, BusyTyped DEF IInv, Busy, SettleSent, SettleRaised
  <2>2. \A x \in Events : x # e => row'[x] = row[x]
    BY <1>4, <2>1 DEF SettleSent, SettleRaised, IInv, TypeOK
  <2>3. CASE SettleSent(w)
    <3>1. row'[e].wait = 0 /\ row'[e].lease = 0
      BY <1>4, <2>1, <2>3 DEF SettleSent, IInv, TypeOK
    <3> QED  BY <1>4, <2>1, <2>2, <3>1 DEF DeliveredKept, DeliveredAtRest, Fenced
  <2>4. CASE SettleRaised(w)
    <3>1. row'[e].state = "failed"
      BY <1>4, <2>1, <2>4 DEF SettleRaised, IInv, TypeOK
    <3> QED  BY <1>4, <2>1, <2>2, <3>1 DEF DeliveredKept, DeliveredAtRest, Fenced
  <2> QED  BY <1>4, <2>3, <2>4
<1>5. CASE Tick
  <2>1. \A e \in Events :
           row'[e] = [row[e] EXCEPT !.wait = IF @ = 0 THEN 0 ELSE @ - 1,
                                    !.lease = IF @ = 0 THEN 0 ELSE @ - 1]
    BY <1>5 DEF Tick
  <2>2. ASSUME NEW e \in Events
        PROVE  /\ row[e].state = "delivered" => row'[e] = row[e]
               /\ row'[e].state = row[e].state
    <3>1. row[e] \in [state : States, attempt : Nat, wait : Nat, lease : 0..LeaseTicks]
      BY DEF IInv, TypeOK
    <3>2. row'[e].state = row[e].state
      BY <2>1, <3>1
    <3>3. ASSUME row[e].state = "delivered" PROVE row'[e] = row[e]
      <4>1. row[e].wait = 0 /\ row[e].lease = 0
        BY <3>3 DEF DeliveredAtRest
      <4>2. row'[e] = [[row[e] EXCEPT !.wait = 0] EXCEPT !.lease = 0]
        BY <2>1, <3>1, <4>1
      <4>3. [[row[e] EXCEPT !.wait = row[e].wait] EXCEPT !.lease = row[e].lease] = row[e]
        BY <3>1
      <4> QED  BY <4>1, <4>2, <4>3
    <3> QED  BY <3>2, <3>3
  <2> QED  BY <2>2 DEF DeliveredKept, DeliveredAtRest
<1>6. ASSUME NEW w \in Workers, SettleSent(w) \/ SettleRaised(w), ~Fenced(w)
      PROVE  row' = row
  BY <1>6 DEF SettleSent, SettleRaised
<1>7. ASSUME NEW w \in Workers, NEW e \in Events, Claim(w, e), ~Claimable(e)
      PROVE  row' = row
  BY <1>7 DEF Claim
<1>8. ASSUME NEW e \in Events, EnqueueActionOutbox(e), row[e].state # "absent"
      PROVE  row' = row
  BY <1>8 DEF EnqueueActionOutbox
<1>9. CASE UNCHANGED vars
  BY <1>9, <1>1 DEF vars
<1>10. ASSUME NEW e \in Events, SweepSend(e) \/ LoseMessage(e) PROVE row' = row
  BY <1>10 DEF SweepSend, LoseMessage
<1>11. ASSUME SweepRead \/ SweepAborts PROVE row' = row
  BY <1>11 DEF SweepRead, SweepAborts
<1>12. ASSUME NEW w \in Workers, Deliver(w) \/ Crash(w) PROVE row' = row
  BY <1>12 DEF Deliver, Crash
<1> QED
  BY <1>1, <1>2, <1>3, <1>4, <1>5, <1>6, <1>7, <1>8, <1>9, <1>10, <1>11, <1>12
     DEF Next, WorkerStep

(***************************************************************************)
(* A delivered row never changes again (the early return of _claim_event   *)
(* and the fence of the settling transactions).                            *)
(***************************************************************************)
THEOREM FinalTheorem == Spec => DeliveredIsFinal
<1>1. Init => DeliveredAtRest
  BY DEF Init, DeliveredAtRest
<1>2. IInv /\ DeliveredAtRest /\ [Next]_vars => DeliveredAtRest'
  BY KeptStep
<1>3. IInv /\ DeliveredAtRest /\ [Next]_vars
        => [\A e \in Events : row[e].state = "delivered" => row'[e] = row[e]]_vars
  BY KeptStep DEF DeliveredKept
<1> QED  BY InitIInv, NextIInv, <1>1, <1>2, <1>3, PTL DEF Spec, DeliveredIsFinal

-----------------------------------------------------------------------------
(* A worker whose row was never outlived. *)
InTime(w) == Busy(w) /\ work[w].event \notin outlived

(* It holds the newest attempt of its row and a live lease. *)
LeaseHeld == \A w \in Workers : InTime(w) => Current(w) /\ row[work[w].event].lease > 0

(* Then the workers of such a row are the same worker. *)
LEMMA HeldIsExclusive ==
    ASSUME NewestAttemptOwnsRow, LeaseHeld
    PROVE  ExclusiveDelivery
BY DEF NewestAttemptOwnsRow, LeaseHeld, InTime, ExclusiveDelivery, Current

(* A step keeps the leases of the workers that remain in time. *)
LEMMA HeldStep ==
    ASSUME IInv, LeaseHeld, [Next]_vars
    PROVE  LeaseHeld'
<1>0. /\ \A w \in Workers : Busy(w) => work[w].event \in Events /\ work[w].attempt \in Nat
      /\ ExclusiveDelivery
  BY BusyTyped, HeldIsExclusive DEF IInv
<1>1. ASSUME \A w \in Workers : InTime(w)' => InTime(w) /\ work'[w].event = work[w].event
                                              /\ work'[w].attempt = work[w].attempt,
             \A w \in Workers : InTime(w)' =>
                /\ row'[work[w].event].attempt = row[work[w].event].attempt
                /\ row'[work[w].event].lease > 0
      PROVE  LeaseHeld'
  BY <1>1 DEF LeaseHeld, Current
<1>2. ASSUME UNCHANGED <<row, work, outlived>> PROVE LeaseHeld'
  BY <1>2 DEF LeaseHeld, Current, InTime, Busy
<1>3. ASSUME NEW e \in Events, EnqueueActionOutbox(e) PROVE LeaseHeld'
  <2>1. UNCHANGED <<work, outlived>> /\ \A x \in Events : row'[x].attempt = row[x].attempt /\ row'[x].lease = row[x].lease
    BY <1>3 DEF EnqueueActionOutbox, IInv, TypeOK
  <2> QED  BY <1>0, <2>1 DEF LeaseHeld, Current, InTime, Busy
<1>4. ASSUME NEW w \in Workers, NEW e \in Events, Claim(w, e), Claimable(e) PROVE LeaseHeld'
  <2>1. \A v \in Workers : InTime(v) => work[v].event # e
    BY <1>4, <1>0 DEF LeaseHeld, InTime, IInv, NewestAttemptOwnsRow, Claimable
  <2>2. /\ \A x \in Events : x # e => row'[x] = row[x]
        /\ row'[e].attempt = row[e].attempt + 1 /\ row'[e].lease = LeaseTicks
    BY <1>4 DEF Claim, IInv, TypeOK
  <2>3. /\ work'[w] = [pc |-> "deliver", event |-> e, attempt |-> row[e].attempt + 1]
        /\ \A v \in Workers : v # w => work'[v] = work[v]
        /\ outlived' = outlived
    BY <1>4 DEF Claim, IInv, TypeOK
  <2>4. ASSUME NEW v \in Workers, InTime(v)'
        PROVE  Current(v)' /\ row'[work'[v].event].lease > 0
    <3>1. CASE v = w
      BY <3>1, <2>2, <2>3, LeaseAssumption DEF Current
    <3>2. CASE v # w
      <4>1. InTime(v) /\ work'[v] = work[v]
        BY <2>4, <3>2, <2>3 DEF InTime, Busy
      <4> QED  BY <4>1, <1>0, <2>1, <2>2 DEF LeaseHeld, InTime, Current
    <3> QED  BY <3>1, <3>2
  <2> QED  BY <2>4 DEF LeaseHeld
<1>5. ASSUME NEW w \in Workers, Deliver(w) PROVE LeaseHeld'
  <2>1. PICK pc \in {"sent", "raised"} : work' = [work EXCEPT ![w].pc = pc]
    BY <1>5 DEF Deliver
  <2>2. Busy(w) /\ UNCHANGED <<row, outlived>>
    BY <1>5 DEF Deliver, Busy
  <2>3. work[w] \in [pc : {"deliver", "sent", "raised"}, event : Events, attempt : Nat]
    BY <2>2, BusyTyped DEF IInv
  <2>4. \A v \in Workers : InTime(v)' => InTime(v) /\ work'[v].event = work[v].event
                                              /\ work'[v].attempt = work[v].attempt
    BY <2>1, <2>2, <2>3 DEF IInv, TypeOK, InTime, Busy
  <2> QED  BY <1>1, <2>2, <2>4 DEF LeaseHeld
<1>6. ASSUME NEW w \in Workers, SettleSent(w) \/ SettleRaised(w) \/ Crash(w) PROVE LeaseHeld'
  <2>1. Busy(w) /\ work' = [work EXCEPT ![w] = Idle] /\ outlived' = outlived
    BY <1>6 DEF SettleSent, SettleRaised, Crash, Busy
  <2>2. \A x \in Events : x # work[w].event => row'[x] = row[x]
    BY <1>0, <1>6, <2>1 DEF SettleSent, SettleRaised, Crash, IInv, TypeOK
  <2>3. \A v \in Workers : InTime(v)' => v # w /\ work'[v] = work[v] /\ InTime(v)
    BY <2>1 DEF IInv, TypeOK, InTime, Busy, Idle
  <2>4. \A v \in Workers : InTime(v)' => work[v].event # work[w].event /\ work[v].event \in Events
    BY <1>0, <2>1, <2>3 DEF ExclusiveDelivery, InTime
  <2> QED  BY <2>2, <2>3, <2>4 DEF LeaseHeld, Current
<1>7. ASSUME Tick PROVE LeaseHeld'
  <2>1. outlived' = outlived \cup Outlived
    BY <1>7 DEF Tick
  <2>2. \A x \in Events : /\ row'[x].attempt = row[x].attempt
                          /\ row[x].lease > 1 => row'[x].lease > 0
    <3> TAKE x \in Events
    <3>1. row[x] \in [state : States, attempt : Nat, wait : Nat, lease : 0..LeaseTicks]
      BY DEF IInv, TypeOK
    <3>2. row'[x] = [row[x] EXCEPT !.wait = IF @ = 0 THEN 0 ELSE @ - 1,
                                   !.lease = IF @ = 0 THEN 0 ELSE @ - 1]
      BY <1>7 DEF Tick
    <3>3. row'[x].attempt = row[x].attempt
      BY <3>1, <3>2
    <3>4. row'[x].lease = IF row[x].lease = 0 THEN 0 ELSE row[x].lease - 1
      BY <3>1, <3>2
    <3> QED  BY <3>1, <3>3, <3>4, LeaseAssumption
  <2>3. work' = work
    BY <1>7 DEF Tick
  <2>4. \A w \in Workers : InTime(w)' => InTime(w) /\ row[work[w].event].lease > 1
    <3> SUFFICES ASSUME NEW w \in Workers, InTime(w)'
                 PROVE  InTime(w) /\ row[work[w].event].lease > 1
      OBVIOUS
    <3>1. InTime(w) /\ work[w].event \notin Outlived
      BY <2>1, <2>3 DEF InTime, Busy
    <3>2. Current(w) /\ row[work[w].event].lease > 0
      BY <3>1 DEF LeaseHeld
    <3>3. row[work[w].event].lease # 1
      BY <3>1, <3>2 DEF Outlived, InTime
    <3>4. row[work[w].event].lease \in 0..LeaseTicks
      BY <1>0, <3>1 DEF InTime, IInv, TypeOK
    <3> QED  BY <3>1, <3>2, <3>3, <3>4, LeaseAssumption
  <2>5. \A w \in Workers : InTime(w)' => InTime(w) /\ work'[w].event = work[w].event
                                              /\ work'[w].attempt = work[w].attempt
    BY <2>3, <2>4
  <2>6. \A w \in Workers : InTime(w)' =>
                /\ row'[work[w].event].attempt = row[work[w].event].attempt
                /\ row'[work[w].event].lease > 0
    BY <1>0, <2>2, <2>4, <2>5 DEF InTime
  <2> QED  BY <1>1, <2>5, <2>6
<1>8. ASSUME NEW w \in Workers, NEW e \in Events, Claim(w, e), ~Claimable(e) PROVE LeaseHeld'
  BY <1>2, <1>8 DEF Claim
<1>9. ASSUME NEW e \in Events, SweepSend(e) \/ LoseMessage(e) PROVE LeaseHeld'
  BY <1>2, <1>9 DEF SweepSend, LoseMessage
<1>10. ASSUME SweepRead \/ SweepAborts \/ UNCHANGED vars PROVE LeaseHeld'
  BY <1>2, <1>10 DEF SweepRead, SweepAborts, vars
<1> QED
  BY <1>3, <1>4, <1>5, <1>6, <1>7, <1>8, <1>9, <1>10 DEF Next, WorkerStep

(***************************************************************************)
(* At most one worker at a time delivers a row none of whose deliveries    *)
(* outlived its lease, however many wakeups, sweeps, crashes and lost      *)
(* messages there are (the claim of _claim_event).                         *)
(***************************************************************************)
THEOREM ExclusiveTheorem == Spec => []ExclusiveDelivery
<1>1. Init => LeaseHeld
  BY DEF Init, LeaseHeld, InTime, Busy, Idle
<1>2. IInv /\ LeaseHeld /\ [Next]_vars => LeaseHeld'
  BY HeldStep
<1>3. IInv /\ LeaseHeld => ExclusiveDelivery
  BY HeldIsExclusive DEF IInv
<1> QED  BY InitIInv, NextIInv, <1>1, <1>2, <1>3, PTL DEF Spec
-----------------------------------------------------------------------------
(* The calls of the adapter for a row that may still send. *)
Calls(e) == {w \in Workers : work[w].pc = "deliver" /\ work[w].event = e}

(* Messages sent, and those the running calls may yet send. *)
Owed(e) == sends[e] + Cardinality(Calls(e))

(* The newest attempt runs under its lease and may still succeed. *)
Hopeful(w, e) == Busy(w) /\ work[w].event = e /\ Current(w) /\ work[w].pc # "raised"
Promising(e) ==
    \/ row[e].state = "delivered"
    \/ row[e].state = "delivering" /\ row[e].lease > 0 /\ \E w \in Workers : Hopeful(w, e)

(* One message is free; it is used up by a row that is delivered or whose  *)
(* newest attempt is promising.  In every other state, in which the row    *)
(* can be claimed again, all messages have been paid for.                  *)
Accounted ==
    \A e \in Events : /\ IsFiniteSet(Calls(e))
                      /\ Owed(e) <= 1 + faults
                      /\ Promising(e) \/ Owed(e) <= faults

(* A step that starts no call and sends nothing, and pays for the promises *)
(* it breaks. *)
LEMMA AccountKeeps ==
    ASSUME TypeOK, Accounted, faults' \in Nat, faults' >= faults, sends' = sends,
           \A e \in Events : Calls(e)' \subseteq Calls(e),
           \A e \in Events : Promising(e) => Promising(e)' \/ faults' > faults
    PROVE  Accounted'
<1> SUFFICES ASSUME NEW e \in Events
             PROVE  /\ IsFiniteSet(Calls(e)') /\ Owed(e)' <= 1 + faults'
                    /\ Promising(e)' \/ Owed(e)' <= faults'
  BY DEF Accounted
<1>1. IsFiniteSet(Calls(e)) /\ Calls(e)' \subseteq Calls(e)
  BY DEF Accounted
<1>2. /\ IsFiniteSet(Calls(e)') /\ Cardinality(Calls(e)') <= Cardinality(Calls(e))
      /\ Cardinality(Calls(e)) \in Nat /\ Cardinality(Calls(e)') \in Nat
  BY <1>1, FS_Subset, FS_CardinalityType
<1>3. sends[e] \in Nat /\ faults \in Nat
  BY BoundAssumption DEF TypeOK
<1>4. Owed(e)' <= Owed(e) /\ Owed(e) \in Nat /\ Owed(e)' \in Nat
  BY <1>2, <1>3 DEF Owed
<1>5. /\ Owed(e) <= 1 + faults
      /\ Promising(e) \/ Owed(e) <= faults
      /\ Promising(e) => Promising(e)' \/ faults' > faults
  BY DEF Accounted
<1> QED  BY <1>2, <1>3, <1>4, <1>5

(* A step that changes neither workers nor the rows in use. *)
LEMMA AccountStays ==
    ASSUME TypeOK, Accounted, UNCHANGED <<work, sends>>, faults' \in Nat, faults' >= faults,
           \A e \in Events : row[e].state # "absent" => row'[e] = row[e]
    PROVE  Accounted'
<1>1. \A e \in Events : Calls(e)' \subseteq Calls(e)
  BY DEF Calls
<1>2. ASSUME NEW e \in Events, Promising(e) PROVE Promising(e)'
  <2>1. row'[e] = row[e]
    BY <1>2 DEF Promising
  <2>2. \A w \in Workers : Hopeful(w, e) => Hopeful(w, e)'
    BY <2>1 DEF Hopeful, Busy, Current
  <2> QED  BY <1>2, <2>1, <2>2 DEF Promising
<1> QED  BY <1>1, <1>2, AccountKeeps

(* An attempt begins: the row was not promising, so its message is free. *)
LEMMA ClaimAccounted ==
    ASSUME IInv, Accounted, NEW w \in Workers, NEW e \in Events, Claim(w, e), Claimable(e)
    PROVE  Accounted'
<1>1. /\ row' = [row EXCEPT ![e].state = "delivering", ![e].attempt = @ + 1, ![e].lease = LeaseTicks]
      /\ work' = [work EXCEPT ![w] = [pc |-> "deliver", event |-> e, attempt |-> row[e].attempt + 1]]
      /\ work[w].pc = "idle" /\ UNCHANGED <<sends, faults>>
  BY DEF Claim, Busy
<1>2. /\ \A v \in Workers : v # w => work'[v] = work[v]
      /\ work'[w] = [pc |-> "deliver", event |-> e, attempt |-> row[e].attempt + 1]
  BY <1>1 DEF IInv, TypeOK
<1>3. /\ \A x \in Events : x # e => row'[x] = row[x]
      /\ row'[e].state = "delivering" /\ row'[e].attempt = row[e].attempt + 1
      /\ row'[e].lease = LeaseTicks
  BY <1>1 DEF IInv, TypeOK
<1> SUFFICES ASSUME NEW x \in Events
             PROVE  /\ IsFiniteSet(Calls(x)') /\ Owed(x)' <= 1 + faults'
                    /\ Promising(x)' \/ Owed(x)' <= faults'
  BY DEF Accounted
<1>4. /\ IsFiniteSet(Calls(x)) /\ Owed(x) <= 1 + faults
      /\ Promising(x) \/ Owed(x) <= faults
  BY DEF Accounted
<1>5. CASE x = e
  <2>1. Calls(e)' = Calls(e) \cup {w} /\ w \notin Calls(e)
    BY <1>1, <1>2 DEF Calls
  <2>2. /\ IsFiniteSet(Calls(e)') /\ Cardinality(Calls(e)') = Cardinality(Calls(e)) + 1
        /\ Cardinality(Calls(e)) \in Nat
    BY <1>4, <1>5, <2>1, FS_AddElement, FS_CardinalityType
  <2>3. ~Promising(e)
    BY DEF Claimable, Promising
  <2>4. sends[e] \in Nat /\ faults \in Nat /\ sends'[e] = sends[e] /\ faults' = faults
    BY <1>1, BoundAssumption DEF IInv, TypeOK
  <2>5. Owed(e)' <= 1 + faults'
    BY <1>4, <1>5, <2>2, <2>3, <2>4 DEF Owed
  <2>6. Promising(e)'
    <3>1. Hopeful(w, e)'
      BY <1>2, <1>3 DEF Hopeful, Busy, Current
    <3> QED  BY <1>3, <3>1, LeaseAssumption DEF Promising
  <2> QED  BY <1>5, <2>2, <2>5, <2>6
<1>6. CASE x # e
  <2>1. Calls(x)' = Calls(x)
    BY <1>1, <1>2, <1>6 DEF Calls
  <2>2. Owed(x)' = Owed(x)
    BY <1>1, <2>1 DEF Owed
  <2>3. Promising(x) => Promising(x)'
    <3>1. \A v \in Workers : Hopeful(v, x) => Hopeful(v, x)'
      BY <1>1, <1>2, <1>3, <1>6 DEF Hopeful, Busy, Current
    <3> QED  BY <1>3, <1>6, <3>1 DEF Promising
  <2> QED  BY <1>1, <1>4, <2>1, <2>2, <2>3
<1> QED  BY <1>5, <1>6

(* A call ends: what it may have sent is now counted, or will not be sent; *)
(* a call that raises is a fault. *)
LEMMA DeliverAccounted ==
    ASSUME IInv, Accounted, NEW w \in Workers, Deliver(w)
    PROVE  Accounted'
<1> DEFINE e == work[w].event
<1>0. Busy(w) /\ work[w].pc = "deliver" /\ e \in Events /\ row' = row
  BY BusyTyped DEF Deliver, Busy, IInv
<1>1. PICK pc \in {"sent", "raised"} :
          /\ work' = [work EXCEPT ![w].pc = pc]
          /\ sends' = sends \/ sends' = [sends EXCEPT ![e] = @ + 1]
          /\ faults' = faults \/ faults' = faults + 1
          /\ pc = "raised" => faults' = faults + 1
  BY DEF Deliver, Fault, NoFault
<1>2. /\ \A v \in Workers : v # w => work'[v] = work[v]
      /\ work'[w].pc = pc /\ work'[w].event = e /\ work'[w].attempt = work[w].attempt
  <2>1. work[w] \in [pc : {"deliver", "sent", "raised"}, event : Events, attempt : Nat]
    BY <1>0, BusyTyped DEF IInv
  <2> QED  BY <1>1, <2>1 DEF IInv, TypeOK
<1>3. faults \in Nat /\ faults' \in Nat /\ faults' >= faults
  BY <1>1, BoundAssumption DEF IInv, TypeOK
<1> SUFFICES ASSUME NEW x \in Events
             PROVE  /\ IsFiniteSet(Calls(x)') /\ Owed(x)' <= 1 + faults'
                    /\ Promising(x)' \/ Owed(x)' <= faults'
  BY DEF Accounted
<1>4. /\ IsFiniteSet(Calls(x)) /\ Owed(x) <= 1 + faults
      /\ Promising(x) \/ Owed(x) <= faults
  BY DEF Accounted
<1>5. sends[x] \in Nat /\ Cardinality(Calls(x)) \in Nat
  BY <1>4, FS_CardinalityType DEF IInv, TypeOK
<1>6. IsFiniteSet(Calls(x)') /\ Owed(x)' <= Owed(x) /\ Owed(x) \in Nat /\ Owed(x)' \in Nat
  <2>1. CASE x = e
    <3>1. Calls(x)' = Calls(x) \ {w} /\ w \in Calls(x)
      BY <1>0, <1>2, <2>1 DEF Calls
    <3>2. IsFiniteSet(Calls(x)') /\ Cardinality(Calls(x)') = Cardinality(Calls(x)) - 1
      BY <1>4, <3>1, FS_RemoveElement
    <3>3. Cardinality(Calls(x)') \in Nat
      BY <3>2, FS_CardinalityType
    <3>4. sends'[x] \in {sends[x], sends[x] + 1}
      BY <1>0, <1>1, <2>1 DEF IInv, TypeOK
    <3>5. Owed(x)' = sends'[x] + Cardinality(Calls(x)') /\ Owed(x) = sends[x] + Cardinality(Calls(x))
      BY DEF Owed
    <3> QED  BY <1>5, <3>2, <3>3, <3>4, <3>5
  <2>2. CASE x # e
    <3>1. Calls(x)' = Calls(x)
      BY <1>0, <1>2, <2>2 DEF Calls
    <3>2. sends'[x] = sends[x]
      BY <1>0, <1>1, <2>2 DEF IInv, TypeOK
    <3> QED  BY <1>4, <1>5, <3>1, <3>2 DEF Owed
  <2> QED  BY <2>1, <2>2
<1>7. Promising(x) => Promising(x)' \/ faults' > faults
  <2>1. ASSUME pc = "sent", NEW v \in Workers, Hopeful(v, x) PROVE Hopeful(v, x)'
    BY <1>0, <1>2, <2>1 DEF Hopeful, Busy, Current
  <2>2. pc = "sent" \/ faults' > faults
    BY <1>1, <1>3
  <2> QED  BY <1>0, <2>1, <2>2 DEF Promising
<1> QED  BY <1>3, <1>4, <1>6, <1>7

(* A worker becomes idle: having delivered, having failed, fenced off, or  *)
(* dead, which is a fault. *)
LEMMA IdleAccounted ==
    ASSUME IInv, Accounted, NEW w \in Workers, SettleSent(w) \/ SettleRaised(w) \/ Crash(w)
    PROVE  Accounted'
<1> DEFINE e == work[w].event
<1>0. Busy(w) /\ e \in Events /\ work' = [work EXCEPT ![w] = Idle] /\ sends' = sends
  BY BusyTyped DEF SettleSent, SettleRaised, Crash, Busy, IInv
<1>1. \A v \in Workers : (v # w => work'[v] = work[v]) /\ (v = w => work'[v] = Idle)
  BY <1>0 DEF IInv, TypeOK
<1>2. \A x \in Events : Calls(x)' \subseteq Calls(x)
  BY <1>1 DEF Calls, Idle
<1>3. faults' \in Nat /\ faults' >= faults
  BY BoundAssumption DEF SettleSent, SettleRaised, Crash, Fault, IInv, TypeOK
<1>4. \A x \in Events : x # e => row'[x] = row[x]
  BY <1>0 DEF SettleSent, SettleRaised, Crash, IInv, TypeOK
<1>5. \A x \in Events, v \in Workers : Hopeful(v, x) /\ v # w /\ row'[x] = row[x] => Hopeful(v, x)'
  BY <1>1 DEF Hopeful, Busy, Current
<1>6. ASSUME NEW x \in Events, Promising(x), ~Crash(w) PROVE Promising(x)'
  <2>1. CASE x # e
    <3>1. \A v \in Workers : Hopeful(v, x) => v # w
      BY <2>1 DEF Hopeful
    <3> QED  BY <1>4, <1>5, <1>6, <2>1, <3>1 DEF Promising
  <2>2. CASE x = e /\ ~Fenced(w)
    <3>1. row' = row
      BY <1>6, <2>2 DEF SettleSent, SettleRaised
    <3>2. \A v \in Workers : Hopeful(v, x) => v # w
      BY <1>0, <2>2 DEF Hopeful, Fenced, IInv, NewestAttemptOwnsRow
    <3> QED  BY <1>5, <1>6, <3>1, <3>2 DEF Promising
  <2>3. CASE x = e /\ Fenced(w) /\ SettleSent(w)
    <3>1. row'[e].state = "delivered"
      BY <1>0, <2>3 DEF SettleSent, IInv, TypeOK
    <3> QED  BY <2>3, <3>1 DEF Promising
  <2>4. CASE x = e /\ Fenced(w) /\ SettleRaised(w)
    <3>1. PICK v \in Workers : Hopeful(v, e)
      BY <1>6, <2>4 DEF Promising, Fenced
    <3>2. v = w
      BY <1>0, <2>4, <3>1 DEF Hopeful, Fenced, Current, IInv, NewestAttemptOwnsRow
    <3> QED  BY <2>4, <3>1, <3>2 DEF Hopeful, SettleRaised
  <2> QED  BY <1>6, <2>1, <2>2, <2>3, <2>4
<1>7. Crash(w) => faults' > faults
  BY BoundAssumption DEF Crash, Fault, IInv, TypeOK
<1> QED  BY <1>0, <1>2, <1>3, <1>6, <1>7, AccountKeeps DEF IInv

(* Time passes: a lease that ends under a promising attempt is a fault. *)
LEMMA TickAccounted ==
    ASSUME IInv, Accounted, Tick
    PROVE  Accounted'
<1>1. UNCHANGED <<work, sends>>
  BY DEF Tick
<1>2. \A e \in Events : Calls(e)' \subseteq Calls(e)
  BY <1>1 DEF Calls
<1>3. faults' \in Nat /\ faults' >= faults /\ (Outlived # {} => faults' > faults)
  <2>1. IF Outlived # {} THEN faults' = faults + 1 ELSE faults' = faults
    BY DEF Tick, Fault, NoFault
  <2>2. faults \in Nat
    BY BoundAssumption DEF IInv, TypeOK
  <2> QED  BY <2>1, <2>2
<1>4. ASSUME NEW e \in Events, Promising(e), ~(faults' > faults) PROVE Promising(e)'
  <2>1. row[e] \in [state : States, attempt : Nat, wait : Nat, lease : 0..LeaseTicks]
    BY DEF IInv, TypeOK
  <2>2. row'[e] = [row[e] EXCEPT !.wait = IF @ = 0 THEN 0 ELSE @ - 1,
                                 !.lease = IF @ = 0 THEN 0 ELSE @ - 1]
    BY DEF Tick
  <2>3. /\ row'[e].state = row[e].state /\ row'[e].attempt = row[e].attempt
        /\ row'[e].lease = IF row[e].lease = 0 THEN 0 ELSE row[e].lease - 1
    BY <2>1, <2>2
  <2>4. CASE row[e].state = "delivered"
    BY <2>3, <2>4 DEF Promising
  <2>5. CASE row[e].state # "delivered"
    <3>1. PICK w \in Workers : Hopeful(w, e)
      BY <1>4, <2>5 DEF Promising
    <3>2. row[e].lease # 1
      BY <1>3, <1>4, <3>1 DEF Outlived, Hopeful
    <3>3. row'[e].state = "delivering" /\ row'[e].lease > 0
      BY <1>4, <2>1, <2>3, <2>5, <3>2, LeaseAssumption DEF Promising
    <3>4. Hopeful(w, e)'
      BY <1>1, <2>3, <3>1 DEF Hopeful, Busy, Current
    <3> QED  BY <3>3, <3>4 DEF Promising
  <2> QED  BY <2>4, <2>5
<1> QED  BY <1>1, <1>2, <1>3, <1>4, AccountKeeps DEF IInv

(* Every step keeps the account. *)
LEMMA AccountStep ==
    ASSUME IInv, Accounted, [Next]_vars
    PROVE  Accounted'
<1>0. TypeOK /\ faults \in Nat
  BY BoundAssumption DEF IInv, TypeOK
<1>1. CASE UNCHANGED vars
  BY <1>0, <1>1, AccountStays DEF vars
<1>2. ASSUME NEW e \in Events, EnqueueActionOutbox(e) \/ SweepSend(e) \/ LoseMessage(e)
      PROVE  Accounted'
  <2>1. faults' \in Nat /\ faults' >= faults /\ UNCHANGED <<work, sends>>
    BY <1>0, <1>2 DEF EnqueueActionOutbox, SweepSend, LoseMessage, Wake, Fault, NoFault
  <2>2. \A x \in Events : row[x].state # "absent" => row'[x] = row[x]
    BY <1>0, <1>2 DEF EnqueueActionOutbox, SweepSend, LoseMessage, TypeOK
  <2> QED  BY <1>0, <2>1, <2>2, AccountStays
<1>3. CASE SweepRead \/ SweepAborts
  BY <1>0, <1>3, AccountStays DEF SweepRead, SweepAborts, Fault
<1>4. ASSUME NEW w \in Workers, NEW e \in Events, Claim(w, e) PROVE Accounted'
  <2>1. CASE Claimable(e)
    BY <1>4, <2>1, ClaimAccounted
  <2>2. CASE ~Claimable(e)
    BY <1>0, <1>4, <2>2, AccountStays DEF Claim
  <2> QED  BY <2>1, <2>2
<1>5. ASSUME NEW w \in Workers, Deliver(w) PROVE Accounted'
  BY <1>5, DeliverAccounted
<1>6. ASSUME NEW w \in Workers, SettleSent(w) \/ SettleRaised(w) \/ Crash(w) PROVE Accounted'
  BY <1>6, IdleAccounted
<1>7. CASE Tick
  BY <1>7, TickAccounted
<1> QED
  BY <1>1, <1>2, <1>3, <1>4, <1>5, <1>6, <1>7 DEF Next, WorkerStep

(* So the account is kept for ever. *)
LEMMA AccountInvariance == Spec => []Accounted
<1>1. Init => Accounted
  <2> SUFFICES ASSUME Init, NEW e \in Events
               PROVE  IsFiniteSet(Calls(e)) /\ Owed(e) = 0
    BY DEF Accounted, Init
  <2>1. Calls(e) = {}
    BY DEF Calls, Init, Idle
  <2> QED  BY <2>1, FS_EmptySet DEF Owed, Init
<1>2. IInv /\ Accounted /\ [Next]_vars => Accounted'
  BY AccountStep
<1> QED  BY InitIInv, NextIInv, <1>1, <1>2, PTL DEF Spec

(***************************************************************************)
(* A recipient gets at most one message more than there were faults:       *)
(* wakeups, sweeps, replays and late tasks alone never send twice, for any *)
(* number of rows and workers and any fault budget (_claim_event and the   *)
(* settling transactions of dispatch_action_outbox_event).                 *)
(***************************************************************************)
THEOREM DuplicatesTheorem == Spec => []DuplicatesNeedFaults
<1>1. IInv /\ Accounted => DuplicatesNeedFaults
  <2> SUFFICES ASSUME IInv, Accounted, NEW e \in Events PROVE sends[e] <= 1 + faults
    BY DEF DuplicatesNeedFaults
  <2>1. IsFiniteSet(Calls(e)) /\ Owed(e) <= 1 + faults /\ sends[e] \in Nat /\ faults \in Nat
    BY BoundAssumption DEF Accounted, IInv, TypeOK
  <2>2. Cardinality(Calls(e)) \in Nat
    BY <2>1, FS_CardinalityType
  <2> QED  BY <2>1, <2>2 DEF Owed
<1> QED  BY InitIInv, NextIInv, AccountInvariance, <1>1, PTL DEF Spec

-----------------------------------------------------------------------------
(* A row that does not exist is known to nobody. *)
Known ==
    /\ \A e \in Events : row[e].state = "absent" => tasks[e] = 0 /\ e \notin swept /\ sends[e] = 0
    /\ \A w \in Workers : Busy(w) => row[work[w].event].state # "absent"

(* How a step may change the rows and the messages sent. *)
LEMMA RowMoves ==
    ASSUME IInv, Known, [Next]_vars
    PROVE  \/ /\ \A e \in Events : DebtOf(row'[e].state) = DebtOf(row[e].state)
              /\ UNCHANGED sends /\ faults' \in {faults, faults + 1}
           \/ \E e \in Events :
                /\ DebtOf(row[e].state) = "none" /\ DebtOf(row'[e].state) = "owed"
                /\ \A x \in Events : x # e => row'[x] = row[x]
                /\ UNCHANGED sends /\ faults' \in {faults, faults + 1}
           \/ \E w \in Workers :
                /\ Deliver(w) /\ UNCHANGED row /\ sends' = [sends EXCEPT ![work[w].event] = @ + 1]
                /\ faults' \in {faults, faults + 1}
           \/ \E e \in Events :
                /\ DebtOf(row[e].state) = "owed" /\ DebtOf(row'[e].state) = "delivered" /\ sends[e] > 0
                /\ \A x \in Events : x # e => row'[x] = row[x]
                /\ UNCHANGED <<sends, faults>>
<1> DEFINE Same == /\ \A e \in Events : DebtOf(row'[e].state) = DebtOf(row[e].state)
                   /\ UNCHANGED sends /\ faults' \in {faults, faults + 1}
           Goal == \/ Same
                   \/ \E e \in Events :
                        /\ DebtOf(row[e].state) = "none" /\ DebtOf(row'[e].state) = "owed"
                        /\ \A x \in Events : x # e => row'[x] = row[x]
                        /\ UNCHANGED sends /\ faults' \in {faults, faults + 1}
                   \/ \E w \in Workers :
                        /\ Deliver(w) /\ UNCHANGED row /\ sends' = [sends EXCEPT ![work[w].event] = @ + 1]
                        /\ faults' \in {faults, faults + 1}
                   \/ \E e \in Events :
                        /\ DebtOf(row[e].state) = "owed" /\ DebtOf(row'[e].state) = "delivered" /\ sends[e] > 0
                        /\ \A x \in Events : x # e => row'[x] = row[x]
                        /\ UNCHANGED <<sends, faults>>
<1>0. row \in [Events -> [state : States, attempt : Nat, wait : Nat, lease : 0..LeaseTicks]]
  BY DEF IInv, TypeOK
<1>1. CASE UNCHANGED vars \/ SweepRead \/ SweepAborts
  BY <1>1 DEF vars, SweepRead, SweepAborts, Fault
<1>2. ASSUME NEW e \in Events, SweepSend(e) \/ LoseMessage(e) PROVE Same
  BY <1>2 DEF SweepSend, LoseMessage, Wake, Fault, NoFault
<1>3. ASSUME NEW e \in Events, EnqueueActionOutbox(e) PROVE Goal
  <2>1. UNCHANGED sends /\ faults' \in {faults, faults + 1}
    BY <1>3 DEF EnqueueActionOutbox, Wake, Fault, NoFault
  <2>2. CASE row[e].state = "absent"
    <3>1. row'[e].state = "pending" /\ \A x \in Events : x # e => row'[x] = row[x]
      BY <1>0, <1>3, <2>2 DEF EnqueueActionOutbox
    <3> QED  BY <2>1, <2>2, <3>1 DEF DebtOf
  <2>3. CASE row[e].state # "absent"
    <3>1. row' = row
      BY <1>3, <2>3 DEF EnqueueActionOutbox
    <3> QED  BY <2>1, <3>1
  <2> QED  BY <2>2, <2>3
<1>4. ASSUME NEW w \in Workers, NEW e \in Events, Claim(w, e) PROVE Same
  <2>1. UNCHANGED <<sends, faults>>
    BY <1>4 DEF Claim
  <2>2. CASE Claimable(e)
    <3>1. row'[e].state = "delivering" /\ \A x \in Events : x # e => row'[x] = row[x]
      BY <1>0, <1>4, <2>2 DEF Claim
    <3>2. row[e].state \notin {"absent", "delivered"}
      BY <1>4, <2>2 DEF Claim, Claimable, Known
    <3> QED  BY <2>1, <3>1, <3>2 DEF DebtOf
  <2>3. CASE ~Claimable(e)
    BY <1>4, <2>1, <2>3 DEF Claim
  <2> QED  BY <2>2, <2>3
<1>5. ASSUME NEW w \in Workers, Deliver(w) PROVE Goal
  BY <1>5 DEF Deliver, Fault, NoFault
<1>6. ASSUME NEW w \in Workers, SettleSent(w) PROVE Goal
  <2>0. work[w].event \in Events /\ sends[work[w].event] > 0 /\ UNCHANGED <<sends, faults>>
    BY <1>6, BusyTyped DEF SettleSent, IInv, SentCounted, Busy
  <2>1. CASE Fenced(w)
    <3>1. /\ row'[work[w].event].state = "delivered" /\ row[work[w].event].state = "delivering"
          /\ \A x \in Events : x # work[w].event => row'[x] = row[x]
      BY <1>0, <1>6, <2>0, <2>1 DEF SettleSent, Fenced
    <3> QED  BY <2>0, <3>1 DEF DebtOf
  <2>2. CASE ~Fenced(w)
    BY <1>6, <2>0, <2>2 DEF SettleSent
  <2> QED  BY <2>1, <2>2
<1>7. ASSUME NEW w \in Workers, SettleRaised(w) PROVE Same
  <2>0. work[w].event \in Events /\ UNCHANGED <<sends, faults>>
    BY <1>7, BusyTyped DEF SettleRaised, IInv, Busy
  <2>1. CASE Fenced(w)
    <3>1. /\ row'[work[w].event].state = "failed" /\ row[work[w].event].state = "delivering"
          /\ \A x \in Events : x # work[w].event => row'[x] = row[x]
      BY <1>0, <1>7, <2>0, <2>1 DEF SettleRaised, Fenced
    <3> QED  BY <2>0, <3>1 DEF DebtOf
  <2>2. CASE ~Fenced(w)
    BY <1>7, <2>0, <2>2 DEF SettleRaised
  <2> QED  BY <2>1, <2>2
<1>8. ASSUME NEW w \in Workers, Crash(w) PROVE Same
  BY <1>8 DEF Crash, Fault
<1>9. CASE Tick
  <2>1. \A e \in Events : row'[e].state = row[e].state
    BY <1>0, <1>9 DEF Tick
  <2>2. UNCHANGED sends /\ faults' \in {faults, faults + 1}
    BY <1>9 DEF Tick, Fault, NoFault
  <2> QED  BY <2>1, <2>2
<1> HIDE DEF Goal
<1>10. Goal
  BY <1>1, <1>2, <1>3, <1>4, <1>5, <1>6, <1>7, <1>8, <1>9 DEF Next, WorkerStep, Goal
<1> QED  BY <1>10 DEF Goal

(* Nobody gets to know a row before it exists. *)
LEMMA KnownStep == ASSUME IInv, Known, [Next]_vars PROVE Known'
<1>0. /\ row \in [Events -> [state : States, attempt : Nat, wait : Nat, lease : 0..LeaseTicks]]
      /\ tasks \in [Events -> Nat] /\ sends \in [Events -> Nat] /\ work \in [Workers -> WorkerStates]
  BY DEF IInv, TypeOK
<1>1. ASSUME NEW e \in Events PROVE row'[e].state = "absent" => row[e].state = "absent"
  BY RowMoves DEF DebtOf
<1>2. ASSUME NEW e \in Events, row'[e].state = "absent"
      PROVE  tasks'[e] = 0 /\ e \notin swept' /\ sends'[e] = 0
  <2>1. row[e].state = "absent" /\ tasks[e] = 0 /\ e \notin swept /\ sends[e] = 0
    BY <1>1, <1>2 DEF Known
  <2>2. ASSUME NEW x \in Events, EnqueueActionOutbox(x) PROVE x # e
    BY <1>0, <1>2, <2>1, <2>2 DEF EnqueueActionOutbox
  <2>3. tasks'[e] = 0
    <3>1. ASSUME NEW x \in Events, EnqueueActionOutbox(x) \/ SweepSend(x) PROVE x # e
      BY <2>1, <2>2, <3>1 DEF SweepSend
    <3>2. ASSUME NEW x \in Events, EnqueueActionOutbox(x) \/ SweepSend(x) PROVE tasks'[e] = tasks[e]
      <4>1. Wake(x)
        BY <3>2 DEF EnqueueActionOutbox, SweepSend
      <4> QED  BY <1>0, <3>1, <3>2, <4>1 DEF Wake
    <3>3. ASSUME NEW x \in Events, LoseMessage(x) PROVE tasks'[e] = tasks[e]
      BY <1>0, <2>1, <3>3 DEF LoseMessage
    <3>4. ASSUME NEW w \in Workers, NEW x \in Events, Claim(w, x) PROVE tasks'[e] = tasks[e]
      BY <1>0, <2>1, <3>4 DEF Claim
    <3>5. CASE UNCHANGED tasks
      BY <2>1, <3>5
    <3>6. CASE UNCHANGED vars \/ SweepRead \/ SweepAborts \/ Tick
      BY <3>5, <3>6 DEF vars, SweepRead, SweepAborts, Tick
    <3>7. ASSUME NEW w \in Workers, Deliver(w) \/ SettleSent(w) \/ SettleRaised(w) \/ Crash(w)
          PROVE  UNCHANGED tasks
      BY <3>7 DEF Deliver, SettleSent, SettleRaised, Crash
    <3> QED  BY <2>1, <3>2, <3>3, <3>4, <3>5, <3>6, <3>7 DEF Next, WorkerStep
  <2>4. e \notin swept'
    BY <2>1 DEF Next, vars, EnqueueActionOutbox, SweepSend, LoseMessage, SweepRead, Due,
                SweepAborts, WorkerStep, Claim, Deliver, SettleSent, SettleRaised, Crash, Tick
  <2>5. sends'[e] = 0
    <3>1. ASSUME NEW w \in Workers, Deliver(w) PROVE work[w].event # e /\ work[w].event \in Events
      BY <2>1, <3>1, BusyTyped DEF Known, Deliver, Busy, IInv
    <3> QED  BY <1>0, <2>1, <3>1, RowMoves
  <2> QED  BY <2>3, <2>4, <2>5
<1>3. ASSUME NEW w \in Workers, Busy(w)' PROVE row'[work'[w].event].state # "absent"
  <2>1. CASE Busy(w) /\ work'[w].event = work[w].event
    <3>1. work[w].event \in Events /\ row[work[w].event].state # "absent"
      BY <2>1, BusyTyped DEF Known, IInv
    <3> QED  BY <1>1, <2>1, <3>1
  <2>2. ASSUME NEW e \in Events, Claim(w, e) PROVE row'[work'[w].event].state # "absent"
    <3>1. Claimable(e)
      BY <1>3, <2>2 DEF Claim, Busy
    <3> QED  BY <1>0, <2>2, <3>1 DEF Claim
  <2>3. (Busy(w) /\ work'[w].event = work[w].event) \/ \E e \in Events : Claim(w, e)
    <3>1. ASSUME NEW v \in Workers, Deliver(v) PROVE Busy(w) /\ work'[w].event = work[w].event
      <4>1. PICK p \in {"sent", "raised"} : work' = [work EXCEPT ![v].pc = p]
        BY <3>1 DEF Deliver
      <4>2. work[v] \in [pc : {"deliver", "sent", "raised"}, event : Events, attempt : Nat]
        BY <3>1, BusyTyped DEF Deliver, Busy, IInv
      <4> QED  BY <1>0, <1>3, <3>1, <4>1, <4>2 DEF Busy, Deliver
    <3>2. ASSUME NEW v \in Workers, SettleSent(v) \/ SettleRaised(v) \/ Crash(v)
          PROVE  Busy(w) /\ work'[w].event = work[w].event
      BY <1>0, <1>3, <3>2 DEF SettleSent, SettleRaised, Crash, Busy, Idle
    <3>3. ASSUME NEW v \in Workers, NEW e \in Events, Claim(v, e)
          PROVE  (Busy(w) /\ work'[w].event = work[w].event) \/ \E x \in Events : Claim(w, x)
      BY <1>0, <1>3, <3>3 DEF Claim, Busy
    <3>4. CASE \/ UNCHANGED vars \/ SweepRead \/ SweepAborts \/ Tick
               \/ \E e \in Events : EnqueueActionOutbox(e) \/ SweepSend(e) \/ LoseMessage(e)
      BY <1>3, <3>4 DEF vars, SweepRead, SweepAborts, Tick, EnqueueActionOutbox, SweepSend, LoseMessage, Busy
    <3> QED  BY <3>1, <3>2, <3>3, <3>4 DEF Next, WorkerStep
  <2> QED  BY <2>1, <2>2, <2>3
<1> QED  BY <1>2, <1>3 DEF Known

(* Every step is a step of the contract. *)
LEMMA StepImplements ==
    ASSUME IInv, IInv', Known, Accounted, [Next]_vars
    PROVE  [Outbox!Next]_(Outbox!vars)
<1> DEFINE debt == [e \in Events |-> DebtOf(row[e].state)]
           owing == [e \in Events |-> DebtOf(row'[e].state)]
<1>0. sends \in [Events -> Nat] /\ faults \in Nat
  BY BoundAssumption DEF IInv, TypeOK
<1>1. CASE /\ \A e \in Events : DebtOf(row'[e].state) = DebtOf(row[e].state)
           /\ UNCHANGED sends /\ faults' \in {faults, faults + 1}
  <2>1. owing = debt
    BY <1>1
  <2>2. Outbox!Fail \/ UNCHANGED Outbox!vars
    BY <1>1, <2>1 DEF Outbox!Fail, Outbox!vars
  <2> QED  BY <2>2 DEF Outbox!Next
<1>2. ASSUME NEW e \in Events,
             DebtOf(row[e].state) = "none", DebtOf(row'[e].state) = "owed",
             \A x \in Events : x # e => row'[x] = row[x],
             UNCHANGED sends, faults' \in {faults, faults + 1}
      PROVE  Outbox!Promise(e)
  <2>1. owing = [debt EXCEPT ![e] = "owed"]
    BY <1>2
  <2> QED  BY <1>2, <2>1 DEF Outbox!Promise
<1>3. ASSUME NEW w \in Workers, Deliver(w), UNCHANGED row,
             sends' = [sends EXCEPT ![work[w].event] = @ + 1], faults' \in {faults, faults + 1}
      PROVE  work[w].event \in Events /\ Outbox!Send(work[w].event)
  <2>1. work[w].event \in Events /\ row[work[w].event].state # "absent" /\ w \in Calls(work[w].event)
    BY <1>3, BusyTyped DEF Deliver, Busy, Known, IInv, Calls
  <2>2. PICK e \in Events : e = work[w].event
    BY <2>1
  <2>3. IsFiniteSet(Calls(e)) /\ Owed(e) <= 1 + faults
    BY DEF Accounted
  <2>4. Cardinality(Calls(e)) \in Nat /\ Cardinality(Calls(e)) # 0
    BY <2>1, <2>2, <2>3, FS_CardinalityType, FS_EmptySet
  <2>5. sends[e] <= faults
    BY <1>0, <2>3, <2>4 DEF Owed
  <2>6. debt[e] # "none"
    BY <2>1, <2>2 DEF DebtOf
  <2>7. Outbox!Send(e)
    BY <1>3, <2>2, <2>5, <2>6 DEF Outbox!Send
  <2> QED  BY <2>1, <2>2, <2>7
<1>4. ASSUME NEW e \in Events,
             DebtOf(row[e].state) = "owed", DebtOf(row'[e].state) = "delivered", sends[e] > 0,
             \A x \in Events : x # e => row'[x] = row[x],
             UNCHANGED <<sends, faults>>
      PROVE  Outbox!Settle(e)
  <2>1. owing = [debt EXCEPT ![e] = "delivered"]
    BY <1>4
  <2> QED  BY <1>4, <2>1 DEF Outbox!Settle
<1> QED  BY <1>1, <1>2, <1>3, <1>4, RowMoves DEF Outbox!Next

(***************************************************************************)
(* The delivery machinery keeps the promise made to the business           *)
(* transaction, for any number of rows and workers and any failures within *)
(* the budget.                                                             *)
(***************************************************************************)
THEOREM OutboxTheorem == Spec => ImplementsOutbox
<1>1. Init => Known /\ Outbox!Init
  BY DEF Init, Known, Busy, Idle, Outbox!Init, DebtOf
<1>2. IInv /\ IInv' /\ Known /\ Accounted /\ [Next]_vars => Known' /\ [Outbox!Next]_(Outbox!vars)
  BY KnownStep, StepImplements
<1> QED  BY <1>1, <1>2, InitIInv, NextIInv, AccountInvariance, PTL DEF Spec, ImplementsOutbox, Outbox!Spec

(* The contract alone gives honest bookkeeping ... *)
LEMMA ContractHonest == Outbox!Spec => []Outbox!Honest
<1> DEFINE debt == [e \in Events |-> DebtOf(row[e].state)]
           owing == [e \in Events |-> DebtOf(row'[e].state)]
           Counts == sends \in [Events -> Nat] /\ faults \in Nat
<1>1. Outbox!Init => Counts /\ Outbox!Honest
  BY DEF Outbox!Init, Outbox!Honest
<1>2. Counts /\ Outbox!Honest /\ [Outbox!Next]_(Outbox!vars) => Counts' /\ Outbox!Honest'
  <2> SUFFICES ASSUME Counts, Outbox!Honest, [Outbox!Next]_(Outbox!vars) PROVE Counts' /\ Outbox!Honest'
    OBVIOUS
  <2>0. ASSUME \A x \in Events : /\ owing[x] = "delivered" => sends'[x] > 0
                                 /\ owing[x] = "none" => sends'[x] = 0
                                 /\ sends'[x] <= 1 + faults'
        PROVE  Outbox!Honest'
    BY <2>0 DEF Outbox!Honest
  <2>1. ASSUME NEW e \in Events, Outbox!Promise(e) PROVE Counts' /\ Outbox!Honest'
    <3>1. owing = [debt EXCEPT ![e] = "owed"] /\ sends' = sends /\ faults' \in {faults, faults + 1}
      BY <2>1 DEF Outbox!Promise
    <3>2. Counts'
      BY <3>1
    <3>3. ASSUME NEW x \in Events
          PROVE  /\ owing[x] = "delivered" => sends'[x] > 0
                 /\ owing[x] = "none" => sends'[x] = 0
                 /\ sends'[x] <= 1 + faults'
      <4>1. /\ debt[x] = "delivered" => sends[x] > 0
            /\ debt[x] = "none" => sends[x] = 0
            /\ sends[x] <= 1 + faults
        BY DEF Outbox!Honest
      <4>2. owing[x] = (IF x = e THEN "owed" ELSE debt[x])
        BY <3>1
      <4> HIDE DEF debt, owing
      <4> QED  BY <3>1, <4>1, <4>2
    <3> QED  BY <2>0, <3>2, <3>3
  <2>2. ASSUME NEW e \in Events, Outbox!Send(e) PROVE Counts' /\ Outbox!Honest'
    BY <2>2 DEF Outbox!Send, Outbox!Honest
  <2>3. ASSUME NEW e \in Events, Outbox!Settle(e) PROVE Counts' /\ Outbox!Honest'
    BY <2>3 DEF Outbox!Settle, Outbox!Honest
  <2>4. CASE Outbox!Fail \/ UNCHANGED Outbox!vars
    BY <2>4 DEF Outbox!Fail, Outbox!vars, Outbox!Honest
  <2> QED  BY <2>1, <2>2, <2>3, <2>4 DEF Outbox!Next
<1> QED  BY <1>1, <1>2, PTL DEF Outbox!Spec

(* ... so the outbox has it: delivered means sent, only what is owed is     *)
(* sent, and without failures everything is sent once.                     *)
THEOREM HonestTheorem == Spec => []Outbox!Honest
BY OutboxTheorem, ContractHonest, PTL DEF ImplementsOutbox
=============================================================================
