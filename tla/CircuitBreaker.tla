--------------------------- MODULE CircuitBreaker ---------------------------
(***************************************************************************)
(* The DashScope circuit breaker (backend/apps/core/circuit_breaker.py)    *)
(* and the two places of the RAG pipeline that drive it                    *)
(* (backend/apps/rag/pipeline.py): one in-memory breaker of one process,   *)
(* shared by the request threads of that process.                          *)
(*                                                                         *)
(* allow_request reads the state through the `state` property and then     *)
(* takes the lock a second time to decide, so it is two steps here.  A     *)
(* thread whose retrieval or prompt building fails records a failure       *)
(* without ever having asked for permission; one whose consumer goes away  *)
(* (cancellation, lost lease) records nothing at all.                      *)
(***************************************************************************)
EXTENDS Naturals

CONSTANTS
    Threads,            \* request threads of the process
    FailureThreshold,   \* failure_threshold
    RecoveryTimeout     \* recovery_timeout, in clock ticks

ASSUME ThresholdAssumption == FailureThreshold \in Nat \ {0}
ASSUME RecoveryAssumption == RecoveryTimeout \in Nat

CLOSED == "closed"
OPEN == "open"
HALF_OPEN == "half_open"

States == {CLOSED, OPEN, HALF_OPEN}

VARIABLES
    state,          \* _state
    failureCount,   \* _failure_count; the code only compares it with the
                    \* threshold, so it stops growing there
    age,            \* time.time() - _last_failure_time, which the code only
                    \* compares with recovery_timeout, so it stops there
    pc,             \* where each thread is in the pipeline
    seen            \* current_state, the local of allow_request

vars == <<state, failureCount, age, pc, seen>>

Init ==
    /\ state = CLOSED
    /\ failureCount = 0
    /\ age = RecoveryTimeout
    /\ pc = [t \in Threads |-> "idle"]
    /\ seen = [t \in Threads |-> CLOSED]

(* Mutant: the state property forgets the OPEN -> HALF_OPEN decay. *)
ReadStateNoDecay == state

(* The value of the state property: OPEN decays to HALF_OPEN when it is read late enough. *)
ReadState ==
    IF state = OPEN /\ age >= RecoveryTimeout THEN HALF_OPEN ELSE state

(* Mutants: the count restarts in HALF_OPEN; the clock is not restarted once *)
(* tripped. *)
CountFailureFreshProbe ==
    /\ failureCount' = IF state = HALF_OPEN THEN 1
                       ELSE IF failureCount < FailureThreshold THEN failureCount + 1
                       ELSE failureCount
    /\ age' = 0
    /\ state' = IF failureCount' >= FailureThreshold THEN OPEN ELSE state

CountFailureKeepsClock ==
    /\ failureCount' = IF failureCount < FailureThreshold THEN failureCount + 1 ELSE failureCount
    /\ age' = IF failureCount < FailureThreshold THEN 0 ELSE age
    /\ state' = IF failureCount' >= FailureThreshold THEN OPEN ELSE state

(* record_failure and record_timeout under the lock. *)
CountFailure ==
    /\ failureCount' = IF failureCount < FailureThreshold THEN failureCount + 1 ELSE failureCount
    /\ age' = 0
    /\ state' = IF failureCount' >= FailureThreshold THEN OPEN ELSE state

(* Retrieval fails before the breaker is consulted: the failure counts all the same. *)
RetrievalFails(t) ==
    /\ pc[t] = "idle"
    /\ CountFailure
    /\ UNCHANGED <<pc, seen>>

(* allow_request, first half: the state property, which may move OPEN to HALF_OPEN. *)
AskState(t) ==
    /\ pc[t] = "idle"
    /\ state' = ReadState
    /\ seen' = [seen EXCEPT ![t] = ReadState]
    /\ pc' = [pc EXCEPT ![t] = "asked"]
    /\ UNCHANGED <<failureCount, age>>

(* allow_request, second half: the answer depends on the state read before. *)
AllowRequest(t) ==
    /\ pc[t] = "asked"
    /\ pc' = [pc EXCEPT ![t] = IF seen[t] \in {CLOSED, HALF_OPEN} THEN "calling" ELSE "idle"]
    /\ UNCHANGED <<state, failureCount, age, seen>>

(* The provider streamed a whole answer. *)
RecordSuccess(t) ==
    /\ pc[t] = "calling"
    /\ failureCount' = 0
    /\ state' = CLOSED
    /\ pc' = [pc EXCEPT ![t] = "idle"]
    /\ UNCHANGED <<age, seen>>

(* The prompt could not be built, the stream raised, or the answer was empty. *)
RecordFailure(t) ==
    /\ pc[t] = "calling"
    /\ CountFailure
    /\ pc' = [pc EXCEPT ![t] = "idle"]
    /\ UNCHANGED seen

(* The consumer of the generator stops: neither outcome is recorded. *)
Abandon(t) ==
    /\ pc[t] = "calling"
    /\ pc' = [pc EXCEPT ![t] = "idle"]
    /\ UNCHANGED <<state, failureCount, age, seen>>

Tick ==
    /\ age < RecoveryTimeout
    /\ age' = age + 1
    /\ UNCHANGED <<state, failureCount, pc, seen>>

Next ==
    \/ Tick
    \/ \E t \in Threads :
        \/ RetrievalFails(t)
        \/ AskState(t)
        \/ AllowRequest(t)
        \/ RecordSuccess(t)
        \/ RecordFailure(t)
        \/ Abandon(t)

Spec == Init /\ [][Next]_vars

(* Time passes, and a thread inside allow_request returns from it. *)
Fairness ==
    /\ WF_vars(Tick)
    /\ \A t \in Threads : WF_vars(AllowRequest(t))

FairSpec == Spec /\ Fairness

-----------------------------------------------------------------------------
(* Every variable has its type. *)
TypeOK ==
    /\ state \in States
    /\ failureCount \in 0..FailureThreshold
    /\ age \in 0..RecoveryTimeout
    /\ pc \in [Threads -> {"idle", "asked", "calling"}]
    /\ seen \in [Threads -> States]

(***************************************************************************)
(* The breaker is CLOSED exactly while fewer than failure_threshold        *)
(* failures are on the count.  HALF_OPEN keeps the count, so the first     *)
(* failure of a probe trips the breaker again; no interleaving of late     *)
(* successes, retrieval failures and probes separates state from count.    *)
(***************************************************************************)
TrippedIffAtThreshold ==
    state = CLOSED <=> failureCount < FailureThreshold

(***************************************************************************)
(* A failure recorded by anyone while the breaker probes re-opens it and   *)
(* starts a whole new recovery window, whichever thread reports it.        *)
(***************************************************************************)
FailedProbeReopens ==
    [][\A t \in Threads :
        state = HALF_OPEN /\ (RetrievalFails(t) \/ RecordFailure(t))
            => state' = OPEN /\ age' = 0]_vars

(***************************************************************************)
(* The breaker does not stay OPEN for good: unless failures go on being    *)
(* recorded, or requests stop asking, it is left again and again, although *)
(* only a reader of the state property can move it to HALF_OPEN.           *)
(***************************************************************************)
OpenIsLeft ==
    \/ []<>(state # OPEN)
    \/ []<><<\E t \in Threads : RetrievalFails(t) \/ RecordFailure(t)>>_vars
    \/ <>[][\A t \in Threads : ~AskState(t)]_vars
=============================================================================
