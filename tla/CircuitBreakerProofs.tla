------------------------ MODULE CircuitBreakerProofs ------------------------
(***************************************************************************)
(* TLAPS proofs about CircuitBreaker, for every set of threads, every      *)
(* positive failure_threshold and every recovery_timeout.                  *)
(***************************************************************************)
EXTENDS CircuitBreaker, TLAPS

(* The inductive invariant: the types, and the tie of state to count. *)
IInv == TypeOK /\ TrippedIffAtThreshold

(* Counting a failure keeps the tie, whatever the state was before. *)
LEMMA CountFailureKeeps ==
    ASSUME TypeOK, TrippedIffAtThreshold, CountFailure
    PROVE  /\ state' \in States
           /\ failureCount' \in 0..FailureThreshold
           /\ age' \in 0..RecoveryTimeout
           /\ TrippedIffAtThreshold'
BY ThresholdAssumption, RecoveryAssumption
   DEF TypeOK, TrippedIffAtThreshold, CountFailure, States, CLOSED, OPEN, HALF_OPEN

(* A new breaker satisfies the invariant. *)
LEMMA InitIInv == Init => IInv
BY ThresholdAssumption, RecoveryAssumption
   DEF Init, IInv, TypeOK, TrippedIffAtThreshold, States, CLOSED, OPEN, HALF_OPEN

(* No step of any thread, and no passing of time, breaks the invariant. *)
LEMMA NextIInv == IInv /\ [Next]_vars => IInv'
<1> SUFFICES ASSUME IInv, [Next]_vars PROVE IInv'
  OBVIOUS
<1> USE ThresholdAssumption, RecoveryAssumption
<1>1. CASE Tick
  BY <1>1 DEF IInv, TypeOK, TrippedIffAtThreshold, Tick
<1>2. ASSUME NEW t \in Threads, RetrievalFails(t) PROVE IInv'
  <2>1. TypeOK /\ TrippedIffAtThreshold /\ CountFailure
    BY <1>2 DEF IInv, RetrievalFails
  <2>2. TypeOK'
    BY <1>2, <2>1, CountFailureKeeps DEF TypeOK, RetrievalFails
  <2> QED  BY <2>1, <2>2, CountFailureKeeps DEF IInv
<1>3. ASSUME NEW t \in Threads, AskState(t) PROVE IInv'
  <2>1. TypeOK'
    BY <1>3 DEF IInv, TypeOK, AskState, ReadState, States
  <2>2. TrippedIffAtThreshold'
    BY <1>3 DEF IInv, TypeOK, TrippedIffAtThreshold, AskState, ReadState, CLOSED, OPEN, HALF_OPEN
  <2> QED  BY <2>1, <2>2 DEF IInv
<1>4. ASSUME NEW t \in Threads, AllowRequest(t) PROVE IInv'
  BY <1>4 DEF IInv, TypeOK, TrippedIffAtThreshold, AllowRequest
<1>5. ASSUME NEW t \in Threads, RecordSuccess(t) PROVE IInv'
  BY <1>5 DEF IInv, TypeOK, TrippedIffAtThreshold, RecordSuccess, States
<1>6. ASSUME NEW t \in Threads, RecordFailure(t) PROVE IInv'
  <2>1. TypeOK /\ TrippedIffAtThreshold /\ CountFailure
    BY <1>6 DEF IInv, RecordFailure
  <2>2. TypeOK'
    BY <1>6, <2>1, CountFailureKeeps DEF TypeOK, RecordFailure
  <2> QED  BY <2>1, <2>2, CountFailureKeeps DEF IInv
<1>7. ASSUME NEW t \in Threads, Abandon(t) PROVE IInv'
  BY <1>7 DEF IInv, TypeOK, TrippedIffAtThreshold, Abandon
<1>8. CASE UNCHANGED vars
  BY <1>8 DEF IInv, TypeOK, TrippedIffAtThreshold, vars
<1> QED
  BY <1>1, <1>2, <1>3, <1>4, <1>5, <1>6, <1>7, <1>8 DEF Next

(* The invariant holds in every state of every behaviour. *)
LEMMA IInvHolds == Spec => []IInv
BY InitIInv, NextIInv, PTL DEF Spec

(* Every variable keeps its type: the count stops at the threshold, and a *)
(* thread is idle, has asked or is calling.                                *)
THEOREM TypeTheorem == Spec => []TypeOK
<1>1. IInv => TypeOK
  BY DEF IInv
<1> QED  BY <1>1, IInvHolds, PTL

(***************************************************************************)
(* The breaker of core/circuit_breaker.py is CLOSED exactly while fewer    *)
(* than failure_threshold failures are counted.                            *)
(***************************************************************************)
THEOREM TrippedTheorem == Spec => []TrippedIffAtThreshold
<1>1. IInv => TrippedIffAtThreshold
  BY DEF IInv
<1> QED  BY <1>1, IInvHolds, PTL

(***************************************************************************)
(* A failure recorded in HALF_OPEN re-opens the breaker and restarts the   *)
(* recovery window: record_failure sees a count already at the threshold.  *)
(***************************************************************************)
THEOREM FailedProbeTheorem == Spec => FailedProbeReopens
<1>1. ASSUME IInv, [Next]_vars
      PROVE  [\A t \in Threads :
                state = HALF_OPEN /\ (RetrievalFails(t) \/ RecordFailure(t))
                    => state' = OPEN /\ age' = 0]_vars
  <2> SUFFICES ASSUME NEW t \in Threads, state = HALF_OPEN,
                      RetrievalFails(t) \/ RecordFailure(t)
               PROVE  state' = OPEN /\ age' = 0
    OBVIOUS
  <2>1. CountFailure
    BY DEF RetrievalFails, RecordFailure
  <2>2. failureCount = FailureThreshold
    BY <1>1, ThresholdAssumption
       DEF IInv, TypeOK, TrippedIffAtThreshold, CLOSED, HALF_OPEN
  <2> QED
    BY <2>1, <2>2, ThresholdAssumption DEF CountFailure
<1> QED  BY <1>1, IInvHolds, PTL DEF Spec, FailedProbeReopens
=============================================================================
