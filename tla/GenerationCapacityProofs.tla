---------------------- MODULE GenerationCapacityProofs ----------------------
(***************************************************************************)
(* TLAPS proofs about GenerationCapacity for any finite set of turns, any  *)
(* limit, TTL, task limit, clock error and fault budget: the set keeps to  *)
(* its limit, and if the TTL exceeds the task limit by more than twice the *)
(* clock error, so does the number of running turns whose place no task of *)
(* an earlier attempt released.                                            *)
(***************************************************************************)
EXTENDS GenerationCapacity, FiniteSetTheorems, TLAPS

(* A turn under way leaves room for its own task to leave. *)
RoomToLeave == \A t \in Turns : phase[t] \in {"accepted", "queued", "running"} => leaving[t] < MaxLeaving

IInv == TypeOK /\ WithinLimit /\ RoomToLeave

(* What one script may do to the set: drop members, or admit one. *)
Dropped == Held' \subseteq Held /\ \A t \in Held' : registry'[t] = registry[t]

(* The reservation of a running turn outlasts every clock of every caller, *)
(* unless a late release took it. *)
RunningHeld ==
    \A t \in Running \ robbed : t \in Held /\ registry[t] >= TTL - Skew - ran[t]

-----------------------------------------------------------------------------
(* The scripts as sets of members. *)
LEMMA Scripts ==
    ASSUME TypeOK, NEW turn \in Turns, NEW behind \in Clocks
    PROVE  /\ Live(behind) \subseteq Held
           /\ DOMAIN Pruned(behind) = Live(behind)
           /\ \A t \in Live(behind) : Pruned(behind)[t] = registry[t]
           /\ DOMAIN WithTurn(turn, behind) = Live(behind) \cup {turn}
           /\ WithTurn(turn, behind)[turn] = TTL - behind
           /\ \A t \in Live(behind) \ {turn} : WithTurn(turn, behind)[t] = registry[t]
           /\ DOMAIN Without(turn) = Held \ {turn}
           /\ \A t \in Held \ {turn} : Without(turn)[t] = registry[t]
BY DEF Live, Pruned, WithTurn, Without, Held

(* Dropping members keeps the limit. *)
LEMMA DropKeeps ==
    ASSUME TypeOK, WithinLimit, Dropped
    PROVE  /\ WithinLimit'
           /\ Held' \subseteq Turns /\ \A t \in Held' : registry'[t] \in -Skew..(TTL + Skew)
<1>1. IsFiniteSet(Held) /\ Held' \subseteq Held
  BY FS_Subset, TurnsAssumption DEF TypeOK, Dropped
<1>2. IsFiniteSet(Held') /\ Cardinality(Held') <= Cardinality(Held)
  BY <1>1, FS_Subset
<1>3. Cardinality(Held) \in Nat /\ Cardinality(Held') \in Nat
  BY <1>1, <1>2, FS_CardinalityType
<1>4. WithinLimit'
  BY <1>2, <1>3, LimitAssumption DEF WithinLimit
<1> QED  BY <1>1, <1>4 DEF TypeOK, Dropped

(* Admitting a turn keeps the limit. *)
LEMMA AdmitKeeps ==
    ASSUME TypeOK, WithinLimit, NEW turn \in Turns, NEW behind \in Clocks,
           Admits(turn, behind), registry' = WithTurn(turn, behind)
    PROVE  /\ WithinLimit'
           /\ Held' \subseteq Turns /\ \A t \in Held' : registry'[t] \in -Skew..(TTL + Skew)
<1> DEFINE L == Live(behind)
<1>1. IsFiniteSet(Held) /\ L \subseteq Held
  BY FS_Subset, TurnsAssumption, Scripts DEF TypeOK
<1>2. IsFiniteSet(L) /\ Cardinality(L) <= Cardinality(Held) /\ Cardinality(L) \in Nat
      /\ Cardinality(Held) \in Nat
  BY <1>1, FS_Subset, FS_CardinalityType
<1>3. Held' = L \cup {turn}
  BY Scripts DEF Held
<1>4. Cardinality(L \cup {turn}) <= Limit
  <2>1. CASE turn \in L
    <3>1. L \cup {turn} = L
      BY <2>1
    <3> QED  BY <1>2, <3>1, LimitAssumption DEF WithinLimit
  <2>2. CASE turn \notin L
    <3>1. Cardinality(L \cup {turn}) = Cardinality(L) + 1
      BY <1>2, <2>2, FS_AddElement
    <3>2. Cardinality(L) < Limit
      BY <2>2 DEF Admits
    <3> QED  BY <1>2, <3>1, <3>2, LimitAssumption
  <2> QED  BY <2>1, <2>2
<1>5. TTL - behind \in -Skew..(TTL + Skew)
  BY TimeAssumption DEF Clocks
<1>6. \A t \in Held' : registry'[t] \in -Skew..(TTL + Skew)
  <2> SUFFICES ASSUME NEW t \in Held' PROVE registry'[t] \in -Skew..(TTL + Skew)
    OBVIOUS
  <2>1. CASE t = turn
    BY <1>5, <2>1, Scripts
  <2>2. CASE t # turn
    <3>1. t \in L \ {turn}
      BY <1>3, <2>2
    <3>2. registry'[t] = registry[t] /\ t \in Held
      BY <1>1, <3>1, Scripts
    <3> QED  BY <3>2 DEF TypeOK
  <2> QED  BY <2>1, <2>2
<1> QED  BY <1>1, <1>3, <1>4, <1>6 DEF WithinLimit, TypeOK

(* The initial state. *)
LEMMA InitIInv == Init => IInv
<1> SUFFICES ASSUME Init PROVE IInv
  OBVIOUS
<1>1. Held = {}
  BY DEF Init, Held
<1>2. Cardinality(Held) = 0
  BY <1>1, FS_EmptySet
<1> QED
  BY <1>1, <1>2, LimitAssumption, TimeAssumption, BudgetAssumption
     DEF Init, IInv, TypeOK, WithinLimit, Phases, RoomToLeave

(* A fault counts within its budget. *)
LEMMA FaultTyped ==
    ASSUME faults \in 0..MaxFaults, NEW kind, Fault(kind) \/ NoFault
    PROVE  faults' \in 0..MaxFaults
BY BudgetAssumption DEF Fault, NoFault

(* Phases and task times stay typed when a turn moves on. *)
LEMMA GotoTyped ==
    ASSUME phase \in [Turns -> Phases], NEW turn \in Turns, NEW p \in Phases, Goto(turn, p)
    PROVE  phase' \in [Turns -> Phases]
BY DEF Goto

(* What each action does to the set, and to the rest. *)
LEMMA StepShape ==
    ASSUME TypeOK, RoomToLeave, [Next]_vars
    PROVE  /\ \/ Dropped
              \/ \E t \in Turns, behind \in Clocks :
                    Admits(t, behind) /\ registry' = WithTurn(t, behind)
              \/ Tick
           /\ phase' \in [Turns -> Phases]
           /\ faults' \in 0..MaxFaults
           /\ ran' \in [Turns -> 0..TaskLimit]
<1> DEFINE Goal ==
           /\ \/ Dropped
              \/ \E t \in Turns, behind \in Clocks :
                    Admits(t, behind) /\ registry' = WithTurn(t, behind)
              \/ Tick
           /\ phase' \in [Turns -> Phases]
           /\ faults' \in 0..MaxFaults
           /\ ran' \in [Turns -> 0..TaskLimit]
<1>1. ASSUME registry' = registry PROVE Dropped
  BY <1>1 DEF Dropped, Held
<1>2. ASSUME NEW behind \in Clocks, registry' = Pruned(behind) PROVE Dropped
  BY <1>2 DEF Dropped, Pruned, Live, Held
<1>3. ASSUME NEW t \in Turns, registry' = Without(t) PROVE Dropped
  BY <1>3 DEF Dropped, Without, Held
<1>4. 0 \in 0..TaskLimit
  BY TimeAssumption
<1>5. ASSUME NEW t \in Turns, Reserve(t) PROVE Goal
  <2>1. phase' \in [Turns -> Phases]
    BY <1>5 DEF Reserve, Goto, TypeOK, Phases
  <2>2. faults' \in 0..MaxFaults
    BY <1>5, FaultTyped DEF Reserve, TypeOK
  <2>3. \/ Dropped
        \/ \E behind \in Clocks : Admits(t, behind) /\ registry' = WithTurn(t, behind)
    BY <1>1, <1>2, <1>5 DEF Reserve
  <2> QED  BY <1>5, <2>1, <2>2, <2>3 DEF Reserve, TypeOK
<1>6. ASSUME NEW t \in Turns, Enqueue(t) PROVE Goal
  <2>1. phase' \in [Turns -> Phases]
    BY <1>6 DEF Enqueue, Goto, TypeOK, Phases
  <2>2. faults' \in 0..MaxFaults
    BY <1>6, FaultTyped DEF Enqueue, TypeOK
  <2>3. Dropped
    BY <1>1, <1>3, <1>6 DEF Enqueue
  <2> QED  BY <1>6, <2>1, <2>2, <2>3 DEF Enqueue, TypeOK
<1>7. ASSUME NEW t \in Turns, Start(t) PROVE Goal
  <2>1. phase' \in [Turns -> Phases]
    BY <1>7 DEF Start, Leaves, Goto, TypeOK, Phases
  <2>2. faults' \in 0..MaxFaults
    BY <1>7, FaultTyped DEF Start, TypeOK
  <2>3. \/ Dropped
        \/ \E behind \in Clocks : Admits(t, behind) /\ registry' = WithTurn(t, behind)
    BY <1>1, <1>2, <1>3, <1>7 DEF Start, Admits
  <2>4. ran' \in [Turns -> 0..TaskLimit]
    BY <1>4, <1>7 DEF Start, TypeOK
  <2> QED  BY <2>1, <2>2, <2>3, <2>4
<1>8. ASSUME NEW t \in Turns, Finish(t) PROVE Goal
  <2>1. phase' \in [Turns -> Phases]
    BY <1>8 DEF Finish, Leaves, Goto, TypeOK, Phases
  <2> QED  BY <1>1, <1>8, <2>1 DEF Finish, TypeOK
<1>13. ASSUME NEW t \in Turns, Leave(t) PROVE Goal
  <2>1. faults' \in 0..MaxFaults
    BY <1>13, FaultTyped DEF Leave, Release, TypeOK
  <2>2. Dropped
    BY <1>1, <1>3, <1>13 DEF Leave, Release
  <2> QED  BY <1>13, <2>1, <2>2 DEF Leave, TypeOK
<1>14. ASSUME NEW t \in Turns, LeaverLost(t) PROVE Goal
  <2>1. faults' \in 0..MaxFaults
    BY <1>14, FaultTyped DEF LeaverLost, TypeOK
  <2>2. \/ Dropped
        \/ \E behind \in Clocks : Admits(t, behind) /\ registry' = WithTurn(t, behind)
    BY <1>2, <1>14 DEF LeaverLost, Admits
  <2> QED  BY <1>14, <2>1, <2>2 DEF LeaverLost, TypeOK
<1>9. ASSUME NEW t \in Turns, WorkerLost(t) PROVE Goal
  <2>1. phase' \in [Turns -> Phases]
    BY <1>9 DEF WorkerLost, Goto, TypeOK, Phases
  <2>2. faults' \in 0..MaxFaults
    BY <1>9, FaultTyped DEF WorkerLost, TypeOK
  <2> QED  BY <1>1, <1>9, <2>1, <2>2 DEF WorkerLost, TypeOK
<1>10. CASE Outstanding
  BY <1>2, <1>10 DEF Outstanding, TypeOK
<1>11. CASE Tick
  <2>1. faults' \in 0..MaxFaults
    BY <1>11, FaultTyped DEF Tick, TypeOK
  <2>2. ran' \in [Turns -> 0..TaskLimit]
    BY <1>11, TimeAssumption DEF Tick, TypeOK
  <2> QED  BY <1>11, <2>1, <2>2 DEF Tick, TypeOK
<1>12. CASE UNCHANGED vars
  BY <1>1, <1>12 DEF vars, TypeOK
<1> QED
  BY <1>5, <1>6, <1>7, <1>8, <1>9, <1>10, <1>11, <1>12, <1>13, <1>14 DEF Next

(* Tasks that leave are counted within their bound, and robbed turns run. *)
LEMMA LeavingStep ==
    ASSUME TypeOK, RoomToLeave, [Next]_vars
    PROVE  leaving' \in [Turns -> 0..MaxLeaving] /\ RoomToLeave' /\ (robbed \subseteq Running)'
<1> DEFINE Goal == /\ leaving' \in [Turns -> 0..MaxLeaving]
                   /\ RoomToLeave'
                   /\ (robbed \subseteq Running)'
<1>0. /\ leaving \in [Turns -> 0..MaxLeaving] /\ phase \in [Turns -> Phases]
      /\ robbed \subseteq Running /\ MaxLeaving \in Nat
  BY BudgetAssumption DEF TypeOK
<1>1. ASSUME NEW turn \in Turns, NEW p \in Phases, Goto(turn, p), UNCHANGED <<leaving, robbed>>,
             phase[turn] # "running",
             p \in {"accepted", "queued", "running"} => leaving[turn] < MaxLeaving
      PROVE  Goal
  <2>1. \A t \in Turns \ {turn} : phase'[t] = phase[t]
    BY <1>0, <1>1 DEF Goto
  <2>2. phase'[turn] = p
    BY <1>0, <1>1 DEF Goto
  <2>3. RoomToLeave'
    BY <1>1, <2>1, <2>2 DEF RoomToLeave
  <2>4. (robbed \subseteq Running)'
    BY <1>0, <1>1, <2>1 DEF Running
  <2> QED  BY <1>0, <1>1, <2>3, <2>4
<1>2. ASSUME NEW turn \in Turns, Leaves(turn), leaving[turn] < MaxLeaving,
             robbed' \subseteq robbed, turn \notin robbed'
      PROVE  Goal
  <2>1. /\ \A t \in Turns \ {turn} : phase'[t] = phase[t] /\ leaving'[t] = leaving[t]
        /\ phase'[turn] = "over"
    BY <1>0, <1>2 DEF Leaves, Goto
  <2>2. leaving' \in [Turns -> 0..MaxLeaving]
    BY <1>0, <1>2 DEF Leaves
  <2>3. RoomToLeave'
    BY <2>1 DEF RoomToLeave
  <2>4. (robbed \subseteq Running)'
    BY <1>0, <1>2, <2>1 DEF Running
  <2> QED  BY <2>2, <2>3, <2>4
<1>3. ASSUME UNCHANGED <<phase, leaving, robbed>> PROVE Goal
  BY <1>0, <1>3 DEF RoomToLeave, Running
<1>4. ASSUME NEW turn \in Turns, Reserve(turn) PROVE Goal
  <2>1. /\ phase[turn] # "running" /\ leaving[turn] < MaxLeaving /\ UNCHANGED <<leaving, robbed>>
        /\ Goto(turn, "accepted") \/ Goto(turn, "over")
    BY <1>4 DEF Reserve
  <2> QED  BY <1>1, <2>1 DEF Phases
<1>5. ASSUME NEW turn \in Turns, Enqueue(turn) PROVE Goal
  <2>1. /\ phase[turn] = "accepted" /\ UNCHANGED <<leaving, robbed>>
        /\ Goto(turn, "queued") \/ Goto(turn, "over")
    BY <1>5 DEF Enqueue
  <2>2. leaving[turn] < MaxLeaving
    BY <2>1 DEF RoomToLeave
  <2> QED  BY <1>1, <2>1, <2>2 DEF Phases
<1>6. ASSUME NEW turn \in Turns, Start(turn) PROVE Goal
  <2>1. phase[turn] = "queued" /\ UNCHANGED robbed
    BY <1>6 DEF Start
  <2>2. leaving[turn] < MaxLeaving /\ turn \notin robbed
    BY <1>0, <2>1 DEF RoomToLeave, Running
  <2>3. \/ Goto(turn, "running") /\ UNCHANGED leaving
        \/ Leaves(turn)
        \/ UNCHANGED <<phase, leaving>>
    BY <1>6 DEF Start
  <2> QED  BY <1>1, <1>2, <1>3, <2>1, <2>2, <2>3 DEF Phases
<1>7. ASSUME NEW turn \in Turns, Finish(turn) PROVE Goal
  <2>1. phase[turn] = "running" /\ Leaves(turn) /\ robbed' = robbed \ {turn}
    BY <1>7 DEF Finish
  <2>2. leaving[turn] < MaxLeaving
    BY <2>1 DEF RoomToLeave
  <2> QED  BY <1>2, <2>1, <2>2
<1>8. ASSUME NEW turn \in Turns, Leave(turn) PROVE Goal
  <2>1. /\ leaving[turn] > 0 /\ leaving' = [leaving EXCEPT ![turn] = @ - 1]
        /\ robbed' \subseteq robbed \cup Running /\ UNCHANGED phase
    BY <1>8 DEF Leave
  <2>2. leaving' \in [Turns -> 0..MaxLeaving] /\ \A t \in Turns : leaving'[t] <= leaving[t]
    BY <1>0, <2>1
  <2>3. RoomToLeave'
    BY <1>0, <2>1, <2>2 DEF RoomToLeave
  <2> QED  BY <1>0, <2>1, <2>2, <2>3 DEF Running
<1>9. ASSUME NEW turn \in Turns, WorkerLost(turn) PROVE Goal
  <2>1. /\ phase[turn] = "running" /\ Goto(turn, "queued")
        /\ robbed' = robbed \ {turn} /\ UNCHANGED leaving
    BY <1>9 DEF WorkerLost
  <2>2. \A t \in Turns \ {turn} : phase'[t] = phase[t]
    BY <1>0, <2>1 DEF Goto
  <2>3. RoomToLeave'
    BY <2>1, <2>2 DEF RoomToLeave
  <2>4. (robbed \subseteq Running)'
    BY <1>0, <2>1, <2>2 DEF Running
  <2> QED  BY <1>0, <2>1, <2>3, <2>4
<1>10. CASE \E turn \in Turns : LeaverLost(turn)
  BY <1>3, <1>10 DEF LeaverLost
<1>11. CASE Outstanding \/ Tick \/ UNCHANGED vars
  BY <1>3, <1>11 DEF Outstanding, Tick, vars
<1> QED
  BY <1>4, <1>5, <1>6, <1>7, <1>8, <1>9, <1>10, <1>11 DEF Next

(* Every step preserves the type and the limit. *)
LEMMA NextIInv == IInv /\ [Next]_vars => IInv'
<1> SUFFICES ASSUME IInv, [Next]_vars PROVE IInv'
  OBVIOUS
<1>0. TypeOK /\ WithinLimit /\ RoomToLeave
  BY DEF IInv
<1>1. WithinLimit' /\ Held' \subseteq Turns /\ \A t \in Held' : registry'[t] \in -Skew..(TTL + Skew)
  <2>1. CASE Dropped
    BY <1>0, <2>1, DropKeeps
  <2>2. CASE \E t \in Turns, behind \in Clocks : Admits(t, behind) /\ registry' = WithTurn(t, behind)
    BY <1>0, <2>2, AdmitKeeps
  <2>3. CASE Tick
    <3>1. Held' = Held
      BY <2>3 DEF Tick, Held
    <3>2. ASSUME NEW t \in Held' PROVE registry'[t] \in -Skew..(TTL + Skew)
      <4>1. registry[t] \in -Skew..(TTL + Skew)
        BY <1>0, <3>1 DEF TypeOK
      <4>2. registry'[t] = IF registry[t] > -Skew THEN registry[t] - 1 ELSE registry[t]
        BY <2>3, <3>1 DEF Tick
      <4> QED  BY <4>1, <4>2, TimeAssumption
    <3> QED  BY <1>0, <3>1, <3>2 DEF WithinLimit, TypeOK
  <2> QED  BY <1>0, <2>1, <2>2, <2>3, StepShape
<1> QED  BY <1>0, <1>1, StepShape, LeavingStep DEF IInv, TypeOK

(***************************************************************************)
(* Every variable has its type (the scripts of capacity.py).               *)
(***************************************************************************)
THEOREM TypeTheorem == Spec => []TypeOK
<1>1. IInv => TypeOK
  BY DEF IInv
<1> QED  BY InitIInv, NextIInv, <1>1, PTL DEF Spec

(***************************************************************************)
(* The sorted set never has more than max_outstanding members, whatever    *)
(* the clocks of the callers say (the reserve script).                     *)
(***************************************************************************)
THEOREM LimitTheorem == Spec => []WithinLimit
<1>1. IInv => WithinLimit
  BY DEF IInv
<1> QED  BY InitIInv, NextIInv, <1>1, PTL DEF Spec

-----------------------------------------------------------------------------
(* A member with that much time left is live for every caller. *)
LEMMA OutlastsClocks ==
    ASSUME TTL > TaskLimit + 2 * Skew, TypeOK, RunningHeld,
           NEW t \in Running \ robbed, NEW behind \in Clocks
    PROVE  t \in Live(behind)
<1>1. t \in Held /\ registry[t] >= TTL - Skew - ran[t] /\ t \in Turns
  BY DEF RunningHeld, Running
<1>2. ran[t] \in 0..TaskLimit /\ registry[t] \in Int /\ behind \in Int /\ -behind <= Skew
  BY <1>1, TimeAssumption DEF TypeOK, Clocks
<1>3. registry[t] > -behind
  BY <1>1, <1>2, TimeAssumption
<1> QED  BY <1>1, <1>3 DEF Live

(* A turn that keeps its place: it is not robbed, and its time does not shrink. *)
Keeps(t) == t \in Running /\ t \notin robbed /\ t \in Held' /\ registry'[t] >= registry[t] /\ ran'[t] = ran[t]

(* Running turns that go on running with their reservation and their time. *)
LEMMA SameKeeps ==
    ASSUME TypeOK, RunningHeld, TypeOK', \A t \in Running' \ robbed' : Keeps(t)
    PROVE  RunningHeld'
<1> SUFFICES ASSUME NEW t \in Running' \ robbed'
             PROVE  t \in Held' /\ registry'[t] >= TTL - Skew - ran'[t]
  BY DEF RunningHeld
<1>1. Keeps(t) /\ t \in Held /\ registry[t] >= TTL - Skew - ran[t] /\ t \in Turns
  BY DEF Keeps, RunningHeld, Running
<1>2. registry[t] \in Int /\ registry'[t] \in Int /\ ran[t] \in Int
  BY <1>1, TimeAssumption DEF TypeOK, Keeps
<1> QED  BY <1>1, <1>2, TimeAssumption DEF Keeps

(* Running turns keep their reservations while no task is slow. *)
LEMMA HeldStep ==
    ASSUME TTL > TaskLimit + 2 * Skew, "slow" \notin FaultKinds,
           TypeOK, TypeOK', RunningHeld, [Next]_vars
    PROVE  RunningHeld'
<1>0. /\ phase \in [Turns -> Phases] /\ ran \in [Turns -> 0..TaskLimit]
      /\ \A t \in Held : registry[t] \in Int
      /\ Skew \in Nat /\ TTL \in Nat /\ TaskLimit \in Nat
  BY TimeAssumption DEF TypeOK
<1>1. \A t \in Running \ robbed, behind \in Clocks : t \in Live(behind)
  BY OutlastsClocks
<1>2. ASSUME NEW t \in Running \ robbed, NEW behind \in Clocks, NEW turn \in Turns, turn # t,
             registry' \in {registry, Pruned(behind), WithTurn(turn, behind), Without(turn)}
      PROVE  t \in Held' /\ registry'[t] >= registry[t]
  <2>1. t \in Live(behind) /\ t \in Held /\ t # turn
    BY <1>1, <1>2 DEF RunningHeld
  <2>2. t \in Held' /\ registry'[t] = registry[t]
    <3>1. CASE registry' = registry
      BY <2>1, <3>1 DEF Held
    <3>2. CASE registry' = Pruned(behind)
      BY <2>1, <3>2, Scripts DEF Held
    <3>3. CASE registry' = WithTurn(turn, behind)
      <4>1. /\ DOMAIN WithTurn(turn, behind) = Live(behind) \cup {turn}
            /\ \A u \in Live(behind) \ {turn} : WithTurn(turn, behind)[u] = registry[u]
        BY Scripts
      <4> QED  BY <2>1, <3>3, <4>1 DEF Held
    <3>4. CASE registry' = Without(turn)
      BY <2>1, <3>4, Scripts DEF Held, Without
    <3> QED  BY <1>2, <3>1, <3>2, <3>3, <3>4
  <2> QED  BY <1>0, <2>1, <2>2
<1>3. ASSUME NEW turn \in Turns, Reserve(turn) PROVE RunningHeld'
  <2>1. Running' = Running /\ turn \notin Running /\ UNCHANGED <<ran, robbed>>
    BY <1>0, <1>3 DEF Reserve, Goto, Running
  <2>2. PICK behind \in Clocks :
            registry' \in {registry, WithTurn(turn, behind), Pruned(behind)}
    BY <1>3 DEF Reserve
  <2> QED  BY <1>2, <2>1, <2>2, SameKeeps DEF Keeps
<1>4. ASSUME NEW turn \in Turns, Enqueue(turn) PROVE RunningHeld'
  <2>1. Running' = Running /\ turn \notin Running /\ UNCHANGED <<ran, robbed>>
    BY <1>0, <1>4 DEF Enqueue, Goto, Running
  <2>2. registry' \in {registry, Without(turn)} /\ 0 \in Clocks
    BY <1>0, <1>4 DEF Enqueue, Clocks
  <2> QED  BY <1>2, <2>1, <2>2, SameKeeps DEF Keeps
<1>5. ASSUME NEW turn \in Turns, Start(turn) PROVE RunningHeld'
  <2>0. turn \notin Running /\ ran' = [ran EXCEPT ![turn] = 0] /\ UNCHANGED robbed /\ 0 \in Clocks
    BY <1>0, <1>5 DEF Start, Running, Clocks
  <2>1. PICK behind \in Clocks :
          \/ registry' = WithTurn(turn, behind) /\ Goto(turn, "running")
          \/ /\ registry' \in {registry, Without(turn), Pruned(behind)}
             /\ Goto(turn, "over") \/ UNCHANGED phase
    BY <1>5, <2>0 DEF Start, Leaves
  <2>2. ASSUME NEW t \in Running \ robbed PROVE Keeps(t)
    <3>1. t \in Turns /\ t # turn /\ ran'[t] = ran[t]
      BY <1>0, <2>0 DEF Running
    <3> QED  BY <1>2, <2>1, <3>1 DEF Keeps
  <2>3. CASE registry' = WithTurn(turn, behind) /\ Goto(turn, "running")
    <3>1. Running' = Running \cup {turn}
      BY <1>0, <2>3 DEF Running, Goto
    <3>2. turn \in Held' /\ registry'[turn] = TTL - behind /\ ran'[turn] = 0
      <4>1. /\ DOMAIN WithTurn(turn, behind) = Live(behind) \cup {turn}
            /\ WithTurn(turn, behind)[turn] = TTL - behind
        BY Scripts
      <4> QED  BY <1>0, <2>0, <2>3, <4>1 DEF Held
    <3>3. behind \in Int /\ behind <= Skew
      BY <1>0 DEF Clocks
    <3>4. registry'[turn] >= TTL - Skew - ran'[turn]
      BY <1>0, <3>2, <3>3
    <3>5. ASSUME NEW t \in Running \ robbed PROVE t \in Held' /\ registry'[t] >= TTL - Skew - ran'[t]
      <4>1. Keeps(t) /\ t \in Held /\ registry[t] >= TTL - Skew - ran[t] /\ t \in Turns
        BY <2>2 DEF RunningHeld, Running
      <4>2. registry[t] \in Int /\ registry'[t] \in Int /\ ran[t] \in Int
        BY <1>0, <4>1 DEF TypeOK, Keeps
      <4> QED  BY <1>0, <4>1, <4>2 DEF Keeps
    <3> QED  BY <2>0, <3>1, <3>2, <3>4, <3>5 DEF RunningHeld
  <2>4. CASE Goto(turn, "over") \/ UNCHANGED phase
    <3>1. Running' = Running
      BY <1>0, <2>0, <2>4 DEF Running, Goto
    <3> QED  BY <2>0, <2>2, <3>1, SameKeeps
  <2> QED  BY <2>1, <2>3, <2>4
<1>6. ASSUME NEW turn \in Turns, Finish(turn) \/ WorkerLost(turn) PROVE RunningHeld'
  <2>1. /\ Running' = Running \ {turn} /\ robbed' = robbed \ {turn}
        /\ UNCHANGED <<registry, ran>>
    BY <1>0, <1>6 DEF Finish, WorkerLost, Leaves, Goto, Running
  <2> SUFFICES ASSUME NEW t \in Running' \ robbed' PROVE Keeps(t)
    BY SameKeeps
  <2>2. t \in Running \ robbed
    BY <2>1
  <2>3. t \in Held /\ registry[t] \in Int
    BY <1>0, <2>2 DEF RunningHeld
  <2> QED  BY <2>1, <2>2, <2>3 DEF Keeps, Held
<1>7. ASSUME NEW turn \in Turns, Leave(turn) PROVE RunningHeld'
  <2>1. /\ Running' = Running /\ UNCHANGED ran
        /\ robbed' = robbed \cup {t \in Running : t \in Held /\ t \notin Held'}
        /\ registry' \in {registry, Without(turn)}
    BY <1>7 DEF Leave, Release, Running
  <2> SUFFICES ASSUME NEW t \in Running' \ robbed' PROVE Keeps(t)
    BY SameKeeps
  <2>2. t \in Running \ robbed /\ t \in Held /\ t \in Held' /\ registry[t] \in Int
    BY <1>0, <2>1 DEF RunningHeld
  <2>3. registry'[t] = registry[t]
    BY <2>1, <2>2 DEF Without, Held
  <2> QED  BY <2>1, <2>2, <2>3 DEF Keeps
<1>8. ASSUME NEW turn \in Turns, LeaverLost(turn) PROVE RunningHeld'
  <2>1. Running' = Running /\ UNCHANGED <<ran, robbed>>
    BY <1>8 DEF LeaverLost, Running
  <2>2. PICK behind \in Clocks :
            registry' = IF turn \in Live(behind) THEN WithTurn(turn, behind) ELSE Pruned(behind)
    BY <1>8 DEF LeaverLost
  <2>3. CASE turn \in Running \ robbed
    <3>1. registry' = WithTurn(turn, behind)
      BY <1>1, <2>2, <2>3
    <3>2. /\ DOMAIN WithTurn(turn, behind) = Live(behind) \cup {turn}
          /\ WithTurn(turn, behind)[turn] = TTL - behind
      BY Scripts
    <3>3. turn \in Held' /\ registry'[turn] = TTL - behind /\ behind \in Int /\ behind <= Skew
      BY <1>0, <3>1, <3>2 DEF Held, Clocks
    <3>4. ran[turn] \in Int /\ 0 <= ran[turn]
      BY <1>0
    <3>5. registry'[turn] >= TTL - Skew - ran'[turn]
      BY <1>0, <2>1, <3>3, <3>4
    <3>6. ASSUME NEW t \in Running \ robbed, t # turn
          PROVE  t \in Held' /\ registry'[t] >= TTL - Skew - ran'[t]
      <4>1. t \in Held' /\ registry'[t] >= registry[t]
        BY <1>2, <3>1, <3>6
      <4>2. t \in Held /\ registry[t] >= TTL - Skew - ran[t] /\ t \in Turns
        BY DEF RunningHeld, Running
      <4>3. registry[t] \in Int /\ registry'[t] \in Int /\ ran[t] \in Int
        BY <1>0, <4>1, <4>2 DEF TypeOK
      <4> QED  BY <1>0, <2>1, <4>1, <4>2, <4>3
    <3> QED  BY <2>1, <3>3, <3>5, <3>6 DEF RunningHeld
  <2>4. CASE turn \notin Running \ robbed
    <3> SUFFICES ASSUME NEW t \in Running \ robbed PROVE Keeps(t)
      BY <2>1, SameKeeps
    <3>1. registry' \in {Pruned(behind), WithTurn(turn, behind)} /\ t # turn
      BY <2>2, <2>4
    <3> QED  BY <1>2, <2>1, <3>1 DEF Keeps
  <2> QED  BY <2>3, <2>4
<1>9. CASE Outstanding
  <2>1. PICK behind \in Clocks : registry' = Pruned(behind)
    BY <1>9 DEF Outstanding
  <2>2. Running' = Running /\ UNCHANGED <<ran, robbed>>
    BY <1>9 DEF Outstanding, Running
  <2> SUFFICES ASSUME NEW t \in Running \ robbed PROVE Keeps(t)
    BY <2>2, SameKeeps
  <2>3. t \in Live(behind) /\ t \in Held /\ registry[t] \in Int
    BY <1>0, <1>1 DEF RunningHeld
  <2>4. t \in Held' /\ registry'[t] = registry[t]
    BY <2>1, <2>3 DEF Pruned, Held
  <2> QED  BY <2>2, <2>3, <2>4 DEF Keeps
<1>10. CASE Tick
  <2>1. \A t \in Running : ran[t] # TaskLimit
    BY <1>10 DEF Tick, Fault
  <2>2. Running' = Running /\ Held' = Held /\ robbed' = robbed
    BY <1>10 DEF Tick, Running, Held
  <2> SUFFICES ASSUME NEW t \in Running \ robbed
               PROVE  t \in Held' /\ registry'[t] >= TTL - Skew - ran'[t]
    BY <2>2 DEF RunningHeld
  <2>3. t \in Running /\ t \in Turns /\ t \in Held /\ registry[t] >= TTL - Skew - ran[t]
    BY DEF RunningHeld, Running
  <2>4. ran[t] \in 0..TaskLimit /\ registry[t] \in Int
    BY <2>3, TimeAssumption DEF TypeOK
  <2>5. ran'[t] = ran[t] + 1
    <3>1. ran'[t] = IF t \in Running /\ ran[t] < TaskLimit THEN ran[t] + 1 ELSE ran[t]
      BY <1>10, <2>3 DEF Tick
    <3> QED  BY <2>1, <2>3, <2>4, <3>1, TimeAssumption
  <2>6. registry'[t] >= registry[t] - 1
    BY <1>10, <2>3, <2>4, TimeAssumption DEF Tick
  <2>7. registry'[t] \in Int
    BY <1>10, <2>3, <2>4 DEF Tick
  <2> QED  BY <2>2, <2>3, <2>4, <2>5, <2>6, <2>7, TimeAssumption
<1>11. CASE UNCHANGED vars
  BY <1>11 DEF vars, RunningHeld, Running, Held
<1> QED
  BY <1>3, <1>4, <1>5, <1>6, <1>7, <1>8, <1>9, <1>10, <1>11 DEF Next

(***************************************************************************)
(* Admission control works: if a reservation outlives a task by more than  *)
(* twice the clock error (180 s against 100 s), and tasks keep their time  *)
(* limit, then never more than max_outstanding turns generate at once, not *)
(* counting a turn tried again whose place the task of the attempt before  *)
(* released late (the finally clause of generate_chat_turn_v3).            *)
(***************************************************************************)
THEOREM ActiveTheorem ==
    ASSUME TTL > TaskLimit + 2 * Skew, "slow" \notin FaultKinds
    PROVE  Spec => []ActiveWithinLimit
<1>1. Init => RunningHeld
  BY DEF Init, RunningHeld, Running
<1>2. IInv /\ IInv' /\ RunningHeld /\ [Next]_vars => RunningHeld'
  BY HeldStep DEF IInv
<1>3. IInv /\ RunningHeld => ActiveWithinLimit
  <2> SUFFICES ASSUME IInv, RunningHeld PROVE ActiveWithinLimit
    OBVIOUS
  <2>1. Running \ robbed \subseteq Held
    BY DEF RunningHeld
  <2>2. IsFiniteSet(Held)
    BY FS_Subset, TurnsAssumption DEF IInv, TypeOK
  <2>3. IsFiniteSet(Running \ robbed) /\ Cardinality(Running \ robbed) <= Cardinality(Held)
    BY <2>1, <2>2, FS_Subset
  <2>4. Cardinality(Running \ robbed) \in Nat /\ Cardinality(Held) \in Nat
    BY <2>2, <2>3, FS_CardinalityType
  <2> QED  BY <2>3, <2>4, LimitAssumption DEF IInv, WithinLimit, ActiveWithinLimit
<1> QED  BY InitIInv, NextIInv, <1>1, <1>2, <1>3, PTL DEF Spec
=============================================================================
