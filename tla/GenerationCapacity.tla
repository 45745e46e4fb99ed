------------------------- MODULE GenerationCapacity -------------------------
(***************************************************************************)
(* Admission control for chat generation (backend/apps/chat/capacity.py    *)
(* and its callers in v3_views.py and tasks.py).  A sorted set in Redis    *)
(* maps each outstanding turn to the time its reservation expires; every   *)
(* operation is one Lua script that first drops expired members.           *)
(*                                                                         *)
(* ChatGeneration keeps the set without its times; here are the times.     *)
(* registry[t] is the number of ticks until the score of t, counted from   *)
(* the true time.  A script gets "now" from the caller's clock, which is   *)
(* up to Skew ticks behind or ahead.                                       *)
(*                                                                         *)
(* One task at a time runs a turn: overlapping tasks are in ChatGeneration.*)
(* But a task whose turn is over still has its finally clause before it,   *)
(* which takes the turn's id out of the set.  A client that tries a failed *)
(* turn again may reserve before that, and loses the new reservation.      *)
(*                                                                         *)
(* Faults share one budget:                                                *)
(*   redis    the capacity Redis does not answer; a script it was sent may *)
(*            have run all the same                                        *)
(*   broker   the task or its first events cannot be published             *)
(*   crash    a web process or a worker dies; the task is delivered again  *)
(*   slow     a task outlives its time limit (the threads pool does not    *)
(*            enforce it)                                                  *)
(***************************************************************************)
EXTENDS Integers, FiniteSets

CONSTANTS
    Turns,          \* turn ids
    Limit,          \* max_outstanding
    TTL,            \* ttl_seconds
    TaskLimit,      \* time_limit of generate_chat_turn_v3
    Skew,           \* bound on the error of a process clock
    FaultKinds,     \* faults that may happen
    MaxFaults,      \* their budget
    MaxLeaving      \* bound: tasks of one turn that have yet to release

ASSUME TurnsAssumption == IsFiniteSet(Turns)
ASSUME LimitAssumption == Limit \in Nat \ {0}
ASSUME TimeAssumption == TTL \in Nat \ {0} /\ TaskLimit \in Nat /\ Skew \in Nat
ASSUME BudgetAssumption == MaxFaults \in Nat /\ MaxLeaving \in Nat
ASSUME KindAssumption == FaultKinds \subseteq {"redis", "broker", "crash", "slow"}

VARIABLES
    registry,   \* the sorted set: ticks until expiry, for each member
    phase,      \* where each turn is
    ran,        \* ticks since its task renewed the reservation
    leaving,    \* tasks of each turn between its end and their release
    robbed,     \* history: running turns whose place such a release took
    faults      \* faults so far

vars == <<registry, phase, ran, leaving, robbed, faults>>

Phases == {"new", "accepted", "queued", "running", "over"}

Clocks == -Skew..Skew

Held == DOMAIN registry
Running == {t \in Turns : phase[t] = "running"}

Fault(kind) ==
    /\ kind \in FaultKinds
    /\ faults < MaxFaults
    /\ faults' = faults + 1

NoFault == UNCHANGED faults

(* Mutant: expired members are never dropped. *)
LiveNeverDrops(behind) == Held

(* What ZREMRANGEBYSCORE leaves for a caller whose clock is so much behind. *)
Live(behind) == {t \in Held : registry[t] > -behind}

Pruned(behind) == [t \in Live(behind) |-> registry[t]]

(* ZADD of a turn for one TTL from the caller's now. *)
WithTurn(turn, behind) ==
    [t \in Live(behind) \cup {turn} |-> IF t = turn THEN TTL - behind ELSE registry[t]]

(* ZREM. *)
Without(turn) == [t \in Held \ {turn} |-> registry[t]]

(* Mutant: the limit is compared before the new member is counted. *)
AdmitsOneMore(turn, behind) == turn \in Live(behind) \/ Cardinality(Live(behind)) <= Limit

(* The decision of the reserve script. *)
Admits(turn, behind) == turn \in Live(behind) \/ Cardinality(Live(behind)) < Limit

Init ==
    /\ registry = [t \in {} |-> 0]
    /\ phase = [t \in Turns |-> "new"]
    /\ ran = [t \in Turns |-> 0]
    /\ leaving = [t \in Turns |-> 0]
    /\ robbed = {}
    /\ faults = 0

Goto(turn, p) == phase' = [phase EXCEPT ![turn] = p]

-----------------------------------------------------------------------------
(* accept_chat_turn_v3 reserves; a failed call is not undone. *)
Reserve(turn) ==
    /\ phase[turn] \in {"new", "over"} /\ leaving[turn] < MaxLeaving
    /\ UNCHANGED <<ran, leaving, robbed>>
    /\ \E behind \in Clocks :
        \/ /\ Admits(turn, behind)
           /\ registry' = WithTurn(turn, behind)
           /\ Goto(turn, "accepted") /\ NoFault
        \/ /\ ~Admits(turn, behind)
           /\ registry' = Pruned(behind)
           /\ Goto(turn, "over") /\ NoFault
        \/ /\ Fault("redis")
           /\ \/ UNCHANGED registry
              \/ Admits(turn, behind) /\ registry' = WithTurn(turn, behind)
           /\ Goto(turn, "over")

(* capacity.release with its errors suppressed or logged. *)
Release(turn) ==
    \/ registry' = Without(turn) /\ NoFault
    \/ Fault("redis") /\ registry' \in {registry, Without(turn)}

(* The task is enqueued; or it is not, and cleanup_failure releases before it *)
(* fails the turn; or the web process dies. *)
Enqueue(turn) ==
    /\ phase[turn] = "accepted"
    /\ UNCHANGED <<ran, leaving, robbed>>
    /\ \/ Goto(turn, "queued") /\ NoFault /\ UNCHANGED registry
       \/ Fault("broker") /\ Goto(turn, "over") /\ registry' \in {registry, Without(turn)}
       \/ Fault("crash") /\ Goto(turn, "over") /\ UNCHANGED registry

(* The turn is over, and its task goes on to its finally clause. *)
Leaves(turn) ==
    /\ Goto(turn, "over")
    /\ leaving' = [leaving EXCEPT ![turn] = @ + 1]

(* Mutant: the task runs whatever renew answers. *)
StartUnchecked(turn) ==
    /\ phase[turn] = "queued"
    /\ ran' = [ran EXCEPT ![turn] = 0]
    /\ UNCHANGED <<leaving, robbed>>
    /\ \E behind \in Clocks :
        /\ registry' = IF turn \in Live(behind) THEN WithTurn(turn, behind) ELSE Pruned(behind)
        /\ Goto(turn, "running") /\ NoFault

(* The task starts with capacity.renew.  A lost reservation fails the turn, and *)
(* so does a Redis that does not answer, where the task, once it has released,  *)
(* is also tried again.                                                         *)
Start(turn) ==
    /\ phase[turn] = "queued"
    /\ ran' = [ran EXCEPT ![turn] = 0]
    /\ UNCHANGED robbed
    /\ \/ \E behind \in Clocks :
            \/ /\ turn \in Live(behind)
               /\ registry' = WithTurn(turn, behind)
               /\ Goto(turn, "running") /\ NoFault /\ UNCHANGED leaving
            \/ /\ turn \notin Live(behind)
               /\ registry' = Pruned(behind)
               /\ Leaves(turn) /\ NoFault
       \/ /\ Fault("redis")
          /\ \/ Leaves(turn) /\ UNCHANGED registry
             \/ /\ registry' \in {registry, Without(turn)}
                /\ UNCHANGED <<phase, leaving>>

(* The turn ends: its row is terminal, or failed and may be tried again. *)
Finish(turn) ==
    /\ phase[turn] = "running"
    /\ Leaves(turn)
    /\ robbed' = robbed \ {turn}
    /\ UNCHANGED <<registry, ran, faults>>

(* The finally clause of a task releases the turn, whoever holds it by now. *)
Leave(turn) ==
    /\ leaving[turn] > 0
    /\ leaving' = [leaving EXCEPT ![turn] = @ - 1]
    /\ Release(turn)
    /\ robbed' = robbed \cup {t \in Running : t \in Held /\ t \notin Held'}
    /\ UNCHANGED <<phase, ran>>

(* A worker dies before its release.  The task is delivered again, renews a *)
(* reservation it finds, finds the turn over and has to release once more.  *)
LeaverLost(turn) ==
    /\ leaving[turn] > 0
    /\ Fault("crash")
    /\ \E behind \in Clocks :
        registry' = IF turn \in Live(behind) THEN WithTurn(turn, behind) ELSE Pruned(behind)
    /\ UNCHANGED <<phase, ran, leaving, robbed>>

(* capacity.outstanding, read for the gauge after a release. *)
Outstanding ==
    /\ \E behind \in Clocks : registry' = Pruned(behind)
    /\ UNCHANGED <<phase, ran, leaving, robbed, faults>>

(* A worker dies: late acknowledgement puts the task back into the queue. *)
WorkerLost(turn) ==
    /\ phase[turn] = "running"
    /\ Fault("crash")
    /\ Goto(turn, "queued")
    /\ robbed' = robbed \ {turn}
    /\ UNCHANGED <<registry, ran, leaving>>

(* A second passes.  Scores further in the past than any clock are alike. *)
Tick ==
    /\ IF \E t \in Running : ran[t] = TaskLimit THEN Fault("slow") ELSE NoFault
    /\ registry' = [t \in Held |-> IF registry[t] > -Skew THEN registry[t] - 1 ELSE registry[t]]
    /\ ran' = [t \in Turns |-> IF t \in Running /\ ran[t] < TaskLimit THEN ran[t] + 1 ELSE ran[t]]
    /\ UNCHANGED <<phase, leaving, robbed>>

Next ==
    \/ \E t \in Turns :
        \/ Reserve(t) \/ Enqueue(t) \/ Start(t) \/ Finish(t) \/ Leave(t)
        \/ WorkerLost(t) \/ LeaverLost(t)
    \/ Outstanding
    \/ Tick

Spec == Init /\ [][Next]_vars

(* Web processes and workers go on, and time passes. *)
Fairness ==
    /\ \A t \in Turns : WF_vars(Enqueue(t)) /\ WF_vars(Start(t)) /\ WF_vars(Finish(t)) /\ WF_vars(Leave(t))
    /\ WF_vars(Tick)

FairSpec == Spec /\ Fairness

-----------------------------------------------------------------------------
(* Every variable has its type. *)
TypeOK ==
    /\ Held \subseteq Turns
    /\ \A t \in Held : registry[t] \in -Skew..(TTL + Skew)
    /\ phase \in [Turns -> Phases]
    /\ ran \in [Turns -> 0..TaskLimit]
    /\ leaving \in [Turns -> 0..MaxLeaving]
    /\ robbed \subseteq Running
    /\ faults \in 0..MaxFaults

(***************************************************************************)
(* The set never has more members than the limit, expired ones included.   *)
(***************************************************************************)
WithinLimit == Cardinality(Held) <= Limit

(***************************************************************************)
(* The purpose of the set: while tasks keep their time limit, at most      *)
(* max_outstanding turns generate at the same time, through crashes, lost  *)
(* calls and clocks that are off by Skew.  Only a turn that is tried again *)
(* while the task before it has yet to release may run beyond the limit:   *)
(* that release takes its place without stopping it.                       *)
(***************************************************************************)
ActiveWithinLimit == Cardinality(Running \ robbed) <= Limit

(***************************************************************************)
(* No reservation is counted for ever, released or leaked, renewed by      *)
(* redelivered tasks or reserved again: each place comes back.             *)
(***************************************************************************)
PlacesComeBack == \A t \in Turns : t \in Live(0) ~> t \notin Live(0)
=============================================================================
