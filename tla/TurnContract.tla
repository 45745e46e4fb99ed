---------------------------- MODULE TurnContract ----------------------------
(***************************************************************************)
(* What the durable turn promises to its client, without queue, workers or *)
(* Redis: a turn is begun, runs, and ends failed, cancelled or completed;  *)
(* only a failed turn runs again, and only as a new attempt the client     *)
(* asked for; a completed one has exactly one answer and, like one the     *)
(* client cancelled, never changes.  Turns that are cancelled because      *)
(* their owner lost the membership (revoked) are no such end: the task     *)
(* that still runs one writes over it.  The transitions are those of the   *)
(* lifecycle table of backend/apps/chat/services.py with its five active   *)
(* statuses folded into one, and those of spaces/member_services.py.       *)
(***************************************************************************)
EXTENDS Naturals

CONSTANTS Turns

VARIABLES
    phase,      \* absent, active, failed, cancelled, revoked or completed
    attempt,    \* attempts the client asked for
    answers     \* assistant messages stored for the turn

vars == <<phase, attempt, answers>>

Init ==
    /\ phase = [t \in Turns |-> "absent"]
    /\ attempt = [t \in Turns |-> 0]
    /\ answers = [t \in Turns |-> 0]

Move(t, from, to) ==
    /\ phase[t] \in from
    /\ phase' = [phase EXCEPT ![t] = to]

Begin(t) ==
    /\ Move(t, {"absent", "failed"}, "active")
    /\ attempt' = [attempt EXCEPT ![t] = @ + 1]
    /\ UNCHANGED answers

Fail(t) == Move(t, {"active"}, "failed") /\ UNCHANGED <<attempt, answers>>

Cancel(t) == Move(t, {"active"}, "cancelled") /\ UNCHANGED <<attempt, answers>>

Complete(t) ==
    /\ answers[t] = 0
    /\ Move(t, {"active"}, "completed")
    /\ answers' = [answers EXCEPT ![t] = 1]
    /\ UNCHANGED attempt

(* The membership ends: every active turn of the session is revoked ... *)
Revoke ==
    /\ phase' = [t \in Turns |-> IF phase[t] = "active" THEN "revoked" ELSE phase[t]]
    /\ UNCHANGED <<attempt, answers>>

(* ... until the task that runs it saves its own idea of the turn. *)
Overrule(t) ==
    /\ \E to \in {"active", "failed", "cancelled"} : Move(t, {"revoked"}, to)
    /\ UNCHANGED <<attempt, answers>>

Next ==
    \/ \E t \in Turns : Begin(t) \/ Fail(t) \/ Cancel(t) \/ Complete(t) \/ Overrule(t)
    \/ Revoke

Spec == Init /\ [][Next]_vars

-----------------------------------------------------------------------------
(***************************************************************************)
(* What a client may conclude: there is an answer exactly when the turn is *)
(* completed, and the turn it saw completed or cancelled stays as it was.  *)
(***************************************************************************)
AnsweredIffCompleted ==
    \A t \in Turns : answers[t] = IF phase[t] = "completed" THEN 1 ELSE 0

FinishedStays ==
    \A t \in Turns :
        phase[t] \in {"completed", "cancelled"} =>
            phase'[t] = phase[t] /\ attempt'[t] = attempt[t] /\ answers'[t] = answers[t]

FinishedForGood == [][FinishedStays]_vars
=============================================================================
