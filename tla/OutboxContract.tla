---------------------------- MODULE OutboxContract ----------------------------
(***************************************************************************)
(* What the notification outbox promises to a business transaction,        *)
(* without queue, sweeps, leases and workers: a side effect is owed from   *)
(* the moment its row is committed; nothing is sent that is not owed; it   *)
(* counts as delivered only after the provider took its message, and then  *)
(* for good; and every message beyond the first was preceded by a failure. *)
(***************************************************************************)
EXTENDS Naturals

CONSTANTS Events    \* the side effects

VARIABLES debt,     \* none, owed or delivered
          sends,    \* how often the provider took the message
          faults    \* failures so far

vars == <<debt, sends, faults>>

Init == /\ debt = [e \in Events |-> "none"]
        /\ sends = [e \in Events |-> 0]
        /\ faults = 0

Promise(e) == /\ debt[e] = "none"
              /\ debt' = [debt EXCEPT ![e] = "owed"]
              /\ faults' \in {faults, faults + 1}
              /\ UNCHANGED sends

(* The call may fail although the message was taken.  An attempt that was  *)
(* given up may still send when another one has delivered.                 *)
Send(e) == /\ debt[e] # "none"
           /\ sends[e] <= faults
           /\ sends' = [sends EXCEPT ![e] = @ + 1]
           /\ faults' \in {faults, faults + 1}
           /\ UNCHANGED debt

Settle(e) == /\ debt[e] = "owed" /\ sends[e] > 0
             /\ debt' = [debt EXCEPT ![e] = "delivered"]
             /\ UNCHANGED <<sends, faults>>

Fail == faults' = faults + 1 /\ UNCHANGED <<debt, sends>>

Next == \/ \E e \in Events : Promise(e) \/ Send(e) \/ Settle(e)
        \/ Fail

Spec == Init /\ [][Next]_vars

(***************************************************************************)
(* What the contract is for: delivered means sent, nothing else is sent,   *)
(* and without failures every message is sent once.                        *)
(***************************************************************************)
Honest ==
    \A e \in Events :
        /\ debt[e] = "delivered" => sends[e] > 0
        /\ debt[e] = "none" => sends[e] = 0
        /\ sends[e] <= 1 + faults
=============================================================================
