-------------------------- MODULE DeletionContract --------------------------
(***************************************************************************)
(* What the permanent deletion of a workspace promises to its owner,       *)
(* without dispatchers, leases, stores and checkpoints.  The owner is      *)
(* shown the workspace, asks for the deletion of what was shown, and       *)
(* confirms it while it is still the same.  Until the purge starts the     *)
(* owner may cancel.  It starts only when both retention periods are over  *)
(* and nothing has changed; from then on it can fail and start again but   *)
(* cannot be called off; and it completes only on the very workspace that  *)
(* was confirmed.  A platform administrator may give every command the     *)
(* owner may; the contract does not tell them apart.  The stages are the   *)
(* statuses of a deletion request in backend/apps/spaces/governed_models.py. *)
(***************************************************************************)
EXTENDS Naturals

CONSTANTS ArchiveTicks,   \* retention counted from the archiving
          ConfirmTicks,   \* retention counted from the confirmation
          NoPicture       \* no workspace was shown or asked for

VARIABLES stage,      \* of the newest deletion request
          archived,   \* the workspace is archived
          present,    \* the workspace as it is: who owns it, what it contains
          seen,       \* the workspace as the owner was last shown it
          agreed,     \* the workspace as the request describes it
          age,        \* ticks since the archiving and the confirmation
          gone        \* how much of it is destroyed

vars == <<stage, archived, present, seen, agreed, age, gone>>

(* No request is under way, and none was carried out. *)
Quiet == stage \in {"none", "cancelled", "invalidated"}

Served == age.archived >= ArchiveTicks /\ age.confirmed >= ConfirmTicks

Init == /\ stage = "none"
        /\ archived = FALSE
        /\ present # NoPicture
        /\ seen = NoPicture
        /\ agreed = NoPicture
        /\ age = [archived |-> 0, confirmed |-> 0]
        /\ gone = "nothing"

Archive == /\ Quiet /\ ~archived
           /\ archived' = TRUE
           /\ age' = [age EXCEPT !.archived = 0]
           /\ UNCHANGED <<stage, present, seen, agreed, gone>>

Restore == /\ Quiet /\ archived /\ gone = "nothing"
           /\ archived' = FALSE
           /\ UNCHANGED <<stage, present, seen, agreed, age, gone>>

Look == /\ gone # "everything"
        /\ seen' = present
        /\ UNCHANGED <<stage, archived, present, agreed, age, gone>>

Ask == /\ Quiet /\ archived /\ seen = present
       /\ stage' = "pending"
       /\ agreed' = seen
       /\ UNCHANGED <<archived, present, seen, age, gone>>

Confirm == /\ stage = "pending" /\ agreed = present
           /\ stage' = "scheduled"
           /\ age' = [age EXCEPT !.confirmed = 0]
           /\ UNCHANGED <<archived, present, seen, agreed, gone>>

Cancel == /\ stage \in {"pending", "scheduled"}
          /\ stage' = "cancelled"
          /\ UNCHANGED <<archived, present, seen, agreed, age, gone>>

(* When its time has come a request may turn out not to fit any more. *)
Invalidate == /\ stage = "scheduled" /\ Served
              /\ stage' = "invalidated"
              /\ UNCHANGED <<archived, present, seen, agreed, age, gone>>

Start == /\ stage \in {"scheduled", "failed"}
         /\ Served /\ archived /\ agreed = present
         /\ stage' = "executing"
         /\ UNCHANGED <<archived, present, seen, agreed, age, gone>>

Destroy == /\ stage = "executing"
           /\ gone' = "some"
           /\ UNCHANGED <<stage, archived, present, seen, agreed, age>>

Fail == /\ stage = "executing"
        /\ stage' = "failed"
        /\ UNCHANGED <<archived, present, seen, agreed, age, gone>>

Complete == /\ stage = "executing" /\ agreed = present
            /\ stage' = "completed"
            /\ gone' = "everything"
            /\ UNCHANGED <<archived, present, seen, agreed, age>>

(* Somebody changes the workspace; also while it is being destroyed. *)
Change == /\ gone # "everything"
          /\ UNCHANGED <<stage, archived, seen, agreed, age, gone>>

(* A tick; an age that has reached its period is not counted further. *)
Time == /\ \E a \in {age.archived, age.archived + 1}, c \in {age.confirmed, age.confirmed + 1} :
              age' = [archived |-> a, confirmed |-> c]
        /\ UNCHANGED <<stage, archived, present, seen, agreed, gone>>

Next == \/ Archive \/ Restore \/ Look \/ Ask \/ Confirm \/ Cancel
        \/ Invalidate \/ Start \/ Destroy \/ Fail \/ Complete
        \/ Change \/ Time

Spec == Init /\ [][Next]_vars

(***************************************************************************)
(* What the contract is for: whatever is destroyed was agreed, after both  *)
(* periods, on an archived workspace; and what is gone for good is exactly *)
(* what the owner agreed to.                                               *)
(***************************************************************************)
Consent ==
    /\ gone # "nothing" => archived /\ Served /\ stage \in {"executing", "failed", "completed"}
    /\ gone = "everything" => agreed = present
=============================================================================
