------------------------- MODULE MCDocumentLifecycle -------------------------
(* Model checking of the document lifecycle: every history whose operations  *)
(* and faults cost at most MaxEffort: a fault costs one, a version, a step of a  *)
(* review or a reindex two, other ingestion, maintenance and an edit three.  *)
EXTENDS DocumentLifecycle

CONSTANTS c1, c2, c3, MaxEffort

VARIABLE effort

(* Two calls with one key: the second is the retry of the client. *)
MCKeyOf == [c \in Calls |-> IF c \in {c1, c2} THEN "key" ELSE "other"]

MCInit == Init /\ effort = 0

Spend(cost) == effort + cost <= MaxEffort /\ effort' = effort + cost

(* By symmetry the retry is the second of the two. *)
RetryIsSecond == c2 \in Calls /\ stage'[c2] # "idle" => stage[c1] # "idle"

Reindexing == \E h \in Threads, d \in Docs : Reindex(h, d)

MCNext == \/ Spend(1) /\ (CallFault \/ ProcessFault)
          \/ Spend(2) /\ ((BeginVersion /\ RetryIsSecond) \/ BeginReview \/ Reindexing)
          \/ Spend(3) /\ (BeginIngestion \/ BeginMaintenance)
          \/ Step /\ UNCHANGED effort

MCSpec == MCInit /\ [][MCNext]_<<vars, effort>> /\ Fairness
=============================================================================
