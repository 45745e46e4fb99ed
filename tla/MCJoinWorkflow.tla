--------------------------- MODULE MCJoinWorkflow ---------------------------
(* Model checking of the join workflow: every history whose steps cost at    *)
(* most MaxEffort.  A step of member management costs ManageCost, because it *)
(* has many variants; every other step costs one.                            *)
EXTENDS JoinWorkflow, TLC

CONSTANTS MaxEffort, ManageCost

VARIABLE effort

MCInit == Init /\ effort = 0

Spend(cost) == effort + cost <= MaxEffort /\ effort' = effort + cost

MCNext == \/ Spend(1) /\ (JoinNext \/ ReviewNext)
          \/ Spend(1) /\ (OwnershipNext \/ LifecycleNext) /\ UNCHANGED joinVars
          \/ Spend(ManageCost) /\ (ManageNext \/ InviteCodeNext) /\ UNCHANGED joinVars

MCSpec == MCInit /\ [][MCNext]_<<vars, effort>>

RowSymmetry == Permutations(Requests)
=============================================================================
