-------------------------- MODULE OwnershipContract --------------------------
(***************************************************************************)
(* What the ownership of a workspace promises to everybody else: there is  *)
(* one owner, at most one standing nomination, and the owner changes only  *)
(* when the nominee accepts or when an administrator overrides, each time  *)
(* under a new ownership version and with no nomination left standing.     *)
(***************************************************************************)
EXTENDS Naturals

CONSTANTS Users,      \* the accounts
          NoUser      \* no nomination stands; not an account

VARIABLES owner,      \* the canonical owner
          version,    \* the ownership version
          nominee     \* the successor the owner has nominated, or NoUser

vars == <<owner, version, nominee>>

Init == /\ owner \in Users
        /\ version = 0
        /\ nominee = NoUser

(* The owner nominates somebody else; nobody may stand already. *)
Nominate(u) == /\ nominee = NoUser
               /\ u # owner
               /\ nominee' = u
               /\ UNCHANGED <<owner, version>>

(* The nomination ends without a change: declined, cancelled, expired ... *)
Drop == /\ nominee # NoUser
        /\ nominee' = NoUser
        /\ UNCHANGED <<owner, version>>

(* The nominee takes over. *)
TakeOver == /\ nominee # NoUser
            /\ owner' = nominee
            /\ version' = version + 1
            /\ nominee' = NoUser

(* An administrator hands the workspace to somebody else. *)
Override(u) == /\ u # owner
               /\ owner' = u
               /\ version' = version + 1
               /\ nominee' = NoUser

Next == \/ \E u \in Users : Nominate(u) \/ Override(u)
        \/ Drop
        \/ TakeOver

Spec == Init /\ [][Next]_vars

(***************************************************************************)
(* What the contract is for: the version names the tenure.  It rises by    *)
(* one exactly when the owner changes, a new tenure starts without a       *)
(* nomination, and the nominee is never the owner himself.                 *)
(***************************************************************************)
NomineeIsOther == nominee # owner

TenureStep ==
    /\ owner' # owner => version' = version + 1 /\ nominee' = NoUser
    /\ owner' = owner => version' = version

VersionNamesTenure == [][TenureStep]_vars
=============================================================================
