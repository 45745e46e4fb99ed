-------------------------- MODULE WorkspaceMembers --------------------------
(***************************************************************************)
(* One workspace: its owner, its membership rows, the nomination of a      *)
(* successor, and every door through which they change.  The services of   *)
(* ownership_services and member_services lock the workspace row first, so *)
(* a call is one step; a call with a stale version, like every other call  *)
(* that is refused, changes nothing and is no step.  A view's capability   *)
(* check runs before the transaction and may be stale when the service     *)
(* runs: it is no guard here.                                              *)
(***************************************************************************)
EXTENDS Naturals

CONSTANTS Users,        \* the accounts
          NoUser,       \* nobody
          Admins,       \* the accounts that govern the workspace's scope
          Founders,     \* the accounts that may have created the workspace
          Colleagues,   \* the accounts with an active row elsewhere in the organization
          Doors,        \* the older doors that are open: subset of {"assign", "invite_code"}
          MaxTenures    \* bound on the ownership version

ASSUME MembersAssumption == /\ NoUser \notin Users
                            /\ Admins \subseteq Users
                            /\ Founders \subseteq Users
                            /\ Colleagues \subseteq Users
                            /\ MaxTenures \in Nat

VARIABLES space,        \* the workspace row: status, owner, ownership version
          member,       \* each account's membership row, or NoRow
          account,      \* which accounts are active
          transfer      \* the latest voluntary ownership transfer

memberVars == <<space, member, account, transfer>>

Roles == {"owner", "space_admin", "member", "guest"}

MutableRoles == Roles \ {"owner"}

(* A membership row; term is what expires_at says: never, later, passed. *)
Row == [role : Roles, status : {"active", "revoked"},
        term : {"none", "timed", "over"}, invited : BOOLEAN]

NoRow == [role |-> "none", status |-> "none", term |-> "none", invited |-> FALSE]

SpaceRow == [status : {"active", "archived"}, owner : Users, version : Nat]

TransferRow == [status : {"none", "pending", "completed", "declined",
                          "cancelled", "expired", "invalidated"},
                from : Users \cup {NoUser}, to : Users \cup {NoUser},
                version : Nat, late : BOOLEAN]

NoTransfer == [status |-> "none", from |-> NoUser, to |-> NoUser,
               version |-> 0, late |-> FALSE]

OwnerRow == [role |-> "owner", status |-> "active", term |-> "none", invited |-> FALSE]

Fresh(role, invited) == [role |-> role, status |-> "active", term |-> "none",
                         invited |-> invited]

IsEffective(row) == row.status = "active" /\ row.term # "over"

(* The check constraints of the table: what the database lets an owner row be. *)
MayOwn(row) == row.status = "active" /\ row.term = "none" /\ ~row.invited

(* The role under which u manages members: active and without an expiry date. *)
ActsAs(u, role) == /\ account[u]
                   /\ member[u].role = role
                   /\ member[u].status = "active"
                   /\ member[u].term = "none"

GovernsScope(u) == u \in Admins /\ account[u]

MayManageSpace(u) == /\ account[u]
                     /\ \/ u \in Admins
                        \/ member[u].role = "owner" /\ member[u].status = "active"

TypeOK == /\ space \in SpaceRow
          /\ member \in [Users -> Row \cup {NoRow}]
          /\ account \in [Users -> BOOLEAN]
          /\ transfer \in TransferRow

MembersInit == /\ \E u \in Founders :
                     /\ space = [status |-> "active", owner |-> u, version |-> 0]
                     /\ member = [v \in Users |-> IF v = u THEN OwnerRow ELSE NoRow]
               /\ account = [u \in Users |-> TRUE]
               /\ transfer = NoTransfer

-----------------------------------------------------------------------------
(* Ownership transfer *)

(* Mutant: two transfers may be pending. *)
NobodyStandsUnchecked == TRUE

(* The unique constraint on the pending transfers of a workspace. *)
NobodyStands == transfer.status # "pending"

(* The owner nominates an effective member above guest, or a colleague who *)
(* has no row here; one transfer may be pending.                           *)
RequestTransfer(u, to) ==
  /\ space.owner = u /\ account[u]
  /\ to # u /\ account[to]
  /\ IF member[to] = NoRow THEN to \in Colleagues
     ELSE member[to].role # "guest" /\ IsEffective(member[to])
  /\ NobodyStands
  /\ transfer' = [status |-> "pending", from |-> u, to |-> to,
                  version |-> space.version, late |-> FALSE]
  /\ UNCHANGED <<space, member, account>>

(* What makes the nomination void at acceptance. *)
NominationVoid(u) ==
  \/ member[transfer.from] = NoRow
  \/ space.owner # transfer.from
  \/ space.version # transfer.version
  \/ member[u] # NoRow /\ (member[u].role = "guest" \/ ~IsEffective(member[u]))

(* Mutant: acceptance forgets to demote the previous owner. *)
HandOverKeepsOwner(from, to) ==
  [member EXCEPT ![to] = IF @ = NoRow THEN OwnerRow ELSE [@ EXCEPT !.role = "owner"]]

(* The rows after the workspace passes from one account to another. *)
HandOver(from, to) ==
  [member EXCEPT ![from].role = "member",
                 ![to] = IF @ = NoRow THEN OwnerRow ELSE [@ EXCEPT !.role = "owner"]]

(* The nominee accepts; a row the table's constraints refuse aborts the call. *)
AcceptTransfer(u) ==
  /\ transfer.status = "pending" /\ transfer.to = u /\ account[u]
  /\ IF transfer.late THEN
        /\ transfer' = [transfer EXCEPT !.status = "expired"]
        /\ UNCHANGED <<space, member>>
     ELSE IF NominationVoid(u) THEN
        /\ transfer' = [transfer EXCEPT !.status = "invalidated"]
        /\ UNCHANGED <<space, member>>
     ELSE
        /\ space.version < MaxTenures
        /\ member[u] = NoRow \/ MayOwn(member[u])
        /\ member' = HandOver(transfer.from, u)
        /\ space' = [space EXCEPT !.owner = u, !.version = @ + 1]
        /\ transfer' = [transfer EXCEPT !.status = "completed"]
  /\ UNCHANGED account

DeclineTransfer(u) ==
  /\ transfer.status = "pending" /\ transfer.to = u /\ account[u]
  /\ transfer' = [transfer EXCEPT !.status = "declined"]
  /\ UNCHANGED <<space, member, account>>

CancelTransfer(u) ==
  /\ transfer.status = "pending" /\ transfer.from = u /\ account[u]
  /\ transfer' = [transfer EXCEPT !.status = "cancelled"]
  /\ UNCHANGED <<space, member, account>>

(* 72 hours pass. *)
NominationLapses ==
  /\ transfer.status = "pending" /\ ~transfer.late
  /\ transfer' = [transfer EXCEPT !.late = TRUE]
  /\ UNCHANGED <<space, member, account>>

(* Mutant: a forced transfer leaves the nomination standing. *)
VoidedNot == transfer

Voided == IF transfer.status = "pending"
            THEN [transfer EXCEPT !.status = "invalidated"]
            ELSE transfer

(* An administrator of the scope may force the workspace on an account that  *)
(* is active somewhere in the organization and that the table lets own.      *)
MayForce(u, to) ==
  /\ GovernsScope(u) /\ account[to] /\ u # to /\ to # space.owner
  /\ to \in Colleagues \/ member[to].status = "active"
  /\ member[to] = NoRow \/ MayOwn([member[to] EXCEPT !.status = "active"])
  /\ space.version < MaxTenures

Forced(to) ==
  LET reactivated == [member EXCEPT ![to] = IF @ = NoRow THEN OwnerRow
                                            ELSE [@ EXCEPT !.role = "owner",
                                                           !.status = "active"]]
  IN  [reactivated EXCEPT ![space.owner].role = "member"]

ForceTransfer(u, to) ==
  /\ MayForce(u, to)
  /\ member' = Forced(to)
  /\ space' = [space EXCEPT !.owner = to, !.version = @ + 1]
  /\ transfer' = Voided
  /\ UNCHANGED account

-----------------------------------------------------------------------------
(* Members *)

(* A manager may touch a row: never the owner's, and a space admin neither *)
(* touches nor makes another space admin.                                  *)
MayEdit(u, target) ==
  /\ ActsAs(u, "owner") \/ ActsAs(u, "space_admin")
  /\ member[target] # NoRow
  /\ target # space.owner /\ member[target].role # "owner"
  /\ ActsAs(u, "space_admin") => member[target].role # "space_admin"

(* A row that stops being in force, here or by removal, has its chat fenced  *)
(* in the same transaction: active turns cancelled, session leases deleted.  *)
(* That is ChatGeneration's RemoveMember; without Redis the call is refused. *)
UpdateMember(u, target, role, status, term) ==
  LET next == [member[target] EXCEPT !.role = role, !.status = status, !.term = term]
  IN  /\ MayEdit(u, target)
      /\ account[target]
      /\ ActsAs(u, "space_admin") => role # "space_admin"
      /\ space.status # "active" => role = member[target].role /\ ~IsEffective(next)
      /\ member' = [member EXCEPT ![target] = next]
      /\ UNCHANGED <<space, account, transfer>>

(* Removal also withdraws the nomination of the removed member. *)
RemoveMember(u, target) ==
  /\ MayEdit(u, target)
  /\ member' = [member EXCEPT ![target].status = "revoked"]
  /\ transfer' = IF transfer.to = target THEN Voided ELSE transfer
  /\ UNCHANGED <<space, account>>

TermEnds(u) == /\ member[u].term = "timed"
               /\ member' = [member EXCEPT ![u].term = "over"]
               /\ UNCHANGED <<space, account, transfer>>

(* A platform administrator retires an account: its workspace goes to the  *)
(* successor by force, its row is revoked, the account is closed.          *)
Offboard(u, subject, successor) ==
  /\ GovernsScope(u)
  /\ IF space.owner = subject
       THEN /\ MayForce(u, successor)
            /\ member' = [Forced(successor) EXCEPT ![subject].status = "revoked"]
            /\ space' = [space EXCEPT !.owner = successor, !.version = @ + 1]
            /\ transfer' = Voided
       ELSE /\ member' = IF member[subject].status = "active"
                           THEN [member EXCEPT ![subject].status = "revoked"]
                           ELSE member
            /\ UNCHANGED <<space, transfer>>
  /\ account' = [account EXCEPT ![subject] = FALSE]

Reactivate(u) == /\ ~account[u]
                 /\ account' = [account EXCEPT ![u] = TRUE]
                 /\ UNCHANGED <<space, member, transfer>>

ArchiveWorkspace == /\ space.status = "active"
                    /\ space' = [space EXCEPT !.status = "archived"]
                    /\ UNCHANGED <<member, account, transfer>>

RestoreWorkspace == /\ space.status = "archived"
                    /\ space' = [space EXCEPT !.status = "active"]
                    /\ UNCHANGED <<member, account, transfer>>

-----------------------------------------------------------------------------
(* The older doors.  They do not lock the workspace, and the deferred owner *)
(* trigger rolls back the call that would demote or delete the owner's row. *)

(* update_or_create of the assignment screen: expires_at is left as it was. *)
AssignRole(u, target, role) ==
  /\ "assign" \in Doors
  /\ MayManageSpace(u)
  /\ target # space.owner
  /\ member' = [member EXCEPT ![target] =
                  IF @ = NoRow THEN Fresh(role, TRUE)
                  ELSE [@ EXCEPT !.role = role, !.status = "active", !.invited = TRUE]]
  /\ UNCHANGED <<space, account, transfer>>

UnassignRole(u, target) ==
  /\ "assign" \in Doors
  /\ MayManageSpace(u)
  /\ target # space.owner /\ member[target] # NoRow
  /\ member' = [member EXCEPT ![target] = NoRow]
  /\ UNCHANGED <<space, account, transfer>>

(* An invite code of the first generation: it makes a row with the code's  *)
(* role, and reactivates a revoked row with the role the row still has.    *)
JoinWithInviteCode(u, role) ==
  /\ "invite_code" \in Doors
  /\ account[u]
  /\ member' = [member EXCEPT ![u] =
                  IF @ = NoRow THEN Fresh(role, TRUE) ELSE [@ EXCEPT !.status = "active"]]
  /\ UNCHANGED <<space, account, transfer>>

-----------------------------------------------------------------------------
OwnershipNext ==
  \/ \E u, to \in Users : RequestTransfer(u, to) \/ ForceTransfer(u, to)
  \/ \E u \in Users : AcceptTransfer(u) \/ DeclineTransfer(u) \/ CancelTransfer(u)

ManageNext ==
  \E u, target \in Users :
    \/ \E role \in MutableRoles, status \in {"active", "revoked"},
          term \in {"none", "timed", "over"} : UpdateMember(u, target, role, status, term)
    \/ RemoveMember(u, target)
    \/ \E successor \in Users : Offboard(u, target, successor)
    \/ \E role \in MutableRoles : AssignRole(u, target, role)
    \/ UnassignRole(u, target)

LifecycleNext == \/ \E u \in Users : TermEnds(u) \/ Reactivate(u)
                 \/ NominationLapses
                 \/ ArchiveWorkspace
                 \/ RestoreWorkspace

InviteCodeNext == \E u \in Users, role \in {"member", "guest"} : JoinWithInviteCode(u, role)

MembersNext == OwnershipNext \/ ManageNext \/ LifecycleNext \/ InviteCodeNext

MembersSpec == MembersInit /\ [][MembersNext]_memberVars

-----------------------------------------------------------------------------
(* The owner of the workspace holds the only owner row, and that row and   *)
(* the account behind it are in force: the services keep the canonical     *)
(* owner and its mirror together without the database's trigger.           *)
OwnerMirror == /\ member[space.owner] = OwnerRow
               /\ \A u \in Users : member[u].role = "owner" => u = space.owner
               /\ account[space.owner]

(* A pending transfer was requested by the present owner, in the present   *)
(* tenure, for somebody else: no nomination outlives the nominator.        *)
PendingIsCurrent ==
  transfer.status = "pending" =>
    /\ transfer.from = space.owner
    /\ transfer.version = space.version
    /\ transfer.to \in Users \ {space.owner}

(* The workspace is an ownership register for everybody else. *)
Ownership == INSTANCE OwnershipContract
               WITH owner <- space.owner, version <- space.version,
                    nominee <- IF transfer.status = "pending" THEN transfer.to ELSE NoUser

ImplementsOwnership == Ownership!Spec
=============================================================================
