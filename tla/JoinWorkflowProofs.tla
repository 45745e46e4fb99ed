------------------------- MODULE JoinWorkflowProofs -------------------------
(***************************************************************************)
(* TLAPS proofs about WorkspaceMembers and JoinWorkflow, for any accounts, *)
(* administrators, colleagues, open doors, codes, requests and limits: the *)
(* workspace keeps one owner through every door, a nomination never        *)
(* outlives the nominator, ownership is the register of OwnershipContract, *)
(* whose version names the tenure, a code admits no more than it was       *)
(* issued for, and only an opened review screen overrules a verdict.       *)
(***************************************************************************)
EXTENDS JoinWorkflow, FiniteSetTheorems, TLAPS

MInv == TypeOK /\ OwnerMirror /\ PendingIsCurrent

-----------------------------------------------------------------------------
(* Rows *)

LEMMA RowsTyped ==
  /\ OwnerRow \in Row /\ NoRow \notin Row /\ NoRow.role # "owner"
  /\ OwnerRow.role = "owner" /\ OwnerRow.status = "active"
  /\ \A role \in Roles, invited \in BOOLEAN : Fresh(role, invited) \in Row
BY DEF Row, OwnerRow, NoRow, Fresh, Roles

LEMMA RowChanges ==
  ASSUME NEW row \in Row
  PROVE  /\ \A role \in Roles : [row EXCEPT !.role = role] \in Row
         /\ \A status \in {"active", "revoked"} : [row EXCEPT !.status = status] \in Row
         /\ \A term \in {"none", "timed", "over"} : [row EXCEPT !.term = term] \in Row
         /\ [row EXCEPT !.invited = TRUE] \in Row
BY DEF Row, Roles

(* Every row has the four columns. *)
LEMMA RowFields ==
  ASSUME TypeOK, NEW u \in Users
  PROVE  /\ member[u] \in Row \/ member[u] = NoRow
         /\ member[u].role \in Roles \cup {"none"}
         /\ member[u].status \in {"active", "revoked", "none"}
         /\ member[u] # NoRow => member[u] \in Row
BY DEF TypeOK, Row, NoRow, Roles

(* A row the table lets own becomes the owner's row. *)
LEMMA OwnRow ==
  ASSUME NEW row \in Row, MayOwn(row)
  PROVE  [row EXCEPT !.role = "owner"] = OwnerRow
<1>1. row = [role |-> row.role, status |-> row.status, term |-> row.term,
             invited |-> row.invited]
  BY DEF Row
<1>2. row.status = "active" /\ row.term = "none"
  BY DEF MayOwn
<1>3. row.invited = FALSE
  <2>1. row.invited \in BOOLEAN
    BY DEF Row
  <2> QED
    BY <2>1 DEF MayOwn
<1>4. [row EXCEPT !.role = "owner"] =
        [role |-> "owner", status |-> row.status, term |-> row.term,
         invited |-> row.invited]
  BY <1>1
<1> QED
  BY <1>2, <1>3, <1>4 DEF OwnerRow

LEMMA ForcedRow ==
  ASSUME NEW row \in Row, MayOwn([row EXCEPT !.status = "active"])
  PROVE  [row EXCEPT !.role = "owner", !.status = "active"] = OwnerRow
<1> DEFINE active == [row EXCEPT !.status = "active"]
<1>1. active \in Row
  BY DEF Row
<1>2. [active EXCEPT !.role = "owner"] = OwnerRow
  BY <1>1, OwnRow
<1>3. [row EXCEPT !.role = "owner", !.status = "active"] = [active EXCEPT !.role = "owner"]
  BY DEF Row
<1> QED
  BY <1>2, <1>3

(* Who may act, and on whom, is never the owner's row. *)
LEMMA OthersRows ==
  ASSUME MInv, NEW u \in Users, u # space.owner
  PROVE  member[u].role # "owner"
BY DEF MInv, OwnerMirror

LEMMA OwnerKnown ==
  ASSUME MInv
  PROVE  /\ space.owner \in Users /\ space.version \in Nat
         /\ member[space.owner] = OwnerRow
         /\ space = [status |-> space.status, owner |-> space.owner,
                     version |-> space.version]
BY DEF MInv, TypeOK, OwnerMirror, SpaceRow

-----------------------------------------------------------------------------
LEMMA MembersInitOK == MembersInit /\ MembersAssumption => MInv
<1> SUFFICES ASSUME MembersInit, MembersAssumption PROVE MInv
  OBVIOUS
<1>1. PICK u \in Founders :
        /\ space = [status |-> "active", owner |-> u, version |-> 0]
        /\ member = [v \in Users |-> IF v = u THEN OwnerRow ELSE NoRow]
  BY DEF MembersInit
<1>2. u \in Users
  BY DEF MembersAssumption
<1>3. TypeOK
  <2>1. space \in SpaceRow
    BY <1>1, <1>2 DEF SpaceRow
  <2>2. member \in [Users -> Row \cup {NoRow}]
    BY <1>1, RowsTyped
  <2>3. account \in [Users -> BOOLEAN] /\ transfer \in TransferRow
    BY DEF MembersInit, NoTransfer, TransferRow
  <2> QED
    BY <2>1, <2>2, <2>3 DEF TypeOK
<1>4. OwnerMirror
  BY <1>1, <1>2 DEF OwnerMirror, OwnerRow, NoRow, MembersInit
<1>5. PendingIsCurrent
  BY DEF PendingIsCurrent, MembersInit, NoTransfer
<1> QED
  BY <1>3, <1>4, <1>5 DEF MInv

(* A change of rows that leaves the owner's row alone, and makes no owner. *)
LEMMA RowChangeKeeps ==
  ASSUME MInv, NEW target \in Users, target # space.owner,
         NEW row \in Row \cup {NoRow}, row.role # "owner",
         member' = [member EXCEPT ![target] = row],
         UNCHANGED <<space, account>>
  PROVE  /\ member' \in [Users -> Row \cup {NoRow}]
         /\ OwnerMirror'
<1>1. member' \in [Users -> Row \cup {NoRow}]
  BY DEF MInv, TypeOK
<1>2. member'[space.owner] = OwnerRow
  BY OwnerKnown DEF MInv, TypeOK
<1>3. \A u \in Users : member'[u].role = "owner" => u = space.owner
  BY OthersRows DEF MInv, TypeOK
<1>4. account[space.owner]
  BY DEF MInv, OwnerMirror
<1> QED
  BY <1>1, <1>2, <1>3, <1>4 DEF OwnerMirror

(* The nomination is void or as it was, and the owner the same. *)
LEMMA VoidedTyped ==
  ASSUME MInv
  PROVE  /\ Voided \in TransferRow
         /\ Voided.status # "pending"
BY DEF MInv, TypeOK, Voided, TransferRow

LEMMA NominationKept ==
  ASSUME MInv, UNCHANGED space,
         transfer' = transfer \/ transfer' = Voided
  PROVE  transfer' \in TransferRow /\ PendingIsCurrent'
BY VoidedTyped DEF MInv, TypeOK, PendingIsCurrent

(* Ownership passes to an account whose row becomes the owner's. *)
LEMMA Passed ==
  ASSUME MInv, NEW to \in Users, to # space.owner,
         member' \in [Users -> Row \cup {NoRow}],
         member'[to] = OwnerRow,
         member'[space.owner].role # "owner",
         \A u \in Users \ {to, space.owner} : member'[u] = member[u],
         space' = [space EXCEPT !.owner = to, !.version = @ + 1],
         account' \in [Users -> BOOLEAN], account'[to],
         transfer' \in TransferRow, transfer'.status # "pending"
  PROVE  MInv'
<1>1. space' \in SpaceRow /\ space'.owner = to
  <2>1. space' = [status |-> space.status, owner |-> to, version |-> space.version + 1]
    BY OwnerKnown
  <2> QED
    BY <2>1, OwnerKnown DEF MInv, TypeOK, SpaceRow
<1>2. TypeOK'
  BY <1>1 DEF TypeOK
<1>3. OwnerMirror'
  BY <1>1, OthersRows DEF OwnerMirror
<1>4. PendingIsCurrent'
  BY DEF PendingIsCurrent
<1> QED
  BY <1>2, <1>3, <1>4 DEF MInv

(* The rows of a forced transfer. *)
LEMMA ForcedRows ==
  ASSUME MInv, NEW to \in Users, NEW u \in Users, MayForce(u, to)
  PROVE  /\ Forced(to) \in [Users -> Row \cup {NoRow}]
         /\ Forced(to)[to] = OwnerRow
         /\ Forced(to)[space.owner].role # "owner"
         /\ Forced(to)[space.owner] \in Row
         /\ \A v \in Users \ {to, space.owner} : Forced(to)[v] = member[v]
<1> DEFINE taken == IF member[to] = NoRow THEN OwnerRow
                    ELSE [member[to] EXCEPT !.role = "owner", !.status = "active"]
<1>1. to # space.owner
  BY DEF MayForce
<1>2. taken = OwnerRow
  BY RowFields, ForcedRow DEF MayForce, MInv
<1>3. member \in [Users -> Row \cup {NoRow}]
  BY DEF MInv, TypeOK
<1>4. Forced(to) = [[member EXCEPT ![to] = taken] EXCEPT ![space.owner].role = "member"]
  BY DEF Forced
<1>5. [OwnerRow EXCEPT !.role = "member"] \in Row /\ [OwnerRow EXCEPT !.role = "member"].role = "member"
  BY DEF OwnerRow, Row, Roles
<1>6. Forced(to) = [[member EXCEPT ![to] = OwnerRow] EXCEPT
                       ![space.owner] = [OwnerRow EXCEPT !.role = "member"]]
  BY <1>1, <1>2, <1>3, <1>4, OwnerKnown
<1> QED
  BY <1>1, <1>3, <1>5, <1>6, OwnerKnown, RowsTyped

-----------------------------------------------------------------------------
(* A step that leaves workspace, rows and accounts alone, and the nomination *)
(* standing with its terms or no longer pending.                             *)
LEMMA TransferOnly ==
  ASSUME MInv, UNCHANGED <<space, member, account>>,
         transfer' \in TransferRow,
         transfer'.status = "pending" =>
           /\ transfer'.from = space.owner
           /\ transfer'.version = space.version
           /\ transfer'.to \in Users \ {space.owner}
  PROVE  MInv'
BY DEF MInv, TypeOK, OwnerMirror, PendingIsCurrent

LEMMA TransferStatus ==
  ASSUME MInv, NEW status \in {"declined", "cancelled", "expired", "invalidated", "completed"}
  PROVE  /\ [transfer EXCEPT !.status = status] \in TransferRow
         /\ [transfer EXCEPT !.status = status].status = status
BY DEF MInv, TypeOK, TransferRow

(* A change of one row that is neither the owner's nor an owner's. *)
LEMMA RowStep ==
  ASSUME MInv, NEW target \in Users, target # space.owner,
         NEW row \in Row \cup {NoRow}, row.role # "owner",
         member' = [member EXCEPT ![target] = row],
         UNCHANGED <<space, account>>,
         transfer' = transfer \/ transfer' = Voided
  PROVE  MInv'
<1>1. member' \in [Users -> Row \cup {NoRow}] /\ OwnerMirror'
  BY RowChangeKeeps
<1>2. transfer' \in TransferRow /\ PendingIsCurrent'
  BY NominationKept
<1> QED
  BY <1>1, <1>2 DEF MInv, TypeOK

LEMMA RequestTransferOK ==
  ASSUME MInv, NEW u \in Users, NEW to \in Users, RequestTransfer(u, to)
  PROVE  MInv'
<1>1. transfer' \in TransferRow
  BY OwnerKnown DEF RequestTransfer, TransferRow
<1> QED
  BY <1>1, TransferOnly DEF RequestTransfer

LEMMA AcceptTransferOK ==
  ASSUME MInv, NEW u \in Users, AcceptTransfer(u)
  PROVE  MInv'
<1>1. CASE transfer.late
  BY <1>1, TransferOnly, TransferStatus DEF AcceptTransfer
<1>2. CASE ~transfer.late /\ NominationVoid(u)
  BY <1>2, TransferOnly, TransferStatus DEF AcceptTransfer
<1>3. CASE ~transfer.late /\ ~NominationVoid(u)
  <2>1. /\ transfer.from = space.owner /\ u # space.owner /\ account[u]
        /\ member[u] = NoRow \/ MayOwn(member[u])
        /\ member' = HandOver(space.owner, u)
        /\ space' = [space EXCEPT !.owner = u, !.version = @ + 1]
        /\ transfer' = [transfer EXCEPT !.status = "completed"]
        /\ account' = account
    BY <1>3 DEF AcceptTransfer, MInv, PendingIsCurrent
  <2> DEFINE taken == IF member[u] = NoRow THEN OwnerRow
                      ELSE [member[u] EXCEPT !.role = "owner"]
  <2>2. taken = OwnerRow
    BY <2>1, RowFields, OwnRow DEF MInv
  <2>3. member \in [Users -> Row \cup {NoRow}]
    BY DEF MInv, TypeOK
  <2>4. [OwnerRow EXCEPT !.role = "member"] \in Row
        /\ [OwnerRow EXCEPT !.role = "member"].role = "member"
    BY DEF OwnerRow, Row, Roles
  <2>5. member' = [[member EXCEPT ![space.owner] = [OwnerRow EXCEPT !.role = "member"]]
                     EXCEPT ![u] = OwnerRow]
    <3>1. member' = [[member EXCEPT ![space.owner].role = "member"] EXCEPT ![u] = taken]
      BY <2>1, <2>3, OwnerKnown DEF HandOver
    <3> QED
      BY <3>1, <2>1, <2>2, <2>3, OwnerKnown
  <2>6. /\ member' \in [Users -> Row \cup {NoRow}] /\ member'[u] = OwnerRow
        /\ member'[space.owner].role # "owner"
        /\ \A v \in Users \ {u, space.owner} : member'[v] = member[v]
    BY <2>1, <2>3, <2>4, <2>5, OwnerKnown, RowsTyped
  <2>7. account' \in [Users -> BOOLEAN] /\ account'[u]
    BY <2>1 DEF MInv, TypeOK
  <2>8. transfer' \in TransferRow /\ transfer'.status # "pending"
    BY <2>1, TransferStatus
  <2> QED
    BY <2>1, <2>6, <2>7, <2>8, Passed
<1> QED
  BY <1>1, <1>2, <1>3

LEMMA EndTransferOK ==
  ASSUME MInv, NEW u \in Users, DeclineTransfer(u) \/ CancelTransfer(u)
  PROVE  MInv'
BY TransferOnly, TransferStatus DEF DeclineTransfer, CancelTransfer

LEMMA NominationLapsesOK ==
  ASSUME MInv, NominationLapses
  PROVE  MInv'
<1>1. transfer' \in TransferRow
  BY DEF NominationLapses, MInv, TypeOK, TransferRow
<1>2. transfer'.from = transfer.from /\ transfer'.to = transfer.to
      /\ transfer'.version = transfer.version /\ transfer.status = "pending"
  BY DEF NominationLapses, MInv, TypeOK, TransferRow
<1> QED
  BY <1>1, <1>2, TransferOnly DEF NominationLapses, MInv, PendingIsCurrent

LEMMA ForceTransferOK ==
  ASSUME MInv, NEW u \in Users, NEW to \in Users, ForceTransfer(u, to)
  PROVE  MInv'
<1>1. MayForce(u, to) /\ to # space.owner /\ account[to]
  BY DEF ForceTransfer, MayForce
<1>2. account' \in [Users -> BOOLEAN] /\ account'[to]
  BY <1>1 DEF ForceTransfer, MInv, TypeOK
<1> QED
  BY <1>1, <1>2, ForcedRows, VoidedTyped, Passed DEF ForceTransfer

LEMMA UpdateMemberOK ==
  ASSUME MInv, NEW u \in Users, NEW target \in Users, NEW role \in MutableRoles,
         NEW status \in {"active", "revoked"}, NEW term \in {"none", "timed", "over"},
         UpdateMember(u, target, role, status, term)
  PROVE  MInv'
<1> DEFINE next == [member[target] EXCEPT !.role = role, !.status = status, !.term = term]
<1>1. target # space.owner /\ member[target] \in Row
  BY RowFields DEF UpdateMember, MayEdit, MInv
<1>2. next \in Row /\ next.role = role /\ role # "owner"
  BY <1>1 DEF Row, MutableRoles, Roles
<1>3. member' = [member EXCEPT ![target] = next] /\ UNCHANGED <<space, account, transfer>>
  BY DEF UpdateMember
<1> HIDE DEF next
<1> QED
  BY <1>1, <1>2, <1>3, RowStep

LEMMA RemoveMemberOK ==
  ASSUME MInv, NEW u \in Users, NEW target \in Users, RemoveMember(u, target)
  PROVE  MInv'
<1>1. target # space.owner /\ member[target] \in Row /\ member[target].role # "owner"
  BY RowFields DEF RemoveMember, MayEdit, MInv
<1>2. [member[target] EXCEPT !.status = "revoked"] \in Row
      /\ [member[target] EXCEPT !.status = "revoked"].role = member[target].role
  BY <1>1 DEF Row
<1> QED
  BY <1>1, <1>2, RowStep DEF RemoveMember

LEMMA TermEndsOK ==
  ASSUME MInv, NEW u \in Users, TermEnds(u)
  PROVE  MInv'
<1>1. u # space.owner
  BY OwnerKnown DEF TermEnds, OwnerRow
<1>2. member[u] \in Row /\ member[u].role # "owner"
  BY <1>1, RowFields, OthersRows DEF TermEnds, NoRow, MInv
<1>3. [member[u] EXCEPT !.term = "over"] \in Row
      /\ [member[u] EXCEPT !.term = "over"].role = member[u].role
  BY <1>2 DEF Row
<1> QED
  BY <1>1, <1>2, <1>3, RowStep DEF TermEnds

(* Closing an account that owns nothing. *)
LEMMA AccountStep ==
  ASSUME MInv, NEW u \in Users, NEW open \in BOOLEAN, u # space.owner \/ open,
         account' = [account EXCEPT ![u] = open],
         UNCHANGED <<space, transfer>>,
         member' \in [Users -> Row \cup {NoRow}],
         member'[space.owner] = OwnerRow,
         \A v \in Users : member'[v].role = "owner" => v = space.owner
  PROVE  MInv'
<1>1. account' \in [Users -> BOOLEAN] /\ account'[space.owner]
  BY OwnerKnown DEF MInv, TypeOK, OwnerMirror
<1>2. TypeOK'
  BY <1>1 DEF MInv, TypeOK
<1>3. OwnerMirror'
  BY <1>1 DEF OwnerMirror
<1>4. PendingIsCurrent'
  BY DEF MInv, PendingIsCurrent
<1> QED
  BY <1>2, <1>3, <1>4 DEF MInv

LEMMA OffboardOK ==
  ASSUME MInv, NEW u \in Users, NEW subject \in Users, NEW successor \in Users,
         Offboard(u, subject, successor)
  PROVE  MInv'
<1>1. CASE space.owner = subject
  <2>1. /\ MayForce(u, successor)
        /\ member' = [Forced(successor) EXCEPT ![subject].status = "revoked"]
        /\ space' = [space EXCEPT !.owner = successor, !.version = @ + 1]
        /\ transfer' = Voided
        /\ account' = [account EXCEPT ![subject] = FALSE]
    BY <1>1 DEF Offboard
  <2>2. successor # space.owner /\ account[successor]
    BY <2>1 DEF MayForce
  <2>3. [Forced(successor)[subject] EXCEPT !.status = "revoked"] \in Row
        /\ [Forced(successor)[subject] EXCEPT !.status = "revoked"].role
              = Forced(successor)[subject].role
    BY <1>1, <2>1, ForcedRows DEF Row
  <2>4. /\ member' \in [Users -> Row \cup {NoRow}] /\ member'[successor] = OwnerRow
        /\ member'[space.owner].role # "owner"
        /\ \A v \in Users \ {successor, space.owner} : member'[v] = member[v]
    <3>1. member' = [Forced(successor) EXCEPT
                       ![subject] = [Forced(successor)[subject] EXCEPT !.status = "revoked"]]
      BY <2>1
    <3> QED
      BY <1>1, <2>1, <2>2, <2>3, <3>1, ForcedRows
  <2>5. account' \in [Users -> BOOLEAN] /\ account'[successor]
    BY <1>1, <2>1, <2>2 DEF MInv, TypeOK
  <2> QED
    BY <2>1, <2>2, <2>4, <2>5, VoidedTyped, Passed
<1>2. CASE space.owner # subject
  <2> DEFINE row == IF member[subject].status = "active"
                      THEN [member[subject] EXCEPT !.status = "revoked"]
                      ELSE member[subject]
  <2>1. /\ member' = [member EXCEPT ![subject] = row]
        /\ UNCHANGED <<space, transfer>>
        /\ account' = [account EXCEPT ![subject] = FALSE]
    BY <1>2 DEF Offboard, MInv, TypeOK
  <2>2. row \in Row \cup {NoRow} /\ row.role = member[subject].role
    BY RowFields DEF MInv, Row, NoRow
  <2>3. /\ member' \in [Users -> Row \cup {NoRow}]
        /\ member'[space.owner] = OwnerRow
        /\ \A v \in Users : member'[v].role = "owner" => v = space.owner
    BY <1>2, <2>1, <2>2, OwnerKnown, OthersRows DEF MInv, TypeOK
  <2> QED
    BY <1>2, <2>1, <2>3, AccountStep
<1> QED
  BY <1>1, <1>2

LEMMA ReactivateOK ==
  ASSUME MInv, NEW u \in Users, Reactivate(u)
  PROVE  MInv'
BY AccountStep DEF Reactivate, MInv, TypeOK, OwnerMirror

LEMMA LifecycleOK ==
  ASSUME MInv, ArchiveWorkspace \/ RestoreWorkspace
  PROVE  MInv'
<1>1. space' \in SpaceRow /\ space'.owner = space.owner /\ space'.version = space.version
  BY DEF MInv, TypeOK, SpaceRow, ArchiveWorkspace, RestoreWorkspace
<1> QED
  BY <1>1 DEF MInv, TypeOK, OwnerMirror, PendingIsCurrent, ArchiveWorkspace, RestoreWorkspace

LEMMA AssignRoleOK ==
  ASSUME MInv, NEW u \in Users, NEW target \in Users, NEW role \in MutableRoles,
         AssignRole(u, target, role)
  PROVE  MInv'
<1> DEFINE row == IF member[target] = NoRow THEN Fresh(role, TRUE)
                  ELSE [member[target] EXCEPT !.role = role, !.status = "active",
                                              !.invited = TRUE]
<1>1. target # space.owner /\ role \in Roles /\ role # "owner"
  BY DEF AssignRole, MutableRoles
<1>2. row \in Row /\ row.role = role
  <2>1. CASE member[target] = NoRow
    <3>1. Fresh(role, TRUE) \in Row
      BY <1>1, RowsTyped
    <3>2. Fresh(role, TRUE).role = role
      BY DEF Fresh
    <3> QED
      BY <2>1, <3>1, <3>2
  <2>2. CASE member[target] # NoRow
    <3>1. member[target] \in Row
      BY <2>2, RowFields DEF MInv
    <3>2. [member[target] EXCEPT !.role = role, !.status = "active", !.invited = TRUE] \in Row
      BY <1>1, <3>1 DEF Row
    <3>3. [member[target] EXCEPT !.role = role, !.status = "active", !.invited = TRUE].role = role
      BY <3>1 DEF Row
    <3> QED
      BY <2>2, <3>2, <3>3
  <2> QED
    BY <2>1, <2>2
<1>3. member' = [member EXCEPT ![target] = row] /\ UNCHANGED <<space, account, transfer>>
  BY DEF AssignRole
<1> HIDE DEF row
<1> QED
  BY <1>1, <1>2, <1>3, RowStep

LEMMA UnassignRoleOK ==
  ASSUME MInv, NEW u \in Users, NEW target \in Users, UnassignRole(u, target)
  PROVE  MInv'
<1>1. NoRow \in Row \cup {NoRow} /\ NoRow.role # "owner"
  BY RowsTyped
<1>2. target # space.owner /\ member' = [member EXCEPT ![target] = NoRow]
      /\ UNCHANGED <<space, account, transfer>>
  BY DEF UnassignRole
<1> QED
  BY <1>1, <1>2, RowStep

LEMMA JoinWithInviteCodeOK ==
  ASSUME MInv, NEW u \in Users, NEW role \in {"member", "guest"},
         JoinWithInviteCode(u, role)
  PROVE  MInv'
<1> DEFINE row == IF member[u] = NoRow THEN Fresh(role, TRUE)
                  ELSE [member[u] EXCEPT !.status = "active"]
<1>1. member' = [member EXCEPT ![u] = row] /\ UNCHANGED <<space, account, transfer>>
  BY DEF JoinWithInviteCode
<1>2. CASE u = space.owner
  <2>1. row = OwnerRow
    <3>1. member[u] = OwnerRow /\ OwnerRow # NoRow
      BY <1>2, OwnerKnown, RowsTyped
    <3>2. [OwnerRow EXCEPT !.status = "active"] = OwnerRow
      BY DEF OwnerRow
    <3> QED
      BY <3>1, <3>2
  <2>2. member' = member
    <3>1. member \in [Users -> Row \cup {NoRow}] /\ member[u] = OwnerRow
      BY <1>2, OwnerKnown DEF MInv, TypeOK
    <3>2. member' = [member EXCEPT ![u] = OwnerRow]
      BY <1>1, <2>1
    <3> QED
      BY <3>1, <3>2
  <2> QED
    BY <1>1, <2>2 DEF MInv, TypeOK, OwnerMirror, PendingIsCurrent
<1>3. CASE u # space.owner
  <2>1. row \in Row
    <3>1. Fresh(role, TRUE) \in Row
      BY RowsTyped, role \in Roles DEF Roles
    <3>2. member[u] # NoRow => [member[u] EXCEPT !.status = "active"] \in Row
      BY RowFields, RowChanges DEF MInv
    <3> QED
      BY <3>1, <3>2
  <2>2. row.role # "owner"
    <3>1. member[u] = NoRow => row.role = role
      BY DEF Fresh
    <3>2. member[u] # NoRow => row.role = member[u].role
      BY RowFields DEF MInv, Row
    <3> QED
      BY <1>3, <3>1, <3>2, OthersRows, role # "owner"
  <2> HIDE DEF row
  <2> QED
    BY <1>1, <1>3, <2>1, <2>2, RowStep
<1> QED
  BY <1>2, <1>3

(* Every step of the member workflow keeps the invariant. *)
LEMMA MembersStep ==
  ASSUME MInv, MembersNext
  PROVE  MInv'
<1>1. CASE OwnershipNext
  BY <1>1, RequestTransferOK, ForceTransferOK, AcceptTransferOK, EndTransferOK
     DEF OwnershipNext
<1>2. CASE ManageNext
  BY <1>2, UpdateMemberOK, RemoveMemberOK, OffboardOK, AssignRoleOK, UnassignRoleOK
     DEF ManageNext
<1>3. CASE LifecycleNext
  BY <1>3, TermEndsOK, ReactivateOK, NominationLapsesOK, LifecycleOK DEF LifecycleNext
<1>4. CASE InviteCodeNext
  BY <1>4, JoinWithInviteCodeOK DEF InviteCodeNext
<1> QED
  BY <1>1, <1>2, <1>3, <1>4 DEF MembersNext

-----------------------------------------------------------------------------
(* The join workflow and the rows of the members *)

(* Whatever has been requested was requested by an account, and the review *)
(* screen has a request that was made.                                     *)
Named == /\ \A r \in Requests : request[r].status # "unused" => request[r].user \in Users
         /\ desk # NoReview => request[desk.request].status # "unused"

JInv == MInv /\ JoinTypeOK /\ Named

(* An account without an effective row is not the owner. *)
LEMMA OutsideIsNotOwner ==
  ASSUME MInv, NEW u \in Users, ~IsEffective(member[u])
  PROVE  u # space.owner
BY OwnerKnown DEF IsEffective, OwnerRow

LEMMA AdmitStep ==
  ASSUME MInv, NEW u \in Users, NEW invited \in BOOLEAN,
         member' = member \/ (~IsEffective(member[u]) /\ member' = Admitted(u, invited)),
         UNCHANGED <<space, account, transfer>>
  PROVE  MInv'
<1>1. CASE member' = member
  BY <1>1 DEF MInv, TypeOK, OwnerMirror, PendingIsCurrent
<1>2. CASE ~IsEffective(member[u]) /\ member' = Admitted(u, invited)
  <2>1. Fresh("guest", invited) \in Row /\ Fresh("guest", invited).role # "owner"
    BY RowsTyped DEF Roles, Fresh
  <2>2. u # space.owner
    BY <1>2, OutsideIsNotOwner
  <2> QED
    BY <1>2, <2>1, <2>2, RowStep DEF Admitted
<1> QED
  BY <1>1, <1>2

(* An approval or an acceptance. *)
LEMMA AdmitUnlessStep ==
  ASSUME MInv, NEW u \in Users,
         member' = AdmittedUnlessIn(u, TRUE) \/ member' = member,
         UNCHANGED <<space, account, transfer>>
  PROVE  MInv'
<1>1. member' = member \/ (~IsEffective(member[u]) /\ member' = Admitted(u, TRUE))
  BY DEF AdmittedUnlessIn
<1>2. TRUE \in BOOLEAN
  OBVIOUS
<1> HIDE DEF Admitted
<1> QED
  BY <1>1, <1>2, AdmitStep

LEMMA MembersUntouched ==
  ASSUME MInv, UNCHANGED memberVars
  PROVE  MInv'
BY DEF MInv, TypeOK, OwnerMirror, PendingIsCurrent, memberVars

LEMMA CodeActionsMembers ==
  ASSUME MInv, NEW u \in Users, NEW c \in Codes,
         \/ IssueCode(u, c) \/ RevokeCode(u, c) \/ RedeemExpires(u, c)
         \/ \E r \in Requests : RedeemCode(u, c, r)
  PROVE  MInv'
BY MembersUntouched DEF IssueCode, RevokeCode, RedeemExpires, RedeemCode

LEMMA RequestActionsMembers ==
  ASSUME JInv, NEW u \in Users, NEW r \in Requests,
         \/ DiscoveryRequest(u, r) \/ CancelRequest(u, r)
         \/ \E verdict \in {"approved", "rejected"} : DecideRequest(u, r, verdict)
  PROVE  MInv'
<1>1. CASE DiscoveryRequest(u, r) \/ CancelRequest(u, r)
  BY <1>1, MembersUntouched DEF DiscoveryRequest, CancelRequest, JInv
<1>2. ASSUME NEW verdict \in {"approved", "rejected"}, DecideRequest(u, r, verdict)
      PROVE  MInv'
  <2>1. CASE request[r].late
    BY <1>2, <2>1, MembersUntouched DEF DecideRequest, JInv, memberVars
  <2>2. CASE ~request[r].late
    <3>1. request[r].user \in Users
      BY <1>2 DEF DecideRequest, JInv, Named
    <3> QED
      BY <1>2, <2>2, <3>1, AdmitUnlessStep DEF DecideRequest, JInv
  <2> QED
    BY <2>1, <2>2
<1> QED
  BY <1>1, <1>2

LEMMA InvitationActionsMembers ==
  ASSUME MInv, NEW u \in Users, NEW i \in Invitations,
         \/ \E target \in Users : CreateInvitation(u, target, i)
         \/ RevokeInvitation(u, i)
         \/ \E answer \in {"accepted", "declined"} : RespondInvitation(u, i, answer)
  PROVE  MInv'
<1>1. CASE (\E target \in Users : CreateInvitation(u, target, i)) \/ RevokeInvitation(u, i)
  BY <1>1, MembersUntouched DEF CreateInvitation, RevokeInvitation
<1>2. ASSUME NEW answer \in {"accepted", "declined"}, RespondInvitation(u, i, answer)
      PROVE  MInv'
  BY <1>2, AdmitUnlessStep DEF RespondInvitation
<1> QED
  BY <1>1, <1>2

LEMMA DoorActionsMembers ==
  ASSUME MInv, NEW u \in Users,
         JoinByCode(u) \/ GlobalJoin(u) \/ SwitchPolicy(u)
  PROVE  MInv'
<1>1. CASE JoinByCode(u) \/ GlobalJoin(u)
  <2>1. member[u].invited \in BOOLEAN
    <3>1. CASE member[u] = NoRow
      BY <3>1, NoRow.invited = FALSE DEF NoRow
    <3>2. CASE member[u] # NoRow
      BY <3>2, RowFields DEF MInv, Row
    <3> QED
      BY <3>1, <3>2
  <2> QED
    BY <1>1, <2>1, AdmitStep DEF JoinByCode, GlobalJoin
<1>2. CASE SwitchPolicy(u)
  BY <1>2, MembersUntouched DEF SwitchPolicy
<1> QED
  BY <1>1, <1>2

LEMMA ReviewActionsMembers ==
  ASSUME JInv, ReviewNext
  PROVE  MInv'
<1>1. CASE (\E u \in Users, r \in Requests, verdict \in {"approved", "rejected"} :
              OpenReview(u, r, verdict)) \/ DropReview
  BY <1>1, MembersUntouched DEF OpenReview, DropReview, JInv
<1>2. CASE WriteReview
  <2> DEFINE u == request[desk.request].user
             row == IF member[u] = NoRow THEN Fresh("guest", TRUE)
                    ELSE [member[u] EXCEPT !.role = "guest", !.status = "active",
                                           !.invited = TRUE]
  <2>1. u \in Users
    BY <1>2 DEF WriteReview, JInv, Named, JoinTypeOK, Review
  <2>2. CASE desk.verdict = "rejected"
    BY <1>2, <2>2, MembersUntouched DEF WriteReview, JInv, memberVars
  <2>3. CASE desk.verdict # "rejected"
    <3>1. desk.verdict = "approved"
      BY <1>2, <2>3 DEF WriteReview, JInv, JoinTypeOK, Review
    <3>2. u # space.owner /\ member' = [member EXCEPT ![u] = row]
          /\ UNCHANGED <<space, account, transfer>>
      BY <1>2, <3>1 DEF WriteReview
    <3>3. Fresh("guest", TRUE) \in Row /\ Fresh("guest", TRUE).role = "guest"
      BY RowsTyped DEF Roles, Fresh
    <3>4. ASSUME member[u] # NoRow
          PROVE  /\ [member[u] EXCEPT !.role = "guest", !.status = "active",
                                      !.invited = TRUE] \in Row
                 /\ [member[u] EXCEPT !.role = "guest", !.status = "active",
                                      !.invited = TRUE].role = "guest"
      <4>1. member[u] \in Row
        BY <2>1, <3>4, RowFields DEF JInv, MInv
      <4> QED
        BY <4>1 DEF Row, Roles
    <3>5. row \in Row /\ row.role # "owner"
      BY <3>3, <3>4
    <3> HIDE DEF row, u
    <3> QED
      BY <2>1, <3>2, <3>5, RowStep DEF JInv
  <2> QED
    BY <2>2, <2>3
<1> QED
  BY <1>1, <1>2 DEF ReviewNext

(* Every step keeps the members' invariant. *)
LEMMA NextMembers ==
  ASSUME JInv, Next
  PROVE  MInv'
<1>1. CASE MembersNext
  BY <1>1, MembersStep DEF JInv
<1>2. CASE JoinNext
  <2>1. CASE Lapse
    BY <2>1, MembersUntouched DEF Lapse, JInv
  <2>2. CASE \E u \in Users, c \in Codes :
               \/ IssueCode(u, c) \/ RevokeCode(u, c) \/ RedeemExpires(u, c)
               \/ \E r \in Requests : RedeemCode(u, c, r)
    BY <2>2, CodeActionsMembers DEF JInv
  <2>3. CASE \E u \in Users, r \in Requests :
               \/ DiscoveryRequest(u, r)
               \/ CancelRequest(u, r)
               \/ \E verdict \in {"approved", "rejected"} : DecideRequest(u, r, verdict)
    BY <2>3, RequestActionsMembers
  <2>4. CASE \E u \in Users, i \in Invitations :
               \/ \E target \in Users : CreateInvitation(u, target, i)
               \/ RevokeInvitation(u, i)
               \/ \E answer \in {"accepted", "declined"} : RespondInvitation(u, i, answer)
    BY <2>4, InvitationActionsMembers DEF JInv
  <2>5. CASE \E u \in Users : JoinByCode(u) \/ GlobalJoin(u) \/ SwitchPolicy(u)
    BY <2>5, DoorActionsMembers DEF JInv
  <2> QED
    BY <1>2, <2>1, <2>2, <2>3, <2>4, <2>5 DEF JoinNext
<1>3. CASE ReviewNext
  BY <1>3, ReviewActionsMembers
<1> QED
  BY <1>1, <1>2, <1>3 DEF Next

-----------------------------------------------------------------------------
(* The rows of the join workflow *)

LEMMA CodeChanges ==
  ASSUME NEW row \in CodeRow
  PROVE  /\ \A status \in {"active", "revoked", "expired"} :
              [row EXCEPT !.status = status] \in CodeRow
         /\ [row EXCEPT !.late = TRUE] \in CodeRow
         /\ \A n \in Nat : [row EXCEPT !.pending = n] \in CodeRow
         /\ \A m, n \in Nat : [row EXCEPT !.used = m, !.pending = n] \in CodeRow
BY DEF CodeRow

LEMMA CodeCounts ==
  ASSUME NEW row \in CodeRow
  PROVE  row.used \in Nat /\ row.pending \in Nat
BY DEF CodeRow

(* A place given back: one code's pending count falls by one, if it can. *)
LEMMA ReleasedTyped ==
  ASSUME code \in [Codes -> CodeRow], NEW c \in Codes \cup {NoCode}
  PROVE  /\ Released(code, c) \in [Codes -> CodeRow]
         /\ \A d \in Codes : Released(code, c)[d].used = code[d].used
         /\ \A d \in Codes : Released(code, c)[d].pending =
              IF d = c /\ code[d].pending > 0 THEN code[d].pending - 1 ELSE code[d].pending
<1>1. CASE c \in Codes /\ code[c].pending > 0
  <2>1. Released(code, c) = [code EXCEPT ![c] = [code[c] EXCEPT !.pending = code[c].pending - 1]]
    BY <1>1 DEF Released
  <2>2. code[c] \in CodeRow /\ code[c].pending - 1 \in Nat
    BY <1>1 DEF CodeRow
  <2> DEFINE row == [code[c] EXCEPT !.pending = code[c].pending - 1]
  <2>3. row \in CodeRow /\ row.used = code[c].used /\ row.pending = code[c].pending - 1
    BY <2>2 DEF CodeRow
  <2> HIDE DEF row
  <2> QED
    BY <1>1, <2>1, <2>3 DEF row
<1>2. CASE ~(c \in Codes /\ code[c].pending > 0)
  <2>1. Released(code, c) = code
    BY <1>2 DEF Released
  <2> QED
    BY <1>2, <2>1
<1> QED
  BY <1>1, <1>2

Verdicts == {"pending", "approved", "rejected", "cancelled", "expired", "invalidated"}

LEMMA RequestChanges ==
  ASSUME NEW row \in RequestRow, NEW status \in Verdicts
  PROVE  /\ [row EXCEPT !.status = status] \in RequestRow
         /\ [row EXCEPT !.status = status].status = status
         /\ [row EXCEPT !.status = status].user = row.user
         /\ [row EXCEPT !.status = status].code = row.code
         /\ [row EXCEPT !.late = TRUE] \in RequestRow
         /\ [row EXCEPT !.late = TRUE].status = row.status
         /\ [row EXCEPT !.late = TRUE].user = row.user
         /\ [row EXCEPT !.late = TRUE].code = row.code
BY DEF RequestRow, Verdicts

LEMMA NewRequest ==
  ASSUME NEW u \in Users, NEW c \in Codes \cup {NoCode}
  PROVE  LET row == [UnusedRequest EXCEPT !.status = "pending", !.user = u, !.code = c]
         IN  row \in RequestRow /\ row.status = "pending" /\ row.user = u /\ row.code = c
BY DEF RequestRow, UnusedRequest

(* How a step may change the request rows: each row stays, ends or lapses, *)
(* or is made for an account.                                              *)
Moves(r) ==
  \/ request'[r] = request[r]
  \/ /\ request[r].status # "unused" /\ request'[r].status # "unused"
     /\ request'[r].user = request[r].user
  \/ /\ request'[r].status # "unused" /\ request'[r].user \in Users

LEMMA NamedStep ==
  ASSUME Named, JoinTypeOK, \A r \in Requests : Moves(r),
         desk' = desk \/ desk' = NoReview
  PROVE  Named'
<1>1. \A r \in Requests : request'[r].status # "unused" => request'[r].user \in Users
  BY DEF Named, Moves
<1>2. ASSUME desk' # NoReview
      PROVE  request'[desk'.request].status # "unused"
  <2>1. desk \in Review
    BY <1>2 DEF JoinTypeOK
  <2>2. desk.request \in Requests
    BY <2>1 DEF Review
  <2> QED
    BY <1>2, <2>2 DEF Named, Moves
<1> QED
  BY <1>1, <1>2 DEF Named

(* One request row ends. *)
LEMMA OneEnds ==
  ASSUME JoinTypeOK, Named, NEW r \in Requests, request[r].status # "unused",
         NEW status \in Verdicts,
         \/ request' = [request EXCEPT ![r].status = status]
         \/ \E u \in Users :
              request' = [request EXCEPT ![r].status = status, ![r].reviewer = u]
  PROVE  /\ request' \in [Requests -> RequestRow]
         /\ \A q \in Requests : Moves(q)
         /\ \A q \in Requests \ {r} : request'[q] = request[q]
         /\ request'[r].status = status /\ request'[r].code = request[r].code
<1>1. request \in [Requests -> RequestRow] /\ request[r] \in RequestRow
  BY DEF JoinTypeOK
<1>2. PICK row \in RequestRow :
        /\ request' = [request EXCEPT ![r] = row]
        /\ row.status = status /\ row.user = request[r].user /\ row.code = request[r].code
  <2> DEFINE ended == [request[r] EXCEPT !.status = status]
  <2>1. CASE request' = [request EXCEPT ![r].status = status]
    <3>1. request' = [request EXCEPT ![r] = ended]
      BY <2>1
    <3>2. /\ ended \in RequestRow /\ ended.status = status
          /\ ended.user = request[r].user /\ ended.code = request[r].code
      BY <1>1, RequestChanges
    <3> HIDE DEF ended
    <3> QED
      BY <3>1, <3>2
  <2>2. CASE \E u \in Users :
               request' = [request EXCEPT ![r].status = status, ![r].reviewer = u]
    <3>1. PICK u \in Users :
            request' = [request EXCEPT ![r].status = status, ![r].reviewer = u]
      BY <2>2
    <3> DEFINE decided == [request[r] EXCEPT !.status = status, !.reviewer = u]
    <3>2. request' = [request EXCEPT ![r] = decided]
      BY <1>1, <3>1
    <3>3. /\ decided \in RequestRow /\ decided.status = status
          /\ decided.user = request[r].user /\ decided.code = request[r].code
      BY <1>1 DEF RequestRow, Verdicts
    <3> HIDE DEF decided
    <3> QED
      BY <3>2, <3>3
  <2> QED
    BY <2>1, <2>2
<1>3. /\ request' \in [Requests -> RequestRow]
      /\ request'[r] = row
      /\ \A q \in Requests \ {r} : request'[q] = request[q]
  BY <1>1, <1>2
<1>4. status # "unused"
  BY DEF Verdicts
<1>5. \A q \in Requests : Moves(q)
  BY <1>2, <1>3, <1>4 DEF Moves
<1> QED
  BY <1>2, <1>3, <1>5

-----------------------------------------------------------------------------
(* The budget of a code *)

Waiting(c) == {r \in Requests : request[r].code = c /\ request[r].status = "pending"}

Made(c) == {r \in Requests : request[r].code = c}

WithinBudget(c) == /\ Cardinality(Waiting(c)) <= code[c].pending
                   /\ Cardinality(Made(c)) <= code[c].used
                   /\ code[c].pending <= MaxPending
                   /\ code[c].used <= MaxUses

LEMMA BudgetOfEach == CodeBudget <=> \A c \in Codes : WithinBudget(c)
BY DEF CodeBudget, WithinBudget, Waiting, Made

(* The invariant of the join workflow; JoinAssumption bounds the requests. *)
Joins == JoinTypeOK /\ Named /\ CodeBudget

(* Nothing new waits on the code, and its counts stay. *)
LEMMA ShrinkKeeps ==
  ASSUME JoinAssumption, JoinTypeOK, NEW c \in Codes, WithinBudget(c),
         Waiting(c)' \subseteq Waiting(c), Made(c)' \subseteq Made(c),
         code'[c].pending = code[c].pending, code'[c].used = code[c].used
  PROVE  WithinBudget(c)'
<1>1. IsFiniteSet(Waiting(c)) /\ IsFiniteSet(Made(c))
  <2>1. IsFiniteSet(Requests) /\ Waiting(c) \in SUBSET Requests /\ Made(c) \in SUBSET Requests
    BY DEF JoinAssumption, Waiting, Made
  <2> QED
    BY <2>1, FS_Subset
<1>2. /\ IsFiniteSet(Waiting(c)') /\ Cardinality(Waiting(c)') <= Cardinality(Waiting(c))
      /\ IsFiniteSet(Made(c)') /\ Cardinality(Made(c)') <= Cardinality(Made(c))
  BY <1>1, FS_Subset
<1>3. /\ Cardinality(Waiting(c)) \in Nat /\ Cardinality(Waiting(c)') \in Nat
      /\ Cardinality(Made(c)) \in Nat /\ Cardinality(Made(c)') \in Nat
  BY <1>1, <1>2, FS_CardinalityType
<1>4. code[c].pending \in Nat /\ code[c].used \in Nat
  BY CodeCounts DEF JoinTypeOK
<1> QED
  BY <1>2, <1>3, <1>4 DEF WithinBudget

(* A waiting request ends and gives its place back. *)
LEMMA ReleaseKeeps ==
  ASSUME JoinAssumption, JoinTypeOK, NEW c \in Codes, WithinBudget(c),
         NEW r \in Waiting(c),
         Waiting(c)' \subseteq Waiting(c) \ {r}, Made(c)' \subseteq Made(c),
         code'[c].pending = (IF code[c].pending > 0 THEN code[c].pending - 1
                             ELSE code[c].pending),
         code'[c].used = code[c].used
  PROVE  /\ WithinBudget(c)'
         /\ code[c].pending > 0
<1>1. IsFiniteSet(Waiting(c)) /\ IsFiniteSet(Made(c))
  <2>1. IsFiniteSet(Requests) /\ Waiting(c) \in SUBSET Requests /\ Made(c) \in SUBSET Requests
    BY DEF JoinAssumption, Waiting, Made
  <2> QED
    BY <2>1, FS_Subset
<1>2. /\ IsFiniteSet(Waiting(c) \ {r})
      /\ Cardinality(Waiting(c) \ {r}) = Cardinality(Waiting(c)) - 1
  BY <1>1, FS_RemoveElement
<1>3. /\ IsFiniteSet(Waiting(c)') /\ Cardinality(Waiting(c)') <= Cardinality(Waiting(c)) - 1
  BY <1>2, FS_Subset
<1>4. IsFiniteSet(Made(c)') /\ Cardinality(Made(c)') <= Cardinality(Made(c))
  BY <1>1, FS_Subset
<1>5. /\ Cardinality(Waiting(c)) \in Nat /\ Cardinality(Waiting(c)') \in Nat
      /\ Cardinality(Made(c)) \in Nat /\ Cardinality(Made(c)') \in Nat
  BY <1>1, <1>3, <1>4, FS_CardinalityType
<1>6. code[c].pending \in Nat /\ code[c].used \in Nat
  BY CodeCounts DEF JoinTypeOK
<1>7. MaxPending \in Nat
  BY DEF JoinAssumption
<1>8. code[c].pending > 0
  BY <1>3, <1>5, <1>6 DEF WithinBudget
<1> QED
  BY <1>3, <1>4, <1>5, <1>6, <1>7, <1>8 DEF WithinBudget

(* Requests end or stay, and no code changes its counts. *)
LEMMA QuietKeeps ==
  ASSUME JoinAssumption, Joins,
         \A q \in Requests : request'[q].code = request[q].code /\
                             (request'[q].status = "pending" => request[q].status = "pending"),
         \A c \in Codes : code'[c].pending = code[c].pending /\ code'[c].used = code[c].used
  PROVE  CodeBudget'
<1>1. \A c \in Codes : Waiting(c)' \subseteq Waiting(c) /\ Made(c)' \subseteq Made(c)
  BY DEF Waiting, Made
<1>2. \A c \in Codes : WithinBudget(c)
  BY BudgetOfEach DEF Joins
<1>3. \A c \in Codes : WithinBudget(c)'
  BY <1>1, <1>2, ShrinkKeeps DEF Joins
<1>4. CodeBudget' <=> \A c \in Codes : WithinBudget(c)'
  BY DEF CodeBudget, WithinBudget, Waiting, Made
<1> QED
  BY <1>3, <1>4

(* One pending request ends, and its code gets the place back. *)
LEMMA EndKeeps ==
  ASSUME JoinAssumption, Joins, NEW r \in Requests, request[r].status = "pending",
         NEW status \in Verdicts \ {"pending"},
         \/ request' = [request EXCEPT ![r].status = status]
         \/ \E u \in Users :
              request' = [request EXCEPT ![r].status = status, ![r].reviewer = u],
         code' = Released(code, request[r].code),
         desk' = desk, invitation' \in [Invitations -> InvitationRow],
         policy' \in {"access_code", "global"}
  PROVE  Joins'
<1>1. /\ request' \in [Requests -> RequestRow]
      /\ \A q \in Requests : Moves(q)
      /\ \A q \in Requests \ {r} : request'[q] = request[q]
      /\ request'[r].status = status /\ request'[r].code = request[r].code
  BY OneEnds DEF Joins
<1>2. request[r].code \in Codes \cup {NoCode}
  BY DEF Joins, JoinTypeOK, RequestRow
<1>3. /\ code' \in [Codes -> CodeRow]
      /\ \A d \in Codes : code'[d].used = code[d].used
      /\ \A d \in Codes : code'[d].pending =
           IF d = request[r].code /\ code[d].pending > 0 THEN code[d].pending - 1
           ELSE code[d].pending
  BY <1>2, ReleasedTyped DEF Joins, JoinTypeOK
<1>4. JoinTypeOK'
  BY <1>1, <1>3 DEF Joins, JoinTypeOK
<1>5. Named'
  BY <1>1, NamedStep DEF Joins
<1>6. ASSUME NEW c \in Codes
      PROVE  WithinBudget(c)'
  <2>1. WithinBudget(c)
    BY BudgetOfEach DEF Joins
  <2>2. Made(c)' \subseteq Made(c)
    BY <1>1 DEF Made
  <2>3. Waiting(c)' \subseteq Waiting(c) \ {r}
    BY <1>1 DEF Waiting, Verdicts
  <2>4. CASE c = request[r].code
    <3>1. r \in Waiting(c)
      BY <2>4 DEF Waiting
    <3> QED
      BY <1>3, <2>1, <2>2, <2>3, <2>4, <3>1, ReleaseKeeps DEF Joins
  <2>5. CASE c # request[r].code
    BY <1>3, <2>1, <2>2, <2>3, <2>5, ShrinkKeeps DEF Joins
  <2> QED
    BY <2>4, <2>5
<1>7. CodeBudget' <=> \A c \in Codes : WithinBudget(c)'
  BY DEF CodeBudget, WithinBudget, Waiting, Made
<1> QED
  BY <1>4, <1>5, <1>6, <1>7 DEF Joins

-----------------------------------------------------------------------------
(* The join workflow's own steps *)

LEMMA JoinsInit == Init /\ JoinAssumption => Joins
<1> SUFFICES ASSUME Init, JoinAssumption PROVE Joins
  OBVIOUS
<1>1. JoinTypeOK
  <2>1. UnusedCode \in CodeRow /\ UnusedRequest \in RequestRow
        /\ UnusedInvitation \in InvitationRow
    BY DEF UnusedCode, CodeRow, UnusedRequest, RequestRow, UnusedInvitation, InvitationRow
  <2> QED
    BY <2>1 DEF Init, JoinTypeOK
<1>2. Named
  BY DEF Init, Named, UnusedRequest
<1>3. ASSUME NEW c \in Codes
      PROVE  WithinBudget(c)
  <2>1. Waiting(c) = {} /\ Made(c) = {}
    BY DEF Init, Waiting, Made, UnusedRequest, JoinAssumption
  <2>2. code[c].pending = 0 /\ code[c].used = 0
    BY DEF Init, UnusedCode
  <2> QED
    BY <2>1, <2>2, FS_EmptySet DEF WithinBudget, JoinAssumption
<1> QED
  BY <1>1, <1>2, <1>3, BudgetOfEach DEF Joins

(* A step that makes no request and moves no count. *)
LEMMA QuietStep ==
  ASSUME JoinAssumption, Joins, JoinTypeOK', \A r \in Requests : Moves(r),
         desk' = desk \/ desk' = NoReview,
         \A q \in Requests : request'[q].code = request[q].code /\
                             (request'[q].status = "pending" => request[q].status = "pending"),
         \A c \in Codes : code'[c].pending = code[c].pending /\ code'[c].used = code[c].used
  PROVE  Joins'
BY QuietKeeps, NamedStep DEF Joins

(* A step that touches neither requests, nor counts, nor the screen. *)
LEMMA RequestsUntouched ==
  ASSUME JoinAssumption, Joins, UNCHANGED <<request, desk>>,
         policy' \in {"access_code", "global"}, invitation' \in [Invitations -> InvitationRow],
         \/ code' = code
         \/ \E c \in Codes : \E row \in CodeRow :
              /\ code' = [code EXCEPT ![c] = row]
              /\ row.pending = code[c].pending /\ row.used = code[c].used
  PROVE  Joins'
<1>1. /\ code' \in [Codes -> CodeRow]
      /\ \A c \in Codes : code'[c].pending = code[c].pending /\ code'[c].used = code[c].used
  BY DEF Joins, JoinTypeOK
<1>2. JoinTypeOK'
  BY <1>1 DEF Joins, JoinTypeOK
<1>3. \A r \in Requests : Moves(r)
  BY DEF Moves
<1> QED
  BY <1>1, <1>2, <1>3, QuietStep

LEMMA StatusOfCode ==
  ASSUME Joins, NEW c \in Codes, NEW status \in {"active", "revoked", "expired"}
  PROVE  \E row \in CodeRow : /\ [code EXCEPT ![c].status = status] = [code EXCEPT ![c] = row]
                              /\ row.pending = code[c].pending /\ row.used = code[c].used
<1> DEFINE row == [code[c] EXCEPT !.status = status]
<1>1. row \in CodeRow /\ row.pending = code[c].pending /\ row.used = code[c].used
  BY DEF Joins, JoinTypeOK, CodeRow
<1>2. [code EXCEPT ![c].status = status] = [code EXCEPT ![c] = row]
  BY DEF Joins, JoinTypeOK
<1> HIDE DEF row
<1> QED
  BY <1>1, <1>2

LEMMA CodeStatusJoins ==
  ASSUME JoinAssumption, Joins, NEW u \in Users, NEW c \in Codes,
         IssueCode(u, c) \/ RevokeCode(u, c) \/ RedeemExpires(u, c)
  PROVE  Joins'
<1>1. /\ UNCHANGED <<request, desk, policy, invitation>>
      /\ \E status \in {"active", "revoked", "expired"} :
           code' = [code EXCEPT ![c].status = status]
  BY DEF IssueCode, RevokeCode, RedeemExpires
<1>2. \E row \in CodeRow : /\ code' = [code EXCEPT ![c] = row]
                           /\ row.pending = code[c].pending /\ row.used = code[c].used
  <2>1. PICK status \in {"active", "revoked", "expired"} :
          code' = [code EXCEPT ![c].status = status]
    BY <1>1
  <2>2. PICK row \in CodeRow : /\ [code EXCEPT ![c].status = status] = [code EXCEPT ![c] = row]
                               /\ row.pending = code[c].pending /\ row.used = code[c].used
    BY StatusOfCode
  <2> QED
    BY <2>1, <2>2
<1>3. policy' \in {"access_code", "global"} /\ invitation' \in [Invitations -> InvitationRow]
  BY <1>1 DEF Joins, JoinTypeOK
<1> QED
  BY <1>1, <1>2, <1>3, RequestsUntouched

LEMMA RedeemJoins ==
  ASSUME JoinAssumption, Joins, NEW u \in Users, NEW c \in Codes, NEW r \in Requests,
         RedeemCode(u, c, r)
  PROVE  Joins'
<1> DEFINE overdue == {q \in PendingOf(u) : request[q].late}
           freed == IF \E q \in overdue : request[q].code = c THEN Released(code, c) ELSE code
           made == [UnusedRequest EXCEPT !.status = "pending", !.user = u, !.code = c]
<1>1. /\ freed[c].used < MaxUses /\ freed[c].pending < MaxPending
      /\ request[r].status = "unused"
      /\ request' = [q \in Requests |->
                       IF q = r THEN made
                       ELSE IF q \in overdue THEN [request[q] EXCEPT !.status = "expired"]
                       ELSE request[q]]
      /\ code' = [freed EXCEPT ![c].used = @ + 1, ![c].pending = @ + 1]
      /\ UNCHANGED <<policy, invitation, desk>>
  BY DEF RedeemCode
<1>2. /\ made \in RequestRow /\ made.status = "pending" /\ made.user = u /\ made.code = c
  BY NewRequest
<1>3. \A q \in overdue : /\ q \in Requests /\ request[q].status = "pending" /\ q # r
                         /\ [request[q] EXCEPT !.status = "expired"] \in RequestRow
                         /\ [request[q] EXCEPT !.status = "expired"].status = "expired"
                         /\ [request[q] EXCEPT !.status = "expired"].user = request[q].user
                         /\ [request[q] EXCEPT !.status = "expired"].code = request[q].code
  <2> TAKE q \in overdue
  <2>1. q \in Requests /\ request[q].status = "pending" /\ q # r
    BY <1>1 DEF PendingOf
  <2>2. request[q] \in RequestRow
    BY <2>1 DEF Joins, JoinTypeOK
  <2> QED
    BY <2>1, <2>2 DEF RequestRow
<1>4. /\ freed \in [Codes -> CodeRow]
      /\ \A d \in Codes : freed[d].used = code[d].used
      /\ \A d \in Codes \ {c} : freed[d].pending = code[d].pending
      /\ freed[c].pending = (IF (\E q \in overdue : request[q].code = c) /\ code[c].pending > 0
                             THEN code[c].pending - 1 ELSE code[c].pending)
  BY ReleasedTyped DEF Joins, JoinTypeOK
<1>5. /\ code' \in [Codes -> CodeRow]
      /\ \A d \in Codes \ {c} : code'[d].pending = code[d].pending /\ code'[d].used = code[d].used
      /\ code'[c].pending = freed[c].pending + 1 /\ code'[c].used = code[c].used + 1
  <2> DEFINE row == [freed[c] EXCEPT !.used = freed[c].used + 1, !.pending = freed[c].pending + 1]
  <2>1. freed[c] \in CodeRow
    BY <1>4
  <2>2. row \in CodeRow /\ row.used = freed[c].used + 1 /\ row.pending = freed[c].pending + 1
    <3> HIDE DEF freed
    <3>1. freed[c].used + 1 \in Nat /\ freed[c].pending + 1 \in Nat
      BY <2>1, CodeCounts
    <3> QED
      BY <2>1, <3>1 DEF CodeRow
  <2>3. code' = [freed EXCEPT ![c] = row]
    <3> HIDE DEF freed
    <3> QED
      BY <1>1, <1>4
  <2> HIDE DEF row, freed
  <2> QED
    BY <1>4, <2>2, <2>3
<1> HIDE DEF freed, made, overdue
<1>6. JoinTypeOK'
  <2>1. request' \in [Requests -> RequestRow]
    BY <1>1, <1>2, <1>3 DEF Joins, JoinTypeOK
  <2> QED
    BY <1>1, <1>5, <2>1 DEF Joins, JoinTypeOK
<1>7. \A q \in Requests : Moves(q)
  BY <1>1, <1>2, <1>3 DEF Moves
<1>8. Named'
  BY <1>1, <1>7, NamedStep DEF Joins
<1>9. \A q \in Requests \ {r} : request'[q].code = request[q].code
                               /\ (request'[q].status = "pending" =>
                                     q \notin overdue /\ request[q].status = "pending")
  BY <1>1, <1>3
<1>10. request'[r].code = c
  BY <1>1, <1>2
<1>11. ASSUME NEW d \in Codes \ {c}
       PROVE  WithinBudget(d)'
  <2>1. Waiting(d)' \subseteq Waiting(d) /\ Made(d)' \subseteq Made(d)
    BY <1>9, <1>10 DEF Waiting, Made
  <2>2. WithinBudget(d)
    BY BudgetOfEach DEF Joins
  <2> QED
    BY <1>5, <2>1, <2>2, ShrinkKeeps DEF Joins
<1>12. WithinBudget(c)'
  <2> DEFINE stay == Waiting(c) \ overdue
  <2>1. Waiting(c)' \subseteq stay \cup {r} /\ Made(c)' \subseteq Made(c) \cup {r}
    BY <1>9, <1>10 DEF Waiting, Made
  <2>2. IsFiniteSet(Waiting(c)) /\ IsFiniteSet(Made(c))
    <3>1. IsFiniteSet(Requests) /\ Waiting(c) \in SUBSET Requests /\ Made(c) \in SUBSET Requests
      BY DEF JoinAssumption, Waiting, Made
    <3> QED
      BY <3>1, FS_Subset
  <2>3. WithinBudget(c)
    BY BudgetOfEach DEF Joins
  <2>4. IsFiniteSet(stay) /\ Cardinality(stay) <= freed[c].pending
    <3>1. CASE \E q \in overdue : request[q].code = c
      <4>1. PICK q \in overdue : request[q].code = c
        BY <3>1
      <4>2. q \in Waiting(c)
        BY <1>3, <4>1 DEF Waiting
      <4>3. IsFiniteSet(Waiting(c) \ {q})
            /\ Cardinality(Waiting(c) \ {q}) = Cardinality(Waiting(c)) - 1
        BY <2>2, <4>2, FS_RemoveElement
      <4>4. stay \in SUBSET (Waiting(c) \ {q})
        BY <4>1
      <4>5. IsFiniteSet(stay) /\ Cardinality(stay) <= Cardinality(Waiting(c)) - 1
        BY <4>3, <4>4, FS_Subset
      <4>6. Cardinality(Waiting(c)) \in Nat /\ Cardinality(stay) \in Nat
            /\ code[c].pending \in Nat
        BY <2>2, <4>5, FS_CardinalityType, CodeCounts DEF Joins, JoinTypeOK
      <4>7. code[c].pending > 0
        BY <2>3, <4>5, <4>6 DEF WithinBudget
      <4> QED
        BY <1>4, <2>3, <3>1, <4>5, <4>6, <4>7 DEF WithinBudget
    <3>2. CASE ~\E q \in overdue : request[q].code = c
      <4>1. freed[c].pending = code[c].pending
        BY <1>4, <3>2
      <4>2. IsFiniteSet(stay) /\ Cardinality(stay) <= Cardinality(Waiting(c))
        BY <2>2, FS_Subset
      <4>3. Cardinality(Waiting(c)) \in Nat /\ Cardinality(stay) \in Nat
            /\ code[c].pending \in Nat
        BY <2>2, <4>2, FS_CardinalityType, CodeCounts DEF Joins, JoinTypeOK
      <4> QED
        BY <2>3, <4>1, <4>2, <4>3 DEF WithinBudget
    <3> QED
      BY <3>1, <3>2
  <2>5. /\ IsFiniteSet(stay \cup {r}) /\ Cardinality(stay \cup {r}) <= Cardinality(stay) + 1
        /\ IsFiniteSet(Made(c) \cup {r})
        /\ Cardinality(Made(c) \cup {r}) <= Cardinality(Made(c)) + 1
    <3>1. Cardinality(stay) \in Nat /\ Cardinality(Made(c)) \in Nat
      BY <2>2, <2>4, FS_CardinalityType
    <3> HIDE DEF stay
    <3>2. /\ IsFiniteSet(stay \cup {r})
          /\ Cardinality(stay \cup {r}) = IF r \in stay THEN Cardinality(stay)
                                          ELSE Cardinality(stay) + 1
      BY <2>4, FS_AddElement
    <3>3. /\ IsFiniteSet(Made(c) \cup {r})
          /\ Cardinality(Made(c) \cup {r}) = IF r \in Made(c) THEN Cardinality(Made(c))
                                             ELSE Cardinality(Made(c)) + 1
      BY <2>2, FS_AddElement
    <3> QED
      BY <3>1, <3>2, <3>3
  <2>6. /\ IsFiniteSet(Waiting(c)') /\ Cardinality(Waiting(c)') <= Cardinality(stay \cup {r})
        /\ IsFiniteSet(Made(c)') /\ Cardinality(Made(c)') <= Cardinality(Made(c) \cup {r})
    BY <2>1, <2>5, FS_Subset
  <2>7. /\ Cardinality(stay) \in Nat /\ Cardinality(stay \cup {r}) \in Nat
        /\ Cardinality(Waiting(c)') \in Nat
        /\ Cardinality(Made(c)) \in Nat /\ Cardinality(Made(c) \cup {r}) \in Nat
        /\ Cardinality(Made(c)') \in Nat
    BY <2>2, <2>4, <2>5, <2>6, FS_CardinalityType
  <2>8. freed[c].pending \in Nat /\ code[c].used \in Nat /\ freed[c].used = code[c].used
        /\ MaxPending \in Nat /\ MaxUses \in Nat
    <3>1. freed[c] \in CodeRow /\ code[c] \in CodeRow /\ freed[c].used = code[c].used
      BY <1>4 DEF Joins, JoinTypeOK
    <3> QED
      BY <3>1, CodeCounts DEF JoinAssumption
  <2> HIDE DEF stay
  <2>9. /\ Cardinality(Waiting(c)') <= code'[c].pending
        /\ Cardinality(Made(c)') <= code'[c].used
    BY <1>5, <2>3, <2>4, <2>5, <2>6, <2>7, <2>8 DEF WithinBudget
  <2>10. code'[c].pending <= MaxPending /\ code'[c].used <= MaxUses
    BY <1>1, <1>5, <2>8
  <2> QED
    BY <2>9, <2>10 DEF WithinBudget
<1>13. CodeBudget' <=> \A d \in Codes : WithinBudget(d)'
  BY DEF CodeBudget, WithinBudget, Waiting, Made
<1> QED
  BY <1>6, <1>8, <1>11, <1>12, <1>13 DEF Joins

LEMMA DiscoveryJoins ==
  ASSUME JoinAssumption, Joins, NEW u \in Users, NEW r \in Requests,
         DiscoveryRequest(u, r)
  PROVE  Joins'
<1> DEFINE made == [UnusedRequest EXCEPT !.status = "pending", !.user = u]
<1>1. /\ request[r].status = "unused"
      /\ request' = [request EXCEPT ![r] = made]
      /\ UNCHANGED <<policy, code, invitation, desk>>
  BY DEF DiscoveryRequest
<1>2. made \in RequestRow /\ made.status = "pending" /\ made.user = u /\ made.code = NoCode
  BY DEF RequestRow, UnusedRequest
<1> HIDE DEF made
<1>3. /\ request' \in [Requests -> RequestRow]
      /\ request'[r] = made
      /\ \A q \in Requests \ {r} : request'[q] = request[q]
  BY <1>1, <1>2 DEF Joins, JoinTypeOK
<1>4. JoinTypeOK'
  BY <1>1, <1>3 DEF Joins, JoinTypeOK
<1>5. \A q \in Requests : Moves(q)
  BY <1>2, <1>3 DEF Moves
<1>6. Named'
  BY <1>1, <1>5, NamedStep DEF Joins
<1>7. ASSUME NEW c \in Codes
      PROVE  WithinBudget(c)'
  <2>1. c # NoCode
    BY DEF JoinAssumption
  <2>2. Waiting(c)' \subseteq Waiting(c) /\ Made(c)' \subseteq Made(c)
    BY <1>2, <1>3, <2>1 DEF Waiting, Made
  <2>3. WithinBudget(c)
    BY BudgetOfEach DEF Joins
  <2> QED
    BY <1>1, <2>2, <2>3, ShrinkKeeps DEF Joins
<1>8. CodeBudget' <=> \A c \in Codes : WithinBudget(c)'
  BY DEF CodeBudget, WithinBudget, Waiting, Made
<1> QED
  BY <1>4, <1>6, <1>7, <1>8 DEF Joins

LEMMA EndedJoins ==
  ASSUME JoinAssumption, Joins, NEW u \in Users, NEW r \in Requests,
         \/ CancelRequest(u, r)
         \/ \E verdict \in {"approved", "rejected"} : DecideRequest(u, r, verdict)
  PROVE  Joins'
<1> DEFINE Ends(status) ==
             \/ request' = [request EXCEPT ![r].status = status]
             \/ \E v \in Users :
                  request' = [request EXCEPT ![r].status = status, ![r].reviewer = v]
<1>1. \E status \in Verdicts \ {"pending"} : Ends(status)
  <2>1. ASSUME NEW status \in {"expired", "cancelled", "approved", "rejected"}, Ends(status)
        PROVE  \E s \in Verdicts \ {"pending"} : Ends(s)
    <3>1. status \in Verdicts \ {"pending"}
      BY DEF Verdicts
    <3> HIDE DEF Ends
    <3> QED
      BY <2>1, <3>1
  <2>2. CASE CancelRequest(u, r)
    <3>1. request' = Ended(r, IF request[r].late THEN "expired" ELSE "cancelled")
      BY <2>2 DEF CancelRequest
    <3>2. Ends("expired") \/ Ends("cancelled")
      BY <3>1 DEF Ended
    <3> HIDE DEF Ends
    <3> QED
      BY <2>1, <3>2
  <2>3. ASSUME NEW verdict \in {"approved", "rejected"}, DecideRequest(u, r, verdict)
        PROVE  \E s \in Verdicts \ {"pending"} : Ends(s)
    <3>1. \/ request' = Ended(r, "expired")
          \/ request' = [request EXCEPT ![r].status = verdict, ![r].reviewer = u]
      BY <2>3 DEF DecideRequest
    <3>2. Ends("expired") \/ Ends(verdict)
      BY <3>1 DEF Ended
    <3> HIDE DEF Ends
    <3> QED
      BY <2>1, <3>2
  <2> HIDE DEF Ends
  <2> QED
    BY <2>2, <2>3
<1>2. /\ request[r].status = "pending"
      /\ code' = Released(code, request[r].code)
      /\ UNCHANGED <<policy, invitation, desk>>
  BY DEF CancelRequest, DecideRequest
<1>3. invitation' \in [Invitations -> InvitationRow] /\ policy' \in {"access_code", "global"}
  BY <1>2 DEF Joins, JoinTypeOK
<1> QED
  BY <1>1, <1>2, <1>3, EndKeeps

LEMMA InvitationChanges ==
  ASSUME NEW row \in InvitationRow
  PROVE  /\ \A status \in {"accepted", "declined", "expired", "revoked", "invalidated"} :
              [row EXCEPT !.status = status] \in InvitationRow
         /\ [row EXCEPT !.late = TRUE] \in InvitationRow
BY DEF InvitationRow

LEMMA InvitationJoins ==
  ASSUME JoinAssumption, Joins, MInv, NEW u \in Users, NEW i \in Invitations,
         (\E target \in Users : CreateInvitation(u, target, i)) \/ RevokeInvitation(u, i)
  PROVE  Joins'
<1>1. UNCHANGED <<policy, code, request, desk>>
  BY DEF CreateInvitation, RevokeInvitation
<1>2. invitation \in [Invitations -> InvitationRow]
  BY DEF Joins, JoinTypeOK
<1>3. invitation' \in [Invitations -> InvitationRow]
  <2>1. ASSUME NEW target \in Users, CreateInvitation(u, target, i)
        PROVE  invitation' \in [Invitations -> InvitationRow]
    <3>1. [status |-> "pending", inviter |-> u, target |-> target,
           tenure |-> space.version, late |-> FALSE] \in InvitationRow
      BY OwnerKnown DEF InvitationRow
    <3> QED
      BY <1>2, <2>1, <3>1 DEF CreateInvitation
  <2>2. CASE RevokeInvitation(u, i)
    BY <1>2, <2>2, InvitationChanges DEF RevokeInvitation
  <2> QED
    BY <2>1, <2>2
<1>4. policy' \in {"access_code", "global"}
  BY <1>1 DEF Joins, JoinTypeOK
<1> QED
  BY <1>1, <1>3, <1>4, RequestsUntouched

LEMMA RespondJoins ==
  ASSUME JoinAssumption, Joins, NEW u \in Users, NEW i \in Invitations,
         NEW answer \in {"accepted", "declined"}, RespondInvitation(u, i, answer)
  PROVE  Joins'
<1>1. UNCHANGED <<policy, code, desk>>
  BY DEF RespondInvitation
<1>2. invitation' \in [Invitations -> InvitationRow]
  <2>1. PICK status \in {"accepted", "declined", "expired", "invalidated"} :
          invitation' = [invitation EXCEPT ![i].status = status]
    BY DEF RespondInvitation, Unanswerable
  <2> QED
    BY <2>1, InvitationChanges DEF Joins, JoinTypeOK
<1>3. \/ request' = request
      \/ request' = [q \in Requests |->
                       IF q \in PendingOf(u)
                         THEN [request[q] EXCEPT !.status = "invalidated"]
                         ELSE request[q]]
  BY DEF RespondInvitation
<1>4. \A q \in PendingOf(u) : q \in Requests /\ request[q].status = "pending"
  BY DEF PendingOf
<1>5. ASSUME NEW q \in Requests
      PROVE  /\ request'[q] \in RequestRow
             /\ request'[q].code = request[q].code /\ request'[q].user = request[q].user
             /\ request'[q] = request[q] \/
                (request[q].status = "pending" /\ request'[q].status = "invalidated")
  <2>1. request[q] \in RequestRow /\ "invalidated" \in Verdicts
    BY DEF Joins, JoinTypeOK, Verdicts
  <2>2. request'[q] = request[q] \/
        (q \in PendingOf(u) /\ request'[q] = [request[q] EXCEPT !.status = "invalidated"])
    BY <1>3
  <2> DEFINE ended == [request[q] EXCEPT !.status = "invalidated"]
  <2>3. /\ ended \in RequestRow /\ ended.status = "invalidated"
        /\ ended.code = request[q].code /\ ended.user = request[q].user
    BY <2>1, RequestChanges
  <2>4. CASE request'[q] = request[q]
    BY <2>1, <2>4
  <2>5. CASE q \in PendingOf(u) /\ request'[q] = ended
    <3> HIDE DEF ended
    <3> QED
      BY <1>4, <2>3, <2>5
  <2> QED
    BY <2>2, <2>4, <2>5
<1>6. request' \in [Requests -> RequestRow]
  BY <1>3, <1>5 DEF Joins, JoinTypeOK
<1>7. JoinTypeOK'
  BY <1>1, <1>2, <1>6 DEF Joins, JoinTypeOK
<1>8. \A q \in Requests : Moves(q)
  BY <1>5 DEF Moves
<1> QED
  BY <1>1, <1>5, <1>7, <1>8, QuietStep

LEMMA LapseJoins ==
  ASSUME JoinAssumption, Joins, Lapse
  PROVE  Joins'
<1>1. UNCHANGED <<policy, desk>> /\ policy' \in {"access_code", "global"}
  BY DEF Lapse, Joins, JoinTypeOK
<1>2. ASSUME NEW c \in Codes, code' = [code EXCEPT ![c].late = TRUE],
             UNCHANGED <<request, invitation>>
      PROVE  Joins'
  <2> DEFINE row == [code[c] EXCEPT !.late = TRUE]
  <2>1. row \in CodeRow /\ row.pending = code[c].pending /\ row.used = code[c].used
    BY DEF Joins, JoinTypeOK, CodeRow
  <2>2. code' = [code EXCEPT ![c] = row]
    BY <1>2
  <2>3. invitation' \in [Invitations -> InvitationRow]
    BY <1>2 DEF Joins, JoinTypeOK
  <2> HIDE DEF row
  <2> QED
    BY <1>1, <1>2, <2>1, <2>2, <2>3, RequestsUntouched
<1>3. ASSUME NEW r \in Requests, request[r].status = "pending",
             request' = [request EXCEPT ![r].late = TRUE], UNCHANGED <<code, invitation>>
      PROVE  Joins'
  <2> DEFINE row == [request[r] EXCEPT !.late = TRUE]
  <2>1. request[r] \in RequestRow
    BY DEF Joins, JoinTypeOK
  <2>2. row \in RequestRow /\ row.status = "pending"
        /\ row.user = request[r].user /\ row.code = request[r].code
    BY <1>3, <2>1, RequestChanges, "pending" \in Verdicts DEF Verdicts
  <2>3. request' = [request EXCEPT ![r] = row]
    BY <1>3
  <2> HIDE DEF row
  <2>4. request' \in [Requests -> RequestRow]
        /\ \A q \in Requests : request'[q] = IF q = r THEN row ELSE request[q]
    BY <2>2, <2>3 DEF Joins, JoinTypeOK
  <2>5. JoinTypeOK'
    BY <1>1, <1>3, <2>4 DEF Joins, JoinTypeOK
  <2>6. \A q \in Requests : Moves(q)
    BY <1>3, <2>2, <2>4 DEF Moves
  <2> QED
    BY <1>1, <1>3, <2>2, <2>4, <2>5, <2>6, QuietStep
<1>4. ASSUME NEW i \in Invitations, invitation' = [invitation EXCEPT ![i].late = TRUE],
             UNCHANGED <<code, request>>
      PROVE  Joins'
  <2>1. invitation' \in [Invitations -> InvitationRow]
    BY <1>4, InvitationChanges DEF Joins, JoinTypeOK
  <2> QED
    BY <1>1, <1>4, <2>1, RequestsUntouched
<1> QED
  BY <1>2, <1>3, <1>4 DEF Lapse

LEMMA DoorJoins ==
  ASSUME JoinAssumption, Joins, NEW u \in Users,
         JoinByCode(u) \/ GlobalJoin(u) \/ SwitchPolicy(u)
  PROVE  Joins'
<1>1. UNCHANGED <<code, request, invitation, desk>> /\ policy' \in {"access_code", "global"}
  BY DEF JoinByCode, GlobalJoin, SwitchPolicy, joinVars, Joins, JoinTypeOK
<1>2. invitation' \in [Invitations -> InvitationRow]
  BY <1>1 DEF Joins, JoinTypeOK
<1> QED
  BY <1>1, <1>2, RequestsUntouched

LEMMA ReviewJoins ==
  ASSUME JoinAssumption, Joins, ReviewNext
  PROVE  Joins'
<1>1. UNCHANGED <<policy, code, invitation>> /\ invitation' \in [Invitations -> InvitationRow]
  BY DEF ReviewNext, OpenReview, WriteReview, DropReview, Joins, JoinTypeOK
<1>2. ASSUME NEW u \in Users, NEW r \in Requests, NEW verdict \in {"approved", "rejected"},
             OpenReview(u, r, verdict)
      PROVE  Joins'
  <2> DEFINE review == [by |-> u, request |-> r, verdict |-> verdict]
  <2>1. review \in Review /\ review.request = r
    BY DEF Review
  <2>2. desk' = review /\ request' = request /\ request[r].status = "pending"
    BY <1>2 DEF OpenReview
  <2> HIDE DEF review
  <2>3. JoinTypeOK' /\ Named'
    BY <1>1, <2>1, <2>2 DEF Joins, JoinTypeOK, Named
  <2>4. CodeBudget'
    BY <1>1, <2>2, QuietKeeps
  <2> QED
    BY <2>3, <2>4 DEF Joins
<1>3. CASE WriteReview
  <2>1. desk \in Review
    BY <1>3 DEF WriteReview, Joins, JoinTypeOK
  <2>2. PICK r \in Requests, v \in Users, verdict \in {"approved", "rejected"} :
          r = desk.request /\ v = desk.by /\ verdict = desk.verdict
    BY <2>1 DEF Review
  <2>3. /\ request' = [request EXCEPT ![r].status = verdict, ![r].reviewer = v]
        /\ desk' = NoReview /\ request[r].status # "unused"
    BY <1>3, <2>2 DEF WriteReview, Joins, Named
  <2>4. verdict \in Verdicts /\ verdict # "pending"
    BY DEF Verdicts
  <2>5. /\ request' \in [Requests -> RequestRow]
        /\ \A q \in Requests : Moves(q)
        /\ \A q \in Requests \ {r} : request'[q] = request[q]
        /\ request'[r].status = verdict /\ request'[r].code = request[r].code
    BY <2>3, <2>4, OneEnds DEF Joins
  <2>6. JoinTypeOK'
    BY <1>1, <2>3, <2>5 DEF Joins, JoinTypeOK
  <2> QED
    BY <1>1, <2>3, <2>4, <2>5, <2>6, QuietStep
<1>4. CASE DropReview
  <2>1. desk' = NoReview /\ request' = request
    BY <1>4 DEF DropReview
  <2>2. JoinTypeOK' /\ \A q \in Requests : Moves(q)
    BY <1>1, <2>1 DEF Joins, JoinTypeOK, Moves
  <2> QED
    BY <1>1, <2>1, <2>2, QuietStep
<1> QED
  BY <1>2, <1>3, <1>4 DEF ReviewNext

(* Every step keeps the join workflow's invariant. *)
LEMMA NextJoins ==
  ASSUME JoinAssumption, Joins, MInv, Next
  PROVE  Joins'
<1>1. CASE UNCHANGED joinVars
  <2>1. UNCHANGED <<policy, code, request, invitation, desk>>
    BY <1>1 DEF joinVars
  <2>2. policy' \in {"access_code", "global"} /\ invitation' \in [Invitations -> InvitationRow]
    BY <2>1 DEF Joins, JoinTypeOK
  <2> QED
    BY <2>1, <2>2, RequestsUntouched
<1>2. CASE JoinNext
  <2>1. CASE \E u \in Users, c \in Codes :
               \/ IssueCode(u, c) \/ RevokeCode(u, c) \/ RedeemExpires(u, c)
               \/ \E r \in Requests : RedeemCode(u, c, r)
    BY <2>1, CodeStatusJoins, RedeemJoins
  <2>2. CASE \E u \in Users, r \in Requests :
               \/ DiscoveryRequest(u, r)
               \/ CancelRequest(u, r)
               \/ \E verdict \in {"approved", "rejected"} : DecideRequest(u, r, verdict)
    BY <2>2, DiscoveryJoins, EndedJoins
  <2>3. CASE \E u \in Users, i \in Invitations :
               \/ \E target \in Users : CreateInvitation(u, target, i)
               \/ RevokeInvitation(u, i)
               \/ \E answer \in {"accepted", "declined"} : RespondInvitation(u, i, answer)
    BY <2>3, InvitationJoins, RespondJoins
  <2>4. CASE \E u \in Users : JoinByCode(u) \/ GlobalJoin(u) \/ SwitchPolicy(u)
    BY <2>4, DoorJoins
  <2> QED
    BY <1>2, <2>1, <2>2, <2>3, <2>4, LapseJoins DEF JoinNext
<1> QED
  BY <1>1, <1>2, ReviewJoins DEF Next

(* The inductive invariant of the composition. *)
IInv == MInv /\ Joins

LEMMA NextIInv ==
  ASSUME JoinAssumption, IInv, [Next]_vars
  PROVE  IInv'
<1>1. CASE Next
  <2>1. MInv'
    BY <1>1, NextMembers DEF IInv, JInv, Joins
  <2> QED
    BY <1>1, <2>1, NextJoins DEF IInv
<1>2. CASE UNCHANGED vars
  <2>1. UNCHANGED memberVars /\ UNCHANGED joinVars
    BY <1>2 DEF vars, memberVars, joinVars
  <2>2. MInv'
    BY <2>1, MembersUntouched DEF IInv
  <2>3. policy' \in {"access_code", "global"} /\ invitation' \in [Invitations -> InvitationRow]
        /\ UNCHANGED <<request, desk, code>>
    BY <2>1 DEF joinVars, IInv, Joins, JoinTypeOK
  <2>4. Joins'
    BY <2>3, RequestsUntouched DEF IInv
  <2> QED
    BY <2>2, <2>4 DEF IInv
<1> QED
  BY <1>1, <1>2

LEMMA Invariance == Spec => []IInv
<1>1. Init => IInv
  BY MembersInitOK, JoinsInit, MembersAssumption, JoinAssumption DEF Init, IInv
<1>2. IInv /\ [Next]_vars => IInv'
  BY NextIInv, JoinAssumption
<1> QED
  BY <1>1, <1>2, PTL DEF Spec

-----------------------------------------------------------------------------
(* Every reachable state has well-formed rows, in both halves of the model. *)
THEOREM TypeTheorem == Spec => [](TypeOK /\ JoinTypeOK)
<1>1. IInv => TypeOK /\ JoinTypeOK
  BY DEF IInv, MInv, Joins
<1> QED
  BY <1>1, Invariance, PTL

(* The workspace has exactly one owner row, that of its canonical owner, in  *)
(* force and backed by an active account, through every transfer, removal,   *)
(* offboarding, join and older door: the services never need the trigger.    *)
THEOREM OwnerTheorem == Spec => []OwnerMirror
<1>1. IInv => OwnerMirror
  BY DEF IInv, MInv
<1> QED
  BY <1>1, Invariance, PTL

(* No nomination outlives the owner who made it, or his tenure. *)
THEOREM PendingTheorem == Spec => []PendingIsCurrent
<1>1. IInv => PendingIsCurrent
  BY DEF IInv, MInv
<1> QED
  BY <1>1, Invariance, PTL

(* A code admits no more than it was issued for, however its requests end. *)
THEOREM BudgetTheorem == Spec => []CodeBudget
<1>1. IInv => CodeBudget
  BY DEF IInv, Joins
<1> QED
  BY <1>1, Invariance, PTL

-----------------------------------------------------------------------------
(* What an admission does to the rows. *)
Lets(u) == \/ member' = member
           \/ /\ ~IsEffective(member[u])
              /\ \E invited \in BOOLEAN : member' = Admitted(u, invited)

LEMMA LetsKeepsStanding ==
  ASSUME IInv, NEW u \in Users, Lets(u), NEW v \in Users
  PROVE  \/ member'[v] = member[v]
         \/ ~IsEffective(member[v]) /\ member'[v].role = "guest"
<1>1. CASE member' = member
  BY <1>1
<1>2. ASSUME NEW invited \in BOOLEAN, ~IsEffective(member[u]), member' = Admitted(u, invited)
      PROVE  \/ member'[v] = member[v]
             \/ ~IsEffective(member[v]) /\ member'[v].role = "guest"
  <2>1. Fresh("guest", invited).role = "guest"
    BY DEF Fresh
  <2> QED
    BY <1>2, <2>1 DEF Admitted, IInv, MInv, TypeOK
<1> QED
  BY <1>1, <1>2 DEF Lets

LEMMA JoinLets ==
  ASSUME IInv, JoinNext
  PROVE  \E u \in Users : Lets(u)
<1>1. Users # {}
  BY OwnerKnown DEF IInv
<1>2. CASE member' = member
  BY <1>1, <1>2 DEF Lets
<1>3. ASSUME NEW u \in Users, member' = AdmittedUnlessIn(u, TRUE)
      PROVE  Lets(u)
  BY <1>3, TRUE \in BOOLEAN DEF AdmittedUnlessIn, Lets
<1>4. ASSUME NEW u \in Users, JoinByCode(u) \/ GlobalJoin(u)
      PROVE  Lets(u)
  <2>1. member[u].invited \in BOOLEAN
    <3>1. CASE member[u] = NoRow
      BY <3>1, NoRow.invited = FALSE DEF NoRow
    <3>2. CASE member[u] # NoRow
      BY <3>2, RowFields DEF IInv, MInv, Row
    <3> QED
      BY <3>1, <3>2
  <2> QED
    BY <1>4, <2>1 DEF JoinByCode, GlobalJoin, Lets
<1>5. ASSUME NEW u \in Users, NEW c \in Codes,
             \/ IssueCode(u, c) \/ RevokeCode(u, c) \/ RedeemExpires(u, c)
             \/ \E r \in Requests : RedeemCode(u, c, r)
      PROVE  member' = member
  BY <1>5 DEF IssueCode, RevokeCode, RedeemExpires, RedeemCode, memberVars
<1>6. ASSUME NEW u \in Users, NEW r \in Requests,
             DiscoveryRequest(u, r) \/ CancelRequest(u, r)
      PROVE  member' = member
  BY <1>6 DEF DiscoveryRequest, CancelRequest, memberVars
<1>7. ASSUME NEW u \in Users, NEW r \in Requests, NEW verdict \in {"approved", "rejected"},
             DecideRequest(u, r, verdict)
      PROVE  \E v \in Users : Lets(v)
  <2>1. request[r].user \in Users
    BY <1>7 DEF DecideRequest, IInv, Joins, Named
  <2>2. member' = member \/ member' = AdmittedUnlessIn(request[r].user, TRUE)
    BY <1>7 DEF DecideRequest
  <2> QED
    BY <1>2, <1>3, <2>1, <2>2
<1>8. ASSUME NEW u \in Users, NEW i \in Invitations,
             \/ \E target \in Users : CreateInvitation(u, target, i)
             \/ RevokeInvitation(u, i)
      PROVE  member' = member
  BY <1>8 DEF CreateInvitation, RevokeInvitation, memberVars
<1>9. ASSUME NEW u \in Users, NEW i \in Invitations, NEW answer \in {"accepted", "declined"},
             RespondInvitation(u, i, answer)
      PROVE  \E v \in Users : Lets(v)
  <2>1. member' = member \/ member' = AdmittedUnlessIn(u, TRUE)
    BY <1>9 DEF RespondInvitation
  <2> QED
    BY <1>2, <1>3, <2>1
<1>10. ASSUME NEW u \in Users, SwitchPolicy(u)
       PROVE  member' = member
  BY <1>10 DEF SwitchPolicy, memberVars
<1>11. Lapse => member' = member
  BY DEF Lapse, memberVars
<1> HIDE DEF Lets
<1> QED
  BY <1>2, <1>4, <1>5, <1>6, <1>7, <1>8, <1>9, <1>10, <1>11 DEF JoinNext

(* The join workflow admits and never changes a standing, for any limits. *)
THEOREM StandingTheorem == Spec => JoinKeepsStanding
<1>1. IInv /\ [Next]_vars =>
        [\A u \in Users :
           \/ member'[u] = member[u]
           \/ ~IsEffective(member[u]) /\ member'[u].role = "guest"
           \/ ~JoinNext]_vars
  <2>1. ASSUME IInv, JoinNext, NEW v \in Users
        PROVE  \/ member'[v] = member[v]
               \/ ~IsEffective(member[v]) /\ member'[v].role = "guest"
    BY <2>1, JoinLets, LetsKeepsStanding, OwnerKnown DEF IInv
  <2> QED
    BY <2>1
<1> QED
  BY <1>1, Invariance, PTL DEF Spec, JoinKeepsStanding

(* An invitation is accepted only under the tenure that issued it. *)
THEOREM AuthorityTheorem == Spec => AcceptedUnderAuthority
<1>1. IInv /\ [Next]_vars =>
        [\A i \in Invitations :
           invitation[i].status # "accepted" /\ invitation'[i].status = "accepted" =>
             /\ invitation[i].inviter = space.owner
             /\ invitation[i].tenure = space.version]_vars
  <2> SUFFICES ASSUME IInv, Next, NEW i \in Invitations,
                      invitation[i].status # "accepted", invitation'[i].status = "accepted"
               PROVE  /\ invitation[i].inviter = space.owner
                      /\ invitation[i].tenure = space.version
    BY DEF vars
  <2>1. invitation' # invitation
    OBVIOUS
  <2>2. invitation \in [Invitations -> InvitationRow]
    BY DEF IInv, Joins, JoinTypeOK
  <2>3. ASSUME NEW u \in Users, NEW j \in Invitations, NEW answer \in {"accepted", "declined"},
               RespondInvitation(u, j, answer)
        PROVE  /\ invitation[i].inviter = space.owner
               /\ invitation[i].tenure = space.version
    <3>1. PICK status \in {"accepted", "declined", "expired", "invalidated"} :
            /\ invitation' = [invitation EXCEPT ![j].status = status]
            /\ status = "accepted" => Unanswerable(j) = "none"
      BY <2>3 DEF RespondInvitation, Unanswerable
    <3>2. i = j
      BY <2>2, <3>1
    <3>3. status = "accepted"
      BY <2>2, <3>1, <3>2 DEF InvitationRow
    <3> QED
      BY <3>1, <3>2, <3>3 DEF Unanswerable
  <2>4. ASSUME NEW u \in Users, NEW j \in Invitations,
               \/ \E target \in Users : CreateInvitation(u, target, j)
               \/ RevokeInvitation(u, j)
        PROVE  FALSE
    <3>1. ASSUME NEW row, row.status # "accepted", invitation' = [invitation EXCEPT ![j] = row]
          PROVE  FALSE
      BY <2>2, <3>1
    <3>2. CASE RevokeInvitation(u, j)
      <4>1. [invitation[j] EXCEPT !.status = "revoked"].status # "accepted"
        BY <2>2 DEF InvitationRow
      <4> QED
        BY <3>1, <3>2, <4>1 DEF RevokeInvitation
    <3>3. ASSUME NEW target \in Users, CreateInvitation(u, target, j)
          PROVE  FALSE
      BY <3>1, <3>3 DEF CreateInvitation
    <3> QED
      BY <2>4, <3>2, <3>3
  <2>5. ASSUME NEW j \in Invitations, invitation' = [invitation EXCEPT ![j].late = TRUE]
        PROVE  FALSE
    BY <2>2, <2>5 DEF InvitationRow
  <2>6. CASE Lapse
    BY <2>1, <2>5, <2>6 DEF Lapse
  <2>7. CASE ReviewNext
    BY <2>1, <2>7 DEF ReviewNext, OpenReview, WriteReview, DropReview
  <2>8. CASE UNCHANGED joinVars
    BY <2>1, <2>8 DEF joinVars
  <2>9. CASE JoinNext /\ ~Lapse
    <3>1. ASSUME NEW u \in Users, JoinByCode(u) \/ GlobalJoin(u) \/ SwitchPolicy(u)
          PROVE  FALSE
      BY <2>1, <3>1 DEF JoinByCode, GlobalJoin, SwitchPolicy, joinVars
    <3>2. ASSUME NEW u \in Users, NEW c \in Codes,
                 \/ IssueCode(u, c) \/ RevokeCode(u, c) \/ RedeemExpires(u, c)
                 \/ \E r \in Requests : RedeemCode(u, c, r)
          PROVE  FALSE
      BY <2>1, <3>2 DEF IssueCode, RevokeCode, RedeemExpires, RedeemCode
    <3>3. ASSUME NEW u \in Users, NEW r \in Requests,
                 \/ DiscoveryRequest(u, r) \/ CancelRequest(u, r)
                 \/ \E verdict \in {"approved", "rejected"} : DecideRequest(u, r, verdict)
          PROVE  FALSE
      BY <2>1, <3>3 DEF DiscoveryRequest, CancelRequest, DecideRequest
    <3> QED
      BY <2>3, <2>4, <2>9, <3>1, <3>2, <3>3 DEF JoinNext
  <2> QED
    BY <2>6, <2>7, <2>8, <2>9 DEF Next
<1> QED
  BY <1>1, Invariance, PTL DEF Spec, AcceptedUnderAuthority

-----------------------------------------------------------------------------
(* Ownership *)

Stands == IF transfer.status = "pending" THEN transfer.to ELSE NoUser

LEMMA StandsKnown ==
  ASSUME IInv
  PROVE  /\ transfer.status = "pending" => Stands = transfer.to /\ Stands \in Users
                                           /\ Stands # space.owner /\ Stands # NoUser
         /\ transfer.status # "pending" => Stands = NoUser
         /\ space.version \in Nat
BY MembersAssumption DEF IInv, MInv, PendingIsCurrent, Stands, TypeOK, SpaceRow, MembersAssumption

(* The nomination ends or stays, and the owner stays. *)
LEMMA NominationEnds ==
  ASSUME IInv, space'.owner = space.owner, space'.version = space.version,
         transfer' = transfer \/ transfer'.status # "pending"
  PROVE  [Ownership!Next]_(Ownership!vars)
<1>1. Stands' = Stands \/ Stands' = NoUser
  BY DEF Stands
<1>2. CASE Stands' = Stands
  BY <1>2 DEF Ownership!vars, Stands
<1>3. CASE Stands' = NoUser /\ Stands # NoUser
  BY <1>3 DEF Ownership!Next, Ownership!Drop, Stands
<1> QED
  BY <1>1, <1>2, <1>3

(* Ownership passes by force. *)
LEMMA Overrides ==
  ASSUME IInv, NEW to \in Users, to # space.owner,
         space' = [space EXCEPT !.owner = to, !.version = @ + 1],
         transfer'.status # "pending"
  PROVE  [Ownership!Next]_(Ownership!vars)
<1>1. space'.owner = to /\ space'.version = space.version + 1
  BY OwnerKnown DEF IInv
<1>2. Ownership!Override(to)
  BY <1>1 DEF Ownership!Override
<1> QED
  BY <1>2 DEF Ownership!Next

LEMMA VoidedEnds ==
  ASSUME IInv
  PROVE  Voided.status # "pending"
BY VoidedTyped DEF IInv

LEMMA OwnershipActions ==
  ASSUME IInv, OwnershipNext
  PROVE  [Ownership!Next]_(Ownership!vars)
<1>1. ASSUME NEW u \in Users, NEW to \in Users, RequestTransfer(u, to)
      PROVE  [Ownership!Next]_(Ownership!vars)
  <2>1. /\ Stands = NoUser /\ Stands' = to /\ to # space.owner /\ space' = space
    BY <1>1 DEF RequestTransfer, NobodyStands, Stands
  <2>2. Ownership!Nominate(to)
    BY <2>1 DEF Ownership!Nominate, Stands
  <2> QED
    BY <2>2 DEF Ownership!Next
<1>2. ASSUME NEW u \in Users, NEW to \in Users, ForceTransfer(u, to)
      PROVE  [Ownership!Next]_(Ownership!vars)
  BY <1>2, VoidedEnds, Overrides DEF ForceTransfer, MayForce
<1>3. ASSUME NEW u \in Users, AcceptTransfer(u)
      PROVE  [Ownership!Next]_(Ownership!vars)
  <2>1. CASE transfer.late \/ NominationVoid(u)
    <3>1. /\ space' = space
          /\ transfer' = [transfer EXCEPT !.status = "expired"]
             \/ transfer' = [transfer EXCEPT !.status = "invalidated"]
      BY <1>3, <2>1 DEF AcceptTransfer
    <3>2. transfer'.status # "pending"
      BY <3>1, TransferStatus DEF IInv
    <3> QED
      BY <3>1, <3>2, NominationEnds
  <2>2. CASE ~transfer.late /\ ~NominationVoid(u)
    <3>1. /\ transfer.status = "pending" /\ transfer.to = u
          /\ space' = [space EXCEPT !.owner = u, !.version = @ + 1]
          /\ transfer' = [transfer EXCEPT !.status = "completed"]
      BY <1>3, <2>2 DEF AcceptTransfer
    <3>2. space'.owner = u /\ space'.version = space.version + 1
      BY <3>1, OwnerKnown DEF IInv
    <3>3. transfer'.status # "pending"
      BY <3>1, TransferStatus DEF IInv
    <3>4. Stands = u /\ Stands # NoUser /\ Stands' = NoUser
      BY <3>1, <3>3, StandsKnown DEF Stands
    <3>5. Ownership!TakeOver
      BY <3>2, <3>4 DEF Ownership!TakeOver, Stands
    <3> QED
      BY <3>5 DEF Ownership!Next
  <2> QED
    BY <2>1, <2>2
<1>4. ASSUME NEW u \in Users, DeclineTransfer(u) \/ CancelTransfer(u)
      PROVE  [Ownership!Next]_(Ownership!vars)
  <2>1. transfer'.status # "pending" /\ space' = space
    BY <1>4, TransferStatus DEF DeclineTransfer, CancelTransfer, IInv
  <2> QED
    BY <2>1, NominationEnds
<1> QED
  BY <1>1, <1>2, <1>3, <1>4 DEF OwnershipNext

LEMMA ManageActions ==
  ASSUME IInv, ManageNext
  PROVE  [Ownership!Next]_(Ownership!vars)
<1>1. ASSUME NEW u \in Users, NEW target \in Users,
             \/ \E role \in MutableRoles, status \in {"active", "revoked"},
                   term \in {"none", "timed", "over"} :
                  UpdateMember(u, target, role, status, term)
             \/ RemoveMember(u, target)
             \/ \E role \in MutableRoles : AssignRole(u, target, role)
             \/ UnassignRole(u, target)
      PROVE  [Ownership!Next]_(Ownership!vars)
  <2>1. space' = space /\ (transfer' = transfer \/ transfer' = Voided)
    BY <1>1 DEF UpdateMember, RemoveMember, AssignRole, UnassignRole
  <2> QED
    BY <2>1, VoidedEnds, NominationEnds
<1>2. ASSUME NEW u \in Users, NEW target \in Users, NEW successor \in Users,
             Offboard(u, target, successor)
      PROVE  [Ownership!Next]_(Ownership!vars)
  <2>1. CASE space.owner = target
    BY <1>2, <2>1, VoidedEnds, Overrides DEF Offboard, MayForce
  <2>2. CASE space.owner # target
    BY <1>2, <2>2, NominationEnds DEF Offboard
  <2> QED
    BY <2>1, <2>2
<1> QED
  BY <1>1, <1>2 DEF ManageNext

LEMMA LifecycleActions ==
  ASSUME IInv, LifecycleNext \/ InviteCodeNext
  PROVE  [Ownership!Next]_(Ownership!vars)
<1>1. CASE NominationLapses
  <2>1. /\ transfer'.status = transfer.status /\ transfer'.to = transfer.to
        /\ space' = space
    BY <1>1 DEF NominationLapses, IInv, MInv, TypeOK, TransferRow
  <2> QED
    BY <2>1 DEF Ownership!vars
<1>2. CASE ArchiveWorkspace \/ RestoreWorkspace
  <2>1. /\ space'.owner = space.owner /\ space'.version = space.version
        /\ transfer' = transfer
    BY <1>2 DEF ArchiveWorkspace, RestoreWorkspace, IInv, MInv, TypeOK, SpaceRow
  <2> QED
    BY <2>1, NominationEnds
<1>3. ASSUME NEW u \in Users, TermEnds(u) \/ Reactivate(u)
      PROVE  [Ownership!Next]_(Ownership!vars)
  BY <1>3, NominationEnds DEF TermEnds, Reactivate
<1>4. CASE InviteCodeNext
  BY <1>4, NominationEnds DEF InviteCodeNext, JoinWithInviteCode
<1> QED
  BY <1>1, <1>2, <1>3, <1>4 DEF LifecycleNext

LEMMA JoinActions ==
  ASSUME IInv, JoinNext \/ ReviewNext \/ UNCHANGED vars
  PROVE  [Ownership!Next]_(Ownership!vars)
<1>1. space' = space /\ transfer' = transfer
  <2>1. CASE ReviewNext
    BY <2>1 DEF ReviewNext, OpenReview, WriteReview, DropReview, memberVars
  <2>2. CASE UNCHANGED vars
    BY <2>2 DEF vars
  <2>3. CASE JoinNext
    <3>1. CASE Lapse
      BY <3>1 DEF Lapse, memberVars
    <3>2. ASSUME NEW u \in Users, JoinByCode(u) \/ GlobalJoin(u) \/ SwitchPolicy(u)
          PROVE  space' = space /\ transfer' = transfer
      BY <3>2 DEF JoinByCode, GlobalJoin, SwitchPolicy, memberVars
    <3>3. ASSUME NEW u \in Users, NEW c \in Codes,
                 \/ IssueCode(u, c) \/ RevokeCode(u, c) \/ RedeemExpires(u, c)
                 \/ \E r \in Requests : RedeemCode(u, c, r)
          PROVE  space' = space /\ transfer' = transfer
      BY <3>3 DEF IssueCode, RevokeCode, RedeemExpires, RedeemCode, memberVars
    <3>4. ASSUME NEW u \in Users, NEW r \in Requests,
                 \/ DiscoveryRequest(u, r) \/ CancelRequest(u, r)
                 \/ \E verdict \in {"approved", "rejected"} : DecideRequest(u, r, verdict)
          PROVE  space' = space /\ transfer' = transfer
      BY <3>4 DEF DiscoveryRequest, CancelRequest, DecideRequest, memberVars
    <3>5. ASSUME NEW u \in Users, NEW i \in Invitations,
                 \/ \E target \in Users : CreateInvitation(u, target, i)
                 \/ RevokeInvitation(u, i)
                 \/ \E answer \in {"accepted", "declined"} : RespondInvitation(u, i, answer)
          PROVE  space' = space /\ transfer' = transfer
      BY <3>5 DEF CreateInvitation, RevokeInvitation, RespondInvitation, memberVars
    <3> QED
      BY <2>3, <3>1, <3>2, <3>3, <3>4, <3>5 DEF JoinNext
  <2> QED
    BY <2>1, <2>2, <2>3
<1> QED
  BY <1>1, NominationEnds

(* Whatever door is used, in whatever order, the workspace is the ownership *)
(* register of OwnershipContract: the owner changes only by an acceptance   *)
(* of the standing nominee or by an administrator's override.               *)
THEOREM OwnershipTheorem == Spec => ImplementsOwnership
<1>1. Init => Ownership!Init
  <2> SUFFICES ASSUME Init PROVE Ownership!Init
    OBVIOUS
  <2>1. PICK u \in Founders : space = [status |-> "active", owner |-> u, version |-> 0]
    BY DEF Init, MembersInit
  <2>2. space.owner \in Users /\ space.version = 0
    BY <2>1, MembersAssumption DEF MembersAssumption
  <2>3. transfer.status # "pending"
    BY DEF Init, MembersInit, NoTransfer
  <2> QED
    BY <2>2, <2>3 DEF Ownership!Init
<1>2. IInv /\ [Next]_vars => [Ownership!Next]_(Ownership!vars)
  BY OwnershipActions, ManageActions, LifecycleActions, JoinActions DEF Next, MembersNext
<1> QED
  BY <1>1, <1>2, Invariance, PTL DEF Spec, ImplementsOwnership, Ownership!Spec

-----------------------------------------------------------------------------
(* The contract alone makes the version the name of the tenure ... *)
LEMMA ContractTenures ==
  Ownership!Spec => []Ownership!NomineeIsOther /\ Ownership!VersionNamesTenure
<1> DEFINE Known == /\ space.owner \in Users /\ space.version \in Nat
                    /\ Stands \in Users \cup {NoUser} /\ Stands # space.owner
           Tenure == /\ space'.owner # space.owner =>
                          space'.version = space.version + 1 /\ Stands' = NoUser
                     /\ space'.owner = space.owner => space'.version = space.version
<1>1. Ownership!Init => Known
  BY MembersAssumption DEF Ownership!Init, Stands, MembersAssumption
<1>2. Known /\ [Ownership!Next]_(Ownership!vars) => Known' /\ Tenure
  <2> SUFFICES ASSUME Known, [Ownership!Next]_(Ownership!vars) PROVE Known' /\ Tenure
    OBVIOUS
  <2>1. ASSUME NEW u \in Users, Ownership!Nominate(u) PROVE Known' /\ Tenure
    BY <2>1 DEF Ownership!Nominate, Stands
  <2>2. ASSUME NEW u \in Users, Ownership!Override(u) PROVE Known' /\ Tenure
    BY <2>2, MembersAssumption DEF Ownership!Override, Stands, MembersAssumption
  <2>3. CASE Ownership!Drop \/ UNCHANGED Ownership!vars
    BY <2>3, MembersAssumption DEF Ownership!Drop, Ownership!vars, Stands, MembersAssumption
  <2>4. CASE Ownership!TakeOver
    <3>1. Stands # NoUser /\ space'.owner = Stands /\ space'.version = space.version + 1
          /\ Stands' = NoUser
      BY <2>4 DEF Ownership!TakeOver, Stands
    <3>2. Stands # space.owner /\ space.version \in Nat /\ Stands \in Users
      BY <3>1
    <3>3. space'.owner \in Users /\ space'.version \in Nat /\ Stands' # space'.owner
      BY <3>1, <3>2, MembersAssumption DEF MembersAssumption
    <3> QED  BY <3>1, <3>2, <3>3
  <2> QED  BY <2>1, <2>2, <2>3, <2>4 DEF Ownership!Next
<1>3. Known => Ownership!NomineeIsOther
  BY DEF Ownership!NomineeIsOther, Stands
<1>4. Tenure => [Ownership!TenureStep]_(Ownership!vars)
  BY DEF Ownership!TenureStep, Stands
<1> HIDE DEF Known, Tenure
<1> QED  BY <1>1, <1>2, <1>3, <1>4, PTL DEF Ownership!Spec, Ownership!VersionNamesTenure

(* ... so it is in the services: the version an invitation or a nomination  *)
(* was made under tells whether the same owner has been there ever since.  *)
THEOREM TenureTheorem == Spec => []Ownership!NomineeIsOther /\ Ownership!VersionNamesTenure
BY OwnershipTheorem, ContractTenures, PTL DEF ImplementsOwnership

-----------------------------------------------------------------------------
(* Verdicts *)

Closed(r) == request[r].status \notin {"unused", "pending"}

Overruled(r) ==
  /\ desk # NoReview /\ desk.request = r
  /\ request'[r] = [request[r] EXCEPT !.status = desk.verdict, !.reviewer = desk.by]

(* The request services write new and pending rows only. *)
LEMMA ServicesKeepVerdicts ==
  ASSUME IInv, JoinNext \/ UNCHANGED joinVars, NEW r \in Requests, Closed(r)
  PROVE  request'[r] = request[r]
<1>0. request \in [Requests -> RequestRow]
  BY DEF IInv, Joins, JoinTypeOK
<1>1. CASE UNCHANGED joinVars
  BY <1>1 DEF joinVars
<1>2. ASSUME NEW u \in Users, NEW c \in Codes,
             IssueCode(u, c) \/ RevokeCode(u, c) \/ RedeemExpires(u, c)
      PROVE  request'[r] = request[r]
  BY <1>2 DEF IssueCode, RevokeCode, RedeemExpires
<1>3. ASSUME NEW u \in Users, NEW c \in Codes, NEW q \in Requests, RedeemCode(u, c, q)
      PROVE  request'[r] = request[r]
  <2>1. r # q /\ r \notin PendingOf(u)
    BY <1>3 DEF RedeemCode, Closed, PendingOf
  <2> QED
    BY <1>3, <2>1 DEF RedeemCode
<1>4. ASSUME NEW u \in Users, NEW q \in Requests,
             \/ DiscoveryRequest(u, q) \/ CancelRequest(u, q)
             \/ \E verdict \in {"approved", "rejected"} : DecideRequest(u, q, verdict)
      PROVE  request'[r] = request[r]
  <2>1. request[q].status \in {"unused", "pending"}
    BY <1>4 DEF DiscoveryRequest, CancelRequest, DecideRequest
  <2>2. r # q
    BY <2>1 DEF Closed
  <2> QED
    BY <1>0, <1>4, <2>2 DEF DiscoveryRequest, CancelRequest, DecideRequest, Ended
<1>5. ASSUME NEW u \in Users, NEW i \in Invitations,
             \/ \E target \in Users : CreateInvitation(u, target, i)
             \/ RevokeInvitation(u, i)
             \/ \E answer \in {"accepted", "declined"} : RespondInvitation(u, i, answer)
      PROVE  request'[r] = request[r]
  <2>1. r \notin PendingOf(u)
    BY DEF Closed, PendingOf
  <2> QED
    BY <1>5, <2>1 DEF CreateInvitation, RevokeInvitation, RespondInvitation
<1>6. ASSUME NEW u \in Users, JoinByCode(u) \/ GlobalJoin(u) \/ SwitchPolicy(u)
      PROVE  request'[r] = request[r]
  BY <1>6 DEF JoinByCode, GlobalJoin, SwitchPolicy, joinVars
<1>7. CASE Lapse
  <2>1. CASE UNCHANGED request
    BY <2>1
  <2>2. ASSUME NEW q \in Requests, request[q].status = "pending",
               request' = [request EXCEPT ![q].late = TRUE]
        PROVE  request'[r] = request[r]
    <3>1. r # q
      BY <2>2 DEF Closed
    <3> QED
      BY <1>0, <2>2, <3>1
  <2> QED
    BY <1>7, <2>1, <2>2 DEF Lapse
<1> QED
  BY <1>1, <1>2, <1>3, <1>4, <1>5, <1>6, <1>7 DEF JoinNext

(* The review screen writes the one row it was opened on. *)
LEMMA ReviewKeepsVerdicts ==
  ASSUME IInv, ReviewNext, NEW r \in Requests
  PROVE  request'[r] = request[r] \/ Overruled(r)
<1>0. request \in [Requests -> RequestRow]
  BY DEF IInv, Joins, JoinTypeOK
<1>1. CASE WriteReview
  <2>1. desk # NoReview /\ desk.request \in Requests
        /\ request' = [request EXCEPT ![desk.request].status = desk.verdict,
                                      ![desk.request].reviewer = desk.by]
    BY <1>1 DEF WriteReview, IInv, Joins, JoinTypeOK, Review
  <2> QED
    BY <1>0, <2>1 DEF Overruled
<1>2. CASE ~WriteReview
  BY <1>2 DEF ReviewNext, OpenReview, DropReview
<1> QED
  BY <1>1, <1>2

(* No service touches a request that has got its end. *)
THEOREM VerdictTheorem == Spec => VerdictHeld
<1>1. IInv /\ [Next]_vars =>
        [\A r \in Requests :
           \/ request'[r] = request[r]
           \/ request[r].status \in {"unused", "pending"}
           \/ ~JoinNext]_vars
  BY ServicesKeepVerdicts DEF Closed
<1> QED
  BY <1>1, Invariance, PTL DEF Spec, VerdictHeld

(* Where a request that has got its end does change, a review screen that was *)
(* opened on it before writes its own verdict and reviewer, and no more.      *)
THEOREM OverruleTheorem ==
  Spec => [][\A r \in Requests :
               request[r].status \notin {"unused", "pending"} /\ request'[r] # request[r] =>
                 /\ desk # NoReview /\ desk.request = r
                 /\ request'[r] = [request[r] EXCEPT !.status = desk.verdict,
                                                     !.reviewer = desk.by]]_vars
<1>1. IInv /\ [Next]_vars =>
        [\A r \in Requests :
           request[r].status \notin {"unused", "pending"} /\ request'[r] # request[r] =>
             /\ desk # NoReview /\ desk.request = r
             /\ request'[r] = [request[r] EXCEPT !.status = desk.verdict, !.reviewer = desk.by]]_vars
  <2> SUFFICES ASSUME IInv, Next, NEW r \in Requests, Closed(r), request'[r] # request[r]
               PROVE  Overruled(r)
    BY DEF Closed, Overruled
  <2> QED
    BY ServicesKeepVerdicts, ReviewKeepsVerdicts DEF Next
<1> QED
  BY <1>1, Invariance, PTL DEF Spec
=============================================================================
