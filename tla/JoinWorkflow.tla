---------------------------- MODULE JoinWorkflow ----------------------------
(***************************************************************************)
(* How accounts get into the workspace of WorkspaceMembers: access codes,  *)
(* access requests, invitations, the join code and the global door, beside *)
(* the review screen of the administrators, which reads a request in one   *)
(* step and writes its verdict in another.  Join and membership share the  *)
(* workspace row and the membership rows.  An email address stands for the *)
(* account that owns it; the parents of the workspace are active.          *)
(***************************************************************************)
EXTENDS WorkspaceMembers, FiniteSets

CONSTANTS Codes,        \* the access codes that can be issued
          NoCode,       \* a discovery request has no code
          Requests,     \* the access requests that can be made
          Invitations,  \* the invitations that can be made
          MaxUses, MaxPending   \* the limits of a code

ASSUME JoinAssumption == /\ NoCode \notin Codes
                         /\ IsFiniteSet(Requests)
                         /\ MaxUses \in Nat /\ MaxPending \in 1..MaxUses

VARIABLES policy,       \* the join policy of the workspace
          code,         \* the access code rows
          request,      \* the access request rows
          invitation,   \* the invitation rows
          desk          \* the verdict an administrator's screen is about to write

joinVars == <<policy, code, request, invitation, desk>>

vars == <<space, member, account, transfer, policy, code, request, invitation, desk>>

CodeRow == [status : {"unused", "active", "revoked", "expired"}, late : BOOLEAN,
            used : Nat, pending : Nat]

RequestRow == [status : {"unused", "pending", "approved", "rejected", "cancelled",
                         "expired", "invalidated"},
               user : Users \cup {NoUser}, code : Codes \cup {NoCode},
               late : BOOLEAN, reviewer : Users \cup {NoUser}]

InvitationRow == [status : {"unused", "pending", "accepted", "declined", "expired",
                            "revoked", "invalidated"},
                  inviter : Users \cup {NoUser}, target : Users \cup {NoUser},
                  tenure : Nat, late : BOOLEAN]

Review == [by : Users, request : Requests, verdict : {"approved", "rejected"}]

NoReview == [verdict |-> "none"]

UnusedCode == [status |-> "unused", late |-> FALSE, used |-> 0, pending |-> 0]

UnusedRequest == [status |-> "unused", user |-> NoUser, code |-> NoCode,
                  late |-> FALSE, reviewer |-> NoUser]

UnusedInvitation == [status |-> "unused", inviter |-> NoUser, target |-> NoUser,
                     tenure |-> 0, late |-> FALSE]

JoinTypeOK == /\ policy \in {"access_code", "global"}
              /\ code \in [Codes -> CodeRow]
              /\ request \in [Requests -> RequestRow]
              /\ invitation \in [Invitations -> InvitationRow]
              /\ desk \in Review \cup {NoReview}

Init == /\ MembersInit
        /\ policy \in {"access_code", "global"}
        /\ code = [c \in Codes |-> UnusedCode]
        /\ request = [r \in Requests |-> UnusedRequest]
        /\ invitation = [i \in Invitations |-> UnusedInvitation]
        /\ desk = NoReview

-----------------------------------------------------------------------------
(* Authority and helpers *)

OwnsActive(u) == u = space.owner /\ ActsAs(u, "owner") /\ space.status = "active"

OwnsLive(u) == u = space.owner /\ ActsAs(u, "owner")

Manages(u) == /\ account[u] /\ space.status = "active"
              /\ ActsAs(u, "owner") \/ ActsAs(u, "space_admin") \/ u \in Admins

(* Mutant: every request of the account, not only the pending ones. *)
RequestsOf(u) == {r \in Requests : request[r].user = u}

PendingOf(u) == {r \in Requests : request[r].status = "pending" /\ request[r].user = u}

(* A request that leaves the pending state gives its place back to its code. *)
Released(codes, c) ==
  IF c \in Codes /\ codes[c].pending > 0 THEN [codes EXCEPT ![c].pending = @ - 1] ELSE codes

(* Mutant: the expiry branch frees the place and forgets to save the request. *)
EndedUnsaved(r, status) ==
  IF status = "expired" THEN request ELSE [request EXCEPT ![r].status = status]

Ended(r, status) == [request EXCEPT ![r].status = status]

(* Every join gives an account that has no effective row the role guest. *)
Admitted(u, invited) == [member EXCEPT ![u] = Fresh("guest", invited)]

(* Mutant: an approval or an acceptance rewrites a row that is in force. *)
AdmittedAnyway(u, invited) == Admitted(u, invited)

(* An approval or an acceptance never touches a row that is in force. *)
AdmittedUnlessIn(u, invited) ==
  IF IsEffective(member[u]) THEN member ELSE Admitted(u, invited)

-----------------------------------------------------------------------------
(* Access codes *)

IssueCode(u, c) ==
  /\ OwnsActive(u)
  /\ code[c].status = "unused"
  /\ code' = [code EXCEPT ![c].status = "active"]
  /\ UNCHANGED <<memberVars, policy, request, invitation, desk>>

RevokeCode(u, c) ==
  /\ OwnsLive(u)
  /\ code[c].status \in {"active", "expired"}
  /\ code' = [code EXCEPT ![c].status = "revoked"]
  /\ UNCHANGED <<memberVars, policy, request, invitation, desk>>

(* Redeeming: an overdue code is marked expired; an overdue request of the   *)
(* same account is ended first, and that is undone when the limits refuse.  *)
RedeemExpires(u, c) ==
  /\ account[u]
  /\ code[c].status = "active" /\ code[c].late
  /\ code' = [code EXCEPT ![c].status = "expired"]
  /\ UNCHANGED <<memberVars, policy, request, invitation, desk>>

RedeemCode(u, c, r) ==
  LET overdue == {q \in PendingOf(u) : request[q].late}
      freed == IF \E q \in overdue : request[q].code = c THEN Released(code, c) ELSE code
  IN  /\ account[u] /\ space.status = "active"
      /\ code[c].status = "active" /\ ~code[c].late
      /\ ~IsEffective(member[u])
      /\ PendingOf(u) = overdue
      /\ freed[c].used < MaxUses /\ freed[c].pending < MaxPending
      /\ request[r].status = "unused"
      /\ request' = [q \in Requests |->
                       IF q = r THEN [UnusedRequest EXCEPT !.status = "pending",
                                                           !.user = u, !.code = c]
                       ELSE IF q \in overdue THEN [request[q] EXCEPT !.status = "expired"]
                       ELSE request[q]]
      /\ code' = [freed EXCEPT ![c].used = @ + 1, ![c].pending = @ + 1]
      /\ UNCHANGED <<memberVars, policy, invitation, desk>>

-----------------------------------------------------------------------------
(* Access requests *)

(* A request from discovery; one that is already pending, overdue or not, *)
(* is returned as it is.                                                  *)
DiscoveryRequest(u, r) ==
  /\ account[u] /\ space.status = "active"
  /\ ~IsEffective(member[u])
  /\ PendingOf(u) = {}
  /\ request[r].status = "unused"
  /\ request' = [request EXCEPT ![r] = [UnusedRequest EXCEPT !.status = "pending",
                                                             !.user = u]]
  /\ UNCHANGED <<memberVars, policy, code, invitation, desk>>

(* The requester cancels: the request row and the code, not the workspace. *)
CancelRequest(u, r) ==
  /\ account[u]
  /\ request[r].status = "pending" /\ request[r].user = u
  /\ request' = Ended(r, IF request[r].late THEN "expired" ELSE "cancelled")
  /\ code' = Released(code, request[r].code)
  /\ UNCHANGED <<memberVars, policy, invitation, desk>>

(* The owner may reject in an archived workspace, and only there. *)
MayDecide(u, verdict) ==
  IF ActsAs(u, "owner") THEN OwnsLive(u) /\ (space.status = "active" \/ verdict = "rejected")
  ELSE Manages(u)

DecideRequest(u, r, verdict) ==
  /\ MayDecide(u, verdict)
  /\ request[r].status = "pending"
  /\ IF request[r].late
       THEN /\ request' = Ended(r, "expired")
            /\ UNCHANGED member
       ELSE /\ account[request[r].user]
            /\ request' = [request EXCEPT ![r].status = verdict, ![r].reviewer = u]
            /\ member' = IF verdict = "approved" THEN AdmittedUnlessIn(request[r].user, TRUE)
                         ELSE member
  /\ code' = Released(code, request[r].code)
  /\ UNCHANGED <<space, account, transfer, policy, invitation, desk>>

-----------------------------------------------------------------------------
(* Invitations *)

Standing(u) == {i \in Invitations : invitation[i].status = "pending"
                                    /\ invitation[i].target = u}

CreateInvitation(u, target, i) ==
  /\ Manages(u) /\ account[target]
  /\ Standing(target) = {}
  /\ invitation[i].status = "unused"
  /\ invitation' = [invitation EXCEPT ![i] =
                      [status |-> "pending", inviter |-> u, target |-> target,
                       tenure |-> space.version, late |-> FALSE]]
  /\ UNCHANGED <<memberVars, policy, code, request, desk>>

RevokeInvitation(u, i) ==
  /\ OwnsLive(u)
  /\ invitation[i].status = "pending"
  /\ invitation' = [invitation EXCEPT ![i].status = "revoked"]
  /\ UNCHANGED <<memberVars, policy, code, request, desk>>

(* Mutant: the inviter must be the owner, in whatever tenure. *)
UnanswerableAnyTenure(i) ==
  IF invitation[i].late THEN "expired"
  ELSE IF space.status # "active" \/ invitation[i].inviter # space.owner THEN "invalidated"
  ELSE "none"

(* What the invitation becomes when it can no longer be answered. *)
Unanswerable(i) ==
  IF invitation[i].late THEN "expired"
  ELSE IF \/ space.status # "active"
          \/ invitation[i].tenure # space.version
          \/ invitation[i].inviter # space.owner
       THEN "invalidated"
       ELSE "none"

(* The guest answers.  Acceptance ends the account's pending requests, and *)
(* leaves the pending count of their codes as it is.                       *)
RespondInvitation(u, i, answer) ==
  /\ account[u]
  /\ invitation[i].status = "pending" /\ invitation[i].target = u
  /\ IF Unanswerable(i) # "none"
       THEN /\ invitation' = [invitation EXCEPT ![i].status = Unanswerable(i)]
            /\ UNCHANGED <<member, request>>
       ELSE /\ invitation' = [invitation EXCEPT ![i].status = answer]
            /\ IF answer = "accepted"
                 THEN /\ member' = AdmittedUnlessIn(u, TRUE)
                      /\ request' = [q \in Requests |->
                                       IF q \in PendingOf(u)
                                         THEN [request[q] EXCEPT !.status = "invalidated"]
                                         ELSE request[q]]
                 ELSE UNCHANGED <<member, request>>
  /\ UNCHANGED <<space, account, transfer, policy, code, desk>>

-----------------------------------------------------------------------------
(* The join code, the global door and the policy that opens one of them *)

JoinByCode(u) ==
  /\ account[u] /\ space.status = "active" /\ policy = "access_code"
  /\ ~IsEffective(member[u])
  /\ member' = Admitted(u, member[u].invited)
  /\ UNCHANGED <<space, account, transfer, joinVars>>

GlobalJoin(u) ==
  /\ account[u] /\ space.status = "active" /\ policy = "global"
  /\ ~IsEffective(member[u])
  /\ member' = Admitted(u, member[u].invited)
  /\ UNCHANGED <<space, account, transfer, joinVars>>

SwitchPolicy(u) ==
  /\ OwnsActive(u)
  /\ policy' = IF policy = "global" THEN "access_code" ELSE "global"
  /\ UNCHANGED <<memberVars, code, request, invitation, desk>>

(* Time passes over a code, a request or an invitation. *)
Lapse ==
  /\ \/ \E c \in Codes : /\ code[c].status = "active"
                         /\ code' = [code EXCEPT ![c].late = TRUE]
                         /\ UNCHANGED <<request, invitation>>
     \/ \E r \in Requests : /\ request[r].status = "pending"
                            /\ request' = [request EXCEPT ![r].late = TRUE]
                            /\ UNCHANGED <<code, invitation>>
     \/ \E i \in Invitations : /\ invitation[i].status = "pending"
                               /\ invitation' = [invitation EXCEPT ![i].late = TRUE]
                               /\ UNCHANGED <<code, request>>
  /\ UNCHANGED <<memberVars, policy, desk>>

-----------------------------------------------------------------------------
(* The administrators' review screen reads the request without a lock ... *)
OpenReview(u, r, verdict) ==
  /\ "review" \in Doors
  /\ desk = NoReview
  /\ MayManageSpace(u)
  /\ request[r].status = "pending"
  /\ desk' = [by |-> u, request |-> r, verdict |-> verdict]
  /\ UNCHANGED <<memberVars, policy, code, request, invitation>>

(* ... and writes the verdict over whatever the row has become.  The owner *)
(* trigger rolls back the approval that would demote the owner.            *)
WriteReview ==
  /\ desk # NoReview
  /\ LET u == request[desk.request].user IN
       /\ desk.verdict = "approved" => u # space.owner
       /\ member' = IF desk.verdict = "rejected" THEN member
                    ELSE [member EXCEPT ![u] =
                            IF @ = NoRow THEN Fresh("guest", TRUE)
                            ELSE [@ EXCEPT !.role = "guest", !.status = "active",
                                           !.invited = TRUE]]
  /\ request' = [request EXCEPT ![desk.request].status = desk.verdict,
                                ![desk.request].reviewer = desk.by]
  /\ desk' = NoReview
  /\ UNCHANGED <<space, account, transfer, policy, code, invitation>>

(* The call dies, or its transaction is rolled back. *)
DropReview == /\ desk # NoReview
              /\ desk' = NoReview
              /\ UNCHANGED <<memberVars, policy, code, request, invitation>>

-----------------------------------------------------------------------------
JoinNext ==
  \/ \E u \in Users, c \in Codes :
       \/ IssueCode(u, c) \/ RevokeCode(u, c) \/ RedeemExpires(u, c)
       \/ \E r \in Requests : RedeemCode(u, c, r)
  \/ \E u \in Users, r \in Requests :
       \/ DiscoveryRequest(u, r)
       \/ CancelRequest(u, r)
       \/ \E verdict \in {"approved", "rejected"} : DecideRequest(u, r, verdict)
  \/ \E u \in Users, i \in Invitations :
       \/ \E target \in Users : CreateInvitation(u, target, i)
       \/ RevokeInvitation(u, i)
       \/ \E answer \in {"accepted", "declined"} : RespondInvitation(u, i, answer)
  \/ \E u \in Users : JoinByCode(u) \/ GlobalJoin(u) \/ SwitchPolicy(u)
  \/ Lapse

ReviewNext ==
  \/ \E u \in Users, r \in Requests, verdict \in {"approved", "rejected"} :
       OpenReview(u, r, verdict)
  \/ WriteReview
  \/ DropReview

Next == \/ MembersNext /\ UNCHANGED joinVars
        \/ JoinNext
        \/ ReviewNext

Spec == Init /\ [][Next]_vars

-----------------------------------------------------------------------------
(* A code never admits more than it was issued for: the requests waiting on *)
(* it are at most its pending count, every request it ever made is counted  *)
(* as a use, and both counts stay within the limits, whichever of redeem,   *)
(* cancel, decide, expiry and the review screen ends a request.             *)
CodeBudget ==
  \A c \in Codes :
    /\ Cardinality({r \in Requests : request[r].code = c /\ request[r].status = "pending"})
         <= code[c].pending
    /\ Cardinality({r \in Requests : request[r].code = c}) <= code[c].used
    /\ code[c].pending <= MaxPending
    /\ code[c].used <= MaxUses

(* The join workflow is a way in, never a role change: an account whose row *)
(* is in force keeps it, and any other account gets nothing above guest.    *)
JoinKeepsStanding ==
  [][\A u \in Users :
       \/ member'[u] = member[u]
       \/ ~IsEffective(member[u]) /\ member'[u].role = "guest"
       \/ ~JoinNext]_vars

(* Whoever is let in by an invitation is let in by the owner of the moment, *)
(* who has owned the workspace without a break since the invitation.        *)
AcceptedUnderAuthority ==
  [][\A i \in Invitations :
       invitation[i].status # "accepted" /\ invitation'[i].status = "accepted" =>
         /\ invitation[i].inviter = space.owner
         /\ invitation[i].tenure = space.version]_vars

(* The services end a request once: whatever decision, cancellation,        *)
(* redemption, acceptance or expiry comes later leaves a request that got   *)
(* its end as it is, with its requester, code and reviewer.                 *)
VerdictHeld ==
  [][\A r \in Requests :
       \/ request'[r] = request[r]
       \/ request[r].status \in {"unused", "pending"}
       \/ ~JoinNext]_vars

(* Specification of 16 July 2026, 24.2: "Concurrent approve/reject yields one *)
(* outcome."  A request that was approved or rejected stays so, through every *)
(* door by which it can be decided, the administrators' review screen too.    *)
OneVerdict ==
  [][\A r \in Requests :
       request[r].status \in {"approved", "rejected"} =>
         request'[r].status = request[r].status]_vars
=============================================================================
