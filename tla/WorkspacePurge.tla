--------------------------- MODULE WorkspacePurge ---------------------------
(***************************************************************************)
(* Permanent deletion of one workspace: the owner's commands               *)
(* (backend/apps/spaces/deletion_services.py), the purge dispatcher        *)
(* (purge_services.py) and the blockers of deletion_registry.py.           *)
(*                                                                         *)
(* Every command and every worker-side call is one transaction on locked   *)
(* rows.  A dispatcher runs claim, four store handlers, and the deletion   *)
(* of the rows as separate transactions; a handler first changes its store *)
(* and then acknowledges it under the lease.                               *)
(*                                                                         *)
(* Versions: archived_at changes only with lifecycle_version and is not    *)
(* kept apart; dependency and policy versions are never changed by the     *)
(* code.  A request's version changes only with its status, and the        *)
(* generation of a checkpoint is that of its job after every claim.        *)
(*                                                                         *)
(* The replay handler deletes the events of the second API version by key; *)
(* the streams of the third (chat:v3:turn:...) it leaves to their TTL,     *)
(* which every append starts again.                                        *)
(*                                                                         *)
(* Events around the protocol share one budget:                            *)
(*   content  rows or files of the workspace change                        *)
(*   owner    an ownership transfer is accepted or forced                  *)
(*   blocker  a task, share, hold or transfer starts or ends to block      *)
(*   store    a store or the database raises                               *)
(*   crash    a dispatcher dies                                            *)
(*   slow     a dispatcher outlives its lease (it is never renewed)        *)
(***************************************************************************)
EXTENDS Naturals, FiniteSets

CONSTANTS
    Workers,        \* runs of dispatch_workspace_purges
    ArchiveTicks,   \* _ARCHIVE_RETENTION
    ConfirmTicks,   \* _CONFIRM_RETENTION
    ImpactTicks,    \* _IMPACT_TTL_SECONDS
    StreamTicks,    \* CHAT_EVENT_V3_TTL_SECONDS
    LeaseTicks,     \* DEFAULT_LEASE
    BlockerRows,    \* purge tables the registry rows call open_tasks
    MaxLife,        \* bound on lifecycle_version
    FaultKinds,     \* events that may happen
    MaxFaults       \* their budget

ASSUME TimeAssumption ==
    ArchiveTicks \in Nat /\ ConfirmTicks \in Nat /\ ImpactTicks \in Nat /\ LeaseTicks \in Nat \ {0}
ASSUME StreamAssumption == StreamTicks \in Nat /\ StreamTicks <= ArchiveTicks
ASSUME RowsAssumption == BlockerRows \subseteq {"job", "checkpoint"}
ASSUME BoundAssumption == MaxLife \in Nat \ {0} /\ MaxFaults \in Nat
ASSUME KindAssumption == FaultKinds \subseteq {"content", "owner", "blocker", "store", "crash", "slow"}

VARIABLES
    space,          \* [exists, archived, life, own, content, blocked]
    tombstoned,     \* the locator has left its workspace
    impact,         \* the newest impact the owner read, cached for ImpactTicks
    request,        \* the newest deletion request with its detail row
    job,            \* its purge job
    checkpoint,     \* state of each store's checkpoint
    wiped,          \* content removed from blob and replay store (0: none yet)
    streams,        \* ticks until the last event stream of a turn expires
    work,           \* what each dispatcher is doing
    age,            \* ticks since the archiving and the confirmation (history)
    faults          \* events so far

vars == <<space, tombstoned, impact, request, job, checkpoint, wiped, streams, work, age, faults>>

Stores == <<"blob", "search", "vector", "replay", "database">>
StoreCodes == {Stores[i] : i \in 1..5}
Database == 5

(* The stores that lose something when their handler runs; the rows behind *)
(* the search and vector stores go with the database. *)
Physical == {"blob", "replay"}

LiveStatuses == {"pending", "scheduled", "executing", "failed"}
Statuses == LiveStatuses \cup {"none", "cancelled", "invalidated", "completed"}

Least(a, b) == IF a <= b THEN a ELSE b
Greatest(a, b) == IF a >= b THEN a ELSE b
Before(n) == IF n = 0 THEN 0 ELSE n - 1

Idle == [pc |-> "idle"]
Busy(w) == work[w].pc # "idle"

Fault(kind) ==
    /\ kind \in FaultKinds
    /\ faults < MaxFaults
    /\ faults' = faults + 1

NoFault == UNCHANGED faults

ownerVars == <<space, tombstoned, impact, request, age>>
purgeVars == <<job, checkpoint, wiped, streams, work>>

Init ==
    /\ space = [exists |-> TRUE, archived |-> FALSE, life |-> 1, own |-> 1, content |-> 1, blocked |-> FALSE]
    /\ tombstoned = FALSE
    /\ impact = [life |-> 0, own |-> 0, content |-> 0, blocked |-> FALSE, left |-> 0]
    /\ request = [status |-> "none", life |-> 0, own |-> 0, content |-> 0, fresh |-> 0, wait |-> 0]
    /\ job = [state |-> "none", gen |-> 0, lease |-> 0]
    /\ checkpoint = [s \in StoreCodes |-> "none"]
    /\ wiped = [s \in Physical |-> 0]
    /\ streams = 0
    /\ work = [w \in Workers |-> Idle]
    /\ age = [archived |-> 0, confirmed |-> 0]
    /\ faults = 0

-----------------------------------------------------------------------------
(* Rows of the purge itself that the registry counts as open tasks. *)
OwnRowsBlock ==
    \/ "job" \in BlockerRows /\ job.state \in {"running", "failed"}
    \/ "checkpoint" \in BlockerRows /\ \E s \in StoreCodes : checkpoint[s] \notin {"none", "acked"}

(* The blockers of build_deletion_manifest. *)
Blocked == space.blocked \/ OwnRowsBlock

Live == request.status \in LiveStatuses

(* _lock_space_graph: the workspace still has its locator. *)
Lockable == space.exists /\ ~tombstoned

(* archive_workspace *)
ArchiveWorkspace ==
    /\ Lockable /\ ~space.archived /\ space.life < MaxLife
    /\ space' = [space EXCEPT !.archived = TRUE, !.life = @ + 1]
    /\ age' = [age EXCEPT !.archived = 0]
    /\ UNCHANGED <<tombstoned, impact, request, purgeVars, faults>>

(* restore_workspace *)
RestoreWorkspace ==
    /\ Lockable /\ space.archived /\ ~Live /\ space.life < MaxLife
    /\ space' = [space EXCEPT !.archived = FALSE, !.life = @ + 1]
    /\ UNCHANGED <<tombstoned, impact, request, age, purgeVars, faults>>

(* get_deletion_impact *)
GetDeletionImpact ==
    /\ space.exists
    /\ impact' = [life |-> space.life, own |-> space.own, content |-> space.content,
                  blocked |-> Blocked, left |-> ImpactTicks]
    /\ UNCHANGED <<space, tombstoned, request, age, purgeVars, faults>>

(* Mutant: only the age of the impact is checked. *)
ImpactUnexpired == impact.left > 0

(* The impact the owner sends was read for the workspace as it is now. *)
ImpactCurrent ==
    /\ impact.left > 0
    /\ impact.life = space.life /\ impact.own = space.own
    /\ impact.content = space.content /\ impact.blocked = Blocked

(* submit_deletion_request *)
SubmitDeletionRequest ==
    /\ Lockable /\ space.archived /\ ~Live
    /\ ImpactCurrent /\ ~Blocked
    /\ request' = [status |-> "pending", life |-> space.life, own |-> space.own,
                   content |-> space.content, fresh |-> ImpactTicks, wait |-> 0]
    /\ UNCHANGED <<space, tombstoned, impact, age, purgeVars, faults>>

(* The versions and the manifest that the request's detail row has frozen. *)
Unchanged ==
    /\ request.life = space.life /\ request.own = space.own
    /\ request.content = space.content

(* Mutant: only the archive retention counts. *)
PurgeNotBeforeArchiveOnly == IF ArchiveTicks > age.archived THEN ArchiveTicks - age.archived ELSE 0

(* Ticks from now until the latest of the retention dates. *)
PurgeNotBefore ==
    Greatest(ConfirmTicks, IF ArchiveTicks > age.archived THEN ArchiveTicks - age.archived ELSE 0)

(* confirm_deletion_request *)
ConfirmDeletionRequest ==
    /\ Lockable /\ request.status = "pending"
    /\ Unchanged /\ ~Blocked /\ request.fresh > 0
    /\ request' = [request EXCEPT !.status = "scheduled", !.wait = PurgeNotBefore]
    /\ age' = [age EXCEPT !.confirmed = 0]
    /\ UNCHANGED <<space, tombstoned, impact, purgeVars, faults>>

(* Mutant: the status alone is read, without the lock, and failed counts as not started. *)
CancelBeforeLocking ==
    /\ space.exists /\ request.status \in {"pending", "scheduled", "failed"}
    /\ request' = [request EXCEPT !.status = "cancelled"]
    /\ UNCHANGED <<space, tombstoned, impact, age, purgeVars, faults>>

(* cancel_deletion_request *)
CancelDeletionRequest ==
    /\ Lockable /\ request.status \in {"pending", "scheduled"}
    /\ request' = [request EXCEPT !.status = "cancelled"]
    /\ UNCHANGED <<space, tombstoned, impact, age, purgeVars, faults>>

Owner ==
    \/ ArchiveWorkspace \/ RestoreWorkspace \/ GetDeletionImpact
    \/ SubmitDeletionRequest \/ ConfirmDeletionRequest \/ CancelDeletionRequest

-----------------------------------------------------------------------------
(* Mutant: an executing request may be claimed again when its lease ran out. *)
ClaimableExpired ==
    \/ request.status = "scheduled" /\ request.wait = 0
    \/ request.status = "failed" /\ job.state = "failed"
    \/ request.status = "executing" /\ job.lease = 0

(* The statuses claim_purge_request accepts: a request that a dispatcher left  *)
(* executing is not among them. *)
Claimable ==
    \/ request.status = "scheduled" /\ request.wait = 0
    \/ request.status = "failed" /\ job.state = "failed"

(* claim_purge_request.  A scheduled request that no longer fits is          *)
(* invalidated; a failed one is left as it is. *)
ClaimPurgeRequest(w) ==
    /\ ~Busy(w) /\ space.exists /\ Claimable
    /\ IF ~Blocked /\ space.archived /\ Unchanged
       THEN /\ tombstoned' = TRUE
            /\ request' = [request EXCEPT !.status = "executing"]
            /\ job' = [state |-> "running", gen |-> job.gen + 1, lease |-> LeaseTicks]
            /\ checkpoint' = [s \in StoreCodes |-> IF checkpoint[s] = "acked" THEN "acked" ELSE "pending"]
            /\ work' = [work EXCEPT ![w] = [pc |-> "wipe", at |-> 1, gen |-> job.gen + 1]]
       ELSE /\ request.status = "scheduled"
            /\ request' = [request EXCEPT !.status = "invalidated"]
            /\ UNCHANGED <<tombstoned, job, checkpoint, work>>
    /\ UNCHANGED <<space, impact, age, wiped, streams, faults>>

(* _verify_lease *)
HoldsLease(w) == job.state = "running" /\ job.gen = work[w].gen /\ job.lease > 0

Store(w) == Stores[work[w].at]

(* execute_blob_store, execute_search_store, execute_vector_store and          *)
(* execute_replay_store up to their acknowledgement.  A store that raises may  *)
(* have removed everything, or not.  (The replay handler does not touch the    *)
(* streams of the third API version.) *)
ExecuteStore(w) ==
    /\ work[w].pc = "wipe"
    /\ LET done == [s \in Physical |-> IF s = Store(w) THEN space.content ELSE wiped[s]]
       IN  \/ wiped' = done /\ work' = [work EXCEPT ![w].pc = "ack"] /\ NoFault
           \/ Fault("store") /\ wiped' \in {wiped, done} /\ work' = [work EXCEPT ![w].pc = "fail"]
    /\ UNCHANGED <<ownerVars, job, checkpoint, streams>>

(* The next round of the loop of dispatch_purge_request. *)
AfterStore(w) == [work[w] EXCEPT !.at = @ + 1, !.pc = IF work[w].at + 1 = Database THEN "complete" ELSE "wipe"]

(* acknowledge_purge_store; a lost fence ends the dispatch. *)
AcknowledgePurgeStore(w) ==
    /\ work[w].pc = "ack"
    /\ IF HoldsLease(w)
       THEN /\ checkpoint' = [checkpoint EXCEPT ![Store(w)] = "acked"]
            /\ work' = [work EXCEPT ![w] = AfterStore(w)]
       ELSE /\ work' = [work EXCEPT ![w] = Idle]
            /\ UNCHANGED checkpoint
    /\ UNCHANGED <<ownerVars, job, wiped, streams, faults>>

(* Mutant: the manifest is not built again. *)
ManifestMatchesFrozen == TRUE

(* The manifest is built again and compared with the job's. *)
ManifestMatches == ~Blocked /\ request.content = space.content

(* complete_database_purge *)
CompleteDatabasePurge(w) ==
    /\ work[w].pc = "complete"
    /\ IF ~HoldsLease(w) \/ request.life # space.life \/ request.own # space.own
       THEN work' = [work EXCEPT ![w] = Idle] /\ NoFault /\ UNCHANGED <<space, request, job, checkpoint>>
       ELSE \/ /\ ManifestMatches
               /\ \A i \in 1..4 : checkpoint[Stores[i]] = "acked"
               /\ space' = [space EXCEPT !.exists = FALSE]
               /\ request' = [request EXCEPT !.status = "completed"]
               /\ job' = [job EXCEPT !.state = "completed", !.lease = 0]
               /\ checkpoint' = [checkpoint EXCEPT !["database"] = "acked"]
               /\ work' = [work EXCEPT ![w] = Idle]
               /\ NoFault
            \/ /\ IF ManifestMatches /\ \A i \in 1..4 : checkpoint[Stores[i]] = "acked"
                  THEN Fault("store") ELSE NoFault
               /\ work' = [work EXCEPT ![w].pc = "fail"]
               /\ UNCHANGED <<space, request, job, checkpoint>>
    /\ UNCHANGED <<tombstoned, impact, age, wiped, streams>>

(* fail_purge_job; a lost fence ends the dispatch. *)
FailPurgeJob(w) ==
    /\ work[w].pc = "fail"
    /\ work' = [work EXCEPT ![w] = Idle]
    /\ IF HoldsLease(w)
       THEN /\ checkpoint' = [checkpoint EXCEPT ![Store(w)] = IF @ = "acked" THEN "acked" ELSE "failed"]
            /\ request' = [request EXCEPT !.status = "failed"]
            /\ job' = [job EXCEPT !.state = "failed", !.lease = 0]
       ELSE UNCHANGED <<checkpoint, request, job>>
    /\ UNCHANGED <<space, tombstoned, impact, age, wiped, streams, faults>>

Dispatch(w) ==
    \/ ClaimPurgeRequest(w) \/ ExecuteStore(w) \/ AcknowledgePurgeStore(w)
    \/ CompleteDatabasePurge(w) \/ FailPurgeJob(w)

-----------------------------------------------------------------------------
(* A dispatcher dies between two transactions. *)
Crash(w) ==
    /\ Busy(w) /\ Fault("crash")
    /\ work' = [work EXCEPT ![w] = Idle]
    /\ UNCHANGED <<ownerVars, job, checkpoint, wiped, streams>>

(* Rows or files of the workspace change. *)
ContentChanges ==
    /\ space.exists /\ Fault("content")
    /\ space' = [space EXCEPT !.content = @ + 1]
    /\ UNCHANGED <<tombstoned, impact, request, age, purgeVars>>

(* OwnershipTransferService.accept or force: owner, memberships and version. *)
OwnershipChanges ==
    /\ space.exists /\ Fault("owner")
    /\ space' = [space EXCEPT !.own = @ + 1, !.content = @ + 1]
    /\ UNCHANGED <<tombstoned, impact, request, age, purgeVars>>

(* Another blocker comes or goes. *)
BlockerChanges ==
    /\ space.exists /\ Fault("blocker")
    /\ space' = [space EXCEPT !.blocked = ~@]
    /\ UNCHANGED <<tombstoned, impact, request, age, purgeVars>>

(* A turn of the workspace appends to its stream; where the workspace was   *)
(* archived behind a running turn, that turn ends within a tick. *)
ChatWrites ==
    /\ space.exists /\ (~space.archived \/ age.archived = 0)
    /\ streams' = StreamTicks
    /\ UNCHANGED <<ownerVars, job, checkpoint, wiped, work, faults>>

(* Time passes; the tick that ends the lease of a running dispatch is a slow event. *)
Tick ==
    /\ IF job.lease = 1 /\ \E w \in Workers : Busy(w) THEN Fault("slow") ELSE NoFault
    /\ impact' = [impact EXCEPT !.left = Before(@)]
    /\ request' = [request EXCEPT !.fresh = Before(@), !.wait = Before(@)]
    /\ job' = [job EXCEPT !.lease = Before(@)]
    /\ streams' = Before(streams)
    /\ age' = [archived |-> Least(age.archived + 1, ArchiveTicks),
               confirmed |-> Least(age.confirmed + 1, ConfirmTicks)]
    /\ UNCHANGED <<space, tombstoned, checkpoint, wiped, work>>

Next ==
    \/ Owner
    \/ \E w \in Workers : Dispatch(w) \/ Crash(w)
    \/ ContentChanges \/ OwnershipChanges \/ BlockerChanges \/ ChatWrites
    \/ Tick

Spec == Init /\ [][Next]_vars

(* The dispatcher is scheduled again and again and its code runs; time passes. *)
Fairness == (\A w \in Workers : WF_vars(Dispatch(w))) /\ WF_vars(Tick)

FairSpec == Spec /\ Fairness

-----------------------------------------------------------------------------
Spaces == [exists : BOOLEAN, archived : BOOLEAN, life : Nat, own : Nat, content : Nat, blocked : BOOLEAN]
Impacts == [life : Nat, own : Nat, content : Nat, blocked : BOOLEAN, left : Nat]
Requests == [status : Statuses, life : Nat, own : Nat, content : Nat, fresh : Nat, wait : Nat]
Jobs == [state : {"none", "running", "failed", "completed"}, gen : Nat, lease : Nat]
WorkerStates ==
    {Idle} \cup [pc : {"wipe", "ack", "complete", "fail"}, at : 1..Database, gen : Nat]

(* Every variable has its type. *)
TypeOK ==
    /\ space \in Spaces
    /\ tombstoned \in BOOLEAN
    /\ impact \in Impacts
    /\ request \in Requests
    /\ job \in Jobs
    /\ checkpoint \in [StoreCodes -> {"none", "pending", "acked", "failed"}]
    /\ wiped \in [Physical -> Nat]
    /\ streams \in 0..StreamTicks
    /\ work \in [Workers -> WorkerStates]
    /\ age \in [archived : Nat, confirmed : Nat]
    /\ faults \in 0..MaxFaults

Started == request.status \in {"executing", "failed", "completed"}

(***************************************************************************)
(* Nothing of a workspace is destroyed unless its deletion was confirmed   *)
(* and both retention periods are over, it is archived, and its locator is *)
(* retired; this holds for dispatchers that lost their lease, too.         *)
(***************************************************************************)
DestructionIsAuthorised ==
    (~space.exists \/ \E s \in Physical : wiped[s] # 0) =>
        /\ Started /\ tombstoned /\ space.archived
        /\ age.archived >= ArchiveTicks /\ age.confirmed >= ConfirmTicks

(***************************************************************************)
(* A completed deletion has removed what was in the stores when the rows   *)
(* went: nothing written after a handler ran is left behind, and no event  *)
(* stream of a turn, which no handler deletes, is still there to replay.   *)
(***************************************************************************)
CompletedMeansWiped ==
    request.status = "completed" =>
        /\ ~space.exists
        /\ \A s \in Physical : wiped[s] = space.content
        /\ \A s \in StoreCodes : checkpoint[s] = "acked"
        /\ streams = 0

(***************************************************************************)
(* At most one dispatcher is between claiming and settling the request,    *)
(* and only while the request is executing under its generation.           *)
(***************************************************************************)
OnePurger ==
    \A w \in Workers : Busy(w) =>
        /\ request.status = "executing" /\ work[w].gen = job.gen
        /\ \A v \in Workers : Busy(v) => v = w

(***************************************************************************)
(* Once a purge has started there is no way back: no command of the owner, *)
(* no invalidation and no failure returns the workspace to use.            *)
(***************************************************************************)
PurgeIsIrrevocable ==
    [][tombstoned => tombstoned' /\ Started' /\ space'.archived]_vars

(* The deletion as its owner knows it. *)
Gone == IF ~space.exists THEN "everything"
        ELSE IF \E s \in Physical : wiped[s] # 0 THEN "some" ELSE "nothing"

Deletion == INSTANCE DeletionContract WITH
    stage <- request.status,
    archived <- space.archived,
    present <- <<space.own, space.content>>,
    seen <- <<impact.own, impact.content>>,
    agreed <- <<request.own, request.content>>,
    gone <- Gone,
    NoPicture <- <<0, 0>>

(***************************************************************************)
(* Owner's commands, dispatchers, stores, leases and failures together     *)
(* keep the promise of DeletionContract: in particular what is destroyed   *)
(* for good is what the owner was shown and confirmed.                     *)
(***************************************************************************)
ImplementsDeletion == Deletion!Spec

(***************************************************************************)
(* Design section 20.2: a purge that started, or failed, is executed again *)
(* by the dispatcher and is completed.                                     *)
(***************************************************************************)
PurgeCompletes == request.status = "executing" ~> request.status = "completed"
=============================================================================
