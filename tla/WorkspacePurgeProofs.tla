------------------------ MODULE WorkspacePurgeProofs ------------------------
(***************************************************************************)
(* TLAPS proofs about WorkspacePurge for any number of dispatchers, any    *)
(* retention periods, lease and budget of events, and for both contents of *)
(* the registry: nothing is destroyed without authority, a purge has one   *)
(* dispatcher and no way back, and a completed one has left nothing; the   *)
(* whole keeps the owner's DeletionContract.  Where the purge's own rows   *)
(* are in the registry no deletion is ever completed.                      *)
(***************************************************************************)
EXTENDS WorkspacePurge, TLAPS

(* A live request keeps its workspace archived; a started one has passed   *)
(* both retention periods, a scheduled one will have when its wait is over. *)
(* The streams of an archived workspace expire before its retention ends.   *)
Authority ==
    /\ Live => space.archived /\ space.exists
    /\ request.status = "completed" <=> ~space.exists
    /\ ~space.exists => space.archived
    /\ tombstoned <=> Started
    /\ request.status = "scheduled" =>
           age.archived + request.wait >= ArchiveTicks /\ age.confirmed + request.wait >= ConfirmTicks
    /\ Started => age.archived >= ArchiveTicks /\ age.confirmed >= ConfirmTicks
    /\ \A s \in Physical : wiped[s] # 0 => Started
    /\ space.archived => streams = 0 \/ age.archived + streams <= StreamTicks

(* One dispatcher works on a running job, and a dispatcher stands at a store. *)
Lineage ==
    /\ OnePurger
    /\ \A w \in Workers : work[w].pc \in {"wipe", "ack"} => work[w].at \in 1..4
    /\ ~Started => \A s \in StoreCodes : checkpoint[s] = "none"

(* A store that was wiped was wiped of what the request froze, or of more. *)
Contents ==
    /\ request.content <= space.content
    /\ \A s \in Physical : wiped[s] <= space.content
    /\ \A s \in Physical : checkpoint[s] = "acked" => wiped[s] >= request.content
    /\ \A w \in Workers : work[w].pc = "ack" /\ Store(w) \in Physical => wiped[Store(w)] >= request.content
    /\ CompletedMeansWiped

IInv == TypeOK /\ Authority /\ Lineage /\ Contents

-----------------------------------------------------------------------------
(* A fault counts within its budget. *)
LEMMA FaultTyped ==
    ASSUME faults \in 0..MaxFaults, NEW kind, Fault(kind) \/ NoFault
    PROVE  faults' \in 0..MaxFaults
BY BoundAssumption DEF Fault, NoFault

(* The record of a busy dispatcher. *)
LEMMA BusyTyped ==
    ASSUME TypeOK, NEW w \in Workers, Busy(w)
    PROVE  /\ work[w] \in [pc : {"wipe", "ack", "complete", "fail"}, at : 1..Database, gen : Nat]
           /\ work[w].pc \in {"wipe", "ack", "complete", "fail"}
           /\ work[w].at \in 1..Database /\ work[w].gen \in Nat
BY DEF TypeOK, WorkerStates, Busy, Idle

(* The stores in the order of the loop. *)
LEMMA StoresTyped ==
    /\ \A i \in 1..Database : Stores[i] \in StoreCodes
    /\ Physical \subseteq StoreCodes
    /\ "database" \in StoreCodes /\ "database" \notin Physical
    /\ \A s \in StoreCodes : s = "database" \/ \E i \in 1..4 : s = Stores[i]
BY DEF StoreCodes, Stores, Physical, Database

(* The initial state. *)
LEMMA InitIInv == Init => IInv
<1> SUFFICES ASSUME Init PROVE IInv
  OBVIOUS
<1>1. TypeOK
  <2>1. space \in Spaces
    BY DEF Init, Spaces
  <2>2. impact \in Impacts
    BY DEF Init, Impacts
  <2>3. request \in Requests
    BY DEF Init, Requests, Statuses
  <2>4. job \in Jobs
    BY DEF Init, Jobs
  <2>5. checkpoint \in [StoreCodes -> {"none", "pending", "acked", "failed"}] /\ wiped \in [Physical -> Nat]
    BY DEF Init
  <2>6. work \in [Workers -> WorkerStates]
    BY DEF Init, WorkerStates
  <2>7. age \in [archived : Nat, confirmed : Nat] /\ faults \in 0..MaxFaults
    BY BoundAssumption DEF Init
  <2>8. tombstoned \in BOOLEAN
    BY DEF Init
  <2>9. streams \in 0..StreamTicks
    BY StreamAssumption DEF Init
  <2> QED  BY <2>1, <2>2, <2>3, <2>4, <2>5, <2>6, <2>7, <2>8, <2>9 DEF TypeOK
<1>2. Authority
  BY DEF Init, Authority, Live, LiveStatuses, Started
<1>3. Lineage
  BY DEF Init, Lineage, OnePurger, Busy, Idle
<1>4. Contents
  BY StoresTyped DEF Init, Contents, CompletedMeansWiped, Idle
<1> QED  BY <1>1, <1>2, <1>3, <1>4 DEF IInv

(* Steps that leave the purge, the request and the workspace's versions     *)
(* and lifecycle alone and may only add content. *)
LEMMA SurroundingsKeep ==
    ASSUME IInv,
           space' \in Spaces,
           space'.exists = space.exists, space'.archived = space.archived,
           space'.content >= space.content,
           space'.content = space.content \/ space.exists,
           impact' \in Impacts,
           faults' \in 0..MaxFaults,
           UNCHANGED <<tombstoned, request, age, purgeVars>>
    PROVE  IInv'
<1>0. /\ space.content \in Nat /\ space'.content \in Nat /\ request.content \in Nat
      /\ \A s \in Physical : wiped[s] \in Nat
      /\ request.status \in Statuses
  BY DEF IInv, TypeOK, Spaces, Requests
<1>1. TypeOK'
  BY DEF IInv, TypeOK, purgeVars
<1>2. Authority'
  BY DEF IInv, Authority, Live, Started, purgeVars
<1>3. Lineage'
  BY DEF IInv, Lineage, OnePurger, Busy, Started, purgeVars
<1>4. CompletedMeansWiped'
  BY <1>0 DEF IInv, Contents, Authority, CompletedMeansWiped, purgeVars
<1>5. Contents'
  BY <1>0, <1>4, StoresTyped DEF IInv, Contents, Store, purgeVars
<1> QED  BY <1>1, <1>2, <1>3, <1>5 DEF IInv

(* Before the purge starts, a command may change the workspace, the request *)
(* and the ages as long as a live request finds its workspace archived.     *)
LEMMA BeforePurgeKeep ==
    ASSUME IInv, ~Started, ~Started', space.exists, space'.exists,
           space' \in Spaces,
           request' \in Requests,
           age' \in [archived : Nat, confirmed : Nat],
           Live' => space'.archived,
           request'.content <= space'.content,
           request'.status = "scheduled" =>
               /\ age'.archived + request'.wait >= ArchiveTicks
               /\ age'.confirmed + request'.wait >= ConfirmTicks,
           space'.archived => streams = 0 \/ age'.archived + streams <= StreamTicks,
           UNCHANGED <<tombstoned, impact, purgeVars, faults>>
    PROVE  IInv'
<1>0. /\ \A s \in Physical : wiped[s] = 0
      /\ \A w \in Workers : ~Busy(w)
      /\ ~tombstoned
      /\ request'.status # "completed"
  BY DEF IInv, Authority, Lineage, OnePurger, Started
<1>1. TypeOK'
  BY DEF IInv, TypeOK, purgeVars
<1>2. Authority'
  BY <1>0 DEF IInv, Authority, Started, purgeVars
<1>3. Lineage'
  BY <1>0 DEF IInv, Lineage, OnePurger, Busy, Started, purgeVars
<1>4. Contents'
  <2>1. \A s \in Physical : checkpoint[s] = "none"
    BY StoresTyped DEF IInv, Lineage
  <2>2. \A w \in Workers : work[w].pc # "ack"
    BY BusyTyped, <1>0 DEF IInv, Busy, TypeOK
  <2>3. space'.content \in Nat
    BY DEF Spaces
  <2> QED  BY <1>0, <2>1, <2>2, <2>3 DEF Contents, CompletedMeansWiped, purgeVars
<1> QED  BY <1>1, <1>2, <1>3, <1>4 DEF IInv

(* Archiving and restoring change two fields of the workspace. *)
LEMMA ArchivedTyped ==
    ASSUME NEW s \in Spaces, NEW b \in BOOLEAN
    PROVE  LET t == [s EXCEPT !.archived = b, !.life = @ + 1]
           IN  t \in Spaces /\ t.exists = s.exists /\ t.content = s.content /\ t.archived = b
<1> DEFINE u == [s EXCEPT !.archived = b]
           t == [s EXCEPT !.archived = b, !.life = @ + 1]
<1>1. u \in Spaces /\ u.exists = s.exists /\ u.content = s.content /\ u.archived = b /\ u.life = s.life
  BY DEF Spaces
<1>2. t = [u EXCEPT !.life = u.life + 1]
  BY DEF Spaces
<1> HIDE DEF u
<1>3. [u EXCEPT !.life = u.life + 1] \in Spaces
  BY <1>1 DEF Spaces
<1> QED  BY <1>1, <1>2, <1>3 DEF Spaces

(* archive_workspace preserves the invariant. *)
LEMMA ArchiveStep == ASSUME IInv, ArchiveWorkspace PROVE IInv'
<1>1. space.exists /\ ~Live /\ ~Started /\ request.status # "scheduled"
  BY DEF ArchiveWorkspace, IInv, Authority, Lockable, Live, LiveStatuses, Started
<1>2. /\ space' \in Spaces
      /\ space'.exists = space.exists /\ space'.content = space.content
  BY ArchivedTyped DEF ArchiveWorkspace, IInv, TypeOK
<1>3. age' \in [archived : Nat, confirmed : Nat]
  BY DEF ArchiveWorkspace, IInv, TypeOK
<1>4. request' = request /\ request.content <= space.content
  BY DEF ArchiveWorkspace, IInv, Contents
<1>5. request \in Requests
  BY DEF IInv, TypeOK
<1>6. UNCHANGED <<tombstoned, impact, purgeVars, faults>>
  BY DEF ArchiveWorkspace
<1>7. age'.archived + streams <= StreamTicks
  BY StreamAssumption DEF ArchiveWorkspace, IInv, TypeOK
<1> QED  BY <1>1, <1>2, <1>3, <1>4, <1>5, <1>6, <1>7, BeforePurgeKeep DEF Live, Started

(* restore_workspace preserves the invariant. *)
LEMMA RestoreStep == ASSUME IInv, RestoreWorkspace PROVE IInv'
<1>1. space.exists /\ ~Live /\ ~Started /\ request.status # "scheduled"
  BY DEF RestoreWorkspace, IInv, Authority, Lockable, Live, LiveStatuses, Started
<1>2. /\ space' \in Spaces
      /\ space'.exists = space.exists /\ space'.content = space.content
  BY ArchivedTyped DEF RestoreWorkspace, IInv, TypeOK
<1>3. age' = age /\ request' = request /\ request.content <= space.content
  BY DEF RestoreWorkspace, IInv, Contents
<1>4. /\ request \in Requests
      /\ age \in [archived : Nat, confirmed : Nat]
  BY DEF IInv, TypeOK
<1>5. UNCHANGED <<tombstoned, impact, purgeVars, faults>>
  BY DEF RestoreWorkspace
<1>6. ~space'.archived
  BY DEF RestoreWorkspace, IInv, TypeOK, Spaces
<1> QED  BY <1>1, <1>2, <1>3, <1>4, <1>5, <1>6, BeforePurgeKeep DEF Live, Started

(* submit_deletion_request preserves the invariant. *)
LEMMA SubmitStep == ASSUME IInv, SubmitDeletionRequest PROVE IInv'
<1>1. space.exists /\ space.archived /\ ~Started /\ space' = space /\ age' = age
  BY DEF SubmitDeletionRequest, IInv, Authority, Lockable, Live, LiveStatuses, Started
<1>2. /\ space \in Spaces
      /\ age \in [archived : Nat, confirmed : Nat]
      /\ space.content \in Nat
  BY DEF IInv, TypeOK, Spaces
<1>3. /\ request' \in Requests
      /\ request'.content = space.content /\ request'.status = "pending"
  BY TimeAssumption DEF SubmitDeletionRequest, IInv, TypeOK, Spaces, Requests, Statuses, LiveStatuses
<1>4. UNCHANGED <<tombstoned, impact, purgeVars, faults>>
  BY DEF SubmitDeletionRequest
<1>5. streams = 0 \/ age.archived + streams <= StreamTicks
  BY <1>1 DEF IInv, Authority
<1> QED  BY <1>1, <1>2, <1>3, <1>4, <1>5, BeforePurgeKeep DEF Started

(* A change of the status keeps what the request has frozen. *)
LEMMA StatusTyped ==
    ASSUME NEW r \in Requests, NEW st \in Statuses
    PROVE  LET t == [r EXCEPT !.status = st]
           IN  t \in Requests /\ t.status = st /\ t.content = r.content /\ t.wait = r.wait
BY DEF Requests

(* The wait covers both retention periods. *)
LEMMA WaitTyped ==
    /\ age.archived \in Nat => PurgeNotBefore \in Nat
    /\ age.archived \in Nat => age.archived + PurgeNotBefore >= ArchiveTicks
    /\ age.archived \in Nat => PurgeNotBefore >= ConfirmTicks
BY TimeAssumption DEF PurgeNotBefore, Greatest

(* confirm_deletion_request preserves the invariant. *)
LEMMA ConfirmStep == ASSUME IInv, ConfirmDeletionRequest PROVE IInv'
<1>1. space.exists /\ space.archived /\ ~Started /\ space' = space
  BY DEF ConfirmDeletionRequest, IInv, Authority, Lockable, Live, LiveStatuses, Started
<1>2. space \in Spaces /\ request \in Requests /\ age \in [archived : Nat, confirmed : Nat]
  BY DEF IInv, TypeOK
<1>3. PurgeNotBefore \in Nat
  BY <1>2, WaitTyped
<1>4. /\ request' \in Requests /\ request'.content = request.content
      /\ request'.status = "scheduled" /\ request'.wait = PurgeNotBefore
  BY <1>2, <1>3 DEF ConfirmDeletionRequest, Requests, Statuses, LiveStatuses
<1>5. age' \in [archived : Nat, confirmed : Nat] /\ age'.archived = age.archived /\ age'.confirmed = 0
  BY <1>2 DEF ConfirmDeletionRequest
<1>6. request'.content <= space'.content
  BY <1>1, <1>4 DEF IInv, Contents
<1>7. /\ age'.archived + request'.wait >= ArchiveTicks
      /\ age'.confirmed + request'.wait >= ConfirmTicks
  BY <1>2, <1>3, <1>4, <1>5, WaitTyped, TimeAssumption
<1>8. UNCHANGED <<tombstoned, impact, purgeVars, faults>>
  BY DEF ConfirmDeletionRequest
<1>9. streams = 0 \/ age.archived + streams <= StreamTicks
  BY <1>1 DEF IInv, Authority
<1> QED  BY <1>1, <1>2, <1>4, <1>5, <1>6, <1>7, <1>8, <1>9, BeforePurgeKeep DEF Started

(* A request that ends before the purge starts: cancelled or invalidated. *)
LEMMA EndsUnstarted ==
    ASSUME IInv, space.exists, ~Started, NEW st \in {"cancelled", "invalidated"},
           request' = [request EXCEPT !.status = st],
           UNCHANGED <<space, tombstoned, impact, age, purgeVars, faults>>
    PROVE  IInv'
<1>1. space \in Spaces /\ request \in Requests /\ age \in [archived : Nat, confirmed : Nat]
  BY DEF IInv, TypeOK
<1>2. request' \in Requests /\ request'.status = st /\ request'.content = request.content
  BY <1>1, StatusTyped DEF Statuses
<1>3. request'.content <= space'.content
  BY <1>2 DEF IInv, Contents
<1>4. ~Live' /\ ~Started' /\ request'.status # "scheduled"
  BY <1>2 DEF Live, LiveStatuses, Started
<1>5. space.archived => streams = 0 \/ age.archived + streams <= StreamTicks
  BY DEF IInv, Authority
<1> QED  BY <1>1, <1>2, <1>3, <1>4, <1>5, BeforePurgeKeep

(* cancel_deletion_request preserves the invariant. *)
LEMMA CancelStep == ASSUME IInv, CancelDeletionRequest PROVE IInv'
<1>1. space.exists /\ ~Started
  BY DEF CancelDeletionRequest, Lockable, Started
<1> QED  BY <1>1, EndsUnstarted DEF CancelDeletionRequest

(* Claiming: the one dispatcher, at the first store, under a new generation. *)
LEMMA ClaimStep == ASSUME IInv, NEW w \in Workers, ClaimPurgeRequest(w) PROVE IInv'
<1>1. CASE ~(~Blocked /\ space.archived /\ Unchanged)
  <2>1. space.exists /\ ~Started
    BY <1>1 DEF ClaimPurgeRequest, Started
  <2>2. /\ request' = [request EXCEPT !.status = "invalidated"]
        /\ UNCHANGED <<space, tombstoned, impact, age, purgeVars, faults>>
    BY <1>1 DEF ClaimPurgeRequest, purgeVars
  <2> QED  BY <2>1, <2>2, EndsUnstarted
<1>2. CASE ~Blocked /\ space.archived /\ Unchanged
  <2>0. /\ tombstoned' = TRUE
        /\ request' = [request EXCEPT !.status = "executing"]
        /\ job' = [state |-> "running", gen |-> job.gen + 1, lease |-> LeaseTicks]
        /\ checkpoint' = [s \in StoreCodes |-> IF checkpoint[s] = "acked" THEN "acked" ELSE "pending"]
        /\ work' = [work EXCEPT ![w] = [pc |-> "wipe", at |-> 1, gen |-> job.gen + 1]]
        /\ UNCHANGED <<space, impact, age, wiped, streams, faults>>
        /\ space.exists
    BY <1>2 DEF ClaimPurgeRequest
  <2>1. space \in Spaces /\ request \in Requests /\ job.gen \in Nat /\ age \in [archived : Nat, confirmed : Nat]
    BY DEF IInv, TypeOK, Jobs
  <2>2. request' \in Requests /\ request'.status = "executing" /\ request'.content = request.content
    BY <2>0, <2>1, StatusTyped DEF Statuses, LiveStatuses
  <2>3. \A v \in Workers : ~Busy(v)
    BY <1>2 DEF ClaimPurgeRequest, Claimable, IInv, Lineage, OnePurger
  <2>4. /\ \A v \in Workers : Busy(v)' => v = w
        /\ work'[w] = [pc |-> "wipe", at |-> 1, gen |-> job.gen + 1]
        /\ \A v \in Workers : v # w => work'[v] = work[v]
    BY <2>0, <2>3 DEF Busy, IInv, TypeOK
  <2>5. TypeOK'
    <3>1. job' \in Jobs /\ checkpoint' \in [StoreCodes -> {"none", "pending", "acked", "failed"}]
      BY <2>0, <2>1, TimeAssumption DEF Jobs
    <3>2. work' \in [Workers -> WorkerStates]
      BY <2>0, <2>1 DEF IInv, TypeOK, WorkerStates, Database
    <3> QED  BY <2>0, <2>2, <3>1, <3>2 DEF IInv, TypeOK
  <2>6. Authority'
    <3>1. age.archived >= ArchiveTicks /\ age.confirmed >= ConfirmTicks
      BY <2>1 DEF ClaimPurgeRequest, Claimable, IInv, Authority, Started, Requests
    <3>2. Started' /\ request'.status # "completed" /\ request'.status # "scheduled"
      BY <2>2 DEF Started
    <3>3. space.archived => streams = 0 \/ age.archived + streams <= StreamTicks
      BY DEF IInv, Authority
    <3> QED  BY <1>2, <2>0, <3>1, <3>2, <3>3 DEF Authority
  <2>7. Lineage'
    <3>1. OnePurger'
      BY <2>0, <2>2, <2>4 DEF OnePurger
    <3>2. Started'
      BY <2>2 DEF Started
    <3> QED  BY <3>1, <3>2, <2>4 DEF Lineage, IInv
  <2>8. Contents'
    <3>1. \A s \in StoreCodes : checkpoint'[s] = "acked" => checkpoint[s] = "acked"
      BY <2>0
    <3>2. \A v \in Workers : work'[v].pc = "ack" => v # w
      BY <2>4
    <3> QED  BY <2>0, <2>2, <2>4, <3>1, <3>2, StoresTyped DEF IInv, Contents, CompletedMeansWiped, Store
  <2> QED  BY <2>5, <2>6, <2>7, <2>8 DEF IInv
<1> QED  BY <1>1, <1>2

(* A dispatcher becomes idle, and nothing else changes. *)
LEMMA IdleKeeps ==
    ASSUME IInv, NEW w \in Workers, work' = [work EXCEPT ![w] = Idle],
           UNCHANGED <<ownerVars, job, checkpoint, wiped, streams>>, faults' \in 0..MaxFaults
    PROVE  IInv'
<1>1. \A v \in Workers : v # w => work'[v] = work[v]
  BY DEF IInv, TypeOK
<1>2. work'[w] = Idle /\ ~Busy(w)'
  BY DEF IInv, TypeOK, Busy, Idle
<1>3. work' \in [Workers -> WorkerStates]
  BY DEF IInv, TypeOK, WorkerStates
<1>4. TypeOK'
  BY <1>3 DEF IInv, TypeOK, ownerVars
<1>5. Authority'
  BY DEF IInv, Authority, Live, Started, ownerVars
<1>6. Lineage'
  <2>1. OnePurger'
    BY <1>1, <1>2 DEF IInv, Lineage, OnePurger, Busy, ownerVars
  <2>2. \A v \in Workers : work'[v].pc \in {"wipe", "ack"} => v # w
    BY <1>2 DEF Idle
  <2> QED  BY <1>1, <2>1, <2>2 DEF IInv, Lineage, Started, ownerVars
<1>7. Contents'
  <2>1. \A v \in Workers : work'[v].pc = "ack" => v # w
    BY <1>2 DEF Idle
  <2> QED  BY <1>1, <2>1 DEF IInv, Contents, CompletedMeansWiped, Store, ownerVars
<1> QED  BY <1>4, <1>5, <1>6, <1>7 DEF IInv

(* A dispatcher moves on at its store. *)
LEMMA MoveTyped ==
    ASSUME IInv, NEW w \in Workers, Busy(w), NEW p \in {"wipe", "ack", "complete", "fail"},
           NEW n \in 1..Database, work' = [work EXCEPT ![w].pc = p, ![w].at = n]
    PROVE  /\ work' \in [Workers -> WorkerStates]
           /\ work'[w].pc = p /\ work'[w].at = n /\ work'[w].gen = work[w].gen /\ Busy(w)'
           /\ \A v \in Workers : v # w => work'[v] = work[v]
<1> DEFINE r == [work[w] EXCEPT !.pc = p, !.at = n]
<1>1. work[w] \in [pc : {"wipe", "ack", "complete", "fail"}, at : 1..Database, gen : Nat]
  BY BusyTyped DEF IInv
<1>2. /\ r \in [pc : {"wipe", "ack", "complete", "fail"}, at : 1..Database, gen : Nat]
      /\ r.pc = p /\ r.at = n /\ r.gen = work[w].gen
  BY <1>1
<1>3. work' = [work EXCEPT ![w] = r]
  BY <1>1 DEF IInv, TypeOK
<1> HIDE DEF r
<1>4. r \in WorkerStates
  BY <1>2 DEF WorkerStates
<1>5. work' \in [Workers -> WorkerStates]
  BY <1>3, <1>4 DEF IInv, TypeOK
<1>6. work'[w] = r /\ \A v \in Workers : v # w => work'[v] = work[v]
  BY <1>3 DEF IInv, TypeOK
<1> QED  BY <1>2, <1>5, <1>6 DEF Busy, Idle

(* The store handlers preserve the invariant. *)
LEMMA ExecuteStep == ASSUME IInv, NEW w \in Workers, ExecuteStore(w) PROVE IInv'
<1> DEFINE done == [s \in Physical |-> IF s = Store(w) THEN space.content ELSE wiped[s]]
<1>1. Busy(w) /\ work[w].at \in 1..4 /\ work[w].at \in 1..Database /\ request.status = "executing"
  BY DEF ExecuteStore, Busy, Idle, IInv, Lineage, OnePurger, Database
<1>2. PICK p \in {"ack", "fail"} : work' = [work EXCEPT ![w].pc = p]
  BY DEF ExecuteStore
<1>3. work' = [work EXCEPT ![w].pc = p, ![w].at = work[w].at]
  <2>1. work[w] \in [pc : {"wipe", "ack", "complete", "fail"}, at : 1..Database, gen : Nat]
    BY <1>1, BusyTyped DEF IInv
  <2> QED  BY <1>2, <2>1 DEF IInv, TypeOK
<1>4. /\ work' \in [Workers -> WorkerStates]
      /\ work'[w].pc = p /\ work'[w].at = work[w].at /\ work'[w].gen = work[w].gen /\ Busy(w)'
      /\ \A v \in Workers : v # w => work'[v] = work[v]
  BY <1>1, <1>3, MoveTyped
<1>5. /\ wiped' \in {wiped, done} /\ (p = "ack" => wiped' = done)
      /\ UNCHANGED <<ownerVars, job, checkpoint, streams>>
  <2>1. work'[w].pc = "ack" => wiped' = done
    BY <1>1, BusyTyped DEF ExecuteStore, IInv, TypeOK
  <2> QED  BY <1>4, <2>1 DEF ExecuteStore
<1>6. faults' \in 0..MaxFaults
  BY FaultTyped DEF ExecuteStore, IInv, TypeOK
<1>7. /\ space.content \in Nat /\ request.content \in Nat /\ request.content <= space.content
      /\ \A s \in Physical : wiped[s] \in Nat /\ wiped[s] <= space.content
  BY DEF IInv, TypeOK, Spaces, Requests, Contents
<1>8. /\ wiped' \in [Physical -> Nat]
      /\ \A s \in Physical : wiped'[s] \in {wiped[s], space.content}
      /\ p = "ack" /\ Store(w) \in Physical => wiped'[Store(w)] = space.content
  BY <1>5, <1>7 DEF IInv, TypeOK
<1> HIDE DEF done
<1>9. TypeOK'
  BY <1>4, <1>5, <1>6, <1>8 DEF IInv, TypeOK, ownerVars
<1>10. Authority'
  BY <1>1, <1>5 DEF IInv, Authority, Live, Started, ownerVars
<1>11. Lineage'
  BY <1>1, <1>4, <1>5 DEF IInv, Lineage, OnePurger, Busy, Started, ownerVars
<1>12. Contents'
  <2>1. \A v \in Workers : work'[v].pc = "ack" => v = w
    BY <1>1, <1>4 DEF IInv, Lineage, OnePurger, Busy, Idle
  <2>2. Store(w)' = Store(w)
    BY <1>4 DEF Store
  <2>3. \A s \in Physical : wiped'[s] >= wiped[s] /\ wiped'[s] <= space.content
    BY <1>7, <1>8
  <2>4. \A s \in Physical : checkpoint[s] = "acked" => wiped'[s] >= request.content
    BY <1>7, <1>8 DEF IInv, Contents
  <2>5. UNCHANGED <<space, request, checkpoint>> /\ request.status # "completed"
    BY <1>1, <1>5 DEF ownerVars
  <2>6. p = "fail" \/ p = "ack"
    OBVIOUS
  <2>7. \A v \in Workers : (work[v].pc = "ack" /\ Store(v) \in Physical)' => wiped'[Store(v)'] >= request.content
    BY <1>4, <1>7, <1>8, <2>1, <2>2, <2>6
  <2> QED  BY <1>7, <2>3, <2>4, <2>5, <2>7 DEF Contents, CompletedMeansWiped
<1> QED  BY <1>9, <1>10, <1>11, <1>12 DEF IInv

(* The death of a dispatcher preserves the invariant. *)
LEMMA CrashStep == ASSUME IInv, NEW w \in Workers, Crash(w) PROVE IInv'
BY IdleKeeps, FaultTyped DEF Crash, IInv, TypeOK

(* acknowledge_purge_store preserves the invariant. *)
LEMMA AcknowledgeStep == ASSUME IInv, NEW w \in Workers, AcknowledgePurgeStore(w) PROVE IInv'
<1>1. CASE ~HoldsLease(w)
  <2>1. faults' \in 0..MaxFaults
    BY DEF AcknowledgePurgeStore, IInv, TypeOK
  <2> QED  BY <1>1, <2>1, IdleKeeps DEF AcknowledgePurgeStore
<1>2. CASE HoldsLease(w)
  <2>0. /\ work[w].pc = "ack" /\ work' = [work EXCEPT ![w] = AfterStore(w)]
        /\ checkpoint' = [checkpoint EXCEPT ![Store(w)] = "acked"]
        /\ UNCHANGED <<ownerVars, job, wiped, streams, faults>>
    BY <1>2 DEF AcknowledgePurgeStore
  <2>1. Busy(w) /\ work[w].at \in 1..4 /\ request.status = "executing"
    BY <2>0 DEF Busy, Idle, IInv, Lineage, OnePurger
  <2>2. PICK p \in {"wipe", "complete"} : p = IF work[w].at + 1 = Database THEN "complete" ELSE "wipe"
    OBVIOUS
  <2>3. work' = [work EXCEPT ![w].pc = p, ![w].at = work[w].at + 1]
    <3>1. work[w] \in [pc : {"wipe", "ack", "complete", "fail"}, at : 1..Database, gen : Nat]
      BY <2>1, BusyTyped DEF IInv
    <3> QED  BY <2>0, <2>2, <3>1 DEF AfterStore, IInv, TypeOK
  <2>4. work[w].at + 1 \in 1..Database
    BY <2>1 DEF Database
  <2>5. /\ work' \in [Workers -> WorkerStates]
        /\ work'[w].pc = p /\ work'[w].at = work[w].at + 1 /\ work'[w].gen = work[w].gen /\ Busy(w)'
        /\ \A v \in Workers : v # w => work'[v] = work[v]
    BY <2>1, <2>3, <2>4, MoveTyped
  <2>6. /\ checkpoint' \in [StoreCodes -> {"none", "pending", "acked", "failed"}]
        /\ Store(w) \in StoreCodes /\ checkpoint'[Store(w)] = "acked"
        /\ \A s \in StoreCodes : s # Store(w) => checkpoint'[s] = checkpoint[s]
    <3>1. work[w].at \in 1..Database
      BY <2>1 DEF Database
    <3> QED  BY <2>0, <3>1, StoresTyped DEF Store, IInv, TypeOK
  <2>7. TypeOK'
    BY <2>0, <2>5, <2>6 DEF IInv, TypeOK, ownerVars
  <2>8. Authority'
    BY <2>0 DEF IInv, Authority, Live, Started, ownerVars
  <2>9. Lineage'
    <3>1. OnePurger'
      BY <2>0, <2>1, <2>5 DEF IInv, Lineage, OnePurger, Busy, ownerVars
    <3>2. p = "wipe" => work[w].at + 1 \in 1..4
      BY <2>1, <2>2 DEF Database
    <3>3. \A v \in Workers : work'[v].pc \in {"wipe", "ack"} => work'[v].at \in 1..4
      BY <2>5, <3>2 DEF IInv, Lineage
    <3>4. Started'
      BY <2>0, <2>1 DEF Started, ownerVars
    <3> QED  BY <3>1, <3>3, <3>4 DEF Lineage
  <2>10. Contents'
    <3>1. \A v \in Workers : work'[v].pc # "ack"
      BY <2>1, <2>5 DEF IInv, Lineage, OnePurger, Busy
    <3>2. \A s \in Physical : checkpoint'[s] = "acked" => wiped[s] >= request.content
      BY <2>0, <2>6, StoresTyped DEF IInv, Contents
    <3>3. UNCHANGED <<space, request, wiped>>
      BY <2>0 DEF ownerVars
    <3> QED  BY <2>1, <3>1, <3>2, <3>3 DEF IInv, Contents, CompletedMeansWiped
  <2> QED  BY <2>7, <2>8, <2>9, <2>10 DEF IInv
<1> QED  BY <1>1, <1>2

(* fail_purge_job preserves the invariant. *)
LEMMA FailStep == ASSUME IInv, NEW w \in Workers, FailPurgeJob(w) PROVE IInv'
<1>1. CASE ~HoldsLease(w)
  <2>1. faults' \in 0..MaxFaults
    BY DEF FailPurgeJob, IInv, TypeOK
  <2> QED  BY <1>1, <2>1, IdleKeeps DEF FailPurgeJob, ownerVars
<1>2. CASE HoldsLease(w)
  <2>0. /\ work[w].pc = "fail" /\ work' = [work EXCEPT ![w] = Idle]
        /\ checkpoint' = [checkpoint EXCEPT ![Store(w)] = IF @ = "acked" THEN "acked" ELSE "failed"]
        /\ request' = [request EXCEPT !.status = "failed"]
        /\ job' = [job EXCEPT !.state = "failed", !.lease = 0]
        /\ UNCHANGED <<space, tombstoned, impact, age, wiped, streams, faults>>
    BY <1>2 DEF FailPurgeJob
  <2>1. Busy(w) /\ request.status = "executing" /\ request \in Requests /\ job \in Jobs
    BY <2>0 DEF Busy, Idle, IInv, Lineage, OnePurger, TypeOK
  <2>2. request' \in Requests /\ request'.status = "failed" /\ request'.content = request.content
    BY <2>0, <2>1, StatusTyped DEF Statuses, LiveStatuses
  <2>3. \A v \in Workers : ~Busy(v)'
    BY <2>0, <2>1 DEF IInv, TypeOK, Lineage, OnePurger, Busy, Idle
  <2>4. \A s \in StoreCodes : checkpoint'[s] = "acked" => checkpoint[s] = "acked"
    BY <2>0 DEF IInv, TypeOK
  <2>5. TypeOK'
    <3>1. job' \in Jobs
      BY <2>0, <2>1 DEF Jobs
    <3>2. checkpoint' \in [StoreCodes -> {"none", "pending", "acked", "failed"}]
      BY <2>0 DEF IInv, TypeOK
    <3>3. work' \in [Workers -> WorkerStates]
      BY <2>0 DEF IInv, TypeOK, WorkerStates
    <3> QED  BY <2>0, <2>2, <3>1, <3>2, <3>3 DEF IInv, TypeOK
  <2>6. Authority'
    BY <2>0, <2>1, <2>2 DEF IInv, Authority, Live, LiveStatuses, Started
  <2>7. \A v \in Workers : work'[v].pc \notin {"wipe", "ack"}
    BY <2>3 DEF Busy, Idle
  <2>8. Lineage'
    BY <2>2, <2>3, <2>7 DEF Lineage, OnePurger, Started
  <2>9. Contents'
    BY <2>0, <2>2, <2>4, <2>7, StoresTyped DEF IInv, Contents, CompletedMeansWiped
  <2> QED  BY <2>5, <2>6, <2>8, <2>9 DEF IInv
<1> QED  BY <1>1, <1>2

(* The rows go last: every store was wiped of all there was. *)
LEMMA CompleteStep == ASSUME IInv, NEW w \in Workers, CompleteDatabasePurge(w) PROVE IInv'
<1> DEFINE fits == ManifestMatches /\ \A i \in 1..4 : checkpoint[Stores[i]] = "acked"
           lost == ~HoldsLease(w) \/ request.life # space.life \/ request.own # space.own
           done == /\ fits
                   /\ space' = [space EXCEPT !.exists = FALSE]
                   /\ request' = [request EXCEPT !.status = "completed"]
                   /\ job' = [job EXCEPT !.state = "completed", !.lease = 0]
                   /\ checkpoint' = [checkpoint EXCEPT !["database"] = "acked"]
                   /\ work' = [work EXCEPT ![w] = Idle]
                   /\ UNCHANGED <<tombstoned, impact, age, wiped, streams>>
                   /\ NoFault
<1>0. faults' \in 0..MaxFaults
  BY FaultTyped DEF CompleteDatabasePurge, IInv, TypeOK
<1>1. Busy(w) /\ work[w].pc = "complete" /\ request.status = "executing"
  BY DEF CompleteDatabasePurge, Busy, Idle, IInv, Lineage, OnePurger
<1>2. CASE lost
  BY <1>0, <1>2, IdleKeeps DEF CompleteDatabasePurge, ownerVars
<1>3. CASE ~lost /\ ~done
  <2>0. work' = [work EXCEPT ![w].pc = "fail"] /\ UNCHANGED <<ownerVars, job, checkpoint, wiped, streams>>
    BY <1>3 DEF CompleteDatabasePurge, ownerVars
  <2>1. work' = [work EXCEPT ![w].pc = "fail", ![w].at = work[w].at] /\ work[w].at \in 1..Database
    BY <1>1, <2>0, BusyTyped DEF IInv, TypeOK
  <2>2. /\ work' \in [Workers -> WorkerStates]
        /\ work'[w].pc = "fail" /\ work'[w].gen = work[w].gen /\ Busy(w)'
        /\ \A v \in Workers : v # w => work'[v] = work[v]
    BY <1>1, <2>1, MoveTyped
  <2>3. TypeOK'
    BY <1>0, <2>0, <2>2 DEF IInv, TypeOK, ownerVars
  <2>4. Authority'
    BY <2>0 DEF IInv, Authority, Live, Started, ownerVars
  <2>5. Lineage'
    BY <1>1, <2>0, <2>2 DEF IInv, Lineage, OnePurger, Busy, Started, ownerVars
  <2>6. \A v \in Workers : work'[v].pc = "ack" => v # w
    BY <2>2
  <2>7. Contents'
    BY <2>0, <2>2, <2>6 DEF IInv, Contents, CompletedMeansWiped, Store, ownerVars
  <2> QED  BY <2>3, <2>4, <2>5, <2>7 DEF IInv
<1>4. CASE done
  <2>1. request \in Requests /\ job \in Jobs /\ space \in Spaces
    BY DEF IInv, TypeOK
  <2>2. request' \in Requests /\ request'.status = "completed" /\ request'.content = request.content
    BY <1>4, <2>1, StatusTyped DEF Statuses
  <2>3. /\ space' \in Spaces /\ ~space'.exists
        /\ space'.archived = space.archived /\ space'.content = space.content
    BY <1>4, <2>1 DEF Spaces
  <2>4. \A v \in Workers : ~Busy(v)' /\ work'[v].pc \notin {"wipe", "ack"}
    BY <1>1, <1>4 DEF IInv, TypeOK, Lineage, OnePurger, Busy, Idle
  <2>5. /\ checkpoint' \in [StoreCodes -> {"none", "pending", "acked", "failed"}]
        /\ \A s \in StoreCodes : checkpoint'[s] = "acked"
        /\ \A s \in Physical : checkpoint[s] = "acked"
    BY <1>4, StoresTyped DEF IInv, TypeOK
  <2>6. TypeOK'
    <3>1. job' \in Jobs
      BY <1>4, <2>1 DEF Jobs
    <3>2. work' \in [Workers -> WorkerStates]
      BY <1>4 DEF IInv, TypeOK, WorkerStates
    <3> QED  BY <1>0, <1>4, <2>2, <2>3, <2>5, <3>1, <3>2 DEF IInv, TypeOK
  <2>7. Authority'
    BY <1>1, <1>4, <2>2, <2>3 DEF IInv, Authority, Live, LiveStatuses, Started
  <2>8. Lineage'
    BY <2>2, <2>4 DEF Lineage, OnePurger, Started
  <2>9. \A s \in Physical : wiped[s] = space.content
    BY <1>4, <2>1, <2>5 DEF ManifestMatches, IInv, TypeOK, Contents, Spaces
  <2>10. space.content \in Nat /\ request.content <= space.content
    BY <2>1 DEF IInv, Contents, Spaces
  <2>12. streams = 0
    <3>1. /\ streams \in 0..StreamTicks /\ age.archived \in Nat /\ age.archived >= ArchiveTicks
          /\ streams = 0 \/ age.archived + streams <= StreamTicks
      BY <1>1 DEF IInv, TypeOK, Authority, Live, LiveStatuses, Started
    <3> QED  BY <3>1, StreamAssumption, TimeAssumption
  <2>11. Contents'
    BY <1>4, <2>2, <2>3, <2>4, <2>5, <2>9, <2>10, <2>12 DEF Contents, CompletedMeansWiped
  <2> QED  BY <2>6, <2>7, <2>8, <2>11 DEF IInv
<1> QED  BY <1>2, <1>3, <1>4

(* The passing of time preserves the invariant. *)
LEMMA TickStep == ASSUME IInv, Tick PROVE IInv'
<1>1. space' = space /\ tombstoned' = tombstoned /\ checkpoint' = checkpoint /\ wiped' = wiped /\ work' = work
  BY DEF Tick
<1>2. /\ impact \in Impacts /\ request \in Requests /\ job \in Jobs
      /\ age \in [archived : Nat, confirmed : Nat]
  BY DEF IInv, TypeOK
<1>3. \A n \in Nat : Before(n) \in Nat /\ Before(n) <= n /\ n <= Before(n) + 1
  BY DEF Before
<1>4. impact' \in Impacts /\ job' \in Jobs /\ job'.gen = job.gen
  BY <1>2, <1>3 DEF Tick, Impacts, Jobs
<1>5. /\ request' \in Requests /\ request'.status = request.status /\ request'.content = request.content
      /\ request'.wait = Before(request.wait) /\ request.wait \in Nat
  BY <1>2, <1>3 DEF Tick, Requests
<1>6. /\ age' \in [archived : Nat, confirmed : Nat]
      /\ age'.archived = Least(age.archived + 1, ArchiveTicks)
      /\ age'.confirmed = Least(age.confirmed + 1, ConfirmTicks)
  BY <1>2, TimeAssumption DEF Tick, Least
<1>7. faults' \in 0..MaxFaults
  BY FaultTyped DEF Tick, IInv, TypeOK
<1>12. /\ streams' = Before(streams) /\ streams \in 0..StreamTicks /\ StreamTicks \in Nat
       /\ StreamTicks <= ArchiveTicks
  BY StreamAssumption DEF Tick, IInv, TypeOK
<1>13. streams' \in 0..StreamTicks /\ (streams # 0 => streams' = streams - 1) /\ (streams = 0 => streams' = 0)
  BY <1>12 DEF Before
<1>8. TypeOK'
  BY <1>1, <1>4, <1>5, <1>6, <1>7, <1>13 DEF IInv, TypeOK
<1>9. Authority'
  <2>1. request.status = "scheduled" =>
            /\ age'.archived + request'.wait >= ArchiveTicks
            /\ age'.confirmed + request'.wait >= ConfirmTicks
    BY <1>2, <1>3, <1>5, <1>6, TimeAssumption DEF IInv, Authority, Least
  <2>2. Started => age'.archived >= ArchiveTicks /\ age'.confirmed >= ConfirmTicks
    BY <1>2, <1>6, TimeAssumption DEF IInv, Authority, Least
  <2>3. space.archived => streams' = 0 \/ age'.archived + streams' <= StreamTicks
    <3>1. space.archived => streams = 0 \/ age.archived + streams <= StreamTicks
      BY DEF IInv, Authority
    <3>2. age'.archived <= age.archived + 1 /\ age.archived \in Nat /\ age'.archived \in Nat
      BY <1>2, <1>6, TimeAssumption DEF Least
    <3> QED  BY <1>12, <1>13, <3>1, <3>2
  <2> QED  BY <1>1, <1>5, <2>1, <2>2, <2>3 DEF IInv, Authority, Live, Started
<1>10. Lineage'
  BY <1>1, <1>4, <1>5 DEF IInv, Lineage, OnePurger, Busy, Started
<1>11. Contents'
  BY <1>1, <1>5, <1>13 DEF IInv, Contents, CompletedMeansWiped, Store
<1> QED  BY <1>8, <1>9, <1>10, <1>11 DEF IInv

(* Events around the purge. *)
LEMMA SurroundingsStep ==
    ASSUME IInv, GetDeletionImpact \/ ContentChanges \/ OwnershipChanges \/ BlockerChanges
    PROVE  IInv'
<1>1. faults' \in 0..MaxFaults
  BY FaultTyped DEF GetDeletionImpact, ContentChanges, OwnershipChanges, BlockerChanges, IInv, TypeOK
<1>2. UNCHANGED <<tombstoned, request, age, purgeVars>>
  BY DEF GetDeletionImpact, ContentChanges, OwnershipChanges, BlockerChanges
<1>3. space \in Spaces /\ impact \in Impacts /\ space.content \in Nat
  BY DEF IInv, TypeOK, Spaces
<1>4. impact' \in Impacts
  <2>1. CASE GetDeletionImpact
    <3>1. Blocked \in BOOLEAN
      BY <1>3 DEF Blocked, OwnRowsBlock, Spaces
    <3> HIDE DEF Blocked
    <3>2. space.life \in Nat /\ space.own \in Nat
      BY <1>3 DEF Spaces
    <3> QED  BY <1>3, <2>1, <3>1, <3>2, TimeAssumption DEF GetDeletionImpact, Impacts
  <2>2. CASE ~GetDeletionImpact
    BY <1>3, <2>2 DEF ContentChanges, OwnershipChanges, BlockerChanges
  <2> QED  BY <2>1, <2>2
<1>5. space' \in Spaces /\ space'.exists = space.exists /\ space'.archived = space.archived
  <2>1. CASE GetDeletionImpact
    BY <1>3, <2>1 DEF GetDeletionImpact
  <2>2. CASE ContentChanges
    <3>1. PICK n \in Nat : space' = [space EXCEPT !.content = n]
      BY <1>3, <2>2 DEF ContentChanges
    <3> QED  BY <1>3, <3>1 DEF Spaces
  <2>3. CASE OwnershipChanges
    <3>1. space.own + 1 \in Nat /\ space.content + 1 \in Nat
      BY <1>3 DEF Spaces
    <3>2. PICK m \in Nat, n \in Nat : space' = [space EXCEPT !.own = m, !.content = n]
      BY <3>1, <2>3 DEF OwnershipChanges
    <3> QED  BY <1>3, <3>2 DEF Spaces
  <2>4. CASE BlockerChanges
    BY <1>3, <2>4 DEF BlockerChanges, Spaces
  <2> QED  BY <2>1, <2>2, <2>3, <2>4
<1>6. space'.content \in {space.content, space.content + 1}
  BY <1>3 DEF GetDeletionImpact, ContentChanges, OwnershipChanges, BlockerChanges, Spaces
<1>7. space'.content = space.content \/ space.exists
  <2>1. CASE GetDeletionImpact
    BY <2>1 DEF GetDeletionImpact
  <2>2. CASE ~GetDeletionImpact
    BY <2>2 DEF ContentChanges, OwnershipChanges, BlockerChanges
  <2> QED  BY <2>1, <2>2
<1> QED  BY <1>1, <1>2, <1>3, <1>4, <1>5, <1>6, <1>7, SurroundingsKeep

-----------------------------------------------------------------------------
(* An append to a stream: the workspace is in use, or was archived just now. *)
LEMMA ChatStep == ASSUME IInv, ChatWrites PROVE IInv'
<1>1. /\ space.exists /\ (~space.archived \/ age.archived = 0) /\ streams' = StreamTicks
      /\ UNCHANGED <<space, tombstoned, impact, request, age, job, checkpoint, wiped, work, faults>>
  BY DEF ChatWrites, ownerVars
<1>2. TypeOK'
  BY <1>1, StreamAssumption DEF IInv, TypeOK
<1>3. space.archived => age.archived + streams' <= StreamTicks
  BY <1>1, StreamAssumption
<1>4. Authority'
  BY <1>1, <1>3 DEF IInv, Authority, Live, Started
<1>5. Lineage'
  BY <1>1 DEF IInv, Lineage, OnePurger, Busy, Started
<1>6. request.status # "completed"
  BY <1>1 DEF IInv, Authority
<1>7. Contents'
  BY <1>1, <1>6 DEF IInv, Contents, CompletedMeansWiped, Store
<1> QED  BY <1>2, <1>4, <1>5, <1>7 DEF IInv

(* Stuttering preserves the invariant. *)
LEMMA StutterStep == ASSUME IInv, UNCHANGED vars PROVE IInv'
<1>1. UNCHANGED <<space, impact, faults, tombstoned, request, age, purgeVars>>
  BY DEF vars, purgeVars
<1>2. /\ space \in Spaces /\ impact \in Impacts /\ faults \in 0..MaxFaults /\ space.content \in Nat
  BY DEF IInv, TypeOK, Spaces
<1>3. space'.content >= space.content
  BY <1>1, <1>2
<1> QED  BY <1>1, <1>2, <1>3, SurroundingsKeep

(* Every step preserves the invariant. *)
LEMMA NextIInv == IInv /\ [Next]_vars => IInv'
<1> SUFFICES ASSUME IInv, [Next]_vars PROVE IInv'
  OBVIOUS
<1>1. CASE Owner
  BY <1>1, ArchiveStep, RestoreStep, SurroundingsStep, SubmitStep, ConfirmStep, CancelStep DEF Owner
<1>2. ASSUME NEW w \in Workers, Dispatch(w) PROVE IInv'
  BY <1>2, ClaimStep, ExecuteStep, AcknowledgeStep, CompleteStep, FailStep DEF Dispatch
<1>3. ASSUME NEW w \in Workers, Crash(w) PROVE IInv'
  BY <1>3, CrashStep
<1>4. CASE ContentChanges \/ OwnershipChanges \/ BlockerChanges \/ ChatWrites
  BY <1>4, SurroundingsStep, ChatStep
<1>5. CASE Tick
  BY <1>5, TickStep
<1>6. CASE UNCHANGED vars
  BY <1>6, StutterStep
<1> QED  BY <1>1, <1>2, <1>3, <1>4, <1>5, <1>6 DEF Next

(* The invariant holds in every reachable state. *)
LEMMA Invariance == Spec => []IInv
BY InitIInv, NextIInv, PTL DEF Spec

(* Every variable keeps its type, whatever dispatchers and owners do. *)
THEOREM TypeTheorem == Spec => []TypeOK
<1>1. IInv => TypeOK
  BY DEF IInv
<1> QED  BY <1>1, Invariance, PTL

(* Nothing of a workspace is destroyed before its deletion was confirmed,   *)
(* both retention periods are over and its locator is retired.             *)
THEOREM AuthorisedTheorem == Spec => []DestructionIsAuthorised
<1>1. IInv => DestructionIsAuthorised
  BY DEF IInv, Authority, DestructionIsAuthorised, Started, Live, LiveStatuses
<1> QED  BY <1>1, Invariance, PTL

(* A completed deletion leaves nothing in the stores that was written before *)
(* the rows went, and no event stream that could be replayed: those are     *)
(* deleted by nobody but expire before the archive retention is over. *)
THEOREM WipedTheorem == Spec => []CompletedMeansWiped
<1>1. IInv => CompletedMeansWiped
  BY DEF IInv, Contents
<1> QED  BY <1>1, Invariance, PTL

(* One dispatcher at a time runs a purge, under the newest generation. *)
THEOREM OnePurgerTheorem == Spec => []OnePurger
<1>1. IInv => OnePurger
  BY DEF IInv, Lineage
<1> QED  BY <1>1, Invariance, PTL

(* A started purge stays started; its workspace stays archived and its      *)
(* locator retired. *)
THEOREM IrrevocableTheorem == Spec => PurgeIsIrrevocable
<1>1. ASSUME IInv, [Next]_vars, tombstoned PROVE tombstoned' /\ Started' /\ space'.archived
  <2>1. IInv'
    BY <1>1, NextIInv
  <2>2. tombstoned'
    BY <1>1 DEF Next, vars, Owner, ArchiveWorkspace, RestoreWorkspace, GetDeletionImpact,
               SubmitDeletionRequest, ConfirmDeletionRequest, CancelDeletionRequest, Dispatch,
               ClaimPurgeRequest, ExecuteStore, AcknowledgePurgeStore, CompleteDatabasePurge,
               FailPurgeJob, Crash, ContentChanges, OwnershipChanges, BlockerChanges, ChatWrites, Tick, ownerVars
  <2>3. Started'
    BY <2>1, <2>2 DEF IInv, Authority
  <2>4. space'.archived
    BY <2>1, <2>3 DEF IInv, Authority, Started, Live, LiveStatuses
  <2> QED  BY <2>2, <2>3, <2>4
<1>2. IInv /\ [Next]_vars => [tombstoned => tombstoned' /\ Started' /\ space'.archived]_vars
  BY <1>1
<1> QED  BY <1>2, Invariance, PTL DEF Spec, PurgeIsIrrevocable

-----------------------------------------------------------------------------
(* The checkpoint of the database is open while a job runs and is         *)
(* acknowledged only with the deletion of the rows.                        *)
DatabaseOpen ==
    /\ space.exists => checkpoint["database"] # "acked"
    /\ job.state = "running" => checkpoint["database"] # "none"

LEMMA DatabaseOpenStep == ASSUME IInv, DatabaseOpen, [Next]_vars PROVE DatabaseOpen'
<1>0. /\ space \in Spaces /\ job \in Jobs
      /\ checkpoint \in [StoreCodes -> {"none", "pending", "acked", "failed"}] /\ "database" \in StoreCodes
  BY StoresTyped DEF IInv, TypeOK
<1>1. ASSUME space'.exists = space.exists, job'.state = job.state, checkpoint' = checkpoint PROVE DatabaseOpen'
  BY <1>1 DEF DatabaseOpen
<1>2. CASE Owner \/ ContentChanges \/ OwnershipChanges \/ BlockerChanges \/ UNCHANGED vars
  <2>1. space'.exists = space.exists /\ UNCHANGED <<job, checkpoint>>
    BY <1>0, <1>2 DEF Owner, ArchiveWorkspace, RestoreWorkspace, GetDeletionImpact, SubmitDeletionRequest,
          ConfirmDeletionRequest, CancelDeletionRequest, ContentChanges, OwnershipChanges, BlockerChanges,
          purgeVars, vars, Spaces
  <2> QED  BY <1>1, <2>1
<1>3. ASSUME NEW w \in Workers, Dispatch(w) PROVE DatabaseOpen'
  <2>1. CASE ClaimPurgeRequest(w)
    <3>1. CASE checkpoint' = checkpoint
      BY <1>0, <2>1, <3>1 DEF ClaimPurgeRequest, DatabaseOpen
    <3>2. CASE checkpoint' = [s \in StoreCodes |-> IF checkpoint[s] = "acked" THEN "acked" ELSE "pending"]
      BY <1>0, <2>1, <3>2 DEF ClaimPurgeRequest, DatabaseOpen
    <3> QED  BY <2>1, <3>1, <3>2 DEF ClaimPurgeRequest
  <2>2. CASE ExecuteStore(w)
    BY <1>1, <2>2 DEF ExecuteStore, ownerVars
  <2>3. CASE AcknowledgePurgeStore(w)
    <3>1. work[w].at \in 1..4
      BY <2>3 DEF AcknowledgePurgeStore, IInv, Lineage
    <3>2. Store(w) # "database"
      BY <3>1 DEF Store, Stores
    <3>3. checkpoint'["database"] = checkpoint["database"] /\ UNCHANGED <<space, job>>
      BY <1>0, <2>3, <3>2 DEF AcknowledgePurgeStore, ownerVars
    <3> QED  BY <3>3 DEF DatabaseOpen
  <2>4. CASE CompleteDatabasePurge(w)
    <3>1. CASE UNCHANGED <<space, job, checkpoint>>
      BY <1>1, <3>1
    <3>2. CASE space' = [space EXCEPT !.exists = FALSE] /\ job' = [job EXCEPT !.state = "completed", !.lease = 0]
      BY <1>0, <3>2 DEF DatabaseOpen, Spaces, Jobs
    <3> QED  BY <2>4, <3>1, <3>2 DEF CompleteDatabasePurge
  <2>5. CASE FailPurgeJob(w)
    <3>1. CASE HoldsLease(w)
      BY <1>0, <2>5, <3>1 DEF FailPurgeJob, DatabaseOpen, Jobs
    <3>2. CASE ~HoldsLease(w)
      BY <1>1, <2>5, <3>2 DEF FailPurgeJob
    <3> QED  BY <3>1, <3>2
  <2> QED  BY <1>3, <2>1, <2>2, <2>3, <2>4, <2>5 DEF Dispatch
<1>4. ASSUME NEW w \in Workers, Crash(w) PROVE DatabaseOpen'
  BY <1>1, <1>4 DEF Crash, ownerVars
<1>5. CASE Tick
  BY <1>0, <1>1, <1>5 DEF Tick, Jobs
<1>6. CASE ChatWrites
  BY <1>1, <1>6 DEF ChatWrites, ownerVars
<1> QED  BY <1>2, <1>3, <1>4, <1>5, <1>6 DEF Next

(* With the purge's job or its checkpoints among the rows the registry      *)
(* counts as open tasks - migration 0015 installs both - no deletion is     *)
(* ever completed, with however many dispatchers, attempts and retries: the *)
(* rows a running purge must have are themselves the blocker.               *)
THEOREM DeployedRegistryTheorem ==
    ASSUME BlockerRows # {}
    PROVE  Spec => [](request.status # "completed" /\ space.exists)
<1> DEFINE Standing == request.status # "completed" /\ space.exists
<1>1. Init => Standing /\ DatabaseOpen
  BY DEF Init, DatabaseOpen, StoreCodes, Stores
<1>2. ASSUME IInv, DatabaseOpen, Standing, [Next]_vars PROVE Standing'
  <2>0. space \in Spaces /\ request \in Requests
    BY <1>2 DEF IInv, TypeOK
  <2>1. CASE Owner
    <3>1. space'.exists = space.exists
      BY <2>0, <2>1 DEF Owner, ArchiveWorkspace, RestoreWorkspace, GetDeletionImpact, SubmitDeletionRequest,
                       ConfirmDeletionRequest, CancelDeletionRequest, Spaces
    <3>2. request'.status # "completed"
      <4>1. CASE ArchiveWorkspace \/ RestoreWorkspace \/ GetDeletionImpact
        BY <1>2, <4>1 DEF ArchiveWorkspace, RestoreWorkspace, GetDeletionImpact
      <4>2. CASE SubmitDeletionRequest
        BY <4>2 DEF SubmitDeletionRequest
      <4>3. CASE ConfirmDeletionRequest \/ CancelDeletionRequest
        BY <2>0, <4>3 DEF ConfirmDeletionRequest, CancelDeletionRequest, Requests
      <4> QED  BY <2>1, <4>1, <4>2, <4>3 DEF Owner
    <3> QED  BY <1>2, <3>1, <3>2
  <2>2. ASSUME NEW w \in Workers, Dispatch(w) PROVE Standing'
    <3>1. CASE CompleteDatabasePurge(w)
      <4>1. ASSUME HoldsLease(w) PROVE OwnRowsBlock
        <5>1. job.state = "running" /\ checkpoint["database"] \notin {"none", "acked"}
          BY <1>2, <4>1 DEF HoldsLease, DatabaseOpen
        <5>2. "job" \in BlockerRows \/ "checkpoint" \in BlockerRows
          BY RowsAssumption
        <5> QED  BY <5>1, <5>2, StoresTyped DEF OwnRowsBlock
      <4>2. UNCHANGED <<space, request>>
        BY <3>1, <4>1 DEF CompleteDatabasePurge, ManifestMatches, Blocked
      <4> QED  BY <1>2, <4>2
    <3>2. CASE ClaimPurgeRequest(w)
      BY <1>2, <2>0, <3>2 DEF ClaimPurgeRequest, Requests
    <3>3. CASE ExecuteStore(w) \/ AcknowledgePurgeStore(w) \/ FailPurgeJob(w)
      BY <1>2, <2>0, <3>3 DEF ExecuteStore, AcknowledgePurgeStore, FailPurgeJob, ownerVars, Requests
    <3> QED  BY <2>2, <3>1, <3>2, <3>3 DEF Dispatch
  <2>3. ASSUME NEW w \in Workers, Crash(w) PROVE Standing'
    BY <1>2, <2>3 DEF Crash, ownerVars
  <2>4. CASE ContentChanges \/ OwnershipChanges \/ BlockerChanges
    BY <1>2, <2>0, <2>4 DEF ContentChanges, OwnershipChanges, BlockerChanges, Spaces
  <2>5. CASE Tick
    BY <1>2, <2>0, <2>5 DEF Tick, Requests
  <2>6. CASE ChatWrites \/ UNCHANGED vars
    BY <1>2, <2>6 DEF ChatWrites, ownerVars, vars
  <2> QED  BY <1>2, <2>1, <2>2, <2>3, <2>4, <2>5, <2>6 DEF Next
<1> QED  BY <1>1, <1>2, DatabaseOpenStep, Invariance, PTL DEF Spec

-----------------------------------------------------------------------------
(* The owner's view of the state: its types. *)
LEMMA OwnerTyped ==
    ASSUME IInv
    PROVE  /\ space \in Spaces /\ request \in Requests /\ impact \in Impacts
           /\ age \in [archived : Nat, confirmed : Nat]
BY DEF IInv, TypeOK

(* An age is not counted beyond its period. *)
AgeBounded == age.archived <= ArchiveTicks /\ age.confirmed <= ConfirmTicks

LEMMA AgeInvariance == Spec => []AgeBounded
<1>1. Init => AgeBounded
  BY TimeAssumption DEF Init, AgeBounded
<1>2. ASSUME IInv, AgeBounded, [Next]_vars PROVE AgeBounded'
  <2>0. age \in [archived : Nat, confirmed : Nat]
    BY <1>2, OwnerTyped
  <2>1. CASE ArchiveWorkspace
    BY <1>2, <2>0, <2>1, TimeAssumption DEF ArchiveWorkspace, AgeBounded
  <2>2. CASE ConfirmDeletionRequest
    BY <1>2, <2>0, <2>2, TimeAssumption DEF ConfirmDeletionRequest, AgeBounded
  <2>3. CASE Tick
    BY <1>2, <2>0, <2>3, TimeAssumption DEF Tick, AgeBounded, Least
  <2>4. CASE ~ArchiveWorkspace /\ ~ConfirmDeletionRequest /\ ~Tick
    <3>1. UNCHANGED age
      BY <1>2, <2>4 DEF Next, vars, Owner, RestoreWorkspace, GetDeletionImpact, SubmitDeletionRequest,
               CancelDeletionRequest, Dispatch, ClaimPurgeRequest, ExecuteStore, AcknowledgePurgeStore,
               CompleteDatabasePurge, FailPurgeJob, Crash, ContentChanges, OwnershipChanges, BlockerChanges, ChatWrites, ownerVars
    <3> QED  BY <1>2, <3>1 DEF AgeBounded
  <2> QED  BY <2>1, <2>2, <2>3, <2>4
<1> QED  BY <1>1, <1>2, Invariance, PTL DEF Spec

(* What is gone before the purge starts, and what steps leave it alone. *)
LEMMA GoneBefore ==
    ASSUME IInv
    PROVE  /\ ~Started => Gone = "nothing"
           /\ space.exists <=> Gone # "everything"
BY DEF IInv, Authority, Gone, Started

LEMMA GoneKept ==
    ASSUME space'.exists = space.exists, wiped' = wiped
    PROVE  Gone' = Gone
BY DEF Gone

(* Each command of the owner is the action of the contract. *)
LEMMA OwnerImplements == ASSUME IInv, Owner PROVE [Deletion!Next]_(Deletion!vars)
<1> USE OwnerTyped
<1>0. space'.exists = space.exists /\ wiped' = wiped
  BY DEF Owner, ArchiveWorkspace, RestoreWorkspace, GetDeletionImpact, SubmitDeletionRequest,
         ConfirmDeletionRequest, CancelDeletionRequest, purgeVars, Spaces
<1>1. Gone' = Gone
  BY <1>0, GoneKept
<1>2. ASSUME space.exists, ~Live PROVE Deletion!Quiet
  BY <1>2 DEF Deletion!Quiet, Live, LiveStatuses, IInv, Authority, Requests, Statuses
<1>3. CASE ArchiveWorkspace
  <2>1. ~Live
    BY <1>3 DEF ArchiveWorkspace, IInv, Authority
  <2>2. Deletion!Archive
    BY <1>1, <1>2, <1>3, <2>1 DEF ArchiveWorkspace, Lockable, Deletion!Archive, Spaces
  <2> QED  BY <2>2 DEF Deletion!Next
<1>4. CASE RestoreWorkspace
  <2>1. Gone = "nothing"
    BY <1>2, <1>4, GoneBefore DEF RestoreWorkspace, Lockable, Deletion!Quiet, Started
  <2>2. Deletion!Restore
    BY <1>1, <1>2, <1>4, <2>1 DEF RestoreWorkspace, Lockable, Deletion!Restore, Spaces
  <2> QED  BY <2>2 DEF Deletion!Next
<1>5. CASE GetDeletionImpact
  <2>1. Deletion!Look
    BY <1>1, <1>5, GoneBefore DEF GetDeletionImpact, Deletion!Look
  <2> QED  BY <2>1 DEF Deletion!Next
<1>6. CASE SubmitDeletionRequest
  <2>1. Deletion!Ask
    BY <1>1, <1>2, <1>6 DEF SubmitDeletionRequest, Lockable, ImpactCurrent, Deletion!Ask
  <2> QED  BY <2>1 DEF Deletion!Next
<1>7. CASE ConfirmDeletionRequest
  <2>1. Deletion!Confirm
    BY <1>1, <1>7 DEF ConfirmDeletionRequest, Unchanged, Deletion!Confirm, Requests
  <2> QED  BY <2>1 DEF Deletion!Next
<1>8. CASE CancelDeletionRequest
  <2>1. Deletion!Cancel
    BY <1>1, <1>8 DEF CancelDeletionRequest, Deletion!Cancel, Requests
  <2> QED  BY <2>1 DEF Deletion!Next
<1> QED  BY <1>3, <1>4, <1>5, <1>6, <1>7, <1>8 DEF Owner

(* Each step of a dispatcher is a step of the contract, or invisible. *)
LEMMA DispatchImplements ==
    ASSUME IInv, NEW w \in Workers, Dispatch(w)
    PROVE  [Deletion!Next]_(Deletion!vars)
<1> USE OwnerTyped
<1>1. CASE ClaimPurgeRequest(w)
  <2>0. Gone' = Gone
    BY <1>1, GoneKept DEF ClaimPurgeRequest
  <2>1. Deletion!Served
    BY <1>1 DEF ClaimPurgeRequest, Claimable, IInv, Authority, Started, Requests, Deletion!Served
  <2>2. CASE ~Blocked /\ space.archived /\ Unchanged
    <3>1. Deletion!Start
      BY <1>1, <2>0, <2>1, <2>2 DEF ClaimPurgeRequest, Claimable, Unchanged, Deletion!Start, Requests
    <3> QED  BY <3>1 DEF Deletion!Next
  <2>3. CASE ~(~Blocked /\ space.archived /\ Unchanged)
    <3>1. Deletion!Invalidate
      BY <1>1, <2>0, <2>1, <2>3 DEF ClaimPurgeRequest, Deletion!Invalidate, Requests
    <3> QED  BY <3>1 DEF Deletion!Next
  <2> QED  BY <2>2, <2>3
<1>2. CASE ExecuteStore(w)
  <2>1. UNCHANGED ownerVars /\ request.status = "executing"
    BY <1>2 DEF ExecuteStore, Busy, IInv, Lineage, OnePurger
  <2>2. space.exists
    BY <2>1 DEF IInv, Authority
  <2>3. CASE wiped' = wiped
    BY <2>1, <2>3, GoneKept DEF ownerVars, Deletion!vars
  <2>4. CASE wiped' = [s \in Physical |-> IF s = Store(w) THEN space.content ELSE wiped[s]]
    <3>1. \A s \in Physical : wiped[s] \in Nat /\ wiped[s] <= space.content /\ space.content \in Nat
      BY DEF IInv, TypeOK, Contents, Spaces
    <3>2. \A s \in Physical : wiped[s] # 0 => wiped'[s] # 0
      BY <2>4, <3>1
    <3>3. Gone' = Gone \/ Gone' = "some"
      BY <2>1, <2>2, <3>2 DEF Gone, ownerVars
    <3>4. CASE Gone' = "some"
      <4>1. Deletion!Destroy
        BY <2>1, <3>4 DEF ownerVars, Deletion!Destroy
      <4> QED  BY <4>1 DEF Deletion!Next
    <3>5. CASE Gone' = Gone
      BY <2>1, <3>5 DEF ownerVars, Deletion!vars
    <3> QED  BY <3>3, <3>4, <3>5
  <2> QED  BY <1>2, <2>3, <2>4 DEF ExecuteStore
<1>3. CASE AcknowledgePurgeStore(w)
  BY <1>3, GoneKept DEF AcknowledgePurgeStore, ownerVars, Deletion!vars
<1>4. CASE CompleteDatabasePurge(w)
  <2>1. request.status = "executing"
    BY <1>4 DEF CompleteDatabasePurge, Busy, IInv, Lineage, OnePurger
  <2>2. CASE UNCHANGED <<space, request>>
    BY <1>4, <2>2, GoneKept DEF CompleteDatabasePurge, Deletion!vars
  <2>3. CASE ~UNCHANGED <<space, request>>
    <3>1. /\ request.own = space.own /\ ManifestMatches
          /\ space' = [space EXCEPT !.exists = FALSE]
          /\ request' = [request EXCEPT !.status = "completed"]
          /\ impact' = impact /\ age' = age
      BY <1>4, <2>3 DEF CompleteDatabasePurge
    <3>2. Gone' = "everything"
      BY <3>1 DEF Gone, Spaces
    <3>3. Deletion!Complete
      BY <2>1, <3>1, <3>2 DEF ManifestMatches, Deletion!Complete, Spaces, Requests
    <3> QED  BY <3>3 DEF Deletion!Next
  <2> QED  BY <2>2, <2>3
<1>5. CASE FailPurgeJob(w)
  <2>1. Gone' = Gone
    BY <1>5, GoneKept DEF FailPurgeJob
  <2>2. request.status = "executing"
    BY <1>5 DEF FailPurgeJob, Busy, IInv, Lineage, OnePurger
  <2>3. CASE HoldsLease(w)
    <3>1. Deletion!Fail
      BY <1>5, <2>1, <2>2, <2>3 DEF FailPurgeJob, Deletion!Fail, Requests
    <3> QED  BY <3>1 DEF Deletion!Next
  <2>4. CASE ~HoldsLease(w)
    BY <1>5, <2>1, <2>4 DEF FailPurgeJob, Deletion!vars
  <2> QED  BY <2>3, <2>4
<1> QED  BY <1>1, <1>2, <1>3, <1>4, <1>5 DEF Dispatch

(* Events around the protocol are changes, time, or invisible. *)
LEMMA SurroundingsImplement ==
    ASSUME IInv, AgeBounded,
           \/ \E w \in Workers : Crash(w)
           \/ ContentChanges \/ OwnershipChanges \/ BlockerChanges \/ ChatWrites \/ Tick
    PROVE  [Deletion!Next]_(Deletion!vars)
<1> USE OwnerTyped
<1>1. space'.exists = space.exists /\ wiped' = wiped
  BY DEF Crash, ContentChanges, OwnershipChanges, BlockerChanges, ChatWrites, Tick, purgeVars, ownerVars, Spaces
<1>2. Gone' = Gone
  BY <1>1, GoneKept
<1>3. ASSUME NEW w \in Workers, Crash(w) PROVE UNCHANGED Deletion!vars
  BY <1>2, <1>3 DEF Crash, ownerVars, Deletion!vars
<1>4. CASE ContentChanges \/ OwnershipChanges
  <2>1. Deletion!Change
    BY <1>2, <1>4, GoneBefore DEF ContentChanges, OwnershipChanges, Deletion!Change, Spaces
  <2> QED  BY <2>1 DEF Deletion!Next
<1>5. CASE BlockerChanges
  BY <1>2, <1>5 DEF BlockerChanges, Deletion!vars, Spaces
<1>6. CASE Tick
  <2>1. /\ Least(age.archived + 1, ArchiveTicks) \in {age.archived, age.archived + 1}
        /\ Least(age.confirmed + 1, ConfirmTicks) \in {age.confirmed, age.confirmed + 1}
    BY TimeAssumption DEF AgeBounded, Least
  <2>2. /\ request'.status = request.status
        /\ request'.own = request.own /\ request'.content = request.content
        /\ impact'.own = impact.own /\ impact'.content = impact.content
        /\ space' = space
    BY <1>6 DEF Tick, Requests, Impacts
  <2>3. Deletion!Time
    BY <1>2, <1>6, <2>1, <2>2 DEF Tick, Deletion!Time
  <2> QED  BY <2>3 DEF Deletion!Next
<1>7. CASE ChatWrites
  BY <1>2, <1>7 DEF ChatWrites, ownerVars, Deletion!vars
<1> QED  BY <1>3, <1>4, <1>5, <1>6, <1>7

(* The whole machinery of the purge keeps the promise made to the owner.   *)
THEOREM DeletionTheorem == Spec => ImplementsDeletion
<1>1. Init => Deletion!Init
  BY DEF Init, Gone, Deletion!Init
<1>2. IInv /\ AgeBounded /\ [Next]_vars => [Deletion!Next]_(Deletion!vars)
  <2> SUFFICES ASSUME IInv, AgeBounded, [Next]_vars PROVE [Deletion!Next]_(Deletion!vars)
    OBVIOUS
  <2>1. CASE UNCHANGED vars
    BY <2>1, GoneKept DEF vars, Deletion!vars
  <2> QED  BY <2>1, OwnerImplements, DispatchImplements, SurroundingsImplement DEF Next
<1> QED  BY <1>1, <1>2, Invariance, AgeInvariance, PTL DEF Spec, ImplementsDeletion, Deletion!Spec

(* The contract alone gives the owner's consent ... *)
LEMMA ContractConsent == Deletion!Spec => []Deletion!Consent
<1> DEFINE Counted == age \in [archived : Nat, confirmed : Nat]
           Underway == request.status \in {"executing", "failed", "completed"} => space.archived /\ Deletion!Served
           Inv == Counted /\ Underway /\ Deletion!Consent
<1>1. Deletion!Init => Inv
  BY DEF Deletion!Init, Deletion!Consent
<1>2. Inv /\ [Deletion!Next]_(Deletion!vars) => Inv'
  <2> SUFFICES ASSUME Inv, [Deletion!Next]_(Deletion!vars) PROVE Inv'
    OBVIOUS
  <2> USE TimeAssumption DEF Deletion!Consent, Deletion!Served
  <2>1. CASE Deletion!Archive \/ Deletion!Restore
    BY <2>1 DEF Deletion!Archive, Deletion!Restore, Deletion!Quiet
  <2>2. CASE Deletion!Look \/ Deletion!Ask \/ Deletion!Confirm \/ Deletion!Cancel
    BY <2>2 DEF Deletion!Look, Deletion!Ask, Deletion!Confirm, Deletion!Cancel, Deletion!Quiet
  <2>3. CASE Deletion!Invalidate \/ Deletion!Start \/ Deletion!Destroy \/ Deletion!Fail \/ Deletion!Complete
    BY <2>3 DEF Deletion!Invalidate, Deletion!Start, Deletion!Destroy, Deletion!Fail, Deletion!Complete
  <2>4. CASE Deletion!Change
    BY <2>4 DEF Deletion!Change
  <2>5. CASE Deletion!Time
    BY <2>5 DEF Deletion!Time
  <2>6. CASE UNCHANGED Deletion!vars
    BY <2>6 DEF Deletion!vars
  <2> QED  BY <2>1, <2>2, <2>3, <2>4, <2>5, <2>6 DEF Deletion!Next
<1> QED  BY <1>1, <1>2, PTL DEF Deletion!Spec

(* ... so the purge has it: whatever it destroys was agreed and both        *)
(* periods were over, and what is gone for good is what the owner saw.      *)
THEOREM ConsentTheorem == Spec => []Deletion!Consent
BY DeletionTheorem, ContractConsent, PTL DEF ImplementsDeletion
=============================================================================
