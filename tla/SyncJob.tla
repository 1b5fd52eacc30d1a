------------------------------- MODULE SyncJob -------------------------------
(***************************************************************************)
(* The life of a folder synchronisation job: the rows of processing_jobs,  *)
(* the broker that carries their ids, the Celery workers that claim and    *)
(* run them, and the API and the scheduler that create and dispatch them.  *)
(*                                                                         *)
(* One action is one committed database transaction (or one broker or      *)
(* process event), because sessions run with autoflush=False and           *)
(* expire_on_commit=False and nothing is visible to another process before *)
(* its commit.  A worker keeps its own copy of the job between commits;    *)
(* only the queries that carry the run token read the row again.           *)
(*                                                                         *)
(* Documents are abstracted to "this folder has an indexed document", the  *)
(* only fact about them that the job lifecycle reads; module               *)
(* DriveReconciliation has them in full.  Times are abstracted to "the     *)
(* lease of this job is over".  A run's aggregate status is a function of  *)
(* the progress entries of its jobs, so only the entry of each job is      *)
(* kept.                                                                   *)
(***************************************************************************)
EXTENDS Integers, FiniteSets

CONSTANTS
  Folders,      \* workspace folders of one data source
  Jobs,         \* ids of processing_jobs rows
  FolderOf,     \* ProcessingJob.workspace_folder_id, never updated
  Workers,      \* Celery worker processes
  Tokens,       \* run tokens (uuid4): compared, never ordered
  NoToken,      \* NULL run_token
  NoMsg,        \* a worker that holds no delivery
  MaxRetries,   \* max_retries of the reconcile task
  MaxCopies,    \* bound: copies of one message in the broker
  MaxFaults     \* bound: process and broker faults in a behaviour

ASSUME SyncJobAssumption ==
  /\ FolderOf \in [Jobs -> Folders]
  /\ NoToken \notin Tokens
  /\ MaxRetries \in Nat
  /\ MaxCopies \in Nat \ {0}
  /\ MaxFaults \in Nat
  /\ NoMsg \notin [job : Jobs, retries : 0..MaxRetries]

VARIABLES
  status,       \* job -> row status; "none": not created, "deleted": row removed
  runToken,     \* job -> run_token of the last claim
  leaseOver,    \* job -> it is syncing and started_at < now - JOB_LEASE
  progress,     \* job -> whether its entry in ManualSyncRun.progress shows an end
  folderStatus, \* folder -> WorkspaceFolder.status
  indexed,      \* folder -> it has a document with index_status "indexed"
  connected,    \* DataSource.status of the folders' source is "connected"
  queue,        \* message -> number of copies the broker holds
  outbox,       \* jobs committed by a request that has not called send_task yet
  pc,           \* worker -> stage of reconcile_workspace_folder
  held,         \* worker -> delivery it has not acknowledged
  token,        \* worker -> run token it obtained from claim
  overwritten,  \* history: jobs a late dispatch failure wrote over a newer row
  dropped,      \* history: jobs a message or delivery of which a fault took away
  lastClaim,    \* history: job -> the worker whose claim was the last, if any
  faults        \* faults so far

jobVars == <<status, runToken, leaseOver, progress, folderStatus, indexed>>
workerVars == <<pc, held, token>>
history == <<overwritten, dropped, lastClaim>>
vars == <<jobVars, connected, queue, outbox, workerVars, history, faults>>

Active == {"queued", "syncing"}
Terminal == {"ready", "partial_failure", "failed"}
JobStatus == Active \cup Terminal \cup {"none", "deleted"}
Stage == {"idle", "setup", "discovering", "checking", "indexing", "finalizing",
          "retrying"}
Msg == [job : Jobs, retries : 0..MaxRetries]
Origin == {"manual", "direct"}   \* only _dispatch_manual_jobs catches a failed send

-----------------------------------------------------------------------------
(* Helpers                                                                 *)

ActiveJobs(f) == {j \in Jobs : FolderOf[j] = f /\ status[j] \in Active}

\* Mutant of Owns: the run token is not compared.
OwnsWithoutToken(w) == pc[w] # "idle" /\ status[held[w].job] = "syncing"

\* _owned_running_job: the row is read again, and only if it is still this run's.
Owns(w) ==
  /\ pc[w] # "idle"
  /\ status[held[w].job] = "syncing"
  /\ runToken[held[w].job] = token[w]

\* Mutant of FailedFolder: the folder of a failed job keeps what it showed.
FailedFolderKept(f) == IF indexed[f] THEN "partial_failure" ELSE folderStatus[f]

\* WorkspaceFolder.status after a failed job: an existing index stays searchable.
FailedFolder(f) == IF indexed[f] THEN "partial_failure" ELSE "failed"

\* WorkspaceFolder.status is only moved by the early stages of a folder without data.
EarlyFolder(f, s) == IF indexed[f] THEN folderStatus[f] ELSE s

\* Some delivery has claimed the job since it was created.
Claimed(j) == runToken[j] # NoToken

FreshTokens ==
  Tokens \ ({runToken[j] : j \in Jobs} \cup {token[w] : w \in Workers})

\* Copies of one message beyond the bound are not told apart.
Send(m) == queue' = [queue EXCEPT ![m] = IF @ < MaxCopies THEN @ + 1 ELSE @]

\* The delivery is acknowledged and the worker is free again.
Ack(w) ==
  /\ pc' = [pc EXCEPT ![w] = "idle"]
  /\ held' = [held EXCEPT ![w] = NoMsg]
  /\ token' = [token EXCEPT ![w] = NoToken]

-----------------------------------------------------------------------------
(* Creating and dispatching jobs                                           *)

\* Mutant of Creatable: the active job of the folder is not looked for.
CreatableTwice(new) ==
  /\ new # {}
  /\ \A j \in new : status[j] = "none" /\ folderStatus[FolderOf[j]] # "removed"
  /\ \A j, k \in new : FolderOf[j] = FolderOf[k] => j = k

\* The rows a request may create: one for each folder it names, none of which
\* has an active job (the folder row is locked and the partial unique index is
\* the last gate).
Creatable(new) ==
  /\ new # {}
  /\ \A j \in new : /\ status[j] = "none"
                    /\ ActiveJobs(FolderOf[j]) = {}
                    /\ folderStatus[FolderOf[j]] # "removed"
  /\ \A j, k \in new : FolderOf[j] = FolderOf[k] => j = k

\* IngestionService._enqueue for every job of the request, then one commit.
Create(new, by) ==
  /\ Creatable(new)
  /\ status' = [j \in Jobs |-> IF j \in new THEN "queued" ELSE status[j]]
  /\ progress' = [j \in Jobs |-> IF j \in new THEN "running" ELSE progress[j]]
  /\ folderStatus' = [f \in Folders |->
       IF \E j \in new : FolderOf[j] = f THEN EarlyFolder(f, "queued")
                                         ELSE folderStatus[f]]
  /\ outbox' = outbox \cup [job : new, by : {by}]
  /\ UNCHANGED <<runToken, leaseOver, indexed, connected, queue, workerVars,
                 history, faults>>

\* POST /sync: an admin creates a job, or is handed the active one, which is
\* dispatched again.
EnqueueSync(f) ==
  \/ \E j \in Jobs : FolderOf[j] = f /\ Create({j}, "direct")
  \/ /\ ActiveJobs(f) # {}
     /\ outbox' = outbox \cup [job : ActiveJobs(f), by : {"direct"}]
     /\ UNCHANGED <<jobVars, connected, queue, workerVars, history, faults>>

\* POST /documents/{id}/reprocess: only an indexed document, only without an
\* active job.
RequestReprocess(f) ==
  /\ indexed[f]
  /\ \E j \in Jobs : FolderOf[j] = f /\ Create({j}, "direct")

\* request_run: one run over the folders of a node; folders with an active job
\* are followed, not dispatched, so they change nothing.
RequestRun(new) == Create(new, "manual")

\* schedule_connected_source_reconciliations: folders that are due, one commit.
Schedule(new) == connected /\ Create(new, "direct")

\* dispatch / send_task succeeded.
Dispatch(e) ==
  LET m == [job |-> e.job, retries |-> 0] IN
  /\ e \in outbox
  /\ Send(m)
  /\ outbox' = outbox \ {e}
  /\ UNCHANGED <<jobVars, connected, workerVars, history, faults>>

\* The broker is unreachable, or the process dies, after the commit: the row
\* stays queued and no message exists.
DispatchLost(e) ==
  /\ e \in outbox
  /\ faults < MaxFaults /\ faults' = faults + 1
  /\ dropped' = dropped \cup {e.job}
  /\ outbox' = outbox \ {e}
  /\ UNCHANGED <<jobVars, connected, queue, workerVars, overwritten, lastClaim>>

\* _dispatch_manual_jobs calls fail() without a token.  The session that created
\* the job still holds it as "queued" (expire_on_commit=False, session.get), so
\* the guard of fail() passes whatever the row holds by now.  The folder row is
\* only written when its value differs from the one that session loaded.
DispatchManualFails(e) ==
  LET j == e.job
      f == FolderOf[j] IN
  /\ e \in outbox /\ e.by = "manual"
  /\ status[j] # "deleted"
  /\ faults < MaxFaults /\ faults' = faults + 1
  /\ outbox' = outbox \ {e}
  /\ status' = [status EXCEPT ![j] = "failed"]
  /\ progress' = [progress EXCEPT ![j] = "ended"]
  /\ \/ folderStatus' = [folderStatus EXCEPT ![f] = FailedFolder(f)]
     \/ Claimed(j) /\ indexed[f] /\ UNCHANGED folderStatus
  /\ overwritten' = IF Claimed(j) THEN overwritten \cup {j} ELSE overwritten
  /\ leaseOver' = [leaseOver EXCEPT ![j] = FALSE]
  /\ UNCHANGED <<runToken, indexed, connected, queue, workerVars, dropped, lastClaim>>

-----------------------------------------------------------------------------
(* The worker: reconcile_workspace_folder                                  *)

\* Mutant of Claimable: an ended job is run again.
ClaimableEver(j) == status[j] \in {"queued", "ready", "partial_failure", "failed"}

Claimable(j) == status[j] = "queued" \/ (status[j] = "syncing" /\ leaseOver[j])

\* A delivery reaches a free worker and claim() reserves the row.
Claim(w, m) ==
  LET j == m.job
      f == FolderOf[j] IN
  /\ pc[w] = "idle" /\ queue[m] > 0
  /\ Claimable(j)
  /\ \E t \in FreshTokens :
       /\ runToken' = [runToken EXCEPT ![j] = t]
       /\ token' = [token EXCEPT ![w] = t]
  /\ status' = [status EXCEPT ![j] = "syncing"]
  /\ leaseOver' = [leaseOver EXCEPT ![j] = FALSE]
  /\ progress' = [progress EXCEPT ![j] = "running"]
  /\ folderStatus' = [folderStatus EXCEPT ![f] = EarlyFolder(f, "syncing")]
  /\ pc' = [pc EXCEPT ![w] = "setup"]
  /\ held' = [held EXCEPT ![w] = m]
  /\ lastClaim' = [lastClaim EXCEPT ![j] = {w}]
  /\ queue' = [queue EXCEPT ![m] = @ - 1]
  /\ UNCHANGED <<indexed, connected, outbox, overwritten, dropped, faults>>

\* claim() returns None: the task ends normally and its delivery is acknowledged.
ClaimNone(w, m) ==
  /\ pc[w] = "idle" /\ queue[m] > 0
  /\ ~Claimable(m.job)
  /\ queue' = [queue EXCEPT ![m] = @ - 1]
  /\ UNCHANGED <<jobVars, connected, outbox, workerVars, history, faults>>

\* The database fails inside claim(): run_token is still None, the exception
\* leaves the task, and the delivery is acknowledged all the same.
ClaimError(w, m) ==
  /\ pc[w] = "idle" /\ queue[m] > 0
  /\ faults < MaxFaults /\ faults' = faults + 1
  /\ dropped' = dropped \cup {m.job}
  /\ queue' = [queue EXCEPT ![m] = @ - 1]
  /\ UNCHANGED <<jobVars, connected, outbox, workerVars, overwritten, lastClaim>>

\* fail() with the token of the run, then a commit and a normal return.
FailRun(w) ==
  LET j == held[w].job
      f == FolderOf[j] IN
  /\ IF Owns(w)
       THEN /\ status' = [status EXCEPT ![j] = "failed"]
            /\ progress' = [progress EXCEPT ![j] = "ended"]
            /\ folderStatus' = [folderStatus EXCEPT ![f] = FailedFolder(f)]
            /\ leaseOver' = [leaseOver EXCEPT ![j] = FALSE]
       ELSE UNCHANGED <<status, progress, folderStatus, leaseOver>>
  /\ Ack(w)
  /\ UNCHANGED <<runToken, indexed>>

\* update_progress writes the worker's own copy of the status, which is
\* "syncing" until the run itself ends; no token is checked.
Report(w) == progress' = [progress EXCEPT ![held[w].job] = "running"]

\* After the claim: the folder must exist, the source be connected and the
\* scope have a selection (not modelled: any run may find it empty).
Setup(w) ==
  /\ pc[w] = "setup"
  /\ UNCHANGED <<connected, queue, outbox, history, faults>>
  /\ \/ FailRun(w)
     \/ /\ connected
        /\ folderStatus[FolderOf[held[w].job]] # "removed"
        /\ Report(w)
        /\ pc' = [pc EXCEPT ![w] = "discovering"]
        /\ UNCHANGED <<status, runToken, leaseOver, folderStatus, indexed, held, token>>

\* discovering_progress, called back from provider.discover.
DiscoveringProgress(w) ==
  /\ pc[w] = "discovering"
  /\ Report(w)
  /\ UNCHANGED <<status, runToken, leaseOver, folderStatus, indexed, connected, queue,
                 outbox, workerVars, history, faults>>

\* The listing is complete, filtered and reported.
Discovered(w) ==
  /\ pc[w] = "discovering"
  /\ Report(w)
  /\ pc' = [pc EXCEPT ![w] = "checking"]
  /\ UNCHANGED <<status, runToken, leaseOver, folderStatus, indexed, connected, queue,
                 outbox, held, token, history, faults>>

\* The source is refreshed once the listing is known.
CheckSource(w) ==
  /\ pc[w] = "checking"
  /\ UNCHANGED <<connected, queue, outbox, history, faults>>
  /\ IF ~connected
       THEN FailRun(w)
       ELSE /\ pc' = [pc EXCEPT ![w] = "indexing"]
            /\ UNCHANGED <<jobVars, held, token>>

\* Mutant of ApplyBatch: the row is not read again before the batch is committed.
ApplyBatchUnfenced(w) ==
  /\ pc[w] = "indexing"
  /\ Report(w)
  /\ \E b \in BOOLEAN : indexed' = [indexed EXCEPT ![FolderOf[held[w].job]] = b]
  /\ leaseOver' = [leaseOver EXCEPT ![held[w].job] = FALSE]
  /\ UNCHANGED <<status, runToken, folderStatus, connected, queue, outbox, workerVars,
                 history, faults>>

\* One batch: progress is committed first, then documents, vectors, catalog and
\* the renewed lease in one transaction that only the owner may commit.
ApplyBatch(w) ==
  LET j == held[w].job IN
  /\ pc[w] = "indexing"
  /\ Report(w)
  /\ IF Owns(w)
       THEN /\ \E b \in BOOLEAN : indexed' = [indexed EXCEPT ![FolderOf[j]] = b]
            /\ leaseOver' = [leaseOver EXCEPT ![j] = FALSE]
            /\ UNCHANGED workerVars
       ELSE /\ Ack(w)
            /\ UNCHANGED <<indexed, leaseOver>>
  /\ UNCHANGED <<status, runToken, folderStatus, connected, queue, outbox, history, faults>>

\* Every batch is committed: the workspace-wide embedding stage begins.
StartBackfill(w) ==
  /\ pc[w] = "indexing"
  /\ Report(w)
  /\ pc' = [pc EXCEPT ![w] = "finalizing"]
  /\ UNCHANGED <<status, runToken, leaseOver, folderStatus, indexed, connected, queue,
                 outbox, held, token, history, faults>>

\* Removals, the terminal status, the catalog, the cursors and last_synced_at
\* are one transaction.  A history entry of a manual run recomputes its status
\* from the outcomes of its own scope.
Finalize(w) ==
  LET j == held[w].job
      f == FolderOf[j] IN
  /\ pc[w] = "finalizing"
  /\ UNCHANGED <<connected, queue, outbox, history, faults>>
  /\ \/ ~Owns(w) /\ Ack(w) /\ UNCHANGED jobVars
     \/ Owns(w) /\ ~connected /\ FailRun(w)
     \/ /\ Owns(w) /\ connected
        /\ \E s \in {"ready", "partial_failure"} :
             /\ status' = [status EXCEPT ![j] = s]
             /\ folderStatus' = [folderStatus EXCEPT ![f] = s]
        /\ progress' = [progress EXCEPT ![j] = "ended"]
        /\ \E b \in BOOLEAN : indexed' = [indexed EXCEPT ![f] = b /\ @]
        /\ leaseOver' = [leaseOver EXCEPT ![j] = FALSE]
        /\ Ack(w)
        /\ UNCHANGED runToken

Running == {"setup", "discovering", "checking", "indexing", "finalizing"}

\* Usage limit, lost folder, robot or request error, rejected AI key: roll back
\* and fail.
TerminalError(w) ==
  /\ pc[w] \in Running
  /\ FailRun(w)
  /\ UNCHANGED <<connected, queue, outbox, history, faults>>

\* The provider answered 401 or 403: the source is marked whether or not this
\* run still owns its job.
Unauthorized(w) ==
  /\ pc[w] = "discovering"
  /\ connected' = FALSE
  /\ FailRun(w)
  /\ UNCHANGED <<queue, outbox, history, faults>>

\* Throttling, an unavailable AI provider or any other exception: roll back,
\* then fail when the retries are used up, else release the row and retry.
TransientError(w) ==
  LET j == held[w].job
      f == FolderOf[j] IN
  /\ pc[w] \in Running
  /\ UNCHANGED <<connected, queue, outbox, history, faults>>
  /\ IF held[w].retries >= MaxRetries
       THEN FailRun(w)
       ELSE /\ IF Owns(w)
                 THEN /\ status' = [status EXCEPT ![j] = "queued"]
                      /\ progress' = [progress EXCEPT ![j] = "running"]
                      /\ folderStatus' = [folderStatus EXCEPT ![f] = EarlyFolder(f, "queued")]
                      /\ leaseOver' = [leaseOver EXCEPT ![j] = FALSE]
                 ELSE UNCHANGED <<status, progress, folderStatus, leaseOver>>
            /\ pc' = [pc EXCEPT ![w] = "retrying"]
            /\ UNCHANGED <<runToken, indexed, held, token>>

\* Mutant of PublishRetry: the task returns without a new message.
PublishRetryForgotten(w) ==
  /\ pc[w] = "retrying"
  /\ Ack(w)
  /\ UNCHANGED <<jobVars, connected, queue, outbox, history, faults>>

\* self.retry: a new message with one more retry, then the old one is acknowledged.
PublishRetry(w) ==
  LET m == [held[w] EXCEPT !.retries = @ + 1] IN
  /\ pc[w] = "retrying"
  /\ Send(m)
  /\ Ack(w)
  /\ UNCHANGED <<jobVars, connected, outbox, history, faults>>

-----------------------------------------------------------------------------
(* Time and faults                                                         *)

\* JOB_LEASE has passed since started_at.
LeaseExpires(j) ==
  /\ status[j] = "syncing" /\ ~leaseOver[j]
  /\ leaseOver' = [leaseOver EXCEPT ![j] = TRUE]
  /\ UNCHANGED <<status, runToken, progress, folderStatus, indexed, connected, queue,
                 outbox, workerVars, history, faults>>

\* task_reject_on_worker_lost: the open transaction is rolled back and the
\* delivery goes back to the queue, at once.
WorkerLost(w) ==
  /\ pc[w] # "idle"
  /\ faults < MaxFaults /\ faults' = faults + 1
  /\ dropped' = dropped \cup {held[w].job}
  /\ Send(held[w])
  /\ Ack(w)
  /\ UNCHANGED <<jobVars, connected, outbox, overwritten, lastClaim>>

\* The database fails inside an exception handler: the task ends with an error,
\* and task_acks_late still acknowledges a failed task.
TaskError(w) ==
  /\ pc[w] # "idle"
  /\ faults < MaxFaults /\ faults' = faults + 1
  /\ dropped' = dropped \cup {held[w].job}
  /\ Ack(w)
  /\ UNCHANGED <<jobVars, connected, queue, outbox, overwritten, lastClaim>>

\* visibility_timeout: the broker delivers again what is still being processed.
Redeliver(w) ==
  /\ pc[w] # "idle"
  /\ faults < MaxFaults /\ faults' = faults + 1
  /\ Send(held[w])
  /\ UNCHANGED <<jobVars, connected, outbox, workerVars, history>>

-----------------------------------------------------------------------------
(* The source and the folder                                               *)

Disconnect ==
  /\ connected' = FALSE
  /\ UNCHANGED <<jobVars, queue, outbox, workerVars, history, faults>>

\* complete(): the OAuth callback of a new or renewed authorisation.
Connect ==
  /\ connected' = TRUE
  /\ UNCHANGED <<jobVars, queue, outbox, workerVars, history, faults>>

\* remove_indexed_document may remove the last indexed document.
RemoveIndexedDocument(f) ==
  /\ indexed[f] /\ ActiveJobs(f) = {}
  /\ \E b \in BOOLEAN : indexed' = [indexed EXCEPT ![f] = b]
  /\ UNCHANGED <<status, runToken, leaseOver, progress, folderStatus, connected, queue,
                 outbox, workerVars, history, faults>>

\* remove_workspace deletes the folder with its documents and job rows; the
\* history snapshots survive.
RemoveWorkspace(f) ==
  /\ folderStatus[f] # "removed" /\ ActiveJobs(f) = {}
  /\ folderStatus' = [folderStatus EXCEPT ![f] = "removed"]
  /\ indexed' = [indexed EXCEPT ![f] = FALSE]
  /\ status' = [j \in Jobs |-> 
       IF FolderOf[j] = f /\ status[j] # "none" THEN "deleted" ELSE status[j]]
  /\ UNCHANGED <<runToken, leaseOver, progress, connected, queue, outbox, workerVars,
                 history, faults>>

-----------------------------------------------------------------------------
Init ==
  /\ status = [j \in Jobs |-> "none"]
  /\ runToken = [j \in Jobs |-> NoToken]
  /\ leaseOver = [j \in Jobs |-> FALSE]
  /\ progress = [j \in Jobs |-> "none"]
  /\ folderStatus = [f \in Folders |-> "not_synced"]
  /\ indexed = [f \in Folders |-> FALSE]
  /\ connected = TRUE
  /\ queue = [m \in Msg |-> 0]
  /\ outbox = {}
  /\ pc = [w \in Workers |-> "idle"]
  /\ held = [w \in Workers |-> NoMsg]
  /\ token = [w \in Workers |-> NoToken]
  /\ overwritten = {}
  /\ dropped = {}
  /\ lastClaim = [j \in Jobs |-> {}]
  /\ faults = 0

Deliver(m) ==
  \E w \in Workers : Claim(w, m) \/ ClaimNone(w, m) \/ ClaimError(w, m)

RunStep(w) ==
  \/ Setup(w) \/ DiscoveringProgress(w) \/ Discovered(w) \/ CheckSource(w)
  \/ ApplyBatch(w) \/ StartBackfill(w) \/ Finalize(w)
  \/ TerminalError(w) \/ Unauthorized(w) \/ TransientError(w) \/ PublishRetry(w)
  \/ WorkerLost(w) \/ TaskError(w) \/ Redeliver(w)

Next ==
  \/ \E f \in Folders : \/ EnqueueSync(f) \/ RequestReprocess(f)
                       \/ RemoveIndexedDocument(f) \/ RemoveWorkspace(f)
  \/ \E new \in SUBSET Jobs : RequestRun(new) \/ Schedule(new)
  \/ \E e \in outbox : Dispatch(e) \/ DispatchLost(e) \/ DispatchManualFails(e)
  \/ \E m \in Msg : Deliver(m)
  \/ \E w \in Workers : RunStep(w)
  \/ \E j \in Jobs : LeaseExpires(j)
  \/ Disconnect \/ Connect

Spec == Init /\ [][Next]_vars

\* What the code's scheduling gives: requests that stay alive send what they
\* committed, the broker hands every message to a worker in the end, a worker
\* goes on with what it started, and twenty minutes pass.  Users, the source
\* and every error are not fair.
Fairness ==
  /\ \A j \in Jobs : WF_vars(LeaseExpires(j))
  /\ \A j \in Jobs, by \in Origin : WF_vars(Dispatch([job |-> j, by |-> by]))
  /\ \A m \in Msg : SF_vars(\E w \in Workers : Claim(w, m) \/ ClaimNone(w, m))
  /\ \A w \in Workers :
       /\ WF_vars(Setup(w)) /\ WF_vars(Discovered(w)) /\ WF_vars(CheckSource(w))
       /\ WF_vars(StartBackfill(w)) /\ WF_vars(Finalize(w)) /\ WF_vars(PublishRetry(w))

\* The scheduler runs every few minutes.
SchedulerFairness == WF_vars(\E new \in SUBSET Jobs : Schedule(new))

FairSpec == Spec /\ Fairness /\ SchedulerFairness

-----------------------------------------------------------------------------
(* Properties                                                              *)

TypeOK ==
  /\ status \in [Jobs -> JobStatus]
  /\ runToken \in [Jobs -> Tokens \cup {NoToken}]
  /\ leaseOver \in [Jobs -> BOOLEAN]
  /\ progress \in [Jobs -> {"none", "running", "ended"}]
  /\ folderStatus \in [Folders -> Active \cup Terminal \cup {"not_synced", "removed"}]
  /\ indexed \in [Folders -> BOOLEAN]
  /\ connected \in BOOLEAN
  /\ queue \in [Msg -> 0..MaxCopies]
  /\ outbox \in SUBSET [job : Jobs, by : Origin]
  /\ pc \in [Workers -> Stage]
  /\ held \in [Workers -> Msg \cup {NoMsg}]
  /\ token \in [Workers -> Tokens \cup {NoToken}]
  /\ overwritten \in SUBSET Jobs
  /\ dropped \in SUBSET Jobs
  /\ lastClaim \in [Jobs -> SUBSET Workers]
  /\ faults \in 0..MaxFaults

\* claim() and the run token: however deliveries are duplicated and leases
\* taken over, two workers never both pass _owned_running_job for one job.
OneOwner ==
  \A v, w \in Workers :
    Owns(v) /\ Owns(w) /\ held[v].job = held[w].job => v = w

\* uq_active_processing_jobs_folder is never asked to refuse: retries, claims
\* and new requests leave a folder with at most one active job.
OneActiveJob ==
  \A j, k \in Jobs :
    status[j] \in Active /\ status[k] \in Active /\ FolderOf[j] = FolderOf[k] => j = k

\* A folder that shows "queued" or "syncing" has a job that can still move it
\* on, unless a late dispatch failure overwrote that job.
BusyFolderHasJob ==
  \A f \in Folders :
    folderStatus[f] \in Active =>
      ActiveJobs(f) # {} \/ \E j \in overwritten : FolderOf[j] = f

\* No redelivery, late worker or retry changes a job that has ended; the only
\* step that can is the dispatch failure of the request that created it.
EndedJobsStay ==
  [][\A j \in Jobs : status[j] \in Terminal =>
       status'[j] \in {status[j], "deleted"} \/ j \in overwritten']_vars

\* What a run writes to the index it writes as the last who claimed its job,
\* while that job has not ended: a worker that was taken over, or whose job was
\* ended or released, writes nothing more.  What is not of a run, a removal,
\* waits until the folder has no active job.
IndexChangedByOwner ==
  [][indexed' # indexed =>
       /\ \A w \in Workers : RunStep(w) =>
            lastClaim[held[w].job] = {w} /\ status[held[w].job] = "syncing"
       /\ \A f \in Folders : indexed'[f] # indexed[f] /\ ActiveJobs(f) # {} =>
            \E w \in Workers : RunStep(w) /\ FolderOf[held[w].job] = f]_vars

\* A queued job is about to be sent, is in the broker, or is with a worker that
\* is about to send it again.
Waiting(j) ==
  \/ \E e \in outbox : e.job = j
  \/ \E m \in Msg : m.job = j /\ queue[m] > 0
  \/ \E w \in Workers : pc[w] = "retrying" /\ held[w].job = j

\* No active job is left behind: a queued one waits where something sends or
\* delivers it, a syncing one is with the worker that owns it, whatever
\* duplicates were acknowledged and whoever took over meanwhile.  The exceptions
\* are jobs a fault took a message of.
JobsCarried ==
  \A j \in Jobs \ dropped :
    /\ status[j] = "queued" => Waiting(j)
    /\ status[j] = "syncing" => \E w \in Workers : Owns(w) /\ held[w].job = j

\* Admins do not ask for ever: every POST /sync on an active job dispatches a
\* message with its retries unused.
RequestsStop == <>[][outbox' \subseteq outbox]_vars

\* Without faults every job ends: retries run out, leases taken over by
\* duplicates do not trap it, and no step waits on another.
EveryJobEnds ==
  RequestsStop => \A j \in Jobs : (status[j] \in Active) ~> (status[j] \notin Active)

=============================================================================
