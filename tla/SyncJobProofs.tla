---------------------------- MODULE SyncJobProofs ----------------------------
(***************************************************************************)
(* Theorems about SyncJob for every set of folders, jobs, workers and      *)
(* tokens and for every bound.  The inductive invariant is JobInv: types,  *)
(* what a busy worker holds, the freshness of run tokens, and the three    *)
(* facts about rows and folders that rest on them.  From them follow whose *)
(* writes change the index, and that something carries every waiting job.  *)
(*                                                                         *)
(* And one about Scheduler: while a folder waits, as many before it as the *)
(* cap lets through have a job or had one since the beat.                  *)
(*                                                                         *)
(* And one about ClickUpDiscovery: what a run leaves to the next one.      *)
(*                                                                         *)
(* And one about RemoteHttp: the budget of a call, the gate and the        *)
(* content of a download.                                                  *)
(***************************************************************************)
EXTENDS SyncJob, Scheduler, ManualRuns, ClickUpDiscovery, RemoteHttp, FiniteSetTheorems, WellFoundedInduction, TLAPS

\* A worker that is not idle holds a delivery and the token its claim drew.
BusyWorkerHolds ==
  \A w \in Workers : pc[w] # "idle" => held[w] \in Msg /\ token[w] \in Tokens

\* A token is drawn once: two busy workers never have the same one.
TokensDiffer ==
  \A v, w \in Workers :
    pc[v] # "idle" /\ pc[w] # "idle" /\ token[v] = token[w] => v = w

TypeInv == TypeOK /\ BusyWorkerHolds

\* A job that completed was claimed.
CompletedWasClaimed ==
  \A j \in Jobs : status[j] \in {"ready", "partial_failure"} => Claimed(j)

\* The type invariant is inductive: every row, message and worker keeps a value
\* the code can store, and a worker that left "idle" holds its delivery.
LEMMA TypeInit == Init => TypeInv
BY SyncJobAssumption DEF Init, TypeInv, TypeOK, BusyWorkerHolds, JobStatus, Active, Terminal,
   Stage, Origin

\* The requests, the scheduler and their dispatches keep the type invariant.
LEMMA TypeRequests ==
  ASSUME TypeInv,
         \/ \E f \in Folders : EnqueueSync(f) \/ RequestReprocess(f)
         \/ \E new \in SUBSET Jobs : RequestRun(new) \/ Schedule(new)
         \/ \E e \in outbox : Dispatch(e) \/ DispatchLost(e) \/ DispatchManualFails(e)
  PROVE  TypeInv'
<1> USE SyncJobAssumption DEF TypeInv, TypeOK, BusyWorkerHolds, jobVars, workerVars, history, JobStatus,
        Active, Terminal
<1>1. ASSUME NEW new \in SUBSET Jobs, NEW by \in Origin, Create(new, by) PROVE TypeInv'
  <2>1. folderStatus' \in [Folders -> Active \cup Terminal \cup {"not_synced", "removed"}]
    BY <1>1 DEF Create, EarlyFolder
  <2>2. outbox' \in SUBSET [job : Jobs, by : Origin]
    BY <1>1 DEF Create
  <2>3. QED BY <1>1, <2>1, <2>2 DEF Create
<1>2. ASSUME NEW f \in Folders, EnqueueSync(f) PROVE TypeInv'
  <2>1. CASE \E j \in Jobs : FolderOf[j] = f /\ Create({j}, "direct")
    BY <1>1, <2>1 DEF Origin
  <2>2. CASE ~(\E j \in Jobs : FolderOf[j] = f /\ Create({j}, "direct"))
    BY <1>2, <2>2 DEF EnqueueSync, ActiveJobs, Origin
  <2>3. QED BY <2>1, <2>2
<1>3. ASSUME NEW f \in Folders, RequestReprocess(f) PROVE TypeInv'
  BY <1>1, <1>3 DEF RequestReprocess, Origin
<1>4. ASSUME NEW new \in SUBSET Jobs, RequestRun(new) \/ Schedule(new) PROVE TypeInv'
  BY <1>1, <1>4 DEF RequestRun, Schedule, Origin
<1>5. ASSUME NEW e \in outbox, Dispatch(e) PROVE TypeInv'
  <2>1. [job |-> e.job, retries |-> 0] \in Msg
    BY DEF Msg
  <2>2. queue' \in [Msg -> 0..MaxCopies]
    BY <1>5, <2>1 DEF Dispatch, Send
  <2>3. QED BY <1>5, <2>2 DEF Dispatch
<1>6. ASSUME NEW e \in outbox, DispatchLost(e) PROVE TypeInv'
  BY <1>6 DEF DispatchLost
<1>7. ASSUME NEW e \in outbox, DispatchManualFails(e) PROVE TypeInv'
  BY <1>7 DEF DispatchManualFails, FailedFolder
<1>8. QED BY <1>2, <1>3, <1>4, <1>5, <1>6, <1>7

\* Deliveries, runs, time and faults keep the type invariant.
LEMMA TypeWorkers ==
  ASSUME TypeInv,
         \/ \E m \in Msg : Deliver(m)
         \/ \E w \in Workers : RunStep(w)
         \/ \E j \in Jobs : LeaseExpires(j)
  PROVE  TypeInv'
<1> USE SyncJobAssumption DEF TypeInv, TypeOK, BusyWorkerHolds, jobVars, workerVars, history, JobStatus,
        Active, Terminal, Stage
<1>1. ASSUME NEW m \in Msg, NEW w \in Workers, Claim(w, m) PROVE TypeInv'
  <2>1. m.job \in Jobs /\ FolderOf[m.job] \in Folders
    BY DEF Msg
  <2>2. /\ queue' \in [Msg -> 0..MaxCopies]
        /\ folderStatus' \in [Folders -> Active \cup Terminal \cup {"not_synced", "removed"}]
    BY <1>1, <2>1 DEF Claim, EarlyFolder
  <2>3. QED BY <1>1, <2>1, <2>2 DEF Claim, FreshTokens
<1>2. ASSUME NEW m \in Msg, NEW w \in Workers, ClaimNone(w, m) \/ ClaimError(w, m)
      PROVE  TypeInv'
  <2>1. m.job \in Jobs
    BY DEF Msg
  <2>2. CASE ClaimNone(w, m) BY <2>2 DEF ClaimNone
  <2>3. CASE ClaimError(w, m) BY <2>1, <2>3 DEF ClaimError
  <2>4. QED BY <1>2, <2>2, <2>3
<1>3. ASSUME NEW w \in Workers, Ack(w)
      PROVE  /\ pc' \in [Workers -> Stage]
             /\ held' \in [Workers -> Msg \cup {NoMsg}]
             /\ token' \in [Workers -> Tokens \cup {NoToken}]
             /\ BusyWorkerHolds'
  BY <1>3 DEF Ack
<1>4. ASSUME NEW w \in Workers, pc[w] # "idle"
      PROVE  held[w].job \in Jobs /\ FolderOf[held[w].job] \in Folders
  BY <1>4 DEF Msg
<1>5. ASSUME NEW w \in Workers, pc[w] # "idle", FailRun(w),
             connected' \in BOOLEAN, UNCHANGED <<queue, outbox, history, faults>>
      PROVE  TypeInv'
  <2>1. Ack(w) /\ UNCHANGED <<runToken, indexed>>
    BY <1>5 DEF FailRun
  <2>2. CASE Owns(w)
    <3>1. /\ status' = [status EXCEPT ![held[w].job] = "failed"]
          /\ progress' = [progress EXCEPT ![held[w].job] = "ended"]
          /\ leaseOver' = [leaseOver EXCEPT ![held[w].job] = FALSE]
          /\ folderStatus' = [folderStatus EXCEPT
                               ![FolderOf[held[w].job]] = FailedFolder(FolderOf[held[w].job])]
      BY <1>5, <2>2 DEF FailRun
    <3>2. folderStatus' \in [Folders -> Active \cup Terminal \cup {"not_synced", "removed"}]
      BY <1>4, <1>5, <3>1 DEF FailedFolder
    <3>3. QED BY <1>3, <1>4, <1>5, <2>1, <3>1, <3>2
  <2>3. CASE ~Owns(w)
    <3>1. UNCHANGED <<status, progress, folderStatus, leaseOver>>
      BY <1>5, <2>3 DEF FailRun
    <3>2. QED BY <1>3, <1>5, <2>1, <3>1
  <2>4. QED BY <2>2, <2>3
<1>6. ASSUME NEW w \in Workers, Setup(w) PROVE TypeInv'
  <2>1. CASE FailRun(w) BY <1>5, <1>6, <2>1 DEF Setup
  <2>2. CASE ~FailRun(w) BY <1>4, <1>6, <2>2 DEF Setup, Report
  <2>3. QED BY <2>1, <2>2
<1>7. ASSUME NEW w \in Workers,
             DiscoveringProgress(w) \/ Discovered(w) \/ StartBackfill(w)
      PROVE  TypeInv'
  BY <1>4, <1>7 DEF DiscoveringProgress, Discovered, StartBackfill, Report
<1>8. ASSUME NEW w \in Workers, CheckSource(w) PROVE TypeInv'
  <2>1. CASE FailRun(w) BY <1>5, <1>8, <2>1 DEF CheckSource
  <2>2. CASE ~FailRun(w) BY <1>8, <2>2 DEF CheckSource
  <2>3. QED BY <2>1, <2>2
<1>9. ASSUME NEW w \in Workers, ApplyBatch(w) PROVE TypeInv'
  BY <1>3, <1>4, <1>9 DEF ApplyBatch, Report
<1>10. ASSUME NEW w \in Workers, Finalize(w) PROVE TypeInv'
  <2>1. CASE FailRun(w) BY <1>5, <1>10, <2>1 DEF Finalize
  <2>2. CASE ~Owns(w) /\ Ack(w) /\ UNCHANGED jobVars
    BY <1>3, <1>10, <2>2 DEF Finalize
  <2>3. CASE ~FailRun(w) /\ ~(~Owns(w) /\ Ack(w) /\ UNCHANGED jobVars)
    <3>1. PICK s \in {"ready", "partial_failure"} :
            /\ status' = [status EXCEPT ![held[w].job] = s]
            /\ folderStatus' = [folderStatus EXCEPT ![FolderOf[held[w].job]] = s]
      BY <1>10, <2>3 DEF Finalize
    <3>2. /\ status' \in [Jobs -> JobStatus]
          /\ folderStatus' \in [Folders -> Active \cup Terminal \cup {"not_synced", "removed"}]
      BY <3>1
    <3>3. indexed' \in [Folders -> BOOLEAN]
      BY <1>4, <1>10, <2>3 DEF Finalize
    <3>4. /\ progress' = [progress EXCEPT ![held[w].job] = "ended"]
          /\ leaseOver' = [leaseOver EXCEPT ![held[w].job] = FALSE]
          /\ Ack(w)
          /\ UNCHANGED <<runToken, connected, queue, outbox, history, faults>>
      BY <1>10, <2>3 DEF Finalize
    <3>5. /\ pc' \in [Workers -> Stage]
          /\ held' \in [Workers -> Msg \cup {NoMsg}]
          /\ token' \in [Workers -> Tokens \cup {NoToken}]
          /\ BusyWorkerHolds'
      BY <1>3, <3>4
    <3>6. /\ progress' \in [Jobs -> {"none", "running", "ended"}]
          /\ leaseOver' \in [Jobs -> BOOLEAN]
      BY <3>4
    <3>7. QED BY <3>2, <3>3, <3>4, <3>5, <3>6
  <2>4. QED BY <2>1, <2>2, <2>3
<1>11. ASSUME NEW w \in Workers, TerminalError(w) \/ Unauthorized(w) PROVE TypeInv'
  BY <1>5, <1>11 DEF TerminalError, Unauthorized, Running
<1>12. ASSUME NEW w \in Workers, TransientError(w) PROVE TypeInv'
  <2>1. pc[w] # "idle" BY <1>12 DEF TransientError, Running
  <2>2. CASE FailRun(w) BY <1>5, <1>12, <2>1, <2>2 DEF TransientError
  <2>3. CASE ~FailRun(w)
    <3>1. /\ pc' = [pc EXCEPT ![w] = "retrying"]
          /\ UNCHANGED <<runToken, indexed, held, token, connected, queue, outbox,
                         history, faults>>
      BY <1>12, <2>3 DEF TransientError
    <3>2. CASE Owns(w)
      <4>1. /\ status' = [status EXCEPT ![held[w].job] = "queued"]
            /\ progress' = [progress EXCEPT ![held[w].job] = "running"]
            /\ leaseOver' = [leaseOver EXCEPT ![held[w].job] = FALSE]
            /\ folderStatus' \in [Folders -> Active \cup Terminal \cup {"not_synced", "removed"}]
        BY <1>4, <1>12, <2>1, <2>3, <3>2 DEF TransientError, EarlyFolder
      <4>2. QED BY <1>4, <2>1, <3>1, <4>1
    <3>3. CASE ~Owns(w)
      <4>1. UNCHANGED <<status, progress, folderStatus, leaseOver>>
        BY <1>12, <2>3, <3>3 DEF TransientError
      <4>2. QED BY <2>1, <3>1, <4>1
    <3>4. QED BY <3>2, <3>3
  <2>4. QED BY <2>2, <2>3
<1>13. ASSUME NEW w \in Workers, NEW m, Send(m) PROVE queue' \in [Msg -> 0..MaxCopies]
  <2>1. CASE m \in Msg BY <1>13, <2>1 DEF Send
  <2>2. CASE m \notin Msg
    <3>1. queue' = queue BY <1>13, <2>2 DEF Send
    <3>2. QED BY <3>1
  <2>3. QED BY <2>1, <2>2
<1>14. ASSUME NEW w \in Workers, PublishRetry(w) \/ WorkerLost(w) \/ TaskError(w) PROVE TypeInv'
  <2>1. CASE PublishRetry(w) BY <1>3, <1>13, <2>1 DEF PublishRetry
  <2>2. CASE WorkerLost(w)
    <3>1. pc[w] # "idle" /\ dropped' = dropped \cup {held[w].job} BY <2>2 DEF WorkerLost
    <3>2. dropped' \in SUBSET Jobs BY <1>4, <3>1
    <3>3. QED BY <1>3, <1>13, <2>2, <3>2 DEF WorkerLost
  <2>3. CASE TaskError(w)
    <3>1. pc[w] # "idle" /\ dropped' = dropped \cup {held[w].job} BY <2>3 DEF TaskError
    <3>2. dropped' \in SUBSET Jobs BY <1>4, <3>1
    <3>3. QED BY <1>3, <2>3, <3>2 DEF TaskError
  <2>4. QED BY <1>14, <2>1, <2>2, <2>3
<1>15. ASSUME NEW w \in Workers, Redeliver(w) PROVE TypeInv'
  BY <1>13, <1>15 DEF Redeliver
<1>16. ASSUME NEW j \in Jobs, LeaseExpires(j) PROVE TypeInv'
  BY <1>16 DEF LeaseExpires
<1>17. QED
  BY <1>1, <1>2, <1>6, <1>7, <1>8, <1>9, <1>10, <1>11, <1>12, <1>14, <1>15, <1>16
  DEF Deliver, RunStep

\* Every step keeps the type invariant.
LEMMA TypeStep == TypeInv /\ [Next]_vars => TypeInv'
<1> SUFFICES ASSUME TypeInv, [Next]_vars PROVE TypeInv'
  OBVIOUS
<1>1. CASE \E f \in Folders : RemoveIndexedDocument(f) \/ RemoveWorkspace(f)
  <2>1. ASSUME NEW f \in Folders, RemoveIndexedDocument(f) PROVE TypeInv'
    BY <2>1 DEF TypeInv, TypeOK, BusyWorkerHolds, RemoveIndexedDocument, workerVars, history
  <2>2. ASSUME NEW f \in Folders, RemoveWorkspace(f) PROVE TypeInv'
    <3>1. status' \in [Jobs -> JobStatus]
      BY <2>2 DEF TypeInv, TypeOK, RemoveWorkspace, JobStatus
    <3>2. QED
      BY <2>2, <3>1 DEF TypeInv, TypeOK, BusyWorkerHolds, RemoveWorkspace, workerVars, history
  <2>3. QED BY <1>1, <2>1, <2>2
<1>2. CASE Disconnect \/ Connect
  BY <1>2 DEF TypeInv, TypeOK, BusyWorkerHolds, Disconnect, Connect, jobVars, workerVars, history
<1>3. CASE UNCHANGED vars
  BY <1>3 DEF TypeInv, TypeOK, BusyWorkerHolds, vars, jobVars, workerVars, history
<1>4. QED BY <1>1, <1>2, <1>3, TypeRequests, TypeWorkers DEF Next

\* Every value of every variable is one the database, the broker or a worker
\* can hold, whatever the number of jobs, workers and faults.
THEOREM TypeCorrect == Spec => []TypeOK
<1>1. Spec => []TypeInv BY TypeInit, TypeStep, PTL DEF Spec
<1>2. TypeInv => TypeOK BY DEF TypeInv
<1>3. QED BY <1>1, <1>2, PTL

-----------------------------------------------------------------------------
(* How a step moves job rows and folder states                             *)

\* The owner w ends its job: it leaves the active states, its folder with it.
EndsJob(w) ==
  LET j == held[w].job IN
  /\ w \in Workers /\ Owns(w)
  /\ \E s \in Terminal :
       /\ status' = [status EXCEPT ![j] = s]
       /\ \E v \in Terminal : folderStatus' = [folderStatus EXCEPT ![FolderOf[j]] = v]
  /\ UNCHANGED <<runToken, overwritten>>

\* The owner w puts its job back in the queue.
ReleasesJob(w) ==
  LET j == held[w].job IN
  /\ w \in Workers /\ Owns(w)
  /\ status' = [status EXCEPT ![j] = "queued"]
  /\ folderStatus' = [folderStatus EXCEPT ![FolderOf[j]] = EarlyFolder(FolderOf[j], "queued")]
  /\ UNCHANGED <<runToken, overwritten>>

\* Whatever a step does, it leaves rows and folders alone or is one of six moves.
RowMove ==
  \/ UNCHANGED <<status, folderStatus, runToken, overwritten>>
  \/ \E new \in SUBSET Jobs, by \in Origin : Create(new, by)
  \/ \E e \in outbox : DispatchManualFails(e)
  \/ \E m \in Msg, w \in Workers : Claim(w, m)
  \/ \E w \in Workers : EndsJob(w) \/ ReleasesJob(w)
  \/ \E f \in Folders : RemoveWorkspace(f)

\* fail() moves the row only for the run that owns it.
LEMMA FailRunMoves ==
  ASSUME TypeInv, NEW w \in Workers, pc[w] # "idle", FailRun(w), UNCHANGED overwritten
  PROVE  EndsJob(w) \/ UNCHANGED <<status, folderStatus, runToken, overwritten>>
<1>1. CASE Owns(w)
  <2>1. FailedFolder(FolderOf[held[w].job]) \in Terminal
    BY DEF FailedFolder, Terminal
  <2>2. QED BY <1>1, <2>1 DEF FailRun, EndsJob, Terminal
<1>2. CASE ~Owns(w)
  BY <1>2 DEF FailRun
<1>3. QED BY <1>1, <1>2

\* Every step of the system is a row move.
LEMMA StepIsRowMove ==
  ASSUME TypeInv, [Next]_vars
  PROVE  RowMove
<1> USE DEF history
<1>1. ASSUME NEW f \in Folders,
             \/ EnqueueSync(f) \/ RequestReprocess(f) \/ RemoveIndexedDocument(f)
             \/ RemoveWorkspace(f)
      PROVE  RowMove
  BY <1>1 DEF EnqueueSync, RequestReprocess, RemoveIndexedDocument, RowMove, Origin, jobVars
<1>2. ASSUME NEW new \in SUBSET Jobs, RequestRun(new) \/ Schedule(new) PROVE RowMove
  BY <1>2 DEF RequestRun, Schedule, RowMove, Origin
<1>3. ASSUME NEW e \in outbox, Dispatch(e) \/ DispatchLost(e) \/ DispatchManualFails(e)
      PROVE  RowMove
  BY <1>3 DEF Dispatch, DispatchLost, RowMove, jobVars
<1>4. ASSUME NEW m \in Msg, Deliver(m) PROVE RowMove
  BY <1>4 DEF Deliver, ClaimNone, ClaimError, RowMove, jobVars
<1>5. ASSUME NEW w \in Workers, RunStep(w) PROVE RowMove
  <2>1. ASSUME FailRun(w), pc[w] # "idle", UNCHANGED overwritten PROVE RowMove
    BY <2>1, FailRunMoves DEF RowMove
  <2>2. CASE Setup(w)
    <3>1. CASE FailRun(w) BY <2>1, <2>2, <3>1 DEF Setup
    <3>2. CASE ~FailRun(w) BY <2>2, <3>2 DEF Setup, RowMove
    <3>3. QED BY <3>1, <3>2
  <2>3. CASE DiscoveringProgress(w) \/ Discovered(w) \/ StartBackfill(w) \/ ApplyBatch(w)
    BY <2>3 DEF DiscoveringProgress, Discovered, StartBackfill, ApplyBatch, RowMove
  <2>4. CASE CheckSource(w)
    <3>1. CASE FailRun(w) BY <2>1, <2>4, <3>1 DEF CheckSource
    <3>2. CASE ~FailRun(w) BY <2>4, <3>2 DEF CheckSource, RowMove, jobVars
    <3>3. QED BY <3>1, <3>2
  <2>5. CASE Finalize(w)
    <3>1. CASE FailRun(w) BY <2>1, <2>5, <3>1 DEF Finalize
    <3>2. CASE ~Owns(w) BY <2>1, <2>5, <3>2 DEF Finalize, RowMove, jobVars
    <3>3. CASE ~FailRun(w) /\ Owns(w)
      <4>1. EndsJob(w) BY <2>5, <3>3 DEF Finalize, EndsJob, Terminal
      <4>2. QED BY <4>1 DEF RowMove
    <3>4. QED BY <3>1, <3>2, <3>3
  <2>6. CASE TerminalError(w) \/ Unauthorized(w)
    BY <2>1, <2>6 DEF TerminalError, Unauthorized, Running
  <2>7. CASE TransientError(w)
    <3>1. CASE FailRun(w) BY <2>1, <2>7, <3>1 DEF TransientError, Running
    <3>2. CASE ~FailRun(w) /\ Owns(w)
      <4>1. ReleasesJob(w) BY <2>7, <3>2 DEF TransientError, ReleasesJob
      <4>2. QED BY <4>1 DEF RowMove
    <3>3. CASE ~FailRun(w) /\ ~Owns(w) BY <2>7, <3>3 DEF TransientError, RowMove
    <3>4. QED BY <3>1, <3>2, <3>3
  <2>8. CASE PublishRetry(w) \/ WorkerLost(w) \/ TaskError(w) \/ Redeliver(w)
    BY <2>8 DEF PublishRetry, WorkerLost, TaskError, Redeliver, RowMove, jobVars
  <2>9. QED BY <1>5, <2>2, <2>3, <2>4, <2>5, <2>6, <2>7, <2>8 DEF RunStep
<1>6. ASSUME NEW j \in Jobs, LeaseExpires(j) PROVE RowMove
  BY <1>6 DEF LeaseExpires, RowMove
<1>7. CASE Disconnect \/ Connect \/ UNCHANGED vars
  BY <1>7 DEF Disconnect, Connect, vars, jobVars, RowMove
<1>8. QED BY <1>1, <1>2, <1>3, <1>4, <1>5, <1>6, <1>7 DEF Next

-----------------------------------------------------------------------------
(* One owner                                                               *)

\* Only a claim gives a worker a token, and it gives one no busy worker has.
LEMMA TokensDifferStep ==
  ASSUME TypeInv, TokensDiffer, [Next]_vars
  PROVE  TokensDiffer'
<1>1. ASSUME NEW m \in Msg, NEW w \in Workers, Claim(w, m) PROVE TokensDiffer'
  <2>1. PICK t \in FreshTokens : token' = [token EXCEPT ![w] = t]
    BY <1>1 DEF Claim
  <2>2. \A v \in Workers : token[v] # t
    BY <2>1 DEF FreshTokens
  <2>3. pc' = [pc EXCEPT ![w] = "setup"]
    BY <1>1 DEF Claim
  <2>4. QED BY <2>1, <2>2, <2>3 DEF TokensDiffer, TypeInv, TypeOK
<1>2. ASSUME NEW w \in Workers,
             \/ Ack(w)
             \/ UNCHANGED token /\ pc[w] # "idle" /\ \E s \in Stage : pc' = [pc EXCEPT ![w] = s]
      PROVE  TokensDiffer'
  BY <1>2 DEF Ack, TokensDiffer, TypeInv, TypeOK
<1>3. ASSUME UNCHANGED <<token, pc>> PROVE TokensDiffer'
  BY <1>3 DEF TokensDiffer
<1>4. ASSUME NEW w \in Workers, RunStep(w) PROVE TokensDiffer'
  <2>1. CASE FailRun(w) \/ Ack(w)
    BY <1>2, <2>1 DEF FailRun
  <2>2. CASE ~FailRun(w) /\ ~Ack(w)
    BY <1>2, <1>3, <1>4, <2>2
    DEF RunStep, Setup, DiscoveringProgress, Discovered, CheckSource, ApplyBatch, StartBackfill,
        Finalize, TerminalError, Unauthorized, TransientError, PublishRetry, WorkerLost,
        TaskError, Redeliver, Running, Stage, workerVars
  <2>3. QED BY <2>1, <2>2
<1>5. ASSUME NEW m \in Msg, Deliver(m) PROVE TokensDiffer'
  BY <1>1, <1>3, <1>5 DEF Deliver, ClaimNone, ClaimError, workerVars
<1>6. CASE ~(\E w \in Workers : RunStep(w)) /\ ~(\E m \in Msg : Deliver(m))
  BY <1>3, <1>6
  DEF Next, vars, EnqueueSync, RequestReprocess, RequestRun, Schedule, Create, Dispatch,
      DispatchLost, DispatchManualFails, LeaseExpires, Disconnect, Connect,
      RemoveIndexedDocument, RemoveWorkspace, workerVars
<1>7. QED BY <1>4, <1>5, <1>6

\* However often a message is duplicated and a lease taken over, no two workers
\* both pass the ownership check of one job.
THEOREM OneOwnerAlways == Spec => []OneOwner
<1>1. Init => TokensDiffer BY DEF Init, TokensDiffer
<1>2. TypeInv /\ TokensDiffer => OneOwner
  BY DEF OneOwner, Owns, TokensDiffer
<1>3. TypeInv /\ TokensDiffer /\ [Next]_vars => (TypeInv /\ TokensDiffer)'
  BY TypeStep, TokensDifferStep
<1>4. QED BY <1>1, <1>2, <1>3, TypeInit, PTL DEF Spec

-----------------------------------------------------------------------------
(* Jobs of one folder                                                      *)

\* A busy worker's job and its folder are known ones.
LEMMA HeldJob ==
  ASSUME TypeInv, NEW w \in Workers, Owns(w)
  PROVE  /\ held[w].job \in Jobs /\ FolderOf[held[w].job] \in Folders
         /\ status[held[w].job] = "syncing" /\ Claimed(held[w].job)
<1>1. held[w] \in Msg /\ token[w] \in Tokens
  BY DEF TypeInv, BusyWorkerHolds, Owns
<1>2. QED BY <1>1, SyncJobAssumption DEF Msg, Owns, Claimed

\* Only a request makes a job active that was not, and it looks first.
LEMMA OneActiveStep ==
  ASSUME TypeInv, OneActiveJob, [Next]_vars
  PROVE  OneActiveJob'
<1> USE DEF OneActiveJob, Active, TypeInv, TypeOK
<1>1. ASSUME NEW new \in SUBSET Jobs, NEW by \in Origin, Create(new, by) PROVE OneActiveJob'
  BY <1>1 DEF Create, Creatable, ActiveJobs
<1>2. ASSUME NEW e \in outbox, DispatchManualFails(e) PROVE OneActiveJob'
  BY <1>2 DEF DispatchManualFails
<1>3. ASSUME NEW m \in Msg, NEW w \in Workers, Claim(w, m) PROVE OneActiveJob'
  BY <1>3 DEF Claim, Claimable, Msg
<1>4. ASSUME NEW w \in Workers, EndsJob(w) \/ ReleasesJob(w) PROVE OneActiveJob'
  BY <1>4, HeldJob DEF EndsJob, ReleasesJob, Terminal
<1>5. ASSUME NEW f \in Folders, RemoveWorkspace(f) PROVE OneActiveJob'
  BY <1>5 DEF RemoveWorkspace
<1>6. QED BY <1>1, <1>2, <1>3, <1>4, <1>5, StepIsRowMove DEF RowMove

\* The partial unique index on active jobs is never asked to refuse: a folder
\* has at most one queued or syncing job.
THEOREM OneActiveJobAlways == Spec => []OneActiveJob
<1>1. Init => OneActiveJob BY DEF Init, OneActiveJob, Active
<1>2. TypeInv /\ OneActiveJob /\ [Next]_vars => (TypeInv /\ OneActiveJob)'
  BY TypeStep, OneActiveStep
<1>3. QED BY <1>1, <1>2, TypeInit, PTL DEF Spec

\* A folder leaves the busy states with its job, never after it.
LEMMA BusyFolderStep ==
  ASSUME TypeInv, BusyFolderHasJob, [Next]_vars
  PROVE  BusyFolderHasJob'
<1> USE SyncJobAssumption DEF BusyFolderHasJob, Active, ActiveJobs, TypeInv, TypeOK
<1>1. ASSUME NEW new \in SUBSET Jobs, NEW by \in Origin, Create(new, by) PROVE BusyFolderHasJob'
  <2>1. /\ status' = [j \in Jobs |-> IF j \in new THEN "queued" ELSE status[j]]
        /\ folderStatus' = [f \in Folders |->
             IF \E j \in new : FolderOf[j] = f THEN EarlyFolder(f, "queued") ELSE folderStatus[f]]
        /\ \A j \in new : status[j] = "none"
        /\ UNCHANGED overwritten
    BY <1>1 DEF Create, Creatable, history
  <2>2. ASSUME NEW f \in Folders, folderStatus'[f] \in {"queued", "syncing"},
               \A j \in overwritten' : FolderOf[j] # f
        PROVE  ActiveJobs(f)' # {}
    <3>1. CASE \E j \in new : FolderOf[j] = f
      BY <2>1, <3>1
    <3>2. CASE ~(\E j \in new : FolderOf[j] = f)
      BY <2>1, <2>2, <3>2
    <3>3. QED BY <3>1, <3>2
  <2>3. QED BY <2>2
<1>2. ASSUME NEW e \in outbox, DispatchManualFails(e) PROVE BusyFolderHasJob'
  <2>1. CASE Claimed(e.job)
    BY <1>2, <2>1 DEF DispatchManualFails, FailedFolder
  <2>2. CASE ~Claimed(e.job)
    BY <1>2, <2>2 DEF DispatchManualFails, FailedFolder
  <2>3. QED BY <2>1, <2>2
<1>3. ASSUME NEW m \in Msg, NEW w \in Workers, Claim(w, m) PROVE BusyFolderHasJob'
  <2>1. m.job \in Jobs /\ status' = [status EXCEPT ![m.job] = "syncing"]
    BY <1>3 DEF Claim, Msg
  <2>2. \A f \in Folders : f # FolderOf[m.job] => folderStatus'[f] = folderStatus[f]
    BY <1>3 DEF Claim
  <2>3. UNCHANGED overwritten
    BY <1>3 DEF Claim
  <2>4. QED BY <2>1, <2>2, <2>3
<1>4. ASSUME NEW w \in Workers, EndsJob(w) PROVE BusyFolderHasJob'
  BY <1>4, HeldJob DEF EndsJob, Terminal
<1>5. ASSUME NEW w \in Workers, ReleasesJob(w) PROVE BusyFolderHasJob'
  BY <1>5, HeldJob DEF ReleasesJob
<1>6. ASSUME NEW f \in Folders, RemoveWorkspace(f) PROVE BusyFolderHasJob'
  <2>1. /\ folderStatus' = [folderStatus EXCEPT ![f] = "removed"]
        /\ status' = [j \in Jobs |->
             IF FolderOf[j] = f /\ status[j] # "none" THEN "deleted" ELSE status[j]]
        /\ UNCHANGED overwritten
    BY <1>6 DEF RemoveWorkspace, history
  <2>2. ASSUME NEW g \in Folders, folderStatus'[g] \in {"queued", "syncing"},
               \A j \in overwritten' : FolderOf[j] # g
        PROVE  ActiveJobs(g)' # {}
    <3>1. g # f /\ folderStatus[g] \in {"queued", "syncing"}
      BY <2>1, <2>2
    <3>2. PICK j \in Jobs : FolderOf[j] = g /\ status[j] \in {"queued", "syncing"}
      BY <2>1, <2>2, <3>1
    <3>3. status'[j] = status[j]
      BY <2>1, <3>1, <3>2
    <3>4. QED BY <3>2, <3>3
  <2>3. QED BY <2>2
<1>7. QED BY <1>1, <1>2, <1>3, <1>4, <1>5, <1>6, StepIsRowMove DEF RowMove

\* A folder shown as queued or syncing has an active job, or a dispatch failure
\* wrote over the row of one of its jobs.
THEOREM BusyFolderHasJobAlways == Spec => []BusyFolderHasJob
<1>1. Init => BusyFolderHasJob BY DEF Init, BusyFolderHasJob, Active
<1>2. TypeInv /\ BusyFolderHasJob /\ [Next]_vars => (TypeInv /\ BusyFolderHasJob)'
  BY TypeStep, BusyFolderStep
<1>3. QED BY <1>1, <1>2, TypeInit, PTL DEF Spec

-----------------------------------------------------------------------------
(* What a step may never do                                                *)

\* Completion is only reached by the owner of a claim.
LEMMA CompletedStep ==
  ASSUME TypeInv, CompletedWasClaimed, [Next]_vars
  PROVE  CompletedWasClaimed'
<1> USE DEF CompletedWasClaimed, TypeInv, TypeOK, Claimed
<1>1. ASSUME NEW new \in SUBSET Jobs, NEW by \in Origin, Create(new, by)
      PROVE  CompletedWasClaimed'
  BY <1>1 DEF Create
<1>2. ASSUME NEW e \in outbox, DispatchManualFails(e) PROVE CompletedWasClaimed'
  BY <1>2 DEF DispatchManualFails
<1>3. ASSUME NEW m \in Msg, NEW w \in Workers, Claim(w, m) PROVE CompletedWasClaimed'
  BY <1>3, SyncJobAssumption DEF Claim, FreshTokens
<1>4. ASSUME NEW w \in Workers, EndsJob(w) \/ ReleasesJob(w) PROVE CompletedWasClaimed'
  BY <1>4, HeldJob DEF EndsJob, ReleasesJob, Terminal
<1>5. ASSUME NEW f \in Folders, RemoveWorkspace(f) PROVE CompletedWasClaimed'
  BY <1>5 DEF RemoveWorkspace
<1>6. QED BY <1>1, <1>2, <1>3, <1>4, <1>5, StepIsRowMove DEF RowMove

\* An ended row is only written by the dispatch failure of its own request.
LEMMA EndedStay ==
  ASSUME TypeInv, CompletedWasClaimed, [Next]_vars,
         NEW j \in Jobs, status[j] \in Terminal
  PROVE  status'[j] \in {status[j], "deleted"} \/ j \in overwritten'
<1> USE DEF TypeInv, TypeOK, Terminal
<1>1. ASSUME NEW new \in SUBSET Jobs, NEW by \in Origin, Create(new, by)
      PROVE  status'[j] = status[j]
  BY <1>1 DEF Create, Creatable
<1>2. ASSUME NEW e \in outbox, DispatchManualFails(e)
      PROVE  status'[j] = status[j] \/ j \in overwritten'
  BY <1>2 DEF DispatchManualFails, CompletedWasClaimed
<1>3. ASSUME NEW m \in Msg, NEW w \in Workers, Claim(w, m) PROVE status'[j] = status[j]
  BY <1>3 DEF Claim, Claimable
<1>4. ASSUME NEW w \in Workers, EndsJob(w) \/ ReleasesJob(w) PROVE status'[j] = status[j]
  BY <1>4, HeldJob DEF EndsJob, ReleasesJob
<1>5. ASSUME NEW f \in Folders, RemoveWorkspace(f)
      PROVE  status'[j] \in {status[j], "deleted"}
  BY <1>5 DEF RemoveWorkspace
<1>6. QED BY <1>1, <1>2, <1>3, <1>4, <1>5, StepIsRowMove DEF RowMove

\* No redelivery, retry or superseded worker changes a job that has ended.
THEOREM EndedJobsStayAlways == Spec => EndedJobsStay
<1>1. Init => CompletedWasClaimed BY DEF Init, CompletedWasClaimed
<1>2. TypeInv /\ CompletedWasClaimed /\ [Next]_vars => (TypeInv /\ CompletedWasClaimed)'
  BY TypeStep, CompletedStep
<1>3. TypeInv /\ CompletedWasClaimed /\ [Next]_vars =>
        [\A j \in Jobs : status[j] \in Terminal =>
           status'[j] \in {status[j], "deleted"} \/ j \in overwritten']_vars
  BY EndedStay
<1>4. QED BY <1>1, <1>2, <1>3, TypeInit, PTL DEF Spec, EndedJobsStay

\* Whoever holds the token of a row is the last who claimed it.
LastClaimKnown ==
  \A w \in Workers : pc[w] # "idle" /\ runToken[held[w].job] = token[w] =>
    lastClaim[held[w].job] = {w}

\* A step of a worker keeps tokens, claims and messages, and every other worker
\* as it is.
LEMMA RunStepLeaves ==
  ASSUME TypeInv, NEW w \in Workers, RunStep(w)
  PROVE  /\ pc[w] # "idle"
         /\ UNCHANGED <<runToken, lastClaim, outbox>>
         /\ dropped \subseteq dropped'
         /\ \A v \in Workers \ {w} : pc'[v] = pc[v] /\ held'[v] = held[v] /\ token'[v] = token[v]
         /\ pc'[w] = "idle" \/ (held'[w] = held[w] /\ token'[w] = token[w])
<1> USE DEF TypeInv, TypeOK
<1>1. ASSUME Ack(w)
      PROVE  /\ \A v \in Workers \ {w} : /\ pc'[v] = pc[v] /\ held'[v] = held[v]
                                        /\ token'[v] = token[v]
             /\ pc'[w] = "idle"
  BY <1>1 DEF Ack
<1>2. ASSUME UNCHANGED <<held, token>>, \E s \in Stage : pc' = [pc EXCEPT ![w] = s]
      PROVE  /\ \A v \in Workers \ {w} : /\ pc'[v] = pc[v] /\ held'[v] = held[v]
                                        /\ token'[v] = token[v]
             /\ held'[w] = held[w] /\ token'[w] = token[w]
  BY <1>2
<1>3. CASE FailRun(w)
  BY <1>1, <1>3 DEF RunStep, FailRun, Setup, DiscoveringProgress, Discovered, CheckSource, ApplyBatch,
     StartBackfill, Finalize, TerminalError, Unauthorized, TransientError, PublishRetry, WorkerLost,
     TaskError, Redeliver, Running, history, workerVars, jobVars
<1>4. CASE ~FailRun(w) /\ (Setup(w) \/ DiscoveringProgress(w) \/ Discovered(w) \/ CheckSource(w)
                          \/ StartBackfill(w) \/ Redeliver(w))
  BY <1>2, <1>4 DEF Setup, DiscoveringProgress, Discovered, CheckSource, StartBackfill, Redeliver,
     history, workerVars, jobVars, Stage
<1>5. CASE ~FailRun(w) /\ (ApplyBatch(w) \/ Finalize(w))
  BY <1>1, <1>2, <1>5 DEF ApplyBatch, Finalize, history, workerVars, jobVars, Stage
<1>6. CASE ~FailRun(w) /\ (TerminalError(w) \/ Unauthorized(w) \/ TransientError(w))
  BY <1>2, <1>6 DEF TerminalError, Unauthorized, TransientError, Running, history, jobVars, Stage
<1>7. CASE PublishRetry(w) \/ WorkerLost(w) \/ TaskError(w)
  BY <1>1, <1>7 DEF PublishRetry, WorkerLost, TaskError, history, jobVars
<1>8. QED BY <1>3, <1>4, <1>5, <1>6, <1>7 DEF RunStep

\* Every step that is not of a worker nor a claim leaves workers, tokens and claims.
LEMMA OtherStepLeaves ==
  ASSUME [Next]_vars, ~(\E w \in Workers : RunStep(w)),
         ~(\E m \in Msg, w \in Workers : Claim(w, m))
  PROVE  UNCHANGED <<runToken, lastClaim, pc, held, token>>
BY DEF Next, Deliver, ClaimNone, ClaimError, EnqueueSync, RequestReprocess, RequestRun, Schedule,
   Create, Dispatch, DispatchLost, DispatchManualFails, LeaseExpires, Disconnect, Connect,
   RemoveIndexedDocument, RemoveWorkspace, vars, jobVars, workerVars, history

\* A claim takes an idle worker, and its token is one that nobody holds.
LEMMA ClaimMoves ==
  ASSUME TypeInv, NEW m \in Msg, NEW w \in Workers, Claim(w, m)
  PROVE  /\ pc[w] = "idle" /\ pc'[w] = "setup" /\ held'[w] = m
         /\ runToken'[m.job] = token'[w] /\ status'[m.job] = "syncing"
         /\ lastClaim'[m.job] = {w}
         /\ \A j \in Jobs \ {m.job} : /\ runToken'[j] = runToken[j] /\ status'[j] = status[j]
                                      /\ lastClaim'[j] = lastClaim[j]
         /\ \A v \in Workers \ {w} : /\ pc'[v] = pc[v] /\ held'[v] = held[v]
                                     /\ token'[v] = token[v] /\ token'[v] # runToken'[m.job]
<1> USE DEF TypeInv, TypeOK
<1>1. PICK t \in FreshTokens : /\ runToken' = [runToken EXCEPT ![m.job] = t]
                               /\ token' = [token EXCEPT ![w] = t]
  BY DEF Claim
<1>2. m.job \in Jobs
  BY DEF Msg
<1>3. \A v \in Workers : token[v] # t
  BY <1>1 DEF FreshTokens
<1>4. /\ runToken'[m.job] = t /\ token'[w] = t
      /\ \A j \in Jobs \ {m.job} : runToken'[j] = runToken[j]
      /\ \A v \in Workers \ {w} : token'[v] = token[v] /\ token'[v] # t
  BY <1>1, <1>2, <1>3
<1>5. /\ lastClaim' = [lastClaim EXCEPT ![m.job] = {w}]
      /\ status' = [status EXCEPT ![m.job] = "syncing"]
      /\ pc[w] = "idle" /\ pc' = [pc EXCEPT ![w] = "setup"]
      /\ held' = [held EXCEPT ![w] = m]
  BY DEF Claim
<1>6. QED BY <1>2, <1>4, <1>5

LEMMA LastClaimStep ==
  ASSUME TypeInv, LastClaimKnown, [Next]_vars
  PROVE  LastClaimKnown'
<1>1. CASE \E w \in Workers : RunStep(w)
  BY <1>1, RunStepLeaves DEF LastClaimKnown
<1>2. ASSUME NEW m \in Msg, NEW w \in Workers, Claim(w, m)
      PROVE  LastClaimKnown'
  <2>1. ASSUME NEW v \in Workers, pc'[v] # "idle", runToken'[held'[v].job] = token'[v]
        PROVE  lastClaim'[held'[v].job] = {v}
    <3>1. CASE v = w
      BY <1>2, <2>1, <3>1, ClaimMoves
    <3>2. CASE v # w
      <4>1. /\ pc[v] # "idle" /\ held'[v] = held[v] /\ token'[v] = token[v]
            /\ token'[v] # runToken'[m.job]
        BY <1>2, <2>1, <3>2, ClaimMoves
      <4>2. held[v].job \in Jobs
        BY <4>1 DEF TypeInv, BusyWorkerHolds, Msg
      <4>3. held[v].job # m.job
        BY <2>1, <4>1
      <4>4. QED BY <1>2, <2>1, <4>1, <4>2, <4>3, ClaimMoves DEF LastClaimKnown
    <3>3. QED BY <3>1, <3>2
  <2>2. QED BY <2>1 DEF LastClaimKnown
<1>3. CASE ~(\E w \in Workers : RunStep(w)) /\ ~(\E m \in Msg, w \in Workers : Claim(w, m))
  BY <1>3, OtherStepLeaves DEF LastClaimKnown
<1>4. QED BY <1>1, <1>2, <1>3

\* Of a worker's steps only a batch and the last commit write the index, both
\* of the run that owns its job.
LEMMA RunWritesIndex ==
  ASSUME TypeInv, NEW w \in Workers, RunStep(w)
  PROVE  \/ UNCHANGED indexed
         \/ Owns(w) /\ \A f \in Folders : indexed'[f] # indexed[f] => FolderOf[held[w].job] = f
<1> USE DEF TypeInv, TypeOK
<1>1. CASE FailRun(w) BY <1>1 DEF FailRun
<1>2. CASE ApplyBatch(w) BY <1>2 DEF ApplyBatch
<1>3. CASE Finalize(w) /\ ~FailRun(w) BY <1>3 DEF Finalize, jobVars
<1>4. CASE ~FailRun(w) /\ ~ApplyBatch(w) /\ ~Finalize(w)
  BY <1>4
  DEF RunStep, Setup, DiscoveringProgress, Discovered, CheckSource, StartBackfill,
      TerminalError, Unauthorized, TransientError, PublishRetry, WorkerLost, TaskError,
      Redeliver, jobVars
<1>5. QED BY <1>1, <1>2, <1>3, <1>4

\* A step that changes what is indexed in a folder with an active job is a step
\* of the worker that owns it.
LEMMA IndexStep ==
  ASSUME TypeInv, LastClaimKnown, [Next]_vars, indexed' # indexed
  PROVE  /\ \A w \in Workers : RunStep(w) =>
              lastClaim[held[w].job] = {w} /\ status[held[w].job] = "syncing"
         /\ \A f \in Folders : indexed'[f] # indexed[f] /\ ActiveJobs(f) # {} =>
              \E w \in Workers : RunStep(w) /\ FolderOf[held[w].job] = f
<1>1. ASSUME NEW w \in Workers, RunStep(w)
      PROVE  lastClaim[held[w].job] = {w} /\ status[held[w].job] = "syncing"
  <2>1. Owns(w) BY <1>1, RunWritesIndex
  <2>2. QED BY <2>1 DEF Owns, LastClaimKnown
<1>2. ASSUME NEW f \in Folders, indexed'[f] # indexed[f], ActiveJobs(f) # {}
      PROVE  \E w \in Workers : RunStep(w) /\ FolderOf[held[w].job] = f
  <2>1. CASE \E w \in Workers : RunStep(w)
    BY <1>2, <2>1, RunWritesIndex
  <2>2. ASSUME NEW g \in Folders, RemoveIndexedDocument(g) \/ RemoveWorkspace(g)
        PROVE  indexed'[f] = indexed[f]
    BY <1>2, <2>2 DEF RemoveIndexedDocument, RemoveWorkspace, TypeInv, TypeOK
  <2>3. CASE ~(\E w \in Workers : RunStep(w)) /\
             ~(\E g \in Folders : RemoveIndexedDocument(g) \/ RemoveWorkspace(g))
    BY <2>3
    DEF Next, vars, jobVars, EnqueueSync, RequestReprocess, RequestRun, Schedule, Create, Dispatch,
        DispatchLost, DispatchManualFails, Deliver, Claim, ClaimNone, ClaimError, LeaseExpires,
        Disconnect, Connect
  <2>4. QED BY <1>2, <2>1, <2>2, <2>3
<1>3. QED BY <1>1, <1>2

\* What a run writes to the index it writes as the last who claimed its job, and
\* nothing else writes it while the folder has an active job.
THEOREM IndexChangedByOwnerAlways == Spec => IndexChangedByOwner
<1>1. Init => LastClaimKnown
  BY DEF Init, LastClaimKnown
<1>2. TypeInv /\ LastClaimKnown /\ [Next]_vars => (TypeInv /\ LastClaimKnown)'
  BY TypeStep, LastClaimStep
<1>3. TypeInv /\ LastClaimKnown /\ [Next]_vars =>
        [indexed' # indexed =>
           /\ \A w \in Workers : RunStep(w) =>
                lastClaim[held[w].job] = {w} /\ status[held[w].job] = "syncing"
           /\ \A f \in Folders : indexed'[f] # indexed[f] /\ ActiveJobs(f) # {} =>
                \E w \in Workers : RunStep(w) /\ FolderOf[held[w].job] = f]_vars
  BY IndexStep
<1>4. QED BY <1>1, <1>2, <1>3, TypeInit, PTL DEF Spec, IndexChangedByOwner

-----------------------------------------------------------------------------
(* No job is left behind                                                   *)

\* A worker about to send its delivery again has given up its job, and the
\* delivery has a retry left.
RetryingGaveUp ==
  \A w \in Workers : pc[w] = "retrying" => ~Owns(w) /\ held[w].retries < MaxRetries

CarriedInv == JobsCarried /\ RetryingGaveUp

\* A message that was sent is in the broker, and no other message left it.
LEMMA SendKeeps ==
  ASSUME TypeInv, NEW m, Send(m)
  PROVE  /\ m \in Msg => queue'[m] > 0
         /\ \A n \in Msg : queue[n] > 0 => queue'[n] > 0
BY SyncJobAssumption DEF Send, TypeInv, TypeOK

\* What a step of a worker does to its own job.
LEMMA RunStepOnJob ==
  ASSUME TypeInv, RetryingGaveUp, NEW w \in Workers, RunStep(w)
  PROVE  LET j == held[w].job IN
         /\ j \in Jobs
         /\ \A i \in Jobs \ {j} : status'[i] = status[i]
         /\ \A n \in Msg : queue[n] > 0 => queue'[n] > 0
         /\ \/ j \in dropped' /\ status'[j] = status[j]
            \/ status'[j] \in Terminal
            \/ status'[j] = "queued" /\ pc'[w] = "retrying" /\ held'[w] = held[w]
            \/ /\ status'[j] = status[j]
               /\ pc'[w] # "idle" /\ held'[w] = held[w] /\ token'[w] = token[w]
               /\ pc[w] = "retrying" => pc'[w] = "retrying"
            \/ status'[j] = status[j] /\ ~Owns(w) /\ pc[w] # "retrying"
            \/ /\ status'[j] = status[j] /\ ~Owns(w)
               /\ \E m \in Msg : m.job = j /\ queue'[m] > 0
<1> DEFINE j == held[w].job
<1> HIDE DEF j
<1> USE DEF TypeInv, TypeOK
<1>1. pc[w] # "idle" /\ held[w] \in Msg /\ j \in Jobs
  BY RunStepLeaves DEF BusyWorkerHolds, Msg, j
<1>2. ASSUME FailRun(w), pc[w] # "retrying", queue' = queue
      PROVE  /\ \A i \in Jobs \ {j} : status'[i] = status[i]
             /\ \A n \in Msg : queue[n] > 0 => queue'[n] > 0
             /\ \/ status'[j] \in Terminal
                \/ status'[j] = status[j] /\ ~Owns(w) /\ pc[w] # "retrying"
  <2>1. CASE Owns(w) BY <1>1, <1>2, <2>1 DEF FailRun, Terminal, j
  <2>2. CASE ~Owns(w) BY <1>2, <2>2 DEF FailRun
  <2>3. QED BY <2>1, <2>2
<1>3. CASE FailRun(w) /\ pc[w] # "retrying" /\ queue' = queue
  BY <1>1, <1>2, <1>3 DEF j
<1>4. CASE UNCHANGED <<status, queue, held, token>> /\ pc'[w] # "idle" /\ pc[w] # "retrying"
  BY <1>1, <1>4 DEF j
<1>5. CASE Setup(w) \/ DiscoveringProgress(w) \/ Discovered(w) \/ CheckSource(w) \/ StartBackfill(w)
  BY <1>3, <1>4, <1>5 DEF Setup, DiscoveringProgress, Discovered, CheckSource, StartBackfill,
     workerVars, jobVars
<1>6. CASE ApplyBatch(w)
  <2>1. CASE Owns(w) BY <1>4, <1>6, <2>1 DEF ApplyBatch, workerVars
  <2>2. CASE ~Owns(w)
    <3>1. pc[w] # "retrying" /\ status' = status /\ queue' = queue BY <1>6 DEF ApplyBatch
    <3>2. QED BY <1>1, <2>2, <3>1 DEF j
  <2>3. QED BY <2>1, <2>2
<1>7. CASE Finalize(w)
  <2>1. pc[w] # "retrying" /\ queue' = queue BY <1>7 DEF Finalize
  <2>2. CASE FailRun(w) BY <1>3, <2>1, <2>2
  <2>3. CASE ~Owns(w) /\ UNCHANGED jobVars
    BY <1>1, <2>1, <2>3 DEF jobVars, j
  <2>4. CASE \E s \in {"ready", "partial_failure"} : status' = [status EXCEPT ![held[w].job] = s]
    BY <1>1, <2>1, <2>4 DEF Terminal, j
  <2>5. QED BY <1>7, <2>2, <2>3, <2>4 DEF Finalize
<1>8. CASE TerminalError(w) \/ Unauthorized(w)
  BY <1>3, <1>8 DEF TerminalError, Unauthorized, Running
<1>9. CASE TransientError(w)
  <2>1. pc[w] # "retrying" /\ queue' = queue BY <1>9 DEF TransientError, Running
  <2>2. CASE FailRun(w) BY <1>3, <2>1, <2>2
  <2>3. CASE ~FailRun(w)
    <3>1. pc'[w] = "retrying" /\ held' = held /\ token' = token
      BY <1>9, <2>3 DEF TransientError
    <3>2. CASE Owns(w)
      <4>1. status' = [status EXCEPT ![j] = "queued"] BY <1>9, <2>3, <3>2 DEF TransientError, j
      <4>2. QED BY <1>1, <2>1, <3>1, <4>1 DEF j
    <3>3. CASE ~Owns(w)
      <4>1. status' = status BY <1>9, <2>3, <3>3 DEF TransientError
      <4>2. QED BY <1>4, <2>1, <3>1, <4>1
    <3>4. QED BY <3>2, <3>3
  <2>4. QED BY <2>2, <2>3
<1>10. CASE PublishRetry(w)
  <2>1. PICK m : m = [held[w] EXCEPT !.retries = @ + 1]
    OBVIOUS
  <2>2. Send(m) /\ pc[w] = "retrying" /\ status' = status
    BY <1>10, <2>1 DEF PublishRetry, jobVars
  <2>3. ~Owns(w) /\ held[w].retries < MaxRetries
    BY <2>2 DEF RetryingGaveUp
  <2>4. m \in Msg /\ m.job = j
    BY <1>1, <2>1, <2>3, SyncJobAssumption DEF Msg, j
  <2>5. queue'[m] > 0 /\ \A n \in Msg : queue[n] > 0 => queue'[n] > 0
    BY <2>2, <2>4, SendKeeps
  <2>6. QED BY <1>1, <2>2, <2>3, <2>4, <2>5 DEF j
<1>11. CASE WorkerLost(w)
  <2>1. status' = status /\ Send(held[w]) /\ j \in dropped'
    BY <1>11 DEF WorkerLost, jobVars, j
  <2>2. QED BY <1>1, <2>1, SendKeeps DEF j
<1>12. CASE TaskError(w)
  BY <1>1, <1>12 DEF TaskError, jobVars, j
<1>13. CASE Redeliver(w)
  <2>1. status' = status /\ Send(held[w]) /\ UNCHANGED <<pc, held, token>>
    BY <1>13 DEF Redeliver, jobVars, workerVars
  <2>2. QED BY <1>1, <2>1, SendKeeps DEF j
<1>14. QED
  BY <1>5, <1>6, <1>7, <1>8, <1>9, <1>10, <1>11, <1>12, <1>13 DEF RunStep

LEMMA CarriedInit == Init => CarriedInv
BY DEF Init, CarriedInv, JobsCarried, RetryingGaveUp

\* A worker leaves its job ended, released to its own retry, with another owner
\* or with a message in the broker.
LEMMA CarriedRunStep ==
  ASSUME TypeInv, TypeInv', CarriedInv, NEW w \in Workers, RunStep(w)
  PROVE  JobsCarried'
<1>0. PICK k : k = held[w].job
  OBVIOUS
<1>1. /\ UNCHANGED <<runToken, outbox>> /\ dropped \subseteq dropped'
      /\ pc[w] # "idle"
      /\ \A v \in Workers \ {w} : pc'[v] = pc[v] /\ held'[v] = held[v] /\ token'[v] = token[v]
  BY RunStepLeaves
<1>2. /\ k \in Jobs
      /\ \A i \in Jobs \ {k} : status'[i] = status[i]
      /\ \A n \in Msg : queue[n] > 0 => queue'[n] > 0
  BY <1>0, RunStepOnJob DEF CarriedInv
<1>3. ASSUME NEW i \in Jobs, i \notin dropped', status'[i] = status[i],
             i = k => /\ pc'[w] # "idle" /\ held'[w] = held[w] /\ token'[w] = token[w]
                      /\ pc[w] = "retrying" => pc'[w] = "retrying"
      PROVE  /\ status'[i] = "queued" => Waiting(i)'
             /\ status'[i] = "syncing" => (\E v \in Workers : Owns(v) /\ held[v].job = i)'
  <2>1. i \in Jobs \ dropped BY <1>1, <1>3
  <2>2. CASE status[i] = "queued"
    <3>1. Waiting(i) BY <2>1, <2>2 DEF CarriedInv, JobsCarried
    <3>2. Waiting(i)'
      <4>1. CASE \E e \in outbox : e.job = i BY <1>1, <4>1 DEF Waiting
      <4>2. CASE \E m \in Msg : m.job = i /\ queue[m] > 0 BY <1>2, <4>2 DEF Waiting
      <4>3. CASE \E v \in Workers : pc[v] = "retrying" /\ held[v].job = i
        BY <1>0, <1>1, <1>3, <4>3 DEF Waiting
      <4>4. QED BY <3>1, <4>1, <4>2, <4>3 DEF Waiting
    <3>3. QED BY <1>3, <2>2, <3>2
  <2>3. CASE status[i] = "syncing"
    <3>1. PICK v \in Workers : Owns(v) /\ held[v].job = i
      BY <2>1, <2>3 DEF CarriedInv, JobsCarried
    <3>2. pc'[v] # "idle" /\ held'[v] = held[v] /\ token'[v] = token[v]
      BY <1>0, <1>1, <1>3, <3>1 DEF Owns
    <3>3. Owns(v)' /\ held'[v].job = i
      BY <1>1, <1>3, <2>3, <3>1, <3>2 DEF Owns
    <3>4. QED BY <1>3, <2>3, <3>3
  <2>4. QED BY <1>3, <2>2, <2>3
<1>4. ASSUME k \notin dropped'
      PROVE  /\ status'[k] = "queued" => Waiting(k)'
             /\ status'[k] = "syncing" => (\E v \in Workers : Owns(v) /\ held[v].job = k)'
  <2>1. \/ status'[k] \in Terminal
        \/ status'[k] = "queued" /\ pc'[w] = "retrying" /\ held'[w] = held[w]
        \/ /\ status'[k] = status[k]
           /\ pc'[w] # "idle" /\ held'[w] = held[w] /\ token'[w] = token[w]
           /\ pc[w] = "retrying" => pc'[w] = "retrying"
        \/ status'[k] = status[k] /\ ~Owns(w) /\ pc[w] # "retrying"
        \/ /\ status'[k] = status[k] /\ ~Owns(w)
           /\ \E m \in Msg : m.job = k /\ queue'[m] > 0
    BY <1>0, <1>4, RunStepOnJob DEF CarriedInv
  <2>2. CASE status'[k] \in Terminal
    BY <2>2 DEF Terminal
  <2>3. CASE status'[k] = "queued" /\ pc'[w] = "retrying" /\ held'[w] = held[w]
    BY <1>0, <2>3 DEF Waiting
  <2>4. CASE /\ status'[k] = status[k]
             /\ pc'[w] # "idle" /\ held'[w] = held[w] /\ token'[w] = token[w]
             /\ pc[w] = "retrying" => pc'[w] = "retrying"
    BY <1>2, <1>3, <1>4, <2>4
  <2>5. ASSUME status'[k] = status[k], ~Owns(w), status[k] = "syncing"
        PROVE  (\E v \in Workers : Owns(v) /\ held[v].job = k)'
    <3>1. PICK v \in Workers : Owns(v) /\ held[v].job = k
      BY <1>1, <1>2, <1>4, <2>5 DEF CarriedInv, JobsCarried
    <3>2. v # w BY <2>5, <3>1
    <3>3. pc'[v] = pc[v] /\ held'[v] = held[v] /\ token'[v] = token[v]
      BY <1>1, <3>2
    <3>4. Owns(v)' /\ held'[v].job = k
      BY <1>1, <2>5, <3>1, <3>3 DEF Owns
    <3>5. QED BY <3>4
  <2>6. CASE status'[k] = status[k] /\ ~Owns(w) /\ pc[w] # "retrying"
    <3>1. ASSUME status[k] = "queued" PROVE Waiting(k)'
      <4>1. Waiting(k) BY <1>1, <1>2, <1>4, <3>1 DEF CarriedInv, JobsCarried
      <4>2. CASE \E e \in outbox : e.job = k BY <1>1, <4>2 DEF Waiting
      <4>3. CASE \E m \in Msg : m.job = k /\ queue[m] > 0 BY <1>2, <4>3 DEF Waiting
      <4>4. CASE \E v \in Workers : pc[v] = "retrying" /\ held[v].job = k
        BY <1>1, <2>6, <4>4 DEF Waiting
      <4>5. QED BY <4>1, <4>2, <4>3, <4>4 DEF Waiting
    <3>2. QED BY <2>5, <2>6, <3>1
  <2>7. CASE /\ status'[k] = status[k] /\ ~Owns(w)
             /\ \E m \in Msg : m.job = k /\ queue'[m] > 0
    BY <2>5, <2>7 DEF Waiting
  <2>8. QED BY <2>1, <2>2, <2>3, <2>4, <2>6, <2>7
<1>5. QED BY <1>2, <1>3, <1>4 DEF JobsCarried

\* A claim takes a message and gives its job an owner; other jobs keep theirs.
LEMMA CarriedClaim ==
  ASSUME TypeInv, CarriedInv, NEW m \in Msg, NEW w \in Workers, Claim(w, m)
  PROVE  JobsCarried'
<1>1. UNCHANGED <<outbox, dropped>> /\ \A n \in Msg \ {m} : queue'[n] = queue[n]
  BY DEF Claim, TypeInv, TypeOK
<1>2. Owns(w)' /\ held'[w].job = m.job /\ status'[m.job] = "syncing"
  BY ClaimMoves DEF Owns
<1>3. ASSUME NEW i \in Jobs \ dropped, i # m.job, status'[i] = "queued" PROVE Waiting(i)'
  <2>1. status[i] = "queued" BY <1>3, ClaimMoves
  <2>2. Waiting(i) BY <1>3, <2>1 DEF CarriedInv, JobsCarried
  <2>3. CASE \E v \in Workers : pc[v] = "retrying" /\ held[v].job = i
    BY <2>3, ClaimMoves DEF Waiting
  <2>4. QED BY <1>1, <1>3, <2>2, <2>3 DEF Waiting
<1>4. ASSUME NEW i \in Jobs \ dropped, i # m.job, status'[i] = "syncing"
      PROVE  (\E v \in Workers : Owns(v) /\ held[v].job = i)'
  <2>1. status[i] = "syncing" /\ runToken'[i] = runToken[i] BY <1>3, <1>4, ClaimMoves
  <2>2. PICK v \in Workers : Owns(v) /\ held[v].job = i
    BY <1>4, <2>1 DEF CarriedInv, JobsCarried
  <2>3. v # w BY <2>2, ClaimMoves DEF Owns
  <2>4. pc'[v] = pc[v] /\ held'[v] = held[v] /\ token'[v] = token[v]
    BY <2>3, ClaimMoves
  <2>5. Owns(v)' /\ held'[v].job = i
    BY <1>4, <2>1, <2>2, <2>4 DEF Owns
  <2>6. QED BY <2>5
<1>5. QED BY <1>1, <1>2, <1>3, <1>4 DEF JobsCarried

\* What a request, a dispatch, a duplicate or a fault leaves of a job's carriers.
LEMMA CarriedOther ==
  ASSUME TypeInv, CarriedInv, [Next]_vars, ~(\E w \in Workers : RunStep(w)),
         ~(\E m \in Msg, w \in Workers : Claim(w, m))
  PROVE  JobsCarried'
<1> USE DEF TypeInv, TypeOK
<1>1. UNCHANGED <<runToken, pc, held, token>>
  BY OtherStepLeaves
<1>2. ASSUME NEW i \in Jobs, status'[i] = status[i], status[i] = "syncing", i \notin dropped
      PROVE  (\E v \in Workers : Owns(v) /\ held[v].job = i)'
  <2>1. PICK v \in Workers : Owns(v) /\ held[v].job = i
    BY <1>2 DEF CarriedInv, JobsCarried
  <2>2. Owns(v)' /\ held'[v].job = i
    BY <1>1, <1>2, <2>1 DEF Owns
  <2>3. QED BY <2>2
<1>3. ASSUME NEW i \in Jobs, status'[i] = status[i], status[i] = "queued", i \notin dropped,
             \A e \in outbox : e.job = i =>
               e \in outbox' \/ \E m \in Msg : m.job = i /\ queue'[m] > 0,
             \A m \in Msg : m.job = i /\ queue[m] > 0 => queue'[m] > 0
      PROVE  Waiting(i)'
  <2>1. Waiting(i) BY <1>3 DEF CarriedInv, JobsCarried
  <2>2. QED BY <1>1, <1>3, <2>1 DEF Waiting
<1>4. ASSUME \A i \in Jobs : status'[i] \in {status[i]} \cup Terminal \cup {"deleted"},
             dropped \subseteq dropped',
             \A i \in Jobs \ dropped' : \A e \in outbox : e.job = i /\ status'[i] = status[i] =>
               e \in outbox' \/ \E m \in Msg : m.job = i /\ queue'[m] > 0,
             \A i \in Jobs \ dropped' : \A m \in Msg :
               m.job = i /\ status[i] = "queued" /\ queue[m] > 0 => queue'[m] > 0
      PROVE  JobsCarried'
  BY <1>2, <1>3, <1>4 DEF JobsCarried, Terminal
<1>5. ASSUME NEW new \in SUBSET Jobs, NEW by \in Origin, Create(new, by)
      PROVE  JobsCarried'
  <2>1. /\ status' = [j \in Jobs |-> IF j \in new THEN "queued" ELSE status[j]]
        /\ outbox' = outbox \cup [job : new, by : {by}]
        /\ UNCHANGED <<queue, dropped>>
    BY <1>5 DEF Create, history
  <2>2. ASSUME NEW i \in new PROVE Waiting(i)'
    <3>1. [job |-> i, by |-> by] \in outbox' BY <2>1, <2>2
    <3>2. QED BY <3>1 DEF Waiting
  <2>3. \A i \in Jobs \ new : status'[i] = status[i] BY <2>1
  <2>4. \A i \in new : status'[i] = "queued" BY <2>1
  <2>5. QED BY <1>2, <1>3, <2>1, <2>2, <2>3, <2>4 DEF JobsCarried
<1>6. ASSUME NEW f \in Folders, EnqueueSync(f) PROVE JobsCarried'
  <2>1. CASE \E j \in Jobs : FolderOf[j] = f /\ Create({j}, "direct")
    BY <1>5, <2>1 DEF Origin
  <2>2. CASE ~(\E j \in Jobs : FolderOf[j] = f /\ Create({j}, "direct"))
    <3>1. outbox \subseteq outbox' /\ UNCHANGED <<status, queue, dropped>>
      BY <1>6, <2>2 DEF EnqueueSync, jobVars, history
    <3>2. QED BY <1>4, <3>1
  <2>3. QED BY <2>1, <2>2
<1>7. ASSUME NEW new \in SUBSET Jobs, RequestRun(new) \/ Schedule(new) PROVE JobsCarried'
  BY <1>5, <1>7 DEF RequestRun, Schedule, Origin
<1>8. ASSUME NEW f \in Folders, RequestReprocess(f) PROVE JobsCarried'
  BY <1>5, <1>8 DEF RequestReprocess, Origin
<1>9. ASSUME NEW e \in outbox, Dispatch(e) PROVE JobsCarried'
  <2>1. PICK m : m = [job |-> e.job, retries |-> 0]
    OBVIOUS
  <2>2. e.job \in Jobs BY <1>9
  <2>3. m \in Msg /\ m.job = e.job BY <2>1, <2>2, SyncJobAssumption DEF Msg
  <2>4. Send(m) /\ outbox' = outbox \ {e} /\ UNCHANGED <<status, dropped>>
    BY <1>9, <2>1 DEF Dispatch, jobVars, history
  <2>5. queue'[m] > 0 /\ \A n \in Msg : queue[n] > 0 => queue'[n] > 0
    BY <2>3, <2>4, SendKeeps
  <2>6. QED BY <1>4, <2>3, <2>4, <2>5
<1>10. ASSUME NEW e \in outbox, DispatchLost(e) PROVE JobsCarried'
  <2>1. /\ outbox' = outbox \ {e} /\ dropped' = dropped \cup {e.job}
        /\ UNCHANGED <<status, queue>>
    BY <1>10 DEF DispatchLost, jobVars
  <2>2. QED BY <1>4, <2>1
<1>11. ASSUME NEW e \in outbox, DispatchManualFails(e) PROVE JobsCarried'
  <2>1. /\ outbox' = outbox \ {e} /\ status' = [status EXCEPT ![e.job] = "failed"]
        /\ e.job \in Jobs /\ UNCHANGED <<dropped, queue>>
    BY <1>11 DEF DispatchManualFails
  <2>2. status'[e.job] = "failed" /\ \A i \in Jobs \ {e.job} : status'[i] = status[i]
    BY <2>1
  <2>3. \A i \in Jobs : status'[i] \in {status[i]} \cup Terminal \cup {"deleted"}
    BY <2>2 DEF Terminal
  <2>4. ASSUME NEW i \in Jobs \ dropped', status'[i] = "queued"
        PROVE  Waiting(i)'
    <3>1. i # e.job BY <2>2, <2>4
    <3>2. QED BY <1>3, <2>1, <2>2, <2>4, <3>1
  <2>5. ASSUME NEW i \in Jobs \ dropped', status'[i] = "syncing"
        PROVE  (\E v \in Workers : Owns(v) /\ held[v].job = i)'
    BY <1>2, <2>1, <2>2, <2>5
  <2>6. QED BY <2>4, <2>5 DEF JobsCarried
<1>12. ASSUME NEW m \in Msg, NEW w \in Workers, ClaimNone(w, m) \/ ClaimError(w, m)
       PROVE  JobsCarried'
  <2>1. /\ UNCHANGED <<status, outbox>> /\ \A n \in Msg \ {m} : queue'[n] = queue[n]
    BY <1>12 DEF ClaimNone, ClaimError, jobVars
  <2>2. dropped \subseteq dropped' /\ (status[m.job] # "queued" \/ m.job \in dropped')
    BY <1>12 DEF ClaimNone, ClaimError, Claimable, history
  <2>3. QED BY <1>4, <2>1, <2>2
<1>13. ASSUME NEW f \in Folders, RemoveWorkspace(f) PROVE JobsCarried'
  <2>1. /\ \A j \in Jobs : status'[j] \in {status[j], "deleted"}
        /\ UNCHANGED <<queue, outbox, dropped>>
    BY <1>13 DEF RemoveWorkspace, history
  <2>2. QED BY <1>4, <2>1
<1>14. CASE UNCHANGED <<status, queue, outbox, dropped>>
  BY <1>4, <1>14
<1>15. CASE \/ \E f \in Folders : RemoveIndexedDocument(f)
            \/ \E j \in Jobs : LeaseExpires(j)
            \/ Disconnect \/ Connect \/ UNCHANGED vars
  BY <1>14, <1>15 DEF RemoveIndexedDocument, LeaseExpires, Disconnect, Connect, vars, jobVars, history
<1>16. QED
  BY <1>6, <1>7, <1>8, <1>9, <1>10, <1>11, <1>12, <1>13, <1>15 DEF Next, Deliver

\* Only a worker that released its job, or had lost it, is about to retry.
LEMMA RetryingStep ==
  ASSUME TypeInv, TypeInv', RetryingGaveUp, [Next]_vars
  PROVE  RetryingGaveUp'
<1> USE DEF TypeInv, TypeOK
<1>1. ASSUME NEW w \in Workers, RunStep(w) PROVE RetryingGaveUp'
  <2>1. /\ UNCHANGED runToken
        /\ \A v \in Workers \ {w} : pc'[v] = pc[v] /\ held'[v] = held[v] /\ token'[v] = token[v]
    BY <1>1, RunStepLeaves
  <2>2. \A i \in Jobs : status'[i] = "syncing" => status[i] = "syncing"
    <3>1. LET j == held[w].job IN status'[j] = "syncing" => status[j] = "syncing"
      BY <1>1, RunStepOnJob DEF Terminal
    <3>2. QED BY <1>1, <3>1, RunStepOnJob
  <2>3. ASSUME NEW v \in Workers \ {w}, pc'[v] = "retrying"
        PROVE  ~Owns(v)' /\ held'[v].retries < MaxRetries
    <3>1. pc[v] = "retrying" /\ held'[v] = held[v] /\ token'[v] = token[v] BY <2>1, <2>3
    <3>2. ~Owns(v) /\ held[v].retries < MaxRetries BY <3>1 DEF RetryingGaveUp
    <3>3. held[v].job \in Jobs BY <3>1 DEF BusyWorkerHolds, Msg
    <3>4. QED BY <2>1, <2>2, <3>1, <3>2, <3>3 DEF Owns
  <2>4. ASSUME pc'[w] = "retrying"
        PROVE  ~Owns(w)' /\ held'[w].retries < MaxRetries
    <3>1. CASE pc[w] = "retrying"
      <4>1. Redeliver(w)
        BY <1>1, <2>4, <3>1 DEF RunStep, Setup, DiscoveringProgress, Discovered, CheckSource,
           ApplyBatch, StartBackfill, Finalize, TerminalError, Unauthorized, TransientError,
           PublishRetry, WorkerLost, TaskError, Running, Ack
      <4>2. UNCHANGED <<pc, held, token, status, runToken>>
        BY <4>1 DEF Redeliver, workerVars, jobVars
      <4>3. QED BY <3>1, <4>2 DEF RetryingGaveUp, Owns
    <3>2. CASE pc[w] # "retrying"
      <4>1. TransientError(w) /\ ~FailRun(w)
        BY <1>1, <2>4, <3>2 DEF RunStep, Setup, DiscoveringProgress, Discovered, CheckSource,
           ApplyBatch, StartBackfill, Finalize, TerminalError, Unauthorized, TransientError,
           PublishRetry, WorkerLost, TaskError, Redeliver, Running, Ack, FailRun, workerVars
      <4>2. ~(held[w].retries >= MaxRetries) /\ UNCHANGED <<runToken, held, token>>
        BY <4>1 DEF TransientError
      <4>3. held[w] \in Msg /\ held[w].job \in Jobs
        BY <1>1, RunStepLeaves DEF BusyWorkerHolds, Msg
      <4>4. held'[w].retries < MaxRetries
        BY <4>2, <4>3, SyncJobAssumption DEF Msg
      <4>5. ~Owns(w)'
        <5>1. CASE Owns(w)
          <6>1. status' = [status EXCEPT ![held[w].job] = "queued"]
            BY <4>1, <5>1 DEF TransientError
          <6>2. status'[held'[w].job] = "queued" BY <4>2, <4>3, <6>1
          <6>3. QED BY <6>2 DEF Owns
        <5>2. CASE ~Owns(w)
          <6>1. status' = status /\ pc[w] # "idle"
            BY <4>1, <5>2 DEF TransientError, Running
          <6>2. QED BY <4>2, <5>2, <6>1 DEF Owns
        <5>3. QED BY <5>1, <5>2
      <4>6. QED BY <4>4, <4>5
    <3>3. QED BY <3>1, <3>2
  <2>5. QED BY <2>3, <2>4 DEF RetryingGaveUp
<1>2. ASSUME NEW m \in Msg, NEW w \in Workers, Claim(w, m) PROVE RetryingGaveUp'
  <2>1. ASSUME NEW v \in Workers, pc'[v] = "retrying"
        PROVE  ~Owns(v)' /\ held'[v].retries < MaxRetries
    <3>1. v # w BY <1>2, <2>1, ClaimMoves
    <3>2. /\ pc[v] = "retrying" /\ held'[v] = held[v] /\ token'[v] = token[v]
          /\ token'[v] # runToken'[m.job]
      BY <1>2, <2>1, <3>1, ClaimMoves
    <3>3. ~Owns(v) /\ held[v].retries < MaxRetries /\ held[v].job \in Jobs
      BY <3>2 DEF RetryingGaveUp, BusyWorkerHolds, Msg
    <3>4. CASE held[v].job = m.job BY <3>2, <3>3, <3>4 DEF Owns
    <3>5. CASE held[v].job # m.job
      <4>1. /\ runToken'[held[v].job] = runToken[held[v].job]
            /\ status'[held[v].job] = status[held[v].job]
        BY <1>2, <3>3, <3>5, ClaimMoves
      <4>2. QED BY <3>2, <3>3, <4>1 DEF Owns
    <3>6. QED BY <3>4, <3>5
  <2>2. QED BY <2>1 DEF RetryingGaveUp
<1>3. CASE ~(\E w \in Workers : RunStep(w)) /\ ~(\E m \in Msg, w \in Workers : Claim(w, m))
  <2>1. UNCHANGED <<runToken, pc, held, token>>
    BY <1>3, OtherStepLeaves
  <2>2. \A i \in Jobs : status'[i] = "syncing" => status[i] = "syncing"
    BY <1>3, StepIsRowMove DEF RowMove, Create, DispatchManualFails, EndsJob, ReleasesJob,
       RemoveWorkspace, Terminal
  <2>3. ASSUME NEW v \in Workers, pc'[v] = "retrying"
        PROVE  ~Owns(v)' /\ held'[v].retries < MaxRetries
    <3>1. ~Owns(v) /\ held[v].retries < MaxRetries /\ held[v].job \in Jobs
      BY <2>1, <2>3 DEF RetryingGaveUp, BusyWorkerHolds, Msg
    <3>2. QED BY <2>1, <2>2, <2>3, <3>1 DEF Owns
  <2>4. QED BY <2>3 DEF RetryingGaveUp
<1>4. QED BY <1>1, <1>2, <1>3

\* Whatever is duplicated, taken over, retried or acknowledged, an active job has
\* an owner at work, or something that will be delivered to one, unless a fault
\* took a message of it.
THEOREM JobsCarriedAlways == Spec => []JobsCarried
<1>1. TypeInv /\ CarriedInv /\ [Next]_vars => (TypeInv /\ CarriedInv)'
  <2> SUFFICES ASSUME TypeInv, CarriedInv, [Next]_vars PROVE (TypeInv /\ CarriedInv)'
    OBVIOUS
  <2>1. TypeInv' BY TypeStep
  <2>2. RetryingGaveUp' BY <2>1, RetryingStep DEF CarriedInv
  <2>3. JobsCarried' BY <2>1, CarriedRunStep, CarriedClaim, CarriedOther
  <2>4. QED BY <2>1, <2>2, <2>3 DEF CarriedInv
<1>2. CarriedInv => JobsCarried BY DEF CarriedInv
<1>3. QED BY <1>1, <1>2, TypeInit, CarriedInit, PTL DEF Spec

-----------------------------------------------------------------------------
(* Scheduler.                                                               *)

\* It has a job, or had one since the last beat.
Served(g) ==
  \/ active[g] \/ failAge[g] = 0
  \/ IF IsRobot(g) THEN folderAge[g] = 0 ELSE sourceAge[SourceOf[g]] = 0

ServedFirst(f) == {g \in First(f) : Served(g)}

Ages ==
  /\ sourceAge \in [Sources -> Int] /\ folderAge \in [Scopes -> Int] /\ failAge \in [Scopes -> Int]
  /\ active \in [Scopes -> BOOLEAN] /\ ocrBacklog \in [Scopes -> BOOLEAN] /\ waited \in [Scopes -> {0, 1}]

\* As many as the cap of those before a folder that was left out have been served.
WaitInv ==
  /\ Ages
  /\ \A g \in Scopes \ OcrFolders : ~ocrBacklog[g]
  /\ \A f \in Scopes : waited[f] = 1 => Cardinality(ServedFirst(f)) >= MaxPerOrg

LEMMA ScopesFinite == IsFiniteSet(Scopes)
<1>1. FolderOrder \in [1..Len(FolderOrder) -> Scopes] /\ Len(FolderOrder) \in Nat BY SchedulerAssumption
<1>2. \A t \in Scopes : \E i \in 1..Len(FolderOrder) : FolderOrder[i] = t BY <1>1 DEF Scopes
<1>3. FolderOrder \in Surjection(1..Len(FolderOrder), Scopes) BY <1>1, <1>2 DEF Surjection
<1>4. IsFiniteSet(1..Len(FolderOrder)) BY <1>1, FS_Interval
<1>5. QED BY <1>3, <1>4, FS_Surjection

LEMMA PartsFinite ==
  ASSUME NEW S, S \subseteq Scopes
  PROVE  IsFiniteSet(S) /\ Cardinality(S) \in Nat
BY ScopesFinite, FS_Subset, FS_CardinalityType

\* A set of folders that is not empty has a first one.
LEMMA Earliest ==
  ASSUME NEW S, S \subseteq Scopes, S # {}
  PROVE  \E g \in S : \A h \in S : ~Before(h, g)
<1>1. Len(FolderOrder) \in Nat /\ DOMAIN FolderOrder = 1..Len(FolderOrder) BY SchedulerAssumption
<1> DEFINE T == {i \in 1..Len(FolderOrder) : FolderOrder[i] \in S}
<1>2. T \in SUBSET Nat /\ T # {} BY <1>1 DEF Scopes
<1>3. PICK R : R = {pair \in Nat \X Nat : pair[1] < pair[2]} OBVIOUS
<1>4. IsWellFoundedOn(R, Nat)
  <2>1. R = OpToRel(<, Nat) BY <1>3 DEF OpToRel
  <2>2. QED BY <2>1, NatLessThanWellFounded
<1>5. PICK m \in T : \A k \in T : ~(<<k, m>> \in R)
  <2> HIDE DEF T
  <2>1. QED BY <1>2, <1>4, WFMin
<1>6. ASSUME NEW h \in S, Before(h, FolderOrder[m]) PROVE FALSE
  <2>1. PICK i \in DOMAIN FolderOrder, k \in DOMAIN FolderOrder :
          i < k /\ FolderOrder[i] = h /\ FolderOrder[k] = FolderOrder[m] BY <1>6 DEF Before
  <2>2. k = m BY <1>1, <2>1, SchedulerAssumption
  <2>3. i \in T /\ <<i, m>> \in R BY <1>1, <1>3, <2>1, <2>2
  <2>4. QED BY <1>5, <2>3
<1>7. FolderOrder[m] \in S OBVIOUS
<1>8. QED BY <1>6, <1>7

\* When the cap leaves a folder out, as many as the cap before it are queued.
LEMMA CapIsUsed ==
  ASSUME NEW f \in Scopes, Cardinality(Ahead(f)) >= MaxPerOrg
  PROVE  Cardinality(Ahead(f) \cap Queued) >= MaxPerOrg
<1> DEFINE Q == Ahead(f) \cap Queued
<1>1. Ahead(f) \subseteq Scopes /\ Q \subseteq Scopes BY DEF Ahead
<1>2. Cardinality(Ahead(f)) \in Nat /\ Cardinality(Q) \in Nat /\ MaxPerOrg \in Nat
  BY <1>1, PartsFinite, SchedulerAssumption
<1>3. SUFFICES ASSUME Cardinality(Q) < MaxPerOrg PROVE FALSE BY <1>2
<1>4. Ahead(f) \ Q # {} BY <1>2, <1>3
<1>5. PICK g \in Ahead(f) \ Q : \A h \in Ahead(f) \ Q : ~Before(h, g) BY <1>1, <1>4, Earliest
<1>6. \A h \in Scopes : Before(h, g) => Before(h, f)
  <2>1. ASSUME NEW h \in Scopes, Before(h, g) PROVE Before(h, f)
    <3>1. PICK i \in DOMAIN FolderOrder, k \in DOMAIN FolderOrder :
            i < k /\ FolderOrder[i] = h /\ FolderOrder[k] = g BY <2>1 DEF Before
    <3>2. PICK l \in DOMAIN FolderOrder, m \in DOMAIN FolderOrder :
            l < m /\ FolderOrder[l] = g /\ FolderOrder[m] = f BY <1>5 DEF Before, Ahead
    <3>3. k = l BY <3>1, <3>2, SchedulerAssumption
    <3>4. DOMAIN FolderOrder \subseteq Int BY SchedulerAssumption
    <3>5. i < m BY <3>1, <3>2, <3>3, <3>4
    <3>6. QED BY <3>1, <3>2, <3>5 DEF Before
  <2>2. QED BY <2>1
<1>7. Ahead(g) \subseteq Q BY <1>5, <1>6 DEF Ahead
<1>8. Cardinality(Ahead(g)) <= Cardinality(Q) BY <1>1, <1>7, PartsFinite, FS_Subset
<1>9. Cardinality(Ahead(g)) \in Nat BY PartsFinite DEF Ahead
<1>10. g \in Queued BY <1>2, <1>3, <1>5, <1>8, <1>9 DEF Queued, Ahead
<1>11. QED BY <1>5, <1>10

\* A folder that waited is queued when it may be.
LEMMA WaitEnds ==
  ASSUME Room, WaitInv, NEW f \in Scopes, waited[f] = 1
  PROVE  Cardinality(Ahead(f)) < MaxPerOrg
<1> DEFINE O == First(f) \cap OcrFolders
<1> DEFINE S == ServedFirst(f)
<1>1. First(f) \subseteq Scopes /\ O \subseteq Scopes /\ S \subseteq First(f) /\ Ahead(f) \subseteq First(f)
  BY DEF First, ServedFirst, Ahead
<1>2. ASSUME NEW g \in S, g \in Ahead(f) PROVE g \in O
  <2>1. g \in Scopes /\ Served(g) /\ Eligible(g) BY <1>2 DEF ServedFirst, First, Ahead
  <2>2. Stale(g) \/ ocrBacklog[g] BY <2>1 DEF Eligible
  <2>3. failAge[g] # 0 /\ ~active[g] BY <2>1, SchedulerAssumption DEF Eligible
  <2>4. ~Stale(g)
    <3>1. CASE IsRobot(g)
      <4>1. folderAge[g] = 0 /\ FolderLimit(g) = 1 BY <2>1, <2>3, <3>1 DEF Served, FolderLimit
      <4>2. QED BY <3>1, <4>1 DEF Stale
    <3>2. CASE ~IsRobot(g)
      <4>1. sourceAge[SourceOf[g]] = 0 BY <2>1, <2>3, <3>2 DEF Served
      <4>2. QED BY <3>2, <4>1, SchedulerAssumption DEF Stale
    <3>3. QED BY <3>1, <3>2
  <2>5. g \in OcrFolders BY <2>1, <2>2, <2>4 DEF WaitInv
  <2>6. QED BY <1>1, <2>5
<1>3. Ahead(f) \cap S \subseteq O BY <1>2
<1>4. Cardinality(Ahead(f) \cup S) = Cardinality(Ahead(f)) + Cardinality(S) - Cardinality(Ahead(f) \cap S)
  <2>1. IsFiniteSet(Ahead(f)) /\ IsFiniteSet(S) BY <1>1, PartsFinite
  <2>2. QED BY <2>1, FS_Union
<1>5. Cardinality(Ahead(f) \cup S) <= Cardinality(First(f)) BY <1>1, PartsFinite, FS_Subset
<1>6. Cardinality(Ahead(f) \cap S) <= Cardinality(O) BY <1>1, <1>3, PartsFinite, FS_Subset
<1>7. Cardinality(S) >= MaxPerOrg BY DEF WaitInv
<1>8. Cardinality(First(f)) + Cardinality(O) < 2 * MaxPerOrg BY DEF Room
<1>9. /\ Cardinality(Ahead(f)) \in Nat /\ Cardinality(S) \in Nat /\ Cardinality(Ahead(f) \cap S) \in Nat
      /\ Cardinality(Ahead(f) \cup S) \in Nat /\ Cardinality(First(f)) \in Nat /\ Cardinality(O) \in Nat
      /\ MaxPerOrg \in Nat
  BY <1>1, PartsFinite, SchedulerAssumption
<1> HIDE DEF O, S
<1>10. QED BY <1>4, <1>5, <1>6, <1>7, <1>8, <1>9

\* Between two beats nobody's service is forgotten.
LEMMA ServiceLasts ==
  ASSUME WaitInv, Ages', waited' = waited,
         \A g \in Scopes : Served(g) => Served(g)',
         \A g \in Scopes \ OcrFolders : ~ocrBacklog[g]'
  PROVE  WaitInv'
<1>1. ASSUME NEW f \in Scopes, waited[f] = 1 PROVE Cardinality(ServedFirst(f)') >= MaxPerOrg
  <2>1. ServedFirst(f) \subseteq ServedFirst(f)' /\ ServedFirst(f)' \subseteq Scopes BY DEF ServedFirst, First
  <2>2. Cardinality(ServedFirst(f)) <= Cardinality(ServedFirst(f)') BY <2>1, PartsFinite, FS_Subset
  <2>3. Cardinality(ServedFirst(f)) \in Nat /\ Cardinality(ServedFirst(f)') \in Nat /\ MaxPerOrg \in Nat
    BY <2>1, PartsFinite, SchedulerAssumption
  <2>4. Cardinality(ServedFirst(f)) >= MaxPerOrg BY <1>1 DEF WaitInv
  <2>5. QED BY <2>2, <2>3, <2>4
<1>2. QED BY <1>1 DEF WaitInv

LEMMA BeatWaits ==
  ASSUME Room, WaitInv, Beat
  PROVE  WaitInv'
<1>1. \A n \in Int : Older(n, FreshBeats) \in Int /\ Older(n, CooldownBeats) \in Int
  BY SchedulerAssumption DEF Older
<1>2. \A n \in Int, g \in Scopes : Older(n, FolderLimit(g)) \in Int BY SchedulerAssumption DEF Older, FolderLimit
<1>3. ASSUME NEW f \in Scopes
      PROVE  /\ waited'[f] \in {0, 1}
             /\ waited'[f] = 1 => Cardinality(ServedFirst(f)') >= MaxPerOrg
  <2>1. CASE ~Eligible(f) \/ f \in Queued BY <2>1 DEF Beat
  <2>2. CASE Eligible(f) /\ f \notin Queued
    <3>1. Cardinality(Ahead(f)) \in Nat /\ MaxPerOrg \in Nat BY PartsFinite, SchedulerAssumption DEF Ahead
    <3>2. Cardinality(Ahead(f)) >= MaxPerOrg BY <2>2, <3>1 DEF Queued
    <3>3. waited[f] = 0 BY <3>1, <3>2, WaitEnds DEF WaitInv, Ages
    <3>4. waited'[f] = Older(0, MaxWait + 1) BY <2>2, <3>3 DEF Beat
    <3>5. waited'[f] = 1 BY <3>4, SchedulerAssumption DEF Older
    <3>6. Ahead(f) \cap Queued \subseteq ServedFirst(f)'
      <4>1. ASSUME NEW g \in Ahead(f) \cap Queued PROVE g \in First(f) /\ active'[g]
        BY DEF Ahead, First, Beat
      <4>2. QED BY <4>1 DEF ServedFirst, Served, First
    <3>7. ServedFirst(f)' \subseteq Scopes BY DEF ServedFirst, First
    <3>8. Cardinality(Ahead(f) \cap Queued) <= Cardinality(ServedFirst(f)') BY <3>6, <3>7, PartsFinite, FS_Subset
    <3>9. Cardinality(Ahead(f) \cap Queued) \in Nat /\ Cardinality(ServedFirst(f)') \in Nat
      BY <3>7, PartsFinite DEF Ahead
    <3>10. Cardinality(Ahead(f) \cap Queued) >= MaxPerOrg BY <3>2, CapIsUsed
    <3>11. QED BY <3>1, <3>5, <3>8, <3>9, <3>10
  <2>3. QED BY <2>1, <2>2
<1>4. Ages'
  <2>1. \A f \in Scopes : waited'[f] \in {0, 1} BY <1>3
  <2>2. DOMAIN waited' = Scopes /\ waited' = [f \in Scopes |-> waited'[f]] BY DEF Beat
  <2>3. waited' \in [Scopes -> {0, 1}] BY <2>1, <2>2
  <2>4. sourceAge' \in [Sources -> Int] BY <1>1 DEF WaitInv, Ages, Beat
  <2>5. folderAge' \in [Scopes -> Int] BY <1>2 DEF WaitInv, Ages, Beat
  <2>6. failAge' \in [Scopes -> Int] BY <1>1 DEF WaitInv, Ages, Beat
  <2>7. active' \in [Scopes -> BOOLEAN] /\ ocrBacklog' \in [Scopes -> BOOLEAN] BY DEF WaitInv, Ages, Beat
  <2>8. QED BY <2>3, <2>4, <2>5, <2>6, <2>7 DEF Ages
<1>5. \A g \in Scopes \ OcrFolders : ~ocrBacklog'[g] BY DEF WaitInv, Beat
<1>6. QED BY <1>3, <1>4, <1>5 DEF WaitInv

LEMMA WaitStep ==
  ASSUME Room, WaitInv, [SchedulerNext]_schedulerVars
  PROVE  WaitInv'
<1>1. ASSUME NEW f \in Scopes, JobSucceeds(f) PROVE WaitInv'
  <2>1. SourceOf[f] \in Sources BY DEF Sources
  <2>2. Ages' BY <1>1, <2>1 DEF JobSucceeds, WaitInv, Ages
  <2>3. ASSUME NEW g \in Scopes, Served(g) PROVE Served(g)'
    <3>1. SourceOf[g] \in Sources BY DEF Sources
    <3>2. CASE g = f BY <1>1, <2>1, <3>2 DEF JobSucceeds, Served, WaitInv, Ages, IsRobot
    <3>3. CASE g # f
      <4>1. active'[g] = active[g] /\ failAge'[g] = failAge[g] /\ folderAge'[g] = folderAge[g]
        BY <1>1, <3>3 DEF JobSucceeds, WaitInv, Ages
      <4>2. sourceAge'[SourceOf[g]] \in {0, sourceAge[SourceOf[g]]}
        BY <1>1, <3>1 DEF JobSucceeds, WaitInv, Ages
      <4>3. QED BY <2>3, <4>1, <4>2 DEF Served, IsRobot
    <3>4. QED BY <3>2, <3>3
  <2>4. \A g \in Scopes \ OcrFolders : ~ocrBacklog'[g] BY <1>1 DEF JobSucceeds, WaitInv, Ages
  <2>5. waited' = waited BY <1>1 DEF JobSucceeds
  <2>6. QED BY <2>2, <2>3, <2>4, <2>5, ServiceLasts
<1>2. ASSUME NEW f \in Scopes, JobFails(f) PROVE WaitInv'
  <2>1. Ages' /\ waited' = waited BY <1>2 DEF JobFails, WaitInv, Ages
  <2>2. \A g \in Scopes : Served(g) => Served(g)' BY <1>2 DEF JobFails, Served, WaitInv, Ages, IsRobot
  <2>3. \A g \in Scopes \ OcrFolders : ~ocrBacklog'[g] BY <1>2 DEF JobFails, WaitInv
  <2>4. QED BY <2>1, <2>2, <2>3, ServiceLasts
<1>3. ASSUME NEW f \in Scopes, Request(f) PROVE WaitInv'
  <2>1. Ages' /\ waited' = waited BY <1>3 DEF Request, WaitInv, Ages
  <2>2. \A g \in Scopes : Served(g) => Served(g)' BY <1>3 DEF Request, Served, WaitInv, Ages, IsRobot
  <2>3. \A g \in Scopes \ OcrFolders : ~ocrBacklog'[g] BY <1>3 DEF Request, WaitInv
  <2>4. QED BY <2>1, <2>2, <2>3, ServiceLasts
<1>4. CASE UNCHANGED <<sourceAge, folderAge, failAge, active, ocrBacklog, waited>>
  <2>1. Ages' /\ waited' = waited BY <1>4 DEF WaitInv, Ages
  <2>2. \A g \in Scopes : Served(g) => Served(g)' BY <1>4 DEF Served, IsRobot
  <2>3. \A g \in Scopes \ OcrFolders : ~ocrBacklog'[g] BY <1>4 DEF WaitInv
  <2>4. QED BY <2>1, <2>2, <2>3, ServiceLasts
<1>5. ASSUME NEW f \in Scopes, NEW lost \in BOOLEAN, SetAccess(f, lost) PROVE WaitInv' BY <1>4, <1>5 DEF SetAccess
<1>6. ASSUME NEW s \in Sources, NEW on \in BOOLEAN, SetConnected(s, on) PROVE WaitInv' BY <1>4, <1>6 DEF SetConnected
<1>7. CASE UNCHANGED schedulerVars BY <1>4, <1>7 DEF schedulerVars
<1>8. QED BY <1>1, <1>2, <1>3, <1>5, <1>6, <1>7, BeatWaits DEF SchedulerNext

\* The cap leaves no folder out of two beats in a row where there is room for the organisation's
\* folders (schedule_connected_source_reconciliations).
THEOREM WaitBoundedAlways == ASSUME Room PROVE SchedulerSpec => []WaitBounded
<1>1. SchedulerInit => WaitInv
  <2>1. ASSUME SchedulerInit PROVE WaitInv
    <3>1. Ages
      <4>1. \A f \in Scopes : FolderLimit(f) \in Int BY SchedulerAssumption DEF FolderLimit
      <4>2. QED BY <2>1, <4>1, SchedulerAssumption DEF SchedulerInit, Ages
    <3>2. \A f \in Scopes : waited[f] = 0 /\ ~ocrBacklog[f] BY <2>1 DEF SchedulerInit
    <3>3. QED BY <3>1, <3>2 DEF WaitInv
  <2>2. QED BY <2>1
<1>2. WaitInv /\ [SchedulerNext]_schedulerVars => WaitInv' BY WaitStep
<1>3. WaitInv => WaitBounded
  <2>1. ASSUME WaitInv, NEW f \in Scopes PROVE waited[f] <= MaxWait
    <3>1. waited[f] \in {0, 1} BY <2>1 DEF WaitInv, Ages
    <3>2. MaxWait \in Nat /\ MaxWait >= 1 BY SchedulerAssumption DEF Room
    <3>3. QED BY <3>1, <3>2
  <2>2. QED BY <2>1 DEF WaitBounded
<1>4. QED BY <1>1, <1>2, <1>3, PTL DEF SchedulerSpec

-----------------------------------------------------------------------------
(* ManualRuns.                                                              *)

ActiveStatus == {"queued", "syncing"}

ManualTyped ==
  /\ exists \subseteq Workspaces /\ holder \in [Workspaces -> Asks \cup {Free}]
  /\ unsent \subseteq JobIds /\ late \subseteq Made /\ stale \subseteq JobIds
  /\ ask \in [Asks -> AskRecord \cup {AtRest}] /\ job \in [JobIds -> JobRecord \cup {NotMade}]
  /\ run \in [Runs -> RunRecord \cup {NotMade}] /\ writer \in [Runs -> JobIds \cup {Free}]
  /\ txn \in [JobIds -> TxnRecord \cup {AtRest}]
  /\ copy \in [Workspaces \X Items -> Runs \cup {NoDocument, Kept}]

Numbered == Made \subseteq 1..Cardinality(Made) /\ IsFiniteSet(Made)

\* A row of history has an entry for each of its jobs, and it is what the job's row says, or
\* what a worker that had lost the job wrote.
Reported ==
  /\ \A j \in Made : run[job[j].run] # NotMade
  /\ \A r \in Runs : run[r] # NotMade =>
       /\ DOMAIN run[r].progress = {j \in Made : job[j].run = r}
       /\ \A j \in DOMAIN run[r].progress :
            run[r].progress[j] = job[j].status \/ (j \in stale /\ run[r].progress[j] = "syncing")
       /\ run[r].ended <=> \A j \in DOMAIN run[r].progress : run[r].progress[j] \in {"ended", "failed"}

\* A job was told to read every file of its space that is to be read, and each is there.
Reads(s, forced) ==
  forced # Unread =>
    /\ \A d \in Workspaces \X Items : d[1] = s /\ copy[d] \in Runs => d \in forced
    /\ \A d \in forced : d[1] = s /\ copy[d] # NoDocument

\* An open transaction holds the row it has read, and its jobs are as it found them.
Writes(k, t) ==
  /\ k \in Made /\ writer[job[k].run] = k /\ t.seen = run[job[k].run].progress
  /\ k \in t.jobs
  /\ \A j \in t.jobs : j \in Made /\ job[j].run = job[k].run
  /\ t.to # "failed" => t.jobs = {k} /\ job[k].status \in ActiveStatus /\ Reads(job[k].space, t.forced)
  /\ t.to = "ended" => t.forced # Unread
OneWriter == \A k \in JobIds : txn[k] # AtRest => Writes(k, txn[k])

\* A request keeps the spaces it took: nothing works on them, and nobody else takes or removes them.
Takes(a, q) == \A s \in q.fresh : holder[s] = a /\ Working(s) = {} /\ s \in exists
TakenKept == \A a \in Asks : ask[a] # AtRest => Takes(a, ask[a])

\* A full request has a space for each document it is going to mark, wherever a run puts one meanwhile.
Covers(q) ==
  q.full =>
    /\ q.target \notin Workspaces => Overlaps[q.target] \cap exists \subseteq q.todo \cup q.fresh
    /\ q.target \in Workspaces => q.target \in q.todo \cup q.fresh
    /\ \A d \in Cleared(q.target) : d[1] \in q.todo \cup q.fresh
FullCovers == \A a \in Asks : ask[a] # AtRest => Covers(ask[a])

\* What is active or held has a space.
Lives ==
  /\ \A j \in Made : job[j].status \in ActiveStatus => job[j].space \in exists /\ Reads(job[j].space, job[j].forced)
  /\ \A d \in Workspaces \X Items : copy[d] # NoDocument => d[1] \in exists

\* Every mark has a job of its run that has not ended well.
Marked ==
  \A d \in Workspaces \X Items : copy[d] \in Runs =>
    \E j \in Made : job[j].run = copy[d] /\ job[j].space = d[1] /\ job[j].status # "ended"

ManualInv == ManualTyped /\ Numbered /\ Reported /\ OneWriter /\ TakenKept /\ FullCovers /\ Lives /\ Marked

LEMMA MadeTyped == ASSUME ManualInv, NEW j \in Made PROVE job[j] \in JobRecord /\ j \in JobIds
BY DEF ManualInv, ManualTyped, Made

LEMMA AskedTyped == ASSUME ManualInv, NEW a \in Asks, ask[a] # AtRest PROVE ask[a] \in AskRecord
BY DEF ManualInv, ManualTyped

\* Where only requests move, the jobs, the rows and the documents are as they were.
LEMMA AsksAside ==
  ASSUME ManualInv, UNCHANGED <<exists, job, unsent, late, run, stale, writer, txn, copy>>
  PROVE  /\ Numbered' /\ Reported' /\ OneWriter' /\ Lives' /\ Marked'
         /\ Made' = Made /\ \A s \in Workspaces : Working(s)' = Working(s)
         /\ \A t \in Targets : Cleared(t)' = Cleared(t)
<1>1. Made' = Made BY DEF Made
<1>2. Numbered' BY <1>1 DEF Numbered, ManualInv
<1>3. Reported' BY <1>1 DEF Reported, ManualInv
<1>4. OneWriter' BY <1>1 DEF OneWriter, ManualInv, Writes, Reads
<1>5. Lives' BY <1>1 DEF Lives, ManualInv, Reads
<1>6. Marked' BY <1>1 DEF Marked, ManualInv
<1>7. \A s \in Workspaces : Working(s)' = Working(s) BY <1>1 DEF Working
<1>8. \A t \in Targets : Cleared(t)' = Cleared(t) BY DEF Cleared
<1>9. QED BY <1>1, <1>2, <1>3, <1>4, <1>5, <1>6, <1>7, <1>8

\* A request that ends lets go of its spaces and of no other's.
LEMMA LetsGo ==
  ASSUME ManualInv, NEW a \in Asks, ask' = [ask EXCEPT ![a] = AtRest], holder' = Release(a)
  PROVE  /\ ask' \in [Asks -> AskRecord \cup {AtRest}] /\ holder' \in [Workspaces -> Asks \cup {Free}]
         /\ ask'[a] = AtRest
         /\ \A b \in Asks : b # a => ask'[b] = ask[b] /\ \A s \in Workspaces : holder[s] = b => holder'[s] = b
BY DEF ManualInv, ManualTyped, Release

LEMMA AskForKeeps ==
  ASSUME ManualInv, NEW a \in Asks, NEW t \in Targets, NEW full \in BOOLEAN, AskFor(a, t, full)
  PROVE  ManualInv'
<1> DEFINE q == [target |-> t, full |-> full, todo |-> Containing(t), fresh |-> {}]
<1>1. UNCHANGED <<exists, holder, job, unsent, late, run, stale, writer, txn, copy>> /\ ask' = [ask EXCEPT ![a] = q] BY DEF AskFor
<1>2. Containing(t) \subseteq Workspaces BY DEF Containing, ManualInv, ManualTyped
<1>3. q \in AskRecord BY <1>2 DEF AskRecord
<1>4. ManualTyped' BY <1>1, <1>3, AsksAside DEF ManualInv, ManualTyped
<1>5. \A b \in Asks : ask'[b] = IF b = a THEN q ELSE ask[b] BY <1>1 DEF ManualInv, ManualTyped
<1>6. TakenKept'
  <2>1. ASSUME NEW b \in Asks, ask'[b] # AtRest PROVE Takes(b, ask[b])'
    <3>1. CASE b = a BY <1>5, <3>1 DEF Takes
    <3>2. CASE b # a
      <4>1. ask'[b] = ask[b] /\ ask[b] # AtRest /\ ask[b] \in AskRecord BY <1>5, <2>1, <3>2, AskedTyped
      <4>2. \A s \in ask[b].fresh : s \in Workspaces BY <4>1 DEF AskRecord
      <4>3. QED BY <1>1, <4>1, <4>2, AsksAside DEF Takes, TakenKept, ManualInv
    <3>3. QED BY <3>1, <3>2
  <2>2. QED BY <2>1 DEF TakenKept
<1>7. FullCovers'
  <2>1. ASSUME NEW b \in Asks, ask'[b] # AtRest PROVE Covers(ask[b])'
    <3>1. CASE b = a
      <4>1. ASSUME NEW d \in Cleared(t) PROVE d[1] \in Containing(t)
        <5>1. d \in Workspaces \X Items /\ copy[d] # NoDocument BY DEF Cleared, ManualInv, ManualTyped
        <5>2. d[1] \in exists /\ d = <<d[1], d[2]>> BY <5>1 DEF ManualInv, Lives
        <5>3. CASE t \in Workspaces BY <5>2, <5>3 DEF Containing, Cleared
        <5>4. CASE t \notin Workspaces BY <5>1, <5>2, <5>4 DEF Containing, Cleared
        <5>5. QED BY <5>3, <5>4
      <4>2. t \notin Workspaces => Overlaps[t] \cap exists \subseteq Containing(t) BY DEF Containing
      <4>3. t \in Workspaces => t \in Containing(t)
        <5>1. t \in Workspaces => Containing(t) = {t} \cap exists BY DEF Containing
        <5>2. Containing(t) # {} BY DEF AskFor
        <5>3. QED BY <5>1, <5>2
      <4>4. PICK p : p = ask'[b] OBVIOUS
      <4>5. p.target = t /\ p.todo = Containing(t) /\ p.fresh = {} BY <1>5, <3>1, <4>4
      <4>6. Cleared(p.target)' = Cleared(t) BY <1>1, <4>5 DEF Cleared
      <4>7. Covers(p)' BY <1>1, <4>1, <4>2, <4>3, <4>5, <4>6 DEF Covers
      <4>8. QED BY <4>4, <4>7 DEF Covers, Cleared
    <3>2. CASE b # a
      <4>1. ask'[b] = ask[b] /\ ask[b] # AtRest /\ ask[b] \in AskRecord BY <1>5, <2>1, <3>2, AskedTyped
      <4>2. QED BY <1>1, <4>1 DEF Covers, FullCovers, ManualInv, Cleared
    <3>3. QED BY <3>1, <3>2
  <2>2. QED BY <2>1 DEF FullCovers
<1>8. QED BY <1>1, <1>4, <1>6, <1>7, AsksAside DEF ManualInv

\* A request that gives up, or has nothing to do.
LEMMA EndsAsk ==
  ASSUME ManualInv, NEW a \in Asks, ask' = [ask EXCEPT ![a] = AtRest], holder' = Release(a),
         UNCHANGED <<exists, job, unsent, late, run, stale, writer, txn, copy>>
  PROVE  ManualInv'
<1>1. ManualTyped' BY LetsGo, AsksAside DEF ManualInv, ManualTyped
<1>2. ASSUME NEW b \in Asks, ask'[b] # AtRest
      PROVE  b # a /\ ask'[b] = ask[b] /\ ask[b] # AtRest /\ ask[b] \in AskRecord
  BY <1>2, LetsGo, AskedTyped
<1>3. TakenKept'
  <2>1. ASSUME NEW b \in Asks, ask'[b] # AtRest PROVE Takes(b, ask[b])'
    <3>1. \A s \in ask[b].fresh : s \in Workspaces BY <1>2, <2>1 DEF AskRecord
    <3>2. Takes(b, ask[b]) BY <1>2, <2>1 DEF ManualInv, TakenKept
    <3>3. \A s \in Workspaces : holder[s] = b => holder'[s] = b BY <1>2, <2>1, LetsGo
    <3>4. QED BY <1>2, <2>1, <3>1, <3>2, <3>3, AsksAside DEF Takes
  <2>2. QED BY <2>1 DEF TakenKept
<1>4. FullCovers' BY <1>2 DEF FullCovers, Covers, Cleared, ManualInv
<1>5. QED BY <1>1, <1>3, <1>4, AsksAside DEF ManualInv

LEMMA TakeSpaceKeeps ==
  ASSUME ManualInv, NEW a \in Asks, NEW s \in Workspaces, TakeSpace(a, s)
  PROVE  ManualInv'
<1>1. UNCHANGED <<exists, job, unsent, late, run, stale, writer, txn, copy>> /\ ask[a] # AtRest /\ s \in ask[a].todo /\ holder[s] = Free
  BY DEF TakeSpace, SpaceFree
<1>2. ask[a] \in AskRecord BY <1>1, AskedTyped
<1>3. CASE AskRefused(s, ask[a].full) BY <1>1, <1>3, EndsAsk DEF TakeSpace
<1>4. CASE ~AskRefused(s, ask[a].full)
  <2> DEFINE fresh == IF ask[a].full \/ (Working(s) = {} /\ ~Cooling(s)) THEN ask[a].fresh \cup {s} ELSE ask[a].fresh
             q == [ask[a] EXCEPT !.todo = ask[a].todo \ {s}, !.fresh = fresh]
  <2>1. ask' = [ask EXCEPT ![a] = q]
    <3>1. ask' = [ask EXCEPT ![a].todo = @ \ {s},
                             ![a].fresh = IF ask[a].full \/ (Working(s) = {} /\ ~Cooling(s)) THEN @ \cup {s} ELSE @]
      BY <1>4 DEF TakeSpace
    <3>2. ask \in [Asks -> AskRecord \cup {AtRest}] BY DEF ManualInv, ManualTyped
    <3>3. QED BY <1>2, <3>1, <3>2 DEF AskRecord
  <2>2. /\ q \in AskRecord /\ q.target = ask[a].target /\ q.full = ask[a].full /\ q.todo = ask[a].todo \ {s}
        /\ q.fresh \in {ask[a].fresh, ask[a].fresh \cup {s}}
        /\ ask[a].full => q.fresh = ask[a].fresh \cup {s}
        /\ ~ask[a].full /\ Working(s) # {} => q.fresh = ask[a].fresh
    BY <1>2 DEF AskRecord
  <2> HIDE DEF q
  <2>3. holder' = [holder EXCEPT ![s] = a] BY <1>4 DEF TakeSpace
  <2>4. ManualTyped' BY <1>1, <2>1, <2>2, <2>3, AsksAside DEF ManualInv, ManualTyped
  <2>5. \A b \in Asks : ask'[b] = IF b = a THEN q ELSE ask[b] BY <2>1 DEF ManualInv, ManualTyped
  <2>6. \A w \in Workspaces : holder'[w] = IF w = s THEN a ELSE holder[w] BY <2>3 DEF ManualInv, ManualTyped
  <2>7. s \in exists /\ (ask[a].full => Working(s) = {}) BY <1>4 DEF AskRefused
  <2>8. TakenKept'
    <3>1. ASSUME NEW b \in Asks, ask'[b] # AtRest, NEW w \in ask'[b].fresh
          PROVE  holder'[w] = b /\ Working(w)' = {} /\ w \in exists'
      <4>1. CASE b = a /\ w \in ask[a].fresh
        <5>1. w \in Workspaces /\ holder[w] = a /\ Working(w) = {} /\ w \in exists
          BY <1>1, <1>2, <4>1 DEF ManualInv, TakenKept, Takes, AskRecord
        <5>2. QED BY <1>1, <2>6, <4>1, <5>1, AsksAside
      <4>2. CASE b = a /\ w \notin ask[a].fresh
        <5>1. w = s /\ q.fresh # ask[a].fresh BY <2>2, <2>5, <3>1, <4>2
        <5>2. Working(s) = {} BY <2>2, <2>7, <5>1
        <5>3. QED BY <1>1, <2>6, <2>7, <4>2, <5>1, <5>2, AsksAside
      <4>3. CASE b # a
        <5>1. ask'[b] = ask[b] /\ ask[b] # AtRest /\ ask[b] \in AskRecord BY <2>5, <3>1, <4>3, AskedTyped
        <5>2. w \in Workspaces /\ holder[w] = b /\ Working(w) = {} /\ w \in exists
          BY <3>1, <5>1 DEF ManualInv, TakenKept, Takes, AskRecord
        <5>3. w # s BY <1>1, <5>2, ManualAssumption
        <5>4. QED BY <1>1, <2>6, <5>2, <5>3, AsksAside
      <4>4. QED BY <4>1, <4>2, <4>3
    <3>2. QED BY <3>1 DEF TakenKept, Takes
  <2>9. FullCovers'
    <3>1. ASSUME NEW b \in Asks, ask'[b] # AtRest PROVE Covers(ask[b])'
      <4>1. ask[b] # AtRest /\ ask[b] \in AskRecord BY <1>1, <2>5, <3>1, AskedTyped
      <4>2. Covers(ask[b]) BY <4>1 DEF ManualInv, FullCovers
      <4>3. ask'[b].full = ask[b].full /\ ask'[b].target = ask[b].target BY <2>2, <2>5
      <4>4. ask[b].full => ask[b].todo \cup ask[b].fresh \subseteq ask'[b].todo \cup ask'[b].fresh BY <2>2, <2>5
      <4>5. PICK p : p = ask'[b] OBVIOUS
      <4>6. Covers(p)'
        <5>1. Cleared(p.target)' = Cleared(p.target) BY <1>1 DEF Cleared
        <5>2. QED BY <1>1, <4>2, <4>3, <4>4, <4>5, <5>1 DEF Covers
      <4>7. QED BY <4>5, <4>6 DEF Covers, Cleared
    <3>2. QED BY <3>1 DEF FullCovers
  <2>10. QED BY <1>1, <2>4, <2>8, <2>9, AsksAside DEF ManualInv
<1>5. QED BY <1>3, <1>4

\* A worker that locks its row and reads it.
LEMMA BeginKeeps ==
  ASSUME ManualInv, NEW j \in Made, NEW js \in SUBSET Made, NEW to \in Statuses, NEW forced \in Readings,
         Begin(j, js, to, forced), j \in js,
         \A i \in js : job[i].run = job[j].run, unsent' \subseteq JobIds, late' \subseteq Made,
         to # "failed" => js = {j} /\ job[j].status \in ActiveStatus /\ Reads(job[j].space, forced),
         to = "ended" => forced # Unread
  PROVE  ManualInv'
<1> DEFINE r == job[j].run
           t == [jobs |-> js, to |-> to, forced |-> forced, seen |-> run[r].progress]
<1>1. /\ UNCHANGED <<exists, holder, ask, job, run, stale, copy>> /\ txn[j] = AtRest /\ writer[r] = Free
      /\ writer' = [writer EXCEPT ![r] = j] /\ txn' = [txn EXCEPT ![j] = t]
  BY DEF Begin, RowFree
<1>2. j \in JobIds /\ r \in Runs BY MadeTyped DEF JobRecord
<1>3. run[r] # NotMade BY DEF ManualInv, Reported
<1>4. run[r] \in RunRecord BY <1>2, <1>3 DEF ManualInv, ManualTyped
<1>5. t \in TxnRecord BY <1>4 DEF TxnRecord, RunRecord, Made
<1>7. Made' = Made BY <1>1 DEF Made
<1>6. ManualTyped' BY <1>1, <1>2, <1>5, <1>7 DEF ManualInv, ManualTyped
<1>8. Numbered' BY <1>7 DEF Numbered, ManualInv
<1>9. Reported' BY <1>1, <1>7 DEF Reported, ManualInv
<1>10. Lives' BY <1>1, <1>7 DEF Lives, Reads, ManualInv
<1>11. Marked' BY <1>1, <1>7 DEF Marked, ManualInv
<1>12. TakenKept' BY <1>1, <1>7 DEF TakenKept, Takes, Working, ManualInv
<1>13. FullCovers' BY <1>1 DEF FullCovers, Covers, Cleared, ManualInv
<1>14. OneWriter'
  <2>1. ASSUME NEW k \in JobIds, txn'[k] # AtRest PROVE Writes(k, txn[k])'
    <3>1. CASE k = j
      <4>1. PICK u : u = t OBVIOUS
      <4>2. txn'[k] = u BY <1>1, <1>2, <3>1, <4>1 DEF ManualInv, ManualTyped
      <4>3. writer'[r] = j BY <1>1, <1>2 DEF ManualInv, ManualTyped
      <4>4. u.jobs = js /\ u.to = to /\ u.forced = forced /\ u.seen = run[r].progress BY <4>1
      <4>5. Writes(j, u)' BY <1>1, <1>7, <4>3, <4>4 DEF Writes, Reads
      <4>6. QED BY <3>1, <4>2, <4>5 DEF Writes, Reads
    <3>2. CASE k # j
      <4>1. txn'[k] = txn[k] BY <1>1, <3>2 DEF ManualInv, ManualTyped
      <4>2. Writes(k, txn[k]) BY <2>1, <4>1 DEF ManualInv, OneWriter
      <4>3. job[k].run # r BY <1>1, <1>2, <4>2, ManualAssumption DEF Writes, Made
      <4>4. writer'[job[k].run] = writer[job[k].run]
        <5>1. job[k].run \in Runs BY <4>2, MadeTyped DEF Writes, JobRecord
        <5>2. QED BY <1>1, <4>3, <5>1 DEF ManualInv, ManualTyped
      <4>5. QED BY <1>1, <1>7, <4>1, <4>2, <4>4 DEF Writes, Reads
    <3>3. QED BY <3>1, <3>2
  <2>2. QED BY <2>1 DEF OneWriter
<1>15. QED BY <1>6, <1>8, <1>9, <1>10, <1>11, <1>12, <1>13, <1>14 DEF ManualInv

LEMMA BeginsKeep ==
  ASSUME ManualInv, NEW j \in JobIds,
         ClaimJob(j) \/ TakeOver(j) \/ Discover(j) \/ Finish(j) \/ Fail(j) \/ ReleaseForRetry(j) \/ SendFails(j)
  PROVE  ManualInv'
<1>1. j \in Made BY DEF ClaimJob, TakeOver, Discover, Finish, Fail, ReleaseForRetry, SendFails
<1>2. job[j] \in JobRecord BY <1>1, MadeTyped
<1>3. Unread \in Readings /\ {} \in Readings /\ {j} \in SUBSET Made BY <1>1 DEF Readings
<1>old. unsent \subseteq JobIds /\ late \subseteq Made BY DEF ManualInv, ManualTyped
<1>4. Reads(job[j].space, Unread) BY DEF Reads
<1>5. CASE ClaimJob(j)
  <2>1. Begin(j, {j}, "syncing", Unread) /\ job[j].status \in ActiveStatus /\ UNCHANGED <<unsent, late>>
    BY <1>5 DEF ClaimJob, ActiveStatus
  <2>2. QED BY <1>1, <1>3, <1>old, <1>4, <2>1, BeginKeeps DEF Statuses
<1>6. CASE ReleaseForRetry(j)
  <2>1. Begin(j, {j}, "queued", Unread) /\ job[j].status \in ActiveStatus /\ UNCHANGED <<unsent, late>>
    BY <1>6 DEF ReleaseForRetry, ActiveStatus
  <2>2. QED BY <1>1, <1>3, <1>old, <1>4, <2>1, BeginKeeps DEF Statuses
<1>7. CASE Fail(j)
  <2>1. Begin(j, {j}, "failed", {}) /\ job[j].status \in ActiveStatus /\ UNCHANGED <<unsent, late>>
    BY <1>7 DEF Fail, ActiveStatus
  <2>2. QED BY <1>1, <1>3, <1>old, <2>1, BeginKeeps DEF Statuses
<1>8. CASE Finish(j)
  <2>1. Begin(j, {j}, "ended", job[j].forced) /\ job[j].status \in ActiveStatus /\ job[j].forced # Unread
        /\ UNCHANGED <<unsent, late>>
    BY <1>8 DEF Finish, ActiveStatus
  <2>2. Reads(job[j].space, job[j].forced) BY <1>1, <2>1 DEF ManualInv, Lives
  <2>3. job[j].forced \in Readings BY <1>2 DEF JobRecord
  <2>4. QED BY <1>1, <1>3, <1>old, <2>1, <2>2, <2>3, BeginKeeps DEF Statuses
<1>9. CASE Discover(j)
  <2> DEFINE f == Owed(job[j].space)
  <2>1. Begin(j, {j}, "syncing", f) /\ job[j].status \in ActiveStatus /\ UNCHANGED <<unsent, late>>
    BY <1>9 DEF Discover, ActiveStatus
  <2>2. DOMAIN copy = Workspaces \X Items BY DEF ManualInv, ManualTyped
  <2>3. f \in Readings BY <2>2 DEF Owed, Readings
  <2>4. Reads(job[j].space, f) BY <2>2, ManualAssumption DEF Reads, Owed
  <2>5. QED BY <1>1, <1>3, <1>old, <2>1, <2>3, <2>4, BeginKeeps DEF Statuses
<1>10. CASE SendFails(j)
  <2> DEFINE js == {i \in Made \cap unsent : job[i].run = job[j].run}
  <2>1. /\ Begin(j, js, "failed", {}) /\ j \in js
        /\ unsent' \subseteq unsent /\ late' \subseteq late \cup js
    BY <1>10 DEF SendFails
  <2>2. js \in SUBSET Made OBVIOUS
  <2> HIDE DEF js
  <2>3. \A i \in js : job[i].run = job[j].run BY DEF js
  <2>4. unsent' \subseteq JobIds /\ late' \subseteq Made BY <1>old, <2>1, <2>2
  <2>5. QED BY <1>1, <1>3, <2>1, <2>2, <2>3, <2>4, BeginKeeps DEF Statuses
<1>11. CASE TakeOver(j)
  <2>1. /\ Begin(j, {j}, "syncing", Unread) /\ job[j].status \in ActiveStatus
        /\ late' = late \cup {j} /\ UNCHANGED unsent
    BY <1>11 DEF TakeOver, ActiveStatus
  <2>2. late' \subseteq Made BY <1>1, <1>old, <2>1
  <2>3. QED BY <1>1, <1>3, <1>4, <1>old, <2>1, <2>2, BeginKeeps DEF Statuses
<1>12. QED BY <1>5, <1>6, <1>7, <1>8, <1>9, <1>10, <1>11

\* A worker that lost its job writes its entry: nobody has the row.
LEMMA LateReportKeeps ==
  ASSUME ManualInv, NEW i \in JobIds, LateReport(i)
  PROVE  ManualInv'
<1>1. PICK r : r = job[i].run OBVIOUS
<1>2. i \in Made BY DEF LateReport, ManualInv, ManualTyped
<1>3. r \in Runs /\ run[r] # NotMade /\ run[r] \in RunRecord
  <2>1. r \in Runs BY <1>1, <1>2, MadeTyped DEF JobRecord
  <2>2. run[r] # NotMade BY <1>1, <1>2 DEF ManualInv, Reported
  <2>3. QED BY <2>1, <2>2 DEF ManualInv, ManualTyped
<1>4. PICK written : written = [run[r].progress EXCEPT ![i] = "syncing"] OBVIOUS
<1>5. /\ run' = [run EXCEPT ![r].progress[i] = "syncing", ![r].ended = FALSE]
      /\ writer[r] = Free /\ stale' = stale \cup {i}
      /\ UNCHANGED <<exists, holder, ask, job, unsent, late, writer, txn, copy>>
  BY <1>1 DEF LateReport, RowFree
<1>6. /\ run'[r] \in RunRecord /\ run'[r].progress = written /\ run'[r].ended = FALSE
      /\ \A o \in Runs : o # r => run'[o] = run[o]
  <2>1. run'[r] = [run[r] EXCEPT !.progress = written, !.ended = FALSE]
    BY <1>3, <1>4, <1>5 DEF ManualInv, ManualTyped, RunRecord
  <2>2. \A o \in Runs : o # r => run'[o] = run[o] BY <1>3, <1>5 DEF ManualInv, ManualTyped
  <2>3. written \in Entries
    <3>1. PICK js \in SUBSET JobIds : run[r].progress \in [js -> Statuses] BY <1>3 DEF RunRecord, Entries
    <3>2. written \in [js -> Statuses] BY <1>4, <3>1 DEF Statuses
    <3>3. QED BY <3>2 DEF Entries
  <2>4. QED BY <1>3, <2>1, <2>2, <2>3 DEF RunRecord
<1>7. Made' = Made /\ \A s : Working(s)' = Working(s) BY <1>5 DEF Made, Working
<1>8. ManualTyped'
  <2>1. run' \in [Runs -> RunRecord \cup {NotMade}] BY <1>3, <1>5, <1>6 DEF ManualInv, ManualTyped
  <2>2. QED BY <1>5, <1>7, <2>1 DEF ManualInv, ManualTyped
<1>9. Numbered' BY <1>7 DEF Numbered, ManualInv
<1>10. Reported'
  <2>1. \A j \in Made : job[j].run \in Runs /\ run'[job[j].run] # NotMade
    <3>1. ASSUME NEW j \in Made PROVE job[j].run \in Runs /\ run'[job[j].run] # NotMade
      <4>1. job[j].run \in Runs /\ run[job[j].run] # NotMade BY MadeTyped DEF JobRecord, ManualInv, Reported
      <4>2. QED BY <1>6, <4>1, ManualAssumption
    <3>2. QED BY <3>1
  <2>2. ASSUME NEW o \in Runs, run'[o] # NotMade
        PROVE  /\ DOMAIN run'[o].progress = {j \in Made : job[j].run = o}
               /\ \A j \in DOMAIN run'[o].progress :
                    run'[o].progress[j] = job[j].status \/ (j \in stale' /\ run'[o].progress[j] = "syncing")
               /\ run'[o].ended <=> \A j \in DOMAIN run'[o].progress : run'[o].progress[j] \in {"ended", "failed"}
    <3>1. CASE o = r
      <4>1. DOMAIN run[r].progress = {j \in Made : job[j].run = r} BY <1>3 DEF ManualInv, Reported
      <4>2. i \in DOMAIN written /\ DOMAIN written = DOMAIN run[r].progress BY <1>1, <1>2, <1>4, <4>1
      <4>3. written[i] = "syncing" /\ \A j \in DOMAIN written : j # i => written[j] = run[r].progress[j]
        BY <1>4, <4>2
      <4>4. \A j \in DOMAIN written : written[j] = job[j].status \/ (j \in stale' /\ written[j] = "syncing")
        BY <1>3, <1>5, <4>2, <4>3 DEF ManualInv, Reported
      <4>5. QED BY <1>6, <3>1, <4>1, <4>2, <4>3, <4>4
    <3>2. CASE o # r
      <4>1. run'[o] = run[o] BY <1>6, <3>2
      <4>2. /\ DOMAIN run[o].progress = {j \in Made : job[j].run = o}
            /\ \A j \in DOMAIN run[o].progress :
                 run[o].progress[j] = job[j].status \/ (j \in stale /\ run[o].progress[j] = "syncing")
            /\ run[o].ended <=> \A j \in DOMAIN run[o].progress : run[o].progress[j] \in {"ended", "failed"}
        BY <2>2, <4>1 DEF ManualInv, Reported
      <4>3. stale \subseteq stale' BY <1>5
      <4>4. QED BY <4>1, <4>2, <4>3
    <3>3. QED BY <3>1, <3>2
  <2>3. Made' = Made /\ \A j \in Made : job'[j] = job[j] BY <1>5, <1>7
  <2>4. \A j \in Made' : run'[job'[j].run] # NotMade BY <2>1, <2>3
  <2>5. ASSUME NEW o \in Runs, run'[o] # NotMade
        PROVE  /\ DOMAIN run'[o].progress = {j \in Made' : job'[j].run = o}
               /\ \A j \in DOMAIN run'[o].progress :
                    run'[o].progress[j] = job'[j].status \/ (j \in stale' /\ run'[o].progress[j] = "syncing")
               /\ run'[o].ended <=> \A j \in DOMAIN run'[o].progress : run'[o].progress[j] \in {"ended", "failed"}
    <3>1. {j \in Made' : job'[j].run = o} = {j \in Made : job[j].run = o} BY <2>3
    <3>2. DOMAIN run'[o].progress \subseteq Made BY <2>2, <2>5
    <3>3. QED BY <2>2, <2>3, <2>5, <3>1, <3>2
  <2>6. QED BY <2>4, <2>5 DEF Reported
<1>11. OneWriter'
  <2>1. ASSUME NEW k \in JobIds, txn[k] # AtRest PROVE Writes(k, txn[k])'
    <3>1. Writes(k, txn[k]) BY <2>1 DEF ManualInv, OneWriter
    <3>2. job[k].run # r /\ job[k].run \in Runs
      BY <1>5, <3>1, ManualAssumption, MadeTyped DEF Writes, Made, JobRecord
    <3>3. run'[job[k].run] = run[job[k].run] BY <1>6, <3>2
    <3>4. QED BY <1>5, <1>7, <3>1, <3>3 DEF Writes, Reads
  <2>2. QED BY <1>5, <2>1 DEF OneWriter
<1>12. Lives' BY <1>5, <1>7 DEF Lives, Reads, ManualInv
<1>13. Marked' BY <1>5, <1>7 DEF Marked, ManualInv
<1>14. TakenKept' BY <1>5, <1>7 DEF TakenKept, Takes, ManualInv
<1>15. FullCovers' BY <1>5 DEF FullCovers, Covers, Cleared, ManualInv
<1>16. QED BY <1>8, <1>9, <1>10, <1>11, <1>12, <1>13, <1>14, <1>15 DEF ManualInv

LEMMA WriteRunKeeps ==
  ASSUME ManualInv, NEW k \in JobIds, WriteRun(k)
  PROVE  ManualInv'
<1>1. PICK t : t = txn[k] OBVIOUS
<1>2. PICK r : r = job[k].run OBVIOUS
<1>3. k \in Made /\ t # AtRest /\ t \in TxnRecord /\ Writes(k, t)
  BY <1>1 DEF WriteRun, ManualInv, ManualTyped, OneWriter
<1>4. /\ t.jobs \in SUBSET Made /\ k \in t.jobs /\ t.to \in Statuses /\ t.forced \in Readings /\ t.seen = run[r].progress
      /\ writer[r] = k /\ \A j \in t.jobs : job[j].run = r
      /\ t.to # "failed" => t.jobs = {k} /\ job[k].status \in ActiveStatus /\ Reads(job[k].space, t.forced)
      /\ t.to = "ended" => t.forced # Unread
  BY <1>2, <1>3 DEF Writes, TxnRecord
<1>5. r \in Runs /\ run[r] # NotMade /\ run[r] \in RunRecord
  <2>1. r \in Runs BY <1>2, <1>3, MadeTyped DEF JobRecord
  <2>2. run[r] # NotMade BY <1>2, <1>3 DEF ManualInv, Reported
  <2>3. QED BY <2>1, <2>2 DEF ManualInv, ManualTyped
<1>6. PICK written : written = [j \in DOMAIN t.seen |-> IF j \in t.jobs THEN t.to ELSE t.seen[j]] OBVIOUS
<1>7. PICK read : read = IF t.to = "ended"
              THEN {d \in DOMAIN copy : \E j \in t.jobs :
                      d \in t.forced \/ (d[1] = job[j].space /\ d[2] \in Selected[d[1]] /\ copy[d] = NoDocument)}
              ELSE {} OBVIOUS
<1>8. PICK ended : ended = \A j \in DOMAIN written : written[j] \in {"ended", "failed"} OBVIOUS
<1>9. /\ job' = [j \in JobIds |->
                   IF j \notin t.jobs THEN job[j]
                   ELSE [job[j] EXCEPT !.status = t.to,
                                       !.forced = IF t.to = "syncing" THEN t.forced ELSE Unread,
                                       !.tries = IF t.to = "queued" THEN @ + 1 ELSE IF t.to = "syncing" THEN @ ELSE 0]]
      /\ run' = [run EXCEPT ![r].progress = written, ![r].ended = ended]
      /\ stale' = stale \ t.jobs
      /\ copy' = [d \in DOMAIN copy |-> IF d \in read THEN Kept ELSE copy[d]]
      /\ writer' = [writer EXCEPT ![r] = Free]
      /\ txn' = [txn EXCEPT ![k] = AtRest]
      /\ UNCHANGED <<exists, holder, ask, unsent, late>>
  BY <1>1, <1>2, <1>6, <1>7, <1>8 DEF WriteRun
<1>10. ASSUME NEW j \in t.jobs
       PROVE  /\ job'[j] \in JobRecord /\ job'[j].space = job[j].space /\ job'[j].run = r
              /\ job'[j].status = t.to /\ job'[j].forced = IF t.to = "syncing" THEN t.forced ELSE Unread
  <2>1. j \in JobIds /\ job[j] \in JobRecord /\ job[j].run = r BY <1>4, MadeTyped
  <2>2. PICK tries : tries = IF t.to = "queued" THEN job[j].tries + 1 ELSE IF t.to = "syncing" THEN job[j].tries ELSE 0
    OBVIOUS
  <2>3. PICK forced : forced = IF t.to = "syncing" THEN t.forced ELSE Unread OBVIOUS
  <2>4. tries \in Nat /\ forced \in Readings BY <1>4, <2>1, <2>2, <2>3 DEF JobRecord, Readings
  <2>5. job'[j] = [job[j] EXCEPT !.status = t.to, !.forced = forced, !.tries = tries]
    BY <1>9, <2>1, <2>2, <2>3
  <2>6. QED BY <1>4, <2>1, <2>3, <2>4, <2>5 DEF JobRecord
<1>11. \A j \in JobIds : j \notin t.jobs => job'[j] = job[j] BY <1>9
<1>12. Made' = Made
  <2>1. \A j \in t.jobs : job'[j] # NotMade /\ job[j] # NotMade BY <1>4, <1>10, ManualAssumption DEF Made
  <2>2. QED BY <1>11, <2>1 DEF Made
<1>13. DOMAIN written = {j \in Made : job[j].run = r} /\ written \in Entries
  <2>1. DOMAIN written = {j \in Made : job[j].run = r} BY <1>4, <1>5, <1>6 DEF ManualInv, Reported
  <2>2. \A j \in DOMAIN t.seen : t.seen[j] \in Statuses BY <1>3 DEF TxnRecord, Entries
  <2>3. written \in [DOMAIN written -> Statuses] BY <1>4, <1>6, <2>2
  <2>4. DOMAIN written \in SUBSET JobIds BY <2>1 DEF Made
  <2>5. QED BY <2>1, <2>3, <2>4 DEF Entries
<1>14. /\ run'[r] \in RunRecord /\ run'[r].progress = written /\ run'[r].ended = ended
       /\ \A o \in Runs : o # r => run'[o] = run[o]
  <2>1. run'[r] = [run[r] EXCEPT !.progress = written, !.ended = ended] BY <1>5, <1>9 DEF ManualInv, ManualTyped
  <2>2. \A o \in Runs : o # r => run'[o] = run[o] BY <1>5, <1>9 DEF ManualInv, ManualTyped
  <2>3. ended \in BOOLEAN BY <1>8
  <2>4. QED BY <1>5, <1>13, <2>1, <2>2, <2>3 DEF RunRecord
<1>15. \A j \in Made : job[j].run = r => written[j] = job'[j].status \/ (j \in stale' /\ written[j] = "syncing")
  <2>1. ASSUME NEW j \in Made, job[j].run = r
        PROVE  written[j] = job'[j].status \/ (j \in stale' /\ written[j] = "syncing")
    <3>1. j \in DOMAIN t.seen /\ (t.seen[j] = job[j].status \/ (j \in stale /\ t.seen[j] = "syncing")) BY <1>4, <1>5, <2>1 DEF ManualInv, Reported
    <3>2. CASE j \in t.jobs BY <1>6, <1>10, <3>1, <3>2
    <3>3. CASE j \notin t.jobs BY <1>6, <1>9, <1>11, <3>1, <3>3 DEF Made
    <3>4. QED BY <3>2, <3>3
  <2>2. QED BY <2>1
<1>16. \A j \in Made : job'[j].run = job[j].run /\ job'[j].space = job[j].space BY <1>4, <1>10, <1>11 DEF Made
<1>17. /\ DOMAIN copy = Workspaces \X Items
       /\ \A d \in Workspaces \X Items : copy'[d] = IF d \in read THEN Kept ELSE copy[d]
  BY <1>9 DEF ManualInv, ManualTyped
<1>18. ASSUME NEW s, NEW f \in Readings, Reads(s, f) PROVE Reads(s, f)'
  BY <1>17, <1>18, ManualAssumption DEF Reads, Readings
<1>19. ASSUME NEW d \in Workspaces \X Items, copy[d] = NoDocument, copy'[d] # NoDocument
       PROVE  d[1] \in exists /\ d[2] \in Selected[d[1]] /\ d[1] = job[k].space
  <2>1. d \in read BY <1>17, <1>19
  <2>2. t.to = "ended" /\ t.jobs = {k} /\ t.forced # Unread /\ Reads(job[k].space, t.forced) BY <1>4, <1>7, <2>1
  <2>3. d \notin t.forced BY <1>19, <2>2 DEF Reads
  <2>4. d[1] = job[k].space /\ d[2] \in Selected[d[1]] BY <1>7, <2>1, <2>2, <2>3
  <2>5. job[k].status \in ActiveStatus BY <1>4, <2>2
  <2>6. QED BY <1>3, <2>4, <2>5 DEF ManualInv, Lives
<1>20. ManualTyped'
  <2>1. job' \in [JobIds -> JobRecord \cup {NotMade}] BY <1>9, <1>10, <1>11 DEF ManualInv, ManualTyped
  <2>2. run' \in [Runs -> RunRecord \cup {NotMade}] BY <1>5, <1>9, <1>14 DEF ManualInv, ManualTyped
  <2>3. copy' \in [Workspaces \X Items -> Runs \cup {NoDocument, Kept}] BY <1>9 DEF ManualInv, ManualTyped
  <2>4. writer' \in [Runs -> JobIds \cup {Free}] /\ txn' \in [JobIds -> TxnRecord \cup {AtRest}]
    BY <1>9 DEF ManualInv, ManualTyped
  <2>5. QED BY <1>9, <1>12, <2>1, <2>2, <2>3, <2>4 DEF ManualInv, ManualTyped
<1>21. Numbered' BY <1>12 DEF Numbered, ManualInv
<1>22. Reported'
  <2>1. \A j \in Made' : run'[job'[j].run] # NotMade
    <3>1. ASSUME NEW j \in Made PROVE run'[job[j].run] # NotMade
      <4>1. job[j].run \in Runs /\ run[job[j].run] # NotMade BY MadeTyped DEF JobRecord, ManualInv, Reported
      <4>2. QED BY <1>14, <4>1, ManualAssumption
    <3>2. QED BY <1>12, <1>16, <3>1
  <2>2. ASSUME NEW o \in Runs, run'[o] # NotMade
        PROVE  /\ DOMAIN run'[o].progress = {j \in Made' : job'[j].run = o}
               /\ \A j \in DOMAIN run'[o].progress :
                    run'[o].progress[j] = job'[j].status \/ (j \in stale' /\ run'[o].progress[j] = "syncing")
               /\ run'[o].ended <=> \A j \in DOMAIN run'[o].progress : run'[o].progress[j] \in {"ended", "failed"}
    <3>1. CASE o = r BY <1>8, <1>12, <1>13, <1>14, <1>15, <1>16, <3>1
    <3>2. CASE o # r
      <4>1. run'[o] = run[o] BY <1>14, <3>2
      <4>2. \A j \in Made : job[j].run = o => job'[j] = job[j] BY <1>4, <1>11, <3>2 DEF Made
      <4>3. DOMAIN run[o].progress = {j \in Made : job[j].run = o} BY <2>2, <4>1 DEF ManualInv, Reported
      <4>4. {j \in Made' : job'[j].run = o} = {j \in Made : job[j].run = o} BY <1>12, <1>16
      <4>5. \A j \in DOMAIN run[o].progress : job'[j] = job[j] BY <4>2, <4>3
      <4>6. \A j \in DOMAIN run[o].progress : j \notin t.jobs BY <1>4, <3>2, <4>3
      <4>7. /\ \A i \in DOMAIN run[o].progress :
                 run[o].progress[i] = job[i].status \/ (i \in stale /\ run[o].progress[i] = "syncing")
            /\ run[o].ended <=> \A i \in DOMAIN run[o].progress : run[o].progress[i] \in {"ended", "failed"}
        BY <2>2, <4>1 DEF ManualInv, Reported
      <4>8. \A i \in DOMAIN run[o].progress : i \in stale => i \in stale' BY <1>9, <4>6
      <4>9. QED BY <4>1, <4>3, <4>4, <4>5, <4>7, <4>8
    <3>3. QED BY <3>1, <3>2
  <2>3. QED BY <2>1, <2>2 DEF Reported
<1>23. OneWriter'
  <2>1. ASSUME NEW i \in JobIds, txn'[i] # AtRest PROVE Writes(i, txn[i])'
    <3>1. i # k /\ txn'[i] = txn[i] BY <1>9, <2>1 DEF ManualInv, ManualTyped
    <3>2. PICK u : u = txn[i] OBVIOUS
    <3>3. Writes(i, u) /\ u \in TxnRecord BY <2>1, <3>1, <3>2 DEF ManualInv, ManualTyped, OneWriter
    <3>4. job[i].run \in Runs /\ job[i].run # r BY <1>4, <3>1, <3>3, MadeTyped DEF Writes, JobRecord
    <3>5. writer'[job[i].run] = writer[job[i].run] /\ run'[job[i].run] = run[job[i].run]
      BY <1>9, <1>14, <3>4 DEF ManualInv, ManualTyped
    <3>6. \A j \in u.jobs : job'[j] = job[j] BY <1>4, <1>11, <3>3, <3>4 DEF Writes, Made
    <3>7. job'[i] = job[i] BY <3>3, <3>6 DEF Writes
    <3>8. Reads(job[i].space, u.forced) => Reads(job[i].space, u.forced)' BY <1>18, <3>3, <3>7 DEF TxnRecord, Reads
    <3>9. Writes(i, u)' BY <1>12, <3>3, <3>5, <3>6, <3>7, <3>8 DEF Writes, Reads
    <3>10. QED BY <3>1, <3>2, <3>9
  <2>2. QED BY <2>1 DEF OneWriter
<1>24. TakenKept'
  <2>1. ASSUME NEW s \in Workspaces, Working(s) = {} PROVE Working(s)' = {}
    <3>1. ASSUME NEW j \in Made, job'[j].space = s, job'[j].status \in ActiveStatus PROVE FALSE
      <4>1. job[j].status \in ActiveStatus
        <5>1. CASE j \notin t.jobs BY <1>11, <3>1, <5>1 DEF Made
        <5>2. CASE j \in t.jobs BY <1>4, <1>10, <3>1, <5>2 DEF ActiveStatus
        <5>3. QED BY <5>1, <5>2
      <4>2. QED BY <1>16, <2>1, <3>1, <4>1 DEF Working, ActiveStatus
    <3>2. QED BY <1>12, <3>1 DEF Working, ActiveStatus
  <2>2. ASSUME NEW a \in Asks, ask[a] # AtRest PROVE ask[a].fresh \subseteq Workspaces BY <2>2, AskedTyped DEF AskRecord
  <2>3. QED BY <1>9, <2>1, <2>2 DEF TakenKept, Takes, ManualInv
<1>25. FullCovers'
  <2>1. ASSUME NEW a \in Asks, ask[a] # AtRest, ask[a].full, NEW d \in Cleared(ask[a].target)'
        PROVE  d[1] \in ask[a].todo \cup ask[a].fresh
    <3>1. Covers(ask[a]) /\ ask[a] \in AskRecord /\ ask[a].target \in Targets
      BY <2>1, AskedTyped DEF ManualInv, FullCovers, AskRecord
    <3>2. d \in Workspaces \X Items /\ copy'[d] # NoDocument BY <1>9, <1>17, <2>1 DEF Cleared
    <3>3. IF ask[a].target \in Workspaces THEN d[1] = ask[a].target ELSE d[2] \in Below[ask[a].target] BY <1>9, <2>1 DEF Cleared
    <3>4. CASE copy[d] # NoDocument
      <4>1. d \in Cleared(ask[a].target) BY <1>17, <3>2, <3>3, <3>4 DEF Cleared
      <4>2. QED BY <2>1, <3>1, <4>1 DEF Covers
    <3>5. CASE copy[d] = NoDocument
      <4>1. d[1] \in exists /\ d[2] \in Selected[d[1]] /\ d[1] \in Workspaces BY <1>19, <3>2, <3>5
      <4>2. CASE ask[a].target \in Workspaces BY <2>1, <3>1, <3>3, <4>2 DEF Covers
      <4>3. CASE ask[a].target \notin Workspaces
        <5>1. d[2] \in Selected[d[1]] \cap Below[ask[a].target] BY <3>3, <4>1, <4>3
        <5>2. d[1] \in Overlaps[ask[a].target] BY <3>1, <4>1, <4>3, <5>1, ManualAssumption
        <5>3. QED BY <2>1, <3>1, <4>1, <4>3, <5>2 DEF Covers
      <4>4. QED BY <4>2, <4>3
    <3>6. QED BY <3>4, <3>5
  <2>2. ASSUME NEW a \in Asks, ask[a] # AtRest PROVE Covers(ask[a])'
    <3>1. Covers(ask[a]) BY <2>2 DEF ManualInv, FullCovers
    <3>2. ask'[a] = ask[a] /\ exists' = exists BY <1>9
    <3>3. QED BY <2>1, <2>2, <3>1, <3>2 DEF Covers
  <2>3. QED BY <1>9, <2>2 DEF FullCovers
<1>26. Lives'
  <2>1. ASSUME NEW j \in Made
        PROVE  job'[j].status \in ActiveStatus => job'[j].space \in exists /\ Reads(job[j].space, job[j].forced)'
    <3>1. CASE j \in t.jobs
      <4>1. t.to # "failed" => job[j].space \in exists BY <1>4, <3>1 DEF ManualInv, Lives
      <4>2. CASE t.to = "syncing"
        <5>1. j = k /\ Reads(job[k].space, t.forced) BY <1>4, <3>1, <4>2
        <5>2. Reads(job[k].space, t.forced)' BY <1>4, <1>10, <1>18, <3>1, <5>1 DEF Reads
        <5>3. job'[j].space = job[k].space /\ job'[j].forced = t.forced BY <1>10, <3>1, <4>2, <5>1
        <5>4. Reads(job[j].space, job[j].forced)' BY <1>10, <3>1, <5>1, <5>2, <5>3 DEF Reads
        <5>5. QED BY <1>10, <3>1, <4>1, <4>2, <5>4 DEF ActiveStatus
      <4>3. CASE t.to # "syncing"
        <5>1. job'[j].forced = Unread BY <1>10, <3>1, <4>3
        <5>2. Reads(job[j].space, job[j].forced)' BY <5>1 DEF Reads
        <5>3. QED BY <1>10, <3>1, <4>1, <5>2 DEF ActiveStatus
      <4>4. QED BY <4>2, <4>3
    <3>2. CASE j \notin t.jobs
      <4>1. job'[j] = job[j] /\ job[j] \in JobRecord BY <1>11, <3>2, MadeTyped
      <4>2. job[j].forced \in Readings BY <4>1 DEF JobRecord
      <4>3. Reads(job[j].space, job[j].forced) => Reads(job[j].space, job[j].forced)'
        BY <1>17, <4>1, <4>2, ManualAssumption DEF Reads, Readings
      <4>4. QED BY <4>1, <4>3 DEF ManualInv, Lives, Reads
    <3>3. QED BY <3>1, <3>2
  <2>2. \A d \in Workspaces \X Items : copy'[d] # NoDocument => d[1] \in exists BY <1>19 DEF ManualInv, Lives
  <2>3. QED BY <1>9, <1>12, <2>1, <2>2 DEF Lives
<1>27. Marked'
  <2>1. ASSUME NEW d \in Workspaces \X Items, copy'[d] \in Runs
        PROVE  \E j \in Made : job'[j].run = copy'[d] /\ job'[j].space = d[1] /\ job'[j].status # "ended"
    <3>1. d \notin read /\ copy'[d] = copy[d] BY <1>17, <2>1, ManualAssumption
    <3>2. PICK j \in Made : job[j].run = copy[d] /\ job[j].space = d[1] /\ job[j].status # "ended"
      BY <2>1, <3>1 DEF ManualInv, Marked
    <3>3. job'[j].status # "ended"
      <4>1. CASE j \notin t.jobs BY <1>11, <3>2, <4>1 DEF Made
      <4>2. CASE j \in t.jobs /\ t.to = "ended"
        <5>1. j = k /\ Reads(job[k].space, t.forced) /\ t.forced # Unread BY <1>4, <4>2
        <5>2. d \in t.forced BY <2>1, <3>1, <3>2, <5>1 DEF Reads
        <5>3. d \in read BY <1>4, <1>7, <1>17, <4>2, <5>2
        <5>4. QED BY <3>1, <5>3
      <4>3. CASE j \in t.jobs /\ t.to # "ended" BY <1>10, <4>3
      <4>4. QED BY <4>1, <4>2, <4>3
    <3>4. QED BY <1>16, <3>1, <3>2, <3>3
  <2>2. QED BY <1>12, <2>1 DEF Marked
<1>28. QED BY <1>20, <1>21, <1>22, <1>23, <1>24, <1>25, <1>26, <1>27 DEF ManualInv

LEMMA MinutePassesKeeps ==
  ASSUME ManualInv, NEW i \in JobIds, MinutePasses(i)
  PROVE  ManualInv'
<1>1. i \in Made /\ job[i] \in JobRecord BY MadeTyped DEF MinutePasses
<1>2. /\ job' = [job EXCEPT ![i].recent = FALSE]
      /\ UNCHANGED <<exists, holder, ask, unsent, late, run, stale, writer, txn, copy>>
  BY DEF MinutePasses
<1>3. job'[i] \in JobRecord /\ \A j \in JobIds : j # i => job'[j] = job[j]
  BY <1>1, <1>2 DEF ManualInv, ManualTyped, JobRecord
<1>4. \A j \in Made : /\ job'[j].run = job[j].run /\ job'[j].space = job[j].space /\ job'[j].status = job[j].status
                      /\ job'[j].forced = job[j].forced
  BY <1>1, <1>2 DEF ManualInv, ManualTyped, JobRecord, Made
<1>5. Made' = Made BY <1>1, <1>3, ManualAssumption DEF Made
<1>6. ManualTyped' BY <1>2, <1>3, <1>5 DEF ManualInv, ManualTyped
<1>7. Numbered' BY <1>5 DEF Numbered, ManualInv
<1>8. Reported'
  <2>1. \A j \in Made' : run'[job'[j].run] # NotMade BY <1>2, <1>4, <1>5 DEF ManualInv, Reported
  <2>2. \A r \in Runs : {j \in Made' : job'[j].run = r} = {j \in Made : job[j].run = r} BY <1>4, <1>5
  <2>3. QED BY <1>2, <1>4, <2>1, <2>2 DEF ManualInv, Reported
<1>9. OneWriter'
  <2>1. ASSUME NEW k \in JobIds, NEW t, Writes(k, t) PROVE Writes(k, t)'
    <3>1. \A j \in t.jobs : j \in Made BY <2>1 DEF Writes
    <3>2. QED BY <1>2, <1>4, <1>5, <2>1, <3>1 DEF Writes, Reads
  <2>2. QED BY <1>2, <2>1 DEF OneWriter, ManualInv
<1>10. \A s : Working(s)' = Working(s) BY <1>4, <1>5 DEF Working
<1>11. TakenKept' BY <1>2, <1>10 DEF ManualInv, TakenKept, Takes
<1>12. FullCovers' BY <1>2 DEF ManualInv, FullCovers, Covers, Cleared
<1>13. Lives' BY <1>2, <1>4, <1>5 DEF ManualInv, Lives, Reads
<1>14. Marked' BY <1>2, <1>4, <1>5 DEF ManualInv, Marked
<1>15. QED BY <1>6, <1>7, <1>8, <1>9, <1>11, <1>12, <1>13, <1>14 DEF ManualInv

LEMMA RemoveSpaceKeeps ==
  ASSUME ManualInv, NEW s \in Workspaces, RemoveSpace(s)
  PROVE  ManualInv'
<1>1. /\ Working(s) = {} /\ holder[s] = Free /\ exists' = exists \ {s}
      /\ copy' = [d \in DOMAIN copy |-> IF d[1] = s THEN NoDocument ELSE copy[d]]
      /\ UNCHANGED <<holder, ask, job, unsent, late, run, stale, writer, txn>>
  BY DEF RemoveSpace, SpaceFree
<1>2. Made' = Made /\ \A w : Working(w)' = Working(w) BY <1>1 DEF Made, Working
<1>3. \A d \in Workspaces \X Items : copy'[d] = IF d[1] = s THEN NoDocument ELSE copy[d] BY <1>1 DEF ManualInv, ManualTyped
<1>4. DOMAIN copy = Workspaces \X Items /\ DOMAIN copy' = Workspaces \X Items BY <1>1 DEF ManualInv, ManualTyped
<1>5. ManualTyped'
  <2>1. copy' \in [Workspaces \X Items -> Runs \cup {NoDocument, Kept}] BY <1>1 DEF ManualInv, ManualTyped
  <2>2. QED BY <1>1, <1>2, <2>1 DEF ManualInv, ManualTyped
<1>6. Numbered' BY <1>2 DEF Numbered, ManualInv
<1>7. Reported' BY <1>1, <1>2 DEF Reported, ManualInv
<1>8. ASSUME NEW j \in Made, job[j].status \in ActiveStatus PROVE job[j].space # s
  BY <1>1, <1>8 DEF Working, ActiveStatus
<1>9. ASSUME NEW w, w # s, NEW f \in Readings, Reads(w, f) PROVE Reads(w, f)'
  BY <1>3, <1>9, ManualAssumption DEF Reads, Readings
<1>10. OneWriter'
  <2>1. ASSUME NEW k \in JobIds, txn[k] # AtRest PROVE Writes(k, txn[k])'
    <3>1. PICK t : t = txn[k] OBVIOUS
    <3>2. Writes(k, t) /\ t.forced \in Readings BY <2>1, <3>1 DEF ManualInv, ManualTyped, OneWriter, TxnRecord
    <3>3. t.to # "failed" => job[k].space # s BY <1>8, <3>2 DEF Writes
    <3>4. ASSUME t.to # "failed", Reads(job[k].space, t.forced) PROVE Reads(job[k].space, t.forced)'
      <4>1. PICK w : w = job[k].space OBVIOUS
      <4>2. job'[k].space = w BY <1>1, <4>1
      <4>3. Reads(w, t.forced) BY <3>4, <4>1
      <4>4. w # s BY <3>3, <3>4, <4>1
      <4>5. PICK f : f = t.forced OBVIOUS
      <4>6. Reads(w, f)' BY <1>9, <3>2, <4>3, <4>4, <4>5
      <4>7. QED BY <4>2, <4>5, <4>6 DEF Reads
    <3>5. t.to # "failed" /\ Reads(job[k].space, t.forced) => Reads(job[k].space, t.forced)' BY <3>4
    <3>6. /\ k \in Made' /\ writer'[job'[k].run] = k /\ t.seen = run'[job'[k].run].progress
          /\ k \in t.jobs /\ \A j \in t.jobs : j \in Made' /\ job'[j].run = job'[k].run
          /\ t.to # "failed" => t.jobs = {k} /\ job'[k].status \in ActiveStatus
          /\ t.to = "ended" => t.forced # Unread
      BY <1>1, <1>2, <3>2 DEF Writes
    <3>7. t.to # "failed" => Reads(job[k].space, t.forced) BY <3>2 DEF Writes
    <3>9. Writes(k, t)'
      <4>1. CASE t.to = "failed" BY <3>6, <4>1 DEF Writes
      <4>2. CASE t.to # "failed"
        <5>1. Reads(job[k].space, t.forced)' BY <3>5, <3>7, <4>2
        <5>2. QED BY <3>6, <4>2, <5>1 DEF Writes
      <4>3. QED BY <4>1, <4>2
    <3>10. QED BY <1>1, <3>1, <3>9
  <2>2. QED BY <1>1, <2>1 DEF OneWriter
<1>11. TakenKept'
  <2>1. ASSUME NEW a \in Asks, ask[a] # AtRest, NEW w \in ask[a].fresh PROVE holder[w] = a /\ Working(w) = {} /\ w \in exists /\ w # s
    BY <1>1, <2>1, ManualAssumption DEF ManualInv, TakenKept, Takes
  <2>2. QED BY <1>1, <1>2, <2>1 DEF TakenKept, Takes
<1>12. FullCovers'
  <2>1. \A t : Cleared(t)' \subseteq Cleared(t) BY <1>3, <1>4 DEF Cleared
  <2>2. QED BY <1>1, <2>1 DEF ManualInv, FullCovers, Covers
<1>13. Lives'
  <2>1. ASSUME NEW j \in Made, job[j].status \in ActiveStatus
        PROVE  job[j].space \in exists' /\ Reads(job[j].space, job[j].forced)'
    <3>1. job[j].space # s /\ job[j].space \in exists /\ Reads(job[j].space, job[j].forced)
      BY <1>8, <2>1 DEF ManualInv, Lives
    <3>2. job[j].forced \in Readings BY MadeTyped DEF JobRecord
    <3>3. PICK w, f : w = job[j].space /\ f = job[j].forced OBVIOUS
    <3>4. Reads(w, f)' BY <1>9, <3>1, <3>2, <3>3
    <3>5. QED BY <1>1, <3>1, <3>3, <3>4 DEF Reads
  <2>2. \A d \in Workspaces \X Items : copy'[d] # NoDocument => d[1] \in exists' BY <1>1, <1>3 DEF ManualInv, Lives
  <2>3. QED BY <1>1, <1>2, <2>1, <2>2 DEF Lives, Reads
<1>14. Marked' BY <1>1, <1>2, <1>3, ManualAssumption DEF ManualInv, Marked
<1>15. QED BY <1>5, <1>6, <1>7, <1>10, <1>11, <1>12, <1>13, <1>14 DEF ManualInv

\* A run that is added, with a job for each of its spaces and the documents it marks.
Adds(js, home, r, full, marks) ==
  /\ js # {} /\ js \cap Made = {} /\ run[r] = NotMade
  /\ DOMAIN job' = JobIds /\ job' = [j \in JobIds |-> job'[j]]
  /\ \A j \in JobIds \ js : job'[j] = job[j]
  /\ \A j \in js : \E manual \in BOOLEAN : job'[j] = NewJob(home[j], r, manual)
  /\ run' = [run EXCEPT ![r] = NewRun(js, full)]
  /\ copy' = [d \in DOMAIN copy |-> IF d \in marks THEN r ELSE copy[d]]
  /\ \A d \in marks : copy[d] # NoDocument /\ \E j \in js : home[j] = d[1]
  /\ \A j \in js : home[j] \in exists /\ Working(home[j]) = {}
  /\ UNCHANGED <<exists, late, stale, writer, txn>>

LEMMA RunAdded ==
  ASSUME ManualInv, NEW js \in SUBSET JobIds, NEW home \in [js -> Workspaces], NEW r \in Runs, NEW full \in BOOLEAN,
         NEW marks \in SUBSET (Workspaces \X Items), Adds(js, home, r, full, marks), Numbered'
  PROVE  /\ job' \in [JobIds -> JobRecord \cup {NotMade}] /\ run' \in [Runs -> RunRecord \cup {NotMade}]
         /\ copy' \in [Workspaces \X Items -> Runs \cup {NoDocument, Kept}]
         /\ Made \subseteq Made' /\ Numbered' /\ Reported' /\ OneWriter' /\ Lives' /\ Marked'
         /\ \A s : (\A j \in js : home[j] # s) => Working(s)' = Working(s)
         /\ \A t : Cleared(t)' = Cleared(t)
<1> USE DEF Adds
<1>1. ASSUME NEW j \in js
      PROVE  /\ job'[j] \in JobRecord /\ job'[j].space = home[j] /\ job'[j].run = r /\ job'[j].status = "queued"
             /\ job'[j].forced = Unread
  <2>1. PICK manual \in BOOLEAN : job'[j] = NewJob(home[j], r, manual) OBVIOUS
  <2>2. QED BY <2>1 DEF NewJob, JobRecord, Statuses, Readings
<1>2. \A j \in Made : j \in JobIds /\ job'[j] = job[j] /\ j \notin js BY DEF Made
<1>3. Made' = Made \cup js
  <2>1. \A j \in js : job'[j] # NotMade BY <1>1, ManualAssumption
  <2>2. QED BY <1>2, <2>1 DEF Made
<1>4. job' \in [JobIds -> JobRecord \cup {NotMade}]
  <2>1. \A j \in JobIds : job'[j] \in JobRecord \cup {NotMade} BY <1>1 DEF ManualInv, ManualTyped
  <2>2. QED BY <2>1
<1>5. NewRun(js, full) \in RunRecord /\ NewRun(js, full).progress = [j \in js |-> "queued"] /\ NewRun(js, full).ended = FALSE
  <2>1. [j \in js |-> "queued"] \in [js -> Statuses] BY DEF Statuses
  <2>2. [j \in js |-> "queued"] \in Entries BY <2>1 DEF Entries
  <2>3. QED BY <2>2 DEF NewRun, RunRecord
<1>6. run'[r] = NewRun(js, full) /\ \A o \in Runs : o # r => run'[o] = run[o] BY DEF ManualInv, ManualTyped
<1>7. run' \in [Runs -> RunRecord \cup {NotMade}] BY <1>5 DEF ManualInv, ManualTyped
<1>8. /\ DOMAIN copy = Workspaces \X Items
      /\ \A d \in Workspaces \X Items : copy'[d] = IF d \in marks THEN r ELSE copy[d]
  BY DEF ManualInv, ManualTyped
<1>9. copy' \in [Workspaces \X Items -> Runs \cup {NoDocument, Kept}] BY DEF ManualInv, ManualTyped
<1>10. \A j \in Made : job[j].run \in Runs /\ job[j].run # r
  <2>1. ASSUME NEW j \in Made PROVE job[j].run \in Runs /\ job[j].run # r
    BY MadeTyped DEF JobRecord, ManualInv, Reported
  <2>2. QED BY <2>1
<1>11. Reported'
  <2>1. \A j \in Made' : run'[job'[j].run] # NotMade
    <3>1. ASSUME NEW j \in Made PROVE run'[job'[j].run] # NotMade BY <1>2, <1>6, <1>10 DEF ManualInv, Reported
    <3>2. ASSUME NEW j \in js PROVE run'[job'[j].run] # NotMade BY <1>1, <1>5, <1>6, ManualAssumption
    <3>3. QED BY <1>3, <3>1, <3>2
  <2>2. ASSUME NEW o \in Runs, run'[o] # NotMade
        PROVE  /\ DOMAIN run'[o].progress = {j \in Made' : job'[j].run = o}
               /\ \A j \in DOMAIN run'[o].progress :
                    run'[o].progress[j] = job'[j].status \/ (j \in stale' /\ run'[o].progress[j] = "syncing")
               /\ run'[o].ended <=> \A j \in DOMAIN run'[o].progress : run'[o].progress[j] \in {"ended", "failed"}
    <3>1. CASE o = r
      <4>1. {j \in Made' : job'[j].run = r} = js BY <1>1, <1>2, <1>3, <1>10
      <4>2. run'[o].progress = [j \in js |-> "queued"] /\ run'[o].ended = FALSE BY <1>5, <1>6, <3>1
      <4>3. QED BY <1>1, <3>1, <4>1, <4>2
    <3>2. CASE o # r
      <4>1. run'[o] = run[o] BY <1>6, <3>2
      <4>2. {j \in Made' : job'[j].run = o} = {j \in Made : job[j].run = o} BY <1>1, <1>2, <1>3, <3>2
      <4>3. DOMAIN run[o].progress = {j \in Made : job[j].run = o} BY <2>2, <4>1 DEF ManualInv, Reported
      <4>4. \A j \in DOMAIN run[o].progress : job'[j] = job[j] BY <1>2, <4>3
      <4>5. QED BY <2>2, <4>1, <4>2, <4>3, <4>4 DEF ManualInv, Reported
    <3>3. QED BY <3>1, <3>2
  <2>3. QED BY <2>1, <2>2 DEF Reported
<1>12. \A j \in Made, i \in js : job[j].status \in ActiveStatus => job[j].space # home[i]
  BY DEF Working, ActiveStatus
<1>13. ASSUME NEW s, \A i \in js : home[i] # s, NEW f \in Readings, Reads(s, f) PROVE Reads(s, f)'
  <2>1. \A d \in marks : d[1] # s BY <1>13
  <2>2. CASE f # Unread
    <3>1. f \subseteq Workspaces \X Items BY <2>2 DEF Readings
    <3>2. \A d \in Workspaces \X Items : d[1] = s => copy'[d] = copy[d] BY <1>8, <2>1
    <3>3. \A d \in f : d \in Workspaces \X Items /\ d[1] = s /\ copy[d] # NoDocument BY <1>13, <2>2, <3>1 DEF Reads
    <3>4. \A d \in f : d[1] = s /\ copy'[d] # NoDocument BY <3>2, <3>3
    <3>5. \A d \in Workspaces \X Items : d[1] = s /\ copy'[d] \in Runs => d \in f BY <1>13, <2>2, <3>2 DEF Reads
    <3>6. QED BY <3>4, <3>5 DEF Reads
  <2>3. QED BY <2>2 DEF Reads
<1>14. OneWriter'
  <2>1. ASSUME NEW k \in JobIds, txn[k] # AtRest PROVE Writes(k, txn[k])'
    <3>1. PICK t : t = txn[k] OBVIOUS
    <3>2. Writes(k, t) /\ t.forced \in Readings BY <2>1, <3>1 DEF ManualInv, ManualTyped, OneWriter, TxnRecord
    <3>3. (t.to # "failed" => job[k].status \in ActiveStatus) /\ k \in Made /\ job'[k] = job[k]
      BY <1>2, <3>2 DEF Writes
    <3>4. run'[job[k].run] = run[job[k].run] BY <1>6, <1>10, <3>3
    <3>5. PICK w : w = job[k].space OBVIOUS
    <3>6. t.to # "failed" /\ Reads(w, t.forced) => Reads(w, t.forced)' BY <1>12, <1>13, <3>2, <3>3, <3>5
    <3>7. \A j \in t.jobs : j \in Made' /\ job'[j] = job[j] BY <1>2, <1>3, <3>2 DEF Writes
    <3>8. Writes(k, t)' BY <1>3, <3>2, <3>3, <3>4, <3>5, <3>6, <3>7 DEF Writes, Reads
    <3>9. QED BY <3>1, <3>8
  <2>2. QED BY <2>1 DEF OneWriter
<1>15. Lives'
  <2>1. ASSUME NEW j \in Made
        PROVE  job'[j].status \in ActiveStatus => job'[j].space \in exists /\ Reads(job[j].space, job[j].forced)'
    <3>1. PICK w, f : w = job[j].space /\ f = job[j].forced OBVIOUS
    <3>2. job'[j] = job[j] /\ f \in Readings BY <1>2, <3>1, MadeTyped DEF JobRecord
    <3>3. job[j].status \in ActiveStatus => w \in exists /\ Reads(w, f) BY <3>1 DEF ManualInv, Lives
    <3>4. job[j].status \in ActiveStatus => Reads(w, f)' BY <1>12, <1>13, <3>1, <3>2, <3>3
    <3>5. QED BY <3>1, <3>2, <3>3, <3>4 DEF Reads
  <2>2. ASSUME NEW j \in js
        PROVE  job'[j].status \in ActiveStatus => job'[j].space \in exists /\ Reads(job[j].space, job[j].forced)'
    BY <1>1, <2>2 DEF Reads
  <2>3. \A d \in Workspaces \X Items : copy'[d] # NoDocument => d[1] \in exists BY <1>8 DEF ManualInv, Lives
  <2>4. QED BY <1>3, <2>1, <2>2, <2>3 DEF Lives
<1>16. Marked'
  <2>1. ASSUME NEW d \in Workspaces \X Items, copy'[d] \in Runs
        PROVE  \E j \in Made' : job'[j].run = copy'[d] /\ job'[j].space = d[1] /\ job'[j].status # "ended"
    <3>1. CASE d \in marks
      <4>1. PICK j \in js : home[j] = d[1] BY <3>1
      <4>2. QED BY <1>1, <1>3, <1>8, <3>1, <4>1
    <3>2. CASE d \notin marks
      <4>1. copy'[d] = copy[d] BY <1>8, <3>2
      <4>2. PICK j \in Made : job[j].run = copy[d] /\ job[j].space = d[1] /\ job[j].status # "ended"
        BY <2>1, <4>1 DEF ManualInv, Marked
      <4>3. QED BY <1>2, <1>3, <4>1, <4>2
    <3>3. QED BY <3>1, <3>2
  <2>2. QED BY <2>1 DEF Marked
<1>17. ASSUME NEW s, \A j \in js : home[j] # s PROVE Working(s)' = Working(s)
  BY <1>1, <1>2, <1>3, <1>17 DEF Working
<1>18. \A t : Cleared(t)' = Cleared(t) BY <1>8, ManualAssumption DEF Cleared
<1>19. QED BY <1>3, <1>4, <1>7, <1>9, <1>11, <1>14, <1>15, <1>16, <1>17, <1>18

\* The number a job of its own gets is nobody's.
LEMMA NextNumber ==
  ASSUME ManualInv, NEW s \in Workspaces, NEW r \in Runs, NEW full \in BOOLEAN, NEW manual \in BOOLEAN,
         NEW marks \in SUBSET (Workspaces \X Items), NEW i \in JobIds,
         i = Cardinality(Made) + 1, s \in exists, holder[s] = Free, Working(s) = {}, run[r] = NotMade,
         job' = [job EXCEPT ![i] = NewJob(s, r, manual)],
         run' = [run EXCEPT ![r] = NewRun({i}, full)],
         copy' = [d \in DOMAIN copy |-> IF d \in marks THEN r ELSE copy[d]],
         \A d \in marks : copy[d] # NoDocument /\ d[1] = s,
         UNCHANGED <<exists, holder, ask, unsent, late, stale, writer, txn>>
  PROVE  ManualInv'
<1>1. Made \subseteq 1..Cardinality(Made) /\ IsFiniteSet(Made) /\ Cardinality(Made) \in Nat
  BY FS_CardinalityType DEF ManualInv, Numbered
<1>2. i \notin Made BY <1>1
<1>3. NewJob(s, r, manual) \in JobRecord BY DEF NewJob, JobRecord, Statuses, Readings
<1>4. DOMAIN job = JobIds /\ job'[i] = NewJob(s, r, manual) /\ \A j \in JobIds \ {i} : job'[j] = job[j]
  BY DEF ManualInv, ManualTyped
<1>5. Made' = Made \cup {i} BY <1>3, <1>4, ManualAssumption DEF Made
<1>6. Cardinality(Made') = Cardinality(Made) + 1 /\ IsFiniteSet(Made') BY <1>1, <1>2, <1>5, FS_AddElement
<1>7. Numbered' BY <1>1, <1>5, <1>6 DEF Numbered
<1> DEFINE js == {i}
           home == [j \in js |-> s]
<1>8. home \in [js -> Workspaces] /\ js \in SUBSET JobIds /\ js # {} /\ js \cap Made = {} BY <1>2
<1>9. \A j \in js : home[j] = s OBVIOUS
<1>10. \A j \in js : \E m \in BOOLEAN : job'[j] = NewJob(home[j], r, m) BY <1>4
<1>11. \A j \in JobIds \ js : job'[j] = job[j] BY <1>4
<1>12. DOMAIN job' = JobIds /\ job' = [j \in JobIds |-> job'[j]] BY <1>4
<1>13. \A d \in marks : copy[d] # NoDocument /\ \E j \in js : home[j] = d[1] OBVIOUS
<1>14. \A j \in js : home[j] \in exists /\ Working(home[j]) = {} OBVIOUS
<1>15. run' = [run EXCEPT ![r] = NewRun(js, full)] OBVIOUS
<1> HIDE DEF js, home
<1>16. /\ job' \in [JobIds -> JobRecord \cup {NotMade}] /\ run' \in [Runs -> RunRecord \cup {NotMade}]
       /\ copy' \in [Workspaces \X Items -> Runs \cup {NoDocument, Kept}]
       /\ Made \subseteq Made' /\ Numbered' /\ Reported' /\ OneWriter' /\ Lives' /\ Marked'
       /\ \A w : (\A j \in js : home[j] # w) => Working(w)' = Working(w)
       /\ \A t : Cleared(t)' = Cleared(t)
  <2>1. Adds(js, home, r, full, marks) BY <1>8, <1>10, <1>11, <1>12, <1>13, <1>14, <1>15 DEF Adds
  <2>2. QED BY <1>7, <1>8, <2>1, RunAdded
<1>17. ManualTyped' BY <1>16 DEF ManualInv, ManualTyped
<1>18. TakenKept'
  <2>1. ASSUME NEW a \in Asks, ask[a] # AtRest, NEW w \in ask[a].fresh
        PROVE  holder[w] = a /\ Working(w)' = {} /\ w \in exists
    <3>1. holder[w] = a /\ Working(w) = {} /\ w \in exists BY <2>1 DEF ManualInv, TakenKept, Takes
    <3>2. w # s BY <3>1, ManualAssumption
    <3>3. QED BY <1>9, <1>16, <3>1, <3>2
  <2>2. QED BY <2>1 DEF TakenKept, Takes
<1>19. FullCovers'
  <2>1. ASSUME NEW a \in Asks, ask[a] # AtRest PROVE Covers(ask[a])'
    <3>1. Covers(ask[a]) BY <2>1 DEF ManualInv, FullCovers
    <3>2. PICK q : q = ask[a] OBVIOUS
    <3>3. Cleared(q.target)' = Cleared(q.target)
      <4>1. PICK t : t = q.target OBVIOUS
      <4>2. Cleared(t)' = Cleared(t) BY <1>16
      <4>3. QED BY <4>1, <4>2 DEF Cleared
    <3>4. Covers(q)' BY <3>1, <3>2, <3>3 DEF Covers
    <3>5. QED BY <3>2, <3>4 DEF Covers, Cleared
  <2>2. QED BY <2>1 DEF FullCovers
<1>20. QED BY <1>16, <1>17, <1>18, <1>19 DEF ManualInv

LEMMA ScheduleKeeps ==
  ASSUME ManualInv, NEW s \in Workspaces, NEW r \in Runs, ScheduleJob(s, r)
  PROVE  ManualInv'
<1> DEFINE i == Cardinality(Made) + 1
<1>1. /\ s \in exists /\ holder[s] = Free /\ Working(s) = {} /\ run[r] = NotMade /\ i \in JobIds
      /\ job' = [job EXCEPT ![i] = NewJob(s, r, FALSE)] /\ run' = [run EXCEPT ![r] = NewRun({i}, FALSE)]
      /\ UNCHANGED <<exists, holder, ask, unsent, late, stale, writer, txn, copy>>
  BY DEF ScheduleJob, SpaceFree, NextRun
<1>2. copy' = [d \in DOMAIN copy |-> IF d \in {} THEN r ELSE copy[d]]
  <2>1. copy = [d \in DOMAIN copy |-> copy[d]] BY DEF ManualInv, ManualTyped
  <2>2. QED BY <1>1, <2>1
<1>3. {} \in SUBSET (Workspaces \X Items) OBVIOUS
<1> HIDE DEF i
<1>4. i = Cardinality(Made) + 1 BY DEF i
<1>5. QED BY <1>1, <1>2, <1>3, <1>4, NextNumber

LEMMA ReprocessKeeps ==
  ASSUME ManualInv, NEW s \in Workspaces, NEW xs \in SUBSET Items, NEW r \in Runs, Reprocess(s, xs, r)
  PROVE  ManualInv'
<1> DEFINE i == Cardinality(Made) + 1
           marks == {d \in Workspaces \X Items : d[1] = s /\ d[2] \in xs}
<1>1. /\ s \in exists /\ holder[s] = Free /\ Working(s) = {} /\ run[r] = NotMade /\ i \in JobIds
      /\ job' = [job EXCEPT ![i] = NewJob(s, r, TRUE)] /\ run' = [run EXCEPT ![r] = NewRun({i}, FALSE)]
      /\ \A x \in xs : copy[<<s, x>>] # NoDocument
      /\ copy' = [d \in DOMAIN copy |-> IF d[1] = s /\ d[2] \in xs THEN r ELSE copy[d]]
      /\ UNCHANGED <<exists, holder, ask, unsent, late, stale, writer, txn>>
  BY DEF Reprocess, SpaceFree, NextRun
<1>2. DOMAIN copy = Workspaces \X Items BY DEF ManualInv, ManualTyped
<1>3. copy' = [d \in DOMAIN copy |-> IF d \in marks THEN r ELSE copy[d]] BY <1>1, <1>2
<1>4. marks \in SUBSET (Workspaces \X Items) OBVIOUS
<1>5. \A d \in marks : copy[d] # NoDocument /\ d[1] = s
  <2>1. ASSUME NEW d \in marks PROVE copy[d] # NoDocument
    <3>1. d = <<s, d[2]>> /\ d[2] \in xs OBVIOUS
    <3>2. QED BY <1>1, <3>1
  <2>2. QED BY <2>1
<1> HIDE DEF i, marks
<1>6. i = Cardinality(Made) + 1 BY DEF i
<1>7. QED BY <1>1, <1>3, <1>4, <1>5, <1>6, NextNumber

-----------------------------------------------------------------------------
\* The place of a space among those of a request.
Rank(ss, s) == Cardinality({o \in ss : o <= s})

LEMMA Ranks ==
  ASSUME NEW ss \in SUBSET Workspaces
  PROVE  /\ IsFiniteSet(ss) /\ Cardinality(ss) \in Nat
         /\ \A s \in ss : Rank(ss, s) \in 1..Cardinality(ss)
         /\ \A s, w \in ss : Rank(ss, s) = Rank(ss, w) => s = w
<1>1. IsFiniteSet(ss) /\ Cardinality(ss) \in Nat BY ManualAssumption, FS_Subset, FS_CardinalityType
<1>2. ss \subseteq Nat BY ManualAssumption
<1>3. ASSUME NEW s \in ss PROVE IsFiniteSet({o \in ss : o <= s}) /\ Rank(ss, s) \in 1..Cardinality(ss)
  <2> DEFINE T == {o \in ss : o <= s}
  <2>1. T \in SUBSET ss /\ s \in T BY <1>2
  <2>2. IsFiniteSet(T) /\ Cardinality(T) <= Cardinality(ss) /\ Cardinality(T) \in Nat
    BY <1>1, <2>1, FS_Subset, FS_CardinalityType
  <2>3. Cardinality(T) # 0 BY <2>1, <2>2, FS_EmptySet
  <2>4. QED BY <1>1, <2>2, <2>3 DEF Rank
<1>4. ASSUME NEW s \in ss, NEW w \in ss, s < w PROVE Rank(ss, s) < Rank(ss, w)
  <2> DEFINE T == {o \in ss : o <= s}
             U == {o \in ss : o <= w}
  <2>1. T \cup {w} \in SUBSET U /\ w \notin T
    <3>1. s \in Int /\ w \in Int /\ w \in U /\ w \notin T BY <1>2, <1>4
    <3>2. \A o \in ss : o \in Int BY <1>2
    <3>3. \A o \in T : o \in U BY <1>4, <3>1, <3>2
    <3>4. QED BY <3>1, <3>3
  <2>2. IsFiniteSet(T) /\ IsFiniteSet(U) BY <1>3
  <2>3. Cardinality(T \cup {w}) = Cardinality(T) + 1 BY <2>1, <2>2, FS_AddElement
  <2>4. Cardinality(T \cup {w}) <= Cardinality(U) BY <2>1, <2>2, FS_Subset
  <2>5. Cardinality(T) \in Nat /\ Cardinality(U) \in Nat BY <2>2, FS_CardinalityType
  <2>6. QED BY <2>3, <2>4, <2>5 DEF Rank
<1>5. ASSUME NEW s \in ss, NEW w \in ss, Rank(ss, s) = Rank(ss, w) PROVE s = w
  <2>1. Rank(ss, s) \in 1..Cardinality(ss) BY <1>3
  <2>2. ~(s < w) /\ ~(w < s)
    <3>1. PICK k : k = Rank(ss, s) OBVIOUS
    <3>2. k \in Int /\ ~(k < k) BY <1>1, <2>1, <3>1
    <3>3. QED BY <1>4, <1>5, <3>1, <3>2
  <2>3. s \in Int /\ w \in Int BY <1>2
  <2>4. QED BY <2>2, <2>3
<1>6. QED BY <1>1, <1>3, <1>5

LEMMA CommitKeeps ==
  ASSUME ManualInv, NEW a \in Asks, NEW r \in Runs, NEW broken \in SUBSET JobIds, Commit(a, r, broken)
  PROVE  ManualInv'
<1> DEFINE n == Cardinality(Made)
           q == ask[a]
           ss == ask[a].fresh
           id == [s \in ss |-> Enqueued(ss, s)]
           js == {id[s] : s \in ss}
           Home(j) == CHOOSE s \in ss : id[s] = j
           Row(j) == IF j \notin js THEN job[j]
                     ELSE IF j \in Made THEN [job[j] EXCEPT !.run = r, !.manual = TRUE]
                     ELSE NewJob(Home(j), r, TRUE)
<1>5. /\ q # AtRest /\ q.todo = {} /\ ss # {} /\ run[r] = NotMade /\ js \subseteq JobIds
      /\ job' = [j \in JobIds |-> Row(j)]
      /\ run' = [run EXCEPT ![r] = NewRun(js, q.full)]
      /\ copy' = [d \in DOMAIN copy |-> IF q.full /\ d \in Cleared(q.target) THEN r ELSE copy[d]]
      /\ ask' = [ask EXCEPT ![a] = AtRest] /\ holder' = Release(a)
      /\ UNCHANGED <<exists, late, stale, writer, txn>> /\ unsent' = unsent \cup broken
  BY DEF Commit, NextRun
<1>1. q = ask[a] OBVIOUS
<1>2. ss = q.fresh OBVIOUS
<1>3. id = [s \in ss |-> Enqueued(ss, s)] OBVIOUS
<1>4. js = {id[s] : s \in ss} OBVIOUS
<1> HIDE DEF q, ss, id, js, Home, Row
<1>6. q \in AskRecord /\ ss \in SUBSET Workspaces /\ q.full \in BOOLEAN BY <1>1, <1>2, <1>5, AskedTyped DEF AskRecord
<1>7. \A s \in ss : holder[s] = a /\ Working(s) = {} /\ s \in exists
  BY <1>1, <1>2, <1>5 DEF ManualInv, TakenKept, Takes
<1>8. Covers(q) BY <1>1, <1>5 DEF ManualInv, FullCovers
<1>9. Made \subseteq 1..n /\ IsFiniteSet(Made) /\ n \in Nat BY FS_CardinalityType DEF ManualInv, Numbered
<1>10. \A s \in ss : id[s] = n + Rank(ss, s)
  <2>1. ASSUME NEW s \in ss PROVE id[s] = n + Rank(ss, s)
    <3>1. {o \in ss : o <= s /\ Working(o) = {}} = {o \in ss : o <= s} BY <1>7
    <3>2. QED BY <1>3, <1>7, <3>1 DEF Enqueued, Rank
  <2>2. QED BY <2>1
<1>11. /\ IsFiniteSet(ss) /\ Cardinality(ss) \in Nat
       /\ \A s \in ss : Rank(ss, s) \in 1..Cardinality(ss)
       /\ \A s, w \in ss : Rank(ss, s) = Rank(ss, w) => s = w
  BY <1>6, Ranks
<1>12. \A s, w \in ss : id[s] = id[w] => s = w
  <2>1. ASSUME NEW s \in ss, NEW w \in ss, id[s] = id[w] PROVE s = w
    <3>1. Rank(ss, s) \in Int /\ Rank(ss, w) \in Int BY <1>11
    <3>2. QED BY <1>9, <1>10, <1>11, <2>1, <3>1
  <2>2. QED BY <2>1
<1>13. \A j \in js : j \notin Made /\ j \in 1..(n + Cardinality(ss))
  <2>1. ASSUME NEW s \in ss PROVE id[s] \notin Made /\ id[s] \in 1..(n + Cardinality(ss))
    <3>1. Rank(ss, s) \in 1..Cardinality(ss) BY <1>11
    <3>2. QED BY <1>9, <1>10, <1>11, <3>1
  <2>2. QED BY <1>4, <2>1
<1>14. IsFiniteSet(js) /\ Cardinality(js) = Cardinality(ss)
  <2>1. id \in [ss -> js] BY <1>3, <1>4
  <2>2. id \in Bijection(ss, js) BY <1>4, <1>12, <2>1 DEF Bijection, Injection, Surjection, IsInjective
  <2>3. ExistsBijection(ss, js) BY <2>2 DEF ExistsBijection
  <2>4. QED BY <1>11, <2>3, FS_Bijection
<1> DEFINE home == [j \in js |-> Home(j)]
<1>15. \A j \in js : home[j] \in ss /\ id[home[j]] = j
  <2>1. ASSUME NEW j \in js PROVE Home(j) \in ss /\ id[Home(j)] = j BY <1>4 DEF Home
  <2>2. QED BY <2>1
<1>16. \A s \in ss : id[s] \in js /\ home[id[s]] = s
  <2>1. ASSUME NEW s \in ss PROVE id[s] \in js /\ home[id[s]] = s
    <3>1. id[s] \in js BY <1>4
    <3>2. home[id[s]] \in ss /\ id[home[id[s]]] = id[s] BY <1>15, <3>1
    <3>3. QED BY <1>12, <3>1, <3>2
  <2>2. QED BY <2>1
<1>17. \A j \in js : \E m \in BOOLEAN : job'[j] = NewJob(home[j], r, m)
  <2>1. ASSUME NEW j \in js PROVE \E m \in BOOLEAN : job'[j] = NewJob(home[j], r, m)
    <3>1. job'[j] = Row(j) BY <1>5
    <3>2. Row(j) = NewJob(Home(j), r, TRUE) BY <1>13 DEF Row
    <3>3. home[j] = Home(j) OBVIOUS
    <3>4. QED BY <3>1, <3>2, <3>3
  <2>2. QED BY <2>1
<1>18. \A j \in JobIds \ js : job'[j] = job[j]
  <2>1. \A j \in JobIds : job'[j] = Row(j) BY <1>5
  <2>2. \A j \in JobIds \ js : Row(j) = job[j] BY DEF Row
  <2>3. QED BY <2>1, <2>2
<1>19. home \in [js -> Workspaces] BY <1>6, <1>15
<1> HIDE DEF home
<1>20. Made' = Made \cup js
  <2>1. ASSUME NEW j \in js PROVE job'[j] \in JobRecord
    <3>1. PICK m \in BOOLEAN : job'[j] = NewJob(home[j], r, m) BY <1>17
    <3>2. home[j] \in Workspaces BY <1>19
    <3>3. QED BY <3>1, <3>2 DEF NewJob, JobRecord, Statuses, Readings
  <2>2. \A j \in js : job'[j] # NotMade BY <2>1, ManualAssumption
  <2>3. QED BY <1>5, <1>18, <2>2 DEF Made
<1>21. Numbered'
  <2>1. Made \cap js = {} BY <1>13
  <2>2. IsFiniteSet(Made') /\ Cardinality(Made') = n + Cardinality(ss)
    <3>1. IsFiniteSet(Made \cup js) /\ Cardinality(Made \cup js) = Cardinality(Made) + Cardinality(js) - Cardinality(Made \cap js)
      BY <1>9, <1>14, FS_Union
    <3>2. Cardinality(Made \cap js) = 0 BY <2>1, FS_EmptySet
    <3>3. QED BY <1>9, <1>11, <1>14, <1>20, <3>1, <3>2
  <2>3. Made' \subseteq 1..(n + Cardinality(ss)) BY <1>9, <1>11, <1>13, <1>20
  <2>4. QED BY <2>2, <2>3 DEF Numbered
<1> DEFINE marks == {d \in Workspaces \X Items : q.full /\ d \in Cleared(q.target)}
<1>22. DOMAIN copy = Workspaces \X Items BY DEF ManualInv, ManualTyped
<1>23. copy' = [d \in DOMAIN copy |-> IF d \in marks THEN r ELSE copy[d]] BY <1>5, <1>22
<1>24. \A d \in marks : copy[d] # NoDocument /\ \E j \in js : home[j] = d[1]
  <2>1. ASSUME NEW d \in marks PROVE copy[d] # NoDocument /\ d[1] \in ss
    <3>1. d \in Cleared(q.target) /\ q.full OBVIOUS
    <3>2. d[1] \in ss BY <1>2, <1>5, <1>8, <3>1 DEF Covers
    <3>3. QED BY <3>1, <3>2 DEF Cleared
  <2>2. QED BY <1>16, <2>1
<1>25. \A j \in js : home[j] \in exists /\ Working(home[j]) = {} BY <1>7, <1>15
<1>27. js # {} /\ js \in SUBSET JobIds /\ js \cap Made = {} BY <1>5, <1>13, <1>16
<1>28. DOMAIN job' = JobIds /\ job' = [j \in JobIds |-> job'[j]] BY <1>5
<1>29. marks \in SUBSET (Workspaces \X Items) OBVIOUS
<1> HIDE DEF marks
<1>30. /\ job' \in [JobIds -> JobRecord \cup {NotMade}] /\ run' \in [Runs -> RunRecord \cup {NotMade}]
       /\ copy' \in [Workspaces \X Items -> Runs \cup {NoDocument, Kept}]
       /\ Made \subseteq Made' /\ Numbered' /\ Reported' /\ OneWriter' /\ Lives' /\ Marked'
       /\ \A w : (\A j \in js : home[j] # w) => Working(w)' = Working(w)
       /\ \A t : Cleared(t)' = Cleared(t)
  <2>1. Adds(js, home, r, q.full, marks) BY <1>5, <1>18, <1>23, <1>24, <1>17, <1>25, <1>27, <1>28 DEF Adds
  <2>2. QED BY <1>6, <1>19, <1>21, <1>27, <1>29, <2>1, RunAdded
<1>31. ManualTyped' BY <1>5, <1>30, LetsGo DEF ManualInv, ManualTyped
<1>32. ASSUME NEW b \in Asks, ask'[b] # AtRest
       PROVE  b # a /\ ask'[b] = ask[b] /\ ask[b] # AtRest /\ ask[b] \in AskRecord
              /\ \A s \in Workspaces : holder[s] = b => holder'[s] = b
  BY <1>5, <1>32, LetsGo, AskedTyped
<1>33. TakenKept'
  <2>1. ASSUME NEW b \in Asks, ask'[b] # AtRest, NEW w \in ask[b].fresh
        PROVE  holder'[w] = b /\ Working(w)' = {} /\ w \in exists
    <3>1. ask[b] # AtRest /\ b # a /\ w \in Workspaces BY <1>32, <2>1 DEF AskRecord
    <3>2. holder[w] = b /\ Working(w) = {} /\ w \in exists BY <2>1, <3>1 DEF ManualInv, TakenKept, Takes
    <3>3. \A j \in js : home[j] # w BY <1>7, <1>15, <3>1, <3>2
    <3>4. QED BY <1>30, <1>32, <2>1, <3>1, <3>2, <3>3
  <2>2. QED BY <1>5, <1>32, <2>1 DEF TakenKept, Takes
<1>34. FullCovers'
  <2>1. ASSUME NEW b \in Asks, ask'[b] # AtRest PROVE Covers(ask[b])'
    <3>1. Covers(ask[b]) /\ ask'[b] = ask[b] BY <1>32, <2>1 DEF ManualInv, FullCovers
    <3>2. PICK p : p = ask[b] OBVIOUS
    <3>3. PICK t : t = p.target OBVIOUS
    <3>4. Cleared(t)' = Cleared(t) BY <1>30
    <3>5. Covers(p)' BY <1>5, <3>1, <3>2, <3>3, <3>4 DEF Covers, Cleared
    <3>6. QED BY <3>1, <3>2, <3>5 DEF Covers, Cleared
  <2>2. QED BY <2>1 DEF FullCovers
<1>35. QED BY <1>30, <1>31, <1>33, <1>34 DEF ManualInv

LEMMA ManualStep == ManualInv /\ [ManualNext]_manualVars => ManualInv'
<1>1. SUFFICES ASSUME ManualInv, [ManualNext]_manualVars PROVE ManualInv' OBVIOUS
<1>2. ASSUME NEW a \in Asks, NEW t \in Targets, NEW full \in BOOLEAN, AskFor(a, t, full) PROVE ManualInv'
  BY <1>1, <1>2, AskForKeeps
<1>3. ASSUME NEW a \in Asks, NEW s \in Workspaces, TakeSpace(a, s) PROVE ManualInv' BY <1>1, <1>3, TakeSpaceKeeps
<1>4. ASSUME NEW a \in Asks, NothingToDo(a) PROVE ManualInv' BY <1>1, <1>4, EndsAsk DEF NothingToDo
<1>5. ASSUME NEW a \in Asks, NEW r \in Runs, NEW broken \in SUBSET JobIds, Commit(a, r, broken) PROVE ManualInv'
  BY <1>1, <1>5, CommitKeeps
<1>6. ASSUME NEW s \in Workspaces, NEW r \in Runs, ScheduleJob(s, r) PROVE ManualInv' BY <1>1, <1>6, ScheduleKeeps
<1>7. ASSUME NEW s \in Workspaces, NEW r \in Runs, NEW xs \in SUBSET Items, Reprocess(s, xs, r) PROVE ManualInv'
  BY <1>1, <1>7, ReprocessKeeps
<1>8. ASSUME NEW s \in Workspaces, RemoveSpace(s) PROVE ManualInv' BY <1>1, <1>8, RemoveSpaceKeeps
<1>9. ASSUME NEW j \in JobIds, MinutePasses(j) PROVE ManualInv' BY <1>1, <1>9, MinutePassesKeeps
<1>10. ASSUME NEW j \in JobIds, ClaimJob(j) \/ TakeOver(j) \/ Discover(j) \/ Finish(j) \/ Fail(j) \/ ReleaseForRetry(j)
                                  \/ SendFails(j)
       PROVE  ManualInv' BY <1>1, <1>10, BeginsKeep
<1>11. ASSUME NEW j \in JobIds, WriteRun(j) PROVE ManualInv' BY <1>1, <1>11, WriteRunKeeps
<1>late. ASSUME NEW j \in JobIds, LateReport(j) PROVE ManualInv' BY <1>1, <1>late, LateReportKeeps
<1>12. CASE UNCHANGED manualVars
  <2>1. UNCHANGED <<exists, job, unsent, late, run, stale, writer, txn, copy>> /\ holder' = holder /\ ask' = ask BY <1>12 DEF manualVars
  <2>2. ManualTyped' BY <1>1, <2>1, AsksAside DEF ManualInv, ManualTyped
  <2>3. TakenKept' BY <1>1, <2>1 DEF ManualInv, TakenKept, Takes, Working, Made
  <2>4. FullCovers' BY <1>1, <2>1 DEF ManualInv, FullCovers, Covers, Cleared
  <2>5. QED BY <1>1, <2>1, <2>2, <2>3, <2>4, AsksAside DEF ManualInv
<1>13. QED BY <1>1, <1>2, <1>3, <1>4, <1>5, <1>6, <1>7, <1>8, <1>9, <1>10, <1>11, <1>late, <1>12 DEF ManualNext

LEMMA ManualStart == ManualInit => ManualInv
<1>1. SUFFICES ASSUME ManualInit PROVE ManualInv OBVIOUS
<1>2. Made = {} BY <1>1 DEF ManualInit, Made
<1>3. ManualTyped BY <1>1 DEF ManualInit, ManualTyped
<1>4. Numbered BY <1>2, FS_EmptySet DEF Numbered
<1>5. Reported BY <1>1, <1>2 DEF ManualInit, Reported
<1>6. OneWriter BY <1>1 DEF ManualInit, OneWriter
<1>7. TakenKept /\ FullCovers BY <1>1 DEF ManualInit, TakenKept, FullCovers
<1>8. Lives BY <1>1, <1>2 DEF ManualInit, Lives
<1>9. Marked
  <2>1. \A d \in Workspaces \X Items : copy[d] \in {NoDocument, Kept} BY <1>1 DEF ManualInit
  <2>2. QED BY <2>1, ManualAssumption DEF Marked
<1>10. QED BY <1>3, <1>4, <1>5, <1>6, <1>7, <1>8, <1>9 DEF ManualInv

LEMMA KeptByInv == ManualInv => RunsAreAlive /\ RebuiltWhenEnded
<1>1. SUFFICES ASSUME ManualInv PROVE RunsAreAlive /\ RebuiltWhenEnded OBVIOUS
<1>2. RunsAreAlive
  <2>1. ASSUME NEW r \in Runs, run[r] # NotMade
        PROVE  LET acting == {j \in Made : job[j].run = r /\ job[j].status \in {"queued", "syncing"}}
               IN  IF run[r].ended THEN acting = {} ELSE \E j \in Made : job[j].run = r /\ j \in acting \cup stale
    <3> DEFINE told == run[r].progress
    <3>1. DOMAIN told = {j \in Made : job[j].run = r} BY <1>1, <2>1 DEF ManualInv, Reported
    <3>2. \A j \in DOMAIN told : told[j] = job[j].status \/ (j \in stale /\ told[j] = "syncing")
      BY <1>1, <2>1 DEF ManualInv, Reported
    <3>3. run[r].ended <=> \A j \in DOMAIN told : told[j] \in {"ended", "failed"}
      BY <1>1, <2>1 DEF ManualInv, Reported
    <3>4. \A j \in Made : job[j].status \in Statuses BY <1>1, MadeTyped DEF JobRecord
    <3> HIDE DEF told
    <3>5. CASE run[r].ended BY <3>1, <3>2, <3>3, <3>5
    <3>6. CASE ~run[r].ended
      <4>1. PICK j \in DOMAIN told : told[j] \notin {"ended", "failed"} BY <3>3, <3>6
      <4>2. j \in stale \/ job[j].status \in {"queued", "syncing"} BY <3>1, <3>2, <3>4, <4>1 DEF Statuses
      <4>3. QED BY <3>1, <3>6, <4>1, <4>2
    <3>7. QED BY <3>5, <3>6
  <2>2. QED BY <2>1 DEF RunsAreAlive
<1>3. RebuiltWhenEnded
  <2>1. ASSUME NEW r \in Runs, NEW d \in DOMAIN copy, copy[d] = r, run[r].ended
        PROVE  \E j \in DOMAIN run[r].progress : run[r].progress[j] = "failed"
    <3>1. d \in Workspaces \X Items BY <1>1 DEF ManualInv, ManualTyped
    <3>2. PICK j \in Made : job[j].run = r /\ job[j].status # "ended" BY <1>1, <2>1, <3>1 DEF ManualInv, Marked
    <3>3. run[r] # NotMade BY <1>1, <3>2 DEF ManualInv, Reported
    <3>4. j \in DOMAIN run[r].progress BY <1>1, <3>2, <3>3 DEF ManualInv, Reported
    <3>5. run[r].progress[j] = job[j].status \/ run[r].progress[j] = "syncing"
      BY <1>1, <3>3, <3>4 DEF ManualInv, Reported
    <3>6. run[r].progress[j] \in {"ended", "failed"} BY <1>1, <2>1, <3>3, <3>4 DEF ManualInv, Reported
    <3>7. QED BY <3>2, <3>4, <3>5, <3>6
  <2>2. QED BY <2>1 DEF RebuiltWhenEnded
<1>4. QED BY <1>2, <1>3

\* A run of the history never closes on a running job and waits only for an acting job or for one
\* that a worker wrote of after it had lost it; where all its jobs ended well each file it marked
\* was read again (ManualSyncRun, update_progress, _mark_rebuild).
THEOREM RunsKeptAlways == ManualSpec => []RunsKept
<1>1. ManualInit => ManualInv BY ManualStart
<1>2. ManualInv /\ [ManualNext]_manualVars => ManualInv' BY ManualStep
<1>3. ManualInv => RunsKept BY KeptByInv DEF RunsKept
<1>4. QED BY <1>1, <1>2, <1>3, PTL DEF ManualSpec

-----------------------------------------------------------------------------
(* ClickUpDiscovery: the inductive invariant.                              *)

VisitFields ==
  {"at", "started", "whole", "incremental", "lists", "left", "listed", "read", "seen", "unreadable"}
Copy == [status : {"none", "indexed", "rebuild", "removed"}, stamp : Int, text : Int]

DiscoveryTyped ==
  /\ now \in Int /\ now >= Margin
  /\ lies \in [TasksAndDocs -> Lists \cup {Nowhere}] /\ stamp \in [TasksAndDocs -> Int]
  /\ stored \in [TasksAndDocs -> Copy]
  /\ cursor \in [since : Int, full : Int] /\ cursor.since <= now
  /\ visit = [x \in VisitFields |-> visit[x]] /\ visit.at \in {"idle", "tasks", "docs"}
  /\ visit.at = "idle" => visit = NoVisit

\* A task's document is as it was listed.
AsListed == \A t \in Tasks : stored[t].status \in {"indexed", "rebuild"} => stored[t].text = stored[t].stamp

\* A run begins after the checkpoint it reads, and sees items of its own lists.
RunTyped ==
  visit.at # "idle" =>
    /\ visit.started \in Int /\ cursor.since <= visit.started /\ visit.started <= now
    /\ visit.at = "docs" => visit.left = {}
    /\ visit.incremental => cursor # NoCheckpoint
    /\ DOMAIN visit.read \subseteq visit.seen /\ DOMAIN visit.listed \subseteq Docs
    /\ \A x \in DOMAIN visit.read : visit.read[x] \in Copy
    /\ \A d \in DOMAIN visit.listed : visit.listed[d] \in Int

\* A task lags for a reason: it came into reach without an update, or was updated since the floor.
Updated(t, since) == stamp[t] > Floor(since)
Excused(t) == ~InReach(t) \/ t \in came \/ Current(t) \/ cursor = NoCheckpoint \/ Updated(t, cursor.since)

\* What the run knows of a task: where it lies, what was read of it, and why it was not.
Stayed(t) ==
  /\ t \in still => InReach(t) /\ lies[t] \in visit.lists
  /\ InReach(t) => t \in still \cup came
TextRead(t) ==
  t \in DOMAIN visit.read =>
    /\ visit.read[t].status = "indexed" /\ visit.read[t].text = visit.read[t].stamp
    /\ visit.read[t].text = stamp[t] \/ Updated(t, visit.started)
SeenAsIs(t) == t \in visit.seen \ DOMAIN visit.read => Current(t) \/ Updated(t, visit.started)
ListedOrKnown(t) ==
  t \in still /\ lies[t] \in visit.lists \ visit.left /\ "tasks" \notin visit.unreadable =>
    t \in visit.seen \/ (visit.incremental /\ (Current(t) \/ t \in came \/ Updated(t, visit.started)))
Followed(t) == visit.at # "idle" => Stayed(t) /\ TextRead(t) /\ SeenAsIs(t) /\ ListedOrKnown(t)

DiscoveryInv ==
  /\ DiscoveryTyped /\ AsListed /\ RunTyped
  /\ \A t \in Tasks : Excused(t) /\ Followed(t)
-----------------------------------------------------------------------------
(* ClickUpDiscovery: the steps of the provider.                            *)

\* Time passes, items are updated, come and go; what comes into reach has come, or has stayed.
LEMMA ProviderStep ==
  ASSUME DiscoveryInv, UNCHANGED <<stored, cursor, visit>>, now' \in Int, now' >= now,
         lies' \in [TasksAndDocs -> Lists \cup {Nowhere}], stamp' \in [TasksAndDocs -> Int],
         \A t \in Tasks : stamp'[t] = stamp[t] \/ stamp'[t] > now - Margin,
         came \subseteq came', still' \subseteq still,
         \A t \in Tasks : t \in still' => lies'[t] = lies[t] /\ (lies[t] \in reach => lies'[t] \in reach'),
         \A t \in Tasks : lies'[t] \in reach' /\ t \notin came' => lies[t] \in reach /\ (t \in still => t \in still')
  PROVE  DiscoveryInv'
<1>1. Margin \in Int /\ now \in Int /\ cursor.since \in Int /\ cursor.since <= now /\ stamp \in [TasksAndDocs -> Int]
  BY DiscoveryAssumption DEF DiscoveryInv, DiscoveryTyped
<1>2. DiscoveryTyped'
  BY <1>1, DiscoveryAssumption DEF DiscoveryInv, DiscoveryTyped
<1>3. AsListed' BY DEF DiscoveryInv, AsListed
<1>4. RunTyped'
  <2>1. SUFFICES ASSUME visit.at # "idle"
                 PROVE  visit.started \in Int /\ visit.started <= now'
    BY DEF DiscoveryInv, RunTyped
  <2>2. QED BY <1>1, <2>1 DEF DiscoveryInv, RunTyped
<1>5. ASSUME NEW t \in Tasks PROVE Excused(t)' /\ Followed(t)'
  <2>1. Excused(t) /\ Followed(t) BY DEF DiscoveryInv
  <2>2. t \in TasksAndDocs BY DEF TasksAndDocs
  <2>3. stamp[t] \in Int /\ stamp'[t] \in Int BY <1>1, <2>2
  <2>4. CASE stamp'[t] = stamp[t]
    <3>1. Excused(t)' BY <2>1, <2>4 DEF Excused, InReach, Current, Updated, Floor
    <3>2. Followed(t)'
      <4>1. SUFFICES ASSUME visit.at # "idle" PROVE (Stayed(t) /\ TextRead(t) /\ SeenAsIs(t) /\ ListedOrKnown(t))'
        BY DEF Followed
      <4>2. Stayed(t) /\ TextRead(t) /\ SeenAsIs(t) /\ ListedOrKnown(t) BY <2>1, <4>1 DEF Followed
      <4>3. Stayed(t)' BY <4>2 DEF Stayed, InReach
      <4>4. TextRead(t)' /\ SeenAsIs(t)' BY <2>4, <4>2 DEF TextRead, SeenAsIs, Current, Updated, Floor
      <4>5. ListedOrKnown(t)' BY <2>4, <4>2 DEF ListedOrKnown, Current, Updated, Floor
      <4>6. QED BY <4>3, <4>4, <4>5
    <3>3. QED BY <3>1, <3>2
  <2>5. CASE stamp'[t] > now - Margin
    <3>1. ASSUME NEW since \in Int, since <= now PROVE stamp'[t] > since - Margin BY <1>1, <2>3, <2>5, <3>1
    <3>2. Excused(t)' BY <1>1, <3>1 DEF Excused, Updated, Floor
    <3>3. Followed(t)'
      <4>1. SUFFICES ASSUME visit.at # "idle" PROVE (Stayed(t) /\ TextRead(t) /\ SeenAsIs(t) /\ ListedOrKnown(t))'
        BY DEF Followed
      <4>2. Stayed(t) /\ TextRead(t) /\ SeenAsIs(t) /\ ListedOrKnown(t) BY <2>1, <4>1 DEF Followed
      <4>3. visit.started \in Int /\ visit.started <= now BY <4>1 DEF DiscoveryInv, RunTyped
      <4>4. stamp'[t] > visit.started - Margin BY <3>1, <4>3
      <4>5. Stayed(t)' BY <4>2 DEF Stayed, InReach
      <4>6. TextRead(t)' /\ SeenAsIs(t)' BY <4>2, <4>4 DEF TextRead, SeenAsIs, Updated, Floor
      <4>7. ListedOrKnown(t)' BY <4>2, <4>4 DEF ListedOrKnown, Updated, Floor
      <4>8. QED BY <4>5, <4>6, <4>7
    <3>4. QED BY <3>2, <3>3
  <2>6. QED BY <2>4, <2>5
<1>6. QED BY <1>2, <1>3, <1>4, <1>5 DEF DiscoveryInv

LEMMA ProviderKeeps ==
  ASSUME DiscoveryInv,
         \/ ClockTicks
         \/ \E x \in TasksAndDocs : Update(x) \/ \E l \in Lists \cup {Nowhere} : MoveItem(x, l)
         \/ \E l \in Lists : MoveList(l)
  PROVE  DiscoveryInv'
<1>1. /\ now \in Int /\ lies \in [TasksAndDocs -> Lists \cup {Nowhere}] /\ stamp \in [TasksAndDocs -> Int]
      /\ Margin \in Int /\ Lag \in Int /\ Lag < Margin
  BY DiscoveryAssumption DEF DiscoveryInv, DiscoveryTyped
<1>2. \A t \in Tasks : t \in TasksAndDocs BY DEF TasksAndDocs
<1>3. CASE ClockTicks
  <2>1. now' = now + 1 /\ UNCHANGED <<lies, stamp, reach, came, stored, cursor, visit, still>> BY <1>3 DEF ClockTicks
  <2>2. now' \in Int /\ now' >= now BY <1>1, <2>1
  <2>3. QED BY <1>1, <2>1, <2>2, ProviderStep
<1>4. ASSUME NEW x \in TasksAndDocs, Update(x) PROVE DiscoveryInv'
  <2>1. stamp' = [stamp EXCEPT ![x] = now - Lag] /\ UNCHANGED <<now, lies, reach, came, stored, cursor, visit, still>>
    BY <1>4 DEF Update
  <2>2. now - Lag \in Int /\ now - Lag > now - Margin BY <1>1
  <2>3. stamp' \in [TasksAndDocs -> Int] BY <1>1, <2>1, <2>2
  <2>4. \A t \in Tasks : stamp'[t] = stamp[t] \/ stamp'[t] > now - Margin BY <1>1, <1>2, <2>1, <2>2
  <2>5. now' >= now BY <1>1, <2>1
  <2>6. QED BY <1>1, <2>1, <2>3, <2>4, <2>5, ProviderStep
<1>5. ASSUME NEW x \in TasksAndDocs, NEW l \in Lists \cup {Nowhere}, MoveItem(x, l) PROVE DiscoveryInv'
  <2>1. /\ lies' = [lies EXCEPT ![x] = l] /\ came' = came \cup {x} /\ still' = still \ {x}
        /\ UNCHANGED <<now, stamp, reach, stored, cursor, visit>>
    BY <1>5 DEF MoveItem
  <2>2. lies' \in [TasksAndDocs -> Lists \cup {Nowhere}] BY <1>1, <2>1
  <2>3. \A t \in Tasks : t # x => lies'[t] = lies[t] BY <1>1, <1>2, <2>1
  <2>4. now' >= now BY <1>1, <2>1
  <2>5. QED BY <1>1, <2>1, <2>2, <2>3, <2>4, ProviderStep
<1>6. ASSUME NEW l \in Lists, MoveList(l) PROVE DiscoveryInv'
  <2>1. /\ reach' = (IF l \in reach THEN reach \ {l} ELSE reach \cup {l})
        /\ came' = came \cup {x \in TasksAndDocs : lies[x] = l} /\ still' = {x \in still : lies[x] # l}
        /\ UNCHANGED <<now, lies, stamp, stored, cursor, visit>>
    BY <1>6 DEF MoveList
  <2>2. \A t \in Tasks : lies[t] # l => (lies[t] \in reach' <=> lies[t] \in reach) BY <2>1
  <2>3. \A t \in Tasks : lies[t] = l => t \in came' BY <1>2, <2>1
  <2>4. now' >= now BY <1>1, <2>1
  <2>5. \A t \in Tasks : t \in still' => lies[t] # l BY <2>1
  <2>6. QED BY <1>1, <2>1, <2>2, <2>3, <2>4, <2>5, ProviderStep
<1>7. QED BY <1>3, <1>4, <1>5, <1>6

-----------------------------------------------------------------------------
(* ClickUpDiscovery: the steps of a run.                                   *)

LEMMA StartKeeps == ASSUME DiscoveryInv, NEW asked \in BOOLEAN, StartVisit(asked) PROVE DiscoveryInv'
<1>1. PICK whole : whole = (asked \/ ~HasData) OBVIOUS
<1>2. PICK incremental : incremental = (~whole /\ Known # {} /\ ~WalkDue) OBVIOUS
<1>3. /\ visit' = [NoVisit EXCEPT !.at = "tasks", !.started = now, !.whole = whole, !.lists = reach, !.left = reach,
                                  !.incremental = incremental]
      /\ still' = {x \in TasksAndDocs : InReach(x)} /\ UNCHANGED <<remote, stored, cursor>>
  BY <1>1, <1>2 DEF StartVisit
<1>4. /\ visit'.at = "tasks" /\ visit'.started = now /\ visit'.lists = reach /\ visit'.left = reach
      /\ visit'.incremental = incremental /\ visit'.read = Empty /\ visit'.seen = {} /\ visit'.listed = Empty
      /\ visit' = [x \in VisitFields |-> visit'[x]]
  BY <1>3 DEF NoVisit, VisitFields
<1>5. DOMAIN Empty = {} BY DEF Empty
<1>6. UNCHANGED <<now, lies, stamp, reach, came, stored, cursor>> BY <1>3 DEF remote
<1>7. incremental => cursor # NoCheckpoint BY <1>2 DEF WalkDue
<1>8. DiscoveryTyped' BY <1>4, <1>6 DEF DiscoveryInv, DiscoveryTyped
<1>9. AsListed' BY <1>6 DEF DiscoveryInv, AsListed
<1>10. RunTyped'
  <2>1. now \in Int /\ cursor.since <= now /\ now <= now BY DEF DiscoveryInv, DiscoveryTyped
  <2>2. QED BY <1>4, <1>5, <1>6, <1>7, <2>1 DEF RunTyped
<1>11. ASSUME NEW t \in Tasks PROVE Excused(t)' /\ Followed(t)'
  <2>1. Excused(t)' BY <1>6 DEF DiscoveryInv, Excused, InReach, Current, Updated, Floor
  <2>2. t \in TasksAndDocs BY DEF TasksAndDocs
  <2>3. Stayed(t)' BY <1>3, <1>4, <1>6, <2>2 DEF Stayed, InReach
  <2>4. TextRead(t)' /\ SeenAsIs(t)' BY <1>4, <1>5 DEF TextRead, SeenAsIs
  <2>5. ListedOrKnown(t)' BY <1>4 DEF ListedOrKnown
  <2>6. QED BY <2>1, <2>3, <2>4, <2>5 DEF Followed
<1>12. QED BY <1>8, <1>9, <1>10, <1>11 DEF DiscoveryInv

\* A step of a run that goes on, for what it does to one task.
LEMMA VisitStep ==
  ASSUME DiscoveryInv, UNCHANGED <<remote, stored, cursor, still>>, visit.at # "idle", visit'.at \in {"tasks", "docs"},
         visit' = [x \in VisitFields |-> visit'[x]],
         visit'.started = visit.started, visit'.incremental = visit.incremental, visit'.lists = visit.lists,
         visit'.at = "docs" => visit'.left = {},
         DOMAIN visit'.read \subseteq visit'.seen, DOMAIN visit'.listed \subseteq Docs,
         \A d \in DOMAIN visit'.listed : visit'.listed[d] \in Int,
         \A x \in DOMAIN visit'.read : visit'.read[x] \in Copy,
         \A t \in Tasks : TextRead(t)' /\ SeenAsIs(t)' /\ ListedOrKnown(t)'
  PROVE  DiscoveryInv'
<1>1. UNCHANGED <<now, lies, stamp, reach, came, stored, cursor, still>> BY DEF remote
<1>2. DiscoveryTyped' BY <1>1 DEF DiscoveryInv, DiscoveryTyped
<1>3. AsListed' BY <1>1 DEF DiscoveryInv, AsListed
<1>4. RunTyped' BY <1>1 DEF DiscoveryInv, RunTyped
<1>5. ASSUME NEW t \in Tasks PROVE Excused(t)' /\ Followed(t)'
  <2>1. Excused(t)' BY <1>1 DEF DiscoveryInv, Excused, InReach, Current, Updated, Floor
  <2>2. Stayed(t) BY DEF DiscoveryInv, Followed
  <2>3. Stayed(t)' BY <1>1, <2>2 DEF Stayed, InReach
  <2>4. QED BY <2>1, <2>3 DEF Followed
<1>6. QED BY <1>2, <1>3, <1>4, <1>5 DEF DiscoveryInv

LEMMA ReadListKeeps == ASSUME DiscoveryInv, NEW l \in Lists, ReadList(l) PROVE DiscoveryInv'
<1>1. PICK incremental : incremental = visit.incremental OBVIOUS
<1>2. PICK found : found = {t \in Tasks \ visit.seen : lies[t] = l /\ (visit.incremental => stamp[t] > Floor(cursor.since))}
  OBVIOUS
<1>3. PICK fresh : fresh = {t \in found : ~Unchanged(t, stamp[t])} OBVIOUS
<1>4. PICK read : read = Added(fresh, stamp) OBVIOUS
<1>5. /\ visit.at = "tasks" /\ l \in visit.left /\ UNCHANGED <<remote, stored, cursor, still>>
      /\ visit' = [visit EXCEPT !.left = @ \ {l}, !.seen = @ \cup found, !.read = read]
  BY <1>2, <1>3, <1>4 DEF ReadList
<1>6. visit = [x \in VisitFields |-> visit[x]] BY DEF DiscoveryInv, DiscoveryTyped
<1>7. /\ visit'.at = "tasks" /\ visit'.started = visit.started /\ visit'.incremental = visit.incremental
      /\ visit'.lists = visit.lists /\ visit'.left = visit.left \ {l} /\ visit'.seen = visit.seen \cup found
      /\ visit'.read = read /\ visit'.listed = visit.listed /\ visit'.unreadable = visit.unreadable
      /\ visit' = [x \in VisitFields |-> visit'[x]]
  BY <1>5, <1>6 DEF VisitFields
<1>8. UNCHANGED <<now, lies, stamp, reach, came, stored, cursor, still>> BY <1>5 DEF remote
<1>9. RunTyped /\ stamp \in [TasksAndDocs -> Int] BY DEF DiscoveryInv, DiscoveryTyped
<1>10. fresh \subseteq found /\ found \subseteq Tasks \ visit.seen /\ Tasks \subseteq TasksAndDocs
  BY <1>2, <1>3 DEF TasksAndDocs
<1>11. DOMAIN read = DOMAIN visit.read \cup fresh BY <1>4 DEF Added
<1>12. \A x \in fresh : read[x] = [status |-> "indexed", stamp |-> stamp[x], text |-> stamp[x]] BY <1>4 DEF Added
<1>13. \A x \in DOMAIN visit.read \ fresh : read[x] = visit.read[x] BY <1>4 DEF Added
<1>14. DOMAIN read \subseteq visit'.seen BY <1>5, <1>7, <1>9, <1>10, <1>11 DEF RunTyped
<1>15. \A x \in DOMAIN read : read[x] \in Copy
  <2>1. SUFFICES ASSUME NEW x \in DOMAIN read PROVE read[x] \in Copy OBVIOUS
  <2>2. CASE x \in fresh
    <3>1. stamp[x] \in Int BY <1>9, <1>10, <2>2
    <3>2. read[x] = [status |-> "indexed", stamp |-> stamp[x], text |-> stamp[x]] BY <1>12, <2>2
    <3>3. QED BY <3>1, <3>2 DEF Copy
  <2>3. CASE x \notin fresh BY <1>5, <1>9, <1>11, <1>13, <2>3 DEF RunTyped
  <2>4. QED BY <2>2, <2>3
<1>16. ASSUME NEW t \in Tasks PROVE TextRead(t)' /\ SeenAsIs(t)' /\ ListedOrKnown(t)'
  <2>1. Excused(t) /\ Stayed(t) /\ TextRead(t) /\ SeenAsIs(t) /\ ListedOrKnown(t)
    BY <1>5 DEF DiscoveryInv, Followed
  <2>2. TextRead(t)'
    <3>1. CASE t \in fresh
      <4>1. read[t] = [status |-> "indexed", stamp |-> stamp[t], text |-> stamp[t]] BY <1>12, <3>1
      <4>2. read[t].status = "indexed" /\ read[t].stamp = stamp[t] /\ read[t].text = stamp[t] BY <4>1
      <4>3. QED BY <1>7, <1>8, <4>2 DEF TextRead
    <3>2. CASE t \notin fresh BY <1>7, <1>8, <1>11, <1>13, <2>1, <3>2 DEF TextRead, Updated, Floor
    <3>3. QED BY <3>1, <3>2
  <2>3. SeenAsIs(t)'
    <3>1. CASE t \in found \ fresh
      <4>1. Unchanged(t, stamp[t]) BY <1>3, <3>1
      <4>2. stored[t].status = "indexed" /\ stored[t].stamp = stamp[t] BY <4>1 DEF Unchanged
      <4>3. Current(t) BY <4>2 DEF DiscoveryInv, AsListed, Current
      <4>4. QED BY <1>8, <4>3 DEF SeenAsIs, Current
    <3>2. CASE t \notin found BY <1>7, <1>8, <1>11, <2>1, <3>2 DEF SeenAsIs, Current, Updated, Floor
    <3>3. CASE t \in fresh BY <1>7, <1>11, <3>3 DEF SeenAsIs
    <3>4. QED BY <3>1, <3>2, <3>3
  <2>4. ListedOrKnown(t)'
    <3>1. SUFFICES ASSUME t \in still, lies[t] \in visit.lists \ (visit.left \ {l}), "tasks" \notin visit.unreadable,
                          t \notin visit.seen \cup found
                   PROVE  visit.incremental /\ (Current(t) \/ t \in came \/ Updated(t, visit.started))
      BY <1>7, <1>8 DEF ListedOrKnown, Current, Updated, Floor
    <3>2. CASE lies[t] # l BY <2>1, <3>1, <3>2 DEF ListedOrKnown
    <3>3. CASE lies[t] = l
      <4>1. visit.incremental /\ ~Updated(t, cursor.since) BY <1>2, <3>1, <3>3 DEF Updated
      <4>2. InReach(t) BY <2>1, <3>1 DEF Stayed
      <4>3. cursor # NoCheckpoint BY <1>5, <1>9, <4>1 DEF RunTyped
      <4>4. QED BY <2>1, <4>1, <4>2, <4>3 DEF Excused
    <3>4. QED BY <3>2, <3>3
  <2>5. QED BY <2>2, <2>3, <2>4
<1>17. visit'.at \in {"tasks", "docs"} /\ (visit'.at = "docs" => visit'.left = {}) BY <1>7
<1>18. DOMAIN visit'.listed \subseteq Docs /\ \A d \in DOMAIN visit'.listed : visit'.listed[d] \in Int
  BY <1>5, <1>7, <1>9 DEF RunTyped
<1>19. QED BY <1>5, <1>7, <1>14, <1>15, <1>16, <1>17, <1>18, VisitStep

LEMMA ListUnavailableKeeps == ASSUME DiscoveryInv, NEW l \in Lists, ListUnavailable(l) PROVE DiscoveryInv'
<1>1. /\ visit.at = "tasks" /\ UNCHANGED <<remote, stored, cursor, still>>
      /\ visit' = [visit EXCEPT !.left = @ \ {l}, !.unreadable = @ \cup {"tasks"}]
  BY DEF ListUnavailable
<1>2. visit = [x \in VisitFields |-> visit[x]] BY DEF DiscoveryInv, DiscoveryTyped
<1>3. /\ visit'.at = "tasks" /\ visit'.started = visit.started /\ visit'.incremental = visit.incremental
      /\ visit'.lists = visit.lists /\ visit'.seen = visit.seen /\ visit'.read = visit.read
      /\ visit'.listed = visit.listed /\ "tasks" \in visit'.unreadable /\ visit' = [x \in VisitFields |-> visit'[x]]
  BY <1>1, <1>2 DEF VisitFields
<1>4. UNCHANGED <<now, lies, stamp, reach, came, stored, cursor, still>> BY <1>1 DEF remote
<1>5. RunTyped BY DEF DiscoveryInv
<1>6. ASSUME NEW t \in Tasks PROVE TextRead(t)' /\ SeenAsIs(t)' /\ ListedOrKnown(t)'
  <2>1. TextRead(t) /\ SeenAsIs(t) BY <1>1 DEF DiscoveryInv, Followed
  <2>2. TextRead(t)' /\ SeenAsIs(t)' BY <1>3, <1>4, <2>1 DEF TextRead, SeenAsIs, Current, Updated, Floor
  <2>3. QED BY <1>3, <2>2 DEF ListedOrKnown
<1>7. /\ visit'.at \in {"tasks", "docs"} /\ (visit'.at = "docs" => visit'.left = {})
      /\ DOMAIN visit'.read \subseteq visit'.seen /\ DOMAIN visit'.listed \subseteq Docs
      /\ \A x \in DOMAIN visit'.read : visit'.read[x] \in Copy
      /\ \A d \in DOMAIN visit'.listed : visit'.listed[d] \in Int
  BY <1>1, <1>3, <1>5 DEF RunTyped
<1>8. QED BY <1>1, <1>3, <1>6, <1>7, VisitStep

\* A step that reads no task.
LEMMA DocsStep ==
  ASSUME DiscoveryInv, UNCHANGED <<remote, stored, cursor, still>>, visit.at # "idle", visit.left = {},
         visit' = [x \in VisitFields |-> visit'[x]], visit'.at = "docs",
         visit'.started = visit.started, visit'.incremental = visit.incremental, visit'.lists = visit.lists,
         visit'.left = visit.left, visit.unreadable \subseteq visit'.unreadable,
         DOMAIN visit'.listed \subseteq Docs, DOMAIN visit'.read \subseteq visit'.seen,
         \A x \in DOMAIN visit'.read : visit'.read[x] \in Copy,
         \A d \in DOMAIN visit'.listed : visit'.listed[d] \in Int,
         \A t \in Tasks : (t \in visit'.seen <=> t \in visit.seen)
                          /\ (t \in DOMAIN visit'.read <=> t \in DOMAIN visit.read)
                          /\ (t \in DOMAIN visit.read => visit'.read[t] = visit.read[t])
  PROVE  DiscoveryInv'
<1>1. UNCHANGED <<now, lies, stamp, reach, came, stored, cursor, still>> BY DEF remote
<1>2. ASSUME NEW t \in Tasks PROVE TextRead(t)' /\ SeenAsIs(t)' /\ ListedOrKnown(t)'
  <2>1. TextRead(t) /\ SeenAsIs(t) /\ ListedOrKnown(t) BY DEF DiscoveryInv, Followed
  <2>2. TextRead(t)' BY <1>1, <2>1 DEF TextRead, Updated, Floor
  <2>3. SeenAsIs(t)' BY <1>1, <2>1 DEF SeenAsIs, Current, Updated, Floor
  <2>4. ListedOrKnown(t)' BY <1>1, <2>1 DEF ListedOrKnown, Current, Updated, Floor
  <2>5. QED BY <2>2, <2>3, <2>4
<1>3. QED BY <1>2, VisitStep

LEMMA ListDocsKeeps == ASSUME DiscoveryInv, ListDocs PROVE DiscoveryInv'
<1>1. visit = [x \in VisitFields |-> visit[x]] /\ RunTyped /\ stamp \in [TasksAndDocs -> Int]
  BY DEF DiscoveryInv, DiscoveryTyped
<1>2. visit.at = "tasks" /\ visit.left = {} /\ UNCHANGED <<remote, stored, cursor, still>> BY DEF ListDocs
<1>3. PICK listed : listed = [x \in {d \in Docs : lies[d] \in visit.lists} |-> stamp[x]] OBVIOUS
<1>4. DOMAIN listed \subseteq Docs /\ \A d \in DOMAIN listed : listed[d] \in Int BY <1>1, <1>3 DEF TasksAndDocs
<1>5. CASE visit' = [visit EXCEPT !.at = "docs", !.listed = listed]
  <2>1. /\ visit'.at = "docs" /\ visit'.started = visit.started /\ visit'.incremental = visit.incremental
        /\ visit'.lists = visit.lists /\ visit'.left = visit.left /\ visit'.seen = visit.seen
        /\ visit'.read = visit.read /\ visit'.listed = listed /\ visit'.unreadable = visit.unreadable
        /\ visit' = [x \in VisitFields |-> visit'[x]]
    BY <1>1, <1>5 DEF VisitFields
  <2>2. DOMAIN visit.read \subseteq visit.seen /\ \A x \in DOMAIN visit.read : visit.read[x] \in Copy
    BY <1>1, <1>2 DEF RunTyped
  <2>3. QED BY <1>2, <1>4, <2>1, <2>2, DocsStep
<1>6. CASE visit' = [visit EXCEPT !.at = "docs", !.unreadable = @ \cup {"docs"}]
  <2>1. /\ visit'.at = "docs" /\ visit'.started = visit.started /\ visit'.incremental = visit.incremental
        /\ visit'.lists = visit.lists /\ visit'.left = visit.left /\ visit'.seen = visit.seen
        /\ visit'.read = visit.read /\ visit'.listed = visit.listed /\ visit.unreadable \subseteq visit'.unreadable
        /\ visit' = [x \in VisitFields |-> visit'[x]]
    BY <1>1, <1>6 DEF VisitFields
  <2>2. /\ DOMAIN visit.read \subseteq visit.seen /\ \A x \in DOMAIN visit.read : visit.read[x] \in Copy
        /\ DOMAIN visit.listed \subseteq Docs /\ \A d \in DOMAIN visit.listed : visit.listed[d] \in Int
    BY <1>1, <1>2 DEF RunTyped
  <2>3. QED BY <1>2, <2>1, <2>2, DocsStep
<1>7. QED BY <1>3, <1>5, <1>6 DEF ListDocs

LEMMA DocKeeps == ASSUME DiscoveryInv, NEW d \in Docs, ReadDoc(d) \/ DocUnavailable(d) PROVE DiscoveryInv'
<1>1. visit = [x \in VisitFields |-> visit[x]] /\ RunTyped /\ stamp \in [TasksAndDocs -> Int]
  BY DEF DiscoveryInv, DiscoveryTyped
<1>2. visit.at = "docs" /\ d \in DOMAIN visit.listed \ visit.seen /\ UNCHANGED <<remote, stored, cursor, still>>
  BY DEF ReadDoc, DocUnavailable
<1>3. /\ visit.left = {} /\ DOMAIN visit.read \subseteq visit.seen /\ DOMAIN visit.listed \subseteq Docs
      /\ \A x \in DOMAIN visit.read : visit.read[x] \in Copy
      /\ \A x \in DOMAIN visit.listed : visit.listed[x] \in Int
  BY <1>1, <1>2 DEF RunTyped
<1>4. d \notin Tasks /\ d \in TasksAndDocs BY DiscoveryAssumption DEF TasksAndDocs
<1>5. CASE ReadDoc(d)
  <2>1. PICK read : read = IF Unchanged(d, visit.listed[d]) THEN visit.read ELSE Added({d}, visit.listed) OBVIOUS
  <2>2. visit' = [visit EXCEPT !.seen = @ \cup {d}, !.read = read] BY <1>5, <2>1 DEF ReadDoc
  <2>3. /\ visit'.at = "docs" /\ visit'.started = visit.started /\ visit'.incremental = visit.incremental
        /\ visit'.lists = visit.lists /\ visit'.left = visit.left /\ visit'.seen = visit.seen \cup {d}
        /\ visit'.read = read /\ visit'.listed = visit.listed /\ visit'.unreadable = visit.unreadable
        /\ visit' = [x \in VisitFields |-> visit'[x]]
    BY <1>1, <1>2, <2>2 DEF VisitFields
  <2>4. /\ DOMAIN read \subseteq DOMAIN visit.read \cup {d} /\ DOMAIN visit.read \subseteq DOMAIN read
        /\ \A x \in DOMAIN visit.read : x # d => read[x] = visit.read[x]
    BY <2>1 DEF Added
  <2>5. \A x \in DOMAIN read : read[x] \in Copy
    <3>1. CASE Unchanged(d, visit.listed[d]) BY <1>3, <2>1, <3>1
    <3>2. CASE ~Unchanged(d, visit.listed[d])
      <4>1. read[d] = [status |-> "indexed", stamp |-> visit.listed[d], text |-> stamp[d]] BY <2>1, <3>2 DEF Added
      <4>2. stamp[d] \in Int BY <1>1, <1>4
      <4>3. visit.listed[d] \in Int BY <1>2, <1>3
      <4>4. read[d] \in Copy BY <4>1, <4>2, <4>3 DEF Copy
      <4>5. QED BY <1>3, <2>4, <4>4
    <3>3. QED BY <3>1, <3>2
  <2>6. DOMAIN visit'.read \subseteq visit'.seen BY <1>3, <2>3, <2>4
  <2>7. QED BY <1>2, <1>3, <1>4, <2>3, <2>4, <2>5, <2>6, DocsStep
<1>6. CASE DocUnavailable(d)
  <2>1. visit' = [visit EXCEPT !.seen = @ \cup {d}, !.unreadable = @ \cup {"docs"}] BY <1>6 DEF DocUnavailable
  <2>2. /\ visit'.at = "docs" /\ visit'.started = visit.started /\ visit'.incremental = visit.incremental
        /\ visit'.lists = visit.lists /\ visit'.left = visit.left /\ visit'.seen = visit.seen \cup {d}
        /\ visit'.read = visit.read /\ visit'.listed = visit.listed /\ visit.unreadable \subseteq visit'.unreadable
        /\ visit' = [x \in VisitFields |-> visit'[x]]
    BY <1>1, <1>2, <2>1 DEF VisitFields
  <2>3. QED BY <1>2, <1>3, <1>4, <2>2, DocsStep
<1>7. QED BY <1>5, <1>6
-----------------------------------------------------------------------------
(* ClickUpDiscovery: a run ends.                                           *)

\* With no run under way, and what is stored typed and as listed, only the excuses are left to show.
LEMMA EndStep ==
  ASSUME DiscoveryInv, visit' = NoVisit, UNCHANGED <<now, lies, stamp, reach>>,
         stored' \in [TasksAndDocs -> Copy], AsListed', cursor' \in [since : Int, full : Int], cursor'.since <= now,
         \A t \in Tasks : Excused(t)'
  PROVE  DiscoveryInv'
<1>1. visit'.at = "idle" BY DEF NoVisit
<1>2. visit' = [x \in VisitFields |-> visit'[x]] BY DEF NoVisit, VisitFields
<1>3. NoVisit' = NoVisit BY DEF NoVisit, Empty
<1>4. DiscoveryTyped' BY <1>1, <1>2, <1>3 DEF DiscoveryInv, DiscoveryTyped
<1>5. RunTyped' BY <1>1 DEF RunTyped
<1>6. \A t \in Tasks : Followed(t)' BY <1>1 DEF Followed
<1>7. QED BY <1>4, <1>5, <1>6 DEF DiscoveryInv

\* What a run has read of a task is as listed, and current or updated since the run began.
LEMMA ReadIsDue ==
  ASSUME DiscoveryInv, visit.at # "idle", NEW t \in Tasks, t \in DOMAIN visit.read,
         stored'[t] = visit.read[t], stamp'[t] = stamp[t]
  PROVE  stored'[t].text = stored'[t].stamp /\ (Current(t)' \/ Updated(t, visit.started))
<1>1. TextRead(t) BY DEF DiscoveryInv, Followed
<1>2. QED BY <1>1 DEF TextRead, Current

\* An update since the run began is one since the checkpoint it began with.
LEMMA SinceCheckpoint ==
  ASSUME DiscoveryInv, visit.at # "idle", NEW t \in Tasks, Updated(t, visit.started),
         NEW since \in Int, since <= visit.started
  PROVE  Updated(t, since)
<1>1. visit.started \in Int /\ Margin \in Int BY DiscoveryAssumption DEF DiscoveryInv, RunTyped
<1>2. t \in TasksAndDocs BY DEF TasksAndDocs
<1>3. stamp[t] \in Int BY <1>2 DEF DiscoveryInv, DiscoveryTyped
<1>4. QED BY <1>1, <1>3 DEF Updated, Floor

LEMMA WriteKeeps == ASSUME DiscoveryInv, WriteVisit PROVE DiscoveryInv'
<1>1. /\ visit.at = "docs" /\ visit' = NoVisit /\ cursor' = NextCheckpoint
      /\ UNCHANGED <<now, lies, stamp, reach>>
      /\ came' = IF visit.incremental \/ visit.unreadable # {} THEN came ELSE TasksAndDocs \ still
  BY DEF WriteVisit
<1>2. /\ visit.started \in Int /\ cursor.since <= visit.started /\ visit.started <= now /\ visit.left = {}
      /\ \A x \in DOMAIN visit.read : visit.read[x] \in Copy
  BY <1>1 DEF DiscoveryInv, RunTyped
<1>3. /\ now \in Int /\ cursor \in [since : Int, full : Int] /\ cursor.since <= now
      /\ stored \in [TasksAndDocs -> Copy] /\ Tasks \subseteq TasksAndDocs
  BY DEF DiscoveryInv, DiscoveryTyped, TasksAndDocs
<1>4. PICK gone : gone = Removable OBVIOUS
<1>5. stored' = [x \in TasksAndDocs |-> IF x \in DOMAIN visit.read THEN visit.read[x]
                                       ELSE IF x \in gone THEN [NoCopy EXCEPT !.status = "removed"] ELSE stored[x]]
  BY <1>4 DEF WriteVisit
<1>6. PICK taken : taken = [NoCopy EXCEPT !.status = "removed"] OBVIOUS
<1>7. taken \in Copy /\ taken.status = "removed" BY <1>6 DEF NoCopy, Copy
<1>8. ASSUME NEW x \in TasksAndDocs
      PROVE  /\ x \in DOMAIN visit.read => stored'[x] = visit.read[x]
             /\ x \notin DOMAIN visit.read /\ x \in gone => stored'[x] = taken
             /\ x \notin DOMAIN visit.read /\ x \notin gone => stored'[x] = stored[x]
  BY <1>5, <1>6
<1>9. stored' \in [TasksAndDocs -> Copy]
  <2>1. \A x \in TasksAndDocs : stored'[x] \in Copy BY <1>2, <1>3, <1>7, <1>8
  <2>2. stored' = [x \in TasksAndDocs |-> stored'[x]] BY <1>5
  <2>3. QED BY <2>1, <2>2
<1>10. AsListed'
  <2>1. SUFFICES ASSUME NEW t \in Tasks, stored'[t].status \in {"indexed", "rebuild"}
                 PROVE  stored'[t].text = stored'[t].stamp
    BY DEF AsListed
  <2>2. CASE t \in DOMAIN visit.read BY <1>1, <1>3, <1>8, <2>2, ReadIsDue
  <2>3. CASE t \notin DOMAIN visit.read BY <1>3, <1>7, <1>8, <2>1, <2>3 DEF DiscoveryInv, AsListed
  <2>4. QED BY <2>2, <2>3
<1>11. /\ visit.unreadable # {} => cursor' = cursor
       /\ visit.unreadable = {} => cursor'.since = visit.started
       /\ cursor' \in [since : Int, full : Int]
  <2>1. CASE visit.unreadable # {} BY <1>1, <1>3, <2>1 DEF NextCheckpoint
  <2>2. CASE visit.unreadable = {}
    <3>1. PICK full : full = IF visit.incremental THEN cursor.full ELSE visit.started OBVIOUS
    <3>2. full \in Int BY <1>2, <1>3, <3>1
    <3>3. cursor' = [since |-> visit.started, full |-> full] BY <1>1, <2>2, <3>1 DEF NextCheckpoint
    <3>4. QED BY <1>2, <2>2, <3>2, <3>3
  <2>3. QED BY <2>1, <2>2
<1>12. cursor'.since \in Int /\ cursor'.since <= visit.started /\ cursor'.since <= now BY <1>2, <1>3, <1>11
<1>13. ASSUME NEW t \in Tasks PROVE Excused(t)'
  <2>1. /\ InReach(t) => t \in still \cup came
        /\ t \in still => lies[t] \in visit.lists
        /\ SeenAsIs(t) /\ ListedOrKnown(t) /\ Excused(t)
    BY <1>1 DEF DiscoveryInv, Followed, Stayed
  <2>2. t \in TasksAndDocs BY <1>3
  <2>3. SUFFICES ASSUME InReach(t), t \notin came' PROVE Current(t)' \/ cursor' = NoCheckpoint \/ Updated(t, cursor'.since)
    <3>1. InReach(t)' <=> InReach(t) BY <1>1 DEF InReach
    <3>2. Updated(t, cursor.since)' <=> Updated(t, cursor'.since) BY <1>1 DEF Updated, Floor
    <3>3. QED BY <2>3, <3>1, <3>2 DEF Excused
  <2>4. Updated(t, visit.started) => Updated(t, cursor'.since) BY <1>1, <1>12, SinceCheckpoint
  <2>5. t \notin came => t \in still BY <2>1, <2>3
  <2>6. t \in still \/ (visit.incremental \/ visit.unreadable # {}) BY <1>1, <2>2, <2>3
  <2>7. t \in still BY <1>1, <2>3, <2>5, <2>6
  <2>8. CASE t \in DOMAIN visit.read BY <1>1, <1>8, <2>2, <2>4, <2>8, ReadIsDue
  <2>9. CASE t \notin DOMAIN visit.read /\ t \in gone
    <3>1. t \notin visit.seen /\ ~visit.incremental /\ "tasks" \notin visit.unreadable BY <1>4, <2>9 DEF Removable
    <3>2. QED BY <1>2, <2>1, <2>7, <3>1 DEF ListedOrKnown
  <2>10. CASE t \notin DOMAIN visit.read /\ t \notin gone
    <3>1. Current(t)' <=> Current(t) BY <1>1, <1>8, <2>2, <2>10 DEF Current
    <3>2. CASE visit.unreadable # {} BY <1>1, <1>11, <2>1, <2>3, <3>1, <3>2 DEF Excused
    <3>3. CASE visit.unreadable = {}
      <4>1. CASE t \in visit.seen BY <2>1, <2>4, <2>10, <3>1, <4>1 DEF SeenAsIs
      <4>2. CASE t \notin visit.seen
        <5>1. visit.incremental /\ (Current(t) \/ t \in came \/ Updated(t, visit.started))
          BY <1>2, <2>1, <2>7, <3>3, <4>2 DEF ListedOrKnown
        <5>2. t \notin came BY <1>1, <2>3, <5>1
        <5>3. QED BY <2>4, <3>1, <5>1, <5>2
      <4>3. QED BY <4>1, <4>2
    <3>4. QED BY <3>2, <3>3
  <2>11. QED BY <2>8, <2>9, <2>10
<1>14. QED BY <1>1, <1>9, <1>10, <1>11, <1>12, <1>13, EndStep

LEMMA BreakOffKeeps == ASSUME DiscoveryInv, BreakOff PROVE DiscoveryInv'
<1>1. visit # NoVisit /\ visit' = NoVisit /\ UNCHANGED <<now, lies, stamp, reach, came, cursor>>
  BY DEF BreakOff, remote
<1>2. visit.at # "idle" BY <1>1 DEF DiscoveryInv, DiscoveryTyped
<1>3. PICK done \in SUBSET DOMAIN visit.read :
        stored' = [x \in TasksAndDocs |-> IF x \in done THEN visit.read[x] ELSE stored[x]]
  BY DEF BreakOff
<1>4. /\ cursor.since <= visit.started /\ \A x \in DOMAIN visit.read : visit.read[x] \in Copy
  BY <1>2 DEF DiscoveryInv, RunTyped
<1>5. /\ cursor \in [since : Int, full : Int] /\ cursor.since \in Int /\ cursor.since <= now
      /\ stored \in [TasksAndDocs -> Copy] /\ Tasks \subseteq TasksAndDocs
  BY DEF DiscoveryInv, DiscoveryTyped, TasksAndDocs
<1>6. stored' \in [TasksAndDocs -> Copy] BY <1>3, <1>4, <1>5
<1>7. ASSUME NEW t \in Tasks PROVE (t \in done => stored'[t] = visit.read[t]) /\ (t \notin done => stored'[t] = stored[t])
  BY <1>3, <1>5
<1>8. AsListed'
  <2>1. SUFFICES ASSUME NEW t \in Tasks, stored'[t].status \in {"indexed", "rebuild"}
                 PROVE  stored'[t].text = stored'[t].stamp
    BY DEF AsListed
  <2>2. CASE t \in done BY <1>1, <1>2, <1>3, <1>7, <2>2, ReadIsDue
  <2>3. CASE t \notin done BY <1>7, <2>1, <2>3 DEF DiscoveryInv, AsListed
  <2>4. QED BY <2>2, <2>3
<1>9. ASSUME NEW t \in Tasks PROVE Excused(t)'
  <2>1. CASE t \in done
    <3>1. Current(t)' \/ Updated(t, visit.started) BY <1>1, <1>2, <1>3, <1>7, <2>1, ReadIsDue
    <3>2. Current(t)' \/ Updated(t, cursor.since) BY <1>2, <1>4, <1>5, <3>1, SinceCheckpoint
    <3>3. QED BY <1>1, <3>2 DEF Excused, Updated, Floor
  <2>2. CASE t \notin done
    <3>1. Excused(t) BY DEF DiscoveryInv
    <3>2. Current(t)' <=> Current(t) BY <1>1, <1>7, <2>2 DEF Current
    <3>3. QED BY <1>1, <3>1, <3>2 DEF Excused, InReach, Updated, Floor
  <2>3. QED BY <2>1, <2>2
<1>10. QED BY <1>1, <1>5, <1>6, <1>8, <1>9, EndStep

LEMMA RebuildKeeps == ASSUME DiscoveryInv, RebuildAll PROVE DiscoveryInv'
<1>1. /\ visit' = NoVisit /\ UNCHANGED <<now, lies, stamp, reach, came, cursor>>
      /\ stored' = [x \in TasksAndDocs |->
                      IF stored[x].status = "indexed" THEN [stored[x] EXCEPT !.status = "rebuild"] ELSE stored[x]]
  BY DEF RebuildAll
<1>2. /\ cursor \in [since : Int, full : Int] /\ cursor.since <= now
      /\ stored \in [TasksAndDocs -> Copy] /\ Tasks \subseteq TasksAndDocs
  BY DEF DiscoveryInv, DiscoveryTyped, TasksAndDocs
<1>3. ASSUME NEW x \in TasksAndDocs
      PROVE  /\ stored'[x] \in Copy /\ stored'[x].text = stored[x].text /\ stored'[x].stamp = stored[x].stamp
             /\ stored'[x].status \in {"indexed", "rebuild"} <=> stored[x].status \in {"indexed", "rebuild"}
  <2>1. stored[x] \in Copy BY <1>2
  <2>2. CASE stored[x].status = "indexed"
    <3>1. stored'[x] = [stored[x] EXCEPT !.status = "rebuild"] BY <1>1, <2>2
    <3>2. QED BY <2>1, <2>2, <3>1 DEF Copy
  <2>3. CASE stored[x].status # "indexed"
    <3>1. stored'[x] = stored[x] BY <1>1, <2>3
    <3>2. QED BY <2>1, <3>1
  <2>4. QED BY <2>2, <2>3
<1>4. stored' \in [TasksAndDocs -> Copy] BY <1>1, <1>3
<1>5. AsListed' BY <1>2, <1>3 DEF DiscoveryInv, AsListed
<1>6. ASSUME NEW t \in Tasks PROVE Excused(t)'
  <2>1. Excused(t) BY DEF DiscoveryInv
  <2>2. t \in TasksAndDocs BY <1>2
  <2>3. Current(t)' <=> Current(t) BY <1>1, <1>3, <2>2 DEF Current
  <2>4. QED BY <1>1, <2>1, <2>3 DEF Excused, InReach, Updated, Floor
<1>7. QED BY <1>1, <1>2, <1>4, <1>5, <1>6, EndStep

-----------------------------------------------------------------------------

LEMMA DiscoveryStarts == ASSUME DiscoveryInit PROVE DiscoveryInv
<1>1. /\ now = Margin /\ stamp = [x \in TasksAndDocs |-> 0] /\ lies \in Places
      /\ stored = [x \in TasksAndDocs |-> NoCopy] /\ cursor = NoCheckpoint /\ visit = NoVisit
  BY DEF DiscoveryInit
<1>2. visit.at = "idle" BY <1>1 DEF NoVisit
<1>3. DiscoveryTyped
  <2>1. now \in Int /\ now >= Margin /\ 0 <= now BY <1>1, DiscoveryAssumption
  <2>2. lies \in [TasksAndDocs -> Lists \cup {Nowhere}] BY <1>1, DiscoveryAssumption DEF TasksAndDocs
  <2>3. NoCopy \in Copy BY DEF NoCopy, Copy
  <2>4. cursor \in [since : Int, full : Int] /\ cursor.since = 0 BY <1>1 DEF NoCheckpoint
  <2>5. visit = [x \in VisitFields |-> visit[x]] BY <1>1 DEF NoVisit, VisitFields
  <2>6. stamp \in [TasksAndDocs -> Int] /\ stored \in [TasksAndDocs -> Copy] BY <1>1, <2>3
  <2>7. QED BY <1>1, <1>2, <2>1, <2>2, <2>4, <2>5, <2>6 DEF DiscoveryTyped
<1>4. AsListed BY <1>1 DEF AsListed, NoCopy, TasksAndDocs
<1>5. RunTyped BY <1>2 DEF RunTyped
<1>6. \A t \in Tasks : Excused(t) /\ Followed(t) BY <1>1, <1>2 DEF Excused, Followed
<1>7. QED BY <1>3, <1>4, <1>5, <1>6 DEF DiscoveryInv

LEMMA DiscoveryKeeps == ASSUME DiscoveryInv, [DiscoveryNext]_discoveryVars PROVE DiscoveryInv'
<1>1. CASE ClockTicks \/ (\E x \in TasksAndDocs : Update(x) \/ \E l \in Lists \cup {Nowhere} : MoveItem(x, l))
  BY <1>1, ProviderKeeps
<1>2. CASE \E l \in Lists : MoveList(l) \/ ReadList(l) \/ ListUnavailable(l)
  BY <1>2, ProviderKeeps, ReadListKeeps, ListUnavailableKeeps
<1>3. CASE \E whole \in BOOLEAN : StartVisit(whole) BY <1>3, StartKeeps
<1>4. CASE ListDocs \/ \E d \in Docs : ReadDoc(d) \/ DocUnavailable(d) BY <1>4, ListDocsKeeps, DocKeeps
<1>5. CASE WriteVisit \/ BreakOff \/ RebuildAll BY <1>5, WriteKeeps, BreakOffKeeps, RebuildKeeps
<1>6. CASE UNCHANGED discoveryVars
  BY <1>6 DEF discoveryVars, remote, DiscoveryInv, DiscoveryTyped, AsListed, RunTyped, Excused, Followed, Stayed,
              TextRead, SeenAsIs, ListedOrKnown, Current, InReach, Updated, Floor
<1>7. QED BY <1>1, <1>2, <1>3, <1>4, <1>5, <1>6 DEF DiscoveryNext

\* A task of the selection whose present text is not in the index is read by the next run of its
\* space, whatever was edited, moved or unreadable during the runs before: the floor of a listing
\* of changes is the start of the run before, less the margin for ClickUp's clock, and only a task
\* that came into reach without an update waits for the next complete walk.
THEOREM DueTaskIsReadAlways == DiscoverySpec => []DueTaskIsRead
<1>1. DiscoveryInit => DiscoveryInv BY DiscoveryStarts
<1>2. DiscoveryInv /\ [DiscoveryNext]_discoveryVars => DiscoveryInv' BY DiscoveryKeeps
<1>3. DiscoveryInv => DueTaskIsRead BY DEF DiscoveryInv, Excused, DueTaskIsRead, WalkDue, Updated
<1>4. QED BY <1>1, <1>2, <1>3, PTL DEF DiscoverySpec

-----------------------------------------------------------------------------
(* RemoteHttp: requests and downloads.                                     *)

CallRecord == [at : {"new", "sleeping", "sent", "again", "answered", "throttled"}, attempt : Nat, target : Nat,
               wait : Nat, waited : Nat, passed : Nat]

GateTyped ==
    /\ clock \in Nat /\ notBefore \in Nat /\ blockedUntil \in Nat
    /\ calls \in [Calls -> CallRecord]

\* What a call has yet to sleep is within its budget too, and it leaves at its target, not before.
Patient(call) ==
    /\ call.waited <= MaxTotalWait
    /\ call.at = "sleeping" => call.waited + call.wait <= MaxTotalWait
    /\ call.at = "sent" => call.passed <= clock

\* A download keeps to the version it was described by, and ends with a content its hash matches.
Described ==
    /\ version \in Versions
    /\ download \in [at : {"idle", "fetch", "done", "failed"}, described : Versions, hash : {"strong", "quick", "none"},
                known : Nat, total : Nat, tries : Nat]
    /\ download.at = "done" => HashMatches(dest)

TransportInv == GateTyped /\ (\A c \in Calls : Patient(calls[c])) /\ Described

\* The record Retryable makes of a call that is tried again.
LEMMA AgainRecord ==
  ASSUME NEW call \in CallRecord, NEW n \in Nat,
         NEW r, r = [call EXCEPT !.at = "again", !.attempt = n, !.passed = 0, !.target = 0]
  PROVE  r \in CallRecord /\ r.at = "again" /\ r.waited = call.waited
BY DEF CallRecord

LEMMA GateStep == ASSUME TransportAssumption, GateTyped, \A c \in Calls : Patient(calls[c]), GateNext
                  PROVE  GateTyped' /\ \A c \in Calls : Patient(calls[c])'
<1>0. MaxTotalWait \in Nat /\ MinInterval \in Nat /\ Delays \subseteq Nat
  BY DEF TransportAssumption
<1> USE <1>0 DEF GateTyped, Greater, Beyond
<1>1. CASE Tick
  <2>1. GateTyped' /\ calls' = calls /\ clock <= clock'
    BY <1>1 DEF Tick
  <2>2. ASSUME NEW c \in Calls PROVE Patient(calls[c])'
    BY <1>1, <2>1 DEF Patient, CallRecord
  <2> QED
    BY <2>1, <2>2
<1>2. ASSUME NEW c \in Calls, Enter(c) \/ Wake(c) \/ Answered(c) \/ \E t \in BOOLEAN, d \in Delays : Retryable(c, t, d)
      PROVE  \E next \in CallRecord :
               /\ Patient(next) /\ calls' = [calls EXCEPT ![c] = next]
               /\ clock' = clock /\ notBefore' \in Nat /\ blockedUntil' \in Nat
  <2> DEFINE call == calls[c]
  <2>1. call \in CallRecord /\ Patient(call)
    OBVIOUS
  <2>0. /\ call.target \in Nat /\ call.wait \in Nat /\ call.waited \in Nat /\ call.attempt \in Nat
        /\ call.waited <= MaxTotalWait
    BY <2>1 DEF CallRecord, Patient
  <2>ended. ASSUME NEW how \in {"throttled", "answered"}, NEW w \in Nat, w <= MaxTotalWait
         PROVE  [New EXCEPT !.at = how, !.waited = w] \in CallRecord /\ Patient([New EXCEPT !.at = how, !.waited = w])
    BY <2>ended DEF New, CallRecord, Patient
  <2>2. CASE Enter(c)
    <3> DEFINE target == Greater(clock, Greater(notBefore, blockedUntil))
               wait == Beyond(target, clock)
               next == IF TooLong(call, wait) THEN [New EXCEPT !.at = "throttled", !.waited = call.waited]
                       ELSE [call EXCEPT !.at = "sleeping", !.target = target, !.wait = wait]
    <3>1. calls' = [calls EXCEPT ![c] = next] /\ clock' = clock /\ notBefore' \in Nat /\ blockedUntil' = blockedUntil
      BY <2>2 DEF Enter, Sleep
    <3>2. target \in Nat /\ wait \in Nat
      OBVIOUS
    <3>3. CASE TooLong(call, wait)
      BY <2>0, <2>ended, <3>1, <3>3
    <3>4. CASE ~TooLong(call, wait)
      <4> DEFINE s == [call EXCEPT !.at = "sleeping", !.target = target, !.wait = wait]
      <4> HIDE DEF target, wait
      <4>1. s \in CallRecord
        BY <2>1, <3>2 DEF CallRecord
      <4>2. s.at = "sleeping" /\ s.wait = wait /\ s.waited = call.waited
        BY <2>1 DEF CallRecord
      <4>3. Patient(s)
        BY <2>0, <3>2, <3>4, <4>2 DEF TooLong, Patient
      <4> QED
        BY <3>1, <3>4, <4>1, <4>3
    <3> QED
      BY <3>3, <3>4
  <2>3. CASE Wake(c)
    <3> DEFINE s == Slept(c)
               wait == Beyond(blockedUntil, Greater(s.target, clock))
    <3>total. PICK total : total = call.waited + call.wait
      OBVIOUS
    <3>0. s = [call EXCEPT !.waited = total, !.wait = 0] /\ total \in Nat
      BY <2>0, <3>total DEF Slept
    <3> HIDE DEF call, s
    <3>1. s \in CallRecord /\ s.target = call.target /\ s.waited = call.waited + call.wait /\ s.at = call.at
      BY <2>1, <3>0, <3>total DEF CallRecord
    <3> USE DEF call, s
    <3>2. call.at = "sleeping" /\ call.target <= clock /\ s.waited <= MaxTotalWait /\ clock' = clock /\ blockedUntil' = blockedUntil
      BY <2>0, <2>1, <2>3, <3>1 DEF Wake, Patient
    <3> HIDE DEF s
    <3>3. CASE /\ Passes(c) /\ UNCHANGED notBefore
               /\ calls' = [calls EXCEPT ![c] = [s EXCEPT !.at = "sent", !.passed = blockedUntil]]
      <4> DEFINE sent == [s EXCEPT !.at = "sent", !.passed = blockedUntil]
      <4>1. sent \in CallRecord /\ sent.at = "sent" /\ sent.passed = blockedUntil /\ sent.waited = s.waited
        BY <3>1 DEF CallRecord
      <4>2. Patient(sent)
        BY <2>0, <3>2, <3>3, <4>1 DEF Passes, Patient
      <4> QED
        BY <3>2, <3>3, <4>1, <4>2
    <3>4. CASE /\ calls' = [calls EXCEPT ![c] = IF TooLong(s, wait) THEN [New EXCEPT !.at = "throttled", !.waited = s.waited]
                                                ELSE [s EXCEPT !.target = blockedUntil, !.wait = wait]]
               /\ notBefore' = Greater(notBefore, blockedUntil + MinInterval)
      <4>1. wait \in Nat /\ s.waited \in Nat
        BY <2>0, <3>1
      <4>2. CASE TooLong(s, wait)
        <5>1. calls' = [calls EXCEPT ![c] = [New EXCEPT !.at = "throttled", !.waited = s.waited]] /\ notBefore' \in Nat
          BY <3>4, <4>2
        <5> QED
          BY <2>ended, <3>2, <4>1, <5>1
      <4>3. CASE ~TooLong(s, wait)
        <5> DEFINE more == [s EXCEPT !.target = blockedUntil, !.wait = wait]
        <5> HIDE DEF wait
        <5>1. more \in CallRecord /\ more.at = s.at /\ more.wait = wait /\ more.waited = s.waited
          BY <3>1, <4>1 DEF CallRecord
        <5>2. Patient(more)
          BY <3>1, <3>2, <4>1, <4>3, <5>1 DEF TooLong, Patient
        <5>3. calls' = [calls EXCEPT ![c] = more]
          BY <3>4, <4>3
        <5> HIDE DEF more
        <5>4. notBefore' \in Nat
          BY <3>4
        <5> QED
          BY <3>2, <5>1, <5>2, <5>3, <5>4
      <4> QED
        BY <4>2, <4>3
    <3> QED
      BY <2>3, <3>3, <3>4 DEF Wake, s
  <2>4. CASE Answered(c)
    BY <2>0, <2>ended, <2>4 DEF Answered, Finished
  <2>5. ASSUME NEW t \in BOOLEAN, NEW d \in Delays, Retryable(c, t, d)
        PROVE  \E next \in CallRecord :
                 /\ Patient(next) /\ calls' = [calls EXCEPT ![c] = next]
                 /\ clock' = clock /\ notBefore' \in Nat /\ blockedUntil' \in Nat
    <3> DEFINE again == [call EXCEPT !.at = "again", !.attempt = call.attempt + 1, !.passed = 0, !.target = 0]
    <3>0. call.attempt + 1 \in Nat
      BY <2>0
    <3> HIDE DEF call
    <3>1. again \in CallRecord /\ again.at = "again" /\ again.waited = call.waited
      BY <2>1, <3>0, AgainRecord
    <3> USE DEF call
    <3>2. Patient(again)
      BY <2>0, <3>1 DEF Patient
    <3>3. clock' = clock /\ notBefore' = notBefore /\ blockedUntil' \in Nat
      BY <2>5 DEF Retryable
    <3>4. calls' = [calls EXCEPT ![c] = again] \/ Finished(c, "throttled") \/ Finished(c, "answered")
      BY <2>5 DEF Retryable
    <3> HIDE DEF again
    <3>5. CASE calls' = [calls EXCEPT ![c] = again]
      BY <3>1, <3>2, <3>3, <3>5
    <3>6. ASSUME NEW how \in {"throttled", "answered"}, Finished(c, how)
          PROVE  \E next \in CallRecord : Patient(next) /\ calls' = [calls EXCEPT ![c] = next]
      BY <2>0, <2>ended, <3>6 DEF Finished
    <3> QED
      BY <3>3, <3>4, <3>5, <3>6
  <2> QED
    BY <1>2, <2>2, <2>3, <2>4, <2>5
<1>3. ASSUME NEW c \in Calls, NEW next \in CallRecord, Patient(next), calls' = [calls EXCEPT ![c] = next],
             clock' = clock, notBefore' \in Nat, blockedUntil' \in Nat
      PROVE  GateTyped' /\ \A o \in Calls : Patient(calls[o])'
  <2>1. GateTyped'
    BY <1>3
  <2>2. ASSUME NEW o \in Calls PROVE Patient(calls[o])'
    BY <1>3 DEF Patient
  <2> QED
    BY <2>1, <2>2
<1> QED
  BY <1>1, <1>2, <1>3 DEF GateNext

LEMMA DownloadStep == ASSUME TransportAssumption, Described, DownloadNext PROVE Described'
<1>0. \A v \in Versions : Size[v] \in Nat
  BY DEF TransportAssumption, Versions
<1> USE <1>0 DEF Described
<1>1. CASE Replace
  BY <1>1 DEF Replace, HashMatches
<1>2. ASSUME NEW h \in {"strong", "quick", "none"}, NEW known \in Nat, OpenDownload(h, known) PROVE Described'
  BY <1>2 DEF OpenDownload, NoDownload
<1>3. CASE DownloadFails /\ UNCHANGED version
  BY <1>3 DEF DownloadFails
<1>goesOn. ASSUME NEW total \in Nat, NEW tries \in Nat, download.at = "fetch", version' = version,
             download' = [download EXCEPT !.total = total, !.tries = tries]
      PROVE  Described'
  BY <1>goesOn
<1>4. ASSUME NEW d \in BOOLEAN, Block(d) PROVE Described'
  <2> DEFINE total == IF download.total # Unknown THEN download.total
                      ELSE IF d \/ Len(dest) + 1 = Size[version] THEN Size[version] ELSE Unknown
  <2>1. total \in Nat /\ download.at = "fetch" /\ version' = version
    BY <1>4 DEF Block, MoreBlocks, Unknown
  <2>2. DownloadFails \/ download' = [download EXCEPT !.total = total, !.tries = 0]
    BY <1>4 DEF Block
  <2> QED
    BY <1>3, <1>goesOn, <2>1, <2>2
<1>5. CASE Whole
  BY <1>3, <1>goesOn, <1>5 DEF Whole, MoreBlocks
<1>6. CASE Dropped
  <2>1. download.at = "fetch" /\ version' = version /\ download.total \in Nat /\ download.tries + 1 \in Nat
    BY <1>6 DEF Dropped, MoreBlocks
  <2>2. DownloadFails \/ download' = [download EXCEPT !.tries = download.tries + 1]
    BY <1>6 DEF Dropped
  <2> QED
    BY <1>3, <2>1, <2>2
<1>7. CASE Refused
  BY <1>3, <1>7 DEF Refused
<1>8. CASE Verify
  BY <1>3, <1>8 DEF Verify, HashMatches
<1> QED
  BY <1>1, <1>2, <1>4, <1>5, <1>6, <1>7, <1>8 DEF DownloadNext, Unknown

\* Requests and downloads keep their word however calls, blocks, answers and replacements of the file
\* interleave, for any number of calls and versions and any policy (http.py:105-136, :192-219).
THEOREM TransportKeptAlways == ASSUME TransportAssumption PROVE TransportSpec => []TransportKept
<1>1. GateInit /\ DownloadInit => TransportInv
  BY DEF GateInit, DownloadInit, TransportInv, GateTyped, CallRecord, New, Patient, Described, NoDownload, Versions,
         Unknown, TransportAssumption
<1>2. TransportInv /\ [\/ GateNext /\ UNCHANGED downloadVars
                       \/ DownloadNext /\ UNCHANGED gateVars]_<<gateVars, downloadVars>> => TransportInv'
  <2> SUFFICES ASSUME TransportInv, [\/ GateNext /\ UNCHANGED downloadVars
                                     \/ DownloadNext /\ UNCHANGED gateVars]_<<gateVars, downloadVars>>
               PROVE  TransportInv'
    OBVIOUS
  <2>1. UNCHANGED downloadVars => Described'
    BY DEF TransportInv, Described, downloadVars, HashMatches, Versions
  <2>2. UNCHANGED gateVars => GateTyped' /\ \A c \in Calls : Patient(calls[c])'
    BY DEF TransportInv, GateTyped, Patient, gateVars
  <2> QED
    BY <2>1, <2>2, GateStep, DownloadStep DEF TransportInv
<1>3. TransportInv => TransportKept
  <2> SUFFICES ASSUME TransportInv PROVE TransportKept
    OBVIOUS
  <2>1. WaitsWithinBudget /\ SentAfterBlocks
    BY DEF TransportInv, Patient, WaitsWithinBudget, SentAfterBlocks
  <2>2. ASSUME download.at = "done", download.hash = "strong"
        PROVE  Len(dest) = Size[download.described] /\ \A i \in DOMAIN dest : dest[i] = download.described
    <3>1. dest = [i \in 1..Size[download.described] |-> download.described] /\ Size[download.described] \in Nat
      BY <2>2 DEF TransportInv, Described, HashMatches, Versions, TransportAssumption
    <3> QED
      BY <3>1
  <2> QED
    BY <2>1, <2>2 DEF TransportKept, ReturnsTheFileDescribed
<1> QED
  BY <1>1, <1>2, <1>3, PTL DEF TransportSpec
=============================================================================
