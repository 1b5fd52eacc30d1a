------------------------------ MODULE Scheduler ------------------------------
(***************************************************************************)
(* The periodic scheduler of folder synchronisations,                      *)
(* schedule_connected_source_reconciliations.  A beat looks at every scope *)
(* (workspace folder) of a connected source in a fixed order and queues    *)
(* the stale ones, at most MaxPerOrg per organisation.                     *)
(*                                                                         *)
(* Time is counted in beats.  The age of an event is the number of beats   *)
(* since it happened, so at a beat the event is between age and age + 1    *)
(* intervals old, and an age stops growing when no comparison can tell it  *)
(* from an older one.  A job is "active" or not: module SyncJob has its    *)
(* whole life.                                                             *)
(***************************************************************************)
EXTENDS Integers, Sequences, FiniteSets

CONSTANTS
  FolderOrder,     \* the folders, in the order of the query (org, source, id)
  SourceOf,        \* folder -> its data source
  OrgOf,           \* folder -> its organisation
  RobotSources,    \* sources whose provider is google_drive_sa
  RobotOrgs,       \* organisations for which the robot is enabled
  OcrFolders,      \* folders with more pages than one job's OCR budget
  FreshBeats,      \* sync_freshness_hours, in beats
  CooldownBeats,   \* sync_scheduler_failure_cooldown_minutes, in beats
  MaxPerOrg,       \* sync_scheduler_max_concurrent_per_org
  MaxWait          \* bound the property WaitBounded claims, in beats

Scopes == {FolderOrder[i] : i \in DOMAIN FolderOrder}
Sources == {SourceOf[f] : f \in Scopes}

ASSUME SchedulerAssumption ==
  /\ FolderOrder \in Seq(Scopes)
  /\ \A i, k \in DOMAIN FolderOrder : FolderOrder[i] = FolderOrder[k] => i = k
  /\ DOMAIN SourceOf = Scopes /\ DOMAIN OrgOf = Scopes
  /\ OcrFolders \subseteq Scopes
  /\ FreshBeats \in Nat \ {0} /\ CooldownBeats \in Nat \ {0}
  /\ MaxPerOrg \in Nat \ {0} /\ MaxWait \in Nat

VARIABLES
  linked,       \* source -> DataSource.status is "connected"
  sourceAge,    \* source -> age of DataSource.last_synced_at
  folderAge,    \* folder -> age of WorkspaceFolder.last_synced_at
  failAge,      \* folder -> age of the end of its latest failed job
  active,       \* folder -> it has a queued or syncing job
  accessLost,   \* folder -> the robot lost access to it
  ocrBacklog,   \* folder -> it has documents failed with ocr_budget_exceeded
  waited        \* history: beats in a row at which the cap left the folder out

schedulerVars ==
  <<linked, sourceAge, folderAge, failAge, active, accessLost, ocrBacklog, waited>>

IsRobot(f) == SourceOf[f] \in RobotSources

Before(g, f) == \E i, k \in DOMAIN FolderOrder :
                  i < k /\ FolderOrder[i] = g /\ FolderOrder[k] = f

\* Freshness of a robot folder is one interval of the scheduler itself.
FolderLimit(f) == IF IsRobot(f) THEN 1 ELSE FreshBeats

Older(age, limit) == IF age < limit THEN age + 1 ELSE limit

-----------------------------------------------------------------------------
(* The scheduler                                                           *)

\* The age the loop compares with the cutoff: of the folder for a robot, of the
\* whole source for everybody else.
Stale(f) == IF IsRobot(f) THEN folderAge[f] = FolderLimit(f)
                          ELSE sourceAge[SourceOf[f]] = FreshBeats

\* Mutant of Eligible: a failed folder is tried again at once.
EligibleHot(f) ==
  /\ linked[SourceOf[f]]
  /\ IsRobot(f) => OrgOf[f] \in RobotOrgs /\ ~accessLost[f]
  /\ Stale(f) \/ ocrBacklog[f]
  /\ ~active[f]

\* The guards of the loop, the cap aside.
Eligible(f) ==
  /\ linked[SourceOf[f]]
  /\ IsRobot(f) => OrgOf[f] \in RobotOrgs /\ ~accessLost[f]
  /\ Stale(f) \/ ocrBacklog[f]
  /\ ~active[f]
  /\ failAge[f] = CooldownBeats

\* Mutant of Ahead: a scope that is skipped counts too.
AheadSkipped(f) == {g \in Scopes : OrgOf[g] = OrgOf[f] /\ Before(g, f)}

\* Scopes of the organisation the loop queues, or would, before it comes to f.
Ahead(f) == {g \in Scopes : /\ OrgOf[g] = OrgOf[f]
                             /\ Before(g, f)
                             /\ Eligible(g)}

Queued == {f \in Scopes : Eligible(f) /\ Cardinality(Ahead(f)) < MaxPerOrg}

\* One beat, one transaction.
Beat ==
  /\ active' = [f \in Scopes |-> active[f] \/ f \in Queued]
  /\ waited' = [f \in Scopes |->
       IF ~Eligible(f) \/ f \in Queued THEN 0 ELSE Older(waited[f], MaxWait + 1)]
  /\ sourceAge' = [s \in Sources |-> Older(sourceAge[s], FreshBeats)]
  /\ folderAge' = [f \in Scopes |-> Older(folderAge[f], FolderLimit(f))]
  /\ failAge' = [f \in Scopes |-> Older(failAge[f], CooldownBeats)]
  /\ UNCHANGED <<linked, accessLost, ocrBacklog>>

-----------------------------------------------------------------------------
(* What happens between two beats                                          *)

\* A job ends "ready" or "partial_failure": finalize_reconciliation stamps the
\* folder and the task stamps the source.  A budgeted OCR leaves documents for
\* the next job, or is done with them.
JobSucceeds(f) ==
  /\ active[f] /\ linked[SourceOf[f]]
  /\ active' = [active EXCEPT ![f] = FALSE]
  /\ folderAge' = [folderAge EXCEPT ![f] = 0]
  /\ sourceAge' = [sourceAge EXCEPT ![SourceOf[f]] = 0]
  /\ \E left \in BOOLEAN :
       /\ left => f \in OcrFolders
       /\ ocrBacklog' = [ocrBacklog EXCEPT ![f] = left]
  /\ UNCHANGED <<linked, failAge, accessLost, waited>>

JobFails(f) ==
  /\ active[f]
  /\ active' = [active EXCEPT ![f] = FALSE]
  /\ failAge' = [failAge EXCEPT ![f] = 0]
  /\ UNCHANGED <<linked, sourceAge, folderAge, accessLost, ocrBacklog, waited>>

\* An admin asks for a sync, or a space is created: no freshness, cap or cooldown.
Request(f) ==
  /\ linked[SourceOf[f]] /\ ~active[f]
  /\ active' = [active EXCEPT ![f] = TRUE]
  /\ UNCHANGED <<linked, sourceAge, folderAge, failAge, accessLost, ocrBacklog,
                 waited>>

\* The robot's folder is unshared, or shared again.
SetAccess(f, lost) ==
  /\ IsRobot(f) /\ accessLost[f] # lost
  /\ accessLost' = [accessLost EXCEPT ![f] = lost]
  /\ UNCHANGED <<linked, sourceAge, folderAge, failAge, active, ocrBacklog, waited>>

\* Disconnecting keeps last_synced_at; so does connecting again.
SetConnected(s, on) ==
  /\ linked[s] # on
  /\ linked' = [linked EXCEPT ![s] = on]
  /\ UNCHANGED <<sourceAge, folderAge, failAge, active, accessLost, ocrBacklog, waited>>

-----------------------------------------------------------------------------
\* Every scope is new: never synced, and its first job is queued.
SchedulerInit ==
  /\ linked = [s \in Sources |-> TRUE]
  /\ sourceAge = [s \in Sources |-> FreshBeats]
  /\ folderAge = [f \in Scopes |-> FolderLimit(f)]
  /\ failAge = [f \in Scopes |-> CooldownBeats]
  /\ active = [f \in Scopes |-> TRUE]
  /\ accessLost = [f \in Scopes |-> FALSE]
  /\ ocrBacklog = [f \in Scopes |-> FALSE]
  /\ waited = [f \in Scopes |-> 0]

SchedulerNext ==
  \/ Beat
  \/ \E f \in Scopes : JobSucceeds(f) \/ JobFails(f) \/ Request(f)
  \/ \E f \in Scopes, lost \in BOOLEAN : SetAccess(f, lost)
  \/ \E s \in Sources, on \in BOOLEAN : SetConnected(s, on)

SchedulerSpec == SchedulerInit /\ [][SchedulerNext]_schedulerVars

\* Celery beat keeps beating and a job ends (SyncJob!EveryJobEnds).
SchedulerFairSpec ==
  /\ SchedulerSpec
  /\ WF_schedulerVars(Beat)
  /\ \A f \in Scopes : WF_schedulerVars(JobSucceeds(f) \/ JobFails(f))

-----------------------------------------------------------------------------
(* Properties                                                              *)

\* The state has its type.
SchedulerTypeOK ==
  /\ linked \in [Sources -> BOOLEAN]
  /\ sourceAge \in [Sources -> 0..FreshBeats]
  /\ \A f \in Scopes : folderAge[f] \in 0..FolderLimit(f)
  /\ DOMAIN folderAge = Scopes
  /\ failAge \in [Scopes -> 0..CooldownBeats]
  /\ active \in [Scopes -> BOOLEAN]
  /\ accessLost \in [Scopes -> BOOLEAN]
  /\ ocrBacklog \in [Scopes -> BOOLEAN]
  /\ waited \in [Scopes -> 0..MaxWait + 1]

\* The folders of its organisation that the loop comes to first.
First(f) == {g \in Scopes : OrgOf[g] = OrgOf[f] /\ Before(g, f)}

\* What the cap may leave out at one beat is queued at the next, and so is what OCR brings back meanwhile.
Room ==
  /\ MaxWait >= 1
  /\ \A f \in Scopes : Cardinality(First(f)) + Cardinality(First(f) \cap OcrFolders) < 2 * MaxPerOrg

\* The cap never leaves the same folder out of more than MaxWait beats in a row:
\* what the folders ahead of it in the fixed order can use up is bounded by how
\* soon each of them is fresh, active or cooling down again.
WaitBounded == \A f \in Scopes : waited[f] <= MaxWait

\* Its own index is past the limit and nothing says that it cannot be read.
Overdue(f) == folderAge[f] = FolderLimit(f) /\ linked[SourceOf[f]] /\ ~accessLost[f]

\* A folder that is past its limit has a job again in the end, is disconnected or
\* out of reach of its robot; or, where it is read with the account of an OAuth
\* source, another folder of that account was synchronised within the limit.
DueScopeQueued ==
  \A f \in Scopes :
    Overdue(f) ~> \/ active[f] \/ ~Overdue(f)
                  \/ ~IsRobot(f) /\ \E g \in Scopes \ {f} :
                       SourceOf[g] = SourceOf[f] /\ folderAge[g] < FreshBeats

\* docs/operacao/sync-credenciais-retencao-recomendacao.md:18 says of the scheduler that it
\* "avalia cada escopo conectado a cada 15 minutos e enfileira os que excedem 24 horas desde a
\* última sincronização": a folder past its limit has a job again in the end.
EveryScopeEvaluated == \A f \in Scopes : Overdue(f) ~> (active[f] \/ ~Overdue(f))
=============================================================================
