------------------------------ MODULE ManualRuns ------------------------------
(***************************************************************************)
(* Runs somebody asked for: of one space, of a library folder, of a whole  *)
(* source, or of some files.  A request locks the spaces it concerns one   *)
(* after the other, makes one job for each, and records all of them in one *)
(* row of history, which the workers of the jobs then write together.  A   *)
(* full request also marks the files below its node for a rebuild.         *)
(*                                                                         *)
(* The life of one job is in module SyncJob: here the transactions of the  *)
(* worker that has a job take the row of history last, and a worker that   *)
(* lost its job goes on reporting to it, for update_progress asks for no   *)
(* token and writes the status the worker remembers.                       *)
(***************************************************************************)
EXTENDS Naturals, FiniteSets

CONSTANTS
  Workspaces, \* ids of workspace folders, naturals: they are locked in this order
  Items,
  Targets,    \* spaces and library nodes a run may be asked for
  Selected,   \* space -> files of its selection
  Overlaps,   \* node -> spaces with a selected folder above, at or below it
  Below,      \* node -> files below it
  Asks,       \* requests that may be under way at once
  JobIds,     \* 1..n: jobs that may be made
  Runs,       \* 1..n: rows of history that may be made
  MaxTries,   \* times a job is put back in the queue
  Free, NotMade, AtRest, Unread, NoDocument, Kept

Statuses == {"queued", "syncing", "ended", "failed"}
Entries == UNION {[js -> Statuses] : js \in SUBSET JobIds}
Readings == {Unread} \cup SUBSET (Workspaces \X Items)

AskRecord == [target : Targets, full : BOOLEAN, todo : SUBSET Workspaces, fresh : SUBSET Workspaces]
JobRecord == [space : Workspaces, run : Runs, status : Statuses, manual : BOOLEAN, recent : BOOLEAN,
              tries : Nat, forced : Readings]
RunRecord == [full : BOOLEAN, progress : Entries, ended : BOOLEAN]
TxnRecord == [jobs : SUBSET JobIds, to : Statuses, forced : Readings, seen : Entries]

\* A space that selects a file below a node has a selected folder above, at or below the node.
ASSUME ManualAssumption ==
  /\ Workspaces \subseteq Nat /\ IsFiniteSet(Workspaces) /\ JobIds \subseteq Nat \ {0} /\ Runs \subseteq Nat
  /\ \A t \in Targets \ Workspaces :
       /\ Overlaps[t] \subseteq Workspaces /\ Below[t] \subseteq Items
       /\ \A s \in Workspaces : Selected[s] \cap Below[t] # {} => s \in Overlaps[t]
  /\ Free \notin Asks \cup JobIds
  /\ NoDocument \notin Runs /\ Kept \notin Runs /\ NoDocument # Kept
  /\ NotMade \notin JobRecord \cup RunRecord /\ AtRest \notin AskRecord \cup TxnRecord
  /\ \A S \in SUBSET (Workspaces \X Items) : S # Unread

VARIABLES
  exists,  \* spaces that were not removed
  holder,  \* space -> the request that locked it, or Free
  ask,     \* request -> AtRest or [target, full, todo, fresh]
  job,     \* job -> NotMade or [space, run, status, manual, recent, tries, forced]
  unsent,  \* jobs whose request has still to find that they cannot be sent
  late,    \* jobs that some worker lost and may still report to
  run,     \* run -> NotMade or [full, progress (of each of its jobs), ended]
  stale,   \* jobs whose entry in the history was last written by a worker that had lost them
  writer,  \* run -> the transaction that locked it, or Free
  txn,     \* job -> AtRest or the open transaction of its worker, [jobs, to, forced, seen]
  copy     \* <<space, file>> -> NoDocument, Kept, or the run it is to be rebuilt for

manualVars == <<exists, holder, ask, job, unsent, late, run, stale, writer, txn, copy>>

-----------------------------------------------------------------------------
(* Jobs                                                                      *)

Made == {j \in JobIds : job[j] # NotMade}
Working(s) == {j \in Made : job[j].space = s /\ job[j].status \in {"queued", "syncing"}}
Owed(s) == {d \in DOMAIN copy : d[1] = s /\ copy[d] \in Runs}

\* A manual job of the last minute that did not fail.
Cooling(s) == \E j \in Made : job[j].space = s /\ job[j].manual /\ job[j].recent /\ job[j].status # "failed"

NewJob(s, r, manual) ==
  [space |-> s, run |-> r, status |-> "queued", manual |-> manual, recent |-> TRUE, tries |-> 0, forced |-> Unread]

NewRun(js, full) == [full |-> full, progress |-> [j \in js |-> "queued"], ended |-> FALSE]
NextRun(r) == run[r] = NotMade /\ \A o \in Runs : o < r => run[o] # NotMade

\* require_folder(lock=True)
SpaceFree(s) == holder[s] = Free

-----------------------------------------------------------------------------
(* A request                                                               *)

\* _containing_workspaces: by selection, or by the files a space already holds.
Containing(t) ==
  IF t \in Workspaces THEN {t} \cap exists
  ELSE {s \in exists : s \in Overlaps[t] \/ \E x \in Below[t] : copy[<<s, x>>] # NoDocument}

AskFor(a, t, full) ==
  /\ ask[a] = AtRest /\ Containing(t) # {} /\ Made # JobIds
  /\ ask' = [ask EXCEPT ![a] = [target |-> t, full |-> full, todo |-> Containing(t), fresh |-> {}]]
  /\ UNCHANGED <<exists, holder, job, unsent, late, run, stale, writer, txn, copy>>

Release(a) == [s \in Workspaces |-> IF holder[s] = a THEN Free ELSE holder[s]]

AskRefused(s, full) == s \notin exists \/ (full /\ Working(s) # {})

\* The next space: a full run accepts no other, an ordinary one follows it or waits a minute.
TakeSpace(a, s) ==
  /\ ask[a] # AtRest /\ s \in ask[a].todo /\ \A o \in ask[a].todo : s <= o
  /\ SpaceFree(s)
  /\ IF AskRefused(s, ask[a].full)
     THEN ask' = [ask EXCEPT ![a] = AtRest] /\ holder' = Release(a)
     ELSE /\ holder' = [holder EXCEPT ![s] = a]
          /\ ask' = [ask EXCEPT ![a].todo = @ \ {s},
                                ![a].fresh = IF ask[a].full \/ (Working(s) = {} /\ ~Cooling(s))
                                             THEN @ \cup {s} ELSE @]
  /\ UNCHANGED <<exists, job, unsent, late, run, stale, writer, txn, copy>>

NothingToDo(a) ==
  /\ ask[a] # AtRest /\ ask[a].todo = {} /\ ask[a].fresh = {}
  /\ ask' = [ask EXCEPT ![a] = AtRest] /\ holder' = Release(a)
  /\ UNCHANGED <<exists, job, unsent, late, run, stale, writer, txn, copy>>

\* Documents whose hash a full request empties: of the space, or below the node in any space.
Cleared(t) == {d \in DOMAIN copy : copy[d] # NoDocument /\ (IF t \in Workspaces THEN d[1] = t ELSE d[2] \in Below[t])}

\* _enqueue: the job of a space, the active one if there is any.
Enqueued(ss, s) ==
  IF Working(s) # {} THEN CHOOSE j \in Working(s) : TRUE
  ELSE Cardinality(Made) + Cardinality({o \in ss : o <= s /\ Working(o) = {}})

\* The history, the jobs and the marks are committed together; then the jobs are sent one by one.
Commit(a, r, broken) ==
  LET ss == ask[a].fresh
      id == [s \in ss |-> Enqueued(ss, s)]
      js == {id[s] : s \in ss}
  IN  /\ ask[a] # AtRest /\ ask[a].todo = {} /\ ss # {}
      /\ NextRun(r) /\ js \subseteq JobIds /\ broken \subseteq js
      /\ job' = [j \in JobIds |->
                   IF j \notin js THEN job[j]
                   ELSE IF j \in Made THEN [job[j] EXCEPT !.run = r, !.manual = TRUE]
                   ELSE NewJob(CHOOSE s \in ss : id[s] = j, r, TRUE)]
      /\ unsent' = unsent \cup broken
      /\ run' = [run EXCEPT ![r] = NewRun(js, ask[a].full)]
      /\ copy' = [d \in DOMAIN copy |-> IF ask[a].full /\ d \in Cleared(ask[a].target) THEN r ELSE copy[d]]
      /\ ask' = [ask EXCEPT ![a] = AtRest] /\ holder' = Release(a)
      /\ UNCHANGED <<exists, late, stale, writer, txn>>

\* request_document(s)_reprocess: some files of one space, in one transaction.
Reprocess(s, xs, r) ==
  LET j == Cardinality(Made) + 1
  IN  /\ s \in exists /\ SpaceFree(s) /\ Working(s) = {} /\ NextRun(r) /\ j \in JobIds
      /\ xs # {} /\ \A x \in xs : copy[<<s, x>>] # NoDocument
      /\ copy' = [d \in DOMAIN copy |-> IF d[1] = s /\ d[2] \in xs THEN r ELSE copy[d]]
      /\ job' = [job EXCEPT ![j] = NewJob(s, r, TRUE)]
      /\ run' = [run EXCEPT ![r] = NewRun({j}, FALSE)]
      /\ UNCHANGED <<exists, holder, ask, unsent, late, stale, writer, txn>>

\* enqueue, enqueue_system: a job with a history of its own.
ScheduleJob(s, r) ==
  LET j == Cardinality(Made) + 1
  IN  /\ s \in exists /\ SpaceFree(s) /\ Working(s) = {} /\ NextRun(r) /\ j \in JobIds
      /\ job' = [job EXCEPT ![j] = NewJob(s, r, FALSE)]
      /\ run' = [run EXCEPT ![r] = NewRun({j}, FALSE)]
      /\ UNCHANGED <<exists, holder, ask, unsent, late, stale, writer, txn, copy>>

\* remove_workspace: the history survives.
RemoveSpace(s) ==
  /\ s \in exists /\ SpaceFree(s) /\ Working(s) = {}
  /\ exists' = exists \ {s}
  /\ copy' = [d \in DOMAIN copy |-> IF d[1] = s THEN NoDocument ELSE copy[d]]
  /\ UNCHANGED <<holder, ask, job, unsent, late, run, stale, writer, txn>>

MinutePasses(j) ==
  /\ j \in Made /\ job[j].recent /\ job[j].manual /\ job[j].status # "failed"
  /\ job' = [job EXCEPT ![j].recent = FALSE]
  /\ UNCHANGED <<exists, holder, ask, unsent, late, run, stale, writer, txn, copy>>

-----------------------------------------------------------------------------
(* The worker of a job, and its writes to the history                      *)

\* Mutant of RowFree: the row is read and written without locking it.
RowUnlocked(r) == TRUE

RowFree(r) == writer[r] = Free

\* update_progress: the row of the run is locked, and read again under the lock.
Begin(j, js, to, forced) ==
  LET r == job[j].run
  IN  /\ txn[j] = AtRest /\ RowFree(r)
      /\ writer' = [writer EXCEPT ![r] = j]
      /\ txn' = [txn EXCEPT ![j] = [jobs |-> js, to |-> to, forced |-> forced, seen |-> run[r].progress]]
      /\ UNCHANGED <<exists, holder, ask, job, run, stale, copy>>

\* A job its request cannot send another request may have sent: POST /sync is handed the active job.
ClaimJob(j) ==
  /\ j \in Made /\ job[j].status = "queued"
  /\ Begin(j, {j}, "syncing", Unread)
  /\ UNCHANGED <<unsent, late>>

\* The lease is over and another delivery is claimed.
TakeOver(j) ==
  /\ j \in Made /\ job[j].status = "syncing"
  /\ Begin(j, {j}, "syncing", Unread)
  /\ late' = late \cup {j} /\ UNCHANGED unsent

\* The discovery is told which files to read whatever the provider reports.
Discover(j) ==
  /\ j \in Made /\ job[j].status = "syncing" /\ job[j].forced = Unread
  /\ Begin(j, {j}, "syncing", Owed(job[j].space))
  /\ UNCHANGED <<unsent, late>>

Finish(j) ==
  /\ j \in Made /\ job[j].status = "syncing" /\ job[j].forced # Unread
  /\ Begin(j, {j}, "ended", job[j].forced)
  /\ UNCHANGED <<unsent, late>>

Fail(j) ==
  /\ j \in Made /\ job[j].status = "syncing"
  /\ Begin(j, {j}, "failed", {})
  /\ UNCHANGED <<unsent, late>>

ReleaseForRetry(j) ==
  /\ j \in Made /\ job[j].status = "syncing" /\ job[j].tries < MaxTries
  /\ Begin(j, {j}, "queued", Unread)
  /\ UNCHANGED <<unsent, late>>

\* The jobs of a run that could not be sent fail in one transaction of the request, which
\* still has them as queued: whoever works on one of them by now has lost it.
SendFails(j) ==
  LET js == {i \in Made \cap unsent : job[i].run = job[j].run}
  IN  /\ j \in Made /\ j \in js /\ \A i \in js : j <= i
      /\ Begin(j, js, "failed", {})
      /\ unsent' = unsent \ js
      /\ late' = late \cup {i \in js : job[i].status = "syncing"}

\* The commit: the jobs, their entries, what the entries make of the run, and what was read.
WriteRun(k) ==
  LET t == txn[k]
      r == job[k].run
      written == [j \in DOMAIN t.seen |-> IF j \in t.jobs THEN t.to ELSE t.seen[j]]
      ended == \A j \in DOMAIN written : written[j] \in {"ended", "failed"}
      read == IF t.to = "ended"
              THEN {d \in DOMAIN copy : \E j \in t.jobs :
                      d \in t.forced \/ (d[1] = job[j].space /\ d[2] \in Selected[d[1]] /\ copy[d] = NoDocument)}
              ELSE {}
  IN  /\ k \in Made /\ t # AtRest
      /\ job' = [j \in JobIds |->
                   IF j \notin t.jobs THEN job[j]
                   ELSE [job[j] EXCEPT !.status = t.to,
                                       !.forced = IF t.to = "syncing" THEN t.forced ELSE Unread,
                                       !.tries = IF t.to = "queued" THEN @ + 1 ELSE IF t.to = "syncing" THEN @ ELSE 0]]
      /\ run' = [run EXCEPT ![r].progress = written, ![r].ended = ended]
      /\ stale' = stale \ t.jobs
      /\ copy' = [d \in DOMAIN copy |-> IF d \in read THEN Kept ELSE copy[d]]
      /\ writer' = [writer EXCEPT ![r] = Free]
      /\ txn' = [txn EXCEPT ![k] = AtRest]
      /\ UNCHANGED <<exists, holder, ask, unsent, late>>

\* A worker that lost its job reports once more: it is stopped by the token only after that
\* commit.  Nothing it read before it locked the row matters, so that this is one step.
LateReport(j) ==
  LET r == job[j].run
  IN  /\ j \in late /\ RowFree(r)
      /\ run' = [run EXCEPT ![r].progress[j] = "syncing", ![r].ended = FALSE]
      /\ stale' = stale \cup {j}
      /\ UNCHANGED <<exists, holder, ask, job, unsent, late, writer, txn, copy>>

-----------------------------------------------------------------------------
ManualInit ==
  /\ exists = Workspaces
  /\ holder = [s \in Workspaces |-> Free] /\ ask = [a \in Asks |-> AtRest]
  /\ unsent = {} /\ late = {} /\ stale = {}
  /\ job = [j \in JobIds |-> NotMade] /\ run = [r \in Runs |-> NotMade]
  /\ writer = [r \in Runs |-> Free] /\ txn = [j \in JobIds |-> AtRest]
  /\ copy \in [Workspaces \X Items -> {NoDocument, Kept}]

ManualNext ==
  \/ \E a \in Asks : \/ \E t \in Targets, full \in BOOLEAN : AskFor(a, t, full)
                     \/ \E s \in Workspaces : TakeSpace(a, s)
                     \/ NothingToDo(a)
                     \/ \E r \in Runs, broken \in SUBSET JobIds : Commit(a, r, broken)
  \/ \E s \in Workspaces : \/ \E r \in Runs : ScheduleJob(s, r) \/ \E xs \in SUBSET Items : Reprocess(s, xs, r)
                       \/ RemoveSpace(s)
  \/ \E j \in JobIds : \/ MinutePasses(j) \/ ClaimJob(j) \/ TakeOver(j) \/ LateReport(j) \/ Discover(j) \/ Finish(j) \/ Fail(j)
                    \/ ReleaseForRetry(j) \/ SendFails(j) \/ WriteRun(j)

ManualSpec == ManualInit /\ [][ManualNext]_manualVars

-----------------------------------------------------------------------------
(* Properties                                                              *)

\* The history never closes on a running job, and waits only for an active job or for one whose entry
\* was last written by a worker that had lost it: such a run stays open for good once the job has ended.
RunsAreAlive ==
  \A r \in Runs : run[r] # NotMade =>
    LET active == {j \in Made : job[j].run = r /\ job[j].status \in {"queued", "syncing"}}
    IN  IF run[r].ended THEN active = {} ELSE \E j \in Made : job[j].run = r /\ j \in active \cup stale

\* When all the jobs of a run have ended well, each file it marked for a rebuild has been read again since.
RebuiltWhenEnded ==
  \A r \in Runs, d \in DOMAIN copy :
    copy[d] = r => ~run[r].ended \/ \E j \in DOMAIN run[r].progress : run[r].progress[j] = "failed"

\* Runs somebody asked for: the history is open exactly while a job reports to it, up to the
\* last words of workers that lost theirs, and what a full run marked for a rebuild was read
\* again where it ended well, whoever reports late.
RunsKept == RunsAreAlive /\ RebuiltWhenEnded
=============================================================================
