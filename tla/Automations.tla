------------------------------ MODULE Automations ------------------------------
(***************************************************************************)
(* One automation: the beat's ticks and the end of a synchronisation queue *)
(* its runs, workers execute them.  The broker gives a message back when a *)
(* worker is lost, gives it twice when it takes too long, and may refuse a *)
(* message after the rows were committed.                                  *)
(*                                                                         *)
(* A run is claimed in a commit of its own, asks its question and commits  *)
(* the outcome: three steps of a worker.  The webhook deliveries that      *)
(* follow are in WebhookDelivery.                                          *)
(***************************************************************************)
EXTENDS Integers, FiniteSets

CONSTANTS
  Workers,            \* workers
  MaxRuns,            \* runs queued in a behaviour
  MaxTime,            \* last instant of the clock
  MaxFaults,          \* workers lost, messages refused or given twice
  Idle

Runs == 1..MaxRuns
Ended == {"ok", "empty", "quota", "error"}

ASSUME AutomationsAssumption ==
  /\ MaxRuns \in Nat /\ MaxTime \in Nat /\ MaxFaults \in Nat
  /\ Idle \notin [run : Runs, step : {"claimed", "asked"}]

VARIABLES
  now,          \* the clock: a stamp is taken when an instant begins, the rest of it comes after
  kind,         \* trigger_kind
  enabled,      \* Automation.enabled
  next,         \* next_run_at, 0 without one
  lastRun,      \* last_run_at, 0 before the first
  readable,     \* the creator's access covers the whole scope
  changed,      \* when a document of the scope was last indexed, 0 before
  batch,        \* the stamp of a batch being indexed, 0 without one
  hook,         \* a synchronisation is done and its hook is still to come
  tick,         \* [at, planned] a tick of the beat read, or Idle
  runs,         \* runs queued so far
  ref,          \* run -> its trigger_ref
  status,       \* run -> its status
  mail,         \* run -> messages that execute it
  worker,       \* worker -> [run, step, ...] or Idle
  faults,       \* faults so far
  asked,        \* history: run -> questions asked for it
  lost,         \* history: runs that a fault has left behind
  covered,      \* history: the last change a result was made of
  hidden,       \* history: stamps of changes a result ended after without having read them
  excused       \* history: a change may have been missed for another reason

triggerVars == <<now, kind, enabled, next, lastRun, readable, changed, batch, hook, tick>>
runVars == <<runs, ref, status, mail>>
history == <<faults, asked, lost, covered, hidden, excused>>
vars == <<triggerVars, runVars, worker, history>>

-----------------------------------------------------------------------------
(* Triggers                                                                *)

\* uq_automation_runs_trigger_ref.
Fresh(r) == \A i \in 1..runs : ref[i] # r

\* queue_run, its commit and the message that is sent after it, which the broker may refuse.
Queue(r) ==
  /\ runs < MaxRuns
  /\ runs' = runs + 1
  /\ ref' = [ref EXCEPT ![runs + 1] = r]
  /\ status' = [status EXCEPT ![runs + 1] = "queued"]
  /\ \/ mail' = [mail EXCEPT ![runs + 1] = 1] /\ UNCHANGED <<faults, lost, excused>>
     \/ /\ faults < MaxFaults /\ faults' = faults + 1
        /\ lost' = lost \cup {runs + 1} /\ excused' = TRUE
        /\ UNCHANGED mail
  /\ UNCHANGED <<asked, covered, hidden>>

\* compute_next_run: the first planned instant strictly after the moment; every second one.
NextAfter(t) == IF t % 2 = 0 THEN t + 2 ELSE t + 1

\* enqueue_due_schedules reads what is due ...
TickReads ==
  /\ tick = Idle
  /\ enabled /\ kind = "schedule" /\ next # 0 /\ next <= now
  /\ tick' = [at |-> now, planned |-> next]
  /\ UNCHANGED <<now, kind, enabled, next, lastRun, readable, changed, batch, hook,
                 runVars, worker, history>>

\* ... and commits one run for the planned instant and the next one.
TickCommits ==
  LET r == <<"schedule", tick.planned>> IN
  /\ tick # Idle
  /\ IF Fresh(r) THEN Queue(r) ELSE UNCHANGED <<runVars, history>>
  /\ next' = NextAfter(tick.at)
  /\ tick' = Idle
  /\ UNCHANGED <<now, kind, enabled, lastRun, readable, changed, batch, hook, worker>>

\* A batch is stamped when its indexing begins (apply_reconciliation) ...
IndexBegins ==
  /\ kind = "folder_changed"    \* a schedule does not look at changes
  /\ batch = 0 /\ now < MaxTime
  /\ now' = now + 1 /\ batch' = now + 1
  /\ UNCHANGED <<kind, enabled, next, lastRun, readable, changed, hook, tick, runVars, worker, history>>

\* ... and committed once its vectors are there; the hook comes when the synchronisation is done.
IndexCommits ==
  /\ batch # 0
  /\ changed' = batch /\ batch' = 0 /\ hook' = TRUE
  /\ UNCHANGED <<now, kind, enabled, next, lastRun, readable, tick, runVars, worker, history>>

ChangeRef == <<"folder", changed>>

\* trigger_automations_after_sync, whatever the synchronisation found: a change after the
\* last run queues one, named by the time of the change.
SyncHook ==
  LET r == ChangeRef IN
  /\ kind = "folder_changed"
  /\ hook' = FALSE
  /\ IF enabled /\ changed > lastRun /\ Fresh(r)
     THEN Queue(r) /\ UNCHANGED tick
     ELSE UNCHANGED <<runVars, tick, faults, asked, lost, covered, hidden>>
          /\ excused' = (excused \/ ~enabled)
  /\ UNCHANGED <<now, kind, enabled, next, lastRun, readable, changed, batch, worker>>

\* run_now.
RunNow ==
  /\ Queue(<<"manual", runs + 1>>)
  /\ UNCHANGED <<triggerVars, worker>>

-----------------------------------------------------------------------------
(* Changes to the automation and to access                                 *)

\* _refresh_schedule.
Scheduled(on) == IF on /\ kind = "schedule" THEN NextAfter(now) ELSE 0

\* set_enabled.
SetEnabled ==
  /\ enabled' = ~enabled
  /\ next' = Scheduled(~enabled)
  /\ excused' = TRUE
  /\ UNCHANGED <<now, kind, lastRun, readable, changed, batch, hook, tick, runVars, worker,
                 faults, asked, lost, covered, hidden>>

\* update_automation: the schedule is computed again.
Update ==
  /\ enabled /\ next' = Scheduled(enabled) /\ next' # next
  /\ UNCHANGED <<now, kind, enabled, lastRun, readable, changed, batch, hook, tick, runVars, worker,
                 history>>

\* pause_automations_for_lost_access.
LoseAccess ==
  /\ readable /\ readable' = FALSE
  /\ enabled' = FALSE /\ next' = 0 /\ excused' = TRUE
  /\ UNCHANGED <<now, kind, lastRun, changed, batch, hook, tick, runVars, worker,
                 faults, asked, lost, covered, hidden>>

GainAccess ==
  /\ ~readable /\ readable' = TRUE
  /\ UNCHANGED <<now, kind, enabled, next, lastRun, changed, batch, hook, tick, runVars,
                 worker, history>>

-----------------------------------------------------------------------------
(* Executing a run                                                         *)

\* Mutant of Claimable: a run somebody left running is taken up again.
ClaimableAgain(r) == status[r] \in {"queued", "running"}

\* execute_run: a message of a run already claimed does nothing.
Claimable(r) == status[r] = "queued"

Claim(w, r) ==
  /\ worker[w] = Idle /\ mail[r] > 0
  /\ mail' = [mail EXCEPT ![r] = @ - 1]
  /\ IF Claimable(r)
     THEN /\ status' = [status EXCEPT ![r] = "running"]
          /\ worker' = [worker EXCEPT ![w] = [run |-> r, step |-> "claimed"]]
     ELSE UNCHANGED <<status, worker>>
  /\ UNCHANGED <<triggerVars, runs, ref, history>>

\* Mutant of Outcomes: a denied run is left as it is.
OutcomesUnfinished == IF readable THEN Ended ELSE {"running"}

Outcomes == IF readable THEN Ended ELSE {"error"}

\* The question is asked with the creator's access, or not at all.
Ask(w) ==
  /\ worker[w] # Idle /\ worker[w].step = "claimed"
  /\ \E outcome \in Outcomes :
       /\ worker' = [worker EXCEPT ![w] = [run |-> @.run, step |-> "asked", outcome |-> outcome,
                                           seen |-> changed]]
       /\ asked' = IF readable
                   THEN [asked EXCEPT ![worker[w].run] = @ + 1] ELSE asked
  /\ UNCHANGED <<triggerVars, runVars, faults, lost, covered, hidden, excused>>

\* The stamps that a result which read up to `seen` comes after: of the batch being indexed,
\* and of the change whose hook is still to come.
Unseen(seen) == {c \in {batch} : c # 0} \cup {c \in {changed} : hook /\ seen < c}

\* _deliver and the commit of the run: the time of the run is that of its end.
Finish(w) ==
  LET r == worker[w].run
      good == worker[w].outcome \in {"ok", "empty"} IN
  /\ worker[w] # Idle /\ worker[w].step = "asked"
  /\ status' = [status EXCEPT ![r] = worker[w].outcome]
  /\ lastRun' = IF good THEN now ELSE lastRun
  /\ covered' = IF good /\ worker[w].seen > covered THEN worker[w].seen ELSE covered
  /\ hidden' = IF good THEN hidden \cup Unseen(worker[w].seen) ELSE hidden
  /\ excused' = (excused \/ ~good)
  /\ worker' = [worker EXCEPT ![w] = Idle]
  /\ UNCHANGED <<now, kind, enabled, next, readable, changed, batch, hook, tick, runs, ref,
                 mail, faults, asked, lost>>

-----------------------------------------------------------------------------
(* Time and faults                                                         *)

Clock ==
  /\ kind = "schedule"          \* elsewhere time passes with what happens
  /\ now < MaxTime /\ now' = now + 1
  /\ UNCHANGED <<kind, enabled, next, lastRun, readable, changed, batch, hook, tick, runVars,
                 worker, history>>

\* A worker is lost, or taken for lost by the broker: its message comes back.  What a lost
\* worker had not committed is gone.
WorkerLost(w) ==
  LET r == worker[w].run IN
  /\ worker[w] # Idle
  /\ faults < MaxFaults /\ faults' = faults + 1
  /\ mail' = [mail EXCEPT ![r] = @ + 1]
  /\ \/ /\ worker' = [worker EXCEPT ![w] = Idle]
        /\ lost' = lost \cup {r} /\ excused' = TRUE
     \/ UNCHANGED <<worker, lost, excused>>
  /\ UNCHANGED <<triggerVars, runs, ref, status, asked, covered, hidden>>

-----------------------------------------------------------------------------
Init ==
  /\ now = 1
  /\ kind \in {"schedule", "folder_changed"} /\ enabled = TRUE
  /\ next = IF kind = "schedule" THEN 2 ELSE 0
  /\ lastRun = 0 /\ readable = TRUE
  /\ changed = 0 /\ batch = 0 /\ hook = FALSE
  /\ tick = Idle
  /\ runs = 0
  /\ ref = [r \in Runs |-> <<"none", 0>>]
  /\ status = [r \in Runs |-> "none"]
  /\ mail = [r \in Runs |-> 0]
  /\ worker = [w \in Workers |-> Idle]
  /\ faults = 0 /\ asked = mail /\ lost = {}
  /\ covered = 0 /\ hidden = {} /\ excused = FALSE

Work(w) == Ask(w) \/ Finish(w) \/ \E r \in Runs : Claim(w, r)

Next ==
  \/ \E w \in Workers : Work(w) \/ WorkerLost(w)
  \/ TickReads \/ TickCommits \/ IndexBegins \/ IndexCommits \/ SyncHook \/ RunNow
  \/ SetEnabled \/ Update \/ LoseAccess \/ GainAccess \/ Clock

\* Some worker keeps taking messages while any is there.
Spec == Init /\ [][Next]_vars /\ WF_vars(\E w \in Workers : Work(w))

-----------------------------------------------------------------------------
(* Properties                                                              *)

\* Columns and messages keep values the code can store; a row has one state.
TypeOK ==
  /\ now \in 1..MaxTime /\ next \in 0..(now + 2) /\ lastRun \in 0..now
  /\ \A i, j \in 1..runs : ref[i] = ref[j] => i = j
  /\ \A r \in Runs : /\ status[r] \in {"none", "queued", "running"} \cup Ended
                     /\ (r > runs) = (status[r] = "none")

\* However often its message comes and whichever worker is lost, a run asks (and is charged
\* for) one question at most (execute_run).
AskedOnce == \A r \in Runs : asked[r] <= 1

\* All is quiet, the automation was never off, and no run failed or was left behind.
Settled ==
  /\ kind = "folder_changed" /\ ~hook /\ ~excused /\ runs < MaxRuns
  /\ \A r \in Runs : status[r] \notin {"queued", "running"}

\* automations-api.md: after each synchronisation, if a document of the scope was indexed
\* since the last execution, the automation runs.  So once all is quiet a result was made of
\* the last change, but for one kind of change: a result ended after it was stamped, its hook
\* had not come, and the result had not read it (_latest_change compares the stamp with the
\* end of the last result).
MissedOnlyIfHidden == Settled => covered >= changed \/ changed \in hidden

\* No run asks twice, and no change is missed but in that one way.
TriggersKept == AskedOnce /\ MissedOnlyIfHidden

\* Every run that is queued ends, unless a fault has left it behind: again and again no
\* other is left.
EveryRunEnds == []<>(\A r \in Runs : status[r] \in {"queued", "running"} => r \in lost)
=============================================================================
