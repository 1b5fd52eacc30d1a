--------------------------- MODULE AutomationsProofs ---------------------------
(***************************************************************************)
(* Theorems about what acts without a person at the screen: Automations,   *)
(* WebhookDelivery, and ProgrammaticAccess with the LibraryViews it reads, *)
(* for every set of workers, runs, deliveries, nodes and rows and every    *)
(* bound.                                                                  *)
(*                                                                         *)
(* A run has one worker from its claim to its end, so it asks once.  A     *)
(* change is answered because the run its hook found, or queued, asks its  *)
(* question later and so reads it, unless a result that had not read it    *)
(* ended after its stamp, which is all the hook compares.  The views agree because the tree has  *)
(* no cycle and nothing hangs below what is gone: the ancestors of an      *)
(* ancestor are then ancestors, are there, and are of the same source.     *)
(***************************************************************************)
EXTENDS Automations, WebhookDelivery, ProgrammaticAccess, TLAPS

-----------------------------------------------------------------------------
(* Automations                                                             *)

Claimed == [run : Runs, step : {"claimed"}]
AskedRuns == [run : Runs, step : {"asked"}, outcome : Ended, seen : Nat]
Active(r) == status[r] \in {"queued", "running"}

TriggersTyped ==
  /\ now \in Nat /\ changed \in 0..now /\ batch \in 0..now /\ lastRun \in 0..now /\ covered \in Nat
  /\ runs \in 0..MaxRuns
  /\ DOMAIN ref = Runs /\ ref = [r \in Runs |-> ref[r]]
  /\ status \in [Runs -> {"none", "queued", "running"} \cup Ended]
  /\ \A r \in Runs : r > runs <=> status[r] = "none"
  /\ DOMAIN mail = Runs
  /\ asked \in [Runs -> Nat]
  /\ worker \in [Workers -> {Idle} \cup Claimed \cup AskedRuns]

\* A run has one worker, from its claim to its end.
OneWorker ==
  /\ \A w \in Workers : worker[w] # Idle => status[worker[w].run] = "running"
  /\ \A v, w \in Workers : worker[v] # Idle /\ worker[w] # Idle /\ worker[v].run = worker[w].run => v = w

\* No question before the claim, nor until the worker asks it.
NotAskedYet ==
  /\ \A r \in Runs : asked[r] <= 1 /\ (status[r] \in {"none", "queued"} => asked[r] = 0)
  /\ \A w \in Workers : worker[w] # Idle /\ worker[w].step = "claimed" => asked[worker[w].run] = 0

Watching == kind = "folder_changed" /\ ~excused

\* A run that a change has queued reads it; a result that ended after a stamp was made of the
\* change or hides it.
ResultsCurrent ==
  Watching =>
    /\ enabled
    /\ batch # 0 => batch > changed
    /\ \A w \in Workers : worker[w] # Idle /\ worker[w].step = "asked" =>
         \A c \in Nat : ref[worker[w].run] = <<"folder", c>> => c <= worker[w].seen
    /\ hook /\ lastRun >= changed => covered >= changed \/ changed \in hidden
    /\ batch # 0 /\ lastRun >= batch => batch \in hidden

\* The run that a change has queued answers it, or is still to.
ChangesRun ==
  Watching =>
    \A r \in 1..runs, c \in Nat :
      ref[r] = <<"folder", c>> => c <= changed /\ (Active(r) \/ covered >= c)

\* Once its hook has come, the last change is answered, hidden, or has a run.
HookHeard ==
  Watching /\ ~hook =>
    covered >= changed \/ changed \in hidden \/ \E r \in 1..runs : ref[r] = ChangeRef /\ Active(r)

TriggersInv == TriggersTyped /\ OneWorker /\ NotAskedYet /\ ResultsCurrent /\ ChangesRun /\ HookHeard

LEMMA RunsAreOneTo == ASSUME AutomationsAssumption PROVE MaxRuns \in Nat /\ Runs = 1..MaxRuns
BY DEF AutomationsAssumption, Runs

LEMMA InitTriggers == ASSUME AutomationsAssumption PROVE Init => TriggersInv
<1> SUFFICES ASSUME Init PROVE TriggersInv
  OBVIOUS
<1>1. TriggersTyped BY RunsAreOneTo DEF Init, TriggersTyped
<1>2. OneWorker /\ NotAskedYet BY DEF Init, OneWorker, NotAskedYet
<1>3. ResultsCurrent /\ ChangesRun /\ HookHeard
  BY DEF Init, ResultsCurrent, ChangesRun, HookHeard
<1>4. QED BY <1>1, <1>2, <1>3 DEF TriggersInv

\* A run is queued, whatever asked for it; only the hook names one after a change.
LEMMA QueueStep ==
  ASSUME AutomationsAssumption, TriggersInv, NEW r, Queue(r),
         \A c \in Nat : r = <<"folder", c>> => c <= changed,
         UNCHANGED <<now, kind, enabled, lastRun, changed, batch, worker>>,
         hook' = hook \/ hook' = FALSE
  PROVE  /\ TriggersTyped' /\ OneWorker' /\ NotAskedYet' /\ ResultsCurrent' /\ ChangesRun'
         /\ (Watching' => Watching)
         /\ \A i \in 1..runs : i \in 1..runs' /\ ref'[i] = ref[i] /\ (Active(i)' <=> Active(i))
         /\ runs' \in 1..runs' /\ ref'[runs'] = r /\ status'[runs'] = "queued"
         /\ covered' = covered /\ hidden' = hidden
<1>0. TriggersTyped /\ OneWorker /\ NotAskedYet /\ ResultsCurrent /\ ChangesRun
  BY DEF TriggersInv
<1>1. PICK n \in Runs : n = runs + 1 /\ n <= MaxRuns
  BY <1>0, RunsAreOneTo DEF Queue, TriggersTyped
<1>2. /\ runs' = n
      /\ ref' = [ref EXCEPT ![n] = r]
      /\ status' = [status EXCEPT ![n] = "queued"]
      /\ DOMAIN mail' = DOMAIN mail
      /\ excused' = excused \/ excused' = TRUE
      /\ UNCHANGED <<asked, covered, hidden>>
  BY <1>1 DEF Queue
<1>3. status[n] = "none" /\ n \notin 1..runs
  BY <1>0, <1>1, RunsAreOneTo DEF TriggersTyped
<1>4. /\ \A i \in Runs \ {n} : ref'[i] = ref[i] /\ status'[i] = status[i]
      /\ ref'[n] = r /\ status'[n] = "queued"
  BY <1>0, <1>2 DEF TriggersTyped
<1>5. \A i \in 1..runs : i \in Runs \ {n}
  BY <1>0, <1>1, RunsAreOneTo DEF TriggersTyped
<1>6. TriggersTyped'
  <2>1. DOMAIN ref' = Runs /\ ref' = [i \in Runs |-> ref'[i]]
    BY <1>0, <1>2 DEF TriggersTyped
  <2>2. status' \in [Runs -> {"none", "queued", "running"} \cup Ended]
    BY <1>0, <1>2 DEF TriggersTyped
  <2>3. \A i \in Runs : i > n <=> status'[i] = "none"
    BY <1>0, <1>1, <1>4, RunsAreOneTo DEF TriggersTyped
  <2>4. QED BY <1>0, <1>1, <1>2, <2>1, <2>2, <2>3, RunsAreOneTo DEF TriggersTyped
<1>7. OneWorker' BY <1>0, <1>3, <1>4, <1>6 DEF OneWorker, TriggersTyped, Claimed, AskedRuns
<1>8. NotAskedYet' BY <1>0, <1>2, <1>3, <1>4 DEF NotAskedYet
<1>9. ResultsCurrent'
  <2>1. SUFFICES ASSUME Watching' PROVE ResultsCurrent' BY DEF ResultsCurrent
  <2>2. Watching BY <1>2, <2>1 DEF Watching
  <2>3. ASSUME NEW w \in Workers, worker'[w] # Idle /\ worker'[w].step = "asked", NEW c \in Nat,
               ref'[worker'[w].run] = <<"folder", c>>
        PROVE  c <= worker'[w].seen
    <3>1. worker'[w] = worker[w] OBVIOUS
    <3>2. PICK k \in Runs : k = worker[w].run BY <1>0, <2>3, <3>1 DEF TriggersTyped, Claimed, AskedRuns
    <3>3. k # n BY <1>0, <1>3, <2>3, <3>1, <3>2 DEF OneWorker
    <3>4. ref[k] = <<"folder", c>> BY <1>4, <2>3, <3>1, <3>2, <3>3
    <3>5. QED BY <1>0, <2>2, <2>3, <3>1, <3>2, <3>4 DEF ResultsCurrent
  <2>4. enabled' /\ (batch' # 0 => batch' > changed') BY <1>0, <2>2 DEF ResultsCurrent
  <2>5. /\ hook' /\ lastRun' >= changed' => covered' >= changed' \/ changed' \in hidden'
        /\ batch' # 0 /\ lastRun' >= batch' => batch' \in hidden'
    BY <1>0, <1>2, <2>2 DEF ResultsCurrent
  <2>6. QED BY <2>3, <2>4, <2>5 DEF ResultsCurrent
<1>10. \A i \in 1..runs : i \in 1..runs' /\ ref'[i] = ref[i] /\ (Active(i)' <=> Active(i))
  BY <1>0, <1>1, <1>2, <1>4, <1>5 DEF Active, TriggersTyped
<1>11. runs' \in 1..runs' /\ ref'[runs'] = r /\ status'[runs'] = "queued"
  BY <1>0, <1>1, <1>2, <1>4 DEF Active, TriggersTyped
<1>12. (Watching' => Watching) /\ covered' = covered /\ hidden' = hidden BY <1>2 DEF Watching
<1>13. ChangesRun'
  <2>1. SUFFICES ASSUME Watching', NEW i \in 1..runs', NEW c \in Nat, ref'[i] = <<"folder", c>>
                 PROVE  c <= changed' /\ (Active(i)' \/ covered' >= c)
    BY DEF ChangesRun
  <2>2. CASE i \in 1..runs BY <1>0, <1>10, <1>12, <2>1, <2>2 DEF ChangesRun
  <2>3. CASE i \notin 1..runs
    <3>1. i = runs' BY <1>0, <1>1, <1>2, <2>1, <2>3 DEF TriggersTyped
    <3>2. QED BY <1>11, <2>1, <3>1 DEF Active
  <2>4. QED BY <2>2, <2>3
<1>14. QED BY <1>6, <1>7, <1>8, <1>9, <1>10, <1>11, <1>12, <1>13

\* A step that leaves runs, workers and results alone.
LEMMA RunsAlone ==
  ASSUME TriggersInv, UNCHANGED <<now, kind, lastRun, changed, batch, runVars, worker, asked, covered, hidden>>,
         enabled' = enabled \/ excused' = TRUE, excused' = excused \/ excused' = TRUE,
         hook' = hook
  PROVE  TriggersInv'
<1>1. Watching' => Watching /\ enabled' = enabled BY DEF Watching
<1>2. \A r : Active(r)' <=> Active(r) BY DEF Active, runVars
<1>3. TriggersTyped' BY DEF TriggersInv, TriggersTyped, runVars
<1>4. OneWorker' /\ NotAskedYet' BY DEF TriggersInv, OneWorker, NotAskedYet, runVars
<1>5. ResultsCurrent' BY <1>1 DEF TriggersInv, ResultsCurrent, runVars
<1>6. ChangesRun' BY <1>1, <1>2 DEF TriggersInv, ChangesRun, runVars
<1>7. HookHeard' BY <1>1, <1>2 DEF TriggersInv, HookHeard, ChangeRef, runVars
<1>8. QED BY <1>3, <1>4, <1>5, <1>6, <1>7 DEF TriggersInv

LEMMA StepTriggers ==
  ASSUME AutomationsAssumption, TriggersInv,
         TickReads \/ TickCommits \/ IndexBegins \/ IndexCommits \/ SyncHook \/ RunNow \/ SetEnabled \/ Update
           \/ LoseAccess \/ GainAccess \/ Clock
  PROVE  TriggersInv'
<1>0. TriggersTyped /\ OneWorker /\ NotAskedYet /\ ResultsCurrent /\ ChangesRun /\ HookHeard
  BY DEF TriggersInv
<1>1. ASSUME NEW r, Queue(r), \A c \in Nat : r # <<"folder", c>>,
             UNCHANGED <<now, kind, enabled, lastRun, changed, batch, hook, worker>>
      PROVE  TriggersInv'
  <2>1. /\ TriggersTyped' /\ OneWorker' /\ NotAskedYet' /\ ResultsCurrent' /\ ChangesRun'
        /\ (Watching' => Watching)
        /\ \A i \in 1..runs : i \in 1..runs' /\ ref'[i] = ref[i] /\ (Active(i)' <=> Active(i))
        /\ covered' = covered /\ hidden' = hidden
    BY <1>1, QueueStep
  <2>2. HookHeard' BY <1>0, <1>1, <2>1 DEF HookHeard, ChangeRef
  <2>3. QED BY <2>1, <2>2 DEF TriggersInv
<1>2. CASE TickCommits
  <2>1. PICK r : r = <<"schedule", tick.planned>> OBVIOUS
  <2>2. /\ Queue(r) \/ UNCHANGED <<runVars, history>>
        /\ UNCHANGED <<now, kind, enabled, lastRun, readable, changed, batch, hook, worker>>
    BY <1>2, <2>1 DEF TickCommits
  <2>3. CASE Queue(r)
    <3>1. \A c \in Nat : r # <<"folder", c>> BY <2>1
    <3>2. QED BY <1>1, <2>2, <2>3, <3>1
  <2>4. CASE UNCHANGED <<runVars, history>>
    BY <2>2, <2>4, RunsAlone DEF history
  <2>5. QED BY <2>2, <2>3, <2>4
<1>3. CASE RunNow
  <2>1. PICK r : r = <<"manual", runs + 1>> OBVIOUS
  <2>2. Queue(r) /\ UNCHANGED <<now, kind, enabled, lastRun, changed, batch, hook, worker>>
    BY <1>3, <2>1 DEF RunNow, triggerVars
  <2>3. \A c \in Nat : r # <<"folder", c>> BY <2>1
  <2>4. QED BY <1>1, <2>2, <2>3
<1>4. CASE IndexBegins
  <2>1. /\ batch = 0 /\ now' = now + 1 /\ batch' = now + 1
        /\ UNCHANGED <<kind, enabled, lastRun, changed, hook, runVars, worker, history>>
    BY <1>4 DEF IndexBegins
  <2>2. TriggersTyped' BY <1>0, <2>1 DEF TriggersTyped, runVars, history
  <2>3. \A i : Active(i)' <=> Active(i) BY <2>1 DEF Active, runVars
  <2>4. Watching' <=> Watching BY <2>1 DEF Watching, history
  <2>5. OneWorker' /\ NotAskedYet' BY <1>0, <2>1 DEF OneWorker, NotAskedYet, runVars, history
  <2>6. ResultsCurrent'
    <3>1. batch' > changed' /\ ~(lastRun' >= batch') BY <1>0, <2>1 DEF TriggersTyped
    <3>2. QED BY <1>0, <2>1, <2>4, <3>1 DEF ResultsCurrent, runVars, history
  <2>7. ChangesRun' /\ HookHeard'
    BY <1>0, <2>1, <2>3, <2>4 DEF ChangesRun, HookHeard, ChangeRef, runVars, history
  <2>8. QED BY <2>2, <2>5, <2>6, <2>7 DEF TriggersInv
<1>10. CASE IndexCommits
  <2>1. /\ batch # 0 /\ changed' = batch /\ batch' = 0 /\ hook' = TRUE
        /\ UNCHANGED <<now, kind, enabled, lastRun, runVars, worker, history>>
    BY <1>10 DEF IndexCommits
  <2>2. TriggersTyped' BY <1>0, <2>1 DEF TriggersTyped, runVars, history
  <2>3. \A i : Active(i)' <=> Active(i) BY <2>1 DEF Active, runVars
  <2>4. Watching' <=> Watching BY <2>1 DEF Watching, history
  <2>5. OneWorker' /\ NotAskedYet' BY <1>0, <2>1 DEF OneWorker, NotAskedYet, runVars, history
  <2>6. ResultsCurrent' BY <1>0, <2>1, <2>4 DEF ResultsCurrent, runVars, history
  <2>7. ChangesRun'
    <3>1. SUFFICES ASSUME Watching', NEW i \in 1..runs', NEW c \in Nat, ref'[i] = <<"folder", c>>
                   PROVE  c <= changed' /\ (Active(i)' \/ covered' >= c)
      BY DEF ChangesRun
    <3>2. i \in 1..runs /\ ref[i] = <<"folder", c>> BY <2>1, <3>1 DEF runVars
    <3>3. c <= changed /\ (Active(i) \/ covered >= c) BY <1>0, <2>4, <3>1, <3>2 DEF ChangesRun
    <3>4. changed < batch BY <1>0, <2>1, <2>4, <3>1 DEF ResultsCurrent
    <3>5. c <= changed' BY <1>0, <2>1, <3>3, <3>4 DEF TriggersTyped
    <3>6. covered' = covered BY <2>1 DEF history
    <3>7. QED BY <2>3, <3>3, <3>5, <3>6
  <2>8. HookHeard' BY <2>1 DEF HookHeard
  <2>9. QED BY <2>2, <2>5, <2>6, <2>7, <2>8 DEF TriggersInv
<1>5. CASE SyncHook
  <2>1. PICK r : r = <<"folder", changed>> OBVIOUS
  <2>2. /\ kind = "folder_changed" /\ hook' = FALSE
        /\ IF enabled /\ changed > lastRun /\ Fresh(r)
           THEN Queue(r)
           ELSE UNCHANGED <<runVars, asked, covered, hidden>> /\ excused' = (excused \/ ~enabled)
        /\ UNCHANGED <<now, kind, enabled, lastRun, changed, batch, worker>>
    BY <1>5, <2>1 DEF SyncHook, ChangeRef
  <2>3. CASE enabled /\ changed > lastRun /\ Fresh(r)
    <3>1. Queue(r) BY <2>2, <2>3
    <3>2. \A c \in Nat : r = <<"folder", c>> => c <= changed BY <1>0, <2>1 DEF TriggersTyped
    <3>3. /\ TriggersTyped' /\ OneWorker' /\ NotAskedYet' /\ ResultsCurrent' /\ ChangesRun'
          /\ runs' \in 1..runs' /\ ref'[runs'] = r /\ status'[runs'] = "queued"
      BY <2>2, <3>1, <3>2, QueueStep
    <3>4. HookHeard' BY <2>1, <2>2, <3>3 DEF HookHeard, ChangeRef, Active
    <3>5. QED BY <3>3, <3>4 DEF TriggersInv
  <2>4. CASE ~(enabled /\ changed > lastRun /\ Fresh(r))
    <3>1. UNCHANGED <<runVars, asked, covered, hidden>> /\ excused' = (excused \/ ~enabled)
      BY <2>2, <2>4
    <3>2. TriggersTyped' BY <1>0, <2>2, <3>1 DEF TriggersTyped, runVars
    <3>3. OneWorker' /\ NotAskedYet' BY <1>0, <2>2, <3>1 DEF OneWorker, NotAskedYet, runVars
    <3>4. Watching' => Watching BY <2>2, <3>1 DEF Watching
    <3>5. ResultsCurrent' BY <1>0, <2>2, <3>1, <3>4 DEF ResultsCurrent, runVars
    <3>6. \A i : Active(i)' <=> Active(i) BY <3>1 DEF Active, runVars
    <3>7. ChangesRun' BY <1>0, <2>2, <3>1, <3>4, <3>6 DEF ChangesRun, runVars
    <3>8. ASSUME hook PROVE HookHeard'
      <4>1. SUFFICES ASSUME Watching'
                     PROVE  \/ covered' >= changed' \/ changed' \in hidden'
                            \/ \E i \in 1..runs' : ref'[i] = ChangeRef' /\ Active(i)'
        BY DEF HookHeard
      <4>2. Watching /\ enabled BY <1>0, <3>4, <4>1 DEF ResultsCurrent
      <4>3. CASE ~(changed > lastRun)
        <5>1. lastRun >= changed BY <1>0, <4>3 DEF TriggersTyped
        <5>2. QED BY <1>0, <2>2, <3>1, <3>8, <4>2, <5>1 DEF ResultsCurrent
      <4>4. CASE ~Fresh(r)
        <5>1. PICK i \in 1..runs : ref[i] = <<"folder", changed>> BY <2>1, <4>4 DEF Fresh
        <5>2. Active(i) \/ covered >= changed
          <6>1. changed \in Nat BY <1>0 DEF TriggersTyped
          <6>2. QED BY <1>0, <4>2, <5>1, <6>1 DEF ChangesRun
        <5>3. QED BY <2>2, <3>1, <3>6, <5>1, <5>2 DEF ChangeRef, runVars
      <4>5. QED BY <2>4, <4>2, <4>3, <4>4
    <3>10. ASSUME ~hook PROVE HookHeard' BY <1>0, <2>2, <3>1, <3>4, <3>6, <3>10 DEF HookHeard, ChangeRef, runVars
    <3>11. HookHeard' BY <3>8, <3>10
    <3>9. QED BY <3>2, <3>3, <3>5, <3>7, <3>11 DEF TriggersInv
  <2>5. QED BY <2>3, <2>4
<1>6. CASE Clock
  <2>1. /\ now' = now + 1
        /\ UNCHANGED <<kind, enabled, lastRun, changed, batch, hook, runVars, worker, history>>
    BY <1>6 DEF Clock
  <2>2. TriggersTyped' BY <1>0, <2>1 DEF TriggersTyped, runVars, history
  <2>3. \A i : Active(i)' <=> Active(i) BY <2>1 DEF Active, runVars
  <2>4. Watching' <=> Watching BY <2>1 DEF Watching, history
  <2>5. OneWorker' /\ NotAskedYet' BY <1>0, <2>1 DEF OneWorker, NotAskedYet, runVars, history
  <2>6. ResultsCurrent' BY <1>0, <2>1, <2>4 DEF ResultsCurrent, runVars, history
  <2>7. ChangesRun' /\ HookHeard'
    BY <1>0, <2>1, <2>3, <2>4 DEF ChangesRun, HookHeard, ChangeRef, runVars, history
  <2>8. QED BY <2>2, <2>5, <2>6, <2>7 DEF TriggersInv
<1>7. CASE TickReads \/ Update \/ GainAccess
  <2>1. UNCHANGED <<now, kind, enabled, lastRun, changed, batch, hook, runVars, worker, history>>
    BY <1>7 DEF TickReads, Update, GainAccess
  <2>2. QED BY <2>1, RunsAlone DEF history
<1>8. CASE SetEnabled \/ LoseAccess
  <2>1. excused' = TRUE /\ UNCHANGED <<now, kind, lastRun, changed, batch, hook, runVars, worker, asked, covered, hidden>>
    BY <1>8 DEF SetEnabled, LoseAccess
  <2>2. QED BY <2>1, RunsAlone
<1>9. QED BY <1>2, <1>3, <1>4, <1>5, <1>6, <1>7, <1>8, <1>10

LEMMA StepWorkers ==
  ASSUME AutomationsAssumption, TriggersInv, NEW w \in Workers, Work(w) \/ WorkerLost(w)
  PROVE  TriggersInv'
<1>0. TriggersTyped /\ OneWorker /\ NotAskedYet /\ ResultsCurrent /\ ChangesRun /\ HookHeard
  BY DEF TriggersInv
<1>1. ASSUME NEW r \in Runs, Claim(w, r) PROVE TriggersInv'
  <2>1. /\ worker[w] = Idle /\ DOMAIN mail' = Runs
        /\ UNCHANGED <<triggerVars, runs, ref, history>>
    BY <1>0, <1>1 DEF Claim, TriggersTyped
  <2>2. CASE status[r] # "queued"
    <3>1. UNCHANGED <<status, worker>> BY <1>1, <2>2 DEF Claim, Claimable
    <3>2. TriggersTyped' BY <1>0, <2>1, <3>1 DEF TriggersTyped, triggerVars, history
    <3>3. \A i : Active(i)' <=> Active(i) BY <3>1 DEF Active
    <3>4. OneWorker' /\ NotAskedYet' BY <1>0, <2>1, <3>1 DEF OneWorker, NotAskedYet, history
    <3>5. ResultsCurrent' /\ ChangesRun' /\ HookHeard'
      BY <1>0, <2>1, <3>1, <3>3 DEF ResultsCurrent, ChangesRun, HookHeard, Watching, ChangeRef, triggerVars, history
    <3>6. QED BY <3>2, <3>4, <3>5 DEF TriggersInv
  <2>3. CASE status[r] = "queued"
    <3>1. PICK held \in Claimed : held.run = r /\ held.step = "claimed" /\ held = [run |-> r, step |-> "claimed"]
      BY DEF Claimed
    <3>2. /\ status' = [status EXCEPT ![r] = "running"]
          /\ worker' = [worker EXCEPT ![w] = held]
      BY <1>1, <2>3, <3>1 DEF Claim, Claimable
    <3>3. /\ worker'[w] = held /\ \A v \in Workers \ {w} : worker'[v] = worker[v]
          /\ status'[r] = "running" /\ \A i \in Runs \ {r} : status'[i] = status[i]
      BY <1>0, <3>2 DEF TriggersTyped
    <3>4. \A i \in Runs : Active(i)' <=> Active(i) BY <2>3, <3>3 DEF Active
    <3>5. TriggersTyped'
      <4>1. worker' \in [Workers -> {Idle} \cup Claimed \cup AskedRuns]
        BY <1>0, <3>1, <3>2 DEF TriggersTyped
      <4>2. status' \in [Runs -> {"none", "queued", "running"} \cup Ended]
        BY <1>0, <3>2 DEF TriggersTyped
      <4>3. \A i \in Runs : i > runs <=> status'[i] = "none"
        BY <1>0, <2>3, <3>3 DEF TriggersTyped
      <4>4. QED BY <1>0, <2>1, <4>1, <4>2, <4>3 DEF TriggersTyped, triggerVars, history
    <3>6. \A v \in Workers \ {w} : worker[v] # Idle => worker[v].run \in Runs \ {r}
      BY <1>0, <2>3 DEF OneWorker, TriggersTyped, Claimed, AskedRuns
    <3>7. OneWorker'
      BY <1>0, <3>1, <3>3, <3>6 DEF OneWorker
    <3>8. NotAskedYet'
      <4>1. asked' = asked BY <2>1 DEF history
      <4>2. QED BY <1>0, <2>3, <3>1, <3>3, <4>1 DEF NotAskedYet
    <3>9. Watching' <=> Watching BY <2>1 DEF Watching, triggerVars, history
    <3>10. ResultsCurrent'
      <4>1. UNCHANGED <<enabled, changed, batch, hook, lastRun, covered, hidden, ref>> BY <2>1 DEF triggerVars, history
      <4>2. \A v \in Workers : worker'[v] # Idle /\ worker'[v].step = "asked" => worker[v] = worker'[v]
        BY <3>1, <3>3
      <4>3. QED BY <1>0, <3>9, <4>1, <4>2 DEF ResultsCurrent
    <3>11. 1..runs \subseteq Runs BY <1>0, RunsAreOneTo DEF TriggersTyped
    <3>12. ChangesRun' /\ HookHeard'
      BY <1>0, <2>1, <3>4, <3>9, <3>11 DEF ChangesRun, HookHeard, ChangeRef, triggerVars, history
    <3>13. QED BY <3>5, <3>7, <3>8, <3>10, <3>12 DEF TriggersInv
  <2>4. QED BY <2>2, <2>3
<1>2. CASE Ask(w)
  <2>0. worker[w] # Idle /\ worker[w].step = "claimed" BY <1>2 DEF Ask
  <2>1. PICK r \in Runs : r = worker[w].run
    BY <1>0, <2>0 DEF TriggersTyped, Claimed, AskedRuns
  <2>2. PICK outcome \in Ended :
          worker' = [worker EXCEPT ![w] = [run |-> r, step |-> "asked", outcome |-> outcome, seen |-> changed]]
    BY <1>2, <2>1 DEF Ask, Outcomes, Ended
  <2>3. PICK held \in AskedRuns : /\ held.run = r /\ held.step = "asked" /\ held.seen = changed
                              /\ held = [run |-> r, step |-> "asked", outcome |-> outcome, seen |-> changed]
    <3>1. PICK held : held = [run |-> r, step |-> "asked", outcome |-> outcome, seen |-> changed]
      OBVIOUS
    <3>2. changed \in Nat BY <1>0 DEF TriggersTyped
    <3>3. held \in AskedRuns BY <3>1, <3>2 DEF AskedRuns
    <3>4. held.run = r /\ held.step = "asked" /\ held.seen = changed BY <3>1
    <3>5. QED BY <3>1, <3>3, <3>4
  <2>4. /\ asked' = asked \/ asked' = [asked EXCEPT ![r] = asked[r] + 1]
        /\ UNCHANGED <<triggerVars, runVars, covered, hidden, excused>>
    BY <1>2, <2>1 DEF Ask
  <2>5. worker'[w] = held /\ \A v \in Workers \ {w} : worker'[v] = worker[v]
    BY <1>0, <2>2, <2>3 DEF TriggersTyped
  <2>6. asked[r] = 0 /\ status[r] = "running"
    BY <1>0, <2>0, <2>1 DEF NotAskedYet, OneWorker
  <2>7. asked' \in [Runs -> Nat] /\ asked'[r] <= 1 /\ \A i \in Runs \ {r} : asked'[i] = asked[i]
    BY <1>0, <2>4, <2>6 DEF TriggersTyped
  <2>8. TriggersTyped'
    <3>1. worker' \in [Workers -> {Idle} \cup Claimed \cup AskedRuns]
      BY <1>0, <2>2, <2>3 DEF TriggersTyped
    <3>2. QED BY <1>0, <2>4, <2>7, <3>1 DEF TriggersTyped, triggerVars, runVars
  <2>9. \A v \in Workers \ {w} : worker[v] # Idle => worker[v].run \in Runs \ {r}
    BY <1>0, <2>0, <2>1 DEF OneWorker, TriggersTyped, Claimed, AskedRuns
  <2>10. OneWorker'
    <3>1. status' = status BY <2>4 DEF runVars
    <3>2. QED BY <1>0, <2>3, <2>5, <2>6, <2>9, <3>1 DEF OneWorker
  <2>11. NotAskedYet'
    <3>1. status' = status BY <2>4 DEF runVars
    <3>2. \A i \in Runs : asked'[i] <= 1 /\ (status'[i] \in {"none", "queued"} => asked'[i] = 0)
      BY <1>0, <2>6, <2>7, <3>1 DEF NotAskedYet
    <3>3. \A v \in Workers : worker'[v] # Idle /\ worker'[v].step = "claimed" => asked'[worker'[v].run] = 0
      BY <1>0, <2>3, <2>5, <2>7, <2>9 DEF NotAskedYet
    <3>4. QED BY <3>2, <3>3 DEF NotAskedYet
  <2>12. Watching' <=> Watching BY <2>4 DEF Watching, triggerVars
  <2>13. ResultsCurrent'
    <3>1. SUFFICES ASSUME Watching' PROVE ResultsCurrent' BY DEF ResultsCurrent
    <3>2. UNCHANGED <<enabled, changed, batch, hook, lastRun, covered, hidden, ref>> BY <2>4 DEF triggerVars, runVars
    <3>3. \A c \in Nat : ref[r] = <<"folder", c>> => c <= changed
      <4>1. r \in 1..runs BY <1>0, <2>6, RunsAreOneTo DEF TriggersTyped
      <4>2. QED BY <1>0, <2>12, <3>1, <4>1 DEF ChangesRun
    <3>4. \A v \in Workers : worker'[v] # Idle /\ worker'[v].step = "asked" =>
            \A c \in Nat : ref'[worker'[v].run] = <<"folder", c>> => c <= worker'[v].seen
      BY <1>0, <2>3, <2>5, <2>12, <3>1, <3>2, <3>3 DEF ResultsCurrent
    <3>5. QED BY <1>0, <2>12, <3>1, <3>2, <3>4 DEF ResultsCurrent
  <2>14. \A i : Active(i)' <=> Active(i) BY <2>4 DEF Active, runVars
  <2>15. ChangesRun' /\ HookHeard'
    BY <1>0, <2>4, <2>12, <2>14 DEF ChangesRun, HookHeard, ChangeRef, triggerVars, runVars
  <2>16. QED BY <2>8, <2>10, <2>11, <2>13, <2>15 DEF TriggersInv
<1>3. CASE Finish(w)
  <2>0. worker[w] # Idle /\ worker[w].step = "asked" BY <1>3 DEF Finish
  <2>1. worker[w] \in AskedRuns BY <1>0, <2>0 DEF TriggersTyped, Claimed
  <2>2. PICK r \in Runs, outcome \in Ended, seen \in Nat :
          r = worker[w].run /\ outcome = worker[w].outcome /\ seen = worker[w].seen
    BY <2>1 DEF AskedRuns
  <2>3. /\ status' = [status EXCEPT ![r] = outcome]
        /\ lastRun' = IF outcome \in {"ok", "empty"} THEN now ELSE lastRun
        /\ covered' = IF outcome \in {"ok", "empty"} /\ seen > covered THEN seen ELSE covered
        /\ excused' = (excused \/ outcome \notin {"ok", "empty"})
        /\ worker' = [worker EXCEPT ![w] = Idle]
        /\ hidden' = IF outcome \in {"ok", "empty"} THEN hidden \cup Unseen(seen) ELSE hidden
        /\ UNCHANGED <<now, kind, enabled, changed, batch, hook, runs, ref, mail, asked>>
    BY <1>3, <2>2 DEF Finish
  <2>4. /\ worker'[w] = Idle /\ \A v \in Workers \ {w} : worker'[v] = worker[v]
        /\ status'[r] = outcome /\ \A i \in Runs \ {r} : status'[i] = status[i]
    BY <1>0, <2>3 DEF TriggersTyped
  <2>5. status[r] = "running" BY <1>0, <2>0, <2>2 DEF OneWorker
  <2>6. covered' \in Nat /\ covered' >= covered /\ lastRun' \in 0..now
    BY <1>0, <2>2, <2>3 DEF TriggersTyped
  <2>7. TriggersTyped'
    <3>1. worker' \in [Workers -> {Idle} \cup Claimed \cup AskedRuns] BY <1>0, <2>3 DEF TriggersTyped
    <3>2. status' \in [Runs -> {"none", "queued", "running"} \cup Ended] BY <1>0, <2>3 DEF TriggersTyped
    <3>3. \A i \in Runs : i > runs <=> status'[i] = "none"
      BY <1>0, <2>4, <2>5 DEF TriggersTyped, Ended
    <3>4. QED BY <1>0, <2>3, <2>6, <3>1, <3>2, <3>3 DEF TriggersTyped
  <2>8. \A v \in Workers \ {w} : worker[v] # Idle => worker[v].run \in Runs \ {r}
    BY <1>0, <2>0, <2>2 DEF OneWorker, TriggersTyped, Claimed, AskedRuns
  <2>9. OneWorker' BY <1>0, <2>4, <2>8 DEF OneWorker
  <2>10. NotAskedYet' BY <1>0, <2>3, <2>4, <2>5 DEF NotAskedYet, Ended
  <2>11. Watching' => Watching /\ outcome \in {"ok", "empty"} BY <2>3 DEF Watching
  <2>12. Watching' => /\ batch # 0 => batch \in hidden'
                      /\ hook => covered' >= changed \/ changed \in hidden'
                      /\ hidden \subseteq hidden' /\ covered' >= seen
    BY <1>0, <2>2, <2>3, <2>11 DEF Unseen, TriggersTyped
  <2>13. \A c \in Nat : Watching' /\ ref[r] = <<"folder", c>> => c <= seen
    BY <1>0, <2>0, <2>2, <2>11 DEF ResultsCurrent
  <2>14. ResultsCurrent'
    <3>1. SUFFICES ASSUME Watching' PROVE ResultsCurrent' BY DEF ResultsCurrent
    <3>2. enabled' /\ (batch' # 0 => batch' > changed') BY <1>0, <2>3, <2>11, <3>1 DEF ResultsCurrent
    <3>3. \A v \in Workers : worker'[v] # Idle /\ worker'[v].step = "asked" =>
            \A c \in Nat : ref'[worker'[v].run] = <<"folder", c>> => c <= worker'[v].seen
      BY <1>0, <2>3, <2>4, <2>11, <3>1 DEF ResultsCurrent
    <3>4. QED BY <2>3, <2>12, <3>1, <3>2, <3>3 DEF ResultsCurrent
  <2>15. ChangesRun'
    <3>1. SUFFICES ASSUME Watching', NEW i \in 1..runs', NEW c \in Nat, ref'[i] = <<"folder", c>>
                   PROVE  c <= changed' /\ (Active(i)' \/ covered' >= c)
      BY DEF ChangesRun
    <3>7. i \in 1..runs /\ ref[i] = <<"folder", c>> BY <2>3, <3>1
    <3>2. i \in Runs BY <1>0, <3>7, RunsAreOneTo DEF TriggersTyped
    <3>3. c <= changed /\ (Active(i) \/ covered >= c) BY <1>0, <2>11, <3>1, <3>7 DEF ChangesRun
    <3>4. CASE i = r BY <1>0, <2>2, <2>3, <2>6, <2>12, <2>13, <3>1, <3>7, <3>3, <3>4 DEF TriggersTyped
    <3>5. CASE i # r
      <4>1. Active(i)' <=> Active(i) BY <2>4, <3>2, <3>5 DEF Active
      <4>2. covered >= c => covered' >= c BY <1>0, <2>6 DEF TriggersTyped
      <4>3. QED BY <2>3, <3>3, <4>1, <4>2
    <3>6. QED BY <3>4, <3>5
  <2>16. HookHeard'
    <3>1. SUFFICES ASSUME Watching', ~hook'
                   PROVE  \/ covered' >= changed' \/ changed' \in hidden'
                          \/ \E i \in 1..runs' : ref'[i] = ChangeRef' /\ Active(i)'
      BY DEF HookHeard
    <3>2. CASE covered >= changed \/ changed \in hidden
      BY <1>0, <2>3, <2>6, <2>12, <3>1, <3>2 DEF TriggersTyped
    <3>3. CASE \E i \in 1..runs : ref[i] = ChangeRef /\ Active(i)
      <4>1. PICK i \in 1..runs : ref[i] = <<"folder", changed>> /\ Active(i) BY <3>3 DEF ChangeRef
      <4>2. i \in Runs /\ changed \in Nat BY <1>0, <4>1, RunsAreOneTo DEF TriggersTyped
      <4>3. CASE i = r BY <1>0, <2>2, <2>3, <2>6, <2>12, <2>13, <3>1, <4>1, <4>2, <4>3 DEF TriggersTyped
      <4>4. CASE i # r
        <5>1. Active(i)' BY <2>4, <4>1, <4>2, <4>4 DEF Active
        <5>2. QED BY <2>3, <4>1, <5>1 DEF ChangeRef
      <4>5. QED BY <4>3, <4>4
    <3>4. QED BY <1>0, <2>3, <2>11, <3>1, <3>2, <3>3 DEF HookHeard
  <2>17. QED BY <2>7, <2>9, <2>10, <2>14, <2>15, <2>16 DEF TriggersInv
<1>4. CASE WorkerLost(w)
  <2>1. /\ DOMAIN mail' = Runs
        /\ UNCHANGED <<triggerVars, runs, ref, status, asked, covered, hidden>>
    BY <1>0, <1>4 DEF WorkerLost, TriggersTyped
  <2>2. \/ worker' = worker /\ excused' = excused
        \/ worker' = [worker EXCEPT ![w] = Idle] /\ excused' = TRUE
    BY <1>4 DEF WorkerLost
  <2>3. /\ worker' \in [Workers -> {Idle} \cup Claimed \cup AskedRuns]
        /\ \A v \in Workers : worker'[v] \in {worker[v], Idle}
    BY <1>0, <2>2 DEF TriggersTyped
  <2>4. TriggersTyped' BY <1>0, <2>1, <2>3 DEF TriggersTyped, triggerVars
  <2>5. OneWorker' BY <1>0, <2>1, <2>3 DEF OneWorker
  <2>6. NotAskedYet' BY <1>0, <2>1, <2>3 DEF NotAskedYet
  <2>7. Watching' => Watching BY <2>1, <2>2 DEF Watching, triggerVars
  <2>8. ResultsCurrent' BY <1>0, <2>1, <2>3, <2>7 DEF ResultsCurrent, triggerVars
  <2>9. \A i : Active(i)' <=> Active(i) BY <2>1 DEF Active
  <2>10. ChangesRun' /\ HookHeard'
    BY <1>0, <2>1, <2>7, <2>9 DEF ChangesRun, HookHeard, ChangeRef, triggerVars
  <2>11. QED BY <2>4, <2>5, <2>6, <2>8, <2>10 DEF TriggersInv
<1>5. QED BY <1>1, <1>2, <1>3, <1>4 DEF Work

LEMMA TriggersAlways == ASSUME AutomationsAssumption PROVE Spec => []TriggersInv
<1>1. TriggersInv /\ [Next]_vars => TriggersInv'
  <2>1. SUFFICES ASSUME TriggersInv, [Next]_vars PROVE TriggersInv'
    OBVIOUS
  <2>2. CASE UNCHANGED vars
    <3>1. UNCHANGED <<now, kind, enabled, lastRun, changed, batch, hook, runVars, worker, history>>
      BY <2>2 DEF vars, triggerVars
    <3>2. QED BY <2>1, <3>1, RunsAlone DEF history
  <2>3. QED BY <2>1, <2>2, StepTriggers, StepWorkers DEF Next
<1>2. QED BY <1>1, InitTriggers, PTL DEF Spec

\* However often messages come and whichever worker is lost, a run asks one question at most
\* (execute_run), and of the last change of the scope a result is made, unless one that had
\* not read it ended between its stamp and its hook (trigger_automations_after_sync).
THEOREM TriggersKeptAlways == ASSUME AutomationsAssumption PROVE Spec => []TriggersKept
<1>1. TriggersInv => AskedOnce BY DEF TriggersInv, NotAskedYet, AskedOnce
<1>2. TriggersInv => MissedOnlyIfHidden
  <2>1. SUFFICES ASSUME TriggersInv, Watching, ~hook, \A r \in Runs : ~Active(r)
                 PROVE  covered >= changed \/ changed \in hidden
    BY DEF MissedOnlyIfHidden, Settled, Watching, Active
  <2>2. 1..runs \subseteq Runs BY <2>1, RunsAreOneTo DEF TriggersInv, TriggersTyped
  <2>3. QED BY <2>1, <2>2 DEF TriggersInv, HookHeard
<1>3. QED BY <1>1, <1>2, TriggersAlways, PTL DEF TriggersKept

-----------------------------------------------------------------------------
(* WebhookDelivery                                                         *)

Statuses == {"running", "noticed", "skipped", "pending", "delivered", "failed"}

WebhookTypeOK ==
  /\ endpoint \in {"on", "off", "revoked"}
  /\ delivery \in [Deliveries -> Statuses]
  /\ attempts \in [Deliveries -> Nat] /\ posts \in [Deliveries -> Nat]
  /\ poster \in [Posters -> [of : Deliveries, code : Codes] \cup {Free}]
  /\ revoking \in (SUBSET Deliveries) \cup {Free}
  /\ losses \in Nat
  /\ accepted \in SUBSET Deliveries /\ late \in SUBSET Deliveries

\* The lock of a delivery: one worker at a time posts it, and it stays pending until that one answers.
Locked ==
  /\ \A w \in Posters : poster[w] # Free => delivery[poster[w].of] = "pending"
  /\ \A v, w \in Posters : poster[v] # Free /\ poster[w] # Free /\ poster[v].of = poster[w].of => v = w

\* A delivery that may be posted still has an attempt to make, and a request not yet counted is
\* under way or was lost with its worker.
Counted(d) ==
  /\ attempts[d] <= MaxAttempts
  /\ delivery[d] \in {"running", "noticed", "pending"} => attempts[d] < MaxAttempts
  /\ posts[d] <= attempts[d] + losses + (IF Posting(d) THEN 1 ELSE 0)

\* An accepted delivery is settled.
AcceptedSettled == \A d \in accepted : delivery[d] \in {"delivered", "failed"}

\* A revocation under way has read every pending delivery but the late ones; committed, it left none.
RevokedStays ==
  \A d \in Deliveries \ late : delivery[d] = "pending" =>
    endpoint # "revoked" /\ (revoking # Free => d \in revoking)

WebhookInv ==
  /\ WebhookTypeOK /\ Locked /\ AcceptedSettled /\ RevokedStays
  /\ \A d \in Deliveries : Counted(d)

LEMMA InitWebhook == ASSUME WebhookAssumption PROVE WebhookInit => WebhookInv
<1> SUFFICES ASSUME WebhookInit PROVE WebhookInv
  OBVIOUS
<1>1. WebhookTypeOK BY DEF WebhookInit, WebhookTypeOK, Statuses
<1>2. Locked BY DEF WebhookInit, Locked
<1>3. AcceptedSettled /\ RevokedStays BY DEF WebhookInit, AcceptedSettled, RevokedStays
<1>4. ASSUME NEW d \in Deliveries PROVE Counted(d)
  BY DEF WebhookInit, Counted, Posting, WebhookAssumption
<1>5. QED BY <1>1, <1>2, <1>3, <1>4 DEF WebhookInv

\* Every step keeps the invariant.
LEMMA StepWebhook == ASSUME WebhookAssumption, WebhookInv, [WebhookNext]_webhookVars PROVE WebhookInv'
<1> USE DEF WebhookInv, WebhookTypeOK
<1>1. ASSUME NEW d \in Deliveries, RunEnds(d) \/ Enqueue(d) PROVE WebhookInv'
  <2>1. /\ delivery[d] \in {"running", "noticed"} /\ delivery'[d] \in {"noticed", "skipped", "pending"}
        /\ \A e \in Deliveries : e # d => delivery'[e] = delivery[e]
        /\ delivery' \in [Deliveries -> Statuses]
    BY <1>1 DEF RunEnds, Enqueue, Statuses
  <2>2. /\ UNCHANGED <<endpoint, attempts, poster, revoking, posts, accepted>>
        /\ losses' \in Nat /\ losses' >= losses
        /\ late' \in SUBSET Deliveries /\ late \subseteq late' /\ late' \subseteq late \cup {d}
        /\ delivery'[d] = "pending" /\ d \notin late' => revoking = Free /\ endpoint # "revoked"
    BY <1>1, <2>1 DEF RunEnds, Enqueue, webhookHistory
  <2>3. Locked' BY <2>1, <2>2 DEF Locked
  <2>4. AcceptedSettled' BY <2>1, <2>2 DEF AcceptedSettled
  <2>5. RevokedStays' BY <2>1, <2>2 DEF RevokedStays
  <2>6. ASSUME NEW e \in Deliveries PROVE Counted(e)'
    BY <2>1, <2>2 DEF Counted, Posting
  <2>7. WebhookTypeOK' BY <2>1, <2>2
  <2>8. QED BY <2>3, <2>4, <2>5, <2>6, <2>7
<1>2. ASSUME NEW d \in Deliveries, NEW w \in Posters, Attempt(w, d) PROVE WebhookInv'
  <2>1. /\ poster[w] = Free /\ ~Posting(d)
        /\ UNCHANGED <<endpoint, attempts, revoking, losses, accepted, late>>
    BY <1>2 DEF Attempt
  <2>2. CASE Attemptable(d) /\ endpoint = "on"
    <3>1. PICK code \in Codes :
            /\ poster' = [poster EXCEPT ![w] = [of |-> d, code |-> code]]
            /\ posts' = IF code = "blocked" THEN posts ELSE [posts EXCEPT ![d] = @ + 1]
            /\ UNCHANGED delivery
      BY <1>2, <2>2 DEF Attempt
    <3>2. poster'[w].of = d /\ poster'[w] # Free
      BY <3>1 DEF WebhookAssumption
    <3>3. WebhookTypeOK' BY <2>1, <3>1
    <3>4. Locked' BY <2>1, <2>2, <3>1, <3>2 DEF Locked, Posting, Attemptable
    <3>5. AcceptedSettled' /\ RevokedStays' BY <2>1, <3>1 DEF AcceptedSettled, RevokedStays
    <3>6. ASSUME NEW e \in Deliveries PROVE Counted(e)'
      <4>1. CASE e = d
        <5>1. Posting(d)' BY <3>2 DEF Posting
        <5>2. posts'[d] <= posts[d] + 1 /\ posts'[d] \in Nat BY <3>1, <3>3
        <5>3. QED BY <2>1, <3>1, <4>1, <5>1, <5>2 DEF Counted
      <4>2. CASE e # d
        <5>1. Posting(e) => Posting(e)' BY <2>1, <3>1 DEF Posting
        <5>2. posts'[e] = posts[e] BY <3>1, <4>2
        <5>3. QED BY <2>1, <3>1, <5>1, <5>2 DEF Counted
      <4>3. QED BY <4>1, <4>2
    <3>7. QED BY <3>3, <3>4, <3>5, <3>6
  <2>3. CASE ~(Attemptable(d) /\ endpoint = "on")
    <3>1. /\ delivery' = [delivery EXCEPT ![d] = IF Attemptable(d) THEN "failed" ELSE @]
          /\ UNCHANGED <<poster, posts>>
      BY <1>2, <2>3 DEF Attempt
    <3>2. /\ delivery' \in [Deliveries -> Statuses] /\ \A e \in Deliveries : e # d => delivery'[e] = delivery[e]
          /\ delivery'[d] = delivery[d] \/ delivery'[d] = "failed"
      BY <3>1 DEF Statuses
    <3>3. Locked' BY <2>1, <3>1, <3>2 DEF Locked, Posting
    <3>4. AcceptedSettled' /\ RevokedStays' BY <2>1, <3>2 DEF AcceptedSettled, RevokedStays
    <3>5. ASSUME NEW e \in Deliveries PROVE Counted(e)' BY <2>1, <3>1, <3>2 DEF Counted, Posting
    <3>6. WebhookTypeOK' BY <2>1, <3>1, <3>2
    <3>7. QED BY <3>3, <3>4, <3>5, <3>6
  <2>4. QED BY <2>2, <2>3
<1>3. ASSUME NEW w \in Posters, Answer(w) PROVE WebhookInv'
  <2>0. PICK d \in Deliveries : poster[w] # Free /\ d = poster[w].of
    BY <1>3 DEF Answer
  <2> DEFINE n == attempts[d] + 1
             outcome == Outcome(poster[w].code, n)
  <2>1. /\ poster[w] # Free /\ d = poster[w].of /\ delivery[d] = "pending" /\ n \in Nat
        /\ UNCHANGED <<endpoint, revoking, losses, posts, late>>
    BY <1>3, <2>0 DEF Answer, Locked
  <2>2. /\ attempts' = [attempts EXCEPT ![d] = n]
        /\ delivery' = [delivery EXCEPT ![d] = IF outcome = "retry" THEN "pending" ELSE outcome]
        /\ accepted' = IF outcome = "delivered" THEN accepted \cup {d} ELSE accepted
        /\ poster' = [poster EXCEPT ![w] = Free]
    BY <1>3, <2>0, <2>1 DEF Answer
  <2>3. outcome \in {"delivered", "failed", "retry"} /\ (outcome = "retry" => n < MaxAttempts)
    BY <2>1 DEF Outcome, WebhookAssumption
  <2>4. d \notin accepted BY <2>1 DEF AcceptedSettled
  <2>5. ~Posting(d)' /\ \A e \in Deliveries : e # d => (Posting(e)' <=> Posting(e))
    BY <2>1, <2>2 DEF Posting, Locked
  <2> HIDE DEF n, outcome
  <2>6. WebhookTypeOK' BY <2>1, <2>2, <2>3 DEF Statuses
  <2>7. Locked' BY <2>1, <2>2 DEF Locked
  <2>8. AcceptedSettled' /\ RevokedStays' BY <2>1, <2>2, <2>3 DEF AcceptedSettled, RevokedStays
  <2>9. ASSUME NEW e \in Deliveries PROVE Counted(e)'
    <3>1. CASE e = d
      <4>1. posts[d] <= attempts[d] + losses + 1 /\ attempts[d] < MaxAttempts
        BY <2>1 DEF Counted
      <4>2. attempts'[d] = attempts[d] + 1 BY <2>1, <2>2 DEF n
      <4>3. delivery'[d] \in {"running", "noticed", "pending"} => attempts'[d] < MaxAttempts
        BY <2>1, <2>2, <2>3
      <4>4. QED BY <2>1, <2>5, <3>1, <4>1, <4>2, <4>3 DEF Counted, WebhookAssumption
    <3>2. CASE e # d BY <2>1, <2>2, <2>5, <3>2 DEF Counted
    <3>3. QED BY <3>1, <3>2
  <2>10. QED BY <2>6, <2>7, <2>8, <2>9
<1>4. ASSUME NEW w \in Posters, PosterLost(w) PROVE WebhookInv'
  <2>0. PICK d \in Deliveries : poster[w] # Free /\ d = poster[w].of
    BY <1>4 DEF PosterLost
  <2>1. /\ poster[w] # Free /\ d = poster[w].of /\ losses' = losses + 1
        /\ poster' = [poster EXCEPT ![w] = Free]
        /\ UNCHANGED <<endpoint, delivery, attempts, revoking, posts, accepted, late>>
    BY <1>4, <2>0 DEF PosterLost
  <2>2. \A e \in Deliveries : e # d => (Posting(e)' <=> Posting(e))
    BY <2>1 DEF Posting
  <2>3. WebhookTypeOK' BY <2>1
  <2>4. Locked' /\ AcceptedSettled' /\ RevokedStays' BY <2>1 DEF Locked, AcceptedSettled, RevokedStays
  <2>5. ASSUME NEW e \in Deliveries PROVE Counted(e)'
    BY <2>1, <2>2 DEF Counted
  <2>6. QED BY <2>3, <2>4, <2>5
<1>5. ASSUME Switch PROVE WebhookInv'
  <2>1. /\ endpoint' \in {"on", "off"} /\ revoking = Free
        /\ UNCHANGED <<delivery, attempts, poster, revoking, losses, posts, accepted, late>>
    BY <1>5 DEF Switch, webhookHistory
  <2>2. \A e \in Deliveries : Counted(e)' BY <2>1 DEF Counted, Posting
  <2>3. QED BY <2>1, <2>2 DEF Locked, AcceptedSettled, RevokedStays
<1>6. ASSUME RevokeReads PROVE WebhookInv'
  <2>1. /\ revoking' = {d \in Deliveries : delivery[d] = "pending"} /\ endpoint # "revoked"
        /\ UNCHANGED <<endpoint, delivery, attempts, poster, losses, posts, accepted, late>>
    BY <1>6 DEF RevokeReads, webhookHistory
  <2>2. \A e \in Deliveries : Counted(e)' BY <2>1 DEF Counted, Posting
  <2>3. QED BY <2>1, <2>2 DEF Locked, AcceptedSettled, RevokedStays
<1>7. ASSUME RevokeCommits PROVE WebhookInv'
  <2>0. revoking \in SUBSET Deliveries /\ \A d \in revoking : ~Posting(d)
    BY <1>7 DEF RevokeCommits, RowsFree
  <2>1. /\ endpoint' = "revoked" /\ revoking' = Free
        /\ delivery' = [d \in Deliveries |-> IF d \in revoking THEN "failed" ELSE delivery[d]]
        /\ UNCHANGED <<attempts, poster, losses, posts, accepted, late>>
    BY <1>7 DEF RevokeCommits, webhookHistory
  <2>2. WebhookTypeOK'
    <3>1. delivery' \in [Deliveries -> Statuses] BY <2>1 DEF Statuses
    <3>2. QED BY <2>1, <3>1
  <2>3. Locked' BY <2>0, <2>1 DEF Locked, Posting
  <2>4. AcceptedSettled' BY <2>1 DEF AcceptedSettled
  <2>5. RevokedStays' BY <1>7, <2>1 DEF RevokedStays, RevokeCommits
  <2>6. \A e \in Deliveries : Counted(e)' BY <2>1 DEF Counted, Posting
  <2>7. QED BY <2>2, <2>3, <2>4, <2>5, <2>6
<1>8. ASSUME NEW d \in Deliveries, Twice(d) PROVE WebhookInv'
  <2>1. /\ losses' = losses + 1
        /\ UNCHANGED <<endpoint, delivery, attempts, poster, revoking, posts, accepted, late>>
    BY <1>8 DEF Twice
  <2>2. \A e \in Deliveries : Counted(e)' BY <2>1 DEF Counted, Posting
  <2>3. QED BY <2>1, <2>2 DEF Locked, AcceptedSettled, RevokedStays
<1>9. CASE UNCHANGED webhookVars
  <2>1. \A e \in Deliveries : Counted(e)' BY <1>9 DEF Counted, Posting, webhookVars, webhookHistory
  <2>2. QED BY <1>9, <2>1 DEF webhookVars, webhookHistory, Locked, AcceptedSettled, RevokedStays
<1>10. QED BY <1>1, <1>2, <1>3, <1>4, <1>5, <1>6, <1>7, <1>8, <1>9 DEF WebhookNext, Deliver

\* A delivery is posted only while it is pending.
LEMMA StepPosts ==
  ASSUME WebhookInv, [WebhookNext]_webhookVars PROVE \A d \in accepted : posts'[d] = posts[d]
<1> SUFFICES ASSUME NEW d \in accepted PROVE posts'[d] = posts[d]
  OBVIOUS
<1>1. delivery[d] # "pending" /\ d \in Deliveries
  BY DEF WebhookInv, AcceptedSettled, WebhookTypeOK
<1>2. ASSUME NEW w \in Posters, NEW e \in Deliveries, Attempt(w, e) PROVE posts'[d] = posts[d]
  BY <1>1, <1>2 DEF Attempt, Attemptable, WebhookInv, WebhookTypeOK
<1>3. CASE UNCHANGED posts BY <1>3
<1>4. QED
  BY <1>2, <1>3 DEF WebhookNext, webhookVars, webhookHistory, RunEnds, Enqueue, Twice, Deliver, Answer, PosterLost, Switch,
     RevokeReads, RevokeCommits

LEMMA WebhookAlways == ASSUME WebhookAssumption PROVE WebhookSpec => []WebhookInv
BY InitWebhook, StepWebhook, PTL DEF WebhookSpec

\* A result the destination is known to have accepted is never sent again (attempt_delivery,
\* the status read under the lock of the row).
THEOREM AcceptedOnceAlways == ASSUME WebhookAssumption PROVE WebhookSpec => AcceptedOnce
BY WebhookAlways, StepPosts, PTL DEF WebhookSpec, AcceptedOnce

\* MAX_ATTEMPTS bounds the requests of a delivery but for those lost with their worker.
THEOREM PostedWithinAttemptsAlways == ASSUME WebhookAssumption PROVE WebhookSpec => []PostedWithinAttempts
<1>1. ASSUME WebhookInv PROVE PostedWithinAttempts
  <2> SUFFICES ASSUME NEW d \in Deliveries PROVE posts[d] <= MaxAttempts + losses
    BY DEF PostedWithinAttempts
  <2>1. Posting(d) => attempts[d] < MaxAttempts
    BY <1>1 DEF Posting, WebhookInv, Locked, Counted
  <2>2. QED BY <1>1, <2>1 DEF WebhookInv, WebhookTypeOK, Counted, WebhookAssumption
<1>2. QED BY <1>1, WebhookAlways, PTL

\* A revocation that has committed leaves under way only what it could not see (revoke_endpoint).
THEOREM RevokedIsQuietAlways == ASSUME WebhookAssumption PROVE WebhookSpec => []RevokedIsQuiet
<1>1. WebhookInv => RevokedIsQuiet
  BY DEF WebhookInv, WebhookTypeOK, Locked, RevokedStays, RevokedIsQuiet, Posting
<1>2. QED BY <1>1, WebhookAlways, PTL

-----------------------------------------------------------------------------
(* The views of the library                                                *)

Placed == Folders \cup Files

\* Each node is where the provider may place it, below a node that is there.
Hung ==
  /\ parent \in [Placed -> Nodes \cup {Gone}]
  /\ \A n \in Placed : parent[n] # Gone => parent[n] \in Places[n] /\ There(parent[n])

\* No cycle: a set of nodes has one whose parent is outside.
Grounded == \A C \in SUBSET Placed : C # {} => \E c \in C : parent[c] \notin C

TreeInv == Hung /\ Grounded

\* Sets of nodes that hold the parent of each of their members.
Upward == {C \in SUBSET Nodes : \A c \in C \cap Placed : parent[c] \in C \cup {Gone}}

\* What climbing from a node reaches.
Climbed(n) == {m \in Nodes : \A C \in Upward : n \in C => m \in C}

LEMMA KindsOfNodes ==
  ASSUME LibraryAssumption
  PROVE  /\ Nodes = Sources \cup Placed /\ \A n \in Nodes : n \in Sources <=> n \notin Placed
         /\ Gone \notin Nodes
         /\ \A n \in Placed : Places[n] \subseteq Sources \cup Folders
BY DEF LibraryAssumption, Nodes, Placed

LEMMA ClimbedIsUpward ==
  ASSUME LibraryAssumption, Hung, NEW n \in Nodes
  PROVE  Climbed(n) \in Upward
<1>1. SUFFICES ASSUME NEW c \in Climbed(n) \cap Placed, parent[c] # Gone
               PROVE  parent[c] \in Climbed(n)
  BY DEF Upward, Climbed
<1>2. parent[c] \in Nodes BY <1>1, KindsOfNodes DEF Hung
<1>3. ASSUME NEW C \in Upward, n \in C PROVE parent[c] \in C
  BY <1>1, <1>3 DEF Climbed, Upward
<1>4. QED BY <1>2, <1>3 DEF Climbed

\* What is reached is the node, and what its parent reaches.
LEMMA ClimbedStep ==
  ASSUME LibraryAssumption, Hung, NEW n \in Nodes
  PROVE  Climbed(n) = {n} \cup (IF n \in Sources THEN {} ELSE IF parent[n] = Gone THEN {} ELSE Climbed(parent[n]))
<1>1. n \in Climbed(n) BY DEF Climbed
<1>2. CASE n \in Sources \/ parent[n] = Gone
  <2>1. {n} \in Upward BY <1>2, KindsOfNodes DEF Upward
  <2>2. Climbed(n) = {n} BY <1>1, <2>1 DEF Climbed
  <2>3. QED BY <1>2, <2>2
<1>3. CASE n \notin Sources /\ parent[n] # Gone
  <2>1. n \in Placed /\ parent[n] \in Nodes BY <1>3, KindsOfNodes DEF Hung
  <2>2. Climbed(parent[n]) \in Upward BY <2>1, ClimbedIsUpward
  <2>3. parent[n] \in Climbed(parent[n]) BY <2>1 DEF Climbed
  <2>4. {n} \cup Climbed(parent[n]) \in Upward
    BY <2>2, <2>3, KindsOfNodes DEF Upward
  <2>5. Climbed(n) \subseteq {n} \cup Climbed(parent[n]) BY <2>4 DEF Climbed
  <2>6. \A C \in Upward : n \in C => parent[n] \in C BY <1>3, <2>1 DEF Upward
  <2>7. Climbed(parent[n]) \subseteq Climbed(n) BY <2>6 DEF Climbed
  <2>8. QED BY <1>1, <1>3, <2>5, <2>7
<1>4. QED BY <1>2, <1>3

LEMMA ChainStep ==
  ASSUME LibraryAssumption, Hung
  PROVE  \A n \in Nodes :
           Chain[n] = {n} \cup (IF n \in Sources THEN {} ELSE IF parent[n] = Gone THEN {} ELSE Chain[parent[n]])
<1> DEFINE Eq(c) == c = [n \in Nodes |->
      {n} \cup (IF n \in Sources THEN {} ELSE IF parent[n] = Gone THEN {} ELSE c[parent[n]])]
<1>1. PICK c : c = [n \in Nodes |-> Climbed(n)] OBVIOUS
<1>2. ASSUME NEW n \in Nodes
      PROVE  c[n] = {n} \cup (IF n \in Sources THEN {} ELSE IF parent[n] = Gone THEN {} ELSE c[parent[n]])
  <2>1. n \notin Sources /\ parent[n] # Gone => parent[n] \in Nodes BY KindsOfNodes DEF Hung
  <2>2. QED BY <1>1, <2>1, ClimbedStep
<1>3. Eq(c) BY <1>1, <1>2
<1>4. Chain = CHOOSE d : Eq(d) BY DEF Chain
<1>5. Eq(Chain) BY <1>3, <1>4, Zenon
<1>6. QED BY <1>5

\* An argument up the tree: a node left out of an upward set has a last one whose parent is not.
LEMMA LastOf ==
  ASSUME LibraryAssumption, TreeInv, NEW B \in SUBSET Placed, B # {}
  PROVE  \E n \in B : n \in Nodes /\ n \notin Sources /\ (parent[n] = Gone \/ parent[n] \in Nodes \ B)
<1>1. PICK n \in B : parent[n] \notin B BY DEF TreeInv, Grounded
<1>2. QED BY <1>1, KindsOfNodes DEF TreeInv, Hung

LEMMA ChainWithin ==
  ASSUME LibraryAssumption, TreeInv, NEW U \in Upward, NEW x \in U
  PROVE  Chain[x] \subseteq U
<1> DEFINE B == {n \in U : ~(Chain[n] \subseteq U)}
<1>0. U \subseteq Nodes BY DEF Upward
<1>1. ASSUME x \in B PROVE FALSE
  <2>1. B \in SUBSET Placed BY <1>0, ChainStep, KindsOfNodes DEF TreeInv
  <2>2. PICK n \in B : n \in Nodes /\ n \notin Sources /\ (parent[n] = Gone \/ parent[n] \in Nodes \ B)
    BY <1>1, <2>1, LastOf
  <2>3. parent[n] # Gone => Chain[parent[n]] \subseteq U BY <2>1, <2>2 DEF Upward
  <2>4. QED BY <2>2, <2>3, ChainStep DEF TreeInv
<1>2. QED BY <1>1

LEMMA ChainUpward ==
  ASSUME LibraryAssumption, TreeInv, NEW x \in Nodes
  PROVE  Chain[x] \in Upward /\ x \in Chain[x]
<1> DEFINE B == {n \in Nodes : Chain[n] \notin Upward}
<1>1. \A n \in Nodes : n \in Chain[n] BY ChainStep DEF TreeInv
<1>2. ASSUME x \in B PROVE FALSE
  <2>1. ASSUME NEW n \in Nodes, Chain[n] = {n}, n \in Sources \/ parent[n] = Gone PROVE Chain[n] \in Upward
    BY <2>1, KindsOfNodes DEF Upward
  <2>2. B \in SUBSET Placed BY <2>1, ChainStep, KindsOfNodes DEF TreeInv
  <2>3. PICK n \in B : n \in Nodes /\ n \notin Sources /\ (parent[n] = Gone \/ parent[n] \in Nodes \ B)
    BY <1>2, <2>2, LastOf
  <2>4. parent[n] # Gone BY <2>1, <2>3, ChainStep DEF TreeInv
  <2>5. Chain[n] = {n} \cup Chain[parent[n]] BY <2>3, <2>4, ChainStep DEF TreeInv
  <2>6. Chain[parent[n]] \in Upward /\ parent[n] \in Chain[parent[n]] BY <1>1, <2>3, <2>4
  <2>7. Chain[n] \in Upward BY <2>3, <2>5, <2>6 DEF Upward
  <2>8. QED BY <2>3, <2>7
<1>3. QED BY <1>1, <1>2

\* The ancestors of an ancestor are ancestors.
LEMMA ChainTransitive ==
  ASSUME LibraryAssumption, TreeInv, NEW x \in Nodes, NEW n \in Chain[x]
  PROVE  n \in Nodes /\ Chain[n] \subseteq Chain[x]
<1>1. Chain[x] \in Upward BY ChainUpward
<1>2. QED BY <1>1, ChainWithin DEF Upward

\* The ancestors of a node that is there are there, are of its source, and hold files only as itself.
LEMMA ChainThere ==
  ASSUME LibraryAssumption, TreeInv, NEW x \in Nodes, There(x), NEW n \in Chain[x]
  PROVE  There(n)
<1> DEFINE U == {m \in Nodes : There(m)}
<1>1. U \in Upward BY KindsOfNodes DEF TreeInv, Hung, Upward
<1>2. QED BY <1>1, ChainWithin

LEMMA ChainHome ==
  ASSUME LibraryAssumption, TreeInv, NEW x \in Nodes, NEW n \in Chain[x]
  PROVE  Home[n] = Home[x]
<1> DEFINE U == {m \in Nodes : Home[m] = Home[x]}
<1>1. U \in Upward BY KindsOfNodes DEF TreeInv, Hung, Upward, LibraryAssumption, Placed
<1>2. QED BY <1>1, ChainWithin

\* A node placed outside what leads to it makes no cycle.
LEMMA ProjectGrounded ==
  ASSUME LibraryAssumption, TreeInv, NEW n \in Placed, NEW p \in Nodes, n \notin Chain[p],
         parent' = [parent EXCEPT ![n] = p]
  PROVE  Grounded'
<1>1. SUFFICES ASSUME NEW C \in SUBSET Placed, C # {}, \A c \in C : parent'[c] \in C PROVE FALSE
  BY DEF Grounded
<1>2. \A c \in Placed : parent'[c] = IF c = n THEN p ELSE parent[c] BY DEF TreeInv, Hung
<1>3. n \in C BY <1>1, <1>2 DEF TreeInv, Grounded
<1>4. p \in C BY <1>1, <1>2, <1>3
<1>5. Chain[p] \in Upward /\ p \in Chain[p] BY ChainUpward
<1>6. C \cap Chain[p] \in SUBSET Placed /\ C \cap Chain[p] # {} BY <1>4, <1>5
<1>7. PICK c \in C \cap Chain[p] : parent[c] \notin C \cap Chain[p] BY <1>6 DEF TreeInv, Grounded
<1>8. parent'[c] = parent[c] /\ c \in Placed BY <1>1, <1>2, <1>7
<1>9. parent[c] \in C BY <1>1, <1>7, <1>8
<1>10. parent[c] \in Chain[p] BY <1>1, <1>5, <1>7, <1>8, <1>9, KindsOfNodes DEF Upward
<1>11. QED BY <1>7, <1>9, <1>10

LEMMA TreeStart == ASSUME LibraryAssumption PROVE LibraryInit => TreeInv
<1> SUFFICES ASSUME LibraryInit PROVE TreeInv OBVIOUS
<1>1. \A n \in Placed : parent[n] = Gone /\ Gone \notin Placed
  BY KindsOfNodes DEF LibraryInit, Placed
<1>2. Hung BY <1>1 DEF Hung, LibraryInit, Placed
<1>3. Grounded BY <1>1 DEF Grounded
<1>4. QED BY <1>2, <1>3 DEF TreeInv

LEMMA TreeAlone == ASSUME TreeInv, parent' = parent PROVE TreeInv'
BY DEF TreeInv, Hung, Grounded, There

LEMMA TreeProject ==
  ASSUME LibraryAssumption, TreeInv, NEW n \in Placed, NEW p \in Places[n], Project(n, p)
  PROVE  TreeInv'
<1>1. /\ p \in Nodes /\ p # Gone /\ There(p) /\ n \notin Chain[p]
      /\ parent' = [parent EXCEPT ![n] = p]
  BY KindsOfNodes DEF Project, Nodes
<1>2. \A c \in Placed : parent'[c] = IF c = n THEN p ELSE parent[c]
  BY <1>1 DEF TreeInv, Hung
<1>3. Grounded' BY <1>1, ProjectGrounded
<1>4. \A m : There(m) => There(m)' BY <1>1, <1>2 DEF There, Placed
<1>5. Hung'
  <2>1. parent' \in [Placed -> Nodes \cup {Gone}] BY <1>1 DEF TreeInv, Hung
  <2>2. ASSUME NEW c \in Placed, parent'[c] # Gone
        PROVE  parent'[c] \in Places[c] /\ There(parent[c])'
    <3>1. PICK q \in Nodes : q = parent'[c] /\ q \in Places[c] /\ There(q)
      BY <1>1, <1>2, <2>2 DEF TreeInv, Hung
    <3>2. There(q)' BY <1>4, <3>1
    <3>3. QED BY <3>1, <3>2
  <2>3. QED BY <2>1, <2>2 DEF Hung
<1>6. QED BY <1>3, <1>5 DEF TreeInv

LEMMA TreeRemove ==
  ASSUME LibraryAssumption, TreeInv, NEW n \in Folders, RemoveFolder(n)
  PROVE  TreeInv'
<1>1. /\ There(n)
      /\ parent' = [m \in Placed |-> IF m \in Under({n}) THEN Gone ELSE parent[m]]
  BY DEF RemoveFolder, TreeInv, Hung
<1>2. \A m \in Placed : parent'[m] # Gone => parent'[m] = parent[m] /\ m \notin Under({n})
  BY <1>1
<1>3. Grounded'
  <2>1. SUFFICES ASSUME NEW C \in SUBSET Placed, C # {} PROVE \E c \in C : parent'[c] \notin C
    BY DEF Grounded
  <2>2. PICK c \in C : parent[c] \notin C BY <2>1 DEF TreeInv, Grounded
  <2>3. Gone \notin C BY KindsOfNodes
  <2>4. QED BY <1>1, <2>2, <2>3
<1>4. ASSUME NEW c \in Placed, parent'[c] # Gone
      PROVE  parent'[c] \in Places[c] /\ There(parent[c])'
  <2>1. parent'[c] = parent[c] /\ c \notin Under({n}) BY <1>2, <1>4
  <2>2. PICK q \in Nodes : q = parent[c] BY <1>4, <2>1 DEF TreeInv, Hung
  <2>3. q \in Places[c] /\ There(q) /\ There(c) BY <1>4, <2>1, <2>2 DEF TreeInv, Hung, There, Placed
  <2>4. c \in Nodes /\ c \notin Sources BY KindsOfNodes
  <2>5. Chain[c] = {c} \cup Chain[q] BY <1>4, <2>1, <2>2, <2>4, ChainStep DEF TreeInv
  <2>6. q \notin Under({n}) BY <2>1, <2>3, <2>4, <2>5 DEF Under
  <2>7. q \in Placed => parent'[q] = parent[q] BY <1>1, <2>6
  <2>8. q \in Placed => parent'[q] # Gone BY <2>3, <2>7, KindsOfNodes DEF There, Placed
  <2>9. q \in Sources \/ q \in Placed BY KindsOfNodes
  <2>10. There(q)' BY <2>8, <2>9 DEF There, Placed
  <2>11. QED BY <2>1, <2>2, <2>3, <2>10
<1>5. parent' \in [Placed -> Nodes \cup {Gone}] BY <1>1 DEF TreeInv, Hung
<1>6. Hung' BY <1>4, <1>5 DEF Hung
<1>7. QED BY <1>3, <1>6 DEF TreeInv

LEMMA TreeStep == ASSUME LibraryAssumption, TreeInv, LibraryNext PROVE TreeInv'
<1>1. CASE \E n \in Folders \cup Files : \E p \in Places[n] : Project(n, p)
  BY <1>1, TreeProject DEF Placed
<1>2. CASE \E n \in Folders : RemoveFolder(n) BY <1>2, TreeRemove
<1>3. CASE parent' = parent BY <1>3, TreeAlone
<1>4. \/ \E n \in Folders \cup Files : \E p \in Places[n] : Project(n, p)
      \/ \E n \in Folders : RemoveFolder(n)
      \/ parent' = parent
  BY DEF LibraryNext, Process, Sync, Grant, Revoke, Join, Leave, ChangeRole
<1>5. QED BY <1>1, <1>2, <1>3, <1>4

-----------------------------------------------------------------------------
(* What the views owe each other                                           *)

LEMMA VisibleTree ==
  ASSUME LibraryAssumption, TreeInv, NEW S, NEW n \in Visible(S)
  PROVE  /\ n \in Nodes /\ There(n) /\ Chain[n] \subseteq Visible(S)
         /\ n \in Placed => parent[n] \in Visible(S)
<1>1. PICK x \in VisibleFiles(S) : n \in Chain[x] BY DEF Visible
<1>2. x \in Nodes /\ There(x) BY <1>1 DEF VisibleFiles, Nodes
<1>3. n \in Nodes /\ Chain[n] \subseteq Chain[x] BY <1>1, <1>2, ChainTransitive
<1>4. There(n) BY <1>1, <1>2, ChainThere
<1>5. Chain[x] \in Upward BY <1>2, ChainUpward
<1>6. Chain[x] \subseteq Visible(S) BY <1>1 DEF Visible
<1>7. ASSUME n \in Placed PROVE parent[n] \in Visible(S)
  <2>1. parent[n] # Gone BY <1>4, <1>7, KindsOfNodes DEF There, Placed
  <2>2. parent[n] \in Chain[x] BY <1>1, <1>5, <1>7, <2>1 DEF Upward
  <2>3. QED BY <1>6, <2>2
<1>8. QED BY <1>3, <1>4, <1>6, <1>7

LEMMA VisibleBrowsed ==
  ASSUME LibraryAssumption, TreeInv, NEW S
  PROVE  Visible(S) \subseteq Browsed(S) /\ Browsed(S) \subseteq Visible(S)
<1>1. ASSUME NEW n \in Visible(S) PROVE n \in Browsed(S)
  <2>1. n \in Nodes /\ There(n) /\ Chain[n] \subseteq Visible(S) BY VisibleTree
  <2>2. ASSUME NEW c \in Chain[n], c \notin Sources
        PROVE  Opens(S, parent[c]) /\ c \in Children(S, parent[c])
    <3>1. c \in Visible(S) BY <2>1
    <3>2. c \in Nodes /\ There(c) /\ (c \in Placed => parent[c] \in Visible(S)) BY <3>1, VisibleTree
    <3>3. c \in Placed BY <2>2, <3>2, KindsOfNodes
    <3>4. parent[c] # Gone BY <3>2, <3>3, KindsOfNodes DEF There, Placed
    <3>5. parent[c] \in Sources \cup Folders
      BY <3>3, <3>4, KindsOfNodes DEF TreeInv, Hung
    <3>6. Opens(S, parent[c]) BY <3>2, <3>3, <3>5 DEF Opens
    <3>7. parent[c] \in SameToolRoots(parent[c]) BY DEF SameToolRoots
    <3>8. c \in Children(S, parent[c]) BY <2>2, <3>1, <3>7 DEF Children
    <3>9. QED BY <3>6, <3>8
  <2>3. \A c \in Chain[n] : c \in Sources => c \in Roots(S) BY <2>1 DEF Roots
  <2>4. QED BY <2>1, <2>2, <2>3 DEF Browsed
<1>2. ASSUME NEW n \in Browsed(S) PROVE n \in Visible(S)
  <2>1. n \in Nodes /\ n \in Chain[n] BY ChainUpward DEF Browsed
  <2>2. QED BY <1>2, <2>1 DEF Browsed, Roots, Children
<1>3. QED BY <1>1, <1>2

LEMMA FoundBrowsed == ASSUME LibraryAssumption, TreeInv PROVE FoundIsBrowsed
BY VisibleBrowsed DEF FoundIsBrowsed, Found

LEMMA SelectionCopy ==
  ASSUME LibraryAssumption, TreeInv, NEW S, NEW d \in SelectionDocuments(S)
  PROVE  /\ d \in Indexed \cap Readable(S) \cap Live /\ d[1] \in Eligible(S) /\ d[1] \in Contexts(S)
         /\ ScopeQueryable(d[1]) /\ d[1] \in Scopes /\ d[2] \in Files /\ d \in CopiesOf(d[2])
         /\ Home[d[1]] = Home[d[2]]
         /\ There(d[2]) => d[2] \in VisibleFiles(S)
<1>1. d \in Copies /\ d \in Indexed /\ d \in Readable(S) /\ d \in Stored /\ ScopeQueryable(d[1])
  BY DEF SelectionDocuments, Indexed, Stored
<1>2. d[1] \in Scopes /\ d[2] \in Files /\ Home[d[1]] = Home[d[2]] BY <1>1 DEF LibraryAssumption
<1>3. d \in Live BY <1>1 DEF Indexed, Live
<1>4. d[1] \in Eligible(S) /\ d[1] \in Contexts(S) BY DEF SelectionDocuments, Eligible, Contexts
<1>5. d \in CopiesOf(d[2]) BY <1>1 DEF CopiesOf
<1>6. There(d[2]) => d[2] \in VisibleFiles(S) BY <1>1, <1>2, <1>3, <1>5 DEF VisibleFiles
<1>7. QED BY <1>1, <1>2, <1>3, <1>4, <1>5, <1>6

LEMMA SuggestionsAccepted == ASSUME LibraryAssumption, TreeInv PROVE SuggestionsHold
<1> SUFFICES ASSUME NEW n \in Suggested(Spaces)
             PROVE  Accepted(Spaces, n) /\ n \in Located(Spaces) \cap Browsed(Spaces)
  BY DEF SuggestionsHold
<1>1. PICK d \in SelectionDocuments(Spaces) : There(d[2]) /\ n \in Chain[d[2]] /\ n \notin Sources
  <2>1. PICK x \in {d[2] : d \in {e \in SelectionDocuments(Spaces) : There(e[2])}} :
          n \in Chain[x] /\ n \notin Sources
    BY DEF Suggested
  <2>2. PICK d \in {e \in SelectionDocuments(Spaces) : There(e[2])} : x = d[2] BY <2>1
  <2>3. QED BY <2>1, <2>2
<1>2. /\ d[1] \in Contexts(Spaces) /\ d[2] \in VisibleFiles(Spaces) /\ d[2] \in Nodes
      /\ Home[d[1]] = Home[d[2]]
  BY <1>1, SelectionCopy DEF Nodes
<1>3. n \in Visible(Spaces) BY <1>1, <1>2 DEF Visible
<1>4. n \in Browsed(Spaces) BY <1>3, VisibleBrowsed
<1>5. Home[d[1]] = Home[n] BY <1>1, <1>2, ChainHome
<1>6. d \in Matched(Spaces, n) BY <1>1, <1>2 DEF Matched, Under
<1>7. Accepted(Spaces, n) BY <1>1, <1>2, <1>3, <1>5, <1>6 DEF Accepted
<1>8. n \in Located(Spaces) BY <1>1, <1>2, <1>3, <1>5 DEF Located, Contexts
<1>9. QED BY <1>4, <1>7, <1>8

\* A file that is not in the catalog is below no folder.
LEMMA FolderAbove ==
  ASSUME LibraryAssumption, TreeInv, NEW x \in Files, NEW g \in Folders \cap Chain[x]
  PROVE  There(x) /\ x \in Nodes
<1>1. x \in Nodes /\ x \notin Sources /\ x # g BY DEF LibraryAssumption, Nodes
<1>2. parent[x] # Gone BY <1>1, ChainStep DEF TreeInv
<1>3. QED BY <1>1, <1>2 DEF There

LEMMA SealsGiven == ASSUME LibraryAssumption, TreeInv PROVE SealsGrant
<1> DEFINE S == Spaces
<1> SUFFICES ASSUME NEW d \in Hits(S, Selection(S, {}))
             PROVE  /\ Seals(S, d) # {}
                    /\ There(d[2]) => Seals(S, d) \subseteq Badges(S, d[2]) /\ d \in DocumentsOf(S, d[2])
                    /\ \A s \in Seals(S, d) : CopiesOf(d[2]) \cap Readable({s}) # {}
  BY DEF SealsGrant
<1>1. d \in Indexed /\ d \in Readable(S) /\ d \in Stored /\ d \in Copies
  BY DEF Hits, Indexed, Stored
<1>2. d[2] \in Files /\ d[2] \in Nodes /\ Home[d[1]] = Home[d[2]] /\ d \in CopiesOf(d[2])
  BY <1>1 DEF LibraryAssumption, Nodes, CopiesOf
<1>3. Seals(S, d) # {}
  <2>1. CASE d[1] \in FolderIds(S) BY <1>1, <1>2, <2>1 DEF FolderIds, Seals
  <2>2. CASE d \in InGrants(S)
    <3>1. PICK g \in NodeIds(S) : g \in Chain[d[2]] BY <2>2 DEF InGrants, Under
    <3>2. QED BY <3>1 DEF NodeIds, Seals
  <2>3. QED BY <1>1, <2>1, <2>2 DEF Readable
<1>4. ASSUME NEW s \in Seals(S, d)
      PROVE  CopiesOf(d[2]) \cap Readable({s}) # {} /\ (There(d[2]) => s \in Badges(S, d[2]))
  <2>1. CASE \E e \in CopiesOf(d[2]) \cap Indexed : <<s, e[1]>> \in grants /\ s \in Mine(S)
    <3>1. PICK e \in CopiesOf(d[2]) \cap Indexed : <<s, e[1]>> \in grants /\ s \in Mine(S) BY <2>1
    <3>2. e \in Stored /\ e \in Live /\ e[1] \in Scopes /\ e[2] = d[2]
      BY <3>1 DEF CopiesOf, Indexed, Live, Stored, LibraryAssumption
    <3>3. s \in Mine({s}) BY <3>1 DEF Mine
    <3>4. e \in Readable({s}) BY <3>1, <3>2, <3>3 DEF Readable, FolderIds
    <3>5. There(d[2]) => d[2] \in Under({d[2]}) BY <1>2, ChainUpward DEF Under
    <3>6. QED BY <3>1, <3>2, <3>4, <3>5 DEF Badges
  <2>2. CASE \E g \in Folders \cap Chain[d[2]] : There(g) /\ <<s, g>> \in grants /\ s \in Mine(S)
    <3>1. PICK g \in Folders \cap Chain[d[2]] : There(g) /\ <<s, g>> \in grants /\ s \in Mine(S) BY <2>2
    <3>2. s \in Mine({s}) BY <3>1 DEF Mine
    <3>3. g \in NodeIds({s}) BY <3>1, <3>2 DEF NodeIds
    <3>4. There(d[2]) BY <1>2, <3>1, FolderAbove
    <3>5. d \in Readable({s}) BY <1>1, <1>2, <3>1, <3>3, <3>4 DEF Readable, InGrants, Under
    <3>6. s \in GrantedAround(S, d[2]) BY <3>1 DEF GrantedAround
    <3>7. QED BY <1>2, <3>5, <3>6 DEF Badges
  <2>3. QED BY <2>1, <2>2 DEF Seals
<1>5. d \in DocumentsOf(S, d[2]) BY <1>1, <1>2 DEF DocumentsOf
<1>6. QED BY <1>3, <1>4, <1>5

LEMMA ListedDescribed == ASSUME LibraryAssumption, TreeInv PROVE ListedIsDescribed
<1> DEFINE S == Spaces
<1>1. ASSUME NEW x \in Inventory(S) \ Describable(S), NEW w \in Eligible(S), Home[w] = Home[x]
      PROVE  w \in Partial(S) /\ state[w] = "syncing"
  <2>1. x \in Files \cap Visible(S) BY DEF Inventory, Catalog
  <2>2. w \in Contexts(S) BY DEF Eligible, Contexts
  <2>3. ~ScopeQueryable(w) BY <1>1, <2>1, <2>2 DEF Describable, Admitted
  <2>4. w \in Partial(S) /\ state[w] \in {"ready", "syncing"} BY <2>3 DEF Eligible
  <2>5. QED BY <2>3, <2>4 DEF ScopeQueryable
<1>2. ASSUME NEW d \in SelectionDocuments(S), There(d[2]) PROVE d[2] \in Quoted(S)
  <2>1. /\ d \in Indexed \cap Readable(S) /\ d[1] \in Contexts(S) /\ ScopeQueryable(d[1])
        /\ d[2] \in Files /\ d \in CopiesOf(d[2]) /\ Home[d[1]] = Home[d[2]]
        /\ d[2] \in VisibleFiles(S)
    BY <1>2, SelectionCopy
  <2>2. d[2] \in Visible(S) BY <2>1, ChainUpward DEF Visible, Nodes
  <2>3. d[1] \in Admitted(S) BY <2>1 DEF Admitted
  <2>4. d[2] \in Describable(S) BY <2>1, <2>2, <2>3 DEF Describable
  <2>5. d \in DocumentsOf(S, d[2]) BY <2>1 DEF DocumentsOf
  <2>6. QED BY <2>3, <2>4, <2>5 DEF Quoted
<1>3. QED BY <1>1, <1>2 DEF ListedIsDescribed
-----------------------------------------------------------------------------
(* Credentials and calls                                                   *)

Enabling == [nodes : Confinements, previous : Bindings \cup {Unused}]

\* At most one binding is open, and one is until the person takes it away.
BindingInv ==
  /\ bound \in [Bindings -> {Unused, Closed} \cup Confinements]
  /\ enabling \in [Slots -> {NoCall} \cup Enabling]
  /\ \A b, c \in Bindings : Open(bound, b) /\ Open(bound, c) => b = c
  /\ OneBinding

CallTyped ==
  call # NoCall =>
    call = [step |-> call.step, nodes |-> call.nodes, spaces |-> call.spaces, sel |-> call.sel, docs |-> call.docs]

AccessInv == TreeInv /\ BindingInv /\ CallTyped

LEMMA AccessStart ==
  ASSUME LibraryAssumption, AccessAssumption
  PROVE  LibraryInit /\ AccessInit => AccessInv
<1> SUFFICES ASSUME LibraryInit, AccessInit PROVE AccessInv OBVIOUS
<1>1. BindingInv BY DEF AccessInit, BindingInv, OneBinding, Open
<1>2. CallTyped BY DEF AccessInit, CallTyped
<1>3. QED BY <1>1, <1>2, TreeStart DEF AccessInv

LEMMA BindingWritten ==
  ASSUME AccessAssumption, BindingInv, NEW q \in Slots, EnableWrites(q)
  PROVE  BindingInv'
<1>1. enabling[q] \in Enabling BY DEF EnableWrites, BindingInv
<1>2. PICK b \in Bindings :
        /\ bound[b] = Unused
        /\ bound' = IF Vacant(Revoked(q)) THEN [Revoked(q) EXCEPT ![b] = enabling[q].nodes] ELSE bound
  BY DEF EnableWrites
<1>3. PICK ns \in Confinements : ns = enabling[q].nodes BY <1>1 DEF Enabling
<1>4. enabling' = [enabling EXCEPT ![q] = NoCall] BY DEF EnableWrites
<1>5. enabling' \in [Slots -> {NoCall} \cup Enabling] BY <1>4 DEF BindingInv
<1>6. CASE Vacant(Revoked(q))
  <2>1. bound' = [Revoked(q) EXCEPT ![b] = ns] BY <1>2, <1>3, <1>6
  <2>2. bound' = [c \in Bindings |-> IF c = b THEN ns ELSE Revoked(q)[c]] BY <2>1 DEF Revoked
  <2>3. \A c \in Bindings \ {b} : bound'[c] \in {Unused, Closed}
    BY <1>6, <2>2 DEF Vacant, Open
  <2>4. bound'[b] = ns /\ ns \notin {Unused, Closed} BY <2>2 DEF AccessAssumption
  <2>5. \A c \in Bindings : Open(bound, c)' <=> c = b BY <2>3, <2>4 DEF Open
  <2>6. bound' \in [Bindings -> {Unused, Closed} \cup Confinements] BY <2>2, <2>3, <2>4
  <2>7. OneBinding' BY <2>5 DEF OneBinding
  <2>8. QED BY <1>5, <2>5, <2>6, <2>7 DEF BindingInv
<1>7. CASE ~Vacant(Revoked(q))
  <2>1. bound' = bound BY <1>2, <1>7
  <2>2. PICK c \in Bindings : Open(Revoked(q), c) BY <1>7 DEF Vacant
  <2>3. Open(bound, c) BY <2>2 DEF Open, Revoked
  <2>4. \A e \in Bindings : Open(bound, e) <=> e = c BY <2>3 DEF BindingInv
  <2>5. OneBinding' BY <2>1, <2>4 DEF OneBinding, Open
  <2>6. QED BY <1>5, <2>1, <2>5 DEF BindingInv, Open
<1>8. QED BY <1>6, <1>7

LEMMA BindingStep ==
  ASSUME AccessAssumption, BindingInv, AccessNext
  PROVE  BindingInv'
<1>1. ASSUME NEW q \in Slots, EnableWrites(q) PROVE BindingInv' BY <1>1, BindingWritten
<1>2. ASSUME NEW q \in Slots, NEW ns \in Confinements, EnableReads(q, ns) PROVE BindingInv'
  <2>1. PICK prev \in Bindings \cup {Unused} :
          enabling' = [enabling EXCEPT ![q] = [nodes |-> ns, previous |-> prev]]
    BY <1>2 DEF EnableReads
  <2>2. [nodes |-> ns, previous |-> prev] \in Enabling BY <2>1 DEF Enabling
  <2>3. enabling' \in [Slots -> {NoCall} \cup Enabling] BY <2>1, <2>2 DEF BindingInv
  <2>4. UNCHANGED <<bound, unbound>> BY <1>2 DEF EnableReads
  <2>5. QED BY <2>3, <2>4 DEF BindingInv, OneBinding, Open
<1>3. ASSUME NEW b \in Bindings, RevokeBinding(b) PROVE BindingInv'
  <2>1. bound' = [bound EXCEPT ![b] = Closed] /\ unbound' = TRUE /\ enabling' = enabling
    BY <1>3 DEF RevokeBinding
  <2>2. bound' \in [Bindings -> {Unused, Closed} \cup Confinements] BY <2>1 DEF BindingInv
  <2>3. \A c \in Bindings : Open(bound, c)' => Open(bound, c) BY <2>1 DEF Open, BindingInv
  <2>4. QED BY <2>1, <2>2, <2>3 DEF BindingInv, OneBinding
<1>4. CASE UNCHANGED <<bound, enabling, unbound>>
  BY <1>4 DEF BindingInv, OneBinding, Open
<1>5. \/ \E q \in Slots : (\E ns \in Confinements : EnableReads(q, ns)) \/ EnableWrites(q)
      \/ \E b \in Bindings : RevokeBinding(b)
      \/ UNCHANGED <<bound, enabling, unbound>>
  BY DEF AccessNext, CreateKey, RevokeKey, SwitchApi, SwitchMcp, ChangeMembership, World,
         WithKey, WithBinding, Select, Read, Refused
<1>6. QED BY <1>1, <1>2, <1>3, <1>4, <1>5

\* What a step makes of a call.
LEMMA CallStep ==
  ASSUME CallTyped, AccessNext
  PROVE  /\ CallTyped'
         /\ \/ call' = call \/ call' = NoCall \/ call = NoCall
            \/ \E wanted \in Asked :
                 /\ call.step = "known" /\ call'.step = "selected" /\ Inside(call.nodes, wanted, call.spaces)
                 /\ call'.sel = Reached(call.nodes, wanted, call.spaces)
            \/ /\ call.step = "selected" /\ active
               /\ call'.docs = AnswerOf(call.sel, call.spaces)
<1>1. CASE call' = call \/ call' = NoCall BY <1>1 DEF CallTyped
<1>2. ASSUME NEW ns, NEW S, call = NoCall, call' = Known(ns, S) PROVE CallTyped'
  BY <1>2 DEF CallTyped, Known
<1>3. ASSUME NEW wanted \in Asked, Select(wanted), call' # NoCall
      PROVE  /\ CallTyped' /\ call.step = "known" /\ call'.step = "selected"
             /\ Inside(call.nodes, wanted, call.spaces)
             /\ call'.sel = Reached(call.nodes, wanted, call.spaces)
  <2>1. PICK r : r = Reached(call.nodes, wanted, call.spaces) OBVIOUS
  <2>2. /\ call # NoCall /\ call.step = "known" /\ Inside(call.nodes, wanted, call.spaces)
        /\ call' = [call EXCEPT !.step = "selected", !.sel = r]
    BY <1>3, <2>1 DEF Select
  <2>3. call' = [step |-> "selected", nodes |-> call.nodes, spaces |-> call.spaces, sel |-> r, docs |-> call.docs]
    BY <2>2 DEF CallTyped
  <2>4. QED BY <2>1, <2>2, <2>3 DEF CallTyped
<1>4. ASSUME Read, call' # NoCall
      PROVE  CallTyped' /\ call.step = "selected" /\ active /\ call'.docs = AnswerOf(call.sel, call.spaces)
  <2>1. PICK r : r = AnswerOf(call.sel, call.spaces) OBVIOUS
  <2>2. /\ call # NoCall /\ call.step = "selected" /\ active
        /\ call' = [call EXCEPT !.step = "read", !.docs = r]
    BY <1>4, <2>1 DEF Read
  <2>3. call' = [step |-> "read", nodes |-> call.nodes, spaces |-> call.spaces, sel |-> call.sel, docs |-> r]
    BY <2>2 DEF CallTyped
  <2>4. QED BY <2>1, <2>2, <2>3 DEF CallTyped
<1>5. \/ call' = call \/ call' = NoCall
      \/ \E ns, S : call = NoCall /\ call' = Known(ns, S)
      \/ \E wanted \in Asked : Select(wanted)
      \/ Read
  BY DEF AccessNext, CreateKey, RevokeKey, SwitchApi, SwitchMcp, ChangeMembership, World,
         EnableReads, EnableWrites, RevokeBinding, WithKey, WithBinding, Refused
<1>6. QED BY <1>1, <1>2, <1>3, <1>4, <1>5
\* What is selected for a credential lies below the nodes it is confined to.
LEMMA ReachedBelow ==
  ASSUME LibraryAssumption, TreeInv, NEW ns, NEW wanted, NEW S, Inside(ns, wanted, S), ns # {},
         NEW d \in Hits(S, Reached(ns, wanted, S))
  PROVE  d[2] \in Under(ns)
<1> DEFINE ms == IF wanted = {} THEN ns ELSE wanted
           taken == {n \in ms : Accepted(S, n)}
<1>1. ms # {} BY DEF Inside
<1>2. Reached(ns, wanted, S) =
        IF Eligible(S) = {} \/ (ms # {} /\ taken = {}) THEN [folders |-> {}, docs |-> {}]
        ELSE Selection(S, taken)
  BY DEF Reached
<1>3. taken # {} /\ Reached(ns, wanted, S) = Selection(S, taken)
  BY <1>1, <1>2 DEF Hits
<1>4. PICK sel : sel = Selection(S, taken) OBVIOUS
<1>5. sel.docs = UNION {Matched(S, n) : n \in taken} BY <1>3, <1>4 DEF Selection
<1>6. \A n : Matched(S, n) \subseteq Copies
  BY DEF Matched, SelectionDocuments, Indexed, Stored
<1>7. sel.docs \in SUBSET Copies BY <1>5, <1>6
<1>8. d \in sel.docs BY <1>3, <1>4, <1>7 DEF Hits, LibraryAssumption
<1>9. PICK n \in taken : d \in Matched(S, n) BY <1>5, <1>8
<1>10. d[2] \in Nodes /\ There(d[2]) /\ n \in Chain[d[2]] BY <1>9 DEF Matched, Under
<1>11. n \in Nodes /\ Chain[n] \subseteq Chain[d[2]] BY <1>10, ChainTransitive
<1>12. Chain[n] \cap ns # {}
  <2>1. CASE wanted = {} BY <1>9, <1>11, <2>1, ChainUpward
  <2>2. CASE wanted # {} BY <1>9, <2>2 DEF Inside
  <2>3. QED BY <2>1, <2>2
<1>13. QED BY <1>10, <1>11, <1>12 DEF Under

LEMMA AccessStep ==
  ASSUME LibraryAssumption, AccessAssumption, AccessInv, [AccessNext]_allVars
  PROVE  AccessInv'
<1>1. CASE AccessNext
  <2>1. LibraryNext \/ parent' = parent
    BY <1>1 DEF AccessNext, CreateKey, RevokeKey, SwitchApi, SwitchMcp, ChangeMembership, World,
         EnableReads, EnableWrites, RevokeBinding, WithKey, WithBinding, Select, Read, Refused, libraryVars
  <2>2. TreeInv' BY <2>1, TreeStep, TreeAlone DEF AccessInv
  <2>3. BindingInv' BY <1>1, BindingStep DEF AccessInv
  <2>4. CallTyped' BY <1>1, CallStep DEF AccessInv
  <2>5. QED BY <2>2, <2>3, <2>4 DEF AccessInv
<1>2. CASE UNCHANGED allVars
  <2>1. UNCHANGED <<parent, bound, enabling, unbound, call>> BY <1>2 DEF allVars, accessVars, libraryVars
  <2>2. QED BY <2>1, TreeAlone DEF AccessInv, BindingInv, CallTyped, OneBinding, Open
<1>3. QED BY <1>1, <1>2

LEMMA AccessInvariant ==
  ASSUME LibraryAssumption, AccessAssumption
  PROVE  AccessSpec => []AccessInv
BY AccessStart, AccessStep, PTL DEF AccessSpec

\* The pages, the search, the suggestions, the seals and the listings agree, whatever the tree, the
\* documents and the grants become; and one binding is active from its enabling to its revocation.
THEOREM ViewsAgreeAlways ==
  ASSUME LibraryAssumption, AccessAssumption
  PROVE  AccessSpec => []ViewsAgree
<1>1. AccessInv => ViewsAgree
  BY FoundBrowsed, SuggestionsAccepted, SealsGiven, ListedDescribed DEF AccessInv, BindingInv, ViewsAgree
<1>2. QED BY <1>1, AccessInvariant, PTL

\* The same of the library on its own, which no program reads.
THEOREM LibraryViewsAgree ==
  ASSUME LibraryAssumption
  PROVE  LibrarySpec => [](FoundIsBrowsed /\ SuggestionsHold /\ SealsGrant /\ ListedIsDescribed)
<1>1. TreeInv /\ [LibraryNext]_libraryVars => TreeInv'
  BY TreeStep, TreeAlone DEF libraryVars
<1>2. TreeInv => FoundIsBrowsed /\ SuggestionsHold /\ SealsGrant /\ ListedIsDescribed
  BY FoundBrowsed, SuggestionsAccepted, SealsGiven, ListedDescribed
<1>3. QED BY <1>1, <1>2, TreeStart, PTL DEF LibrarySpec

\* What a credential selects lies below its nodes, and what it is answered is within the rights its
\* person has when it is read.
THEOREM CredentialStays ==
  ASSUME LibraryAssumption, AccessAssumption
  PROVE  AccessSpec => CredentialWithinPerson
<1> DEFINE Within ==
      call # NoCall /\ call' # NoCall =>
        /\ call'.step = "selected" /\ call.step = "known" =>
             \A d \in Hits(call.spaces, call'.sel) : call.nodes = {} \/ d[2] \in Under(call.nodes)
        /\ call'.step = "read" /\ call.step = "selected" =>
             active /\ call'.docs \subseteq Readable(call.spaces) \cap Indexed
<1>1. ASSUME AccessInv, AccessNext PROVE Within
  <2>1. CASE call' = call \/ call' = NoCall \/ call = NoCall BY <2>1
  <2>2. CASE \E wanted \in Asked :
               /\ call.step = "known" /\ call'.step = "selected" /\ Inside(call.nodes, wanted, call.spaces)
               /\ call'.sel = Reached(call.nodes, wanted, call.spaces)
    <3>1. PICK wanted \in Asked :
            /\ call'.step = "selected" /\ Inside(call.nodes, wanted, call.spaces)
            /\ call'.sel = Reached(call.nodes, wanted, call.spaces)
      BY <2>2
    <3>2. \A d \in Hits(call.spaces, call'.sel) : call.nodes = {} \/ d[2] \in Under(call.nodes)
      BY <1>1, <3>1, ReachedBelow DEF AccessInv
    <3>3. QED BY <2>2, <3>2
  <2>3. CASE call.step = "selected" /\ active /\ call'.docs = AnswerOf(call.sel, call.spaces)
    <3>1. call'.docs \subseteq Readable(call.spaces) \cap Indexed BY <2>3 DEF AnswerOf, Hits
    <3>2. QED BY <2>3, <3>1
  <2>4. QED BY <1>1, <2>1, <2>2, <2>3, CallStep DEF AccessInv
<1>2. AccessInv /\ [AccessNext]_allVars => [Within]_allVars BY <1>1
<1>3. QED BY <1>2, AccessInvariant, PTL DEF AccessSpec, CredentialWithinPerson
================================================================================
