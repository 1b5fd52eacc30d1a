------------------------------ MODULE DriveLinks ------------------------------
(***************************************************************************)
(* Google Drive through a service account (a "robot") of the organisation: *)
(* how the robot is given and taken away, the folders shared with it       *)
(* (drive_folder_links), and what the runs of the spaces that use those    *)
(* folders may publish while access is in doubt.                           *)
(*                                                                         *)
(* Every operation on links, and every publication of a run, holds the row *)
(* lock of the source until it commits, so each is one step here; a run is *)
(* several.  A folder holds one file.  The displayed status of a space and *)
(* the content of files are left out, and no folder lies inside another.   *)
(***************************************************************************)
EXTENDS Integers, FiniteSets, TLAPS

CONSTANTS
  Folders,      \* folders of the customer's Drive
  Scopes,       \* workspace folders (spaces' sources) that select some of them
  Selection,    \* scope -> the folders it selects
  Robots,       \* service accounts the pool can ever hold
  NoRobot,
  MaxTasks      \* provisioning messages under way

ASSUME DriveLinksAssumption ==
  /\ Selection \in [Scopes -> SUBSET Folders]
  /\ \A w \in Scopes : Selection[w] # {}
  /\ NoRobot \notin Robots
  /\ MaxTasks \in Nat

LinkStatus == {"none", "verified", "suspect", "access_lost", "purge_scheduled", "removed"}

VARIABLES
  source,       \* DataSource.status, "none" before the first enable
  held,         \* DataSource.sa_identity_id
  robot,        \* robot -> GoogleSaIdentity.status, "unborn" before it is made
  tasks,        \* provisioning messages not yet finished
  givingUp,     \* a task has read "provisioning" and is about to fail the source
  shared,       \* folders shared with the robot in use
  link,         \* folder -> DriveFolderLink.status
  purge,        \* folder -> purge_after: "none", of a suspect of less than an hour,
                \* "later" or "due"
  doc,          \* scope -> folder -> index_status of its file there
  deltaLinks,   \* scopes with a saved delta link
  run,          \* scope -> stage of its run
  torn,         \* history: scopes whose links were restored under a run
  beat          \* the maintenance task, between its recheck and its purge

robotVars == <<held, robot, tasks, givingUp>>
linkVars == <<link, purge>>
indexVars == <<doc, deltaLinks, torn>>
vars == <<source, robotVars, shared, linkVars, indexVars, run, beat>>

-----------------------------------------------------------------------------
(* Helpers                                                                 *)

Usable == source \in {"awaiting_share", "connected", "provider_error"} /\ held # NoRobot
            /\ robot[held] = "assigned"

Verified(w, ls) == \A f \in Selection[w] : ls[f] = "verified"

\* Scopes that select one of the folders, unions included.
Affected(fs) == {w \in Scopes : Selection[w] \cap fs # {}}

\* hide: what was indexed in the affected scopes is no longer searchable.
Hidden(d, fs) ==
  [w \in Scopes |-> [f \in Folders |->
     IF w \in Affected(fs) /\ d[w][f] = "indexed" THEN "access_lost" ELSE d[w][f]]]

\* Scopes that come back when the folders fs do: all their links are then verified.
Back(ls, fs) == {w \in Affected(fs) : \A f \in Selection[w] : f \in fs \/ ls[f] = "verified"}

Shown(d, ws) ==
  [w \in Scopes |-> [f \in Folders |->
     IF w \in ws /\ d[w][f] = "access_lost" THEN "indexed" ELSE d[w][f]]]

\* Mutant of Rescanned: the delta link survives.
RescannedNever(ls, fs) == {}

\* The scopes whose delta links restore clears: those that were hidden.
Rescanned(ls, fs) ==
  {w \in Back(ls, fs) : \E f \in Selection[w] \cap fs : ls[f] # "verified"}

\* Documents the deletion of a folder's knowledge takes: its files, in every scope.
Purged(d, fs) ==
  [w \in Scopes |-> [f \in Folders |-> IF f \in fs /\ f \in Selection[w] THEN "none" ELSE d[w][f]]]

\* The end of the retention of an unlinked folder: the earlier of two dates.
Deadline(f) == IF purge[f] = "due" THEN "due" ELSE "later"

\* mark_suspect of the folders lost, then restore of the folders seen again.
Recheck(lost, seen) ==
  LET doubted == {f \in lost : link[f] \in {"verified", "suspect", "access_lost"}}
      after == [f \in Folders |->
                  IF f \in doubted
                  THEN IF link[f] = "verified" THEN "suspect"
                       ELSE IF purge[f] # "fresh" THEN "access_lost" ELSE link[f]
                  ELSE link[f]]
      rescanned == Rescanned(after, seen) IN
  /\ link' = [f \in Folders |-> IF f \in seen THEN "verified" ELSE after[f]]
  /\ purge' = [f \in Folders |-> IF f \in seen THEN "none"
                                 ELSE IF f \in doubted /\ link[f] = "verified" THEN "fresh"
                                 ELSE purge[f]]
  /\ doc' = Shown(Hidden(doc, doubted), Back(after, seen))
  /\ deltaLinks' = deltaLinks \ rescanned
  /\ torn' = (torn \ rescanned) \cup {w \in rescanned : run[w] # "none"}

-----------------------------------------------------------------------------
(* The robot                                                               *)

Free == {r \in Robots : robot[r] = "free"}

\* _claim_free_robot, then the source waits for folders, or for a robot to be made.
TakeOrAsk ==
  \/ \E r \in Free :
       /\ robot' = [robot EXCEPT ![r] = "assigned"]
       /\ held' = r /\ source' = "awaiting_share"
       /\ UNCHANGED tasks
  \/ /\ Free = {}
     /\ held' = NoRobot /\ source' = "provisioning"
     /\ tasks' \in {tasks, tasks + 1}       \* the dispatch after the commit may fail
     /\ UNCHANGED robot

\* enable: the first time, after a disconnection, or a retry of a failed provisioning.
Enable ==
  /\ \/ source = "none" /\ TakeOrAsk
     \/ source = "disconnected" /\ TakeOrAsk
     \/ /\ source = "provisioning_failed"
        /\ source' = "provisioning"
        /\ tasks' \in {tasks, tasks + 1}
        /\ UNCHANGED <<held, robot>>
  /\ tasks' <= MaxTasks
  /\ UNCHANGED <<givingUp, shared, linkVars, indexVars, run, beat>>

NeedsRobot == source # "disconnected" /\ held = NoRobot

\* provision_source under the organisation's lock: nothing to do, a free robot, or a
\* new one.
Provision ==
  /\ tasks > 0
  /\ tasks' = tasks - 1
  /\ \/ ~NeedsRobot /\ UNCHANGED <<source, held, robot>>
     \/ /\ NeedsRobot
        /\ \E r \in Robots :
             /\ robot[r] = "free" \/ (Free = {} /\ robot[r] = "unborn")
             /\ robot' = [robot EXCEPT ![r] = "assigned"]
             /\ held' = r /\ source' = "awaiting_share"
  /\ UNCHANGED <<givingUp, shared, linkVars, indexVars, run, beat>>

\* A fatal error or the last retry: the status is read, then written, without a lock.
GiveUp ==
  /\ tasks > 0 /\ ~givingUp
  /\ tasks' = tasks - 1
  /\ givingUp' = (source = "provisioning")
  /\ UNCHANGED <<source, held, robot, shared, linkVars, indexVars, run, beat>>

Failed ==
  /\ givingUp
  /\ givingUp' = FALSE
  /\ source' = "provisioning_failed"
  /\ UNCHANGED <<held, robot, tasks, shared, linkVars, indexVars, run, beat>>

\* drive_sa_pool_tick: rows whose message was lost are queued again, the pool is topped up.
PoolTick ==
  /\ \/ /\ source = "provisioning" /\ held = NoRobot /\ tasks < MaxTasks
        /\ tasks' = tasks + 1 /\ UNCHANGED robot
     \/ \E r \in Robots :
          /\ Free = {} /\ robot[r] = "unborn"
          /\ robot' = [robot EXCEPT ![r] = "free"] /\ UNCHANGED tasks
  /\ UNCHANGED <<source, held, givingUp, shared, linkVars, indexVars, run, beat>>

\* disconnect: every link is unlinked and the robot retired, its key erased.
Disconnect ==
  /\ Usable
  /\ robot' = [robot EXCEPT ![held] = "retired"]
  /\ source' = "disconnected"
  /\ shared' = {}                           \* shares were with that robot
  /\ link' = [f \in Folders |-> IF link[f] \in {"none", "removed"} THEN link[f]
                                ELSE "purge_scheduled"]
  /\ purge' = [f \in Folders |-> IF link[f] \in {"none", "removed"} THEN purge[f]
                                 ELSE Deadline(f)]
  /\ doc' = Hidden(doc, {f \in Folders : link[f] \notin {"none", "removed"}})
  /\ UNCHANGED <<held, tasks, givingUp, deltaLinks, torn, run, beat>>

-----------------------------------------------------------------------------
(* Folders                                                                 *)

\* The customer shares a folder with the robot, or takes it back.
Share(f) ==
  /\ Usable
  /\ shared' = IF f \in shared THEN shared \ {f} ELSE shared \cup {f}
  /\ UNCHANGED <<source, robotVars, linkVars, indexVars, run, beat>>

\* link and link_batch: the folders the robot sees are linked, or linked again, and the
\* others of the batch are reported.
LinkBatch(fs) ==
  LET seen == {f \in fs \cap shared : link[f] # "verified"} IN
  /\ Usable /\ seen # {}
  /\ Recheck({}, seen)
  /\ source' = "connected"
  /\ UNCHANGED <<robotVars, shared, run, beat>>

\* unlink: hidden at once, deleted with the retention or now.
Unlink(f, now) ==
  /\ source \notin {"none", "disconnected"} /\ link[f] # "none"
  /\ link' = [link EXCEPT ![f] = IF now THEN "removed" ELSE "purge_scheduled"]
  /\ purge' = [purge EXCEPT ![f] = IF now THEN "none" ELSE Deadline(f)]
  /\ doc' = IF now THEN Purged(Hidden(doc, {f}), {f}) ELSE Hidden(doc, {f})
  /\ UNCHANGED <<source, robotVars, shared, deltaLinks, torn, run, beat>>

Checked == {f \in Folders : link[f] \notin {"none", "removed", "purge_scheduled"}}

\* recheck, by an admin: an error undoes it.
AdminRecheck ==
  /\ Usable
  /\ Recheck(Checked \ shared, Checked \cap shared)
  /\ source' = IF \E f \in Folders : link'[f] = "verified" THEN "connected" ELSE "awaiting_share"
  /\ UNCHANGED <<robotVars, shared, run, beat>>

\* maintain_drive_sa: every link is checked, or some of them before the provider
\* throttles or the robot's token fails; what was found is committed.
MaintainRecheck ==
  /\ beat = "idle" /\ source \notin {"none", "disconnected", "provisioning", "provisioning_failed"}
  /\ \/ /\ Usable
        /\ Recheck(Checked \ shared, Checked \cap shared)
        /\ source' = IF \E f \in Folders : link'[f] = "verified" THEN "connected"
                                                                 ELSE "awaiting_share"
        /\ beat' = "purging"
     \/ \E fs \in SUBSET Checked :
          /\ Usable
          /\ Recheck(fs \ shared, fs \cap shared)
          /\ source' \in {source, "provider_error"}
          /\ beat' = IF fs = Checked THEN "purging" ELSE "cut short"
  /\ UNCHANGED <<robotVars, shared, run>>

Due == {f \in Folders : purge[f] = "due" /\ link[f] \in {"access_lost", "purge_scheduled"}}

\* purge_due, in the same task.
MaintainPurge ==
  /\ beat # "idle"
  /\ beat' = "idle"
  /\ doc' = Purged(doc, Due)
  /\ link' = [f \in Folders |-> IF f \in Due THEN "removed" ELSE link[f]]
  /\ purge' = [f \in Folders |-> IF f \in Due THEN "none" ELSE purge[f]]
  /\ UNCHANGED <<source, robotVars, shared, deltaLinks, torn, run>>

\* A beat without a source to check still deletes what is due.
MaintainIdle ==
  /\ beat = "idle" /\ source \in {"disconnected", "provisioning", "provisioning_failed"}
  /\ beat' = "purging"
  /\ UNCHANGED <<source, robotVars, shared, linkVars, indexVars, run>>

HourPasses(f) ==
  /\ purge[f] = "fresh"
  /\ purge' = [purge EXCEPT ![f] = "later"]
  /\ UNCHANGED <<source, robotVars, shared, link, indexVars, run, beat>>

RetentionEnds(f) ==
  /\ purge[f] = "later"
  /\ purge' = [purge EXCEPT ![f] = "due"]
  /\ UNCHANGED <<source, robotVars, shared, link, indexVars, run, beat>>

-----------------------------------------------------------------------------
(* Runs                                                                    *)

\* Discovery: everything at the roots, or the changes since the delta link.
Discover(w) ==
  /\ run[w] = "none" /\ source = "connected" /\ Usable
  /\ Selection[w] \subseteq shared
  /\ run' = [run EXCEPT ![w] = IF w \in deltaLinks /\ \E f \in Folders : doc[w][f] # "none"
                               THEN "delta" ELSE "full"]
  /\ UNCHANGED <<source, robotVars, shared, linkVars, indexVars, beat>>

\* Mutant of MayPublish: the links as the run found them.
MayPublishAnyway(w) == TRUE

\* require_active_sa_scope before a batch and before the last commit.
MayPublish(w) == Verified(w, link)

Publish(w) ==
  /\ run[w] = "full" /\ source = "connected" /\ MayPublish(w)
  /\ doc' = [doc EXCEPT ![w] = [f \in Folders |->
               IF f \in Selection[w] THEN "indexed" ELSE doc[w][f]]]
  /\ run' = [run EXCEPT ![w] = "published"]
  /\ UNCHANGED <<source, robotVars, shared, linkVars, deltaLinks, torn, beat>>

Finish(w) ==
  /\ run[w] \in {"delta", "published"} /\ source = "connected" /\ MayPublish(w)
  /\ run' = [run EXCEPT ![w] = "none"]
  /\ deltaLinks' = deltaLinks \cup {w}
  /\ UNCHANGED <<source, robotVars, shared, linkVars, doc, torn, beat>>

\* FolderAccessLost, at the provider while discovering or here: the run's folder becomes
\* a suspect.  A source that is no longer connected or another error only ends the run.
RunLosesAccess(w) ==
  /\ run[w] # "none" \/ (source = "connected" /\ ~(Selection[w] \subseteq shared))
  /\ \E f \in Selection[w] :
       /\ f \notin shared \/ link[f] # "verified"
       /\ Recheck({f}, {})
  /\ run' = [run EXCEPT ![w] = "none"]
  /\ UNCHANGED <<source, robotVars, shared, beat>>

RunFails(w) ==
  /\ run[w] # "none"
  /\ run' = [run EXCEPT ![w] = "none"]
  /\ source' \in {source} \cup (IF source = "connected" THEN {"provider_error"} ELSE {})
  /\ UNCHANGED <<robotVars, shared, linkVars, indexVars, beat>>

-----------------------------------------------------------------------------
Init ==
  /\ source = "none" /\ held = NoRobot
  /\ robot = [r \in Robots |-> "unborn"]
  /\ tasks = 0 /\ givingUp = FALSE
  /\ shared = {} /\ deltaLinks = {} /\ torn = {}
  /\ link = [f \in Folders |-> "none"]
  /\ purge = [f \in Folders |-> "none"]
  /\ doc = [w \in Scopes |-> [f \in Folders |-> "none"]]
  /\ run = [w \in Scopes |-> "none"]
  /\ beat = "idle"

RobotNext == Enable \/ Provision \/ GiveUp \/ Failed \/ PoolTick \/ Disconnect

FolderNext ==
  \/ \E f \in Folders : Share(f) \/ HourPasses(f) \/ RetentionEnds(f)
                        \/ \E now \in BOOLEAN : Unlink(f, now)
  \/ \E fs \in SUBSET Folders : LinkBatch(fs)
  \/ AdminRecheck \/ MaintainRecheck \/ MaintainPurge \/ MaintainIdle

RunNext == \E w \in Scopes : Discover(w) \/ Publish(w) \/ Finish(w)
                             \/ RunLosesAccess(w) \/ RunFails(w)

Next == RobotNext \/ FolderNext \/ RunNext

Spec == Init /\ [][Next]_vars

-----------------------------------------------------------------------------
(* Properties                                                              *)

RobotsTyped ==
  /\ source \in {"none", "provisioning", "provisioning_failed", "awaiting_share",
                 "connected", "provider_error", "disconnected"}
  /\ held \in Robots \cup {NoRobot}
  /\ robot \in [Robots -> {"unborn", "free", "assigned", "retired"}]
  /\ tasks \in 0..MaxTasks /\ givingUp \in BOOLEAN

DocStatuses == [Scopes -> [Folders -> {"none", "indexed", "access_lost"}]]

LinksTyped ==
  /\ link \in [Folders -> LinkStatus]
  /\ purge \in [Folders -> {"none", "fresh", "later", "due"}]
  /\ \A f \in Folders : (purge[f] # "none") <=>
                           link[f] \in {"suspect", "access_lost", "purge_scheduled"}
  /\ doc \in DocStatuses
  /\ deltaLinks \subseteq Scopes /\ torn \subseteq Scopes

\* Statuses, retention and suspects agree as the models and their checks say.
TypeOK ==
  /\ RobotsTyped /\ LinksTyped
  /\ shared \subseteq Folders
  /\ run \in [Scopes -> {"none", "full", "delta", "published"}]
  /\ beat \in {"idle", "purging", "cut short"}

\* Nothing of a scope is searchable while one of its folders is in doubt, lost or
\* unlinked, whatever runs were under way (hide, require_active_sa_scope, restore).
HiddenWhileInDoubt ==
  \A w \in Scopes : ~Verified(w, link) => \A f \in Folders : doc[w][f] # "indexed"

\* A scope whose next run reads only changes has indexed everything those changes start
\* from, unless its links came back while a run was under way (restore, run's end).
ChangesSuffice ==
  \A w \in deltaLinks \ torn : Verified(w, link) => \A f \in Selection[w] : doc[w][f] = "indexed"

-----------------------------------------------------------------------------
(* Proofs.  A step on links hides what it takes into doubt, or shows it    *)
(* with every link of the scope verified; a delta link is good as long as  *)
(* the run that will write it again, so both are kept together.            *)

Indexed(w) == \A f \in Selection[w] : doc[w][f] = "indexed"

Covered(w) == (w \in deltaLinks \/ run[w] \in {"delta", "published"}) /\ w \notin torn /\ Verified(w, link)
                => Indexed(w)

\* The inductive invariant: a run that has published, or reads changes, is held to what
\* the delta link it is going to save promises.
LinkInv == TypeOK /\ HiddenWhileInDoubt /\ \A w \in Scopes : Covered(w)

\* What hide and restore leave of a document.
LEMMA HiddenDocs ==
  ASSUME NEW d \in DocStatuses, NEW fs \in SUBSET Folders
  PROVE  /\ Hidden(d, fs) \in DocStatuses
         /\ \A w \in Scopes, f \in Folders :
              /\ Selection[w] \cap fs # {} => Hidden(d, fs)[w][f] # "indexed"
              /\ Selection[w] \cap fs = {} => Hidden(d, fs)[w][f] = d[w][f]
              /\ d[w][f] # "indexed" => Hidden(d, fs)[w][f] # "indexed"
BY DEF Hidden, Affected, DocStatuses

LEMMA ShownDocs ==
  ASSUME NEW d \in DocStatuses, NEW ws
  PROVE  /\ Shown(d, ws) \in DocStatuses
         /\ \A w \in Scopes, f \in Folders :
              /\ w \notin ws => Shown(d, ws)[w][f] = d[w][f]
              /\ d[w][f] = "indexed" => Shown(d, ws)[w][f] = "indexed"
BY DEF Shown, DocStatuses

LEMMA PurgedDocs ==
  ASSUME NEW d \in DocStatuses, NEW fs \in SUBSET Folders
  PROVE  /\ Purged(d, fs) \in DocStatuses
         /\ \A w \in Scopes, f \in Folders :
              /\ d[w][f] # "indexed" => Purged(d, fs)[w][f] # "indexed"
              /\ f \notin fs => Purged(d, fs)[w][f] = d[w][f]
BY DEF Purged, DocStatuses

\* mark_suspect then restore, with the links as they are between the two.
LEMMA RecheckSteps ==
  ASSUME LinksTyped, NEW lost \in SUBSET Folders, NEW seen \in SUBSET Folders, Recheck(lost, seen)
  PROVE  \E doubted \in SUBSET Folders, after \in [Folders -> LinkStatus] :
           /\ \A f \in Folders : after[f] = "verified" <=> link[f] = "verified" /\ f \notin doubted
           /\ link' = [f \in Folders |-> IF f \in seen THEN "verified" ELSE after[f]]
           /\ doc' = Shown(Hidden(doc, doubted), Back(after, seen))
           /\ deltaLinks' = deltaLinks \ Rescanned(after, seen)
           /\ torn' = (torn \ Rescanned(after, seen)) \cup {w \in Rescanned(after, seen) : run[w] # "none"}
<1> DEFINE doubted == {f \in lost : link[f] \in {"verified", "suspect", "access_lost"}}
<1> DEFINE after == [f \in Folders |->
                       IF f \in doubted
                       THEN IF link[f] = "verified" THEN "suspect"
                            ELSE IF purge[f] # "fresh" THEN "access_lost" ELSE link[f]
                       ELSE link[f]]
<1>1. doubted \in SUBSET Folders /\ after \in [Folders -> LinkStatus]
  BY DEF LinksTyped, LinkStatus
<1>2. \A f \in Folders : after[f] = "verified" <=> link[f] = "verified" /\ f \notin doubted
  BY DEF LinksTyped
<1>3. /\ link' = [f \in Folders |-> IF f \in seen THEN "verified" ELSE after[f]]
      /\ doc' = Shown(Hidden(doc, doubted), Back(after, seen))
      /\ deltaLinks' = deltaLinks \ Rescanned(after, seen)
      /\ torn' = (torn \ Rescanned(after, seen)) \cup {w \in Rescanned(after, seen) : run[w] # "none"}
  BY DEF Recheck
<1> HIDE DEF doubted, after
<1>4. QED BY <1>1, <1>2, <1>3

\* A folder is in retention, or a suspect, exactly as long as its date says so.
LEMMA RecheckDates ==
  ASSUME LinksTyped, NEW lost \in SUBSET Folders, NEW seen \in SUBSET Folders, Recheck(lost, seen)
  PROVE  /\ link' \in [Folders -> LinkStatus]
         /\ purge' \in [Folders -> {"none", "fresh", "later", "due"}]
         /\ \A f \in Folders : (purge'[f] # "none") <=>
                                  link'[f] \in {"suspect", "access_lost", "purge_scheduled"}
<1> DEFINE doubted == {f \in lost : link[f] \in {"verified", "suspect", "access_lost"}}
<1> DEFINE after == [f \in Folders |->
                       IF f \in doubted
                       THEN IF link[f] = "verified" THEN "suspect"
                            ELSE IF purge[f] # "fresh" THEN "access_lost" ELSE link[f]
                       ELSE link[f]]
<1>1. /\ link' = [f \in Folders |-> IF f \in seen THEN "verified" ELSE after[f]]
      /\ purge' = [f \in Folders |-> IF f \in seen THEN "none"
                                     ELSE IF f \in doubted /\ link[f] = "verified" THEN "fresh"
                                     ELSE purge[f]]
  BY DEF Recheck
<1>2. QED BY <1>1 DEF LinksTyped, LinkStatus

\* Whatever links a check, or a run, takes into doubt or gives back: the heart of the proof.
LEMMA RecheckKeeps ==
  ASSUME DriveLinksAssumption, LinkInv,
         NEW lost \in SUBSET Folders, NEW seen \in SUBSET Folders, Recheck(lost, seen)
  PROVE  /\ LinksTyped' /\ HiddenWhileInDoubt'
         /\ \A w \in Scopes : (w \in deltaLinks' \/ run[w] \in {"delta", "published"}) /\ w \notin torn'
                              /\ Verified(w, link') => Indexed(w)'
<1>0. LinksTyped /\ HiddenWhileInDoubt /\ \A w \in Scopes : Selection[w] \subseteq Folders
  BY DEF LinkInv, TypeOK, DriveLinksAssumption
<1>1. PICK doubted \in SUBSET Folders, after \in [Folders -> LinkStatus] :
           /\ \A f \in Folders : after[f] = "verified" <=> link[f] = "verified" /\ f \notin doubted
           /\ link' = [f \in Folders |-> IF f \in seen THEN "verified" ELSE after[f]]
           /\ doc' = Shown(Hidden(doc, doubted), Back(after, seen))
           /\ deltaLinks' = deltaLinks \ Rescanned(after, seen)
           /\ torn' = (torn \ Rescanned(after, seen)) \cup {w \in Rescanned(after, seen) : run[w] # "none"}
  BY <1>0, RecheckSteps
<1>2. PICK d : d = Hidden(doc, doubted)
  OBVIOUS
<1>3. /\ d \in DocStatuses
      /\ \A w \in Scopes, f \in Folders :
           /\ Selection[w] \cap doubted # {} => d[w][f] # "indexed"
           /\ Selection[w] \cap doubted = {} => d[w][f] = doc[w][f]
           /\ doc[w][f] # "indexed" => d[w][f] # "indexed"
  BY <1>0, <1>2, HiddenDocs DEF LinksTyped
<1>4. /\ doc' \in DocStatuses
      /\ \A w \in Scopes, f \in Folders :
           /\ w \notin Back(after, seen) => doc'[w][f] = d[w][f]
           /\ d[w][f] = "indexed" => doc'[w][f] = "indexed"
  BY <1>1, <1>2, <1>3, ShownDocs
<1>5. LinksTyped'
  <2>1. deltaLinks' \subseteq Scopes /\ torn' \subseteq Scopes
    BY <1>0, <1>1 DEF LinksTyped, Rescanned, Back, Affected
  <2>2. QED BY <1>0, <1>4, <2>1, RecheckDates DEF LinksTyped
<1>6. ASSUME NEW w \in Scopes, ~Verified(w, link'), NEW f \in Folders PROVE doc'[w][f] # "indexed"
  <2>1. PICK g \in Selection[w] : g \notin seen /\ after[g] # "verified"
    BY <1>0, <1>1, <1>6 DEF Verified
  <2>2. w \notin Back(after, seen)
    BY <2>1 DEF Back
  <2>3. d[w][f] # "indexed"
    <3>1. CASE g \in doubted BY <1>3, <2>1, <3>1
    <3>2. CASE g \notin doubted
      <4>1. link[g] # "verified" BY <1>0, <1>1, <2>1, <3>2
      <4>2. doc[w][f] # "indexed" BY <1>0, <2>1, <4>1 DEF HiddenWhileInDoubt, Verified
      <4>3. QED BY <1>3, <4>2
    <3>3. QED BY <3>1, <3>2
  <2>4. QED BY <1>4, <2>2, <2>3
<1>7. ASSUME NEW w \in Scopes, w \in deltaLinks' \/ run[w] \in {"delta", "published"}, w \notin torn',
             Verified(w, link')
      PROVE  \A f \in Selection[w] : doc'[w][f] = "indexed"
  <2>1. \A f \in Selection[w] : f \in seen \/ after[f] = "verified"
    BY <1>0, <1>1, <1>7 DEF Verified
  <2>2. w \notin Rescanned(after, seen)
    <3>1. SUFFICES ASSUME w \in Rescanned(after, seen) PROVE FALSE
      OBVIOUS
    <3>2. w \notin deltaLinks' BY <1>1, <3>1
    <3>3. run[w] # "none" BY <1>7, <3>2
    <3>4. QED BY <1>1, <1>7, <3>1, <3>3
  <2>3. \A f \in Selection[w] : after[f] = "verified"
    <3>1. SUFFICES ASSUME NEW f \in Selection[w], after[f] # "verified" PROVE FALSE
      OBVIOUS
    <3>2. f \in Selection[w] \cap seen BY <2>1, <3>1
    <3>3. w \in Back(after, seen) BY <2>1, <3>2 DEF Back, Affected
    <3>4. QED BY <2>2, <3>1, <3>2, <3>3 DEF Rescanned
  <2>4. Selection[w] \cap doubted = {} /\ Verified(w, link)
    BY <1>0, <1>1, <2>3 DEF Verified
  <2>5. Indexed(w)
    <3>1. Covered(w) BY DEF LinkInv
    <3>2. w \notin torn BY <1>1, <1>7, <2>2
    <3>3. w \in deltaLinks \/ run[w] \in {"delta", "published"} BY <1>1, <1>7
    <3>4. QED BY <2>4, <3>1, <3>2, <3>3 DEF Covered
  <2>6. QED BY <1>0, <1>3, <1>4, <2>4, <2>5 DEF Indexed
<1>8. HiddenWhileInDoubt' BY <1>6 DEF HiddenWhileInDoubt
<1>9. QED BY <1>5, <1>7, <1>8 DEF Indexed

\* A step that takes folders from their scopes, and hides what those had.
Taken(fs) ==
  /\ \A f \in Folders : IF f \in fs THEN link'[f] # "verified" ELSE link'[f] = link[f]
  /\ \A w \in Scopes, f \in Folders :
       IF Selection[w] \cap fs = {} THEN doc'[w][f] = doc[w][f] ELSE doc'[w][f] # "indexed"
  /\ \A w \in Scopes, f \in Folders : doc[w][f] # "indexed" => doc'[w][f] # "indexed"
  /\ UNCHANGED <<deltaLinks, torn, run>>

LEMMA TakenKeeps ==
  ASSUME DriveLinksAssumption, LinkInv, NEW fs \in SUBSET Folders, Taken(fs)
  PROVE  HiddenWhileInDoubt' /\ \A w \in Scopes : Covered(w)'
<1>0. \A w \in Scopes : Selection[w] \subseteq Folders
  BY DEF DriveLinksAssumption
<1>1. ASSUME NEW w \in Scopes, ~Verified(w, link'), NEW f \in Folders PROVE doc'[w][f] # "indexed"
  <2>1. PICK g \in Selection[w] : link'[g] # "verified" BY <1>1 DEF Verified
  <2>2. CASE g \in fs BY <1>0, <2>1, <2>2 DEF Taken
  <2>3. CASE g \notin fs
    <3>1. link[g] # "verified" BY <1>0, <2>1, <2>3 DEF Taken
    <3>2. doc[w][f] # "indexed" BY <2>1, <3>1 DEF LinkInv, HiddenWhileInDoubt, Verified
    <3>3. QED BY <3>2 DEF Taken
  <2>4. QED BY <2>2, <2>3
<1>2. ASSUME NEW w \in Scopes PROVE Covered(w)'
  <2>1. SUFFICES ASSUME w \in deltaLinks' \/ run'[w] \in {"delta", "published"}, w \notin torn',
                        Verified(w, link')
                 PROVE  \A f \in Selection[w] : doc'[w][f] = "indexed"
    BY DEF Covered, Indexed
  <2>2. Selection[w] \cap fs = {} BY <1>0, <2>1 DEF Verified, Taken
  <2>3. Verified(w, link) BY <1>0, <2>1, <2>2 DEF Verified, Taken
  <2>4. Covered(w) BY DEF LinkInv
  <2>5. QED BY <1>0, <2>1, <2>2, <2>3, <2>4 DEF Covered, Indexed, Taken
<1>3. HiddenWhileInDoubt' BY <1>1 DEF HiddenWhileInDoubt
<1>4. QED BY <1>2, <1>3

LEMMA InitLinks == ASSUME DriveLinksAssumption PROVE Init => LinkInv
<1> SUFFICES ASSUME Init PROVE LinkInv
  OBVIOUS
<1>1. RobotsTyped
  <2>1. givingUp \in BOOLEAN BY DEF Init
  <2>2. tasks \in 0..MaxTasks BY DEF DriveLinksAssumption, Init
  <2>3. QED BY <2>1, <2>2 DEF Init, RobotsTyped
<1>2. LinksTyped BY DEF Init, LinksTyped, LinkStatus, DocStatuses
<1>3. TypeOK BY <1>1, <1>2 DEF Init, TypeOK
<1>4. QED BY <1>3 DEF Init, LinkInv, HiddenWhileInDoubt, Covered

\* A step that leaves links, documents, cursors and the runs alone.
LEMMA LinksAlone ==
  ASSUME LinkInv, UNCHANGED <<linkVars, indexVars, run>>
  PROVE  LinksTyped' /\ HiddenWhileInDoubt' /\ \A w \in Scopes : Covered(w)'
BY DEF LinkInv, TypeOK, linkVars, indexVars, LinksTyped, HiddenWhileInDoubt, Covered, Indexed

LEMMA StepRobots ==
  ASSUME DriveLinksAssumption, LinkInv, RobotNext PROVE LinkInv'
<1>0. TypeOK /\ RobotsTyped /\ LinksTyped BY DEF LinkInv, TypeOK
<1>1. CASE Enable
  <2>1. RobotsTyped'
    <3>1. CASE TakeOrAsk
      BY <1>0, <1>1, <3>1 DEF Enable, TakeOrAsk, Free, RobotsTyped, DriveLinksAssumption
    <3>2. CASE ~TakeOrAsk
      BY <1>0, <1>1, <3>2 DEF Enable, RobotsTyped, DriveLinksAssumption
    <3>3. QED BY <3>1, <3>2
  <2>2. UNCHANGED <<shared, linkVars, indexVars, run, beat>> BY <1>1 DEF Enable
  <2>3. QED BY <1>0, <2>1, <2>2, LinksAlone DEF LinkInv, TypeOK
<1>2. CASE Provision
  <2>1. RobotsTyped' BY <1>0, <1>2 DEF Provision, RobotsTyped, DriveLinksAssumption
  <2>2. UNCHANGED <<shared, linkVars, indexVars, run, beat>> BY <1>2 DEF Provision
  <2>3. QED BY <1>0, <2>1, <2>2, LinksAlone DEF LinkInv, TypeOK
<1>3. CASE GiveUp \/ Failed
  <2>1. RobotsTyped'
    <3>1. givingUp' \in BOOLEAN BY <1>3 DEF GiveUp, Failed
    <3>2. tasks' \in 0..MaxTasks
      BY <1>0, <1>3 DEF GiveUp, Failed, RobotsTyped, DriveLinksAssumption
    <3>3. source' \in {source, "provisioning_failed"} /\ UNCHANGED <<held, robot>>
      BY <1>3 DEF GiveUp, Failed
    <3>4. QED BY <1>0, <3>1, <3>2, <3>3 DEF RobotsTyped
  <2>2. UNCHANGED <<shared, linkVars, indexVars, run, beat>> BY <1>3 DEF GiveUp, Failed
  <2>3. QED BY <1>0, <2>1, <2>2, LinksAlone DEF LinkInv, TypeOK
<1>4. CASE PoolTick
  <2>1. RobotsTyped' BY <1>0, <1>4 DEF PoolTick, RobotsTyped, DriveLinksAssumption
  <2>2. UNCHANGED <<shared, linkVars, indexVars, run, beat>> BY <1>4 DEF PoolTick
  <2>3. QED BY <1>0, <2>1, <2>2, LinksAlone DEF LinkInv, TypeOK
<1>5. CASE Disconnect
  <2>1. PICK fs : fs = {f \in Folders : link[f] \notin {"none", "removed"}} OBVIOUS
  <2>2. /\ link' = [f \in Folders |-> IF f \in fs THEN "purge_scheduled" ELSE link[f]]
        /\ purge' = [f \in Folders |-> IF f \in fs THEN Deadline(f) ELSE purge[f]]
        /\ doc' = Hidden(doc, fs)
        /\ UNCHANGED <<held, tasks, givingUp, deltaLinks, torn, run, beat>>
    BY <1>5, <2>1 DEF Disconnect
  <2>3. RobotsTyped' /\ shared' = {} BY <1>0, <1>5 DEF Disconnect, RobotsTyped
  <2>4. doc' \in DocStatuses
    BY <1>0, <2>1, <2>2, HiddenDocs DEF LinksTyped
  <2>5. LinksTyped' BY <1>0, <2>1, <2>2, <2>4 DEF LinksTyped, LinkStatus, Deadline
  <2>6. \A w \in Scopes, f \in Folders :
           /\ doc[w][f] # "indexed" => doc'[w][f] # "indexed"
           /\ Selection[w] \cap fs # {} => doc'[w][f] # "indexed"
           /\ Selection[w] \cap fs = {} => doc'[w][f] = doc[w][f]
    BY <1>0, <2>1, <2>2, HiddenDocs DEF LinksTyped
  <2>7. HiddenWhileInDoubt' /\ \A w \in Scopes : Covered(w)'
    <3>1. fs \in SUBSET Folders BY <2>1
    <3>2. Taken(fs) BY <2>2, <2>6 DEF Taken
    <3>3. QED BY <3>1, <3>2, TakenKeeps
  <2>8. QED BY <1>0, <2>2, <2>3, <2>5, <2>7 DEF LinkInv, TypeOK
<1>6. QED BY <1>1, <1>2, <1>3, <1>4, <1>5 DEF RobotNext

\* A check of links, and what it leaves of the rest of the state.
LEMMA StepRecheck ==
  ASSUME DriveLinksAssumption, LinkInv,
         NEW lost \in SUBSET Folders, NEW seen \in SUBSET Folders, Recheck(lost, seen),
         source' \in {source, "connected", "awaiting_share", "provider_error"},
         beat' \in {beat, "purging", "cut short"},
         UNCHANGED <<robotVars, shared>>,
         run' = run \/ \E w \in Scopes : run' = [run EXCEPT ![w] = "none"]
  PROVE  LinkInv'
<1>1. /\ LinksTyped' /\ HiddenWhileInDoubt'
      /\ \A w \in Scopes : (w \in deltaLinks' \/ run[w] \in {"delta", "published"}) /\ w \notin torn'
                           /\ Verified(w, link') => Indexed(w)'
  BY RecheckKeeps
<1>2. run' \in [Scopes -> {"none", "full", "delta", "published"}]
      /\ \A w \in Scopes : run'[w] \in {run[w], "none"}
  BY DEF LinkInv, TypeOK
<1>3. \A w \in Scopes : Covered(w)' BY <1>1, <1>2 DEF Covered
<1>4. QED BY <1>1, <1>2, <1>3 DEF LinkInv, TypeOK, RobotsTyped, robotVars

LEMMA StepFolders ==
  ASSUME DriveLinksAssumption, LinkInv, FolderNext PROVE LinkInv'
<1>0. TypeOK /\ LinksTyped /\ HiddenWhileInDoubt BY DEF LinkInv, TypeOK
<1>1. ASSUME NEW f \in Folders, Share(f) PROVE LinkInv'
  <2>1. /\ shared' \subseteq Folders
        /\ UNCHANGED <<source, robotVars, linkVars, indexVars, run, beat>>
    BY <1>0, <1>1 DEF Share, TypeOK
  <2>2. QED BY <1>0, <2>1, LinksAlone DEF LinkInv, TypeOK, RobotsTyped, robotVars
<1>2. ASSUME NEW f \in Folders, HourPasses(f) \/ RetentionEnds(f) PROVE LinkInv'
  <2>1. LinksTyped' BY <1>0, <1>2 DEF HourPasses, RetentionEnds, LinksTyped, indexVars
  <2>2. UNCHANGED <<source, robotVars, shared, link, indexVars, run, beat>>
    BY <1>2 DEF HourPasses, RetentionEnds
  <2>3. HiddenWhileInDoubt' /\ \A w \in Scopes : Covered(w)'
    BY <2>2 DEF LinkInv, indexVars, HiddenWhileInDoubt, Covered, Indexed
  <2>4. QED BY <1>0, <2>1, <2>2, <2>3 DEF LinkInv, TypeOK, RobotsTyped, robotVars
<1>3. ASSUME NEW f \in Folders, NEW now \in BOOLEAN, Unlink(f, now) PROVE LinkInv'
  <2>1. PICK fs \in SUBSET Folders : fs = {f} OBVIOUS
  <2>2. PICK d : d = Hidden(doc, fs) OBVIOUS
  <2>3. /\ d \in DocStatuses
        /\ \A w \in Scopes, g \in Folders :
             IF Selection[w] \cap fs = {} THEN d[w][g] = doc[w][g] ELSE d[w][g] # "indexed"
        /\ \A w \in Scopes, g \in Folders : doc[w][g] # "indexed" => d[w][g] # "indexed"
    BY <1>0, <2>2, HiddenDocs DEF LinksTyped
  <2>4. /\ link' = [g \in Folders |-> IF g \in fs THEN (IF now THEN "removed" ELSE "purge_scheduled")
                                                ELSE link[g]]
        /\ purge' = [g \in Folders |-> IF g \in fs THEN (IF now THEN "none" ELSE Deadline(f))
                                                 ELSE purge[g]]
        /\ doc' = IF now THEN Purged(d, fs) ELSE d
        /\ UNCHANGED <<source, robotVars, shared, deltaLinks, torn, run, beat>>
    BY <1>0, <1>3, <2>1, <2>2 DEF Unlink, LinksTyped
  <2>5. /\ doc' \in DocStatuses
        /\ \A w \in Scopes, g \in Folders :
             IF Selection[w] \cap fs = {} THEN doc'[w][g] = doc[w][g] ELSE doc'[w][g] # "indexed"
        /\ \A w \in Scopes, g \in Folders : doc[w][g] # "indexed" => doc'[w][g] # "indexed"
    <3>1. CASE now
      <4>1. doc' = Purged(d, fs) BY <2>4, <3>1
      <4>2. \A w \in Scopes, g \in Folders :
              doc'[w][g] = IF g \in fs /\ g \in Selection[w] THEN "none" ELSE d[w][g]
        BY <4>1 DEF Purged
      <4>3. doc' \in DocStatuses BY <2>3, <4>1, PurgedDocs
      <4>4. QED BY <2>3, <4>2, <4>3
    <3>2. CASE ~now BY <2>3, <2>4, <3>2
    <3>3. QED BY <3>1, <3>2
  <2>6. LinksTyped' BY <1>0, <2>4, <2>5 DEF LinksTyped, LinkStatus, Deadline
  <2>7. HiddenWhileInDoubt' /\ \A w \in Scopes : Covered(w)'
    <3>1. \A g \in Folders : IF g \in fs THEN link'[g] # "verified" ELSE link'[g] = link[g]
      BY <2>4
    <3>2. Taken(fs) BY <2>4, <2>5, <3>1 DEF Taken
    <3>3. QED BY <3>2, TakenKeeps
  <2>8. QED BY <1>0, <2>4, <2>6, <2>7 DEF LinkInv, TypeOK, RobotsTyped, robotVars
<1>4. ASSUME NEW fs \in SUBSET Folders, LinkBatch(fs) PROVE LinkInv'
  <2>1. PICK seen \in SUBSET Folders : Recheck({}, seen) BY <1>4 DEF LinkBatch
  <2>2. source' = "connected" /\ UNCHANGED <<robotVars, shared, run, beat>> BY <1>4 DEF LinkBatch
  <2>3. QED BY <2>1, <2>2, StepRecheck
<1>5. CASE AdminRecheck
  <2>1. PICK lost \in SUBSET Folders, seen \in SUBSET Folders : Recheck(lost, seen)
    BY <1>5 DEF AdminRecheck, Checked
  <2>2. source' \in {"connected", "awaiting_share"} /\ UNCHANGED <<robotVars, shared, run, beat>>
    BY <1>5 DEF AdminRecheck
  <2>3. QED BY <2>1, <2>2, StepRecheck
<1>6. CASE MaintainRecheck
  <2>1. PICK lost \in SUBSET Folders, seen \in SUBSET Folders : Recheck(lost, seen)
    BY <1>6 DEF MaintainRecheck, Checked
  <2>2. /\ source' \in {source, "connected", "awaiting_share", "provider_error"}
        /\ beat' \in {"purging", "cut short"} /\ UNCHANGED <<robotVars, shared, run>>
    BY <1>6 DEF MaintainRecheck
  <2>3. QED BY <2>1, <2>2, StepRecheck
<1>7. CASE MaintainPurge
  <2>1. /\ link' = [f \in Folders |-> IF f \in Due THEN "removed" ELSE link[f]]
        /\ purge' = [f \in Folders |-> IF f \in Due THEN "none" ELSE purge[f]]
        /\ doc' = Purged(doc, Due) /\ beat' = "idle"
        /\ UNCHANGED <<source, robotVars, shared, deltaLinks, torn, run>>
    BY <1>7 DEF MaintainPurge
  <2>2. Due \in SUBSET Folders /\ \A f \in Due : link[f] # "verified" BY DEF Due
  <2>3. /\ doc' \in DocStatuses
        /\ \A w \in Scopes, f \in Folders :
             /\ doc[w][f] # "indexed" => doc'[w][f] # "indexed"
             /\ f \notin Due => doc'[w][f] = doc[w][f]
    BY <1>0, <2>1, <2>2, PurgedDocs DEF LinksTyped
  <2>4. LinksTyped' BY <1>0, <2>1, <2>3 DEF LinksTyped, LinkStatus
  <2>5. \A f \in Folders : link'[f] = "verified" <=> link[f] = "verified"
    BY <2>1, <2>2
  <2>6. \A w \in Scopes : Selection[w] \subseteq Folders /\ (Verified(w, link') <=> Verified(w, link))
    BY <2>5 DEF Verified, DriveLinksAssumption
  <2>7. HiddenWhileInDoubt' BY <1>0, <2>3, <2>6 DEF HiddenWhileInDoubt
  <2>8. ASSUME NEW w \in Scopes PROVE Covered(w)'
    <3>1. SUFFICES ASSUME w \in deltaLinks' \/ run'[w] \in {"delta", "published"}, w \notin torn',
                          Verified(w, link')
                   PROVE  \A f \in Selection[w] : doc'[w][f] = "indexed"
      BY DEF Covered, Indexed
    <3>2. Indexed(w) BY <2>1, <2>6, <3>1 DEF LinkInv, Covered
    <3>3. Verified(w, link) BY <2>6, <3>1
    <3>4. \A f \in Selection[w] : f \in Folders /\ f \notin Due
      BY <2>2, <2>6, <3>3 DEF Verified
    <3>5. QED BY <2>3, <3>2, <3>4 DEF Indexed
  <2>9. QED BY <1>0, <2>1, <2>4, <2>7, <2>8 DEF LinkInv, TypeOK, RobotsTyped, robotVars
<1>8. CASE MaintainIdle
  <2>1. beat' = "purging" /\ UNCHANGED <<source, robotVars, shared, linkVars, indexVars, run>>
    BY <1>8 DEF MaintainIdle
  <2>2. QED BY <1>0, <2>1, LinksAlone DEF LinkInv, TypeOK, RobotsTyped, robotVars
<1>9. QED BY <1>1, <1>2, <1>3, <1>4, <1>5, <1>6, <1>7, <1>8 DEF FolderNext

LEMMA StepRuns ==
  ASSUME DriveLinksAssumption, LinkInv, NEW w \in Scopes,
         Discover(w) \/ Publish(w) \/ Finish(w) \/ RunLosesAccess(w) \/ RunFails(w)
  PROVE  LinkInv'
<1>0. /\ TypeOK /\ LinksTyped /\ HiddenWhileInDoubt /\ \A v \in Scopes : Covered(v)
      /\ Selection[w] \subseteq Folders
  BY DEF LinkInv, TypeOK, DriveLinksAssumption
<1>1. CASE Discover(w)
  <2>1. /\ run' \in [Scopes -> {"none", "full", "delta", "published"}]
        /\ \A v \in Scopes : run'[v] \in {run[v], "full"} \/ (v \in deltaLinks /\ run'[v] = "delta")
        /\ UNCHANGED <<source, robotVars, shared, linkVars, indexVars, beat>>
    BY <1>0, <1>1 DEF Discover, TypeOK
  <2>2. LinksTyped' /\ HiddenWhileInDoubt'
    BY <1>0, <2>1 DEF linkVars, indexVars, LinksTyped, HiddenWhileInDoubt
  <2>3. \A v \in Scopes : Covered(v)' BY <1>0, <2>1 DEF Covered, Indexed, linkVars, indexVars
  <2>4. QED BY <1>0, <2>1, <2>2, <2>3 DEF LinkInv, TypeOK, RobotsTyped, robotVars
<1>2. CASE Publish(w)
  <2>1. /\ Verified(w, link) /\ run' = [run EXCEPT ![w] = "published"]
        /\ doc' = [doc EXCEPT ![w] = [f \in Folders |->
                     IF f \in Selection[w] THEN "indexed" ELSE doc[w][f]]]
        /\ UNCHANGED <<source, robotVars, shared, linkVars, deltaLinks, torn, beat>>
    BY <1>2 DEF Publish, MayPublish
  <2>2. /\ doc' \in DocStatuses
        /\ \A f \in Selection[w] : doc'[w][f] = "indexed"
        /\ \A v \in Scopes \ {w} : doc'[v] = doc[v]
    BY <1>0, <2>1 DEF LinksTyped, DocStatuses
  <2>3. run' \in [Scopes -> {"none", "full", "delta", "published"}] /\ \A v \in Scopes \ {w} : run'[v] = run[v]
    BY <1>0, <2>1 DEF TypeOK
  <2>4. LinksTyped' BY <1>0, <2>1, <2>2 DEF linkVars, LinksTyped
  <2>5. HiddenWhileInDoubt'
    BY <1>0, <2>1, <2>2 DEF linkVars, HiddenWhileInDoubt
  <2>6. ASSUME NEW v \in Scopes PROVE Covered(v)'
    <3>1. CASE v = w BY <2>2, <3>1 DEF Covered, Indexed
    <3>2. CASE v # w BY <1>0, <2>1, <2>2, <2>3, <3>2 DEF Covered, Indexed, linkVars
    <3>3. QED BY <3>1, <3>2
  <2>7. QED BY <1>0, <2>1, <2>3, <2>4, <2>5, <2>6 DEF LinkInv, TypeOK, RobotsTyped, robotVars
<1>3. CASE Finish(w)
  <2>1. /\ run[w] \in {"delta", "published"} /\ run' = [run EXCEPT ![w] = "none"]
        /\ deltaLinks' = deltaLinks \cup {w}
        /\ UNCHANGED <<source, robotVars, shared, linkVars, doc, torn, beat>>
    BY <1>3 DEF Finish
  <2>2. run' \in [Scopes -> {"none", "full", "delta", "published"}] /\ \A v \in Scopes : run'[v] \in {run[v], "none"}
    BY <1>0, <2>1 DEF TypeOK
  <2>3. LinksTyped' /\ HiddenWhileInDoubt'
    BY <1>0, <2>1 DEF linkVars, LinksTyped, HiddenWhileInDoubt
  <2>4. \A v \in Scopes : Covered(v)' BY <1>0, <2>1, <2>2 DEF Covered, Indexed, linkVars
  <2>5. QED BY <1>0, <2>1, <2>2, <2>3, <2>4 DEF LinkInv, TypeOK, RobotsTyped, robotVars
<1>4. CASE RunLosesAccess(w)
  <2>1. PICK f \in Selection[w] : Recheck({f}, {}) BY <1>4 DEF RunLosesAccess
  <2>2. run' = [run EXCEPT ![w] = "none"] /\ UNCHANGED <<source, robotVars, shared, beat>>
    BY <1>4 DEF RunLosesAccess
  <2>3. {f} \in SUBSET Folders /\ {} \in SUBSET Folders BY <1>0, <2>1
  <2>4. QED BY <2>1, <2>2, <2>3, StepRecheck
<1>5. CASE RunFails(w)
  <2>1. /\ run' = [run EXCEPT ![w] = "none"] /\ source' \in {source, "provider_error"}
        /\ UNCHANGED <<robotVars, shared, linkVars, indexVars, beat>>
    BY <1>5 DEF RunFails
  <2>2. run' \in [Scopes -> {"none", "full", "delta", "published"}] /\ \A v \in Scopes : run'[v] \in {run[v], "none"}
    BY <1>0, <2>1 DEF TypeOK
  <2>3. LinksTyped' /\ HiddenWhileInDoubt'
    BY <1>0, <2>1 DEF linkVars, indexVars, LinksTyped, HiddenWhileInDoubt
  <2>4. \A v \in Scopes : Covered(v)' BY <1>0, <2>1, <2>2 DEF Covered, Indexed, linkVars, indexVars
  <2>5. QED BY <1>0, <2>1, <2>2, <2>3, <2>4 DEF LinkInv, TypeOK, RobotsTyped, robotVars
<1>6. QED BY <1>1, <1>2, <1>3, <1>4, <1>5

LEMMA StepLinks ==
  ASSUME DriveLinksAssumption, LinkInv, [Next]_vars PROVE LinkInv'
<1>1. CASE RobotNext BY <1>1, StepRobots
<1>2. CASE FolderNext BY <1>2, StepFolders
<1>3. CASE RunNext BY <1>3, StepRuns DEF RunNext
<1>4. CASE UNCHANGED vars
  <2>1. UNCHANGED <<source, robotVars, shared, linkVars, indexVars, run, beat>> BY <1>4 DEF vars
  <2>2. QED BY <2>1, LinksAlone DEF LinkInv, TypeOK, RobotsTyped, robotVars
<1>5. QED BY <1>1, <1>2, <1>3, <1>4 DEF Next

LEMMA LinksAlways == ASSUME DriveLinksAssumption PROVE Spec => []LinkInv
BY InitLinks, StepLinks, PTL DEF Spec

\* Whatever runs were under way when a folder of a scope fell in doubt, was lost or was
\* unlinked, nothing of the scope is searchable (hide, require_active_sa_scope, restore).
THEOREM HiddenWhileInDoubtAlways == ASSUME DriveLinksAssumption PROVE Spec => []HiddenWhileInDoubt
<1>1. LinkInv => HiddenWhileInDoubt BY DEF LinkInv
<1>2. QED BY <1>1, LinksAlways, PTL

\* A delta link whose scope was not restored under a run starts from everything the
\* scope holds (restore clears the others, a run saves it last).
THEOREM ChangesSufficeAlways == ASSUME DriveLinksAssumption PROVE Spec => []ChangesSuffice
<1>1. LinkInv => ChangesSuffice
  BY DEF LinkInv, TypeOK, LinksTyped, Covered, Indexed, ChangesSuffice
<1>2. QED BY <1>1, LinksAlways, PTL
=============================================================================
