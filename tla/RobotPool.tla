------------------------------- MODULE RobotPool -------------------------------
(***************************************************************************)
(* How Drive robots are made (integrations/google_sa_provisioner.py): one  *)
(* service account per organisation, made at Google IAM by workers, in a   *)
(* pool of projects with a quota each and at most one creation in about 20 *)
(* seconds, and a few free ones kept warm.                                 *)
(*                                                                         *)
(* A worker holds the organisation's row and a project's row from its      *)
(* first step to its commit.  Messages are repeated and retries come at    *)
(* any time, so a worker may begin whenever an organisation waits.         *)
(* Uncovered: keys made by calls whose answer was lost.                    *)
(***************************************************************************)
EXTENDS Naturals, FiniteSets, Sequences

CONSTANTS
  Orgs, Workers,
  Pool,       \* projects, in the order they are tried
  Quota,      \* robots of a project
  WarmSize,   \* free robots to keep
  MaxWarm,    \* accounts made for the warm pool
  NoOrg

PoolAssumption ==
  /\ Quota \in Nat \ {0} /\ MaxWarm \in Nat /\ WarmSize \in Nat
  /\ NoOrg \notin Orgs /\ \A n \in 1..Len(Pool) : Pool[n] # NoOrg

VARIABLES
  asked,      \* org -> none, provisioning, provisioning_failed, ready, disconnected
  robots,     \* google_sa_identities: [account, project, org, status]
  accounts,   \* <<account, project>> that exist at IAM
  recorded,   \* projects whose last_iam_create_at is within the interval
  recent,     \* projects in which IAM made an account within the interval
  work        \* worker -> [step, org, account, project, left]

poolVars == <<asked, robots, accounts, recorded, recent, work>>

Projects == {Pool[n] : n \in 1..Len(Pool)}
NoWork == [step |-> "idle", org |-> NoOrg, account |-> <<>>, project |-> NoOrg, left |-> 0]
Busy(w) == work[w].step # "idle"

OfOrg(o) == {r \in robots : r.org = o}
FreeRobots == {r \in robots : r.status = "free"}

-----------------------------------------------------------------------------
(* The account's name and its project                                      *)

\* robot_account_id: the number of robots the organisation had already.
Generation(o) == Cardinality(OfOrg(o))

\* Warm robots have names drawn at random.
WarmNames == {<<NoOrg, n>> : n \in 1..MaxWarm} \ ({a[1] : a \in accounts} \cup {work[w].account : w \in Workers})

ProjectLocked(p) == \E w \in Workers : Busy(w) /\ work[w].project = p
Usage(p) == Cardinality({r \in robots : r.project = p})

\* Mutant of Open: the project's row is not locked.
OpenUnlocked(p) == Usage(p) < Quota /\ p \notin recorded

Open(p) == ~ProjectLocked(p) /\ Usage(p) < Quota /\ p \notin recorded

\* _lock_project_for_create: the first project that is open.
FirstOpen(p) == \E n \in 1..Len(Pool) : Pool[n] = p /\ Open(p) /\ \A k \in 1..(n - 1) : ~Open(Pool[k])

\* Every project was read and is full.
NoCapacity == \A p \in Projects : ~ProjectLocked(p) /\ Usage(p) >= Quota

Assigned(o, r) == (robots \ {r}) \cup {[r EXCEPT !.org = o, !.status = "assigned"]}

ClaimRobot(o) ==
  \E r \in FreeRobots : robots' = Assigned(o, r) /\ asked' = [asked EXCEPT ![o] = "ready"]

-----------------------------------------------------------------------------
(* A worker's transaction                                                  *)

\* provision_source: a free robot, or one to be made; without room it fails.
ProvisionRobot(w, o) ==
  /\ ~Busy(w) /\ asked[o] \in {"provisioning", "provisioning_failed"}
  /\ \A v \in Workers : work[v].org # o
  /\ \/ ClaimRobot(o) /\ UNCHANGED work
     \/ /\ FreeRobots = {}
        /\ \E p \in Projects :
             /\ FirstOpen(p)
             /\ work' = [work EXCEPT ![w] = [step |-> "account", org |-> o, account |-> <<o, Generation(o)>>,
                                             project |-> p, left |-> 1]]
        /\ UNCHANGED <<asked, robots>>
     \/ /\ FreeRobots = {} /\ NoCapacity
        /\ asked' = [asked EXCEPT ![o] = "provisioning_failed"]
        /\ UNCHANGED <<robots, work>>
  /\ UNCHANGED <<accounts, recorded, recent>>

\* top_up_warm; what is missing is counted once.
TopUp(w) ==
  /\ ~Busy(w) /\ Cardinality(FreeRobots) < WarmSize
  /\ \E p \in Projects, a \in WarmNames :
       /\ FirstOpen(p)
       /\ work' = [work EXCEPT ![w] = [step |-> "account", org |-> NoOrg, account |-> a, project |-> p,
                                       left |-> WarmSize - Cardinality(FreeRobots)]]
  /\ UNCHANGED <<asked, robots, accounts, recorded, recent>>

Made(w) == <<work[w].account, work[w].project>>
NoteMade(w) ==
  /\ accounts' = accounts \cup {Made(w)}
  /\ recent' = IF Made(w) \in accounts THEN recent ELSE recent \cup {work[w].project}

\* create_account: an account there is already is taken as it is.
CreateAccount(w) ==
  /\ work[w].step = "account"
  /\ NoteMade(w)
  /\ recorded' = recorded \cup {work[w].project}
  /\ work' = [work EXCEPT ![w].step = "key"]
  /\ UNCHANGED <<asked, robots>>

CreateKey(w) ==
  /\ work[w].step = "key"
  /\ work' = [work EXCEPT ![w].step = "store"]
  /\ UNCHANGED <<asked, robots, accounts, recorded, recent>>

\* _attach and the commit; the warm pool goes on with the next one.
StoreRobot(w) ==
  /\ work[w].step = "store"
  /\ LET o == work[w].org IN
     /\ robots' = robots \cup {[account |-> work[w].account, project |-> work[w].project, org |-> o,
                                status |-> IF o = NoOrg THEN "free" ELSE "assigned"]}
     /\ asked' = IF o = NoOrg THEN asked ELSE [asked EXCEPT ![o] = "ready"]
  /\ IF work[w].left = 1 THEN work' = [work EXCEPT ![w] = NoWork]
     ELSE work' = [work EXCEPT ![w] = [NoWork EXCEPT !.step = "next", !.left = work[w].left - 1]]
  /\ UNCHANGED <<accounts, recorded, recent>>

Continue(w) ==
  /\ work[w].step = "next"
  /\ \/ \E p \in Projects, a \in WarmNames :
          /\ FirstOpen(p)
          /\ work' = [work EXCEPT ![w] = [@ EXCEPT !.step = "account", !.account = a, !.project = p]]
     \/ /\ \A p \in Projects : ~FirstOpen(p)
        /\ work' = [work EXCEPT ![w] = NoWork]
  /\ UNCHANGED <<asked, robots, accounts, recorded, recent>>

\* The worker dies, IAM asks to wait or refuses, or the commit fails: what the
\* transaction wrote is lost, the creation's time with it.  Only a refusal and
\* the last retry fail the source.
Fail(w) ==
  /\ work[w].step \in {"account", "key", "store"}
  /\ recorded' = recorded \ (IF work[w].step = "account" THEN {} ELSE {work[w].project})
  /\ \/ work[w].step = "account" /\ NoteMade(w)          \* made, and the answer lost
     \/ UNCHANGED <<accounts, recent>>
  /\ LET o == work[w].org IN
     asked' \in {asked} \cup (IF o = NoOrg THEN {} ELSE {[asked EXCEPT ![o] = "provisioning_failed"]})
  /\ work' = [work EXCEPT ![w] = NoWork]
  /\ UNCHANGED robots

-----------------------------------------------------------------------------
(* The organisations, and time                                             *)

\* enable, under the organisation's lock.
EnableRobot(o) ==
  /\ \A w \in Workers : work[w].org # o
  /\ \/ asked[o] \in {"none", "disconnected"} /\ ClaimRobot(o)
     \/ /\ asked[o] \in {"none", "disconnected"} => FreeRobots = {}
        /\ asked[o] \notin {"ready", "provisioning"}
        /\ asked' = [asked EXCEPT ![o] = "provisioning"]
        /\ UNCHANGED robots
  /\ UNCHANGED <<accounts, recorded, recent, work>>

\* disconnect: the robot is retired for good.
DisconnectRobot(o) ==
  /\ asked[o] = "ready"
  /\ asked' = [asked EXCEPT ![o] = "disconnected"]
  /\ robots' = {IF r.org = o THEN [r EXCEPT !.status = "retired"] ELSE r : r \in robots}
  /\ UNCHANGED <<accounts, recorded, recent, work>>

\* Twenty seconds without a creation.
IntervalPasses ==
  /\ recorded \cup recent # {}
  /\ recorded' = {} /\ recent' = {}
  /\ UNCHANGED <<asked, robots, accounts, work>>

PoolInit ==
  /\ asked = [o \in Orgs |-> "none"] /\ robots = {} /\ accounts = {}
  /\ recorded = {} /\ recent = {} /\ work = [w \in Workers |-> NoWork]

PoolNext ==
  \/ \E w \in Workers : TopUp(w) \/ CreateAccount(w) \/ CreateKey(w) \/ StoreRobot(w) \/ Continue(w) \/ Fail(w)
                        \/ \E o \in Orgs : ProvisionRobot(w, o)
  \/ \E o \in Orgs : EnableRobot(o) \/ DisconnectRobot(o)
  \/ IntervalPasses

PoolSpec == PoolInit /\ [][PoolNext]_poolVars

-----------------------------------------------------------------------------
(* Properties                                                              *)

\* However often a robot's making was interrupted, retried or repeated, and the
\* organisation disconnected in between, no key is made for an account whose
\* name is or was a robot's (google_sa_provisioner.py: never recycled).
NeverRecycled ==
  \A w \in Workers : work[w].step \in {"key", "store"} =>
    /\ \A r \in robots : r.account # work[w].account
    /\ \A v \in Workers \ {w} : work[v].account # work[w].account

\* Workers that make robots at the same time do not overfill a project.
UsageWithinQuota == \A p \in Projects : Usage(p) <= Quota

\* The pool gives every robot an account of its own, within the quota of its project.
PoolKept == NeverRecycled /\ UsageWithinQuota
=============================================================================
