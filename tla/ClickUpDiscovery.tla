-------------------------- MODULE ClickUpDiscovery --------------------------
(***************************************************************************)
(* The discovery of one ClickUp space (integrations/clickup.py).  A run    *)
(* lists the tasks of every selected list, all of them or those updated    *)
(* since a checkpoint, then the Docs, whose pages it reads one by one.     *)
(* What it did not see is removed, as far as it could look; a complete     *)
(* walk is made once per interval for what a listing of changes never      *)
(* tells.  ClickUp stamps its changes by a clock of its own.               *)
(***************************************************************************)
EXTENDS Integers

CONSTANTS
    Tasks, Docs, Lists,
    Chosen,     \* the lists of the selected containers, at first
    Places,     \* how the items may lie at first
    Nowhere,    \* where an item is that is deleted, or not yet created
    Margin,     \* INCREMENTAL_CLOCK_MARGIN
    Interval,   \* FULL_RECONCILE_INTERVAL
    Lag,        \* how far ClickUp's clock is behind
    MaxTime, MaxMoves

\* The margin is for the clock of ClickUp being behind.
ASSUME DiscoveryAssumption ==
    /\ Tasks \cap Docs = {} /\ Nowhere \notin Lists /\ Chosen \subseteq Lists
    /\ Places \subseteq [Tasks \cup Docs -> Lists \cup {Nowhere}]
    /\ Margin \in Nat /\ Lag \in Nat /\ Lag < Margin /\ Interval \in Nat

VARIABLES
    now,        \* the clock of the workers
    lies,       \* of each item in ClickUp: its list
    stamp,      \* and its last update, which tells its text
    reach,      \* the lists the selected containers hold
    came,       \* the items that may have come into reach with no update since the last walk
    moves,      \* items and lists moved or deleted so far, and requests to process all again
    stored,     \* [status, stamp, text] of each item's document
    cursor,     \* [since, full], or NoCheckpoint
    visit,      \* the run under way, or NoVisit
    still       \* the items that have been in reach, and where they are, since the run began
remote == <<now, lies, stamp, reach, came, moves>>
discoveryVars == <<remote, stored, cursor, visit, still>>

TasksAndDocs == Tasks \cup Docs
NoCheckpoint == [since |-> 0, full |-> 0]
Empty == [x \in {} |-> 0]
NoVisit == [at |-> "idle", started |-> 0, whole |-> FALSE, incremental |-> FALSE, lists |-> {}, left |-> {},
            listed |-> Empty, read |-> Empty, seen |-> {}, unreadable |-> {}]
NoCopy == [status |-> "none", stamp |-> 0, text |-> 0]

InReach(x) == lies[x] \in reach

DiscoveryInit ==
    /\ now = Margin
    /\ lies \in Places /\ stamp = [x \in TasksAndDocs |-> 0]
    /\ reach = Chosen /\ came = {} /\ moves = 0
    /\ stored = [x \in TasksAndDocs |-> NoCopy] /\ cursor = NoCheckpoint /\ visit = NoVisit /\ still = {}

-----------------------------------------------------------------------------
(* ClickUp.                                                                *)

ClockTicks ==
    /\ now < MaxTime /\ now' = now + 1
    /\ UNCHANGED <<lies, stamp, reach, came, moves, stored, cursor, visit, still>>

\* No two updates of an item carry the same stamp.
Update(x) ==
    /\ lies[x] # Nowhere /\ stamp[x] < now - Lag
    /\ stamp' = [stamp EXCEPT ![x] = now - Lag]
    /\ UNCHANGED <<now, lies, reach, came, moves, stored, cursor, visit, still>>

\* An item that is moved or restored keeps its stamp; one that is deleted is nowhere.
MoveItem(x, l) ==
    /\ moves < MaxMoves /\ lies[x] # l /\ moves' = moves + 1
    /\ lies' = [lies EXCEPT ![x] = l] /\ came' = came \cup {x} /\ still' = still \ {x}
    /\ UNCHANGED <<now, stamp, reach, stored, cursor, visit>>

\* A list, or the folder that holds it, is archived, restored or moved.
MoveList(l) ==
    /\ moves < MaxMoves /\ moves' = moves + 1
    /\ reach' = IF l \in reach THEN reach \ {l} ELSE reach \cup {l}
    /\ came' = came \cup {x \in TasksAndDocs : lies[x] = l}
    /\ still' = {x \in still : lies[x] # l}
    /\ UNCHANGED <<now, lies, stamp, stored, cursor, visit>>

-----------------------------------------------------------------------------
(* The run.                                                                *)

Known == {x \in TasksAndDocs : stored[x].status # "none"}
Forced == {x \in TasksAndDocs : stored[x].status = "rebuild"}
HasData == \E x \in TasksAndDocs : stored[x].status \in {"indexed", "rebuild"}

\* A missing checkpoint, a task to be read again, or the age of the last walk asks for a walk.
WalkDue == cursor = NoCheckpoint \/ Forced \cap Tasks # {} \/ now - cursor.full >= Interval

StartVisit(asked) ==
    LET whole == asked \/ ~HasData IN
    /\ visit = NoVisit
    /\ visit' = [NoVisit EXCEPT !.at = "tasks", !.started = now, !.whole = whole, !.lists = reach, !.left = reach,
                           !.incremental = ~whole /\ Known # {} /\ ~WalkDue]
    /\ still' = {x \in TasksAndDocs : InReach(x)}
    /\ UNCHANGED <<remote, stored, cursor>>

Unchanged(x, modified) ==
    /\ ~visit.whole /\ x \notin Forced
    /\ stored[x].status = "indexed" /\ stored[x].stamp = modified

Floor(since) == since - Margin

\* What was read, with some more items as they are listed and as their text is now.
Added(xs, listed) ==
    [x \in DOMAIN visit.read \cup xs |->
       IF x \in xs THEN [status |-> "indexed", stamp |-> listed[x], text |-> stamp[x]] ELSE visit.read[x]]

\* The tasks of a list come with their text; an item is collected once.
ReadList(l) ==
    LET found == {t \in Tasks \ visit.seen : lies[t] = l /\ (visit.incremental => stamp[t] > Floor(cursor.since))} IN
    /\ visit.at = "tasks" /\ l \in visit.left
    /\ visit' = [visit EXCEPT !.left = @ \ {l}, !.seen = @ \cup found,
                              !.read = Added({t \in found : ~Unchanged(t, stamp[t])}, stamp)]
    /\ UNCHANGED <<remote, stored, cursor, still>>

ListUnavailable(l) ==
    /\ visit.at = "tasks" /\ l \in visit.left
    /\ visit' = [visit EXCEPT !.left = @ \ {l}, !.unreadable = @ \cup {"tasks"}]
    /\ UNCHANGED <<remote, stored, cursor, still>>

\* The Docs of the workspace are always listed in full, or not at all.
ListDocs ==
    /\ visit.at = "tasks" /\ visit.left = {}
    /\ \/ visit' = [visit EXCEPT !.at = "docs", !.listed = [x \in {d \in Docs : lies[d] \in visit.lists} |-> stamp[x]]]
       \/ visit' = [visit EXCEPT !.at = "docs", !.unreadable = @ \cup {"docs"}]
    /\ UNCHANGED <<remote, stored, cursor, still>>

\* The pages of a Doc are read after it was listed: its text may be newer than the stamp.
ReadDoc(d) ==
    /\ visit.at = "docs" /\ d \in DOMAIN visit.listed \ visit.seen
    /\ visit' = [visit EXCEPT !.seen = @ \cup {d},
                              !.read = IF Unchanged(d, visit.listed[d]) THEN @ ELSE Added({d}, visit.listed)]
    /\ UNCHANGED <<remote, stored, cursor, still>>

DocUnavailable(d) ==
    /\ visit.at = "docs" /\ d \in DOMAIN visit.listed \ visit.seen /\ ~Unchanged(d, visit.listed[d])
    /\ visit' = [visit EXCEPT !.seen = @ \cup {d}, !.unreadable = @ \cup {"docs"}]
    /\ UNCHANGED <<remote, stored, cursor, still>>

\* What was not seen is removed, but by a listing of changes or past an unreadable area.
Removable ==
    {x \in Known \ visit.seen :
        /\ x \in Tasks => ~visit.incremental /\ "tasks" \notin visit.unreadable
        /\ x \in Docs => "docs" \notin visit.unreadable}

CheckpointAtEnd ==
    IF visit.unreadable # {} THEN cursor
    ELSE [since |-> now, full |-> IF visit.incremental THEN cursor.full ELSE visit.started]

NextCheckpoint ==
    IF visit.unreadable # {} THEN cursor
    ELSE [since |-> visit.started, full |-> IF visit.incremental THEN cursor.full ELSE visit.started]

WriteVisit ==
    /\ visit.at = "docs" /\ DOMAIN visit.listed \subseteq visit.seen
    /\ stored' = [x \in TasksAndDocs |-> IF x \in DOMAIN visit.read THEN visit.read[x]
                                 ELSE IF x \in Removable THEN [NoCopy EXCEPT !.status = "removed"]
                                 ELSE stored[x]]
    /\ cursor' = NextCheckpoint
    /\ came' = IF visit.incremental \/ visit.unreadable # {} THEN came ELSE TasksAndDocs \ still
    /\ visit' = NoVisit /\ still' = {}
    /\ UNCHANGED <<now, lies, stamp, reach, moves>>

\* A run that fails has indexed a part of what it read, in batches.
BreakOff ==
    /\ visit # NoVisit /\ visit' = NoVisit /\ still' = {}
    /\ \E done \in SUBSET DOMAIN visit.read : stored' = [x \in TasksAndDocs |-> IF x \in done THEN visit.read[x] ELSE stored[x]]
    /\ UNCHANGED <<remote, cursor>>

\* An administrator asks for everything to be processed again.
RebuildAll ==
    /\ visit = NoVisit /\ moves < MaxMoves /\ moves' = moves + 1
    /\ stored' = [x \in TasksAndDocs |-> IF stored[x].status = "indexed" THEN [stored[x] EXCEPT !.status = "rebuild"] ELSE stored[x]]
    /\ UNCHANGED <<now, lies, stamp, reach, came, cursor, visit, still>>

DiscoveryNext ==
    \/ ClockTicks
    \/ \E x \in TasksAndDocs : Update(x) \/ \E l \in Lists \cup {Nowhere} : MoveItem(x, l)
    \/ \E l \in Lists : MoveList(l) \/ ReadList(l) \/ ListUnavailable(l)
    \/ \E whole \in BOOLEAN : StartVisit(whole)
    \/ ListDocs \/ \E d \in Docs : ReadDoc(d) \/ DocUnavailable(d)
    \/ WriteVisit \/ BreakOff \/ RebuildAll

DiscoverySpec == DiscoveryInit /\ [][DiscoveryNext]_discoveryVars

-----------------------------------------------------------------------------
(* Properties.                                                             *)

Current(x) == stored[x].status \in {"indexed", "rebuild"} /\ stored[x].text = stamp[x]

\* A task of the selection whose present text is not in the index is read by the next run: the
\* run walks everything, or the task was updated after the floor of its listing.  Only a task
\* that came into reach with no update since the last walk waits for the next (clickup.py:449-460,
\* :547-553).
DueTaskIsRead ==
    visit = NoVisit =>
        \A t \in Tasks :
            \/ ~InReach(t) \/ Current(t) \/ t \in came
            \/ WalkDue \/ ~HasData \/ stamp[t] > Floor(cursor.since)
=============================================================================
