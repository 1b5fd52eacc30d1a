--------------------------- MODULE MicrosoftDelta ---------------------------
(***************************************************************************)
(* The runs of a OneDrive or SharePoint space (integrations/onedrive.py,   *)
(* sharepoint.py, and the application in ingestion/service.py).  Graph     *)
(* keeps a feed per cursor: the items changed since it was given, each     *)
(* with its state when it is read, a folder without what it holds.  A run  *)
(* reads the feeds of its selections one after the other while files and   *)
(* folders go on changing, or walks the selections instead.                *)
(***************************************************************************)
EXTENDS Integers, Sequences, TLAPS

CONSTANTS
    Spaces,     \* [provider, selections, meanwhile]: a provider, the sequence of what is
                \* selected, and what may happen to files while a run reads its feeds:
                \* "nothing", "edits", or "moves" as well
    Files, Root, Branches, Sub, \* files; the drive's root, folders of the root, a folder moved about
    Gone, RootFiles, All,       \* deleted; the selections of root files and of everything
    FoldersLeave \* BOOLEAN: a folder may be moved out of a SharePoint selection

\* What is selected is folders of the root, files of the root or everything, read in the order of
\* their kinds, in which the root's files come last; SharePoint has no selection of the root's files.
ASSUME MicrosoftAssumption ==
    /\ \A s \in Spaces :
        /\ s.selections \in Seq(Branches \cup {RootFiles, All}) /\ s.selections # <<>>
        /\ \A i \in DOMAIN s.selections : s.selections[i] = RootFiles => i = Len(s.selections)
        /\ s.provider = "sharepoint" => \A i \in DOMAIN s.selections : s.selections[i] # RootFiles
    /\ Gone \notin Files \cup {Sub} /\ Sub \notin Files
    /\ {Root, Sub, Gone, RootFiles, All} \cap Branches = {}
    /\ Root # Sub /\ Root # Gone /\ RootFiles \notin {Root, Sub, Gone, All} /\ All \notin {Root, Sub, Gone}

VARIABLES
    space,        \* the space at hand
    place,        \* place[f]: the folder of a file
    up,           \* the folder that holds Sub
    feed,         \* feed[i]: items changed since the cursor of selection i, or NoCursor
    index,        \* index[f]: "none", "current", "old" or "failed"
    run           \* the run at work
feedVars == <<space, place, up, feed, index, run>>

NoCursor == {Gone}
Selections == DOMAIN space.selections
Idle == [at |-> "idle", turn |-> 1, changes |-> {}, removals |-> {}, links |-> <<>>,
         snapshot |-> FALSE, complete |-> FALSE, read |-> <<>>]

FeedInit ==
    /\ space \in Spaces
    /\ place \in [Files -> {Root} \cup Branches \cup {Sub}] /\ up \in Branches
    /\ feed = [i \in Selections |-> NoCursor]
    /\ index = [f \in Files |-> "none"] /\ run = Idle

Sharepoint == space.provider = "sharepoint"

Within(i, folder) ==
    LET selection == space.selections[i] IN
    \/ selection = All \/ folder = selection
    \/ folder = Sub /\ up = selection
    \/ selection = RootFiles /\ folder = Root

InScope(i, f) == place[f] # Gone /\ Within(i, place[f])

Selected(f) == \E i \in Selections : InScope(i, f)

-----------------------------------------------------------------------------
(* The drive.                                                              *)

\* A change reaches the feeds, those a run has just opened included: the feed of a drive
\* all of them, the feed of a folder those of items that were or are in it.
Hears(i, folders) ==
    Sharepoint \/ space.selections[i] \in {RootFiles, All} \/ \E folder \in folders : Within(i, folder)

Told(feeds, item, folders) ==
    [i \in DOMAIN feeds |->
        IF feeds[i] # NoCursor /\ Hears(i, folders) THEN feeds[i] \cup {item} ELSE feeds[i]]

Notice(item, folders) ==
    /\ feed' = Told(feed, item, folders)
    /\ run' = [run EXCEPT !.links = Told(@, item, folders),
          !.read = [f \in DOMAIN @ |-> IF f = item /\ @[f] = "current" THEN "old" ELSE @[f]]]

Reading == run.at \in {"delta", "fresh", "checkpoint", "walk"}

MayEdit == ~Reading \/ space.meanwhile \in {"edits", "moves"}

MayMove == ~Reading \/ space.meanwhile = "moves"

Edit(f) ==
    /\ place[f] # Gone /\ MayEdit /\ Notice(f, {place[f]})
    /\ index' = [index EXCEPT ![f] = IF @ = "current" THEN "old" ELSE @]
    /\ UNCHANGED <<space, place, up>>

Scopes(folder) == {i \in Selections : Within(i, folder)}

Move(f, folder) ==
    /\ place[f] # Gone /\ folder # place[f] /\ MayMove
    /\ place' = [place EXCEPT ![f] = folder] /\ Notice(f, {place[f], folder})
    /\ UNCHANGED <<space, up, index>>

MoveFolder(folder) ==
    /\ folder # up /\ MayMove
    /\ Sharepoint /\ ~FoldersLeave => Scopes(folder) # {}
    /\ up' = folder /\ Notice(Sub, {up, folder})
    /\ UNCHANGED <<space, place, index>>

\* A reconnection drops the cursors (onedrive.py:726-737).
Reconnect ==
    /\ run = Idle /\ \E i \in Selections : feed[i] # NoCursor
    /\ feed' = [i \in Selections |-> NoCursor]
    /\ UNCHANGED <<space, place, up, index, run>>

-----------------------------------------------------------------------------
(* A run.                                                                  *)

\* Forced whole: a space without data, or a manual complete run.
Start(whole) ==
    /\ run.at = "idle"
    /\ LET walk == whole \/ (Sharepoint /\ \E i \in Selections : feed[i] = NoCursor) IN
       run' = [Idle EXCEPT !.at = IF walk THEN IF Sharepoint THEN "checkpoint" ELSE "walk" ELSE "delta",
                           !.snapshot = walk, !.complete = walk,
                           !.links = feed]
    /\ UNCHANGED <<space, place, up, feed, index>>

Turn(next, done) ==
    IF run.turn = Len(space.selections) THEN [run EXCEPT !.turn = 1, !.at = done]
    ELSE [run EXCEPT !.turn = @ + 1, !.at = next]

\* All that is in scope when there is no cursor, else what changed.
Reported(i) ==
    IF feed[i] = NoCursor
    THEN {f \in Files : InScope(i, f)} \cup IF Within(i, Sub) THEN {Sub} ELSE {}
    ELSE feed[i]

IgnoresFolders(i) == FALSE

\* OneDrive re-enumerates for any folder its feed tells of; SharePoint for those inside.
Enumerates(i) ==
    /\ Sub \in Reported(i) /\ space.selections[i] # RootFiles
    /\ ~Sharepoint \/ Within(i, Sub)

\* One selection's feed; what is out of scope or deleted is a removal, unless another has it.
Delta ==
    LET i == run.turn
        changed == run.changes \cup {f \in Reported(i) \cap Files : InScope(i, f)}
        removed == run.removals \cup {f \in Reported(i) \cap Files : ~InScope(i, f)}
        snapshot == run.snapshot \/ Enumerates(i)
        whole == IF Sharepoint THEN "checkpoint" ELSE "walk" IN
    /\ run.at = "delta"
    /\ run' = [Turn("delta", IF snapshot THEN whole ELSE "force") EXCEPT
                  !.changes = changed, !.removals = removed \ changed,
                  !.links = [@ EXCEPT ![i] = {}], !.snapshot = snapshot,
                  !.complete = snapshot \/ \A j \in Selections : feed[j] = NoCursor]
    /\ UNCHANGED <<space, place, up, feed, index>>

\* The cursor has expired: OneDrive asks for new feeds, SharePoint walks.
Expired ==
    /\ run.at = "delta" /\ feed[run.turn] # NoCursor
    /\ run' = [Idle EXCEPT !.at = IF Sharepoint THEN "checkpoint" ELSE "fresh",
                           !.snapshot = TRUE, !.complete = TRUE, !.links = run.links]
    /\ UNCHANGED <<space, place, up, feed, index>>

Enumerated(i) == {f \in Files : InScope(i, f)}

\* A feed without a cursor is the whole selection.
Fresh ==
    /\ run.at = "fresh"
    /\ run' = [Turn("fresh", "force") EXCEPT !.changes = @ \cup Enumerated(run.turn),
                  !.links = [@ EXCEPT ![run.turn] = {}]]
    /\ UNCHANGED <<space, place, up, feed, index>>

\* SharePoint takes a selection's checkpoint, then walks it.
Checkpoint ==
    /\ run.at = "checkpoint"
    /\ run' = [run EXCEPT !.at = "walk", !.links = [@ EXCEPT ![run.turn] = {}]]
    /\ UNCHANGED <<space, place, up, feed, index>>

\* What the walk finds replaces what the feeds told.
Walk ==
    LET found == Enumerated(run.turn) \cup IF run.turn = 1 THEN {} ELSE run.changes IN
    /\ run.at = "walk"
    /\ run' = [Turn(IF Sharepoint THEN "checkpoint" ELSE "walk", "force") EXCEPT
                  !.changes = found, !.removals = {}]
    /\ UNCHANGED <<space, place, up, feed, index>>

\* Documents that failed are looked up by name when the feeds say nothing of them.
ReadForced ==
    LET wanted == {f \in Files : index[f] = "failed"} \ (run.changes \cup run.removals) IN
    /\ run.at = "force"
    /\ run' = [run EXCEPT !.at = "read",
                  !.changes = @ \cup {f \in wanted : Selected(f)},
                  !.removals = @ \cup {f \in wanted : ~Selected(f)}]
    /\ UNCHANGED <<space, place, up, feed, index>>

\* The contents; a file that is gone, or that cannot be read, is kept as failed.
ReadChanged ==
    /\ run.at = "read"
    /\ \E unreadable \in SUBSET run.changes :
        run' = [run EXCEPT !.at = "apply", !.read =
            [f \in run.changes |-> IF place[f] = Gone \/ f \in unreadable THEN "failed" ELSE "current"]]
    /\ UNCHANGED <<space, place, up, feed, index>>

Apply ==
    /\ run.at = "apply"
    /\ index' = [f \in Files |->
            IF f \in run.changes THEN run.read[f]
            ELSE IF run.complete \/ f \in run.removals THEN "none"
            ELSE index[f]]
    /\ feed' = run.links
    /\ run' = Idle
    /\ UNCHANGED <<space, place, up>>

Abort ==
    /\ run.at # "idle" /\ run' = Idle
    /\ UNCHANGED <<space, place, up, feed, index>>

FeedNext ==
    \/ \E f \in Files : Edit(f) \/ \E folder \in {Root, Sub, Gone} \cup Branches : Move(f, folder)
    \/ \E folder \in {Root} \cup Branches : MoveFolder(folder)
    \/ Reconnect
    \/ \E whole \in BOOLEAN : Start(whole)
    \/ Delta \/ Expired \/ Fresh \/ Checkpoint \/ Walk \/ ReadForced \/ ReadChanged \/ Apply \/ Abort

FeedSpec == FeedInit /\ [][FeedNext]_feedVars

-----------------------------------------------------------------------------
(* Properties.                                                             *)

Due(f) == IF Selected(f) THEN index[f] # "current" ELSE index[f] # "none"

\* The next run will hear of it: from a feed, from a folder's move, or because it failed.
Heard(f) ==
    \/ index[f] = "failed" \/ \A i \in Selections : feed[i] = NoCursor
    \/ \E i \in Selections :
        /\ f \in feed[i] \/ feed[i] = NoCursor \/ (Sub \in feed[i] /\ Enumerates(i))
        /\ Selected(f) => InScope(i, f)

\* Between runs, a file missing, outdated or wrongly kept is one the next run hears of
\* (onedrive.py:492-597, sharepoint.py:290-395): no change falls between a cursor and a walk,
\* between two feeds, or is lost with a run that fails.
DeltaCovers == run.at = "idle" => \A f \in Files : Due(f) => Heard(f)

-----------------------------------------------------------------------------
(* What holds of a space whose selections do not disturb each other.       *)

\* One selection, or nothing changes while the feeds are read, or edits alone on OneDrive, where
\* only the feed of the root's files tells of edits outside its selection, and is read last.
Steady(s) ==
  \/ Len(s.selections) = 1
  \/ s.meanwhile = "nothing"
  \/ s.meanwhile = "edits" /\ s.provider = "onedrive"

\* The drive as functions: s a space, p the places of the files, u the folder that holds Sub.
Holds(s, u, i, folder) ==
  \/ s.selections[i] = All \/ folder = s.selections[i]
  \/ folder = Sub /\ u = s.selections[i]
  \/ s.selections[i] = RootFiles /\ folder = Root
Lies(s, p, u, i, f) == p[f] # Gone /\ Holds(s, u, i, p[f])
Wanted(s, p, u, f) == \E i \in DOMAIN s.selections : Lies(s, p, u, i, f)

\* F a function from selections to feeds: what the next run is told of a file, and by whom it is right.
Got(F, i, x) == x \in F[i] \/ F[i] = NoCursor
ByFolder(s, p, u, F, i, f) ==
  /\ Sub \in F[i] /\ s.selections[i] # RootFiles
  /\ s.provider = "sharepoint" => Holds(s, u, i, Sub) /\ p[f] = Sub
Tells(s, p, u, F, i, f) == Got(F, i, f) \/ ByFolder(s, p, u, F, i, f)
Makes(s, p, u, F, i, f) == Tells(s, p, u, F, i, f) /\ (Wanted(s, p, u, f) => Lies(s, p, u, i, f))
HeardOf(s, p, u, F, S, f) == \E i \in S : Makes(s, p, u, F, i, f)
Agree(s, p, u, F, S, f) == (\E i \in S : f \in F[i]) => HeardOf(s, p, u, F, S, f)
Uniform(F, S) == (\A i \in S : F[i] = NoCursor) \/ (\A i \in S : F[i] # NoCursor)

FeedOK(s, F) ==
  /\ F \in [DOMAIN s.selections -> SUBSET (Files \cup {Sub, Gone})]
  /\ \A i \in DOMAIN s.selections : F[i] = NoCursor \/ Gone \notin F[i]

RunFields == {"at", "turn", "changes", "removals", "links", "snapshot", "complete", "read"}

DeltaTyped ==
  /\ space \in Spaces /\ up \in {Root} \cup Branches
  /\ place \in [Files -> {Root, Sub, Gone} \cup Branches]
  /\ FeedOK(space, feed) /\ index \in [Files -> {"none", "current", "old", "failed"}]
  /\ run = [x \in RunFields |-> run[x]] /\ run.turn \in Selections
  /\ run.at \in {"idle", "delta", "fresh", "checkpoint", "walk", "force", "read", "apply"}
  /\ run.at # "idle" => FeedOK(space, run.links)
  /\ run.changes \subseteq Files /\ run.removals \subseteq Files
  /\ run.at = "apply" => run.read \in [run.changes -> {"current", "old", "failed"}]

\* Between runs and during one: what is due is heard of, and who is told of a file is not alone.
FeedCovers ==
  /\ Uniform(feed, Selections)
  /\ \A f \in Files :
       /\ Agree(space, place, up, feed, Selections, f)
       /\ Due(f) => index[f] = "failed" \/ HeardOf(space, place, up, feed, Selections, f)

\* The selections whose feed the run has opened.
Before == 1..run.turn - 1
Opened ==
  IF run.at \in {"delta", "fresh", "checkpoint"} THEN Before
  ELSE IF run.at = "walk" /\ Sharepoint THEN Before \cup {run.turn} ELSE Selections

LinksAgree ==
  run.at # "idle" =>
    /\ \A f \in Files : Agree(space, place, up, run.links, Opened, f)
    /\ run.at \in {"delta", "fresh", "checkpoint"} \/ (run.at = "walk" /\ Sharepoint) => \A i \in Opened : run.links[i] # NoCursor
    /\ run.at \in {"force", "read", "apply"} \/ (run.at = "walk" /\ ~Sharepoint) => Uniform(run.links, Selections)

\* A feed that was read has done for each file what it would, or was told of it again.
DoneBy(j, f) ==
  Makes(space, place, up, feed, j, f) =>
    \/ Tells(space, place, up, run.links, j, f)
    \/ Selected(f) /\ f \in run.changes
    \/ ~Selected(f) /\ (f \in run.removals \/ run.complete)

DeltaRead ==
  run.at = "delta" =>
    /\ \A j \in Selections \ Before : run.links[j] = feed[j]
    /\ \A f \in run.changes : Selected(f)
    /\ \A f \in run.removals : \E i \in Selections : f \in feed[i]
    /\ run.complete => run.snapshot \/ \A i \in Selections : feed[i] = NoCursor
    /\ run.snapshot => run.complete
    /\ run.turn = 1 => run.changes = {} /\ run.removals = {} /\ ~run.snapshot
    /\ ~run.snapshot => \A j \in Before, f \in Files : DoneBy(j, f)

WalkRead ==
  run.at \in {"fresh", "checkpoint", "walk"} =>
    /\ run.complete
    /\ run.at = "fresh" => ~Sharepoint
    /\ run.at = "checkpoint" => Sharepoint
    /\ run.at = "fresh" /\ run.turn = 1 => run.changes = {} /\ run.removals = {}
    /\ run.turn > 1 =>
         /\ \A f \in run.changes : Selected(f)
         /\ run.removals = {}
         /\ \A i \in Before, f \in Files : InScope(i, f) => f \in run.changes

\* What the index says of a file when the run ends.
Outcome(f) ==
  IF f \in run.changes THEN IF run.at = "apply" THEN run.read[f] ELSE "current"
  ELSE IF run.complete \/ f \in run.removals THEN "none" ELSE index[f]
OutcomeDue(f) == IF Selected(f) THEN Outcome(f) # "current" ELSE Outcome(f) # "none"

EndCovers ==
  run.at \in {"force", "read", "apply"} =>
    \A f \in Files : OutcomeDue(f) => Outcome(f) = "failed" \/ HeardOf(space, place, up, run.links, Selections, f)

DeltaInv == DeltaTyped /\ FeedCovers /\ LinksAgree /\ DeltaRead /\ WalkRead /\ EndCovers

-----------------------------------------------------------------------------
(* The feeds while the drive changes.                                      *)

\* G is F after x was told to the selections of H.
ToldTo(F, G, S, H, x) ==
  \A i \in S :
    /\ F[i] \subseteq G[i] /\ G[i] \subseteq F[i] \cup {x} /\ (F[i] = NoCursor <=> G[i] = NoCursor)
    /\ i \in H => Got(G, i, x)
    /\ i \notin H => G[i] = F[i]

\* What a change leaves of a file: it is heard of as it was, and where it came or went too.
Carried(s, p, u, q, v, F, G, S, f) ==
  /\ HeardOf(s, p, u, F, S, f) => HeardOf(s, q, v, G, S, f)
  /\ Agree(s, p, u, F, S, f) => Agree(s, q, v, G, S, f)
  /\ S = DOMAIN s.selections => (~(Wanted(s, p, u, f) <=> Wanted(s, q, v, f)) => HeardOf(s, q, v, G, S, f))

LEMMA EditCarries ==
  ASSUME NEW s, NEW p, NEW u, NEW F, NEW G, NEW S, NEW H, NEW x, NEW f, S \subseteq DOMAIN s.selections,
         ToldTo(F, G, S, H, x), p[x] # Gone, \A i \in S : Holds(s, u, i, p[x]) => i \in H,
         S = DOMAIN s.selections \/ \A i \in H \cap S : Holds(s, u, i, p[x])
  PROVE  /\ Carried(s, p, u, p, u, F, G, S, f)
         /\ f = x /\ S = DOMAIN s.selections /\ Wanted(s, p, u, f) => HeardOf(s, p, u, G, S, f)
<1>1. ASSUME NEW i \in S, Makes(s, p, u, F, i, f) PROVE Makes(s, p, u, G, i, f)
  BY <1>1 DEF Makes, Tells, Got, ByFolder, ToldTo
<1>2. HeardOf(s, p, u, F, S, f) => HeardOf(s, p, u, G, S, f) BY <1>1 DEF HeardOf
<1>3. ASSUME f = x, S = DOMAIN s.selections, Wanted(s, p, u, f) PROVE HeardOf(s, p, u, G, S, f)
  <2>1. PICK j \in S : Lies(s, p, u, j, f) BY <1>3 DEF Wanted
  <2>2. Got(G, j, f) BY <1>3, <2>1 DEF ToldTo, Lies
  <2>3. QED BY <2>1, <2>2 DEF HeardOf, Makes, Tells
<1>4. ASSUME NEW i \in S, f \in G[i], f \notin F[i] PROVE HeardOf(s, p, u, G, S, f)
  <2>1. f = x /\ i \in H BY <1>4 DEF ToldTo
  <2>2. Tells(s, p, u, G, i, f) BY <1>4 DEF Tells, Got
  <2>3. CASE S = DOMAIN s.selections
    <3>1. CASE Wanted(s, p, u, f) BY <1>3, <2>1, <2>3, <3>1
    <3>2. CASE ~Wanted(s, p, u, f) BY <2>2, <3>2 DEF HeardOf, Makes
    <3>3. QED BY <3>1, <3>2
  <2>4. CASE \A k \in H \cap S : Holds(s, u, k, p[x])
    <3>1. Lies(s, p, u, i, f) BY <2>1, <2>4 DEF Lies
    <3>2. QED BY <2>2, <3>1 DEF HeardOf, Makes
  <2>5. QED BY <2>3, <2>4
<1>5. Agree(s, p, u, F, S, f) => Agree(s, p, u, G, S, f) BY <1>2, <1>4 DEF Agree
<1>6. QED BY <1>2, <1>3, <1>5 DEF Carried

LEMMA MoveCarries ==
  ASSUME NEW s, NEW p, NEW u, NEW F, NEW G, NEW S, NEW H, NEW x \in Files, NEW f \in Files, NEW folder,
         S = DOMAIN s.selections, DOMAIN p = Files,
         ToldTo(F, G, S, H, x), \A i \in S : Holds(s, u, i, p[x]) \/ Holds(s, u, i, folder) => i \in H,
         s.provider = "sharepoint" => S \subseteq H
  PROVE  Carried(s, p, u, [p EXCEPT ![x] = folder], u, F, G, S, f)
<1>1. PICK q : q = [p EXCEPT ![x] = folder] OBVIOUS
<1>2. DOMAIN q = Files /\ q[x] = folder /\ \A g \in Files : g # x => q[g] = p[g] BY <1>1
<1>3. CASE f # x
  <2>1. q[f] = p[f] BY <1>2, <1>3
  <2>2. \A i : Lies(s, q, u, i, f) <=> Lies(s, p, u, i, f) BY <2>1 DEF Lies
  <2>3. Wanted(s, q, u, f) <=> Wanted(s, p, u, f) BY <2>2 DEF Wanted
  <2>4. ASSUME NEW i \in S, Makes(s, p, u, F, i, f) PROVE Makes(s, q, u, G, i, f)
    BY <2>1, <2>2, <2>3, <2>4 DEF Makes, Tells, Got, ByFolder, ToldTo
  <2>5. HeardOf(s, p, u, F, S, f) => HeardOf(s, q, u, G, S, f) BY <2>4 DEF HeardOf
  <2>6. \A i \in S : f \in G[i] => f \in F[i] BY <1>3 DEF ToldTo
  <2>7. Agree(s, p, u, F, S, f) => Agree(s, q, u, G, S, f) BY <2>5, <2>6 DEF Agree
  <2>8. QED BY <1>1, <2>3, <2>5, <2>7 DEF Carried
<1>4. CASE f = x
  <2>1. Wanted(s, q, u, f) => HeardOf(s, q, u, G, S, f)
    <3>1. SUFFICES ASSUME Wanted(s, q, u, f) PROVE HeardOf(s, q, u, G, S, f) OBVIOUS
    <3>2. PICK j \in S : Lies(s, q, u, j, f) BY <3>1 DEF Wanted
    <3>3. Got(G, j, f) BY <1>2, <1>4, <3>2 DEF ToldTo, Lies
    <3>4. QED BY <3>2, <3>3 DEF HeardOf, Makes, Tells
  <2>2. ASSUME ~Wanted(s, q, u, f), NEW i \in S, Got(G, i, f) \/ ByFolder(s, q, u, G, i, f) PROVE HeardOf(s, q, u, G, S, f)
    BY <2>2 DEF HeardOf, Makes, Tells
  <2>3. Wanted(s, p, u, f) => HeardOf(s, q, u, G, S, f)
    <3>1. SUFFICES ASSUME Wanted(s, p, u, f), ~Wanted(s, q, u, f) PROVE HeardOf(s, q, u, G, S, f) BY <2>1
    <3>2. PICK j \in S : Lies(s, p, u, j, f) BY <3>1 DEF Wanted
    <3>3. Got(G, j, f) BY <1>4, <3>2 DEF ToldTo, Lies
    <3>4. QED BY <2>2, <3>1, <3>3
  <2>4. HeardOf(s, p, u, F, S, f) => HeardOf(s, q, u, G, S, f)
    <3>1. SUFFICES ASSUME NEW i \in S, Tells(s, p, u, F, i, f), ~Wanted(s, q, u, f) PROVE HeardOf(s, q, u, G, S, f)
      BY <2>1 DEF HeardOf, Makes
    <3>2. Got(G, i, f) \/ ByFolder(s, q, u, G, i, f)
      <4>1. CASE Got(F, i, f) BY <4>1 DEF Got, ToldTo
      <4>2. CASE s.provider = "sharepoint" BY <1>4, <4>2 DEF ToldTo
      <4>3. CASE ByFolder(s, p, u, F, i, f) /\ s.provider # "sharepoint" BY <4>3 DEF ByFolder, ToldTo
      <4>4. QED BY <3>1, <4>1, <4>2, <4>3 DEF Tells
    <3>3. QED BY <2>2, <3>1, <3>2
  <2>5. Agree(s, q, u, G, S, f) BY <2>1, <2>2 DEF Agree, Got
  <2>6. QED BY <1>1, <2>1, <2>3, <2>4, <2>5 DEF Carried
<1>5. QED BY <1>3, <1>4

LEMMA FolderCarries ==
  ASSUME MicrosoftAssumption, NEW s \in Spaces, NEW p, NEW u \in {Root} \cup Branches, NEW v \in {Root} \cup Branches, NEW F, NEW G, NEW S, NEW H,
         NEW f \in Files, S = DOMAIN s.selections, ToldTo(F, G, S, H, Sub),
         \A i \in S : Holds(s, u, i, Sub) \/ Holds(s, v, i, Sub) => i \in H,
         s.provider = "sharepoint" => S \subseteq H /\ \E i \in S : Holds(s, v, i, Sub)
  PROVE  Carried(s, p, u, p, v, F, G, S, f)
<1>1. \A i \in S : f \in G[i] => f \in F[i] BY MicrosoftAssumption DEF ToldTo
<1>2. CASE p[f] # Sub
  <2>1. \A i : Lies(s, p, v, i, f) <=> Lies(s, p, u, i, f) BY <1>2 DEF Lies, Holds
  <2>2. Wanted(s, p, v, f) <=> Wanted(s, p, u, f) BY <2>1 DEF Wanted
  <2>3. ASSUME NEW i \in S, Makes(s, p, u, F, i, f) PROVE Makes(s, p, v, G, i, f)
    BY <1>2, <2>1, <2>2, <2>3 DEF Makes, Tells, Got, ByFolder, ToldTo
  <2>4. HeardOf(s, p, u, F, S, f) => HeardOf(s, p, v, G, S, f) BY <2>3 DEF HeardOf
  <2>5. QED BY <1>1, <2>2, <2>4 DEF Carried, Agree
<1>3. CASE p[f] = Sub
  <2>1. \A i \in S : s.selections[i] \in Branches \cup {RootFiles, All}
    BY MicrosoftAssumption
  <2>2. Sub # Gone /\ RootFiles # All /\ RootFiles # Sub /\ Root # Sub /\ u # RootFiles /\ v # RootFiles BY MicrosoftAssumption
  <2>3. \A i \in S : Holds(s, v, i, Sub) => s.selections[i] # RootFiles BY <2>2 DEF Holds
  <2>4. ASSUME NEW i \in S, Holds(s, v, i, Sub) PROVE Tells(s, p, v, G, i, f)
    <3>1. Got(G, i, Sub) BY <2>4 DEF ToldTo
    <3>2. CASE Sub \in G[i] BY <1>3, <2>3, <2>4, <3>2 DEF Tells, ByFolder
    <3>3. CASE G[i] = NoCursor BY <3>3 DEF Tells, Got
    <3>4. QED BY <3>1, <3>2, <3>3 DEF Got
  <2>5. Wanted(s, p, v, f) => HeardOf(s, p, v, G, S, f) BY <1>3, <2>2, <2>4 DEF Wanted, Lies, HeardOf, Makes
  <2>6. s.provider = "sharepoint" => Wanted(s, p, v, f) BY <1>3, <2>2 DEF Wanted, Lies
  <2>7. ASSUME s.provider # "sharepoint", NEW i \in S, Holds(s, u, i, Sub), s.selections[i] # RootFiles
        PROVE  Tells(s, p, v, G, i, f)
    <3>1. Got(G, i, Sub) BY <2>7 DEF ToldTo
    <3>2. QED BY <2>7, <3>1 DEF Tells, Got, ByFolder
  <2>8. ASSUME Wanted(s, p, u, f), ~Wanted(s, p, v, f) PROVE HeardOf(s, p, v, G, S, f)
    <3>1. PICK i \in S : Holds(s, u, i, Sub) BY <1>3, <2>8 DEF Wanted, Lies
    <3>2. s.selections[i] # RootFiles BY <2>2, <3>1 DEF Holds
    <3>3. Tells(s, p, v, G, i, f) BY <2>6, <2>7, <2>8, <3>1, <3>2
    <3>4. QED BY <2>8, <3>3 DEF HeardOf, Makes
  <2>9. HeardOf(s, p, u, F, S, f) => HeardOf(s, p, v, G, S, f)
    <3>1. SUFFICES ASSUME NEW i \in S, Tells(s, p, u, F, i, f), ~Wanted(s, p, v, f) PROVE Tells(s, p, v, G, i, f)
      BY <2>5 DEF HeardOf, Makes
    <3>2. s.provider # "sharepoint" BY <2>6, <3>1
    <3>3. QED BY <3>1, <3>2 DEF Tells, Got, ByFolder, ToldTo
  <2>10. QED BY <1>1, <2>5, <2>8, <2>9 DEF Carried, Agree
<1>4. QED BY <1>2, <1>3

LEMMA Spaced ==
  ASSUME space \in Spaces
  PROVE  /\ Selections = DOMAIN space.selections /\ Selections = 1..Len(space.selections)
         /\ Len(space.selections) \in Nat /\ Len(space.selections) >= 1
         /\ \A i \in Selections : space.selections[i] \in Branches \cup {RootFiles, All}
<1>1. space.selections \in Seq(Branches \cup {RootFiles, All}) /\ space.selections # <<>> BY MicrosoftAssumption
<1>2. QED BY <1>1 DEF Selections

LEMMA ToldIsTold ==
  ASSUME NEW F, space \in Spaces, FeedOK(space, F), NEW x \in Files \cup {Sub}, NEW folders
  PROVE  /\ FeedOK(space, Told(F, x, folders))
         /\ ToldTo(F, Told(F, x, folders), Selections, {i \in Selections : Hears(i, folders)}, x)
<1>1. PICK G : G = Told(F, x, folders) OBVIOUS
<1>2. PICK H : H = {i \in Selections : Hears(i, folders)} OBVIOUS
<1>3. DOMAIN F = Selections /\ x # Gone BY MicrosoftAssumption DEF FeedOK, Selections
<1>4. G = [i \in Selections |-> IF F[i] # NoCursor /\ i \in H THEN F[i] \cup {x} ELSE F[i]] BY <1>1, <1>2, <1>3 DEF Told
<1>5. FeedOK(space, G) BY <1>3, <1>4 DEF FeedOK, Selections, NoCursor
<1>6. ToldTo(F, G, Selections, H, x) BY <1>3, <1>4 DEF ToldTo, Got, NoCursor
<1>7. QED BY <1>1, <1>2, <1>5, <1>6

\* What was covered stays so when its file stays or goes.
LEMMA DueCarries ==
  ASSUME NEW s, NEW p, NEW u, NEW q, NEW v, NEW F, NEW G, NEW S, NEW f, NEW a, NEW b, S = DOMAIN s.selections,
         Carried(s, p, u, q, v, F, G, S, f),
         a = b \/ (a = "current" /\ b = "old" /\ (Wanted(s, q, v, f) => HeardOf(s, q, v, G, S, f))),
         Wanted(s, p, u, f) /\ a # "current" => a = "failed" \/ HeardOf(s, p, u, F, S, f),
         ~Wanted(s, p, u, f) /\ a # "none" => a = "failed" \/ HeardOf(s, p, u, F, S, f)
  PROVE  /\ Wanted(s, q, v, f) /\ b # "current" => b = "failed" \/ HeardOf(s, q, v, G, S, f)
         /\ ~Wanted(s, q, v, f) /\ b # "none" => b = "failed" \/ HeardOf(s, q, v, G, S, f)
  BY DEF Carried

\* A change of the drive, for what it does to feeds, index and reading.
LEMMA DriveStep ==
  ASSUME DeltaInv, NEW x \in Files \cup {Sub}, NEW H,
         space' = space, up' \in {Root} \cup Branches, place' \in [Files -> {Root, Sub, Gone} \cup Branches],
         index' \in [Files -> {"none", "current", "old", "failed"}],
         run' = [y \in RunFields |-> run'[y]], run'.at = run.at, run'.turn = run.turn, run'.changes = run.changes,
         run'.removals = run.removals, run'.snapshot = run.snapshot, run'.complete = run.complete,
         FeedOK(space, feed'), ToldTo(feed, feed', Selections, H, x),
         run.at # "idle" => /\ FeedOK(space, run'.links) /\ ToldTo(run.links, run'.links, Selections, H, x)
                            /\ \A i \in Selections : run.links[i] = feed[i] => run'.links[i] = feed'[i],
         \A f \in Files : Carried(space, place, up, place', up', feed, feed', Selections, f),
         run.at # "idle" => \A f \in Files : Carried(space, place, up, place', up', run.links, run'.links, Opened, f),
         \A f \in Files :
            \/ index'[f] = index[f]
            \/ /\ index[f] = "current" /\ index'[f] = "old"
               /\ Wanted(space, place', up', f) =>
                     /\ HeardOf(space, place', up', feed', Selections, f)
                     /\ run.at \in {"force", "read", "apply"} => HeardOf(space, place', up', run'.links, Selections, f),
         run.at = "apply" =>
            /\ run'.read \in [run.changes -> {"current", "old", "failed"}]
            /\ \A f \in run.changes :
                 \/ run'.read[f] = run.read[f]
                 \/ /\ run.read[f] = "current" /\ run'.read[f] = "old"
                    /\ Wanted(space, place', up', f) => HeardOf(space, place', up', run'.links, Selections, f),
         run.at \in {"delta", "fresh", "checkpoint", "walk"} /\ run.turn > 1 => place' = place /\ up' = up
  PROVE  DeltaInv'
<1>1. /\ space \in Spaces /\ Selections = DOMAIN space.selections /\ Selections' = Selections
      /\ Selections = 1..Len(space.selections) /\ Len(space.selections) \in Nat /\ run.turn \in Selections
  BY Spaced DEF DeltaInv, DeltaTyped, Selections
<1>2. DeltaTyped' BY <1>1 DEF DeltaInv, DeltaTyped
<1>3. Opened' = Opened /\ Before' = Before /\ (Sharepoint' <=> Sharepoint) BY <1>1 DEF Opened, Before, Sharepoint
<1>4. /\ \A f : Selected(f) <=> Wanted(space, place, up, f)
      /\ \A f : Selected(f)' <=> Wanted(space, place', up', f)
  BY <1>1 DEF Selected, Wanted, InScope, Lies, Within, Holds, Selections
<1>5. FeedCovers'
  <2>1. Uniform(feed', Selections) BY DEF DeltaInv, FeedCovers, Uniform, ToldTo
  <2>2. ASSUME NEW f \in Files
        PROVE  /\ Agree(space, place', up', feed', Selections, f)
               /\ Due(f)' => index'[f] = "failed" \/ HeardOf(space, place', up', feed', Selections, f)
    <3>1. /\ Agree(space, place, up, feed, Selections, f)
          /\ Due(f) => index[f] = "failed" \/ HeardOf(space, place, up, feed, Selections, f)
      BY DEF DeltaInv, FeedCovers
    <3>2. Agree(space, place', up', feed', Selections, f) BY <3>1 DEF Carried
    <3>3. /\ Wanted(space, place, up, f) /\ index[f] # "current" => index[f] = "failed" \/ HeardOf(space, place, up, feed, Selections, f)
          /\ ~Wanted(space, place, up, f) /\ index[f] # "none" => index[f] = "failed" \/ HeardOf(space, place, up, feed, Selections, f)
      BY <1>4, <3>1 DEF Due
    <3>4. /\ Wanted(space, place', up', f) /\ index'[f] # "current" => index'[f] = "failed" \/ HeardOf(space, place', up', feed', Selections, f)
          /\ ~Wanted(space, place', up', f) /\ index'[f] # "none" => index'[f] = "failed" \/ HeardOf(space, place', up', feed', Selections, f)
      BY <1>1, <3>3, DueCarries
    <3>5. QED BY <1>4, <3>2, <3>4 DEF Due
  <2>3. QED BY <1>1, <2>1, <2>2 DEF FeedCovers
<1>6. LinksAgree'
  <2>1. SUFFICES ASSUME run.at # "idle" PROVE LinksAgree' BY DEF LinksAgree
  <2>2. /\ \A f \in Files : Agree(space, place, up, run.links, Opened, f)
        /\ run.at \in {"delta", "fresh", "checkpoint"} \/ (run.at = "walk" /\ Sharepoint) => \A i \in Opened : run.links[i] # NoCursor
        /\ run.at \in {"force", "read", "apply"} \/ (run.at = "walk" /\ ~Sharepoint) => Uniform(run.links, Selections)
    BY <2>1 DEF DeltaInv, LinksAgree
  <2>3. \A f \in Files : Agree(space, place', up', run'.links, Opened, f) BY <2>1, <2>2 DEF Carried
  <2>4. Opened \subseteq Selections BY <1>1 DEF Opened, Before
  <2>5. \A i \in Selections : run.links[i] = NoCursor <=> run'.links[i] = NoCursor BY <2>1 DEF ToldTo
  <2>6. Uniform(run.links, Selections) => Uniform(run'.links, Selections) BY <2>5 DEF Uniform
  <2>7. QED BY <1>1, <1>3, <2>2, <2>3, <2>4, <2>5, <2>6 DEF LinksAgree
<1>7. DeltaRead'
  <2>1. SUFFICES ASSUME run.at = "delta" PROVE DeltaRead' BY DEF DeltaRead
  <2>2. /\ \A j \in Selections \ Before : run.links[j] = feed[j]
        /\ \A f \in run.changes : Selected(f)
        /\ \A f \in run.removals : \E i \in Selections : f \in feed[i]
        /\ run.complete => run.snapshot \/ \A i \in Selections : feed[i] = NoCursor
        /\ run.snapshot => run.complete
        /\ run.turn = 1 => run.changes = {} /\ run.removals = {} /\ ~run.snapshot
        /\ ~run.snapshot => \A j \in Before, f \in Files : DoneBy(j, f)
    BY <2>1 DEF DeltaInv, DeltaRead
  <2>3. \A j \in Selections \ Before : run'.links[j] = feed'[j] BY <2>1, <2>2
  <2>4. \A f \in run.removals : \E i \in Selections : f \in feed'[i] BY <2>2 DEF ToldTo
  <2>5. run.complete => run.snapshot \/ \A i \in Selections : feed'[i] = NoCursor BY <2>2 DEF ToldTo
  <2>6. CASE run.turn = 1
    <3>1. Before = {} BY <2>6 DEF Before
    <3>2. QED BY <1>1, <1>3, <2>2, <2>3, <2>4, <2>5, <2>6, <3>1 DEF DeltaRead
  <2>7. CASE run.turn # 1
    <3>1. place' = place /\ up' = up BY <1>1, <2>1, <2>7
    <3>2. \A f : Selected(f)' <=> Selected(f) BY <1>4, <3>1
    <3>3. ASSUME ~run.snapshot, NEW j \in Before, NEW f \in Files PROVE DoneBy(j, f)'
      <4>1. SUFFICES ASSUME Makes(space, place, up, feed', j, f)
                     PROVE  \/ Tells(space, place, up, run'.links, j, f)
                            \/ Selected(f) /\ f \in run.changes
                            \/ ~Selected(f) /\ (f \in run.removals \/ run.complete)
        BY <3>1, <3>2 DEF DoneBy
      <4>2. DoneBy(j, f) /\ j \in Selections BY <1>1, <2>2, <3>3 DEF Before
      <4>3. ToldTo(run.links, run'.links, Selections, H, x) BY <2>1
      <4>4. Tells(space, place, up, run.links, j, f) => Tells(space, place, up, run'.links, j, f)
        BY <4>2, <4>3 DEF Tells, Got, ByFolder, ToldTo
      <4>5. CASE Tells(space, place, up, feed, j, f) BY <4>1, <4>2, <4>4, <4>5 DEF DoneBy, Makes
      <4>6. CASE ~Tells(space, place, up, feed, j, f)
        <5>1. j \in H /\ (f = x \/ (x = Sub /\ ByFolder(space, place, up, feed', j, f)))
          BY <4>1, <4>2, <4>6 DEF Makes, Tells, Got, ByFolder, ToldTo
        <5>2. Got(run'.links, j, x) BY <4>2, <4>3, <5>1 DEF ToldTo
        <5>3. QED BY <5>1, <5>2 DEF Tells, Got, ByFolder
      <4>7. QED BY <4>5, <4>6
    <3>4. QED BY <1>1, <1>3, <2>2, <2>3, <2>4, <2>5, <3>2, <3>3 DEF DeltaRead
  <2>8. QED BY <2>6, <2>7
<1>8. WalkRead'
  <2>1. SUFFICES ASSUME run.at \in {"fresh", "checkpoint", "walk"} PROVE WalkRead' BY DEF WalkRead
  <2>2. CASE run.turn = 1 BY <1>3, <2>1, <2>2 DEF DeltaInv, WalkRead
  <2>3. CASE run.turn # 1
    <3>1. place' = place /\ up' = up BY <1>1, <2>1, <2>3
    <3>2. /\ \A f : Selected(f)' <=> Selected(f)
          /\ \A i, f : InScope(i, f)' <=> InScope(i, f)
      BY <1>4, <3>1 DEF InScope, Within
    <3>3. QED BY <1>3, <2>1, <3>2 DEF DeltaInv, WalkRead
  <2>4. QED BY <2>2, <2>3
<1>9. EndCovers'
  <2>1. SUFFICES ASSUME run.at \in {"force", "read", "apply"}, NEW f \in Files, OutcomeDue(f)'
                 PROVE  Outcome(f)' = "failed" \/ HeardOf(space, place', up', run'.links, Selections, f)
    BY <1>1 DEF EndCovers
  <2>2. OutcomeDue(f) => Outcome(f) = "failed" \/ HeardOf(space, place, up, run.links, Selections, f)
    BY <2>1 DEF DeltaInv, EndCovers
  <2>3. PICK a : a = Outcome(f) OBVIOUS
  <2>4. PICK b : b = Outcome(f)' OBVIOUS
  <2>5. a = b \/ (a = "current" /\ b = "old" /\ (Wanted(space, place', up', f) => HeardOf(space, place', up', run'.links, Selections, f)))
    BY <2>1, <2>3, <2>4 DEF Outcome
  <2>6. Opened = Selections BY <2>1 DEF Opened
  <2>7. Carried(space, place, up, place', up', run.links, run'.links, Selections, f) BY <2>1, <2>6
  <2>8. /\ Wanted(space, place, up, f) /\ a # "current" => a = "failed" \/ HeardOf(space, place, up, run.links, Selections, f)
        /\ ~Wanted(space, place, up, f) /\ a # "none" => a = "failed" \/ HeardOf(space, place, up, run.links, Selections, f)
    BY <1>4, <2>2, <2>3 DEF OutcomeDue
  <2>9. /\ Wanted(space, place', up', f) /\ b # "current" => b = "failed" \/ HeardOf(space, place', up', run'.links, Selections, f)
        /\ ~Wanted(space, place', up', f) /\ b # "none" => b = "failed" \/ HeardOf(space, place', up', run'.links, Selections, f)
    BY <1>1, <2>5, <2>7, <2>8, DueCarries
  <2>10. QED BY <1>4, <2>1, <2>4, <2>9 DEF OutcomeDue
<1>10. QED BY <1>2, <1>5, <1>6, <1>7, <1>8, <1>9 DEF DeltaInv

-----------------------------------------------------------------------------
(* The changes of the drive.                                               *)

\* While the feeds of several selections are read, nothing moves.
LEMMA OpenedAllOrNone ==
  ASSUME DeltaInv, run.at # "idle", Reading => Len(space.selections) = 1
  PROVE  Opened = Selections \/ Opened = {}
<1>1. Selections = 1..Len(space.selections) /\ run.turn \in Selections BY Spaced DEF DeltaInv, DeltaTyped
<1>2. CASE Reading
  <2>1. Len(space.selections) = 1 BY <1>2
  <2>2. Selections = {1} /\ run.turn = 1 BY <1>1, <2>1
  <2>3. Before = {} BY <2>2 DEF Before
  <2>4. QED BY <1>2, <2>2, <2>3 DEF Reading, Opened
<1>3. CASE ~Reading BY <1>3 DEF Reading, Opened
<1>4. QED BY <1>2, <1>3

LEMMA NoneCarries ==
  ASSUME NEW s, NEW p, NEW u, NEW q, NEW v, NEW F, NEW G, NEW f, DOMAIN s.selections # {}
  PROVE  Carried(s, p, u, q, v, F, G, {}, f)
  BY DEF Carried, HeardOf, Agree

\* How a change reaches the feeds and the run.
LEMMA Reports ==
  ASSUME DeltaInv, NEW x \in Files \cup {Sub}, NEW folders, Notice(x, folders)
  PROVE  /\ run' = [y \in RunFields |-> run'[y]] /\ run'.at = run.at /\ run'.turn = run.turn
         /\ run'.changes = run.changes /\ run'.removals = run.removals
         /\ run'.snapshot = run.snapshot /\ run'.complete = run.complete
         /\ FeedOK(space, feed') /\ ToldTo(feed, feed', Selections, {i \in Selections : Hears(i, folders)}, x)
         /\ run.at # "idle" => /\ FeedOK(space, run'.links)
                               /\ ToldTo(run.links, run'.links, Selections, {i \in Selections : Hears(i, folders)}, x)
                               /\ \A i \in Selections : run.links[i] = feed[i] => run'.links[i] = feed'[i]
         /\ run.at = "apply" => /\ run'.read \in [run.changes -> {"current", "old", "failed"}]
                                /\ \A g \in run.changes : run'.read[g] = run.read[g]
                                                          \/ (g = x /\ run.read[g] = "current" /\ run'.read[g] = "old")
<1>1. run = [y \in RunFields |-> run[y]] /\ space \in Spaces /\ FeedOK(space, feed) BY DEF DeltaInv, DeltaTyped
<1>2. feed' = Told(feed, x, folders) BY DEF Notice
<1>3. PICK G : G = Told(run.links, x, folders) OBVIOUS
<1>4. PICK read : read = [f \in DOMAIN run.read |-> IF f = x /\ run.read[f] = "current" THEN "old" ELSE run.read[f]] OBVIOUS
<1>5. run' = [run EXCEPT !.links = G, !.read = read] BY <1>3, <1>4 DEF Notice
<1>6. /\ run' = [y \in RunFields |-> run'[y]] /\ run'.at = run.at /\ run'.turn = run.turn
      /\ run'.changes = run.changes /\ run'.removals = run.removals
      /\ run'.snapshot = run.snapshot /\ run'.complete = run.complete /\ run'.links = G /\ run'.read = read
  BY <1>1, <1>5 DEF RunFields
<1>7. FeedOK(space, feed') /\ ToldTo(feed, feed', Selections, {i \in Selections : Hears(i, folders)}, x)
  BY <1>1, <1>2, ToldIsTold
<1>8. ASSUME run.at # "idle"
      PROVE  /\ FeedOK(space, G) /\ ToldTo(run.links, G, Selections, {i \in Selections : Hears(i, folders)}, x)
             /\ \A i \in Selections : run.links[i] = feed[i] => G[i] = feed'[i]
  <2>1. FeedOK(space, run.links) BY <1>8 DEF DeltaInv, DeltaTyped
  <2>2. FeedOK(space, G) /\ ToldTo(run.links, G, Selections, {i \in Selections : Hears(i, folders)}, x)
    BY <1>1, <1>3, <2>1, ToldIsTold
  <2>3. DOMAIN feed = Selections /\ DOMAIN run.links = Selections BY <1>1, <2>1 DEF FeedOK, Selections
  <2>4. QED BY <1>2, <1>3, <2>2, <2>3 DEF Told
<1>9. ASSUME run.at = "apply"
      PROVE  /\ read \in [run.changes -> {"current", "old", "failed"}]
             /\ \A g \in run.changes : read[g] = run.read[g] \/ (g = x /\ run.read[g] = "current" /\ read[g] = "old")
  <2>1. run.read \in [run.changes -> {"current", "old", "failed"}] BY <1>9 DEF DeltaInv, DeltaTyped
  <2>2. QED BY <1>4, <2>1
<1>10. QED BY <1>6, <1>7, <1>8, <1>9

LEMMA EditKeeps == ASSUME DeltaInv, Steady(space), NEW x \in Files, Edit(x) PROVE DeltaInv'
<1>1. /\ place[x] # Gone /\ MayEdit /\ Notice(x, {place[x]}) /\ UNCHANGED <<space, place, up>>
      /\ index' = [index EXCEPT ![x] = IF @ = "current" THEN "old" ELSE @]
  BY DEF Edit
<1>2. /\ space \in Spaces /\ Selections = DOMAIN space.selections /\ Selections = 1..Len(space.selections)
      /\ Len(space.selections) \in Nat /\ Len(space.selections) >= 1 /\ run.turn \in Selections
  BY Spaced DEF DeltaInv, DeltaTyped
<1>3. PICK H : H = {i \in Selections : Hears(i, {place[x]})} OBVIOUS
<1>4. ASSUME NEW i \in Selections, Holds(space, up, i, place[x]) PROVE i \in H
  BY <1>3, <1>4 DEF Hears, Within, Holds
<1>5. /\ run' = [y \in RunFields |-> run'[y]] /\ run'.at = run.at /\ run'.turn = run.turn
      /\ run'.changes = run.changes /\ run'.removals = run.removals
      /\ run'.snapshot = run.snapshot /\ run'.complete = run.complete
      /\ FeedOK(space, feed') /\ ToldTo(feed, feed', Selections, H, x)
      /\ run.at # "idle" => /\ FeedOK(space, run'.links) /\ ToldTo(run.links, run'.links, Selections, H, x)
                            /\ \A i \in Selections : run.links[i] = feed[i] => run'.links[i] = feed'[i]
      /\ run.at = "apply" => /\ run'.read \in [run.changes -> {"current", "old", "failed"}]
                             /\ \A g \in run.changes : run'.read[g] = run.read[g]
                                                       \/ (g = x /\ run.read[g] = "current" /\ run'.read[g] = "old")
  BY <1>1, <1>3, Reports
<1>6. ASSUME NEW f \in Files
      PROVE  /\ Carried(space, place, up, place, up, feed, feed', Selections, f)
             /\ f = x /\ Wanted(space, place, up, f) => HeardOf(space, place, up, feed', Selections, f)
  BY <1>1, <1>2, <1>4, <1>5, EditCarries
<1>7. run.at # "idle" => Opened = Selections \/ \A i \in H \cap Opened : Holds(space, up, i, place[x])
  <2>1. SUFFICES ASSUME run.at # "idle", Opened # Selections, NEW i \in H \cap Opened PROVE Holds(space, up, i, place[x])
    OBVIOUS
  <2>2. Reading BY <2>1 DEF Opened, Reading
  <2>3. Len(space.selections) # 1 BY <2>1, OpenedAllOrNone
  <2>4. space.meanwhile \in {"edits", "moves"} BY <1>1, <2>2 DEF MayEdit
  <2>5. space.provider = "onedrive" /\ \A k \in 1..Len(space.selections) - 1 : space.selections[k] # RootFiles
    <3>1. \A k \in Selections : space.selections[k] = RootFiles => k = Len(space.selections)
      BY <1>2, MicrosoftAssumption
    <3>2. QED BY <1>2, <2>3, <2>4, <3>1 DEF Steady
  <2>6. Opened = Before /\ i \in 1..Len(space.selections) - 1 BY <1>2, <2>1, <2>5 DEF Opened, Before, Sharepoint
  <2>7. Hears(i, {place[x]}) /\ space.selections[i] # RootFiles /\ ~Sharepoint BY <1>3, <2>1, <2>5, <2>6 DEF Sharepoint
  <2>8. QED BY <2>7 DEF Hears, Within, Holds
<1>8. ASSUME run.at # "idle", NEW f \in Files
      PROVE  /\ Carried(space, place, up, place, up, run.links, run'.links, Opened, f)
             /\ f = x /\ Opened = Selections /\ Wanted(space, place, up, f) => HeardOf(space, place, up, run'.links, Opened, f)
  <2>1. Opened \subseteq Selections BY <1>2 DEF Opened, Before
  <2>2. ToldTo(run.links, run'.links, Opened, H, x) BY <1>5, <1>8, <2>1 DEF ToldTo
  <2>3. \A i \in Opened : Holds(space, up, i, place[x]) => i \in H BY <1>4, <2>1
  <2>4. QED BY <1>1, <1>2, <1>7, <1>8, <2>1, <2>2, <2>3, EditCarries
<1>9. run.at \in {"force", "read", "apply"} => Opened = Selections BY DEF Opened
<1>10. index' \in [Files -> {"none", "current", "old", "failed"}] /\ \A f \in Files :
          index'[f] = index[f] \/ (f = x /\ index[f] = "current" /\ index'[f] = "old")
  BY <1>1 DEF DeltaInv, DeltaTyped
<1>11. place' \in [Files -> {Root, Sub, Gone} \cup Branches] /\ up' \in {Root} \cup Branches
  BY <1>1 DEF DeltaInv, DeltaTyped
<1>12. \A f \in Files :
          \/ index'[f] = index[f]
          \/ /\ index[f] = "current" /\ index'[f] = "old"
             /\ Wanted(space, place', up', f) =>
                   /\ HeardOf(space, place', up', feed', Selections, f)
                   /\ run.at \in {"force", "read", "apply"} => HeardOf(space, place', up', run'.links, Selections, f)
  BY <1>1, <1>6, <1>8, <1>9, <1>10
<1>13. run.at = "apply" =>
          \A f \in run.changes :
            \/ run'.read[f] = run.read[f]
            \/ /\ run.read[f] = "current" /\ run'.read[f] = "old"
               /\ Wanted(space, place', up', f) => HeardOf(space, place', up', run'.links, Selections, f)
  BY <1>1, <1>5, <1>8, <1>9
<1>14. QED BY <1>1, <1>5, <1>6, <1>8, <1>10, <1>11, <1>12, <1>13, DriveStep

LEMMA MoveKeeps ==
  ASSUME DeltaInv, Steady(space), NEW x \in Files, NEW folder \in {Root, Sub, Gone} \cup Branches, Move(x, folder)
  PROVE  DeltaInv'
<1>1. /\ place[x] # Gone /\ MayMove /\ Notice(x, {place[x], folder}) /\ UNCHANGED <<space, up, index>>
      /\ place' = [place EXCEPT ![x] = folder]
  BY DEF Move
<1>2. /\ space \in Spaces /\ Selections = DOMAIN space.selections /\ Selections = 1..Len(space.selections)
      /\ Len(space.selections) \in Nat /\ Len(space.selections) >= 1 /\ run.turn \in Selections
  BY Spaced DEF DeltaInv, DeltaTyped
<1>3. PICK H : H = {i \in Selections : Hears(i, {place[x], folder})} OBVIOUS
<1>4. ASSUME NEW i \in Selections, Holds(space, up, i, place[x]) \/ Holds(space, up, i, folder) PROVE i \in H
  BY <1>3, <1>4 DEF Hears, Within, Holds
<1>5. space.provider = "sharepoint" => Selections \subseteq H BY <1>3 DEF Hears, Sharepoint
<1>6. /\ run' = [y \in RunFields |-> run'[y]] /\ run'.at = run.at /\ run'.turn = run.turn
      /\ run'.changes = run.changes /\ run'.removals = run.removals
      /\ run'.snapshot = run.snapshot /\ run'.complete = run.complete
      /\ FeedOK(space, feed') /\ ToldTo(feed, feed', Selections, H, x)
      /\ run.at # "idle" => /\ FeedOK(space, run'.links) /\ ToldTo(run.links, run'.links, Selections, H, x)
                            /\ \A i \in Selections : run.links[i] = feed[i] => run'.links[i] = feed'[i]
      /\ run.at = "apply" => /\ run'.read \in [run.changes -> {"current", "old", "failed"}]
                             /\ \A g \in run.changes : run'.read[g] = run.read[g]
                                                       \/ (g = x /\ run.read[g] = "current" /\ run'.read[g] = "old")
  BY <1>1, <1>3, Reports
<1>7. place \in [Files -> {Root, Sub, Gone} \cup Branches] /\ DOMAIN place = Files BY DEF DeltaInv, DeltaTyped
<1>8. ASSUME NEW f \in Files PROVE Carried(space, place, up, place', up', feed, feed', Selections, f)
  BY <1>1, <1>2, <1>4, <1>5, <1>6, <1>7, MoveCarries
<1>9. Reading => Len(space.selections) = 1 BY <1>1 DEF MayMove, Steady
<1>10. ASSUME run.at # "idle", NEW f \in Files PROVE Carried(space, place, up, place', up', run.links, run'.links, Opened, f)
  <2>1. CASE Opened = Selections BY <1>1, <1>2, <1>4, <1>5, <1>6, <1>7, <1>10, <2>1, MoveCarries
  <2>2. CASE Opened = {} BY <1>2, <2>2, NoneCarries
  <2>3. QED BY <1>9, <1>10, <2>1, <2>2, OpenedAllOrNone
<1>11. place' \in [Files -> {Root, Sub, Gone} \cup Branches] /\ up' \in {Root} \cup Branches
  BY <1>1, <1>7 DEF DeltaInv, DeltaTyped
<1>12. index' \in [Files -> {"none", "current", "old", "failed"}] BY <1>1 DEF DeltaInv, DeltaTyped
<1>13. ~(run.at \in {"delta", "fresh", "checkpoint", "walk"} /\ run.turn > 1)
  <2>1. Len(space.selections) = 1 => ~(run.turn > 1) BY <1>2
  <2>2. QED BY <1>9, <2>1 DEF Reading
<1>14. ASSUME run.at = "apply", NEW f \in run.changes, Wanted(space, place', up', f), run'.read[f] # run.read[f]
       PROVE  HeardOf(space, place', up', run'.links, Selections, f)
  <2>1. f = x BY <1>6, <1>14
  <2>2. PICK j \in Selections : Lies(space, place', up', j, f) BY <1>2, <1>14 DEF Wanted
  <2>3. Holds(space, up, j, folder) BY <1>1, <1>7, <2>1, <2>2 DEF Lies
  <2>4. Got(run'.links, j, f) BY <1>4, <1>6, <1>14, <2>1, <2>3 DEF ToldTo
  <2>5. QED BY <2>2, <2>4 DEF HeardOf, Makes, Tells
<1>15. run.at = "apply" =>
          \A f \in run.changes :
            \/ run'.read[f] = run.read[f]
            \/ /\ run.read[f] = "current" /\ run'.read[f] = "old"
               /\ Wanted(space, place', up', f) => HeardOf(space, place', up', run'.links, Selections, f)
  BY <1>6, <1>14
<1>16. QED BY <1>1, <1>6, <1>8, <1>10, <1>11, <1>12, <1>13, <1>15, DriveStep

LEMMA MoveFolderKeeps ==
  ASSUME DeltaInv, Steady(space), ~FoldersLeave, NEW folder \in {Root} \cup Branches, MoveFolder(folder)
  PROVE  DeltaInv'
<1>1. /\ MayMove /\ (Sharepoint => Scopes(folder) # {}) /\ Notice(Sub, {up, folder}) /\ UNCHANGED <<space, place, index>>
      /\ up' = folder
  BY DEF MoveFolder
<1>2. /\ space \in Spaces /\ Selections = DOMAIN space.selections /\ Selections = 1..Len(space.selections)
      /\ Len(space.selections) \in Nat /\ Len(space.selections) >= 1 /\ run.turn \in Selections
      /\ \A i \in Selections : space.selections[i] \in Branches \cup {RootFiles, All}
  BY Spaced DEF DeltaInv, DeltaTyped
<1>3. PICK H : H = {i \in Selections : Hears(i, {up, folder})} OBVIOUS
<1>4. Root # Sub /\ Sub \notin Branches /\ RootFiles # Sub /\ All # Sub BY MicrosoftAssumption
<1>5. ASSUME NEW i \in Selections, Holds(space, up, i, Sub) \/ Holds(space, folder, i, Sub) PROVE i \in H
  BY <1>2, <1>3, <1>4, <1>5 DEF Hears, Within, Holds
<1>6. space.provider = "sharepoint" => Selections \subseteq H /\ \E i \in Selections : Holds(space, folder, i, Sub)
  <2>1. SUFFICES ASSUME Sharepoint PROVE Selections \subseteq H /\ \E i \in Selections : Holds(space, folder, i, Sub)
    BY DEF Sharepoint
  <2>2. Selections \subseteq H BY <1>3, <2>1 DEF Hears
  <2>3. PICK i \in Selections : Within(i, folder) BY <1>1, <2>1 DEF Scopes
  <2>4. space.selections[i] # RootFiles BY <1>2, <2>1, MicrosoftAssumption DEF Sharepoint
  <2>5. Holds(space, folder, i, Sub) BY <1>4, <2>3, <2>4 DEF Within, Holds
  <2>6. QED BY <2>2, <2>5
<1>7. Sub \notin Files BY MicrosoftAssumption
<1>8. /\ run' = [y \in RunFields |-> run'[y]] /\ run'.at = run.at /\ run'.turn = run.turn
      /\ run'.changes = run.changes /\ run'.removals = run.removals
      /\ run'.snapshot = run.snapshot /\ run'.complete = run.complete
      /\ FeedOK(space, feed') /\ ToldTo(feed, feed', Selections, H, Sub)
      /\ run.at # "idle" => /\ FeedOK(space, run'.links) /\ ToldTo(run.links, run'.links, Selections, H, Sub)
                            /\ \A i \in Selections : run.links[i] = feed[i] => run'.links[i] = feed'[i]
      /\ run.at = "apply" => /\ run'.read \in [run.changes -> {"current", "old", "failed"}]
                             /\ \A g \in run.changes : run'.read[g] = run.read[g]
                                                       \/ (g = Sub /\ run.read[g] = "current" /\ run'.read[g] = "old")
  BY <1>1, <1>3, Reports
<1>9. up \in {Root} \cup Branches BY DEF DeltaInv, DeltaTyped
<1>10. ASSUME NEW f \in Files PROVE Carried(space, place, up, place', up', feed, feed', Selections, f)
  BY <1>1, <1>2, <1>5, <1>6, <1>8, <1>9, MicrosoftAssumption, FolderCarries
<1>11. Reading => Len(space.selections) = 1 BY <1>1 DEF MayMove, Steady
<1>12. ASSUME run.at # "idle", NEW f \in Files PROVE Carried(space, place, up, place', up', run.links, run'.links, Opened, f)
  <2>1. CASE Opened = Selections BY <1>1, <1>2, <1>5, <1>6, <1>8, <1>9, <1>12, <2>1, MicrosoftAssumption, FolderCarries
  <2>2. CASE Opened = {} BY <1>2, <2>2, NoneCarries
  <2>3. QED BY <1>11, <1>12, <2>1, <2>2, OpenedAllOrNone
<1>13. place' \in [Files -> {Root, Sub, Gone} \cup Branches] /\ up' \in {Root} \cup Branches
       /\ index' \in [Files -> {"none", "current", "old", "failed"}]
  BY <1>1 DEF DeltaInv, DeltaTyped
<1>14. ~(run.at \in {"delta", "fresh", "checkpoint", "walk"} /\ run.turn > 1)
  <2>1. Len(space.selections) = 1 => ~(run.turn > 1) BY <1>2
  <2>2. QED BY <1>11, <2>1 DEF Reading
<1>15. run.at = "apply" => \A f \in run.changes : run'.read[f] = run.read[f]
  BY <1>7, <1>8 DEF DeltaInv, DeltaTyped
<1>16. QED BY <1>1, <1>8, <1>10, <1>12, <1>13, <1>14, <1>15, DriveStep

\* Feeds without cursors tell of everything.
LEMMA NewFeedsTell ==
  ASSUME space \in Spaces, NEW F, \A i \in Selections : F[i] = NoCursor, NEW f \in Files
  PROVE  HeardOf(space, place, up, F, Selections, f)
<1>1. Selections = DOMAIN space.selections BY DEF Selections
<1>2. 1 \in Selections
  <2>1. Len(space.selections) \in Nat /\ Len(space.selections) >= 1 /\ Selections = 1..Len(space.selections) BY Spaced
  <2>2. QED BY <2>1
<1>3. \A i \in Selections : Tells(space, place, up, F, i, f) BY DEF Tells, Got
<1>4. CASE Wanted(space, place, up, f) BY <1>1, <1>3, <1>4 DEF Wanted, HeardOf, Makes
<1>5. CASE ~Wanted(space, place, up, f) BY <1>2, <1>3, <1>5 DEF HeardOf, Makes
<1>6. QED BY <1>4, <1>5

LEMMA ReconnectKeeps == ASSUME DeltaInv, Reconnect PROVE DeltaInv'
<1>1. run = Idle /\ feed' = [i \in Selections |-> NoCursor] /\ UNCHANGED <<space, place, up, index, run>> BY DEF Reconnect
<1>2. /\ space \in Spaces /\ Selections = DOMAIN space.selections /\ Selections' = Selections
      /\ \A i \in Selections : feed'[i] = NoCursor
  BY <1>1 DEF DeltaInv, DeltaTyped, Selections
<1>3. run'.at = "idle" BY <1>1 DEF Idle
<1>4. FeedOK(space, feed') BY <1>1, <1>2 DEF FeedOK, NoCursor
<1>5. DeltaTyped' BY <1>1, <1>3, <1>4 DEF DeltaInv, DeltaTyped, Idle, Selections
<1>6. \A f \in Files : HeardOf(space, place, up, feed', Selections, f) BY <1>2, NewFeedsTell
<1>7. FeedCovers' BY <1>1, <1>2, <1>6 DEF FeedCovers, Agree, Uniform
<1>8. QED BY <1>3, <1>5, <1>7 DEF DeltaInv, LinksAgree, DeltaRead, WalkRead, EndCovers

-----------------------------------------------------------------------------
(* The steps of a run.                                                     *)

LEMMA SameDrive ==
  ASSUME UNCHANGED <<space, place, up>>
  PROVE  /\ Selections' = Selections /\ (Sharepoint' <=> Sharepoint)
         /\ \A i, f : InScope(i, f)' <=> InScope(i, f)
         /\ \A f : Selected(f)' <=> Selected(f)
  BY DEF Selections, Sharepoint, InScope, Within, Selected

LEMMA WorkingStep ==
  ASSUME DeltaInv, UNCHANGED <<space, place, up, feed, index>>,
         run' = [x \in RunFields |-> run'[x]], run'.turn \in Selections,
         run'.at \in {"delta", "fresh", "checkpoint", "walk", "force", "read", "apply"},
         FeedOK(space, run'.links), run'.changes \subseteq Files, run'.removals \subseteq Files,
         run'.at = "apply" => run'.read \in [run'.changes -> {"current", "old", "failed"}],
         LinksAgree', DeltaRead', WalkRead', EndCovers'
  PROVE  DeltaInv'
<1>1. Selections' = Selections /\ \A f : Selected(f)' <=> Selected(f) BY SameDrive
<1>2. DeltaTyped' BY <1>1 DEF DeltaInv, DeltaTyped
<1>3. FeedCovers' BY <1>1 DEF DeltaInv, FeedCovers, Due
<1>4. QED BY <1>2, <1>3 DEF DeltaInv

LEMMA StartKeeps == ASSUME DeltaInv, NEW whole \in BOOLEAN, Start(whole) PROVE DeltaInv'
<1>1. run.at = "idle" /\ UNCHANGED <<space, place, up, feed, index>> BY DEF Start
<1>2. /\ space \in Spaces /\ FeedOK(space, feed) /\ Selections' = Selections /\ (Sharepoint' <=> Sharepoint)
      /\ Selections = DOMAIN space.selections
  BY <1>1, SameDrive DEF DeltaInv, DeltaTyped, Selections
<1>3. 1 \in Selections
  <2>1. Len(space.selections) \in Nat /\ Len(space.selections) >= 1 /\ Selections = 1..Len(space.selections) BY <1>2, Spaced
  <2>2. QED BY <2>1
<1>4. PICK walk \in BOOLEAN :
        run' = [Idle EXCEPT !.at = IF walk THEN IF Sharepoint THEN "checkpoint" ELSE "walk" ELSE "delta",
                            !.snapshot = walk, !.complete = walk, !.links = feed]
  BY DEF Start
<1>5. /\ run' = [x \in RunFields |-> run'[x]] /\ run'.turn = 1 /\ run'.changes = {} /\ run'.removals = {}
      /\ run'.at = (IF walk THEN IF Sharepoint THEN "checkpoint" ELSE "walk" ELSE "delta")
      /\ run'.snapshot = walk /\ run'.complete = walk /\ run'.links = feed
  BY <1>4 DEF Idle, RunFields
<1>6. Before' = {} BY <1>5 DEF Before
<1>7. LinksAgree'
  <2>1. CASE run'.at = "walk"
    <3>1. Opened' = Selections /\ ~Sharepoint' BY <1>2, <1>5, <2>1 DEF Opened
    <3>2. Uniform(feed, Selections) /\ \A f \in Files : Agree(space, place, up, feed, Selections, f)
      BY DEF DeltaInv, FeedCovers
    <3>3. QED BY <1>1, <1>2, <1>5, <2>1, <3>1, <3>2 DEF LinksAgree
  <2>2. CASE run'.at \in {"delta", "checkpoint"}
    <3>1. Opened' = {} BY <1>6, <2>2 DEF Opened
    <3>2. QED BY <2>2, <3>1 DEF LinksAgree, Agree
  <2>3. QED BY <1>5, <2>1, <2>2
<1>8. DeltaRead' BY <1>1, <1>2, <1>5, <1>6 DEF DeltaRead
<1>9. WalkRead' BY <1>2, <1>5 DEF WalkRead
<1>10. EndCovers' BY <1>5 DEF EndCovers
<1>11. QED BY <1>1, <1>2, <1>3, <1>5, <1>7, <1>8, <1>9, <1>10, WorkingStep

LEMMA ExpiredKeeps == ASSUME DeltaInv, Expired PROVE DeltaInv'
<1>1. run.at = "delta" /\ UNCHANGED <<space, place, up, feed, index>> BY DEF Expired
<1>2. /\ space \in Spaces /\ FeedOK(space, run.links) /\ Selections' = Selections /\ (Sharepoint' <=> Sharepoint)
  BY <1>1, SameDrive DEF DeltaInv, DeltaTyped
<1>3. 1 \in Selections
  <2>1. Len(space.selections) \in Nat /\ Len(space.selections) >= 1 /\ Selections = 1..Len(space.selections) BY <1>2, Spaced
  <2>2. QED BY <2>1
<1>4. /\ run' = [x \in RunFields |-> run'[x]] /\ run'.turn = 1 /\ run'.changes = {} /\ run'.removals = {}
      /\ run'.at = (IF Sharepoint THEN "checkpoint" ELSE "fresh")
      /\ run'.snapshot = TRUE /\ run'.complete = TRUE /\ run'.links = run.links
  BY DEF Expired, Idle, RunFields
<1>5. Before' = {} BY <1>4 DEF Before
<1>6. Opened' = {} BY <1>4, <1>5 DEF Opened
<1>7. LinksAgree' BY <1>4, <1>6 DEF LinksAgree, Agree
<1>8. DeltaRead' /\ EndCovers' BY <1>4 DEF DeltaRead, EndCovers
<1>9. WalkRead' BY <1>2, <1>4 DEF WalkRead
<1>10. QED BY <1>1, <1>2, <1>3, <1>4, <1>7, <1>8, <1>9, WorkingStep

LEMMA AbortKeeps == ASSUME DeltaInv, Abort PROVE DeltaInv'
<1>1. run' = Idle /\ UNCHANGED <<space, place, up, feed, index>> BY DEF Abort
<1>2. Selections' = Selections /\ space \in Spaces /\ \A f : Selected(f)' <=> Selected(f)
  BY <1>1, SameDrive DEF DeltaInv, DeltaTyped
<1>3. 1 \in Selections
  <2>1. Len(space.selections) \in Nat /\ Len(space.selections) >= 1 /\ Selections = 1..Len(space.selections) BY <1>2, Spaced
  <2>2. QED BY <2>1
<1>4. run'.at = "idle" BY <1>1 DEF Idle
<1>5. DeltaTyped' BY <1>1, <1>2, <1>3 DEF DeltaInv, DeltaTyped, Idle, RunFields
<1>6. FeedCovers' BY <1>1, <1>2 DEF DeltaInv, FeedCovers, Due
<1>7. QED BY <1>4, <1>5, <1>6 DEF DeltaInv, LinksAgree, DeltaRead, WalkRead, EndCovers

\* A selection's new feed tells of nothing: what the others tell of is heard of as before.
LEMMA Cleared ==
  ASSUME NEW s, NEW p, NEW u, NEW F, NEW S, NEW i, NEW f, i \in DOMAIN F, S \subseteq DOMAIN F, i \notin S,
         Agree(s, p, u, F, S, f)
  PROVE  Agree(s, p, u, [F EXCEPT ![i] = {}], S \cup {i}, f)
<1>1. PICK G : G = [F EXCEPT ![i] = {}] OBVIOUS
<1>2. G[i] = {} /\ \A j \in S : G[j] = F[j] BY <1>1
<1>3. \A j \in S : Makes(s, p, u, F, j, f) => Makes(s, p, u, G, j, f) BY <1>2 DEF Makes, Tells, Got, ByFolder
<1>4. Agree(s, p, u, G, S \cup {i}, f) BY <1>2, <1>3 DEF Agree, HeardOf
<1>5. QED BY <1>1, <1>4

LEMMA ClearedOK ==
  ASSUME NEW F, NEW i \in Selections, FeedOK(space, F)
  PROVE  /\ FeedOK(space, [F EXCEPT ![i] = {}])
         /\ [F EXCEPT ![i] = {}][i] # NoCursor
         /\ \A j \in Selections \ {i} : [F EXCEPT ![i] = {}][j] = F[j]
  BY DEF FeedOK, NoCursor, Selections

\* A run that has read all selections has all that is selected and nothing else.
LEMMA WholeCovers ==
  ASSUME UNCHANGED <<space, place, up, feed, index>>,
         run'.at = "force", run'.complete, \A f \in Files : f \in run'.changes <=> Selected(f)
  PROVE  EndCovers'
<1>1. \A f : Selected(f)' <=> Selected(f) BY SameDrive
<1>2. ASSUME NEW f \in Files PROVE ~OutcomeDue(f)' BY <1>1, <1>2 DEF OutcomeDue, Outcome
<1>3. QED BY <1>2 DEF EndCovers

\* The selections of a run: what comes before the next one.
LEMMA Onward ==
  ASSUME DeltaInv
  PROVE  /\ Selections = DOMAIN space.selections /\ run.turn \in Selections /\ 1 \in Selections
         /\ Before \subseteq Selections /\ run.turn \notin Before
         /\ run.turn = Len(space.selections) => Before \cup {run.turn} = Selections
         /\ run.turn # Len(space.selections) => run.turn + 1 \in Selections /\ 1..(run.turn + 1) - 1 = Before \cup {run.turn}
         /\ run.turn + 1 > 1 /\ (run.turn = 1 \/ run.turn > 1) /\ (run.turn = 1 => Before = {}) /\ 1..1 - 1 = {}
<1>1. /\ Selections = DOMAIN space.selections /\ Selections = 1..Len(space.selections) /\ run.turn \in Selections
      /\ Len(space.selections) \in Nat /\ Len(space.selections) >= 1
  BY Spaced DEF DeltaInv, DeltaTyped
<1>2. run.turn \in Nat /\ run.turn >= 1 /\ run.turn <= Len(space.selections) /\ 1 \in Selections BY <1>1
<1>3. Before \subseteq Selections /\ run.turn \notin Before /\ (run.turn = 1 => Before = {}) BY <1>1, <1>2 DEF Before
<1>4. run.turn = Len(space.selections) => Before \cup {run.turn} = Selections BY <1>1, <1>2 DEF Before
<1>5. run.turn # Len(space.selections) => run.turn + 1 \in Selections BY <1>1, <1>2
<1>6. 1..(run.turn + 1) - 1 = Before \cup {run.turn} BY <1>2 DEF Before
<1>7. QED BY <1>1, <1>2, <1>3, <1>4, <1>5, <1>6

LEMMA Turned ==
  ASSUME DeltaInv, NEW next, NEW done, NEW t, t = Turn(next, done)
  PROVE  /\ t = [x \in RunFields |-> t[x]]
         /\ t.changes = run.changes /\ t.removals = run.removals /\ t.links = run.links
         /\ t.snapshot = run.snapshot /\ t.complete = run.complete /\ t.read = run.read
         /\ run.turn = Len(space.selections) => t.turn = 1 /\ t.at = done
         /\ run.turn # Len(space.selections) => t.turn = run.turn + 1 /\ t.at = next
<1>1. run = [x \in RunFields |-> run[x]] BY DEF DeltaInv, DeltaTyped
<1>2. QED BY <1>1 DEF Turn, RunFields

LEMMA FreshKeeps == ASSUME DeltaInv, Fresh PROVE DeltaInv'
<1>1. run.at = "fresh" /\ UNCHANGED <<space, place, up, feed, index>> BY DEF Fresh
<1>2. /\ FeedOK(space, run.links) /\ DOMAIN run.links = Selections /\ run.changes \subseteq Files /\ run.removals \subseteq Files
      /\ Selections' = Selections /\ (Sharepoint' <=> Sharepoint)
      /\ \A i, f : InScope(i, f)' <=> InScope(i, f)
      /\ \A f : Selected(f)' <=> Selected(f)
  BY <1>1, SameDrive DEF DeltaInv, DeltaTyped, FeedOK, Selections
<1>3. /\ Selections = DOMAIN space.selections /\ run.turn \in Selections /\ 1 \in Selections
      /\ Before \subseteq Selections /\ run.turn \notin Before
      /\ run.turn = Len(space.selections) => Before \cup {run.turn} = Selections
      /\ run.turn # Len(space.selections) => run.turn + 1 \in Selections /\ 1..(run.turn + 1) - 1 = Before \cup {run.turn}
      /\ run.turn + 1 > 1 /\ (run.turn = 1 \/ run.turn > 1) /\ (run.turn = 1 => Before = {})
  BY Onward
<1>4. PICK L : L = [run.links EXCEPT ![run.turn] = {}] OBVIOUS
<1>5. PICK C : C = run.changes \cup Enumerated(run.turn) OBVIOUS
<1>6. PICK t : t = Turn("fresh", "force") OBVIOUS
<1>7. /\ t = [x \in RunFields |-> t[x]] /\ t.changes = run.changes /\ t.removals = run.removals /\ t.links = run.links
      /\ t.complete = run.complete /\ t.read = run.read
      /\ run.turn = Len(space.selections) => t.turn = 1 /\ t.at = "force"
      /\ run.turn # Len(space.selections) => t.turn = run.turn + 1 /\ t.at = "fresh"
  BY <1>6, Turned
<1>8. run' = [t EXCEPT !.changes = C, !.links = L] BY <1>4, <1>5, <1>6, <1>7 DEF Fresh
<1>9. /\ run' = [x \in RunFields |-> run'[x]] /\ run'.turn = t.turn /\ run'.at = t.at /\ run'.changes = C
      /\ run'.removals = run.removals /\ run'.links = L /\ run'.complete = run.complete
  BY <1>7, <1>8 DEF RunFields
<1>10. FeedOK(space, L) /\ L[run.turn] # NoCursor /\ \A j \in Selections \ {run.turn} : L[j] = run.links[j]
  BY <1>2, <1>3, <1>4, ClearedOK
<1>11. /\ run.complete /\ ~Sharepoint
       /\ run.turn = 1 => run.changes = {} /\ run.removals = {}
       /\ run.turn > 1 => /\ \A f \in run.changes : Selected(f)
                          /\ run.removals = {}
                          /\ \A i \in Before, f \in Files : InScope(i, f) => f \in run.changes
  BY <1>1 DEF DeltaInv, WalkRead
<1>12. /\ \A f \in C : Selected(f)
       /\ run.removals = {}
       /\ \A i \in Before \cup {run.turn}, f \in Files : InScope(i, f) => f \in C
  BY <1>3, <1>5, <1>11 DEF Enumerated, Selected
<1>13. /\ \A f \in Files : Agree(space, place, up, L, Before \cup {run.turn}, f)
       /\ \A i \in Before \cup {run.turn} : L[i] # NoCursor
  <2>1. Opened = Before BY <1>1 DEF Opened
  <2>2. \A f \in Files : Agree(space, place, up, run.links, Before, f) BY <1>1, <2>1 DEF DeltaInv, LinksAgree
  <2>3. \A i \in Before : run.links[i] # NoCursor BY <1>1, <2>1 DEF DeltaInv, LinksAgree
  <2>4. \A f \in Files : Agree(space, place, up, L, Before \cup {run.turn}, f) BY <1>2, <1>3, <1>4, <2>2, Cleared
  <2>5. QED BY <1>3, <1>10, <2>3, <2>4
<1>14. C \subseteq Files BY <1>2, <1>5 DEF Enumerated
<1>15. CASE run.turn # Len(space.selections)
  <2>1. run'.turn = run.turn + 1 /\ run'.at = "fresh" BY <1>7, <1>9, <1>15
  <2>2. Before' = Before \cup {run.turn} BY <1>3, <1>15, <2>1 DEF Before
  <2>3. Opened' = Before \cup {run.turn} BY <2>1, <2>2 DEF Opened
  <2>4. LinksAgree' BY <1>1, <1>9, <1>13, <2>1, <2>3 DEF LinksAgree
  <2>5. WalkRead'
    <3>1. \A f \in run'.changes : Selected(f)' BY <1>2, <1>9, <1>12
    <3>2. \A i \in Before', f \in Files : InScope(i, f)' => f \in run'.changes BY <1>2, <1>9, <1>12, <2>2
    <3>3. QED BY <1>2, <1>3, <1>9, <1>11, <1>12, <2>1, <3>1, <3>2 DEF WalkRead
  <2>6. DeltaRead' /\ EndCovers' BY <2>1 DEF DeltaRead, EndCovers
  <2>7. QED BY <1>1, <1>2, <1>3, <1>9, <1>10, <1>14, <1>15, <2>1, <2>4, <2>5, <2>6, WorkingStep
<1>16. CASE run.turn = Len(space.selections)
  <2>1. run'.turn = 1 /\ run'.at = "force" BY <1>7, <1>9, <1>16
  <2>2. Opened' = Before \cup {run.turn} BY <1>2, <1>3, <1>16, <2>1 DEF Opened
  <2>3. Uniform(L, Selections) BY <1>3, <1>13, <1>16 DEF Uniform
  <2>4. LinksAgree' BY <1>1, <1>2, <1>9, <1>13, <2>1, <2>2, <2>3 DEF LinksAgree
  <2>5. DeltaRead' /\ WalkRead' BY <2>1 DEF DeltaRead, WalkRead
  <2>6. \A f \in Files : f \in run'.changes <=> Selected(f) BY <1>3, <1>9, <1>12, <1>16 DEF Selected
  <2>7. EndCovers' BY <1>1, <1>9, <1>11, <2>1, <2>6, WholeCovers
  <2>8. QED BY <1>1, <1>2, <1>3, <1>9, <1>10, <1>14, <2>1, <2>4, <2>5, <2>7, WorkingStep
<1>17. QED BY <1>15, <1>16

LEMMA CheckpointKeeps == ASSUME DeltaInv, Checkpoint PROVE DeltaInv'
<1>1. run.at = "checkpoint" /\ UNCHANGED <<space, place, up, feed, index>> BY DEF Checkpoint
<1>2. /\ FeedOK(space, run.links) /\ DOMAIN run.links = Selections /\ run.changes \subseteq Files /\ run.removals \subseteq Files
      /\ Selections' = Selections /\ (Sharepoint' <=> Sharepoint) /\ run = [x \in RunFields |-> run[x]]
      /\ \A i, f : InScope(i, f)' <=> InScope(i, f)
      /\ \A f : Selected(f)' <=> Selected(f)
  BY <1>1, SameDrive DEF DeltaInv, DeltaTyped, FeedOK, Selections
<1>3. Selections = DOMAIN space.selections /\ run.turn \in Selections /\ Before \subseteq Selections /\ run.turn \notin Before
  BY Onward
<1>4. PICK L : L = [run.links EXCEPT ![run.turn] = {}] OBVIOUS
<1>5. run' = [run EXCEPT !.at = "walk", !.links = L] BY <1>4 DEF Checkpoint
<1>6. /\ run' = [x \in RunFields |-> run'[x]] /\ run'.turn = run.turn /\ run'.at = "walk" /\ run'.changes = run.changes
      /\ run'.removals = run.removals /\ run'.links = L /\ run'.complete = run.complete
  BY <1>2, <1>5 DEF RunFields
<1>7. FeedOK(space, L) /\ L[run.turn] # NoCursor /\ \A j \in Selections \ {run.turn} : L[j] = run.links[j]
  BY <1>2, <1>3, <1>4, ClearedOK
<1>8. Sharepoint BY <1>1 DEF DeltaInv, WalkRead
<1>9. Before' = Before /\ Opened' = Before \cup {run.turn} BY <1>2, <1>6, <1>8 DEF Opened, Before
<1>10. /\ \A f \in Files : Agree(space, place, up, L, Before \cup {run.turn}, f)
       /\ \A i \in Before \cup {run.turn} : L[i] # NoCursor
  <2>1. Opened = Before BY <1>1 DEF Opened
  <2>2. \A f \in Files : Agree(space, place, up, run.links, Before, f) BY <1>1, <2>1 DEF DeltaInv, LinksAgree
  <2>3. \A i \in Before : run.links[i] # NoCursor BY <1>1, <2>1 DEF DeltaInv, LinksAgree
  <2>4. \A f \in Files : Agree(space, place, up, L, Before \cup {run.turn}, f) BY <1>2, <1>3, <1>4, <2>2, Cleared
  <2>5. QED BY <1>3, <1>7, <2>3, <2>4
<1>11. LinksAgree' BY <1>1, <1>2, <1>6, <1>8, <1>9, <1>10 DEF LinksAgree
<1>12. DeltaRead' /\ EndCovers' BY <1>6 DEF DeltaRead, EndCovers
<1>13. WalkRead'
  <2>1. /\ run.complete
        /\ run.turn > 1 =>
             /\ \A f \in run.changes : Selected(f)
             /\ run.removals = {}
             /\ \A i \in Before, f \in Files : InScope(i, f) => f \in run.changes
    BY <1>1 DEF DeltaInv, WalkRead
  <2>2. run.turn > 1 => \A f \in run'.changes : Selected(f)' BY <1>2, <1>6, <2>1
  <2>3. run.turn > 1 => \A i \in Before', f \in Files : InScope(i, f)' => f \in run'.changes BY <1>2, <1>6, <1>9, <2>1
  <2>4. QED BY <1>6, <2>1, <2>2, <2>3 DEF WalkRead
<1>14. QED BY <1>1, <1>2, <1>3, <1>6, <1>7, <1>11, <1>12, <1>13, WorkingStep

LEMMA WalkKeeps == ASSUME DeltaInv, Walk PROVE DeltaInv'
<1>1. run.at = "walk" /\ UNCHANGED <<space, place, up, feed, index>> BY DEF Walk
<1>2. /\ FeedOK(space, run.links) /\ run.changes \subseteq Files
      /\ Selections' = Selections /\ (Sharepoint' <=> Sharepoint)
      /\ \A i, f : InScope(i, f)' <=> InScope(i, f)
      /\ \A f : Selected(f)' <=> Selected(f)
  BY <1>1, SameDrive DEF DeltaInv, DeltaTyped
<1>3. /\ Selections = DOMAIN space.selections /\ run.turn \in Selections /\ 1 \in Selections
      /\ Before \subseteq Selections /\ run.turn \notin Before
      /\ run.turn = Len(space.selections) => Before \cup {run.turn} = Selections
      /\ run.turn # Len(space.selections) => run.turn + 1 \in Selections /\ 1..(run.turn + 1) - 1 = Before \cup {run.turn}
      /\ run.turn + 1 > 1 /\ (run.turn = 1 \/ run.turn > 1) /\ (run.turn = 1 => Before = {})
  BY Onward
<1>4. PICK C : C = Enumerated(run.turn) \cup IF run.turn = 1 THEN {} ELSE run.changes OBVIOUS
<1>5. PICK t : t = Turn(IF Sharepoint THEN "checkpoint" ELSE "walk", "force") OBVIOUS
<1>6. /\ t = [x \in RunFields |-> t[x]] /\ t.links = run.links /\ t.complete = run.complete
      /\ run.turn = Len(space.selections) => t.turn = 1 /\ t.at = "force"
      /\ run.turn # Len(space.selections) => t.turn = run.turn + 1 /\ t.at = IF Sharepoint THEN "checkpoint" ELSE "walk"
  BY <1>5, Turned
<1>7. run' = [t EXCEPT !.changes = C, !.removals = {}] BY <1>4, <1>5 DEF Walk
<1>8. /\ run' = [x \in RunFields |-> run'[x]] /\ run'.turn = t.turn /\ run'.at = t.at /\ run'.changes = C
      /\ run'.removals = {} /\ run'.links = run.links /\ run'.complete = run.complete
  BY <1>6, <1>7 DEF RunFields
<1>9. /\ run.complete
      /\ run.turn > 1 => /\ \A f \in run.changes : Selected(f)
                         /\ \A i \in Before, f \in Files : InScope(i, f) => f \in run.changes
  BY <1>1 DEF DeltaInv, WalkRead
<1>10. /\ \A f \in C : Selected(f)
       /\ \A i \in Before \cup {run.turn}, f \in Files : InScope(i, f) => f \in C
  <2>1. CASE run.turn = 1 BY <1>3, <1>4, <2>1 DEF Enumerated, Selected
  <2>2. CASE run.turn # 1 BY <1>3, <1>4, <1>9, <2>2 DEF Enumerated, Selected
  <2>3. QED BY <2>1, <2>2
<1>11. C \subseteq Files BY <1>2, <1>4 DEF Enumerated
<1>12. /\ \A f \in Files : Agree(space, place, up, run.links, Opened, f)
       /\ Sharepoint => \A i \in Opened : run.links[i] # NoCursor
       /\ ~Sharepoint => Uniform(run.links, Selections)
       /\ Opened = IF Sharepoint THEN Before \cup {run.turn} ELSE Selections
  BY <1>1 DEF DeltaInv, LinksAgree, Opened
<1>13. CASE run.turn # Len(space.selections)
  <2>1. run'.turn = run.turn + 1 /\ run'.at = IF Sharepoint THEN "checkpoint" ELSE "walk" BY <1>6, <1>8, <1>13
  <2>2. Before' = Before \cup {run.turn} BY <1>3, <1>13, <2>1 DEF Before
  <2>3. Opened' = Opened BY <1>2, <1>12, <2>1, <2>2 DEF Opened
  <2>4. LinksAgree' BY <1>1, <1>2, <1>8, <1>12, <2>1, <2>3 DEF LinksAgree
  <2>5. WalkRead'
    <3>1. \A f \in run'.changes : Selected(f)' BY <1>2, <1>8, <1>10
    <3>2. \A i \in Before', f \in Files : InScope(i, f)' => f \in run'.changes BY <1>2, <1>8, <1>10, <2>2
    <3>3. QED BY <1>2, <1>3, <1>8, <1>9, <2>1, <3>1, <3>2 DEF WalkRead
  <2>6. DeltaRead' /\ EndCovers' BY <2>1 DEF DeltaRead, EndCovers
  <2>7. QED BY <1>1, <1>2, <1>3, <1>8, <1>11, <1>13, <2>1, <2>4, <2>5, <2>6, WorkingStep
<1>14. CASE run.turn = Len(space.selections)
  <2>1. run'.turn = 1 /\ run'.at = "force" BY <1>6, <1>8, <1>14
  <2>2. Opened = Selections BY <1>3, <1>12, <1>14
  <2>3. Opened' = Selections BY <1>2, <2>1 DEF Opened
  <2>4. Uniform(run.links, Selections) BY <1>12, <2>2 DEF Uniform
  <2>5. LinksAgree' BY <1>1, <1>2, <1>8, <1>12, <2>1, <2>2, <2>3, <2>4 DEF LinksAgree
  <2>6. DeltaRead' /\ WalkRead' BY <2>1 DEF DeltaRead, WalkRead
  <2>7. \A f \in Files : f \in run'.changes <=> Selected(f) BY <1>3, <1>8, <1>10, <1>14 DEF Selected
  <2>8. EndCovers' BY <1>1, <1>8, <1>9, <2>1, <2>7, WholeCovers
  <2>9. QED BY <1>1, <1>2, <1>3, <1>8, <1>11, <2>1, <2>5, <2>6, <2>8, WorkingStep
<1>15. QED BY <1>13, <1>14

LEMMA ReadForcedKeeps == ASSUME DeltaInv, ReadForced PROVE DeltaInv'
<1>1. run.at = "force" /\ UNCHANGED <<space, place, up, feed, index>> BY DEF ReadForced
<1>2. /\ FeedOK(space, run.links) /\ run.changes \subseteq Files /\ run.removals \subseteq Files
      /\ Selections' = Selections /\ (Sharepoint' <=> Sharepoint) /\ run.turn \in Selections
      /\ run = [x \in RunFields |-> run[x]]
      /\ \A f : Selected(f)' <=> Selected(f)
  BY <1>1, SameDrive DEF DeltaInv, DeltaTyped
<1>3. PICK wanted : wanted = {f \in Files : index[f] = "failed"} \ (run.changes \cup run.removals) OBVIOUS
<1>4. PICK C : C = run.changes \cup {f \in wanted : Selected(f)} OBVIOUS
<1>5. PICK R : R = run.removals \cup {f \in wanted : ~Selected(f)} OBVIOUS
<1>6. run' = [run EXCEPT !.at = "read", !.changes = C, !.removals = R] BY <1>3, <1>4, <1>5 DEF ReadForced
<1>7. /\ run' = [x \in RunFields |-> run'[x]] /\ run'.turn = run.turn /\ run'.at = "read" /\ run'.changes = C
      /\ run'.removals = R /\ run'.links = run.links /\ run'.complete = run.complete
  BY <1>2, <1>6 DEF RunFields
<1>8. C \subseteq Files /\ R \subseteq Files BY <1>2, <1>3, <1>4, <1>5
<1>9. LinksAgree'
  <2>1. Opened = Selections /\ Opened' = Selections BY <1>1, <1>2, <1>7 DEF Opened
  <2>2. Uniform(run.links, Selections) /\ \A f \in Files : Agree(space, place, up, run.links, Selections, f)
    BY <1>1, <2>1 DEF DeltaInv, LinksAgree
  <2>3. QED BY <1>1, <1>2, <1>7, <2>1, <2>2 DEF LinksAgree
<1>10. ASSUME NEW f \in Files, OutcomeDue(f)' PROVE OutcomeDue(f) /\ Outcome(f)' = Outcome(f)
  <2>1. CASE f \in wanted
    <3>1. CASE Selected(f) BY <1>2, <1>4, <1>7, <1>10, <2>1, <3>1 DEF OutcomeDue, Outcome
    <3>2. CASE ~Selected(f) BY <1>2, <1>3, <1>4, <1>5, <1>7, <1>10, <2>1, <3>2 DEF OutcomeDue, Outcome
    <3>3. QED BY <3>1, <3>2
  <2>2. CASE f \notin wanted
    <3>1. (f \in C <=> f \in run.changes) /\ (f \in R <=> f \in run.removals) BY <1>4, <1>5, <2>2
    <3>2. Outcome(f)' = Outcome(f) BY <1>1, <1>7, <3>1 DEF Outcome
    <3>3. QED BY <1>2, <1>10, <3>2 DEF OutcomeDue
  <2>3. QED BY <2>1, <2>2
<1>11. EndCovers'
  <2>1. \A f \in Files : OutcomeDue(f) => Outcome(f) = "failed" \/ HeardOf(space, place, up, run.links, Selections, f)
    BY <1>1 DEF DeltaInv, EndCovers
  <2>2. QED BY <1>1, <1>2, <1>7, <1>10, <2>1 DEF EndCovers
<1>12. DeltaRead' /\ WalkRead' BY <1>7 DEF DeltaRead, WalkRead
<1>13. QED BY <1>1, <1>2, <1>7, <1>8, <1>9, <1>11, <1>12, WorkingStep

LEMMA ReadChangedKeeps == ASSUME DeltaInv, ReadChanged PROVE DeltaInv'
<1>1. run.at = "read" /\ UNCHANGED <<space, place, up, feed, index>> BY DEF ReadChanged
<1>2. /\ FeedOK(space, run.links) /\ run.changes \subseteq Files /\ run.removals \subseteq Files
      /\ Selections' = Selections /\ (Sharepoint' <=> Sharepoint) /\ run.turn \in Selections
      /\ run = [x \in RunFields |-> run[x]]
      /\ \A f : Selected(f)' <=> Selected(f)
  BY <1>1, SameDrive DEF DeltaInv, DeltaTyped
<1>3. PICK unreadable \in SUBSET run.changes :
        run' = [run EXCEPT !.at = "apply", !.read =
            [f \in run.changes |-> IF place[f] = Gone \/ f \in unreadable THEN "failed" ELSE "current"]]
  BY DEF ReadChanged
<1>4. PICK read : read = [f \in run.changes |-> IF place[f] = Gone \/ f \in unreadable THEN "failed" ELSE "current"] OBVIOUS
<1>5. run' = [run EXCEPT !.at = "apply", !.read = read] BY <1>3, <1>4
<1>6. /\ run' = [x \in RunFields |-> run'[x]] /\ run'.turn = run.turn /\ run'.at = "apply" /\ run'.changes = run.changes
      /\ run'.removals = run.removals /\ run'.links = run.links /\ run'.complete = run.complete /\ run'.read = read
  BY <1>2, <1>5 DEF RunFields
<1>7. read \in [run.changes -> {"current", "failed"}] BY <1>4
<1>8. LinksAgree'
  <2>1. Opened = Selections /\ Opened' = Selections BY <1>1, <1>2, <1>6 DEF Opened
  <2>2. Uniform(run.links, Selections) /\ \A f \in Files : Agree(space, place, up, run.links, Selections, f)
    BY <1>1, <2>1 DEF DeltaInv, LinksAgree
  <2>3. QED BY <1>1, <1>2, <1>6, <2>1, <2>2 DEF LinksAgree
<1>9. ASSUME NEW f \in Files, OutcomeDue(f)', Outcome(f)' # "failed" PROVE OutcomeDue(f) /\ Outcome(f)' = Outcome(f)
  <2>1. Outcome(f)' = Outcome(f)
    <3>1. CASE f \in run.changes BY <1>1, <1>6, <1>7, <1>9, <3>1 DEF Outcome
    <3>2. CASE f \notin run.changes BY <1>1, <1>6, <3>2 DEF Outcome
    <3>3. QED BY <3>1, <3>2
  <2>2. QED BY <1>2, <1>9, <2>1 DEF OutcomeDue
<1>10. EndCovers'
  <2>1. \A f \in Files : OutcomeDue(f) => Outcome(f) = "failed" \/ HeardOf(space, place, up, run.links, Selections, f)
    BY <1>1 DEF DeltaInv, EndCovers
  <2>2. QED BY <1>1, <1>2, <1>6, <1>9, <2>1 DEF EndCovers
<1>11. DeltaRead' /\ WalkRead' BY <1>6 DEF DeltaRead, WalkRead
<1>12. run'.read \in [run'.changes -> {"current", "old", "failed"}] BY <1>6, <1>7
<1>13. QED BY <1>1, <1>2, <1>6, <1>8, <1>10, <1>11, <1>12, WorkingStep

LEMMA ApplyKeeps == ASSUME DeltaInv, Apply PROVE DeltaInv'
<1>1. /\ run.at = "apply" /\ feed' = run.links /\ run' = Idle /\ UNCHANGED <<space, place, up>>
      /\ index' = [f \in Files |->
            IF f \in run.changes THEN run.read[f]
            ELSE IF run.complete \/ f \in run.removals THEN "none"
            ELSE index[f]]
  BY DEF Apply
<1>2. /\ FeedOK(space, run.links) /\ run.read \in [run.changes -> {"current", "old", "failed"}]
      /\ index \in [Files -> {"none", "current", "old", "failed"}] /\ Selections' = Selections
      /\ \A f : Selected(f)' <=> Selected(f)
  BY <1>1, SameDrive DEF DeltaInv, DeltaTyped
<1>3. 1 \in Selections BY Onward
<1>4. run'.at = "idle" BY <1>1 DEF Idle
<1>5. \A f \in Files : index'[f] = Outcome(f) BY <1>1 DEF Outcome
<1>6. index' \in [Files -> {"none", "current", "old", "failed"}] BY <1>1, <1>2
<1>7. DeltaTyped' BY <1>1, <1>2, <1>3, <1>4, <1>6 DEF DeltaInv, DeltaTyped, Idle, RunFields
<1>8. /\ Uniform(run.links, Selections)
      /\ \A f \in Files : Agree(space, place, up, run.links, Selections, f)
      /\ \A f \in Files : OutcomeDue(f) => Outcome(f) = "failed" \/ HeardOf(space, place, up, run.links, Selections, f)
  <2>1. Opened = Selections BY <1>1 DEF Opened
  <2>2. QED BY <1>1, <2>1 DEF DeltaInv, LinksAgree, EndCovers
<1>9. \A f \in Files : Due(f)' => OutcomeDue(f) BY <1>2, <1>5 DEF Due, OutcomeDue
<1>10. FeedCovers' BY <1>1, <1>2, <1>5, <1>8, <1>9 DEF FeedCovers
<1>11. QED BY <1>4, <1>7, <1>10 DEF DeltaInv, LinksAgree, DeltaRead, WalkRead, EndCovers

\* What the feed of selection i has told, when it tells of no folder.
LEMMA FeedRead ==
  ASSUME DeltaInv, NEW i \in Selections, NEW f \in Files, ~Enumerates(i),
         Makes(space, place, up, feed, i, f)
  PROVE  /\ Selected(f) => InScope(i, f) /\ f \in Reported(i)
         /\ ~Selected(f) => f \in Reported(i) \/ \A j \in Selections : feed[j] = NoCursor
<1>1. Selections = DOMAIN space.selections BY DEF Selections
<1>2. /\ Selected(f) <=> Wanted(space, place, up, f)
      /\ InScope(i, f) <=> Lies(space, place, up, i, f)
      /\ Within(i, Sub) <=> Holds(space, up, i, Sub)
  BY <1>1 DEF Selected, Wanted, InScope, Lies, Within, Holds
<1>3. Sub # Gone BY MicrosoftAssumption
<1>4. ~ByFolder(space, place, up, feed, i, f)
  <2>1. SUFFICES ASSUME ByFolder(space, place, up, feed, i, f) PROVE Enumerates(i) OBVIOUS
  <2>2. Sub \in feed[i] /\ space.selections[i] # RootFiles /\ (Sharepoint => Within(i, Sub)) BY <1>2, <2>1 DEF ByFolder, Sharepoint
  <2>3. Sub \in Reported(i) BY <1>3, <2>2 DEF Reported, NoCursor
  <2>4. QED BY <2>2, <2>3 DEF Enumerates
<1>5. f \in feed[i] \/ feed[i] = NoCursor BY <1>4 DEF Makes, Tells, Got
<1>6. Selected(f) => InScope(i, f) BY <1>2 DEF Makes
<1>7. CASE feed[i] = NoCursor
  <2>1. \A j \in Selections : feed[j] = NoCursor BY <1>7 DEF DeltaInv, FeedCovers, Uniform
  <2>2. InScope(i, f) => f \in Reported(i) BY <1>7 DEF Reported
  <2>3. QED BY <1>6, <2>1, <2>2
<1>8. CASE feed[i] # NoCursor BY <1>5, <1>6, <1>8 DEF Reported
<1>9. QED BY <1>7, <1>8

\* What one selection's feed adds.
LEMMA DeltaAdds ==
  ASSUME DeltaInv, Delta
  PROVE  /\ UNCHANGED <<space, place, up, feed, index>> /\ run.at = "delta"
         /\ run' = [x \in RunFields |-> run'[x]]
         /\ run'.links = [run.links EXCEPT ![run.turn] = {}]
         /\ run'.snapshot <=> run.snapshot \/ Enumerates(run.turn)
         /\ run'.complete <=> run'.snapshot \/ \A j \in Selections : feed[j] = NoCursor
         /\ run'.changes = run.changes \cup {f \in Reported(run.turn) \cap Files : InScope(run.turn, f)}
         /\ run'.removals = (run.removals \cup {f \in Reported(run.turn) \cap Files : ~InScope(run.turn, f)}) \ run'.changes
         /\ run.turn = Len(space.selections) =>
              /\ run'.turn = 1
              /\ run'.snapshot => run'.at = IF Sharepoint THEN "checkpoint" ELSE "walk"
              /\ ~run'.snapshot => run'.at = "force"
         /\ run.turn # Len(space.selections) => run'.turn = run.turn + 1 /\ run'.at = "delta"
<1>1. PICK C : C = run.changes \cup {f \in Reported(run.turn) \cap Files : InScope(run.turn, f)} OBVIOUS
<1>2. PICK R : R = run.removals \cup {f \in Reported(run.turn) \cap Files : ~InScope(run.turn, f)} OBVIOUS
<1>3. PICK snapshot \in BOOLEAN : snapshot = (run.snapshot \/ Enumerates(run.turn)) OBVIOUS
<1>4. PICK complete \in BOOLEAN : complete = (snapshot \/ \A j \in Selections : feed[j] = NoCursor) OBVIOUS
<1>5. PICK t : t = Turn("delta", IF snapshot THEN IF Sharepoint THEN "checkpoint" ELSE "walk" ELSE "force") OBVIOUS
<1>6. /\ t = [x \in RunFields |-> t[x]] /\ t.links = run.links
      /\ run.turn = Len(space.selections) =>
           t.turn = 1 /\ t.at = IF snapshot THEN IF Sharepoint THEN "checkpoint" ELSE "walk" ELSE "force"
      /\ run.turn # Len(space.selections) => t.turn = run.turn + 1 /\ t.at = "delta"
  BY <1>5, Turned
<1>7. PICK L : L = [run.links EXCEPT ![run.turn] = {}] OBVIOUS
<1>8. run' = [t EXCEPT !.changes = C, !.removals = R \ C, !.links = L, !.snapshot = snapshot, !.complete = complete]
  BY <1>1, <1>2, <1>3, <1>4, <1>5, <1>6, <1>7 DEF Delta
<1>9. /\ run' = [x \in RunFields |-> run'[x]] /\ run'.turn = t.turn /\ run'.at = t.at /\ run'.changes = C
      /\ run'.removals = R \ C /\ run'.links = L /\ run'.complete = complete /\ run'.snapshot = snapshot
  BY <1>6, <1>8 DEF RunFields
<1>10. UNCHANGED <<space, place, up, feed, index>> /\ run.at = "delta" BY DEF Delta
<1>11. /\ run.turn = Len(space.selections) =>
            /\ run'.turn = 1
            /\ snapshot => run'.at = IF Sharepoint THEN "checkpoint" ELSE "walk"
            /\ ~snapshot => run'.at = "force"
       /\ run.turn # Len(space.selections) => run'.turn = run.turn + 1 /\ run'.at = "delta"
  BY <1>6, <1>9
<1>12. QED BY <1>1, <1>2, <1>3, <1>4, <1>7, <1>9, <1>10, <1>11

LEMMA DeltaKeeps == ASSUME DeltaInv, Delta PROVE DeltaInv'
<1>1. /\ UNCHANGED <<space, place, up, feed, index>> /\ run.at = "delta"
      /\ run' = [x \in RunFields |-> run'[x]]
      /\ run'.links = [run.links EXCEPT ![run.turn] = {}]
      /\ run'.snapshot <=> run.snapshot \/ Enumerates(run.turn)
      /\ run'.complete <=> run'.snapshot \/ \A j \in Selections : feed[j] = NoCursor
      /\ run'.changes = run.changes \cup {f \in Reported(run.turn) \cap Files : InScope(run.turn, f)}
      /\ run'.removals = (run.removals \cup {f \in Reported(run.turn) \cap Files : ~InScope(run.turn, f)}) \ run'.changes
      /\ run.turn = Len(space.selections) =>
           /\ run'.turn = 1
           /\ run'.snapshot => run'.at = IF Sharepoint THEN "checkpoint" ELSE "walk"
           /\ ~run'.snapshot => run'.at = "force"
      /\ run.turn # Len(space.selections) => run'.turn = run.turn + 1 /\ run'.at = "delta"
  BY DeltaAdds
<1>2. /\ FeedOK(space, run.links) /\ DOMAIN run.links = Selections /\ run.changes \subseteq Files /\ run.removals \subseteq Files
      /\ Selections' = Selections /\ (Sharepoint' <=> Sharepoint)
      /\ \A i, f : InScope(i, f)' <=> InScope(i, f)
      /\ \A f : Selected(f)' <=> Selected(f)
  BY <1>1, SameDrive DEF DeltaInv, DeltaTyped, FeedOK, Selections
<1>3. /\ Selections = DOMAIN space.selections /\ run.turn \in Selections /\ 1 \in Selections
      /\ Before \subseteq Selections /\ run.turn \notin Before
      /\ run.turn = Len(space.selections) => Before \cup {run.turn} = Selections
      /\ run.turn # Len(space.selections) => run.turn + 1 \in Selections /\ 1..(run.turn + 1) - 1 = Before \cup {run.turn}
      /\ run.turn + 1 > 1 /\ (run.turn = 1 \/ run.turn > 1) /\ 1..1 - 1 = {}
  BY Onward
<1>4. PICK L : L = [run.links EXCEPT ![run.turn] = {}] OBVIOUS
<1>5. run'.links = L BY <1>1, <1>4
<1>6. FeedOK(space, L) /\ L[run.turn] # NoCursor /\ \A j \in Selections \ {run.turn} : L[j] = run.links[j]
  BY <1>2, <1>3, <1>4, ClearedOK
<1>7. /\ \A j \in Selections \ Before : run.links[j] = feed[j]
      /\ \A f \in run.changes : Selected(f)
      /\ \A f \in run.removals : \E i \in Selections : f \in feed[i]
      /\ run.complete => run.snapshot \/ \A i \in Selections : feed[i] = NoCursor
      /\ ~run.snapshot => \A j \in Before, f \in Files : DoneBy(j, f)
  BY <1>1 DEF DeltaInv, DeltaRead
<1>8. run'.changes \subseteq Files /\ run'.removals \subseteq Files BY <1>1, <1>2
<1>9. \A f \in run'.changes : Selected(f) BY <1>1, <1>3, <1>7 DEF Selected
<1>10. \A f \in run'.removals : \E i \in Selections : f \in feed[i]
  <2>1. ASSUME NEW f \in run'.removals, f \notin run.removals PROVE f \in feed[run.turn]
    <3>1. f \in Reported(run.turn) /\ f \in Files /\ ~InScope(run.turn, f) BY <1>1, <2>1
    <3>2. f # Sub BY <3>1, MicrosoftAssumption
    <3>3. QED BY <3>1, <3>2 DEF Reported
  <2>2. QED BY <1>3, <1>7, <2>1
<1>11. /\ \A f \in Files : Agree(space, place, up, L, Before \cup {run.turn}, f)
       /\ \A i \in Before \cup {run.turn} : L[i] # NoCursor
  <2>1. Opened = Before BY <1>1 DEF Opened
  <2>2. \A f \in Files : Agree(space, place, up, run.links, Before, f) BY <1>1, <2>1 DEF DeltaInv, LinksAgree
  <2>3. \A i \in Before : run.links[i] # NoCursor BY <1>1, <2>1 DEF DeltaInv, LinksAgree
  <2>4. \A f \in Files : Agree(space, place, up, L, Before \cup {run.turn}, f) BY <1>2, <1>3, <1>4, <2>2, Cleared
  <2>5. QED BY <1>3, <1>6, <2>3, <2>4
<1>12. ASSUME ~run'.snapshot, NEW j \in Before \cup {run.turn}, NEW f \in Files, Makes(space, place, up, feed, j, f)
       PROVE  \/ Tells(space, place, up, L, j, f)
              \/ Selected(f) /\ f \in run'.changes
              \/ ~Selected(f) /\ (f \in run'.removals \/ run'.complete)
  <2>1. ~run.snapshot /\ ~Enumerates(run.turn) BY <1>1, <1>12
  <2>2. CASE j \in Before
    <3>1. \/ Tells(space, place, up, run.links, j, f)
          \/ Selected(f) /\ f \in run.changes
          \/ ~Selected(f) /\ (f \in run.removals \/ run.complete)
      BY <1>7, <1>12, <2>1, <2>2 DEF DoneBy
    <3>2. Tells(space, place, up, run.links, j, f) => Tells(space, place, up, L, j, f)
      BY <1>3, <1>6, <2>2 DEF Tells, Got, ByFolder
    <3>3. Selected(f) /\ f \in run.changes => f \in run'.changes BY <1>1
    <3>4. ~Selected(f) /\ f \in run.removals => f \in run'.removals BY <1>1, <1>9
    <3>5. run.complete => run'.complete BY <1>1, <1>7, <2>1
    <3>6. QED BY <3>1, <3>2, <3>3, <3>4, <3>5
  <2>3. CASE j = run.turn
    <3>1. /\ Selected(f) => InScope(j, f) /\ f \in Reported(j)
          /\ ~Selected(f) => f \in Reported(j) \/ \A k \in Selections : feed[k] = NoCursor
      BY <1>3, <1>12, <2>1, <2>3, FeedRead
    <3>2. Selected(f) => f \in run'.changes BY <1>1, <2>3, <3>1
    <3>3. ~Selected(f) /\ f \in Reported(j) => f \in run'.removals
      <4>1. ~Selected(f) => ~InScope(j, f) /\ f \notin run'.changes BY <1>3, <1>9, <2>3 DEF Selected
      <4>2. QED BY <1>1, <2>3, <4>1
    <3>4. QED BY <1>1, <3>1, <3>2, <3>3
  <2>4. QED BY <2>2, <2>3
<1>13. CASE run.turn # Len(space.selections)
  <2>1. run'.turn = run.turn + 1 /\ run'.at = "delta" BY <1>1, <1>13
  <2>2. Before' = Before \cup {run.turn} BY <1>3, <1>13, <2>1 DEF Before
  <2>3. Opened' = Before \cup {run.turn} BY <2>1, <2>2 DEF Opened
  <2>4. LinksAgree' BY <1>1, <1>5, <1>11, <2>1, <2>3 DEF LinksAgree
  <2>5. DeltaRead'
    <3>1. \A j \in Selections' \ Before' : run'.links[j] = feed'[j] BY <1>1, <1>2, <1>5, <1>6, <1>7, <2>2
    <3>2. \A f \in run'.changes : Selected(f)' BY <1>2, <1>9
    <3>3. \A f \in run'.removals : \E i \in Selections' : f \in feed'[i] BY <1>1, <1>2, <1>10
    <3>4. ~run'.snapshot => \A j \in Before', f \in Files : DoneBy(j, f)' BY <1>1, <1>2, <1>5, <1>12, <2>2 DEF DoneBy
    <3>5. run'.turn # 1 BY <1>3, <2>1
    <3>6. QED BY <1>1, <1>2, <3>1, <3>2, <3>3, <3>4, <3>5 DEF DeltaRead
  <2>6. WalkRead' /\ EndCovers' BY <2>1 DEF WalkRead, EndCovers
  <2>7. QED BY <1>1, <1>3, <1>5, <1>6, <1>8, <1>13, <2>1, <2>4, <2>5, <2>6, WorkingStep
<1>14. CASE run.turn = Len(space.selections) /\ run'.snapshot
  <2>1. run'.turn = 1 /\ run'.at = (IF Sharepoint THEN "checkpoint" ELSE "walk") BY <1>1, <1>14
  <2>2. Before' = {} BY <1>3, <2>1 DEF Before
  <2>3. LinksAgree'
    <3>1. CASE Sharepoint
      <4>1. Opened' = {} BY <2>1, <2>2, <3>1 DEF Opened
      <4>2. QED BY <2>1, <3>1, <4>1 DEF LinksAgree, Agree
    <3>2. CASE ~Sharepoint
      <4>1. Opened' = Before \cup {run.turn} BY <1>2, <1>3, <1>14, <2>1, <3>2 DEF Opened
      <4>2. Uniform(L, Selections) BY <1>3, <1>11, <1>14 DEF Uniform
      <4>3. QED BY <1>1, <1>2, <1>5, <1>11, <2>1, <3>2, <4>1, <4>2 DEF LinksAgree
    <3>3. QED BY <3>1, <3>2
  <2>4. WalkRead' BY <1>1, <1>2, <1>14, <2>1 DEF WalkRead
  <2>5. DeltaRead' /\ EndCovers' BY <2>1 DEF DeltaRead, EndCovers
  <2>6. QED BY <1>1, <1>3, <1>5, <1>6, <1>8, <2>1, <2>3, <2>4, <2>5, WorkingStep
<1>15. CASE run.turn = Len(space.selections) /\ ~run'.snapshot
  <2>1. run'.turn = 1 /\ run'.at = "force" BY <1>1, <1>15
  <2>2. Opened' = Selections /\ Before \cup {run.turn} = Selections BY <1>2, <1>3, <1>15, <2>1 DEF Opened
  <2>3. Uniform(L, Selections) BY <1>11, <2>2 DEF Uniform
  <2>4. LinksAgree'
    <3>1. \A f \in Files : Agree(space, place, up, L, Selections, f) BY <1>11, <2>2
    <3>2. \A f \in Files : Agree(space', place', up', run'.links, Opened', f) BY <1>1, <1>5, <2>2, <3>1
    <3>3. Uniform(run'.links, Selections') BY <1>2, <1>5, <2>3
    <3>4. QED BY <2>1, <3>2, <3>3 DEF LinksAgree
  <2>5. DeltaRead' /\ WalkRead' BY <2>1 DEF DeltaRead, WalkRead
  <2>6. \A f : Selected(f) <=> Wanted(space, place, up, f)
    BY <1>3 DEF Selected, Wanted, InScope, Lies, Within, Holds
  <2>7. ASSUME NEW j \in Selections, NEW f \in Files, Makes(space, place, up, feed, j, f),
               Selected(f) => f \notin run'.changes, ~Selected(f) => f \notin run'.removals /\ ~run'.complete
        PROVE  HeardOf(space, place, up, L, Selections, f)
    <3>1. Tells(space, place, up, L, j, f) BY <1>12, <1>15, <2>2, <2>7
    <3>2. QED BY <2>7, <3>1 DEF Makes, HeardOf
  <2>8. ASSUME NEW f \in Files, OutcomeDue(f)' PROVE Outcome(f)' = "failed" \/ HeardOf(space, place, up, L, Selections, f)
    <3>1. CASE f \in run'.changes BY <1>2, <1>9, <2>1, <2>8, <3>1 DEF OutcomeDue, Outcome
    <3>2. CASE f \notin run'.changes /\ run'.complete
      <4>1. Selected(f) BY <1>2, <2>8, <3>2 DEF OutcomeDue, Outcome
      <4>2. PICK j \in Selections : Lies(space, place, up, j, f) BY <1>3, <2>6, <4>1 DEF Wanted
      <4>3. feed[j] = NoCursor BY <1>1, <1>15, <3>2
      <4>4. Makes(space, place, up, feed, j, f) BY <4>2, <4>3 DEF Makes, Tells, Got
      <4>5. QED BY <2>7, <3>2, <4>1, <4>4
    <3>3. CASE f \notin run'.changes /\ f \in run'.removals
      <4>1. Selected(f) BY <1>2, <2>8, <3>3 DEF OutcomeDue, Outcome
      <4>2. \E i \in Selections : f \in feed[i] BY <1>10, <3>3
      <4>3. HeardOf(space, place, up, feed, Selections, f) BY <4>2 DEF DeltaInv, FeedCovers, Agree
      <4>4. PICK j \in Selections : Makes(space, place, up, feed, j, f) BY <4>3 DEF HeardOf
      <4>5. QED BY <2>7, <3>3, <4>1, <4>4
    <3>4. CASE f \notin run'.changes /\ ~run'.complete /\ f \notin run'.removals
      <4>1. Outcome(f)' = index[f] BY <1>1, <3>4 DEF Outcome
      <4>2. Due(f) BY <1>2, <2>8, <4>1 DEF OutcomeDue, Due
      <4>3. index[f] = "failed" \/ HeardOf(space, place, up, feed, Selections, f) BY <4>2 DEF DeltaInv, FeedCovers
      <4>4. ASSUME HeardOf(space, place, up, feed, Selections, f) PROVE HeardOf(space, place, up, L, Selections, f)
        <5>1. PICK j \in Selections : Makes(space, place, up, feed, j, f) BY <4>4 DEF HeardOf
        <5>2. QED BY <2>7, <3>4, <5>1
      <4>5. QED BY <4>1, <4>3, <4>4
    <3>5. QED BY <3>1, <3>2, <3>3, <3>4
  <2>9. EndCovers' BY <1>1, <1>2, <1>5, <2>8 DEF EndCovers
  <2>10. QED BY <1>1, <1>3, <1>5, <1>6, <1>8, <2>1, <2>4, <2>5, <2>9, WorkingStep
<1>16. QED BY <1>13, <1>14, <1>15

-----------------------------------------------------------------------------
(* The invariant.                                                          *)

LEMMA DeltaInit == FeedInit => DeltaInv
<1>1. SUFFICES ASSUME FeedInit PROVE DeltaInv OBVIOUS
<1>2. /\ space \in Spaces /\ feed = [i \in Selections |-> NoCursor] /\ index = [f \in Files |-> "none"] /\ run = Idle
      /\ place \in [Files -> {Root} \cup Branches \cup {Sub}] /\ up \in Branches
      /\ Selections = DOMAIN space.selections
  BY <1>1 DEF FeedInit, Selections
<1>3. 1 \in Selections
  <2>1. Len(space.selections) \in Nat /\ Len(space.selections) >= 1 /\ Selections = 1..Len(space.selections) BY <1>2, Spaced
  <2>2. QED BY <2>1
<1>4. FeedOK(space, feed) BY <1>2 DEF FeedOK, NoCursor
<1>5. run = [x \in RunFields |-> run[x]] /\ run.at = "idle" /\ run.turn = 1 /\ run.changes = {} /\ run.removals = {}
  BY <1>2 DEF Idle, RunFields
<1>6. place \in [Files -> {Root, Sub, Gone} \cup Branches] BY <1>2
<1>7. DeltaTyped BY <1>2, <1>3, <1>4, <1>5, <1>6 DEF DeltaTyped
<1>8. \A f \in Files : HeardOf(space, place, up, feed, Selections, f) BY <1>2, NewFeedsTell
<1>9. FeedCovers BY <1>2, <1>8 DEF FeedCovers, Agree, Uniform
<1>10. QED BY <1>5, <1>7, <1>9 DEF DeltaInv, LinksAgree, DeltaRead, WalkRead, EndCovers

LEMMA DeltaStutters == ASSUME DeltaInv, UNCHANGED feedVars PROVE DeltaInv'
<1>1. UNCHANGED <<space, place, up, feed, index, run>> BY DEF feedVars
<1>2. /\ Selections' = Selections /\ (Sharepoint' <=> Sharepoint)
      /\ \A i, f : InScope(i, f)' <=> InScope(i, f)
      /\ \A f : Selected(f)' <=> Selected(f)
  BY <1>1, SameDrive
<1>3. Before' = Before /\ Opened' = Opened BY <1>1, <1>2 DEF Before, Opened
<1>4. DeltaTyped' BY <1>1, <1>2 DEF DeltaInv, DeltaTyped
<1>5. FeedCovers' BY <1>1, <1>2 DEF DeltaInv, FeedCovers, Due
<1>6. LinksAgree' BY <1>1, <1>2, <1>3 DEF DeltaInv, LinksAgree
<1>7. \A j, f : DoneBy(j, f)' <=> DoneBy(j, f) BY <1>1, <1>2 DEF DoneBy
<1>8. DeltaRead' BY <1>1, <1>2, <1>3, <1>7 DEF DeltaInv, DeltaRead
<1>9. WalkRead' BY <1>1, <1>2, <1>3 DEF DeltaInv, WalkRead
<1>10. EndCovers' BY <1>1, <1>2 DEF DeltaInv, EndCovers, OutcomeDue, Outcome
<1>11. QED BY <1>4, <1>5, <1>6, <1>8, <1>9, <1>10 DEF DeltaInv

LEMMA DeltaStep ==
  ASSUME ~FoldersLeave, \A s \in Spaces : Steady(s), DeltaInv, [FeedNext]_feedVars
  PROVE  DeltaInv'
<1>1. Steady(space) BY DEF DeltaInv, DeltaTyped
<1>2. CASE \E f \in Files : Edit(f) BY <1>1, <1>2, EditKeeps
<1>3. CASE \E f \in Files : \E folder \in {Root, Sub, Gone} \cup Branches : Move(f, folder) BY <1>1, <1>3, MoveKeeps
<1>4. CASE \E folder \in {Root} \cup Branches : MoveFolder(folder) BY <1>1, <1>4, MoveFolderKeeps
<1>5. CASE Reconnect BY <1>5, ReconnectKeeps
<1>6. CASE \E whole \in BOOLEAN : Start(whole) BY <1>6, StartKeeps
<1>7. CASE Delta BY <1>7, DeltaKeeps
<1>8. CASE Expired BY <1>8, ExpiredKeeps
<1>9. CASE Fresh BY <1>9, FreshKeeps
<1>10. CASE Checkpoint BY <1>10, CheckpointKeeps
<1>11. CASE Walk BY <1>11, WalkKeeps
<1>12. CASE ReadForced BY <1>12, ReadForcedKeeps
<1>13. CASE ReadChanged BY <1>13, ReadChangedKeeps
<1>14. CASE Apply BY <1>14, ApplyKeeps
<1>15. CASE Abort BY <1>15, AbortKeeps
<1>16. CASE UNCHANGED feedVars BY <1>16, DeltaStutters
<1>17. QED BY <1>2, <1>3, <1>4, <1>5, <1>6, <1>7, <1>8, <1>9, <1>10, <1>11, <1>12, <1>13, <1>14, <1>15, <1>16 DEF FeedNext

LEMMA DeltaHeard == DeltaInv => DeltaCovers
<1>1. SUFFICES ASSUME DeltaInv, run.at = "idle", NEW f \in Files, Due(f), index[f] # "failed" PROVE Heard(f)
  BY DEF DeltaCovers, Heard
<1>2. Selections = DOMAIN space.selections BY DEF Selections
<1>3. PICK i \in Selections : Makes(space, place, up, feed, i, f) BY <1>1 DEF DeltaInv, FeedCovers, HeardOf
<1>4. /\ Selected(f) <=> Wanted(space, place, up, f)
      /\ InScope(i, f) <=> Lies(space, place, up, i, f)
      /\ Within(i, Sub) <=> Holds(space, up, i, Sub)
  BY <1>2 DEF Selected, Wanted, InScope, Lies, Within, Holds
<1>5. Selected(f) => InScope(i, f) BY <1>3, <1>4 DEF Makes
<1>6. f \in feed[i] \/ feed[i] = NoCursor \/ (Sub \in feed[i] /\ Enumerates(i))
  <2>1. ASSUME ByFolder(space, place, up, feed, i, f) PROVE Sub \in feed[i] /\ Enumerates(i)
    <3>1. Sub \in feed[i] /\ space.selections[i] # RootFiles /\ (Sharepoint => Within(i, Sub))
      BY <1>4, <2>1 DEF ByFolder, Sharepoint
    <3>2. Sub \in Reported(i) BY <3>1, MicrosoftAssumption DEF Reported, NoCursor
    <3>3. QED BY <3>1, <3>2 DEF Enumerates
  <2>2. QED BY <1>3, <2>1 DEF Makes, Tells, Got
<1>7. QED BY <1>5, <1>6 DEF Heard

\* When no folder leaves a SharePoint selection, and the selections of a space do not disturb each
\* other while their feeds are read (one selection, or nothing or only edits meanwhile), a file
\* that is missing, outdated or wrongly kept between two runs is one the next run hears of, after
\* any edits, moves, expired cursors, reconnections and failed runs (onedrive.py:492-597,
\* sharepoint.py:290-395, ingestion/service.py's application of what was read).
THEOREM DeltaCoversAlways ==
  ASSUME ~FoldersLeave, \A s \in Spaces : Steady(s)
  PROVE  FeedSpec => []DeltaCovers
<1>1. FeedInit => DeltaInv BY DeltaInit
<1>2. DeltaInv /\ [FeedNext]_feedVars => DeltaInv' BY DeltaStep
<1>3. DeltaInv => DeltaCovers BY DeltaHeard
<1>4. QED BY <1>1, <1>2, <1>3, PTL DEF FeedSpec
=============================================================================
