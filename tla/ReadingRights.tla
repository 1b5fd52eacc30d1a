----------------------------- MODULE ReadingRights -----------------------------
(***************************************************************************)
(* What one person may read and what was made of it.  Spaces grant whole   *)
(* scopes or a library folder of one source; what is stored of an answer   *)
(* names its documents, its scopes and its library nodes, is hidden at     *)
(* every reading while one of them is out of reach, and is replaced for    *)
(* good by a daily job some time after the loss.                           *)
(*                                                                         *)
(* Time counts half days; the job runs at even instants.  Writing an       *)
(* answer takes less than half a day.                                      *)
(***************************************************************************)
EXTENDS Integers, FiniteSets

CONSTANTS
  AccessSpaces, Scopes, SourceFiles,
  Below,        \* files below the library folder that can be granted
  Items,        \* what is stored: answers, notifications, results, followed queries
  MaxTime,      \* last instant of the clock
  MaxMoves,     \* changes of access and of documents in a behaviour
  MaxMissed,    \* days the job does not run
  Lookback,     \* PURGE_LOOKBACK, in half days
  Nothing

Grace == 2      \* PURGE_GRACE, in half days

\* The job looks back past the days it may have been missed; Nothing is no moment of a loss.
RightsAssumption ==
  /\ MaxTime \in Nat \ {0} /\ MaxMissed \in Nat /\ Lookback \in Nat /\ Lookback > Grace + 1 + 2 * MaxMissed
  /\ Nothing \notin [at : 0..MaxTime,
                     why : {"gain", "person", "scope", "space", "node", "document", "late", "stored", "job"}]

Documents == Scopes \X SourceFiles

VARIABLES
  now,          \* the clock
  jobDone,      \* the job of this instant has run, or has been missed
  live,         \* spaces not archived
  member,       \* spaces the person is in
  been,         \* spaces the person has or has had a row in
  folderGrant,  \* space -> scopes granted
  nodeGrant,    \* spaces that grant the library folder
  nodeThere,    \* the library folder is in the catalog
  copies,       \* documents whose status is not removed
  item,         \* item -> [kind, docs, folders, nodes, hidden] or Nothing
  asking,       \* an answer being written: what it is made of and since when, or Nothing
  removedAt,    \* when the person's rows were removed
  closedAt,     \* when a grant of a scope was revoked or a space archived, with the space
  moves,        \* changes so far
  missed,       \* days missed so far
  since         \* history: item -> [at, why] it has been out of reach, or Nothing

accessVars == <<live, member, been, folderGrant, nodeGrant, nodeThere, copies>>
rightsVars == <<now, jobDone, accessVars, item, asking, removedAt, closedAt, moves, missed, since>>

-----------------------------------------------------------------------------
(* What the person reads                                                   *)

\* SpaceAccess: the spaces, the scopes granted whole, the library folder.
Mine == live \cap member
Folders == UNION {folderGrant[s] : s \in Mine}
NodeGranted == nodeThere /\ Mine \cap nodeGrant # {}

InGrants(d) == NodeGranted /\ d[2] \in Below

\* readable_document_clause: what a question may use.
Usable == {d \in copies : d[1] \in Folders \/ InGrants(d)}

\* Scopes read only in part.
Partial == {d[1] : d \in {e \in copies : InGrants(e)}} \ Folders

HasCopy(x, scopes) == \E c \in copies : c[2] = x /\ c[1] \in scopes

\* A document whose row is there and whose file is in some scope of the person.
ReadableDocuments == {d \in copies : HasCopy(d[2], Folders) \/ InGrants(d)}

\* A file without any copy names no content.
ReadableNodes ==
  {x \in SourceFiles : ~HasCopy(x, Scopes) \/ HasCopy(x, Folders) \/ (NodeGranted /\ x \in Below)}

\* Every source of it is readable.
Visible(p) ==
  /\ p.docs \subseteq ReadableDocuments
  /\ p.folders \subseteq Folders \cup (IF p.docs # {} THEN Partial ELSE {})
  /\ p.nodes \subseteq ReadableNodes

\* A followed query keeps its state while its scope is granted whole and its answer readable.
FollowedKept(p) == p.folders \subseteq Folders /\ p.docs \subseteq ReadableDocuments

Stored(i) == item[i] # Nothing /\ ~item[i].hidden

Upheld(i) == IF item[i].kind = "followed" THEN FollowedKept(item[i]) ELSE Visible(item[i])

OutOfReach == {i \in Items : Stored(i) /\ ~Upheld(i)}

-----------------------------------------------------------------------------
(* Changes of access                                                       *)

\* Items out of reach since this step, and why; those within reach again.
Notes(why) ==
  since' = [i \in Items |->
    IF i \notin OutOfReach' THEN Nothing
    ELSE IF since[i] # Nothing THEN since[i] ELSE [at |-> now, why |-> why]]

\* clear_followed_state_for_lost_access: queries of a scope lost are unfollowed, stale ones wiped.
ClearFollowed ==
  item' = [i \in Items |->
    IF item[i] # Nothing /\ \E p \in {item[i]} : p.kind = "followed" /\ ~FollowedKept(p)'
    THEN Nothing ELSE item[i]]

Moves == moves < MaxMoves /\ moves' = moves + 1 /\ UNCHANGED <<now, jobDone, asking, missed>>

GainSpace(s) ==
  /\ Moves
  /\ s \in live \ member
  /\ member' = member \cup {s} /\ been' = been \cup {s}
  /\ UNCHANGED <<live, folderGrant, nodeGrant, nodeThere, copies, item, removedAt, closedAt>>
  /\ Notes("gain")

LoseSpace(s) ==
  /\ Moves
  /\ s \in live \cap member
  /\ member' = member \ {s}
  /\ removedAt' = removedAt \cup {now}
  /\ UNCHANGED <<live, been, folderGrant, nodeGrant, nodeThere, copies, closedAt>>
  /\ ClearFollowed /\ Notes("person")

GrantFolder(s, f) ==
  /\ Moves
  /\ s \in live /\ f \notin folderGrant[s]
  /\ folderGrant' = [folderGrant EXCEPT ![s] = @ \cup {f}]
  /\ UNCHANGED <<live, member, been, nodeGrant, nodeThere, copies, item, removedAt, closedAt>>
  /\ Notes("gain")

RevokeFolder(s, f) ==
  /\ Moves
  /\ s \in live /\ f \in folderGrant[s]
  /\ folderGrant' = [folderGrant EXCEPT ![s] = @ \ {f}]
  /\ closedAt' = closedAt \cup {<<s, now>>}
  /\ UNCHANGED <<live, member, been, nodeGrant, nodeThere, copies, removedAt>>
  /\ IF s \in member THEN ClearFollowed ELSE UNCHANGED item
  /\ Notes("scope")

GrantNode(s) ==
  /\ Moves
  /\ s \in live \ nodeGrant /\ nodeThere
  /\ nodeGrant' = nodeGrant \cup {s}
  /\ UNCHANGED <<live, member, been, folderGrant, nodeThere, copies, item, removedAt, closedAt>>
  /\ Notes("gain")

RevokeNode(s) ==
  /\ Moves
  /\ s \in live \cap nodeGrant
  /\ nodeGrant' = nodeGrant \ {s}
  /\ UNCHANGED <<live, member, been, folderGrant, nodeThere, copies, removedAt, closedAt>>
  /\ IF s \in member THEN ClearFollowed ELSE UNCHANGED item
  /\ Notes("node")

\* Followed queries stay as they are until the job.
Archive(s) ==
  /\ Moves
  /\ s \in live
  /\ live' = live \ {s}
  /\ closedAt' = closedAt \cup {<<s, now>>}
  /\ UNCHANGED <<member, been, folderGrant, nodeGrant, nodeThere, copies, item, removedAt>>
  /\ Notes("space")

\* Synchronisations index and remove documents and prune the catalog.
Synchronize ==
  /\ Moves
  /\ \/ \E d \in Documents :
          /\ copies' = IF d \in copies THEN copies \ {d} ELSE copies \cup {d}
          /\ UNCHANGED nodeThere
     \/ nodeThere' = ~nodeThere /\ UNCHANGED copies
  /\ UNCHANGED <<live, member, been, folderGrant, nodeGrant, item, removedAt, closedAt>>
  /\ Notes("document")

-----------------------------------------------------------------------------
(* What is stored                                                          *)

Quiet == UNCHANGED <<accessVars, removedAt, closedAt, moves>>

\* answer_provenance, run_provenance, provenance_of_documents, _baseline_readable.
Provenance(kind, docs) ==
  [kind |-> kind, docs |-> docs, hidden |-> FALSE,
   folders |-> CASE kind = "noted" -> {d[1] : d \in docs}
                 [] kind = "followed" -> {d[1] : d \in docs}
                 [] OTHER -> {},
   nodes |-> IF kind = "answer" THEN {d[2] : d \in docs} ELSE {}]

\* A question is asked with the access of now ...
Ask ==
  /\ asking = Nothing /\ \E i \in Items : item[i] = Nothing
  /\ \E docs \in SUBSET Usable, kind \in {"answer", "noted", "followed"} :
       /\ docs # {}
       /\ kind = "followed" => \E f \in Folders : \A d \in docs : d[1] = f
       /\ asking' = [at |-> now, what |-> Provenance(kind, docs)]
  /\ Quiet /\ UNCHANGED <<now, jobDone, item, missed, since>>

\* Losses the job will find, recorded while the answer is written.
LostMeanwhile ==
  {t \in removedAt : t >= asking.at} \cup {c[2] : c \in {e \in closedAt : e[1] \in been /\ e[2] >= asking.at}}

\* ... and its answer stored later, whatever the access has become.
Store ==
  /\ asking # Nothing
  /\ \E i \in Items :
       /\ item[i] = Nothing
       /\ item' = [item EXCEPT ![i] = asking.what]
  /\ asking' = Nothing
  /\ Quiet /\ UNCHANGED <<now, jobDone, missed>>
  /\ Notes(IF LostMeanwhile # {} THEN "late" ELSE "stored")

Discard ==
  /\ asking # Nothing /\ asking' = Nothing
  /\ Quiet /\ UNCHANGED <<now, jobDone, item, missed, since>>

-----------------------------------------------------------------------------
(* The daily job                                                           *)

\* Mutant of InWindow: the losses of the last day only.
InWindowToday(t) == t <= now - Grace /\ t > now - 2 * Grace

InWindow(t) == t <= now - Grace /\ t >= now - Lookback

\* The person lost a place, or a space of the person lost a scope or was archived.
Selected ==
  \/ \E t \in removedAt : InWindow(t)
  \/ \E c \in closedAt : c[1] \in been /\ InWindow(c[2])

Purged(i) == ~Upheld(i)

JobDue == now % 2 = 0 /\ ~jobDone

\* purge_derived_for_user: whatever is hidden is replaced, and followed queries are wiped.
PurgeHiddenDerived ==
  /\ JobDue /\ jobDone' = TRUE
  /\ item' = [i \in Items |->
       IF Selected /\ Stored(i) /\ Purged(i)
       THEN IF item[i].kind = "followed" THEN Nothing ELSE [item[i] EXCEPT !.hidden = TRUE]
       ELSE item[i]]
  /\ Quiet /\ UNCHANGED <<now, asking, missed>>
  /\ Notes("job")

Missed ==
  /\ JobDue /\ jobDone' = TRUE
  /\ missed < MaxMissed /\ missed' = missed + 1
  /\ Quiet /\ UNCHANGED <<now, item, asking, since>>

Tick ==
  /\ now < MaxTime /\ ~JobDue /\ (asking # Nothing => asking.at = now)
  /\ now' = now + 1 /\ jobDone' = FALSE
  /\ Quiet /\ UNCHANGED <<item, asking, missed, since>>

-----------------------------------------------------------------------------

RightsInit ==
  /\ now = 1 /\ jobDone = FALSE
  /\ live = AccessSpaces
  /\ member = AccessSpaces /\ been = AccessSpaces
  /\ folderGrant \in [AccessSpaces -> {{}, Scopes}]
  /\ nodeGrant \in {{}, AccessSpaces} /\ nodeThere = TRUE
  /\ copies = Documents
  /\ item = [i \in Items |-> Nothing] /\ asking = Nothing
  /\ removedAt = {} /\ closedAt = {}
  /\ moves = 0 /\ missed = 0
  /\ since = [i \in Items |-> Nothing]

RightsNext ==
  \/ \E s \in AccessSpaces :
       \/ GainSpace(s) \/ LoseSpace(s) \/ GrantNode(s) \/ RevokeNode(s) \/ Archive(s)
       \/ \E f \in Scopes : GrantFolder(s, f) \/ RevokeFolder(s, f)
  \/ Synchronize
  \/ Ask \/ Store \/ Discard
  \/ PurgeHiddenDerived \/ Missed \/ Tick

RightsSpec == RightsInit /\ [][RightsNext]_rightsVars

-----------------------------------------------------------------------------
(* Properties                                                              *)

\* What is replaced a day, or the days the job was missed, after the job could see the loss.
InTime(i) == now <= since[i].at + Grace + 1 + 2 * missed

\* What a loss of a place, a scope or a space put out of reach is replaced at the first job
\* after the grace that is not missed, what was asked before the loss and stored after it too.
\* Nothing is promised of a library folder that is no longer granted: no row the job
\* selects people by tells of it.
ReplacedInTime ==
  \A i \in Items : since[i] # Nothing /\ since[i].why \in {"person", "scope", "space", "late"} => InTime(i)
=============================================================================
