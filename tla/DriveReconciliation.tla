------------------------- MODULE DriveReconciliation -------------------------
(***************************************************************************)
(* What a synchronisation of a Google Drive space brings into the index,   *)
(* while people go on changing the drive and an admin reconnects the       *)
(* source: GoogleDriveDocumentProvider.discover, the batches and the final *)
(* commit of reconcile_workspace_folder, and the connection service.       *)
(*                                                                         *)
(* A cursor is a position in an account's change feed.  It is kept as what *)
(* the feed holds after it: the files with an entry, and whether an entry  *)
(* of a folder (or of anything trashed or removed) is among them.  Content *)
(* is kept as whether it is still that of the drive.  So nothing counts    *)
(* and nothing is bounded.                                                 *)
(*                                                                         *)
(* One space with one selection and one run at a time: module SyncJob      *)
(* shows that a run that lost its job writes nothing, so a lost, retried or*)
(* taken over run is one that stopped (Abort) and another that started.    *)
(***************************************************************************)
EXTENDS Integers, FiniteSets, TLAPS

CONSTANTS
  Files,        \* files of every account
  Accounts,     \* Google accounts an admin may connect
  AccountOf,    \* file -> the account that sees it
  NoAccount,    \* account_email is NULL; credentials are NULL
  NoCursor,     \* encrypted_delta_link is NULL
  NoRun,        \* no job of the space is running
  Kind,         \* kind of the space's selection
  Disconnects   \* whether an admin uses "disconnect", not only "reconnect"

ASSUME DriveReconciliationAssumption ==
  /\ AccountOf \in [Files -> Accounts]
  /\ NoAccount \notin Accounts
  /\ Kind \in {"folder", "root_files"}
  /\ Disconnects \in BOOLEAN

Cursors == [of : Accounts, files : SUBSET Files, folders : BOOLEAN]

\* What a document holds, or what a run downloaded: the drive's present content,
\* an older one, a failure that is tried again, or one that is not
\* (TERMINAL_ERROR_CODES).  Empty and unsupported files count as content.
Content == {"fresh", "stale", "failed", "terminal"}
DocStatus == Content \cup {"none", "removed"}

Stage == {"listing", "scoping", "paging", "forcing", "downloading", "finishing"}

Runs == [stage : Stage, creds : Accounts, old : Cursors \cup {NoCursor}, next : Cursors \cup {NoCursor},
         full : BOOLEAN, refreshed : BOOLEAN, forced : SUBSET Files, view : SUBSET Files, todo : SUBSET Files,
         gone : SUBSET Files, got : [Files -> Content \cup {"none"}]]

ASSUME NothingAssumption == NoCursor \notin Cursors /\ NoRun \notin Runs

VARIABLES
  remote,     \* files in the scope of the selection, in the drive
  email,      \* DataSource.account_email
  creds,      \* the account DataSource.encrypted_credentials opens
  connected,  \* DataSource.status is "connected"
  cursor,     \* WorkspaceFolderSelection.encrypted_delta_link
  doc,        \* file -> Document.index_status and what it holds
  run         \* the run of the space's job, or NoRun

source == <<email, creds, connected>>
vars == <<remote, source, cursor, doc, run>>

FilesOf(a) == {f \in Files : AccountOf[f] = a}

\* A position after everything the feed of the account holds now.
CursorNow(a) == [of |-> a, files |-> {}, folders |-> FALSE]

-----------------------------------------------------------------------------
(* The drive                                                               *)

\* An entry of the account's feed is after every cursor that exists.
Enter(c, a, changed, folder) ==
  IF c = NoCursor \/ c.of # a THEN c
  ELSE [c EXCEPT !.files = @ \cup changed, !.folders = @ \/ folder]

Feed(a, changed, folder) ==
  /\ cursor' = Enter(cursor, a, changed, folder)
  /\ run' = IF run = NoRun THEN run
            ELSE [run EXCEPT !.old = Enter(@, a, changed, folder),
                             !.next = Enter(@, a, changed, folder)]

Aged(content) == IF content = "fresh" THEN "stale" ELSE content

\* The content of a file changes, in or out of scope.
Edit(f) ==
  /\ doc' = [doc EXCEPT ![f] = Aged(@)]
  /\ cursor' = Enter(cursor, AccountOf[f], {f}, FALSE)
  /\ run' = IF run = NoRun THEN run
            ELSE [run EXCEPT !.old = Enter(@, AccountOf[f], {f}, FALSE),
                             !.next = Enter(@, AccountOf[f], {f}, FALSE),
                             !.got[f] = Aged(@)]
  /\ UNCHANGED <<remote, source>>

\* A file is created in the scope, or moved into it or out of it.
MoveFile(f) ==
  /\ remote' = IF f \in remote THEN remote \ {f} ELSE remote \cup {f}
  /\ Feed(AccountOf[f], {f}, FALSE)
  /\ UNCHANGED <<source, doc>>

\* A folder is moved, removed or trashed: the feed has an entry of the folder and
\* none of the files it takes along.  A file trashed or deleted is seen the same
\* way.  No folder moves the files of the root.
MoveFolder(a, moved) ==
  /\ moved \subseteq FilesOf(a)
  /\ Kind = "root_files" => moved \subseteq remote /\ Cardinality(moved) <= 1
  /\ remote' = (remote \ moved) \cup (moved \ remote)
  /\ Feed(a, {}, TRUE)
  /\ UNCHANGED <<source, doc>>

-----------------------------------------------------------------------------
(* A run                                                                   *)

\* Documents a delta reads again although the feed has nothing about them.
ForcedFiles == {f \in Files : doc[f] = "failed"}

HasData == \E f \in Files : doc[f] \notin {"none", "removed"}

NeedsFull(c) == ~HasData \/ c = NoCursor

Nothing == [f \in Files |-> "none"]

\* The job is claimed and the source, the selection and the documents are read.
\* A complete snapshot captures its cursor before it lists anything.  An admin's
\* "full" run (any) is complete as well.
Start(any) ==
  LET full == NeedsFull(cursor) \/ any IN
  /\ run = NoRun /\ connected
  /\ run' = [stage |-> IF full THEN "listing" ELSE "scoping", creds |-> creds,
             old |-> IF full THEN NoCursor ELSE cursor,
             next |-> IF full THEN CursorNow(creds) ELSE NoCursor,
             full |-> full, forced |-> IF full THEN {} ELSE ForcedFiles, view |-> {},
             todo |-> {}, got |-> Nothing, gone |-> {}, refreshed |-> FALSE]
  /\ UNCHANGED <<remote, source, cursor, doc>>

\* The snapshot lists the files in scope.
ListFiles ==
  /\ run # NoRun /\ run.stage = "listing"
  /\ run' = [run EXCEPT !.stage = "downloading",
                        !.todo = remote \cap FilesOf(run.creds)]
  /\ UNCHANGED <<remote, source, cursor, doc>>

\* A delta first reads what decides the scope: the folders, or the root's files.
ListScope ==
  /\ run # NoRun /\ run.stage = "scoping"
  /\ run' = [run EXCEPT !.stage = "paging", !.view = remote \cap FilesOf(run.creds)]
  /\ UNCHANGED <<remote, source, cursor, doc>>

\* in_scope for an entry of the feed: its parents against the folders listed (a
\* folder that moved since has an entry too and the run becomes complete), or its
\* id against the root's files listed.
InScope(f) ==
  IF Kind = "root_files" THEN f \in run.view ELSE f \in remote

\* A complete snapshot instead: cursor first, then the listing.
FallBack(r) == [r EXCEPT !.stage = "listing", !.full = TRUE,
                         !.next = CursorNow(r.creds),
                         !.old = NoCursor, !.view = {}, !.forced = {}]

\* Mutant of NeedsRescan: the entry of a folder is skipped like any other.
NeedsRescanNever(c) == FALSE

\* A changed folder affects descendants the feed does not list.
NeedsRescan(c) == c.folders

\* The changes after the saved cursor, and the cursor that follows them.  The
\* cursor of another account's feed shows nothing of this one.
ReadChanges ==
  LET seen == IF run.old.of = run.creds THEN run.old.files ELSE {}
      inScope == {f \in seen : f \in FilesOf(run.creds) /\ InScope(f)} IN
  /\ run # NoRun /\ run.stage = "paging"
  /\ run' =
       IF run.old.of = run.creds /\ NeedsRescan(run.old) THEN FallBack(run)
       ELSE [run EXCEPT !.stage = "forcing", !.old = NoCursor, !.next = CursorNow(run.creds),
                        !.todo = inScope, !.gone = seen \ inScope]
  /\ UNCHANGED <<remote, source, cursor, doc>>

\* Google rejects the cursor (400 or 410).
CursorInvalid ==
  /\ run # NoRun /\ run.stage = "paging"
  /\ run' = FallBack(run)
  /\ UNCHANGED <<remote, source, cursor, doc>>

\* get_file for a forced file the feed did not list.
ForceFile(f) ==
  /\ run # NoRun /\ run.stage = "forcing" /\ f \in run.forced
  /\ \E inside \in {InScope(f), f \in run.view} :
       LET found == inside /\ f \in remote /\ AccountOf[f] = run.creds
           known == f \in run.todo \cup run.gone IN
       run' = [run EXCEPT !.forced = @ \ {f},
                          !.todo = IF found /\ ~known THEN @ \cup {f} ELSE @,
                          !.gone = IF found \/ known THEN @ ELSE @ \cup {f}]
  /\ UNCHANGED <<remote, source, cursor, doc>>

ForcedDone ==
  /\ run # NoRun /\ run.stage = "forcing" /\ run.forced = {}
  /\ run' = [run EXCEPT !.stage = "downloading", !.view = {}]
  /\ UNCHANGED <<remote, source, cursor, doc>>

\* A file is read and extracted; one that cannot be is an item's failure.
Download(f) ==
  /\ run # NoRun /\ run.stage = "downloading" /\ f \in run.todo
  /\ \E result \in Content \ {"stale"} :
       run' = [run EXCEPT !.todo = @ \ {f}, !.got[f] = result]
  /\ UNCHANGED <<remote, source, cursor, doc>>

\* discover returns; the source must still be connected.
Discovered ==
  /\ run # NoRun /\ run.stage = "downloading" /\ run.todo = {}
  /\ connected
  /\ run' = [run EXCEPT !.stage = "finishing",
                        !.todo = {f \in Files : run.got[f] # "none"}]
  /\ UNCHANGED <<remote, source, cursor, doc>>

\* One batch of documents with their vectors, in one commit.  Files are sorted by
\* an id that means nothing here, so any set may be the next batch.
ApplyBatch(batch) ==
  /\ run # NoRun /\ run.stage = "finishing"
  /\ batch # {} /\ batch \subseteq run.todo
  /\ doc' = [f \in Files |-> IF f \in batch THEN run.got[f] ELSE doc[f]]
  /\ run' = [run EXCEPT !.todo = @ \ batch]
  /\ UNCHANGED <<remote, source, cursor>>

\* Documents the last commit marks removed.
Missing == IF run.full THEN {f \in Files : run.got[f] = "none"} ELSE run.gone

RemovedDoc(f) == IF doc[f] = "none" THEN "none" ELSE "removed"

\* Mutant of CursorToSave: the cursor is asked for at the end.
CursorToSaveNow(r) == CursorNow(r.creds)

CursorToSave(r) == r.next

\* The last commit: removals, "ready", catalog, cursors and refreshed credentials.
Finalize ==
  /\ run # NoRun /\ run.stage = "finishing" /\ run.todo = {}
  /\ connected
  /\ doc' = [f \in Files |-> IF f \in Missing THEN RemovedDoc(f) ELSE doc[f]]
  /\ cursor' = CursorToSave(run)
  /\ creds' = IF run.refreshed THEN run.creds ELSE creds
  /\ run' = NoRun
  /\ UNCHANGED <<remote, email, connected>>

\* An access token expires: _refresh_credentials renews the credentials the run
\* loaded (the locked row does not replace the copy in the session) and saves them.
Refresh ==
  /\ run # NoRun /\ run.stage # "finishing"
  /\ run' = [run EXCEPT !.refreshed = TRUE]
  /\ creds' = run.creds
  /\ UNCHANGED <<remote, email, connected, cursor, doc>>

\* The run stops: an error, a lost worker, a lost job, a source not connected.
Abort ==
  /\ run # NoRun
  /\ run' = NoRun
  /\ UNCHANGED <<remote, source, cursor, doc>>

-----------------------------------------------------------------------------
(* The connection                                                          *)

\* GoogleConnectionService.complete for an existing source: cursors go when the
\* account differs from the one on record.
Connect(a) ==
  /\ creds' = a /\ email' = a /\ connected' = TRUE
  /\ cursor' = IF email # NoAccount /\ email # a THEN NoCursor ELSE cursor
  /\ UNCHANGED <<remote, doc, run>>

\* disconnect forgets the credentials and the account, and keeps the cursors.
Disconnect ==
  /\ Disconnects /\ connected
  /\ creds' = NoAccount /\ email' = NoAccount /\ connected' = FALSE
  /\ UNCHANGED <<remote, cursor, doc, run>>

-----------------------------------------------------------------------------
\* A source was just connected and the space created; or the space is in sync.
Init ==
  /\ email \in Accounts /\ creds = email /\ connected = TRUE
  /\ remote \in SUBSET Files
  /\ run = NoRun
  /\ \/ cursor = NoCursor /\ doc = Nothing
     \/ /\ cursor = CursorNow(email)
        /\ doc = [f \in Files |->
                    IF f \in remote \cap FilesOf(email) THEN "fresh" ELSE "none"]

RemoteStep ==
  \/ \E f \in Files : Edit(f) \/ MoveFile(f)
  \/ \E a \in Accounts, moved \in SUBSET Files : MoveFolder(a, moved)

RunStep ==
  \/ Start(FALSE)
  \/ ListFiles \/ ListScope \/ ReadChanges \/ ForcedDone \/ Discovered \/ Finalize
  \/ \E f \in Files : ForceFile(f) \/ Download(f)
  \/ \E batch \in SUBSET Files : ApplyBatch(batch)

Next ==
  \/ RemoteStep
  \/ RunStep
  \/ Start(TRUE) \/ CursorInvalid \/ Refresh \/ Abort
  \/ \E a \in Accounts : Connect(a)
  \/ Disconnect

Spec == Init /\ [][Next]_vars

\* The scheduler starts a run and a worker goes on with it.
FairSpec == Spec /\ WF_vars(RunStep)

-----------------------------------------------------------------------------
(* Properties                                                              *)

\* The state has its type.
TypeOK ==
  /\ remote \subseteq Files
  /\ email \in Accounts \cup {NoAccount}
  /\ creds \in Accounts \cup {NoAccount}
  /\ connected \in BOOLEAN
  /\ cursor \in Cursors \cup {NoCursor}
  /\ doc \in [Files -> DocStatus]
  /\ run \in Runs \cup {NoRun}

\* What the index owes the drive about a file of the account.
Agrees(f, a) ==
  IF f \in remote /\ AccountOf[f] = a
  THEN doc[f] \in {"fresh", "failed", "terminal"}
  ELSE doc[f] \in {"none", "removed"}

\* "Edits during enumeration are picked up next run": whatever changed during the
\* run that saved it, the cursor never moves past a change the index lacks.  A
\* file with no entry after it is indexed with its present content or as a failure,
\* and one that left the scope is gone.
CursorCovers ==
  (cursor # NoCursor /\ ~cursor.folders) =>
    \A f \in Files \ cursor.files :
      Agrees(f, cursor.of)

\* Once nobody changes the drive or the connection and runs stop failing, the index
\* agrees with the drive for good.
CatchesUp ==
  <>[][RunStep]_vars =>
    <>[](\A f \in Files : connected => Agrees(f, creds))

-----------------------------------------------------------------------------
(* The theorem, for every set of files.  A cursor is                       *)
(* covered when each file without an entry after it agrees with the drive. *)
(* The cursor a run will save is never before the one that is saved, and   *)
(* at every stage the run knows enough of each file without an entry after *)
(* it for the index to agree once the run has ended.                       *)
(*                                                                         *)
(* The selection is a folder, and the source stays with one account: of a  *)
(* source that is disconnected and connected with another account, and of  *)
(* the root's files, CursorCovers does not hold.                           *)

OneFolder == Kind = "folder" /\ \A a, b \in Accounts : a = b

Good == {"fresh", "failed", "terminal"}

\* The file has no entry after cursor c, nor a folder that may have taken it along.
Quiet(c, f) == ~c.folders /\ f \notin c.files

\* The document of a file agrees with the drive.
Right(f) == IF f \in remote THEN doc[f] \in Good ELSE doc[f] \in {"none", "removed"}

Covered(c) == c # NoCursor => \A f \in Files : Quiet(c, f) => Right(f)

\* A delta before it reads its changes: its cursor is the one that is saved, and the scope it
\* listed differs from the drive only in files with an entry.
Delta(r) ==
    /\ ~r.full /\ r.old = cursor /\ r.old # NoCursor /\ r.next = NoCursor /\ r.got = Nothing
    /\ r.stage = "paging" => \A f \in Files : Quiet(r.old, f) => (f \in r.view <=> f \in remote)

\* What a run with a cursor to save knows of a file: listed or in scope and to be read, read, gone,
\* or left as it is.
Knows(r, f) ==
    /\ r.stage \in {"forcing", "downloading"} =>
        /\ f \in r.todo => f \in remote /\ r.got[f] = "none"
        /\ r.full /\ f \notin r.todo /\ r.got[f] = "none" => f \notin remote
    /\ r.got[f] # "none" => f \in remote /\ r.got[f] \in Good
    /\ ~r.full => (f \in r.gone => f \notin remote)
    /\ ~r.full /\ f \notin r.gone /\ f \notin r.todo /\ r.got[f] = "none" => Right(f)
    /\ r.stage = "forcing" /\ f \notin r.gone /\ f \notin r.todo => (f \in r.view <=> f \in remote)
    /\ r.stage = "finishing" =>
        /\ f \in r.todo => r.got[f] # "none"
        /\ f \notin r.todo /\ r.got[f] # "none" => doc[f] \in Good
        /\ r.full /\ r.got[f] = "none" => f \notin remote

\* A run once it has the cursor it will save: no entry is after that cursor and not after the saved one.
Capturing(r) ==
    /\ r.next # NoCursor
    /\ cursor # NoCursor => \A f \in Files : Quiet(cursor, f) => Quiet(r.next, f)
    /\ r.stage = "listing" => r.full /\ r.got = Nothing
    /\ r.stage = "forcing" => ~r.full /\ r.got = Nothing
    /\ r.stage = "finishing" => \A f \in r.todo : r.got[f] # "none"
    /\ r.stage # "listing" => \A f \in Files : Quiet(r.next, f) => Knows(r, f)

CursorInv ==
    /\ TypeOK /\ (connected => creds # NoAccount) /\ Covered(cursor)
    /\ run # NoRun => IF run.stage \in {"scoping", "paging"} THEN Delta(run) ELSE Capturing(run)

-----------------------------------------------------------------------------
(* The drive.                                                              *)

\* Cursor d is c with entries after it that concern the files M.
Entered(c, d, M) ==
    /\ d \in Cursors \cup {NoCursor} /\ (d = NoCursor <=> c = NoCursor)
    /\ c # NoCursor => \A f \in Files : Quiet(d, f) <=> Quiet(c, f) /\ f \notin M

\* The cursors of the run, and what it downloaded, with entries that concern the files M.
RunEntered(M) ==
    \E old, next, got :
        /\ run' = [run EXCEPT !.old = old, !.next = next, !.got = got]
        /\ Entered(run.old, old, M) /\ (run.old = cursor => old = cursor') /\ Entered(run.next, next, M)
        /\ got \in [Files -> Content \cup {"none"}]
        /\ \A f \in Files : (got[f] = "none" <=> run.got[f] = "none") /\ (f \in M \/ got[f] = run.got[f])

\* Entries of files concern these, that of a folder any file.
LEMMA FilesEntered ==
    ASSUME OneFolder, NEW a \in Accounts, NEW c \in Cursors \cup {NoCursor}, NEW F \in SUBSET Files
    PROVE  Entered(c, Enter(c, a, F, FALSE), F)
<1>1. CASE c = NoCursor
  BY <1>1 DEF Enter, Entered
<1>2. CASE c # NoCursor
  <2> DEFINE d == Enter(c, a, F, FALSE)
  <2>1. c \in Cursors /\ c.of = a /\ c.files \in SUBSET Files /\ c.folders \in BOOLEAN
    BY <1>2 DEF Cursors, OneFolder
  <2>2. d = [c EXCEPT !.files = c.files \cup F, !.folders = c.folders]
    BY <1>2, <2>1 DEF Enter
  <2> HIDE DEF d
  <2>3. d \in Cursors /\ d.files = c.files \cup F /\ d.folders = c.folders
    BY <2>1, <2>2 DEF Cursors
  <2>4. Entered(c, d, F)
    BY <1>2, <2>1, <2>3, NothingAssumption DEF Entered, Quiet
  <2> QED BY <2>4 DEF d
<1> QED BY <1>1, <1>2

LEMMA FolderEntered ==
    ASSUME OneFolder, NEW a \in Accounts, NEW c \in Cursors \cup {NoCursor}
    PROVE  Entered(c, Enter(c, a, {}, TRUE), Files)
<1>1. CASE c = NoCursor
  BY <1>1 DEF Enter, Entered
<1>2. CASE c # NoCursor
  <2> DEFINE d == Enter(c, a, {}, TRUE)
  <2>1. c \in Cursors /\ c.of = a /\ c.files \in SUBSET Files /\ c.folders \in BOOLEAN
    BY <1>2 DEF Cursors, OneFolder
  <2>2. d = [c EXCEPT !.files = c.files, !.folders = TRUE]
    BY <1>2, <2>1 DEF Enter
  <2> HIDE DEF d
  <2>3. d \in Cursors /\ d.folders = TRUE
    BY <2>1, <2>2 DEF Cursors
  <2>4. Entered(c, d, Files)
    BY <1>2, <2>3, NothingAssumption DEF Entered, Quiet
  <2> QED BY <2>4 DEF d
<1> QED BY <1>1, <1>2

\* A change of the drive whose entry is after every cursor: what was known of the other files stays true.
LEMMA RemoteInv ==
    ASSUME CursorInv, NEW M \in SUBSET Files,
           remote' \subseteq Files, doc' \in [Files -> DocStatus], UNCHANGED source,
           \A f \in Files \ M : (f \in remote' <=> f \in remote) /\ doc'[f] = doc[f],
           Entered(cursor, cursor', M), run = NoRun => run' = NoRun, run # NoRun => RunEntered(M)
    PROVE  CursorInv'
<1>1. TypeOK /\ cursor \in Cursors \cup {NoCursor}
  BY DEF CursorInv, TypeOK
<1>2. ASSUME NEW f \in Files, f \notin M
      PROVE  (f \in remote' <=> f \in remote) /\ doc'[f] = doc[f] /\ (Right(f)' <=> Right(f))
  BY <1>2 DEF Right
<1>3. Covered(cursor)'
  BY <1>2 DEF CursorInv, Covered, Entered
<1>4. (connected => creds # NoAccount)'
  BY DEF CursorInv, source
<1>5. CASE run = NoRun
  <2>1. TypeOK'
    BY <1>1, <1>5 DEF TypeOK, source, Entered
  <2> QED BY <1>3, <1>4, <1>5, <2>1 DEF CursorInv
<1>6. CASE run # NoRun
  <2>1. run \in Runs
    BY <1>1, <1>6 DEF TypeOK
  <2>2. PICK old, next, got :
          /\ run' = [run EXCEPT !.old = old, !.next = next, !.got = got]
          /\ Entered(run.old, old, M) /\ (run.old = cursor => old = cursor') /\ Entered(run.next, next, M)
          /\ got \in [Files -> Content \cup {"none"}]
          /\ \A f \in Files : (got[f] = "none" <=> run.got[f] = "none") /\ (f \in M \/ got[f] = run.got[f])
    BY <1>6 DEF RunEntered
  <2>3. run' \in Runs /\ run'.old = old /\ run'.next = next /\ run'.got = got /\ run'.stage = run.stage
        /\ run'.full = run.full /\ run'.view = run.view /\ run'.todo = run.todo /\ run'.gone = run.gone
    BY <2>1, <2>2 DEF Runs, Entered
  <2>4. TypeOK'
    BY <1>1, <2>3 DEF TypeOK, source, Entered
  <2>5. got = Nothing <=> run.got = Nothing
    <3>1. got \in [Files -> Content \cup {"none"}] /\ run.got \in [Files -> Content \cup {"none"}]
      BY <2>1, <2>2 DEF Runs
    <3> QED BY <2>2, <3>1 DEF Nothing
  <2>6. CASE run.stage \in {"scoping", "paging"}
    <3>1. Delta(run)
      BY <1>6, <2>6 DEF CursorInv
    <3>2. Delta(run)'
      BY <1>2, <2>2, <2>3, <2>5, <3>1 DEF Delta, Entered
    <3> QED BY <1>3, <1>4, <2>3, <2>4, <2>6, <3>2 DEF CursorInv
  <2>7. CASE run.stage \notin {"scoping", "paging"}
    <3>1. Capturing(run)
      BY <1>6, <2>7 DEF CursorInv
    <3>2. ASSUME NEW f \in Files, Quiet(run'.next, f), run.stage # "listing" PROVE Knows(run, f)'
      <4>1. Quiet(run.next, f) /\ f \notin M
        BY <2>2, <2>3, <3>1, <3>2 DEF Entered, Capturing
      <4>2. Knows(run, f) /\ got[f] = run.got[f]
        BY <2>2, <3>1, <3>2, <4>1 DEF Capturing
      <4> QED BY <1>2, <2>3, <4>1, <4>2 DEF Knows
    <3>3. run'.next # NoCursor
      BY <2>2, <2>3, <3>1 DEF Capturing, Entered
    <3>4. ASSUME cursor' # NoCursor, NEW f \in Files, Quiet(cursor', f) PROVE Quiet(run'.next, f)
      <4>1. Quiet(cursor, f) /\ f \notin M
        BY <3>4 DEF Entered
      <4>2. Quiet(run.next, f) /\ run.next # NoCursor
        BY <3>1, <3>4, <4>1 DEF Capturing, Entered
      <4> QED BY <2>2, <2>3, <4>1, <4>2 DEF Entered
    <3>5. ASSUME run'.stage = "finishing", NEW f \in run'.todo PROVE run'.got[f] # "none"
      <4>1. f \in Files /\ f \in run.todo
        BY <2>1, <2>3, <3>5 DEF Runs
      <4> QED BY <2>2, <2>3, <3>1, <3>5, <4>1 DEF Capturing
    <3>6. Capturing(run)'
      BY <2>3, <2>5, <3>1, <3>2, <3>3, <3>4, <3>5 DEF Capturing
    <3> QED BY <1>3, <1>4, <2>3, <2>4, <2>7, <3>6 DEF CursorInv
  <2> QED BY <2>6, <2>7
<1> QED BY <1>5, <1>6

LEMMA EditStep == ASSUME OneFolder, CursorInv, NEW f \in Files, Edit(f) PROVE CursorInv'
<1> DEFINE old == Enter(run.old, AccountOf[f], {f}, FALSE)
           next == Enter(run.next, AccountOf[f], {f}, FALSE)
           got == [run.got EXCEPT ![f] = Aged(run.got[f])]
<1>1. /\ doc' = [doc EXCEPT ![f] = Aged(doc[f])] /\ cursor' = Enter(cursor, AccountOf[f], {f}, FALSE)
      /\ UNCHANGED <<remote, source>>
      /\ run' = IF run = NoRun THEN run ELSE [run EXCEPT !.old = old, !.next = next, !.got[f] = Aged(run.got[f])]
  BY DEF Edit
<1>2. AccountOf[f] \in Accounts /\ cursor \in Cursors \cup {NoCursor} /\ doc \in [Files -> DocStatus] /\ remote \subseteq Files
  BY DriveReconciliationAssumption DEF CursorInv, TypeOK
<1>3. doc' \in [Files -> DocStatus] /\ remote' \subseteq Files
      /\ \A h \in Files \ {f} : (h \in remote' <=> h \in remote) /\ doc'[h] = doc[h]
  BY <1>1, <1>2 DEF Aged, DocStatus, Content
<1>4. Entered(cursor, cursor', {f})
  BY <1>1, <1>2, FilesEntered
<1>5. ASSUME run # NoRun PROVE RunEntered({f})
  <2>1. run \in Runs
    BY <1>5 DEF CursorInv, TypeOK
  <2>2. got \in [Files -> Content \cup {"none"}]
        /\ \A h \in Files : (got[h] = "none" <=> run.got[h] = "none") /\ (h \in {f} \/ got[h] = run.got[h])
    BY <2>1 DEF Aged, Content, Runs
  <2>3. Entered(run.old, old, {f}) /\ Entered(run.next, next, {f})
    BY <1>2, <2>1, FilesEntered DEF Runs
  <2>4. run' = [run EXCEPT !.old = old, !.next = next, !.got = got]
    BY <1>1, <1>5, <2>1 DEF Runs
  <2>5. run.old = cursor => old = cursor'
    BY <1>1
  <2> HIDE DEF old, next, got
  <2> QED BY <2>2, <2>3, <2>4, <2>5 DEF RunEntered
<1> HIDE DEF old, next, got
<1>6. UNCHANGED source /\ (run = NoRun => run' = NoRun)
  BY <1>1
<1> QED BY <1>3, <1>4, <1>5, <1>6, RemoteInv

\* What the feed tells of a move.
LEMMA FeedStep ==
    ASSUME CursorInv, NEW a, NEW F, NEW folder, Feed(a, F, folder), NEW M \in SUBSET Files,
           \A c \in Cursors \cup {NoCursor} : Entered(c, Enter(c, a, F, folder), M),
           remote' \subseteq Files, UNCHANGED <<source, doc>>,
           \A f \in Files \ M : f \in remote' <=> f \in remote
    PROVE  CursorInv'
<1>1. /\ cursor' = Enter(cursor, a, F, folder)
      /\ run' = IF run = NoRun THEN run
                ELSE [run EXCEPT !.old = Enter(run.old, a, F, folder), !.next = Enter(run.next, a, F, folder)]
  BY DEF Feed
<1>2. doc' \in [Files -> DocStatus] /\ cursor \in Cursors \cup {NoCursor} /\ UNCHANGED source
  BY DEF CursorInv, TypeOK
<1>3. Entered(cursor, cursor', M) /\ (run = NoRun => run' = NoRun)
  BY <1>1, <1>2
<1>4. ASSUME run # NoRun PROVE RunEntered(M)
  <2>1. run \in Runs /\ run.got \in [Files -> Content \cup {"none"}]
    BY <1>4 DEF CursorInv, TypeOK, Runs
  <2>2. run' = [run EXCEPT !.old = Enter(run.old, a, F, folder), !.next = Enter(run.next, a, F, folder), !.got = run.got]
    BY <1>1, <1>4, <2>1 DEF Runs
  <2>3. Entered(run.old, Enter(run.old, a, F, folder), M) /\ Entered(run.next, Enter(run.next, a, F, folder), M)
    BY <2>1 DEF Runs
  <2>4. run.old = cursor => Enter(run.old, a, F, folder) = cursor'
    BY <1>1
  <2> QED BY <2>1, <2>2, <2>3, <2>4 DEF RunEntered
<1> QED BY <1>2, <1>3, <1>4, RemoteInv

LEMMA MoveStep ==
    ASSUME OneFolder, CursorInv,
           (\E f \in Files : MoveFile(f)) \/ (\E a \in Accounts, moved \in SUBSET Files : MoveFolder(a, moved))
    PROVE  CursorInv'
<1>1. remote \subseteq Files
  BY DEF CursorInv, TypeOK
<1>2. ASSUME NEW f \in Files, MoveFile(f) PROVE CursorInv'
  <2>1. AccountOf[f] \in Accounts /\ Feed(AccountOf[f], {f}, FALSE) /\ UNCHANGED <<source, doc>>
    BY <1>2, DriveReconciliationAssumption DEF MoveFile
  <2>2. remote' \subseteq Files /\ \A h \in Files \ {f} : h \in remote' <=> h \in remote
    BY <1>1, <1>2 DEF MoveFile
  <2>3. \A c \in Cursors \cup {NoCursor} : Entered(c, Enter(c, AccountOf[f], {f}, FALSE), {f})
    BY <2>1, FilesEntered
  <2> QED BY <2>1, <2>2, <2>3, FeedStep
<1>3. ASSUME NEW a \in Accounts, NEW moved \in SUBSET Files, MoveFolder(a, moved) PROVE CursorInv'
  <2>1. Feed(a, {}, TRUE) /\ UNCHANGED <<source, doc>> /\ remote' \subseteq Files
    BY <1>1, <1>3 DEF MoveFolder
  <2>2. \A c \in Cursors \cup {NoCursor} : Entered(c, Enter(c, a, {}, TRUE), Files)
    BY FolderEntered
  <2> QED BY <2>1, <2>2, FeedStep
<1> QED BY <1>2, <1>3

-----------------------------------------------------------------------------
(* The run.                                                                *)

\* A step of the run that writes nothing.
LEMMA RunInv ==
    ASSUME CursorInv, UNCHANGED <<remote, source, cursor, doc>>, run' \in Runs,
           IF run'.stage \in {"scoping", "paging"} THEN Delta(run)' ELSE Capturing(run)'
    PROVE  CursorInv'
<1>1. TypeOK' /\ (connected => creds # NoAccount)'
  BY DEF CursorInv, TypeOK, source
<1>2. Covered(cursor)'
  BY DEF CursorInv, Covered, Right
<1> QED BY <1>1, <1>2 DEF CursorInv

LEMMA NowType == ASSUME NEW a \in Accounts PROVE CursorNow(a) \in Cursors /\ CursorNow(a) # NoCursor
                                               /\ \A f \in Files : Quiet(CursorNow(a), f)
<1>1. CursorNow(a) \in Cursors
  BY DEF CursorNow, Cursors
<1>2. \A f \in Files : Quiet(CursorNow(a), f)
  BY DEF CursorNow, Quiet
<1> QED BY <1>1, <1>2, NothingAssumption

LEMMA StartStep == ASSUME CursorInv, NEW any \in BOOLEAN, Start(any) PROVE CursorInv'
<1>1. creds \in Accounts /\ cursor \in Cursors \cup {NoCursor} /\ UNCHANGED <<remote, source, cursor, doc>>
  BY DEF Start, CursorInv, TypeOK
<1>2. Nothing \in [Files -> Content \cup {"none"}] /\ ForcedFiles \in SUBSET Files
  BY DEF Nothing, ForcedFiles
<1>3. PICK full \in BOOLEAN :
        /\ full \/ cursor # NoCursor
        /\ run' = [stage |-> IF full THEN "listing" ELSE "scoping", creds |-> creds,
                   old |-> IF full THEN NoCursor ELSE cursor,
                   next |-> IF full THEN CursorNow(creds) ELSE NoCursor,
                   full |-> full, forced |-> IF full THEN {} ELSE ForcedFiles, view |-> {},
                   todo |-> {}, got |-> Nothing, gone |-> {}, refreshed |-> FALSE]
  <2>1. NeedsFull(cursor) \/ any \in BOOLEAN
    BY DEF NeedsFull
  <2>2. cursor = NoCursor => NeedsFull(cursor)
    BY DEF NeedsFull
  <2> QED BY <2>1, <2>2 DEF Start
<1>4. CASE full
  <2>1. run' = [stage |-> "listing", creds |-> creds, old |-> NoCursor, next |-> CursorNow(creds),
                full |-> TRUE, forced |-> {}, view |-> {}, todo |-> {}, got |-> Nothing, gone |-> {}, refreshed |-> FALSE]
    BY <1>3, <1>4
  <2>2. run' \in Runs
    BY <1>1, <1>2, <2>1, NowType DEF Runs, Stage
  <2>3. Capturing(run)'
    BY <1>1, <2>1, NowType DEF Capturing
  <2> QED BY <1>1, <2>1, <2>2, <2>3, RunInv
<1>5. CASE ~full
  <2>1. run' = [stage |-> "scoping", creds |-> creds, old |-> cursor, next |-> NoCursor, full |-> FALSE,
                forced |-> ForcedFiles, view |-> {}, todo |-> {}, got |-> Nothing, gone |-> {}, refreshed |-> FALSE]
    BY <1>3, <1>5
  <2>2. run' \in Runs
    BY <1>1, <1>2, <2>1 DEF Runs, Stage
  <2>3. Delta(run)'
    BY <1>1, <1>3, <1>5, <2>1 DEF Delta, Nothing
  <2> QED BY <1>1, <2>1, <2>2, <2>3, RunInv
<1> QED BY <1>4, <1>5

LEMMA ListFilesStep == ASSUME OneFolder, CursorInv, ListFiles PROVE CursorInv'
<1>1. run \in Runs /\ run.stage = "listing" /\ Capturing(run) /\ remote \subseteq Files /\ UNCHANGED <<remote, source, cursor, doc>>
  BY DEF ListFiles, CursorInv, TypeOK
<1>2. remote \cap FilesOf(run.creds) = remote
  BY <1>1, DriveReconciliationAssumption DEF FilesOf, OneFolder, Runs
<1>3. run' = [run EXCEPT !.stage = "downloading", !.todo = remote]
  BY <1>2 DEF ListFiles
<1>4. run' \in Runs /\ run'.stage = "downloading" /\ run'.todo = remote /\ run'.got = Nothing /\ run'.full
      /\ run'.next = run.next
  BY <1>1, <1>3 DEF Runs, Stage, Capturing
<1>5. ASSUME NEW f \in Files PROVE Knows(run, f)'
  BY <1>1, <1>4 DEF Knows, Nothing
<1>6. Capturing(run)'
  BY <1>1, <1>4, <1>5 DEF Capturing
<1> QED BY <1>1, <1>4, <1>6, RunInv

LEMMA ListScopeStep == ASSUME OneFolder, CursorInv, ListScope PROVE CursorInv'
<1>1. run \in Runs /\ run.stage = "scoping" /\ Delta(run) /\ remote \subseteq Files /\ UNCHANGED <<remote, source, cursor, doc>>
  BY DEF ListScope, CursorInv, TypeOK
<1>2. remote \cap FilesOf(run.creds) = remote
  BY <1>1, DriveReconciliationAssumption DEF FilesOf, OneFolder, Runs
<1>3. run' = [run EXCEPT !.stage = "paging", !.view = remote]
  BY <1>2 DEF ListScope
<1>4. run' \in Runs /\ run'.stage = "paging" /\ run'.view = remote /\ run'.old = run.old /\ run'.next = run.next
      /\ run'.full = run.full /\ run'.got = run.got
  BY <1>1, <1>3 DEF Runs, Stage
<1>5. Delta(run)'
  BY <1>1, <1>4 DEF Delta, Nothing
<1> QED BY <1>1, <1>4, <1>5, RunInv

\* A delta that becomes a complete snapshot.
LEMMA FallBackStep ==
    ASSUME CursorInv, run # NoRun, run.stage = "paging", run' = FallBack(run), UNCHANGED <<remote, source, cursor, doc>>
    PROVE  CursorInv'
<1>1. run \in Runs /\ Delta(run)
  BY DEF CursorInv, TypeOK
<1>2. run' = [run EXCEPT !.stage = "listing", !.full = TRUE, !.next = CursorNow(run.creds),
                        !.old = NoCursor, !.view = {}, !.forced = {}]
  BY DEF FallBack
<1>3. CursorNow(run.creds) \in Cursors /\ CursorNow(run.creds) # NoCursor /\ \A f \in Files : Quiet(CursorNow(run.creds), f)
  BY <1>1, NowType DEF Runs
<1>4. run' \in Runs /\ run'.stage = "listing" /\ run'.next = CursorNow(run.creds) /\ run'.full /\ run'.got = run.got
  BY <1>1, <1>2, <1>3 DEF Runs, Stage
<1>5. Capturing(run)'
  BY <1>1, <1>3, <1>4 DEF Capturing, Delta, Nothing
<1> QED BY <1>4, <1>5, RunInv

LEMMA ReadChangesStep == ASSUME OneFolder, CursorInv, ReadChanges PROVE CursorInv'
<1> DEFINE seen == IF run.old.of = run.creds THEN run.old.files ELSE {}
           inScope == {f \in seen : f \in FilesOf(run.creds) /\ InScope(f)}
<1>1. /\ run \in Runs /\ run.stage = "paging" /\ Delta(run) /\ cursor \in Cursors /\ UNCHANGED <<remote, source, cursor, doc>>
      /\ Covered(cursor)
  BY DEF ReadChanges, CursorInv, TypeOK, Delta
<1>2. run.old = cursor /\ run.old.of = run.creds /\ seen = run.old.files /\ seen \subseteq Files
  BY <1>1 DEF Delta, OneFolder, Cursors, Runs
<1>3. inScope = seen \cap remote
  BY <1>1, <1>2, DriveReconciliationAssumption DEF InScope, OneFolder, FilesOf, Runs
<1>4. CASE NeedsRescan(run.old)
  <2>1. run' = FallBack(run)
    BY <1>2, <1>4 DEF ReadChanges
  <2> QED BY <1>1, <2>1, FallBackStep DEF ReadChanges
<1>5. CASE ~NeedsRescan(run.old)
  <2>1. run' = [run EXCEPT !.stage = "forcing", !.old = NoCursor, !.next = CursorNow(run.creds),
                          !.todo = seen \cap remote, !.gone = seen \ remote]
    <3>1. seen \ inScope = seen \ remote
      BY <1>3
    <3> QED BY <1>2, <1>3, <1>5, <3>1 DEF ReadChanges
  <2> HIDE DEF seen, inScope
  <2>2. CursorNow(run.creds) \in Cursors /\ CursorNow(run.creds) # NoCursor /\ \A f \in Files : Quiet(CursorNow(run.creds), f)
    BY <1>1, NowType DEF Runs
  <2>3. run' \in Runs /\ run'.stage = "forcing" /\ run'.next = CursorNow(run.creds) /\ run'.todo = seen \cap remote
        /\ run'.gone = seen \ remote /\ run'.full = run.full /\ run'.got = run.got /\ run'.view = run.view
    BY <1>1, <1>2, <2>1, <2>2 DEF Runs, Stage
  <2>4. ~run'.full /\ run'.got = Nothing /\ Nothing' = Nothing
    BY <1>1, <2>3 DEF Delta, Nothing
  <2>5. ASSUME NEW f \in Files PROVE Knows(run, f)'
    <3>1. f \notin seen => Quiet(run.old, f)
      BY <1>2, <1>5 DEF NeedsRescan, Quiet
    <3>2. f \notin seen => Right(f) /\ (f \in run.view <=> f \in remote)
      BY <1>1, <1>2, <3>1 DEF Covered, Delta
    <3>3. Right(f)' <=> Right(f)
      BY <1>1 DEF Right
    <3>4. run'.got[f] = "none"
      BY <2>4 DEF Nothing
    <3> QED BY <1>1, <2>3, <2>4, <3>2, <3>3, <3>4 DEF Knows
  <2>6. Capturing(run)'
    BY <2>2, <2>3, <2>4, <2>5 DEF Capturing
  <2> QED BY <1>1, <2>3, <2>6, RunInv
<1> QED BY <1>4, <1>5

LEMMA ForceFileStep == ASSUME OneFolder, CursorInv, NEW f \in Files, ForceFile(f) PROVE CursorInv'
<1>1. run \in Runs /\ run.stage = "forcing" /\ Capturing(run) /\ UNCHANGED <<remote, source, cursor, doc>>
  BY DEF ForceFile, CursorInv, TypeOK
<1>2. PICK todo \in SUBSET Files, gone \in SUBSET Files :
        /\ run' = [run EXCEPT !.forced = run.forced \ {f}, !.todo = todo, !.gone = gone]
        /\ \/ todo = run.todo \cup {f} /\ gone = run.gone /\ f \notin run.gone /\ f \in remote
           \/ todo = run.todo /\ gone = run.gone \cup {f} /\ f \notin run.todo /\ ~ (f \in run.view /\ f \in remote)
           \/ todo = run.todo /\ gone = run.gone
  <2>1. PICK inside \in {InScope(f), f \in run.view} :
          LET found == inside /\ f \in remote /\ AccountOf[f] = run.creds
              known == f \in run.todo \cup run.gone IN
          run' = [run EXCEPT !.forced = run.forced \ {f},
                             !.todo = IF found /\ ~known THEN run.todo \cup {f} ELSE run.todo,
                             !.gone = IF found \/ known THEN run.gone ELSE run.gone \cup {f}]
    BY DEF ForceFile
  <2>2. InScope(f) = (f \in remote) /\ AccountOf[f] = run.creds
    BY <1>1, DriveReconciliationAssumption DEF InScope, OneFolder, Runs
  <2>3. CASE inside
    <3>1. CASE f \in run.todo \cup run.gone
      BY <1>1, <2>1, <3>1 DEF Runs
    <3>2. CASE f \notin run.todo \cup run.gone /\ f \in remote
      BY <1>1, <2>1, <2>2, <2>3, <3>2 DEF Runs
    <3>3. CASE f \notin run.todo \cup run.gone /\ f \notin remote
      BY <1>1, <2>1, <3>3 DEF Runs
    <3> QED BY <3>1, <3>2, <3>3
  <2>4. CASE ~inside
    <3>1. ~ (f \in run.view /\ f \in remote)
      BY <2>1, <2>2, <2>4
    <3>2. CASE f \in run.todo \cup run.gone
      BY <1>1, <2>1, <2>4, <3>2 DEF Runs
    <3>3. CASE f \notin run.todo \cup run.gone
      BY <1>1, <2>1, <2>4, <3>1, <3>3 DEF Runs
    <3> QED BY <3>2, <3>3
  <2> QED BY <2>3, <2>4
<1>3. run' \in Runs /\ run'.stage = "forcing" /\ run'.next = run.next /\ run'.todo = todo /\ run'.gone = gone
      /\ run'.full = run.full /\ run'.got = run.got /\ run'.view = run.view
  BY <1>1, <1>2 DEF Runs
<1>4. ASSUME NEW h \in Files, Quiet(run.next, h) PROVE Knows(run, h)'
  <2>1. Knows(run, h) /\ run.got[h] = "none" /\ ~run.full
    BY <1>1, <1>4 DEF Capturing, Nothing
  <2>2. Right(h)' <=> Right(h)
    BY <1>1 DEF Right
  <2> QED BY <1>1, <1>2, <1>3, <2>1, <2>2 DEF Knows
<1>5. Capturing(run)'
  BY <1>1, <1>3, <1>4 DEF Capturing, Nothing
<1> QED BY <1>1, <1>3, <1>5, RunInv

LEMMA ForcedDoneStep == ASSUME CursorInv, ForcedDone PROVE CursorInv'
<1>1. run \in Runs /\ run.stage = "forcing" /\ Capturing(run) /\ UNCHANGED <<remote, source, cursor, doc>>
  BY DEF ForcedDone, CursorInv, TypeOK
<1>2. run' = [run EXCEPT !.stage = "downloading", !.view = {}]
  BY DEF ForcedDone
<1>3. run' \in Runs /\ run'.stage = "downloading" /\ run'.next = run.next /\ run'.todo = run.todo /\ run'.gone = run.gone
      /\ run'.full = run.full /\ run'.got = run.got
  BY <1>1, <1>2 DEF Runs, Stage
<1>4. ASSUME NEW h \in Files, Quiet(run.next, h) PROVE Knows(run, h)'
  <2>1. Knows(run, h) /\ (Right(h)' <=> Right(h))
    BY <1>1, <1>4 DEF Capturing, Right
  <2> QED BY <1>1, <1>3, <2>1 DEF Knows
<1>5. Capturing(run)'
  BY <1>1, <1>3, <1>4 DEF Capturing
<1> QED BY <1>1, <1>3, <1>5, RunInv

LEMMA DownloadStep == ASSUME CursorInv, NEW f \in Files, Download(f) PROVE CursorInv'
<1>1. run \in Runs /\ run.stage = "downloading" /\ f \in run.todo /\ Capturing(run) /\ UNCHANGED <<remote, source, cursor, doc>>
  BY DEF Download, CursorInv, TypeOK
<1>2. PICK result \in Good : run' = [run EXCEPT !.todo = run.todo \ {f}, !.got[f] = result]
  BY DEF Download, Content, Good
<1> DEFINE got == [run.got EXCEPT ![f] = result]
<1>3. got \in [Files -> Content \cup {"none"}] /\ got[f] = result /\ result # "none"
      /\ \A h \in Files \ {f} : got[h] = run.got[h]
  BY <1>1 DEF Runs, Content, Good
<1>4. run' = [run EXCEPT !.todo = run.todo \ {f}, !.got = got]
  BY <1>1, <1>2 DEF Runs
<1> HIDE DEF got
<1>5. run' \in Runs /\ run'.stage = "downloading" /\ run'.next = run.next /\ run'.todo = run.todo \ {f} /\ run'.gone = run.gone
      /\ run'.full = run.full /\ run'.got = got
  BY <1>1, <1>3, <1>4 DEF Runs
<1>6. ASSUME NEW h \in Files, Quiet(run.next, h) PROVE Knows(run, h)'
  <2>1. Knows(run, h) /\ (Right(h)' <=> Right(h))
    BY <1>1, <1>6 DEF Capturing, Right
  <2> QED BY <1>1, <1>3, <1>5, <2>1 DEF Knows
<1>7. Capturing(run)'
  BY <1>1, <1>5, <1>6 DEF Capturing
<1> QED BY <1>1, <1>5, <1>7, RunInv

LEMMA DiscoveredStep == ASSUME CursorInv, Discovered PROVE CursorInv'
<1>1. run \in Runs /\ run.stage = "downloading" /\ run.todo = {} /\ Capturing(run) /\ UNCHANGED <<remote, source, cursor, doc>>
  BY DEF Discovered, CursorInv, TypeOK
<1> DEFINE read == {f \in Files : run.got[f] # "none"}
<1>2. run' = [run EXCEPT !.stage = "finishing", !.todo = read]
  BY DEF Discovered
<1>3. run' \in Runs /\ run'.stage = "finishing" /\ run'.next = run.next /\ run'.todo = read /\ run'.gone = run.gone
      /\ run'.full = run.full /\ run'.got = run.got
  BY <1>1, <1>2 DEF Runs, Stage
<1>4. ASSUME NEW h \in Files, Quiet(run.next, h) PROVE Knows(run, h)'
  <2>1. Knows(run, h) /\ (Right(h)' <=> Right(h))
    BY <1>1, <1>4 DEF Capturing, Right
  <2> QED BY <1>1, <1>3, <2>1 DEF Knows
<1>5. \A h \in run'.todo : run'.got[h] # "none"
  BY <1>3
<1>6. Capturing(run)'
  BY <1>1, <1>3, <1>4, <1>5 DEF Capturing
<1> QED BY <1>1, <1>3, <1>6, RunInv

LEMMA CursorInvalidStep == ASSUME CursorInv, CursorInvalid PROVE CursorInv'
BY FallBackStep DEF CursorInvalid

\* A batch holds what was read, so what agreed before still does.
LEMMA ApplyBatchStep == ASSUME CursorInv, NEW batch \in SUBSET Files, ApplyBatch(batch) PROVE CursorInv'
<1>1. /\ run \in Runs /\ run.stage = "finishing" /\ Capturing(run) /\ batch \subseteq run.todo /\ TypeOK /\ Covered(cursor)
      /\ UNCHANGED <<remote, source, cursor>> /\ run' = [run EXCEPT !.todo = run.todo \ batch]
      /\ doc' = [f \in Files |-> IF f \in batch THEN run.got[f] ELSE doc[f]]
  BY DEF ApplyBatch, CursorInv, TypeOK
<1>2. run' \in Runs /\ run'.stage = "finishing" /\ run'.next = run.next /\ run'.todo = run.todo \ batch /\ run'.gone = run.gone
      /\ run'.full = run.full /\ run'.got = run.got /\ run' # NoRun
  BY <1>1, NothingAssumption DEF Runs
<1>3. \A f \in batch : run.got[f] # "none" /\ doc'[f] = run.got[f]
  BY <1>1 DEF Capturing
<1>4. \A f \in Files \ batch : doc'[f] = doc[f] /\ (Right(f)' <=> Right(f))
  BY <1>1 DEF Right
<1>5. ASSUME NEW h \in Files, Quiet(run.next, h) PROVE Knows(run, h)' /\ (h \in batch => Right(h)')
  <2>1. Knows(run, h)
    BY <1>1, <1>5 DEF Capturing
  <2>2. h \in batch => Right(h)'
    BY <1>1, <1>3, <2>1 DEF Knows, Right
  <2> QED BY <1>1, <1>2, <1>3, <1>4, <2>1, <2>2 DEF Knows
<1>6. Capturing(run)'
  <2>1. \A f \in run'.todo : run'.got[f] # "none"
    BY <1>1, <1>2 DEF Capturing
  <2> QED BY <1>1, <1>2, <1>5, <2>1 DEF Capturing
<1>7. Covered(cursor)'
  BY <1>1, <1>4, <1>5 DEF Covered, Capturing
<1>8. doc' \in [Files -> DocStatus]
  <2>1. \A f \in Files : run.got[f] \in DocStatus /\ doc[f] \in DocStatus
    BY <1>1 DEF TypeOK, Runs, DocStatus
  <2> QED BY <1>1, <2>1
<1>9. TypeOK'
  BY <1>1, <1>2, <1>8 DEF TypeOK, source
<1> QED BY <1>1, <1>2, <1>6, <1>7, <1>9 DEF CursorInv, source

\* What the run knows, and the removals, make the index agree wherever its cursor has no entry.
LEMMA FinalizeStep == ASSUME CursorInv, Finalize PROVE CursorInv'
<1>1. /\ run \in Runs /\ run.stage = "finishing" /\ run.todo = {} /\ Capturing(run) /\ TypeOK /\ connected
      /\ UNCHANGED <<remote, email, connected>> /\ run' = NoRun /\ cursor' = run.next
      /\ creds' \in {creds, run.creds}
      /\ doc' = [f \in Files |-> IF f \in Missing THEN RemovedDoc(f) ELSE doc[f]]
  BY DEF Finalize, CursorInv, TypeOK, CursorToSave
<1>2. ASSUME NEW f \in Files, Quiet(run.next, f) PROVE Right(f)'
  <2>1. Knows(run, f)
    BY <1>1, <1>2 DEF Capturing
  <2>2. CASE f \in Missing
    <3>1. doc'[f] \in {"none", "removed"}
      BY <1>1, <2>2 DEF RemovedDoc
    <3>2. f \notin remote
      BY <1>1, <2>1, <2>2 DEF Knows, Missing
    <3> QED BY <1>1, <3>1, <3>2 DEF Right
  <2>3. CASE f \notin Missing
    <3>1. doc'[f] = doc[f]
      BY <1>1, <2>3
    <3>2. Right(f)
      BY <1>1, <2>1, <2>3 DEF Knows, Missing, Right
    <3> QED BY <1>1, <3>1, <3>2 DEF Right
  <2> QED BY <2>2, <2>3
<1>3. Covered(cursor)'
  BY <1>1, <1>2 DEF Covered
<1>4. doc' \in [Files -> DocStatus]
  <2>1. \A f \in Files : RemovedDoc(f) \in DocStatus /\ doc[f] \in DocStatus
    BY <1>1 DEF TypeOK, RemovedDoc, DocStatus
  <2> QED BY <1>1, <2>1
<1>5. TypeOK'
  BY <1>1, <1>4 DEF TypeOK, Runs
<1>6. creds' # NoAccount
  BY <1>1, DriveReconciliationAssumption DEF CursorInv, Runs
<1> QED BY <1>1, <1>3, <1>5, <1>6 DEF CursorInv

LEMMA RefreshStep == ASSUME CursorInv, Refresh PROVE CursorInv'
<1>1. /\ run \in Runs /\ run.stage # "finishing" /\ UNCHANGED <<remote, email, connected, cursor, doc>>
      /\ creds' = run.creds /\ run' = [run EXCEPT !.refreshed = TRUE] /\ TypeOK /\ Covered(cursor)
      /\ IF run.stage \in {"scoping", "paging"} THEN Delta(run) ELSE Capturing(run)
  BY DEF Refresh, CursorInv, TypeOK
<1>2. run' \in Runs /\ run'.stage = run.stage /\ run'.next = run.next /\ run'.old = run.old /\ run'.todo = run.todo
      /\ run'.gone = run.gone /\ run'.full = run.full /\ run'.got = run.got /\ run'.view = run.view
  BY <1>1 DEF Runs
<1>3. creds' \in Accounts /\ creds' # NoAccount
  BY <1>1, DriveReconciliationAssumption DEF Runs
<1>4. TypeOK'
  BY <1>1, <1>2, <1>3 DEF TypeOK
<1>5. Covered(cursor)' /\ \A f \in Files : Right(f)' <=> Right(f)
  BY <1>1 DEF Covered, Right
<1>6. CASE run.stage \in {"scoping", "paging"}
  <2>1. Delta(run)'
    BY <1>1, <1>2, <1>6 DEF Delta, Nothing
  <2> QED BY <1>2, <1>3, <1>4, <1>5, <1>6, <2>1 DEF CursorInv
<1>7. CASE run.stage \notin {"scoping", "paging"}
  <2>1. ASSUME NEW f \in Files PROVE Knows(run, f)' <=> Knows(run, f)
    BY <1>1, <1>2, <1>5 DEF Knows
  <2>2. Capturing(run)'
    BY <1>1, <1>2, <1>7, <2>1 DEF Capturing, Nothing
  <2> QED BY <1>2, <1>3, <1>4, <1>5, <1>7, <2>2 DEF CursorInv
<1> QED BY <1>6, <1>7

LEMMA AbortStep == ASSUME CursorInv, Abort PROVE CursorInv'
<1>1. Covered(cursor)'
  BY DEF Abort, CursorInv, Covered, Right
<1> QED BY <1>1 DEF Abort, CursorInv, TypeOK, source

-----------------------------------------------------------------------------
(* The connection and the invariant.                                       *)

\* A step that changes the connection at most.
LEMMA SourceInv ==
    ASSUME CursorInv, UNCHANGED <<remote, cursor, doc, run>>, email' \in Accounts \cup {NoAccount},
           creds' \in Accounts \cup {NoAccount}, connected' \in BOOLEAN, connected' => creds' # NoAccount
    PROVE  CursorInv'
<1>1. TypeOK'
  BY DEF CursorInv, TypeOK
<1>2. Covered(cursor)' /\ \A f \in Files : Right(f)' <=> Right(f)
  BY DEF CursorInv, Covered, Right
<1>3. run # NoRun => (run.stage \in {"scoping", "paging"} => Delta(run)')
  BY DEF CursorInv, Delta, Nothing
<1>4. run # NoRun => (run.stage \notin {"scoping", "paging"} => Capturing(run)')
  <2>1. \A f \in Files : Knows(run, f)' <=> Knows(run, f)
    BY <1>2 DEF Knows
  <2> QED BY <2>1 DEF CursorInv, Capturing, Nothing
<1> QED BY <1>1, <1>2, <1>3, <1>4 DEF CursorInv

LEMMA ConnectStep == ASSUME OneFolder, CursorInv, NEW a \in Accounts, Connect(a) PROVE CursorInv'
<1>1. cursor' = cursor
  BY DEF Connect, OneFolder, CursorInv, TypeOK
<1>2. a # NoAccount
  BY DriveReconciliationAssumption
<1> QED BY <1>1, <1>2, SourceInv DEF Connect

LEMMA DisconnectStep == ASSUME CursorInv, Disconnect PROVE CursorInv'
BY SourceInv DEF Disconnect

LEMMA CursorInvInit == ASSUME OneFolder, Init PROVE CursorInv
<1>1. email \in Accounts /\ creds = email /\ connected = TRUE /\ remote \subseteq Files /\ run = NoRun /\ creds # NoAccount
  BY DriveReconciliationAssumption DEF Init
<1>2. remote \cap FilesOf(email) = remote
  BY <1>1, DriveReconciliationAssumption DEF FilesOf, OneFolder
<1>3. CASE cursor = NoCursor /\ doc = Nothing
  <2>1. doc \in [Files -> DocStatus]
    BY <1>3 DEF Nothing, DocStatus
  <2> QED BY <1>1, <1>3, <2>1 DEF CursorInv, TypeOK, Covered
<1>4. CASE cursor = CursorNow(email) /\ doc = [f \in Files |-> IF f \in remote THEN "fresh" ELSE "none"]
  <2>1. doc \in [Files -> DocStatus] /\ \A f \in Files : Right(f)
    BY <1>4 DEF DocStatus, Content, Right, Good
  <2>2. cursor \in Cursors
    BY <1>1, <1>4, NowType
  <2> QED BY <1>1, <2>1, <2>2 DEF CursorInv, TypeOK, Covered
<1> QED BY <1>1, <1>2, <1>3, <1>4 DEF Init

LEMMA CursorInvStep == ASSUME OneFolder, CursorInv, [Next]_vars PROVE CursorInv'
<1>1. CASE RemoteStep
  BY <1>1, EditStep, MoveStep DEF RemoteStep
<1>2. CASE RunStep
  BY <1>2, StartStep, ListFilesStep, ListScopeStep, ReadChangesStep, ForcedDoneStep, DiscoveredStep, FinalizeStep,
     ForceFileStep, DownloadStep, ApplyBatchStep DEF RunStep
<1>3. CASE Start(TRUE) \/ CursorInvalid \/ Refresh \/ Abort
  BY <1>3, StartStep, CursorInvalidStep, RefreshStep, AbortStep
<1>4. CASE (\E a \in Accounts : Connect(a)) \/ Disconnect
  BY <1>4, ConnectStep, DisconnectStep
<1>5. CASE UNCHANGED vars
  <2>1. UNCHANGED <<remote, source, cursor, doc, run>>
    BY <1>5 DEF vars
  <2> QED BY <2>1, SourceInv DEF CursorInv, TypeOK, source
<1> QED BY <1>1, <1>2, <1>3, <1>4, <1>5 DEF Next

\* The invariant, of any number of files.
THEOREM CursorInvAlways == ASSUME OneFolder PROVE Spec => []CursorInv
<1>1. Init => CursorInv
  BY CursorInvInit
<1>2. CursorInv /\ [Next]_vars => CursorInv'
  BY CursorInvStep
<1> QED BY <1>1, <1>2, PTL DEF Spec

\* A file with no entry after the saved cursor, nor a folder's, agrees with the drive: whatever people
\* changed while the run that saved it listed, downloaded and committed, however often runs stopped half
\* way, fell back to a snapshot or were started again (reconcile_workspace_folder, discover).
THEOREM CursorCoversAlways == ASSUME OneFolder PROVE Spec => []CursorCovers
<1>1. CursorInv => CursorCovers
  <2> SUFFICES ASSUME CursorInv, cursor # NoCursor, ~cursor.folders, NEW f \in Files \ cursor.files
               PROVE  Agrees(f, cursor.of)
    BY DEF CursorCovers
  <2>1. cursor \in Cursors /\ AccountOf[f] = cursor.of
    BY DriveReconciliationAssumption DEF CursorInv, TypeOK, Cursors, OneFolder
  <2>2. Right(f)
    BY DEF CursorInv, Covered, Quiet
  <2> QED BY <2>1, <2>2 DEF Right, Good, Agrees
<1> QED BY <1>1, CursorInvAlways, PTL
=============================================================================
