------------------------------- MODULE Catalog -------------------------------
(***************************************************************************)
(* The Company Library catalog that the spaces of one source share: the    *)
(* file nodes (library_nodes), the documents of every space, the removals  *)
(* an admin made (library_exclusions), and the operations that write them: *)
(* batches and last commits of the spaces' runs, removal of a document,    *)
(* creation and removal of a space.                                        *)
(*                                                                         *)
(* The database runs READ COMMITTED.  An operation that reads and writes   *)
(* over some time is a transaction in steps: it reads what others have     *)
(* committed, and its writes appear when it commits.  A row found as it    *)
(* should be is not written, and so not locked.                            *)
(*                                                                         *)
(* The discovery of a run is one step (module DriveReconciliation has its  *)
(* interleavings); folders and the content of files are left out.          *)
(***************************************************************************)
EXTENDS Integers, FiniteSets

CONSTANTS
  Spaces,       \* workspace folders of one source that may exist
  Files,        \* files of the source
  NoRun,        \* nothing is under way for the space
  MaxRunning    \* runs and removals under way at once

ASSUME CatalogAssumption ==
  /\ MaxRunning \in Nat \ {0}

DocStatus == {"none", "indexed", "failed", "removed"}

VARIABLES
  space,        \* spaces that exist
  inScope,      \* space -> files in its selection, at the source
  pending,      \* space -> files changed after its saved cursor
  hasCursor,    \* space -> it has a saved cursor
  doc,          \* space -> file -> Document.index_status, "none" without a row
  ready,        \* space -> its latest run came to its end
  node,         \* files with a node in the catalog
  excluded,     \* files with a library_exclusions row
  bound,        \* file -> spaces created before its row
  run,          \* space -> what is under way for it
  banned,       \* history: <<space, file>> of removals of a last local copy
  crossed       \* history: files that transactions open at the same time wrote

catalogVars == <<node, excluded, bound, banned>>
sourceVars == <<inScope, pending, hasCursor>>
vars == <<space, sourceVars, doc, ready, catalogVars, run, crossed>>

-----------------------------------------------------------------------------
(* Helpers                                                                 *)

Running == Cardinality({s \in Spaces : run[s] # NoRun})

\* A document that keeps its file in the catalog.
IsLive(status) == status \in {"indexed", "failed"}

\* Files without a live document in any space.
Orphans(d) == {f \in Files : \A s \in Spaces : ~IsLive(d[s][f])}

\* Mutant of Honoured: removals are not looked at.
HonouredNever(s, f) == FALSE

\* filter_excluded_content: a removal binds the spaces that existed when its row
\* was made.
Honoured(s, f) == f \in excluded /\ s \in bound[f]

HasData(s) == \E f \in Files : doc[s][f] \notin {"none", "removed"}

At(s, stage) == run[s] # NoRun /\ run[s].stage = stage

\* What the open transaction of a space writes; a run holds nothing between its own.
Written(s) == IF run[s] = NoRun THEN {} ELSE run[s].write \cup run[s].insert \cup run[s].drop

\* A commit of space s, while transactions that write some of its files are open.
Cross(s, written) ==
  crossed' = crossed \cup {f \in written : \E t \in Spaces \ {s} : f \in Written(t)}

-----------------------------------------------------------------------------
(* The source                                                              *)

\* A file is created, moved or deleted at the source: any spaces may have it now.
Change(f) ==
  \E having \in SUBSET Spaces :
    /\ having # {s \in Spaces : f \in inScope[s]}
    /\ inScope' = [s \in Spaces |-> IF s \in having THEN inScope[s] \cup {f}
                                                    ELSE inScope[s] \ {f}]
    /\ pending' = [s \in Spaces |-> pending[s] \cup {f}]
    /\ run' = [s \in Spaces |->
                 IF run[s] = NoRun THEN NoRun
                 ELSE [run[s] EXCEPT !.since = @ \cup {f}]]
    /\ UNCHANGED <<crossed, space, hasCursor, doc, ready, catalogVars>>

-----------------------------------------------------------------------------
(* Runs                                                                    *)

Idle == [stage |-> "run", full |-> FALSE, found |-> {}, good |-> {}, gone |-> {},
         todo |-> {}, since |-> {}, write |-> {}, insert |-> {}, drop |-> {}]

\* Discovery: everything in scope, or what changed, what failed and the catalog's
\* orphans.  Files whose removal the space honours are left out.
Discover(s, any) ==
  LET full == any \/ ~hasCursor[s] \/ ~HasData(s)
      failed == {f \in Files : doc[s][f] = "failed"}
      asked == pending[s] \cup failed \cup (node \cap Orphans(doc))
      found == {f \in inScope[s] : (full \/ f \in asked) /\ ~Honoured(s, f)} IN
  /\ s \in space /\ run[s] = NoRun /\ Running < MaxRunning
  /\ \E good \in SUBSET found :
       run' = [run EXCEPT ![s] =
         [Idle EXCEPT !.full = full, !.found = found, !.good = good, !.todo = found,
                      !.gone = IF full THEN {} ELSE asked \ inScope[s]]]
  /\ ready' = [ready EXCEPT ![s] = FALSE]
  /\ UNCHANGED <<crossed, space, sourceVars, doc, catalogVars>>

\* apply_reconciliation opens the transaction of a batch: the removals are read
\* again and the documents written; then their vectors are made.
OpenBatch(s, batch) ==
  /\ At(s, "run")
  /\ batch # {} /\ batch \subseteq run[s].todo
  /\ run' = [run EXCEPT ![s].stage = "indexing", ![s].todo = @ \ batch,
                        ![s].write = {f \in batch : ~Honoured(s, f)}]
  /\ UNCHANGED <<crossed, space, sourceVars, doc, ready, catalogVars>>

\* project_successful_sync of the batch: a missing node is inserted.
ProjectBatch(s) ==
  /\ At(s, "indexing")
  /\ run' = [run EXCEPT ![s].stage = "projected",
                        ![s].insert = {f \in run[s].write : ~Honoured(s, f)} \ node]
  /\ UNCHANGED <<crossed, space, sourceVars, doc, ready, catalogVars>>

\* What the batch makes of a document.
Indexed(s, f) == IF f \in run[s].good THEN "indexed" ELSE "failed"

\* The batch commits; a node somebody else inserted meanwhile is a unique violation.
CommitBatch(s) ==
  /\ At(s, "projected") /\ run[s].insert \cap node = {}
  /\ doc' = [doc EXCEPT ![s] =
               [f \in Files |-> IF f \in run[s].write THEN Indexed(s, f) ELSE @[f]]]
  /\ node' = node \cup run[s].insert
  /\ run' = [run EXCEPT ![s].stage = "run", ![s].write = {}, ![s].insert = {}]
  /\ Cross(s, Written(s))
  /\ UNCHANGED <<space, sourceVars, ready, excluded, bound, banned>>

\* Documents the last commit marks removed.
Lost(s, current) ==
  {f \in IF run[s].full THEN Files ELSE run[s].gone : doc[s][f] # "none"} \ current

\* Nodes the last commit deletes: orphans a complete snapshot did not see, orphans
\* the source reported gone, and files this space saw disappear and nobody keeps.
Pruned(s, after, current) ==
  {f \in node \cap Orphans(after) :
     \/ run[s].full /\ f \notin current
     \/ f \in run[s].gone
     \/ after[s][f] = "removed"}

\* The last transaction reads the removals again, marks what is lost, projects the
\* whole discovery and prunes.
OpenLast(s) ==
  LET current == {f \in run[s].found : ~Honoured(s, f)}
      lost == Lost(s, current)
      after == [doc EXCEPT ![s] = [f \in Files |-> IF f \in lost THEN "removed"
                                                                 ELSE @[f]]] IN
  /\ At(s, "run") /\ run[s].todo = {}
  /\ run' = [run EXCEPT ![s].stage = "last", ![s].write = lost,
                        ![s].insert = current \ node,
                        ![s].drop = Pruned(s, after, current)]
  /\ UNCHANGED <<crossed, space, sourceVars, doc, ready, catalogVars>>

CommitLast(s) ==
  /\ At(s, "last") /\ run[s].insert \cap node = {}
  /\ doc' = [doc EXCEPT ![s] =
               [f \in Files |-> IF f \in run[s].write THEN "removed" ELSE @[f]]]
  /\ node' = (node \cup run[s].insert) \ run[s].drop
  /\ pending' = [pending EXCEPT ![s] = run[s].since]
  /\ hasCursor' = [hasCursor EXCEPT ![s] = TRUE]
  /\ ready' = [ready EXCEPT ![s] = TRUE]
  /\ run' = [run EXCEPT ![s] = NoRun]
  /\ Cross(s, Written(s))
  /\ UNCHANGED <<space, inScope, excluded, bound, banned>>

\* The run fails or is lost: its open transaction is rolled back.
Abort(s) ==
  /\ run[s] # NoRun
  /\ run' = [run EXCEPT ![s] = NoRun]
  /\ UNCHANGED <<crossed, space, sourceVars, doc, ready, catalogVars>>

-----------------------------------------------------------------------------
(* Requests of an admin                                                    *)

\* DELETE /documents/{id}: only without an active job of its own space.  Whether
\* another space has the file indexed is read now.
OpenRemove(s, f) ==
  /\ s \in space /\ run[s] = NoRun /\ Running < MaxRunning
  /\ doc[s][f] = "indexed"
  /\ run' = [run EXCEPT ![s] =
       [Idle EXCEPT !.stage = "removing", !.write = {f},
          !.drop = IF \E t \in Spaces \ {s} : doc[t][f] = "indexed"
                   THEN {} ELSE {f}]]
  /\ UNCHANGED <<crossed, space, sourceVars, doc, ready, catalogVars>>

\* The spaces a new row binds: those created before it.
Bind(f) == space

\* The document's row goes; with the last copy go the node and every later chance
\* to come back.  A row made by an earlier removal is kept with its date, so it is
\* the first removal that the history records as meant to last.
CommitRemove(s) ==
  LET f == CHOOSE x \in run[s].write : TRUE
      last == run[s].drop # {}
      left == \E t \in Spaces \ {s} : doc[t][f] = "indexed" IN
  /\ At(s, "removing")
  /\ doc' = [doc EXCEPT ![s][f] = "none"]
  /\ node' = node \ run[s].drop
  /\ excluded' = excluded \cup run[s].drop
  /\ bound' = IF last /\ f \notin excluded THEN [bound EXCEPT ![f] = Bind(f)]
                                           ELSE bound
  /\ banned' = IF left \/ f \in excluded THEN banned ELSE banned \cup (space \X {f})
  /\ run' = [run EXCEPT ![s] = NoRun]
  /\ Cross(s, Written(s))
  /\ UNCHANGED <<space, sourceVars, ready>>

\* A space is created over some selection.
AddSpace(s) ==
  /\ s \notin space
  /\ space' = space \cup {s}
  /\ pending' = [pending EXCEPT ![s] = {}]
  /\ UNCHANGED <<crossed, inScope, hasCursor, doc, ready, catalogVars, run>>

\* remove_workspace: documents and selections go, then removals that bind no space
\* any more and nodes without a document.
RemoveSpace(s) ==
  /\ s \in space /\ run[s] = NoRun /\ Running < MaxRunning
  /\ space' = space \ {s}
  /\ doc' = [doc EXCEPT ![s] = [f \in Files |-> "none"]]
  /\ hasCursor' = [hasCursor EXCEPT ![s] = FALSE]
  /\ ready' = [ready EXCEPT ![s] = FALSE]
  /\ bound' = [f \in Files |-> bound[f] \ {s}]
  /\ excluded' = {f \in excluded : bound'[f] # {}}
  /\ node' = node \ Orphans(doc')
  /\ banned' = {p \in banned : p[1] # s}
  /\ Cross(s, {f \in Files : doc[s][f] # "none"} \cup (node \ node') \cup (excluded \ excluded'))
  /\ UNCHANGED <<inScope, pending, run>>

-----------------------------------------------------------------------------
Init ==
  /\ space = Spaces
  /\ inScope \in [Spaces -> SUBSET Files]
  /\ pending = [s \in Spaces |-> {}]
  /\ hasCursor = [s \in Spaces |-> FALSE]
  /\ doc = [s \in Spaces |-> [f \in Files |-> "none"]]
  /\ ready = [s \in Spaces |-> FALSE]
  /\ node = {} /\ excluded = {} /\ banned = {} /\ crossed = {}
  /\ bound = [f \in Files |-> {}]
  /\ run = [s \in Spaces |-> NoRun]

RunStep(s) ==
  \/ \E batch \in SUBSET Files : OpenBatch(s, batch)
  \/ ProjectBatch(s) \/ CommitBatch(s) \/ OpenLast(s) \/ CommitLast(s)

Next ==
  \/ \E f \in Files : Change(f)
  \/ \E s \in Spaces, any \in BOOLEAN : Discover(s, any)
  \/ \E s \in Spaces : RunStep(s) \/ Abort(s)
  \/ \E s \in Spaces, f \in Files : OpenRemove(s, f)
  \/ \E s \in Spaces : CommitRemove(s) \/ AddSpace(s) \/ RemoveSpace(s)

Spec == Init /\ [][Next]_vars

-----------------------------------------------------------------------------
(* Properties                                                              *)

Stage == {"run", "indexing", "projected", "last", "removing"}

\* The state has its type.
TypeOK ==
  /\ space \subseteq Spaces
  /\ inScope \in [Spaces -> SUBSET Files] /\ pending \in [Spaces -> SUBSET Files]
  /\ hasCursor \in [Spaces -> BOOLEAN] /\ ready \in [Spaces -> BOOLEAN]
  /\ doc \in [Spaces -> [Files -> DocStatus]]
  /\ node \subseteq Files /\ excluded \subseteq Files
  /\ bound \in [Files -> SUBSET Spaces] /\ banned \subseteq Spaces \X Files
  /\ \A s \in Spaces : run[s] = NoRun \/ run[s].stage \in Stage

\* "Never leaves a ready sync that cannot be browsed from the Company Library": each
\* document a finished run left indexed has its node in the shared catalog, whatever
\* the runs of the other spaces prune from it.
Browsable(f) == \A s \in space : ready[s] /\ doc[s][f] = "indexed" => f \in node

\* "An explicit removal survives every provider discovery": a file whose last local
\* copy was removed does not come back to a space that existed then, though the
\* space had discovered it before.  A later removal, from a space made since, is not
\* covered: the row keeps its first date.
StaysRemoved(f) == \A s \in Spaces : <<s, f>> \in banned => doc[s][f] # "indexed"

\* A catalog file has a live document in some space.
NoOrphan(f) == f \in node => \E s \in Spaces : IsLive(doc[s][f])

\* However the runs of the spaces and the removals interleave, the catalog shows what
\* is indexed and nothing else, and keeps removals: of every file but those that two
\* transactions open at the same time both wrote.
CatalogKept == \A f \in Files \ crossed : Browsable(f) /\ StaysRemoved(f) /\ NoOrphan(f)

\* "An explicit removal survives every provider discovery and reprocessing run."
RemovedStaysRemoved == \A f \in Files : StaysRemoved(f)
=============================================================================
