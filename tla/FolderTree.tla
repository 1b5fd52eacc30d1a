------------------------------ MODULE FolderTree ------------------------------
(***************************************************************************)
(* The folders of the Company Library catalog of one source.  Every space  *)
(* of the source lists the provider's folders and later projects what it   *)
(* listed: folders are placed under their parents, files under folders,    *)
(* and what no space keeps is pruned.  An administrator removes a folder   *)
(* with all that is below it; the removal binds the spaces there were.     *)
(*                                                                         *)
(* A run reads the files, then the folders page by page, while people move *)
(* and restore them, and projects what it read in one transaction.  Names, *)
(* incremental runs, Notion's containers and the removal of spaces are     *)
(* left out.                                                               *)
(***************************************************************************)
EXTENDS Naturals, FiniteSets, SequencesExt

CONSTANTS
  Folders, Files,
  Order,      \* the folders, in the order the pages of a listing have them
  Spaces,
  Early,      \* spaces that exist from the start
  Root,       \* the source's own node
  Gone, Idle,
  MaxChanges  \* changes at the provider

Items == Folders \cup Files

VARIABLES
  remote,     \* item -> its parent at the provider, or Gone
  changes,
  space,      \* spaces that exist
  listed,     \* space -> what its run has listed (item -> parent), or Idle
  node,       \* item -> its parent in the catalog, or Gone
  live,       \* space -> files it keeps a document of
  excluded,   \* items an administrator removed
  bound,      \* item -> spaces that existed when it was removed
  holed        \* ghost: a run projected a folder below one its listing lacks

vars == <<remote, changes, space, listed, node, live, excluded, bound, holed>>

Times == [n \in 1..Cardinality(Folders) |-> n]

\* Some items and all below them.
Below(tree, items) ==
  FoldLeft(LAMBDA found, n : found \cup {i \in Items : tree[i] \in found}, items, Times)

-----------------------------------------------------------------------------
(* What a run may project                                                  *)

\* _remember_exclusions, filter_excluded_content: a removal binds the spaces
\* that existed when it was made.
Honoured(s) == {i \in excluded : s \in bound[i]}

\* Folders that were removed, and those below one of them: at the provider, or
\* in the catalog if the provider does not list them.
Blocked(s, l) ==
  Folders \cap Below([i \in Items |-> IF l[i] # Gone THEN l[i] ELSE node[i]], Honoured(s) \cap Folders)

FoldersOf(s, l) == {f \in Folders : l[f] # Gone} \ (Blocked(s, l) \cup Honoured(s))
FilesOf(s, l) == {x \in Files : l[x] # Gone /\ l[x] \notin Blocked(s, l)} \ Honoured(s)

-----------------------------------------------------------------------------
(* Projection                                                              *)

\* _folder: a folder is placed, and first its parents, until one that is not
\* listed or that was visited already.
Path(l, kept, f) ==
  FoldLeft(LAMBDA path, n : IF l[Last(path)] \in kept \ ToSet(path) THEN path \o <<l[Last(path)]>> ELSE path,
           <<f>>, Times)

\* The parent of the last of them: an old node of the catalog, or the root.
Above(tree, l, path) ==
  LET p == l[Last(path)] IN IF p \in Folders \ ToSet(path) /\ tree[p] # Gone THEN p ELSE Root

Placed(l, kept, tree, f) ==
  LET path == Path(l, kept, f) IN
  [i \in Items |-> IF i \notin ToSet(path) THEN tree[i]
                   ELSE LET n == CHOOSE k \in 1..Len(path) : path[k] = i
                        IN IF n = Len(path) THEN Above(tree, l, path) ELSE path[n + 1]]

\* _folder_parent: files go under their folder, or to the root if it is not there.
WithFiles(l, files, tree) ==
  [i \in Items |-> IF i \notin files THEN tree[i]
                   ELSE IF l[i] \in Folders /\ tree[l[i]] # Gone THEN l[i] ELSE Root]


\* _remove_empty_folders: of the folders that lost a file, then of their parents,
\* those that hold nothing and were not listed.
WithoutEmpty(tree, kept, candidates) ==
  LET Step(now, n) ==
        LET empty == {f \in now.candidates \cap Folders : now.tree[f] # Gone /\ f \notin kept
                                                     /\ \A i \in Items : now.tree[i] # f}
        IN  [tree |-> [i \in Items |-> IF i \in empty THEN Gone ELSE now.tree[i]],
             candidates |-> {now.tree[f] : f \in empty}]
  IN  FoldLeft(Step, [tree |-> tree, candidates |-> candidates], Times).tree

\* prune_orphan_file_nodes: files no space keeps and the listing has not seen.
Stale(tree, files, kept) == {x \in Files : tree[x] # Gone /\ x \notin files /\ \A s \in Spaces : x \notin kept[s]}

\* project_successful_sync of a complete listing, with the run's last commit.
Project(s) ==
  /\ listed[s] # Idle /\ Items = DOMAIN listed[s]
  /\ LET l == listed[s]
         kept == FoldersOf(s, l)
         files == FilesOf(s, l)
         placed == FoldLeft(LAMBDA tree, f : IF f \in kept THEN Placed(l, kept, tree, f) ELSE tree, node, Order)
         tree == WithFiles(l, files, placed)
         stale == Stale(tree, files, [live EXCEPT ![s] = files])
     IN  /\ holed' = (holed \/ \E f \in kept : l[f] \in Folders /\ l[l[f]] = Gone)
         /\ node' = WithoutEmpty([i \in Items |-> IF i \in stale THEN Gone ELSE tree[i]], kept,
                                 {tree[x] : x \in stale})
         /\ live' = [live EXCEPT ![s] = files]
  /\ listed' = [listed EXCEPT ![s] = Idle]
  /\ UNCHANGED <<remote, changes, space, excluded, bound>>

\* discover reads the files first.
List(s) ==
  /\ s \in space /\ listed[s] = Idle
  /\ listed' = [listed EXCEPT ![s] = [x \in Files |-> remote[x]]]
  /\ UNCHANGED <<remote, changes, space, node, live, excluded, bound, holed>>

\* list_folders: the next page.
ReadPage(s) ==
  /\ listed[s] # Idle
  /\ LET left == SelectSeq(Order, LAMBDA f : f \notin DOMAIN listed[s])
     IN  left # <<>> /\ listed' = [listed EXCEPT ![s] = @ @@ (Head(left) :> remote[Head(left)])]
  /\ UNCHANGED <<remote, changes, space, node, live, excluded, bound, holed>>

-----------------------------------------------------------------------------
(* The administrator, and the provider                                     *)

\* remove_library_folder_from_index and remove_folder_catalog, while no space of
\* the source synchronises.  An earlier removal of an item is not renewed, and the
\* search for what is below a folder that is below itself does not end.
RemoveFolder(f) ==
  LET below == Below(node, {f}) IN
  /\ node[f] \notin below \cup {Gone} /\ \A s \in Spaces : listed[s] = Idle
  /\ node' = [i \in Items |-> IF i \in below THEN Gone ELSE node[i]]
  /\ live' = [s \in Spaces |-> live[s] \ below]
  /\ excluded' = excluded \cup below
  /\ bound' = [i \in Items |-> IF i \in below \ excluded THEN space ELSE bound[i]]
  /\ UNCHANGED <<remote, changes, space, listed, holed>>

Create(s) ==
  /\ s \notin space
  /\ space' = space \cup {s}
  /\ UNCHANGED <<remote, changes, listed, node, live, excluded, bound, holed>>

Move(i, p) ==
  /\ changes < MaxChanges
  /\ remote[i] # p /\ p \notin Below(remote, {i})
  /\ p \in Folders => remote[p] # Gone
  /\ remote' = [remote EXCEPT ![i] = p]
  /\ changes' = changes + 1
  /\ UNCHANGED <<space, listed, node, live, excluded, bound, holed>>

Delete(i) ==
  /\ changes < MaxChanges /\ remote[i] # Gone
  /\ remote' = [j \in Items |-> IF j \in Below(remote, {i}) THEN Gone ELSE remote[j]]
  /\ changes' = changes + 1
  /\ UNCHANGED <<space, listed, node, live, excluded, bound, holed>>

Init ==
  /\ remote \in [Items -> Folders \cup {Root}] /\ Below(remote, {Root}) = Items \cup {Root} /\ changes = 0
  /\ space = Early /\ listed = [s \in Spaces |-> Idle]
  /\ node = [i \in Items |-> Gone] /\ live = [s \in Spaces |-> {}]
  /\ excluded = {} /\ bound = [i \in Items |-> {}] /\ holed = FALSE

Next ==
  \/ \E s \in Spaces : List(s) \/ ReadPage(s) \/ Project(s) \/ Create(s)
  \/ \E f \in Folders : RemoveFolder(f)
  \/ \E i \in Items : Delete(i) \/ \E p \in Folders \cup {Root} : Move(i, p)

Spec == Init /\ [][Next]_vars

-----------------------------------------------------------------------------
(* Properties                                                              *)

\* Every item of the catalog hangs from the source's node, whatever was moved,
\* removed, restored and listed again in between, unless a run listed a folder but
\* not its parent, restored between two pages: placed below the parent's old node
\* it may come to be below itself, and remove_folder_catalog then walks down in a
\* loop without end.
Rooted ==
  holed \/ \A i \in Items : node[i] # Gone =>
    LET up(n, k) == IF n \in Folders THEN node[n] ELSE n
    IN  FoldLeft(up, node[i], Times) = Root
=============================================================================
