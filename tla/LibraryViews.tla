----------------------------- MODULE LibraryViews -----------------------------
(***************************************************************************)
(* What one person is shown of the library.  The same rights are applied   *)
(* by many views, each with a query of its own: the pages of the browser,  *)
(* the suggestions of a mention, the selection of a question, the catalog  *)
(* tools, the content search, the seals and the badges.  The module says  *)
(* what each view returns in a state of the catalog, of the documents and  *)
(* of the grants, and what the views owe each other.                       *)
(*                                                                         *)
(* Every view takes S, the spaces a request narrows itself to.             *)
(***************************************************************************)
EXTENDS Naturals, FiniteSets

CONSTANTS
  Sources, Folders, Files,   \* the nodes: a source stands for its root
  Scopes, Spaces,
  Home,       \* node or scope -> its source
  Tool,       \* source -> its tool
  Places,     \* folder or file -> parents the provider may give it
  Copies,     \* <<scope, file>> that a synchronisation may store
  Grantable,  \* <<space, scope or folder>> that an administrator may grant
  Gone, Every

Nodes == Sources \cup Folders \cup Files

\* A node is placed in its own source, and a copy is of a file of the scope's source.
ASSUME LibraryAssumption ==
  /\ Sources \cap (Folders \cup Files) = {} /\ Folders \cap Files = {} /\ Gone \notin Nodes
  /\ Places \in [Folders \cup Files -> SUBSET (Sources \cup Folders)]
  /\ \A n \in Folders \cup Files : \A p \in Places[n] : Home[p] = Home[n]
  /\ Copies \subseteq Scopes \X Files /\ \A d \in Copies : Home[d[1]] = Home[d[2]]
  /\ \A D \in SUBSET Copies : D # Every

VARIABLES
  parent,  \* folder or file -> its parent, or Gone when it is not in the catalog
  doc,     \* copy -> "none", "pending", "indexed", "embedded", "failed", "removed"
  state,   \* scope -> "idle", "syncing", "ready"
  member,  \* live spaces the person is in
  grants,  \* grants in force
  admin    \* the person owns or administers the organisation

libraryVars == <<parent, doc, state, member, grants, admin>>

-----------------------------------------------------------------------------
(* The tree and the rights                                                 *)

There(n) == n \in Sources \cup {m \in Folders \cup Files : parent[m] # Gone}

\* A node and its ancestors.
Chain[n \in Nodes] == {n} \cup (IF n \in Sources THEN {} ELSE IF parent[n] = Gone THEN {} ELSE Chain[parent[n]])

\* _descendants_query, granted_subtree: nodes at any depth below some nodes, which are included.
Under(ns) == {n \in Nodes : There(n) /\ Chain[n] \cap ns # {}}

\* SpaceAccess: the spaces of the request, scopes granted whole, library folders granted.
Mine(S) == member \cap S
FolderIds(S) == {w \in Scopes : \E s \in Mine(S) : <<s, w>> \in grants}
NodeIds(S) == {n \in Folders : There(n) /\ \E s \in Mine(S) : <<s, n>> \in grants}

Stored == {d \in Copies : doc[d] # "none"}
Live == {d \in Stored : doc[d] # "removed"}
Indexed == {d \in Stored : doc[d] \in {"indexed", "embedded"}}
CopiesOf(x) == {d \in Stored : d[2] = x}

\* documents_in_grants: copies of files below a granted folder, of its source.
InGrants(S) ==
  LET below == Under(NodeIds(S)) IN {d \in Stored : d[2] \in below /\ Home[d[1]] = Home[d[2]]}

\* readable_document_clause
Readable(S) == LET whole == FolderIds(S) IN {d \in Stored : d[1] \in whole} \cup InGrants(S)

\* partial_folder_ids: scopes read only in part.
Partial(S) == {d[1] : d \in Live \cap InGrants(S)} \ FolderIds(S)

-----------------------------------------------------------------------------
(* The browser                                                             *)

\* visible_file_clause: an administrator also sees what no scope has ever stored.
VisibleFiles(S) ==
  LET shown == Live \cap Readable(S)
  IN  {x \in Files : There(x) /\ (CopiesOf(x) \cap shown # {} \/ (admin /\ CopiesOf(x) = {}))}

\* Mutant of Visible: the tree is climbed one level.
VisibleOneLevel(S) ==
  VisibleFiles(S) \cup {parent[x] : x \in VisibleFiles(S)} \cup {Home[x] : x \in VisibleFiles(S)}

\* visible_node_ids
Visible(S) == UNION {Chain[x] : x \in VisibleFiles(S)}

Roots(S) == Sources \cap Visible(S)

\* A root stands for every root of its tool.
SameToolRoots(n) == IF n \in Sources THEN {r \in Sources : Tool[r] = Tool[n]} ELSE {n}

\* children: any member opens a root, a folder has to be visible.
Opens(S, n) == n \in Sources \/ n \in Folders \cap Visible(S)
Children(S, n) == LET shown == SameToolRoots(n) IN {c \in Visible(S) \ Sources : parent[c] \in shown}

\* search_page: nodes whose name matches; any may.
Found(S) == Visible(S) \ Sources

\* Nodes met by opening one page after another.
Browsed(S) ==
  {n \in Nodes : There(n) /\ \A c \in Chain[n] :
     IF c \in Sources THEN c \in Roots(S) ELSE Opens(S, parent[c]) /\ c \in Children(S, parent[c])}

\* documents_and_indexing_for_nodes: the documents a page offers for a file.
DocumentsOf(S, x) == CopiesOf(x) \cap Indexed \cap Readable(S)

\* spaces_for_nodes and NodeGrantBadges: a granted folder marks what is below it and what is above it.
GrantedAround(S, n) ==
  {s \in Mine(S) : \E g \in Folders : There(g) /\ <<s, g>> \in grants /\ (g \in Chain[n] \/ n \in Chain[g])}
Badges(S, n) ==
  {s \in Mine(S) : \E d \in Live : <<s, d[1]>> \in grants /\ d[2] \in Under({n})} \cup GrantedAround(S, n)

\* locate: the visible node of a source that the person may ask about.
Located(S) == {n \in Visible(S) \ Sources : \E w \in FolderIds(S) \cup Partial(S) : Home[w] = Home[n]}

-----------------------------------------------------------------------------
(* Questions                                                               *)

\* folder_is_queryable over the table.
ScopeQueryable(w) ==
  state[w] = "ready" \/ (state[w] = "syncing" /\ \E d \in Copies : d[1] = w /\ doc[d] = "embedded")

\* question_contexts: the state of a scope read in part says nothing of the person's files.
Contexts(S) == FolderIds(S) \cup Partial(S)
Eligible(S) ==
  LET partial == Partial(S)
  IN  {w \in FolderIds(S) \cup partial :
         IF w \in partial THEN state[w] \in {"ready", "syncing"} ELSE ScopeQueryable(w)}

\* _indexed_selection_documents
SelectionDocuments(S) ==
  LET open == Eligible(S) IN {d \in Indexed \cap Readable(S) : d[1] \in open /\ ScopeQueryable(d[1])}

\* mention_candidates: nodes that lead to a document of the selection.
Suggested(S) ==
  (UNION {Chain[x] : x \in {d[2] : d \in {e \in SelectionDocuments(S) : There(e[2])}}}) \ Sources

\* resolve_question_selection: a mention names a visible node with documents of the selection below it.
Matched(S, n) == LET below == Under({n}) IN {d \in SelectionDocuments(S) : d[2] \in below}
Accepted(S, n) ==
  n \in Visible(S) \ Sources /\ (\E w \in Contexts(S) : Home[w] = Home[n]) /\ Matched(S, n) # {}

Selection(S, ms) ==
  [folders |-> Eligible(S), docs |-> IF ms = {} THEN Every ELSE UNION {Matched(S, n) : n \in ms}]

\* RetrievalService: a copy stands for its file, any of them may be the best ranked.
Hits(S, sel) ==
  {d \in Indexed \cap Readable(S) : d[1] \in sel.folders /\ (sel.docs = Every \/ d \in sel.docs)}

\* spaces_by_document: spaces that grant the file, through a scope or through a folder above it.
Seals(S, d) ==
  {s \in Mine(S) : \E e \in CopiesOf(d[2]) \cap Indexed : <<s, e[1]>> \in grants}
    \cup {s \in Mine(S) : \E g \in Folders \cap Chain[d[2]] : There(g) /\ <<s, g>> \in grants}

\* authorized_catalog without mentions, and the files of it.
Catalog(S) == {n \in Visible(S) : \E w \in Eligible(S) : Home[w] = Home[n]}
Inventory(S) ==
  {x \in Files \cap Catalog(S) : CopiesOf(x) = {} \/ \E d \in CopiesOf(x) \cap Live : d[1] \in Eligible(S)}

\* catalog_file_snapshots: files that may be described, and those described with their text.
Admitted(S) == {w \in Contexts(S) : ScopeQueryable(w)}

Describable(S) == {x \in Files \cap Visible(S) : \E w \in Admitted(S) : Home[w] = Home[x]}
Quoted(S) == {x \in Describable(S) : \E d \in DocumentsOf(S, x) : d[1] \in Admitted(S)}

-----------------------------------------------------------------------------
(* What changes under the views                                            *)

\* A run of a scope stores, extracts, embeds, fails or withdraws a document.
Progress ==
  [none |-> {"pending"}, pending |-> {"indexed", "failed"}, indexed |-> {"embedded", "removed"},
   embedded |-> {"indexed", "removed"}, failed |-> {"pending"}, removed |-> {"pending"}]

Process(d, s) ==
  /\ state[d[1]] = "syncing" /\ s \in Progress[doc[d]]
  /\ doc' = [doc EXCEPT ![d] = s]
  /\ UNCHANGED <<parent, state, member, grants, admin>>

Sync(w, s) ==
  /\ IF s = "syncing" THEN state[w] # s ELSE state[w] = "syncing"
  /\ state' = [state EXCEPT ![w] = s]
  /\ UNCHANGED <<parent, doc, member, grants, admin>>

\* A discovery places a node, for the first time or elsewhere.
Project(n, p) ==
  /\ p \in Places[n] /\ p # parent[n] /\ There(p) /\ n \notin Chain[p]
  /\ \E w \in Scopes : Home[w] = Home[n] /\ state[w] = "syncing"
  /\ parent' = [parent EXCEPT ![n] = p]
  /\ UNCHANGED <<doc, state, member, grants, admin>>

\* remove_library_folder_from_index: its documents leave the index, its nodes the catalog.
RemoveFolder(n) ==
  /\ There(n)
  /\ \A w \in Scopes : Home[w] = Home[n] => state[w] # "syncing"
  /\ doc' = [d \in Copies |-> IF d \in Indexed /\ d[2] \in Under({n}) THEN "removed" ELSE doc[d]]
  /\ parent' = [m \in DOMAIN parent |-> IF m \in Under({n}) THEN Gone ELSE parent[m]]
  /\ UNCHANGED <<state, member, grants, admin>>

Grant(s, t) ==
  /\ <<s, t>> \in Grantable \ grants /\ (t \in Folders => There(t))
  /\ grants' = grants \cup {<<s, t>>}
  /\ UNCHANGED <<parent, doc, state, member, admin>>

Revoke(s, t) ==
  /\ <<s, t>> \in grants
  /\ grants' = grants \ {<<s, t>>}
  /\ UNCHANGED <<parent, doc, state, member, admin>>

Join(s) ==
  /\ s \notin member /\ member' = member \cup {s}
  /\ UNCHANGED <<parent, doc, state, grants, admin>>

Leave(s) ==
  /\ s \in member /\ member' = member \ {s}
  /\ UNCHANGED <<parent, doc, state, grants, admin>>

ChangeRole ==
  /\ admin' = ~admin
  /\ UNCHANGED <<parent, doc, state, member, grants>>

LibraryInit ==
  /\ parent = [n \in Folders \cup Files |-> Gone]
  /\ doc = [d \in Copies |-> "none"]
  /\ state = [w \in Scopes |-> "idle"]
  /\ member = {} /\ grants = {} /\ admin = FALSE

LibraryNext ==
  \/ \E d \in Copies, s \in {"pending", "indexed", "embedded", "failed", "removed"} : Process(d, s)
  \/ \E w \in Scopes, s \in {"idle", "syncing", "ready"} : Sync(w, s)
  \/ \E n \in Folders \cup Files : \E p \in Places[n] : Project(n, p)
  \/ \E n \in Folders : RemoveFolder(n)
  \/ \E g \in Grantable : Grant(g[1], g[2]) \/ Revoke(g[1], g[2])
  \/ \E s \in Spaces : Join(s) \/ Leave(s)
  \/ ChangeRole

LibrarySpec == LibraryInit /\ [][LibraryNext]_libraryVars

-----------------------------------------------------------------------------
(* What the views owe each other                                           *)

\* A name the search finds can be reached by opening folder after folder from the roots, and a
\* folder that opens leads somewhere: the pages, the search and the filter of visible nodes agree.
FoundIsBrowsed == Found(Spaces) \subseteq Browsed(Spaces) /\ Browsed(Spaces) \subseteq Visible(Spaces)

\* What the composer suggests after "@" is accepted as a mention of the question, can be located
\* and can be browsed: a suggestion is never refused for a reason the person cannot see.
SuggestionsHold ==
  \A n \in Suggested(Spaces) : Accepted(Spaces, n) /\ n \in Located(Spaces) \cap Browsed(Spaces)

\* Every hit of a content search is sealed by a space, each seal alone gives the person the file, and
\* the page of the file offers the document and carries the seal as a badge.
SealsGrant ==
  \A d \in Hits(Spaces, Selection(Spaces, {})) :
    /\ Seals(Spaces, d) # {}
    /\ There(d[2]) => Seals(Spaces, d) \subseteq Badges(Spaces, d[2]) /\ d \in DocumentsOf(Spaces, d[2])
    /\ \A s \in Seals(Spaces, d) : CopiesOf(d[2]) \cap Readable({s}) # {}

\* A file the catalog lists to an assistant can then be described, and is quoted when a question could
\* select it, but for sources reached only through scopes read in part whose run has embedded nothing.
ListedIsDescribed ==
  /\ \A x \in Inventory(Spaces) \ Describable(Spaces), w \in Eligible(Spaces) :
       Home[w] = Home[x] => w \in Partial(Spaces) /\ state[w] = "syncing"
  /\ \A d \in SelectionDocuments(Spaces) : There(d[2]) => d[2] \in Quoted(Spaces)
=============================================================================
