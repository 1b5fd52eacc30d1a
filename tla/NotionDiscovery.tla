-------------------------- MODULE NotionDiscovery --------------------------
(***************************************************************************)
(* The discovery of one Notion space (integrations/notion.py).  Search     *)
(* returns some of the pages the connection may read, with the parent and  *)
(* the time of the last edit they have then; pages known or selected are   *)
(* asked for one by one; the selection is then read page by page, and      *)
(* each page tells of its children.  Pages are edited, moved and           *)
(* restricted all the while.                                               *)
(***************************************************************************)
EXTENDS Naturals, FiniteSets, TLC

CONSTANTS
    Pages, Bases,   \* what Notion holds; those that are databases
    Requested,      \* what is selected, with all that is under it
    Workspace,      \* the top of the tree
    Trees,          \* how the pages may lie at first
    MaxEdits,
    MovesDuringRuns \* BOOLEAN: pages move while a run is at work

VARIABLES
    parent, readable, edited, \* of each page, in Notion; edited counts its edits
    index,      \* [status, stamp, content] of each page's document
    run,        \* what the run has found: parents and stamps of pages, what was read
    quiet       \* "run": nothing changed since the run started; "settled": nor since it ended
notion == <<parent, readable, edited>>
vars == <<notion, index, run, quiet>>

Empty == [p \in {} |-> 0]
Idle == [at |-> "idle", whole |-> FALSE, parents |-> Empty, stamps |-> Empty, batch |-> {}, read |-> Empty,
         unavailable |-> {}]
NoDocument == [status |-> "none", stamp |-> 0, content |-> 0]

\* The pages under those given, n levels down at most.
Down(roots, tree, n) ==
    LET level[k \in 0..n] ==
            IF k = 0 THEN roots ELSE level[k - 1] \cup {p \in DOMAIN tree : tree[p] \in level[k - 1]}
    IN  level[n]

Under(roots, tree) == Down(roots, tree, Cardinality(Pages))

Init ==
    /\ parent \in Trees
    /\ readable = Pages /\ edited = [p \in Pages |-> 0]
    /\ index = [p \in Pages |-> NoDocument] /\ run = Idle /\ quiet = "no"

-----------------------------------------------------------------------------
(* Notion.                                                                 *)

Edit(p) ==
    /\ p \notin Bases /\ edited[p] < MaxEdits /\ edited' = [edited EXCEPT ![p] = @ + 1] /\ quiet' = "no"
    /\ UNCHANGED <<parent, readable, index, run>>

Move(p, q) ==
    /\ run = Idle \/ MovesDuringRuns
    /\ p \notin Requested /\ parent[p] # q /\ q \notin Under({p}, parent)
    /\ parent' = [parent EXCEPT ![p] = q] /\ quiet' = "no"
    /\ UNCHANGED <<readable, edited, index, run>>

Restrict(p) ==
    /\ readable' = IF p \in readable THEN readable \ {p} ELSE readable \cup {p}
    /\ quiet' = "no"
    /\ UNCHANGED <<parent, edited, index, run>>

-----------------------------------------------------------------------------
(* The run.                                                                *)

Start(whole) ==
    /\ run = Idle /\ run' = [Idle EXCEPT !.at = "search", !.whole = whole]
    /\ quiet' = "run" /\ UNCHANGED <<notion, index>>

Known == {p \in Pages : index[p].status # "none"}
Found == DOMAIN run.parents

\* Pages retrieved now join those found, with the readable pages above them.
Ancestors(pages) == {q \in readable : pages \cap Under({q}, [p \in readable |-> parent[p]]) # {}}

Retrieved(pages) ==
    LET new == (pages \cup Ancestors(pages)) \ Found IN
    [run EXCEPT !.parents = @ @@ [p \in new |-> parent[p]], !.stamps = @ @@ [p \in new |-> edited[p]]]

\* Search may leave out any page.
Search ==
    /\ run.at = "search"
    /\ \E pages \in SUBSET readable : run' = [Retrieved(pages) EXCEPT !.at = "confirm"]
    /\ UNCHANGED <<notion, index, quiet>>

\* Absence from search proves nothing: known and selected pages are retrieved.
Confirm ==
    /\ run.at = "confirm"
    /\ run' = [Retrieved((Known \cup Requested) \cap readable) EXCEPT !.at = "read"]
    /\ UNCHANGED <<notion, index, quiet>>

Selected == Under(Requested, run.parents) \cap Found

NoChildren(p) == {}

Children(p) == {c \in readable : parent[c] = p}

\* The rows of a database are queried: they are its own, whatever was found before.
ReadBase(p) ==
    LET rows == IF p \in readable THEN Children(p) ELSE {} IN
    run' = [run EXCEPT !.read = @ @@ [q \in {p} |-> 0],
                       !.parents = [q \in rows |-> p] @@ @,
                       !.stamps = [q \in rows |-> edited[q]] @@ @]

Unchanged(p) ==
    ~run.whole /\ index[p].status = "indexed" /\ index[p].stamp = run.stamps[p]

\* The blocks of a page, or its references alone when it is unchanged: a child not found
\* before is its own, one found elsewhere is a reference.
ReadPage(p) ==
    IF p \notin readable
    THEN run' = [run EXCEPT !.read = @ @@ [q \in {p} |-> 0], !.unavailable = @ \cup {p}]
    ELSE LET new == Children(p) \ Found IN
         run' = [run EXCEPT !.read = @ @@ [q \in {p} |-> IF Unchanged(p) THEN index[p].content ELSE edited[p]],
                            !.parents = @ @@ [q \in new |-> p],
                            !.stamps = @ @@ [q \in new |-> edited[q]]]

Pending == Selected \ DOMAIN run.read

\* In every pass the databases come first, then the pages selected by now.
Read(p) ==
    /\ run.at = "read"
    /\ \/ run.batch = {} /\ p \in Pending \cap Bases /\ ReadBase(p)
       \/ p \in run.batch \ DOMAIN run.read /\ ReadPage(p)
    /\ UNCHANGED <<notion, index, quiet>>

Pass ==
    /\ run.at = "read" /\ run.batch \subseteq DOMAIN run.read
    /\ \/ run.batch # {} /\ run' = [run EXCEPT !.batch = {}]
       \/ run.batch = {} /\ Pending # {} /\ Pending \cap Bases = {} /\ run' = [run EXCEPT !.batch = Pending]
    /\ UNCHANGED <<notion, index, quiet>>

\* What is selected no more, or could not be read, is removed.
Apply ==
    /\ run.at = "read" /\ run.batch = {} /\ Pending = {}
    /\ index' = [p \in Pages |->
            IF p \in Selected \ (Bases \cup run.unavailable)
            THEN [status |-> "indexed", stamp |-> run.stamps[p], content |-> run.read[p]]
            ELSE IF p \in Known THEN [NoDocument EXCEPT !.status = "removed"]
            ELSE NoDocument]
    /\ run' = Idle
    /\ quiet' = IF quiet = "run" THEN "settled" ELSE quiet
    /\ UNCHANGED notion

Abort ==
    /\ run # Idle /\ run' = Idle /\ quiet' = "no"
    /\ UNCHANGED <<notion, index>>

Next ==
    \/ \E p \in Pages : Edit(p) \/ Restrict(p) \/ Read(p) \/ \E q \in Pages \cup {Workspace} : Move(p, q)
    \/ \E whole \in BOOLEAN : Start(whole)
    \/ Search \/ Confirm \/ Pass \/ Apply \/ Abort

Spec == Init /\ [][Next]_vars

-----------------------------------------------------------------------------
(* Properties.                                                             *)

Reachable(roots) ==
    Under(roots, [p \in readable |-> parent[p]]) \cap readable

\* After a run during which nothing changed, whatever search left out, the index holds the
\* pages of the selection with their present text and nothing else (notion.py:420-557).
QuietRunAgrees ==
    quiet = "settled" =>
        \A p \in Pages \ Bases :
            /\ p \in Reachable(Requested \cap readable) =>
                index[p].status = "indexed" /\ index[p].content = edited[p]
            /\ p \notin Reachable(Requested) => index[p].status # "indexed"
=============================================================================
