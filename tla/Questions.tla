----------------------------- MODULE Questions -----------------------------
(***************************************************************************)
(* One question over the index (knowledge/questions.py, QuestionService).  *)
(* Every "select" of the code is one step that reads what is committed at  *)
(* that moment; between two of them a synchronisation may rewrite, remove  *)
(* or bring back a document, and what the person may read may change.  The *)
(* rights are resolved once, at the start.  Scores and the models' answers *)
(* are choices.                                                            *)
(***************************************************************************)
EXTENDS Naturals, FiniteSets

CONSTANTS
    Docs,       \* rows of documents: copies of files, one per folder
    File,       \* File[d]: the source file (connection and external id) d is a copy of
    Folder,     \* Folder[d]: the folder whose synchronisation keeps d
    Folders,
    Positions,  \* positions of the chunks of a document
    Candidates, \* MAX_SEMANTIC_CANDIDATES and MAX_LEXICAL_CANDIDATES
    MaxMoves    \* bound: changes of the library during the question

ASSUME QuestionsAssumption ==
    /\ File \in [Docs -> Docs] /\ Folder \in [Docs -> Folders]
    /\ Positions \subseteq Nat /\ Candidates \in Nat \ {0} /\ MaxMoves \in Nat

VARIABLES
    version,    \* version[d]: stamp of its last indexing (modified_at, indexed_at); 0 when not indexed
    embedded,   \* documents whose chunks have vectors of the current model
    readable,   \* documents the rows of the grants let the person read
    granted,    \* folders granted to the person
    status,     \* status[f]: f is ready, ready in part, or syncing with content
    moves,      \* changes so far
    pc,
    ask,        \* what was asked: mode, folders, documents named
    canonical,  \* the documents kept, one per source file
    rows,       \* chunks read: whole scope, or the semantic candidates
    found,      \* the evidence: chunks
    cited,      \* the citations of the result
    result,     \* the retrieval status, or the error
    inScope,    \* history: documents permitted when some statement of this question read
    steady      \* history: documents in scope, unchanged, since the question began

library == <<version, embedded, readable, granted, status, moves>>
asking == <<pc, ask, canonical, rows, found, cited, result>>
history == <<inScope, steady>>
vars == <<library, asking, history>>

Modes == {"relevance", "selected", "evidence", "summary", "inventory"}
Chunks == [doc : Docs, version : 1..(MaxMoves + 2), pos : Positions]
DocsOf(S) == {c.doc : c \in S}
Statuses == {"none", "sufficient", "no_indexed_content", "no_compatible_embeddings",
             "below_threshold", "invalid_generation", "denied", "not_ready", "provider_error",
             "unavailable", "mention_unavailable"}

TypeOK ==
    /\ version \in [Docs -> 0..(MaxMoves + 2)] /\ embedded \subseteq Docs /\ readable \subseteq Docs
    /\ granted \subseteq Folders /\ status \in [Folders -> BOOLEAN] /\ moves \in 0..MaxMoves
    /\ canonical \subseteq Docs /\ rows \subseteq Chunks /\ found \subseteq Chunks /\ cited \subseteq Chunks
    /\ result \in Statuses /\ inScope \subseteq Docs /\ steady \subseteq Docs

Indexed(d) == version[d] > 0

ChunksOf(S) == {[doc |-> d, version |-> version[d], pos |-> p] : d \in {x \in S : Indexed(x)}, p \in Positions}

\* Copies of one file are compared by their stamps, then by their identifiers.
Rank == CHOOSE f \in [Docs -> 1..Cardinality(Docs)] : \A d, e \in Docs : d # e => f[d] # f[e]

NewerThan(d, e) == version[d] > version[e] \/ (version[d] = version[e] /\ Rank[d] > Rank[e])

NewestPerFolder(S) == {d \in S : \A e \in S \ {d} : File[e] = File[d] /\ Folder[e] = Folder[d] => NewerThan(d, e)}

Newest(S) == {d \in S : \A e \in S \ {d} : File[e] = File[d] => NewerThan(d, e)}

\* What the question may rest on now: the folders asked, the documents named,
\* what the person may read, what is indexed.
Permitted == {d \in readable : Folder[d] \in ask.folders /\ d \in ask.docs /\ Indexed(d)}

\* The filters every statement repeats.
Scope ==
    {d \in Docs : Folder[d] \in ask.folders /\ d \in ask.docs /\ d \in readable /\ Indexed(d)}

Comparable == Scope \cap embedded

Reading == inScope' = inScope \cup Permitted /\ UNCHANGED steady

-----------------------------------------------------------------------------
(* The library moves on while the question runs.                           *)

Moved == pc \notin {"idle", "done"} /\ moves < MaxMoves /\ moves' = moves + 1

\* A synchronisation commits a document with its vectors, replacing its chunks.
Index(d) ==
    /\ Moved
    /\ version' = [version EXCEPT ![d] = moves + 3]
    /\ embedded' = embedded \cup {d}
    /\ steady' = steady \ {d}
    /\ UNCHANGED <<readable, granted, status, asking, inScope>>

\* Or finds it gone: its chunks leave with it.
Remove(d) ==
    /\ Moved /\ Indexed(d)
    /\ version' = [version EXCEPT ![d] = 0]
    /\ steady' = steady \ {d}
    /\ UNCHANGED <<embedded, readable, granted, status, asking, inScope>>

\* The rows that make a document readable change.
Hide(d) ==
    /\ Moved /\ d \in readable
    /\ readable' = readable \ {d}
    /\ steady' = steady \ {d}
    /\ UNCHANGED <<version, embedded, granted, status, asking, inScope>>

Show(d) ==
    /\ Moved /\ d \notin readable
    /\ readable' = readable \cup {d}
    /\ UNCHANGED <<version, embedded, granted, status, asking, history>>

\* The folders granted and admitted matter until the question resolves them.
Revoke(f) ==
    /\ pc = "resolve" /\ Moved /\ f \in granted
    /\ granted' = granted \ {f}
    /\ UNCHANGED <<version, embedded, readable, status, asking, history>>

Hold(f) ==
    /\ pc = "resolve" /\ Moved /\ status[f]
    /\ status' = [status EXCEPT ![f] = FALSE]
    /\ UNCHANGED <<version, embedded, readable, granted, asking, history>>

-----------------------------------------------------------------------------
(* The question.                                                           *)

Goto(p) == pc' = p

Ends(outcome, citations) ==
    /\ pc' = "done" /\ result' = outcome /\ cited' = citations

\* Folders the person may ask about: granted, and admitted by their status.
Contexts == {f \in granted : status[f]}

Indexable(folders) == {d \in readable : Folder[d] \in folders /\ Indexed(d)}

\* The documents of the files named, in every folder that keeps a copy.
Named(files) == {d \in Indexable(Contexts) : File[d] \in files}

Asks(mode, folders, docs) ==
    /\ ask' = [mode |-> mode, folders |-> folders, docs |-> docs]
    /\ \/ folders # {} /\ Goto("resolve") /\ UNCHANGED <<result, cited>>
       \/ folders = {} /\ Ends("no_indexed_content", {})

AskSelection(mode, files) ==
    /\ pc = "idle" /\ files # {}
    /\ \/ (\E f \in files : Named({f}) = {}) /\ Ends("mention_unavailable", {}) /\ UNCHANGED ask
       \/ (\A f \in files : Named({f}) # {}) /\ Asks(mode, Contexts, Named(files))
    /\ UNCHANGED <<library, canonical, rows, found, history>>

AskScope(mode) ==
    /\ pc = "idle" /\ mode # "selected"
    /\ Asks(mode, Contexts, Docs)
    /\ UNCHANGED <<library, canonical, rows, found, history>>

\* The rights are resolved once for all that follows, and every folder asked
\* must be among them and still admitted.
Resolve ==
    /\ pc = "resolve"
    /\ \/ ask.folders \subseteq Contexts /\ Goto("count") /\ UNCHANGED <<result, cited>>
       \/ ~ ask.folders \subseteq granted /\ Ends("denied", {})
       \/ ask.folders \subseteq granted /\ ~ ask.folders \subseteq Contexts /\ Ends("not_ready", {})
    /\ steady' = Permitted \cap embedded
    /\ UNCHANGED <<library, ask, canonical, rows, found, inScope>>

Wide == ask.mode = "relevance"

Count ==
    /\ pc = "count"
    /\ \/ Scope # {} /\ Goto(IF Wide THEN "canonical" ELSE "rows") /\ UNCHANGED <<result, cited>>
       \/ Scope = {} /\ Ends("no_indexed_content", {})
    /\ Reading
    /\ UNCHANGED <<library, ask, canonical, rows, found>>

\* A plain question keeps the newest copy of each file and lets the database rank.
Canonical ==
    /\ pc = "canonical"
    /\ canonical' = Newest(Comparable)
    /\ Goto("compatible")
    /\ Reading
    /\ UNCHANGED <<library, ask, rows, found, cited, result>>

Kept == Comparable \cap canonical

Compatible ==
    /\ pc = "compatible"
    /\ \/ Kept # {} /\ Goto("embed") /\ UNCHANGED <<result, cited>>
       \/ Kept = {} /\ Ends("no_compatible_embeddings", {})
    /\ Reading
    /\ UNCHANGED <<library, ask, canonical, rows, found>>

\* The other questions read every chunk of their scope at once.
Rows ==
    /\ pc = "rows"
    /\ canonical' = Newest(Comparable)
    /\ rows' = ChunksOf(Newest(Comparable))
    /\ \/ rows' # {} /\ Goto(IF ask.mode = "selected" THEN "embed" ELSE ask.mode) /\ UNCHANGED <<result, cited>>
       \/ rows' = {} /\ Ends("no_compatible_embeddings", {})
    /\ Reading
    /\ UNCHANGED <<library, ask, found>>

\* The first chunk of every document, then what the summary of each stands on.
Firsts == {c \in rows : \A o \in rows : o.doc = c.doc => c.pos <= o.pos}

Enumerates ==
    /\ pc \in {"summary", "inventory"}
    /\ \E passages \in SUBSET rows :
        /\ pc = "inventory" => passages = {}
        /\ Ends("sufficient", Firsts \cup passages)
    /\ found' = rows
    /\ UNCHANGED <<library, ask, canonical, rows, history>>

GathersEvidence ==
    /\ pc = "evidence"
    /\ \E passages \in (SUBSET rows) \ {{}} : found' = passages /\ Ends("sufficient", passages)
    /\ UNCHANGED <<library, ask, canonical, rows, history>>

\* The provider embeds the question; when it fails, so does the request.
Embed ==
    /\ pc = "embed"
    /\ \/ Goto("semantic") /\ UNCHANGED <<result, cited>>
       \/ Ends("provider_error", {})
    /\ UNCHANGED <<library, ask, canonical, rows, found, history>>

Best(S) == {b \in SUBSET S : Cardinality(b) = IF Cardinality(S) < Candidates THEN Cardinality(S) ELSE Candidates}

\* The nearest chunks: identifiers first, then their rows, read without the filters.
Semantic ==
    /\ pc = "semantic"
    /\ IF Wide THEN rows' \in Best(ChunksOf(Kept)) /\ Reading /\ UNCHANGED found
               ELSE found' \in Best(rows) /\ UNCHANGED <<rows, history>>
    /\ Goto(IF Wide THEN "hydrate" ELSE "lexical")
    /\ UNCHANGED <<library, ask, canonical, cited, result>>

Hydrate ==
    /\ pc = "hydrate"
    /\ found' = rows \cap ChunksOf(Docs)
    /\ Goto("lexical")
    /\ UNCHANGED <<library, ask, canonical, rows, cited, result, history>>

\* Chunks that hold a term of the question; the ones kept are above the
\* threshold, or, for files named one by one, all of them.
Lexical ==
    /\ pc = "lexical"
    /\ \E hits \in SUBSET ChunksOf(Kept) :
        /\ Cardinality(hits) <= Candidates
        /\ IF Wide THEN found' \in SUBSET (found \cup hits)
                   ELSE found' = found \cup hits \cup rows
    /\ Goto(IF Wide THEN "neighbours" ELSE "answer")
    /\ Reading
    /\ UNCHANGED <<library, ask, canonical, rows, cited, result>>

Seeds == {s \in SUBSET found : \A c \in found : Cardinality({a \in s : a.doc = c.doc}) = 1}

\* The chunks next to the strongest one of each document.
Neighbours ==
    /\ pc = "neighbours"
    /\ \E seeds \in Seeds :
        found' = found \cup {c \in ChunksOf(Kept) : \E a \in seeds : a.doc = c.doc /\ (a.pos = c.pos + 1 \/ c.pos = a.pos + 1)}
    /\ Goto("answer")
    /\ Reading
    /\ UNCHANGED <<library, ask, canonical, rows, cited, result>>

OnePerDocument(S) == {s \in SUBSET S : \A c \in S : Cardinality({a \in s : a.doc = c.doc}) = 1}

\* What fits the budget goes to the model, whose failure keeps the sources.
Answer ==
    /\ pc = "answer"
    /\ \/ found = {} /\ Ends("below_threshold", {}) /\ UNCHANGED found
       \/ \E packed \in (SUBSET found) \ {{}} :
            /\ found' = packed
            /\ \/ \E consulted \in OnePerDocument(packed) : Ends("unavailable", consulted)
               \/ Ends("invalid_generation", packed)
               \/ \E used \in (SUBSET packed) \ {{}} : Ends("sufficient", used)
    /\ UNCHANGED <<library, ask, canonical, rows, history>>

-----------------------------------------------------------------------------
Init ==
    /\ version \in [Docs -> 0..2] /\ embedded \in {Docs} \cup {Docs \ {d} : d \in Docs} /\ readable = Docs
    /\ granted \in SUBSET Folders /\ moves = 0
    /\ status \in {s \in [Folders -> BOOLEAN] : \E f \in Folders : s[f]}
    /\ pc = "idle" /\ ask = [mode |-> "none", folders |-> {}, docs |-> {}]
    /\ canonical = {} /\ rows = {} /\ found = {} /\ cited = {} /\ result = "none"
    /\ inScope = {} /\ steady = {}

Next ==
    \/ \E d \in Docs : Index(d) \/ Remove(d) \/ Hide(d) \/ Show(d)
    \/ \E f \in Folders : Revoke(f) \/ Hold(f)
    \/ \E mode \in Modes, files \in SUBSET {File[d] : d \in Docs} : AskSelection(mode, files)
    \/ \E mode \in Modes : AskScope(mode)
    \/ Resolve
    \/ Count \/ Canonical \/ Compatible \/ Rows \/ Enumerates \/ GathersEvidence
    \/ Embed \/ Semantic \/ Hydrate \/ Lexical \/ Neighbours \/ Answer

Spec == Init /\ [][Next]_vars

-----------------------------------------------------------------------------
\* The copies of one file in overlapping folders never answer a question
\* together, whatever is synchronised between its statements, and a copy that
\* stood unchanged in its scope is not passed over for an older one that did.
OneNewestCopy ==
    /\ \A c, o \in cited : File[c.doc] = File[o.doc] => c.doc = o.doc
    /\ pc = "done" => \A d, e \in steady :
         d \in DocsOf(cited) /\ File[e] = File[d] /\ d # e => NewerThan(d, e)

\* Nothing is cited that no statement of the question found within the folders
\* and files it was about and the person's rights; and an answer the model could
\* not write, or refused to write, still names every document it stood on.
CitedWithinScope ==
    /\ DocsOf(cited) \subseteq inScope
    /\ pc = "done" /\ result \in {"unavailable", "invalid_generation"} => DocsOf(cited) = DocsOf(found)
    /\ pc = "done" /\ result \in {"sufficient", "unavailable"} => cited # {}

\* Both together: what an answer cites.
AnsweredWithinScope == OneNewestCopy /\ CitedWithinScope
=============================================================================
