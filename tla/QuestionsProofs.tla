--------------------------- MODULE QuestionsProofs ---------------------------
(***************************************************************************)
(* Theorem about Questions for any numbers of documents, folders, chunks   *)
(* and changes of the library during the question: what an answer cites    *)
(* was in its scope, once per file and in its newest copy.                 *)
(*                                                                         *)
(* And one about FollowedQueries, for any queries and workers: what a run  *)
(* of the folder brought is asked about again.                             *)
(*                                                                         *)
(* And one about ChatScreen, for any conversations and bounds: the screen  *)
(* shows the open conversation and the question waited for.                *)
(*                                                                         *)
(* And one about Conversations, for any files, requests and bounds: what   *)
(* a turn uses of earlier answers, and the order of the messages.          *)
(***************************************************************************)
EXTENDS Questions, FollowedQueries, ChatScreen, Conversations, FiniteSetTheorems, FunctionTheorems,
        WellFoundedInduction, TLAPS

Typed ==
    /\ version \in [Docs -> Nat] /\ moves \in Nat /\ readable \subseteq Docs /\ canonical \subseteq Docs
    /\ ask.mode \in Modes \cup {"none"}

\* What stood unchanged since the rights were resolved is still in the scope with its vectors.
SteadyInScope == steady \subseteq Comparable

\* One copy of each file was kept, none older than a copy that stood unchanged as it did.
OneCopyKept ==
    /\ canonical \subseteq inScope
    /\ \A d, e \in canonical : File[d] = File[e] => d = e
    /\ \A d \in canonical, e \in steady :
         d \in steady /\ File[e] = File[d] /\ d # e => NewerThan(d, e)

\* Whatever is read, found or cited is of the copies kept.
Drawn == \A c \in rows \cup found \cup cited : c.doc \in canonical

\* What is still empty at each point.
Blank ==
    /\ pc \in {"idle", "resolve"} => steady = {}
    /\ pc \in {"idle", "resolve", "count", "canonical", "rows"} => canonical = {} /\ rows = {} /\ found = {}
    /\ pc # "done" => cited = {} /\ result = "none"
    /\ pc \in {"summary", "inventory", "evidence"} => rows # {}
    /\ \A c \in rows : c.pos \in Nat

NothingOmitted ==
    pc = "done" =>
        /\ result \in {"unavailable", "invalid_generation"} => DocsOf(cited) = DocsOf(found)
        /\ result \in {"sufficient", "unavailable"} => cited # {}

QuestionsInv == Typed /\ SteadyInScope /\ OneCopyKept /\ Drawn /\ Blank /\ NothingOmitted

-----------------------------------------------------------------------------
(* The operators.                                                          *)

LEMMA RankType == ASSUME IsFiniteSet(Docs) PROVE \A d \in Docs : Rank[d] \in Nat
<1>1. Cardinality(Docs) \in Nat /\ ExistsBijection(Docs, 1..Cardinality(Docs))
  BY FS_CardinalityType, Fun_ExistsBijSymmetric
<1>2. \E f \in [Docs -> 1..Cardinality(Docs)] : \A d, e \in Docs : d # e => f[d] # f[e]
  BY <1>1 DEF ExistsBijection, Bijection, Injection, IsInjective
<1>3. Rank \in [Docs -> 1..Cardinality(Docs)]
  BY <1>2 DEF Rank
<1> QED
  BY <1>1, <1>3

\* Of two copies only one is the newer.
LEMMA NewerIsAsymmetric ==
  ASSUME IsFiniteSet(Docs), version \in [Docs -> Nat], NEW d \in Docs, NEW e \in Docs
  PROVE  ~(NewerThan(d, e) /\ NewerThan(e, d))
BY RankType DEF NewerThan

LEMMA NewestIsOne ==
  ASSUME IsFiniteSet(Docs), version \in [Docs -> Nat], NEW S \in SUBSET Docs
  PROVE  /\ Newest(S) \subseteq S
         /\ \A d, e \in Newest(S) : File[d] = File[e] => d = e
         /\ \A d \in Newest(S), e \in S : File[e] = File[d] /\ d # e => NewerThan(d, e)
<1>1. Newest(S) \subseteq S
  BY DEF Newest
<1>2. \A d \in Newest(S), e \in S : File[e] = File[d] /\ d # e => NewerThan(d, e)
  BY DEF Newest
<1>3. ASSUME NEW d \in Newest(S), NEW e \in Newest(S), File[d] = File[e] PROVE d = e
  BY <1>1, <1>2, <1>3, NewerIsAsymmetric
<1> QED
  BY <1>1, <1>2, <1>3

LEMMA ChunksAreOf == ASSUME NEW S PROVE \A c \in ChunksOf(S) : c.doc \in S /\ c.pos \in Positions
BY DEF ChunksOf

\* Every document has a first chunk.
LEMMA FirstExists ==
  ASSUME rows # {}, \A c \in rows : c.pos \in Nat
  PROVE  Firsts # {}
<1>1. PICK c \in rows : TRUE
  OBVIOUS
<1> DEFINE T == {o.pos : o \in {x \in rows : x.doc = c.doc}}
<1>2. T \in SUBSET Nat /\ c.pos \in T
  OBVIOUS
<1>3. PICK R : R = {pair \in Nat \X Nat : pair[1] < pair[2]}
  OBVIOUS
<1>5. IsWellFoundedOn(R, Nat)
  <2>1. R = OpToRel(<, Nat)
    BY <1>3 DEF OpToRel
  <2> QED
    BY <2>1, NatLessThanWellFounded
<1>6. PICK m \in T : \A k \in T : ~(<<k, m>> \in R)
  <2> HIDE DEF T
  <2> QED
    BY <1>2, <1>5, WFMin
<1>7. ASSUME NEW k \in T PROVE m <= k
  <2>1. k \in Nat /\ m \in Nat /\ ~(<<k, m>> \in R)
    BY <1>2, <1>6
  <2> HIDE DEF T
  <2>2. ~(k < m)
    BY <1>3, <2>1
  <2> QED
    BY <2>1, <2>2
<1>4. PICK f \in rows : f.doc = c.doc /\ f.pos = m
  BY <1>6
<1>8. f \in Firsts
  BY <1>4, <1>7 DEF Firsts
<1> QED
  BY <1>8

LEMMA PermittedIsScope == ASSUME readable \subseteq Docs PROVE Permitted = Scope
BY DEF Permitted, Scope

-----------------------------------------------------------------------------
(* The library moves on.                                                   *)

\* A change of one document leaves the others as they were, and the document is no longer steady.
LEMMA LibraryStep ==
  ASSUME QuestionsInv, NEW d \in Docs, UNCHANGED <<asking, inScope>>, pc \notin {"idle", "done"},
         version' \in [Docs -> Nat], moves' \in Nat, readable' \subseteq Docs,
         \A e \in Docs \ {d} : version'[e] = version[e] /\ (e \in readable => e \in readable') /\ (e \in embedded => e \in embedded'),
         steady' = steady \ {d}
  PROVE  QuestionsInv'
<1> USE DEF QuestionsInv
<1>1. Typed'
  BY DEF Typed, asking
<1>2. SteadyInScope'
  BY DEF SteadyInScope, Comparable, Scope, Indexed, asking
<1>3. OneCopyKept'
  <2>1. ASSUME NEW x \in canonical, NEW e \in steady', x \in steady', File[e] = File[x], x # e
        PROVE  NewerThan(x, e)'
    <3>1. x \in steady /\ e \in steady /\ x # d /\ e # d /\ x \in Docs /\ e \in Docs
      BY <2>1 DEF SteadyInScope, Comparable, Scope
    <3> QED
      BY <2>1, <3>1 DEF OneCopyKept, NewerThan
  <2> QED
    BY <2>1 DEF OneCopyKept, asking
<1>4. Drawn' /\ Blank' /\ NothingOmitted'
  BY DEF Drawn, Blank, NothingOmitted, DocsOf, asking
<1> QED
  BY <1>1, <1>2, <1>3, <1>4

LEMMA LibraryMoves ==
  ASSUME QuestionsInv,
         \/ \E d \in Docs : Index(d) \/ Remove(d) \/ Hide(d) \/ Show(d)
         \/ \E f \in Folders : Revoke(f) \/ Hold(f)
  PROVE  QuestionsInv'
<1>1. ASSUME NEW d \in Docs, Index(d) \/ Remove(d) \/ Hide(d) \/ Show(d) PROVE QuestionsInv'
  <2>1. CASE Index(d)
    BY <2>1, LibraryStep DEF Index, Moved, QuestionsInv, Typed
  <2>2. CASE Remove(d)
    BY <2>2, LibraryStep DEF Remove, Moved, QuestionsInv, Typed
  <2>3. CASE Hide(d)
    BY <2>3, LibraryStep DEF Hide, Moved, QuestionsInv, Typed
  <2>4. CASE Show(d)
    <3>1. steady' = steady \ {d}
      BY <2>4 DEF Show, history, QuestionsInv, SteadyInScope, Comparable, Scope
    <3> QED
      BY <2>4, <3>1, LibraryStep DEF Show, Moved, QuestionsInv, Typed, history
  <2> QED
    BY <1>1, <2>1, <2>2, <2>3, <2>4
<1>2. ASSUME NEW f \in Folders, Revoke(f) \/ Hold(f) PROVE QuestionsInv'
  <2>1. UNCHANGED <<version, embedded, readable, asking, history>> /\ moves' \in Nat
    BY <1>2 DEF Revoke, Hold, Moved, QuestionsInv, Typed
  <2> QED
    BY <2>1 DEF QuestionsInv, Typed, SteadyInScope, OneCopyKept, Drawn, Blank, NothingOmitted, DocsOf, Comparable, Scope,
                Indexed, NewerThan, asking, history
<1> QED
  BY <1>1, <1>2

-----------------------------------------------------------------------------
(* The question.                                                           *)

\* A statement reads more of the scope, and keeps the copies it had or the newest of the scope.
LEMMA AskStep ==
  ASSUME IsFiniteSet(Docs), QuestionsInv, UNCHANGED <<library, ask, steady>>, inScope \subseteq inScope',
         \/ canonical' = canonical
         \/ canonical' = Newest(Comparable) /\ Scope \subseteq inScope',
         \A c \in rows' \cup found' \cup cited' : c.doc \in canonical',
         Blank', NothingOmitted'
  PROVE  QuestionsInv'
<1> USE DEF QuestionsInv
<1>1. Comparable \in SUBSET Docs /\ Newest(Comparable) \subseteq Comparable
  BY NewestIsOne DEF Comparable, Scope, Typed
<1>2. Typed'
  BY <1>1 DEF Typed, library
<1>3. SteadyInScope'
  BY DEF SteadyInScope, Comparable, Scope, Indexed, library
<1>4. CASE canonical' = canonical
  BY <1>2, <1>3, <1>4 DEF OneCopyKept, Drawn, NewerThan, library
<1>5. CASE canonical' = Newest(Comparable) /\ Scope \subseteq inScope'
  <2>1. canonical' \subseteq inScope' /\ \A d, e \in canonical' : File[d] = File[e] => d = e
    BY <1>1, <1>5, NewestIsOne DEF Typed, Comparable
  <2>2. ASSUME NEW d \in canonical', NEW e \in steady', File[e] = File[d], d # e PROVE NewerThan(d, e)'
    <3>1. e \in Comparable /\ d \in Newest(Comparable)
      BY <1>5, <2>2 DEF SteadyInScope
    <3>2. NewerThan(d, e)
      BY <1>1, <2>2, <3>1, NewestIsOne DEF Typed
    <3> QED
      BY <3>2 DEF NewerThan, library
  <2> QED
    BY <1>2, <1>3, <2>1, <2>2 DEF OneCopyKept, Drawn
<1> QED
  BY <1>4, <1>5

LEMMA ReadingReads == ASSUME QuestionsInv, Reading PROVE Scope \subseteq inScope' /\ inScope \subseteq inScope' /\ steady' = steady
BY PermittedIsScope DEF QuestionsInv, Typed, Reading

LEMMA Begins ==
  ASSUME QuestionsInv,
         \/ \E mode \in Modes, files \in SUBSET {File[d] : d \in Docs} : AskSelection(mode, files)
         \/ \E mode \in Modes : AskScope(mode)
  PROVE  QuestionsInv'
<1>1. /\ pc = "idle" /\ UNCHANGED <<library, canonical, rows, found, history>>
      /\ ask'.mode \in Modes \cup {"none"}
      /\ \/ pc' = "resolve" /\ UNCHANGED <<result, cited>>
         \/ pc' = "done" /\ result' \in {"no_indexed_content", "mention_unavailable"} /\ cited' = {}
  BY DEF AskSelection, AskScope, Asks, Goto, Ends, QuestionsInv, Typed
<1> QED
  BY <1>1 DEF QuestionsInv, Typed, SteadyInScope, OneCopyKept, Drawn, Blank, NothingOmitted, library, history

LEMMA Resolves == ASSUME QuestionsInv, Resolve PROVE QuestionsInv'
<1>1. /\ pc = "resolve" /\ UNCHANGED <<library, ask, canonical, rows, found, inScope>>
      /\ steady' = Permitted \cap embedded
      /\ \/ pc' = "count" /\ UNCHANGED <<result, cited>>
         \/ pc' = "done" /\ result' \in {"denied", "not_ready"} /\ cited' = {}
  BY DEF Resolve, Goto, Ends
<1>2. steady' = Comparable /\ Comparable' = Comparable
  BY <1>1, PermittedIsScope DEF QuestionsInv, Typed, Comparable, Scope, Indexed, library
<1>3. canonical = {} /\ rows = {} /\ found = {} /\ cited = {}
  BY <1>1 DEF QuestionsInv, Blank
<1> QED
  BY <1>1, <1>2, <1>3 DEF QuestionsInv, Typed, SteadyInScope, OneCopyKept, Drawn, Blank, NothingOmitted, library

LEMMA EachDocumentOnce ==
  ASSUME NEW S, NEW s \in OnePerDocument(S)
  PROVE  s \subseteq S /\ DocsOf(s) = DocsOf(S)
<1>1. \A c \in S : \E a \in s : a.doc = c.doc
  <2> SUFFICES ASSUME NEW c \in S PROVE {a \in s : a.doc = c.doc} # {}
    OBVIOUS
  <2>1. Cardinality({a \in s : a.doc = c.doc}) = 1
    BY DEF OnePerDocument
  <2> QED
    BY <2>1, FS_EmptySet
<1>2. s \subseteq S
  BY DEF OnePerDocument
<1> QED
  BY <1>1, <1>2 DEF DocsOf

LEMMA Statements ==
  ASSUME IsFiniteSet(Docs), QuestionsAssumption, QuestionsInv,
         \/ Count \/ Canonical \/ Compatible \/ Rows \/ Embed \/ Semantic \/ Hydrate \/ Lexical \/ Neighbours
  PROVE  QuestionsInv'
<1> USE DEF Goto
<1>0. Kept \subseteq canonical /\ Comparable \subseteq Scope
  BY DEF Kept, Comparable
<1>1. CASE Count
  <2>1. UNCHANGED <<library, ask, canonical, rows, found, steady>> /\ inScope \subseteq inScope' /\ pc = "count"
    BY <1>1, ReadingReads DEF Count
  <2>2. \/ pc' \in {"canonical", "rows"} /\ UNCHANGED <<result, cited>>
        \/ pc' = "done" /\ result' = "no_indexed_content" /\ cited' = {}
    BY <1>1 DEF Count, Ends
  <2>3. Blank' /\ NothingOmitted'
    BY <2>1, <2>2 DEF QuestionsInv, Blank, NothingOmitted
  <2> QED
    BY <2>1, <2>2, <2>3, AskStep DEF QuestionsInv, Drawn, Blank
<1>2. CASE Canonical
  <2>1. /\ UNCHANGED <<library, ask, rows, found, cited, result, steady>> /\ inScope \subseteq inScope'
        /\ pc = "canonical" /\ pc' = "compatible" /\ canonical' = Newest(Comparable) /\ Scope \subseteq inScope'
    BY <1>2, ReadingReads DEF Canonical
  <2>2. Blank' /\ NothingOmitted'
    BY <2>1 DEF QuestionsInv, Blank, NothingOmitted
  <2>3. rows' \cup found' \cup cited' = {}
    BY <2>1 DEF QuestionsInv, Blank
  <2> QED
    BY <2>1, <2>2, <2>3, AskStep
<1>3. CASE Compatible
  <2>1. UNCHANGED <<library, ask, canonical, rows, found, steady>> /\ inScope \subseteq inScope' /\ pc = "compatible"
    BY <1>3, ReadingReads DEF Compatible
  <2>2. \/ pc' = "embed" /\ UNCHANGED <<result, cited>>
        \/ pc' = "done" /\ result' = "no_compatible_embeddings" /\ cited' = {}
    BY <1>3 DEF Compatible, Ends
  <2>3. Blank' /\ NothingOmitted'
    BY <2>1, <2>2 DEF QuestionsInv, Blank, NothingOmitted
  <2> QED
    BY <2>1, <2>2, <2>3, AskStep DEF QuestionsInv, Drawn
<1>4. CASE Rows
  <2>1. /\ UNCHANGED <<library, ask, found, steady>> /\ inScope \subseteq inScope' /\ Scope \subseteq inScope'
        /\ pc = "rows" /\ canonical' = Newest(Comparable) /\ rows' = ChunksOf(Newest(Comparable))
    BY <1>4, ReadingReads DEF Rows
  <2>2. \/ rows' # {} /\ pc' \in Modes \cup {"none", "embed"} /\ UNCHANGED <<result, cited>>
        \/ pc' = "done" /\ result' = "no_compatible_embeddings" /\ cited' = {}
    BY <1>4 DEF Rows, Ends, QuestionsInv, Typed
  <2>3. \A c \in rows' : c.pos \in Nat /\ c.doc \in canonical'
    BY <2>1, ChunksAreOf DEF QuestionsAssumption
  <2>4. Blank' /\ NothingOmitted'
    BY <2>1, <2>2, <2>3 DEF QuestionsInv, Blank, NothingOmitted, Modes
  <2>5. found' = {} /\ cited' = {}
    BY <2>1, <2>2 DEF QuestionsInv, Blank
  <2> QED
    BY <2>1, <2>3, <2>4, <2>5, AskStep
<1>5. CASE Embed
  <2>1. /\ UNCHANGED <<library, ask, canonical, rows, found, inScope, steady>> /\ pc = "embed"
        /\ \/ pc' = "semantic" /\ UNCHANGED <<result, cited>>
           \/ pc' = "done" /\ result' = "provider_error" /\ cited' = {}
    BY <1>5 DEF Embed, Ends, history
  <2>2. Blank' /\ NothingOmitted'
    BY <2>1 DEF QuestionsInv, Blank, NothingOmitted
  <2> QED
    BY <2>1, <2>2, AskStep DEF QuestionsInv, Drawn
<1>6. CASE Semantic
  <2>1. /\ UNCHANGED <<library, ask, canonical, cited, result, steady>> /\ inScope \subseteq inScope'
        /\ pc = "semantic" /\ pc' \in {"hydrate", "lexical"}
    BY <1>6, ReadingReads DEF Semantic, history
  <2>2. \/ rows' \in SUBSET ChunksOf(Kept) /\ found' = found
        \/ found' \in SUBSET rows /\ rows' = rows
    BY <1>6 DEF Semantic, Best
  <2>3. \A c \in rows' \cup found' \cup cited' : c.doc \in canonical'
    BY <1>0, <2>1, <2>2, ChunksAreOf DEF QuestionsInv, Drawn
  <2>4. \A c \in rows' : c.pos \in Nat
    BY <2>2, ChunksAreOf DEF QuestionsInv, Blank, QuestionsAssumption
  <2>5. Blank' /\ NothingOmitted'
    BY <2>1, <2>4 DEF QuestionsInv, Blank, NothingOmitted
  <2> QED
    BY <2>1, <2>3, <2>5, AskStep
<1>7. CASE Hydrate
  <2>1. /\ UNCHANGED <<library, ask, canonical, rows, cited, result, inScope, steady>>
        /\ pc = "hydrate" /\ pc' = "lexical" /\ found' \subseteq rows
    BY <1>7 DEF Hydrate, history
  <2>2. Blank' /\ NothingOmitted'
    BY <2>1 DEF QuestionsInv, Blank, NothingOmitted
  <2> QED
    BY <2>1, <2>2, AskStep DEF QuestionsInv, Drawn
<1>8. CASE Lexical
  <2>1. /\ UNCHANGED <<library, ask, canonical, rows, cited, result, steady>> /\ inScope \subseteq inScope'
        /\ pc = "lexical" /\ pc' \in {"neighbours", "answer"}
    BY <1>8, ReadingReads DEF Lexical
  <2>2. \A c \in found' : c \in found \cup rows \/ c \in ChunksOf(Kept)
    BY <1>8 DEF Lexical
  <2>3. \A c \in rows' \cup found' \cup cited' : c.doc \in canonical'
    BY <1>0, <2>1, <2>2, ChunksAreOf DEF QuestionsInv, Drawn
  <2>4. Blank' /\ NothingOmitted'
    BY <2>1 DEF QuestionsInv, Blank, NothingOmitted
  <2> QED
    BY <2>1, <2>3, <2>4, AskStep
<1>9. CASE Neighbours
  <2>1. /\ UNCHANGED <<library, ask, canonical, rows, cited, result, steady>> /\ inScope \subseteq inScope'
        /\ pc = "neighbours" /\ pc' = "answer"
    BY <1>9, ReadingReads DEF Neighbours
  <2>2. \A c \in found' : c \in found \/ c \in ChunksOf(Kept)
    BY <1>9 DEF Neighbours
  <2>3. \A c \in rows' \cup found' \cup cited' : c.doc \in canonical'
    BY <1>0, <2>1, <2>2, ChunksAreOf DEF QuestionsInv, Drawn
  <2>4. Blank' /\ NothingOmitted'
    BY <2>1 DEF QuestionsInv, Blank, NothingOmitted
  <2> QED
    BY <2>1, <2>3, <2>4, AskStep
<1> QED
  BY <1>1, <1>2, <1>3, <1>4, <1>5, <1>6, <1>7, <1>8, <1>9

LEMMA Ending ==
  ASSUME IsFiniteSet(Docs), QuestionsInv, Enumerates \/ GathersEvidence \/ Answer
  PROVE  QuestionsInv'
<1>1. CASE Enumerates
  <2>1. /\ UNCHANGED <<library, ask, canonical, rows, inScope, steady>> /\ found' = rows
        /\ pc \in {"summary", "inventory"} /\ pc' = "done" /\ result' = "sufficient"
        /\ \E passages \in SUBSET rows : cited' = Firsts \cup passages
    BY <1>1 DEF Enumerates, Ends, history
  <2>2. Firsts # {} /\ Firsts \subseteq rows
    BY <2>1, FirstExists DEF QuestionsInv, Blank, Firsts
  <2>3. \A c \in rows' \cup found' \cup cited' : c.doc \in canonical'
    BY <2>1, <2>2 DEF QuestionsInv, Drawn
  <2>4. Blank' /\ NothingOmitted'
    BY <2>1, <2>2 DEF QuestionsInv, Blank, NothingOmitted
  <2> QED
    BY <2>1, <2>3, <2>4, AskStep
<1>2. CASE GathersEvidence
  <2>1. /\ UNCHANGED <<library, ask, canonical, rows, inScope, steady>>
        /\ pc' = "done" /\ result' = "sufficient" /\ found' \subseteq rows /\ cited' = found' /\ cited' # {}
    BY <1>2 DEF GathersEvidence, Ends, history
  <2>2. Blank' /\ NothingOmitted'
    BY <2>1 DEF QuestionsInv, Blank, NothingOmitted
  <2> QED
    BY <2>1, <2>2, AskStep DEF QuestionsInv, Drawn
<1>3. CASE Answer
  <2>1. UNCHANGED <<library, ask, canonical, rows, inScope, steady>> /\ pc' = "done"
    BY <1>3 DEF Answer, Ends, history
  <2>2. \/ found' = found /\ cited' = {} /\ result' = "below_threshold"
        \/ /\ found' \subseteq found /\ found' # {}
           /\ \/ cited' \in OnePerDocument(found') /\ result' = "unavailable"
              \/ cited' = found' /\ result' = "invalid_generation"
              \/ cited' \subseteq found' /\ cited' # {} /\ result' = "sufficient"
    BY <1>3 DEF Answer, Ends
  <2>3. cited' \in OnePerDocument(found') => cited' \subseteq found' /\ DocsOf(cited') = DocsOf(found')
    BY EachDocumentOnce
  <2>4. cited' \subseteq found' /\ found' \subseteq found
    BY <2>2, <2>3
  <2>5. DocsOf(cited') = DocsOf(found') /\ found' # {} => cited' # {}
    BY DEF DocsOf
  <2>6. NothingOmitted'
    BY <2>1, <2>2, <2>3, <2>5 DEF NothingOmitted, DocsOf
  <2>7. Blank'
    BY <2>1 DEF QuestionsInv, Blank
  <2> QED
    BY <2>1, <2>4, <2>6, <2>7, AskStep DEF QuestionsInv, Drawn
<1> QED
  BY <1>1, <1>2, <1>3

\* What an answer cites was found within the folders, the documents and the rights of its question, is
\* one copy of each file and the newest of those that stood unchanged, and leaves out nothing it stood
\* on, whatever is indexed, removed, hidden or shown between the statements of the question.
THEOREM AnsweredWithinScopeAlways ==
  ASSUME QuestionsAssumption, IsFiniteSet(Docs)
  PROVE  Spec => []AnsweredWithinScope
<1>1. Init => QuestionsInv
  BY DEF Init, QuestionsInv, Typed, SteadyInScope, OneCopyKept, Drawn, Blank, NothingOmitted
<1>2. QuestionsInv /\ [Next]_vars => QuestionsInv'
  <2> SUFFICES ASSUME QuestionsInv, [Next]_vars PROVE QuestionsInv'
    OBVIOUS
  <2>1. CASE UNCHANGED vars
    BY <2>1 DEF QuestionsInv, Typed, SteadyInScope, OneCopyKept, Drawn, Blank, NothingOmitted, DocsOf, Comparable, Scope,
                Indexed, NewerThan, vars, library, asking, history
  <2> QED
    BY <2>1, LibraryMoves, Begins, Resolves, Statements, Ending DEF Next
<1>3. QuestionsInv => AnsweredWithinScope
  BY DEF QuestionsInv, SteadyInScope, OneCopyKept, Drawn, Blank, NothingOmitted, AnsweredWithinScope, OneNewestCopy,
         CitedWithinScope, DocsOf
<1> QED
  BY <1>1, <1>2, <1>3, PTL DEF Spec

-----------------------------------------------------------------------------
(* FollowedQueries *)

QueryRecord == [followed : BOOLEAN, checked : Nat, asked : Nat]
AnswersGiven == [Names -> {None} \cup [checked : Nat, asked : Nat]]
RefreshSteps == {"idle", "indexing", "loading", "next", "asking", "stopped"}
RefreshRecord ==
    [step : RefreshSteps, stamp : Nat, brought : Nat, chosen : SUBSET Names, todo : SUBSET (1..Len(Queries)),
     since : [Names -> Nat], seen : Nat, staged : AnswersGiven, alone : BOOLEAN]

FollowTyped ==
    /\ now \in Nat /\ revision \in Nat /\ stamp \in Nat /\ access \in BOOLEAN
    /\ query \in [Names -> QueryRecord] /\ refresh \in [Workers -> RefreshRecord] /\ crossed \subseteq Names

\* One run indexes at a time, and who is busy at the same time is not alone.
Overlapping ==
    \A w, v \in Workers : Busy(w) /\ Busy(v) /\ w # v =>
      /\ ~refresh[w].alone
      /\ ~(refresh[w].step = "indexing" /\ refresh[v].step = "indexing")

\* A run that indexes began after everything that was checked by refreshes alone.
Dated ==
    /\ stamp <= now /\ (stamp = 0 => revision = 0)
    /\ \A q \in Names : query[q].checked <= now /\ query[q].asked <= revision
    /\ \A w \in Workers : refresh[w].step = "indexing" =>
          refresh[w].stamp # 0 /\ refresh[w].stamp <= now /\ \A q \in Names \ crossed : query[q].checked < refresh[w].stamp

\* A query that looks unchanged was asked about the folder as it is.
UnchangedIsAsked == \A q \in Names \ crossed : query[q].checked >= stamp => query[q].asked = revision

\* What a refresh still owes is its turn to come, was answered, or was up to date.
OwesAt(r, t) ==
    /\ r.step \in {"idle", "indexing", "loading"} => r.chosen = {} /\ r.staged = Nothing
    /\ r.brought <= revision /\ r.seen <= revision
    /\ r.step \in {"loading", "next", "asking", "stopped"} /\ r.alone => r.brought = revision
    /\ r.step = "asking" => r.todo # {} /\ (r.alone => r.seen = revision)
    /\ r.chosen # {} => access
    /\ \A q \in Names : r.staged[q] # None =>
          r.staged[q].asked <= revision /\ r.staged[q].checked <= t /\ (r.alone => r.staged[q].asked = revision)
    /\ r.step \in {"next", "asking"} =>
          \A q \in r.chosen :
             \/ q \in crossed
             \/ r.since[q] = query[q].checked /\ \E n \in r.todo : Queries[n] = q
             \/ r.staged[q] # None \/ query[q].asked >= r.brought

Owes(r) == OwesAt(r, now)

FollowInv ==
    /\ FollowTyped /\ Overlapping /\ Dated /\ UnchangedIsAsked
    /\ \A w \in Workers : Owes(refresh[w])
    /\ missed = FALSE

LEMMA QueriesTyped == Len(Queries) \in Nat /\ \A n \in 1..Len(Queries) : Queries[n] \in Names
BY FollowAssumption DEF Names

\* There is a first among what is left.
LEMMA TurnIsLeft ==
    ASSUME FollowInv, NEW w \in Workers, refresh[w].todo # {}
    PROVE  Place(w) \in refresh[w].todo /\ Turn(w) \in Names
<1>1. refresh[w].todo \in SUBSET (1..Len(Queries)) BY DEF FollowInv, FollowTyped, RefreshRecord
<1>2. PICK T : T = refresh[w].todo OBVIOUS
<1>3. T \in SUBSET Nat /\ T # {} BY <1>1, <1>2, QueriesTyped
<1>4. PICK R : R = {pair \in Nat \X Nat : pair[1] < pair[2]} OBVIOUS
<1>5. IsWellFoundedOn(R, Nat)
  <2>1. R = OpToRel(<, Nat) BY <1>4 DEF OpToRel
  <2>2. QED BY <2>1, NatLessThanWellFounded
<1>6. PICK m \in T : \A k \in T : ~(<<k, m>> \in R) BY <1>3, <1>5, WFMin
<1>7. \A k \in T : m <= k
  <2>1. ASSUME NEW k \in T PROVE m <= k
    <3>1. k \in Nat /\ m \in Nat BY <1>3
    <3>2. ~(k < m) BY <1>4, <1>6, <3>1
    <3>3. QED BY <3>1, <3>2
  <2>2. QED BY <2>1
<1>8. Place(w) \in refresh[w].todo BY <1>2, <1>7 DEF Place
<1>9. QED BY <1>1, <1>8, QueriesTyped DEF Turn

\* A step of one worker that leaves what was indexed and asked alone.
LEMMA WorkerStep ==
    ASSUME FollowInv, NEW w \in Workers, NEW r \in RefreshRecord, NEW t \in Nat, refresh' = [refresh EXCEPT ![w] = r],
           now' = t, now <= t, UNCHANGED <<revision, stamp, query, access, crossed, missed>>,
           r.step # "indexing", r.step # "idle" => refresh[w].step # "idle" /\ r.alone = refresh[w].alone,
           OwesAt(r, t)
    PROVE  FollowInv'
<1>1. \A v \in Workers : refresh'[v] = IF v = w THEN r ELSE refresh[v] BY DEF FollowInv, FollowTyped
<1>2. FollowTyped' BY DEF FollowInv, FollowTyped
<1>3. Overlapping' BY <1>1 DEF FollowInv, Overlapping, Busy
<1>4. Dated'
  <2>1. now \in Nat /\ stamp \in Nat /\ \A q \in Names : query[q].checked \in Nat
    BY DEF FollowInv, FollowTyped, QueryRecord
  <2>2. \A v \in Workers : refresh[v].stamp \in Nat BY DEF FollowInv, FollowTyped, RefreshRecord
  <2>3. QED BY <1>1, <2>1, <2>2 DEF FollowInv, Dated
<1>5. UnchangedIsAsked' BY DEF FollowInv, UnchangedIsAsked
<1>6. \A v \in Workers : Owes(refresh[v])'
  <2>1. ASSUME NEW v \in Workers PROVE Owes(refresh[v])'
    <3>1. CASE v = w BY <1>1, <3>1 DEF Owes, OwesAt, Nothing
    <3>2. CASE v # w
      <4>1. refresh'[v] = refresh[v] /\ Owes(refresh[v]) BY <1>1, <3>2 DEF FollowInv
      <4>2. refresh[v].staged \in AnswersGiven BY DEF FollowInv, FollowTyped, RefreshRecord
      <4>3. \A q \in Names : refresh[v].staged[q] # None => refresh[v].staged[q].checked \in Nat
        BY <4>2 DEF AnswersGiven
      <4>4. \A q \in Names : refresh[v].staged[q] # None => refresh[v].staged[q].checked <= now'
        BY <4>1, <4>3 DEF FollowInv, FollowTyped, Owes, OwesAt
      <4>5. QED BY <4>1, <4>4 DEF Owes, OwesAt, Nothing
    <3>3. QED BY <3>1, <3>2
  <2>2. QED BY <2>1
<1>7. QED BY <1>2, <1>3, <1>4, <1>5, <1>6 DEF FollowInv

LEMMA RestFits == Rest \in RefreshRecord /\ Rest.step = "idle" /\ Rest.brought = 0 /\ Rest.seen = 0
                  /\ Rest.chosen = {} /\ Rest.staged = Nothing /\ Rest.alone = TRUE
<1>1. Nothing \in AnswersGiven BY DEF Nothing, AnswersGiven
<1>2. Unchecked \in [Names -> Nat] BY DEF Unchecked
<1>3. QED BY <1>1, <1>2 DEF Rest, RefreshRecord, RefreshSteps

LEMMA BeginRunKeeps ==
    ASSUME FollowInv, NEW w \in Workers, BeginRun(w)
    PROVE  FollowInv'
<1>rest. PICK z : z = Rest OBVIOUS
<1>restFits. z \in RefreshRecord /\ z.chosen = {} /\ z.staged = Nothing /\ z.brought = 0 /\ z.seen = 0
  BY <1>rest, RestFits
<1>time. PICK t : t = now + 1 OBVIOUS
<1>only. PICK only \in BOOLEAN : only <=> \A u \in Workers : ~Busy(u) OBVIOUS
<1>record. PICK r : r = [z EXCEPT !.step = "indexing", !.stamp = t, !.alone = only] OBVIOUS
<1>1. /\ now' = t /\ UNCHANGED <<revision, stamp, query, access, crossed, missed>>
      /\ ~Busy(w) /\ \A v \in Workers : refresh[v].step # "indexing"
      /\ refresh' = [v \in Workers |-> IF v = w THEN r ELSE [refresh[v] EXCEPT !.alone = ~Busy(v)]]
  <2>1. only = (\A u \in Workers : ~Busy(u)) BY <1>only
  <2>2. QED BY <1>rest, <1>time, <1>record, <2>1 DEF BeginRun
<1>2. now \in Nat /\ t \in Nat /\ now < t /\ t # 0 BY <1>time DEF FollowInv, FollowTyped
<1>3. /\ r \in RefreshRecord /\ r.step = "indexing" /\ r.stamp = t /\ r.chosen = {} /\ r.staged = Nothing
      /\ r.brought = 0 /\ r.seen = 0 /\ r.alone = only
  BY <1>restFits, <1>record, <1>2 DEF RefreshRecord, RefreshSteps
<1>4. ASSUME NEW v \in Workers, v # w
      PROVE  /\ refresh'[v] \in RefreshRecord
             /\ refresh'[v].step = refresh[v].step /\ refresh'[v].stamp = refresh[v].stamp
             /\ refresh'[v].brought = refresh[v].brought /\ refresh'[v].chosen = refresh[v].chosen
             /\ refresh'[v].todo = refresh[v].todo /\ refresh'[v].since = refresh[v].since
             /\ refresh'[v].seen = refresh[v].seen /\ refresh'[v].staged = refresh[v].staged
             /\ refresh'[v].alone = (refresh[v].step = "idle")
  <2>1. refresh[v] \in RefreshRecord BY DEF FollowInv, FollowTyped
  <2>2. refresh'[v] = [refresh[v] EXCEPT !.alone = ~Busy(v)] BY <1>1, <1>4
  <2>3. QED BY <2>1, <2>2 DEF RefreshRecord, Busy
<1>5. refresh'[w] = r BY <1>1
<1>6. FollowTyped'
  <2>1. refresh' \in [Workers -> RefreshRecord]
    <3>1. \A v \in Workers : refresh'[v] \in RefreshRecord BY <1>3, <1>4, <1>5
    <3>2. refresh' = [v \in Workers |-> refresh'[v]] BY <1>1
    <3>3. QED BY <3>1, <3>2
  <2>2. QED BY <1>1, <1>2, <2>1 DEF FollowInv, FollowTyped
<1>7. Overlapping'
  <2>1. ASSUME NEW u \in Workers, NEW v \in Workers, u # v, refresh'[u].step # "idle", refresh'[v].step # "idle"
        PROVE  ~refresh'[u].alone /\ ~(refresh'[u].step = "indexing" /\ refresh'[v].step = "indexing")
    <3>1. CASE u = w
      <4>1. refresh[v].step # "idle" /\ refresh'[v].step # "indexing" BY <1>1, <1>4, <2>1, <3>1
      <4>2. only = FALSE BY <1>only, <4>1 DEF Busy
      <4>3. QED BY <1>3, <1>5, <3>1, <4>1, <4>2
    <3>2. CASE u # w
      <4>1. refresh'[u].step = refresh[u].step /\ refresh'[u].alone = (refresh[u].step = "idle") BY <1>4, <3>2
      <4>2. refresh'[u].alone = FALSE BY <2>1, <4>1
      <4>3. refresh[u].step # "indexing" BY <1>1
      <4>4. QED BY <4>1, <4>2, <4>3
    <3>3. QED BY <3>1, <3>2
  <2>2. QED BY <2>1 DEF Overlapping, Busy
<1>8. Dated'
  <2>1. stamp \in Nat /\ \A q \in Names : query[q].checked \in Nat /\ query[q].checked <= now
    BY DEF FollowInv, FollowTyped, QueryRecord, Dated
  <2>2. \A v \in Workers : refresh'[v].step = "indexing" => v = w BY <1>1, <1>4
  <2>3. \A q \in Names : query[q].checked <= t /\ query[q].checked < t BY <1>2, <2>1
  <2>4. stamp <= t BY <1>2, <2>1 DEF FollowInv, Dated
  <2>5. QED BY <1>1, <1>2, <1>3, <1>5, <2>2, <2>3, <2>4 DEF FollowInv, Dated
<1>9. UnchangedIsAsked' BY <1>1 DEF FollowInv, UnchangedIsAsked
<1>10. \A v \in Workers : Owes(refresh[v])'
  <2>1. ASSUME NEW v \in Workers PROVE Owes(refresh[v])'
    <3>1. CASE v = w BY <1>1, <1>3, <1>5, <3>1 DEF FollowInv, FollowTyped, Owes, OwesAt, Nothing
    <3>2. CASE v # w
      <4>1. Owes(refresh[v]) BY DEF FollowInv
      <4>2. \A q \in Names : refresh[v].staged[q] # None =>
              refresh[v].staged[q].checked <= t /\ refresh[v].staged[q].asked <= revision
        <5>1. refresh[v].staged \in AnswersGiven BY DEF FollowInv, FollowTyped, RefreshRecord
        <5>2. \A q \in Names : refresh[v].staged[q] # None => refresh[v].staged[q].checked \in Nat BY <5>1 DEF AnswersGiven
        <5>3. QED BY <1>2, <4>1, <5>2 DEF Owes, OwesAt
      <4>3. CASE refresh[v].step = "idle"
        <5>1. refresh'[v].staged = Nothing /\ refresh'[v].chosen = {} /\ refresh'[v].step = "idle"
              /\ refresh'[v].brought <= revision /\ refresh'[v].seen <= revision
          BY <1>4, <3>2, <4>1, <4>3 DEF Owes, OwesAt
        <5>2. QED BY <1>1, <5>1 DEF Owes, OwesAt, Nothing
      <4>4. CASE refresh[v].step # "idle"
        <5>1. refresh'[v].alone = FALSE BY <1>4, <3>2, <4>4
        <5>2. QED BY <1>1, <1>4, <3>2, <4>1, <4>2, <5>1 DEF Owes, OwesAt, Nothing
      <4>5. QED BY <4>3, <4>4
    <3>3. QED BY <3>1, <3>2
  <2>2. QED BY <2>1
<1>11. QED BY <1>1, <1>6, <1>7, <1>8, <1>9, <1>10 DEF FollowInv

LEMMA CommitRunKeeps ==
    ASSUME FollowInv, NEW w \in Workers, CommitRun(w)
    PROVE  FollowInv'
<1>1. /\ refresh[w].step = "indexing" /\ UNCHANGED <<now, query, access, crossed, missed>>
      /\ (revision' = revision + 1 /\ stamp' = refresh[w].stamp) \/ UNCHANGED <<revision, stamp>>
      /\ refresh' = [refresh EXCEPT ![w].step = "loading", ![w].stamp = 0, ![w].brought = revision']
  BY DEF CommitRun
<1>2. /\ now \in Nat /\ revision \in Nat /\ stamp \in Nat /\ refresh[w].stamp \in Nat
      /\ \A q \in Names : query[q].checked \in Nat /\ query[q].asked \in Nat
  BY DEF FollowInv, FollowTyped, RefreshRecord, QueryRecord
<1>3. revision' \in Nat /\ stamp' \in Nat /\ revision <= revision' BY <1>1, <1>2
<1>4. /\ refresh'[w] \in RefreshRecord /\ refresh'[w].step = "loading" /\ refresh'[w].brought = revision'
      /\ refresh'[w].chosen = {} /\ refresh'[w].staged = Nothing /\ refresh'[w].alone = refresh[w].alone
      /\ refresh'[w].seen = refresh[w].seen
      /\ \A v \in Workers : v # w => refresh'[v] = refresh[v]
  BY <1>1, <1>3 DEF FollowInv, FollowTyped, RefreshRecord, RefreshSteps, Owes, OwesAt
<1>5. FollowTyped' BY <1>1, <1>3, <1>4 DEF FollowInv, FollowTyped
<1>6. \A v \in Workers : v # w => refresh[v].step # "indexing" /\ (refresh[v].step # "idle" => ~refresh[v].alone)
  BY <1>1 DEF FollowInv, Overlapping, Busy
<1>7. Overlapping'
  <2>1. ASSUME NEW u \in Workers, NEW v \in Workers, u # v, refresh'[u].step # "idle", refresh'[v].step # "idle"
        PROVE  ~refresh'[u].alone /\ ~(refresh'[u].step = "indexing" /\ refresh'[v].step = "indexing")
    <3>1. refresh[u].step # "idle" /\ refresh[v].step # "idle" BY <1>1, <1>4, <2>1
    <3>2. ~refresh[u].alone BY <2>1, <3>1 DEF FollowInv, Overlapping, Busy
    <3>3. refresh'[u].alone = refresh[u].alone BY <1>4
    <3>4. refresh'[u].step # "indexing" \/ refresh'[v].step # "indexing" BY <1>4, <1>6, <2>1
    <3>5. QED BY <3>2, <3>3, <3>4
  <2>2. QED BY <2>1 DEF Overlapping, Busy
<1>8. Dated'
  <2>1. \A v \in Workers : refresh'[v].step # "indexing" BY <1>4, <1>6
  <2>2. stamp' <= now' /\ (stamp' = 0 => revision' = 0) BY <1>1, <1>2 DEF FollowInv, Dated
  <2>3. \A q \in Names : query'[q].checked <= now' /\ query'[q].asked <= revision' BY <1>1, <1>2 DEF FollowInv, Dated
  <2>4. QED BY <2>1, <2>2, <2>3 DEF Dated
<1>9. UnchangedIsAsked'
  <2>1. CASE UNCHANGED <<revision, stamp>> BY <1>1, <2>1 DEF FollowInv, UnchangedIsAsked
  <2>2. CASE revision' = revision + 1 /\ stamp' = refresh[w].stamp
    <3>1. \A q \in Names \ crossed : query[q].checked < stamp' BY <1>1, <2>2 DEF FollowInv, Dated
    <3>2. QED BY <1>1, <1>2, <2>2, <3>1 DEF UnchangedIsAsked
  <2>3. QED BY <1>1, <2>1, <2>2
<1>10. \A v \in Workers : Owes(refresh[v])'
  <2>1. ASSUME NEW v \in Workers PROVE Owes(refresh[v])'
    <3>1. CASE v = w
      <4>1. refresh[w].seen \in Nat /\ refresh[w].seen <= revision BY DEF FollowInv, FollowTyped, RefreshRecord, Owes, OwesAt
      <4>2. refresh'[w].seen <= revision' BY <1>2, <1>3, <1>4, <4>1
      <4>3. QED BY <1>3, <1>4, <3>1, <4>2 DEF Owes, OwesAt, Nothing
    <3>2. CASE v # w
      <4>1. Owes(refresh[v]) /\ refresh'[v] = refresh[v] BY <1>4, <3>2 DEF FollowInv
      <4>2. refresh[v].brought \in Nat /\ refresh[v].seen \in Nat /\ refresh[v].staged \in AnswersGiven
        BY DEF FollowInv, FollowTyped, RefreshRecord
      <4>3. \A q \in Names : refresh[v].staged[q] # None => refresh[v].staged[q].asked <= revision'
        <5>1. ASSUME NEW q \in Names, refresh[v].staged[q] # None PROVE refresh[v].staged[q].asked <= revision'
          <6>1. refresh[v].staged[q].asked \in Nat BY <4>2, <5>1 DEF AnswersGiven
          <6>2. refresh[v].staged[q].asked <= revision BY <4>1, <5>1 DEF Owes, OwesAt
          <6>3. QED BY <1>2, <1>3, <6>1, <6>2
        <5>2. QED BY <5>1
      <4>4. refresh[v].brought <= revision' /\ refresh[v].seen <= revision'
        BY <1>2, <1>3, <4>1, <4>2 DEF Owes, OwesAt
      <4>5. CASE refresh[v].step = "idle"
        <5>1. refresh[v].staged = Nothing /\ refresh[v].chosen = {} BY <4>1, <4>5 DEF Owes, OwesAt
        <5>2. QED BY <1>1, <4>1, <4>4, <4>5, <5>1 DEF Owes, OwesAt, Nothing
      <4>6. CASE refresh[v].step # "idle"
        <5>1. ~refresh[v].alone BY <1>6, <3>2, <4>6
        <5>2. QED BY <1>1, <4>1, <4>3, <4>4, <5>1 DEF Owes, OwesAt, Nothing
      <4>7. QED BY <4>5, <4>6
    <3>3. QED BY <3>1, <3>2
  <2>2. QED BY <2>1
<1>11. QED BY <1>1, <1>5, <1>7, <1>8, <1>9, <1>10 DEF FollowInv

LEMMA LoadKeeps ==
    ASSUME FollowInv, NEW w \in Workers, Load(w)
    PROVE  FollowInv'
<1> DEFINE todo == {n \in 1..Len(Queries) : access /\ query[Queries[n]].followed}
           chosen == {q \in Names : access /\ query[q].followed}
           since == [q \in Names |-> IF access /\ query[q].followed THEN query[q].checked ELSE 0]
<1>1. /\ refresh[w].step = "loading" /\ UNCHANGED <<now, revision, stamp, query, access, crossed, missed>>
      /\ refresh' = [refresh EXCEPT ![w].step = "next", ![w].todo = todo, ![w].chosen = chosen, ![w].since = since]
  BY DEF Load
<1>2. refresh \in [Workers -> RefreshRecord] /\ now \in Nat BY DEF FollowInv, FollowTyped
<1>3. todo \in SUBSET (1..Len(Queries)) /\ chosen \in SUBSET Names OBVIOUS
<1>4. \A q \in chosen : \E n \in todo : Queries[n] = q BY DEF Names
<1>5. chosen # {} => access OBVIOUS
<1>dates. since \in [Names -> Nat] /\ \A q \in chosen : since[q] = query[q].checked
  BY DEF FollowInv, FollowTyped, QueryRecord
<1> HIDE DEF todo, chosen, since
<1>record. PICK r : r = [refresh[w] EXCEPT !.step = "next", !.todo = todo, !.chosen = chosen, !.since = since] OBVIOUS
<1>time. PICK t : t = now OBVIOUS
<1>6. refresh' = [refresh EXCEPT ![w] = r] BY <1>record, <1>1, <1>2 DEF RefreshRecord
<1>7. /\ r \in RefreshRecord /\ r.step = "next" /\ r.todo = todo /\ r.chosen = chosen /\ r.brought = refresh[w].brought
      /\ r.staged = refresh[w].staged /\ r.since = since /\ r.alone = refresh[w].alone /\ r.seen = refresh[w].seen
  BY <1>record, <1>dates, <1>2, <1>3 DEF RefreshRecord, RefreshSteps
<1>8. OwesAt(r, t) BY <1>time, <1>dates, <1>1, <1>4, <1>5, <1>7 DEF FollowInv, Owes, OwesAt, Nothing
<1>9. t \in Nat /\ now' = t /\ now <= t BY <1>time, <1>1, <1>2
<1>10. QED BY <1>1, <1>6, <1>7, <1>8, <1>9, WorkerStep

LEMMA SkipKeeps ==
    ASSUME FollowInv, NEW w \in Workers, refresh[w].step = "next", refresh[w].todo # {},
           UNCHANGED <<now, revision, stamp, query, access, crossed, missed>>,
           refresh' = [refresh EXCEPT ![w].todo = Later(w)],
           \/ Turn(w) \notin refresh[w].chosen \/ Turn(w) \in crossed
           \/ refresh[w].staged[Turn(w)] # None \/ query[Turn(w)].asked >= refresh[w].brought
    PROVE  FollowInv'
<1>record. PICK r : r = [refresh[w] EXCEPT !.todo = Later(w)] OBVIOUS
<1>time. PICK t : t = now OBVIOUS
<1>1. refresh \in [Workers -> RefreshRecord] /\ now \in Nat BY DEF FollowInv, FollowTyped
<1>2. Later(w) \in SUBSET (1..Len(Queries)) BY <1>1 DEF Later, RefreshRecord
<1>3. \A n \in refresh[w].todo : n \in Later(w) \/ Queries[n] = Turn(w) BY DEF Later, Turn
<1>4. refresh' = [refresh EXCEPT ![w] = r] BY <1>record, <1>1 DEF RefreshRecord
<1>5. /\ r \in RefreshRecord /\ r.step = "next" /\ r.todo = Later(w) /\ r.chosen = refresh[w].chosen
      /\ r.brought = refresh[w].brought /\ r.staged = refresh[w].staged /\ r.since = refresh[w].since
      /\ r.seen = refresh[w].seen /\ r.alone = refresh[w].alone
  BY <1>record, <1>1, <1>2 DEF RefreshRecord, RefreshSteps
<1>6. Owes(refresh[w]) BY DEF FollowInv
<1>7. OwesAt(r, t) BY <1>time, <1>3, <1>5, <1>6 DEF Owes, OwesAt, Nothing
<1>8. t \in Nat /\ now' = t /\ now <= t BY <1>time, <1>1
<1>9. QED BY <1>4, <1>5, <1>7, <1>8, WorkerStep

LEMMA RetrieveKeeps ==
    ASSUME FollowInv, NEW w \in Workers, Retrieve(w)
    PROVE  FollowInv'
<1>1. refresh[w].step = "next" /\ refresh[w].todo # {} /\ UNCHANGED <<now, revision, stamp, query, access, crossed, missed>>
  BY DEF Retrieve
<1>2. CASE ~access
  <2>1. refresh[w].chosen = {} BY <1>2 DEF FollowInv, Owes, OwesAt
  <2>2. refresh' = [refresh EXCEPT ![w].todo = Later(w)] BY <1>2 DEF Retrieve
  <2>3. QED BY <1>1, <2>1, <2>2, SkipKeeps
<1>3. CASE access
  <2>record. PICK r : r = [refresh[w] EXCEPT !.step = "asking", !.seen = revision] OBVIOUS
  <2>time. PICK t : t = now OBVIOUS
  <2>1. refresh \in [Workers -> RefreshRecord] /\ now \in Nat /\ revision \in Nat BY DEF FollowInv, FollowTyped
  <2>2. refresh' = [refresh EXCEPT ![w].step = "asking", ![w].seen = revision] BY <1>3 DEF Retrieve
  <2>3. refresh' = [refresh EXCEPT ![w] = r] BY <2>record, <2>1, <2>2 DEF RefreshRecord
  <2>4. /\ r \in RefreshRecord /\ r.step = "asking" /\ r.seen = revision /\ r.todo = refresh[w].todo
        /\ r.chosen = refresh[w].chosen /\ r.brought = refresh[w].brought /\ r.staged = refresh[w].staged
        /\ r.since = refresh[w].since /\ r.alone = refresh[w].alone
    BY <2>record, <2>1 DEF RefreshRecord, RefreshSteps
  <2>5. Owes(refresh[w]) BY DEF FollowInv
  <2>6. OwesAt(r, t) BY <2>time, <1>1, <2>1, <2>4, <2>5 DEF Owes, OwesAt, Nothing
  <2>7. t \in Nat /\ now' = t /\ now <= t BY <2>time, <1>1, <2>1
  <2>8. QED BY <1>1, <2>3, <2>4, <2>6, <2>7, WorkerStep
<1>4. QED BY <1>2, <1>3

LEMMA AnswerKeeps ==
    ASSUME FollowInv, NEW w \in Workers, AnswerComes(w)
    PROVE  FollowInv'
<1> DEFINE a == [checked |-> now + 1, asked |-> refresh[w].seen]
           staged == [refresh[w].staged EXCEPT ![Turn(w)] = a]
<1>time. PICK t : t = now + 1 OBVIOUS
<1>record. PICK r : r = [refresh[w] EXCEPT !.step = "next", !.todo = Later(w), !.seen = 0, !.staged = staged] OBVIOUS
<1>1. /\ refresh[w].step = "asking" /\ now' = now + 1 /\ UNCHANGED <<revision, stamp, query, access, crossed, missed>>
      /\ refresh' = [refresh EXCEPT ![w].step = "next", ![w].todo = Later(w), ![w].seen = 0, ![w].staged[Turn(w)] = a]
  BY DEF AnswerComes
<1>2. refresh \in [Workers -> RefreshRecord] /\ now \in Nat /\ revision \in Nat BY DEF FollowInv, FollowTyped
<1>3. Owes(refresh[w]) BY DEF FollowInv
<1>4. /\ refresh[w].seen <= revision /\ refresh[w].seen \in Nat /\ refresh[w].todo # {}
      /\ refresh[w].alone => refresh[w].seen = revision
  BY <1>1, <1>2, <1>3 DEF Owes, OwesAt, RefreshRecord
<1>5. Turn(w) \in Names BY <1>4, TurnIsLeft
<1>6. Later(w) \in SUBSET (1..Len(Queries)) BY <1>2 DEF Later, RefreshRecord
<1>7. a \in [checked : Nat, asked : Nat] /\ a # None /\ a.asked = refresh[w].seen /\ a.checked = t
  BY <1>time, <1>1, <1>2, <1>4, FollowAssumption
<1> HIDE DEF a
<1>8. refresh[w].staged \in AnswersGiven BY <1>2 DEF RefreshRecord
<1>9. staged \in AnswersGiven /\ \A q \in Names : staged[q] = IF q = Turn(w) THEN a ELSE refresh[w].staged[q]
  BY <1>5, <1>7, <1>8 DEF AnswersGiven
<1>10. refresh' = [refresh EXCEPT ![w] = r] BY <1>record, <1>1, <1>2 DEF RefreshRecord
<1> HIDE DEF staged
<1>11. /\ r \in RefreshRecord /\ r.step = "next" /\ r.todo = Later(w) /\ r.staged = staged
       /\ r.chosen = refresh[w].chosen /\ r.brought = refresh[w].brought /\ r.seen = 0
       /\ r.since = refresh[w].since /\ r.alone = refresh[w].alone
  BY <1>record, <1>2, <1>6, <1>9 DEF RefreshRecord, RefreshSteps
<1>later. t \in Nat /\ now' = t /\ now <= t BY <1>time, <1>1, <1>2
<1>12. OwesAt(r, t)
  <2>1. \A q \in Names : r.staged[q] # None =>
          r.staged[q].asked <= revision /\ r.staged[q].checked <= t /\ (r.alone => r.staged[q].asked = revision)
    <3>1. ASSUME NEW q \in Names, r.staged[q] # None
          PROVE  r.staged[q].asked <= revision /\ r.staged[q].checked <= t /\ (r.alone => r.staged[q].asked = revision)
      <4>1. CASE q = Turn(w) BY <1>later, <1>4, <1>7, <1>9, <1>11, <4>1
      <4>2. CASE q # Turn(w)
        <5>1. r.staged[q] = refresh[w].staged[q] /\ refresh[w].staged[q].checked \in Nat
          BY <1>8, <1>9, <1>11, <3>1, <4>2 DEF AnswersGiven
        <5>2. /\ refresh[w].staged[q].asked <= revision /\ refresh[w].staged[q].checked <= now
              /\ refresh[w].alone => refresh[w].staged[q].asked = revision
          BY <1>3, <3>1, <5>1 DEF Owes, OwesAt
        <5>3. QED BY <1>later, <1>2, <1>11, <5>1, <5>2
      <4>3. QED BY <4>1, <4>2
    <3>2. QED BY <3>1
  <2>2. ASSUME NEW q \in r.chosen
        PROVE  \/ q \in crossed
               \/ r.since[q] = query[q].checked /\ \E n \in r.todo : Queries[n] = q
               \/ r.staged[q] # None \/ query[q].asked >= r.brought
    <3>1. q \in Names BY <1>2, <1>11 DEF RefreshRecord
    <3>2. CASE q = Turn(w) BY <1>7, <1>9, <1>11, <3>1, <3>2
    <3>3. CASE q # Turn(w)
      <4>1. \/ q \in crossed
            \/ refresh[w].since[q] = query[q].checked /\ \E n \in refresh[w].todo : Queries[n] = q
            \/ refresh[w].staged[q] # None \/ query[q].asked >= refresh[w].brought
        BY <1>1, <1>3, <1>11 DEF Owes, OwesAt
      <4>2. \A n \in refresh[w].todo : Queries[n] = q => n \in Later(w) BY <3>3 DEF Later, Turn
      <4>3. QED BY <1>9, <1>11, <3>1, <3>3, <4>1, <4>2
    <3>4. QED BY <3>2, <3>3
  <2>3. r.chosen # {} => access BY <1>3, <1>11 DEF Owes, OwesAt
  <2>4. r.brought <= revision /\ (r.alone => r.brought = revision) BY <1>1, <1>3, <1>11 DEF Owes, OwesAt
  <2>5. r.seen <= revision BY <1>2, <1>11
  <2>6. QED BY <1>11, <2>1, <2>2, <2>3, <2>4, <2>5 DEF Owes, OwesAt
<1>13. QED BY <1>1, <1>later, <1>10, <1>11, <1>12, WorkerStep

LEMMA StopKeeps ==
    ASSUME FollowInv, NEW w \in Workers, Stop(w)
    PROVE  FollowInv'
<1>record. PICK r : r = [refresh[w] EXCEPT !.step = "stopped", !.todo = {}, !.chosen = {}, !.since = Unchecked, !.seen = 0] OBVIOUS
<1>time. PICK t : t = now OBVIOUS
<1>1. /\ refresh[w].step = "asking" /\ UNCHANGED <<now, revision, stamp, query, access, crossed, missed>>
      /\ refresh' = [refresh EXCEPT ![w].step = "stopped", ![w].todo = {}, ![w].chosen = {}, ![w].since = Unchecked,
                                      ![w].seen = 0, ![w].staged = refresh[w].staged]
  BY DEF Stop, Stopped
<1>2. refresh \in [Workers -> RefreshRecord] /\ now \in Nat /\ revision \in Nat /\ Unchecked \in [Names -> Nat]
  BY DEF FollowInv, FollowTyped, Unchecked
<1>3. refresh' = [refresh EXCEPT ![w] = r] BY <1>record, <1>1, <1>2 DEF RefreshRecord
<1>4. /\ r \in RefreshRecord /\ r.step = "stopped" /\ r.todo = {} /\ r.chosen = {} /\ r.seen = 0
      /\ r.brought = refresh[w].brought /\ r.staged = refresh[w].staged /\ r.alone = refresh[w].alone
  BY <1>record, <1>2 DEF RefreshRecord, RefreshSteps
<1>5. Owes(refresh[w]) BY DEF FollowInv
<1>6. OwesAt(r, t) BY <1>time, <1>1, <1>2, <1>4, <1>5 DEF Owes, OwesAt, Nothing
<1>7. t \in Nat /\ now' = t /\ now <= t BY <1>time, <1>1, <1>2
<1>8. QED BY <1>1, <1>3, <1>4, <1>6, <1>7, WorkerStep

LEMMA EndKeeps ==
    ASSUME FollowInv, NEW w \in Workers, End(w)
    PROVE  FollowInv'
<1>1. /\ refresh[w].todo = {} /\ refresh[w].step \in {"next", "stopped"} /\ query' = Written(w)
      /\ crossed' = IF refresh[w].alone THEN crossed \ AnsweredBy(w) ELSE crossed \cup AnsweredBy(w)
      /\ missed' = (missed \/ (refresh[w].step = "next"
                               /\ \E q \in refresh[w].chosen \ crossed' : query'[q].asked < refresh[w].brought))
      /\ refresh' = [refresh EXCEPT ![w] = Rest] /\ UNCHANGED <<now, revision, stamp, access>>
  BY DEF End
<1>2. /\ refresh \in [Workers -> RefreshRecord] /\ query \in [Names -> QueryRecord] /\ now \in Nat /\ revision \in Nat
      /\ stamp \in Nat /\ crossed \subseteq Names
  BY DEF FollowInv, FollowTyped
<1>3. Owes(refresh[w]) /\ refresh[w].staged \in AnswersGiven BY <1>2 DEF FollowInv, RefreshRecord
<1>4. ASSUME NEW q \in Names
      PROVE  /\ query'[q] \in QueryRecord
             /\ refresh[w].staged[q] = None => query'[q] = query[q] /\ (q \in crossed' <=> q \in crossed)
             /\ refresh[w].staged[q] # None =>
                  /\ query'[q].asked <= revision /\ query'[q].checked <= now
                  /\ refresh[w].alone => query'[q].asked = revision /\ q \notin crossed'
                  /\ ~refresh[w].alone => q \in crossed'
  <2>1. CASE refresh[w].staged[q] = None BY <1>1, <1>2, <2>1 DEF Written, AnsweredBy
  <2>2. CASE refresh[w].staged[q] # None
    <3>1. PICK a : a = refresh[w].staged[q] OBVIOUS
    <3>2. a \in [checked : Nat, asked : Nat] BY <1>3, <2>2, <3>1 DEF AnswersGiven
    <3>3. query'[q] = [query[q] EXCEPT !.checked = a.checked, !.asked = a.asked] BY <1>1, <2>2, <3>1 DEF Written
    <3>4. a.asked <= revision /\ a.checked <= now /\ (refresh[w].alone => a.asked = revision)
      BY <1>3, <2>2, <3>1 DEF Owes, OwesAt
    <3>5. q \in AnsweredBy(w) BY <2>2 DEF AnsweredBy
    <3>6. /\ refresh[w].alone => q \notin crossed'
          /\ ~refresh[w].alone => q \in crossed'
      BY <1>1, <3>5
    <3>7. query'[q] \in QueryRecord /\ query'[q].checked = a.checked /\ query'[q].asked = a.asked
      BY <1>2, <3>2, <3>3 DEF QueryRecord
    <3>8. QED BY <2>2, <3>4, <3>6, <3>7
  <2>3. QED BY <2>1, <2>2
<1>5. query' \in [Names -> QueryRecord] /\ crossed' \subseteq Names
  <2>1. query' = [q \in Names |-> query'[q]] BY <1>1 DEF Written
  <2>2. query' \in [Names -> QueryRecord] BY <1>4, <2>1
  <2>3. crossed' \subseteq Names BY <1>1, <1>2 DEF AnsweredBy
  <2>4. QED BY <2>2, <2>3
<1>6. \A v \in Workers : refresh'[v] = IF v = w THEN Rest ELSE refresh[v] BY <1>1, <1>2
<1>7. refresh[w].alone => \A v \in Workers : v # w => refresh[v].step = "idle" BY <1>1 DEF FollowInv, Overlapping, Busy
<1>8. FollowTyped' BY <1>1, <1>5, RestFits DEF FollowInv, FollowTyped
<1>9. Overlapping' BY <1>6, RestFits DEF FollowInv, Overlapping, Busy
<1>10. Dated'
  <2>1. ASSUME NEW q \in Names PROVE query'[q].checked <= now /\ query'[q].asked <= revision
    BY <1>2, <1>4 DEF FollowInv, Dated
  <2>2. ASSUME NEW v \in Workers, refresh'[v].step = "indexing"
        PROVE  /\ refresh'[v].stamp # 0 /\ refresh'[v].stamp <= now
               /\ \A q \in Names \ crossed' : query'[q].checked < refresh'[v].stamp
    <3>1. v # w /\ refresh'[v] = refresh[v] /\ ~refresh[w].alone BY <1>6, <1>7, <2>2, RestFits
    <3>2. \A q \in Names \ crossed' : query'[q] = query[q] /\ q \notin crossed BY <1>4, <3>1
    <3>3. QED BY <2>2, <3>1, <3>2 DEF FollowInv, Dated
  <2>3. QED BY <1>1, <2>1, <2>2 DEF FollowInv, Dated
<1>11. UnchangedIsAsked'
  <2>1. ASSUME NEW q \in Names, q \notin crossed', query'[q].checked >= stamp PROVE query'[q].asked = revision
    <3>1. CASE refresh[w].staged[q] = None BY <1>4, <2>1, <3>1 DEF FollowInv, UnchangedIsAsked
    <3>2. CASE refresh[w].staged[q] # None BY <1>4, <2>1, <3>2
    <3>3. QED BY <3>1, <3>2
  <2>2. QED BY <1>1, <2>1 DEF UnchangedIsAsked
<1>12. \A v \in Workers : Owes(refresh[v])'
  <2>1. ASSUME NEW v \in Workers PROVE Owes(refresh[v])'
    <3>1. CASE v = w
      <4>1. PICK r : r = Rest OBVIOUS
      <4>2. refresh'[v] = r /\ r.step = "idle" /\ r.chosen = {} /\ r.staged = Nothing /\ r.brought = 0 /\ r.seen = 0
        BY <1>6, <3>1, <4>1, RestFits
      <4>3. QED BY <1>1, <1>2, <4>2 DEF Owes, OwesAt, Nothing
    <3>2. CASE v # w
      <4>1. refresh'[v] = refresh[v] /\ Owes(refresh[v]) BY <1>6, <3>2 DEF FollowInv
      <4>2. CASE refresh[w].alone
        <5>1. refresh[v].step = "idle" BY <1>7, <3>2, <4>2
        <5>2. refresh[v].chosen = {} /\ refresh[v].staged = Nothing BY <4>1, <5>1 DEF Owes, OwesAt
        <5>3. QED BY <1>1, <4>1, <5>1, <5>2 DEF Owes, OwesAt, Nothing
      <4>3. CASE ~refresh[w].alone
        <5>1. \A q \in Names : q \in crossed' \/ (query'[q] = query[q] /\ q \notin crossed) BY <1>4, <4>3
        <5>2. refresh[v].chosen \subseteq Names BY <1>2 DEF RefreshRecord
        <5>3. QED BY <1>1, <4>1, <5>1, <5>2 DEF Owes, OwesAt, Nothing
      <4>4. QED BY <4>2, <4>3
    <3>3. QED BY <3>1, <3>2
  <2>2. QED BY <2>1
<1>13. missed' = FALSE
  <2>1. ASSUME refresh[w].step = "next", NEW q \in refresh[w].chosen, q \notin crossed'
        PROVE  ~(query'[q].asked < refresh[w].brought)
    <3>1. q \in Names /\ refresh[w].brought \in Nat BY <1>2 DEF RefreshRecord
    <3>2. q \in crossed \/ refresh[w].staged[q] # None \/ query[q].asked >= refresh[w].brought
      BY <1>1, <1>3, <2>1 DEF Owes, OwesAt
    <3>3. query[q].asked \in Nat /\ query'[q].asked \in Nat BY <1>2, <1>4, <3>1 DEF QueryRecord
    <3>4. CASE refresh[w].staged[q] # None
      <4>1. refresh[w].alone /\ query'[q].asked = revision BY <1>4, <2>1, <3>1, <3>4
      <4>2. refresh[w].brought <= revision BY <1>3 DEF Owes, OwesAt
      <4>3. QED BY <1>2, <3>1, <3>3, <4>1, <4>2
    <3>5. CASE refresh[w].staged[q] = None
      <4>1. query'[q] = query[q] /\ query[q].asked >= refresh[w].brought BY <1>4, <2>1, <3>1, <3>2, <3>5
      <4>2. QED BY <3>1, <3>3, <4>1
    <3>6. QED BY <3>4, <3>5
  <2>2. QED BY <1>1, <2>1 DEF FollowInv
<1>14. QED BY <1>8, <1>9, <1>10, <1>11, <1>12, <1>13 DEF FollowInv

LEMMA UndoKeeps ==
    ASSUME FollowInv, NEW w \in Workers, UndoRefresh(w)
    PROVE  FollowInv'
<1>1. refresh' = [refresh EXCEPT ![w] = Rest] /\ UNCHANGED <<now, revision, stamp, query, access, crossed, missed>>
  BY DEF UndoRefresh
<1>2. PICK r : r = Rest OBVIOUS
<1>3. r \in RefreshRecord /\ r.step = "idle" /\ r.chosen = {} /\ r.staged = Nothing /\ r.brought = 0 /\ r.seen = 0
  BY <1>2, RestFits
<1>4. PICK t : t = now OBVIOUS
<1>5. t \in Nat /\ now' = t /\ now <= t BY <1>1, <1>4 DEF FollowInv, FollowTyped
<1>6. OwesAt(r, t) BY <1>3 DEF FollowInv, FollowTyped, OwesAt, Nothing
<1>7. refresh' = [refresh EXCEPT ![w] = r] BY <1>1, <1>2
<1>8. QED BY <1>1, <1>3, <1>5, <1>6, <1>7, WorkerStep

\* What the owner does: queries are followed or forgotten, and nobody is owed more.
LEMMA OwnerStep ==
    ASSUME FollowInv, query' \in [Names -> QueryRecord], refresh' \in [Workers -> RefreshRecord], access' \in BOOLEAN,
           \A q \in Names : /\ query'[q].asked = query[q].asked
                            /\ \/ query'[q].checked = query[q].checked
                               \/ query'[q].checked = 0 /\ \A w \in Workers : q \notin refresh'[w].chosen,
           \A w \in Workers : /\ refresh'[w].step = refresh[w].step /\ refresh'[w].stamp = refresh[w].stamp
                              /\ refresh'[w].brought = refresh[w].brought /\ refresh'[w].todo = refresh[w].todo
                              /\ refresh'[w].seen = refresh[w].seen /\ refresh'[w].staged = refresh[w].staged
                              /\ refresh'[w].since = refresh[w].since /\ refresh'[w].alone = refresh[w].alone
                              /\ refresh'[w].chosen \subseteq refresh[w].chosen
                              /\ refresh'[w].chosen # {} => access' \/ ~access,
           UNCHANGED <<now, revision, stamp, crossed, missed>>
    PROVE  FollowInv'
<1>1. FollowTyped' BY DEF FollowInv, FollowTyped
<1>2. Overlapping' BY DEF FollowInv, Overlapping, Busy
<1>3. /\ now \in Nat /\ revision \in Nat /\ stamp \in Nat /\ \A w \in Workers : refresh[w].stamp \in Nat
      /\ \A q \in Names : query[q].checked \in Nat /\ query[q].asked \in Nat
  BY DEF FollowInv, FollowTyped, QueryRecord, RefreshRecord
<1>4. Dated' BY <1>3 DEF FollowInv, Dated
<1>5. UnchangedIsAsked'
  <2>1. ASSUME NEW q \in Names \ crossed', query'[q].checked >= stamp' PROVE query'[q].asked = revision'
    <3>1. CASE query'[q].checked = query[q].checked BY <2>1, <3>1 DEF FollowInv, UnchangedIsAsked
    <3>2. CASE query'[q].checked = 0
      <4>1. stamp = 0 /\ revision = 0 BY <1>3, <2>1, <3>2 DEF FollowInv, Dated
      <4>2. query[q].asked = 0 BY <1>3, <4>1 DEF FollowInv, Dated
      <4>3. QED BY <4>1, <4>2
    <3>3. QED BY <3>1, <3>2
  <2>2. QED BY <2>1 DEF UnchangedIsAsked
<1>6. \A w \in Workers : Owes(refresh[w])'
  <2>1. ASSUME NEW w \in Workers PROVE Owes(refresh[w])'
    <3>1. Owes(refresh[w]) /\ refresh[w].chosen \subseteq Names BY DEF FollowInv, FollowTyped, RefreshRecord
    <3>2. refresh'[w].chosen # {} => access' BY <3>1 DEF Owes, OwesAt
    <3>3. QED BY <3>1, <3>2 DEF Owes, OwesAt, Nothing
  <2>2. QED BY <2>1
<1>7. QED BY <1>1, <1>2, <1>4, <1>5, <1>6 DEF FollowInv

LEMMA OwnersKeep ==
    ASSUME FollowInv, (\E q \in Names : Follow(q) \/ Unfollow(q)) \/ LoseAccess \/ RegainAccess
    PROVE  FollowInv'
<1>1. refresh \in [Workers -> RefreshRecord] /\ query \in [Names -> QueryRecord] /\ access \in BOOLEAN
  BY DEF FollowInv, FollowTyped
<1>2. ASSUME NEW S \in SUBSET Names, refresh' = Released(S)
      PROVE  /\ refresh' \in [Workers -> RefreshRecord]
             /\ \A w \in Workers : /\ refresh'[w].step = refresh[w].step /\ refresh'[w].stamp = refresh[w].stamp
                                   /\ refresh'[w].brought = refresh[w].brought /\ refresh'[w].todo = refresh[w].todo
                                   /\ refresh'[w].seen = refresh[w].seen /\ refresh'[w].staged = refresh[w].staged
                                   /\ refresh'[w].since = refresh[w].since /\ refresh'[w].alone = refresh[w].alone
                                   /\ refresh'[w].chosen = refresh[w].chosen \ S
  <2>1. refresh' = [w \in Workers |-> [refresh[w] EXCEPT !.chosen = refresh[w].chosen \ S]] BY <1>2 DEF Released
  <2>2. ASSUME NEW w \in Workers
        PROVE  /\ refresh'[w] \in RefreshRecord
               /\ refresh'[w].step = refresh[w].step /\ refresh'[w].stamp = refresh[w].stamp
               /\ refresh'[w].brought = refresh[w].brought /\ refresh'[w].todo = refresh[w].todo
               /\ refresh'[w].seen = refresh[w].seen /\ refresh'[w].staged = refresh[w].staged
               /\ refresh'[w].since = refresh[w].since /\ refresh'[w].alone = refresh[w].alone
               /\ refresh'[w].chosen = refresh[w].chosen \ S
    <3>1. refresh[w] \in RefreshRecord BY <1>1
    <3>2. refresh'[w] = [refresh[w] EXCEPT !.chosen = refresh[w].chosen \ S] BY <2>1
    <3>3. QED BY <3>1, <3>2 DEF RefreshRecord
  <2>3. QED BY <2>1, <2>2
<1>3. ASSUME NEW q \in Names
      PROVE  /\ Forgotten(q) \in QueryRecord /\ Forgotten(q).asked = query[q].asked /\ Forgotten(q).checked = 0
             /\ [query[q] EXCEPT !.followed = TRUE] \in QueryRecord
             /\ [query[q] EXCEPT !.followed = TRUE].asked = query[q].asked
             /\ [query[q] EXCEPT !.followed = TRUE].checked = query[q].checked
  BY <1>1 DEF Forgotten, QueryRecord
<1>4. ASSUME NEW q \in Names, Follow(q) PROVE FollowInv'
  <2>1. query' = [query EXCEPT ![q].followed = TRUE] /\ UNCHANGED <<now, revision, stamp, access, refresh, crossed, missed>>
    BY <1>4 DEF Follow
  <2>2. query' = [query EXCEPT ![q] = [query[q] EXCEPT !.followed = TRUE]] BY <1>1, <2>1
  <2>3. \A p \in Names : query'[p] = IF p = q THEN [query[q] EXCEPT !.followed = TRUE] ELSE query[p] BY <1>1, <2>2
  <2>4. query' \in [Names -> QueryRecord] BY <1>1, <1>3, <2>2
  <2>5. QED BY <1>1, <1>3, <2>1, <2>3, <2>4, OwnerStep
<1>5. ASSUME NEW q \in Names, Unfollow(q) PROVE FollowInv'
  <2>1. query' = [query EXCEPT ![q] = Forgotten(q)] /\ refresh' = Released({q})
        /\ UNCHANGED <<now, revision, stamp, access, crossed, missed>> BY <1>5 DEF Unfollow
  <2>2. query' \in [Names -> QueryRecord] /\ \A p \in Names : query'[p] = IF p = q THEN Forgotten(q) ELSE query[p]
    BY <1>1, <1>3, <2>1
  <2>3. {q} \in SUBSET Names OBVIOUS
  <2>4. access' \in BOOLEAN /\ (access' \/ ~access) BY <1>1, <2>1
  <2>5. \A w \in Workers : /\ refresh'[w].step = refresh[w].step /\ refresh'[w].stamp = refresh[w].stamp
                           /\ refresh'[w].brought = refresh[w].brought /\ refresh'[w].todo = refresh[w].todo
                           /\ refresh'[w].seen = refresh[w].seen /\ refresh'[w].staged = refresh[w].staged
                           /\ refresh'[w].since = refresh[w].since /\ refresh'[w].alone = refresh[w].alone
                           /\ refresh'[w].chosen = refresh[w].chosen \ {q}
    BY <1>2, <2>1, <2>3
  <2>6. refresh' \in [Workers -> RefreshRecord] BY <1>2, <2>1, <2>3
  <2>7. \A p \in Names : /\ query'[p].asked = query[p].asked
                         /\ \/ query'[p].checked = query[p].checked
                            \/ query'[p].checked = 0 /\ \A w \in Workers : p \notin refresh'[w].chosen
    BY <1>3, <2>2, <2>5
  <2>8. \A w \in Workers : /\ refresh'[w].chosen \subseteq refresh[w].chosen
                           /\ refresh'[w].chosen # {} => access' \/ ~access
    BY <2>4, <2>5
  <2>9. QED
    <3>1. /\ UNCHANGED <<now, revision, stamp, crossed, missed>> /\ query' \in [Names -> QueryRecord]
          /\ access' \in BOOLEAN
      BY <2>1, <2>2, <2>4
    <3> HIDE DEF FollowInv
    <3>2. \A w \in Workers : /\ refresh'[w].step = refresh[w].step /\ refresh'[w].stamp = refresh[w].stamp
                             /\ refresh'[w].brought = refresh[w].brought /\ refresh'[w].todo = refresh[w].todo
                             /\ refresh'[w].seen = refresh[w].seen /\ refresh'[w].staged = refresh[w].staged
                             /\ refresh'[w].since = refresh[w].since /\ refresh'[w].alone = refresh[w].alone
                             /\ refresh'[w].chosen \subseteq refresh[w].chosen
                             /\ refresh'[w].chosen # {} => access' \/ ~access
      BY <2>5, <2>8
    <3>3. QED BY <2>6, <2>7, <3>1, <3>2, OwnerStep
<1>6. CASE LoseAccess
  <2>1. query' = [q \in Names |-> Forgotten(q)] /\ refresh' = Released(Names) /\ access' = FALSE
        /\ UNCHANGED <<now, revision, stamp, crossed, missed>> BY <1>6 DEF LoseAccess
  <2>2. query' \in [Names -> QueryRecord] /\ \A p \in Names : query'[p] = Forgotten(p) BY <1>3, <2>1
  <2>3. \A w \in Workers : refresh'[w].chosen = refresh[w].chosen \ Names BY <1>2, <2>1
  <2>4. \A w \in Workers : refresh'[w].chosen = {} BY <1>1, <2>3 DEF RefreshRecord
  <2>5. QED BY <1>2, <1>3, <2>1, <2>2, <2>4, OwnerStep
<1>7. CASE RegainAccess
  <2>1. access' = TRUE /\ UNCHANGED <<now, revision, stamp, query, refresh, crossed, missed>> BY <1>7 DEF RegainAccess
  <2>2. QED BY <1>1, <2>1, OwnerStep
<1>8. QED BY <1>4, <1>5, <1>6, <1>7

LEMMA FollowStep == FollowInv /\ [FollowNext]_followVars => FollowInv'
<1>1. SUFFICES ASSUME FollowInv, [FollowNext]_followVars PROVE FollowInv' OBVIOUS
<1>2. ASSUME NEW w \in Workers, BeginRun(w) PROVE FollowInv' BY <1>1, <1>2, BeginRunKeeps
<1>3. ASSUME NEW w \in Workers, CommitRun(w) PROVE FollowInv' BY <1>1, <1>3, CommitRunKeeps
<1>4. ASSUME NEW w \in Workers, Load(w) PROVE FollowInv' BY <1>1, <1>4, LoadKeeps
<1>5. ASSUME NEW w \in Workers, Skip(w) PROVE FollowInv'
  <2>1. /\ refresh[w].step = "next" /\ refresh[w].todo # {} /\ ~HasChanges(w)
        /\ refresh' = [refresh EXCEPT ![w].todo = Later(w)] /\ UNCHANGED <<now, revision, stamp, query, access, crossed, missed>>
    BY <1>5 DEF Skip
  <2>2. Turn(w) \in Names BY <1>1, <2>1, TurnIsLeft
  <2>3. PICK q \in Names : q = Turn(w) BY <2>2
  <2>4. /\ stamp \in Nat /\ revision \in Nat /\ query[q].checked \in Nat /\ refresh[w].since[q] \in Nat
        /\ refresh[w].brought \in Nat /\ refresh[w].brought <= revision
    BY <1>1 DEF FollowInv, FollowTyped, QueryRecord, RefreshRecord, Owes, OwesAt
  <2>5. refresh[w].since[q] >= stamp BY <2>1, <2>3, <2>4 DEF HasChanges
  <2>6. \/ q \notin refresh[w].chosen \/ q \in crossed
        \/ refresh[w].staged[q] # None \/ query[q].asked >= refresh[w].brought
    <3>1. CASE q \in refresh[w].chosen /\ q \notin crossed /\ refresh[w].since[q] = query[q].checked
      <4>1. query[q].asked = revision BY <1>1, <2>5, <3>1 DEF FollowInv, UnchangedIsAsked
      <4>2. QED BY <2>4, <4>1
    <3>2. CASE ~(q \in refresh[w].chosen /\ q \notin crossed /\ refresh[w].since[q] = query[q].checked)
      <4>1. Owes(refresh[w]) BY <1>1 DEF FollowInv
      <4>2. QED BY <2>1, <3>2, <4>1 DEF Owes, OwesAt
    <3>3. QED BY <3>1, <3>2
  <2>7. QED BY <1>1, <2>1, <2>3, <2>6, SkipKeeps
<1>6. ASSUME NEW w \in Workers, Retrieve(w) PROVE FollowInv' BY <1>1, <1>6, RetrieveKeeps
<1>7. ASSUME NEW w \in Workers, AnswerComes(w) PROVE FollowInv' BY <1>1, <1>7, AnswerKeeps
<1>8. ASSUME NEW w \in Workers, Stop(w) PROVE FollowInv' BY <1>1, <1>8, StopKeeps
<1>9. ASSUME NEW w \in Workers, End(w) PROVE FollowInv' BY <1>1, <1>9, EndKeeps
<1>10. ASSUME NEW w \in Workers, UndoRefresh(w) PROVE FollowInv' BY <1>1, <1>10, UndoKeeps
<1>11. CASE UNCHANGED followVars
  BY <1>1, <1>11 DEF followVars, FollowInv, FollowTyped, Overlapping, Busy, Dated, UnchangedIsAsked, Owes, OwesAt, Nothing
<1>12. QED BY <1>1, <1>2, <1>3, <1>4, <1>5, <1>6, <1>7, <1>8, <1>9, <1>10, <1>11, OwnersKeep DEF FollowNext

\* A refresh that ends well leaves no query that was and is followed without what its
\* run brought (refresh_followed_queries), whatever was stopped, refused or undone before;
\* except one last answered by a refresh that another run of the folder overlapped.
THEOREM ChangeIsReaskedAlways == FollowSpec => []ChangeIsReasked
<1>1. FollowInit => FollowInv
  <2>1. ASSUME FollowInit PROVE FollowInv
    <3>1. PICK r : r = Rest OBVIOUS
    <3>2. /\ \A w \in Workers : refresh[w] = r
          /\ r.step = "idle" /\ r.chosen = {} /\ r.staged = Nothing /\ r.brought = 0 /\ r.seen = 0
      BY <2>1, <3>1, RestFits DEF FollowInit
    <3>3. FollowTyped BY <2>1, RestFits DEF FollowInit, FollowTyped, QueryRecord
    <3>4. Overlapping BY <3>2 DEF Overlapping, Busy
    <3>5. \A q \in Names : query[q].checked = 0 /\ query[q].asked = 0 BY <2>1 DEF FollowInit
    <3>6. Dated BY <2>1, <3>2, <3>5 DEF FollowInit, Dated
    <3>7. UnchangedIsAsked BY <2>1, <3>5 DEF FollowInit, UnchangedIsAsked
    <3>8. \A w \in Workers : Owes(refresh[w]) BY <2>1, <3>2 DEF FollowInit, Owes, OwesAt, Nothing
    <3>9. QED BY <2>1, <3>3, <3>4, <3>6, <3>7, <3>8 DEF FollowInv, FollowInit
  <2>2. QED BY <2>1
<1>2. FollowInv /\ [FollowNext]_followVars => FollowInv' BY FollowStep
<1>3. FollowInv => ChangeIsReasked BY DEF FollowInv, ChangeIsReasked
<1>4. QED BY <1>1, <1>2, <1>3, PTL DEF FollowSpec

-----------------------------------------------------------------------------
(* ChatScreen *)

\* Questions, and the oldest messages of what was there before.
Messages == Ids \cup Nat

RequestRecord ==
    [kind : {"restore", "open", "ask", "delete", "reveal", "refresh"}, id : Ids \cup {Absent}, epoch : Nat,
     sequence : Nat, was : Ids \cup {Absent}, served : BOOLEAN, reply : {Absent} \cup Ids \cup SUBSET Messages]

Opens(r) == r.kind \in {"restore", "open"}
Follows(r) == r.kind \in {"reveal", "refresh"}
IsAsk(r) == r.kind = "ask"

ChatTyped ==
    /\ server \in [Ids -> {Absent} \cup SUBSET Messages] /\ shown \in SUBSET Messages
    /\ open \in Ids \cup {Absent} /\ stored \in Ids \cup {Absent}
    /\ pending \in Nat /\ restoring \in BOOLEAN /\ epoch \in Nat /\ sequence \in Nat
    /\ flight \in SUBSET RequestRecord
    /\ \A r \in flight : /\ Opens(r) \/ Follows(r) => r.id \in Ids /\ r.reply \in {Absent} \cup SUBSET Messages
                         /\ IsAsk(r) => r.reply \in {Absent} \cup Ids

\* Numbers are given once, in their order.
Numbered ==
    /\ \A r \in flight : r.epoch <= epoch /\ r.sequence <= sequence
    /\ \A c \in Ids : server[c] # Absent => \A q \in server[c] : q \in Nat => 0 < q /\ q <= sequence
    /\ \A q \in shown : q \in Nat => 0 < q /\ q <= sequence
    /\ \A r \in flight : (Opens(r) \/ Follows(r)) /\ r.reply # Absent =>
          \A q \in r.reply : q \in Nat => 0 < q /\ q <= sequence

\* One question is asked at a time.  While its conversation was not left it is the last,
\* on the screen and of the open conversation; afterwards the screen is empty.  It is saved
\* where its reply says, and nowhere before it is served.
QuestionWaits ==
    \A a \in flight : IsAsk(a) =>
      /\ a.sequence = pending /\ pending # 0
      /\ a.epoch = epoch => a.sequence = sequence /\ a.sequence \in shown /\ a.id = open
      /\ a.epoch # epoch => shown = {}
      /\ a.reply # Absent => a.id = Absent \/ a.reply = a.id
      /\ a.served \/ a.reply = Absent
      /\ a.reply # Absent => \A c \in Ids : server[c] # Absent /\ a.sequence \in server[c] => c = a.reply
      /\ ~a.served => \A c \in Ids : server[c] # Absent => a.sequence \notin server[c]
      /\ \A b \in flight : IsAsk(b) => b = a
      /\ ~a.served => \A r \in flight : (Opens(r) \/ Follows(r)) /\ r.reply # Absent => a.sequence \notin r.reply
      /\ \A r \in flight : Follows(r) => r.epoch <= a.epoch /\ r.sequence # a.sequence

\* The opening of the conversation that is to be shown is the only one, and nothing is asked.
OpeningAlone ==
    \A r \in flight : Opens(r) /\ r.epoch = epoch =>
      /\ restoring = TRUE
      /\ \A x \in flight : ~IsAsk(x) /\ (Follows(x) => x.epoch # epoch)
      /\ \A x \in flight : Opens(x) /\ x.epoch = epoch => x = r

FollowsOpen == \A r \in flight : Follows(r) /\ r.epoch = epoch => r.id = open

\* Conversations have no question in common, nor has what was read of one with another.
Apart ==
    /\ \A c, d \in Ids : c # d /\ server[c] # Absent /\ server[d] # Absent => \A q \in server[c] : q \notin server[d]
    /\ \A r \in flight, c \in Ids : (Opens(r) \/ Follows(r)) /\ r.reply # Absent /\ c # r.id /\ server[c] # Absent =>
          \A q \in server[c] : q \notin r.reply

ChatInv == ChatTyped /\ Numbered /\ QuestionWaits /\ OpeningAlone /\ FollowsOpen /\ Apart /\ ShownIsOpen

\* A request is dropped, or one that deletes comes or changes; a conversation may be gone.
LEMMA LesserStep ==
    ASSUME ChatInv, NEW n \in RequestRecord, n.kind = "delete", n.epoch <= epoch, n.sequence <= sequence,
           flight' \subseteq flight \cup {n}, server' \in [Ids -> {Absent} \cup SUBSET Messages],
           \A c \in Ids : server'[c] = server[c] \/ server'[c] = Absent,
           UNCHANGED <<open, stored, shown, failed, pending, restoring, epoch, sequence>>
    PROVE  ChatInv'
<1>1. \A x \in flight' : x \in flight \/ x = n
  <2>1. flight' \subseteq flight \cup {n} OBVIOUS
  <2>2. QED BY <2>1
<1>2. ~Opens(n) /\ ~Follows(n) /\ ~IsAsk(n) BY DEF Opens, Follows, IsAsk
<1>3. ChatTyped'
  <2>1. flight' \in SUBSET RequestRecord BY DEF ChatInv, ChatTyped
  <2>2. \A r \in flight' : /\ Opens(r) \/ Follows(r) => r.id \in Ids /\ r.reply \in {Absent} \cup SUBSET Messages
                           /\ IsAsk(r) => r.reply \in {Absent} \cup Ids
    BY <1>1, <1>2 DEF ChatInv, ChatTyped
  <2>3. QED BY <2>1, <2>2 DEF ChatInv, ChatTyped
<1>4. Numbered' BY <1>1, <1>2 DEF ChatInv, Numbered
<1>5. QuestionWaits' BY <1>1, <1>2 DEF ChatInv, QuestionWaits
<1>6. OpeningAlone' BY <1>1, <1>2 DEF ChatInv, OpeningAlone
<1>7. FollowsOpen' BY <1>1, <1>2 DEF ChatInv, FollowsOpen
<1>8. Apart' BY <1>1, <1>2 DEF ChatInv, Apart
<1>9. ShownIsOpen' BY DEF ChatInv, ShownIsOpen
<1>10. QED BY <1>3, <1>4, <1>5, <1>6, <1>7, <1>8, <1>9 DEF ChatInv

\* The same when a request is dropped and nothing else moves.
LEMMA DropStep ==
    ASSUME ChatInv, flight' \subseteq flight,
           UNCHANGED <<server, open, stored, shown, failed, pending, restoring, epoch, sequence>>
    PROVE  ChatInv'
<1>1. ChatTyped' BY DEF ChatInv, ChatTyped
<1>2. Numbered' BY DEF ChatInv, Numbered
<1>3. QuestionWaits' BY DEF ChatInv, QuestionWaits
<1>4. OpeningAlone' BY DEF ChatInv, OpeningAlone
<1>5. FollowsOpen' BY DEF ChatInv, FollowsOpen
<1>6. Apart' BY DEF ChatInv, Apart
<1>7. ShownIsOpen' BY DEF ChatInv, ShownIsOpen
<1>8. QED BY <1>1, <1>2, <1>3, <1>4, <1>5, <1>6, <1>7 DEF ChatInv

\* A request that reads is answered, or asked for once more.
LEMMA ReadStep ==
    ASSUME ChatInv, NEW r \in flight, NEW n \in RequestRecord, flight' = (flight \ {r}) \cup {n},
           n.id = r.id, n.epoch = r.epoch, n.sequence = r.sequence,
           (Opens(r) /\ Opens(n)) \/ (Follows(r) /\ Follows(n)),
           n.reply = r.reply \/ n.reply = Absent \/ n.reply = server[r.id],
           UNCHANGED <<server, open, stored, shown, failed, pending, restoring, epoch, sequence>>
    PROVE  ChatInv'
<1>1. \A x \in flight' : x = n \/ (x \in flight /\ x # r)
  <2>1. flight' = (flight \ {r}) \cup {n} OBVIOUS
  <2>2. QED BY <2>1
<1>2. ~IsAsk(n) /\ ~IsAsk(r) /\ (Opens(n) <=> Opens(r)) /\ (Follows(n) <=> Follows(r)) /\ (Opens(r) \/ Follows(r))
  BY DEF Opens, Follows, IsAsk
<1>3. r.id \in Ids /\ r.reply \in {Absent} \cup SUBSET Messages /\ server[r.id] \in {Absent} \cup SUBSET Messages
  BY <1>2 DEF ChatInv, ChatTyped
<1>4. ChatTyped'
  <2>1. flight' \in SUBSET RequestRecord BY DEF ChatInv, ChatTyped
  <2>2. \A x \in flight' : /\ Opens(x) \/ Follows(x) => x.id \in Ids /\ x.reply \in {Absent} \cup SUBSET Messages
                           /\ IsAsk(x) => x.reply \in {Absent} \cup Ids
    BY <1>1, <1>2, <1>3 DEF ChatInv, ChatTyped
  <2>3. QED BY <2>1, <2>2 DEF ChatInv, ChatTyped
<1>5. Numbered'
  <2>1. \A x \in flight' : x.epoch <= epoch /\ x.sequence <= sequence BY <1>1 DEF ChatInv, Numbered
  <2>2. n.reply # Absent => \A q \in n.reply : q \in Nat => 0 < q /\ q <= sequence BY <1>2, <1>3 DEF ChatInv, Numbered
  <2>3. \A x \in flight' : (Opens(x) \/ Follows(x)) /\ x.reply # Absent =>
          \A q \in x.reply : q \in Nat => 0 < q /\ q <= sequence
    BY <1>1, <2>2 DEF ChatInv, Numbered
  <2>4. QED BY <2>1, <2>3 DEF ChatInv, Numbered
<1>6. QuestionWaits'
  <2>1. ASSUME NEW a \in flight', IsAsk(a), ~a.served, n.reply # Absent PROVE a.sequence \notin n.reply
    <3>1. a \in flight BY <1>1, <1>2, <2>1
    <3>2. QED BY <1>2, <1>3, <2>1, <3>1 DEF ChatInv, QuestionWaits
  <2>2. QED BY <1>1, <1>2, <2>1 DEF ChatInv, QuestionWaits
<1>7. OpeningAlone' BY <1>1, <1>2 DEF ChatInv, OpeningAlone
<1>8. FollowsOpen' BY <1>1, <1>2 DEF ChatInv, FollowsOpen
<1>9. Apart'
  <2>1. ASSUME NEW c \in Ids, n.reply # Absent, c # n.id, server[c] # Absent, NEW q \in server[c] PROVE q \notin n.reply
    BY <1>2, <1>3, <2>1 DEF ChatInv, Apart
  <2>2. QED BY <1>1, <2>1 DEF ChatInv, Apart
<1>10. ShownIsOpen' BY DEF ChatInv, ShownIsOpen
<1>11. QED BY <1>4, <1>5, <1>6, <1>7, <1>8, <1>9, <1>10 DEF ChatInv

-----------------------------------------------------------------------------
(* The person                                                              *)

LEMMA OpenKeeps ==
    ASSUME ChatInv, NEW c \in Ids, OpenConversation(c)
    PROVE  ChatInv'
<1>1. PICK n : n = Request("open", c, epoch + 1, sequence) OBVIOUS
<1>2. /\ pending = 0 /\ flight' = flight \cup {n} /\ epoch' = epoch + 1 /\ sequence' = sequence + 1 /\ restoring' = TRUE
      /\ UNCHANGED <<server, open, stored, shown, failed, pending>>
  BY <1>1 DEF OpenConversation, Send, Asking
<1>3. epoch \in Nat /\ sequence \in Nat /\ flight \in SUBSET RequestRecord BY DEF ChatInv, ChatTyped
<1>4. /\ n \in RequestRecord /\ n.kind = "open" /\ n.id = c /\ n.epoch = epoch + 1 /\ n.sequence = sequence
      /\ n.reply = Absent
  BY <1>1, <1>3 DEF Request, RequestRecord, ChatInv, ChatTyped
<1>5. Opens(n) /\ ~Follows(n) /\ ~IsAsk(n) BY <1>4 DEF Opens, Follows, IsAsk
<1>6. \A x \in flight' : x = n \/ x \in flight BY <1>2
<1>7. \A x \in flight : x.epoch \in Nat /\ x.sequence \in Nat /\ x.epoch <= epoch /\ x.sequence <= sequence
  BY <1>3 DEF ChatInv, Numbered, RequestRecord
<1>8. \A x \in flight : ~IsAsk(x) BY <1>2 DEF ChatInv, QuestionWaits
<1>9. \A x \in flight : x.epoch # epoch' BY <1>2, <1>3, <1>7
<1>10. ChatTyped'
  <2>1. flight' \in SUBSET RequestRecord BY <1>3, <1>4, <1>6
  <2>2. \A x \in flight' : /\ Opens(x) \/ Follows(x) => x.id \in Ids /\ x.reply \in {Absent} \cup SUBSET Messages
                           /\ IsAsk(x) => x.reply \in {Absent} \cup Ids
    BY <1>4, <1>5, <1>6 DEF ChatInv, ChatTyped
  <2>3. QED BY <1>2, <1>3, <2>1, <2>2 DEF ChatInv, ChatTyped
<1>11. Numbered'
  <2>1. \A x \in flight' : x.epoch <= epoch' /\ x.sequence <= sequence' BY <1>2, <1>3, <1>4, <1>6, <1>7
  <2>2. QED BY <1>2, <1>3, <1>4, <1>6, <2>1 DEF ChatInv, Numbered
<1>12. QuestionWaits' BY <1>5, <1>6, <1>8 DEF QuestionWaits
<1>13. OpeningAlone' BY <1>2, <1>5, <1>6, <1>8, <1>9 DEF OpeningAlone
<1>14. FollowsOpen' BY <1>5, <1>6, <1>9 DEF FollowsOpen
<1>15. Apart' BY <1>2, <1>4, <1>6 DEF ChatInv, Apart
<1>16. ShownIsOpen' BY <1>2 DEF ChatInv, ShownIsOpen
<1>17. QED BY <1>10, <1>11, <1>12, <1>13, <1>14, <1>15, <1>16 DEF ChatInv

\* The open conversation is left and the screen emptied; nothing on its way is current any more.
LEMMA LeaveStep ==
    ASSUME ChatInv, flight' \subseteq flight, epoch' = epoch + 1, sequence' \in Nat, sequence <= sequence',
           open' = Absent, stored' = Absent, shown' = {}, failed' = {}, restoring' \in BOOLEAN, UNCHANGED <<server, pending>>
    PROVE  ChatInv'
<1>1. epoch \in Nat /\ sequence \in Nat /\ flight \in SUBSET RequestRecord BY DEF ChatInv, ChatTyped
<1>2. \A x \in flight : x.epoch \in Nat /\ x.sequence \in Nat /\ x.epoch <= epoch /\ x.sequence <= sequence
  BY <1>1 DEF ChatInv, Numbered, RequestRecord
<1>3. \A x \in flight' : x \in flight /\ x.epoch # epoch' BY <1>1, <1>2
<1>4. ChatTyped' BY <1>1, <1>3 DEF ChatInv, ChatTyped
<1>5. Numbered'
  <2>1. \A x \in flight' : x.epoch <= epoch' /\ x.sequence <= sequence' BY <1>1, <1>2, <1>3
  <2>2. QED BY <1>1, <1>3, <2>1 DEF ChatInv, Numbered
<1>6. QuestionWaits' BY <1>3 DEF ChatInv, QuestionWaits
<1>7. OpeningAlone' BY <1>3 DEF OpeningAlone
<1>8. FollowsOpen' BY <1>3 DEF FollowsOpen
<1>9. Apart' BY <1>3 DEF ChatInv, Apart
<1>10. ShownIsOpen' BY DEF ShownIsOpen
<1>11. QED BY <1>4, <1>5, <1>6, <1>7, <1>8, <1>9, <1>10 DEF ChatInv

LEMMA AskKeeps ==
    ASSUME ChatInv, NEW q \in 1..MaxSequence, Ask(q)
    PROVE  ChatInv'
<1>1. PICK n : n = Request("ask", open, epoch, q) OBVIOUS
<1>2. /\ pending = 0 /\ restoring = FALSE /\ q = sequence + 1 /\ flight' = flight \cup {n} /\ sequence' = q /\ pending' = q
      /\ shown' = shown \cup {q} /\ UNCHANGED <<server, open, stored, failed, restoring, epoch>>
  BY <1>1 DEF Ask, Send, Asking, ChatInv, ChatTyped
<1>3. epoch \in Nat /\ sequence \in Nat /\ q \in Nat /\ flight \in SUBSET RequestRecord BY <1>2 DEF ChatInv, ChatTyped
<1>4. /\ n \in RequestRecord /\ n.kind = "ask" /\ n.id = open /\ n.epoch = epoch /\ n.sequence = q /\ n.reply = Absent
      /\ n.served = FALSE
  BY <1>1, <1>3 DEF Request, RequestRecord, ChatInv, ChatTyped
<1>5. ~Opens(n) /\ ~Follows(n) /\ IsAsk(n) BY <1>4 DEF Opens, Follows, IsAsk
<1>6. \A x \in flight' : x = n \/ x \in flight BY <1>2
<1>7. \A x \in flight : x.epoch \in Nat /\ x.sequence \in Nat /\ x.epoch <= epoch /\ x.sequence <= sequence
  BY <1>3 DEF ChatInv, Numbered, RequestRecord
<1>8. \A x \in flight : ~IsAsk(x) BY <1>2 DEF ChatInv, QuestionWaits
<1>9. \A x \in flight : Opens(x) => x.epoch # epoch BY <1>2 DEF ChatInv, OpeningAlone
<1>10. ChatTyped'
  <2>1. flight' \in SUBSET RequestRecord BY <1>3, <1>4, <1>6
  <2>2. \A x \in flight' : /\ Opens(x) \/ Follows(x) => x.id \in Ids /\ x.reply \in {Absent} \cup SUBSET Messages
                           /\ IsAsk(x) => x.reply \in {Absent} \cup Ids
    BY <1>4, <1>5, <1>6 DEF ChatInv, ChatTyped
  <2>3. shown' \in SUBSET Messages BY <1>2, <1>3 DEF ChatInv, ChatTyped, Messages
  <2>4. QED BY <1>2, <1>3, <2>1, <2>2, <2>3 DEF ChatInv, ChatTyped
<1>11. Numbered'
  <2>1. \A x \in flight' : x.epoch <= epoch' /\ x.sequence <= sequence' BY <1>2, <1>3, <1>4, <1>6, <1>7
  <2>2. \A p \in shown' : p \in Nat => 0 < p /\ p <= sequence' BY <1>2, <1>3 DEF ChatInv, Numbered
  <2>3. \A c \in Ids : server'[c] # Absent => \A p \in server'[c] : p \in Nat => 0 < p /\ p <= sequence'
    BY <1>2, <1>3 DEF ChatInv, Numbered
  <2>4. \A r \in flight' : (Opens(r) \/ Follows(r)) /\ r.reply # Absent =>
          \A p \in r.reply : p \in Nat => 0 < p /\ p <= sequence'
    BY <1>2, <1>3, <1>5, <1>6 DEF ChatInv, Numbered
  <2>5. QED BY <2>1, <2>2, <2>3, <2>4 DEF Numbered
<1>12. QuestionWaits'
  <2>1. \A c \in Ids : server[c] # Absent => q \notin server[c] BY <1>2, <1>3 DEF ChatInv, Numbered
  <2>2. \A r \in flight : (Opens(r) \/ Follows(r)) /\ r.reply # Absent => q \notin r.reply
    BY <1>2, <1>3 DEF ChatInv, Numbered
  <2>3. \A r \in flight : r.epoch <= epoch /\ r.sequence # q BY <1>2, <1>3, <1>7
  <2>4. \A a \in flight' : IsAsk(a) => a = n BY <1>6, <1>8
  <2>5. QED BY <1>2, <1>3, <1>4, <1>5, <1>6, <2>1, <2>2, <2>3, <2>4 DEF QuestionWaits
<1>13. OpeningAlone' BY <1>2, <1>5, <1>6, <1>9 DEF OpeningAlone
<1>14. FollowsOpen' BY <1>2, <1>5, <1>6 DEF ChatInv, FollowsOpen
<1>15. Apart' BY <1>2, <1>5, <1>6 DEF ChatInv, Apart
<1>16. ShownIsOpen'
  <2>1. ASSUME NEW c \in Ids, server[c] # Absent, NEW p \in server[c], p \in shown' PROVE p = pending' \/ p \in failed \/ c = open'
    <3>1. CASE p = q BY <1>2, <3>1
    <3>2. CASE p \in shown
      <4>1. p = pending \/ p \in failed \/ c = open BY <2>1, <3>2 DEF ChatInv, ShownIsOpen
      <4>2. p # pending BY <1>2, <2>1 DEF ChatInv, Numbered
      <4>3. QED BY <1>2, <4>1, <4>2
    <3>3. QED BY <1>2, <2>1, <3>1, <3>2
  <2>2. QED BY <1>2, <2>1 DEF ChatInv, ShownIsOpen
<1>17. QED BY <1>10, <1>11, <1>12, <1>13, <1>14, <1>15, <1>16 DEF ChatInv

-----------------------------------------------------------------------------
(* The server                                                              *)

LEMMA ServeAskKeeps ==
    ASSUME ChatInv, NEW r \in flight, ServeAsk(r)
    PROVE  ChatInv'
<1>1. r.kind = "ask" /\ r.served = FALSE /\ UNCHANGED <<open, stored, shown, failed, pending, restoring, epoch, sequence>>
  BY DEF ServeAsk, ChatInv, ChatTyped, RequestRecord
<1>2. flight \in SUBSET RequestRecord /\ sequence \in Nat /\ epoch \in Nat BY DEF ChatInv, ChatTyped
<1>3. IsAsk(r) /\ r.reply = Absent /\ r.sequence = pending /\ r.sequence <= sequence /\ r.sequence \in Nat /\ 0 < r.sequence
  <2>1. IsAsk(r) /\ r.sequence \in Nat BY <1>1, <1>2 DEF IsAsk, RequestRecord
  <2>2. QED BY <1>1, <2>1 DEF ChatInv, QuestionWaits, Numbered
<1>4. PICK k \in {Absent} \cup Ids, e \in {Absent} \cup Ids :
         /\ Served(r, e) /\ e \in {Absent, k}
         /\ \/ UNCHANGED server /\ k = Absent
            \/ /\ k \in Ids /\ (r.id = Absent \/ k = r.id)
               /\ server' = [server EXCEPT ![k] = {r.sequence} \cup (IF server[k] = Absent THEN {} ELSE server[k])]
  BY DEF ServeAsk
<1>5. PICK n : n = [r EXCEPT !.served = TRUE, !.reply = e] OBVIOUS
<1>6. flight' = (flight \ {r}) \cup {n} BY <1>4, <1>5 DEF Served
<1>7. /\ n \in RequestRecord /\ n.kind = "ask" /\ n.id = r.id /\ n.epoch = r.epoch /\ n.sequence = r.sequence
      /\ n.served = TRUE /\ n.reply = e
  BY <1>1, <1>2, <1>5 DEF RequestRecord
<1>8. IsAsk(n) /\ ~Opens(n) /\ ~Follows(n) BY <1>7 DEF IsAsk, Opens, Follows
<1>9. \A x \in flight' : x = n \/ (x \in flight /\ ~IsAsk(x))
  <2>1. \A x \in flight : IsAsk(x) => x = r BY <1>3 DEF ChatInv, QuestionWaits
  <2>2. \A x \in flight' : x = n \/ (x \in flight /\ x # r) BY <1>6
  <2>3. QED BY <2>1, <2>2
<1>10. \A c \in Ids : /\ server'[c] \in {Absent} \cup SUBSET Messages
                      /\ server'[c] # Absent => \A q \in server'[c] :
                           \/ q = r.sequence /\ c = k
                           \/ server[c] # Absent /\ q \in server[c] /\ q # r.sequence
  <2>1. ASSUME NEW c \in Ids
        PROVE  /\ server'[c] \in {Absent} \cup SUBSET Messages
               /\ server'[c] # Absent => \A q \in server'[c] :
                    \/ q = r.sequence /\ c = k
                    \/ server[c] # Absent /\ q \in server[c] /\ q # r.sequence
    <3>1. server[c] \in {Absent} \cup SUBSET Messages /\ (server[c] # Absent => r.sequence \notin server[c])
      <4>1. server[c] # Absent => r.sequence \notin server[c] BY <1>1, <1>3 DEF ChatInv, QuestionWaits
      <4>2. QED BY <4>1 DEF ChatInv, ChatTyped
    <3>2. server'[c] = server[c] \/ (c = k /\ server'[c] = {r.sequence} \cup (IF server[c] = Absent THEN {} ELSE server[c]))
      BY <1>4 DEF ChatInv, ChatTyped
    <3>3. r.sequence \in Messages BY <1>3 DEF Messages
    <3>4. QED BY <3>1, <3>2, <3>3
  <2>2. QED BY <2>1
<1>11. ChatTyped'
  <2>1. flight' \in SUBSET RequestRecord BY <1>2, <1>6, <1>7
  <2>2. \A x \in flight' : /\ Opens(x) \/ Follows(x) => x.id \in Ids /\ x.reply \in {Absent} \cup SUBSET Messages
                           /\ IsAsk(x) => x.reply \in {Absent} \cup Ids
    BY <1>7, <1>8, <1>9 DEF ChatInv, ChatTyped
  <2>3. server' \in [Ids -> {Absent} \cup SUBSET Messages]
    <3>1. server \in [Ids -> {Absent} \cup SUBSET Messages] BY DEF ChatInv, ChatTyped
    <3>2. CASE UNCHANGED server BY <3>1, <3>2
    <3>3. CASE server' = [server EXCEPT ![k] = {r.sequence} \cup (IF server[k] = Absent THEN {} ELSE server[k])]
      <4>1. server' = [c \in Ids |-> server'[c]] BY <3>1, <3>3
      <4>2. QED BY <1>10, <4>1
    <3>4. QED BY <1>4, <3>2, <3>3
  <2>4. QED BY <1>1, <2>1, <2>2, <2>3 DEF ChatInv, ChatTyped
<1>12. Numbered'
  <2>1. \A x \in flight' : x.epoch <= epoch' /\ x.sequence <= sequence' BY <1>1, <1>7, <1>9 DEF ChatInv, Numbered
  <2>2. \A c \in Ids : server'[c] # Absent => \A q \in server'[c] : q \in Nat => 0 < q /\ q <= sequence
    BY <1>3, <1>10 DEF ChatInv, Numbered
  <2>3. QED BY <1>1, <1>8, <1>9, <2>1, <2>2 DEF ChatInv, Numbered
<1>13. QuestionWaits'
  <2>1. n.reply # Absent => \A c \in Ids : server'[c] # Absent /\ n.sequence \in server'[c] => c = n.reply
    BY <1>4, <1>7, <1>10
  <2>2. /\ n.sequence = pending /\ pending # 0
        /\ n.epoch = epoch => n.sequence = sequence /\ n.sequence \in shown /\ n.id = open
        /\ n.epoch # epoch => shown = {}
        /\ \A x \in flight : Follows(x) => x.epoch <= n.epoch /\ x.sequence # n.sequence
    BY <1>3, <1>7 DEF ChatInv, QuestionWaits
  <2>3. n.reply # Absent => n.id = Absent \/ n.reply = n.id BY <1>4, <1>7
  <2>4. \A a \in flight' : IsAsk(a) => a = n BY <1>9
  <2>5. \A x \in flight' : Follows(x) => x \in flight BY <1>8, <1>9
  <2>6. QED BY <1>1, <1>7, <2>1, <2>2, <2>3, <2>4, <2>5 DEF QuestionWaits
<1>14. OpeningAlone'
  <2>1. \A x \in flight : Opens(x) => x.epoch # epoch BY <1>3 DEF ChatInv, OpeningAlone
  <2>2. QED BY <1>1, <1>8, <1>9, <2>1 DEF OpeningAlone
<1>15. FollowsOpen' BY <1>1, <1>8, <1>9 DEF ChatInv, FollowsOpen
<1>16. Apart'
  <2>1. ASSUME NEW c \in Ids, NEW d \in Ids, c # d, server'[c] # Absent, server'[d] # Absent, NEW q \in server'[c]
        PROVE  q \notin server'[d]
    BY <1>10, <2>1 DEF ChatInv, Apart
  <2>2. ASSUME NEW x \in flight', NEW c \in Ids, Opens(x) \/ Follows(x), x.reply # Absent, c # x.id, server'[c] # Absent,
               NEW q \in server'[c]
        PROVE  q \notin x.reply
    <3>1. x \in flight /\ x.id \in Ids BY <1>8, <1>9, <2>2 DEF ChatInv, ChatTyped
    <3>2. CASE q = r.sequence
      BY <1>1, <1>3, <2>2, <3>1, <3>2 DEF ChatInv, QuestionWaits
    <3>3. CASE server[c] # Absent /\ q \in server[c] BY <2>2, <3>1, <3>3 DEF ChatInv, Apart
    <3>4. QED BY <1>10, <2>2, <3>2, <3>3
  <2>3. QED BY <2>1, <2>2 DEF Apart
<1>17. ShownIsOpen'
  <2>1. ASSUME NEW c \in Ids, server'[c] # Absent, NEW q \in server'[c], q \in shown PROVE q = pending \/ q \in failed \/ c = open
    BY <1>3, <1>10, <2>1 DEF ChatInv, ShownIsOpen
  <2>2. QED BY <1>1, <2>1 DEF ChatInv, ShownIsOpen
<1>18. QED BY <1>11, <1>12, <1>13, <1>14, <1>15, <1>16, <1>17 DEF ChatInv

-----------------------------------------------------------------------------
(* Answers                                                                 *)

\* What a request read comes onto the screen, as the open conversation.
LEMMA ShowStep ==
    ASSUME ChatInv, NEW r \in flight, Opens(r) \/ Follows(r), r.epoch = epoch, flight' = flight \ {r}, r.reply # Absent,
           shown' = r.reply, failed' = {}, open' = r.id, stored' = r.id \/ (open' = open /\ stored' = stored),
           \A a \in flight : ~IsAsk(a),
           Opens(r) \/ restoring' = restoring, restoring' \in BOOLEAN,
           UNCHANGED <<server, pending, epoch, sequence>>
    PROVE  ChatInv'
<1>1. r.id \in Ids /\ r.reply \in SUBSET Messages BY DEF ChatInv, ChatTyped
<1>2. \A x \in flight' : x \in flight /\ x # r OBVIOUS
<1>3. stored' \in Ids \cup {Absent} BY <1>1 DEF ChatInv, ChatTyped
<1>4. ChatTyped' BY <1>1, <1>2, <1>3 DEF ChatInv, ChatTyped
<1>5. Numbered' BY <1>2 DEF ChatInv, Numbered
<1>6. QuestionWaits' BY <1>2 DEF QuestionWaits
<1>7. OpeningAlone'
  <2>1. ASSUME NEW x \in flight', Opens(x), x.epoch = epoch PROVE Follows(r) /\ FALSE
    <3>1. x \in flight /\ x # r BY <1>2
    <3>2. QED BY <2>1, <3>1 DEF ChatInv, OpeningAlone
  <2>2. QED BY <2>1 DEF OpeningAlone
<1>8. FollowsOpen'
  <2>1. ASSUME NEW x \in flight', Follows(x), x.epoch = epoch PROVE x.id = r.id
    <3>1. x \in flight BY <1>2
    <3>2. Follows(r) BY <2>1, <3>1 DEF ChatInv, OpeningAlone
    <3>3. QED BY <2>1, <3>1, <3>2 DEF ChatInv, FollowsOpen
  <2>2. QED BY <2>1 DEF FollowsOpen
<1>9. Apart' BY <1>2 DEF ChatInv, Apart
<1>10. ShownIsOpen'
  <2>1. ASSUME NEW c \in Ids, server[c] # Absent, NEW q \in server[c], q \in r.reply PROVE c = r.id
    BY <2>1 DEF ChatInv, Apart
  <2>2. open' # Absent => stored' = open' BY DEF ChatInv, ShownIsOpen
  <2>3. QED BY <2>1, <2>2 DEF ShownIsOpen
<1>11. QED BY <1>4, <1>5, <1>6, <1>7, <1>8, <1>9, <1>10 DEF ChatInv

LEMMA OpenedKeeps ==
    ASSUME ChatInv, NEW r \in flight, Opened(r)
    PROVE  ChatInv'
<1>1. /\ r.kind \in {"restore", "open"} /\ flight' = flight \ {r} /\ UNCHANGED <<server, pending, epoch, sequence>>
  BY DEF Opened
<1>2. Opens(r) BY <1>1 DEF Opens
<1>3. CASE r.epoch # epoch
  <2>1. UNCHANGED <<restoring, open, stored, shown, failed>> BY <1>3 DEF Opened, Current
  <2>2. flight' \subseteq flight BY <1>1
  <2>3. QED BY <1>1, <2>1, <2>2, DropStep
<1>4. CASE r.epoch = epoch
  <2>1. /\ restoring' = FALSE
        /\ r.reply # Absent => open' = r.id /\ stored' = r.id /\ shown' = r.reply /\ failed' = {}
        /\ r.reply = Absent => \/ open' = Absent /\ stored' = Absent /\ shown' = {} /\ failed' = {}
                               \/ UNCHANGED <<open, stored, shown, failed>>
    BY <1>4 DEF Opened, Current, Display
  <2>2. \A a \in flight : ~IsAsk(a) BY <1>2, <1>4 DEF ChatInv, OpeningAlone
  <2>3. CASE r.reply # Absent BY <1>1, <1>2, <1>4, <2>1, <2>2, <2>3, ShowStep
  <2>4. CASE r.reply = Absent
    <3>1. \A x \in flight' : x \in flight /\ x # r BY <1>1
    <3>2. \A x \in flight' : x.epoch = epoch => ~Opens(x) /\ ~Follows(x) BY <1>2, <1>4, <3>1 DEF ChatInv, OpeningAlone
    <3>3. ChatTyped' BY <1>1, <2>1, <2>4, <3>1 DEF ChatInv, ChatTyped
    <3>4. Numbered' BY <1>1, <2>1, <2>4, <3>1 DEF ChatInv, Numbered
    <3>5. QuestionWaits' BY <2>2, <3>1 DEF QuestionWaits
    <3>6. OpeningAlone' BY <1>1, <3>2 DEF OpeningAlone
    <3>7. FollowsOpen' BY <1>1, <3>2 DEF FollowsOpen
    <3>8. Apart' BY <1>1, <3>1 DEF ChatInv, Apart
    <3>9. ShownIsOpen' BY <1>1, <2>1, <2>4 DEF ChatInv, ShownIsOpen
    <3>10. QED BY <3>3, <3>4, <3>5, <3>6, <3>7, <3>8, <3>9 DEF ChatInv
  <2>5. QED BY <2>3, <2>4
<1>5. QED BY <1>3, <1>4

LEMMA RefreshedKeeps ==
    ASSUME ChatInv, NEW r \in flight, Refreshed(r)
    PROVE  ChatInv'
<1>1. /\ r.kind = "refresh" /\ flight' = flight \ {r} /\ UNCHANGED <<server, open, stored, pending, restoring, epoch, sequence>>
      /\ IF r.reply # Absent /\ NoNewer(r) THEN shown' = r.reply /\ failed' = {} ELSE UNCHANGED <<shown, failed>>
  BY DEF Refreshed, Display
<1>2. Follows(r) BY <1>1 DEF Follows
<1>3. CASE r.reply # Absent /\ r.epoch = epoch /\ r.sequence = sequence
  <2>1. shown' = r.reply /\ failed' = {} BY <1>1, <1>3 DEF NoNewer, Current
  <2>2. \A a \in flight : ~IsAsk(a)
    <3>1. ASSUME NEW a \in flight, IsAsk(a) PROVE FALSE
      <4>1. r.epoch <= a.epoch /\ r.sequence # a.sequence BY <1>2, <3>1 DEF ChatInv, QuestionWaits
      <4>2. a.epoch \in Nat /\ epoch \in Nat /\ a.epoch <= epoch BY <3>1 DEF ChatInv, ChatTyped, Numbered, RequestRecord
      <4>3. a.epoch = epoch BY <1>3, <4>1, <4>2
      <4>4. a.sequence = sequence BY <3>1, <4>3 DEF ChatInv, QuestionWaits
      <4>5. QED BY <1>3, <4>1, <4>4
    <3>2. QED BY <3>1
  <2>3. r.id = open /\ restoring \in BOOLEAN BY <1>2, <1>3 DEF ChatInv, FollowsOpen, ChatTyped
  <2>4. QED BY <1>1, <1>2, <1>3, <2>1, <2>2, <2>3, ShowStep
<1>4. CASE ~(r.reply # Absent /\ r.epoch = epoch /\ r.sequence = sequence)
  <2>1. UNCHANGED <<shown, failed>> BY <1>1, <1>4 DEF NoNewer, Current
  <2>2. flight' \subseteq flight BY <1>1
  <2>3. QED BY <1>1, <2>1, <2>2, DropStep
<1>5. QED BY <1>3, <1>4

LEMMA AnsweredKeeps ==
    ASSUME ChatInv, NEW r \in flight, Answered(r)
    PROVE  ChatInv'
<1>1. r.kind = "ask" /\ pending' = 0 /\ UNCHANGED <<server, shown, restoring, epoch, sequence>> BY DEF Answered
<1>2. IsAsk(r) BY <1>1 DEF IsAsk
<1>3. flight \in SUBSET RequestRecord /\ r.reply \in {Absent} \cup Ids BY <1>2 DEF ChatInv, ChatTyped
<1>4. \A x \in flight : x # r => ~IsAsk(x) BY <1>2 DEF ChatInv, QuestionWaits
<1>5. ASSUME NEW c \in Ids, server[c] # Absent, NEW q \in server[c], q \in shown
      PROVE  (q = r.sequence /\ (r.reply # Absent => c = r.reply)) \/ q \in failed \/ c = open
  BY <1>2, <1>5 DEF ChatInv, ShownIsOpen, QuestionWaits
<1>6. CASE r.epoch = epoch /\ r.reply # Absent
  <2>1. PICK n : n = [r EXCEPT !.kind = "reveal", !.id = r.reply, !.served = FALSE, !.reply = Absent, !.was = Absent] OBVIOUS
  <2>2. open' = r.reply /\ stored' = r.reply /\ flight' = (flight \ {r}) \cup {n} /\ failed' = failed
    BY <1>6, <2>1 DEF Answered, Current
  <2>3. /\ n \in RequestRecord /\ n.kind = "reveal" /\ n.id = r.reply /\ n.epoch = r.epoch /\ n.sequence = r.sequence
        /\ n.reply = Absent
    BY <1>3, <1>6, <2>1 DEF RequestRecord
  <2>4. Follows(n) /\ ~Opens(n) /\ ~IsAsk(n) BY <2>3 DEF Follows, Opens, IsAsk
  <2>5. \A x \in flight' : x = n \/ (x \in flight /\ x # r /\ ~IsAsk(x))
    <3>1. \A x \in flight' : x = n \/ (x \in flight /\ x # r) BY <2>2
    <3>2. QED BY <1>4, <3>1
  <2>6. r.id = open /\ (open = Absent \/ open = r.reply) BY <1>2, <1>6 DEF ChatInv, QuestionWaits
  <2>7. ChatTyped'
    <3>1. flight' \in SUBSET RequestRecord BY <1>3, <2>2, <2>3
    <3>2. \A x \in flight' : /\ Opens(x) \/ Follows(x) => x.id \in Ids /\ x.reply \in {Absent} \cup SUBSET Messages
                             /\ IsAsk(x) => x.reply \in {Absent} \cup Ids
      BY <1>3, <1>6, <2>3, <2>4, <2>5 DEF ChatInv, ChatTyped
    <3>3. QED BY <1>1, <1>3, <2>2, <3>1, <3>2 DEF ChatInv, ChatTyped
  <2>8. Numbered' BY <1>1, <2>3, <2>5 DEF ChatInv, Numbered
  <2>9. QuestionWaits' BY <2>4, <2>5 DEF QuestionWaits
  <2>10. OpeningAlone'
    <3>1. \A x \in flight : Opens(x) => x.epoch # epoch BY <1>2 DEF ChatInv, OpeningAlone
    <3>2. QED BY <1>1, <2>4, <2>5, <3>1 DEF OpeningAlone
  <2>11. FollowsOpen'
    <3>1. ASSUME NEW x \in flight, Follows(x), x.epoch = epoch PROVE x.id = r.reply
      <4>1. x.id = open /\ x.id \in Ids BY <3>1 DEF ChatInv, FollowsOpen, ChatTyped
      <4>2. QED BY <2>6, <4>1, ChatAssumption
    <3>2. QED BY <1>1, <2>2, <2>3, <2>5, <3>1 DEF FollowsOpen
  <2>12. Apart' BY <1>1, <2>3, <2>5 DEF ChatInv, Apart
  <2>13. ShownIsOpen'
    <3>1. ASSUME NEW c \in Ids, server[c] # Absent, NEW q \in server[c], q \in shown
          PROVE  c = r.reply \/ q \in failed
      <4>1. c = r.reply \/ q \in failed \/ c = open BY <1>5, <1>6, <3>1
      <4>2. QED BY <2>6, <4>1, ChatAssumption
    <3>2. QED BY <1>1, <2>2, <3>1 DEF ShownIsOpen
  <2>14. QED BY <2>7, <2>8, <2>9, <2>10, <2>11, <2>12, <2>13 DEF ChatInv
<1>7. CASE ~(r.epoch = epoch /\ r.reply # Absent)
  <2>1. /\ flight' = flight \ {r} /\ UNCHANGED <<open, stored>>
        /\ failed' = IF r.epoch = epoch /\ r.reply = Absent THEN failed \cup {r.sequence} ELSE failed
    BY <1>7 DEF Answered, Current
  <2>2. \A x \in flight' : x \in flight /\ ~IsAsk(x) BY <1>4, <2>1
  <2>3. ChatTyped' BY <1>1, <2>1, <2>2 DEF ChatInv, ChatTyped
  <2>4. Numbered' BY <1>1, <2>2 DEF ChatInv, Numbered
  <2>5. QuestionWaits' BY <2>2 DEF QuestionWaits
  <2>6. OpeningAlone' BY <1>1, <2>2 DEF ChatInv, OpeningAlone
  <2>7. FollowsOpen' BY <1>1, <2>1, <2>2 DEF ChatInv, FollowsOpen
  <2>8. Apart' BY <1>1, <2>2 DEF ChatInv, Apart
  <2>9. ShownIsOpen'
    <3>1. ASSUME NEW c \in Ids, server[c] # Absent, NEW q \in server[c], q \in shown
          PROVE  q \in failed' \/ c = open
      <4>1. r.epoch = epoch /\ r.reply = Absent BY <1>2, <1>7, <3>1 DEF ChatInv, QuestionWaits
      <4>2. q = r.sequence \/ q \in failed \/ c = open BY <1>5, <3>1
      <4>3. QED BY <2>1, <4>1, <4>2
    <3>2. open' # Absent => stored' = open' BY <2>1 DEF ChatInv, ShownIsOpen
    <3>3. QED BY <1>1, <2>1, <3>1, <3>2 DEF ShownIsOpen
  <2>10. QED BY <2>3, <2>4, <2>5, <2>6, <2>7, <2>8, <2>9 DEF ChatInv
<1>8. QED BY <1>6, <1>7

-----------------------------------------------------------------------------

LEMMA ChatStep == ChatInv /\ [ChatNext]_chatVars => ChatInv'
<1>1. SUFFICES ASSUME ChatInv, [ChatNext]_chatVars PROVE ChatInv' OBVIOUS
<1>2. /\ epoch \in Nat /\ sequence \in Nat /\ flight \in SUBSET RequestRecord /\ restoring \in BOOLEAN
      /\ server \in [Ids -> {Absent} \cup SUBSET Messages] /\ open \in {Absent} \cup Ids
      /\ \A r \in flight : r.epoch <= epoch /\ r.sequence <= sequence
  BY <1>1 DEF ChatInv, ChatTyped, Numbered
<1>3. ASSUME NEW c \in Ids, Delete(c) PROVE ChatInv'
  <2>1. PICK n : n = Request("delete", c, epoch, sequence) OBVIOUS
  <2>2. n \in RequestRecord /\ n.kind = "delete" /\ n.epoch = epoch /\ n.sequence = sequence
    BY <1>2, <2>1 DEF Request, RequestRecord
  <2>3. flight' = flight \cup {n} /\ UNCHANGED <<server, open, stored, shown, failed, pending, restoring, epoch, sequence>>
    BY <1>3, <2>1 DEF Delete, Send
  <2>4. n.epoch <= epoch /\ n.sequence <= sequence BY <1>2, <2>2
  <2>5. flight' \subseteq flight \cup {n} /\ server' \in [Ids -> {Absent} \cup SUBSET Messages] BY <1>2, <2>3
  <2>6. \A d \in Ids : server'[d] = server[d] \/ server'[d] = Absent BY <2>3
  <2>7. QED BY <1>1, <2>2, <2>3, <2>4, <2>5, <2>6, LesserStep
<1>4. CASE StartNew
  <2>1. flight' \subseteq flight /\ sequence' \in Nat /\ sequence <= sequence' /\ restoring' \in BOOLEAN
    <3>1. flight' = flight /\ sequence' = sequence /\ restoring' = FALSE BY <1>4 DEF StartNew
    <3>2. flight' \subseteq flight BY <3>1
    <3>3. sequence' \in Nat /\ sequence <= sequence' BY <1>2, <3>1
    <3>4. restoring' \in BOOLEAN BY <3>1
    <3>5. QED BY <3>2, <3>3, <3>4
  <2>2. epoch' = epoch + 1 /\ open' = Absent /\ stored' = Absent /\ shown' = {} /\ failed' = {} /\ UNCHANGED <<server, pending>>
    BY <1>4 DEF StartNew, Display
  <2>3. QED BY <1>1, <2>1, <2>2, LeaveStep
<1>5. ASSUME NEW r \in flight, ServeRead(r) PROVE ChatInv'
  <2>1. r.kind \in {"restore", "open", "refresh"} /\ UNCHANGED <<server, open, stored, shown, failed, pending, restoring, epoch, sequence>>
    BY <1>5 DEF ServeRead
  <2>2. PICK e \in {server[r.id], Absent} : Served(r, e) BY <1>5 DEF ServeRead
  <2>3. PICK n : n = [r EXCEPT !.served = TRUE, !.reply = e] OBVIOUS
  <2>4. flight' = (flight \ {r}) \cup {n} BY <2>2, <2>3 DEF Served
  <2>5. Opens(r) \/ Follows(r) BY <2>1 DEF Opens, Follows
  <2>6. e \in {Absent} \cup SUBSET Messages BY <1>1, <1>2, <2>2, <2>5 DEF ChatInv, ChatTyped
  <2>7. /\ n \in RequestRecord /\ n.kind = r.kind /\ n.id = r.id /\ n.epoch = r.epoch /\ n.sequence = r.sequence
        /\ n.reply = e
    BY <1>2, <2>3, <2>6 DEF RequestRecord
  <2>8. (Opens(r) /\ Opens(n)) \/ (Follows(r) /\ Follows(n)) BY <2>1, <2>7 DEF Opens, Follows
  <2>9. n.reply = r.reply \/ n.reply = Absent \/ n.reply = server[r.id] BY <2>2, <2>7
  <2>10. QED BY <1>1, <2>1, <2>4, <2>7, <2>8, <2>9, ReadStep
<1>6. ASSUME NEW r \in flight, ServeDelete(r) PROVE ChatInv'
  <2>1. r.kind = "delete" /\ UNCHANGED <<open, stored, shown, failed, pending, restoring, epoch, sequence>> BY <1>6 DEF ServeDelete
  <2>2. CASE flight' = flight \ {r} /\ UNCHANGED server
    <3>1. flight' \subseteq flight BY <2>2
    <3>2. QED BY <1>1, <2>1, <2>2, <3>1, DropStep
  <2>3. CASE server' = [server EXCEPT ![r.id] = Absent] /\ Served(r, r.id)
    <3>1. PICK n : n = [r EXCEPT !.served = TRUE, !.reply = r.id] OBVIOUS
    <3>2. n \in RequestRecord /\ n.kind = "delete" /\ n.epoch = r.epoch /\ n.sequence = r.sequence
      BY <1>2, <2>1, <3>1 DEF RequestRecord
    <3>3. flight' \subseteq flight \cup {n} BY <2>3, <3>1 DEF Served
    <3>4. server' \in [Ids -> {Absent} \cup SUBSET Messages] /\ \A d \in Ids : server'[d] = server[d] \/ server'[d] = Absent
      BY <1>2, <2>3
    <3>5. n.epoch <= epoch /\ n.sequence <= sequence BY <1>2, <3>2
    <3>6. QED BY <1>1, <2>1, <3>2, <3>3, <3>4, <3>5, LesserStep
  <2>4. QED BY <1>6, <2>2, <2>3 DEF ServeDelete
<1>7. ASSUME NEW r \in flight, Revealed(r) PROVE ChatInv'
  <2>1. r.kind = "reveal" /\ UNCHANGED <<server, open, stored, shown, failed, pending, restoring, epoch, sequence>>
    BY <1>7 DEF Revealed
  <2>2. CASE ~NoNewer(r)
    <3>1. flight' \subseteq flight BY <1>7, <2>2 DEF Revealed
    <3>2. QED BY <1>1, <2>1, <3>1, DropStep
  <2>3. CASE NoNewer(r)
    <3>1. PICK n : n = [r EXCEPT !.kind = "refresh"] OBVIOUS
    <3>2. flight' = (flight \ {r}) \cup {n} BY <1>7, <2>3, <3>1 DEF Revealed
    <3>3. /\ n \in RequestRecord /\ n.kind = "refresh" /\ n.id = r.id /\ n.epoch = r.epoch /\ n.sequence = r.sequence
          /\ n.reply = r.reply
      BY <1>2, <3>1 DEF RequestRecord
    <3>4. Follows(r) /\ Follows(n) BY <2>1, <3>3 DEF Follows
    <3>5. QED BY <1>1, <2>1, <3>2, <3>3, <3>4, ReadStep
  <2>4. QED BY <2>2, <2>3
<1>8. ASSUME NEW r \in flight, Deleted(r) PROVE ChatInv'
  <2>1. flight' = flight \ {r} /\ UNCHANGED <<server, pending, restoring>> BY <1>8 DEF Deleted
  <2>2. flight' \subseteq flight BY <2>1
  <2>3. CASE r.id = r.was
    <3>1. epoch' = epoch + 1 /\ sequence' = sequence + 1 /\ open' = Absent /\ stored' = Absent /\ shown' = {} /\ failed' = {}
      BY <1>8, <2>3 DEF Deleted, Display
    <3>2. sequence' \in Nat /\ sequence <= sequence' /\ restoring' \in BOOLEAN BY <1>2, <2>1, <3>1
    <3>3. QED BY <1>1, <2>1, <2>2, <3>1, <3>2, LeaveStep
  <2>4. CASE r.id # r.was
    <3>1. UNCHANGED <<epoch, sequence, open, stored, shown, failed>> BY <1>8, <2>4 DEF Deleted
    <3>2. QED BY <1>1, <2>1, <2>2, <3>1, DropStep
  <2>5. QED BY <2>3, <2>4
<1>9. CASE UNCHANGED chatVars
  <2>1. flight' \subseteq flight /\ UNCHANGED <<server, open, stored, shown, failed, pending, restoring, epoch, sequence>>
    BY <1>9 DEF chatVars
  <2>2. QED BY <1>1, <2>1, DropStep
<1>10. QED BY <1>1, <1>3, <1>4, <1>5, <1>6, <1>7, <1>8, <1>9, OpenKeeps, AskKeeps, ServeAskKeeps, OpenedKeeps,
              AnsweredKeeps, RefreshedKeeps DEF ChatNext

\* A question waited for stays on the screen while its conversation does, and no message
\* of another conversation than the open one is on it but a question that failed, shown
\* with its error and perhaps saved elsewhere; in whatever order openings, questions,
\* deletions and refreshes are served and handled (chat-workspace.tsx).
THEOREM ScreenKeptAlways == ChatSpec => []ScreenKept
<1>1. ChatInit => ChatInv
  <2>1. SUFFICES ASSUME ChatInit PROVE ChatInv OBVIOUS
  <2>2. /\ server = [c \in Ids |-> IF c \in Before THEN {c} ELSE Absent] /\ open = Absent /\ shown = {} /\ pending = 0
        /\ epoch = 1 /\ sequence = 0 /\ stored \in Before \cup {Absent} /\ restoring = (stored # Absent)
    BY <2>1 DEF ChatInit
  <2>3. ASSUME NEW r \in flight
        PROVE  /\ r \in RequestRecord /\ r.kind = "restore" /\ r.id = stored /\ r.epoch = 1 /\ r.sequence = 0
               /\ r.reply = Absent /\ stored # Absent /\ stored \in Ids /\ flight = {r}
    <3>1. stored # Absent /\ r = Request("restore", stored, 1, 0) /\ flight = {r} BY <2>1, <2>2, <2>3 DEF ChatInit
    <3>2. stored \in Ids BY <2>2, <3>1, ChatAssumption
    <3>3. QED BY <2>2, <3>1, <3>2 DEF Request, RequestRecord
  <2>4. \A r \in flight : Opens(r) /\ ~Follows(r) /\ ~IsAsk(r) BY <2>3 DEF Opens, Follows, IsAsk
  <2>5. ChatTyped
    <3>1. server \in [Ids -> {Absent} \cup SUBSET Messages] BY <2>2 DEF Messages
    <3>2. stored \in Ids \cup {Absent} BY <2>2, ChatAssumption
    <3>3. restoring \in BOOLEAN BY <2>2
    <3>4. QED BY <2>2, <2>3, <2>4, <3>1, <3>2, <3>3 DEF ChatTyped
  <2>6. Numbered
    <3>1. \A c \in Ids : server[c] # Absent => \A q \in server[c] : q = c BY <2>2
    <3>2. QED BY <2>2, <2>3, <3>1, ChatAssumption DEF Numbered
  <2>7. QuestionWaits BY <2>4 DEF QuestionWaits
  <2>8. OpeningAlone
    <3>1. ASSUME NEW r \in flight PROVE restoring = TRUE /\ \A x \in flight : x = r BY <2>2, <2>3
    <3>2. QED BY <2>4, <3>1 DEF OpeningAlone
  <2>9. FollowsOpen BY <2>4 DEF FollowsOpen
  <2>10. Apart
    <3>1. \A c \in Ids : server[c] # Absent => \A q \in server[c] : q = c BY <2>2
    <3>2. QED BY <2>3, <3>1 DEF Apart
  <2>11. ShownIsOpen BY <2>2 DEF ShownIsOpen
  <2>12. QED BY <2>5, <2>6, <2>7, <2>8, <2>9, <2>10, <2>11 DEF ChatInv
<1>2. ChatInv /\ [ChatNext]_chatVars => ChatInv' BY ChatStep
<1>3. ChatInv => ScreenKept
  <2>1. ChatInv => QuestionKept BY DEF ChatInv, QuestionWaits, QuestionKept, IsAsk
  <2>2. QED BY <2>1 DEF ChatInv, ScreenKept
<1>4. QED BY <1>1, <1>2, <1>3, PTL DEF ChatSpec

-----------------------------------------------------------------------------
(* Conversations: the inductive invariant.                                 *)

\* A turn is a record of these fields, and so is what it remembers.
Fields == {"pc", "number", "seen", "mentions", "position", "memory", "intent", "target", "targets", "leans", "wide",
           "answer"}
IsTurn(t) == t = [x \in Fields |-> t[x]]
IsMemory(m) == m = [x \in {"shown", "listed", "foldered", "attached", "empty", "answer"} |-> m[x]]

\* Messages in a row, of which only answers list files.
Honest(h) ==
  /\ \E S : h \in Seq(S)
  /\ \A i \in 1..Len(h) : h[i].lists # {} => Assistant(h, i)

\* A turn at work that leans on an answer kept out has files to read, but for counts, themes and talk.
LeansOnExcluded(t) == t.memory.answer = "excluded" /\ t.mentions = {} /\ t.target \in Leaning
Grounded(t) ==
  t.pc = "work" /\ LeansOnExcluded(t) /\ t.intent \notin {"conversation"} \cup Catalogued => t.targets # {}
Narrow(t) == t.pc = "finish" /\ t.wide /\ t.leans => t.intent \in Catalogued

\* What holds of each turn by itself.
Sound(t) ==
  /\ IsTurn(t) /\ IsMemory(t.memory) /\ Grounded(t) /\ Narrow(t)
  /\ t.pc \in {"append", "check"} => Honest(t.seen)

\* Past its place in the queue a turn holds the conversation, and has the next position of it.
Underway == {"check", "decide", "execute", "work", "finish", "unavailable"}
Holds == \A q \in Requests : turn[q].pc \notin {"idle", "append"} => lock = q
Placed == \A q \in Requests : turn[q].pc \in Underway => turn[q].position = Len(messages) + 1

ConversationInv ==
  /\ turn = [q \in Requests |-> turn[q]] /\ \A q \in Requests : Sound(turn[q])
  /\ Holds /\ Placed /\ Honest(messages) /\ TurnsContiguous

-----------------------------------------------------------------------------
(* The last message of a kind.                                             *)

LEMMA GreatestIsOne ==
  ASSUME NEW n \in Nat, NEW S \in SUBSET (1..n), S # {}
  PROVE  Greatest(S) \in S /\ \A j \in S : j <= Greatest(S)
<1> DEFINE T == {k \in Nat : \E i \in S : k = n - i}
<1> DEFINE R == OpToRel(<, Nat)
<1>1. T \subseteq Nat /\ T # {}
  <2>1. PICK i \in S : TRUE OBVIOUS
  <2>2. i \in 1..n OBVIOUS
  <2>3. n - i \in Nat BY <2>2
  <2>4. n - i \in T BY <2>1, <2>3
  <2>5. QED BY <2>4
<1>2. PICK k \in T : \A l \in T : ~(<<l, k>> \in R)
  <2>1. IsWellFoundedOn(R, Nat) BY NatLessThanWellFounded
  <2> HIDE DEF T, R
  <2>2. QED BY <1>1, <2>1, WFMin
<1>3. PICK i \in S : k = n - i OBVIOUS
<1>4. \A j \in S : j <= i
  <2>1. SUFFICES ASSUME NEW j \in S PROVE j <= i OBVIOUS
  <2>2. i \in 1..n /\ j \in 1..n /\ n - j \in Nat OBVIOUS
  <2>3. n - j \in T BY <2>2
  <2>4. ~(<<n - j, k>> \in R) BY <1>2, <2>3
  <2>5. ~(n - j < k) BY <2>2, <2>4, <1>1 DEF OpToRel
  <2>6. QED BY <1>3, <2>2, <2>5
<1>5. QED BY <1>4 DEF Greatest

\* Of consecutive numbers it is the last.
LEMMA GreatestOfAll == ASSUME NEW n \in Nat PROVE Greatest(1..n) = n
<1>1. CASE n = 0 BY <1>1 DEF Greatest
<1>2. CASE n # 0
  <2>1. n \in 1..n BY <1>2
  <2>2. Greatest(1..n) \in 1..n /\ \A j \in 1..n : j <= Greatest(1..n) BY <2>1, GreatestIsOne
  <2>3. QED BY <2>1, <2>2
<1>3. QED BY <1>1, <1>2

\* The places of messages that follow one another are the numbers up to the last.
LEMMA PlacesOfAll ==
  ASSUME Honest(messages), TurnsContiguous
  PROVE  Len(messages) \in Nat /\ {messages[i].position : i \in 1..Len(messages)} = 1..Len(messages)
<1>1. Len(messages) \in Nat BY DEF Honest
<1>2. \A i \in 1..Len(messages) : messages[i].position = i BY DEF TurnsContiguous
<1>3. QED BY <1>1, <1>2

-----------------------------------------------------------------------------
(* What a turn is shown of earlier answers.                                *)

LEMMA LatestIsUsed ==
  ASSUME NEW h, Honest(h), Latest(h) # 0
  PROVE  Latest(h) \in Used(h) /\ Latest(h) \in 1..Len(h)
<1> DEFINE S == {i \in 1..Len(h) : Assistant(h, i)}
<1>1. Len(h) \in Nat BY DEF Honest
<1>2. S \in SUBSET (1..Len(h)) OBVIOUS
<1>3. S # {} BY DEF Latest, Greatest
<1>4. Latest(h) \in S BY <1>1, <1>2, <1>3, GreatestIsOne DEF Latest
<1>5. QED BY <1>1, <1>4 DEF Used

LEMMA ListingIsUsed ==
  ASSUME NEW h, Honest(h), Listing(h) # 0, h[Listing(h)].lists # {}
  PROVE  Listing(h) \in Used(h)
<1> DEFINE S == {i \in 1..Len(h) : h[i].lists # {} \/ h[i].listing}
<1>1. Len(h) \in Nat BY DEF Honest
<1>2. S \in SUBSET (1..Len(h)) OBVIOUS
<1>3. S # {} BY DEF Listing, Greatest
<1>4. Listing(h) \in S BY <1>1, <1>2, <1>3, GreatestIsOne DEF Listing
<1>5. Assistant(h, Listing(h)) BY <1>4 DEF Honest
<1>6. QED BY <1>1, <1>4, <1>5 DEF Used

\* An answer that is used and not kept out names nothing out of reach.
LEMMA KeptIsUsable ==
  ASSUME NEW h, NEW mentions, NEW i \in Used(h), i \notin Excluded(h, mentions)
  PROVE  \A f \in Recorded(h[i]) : UsableNode(f)
<1>1. CASE Recorded(h[i]) = {} BY <1>1
<1>2. CASE Recorded(h[i]) # {}
  <2>1. (\A f \in h[i].cites : UsableDocument(f)) /\ \A f \in h[i].lists : UsableNode(f) BY <1>2 DEF Excluded
  <2>2. QED BY <2>1 DEF Recorded, UsableDocument, UsableNode
<1>3. QED BY <1>1, <1>2

LEMMA ShownIsUsable ==
  ASSUME NEW h, NEW mentions, Honest(h)
  PROVE  \A f \in Memory(h, mentions).shown : UsableNode(f)
<1> DEFINE X == Excluded(h, mentions)
<1>1. Memory(h, mentions).shown = Remembered(h, X) BY DEF Memory
<1>2. ASSUME NEW i \in ({k \in InWindow(h) : Assistant(h, k)} \cup ({Latest(h)} \ {0})) \ X
      PROVE  \A f \in Recorded(h[i]) : UsableNode(f)
  <2>1. i \in Used(h)
    <3>1. CASE i = Latest(h)
      <4>1. i # 0 BY <1>2 DEF InWindow, Honest
      <4>2. QED BY <3>1, <4>1, LatestIsUsed
    <3>2. CASE i \in InWindow(h) /\ Assistant(h, i)
      <4>1. Len(h) \in Nat BY DEF Honest
      <4>2. i \in 1..Len(h) BY <3>2 DEF InWindow
      <4>3. i > 0 BY <4>1, <4>2
      <4>4. QED BY <3>2, <4>3 DEF Used
    <3>3. QED BY <1>2, <3>1, <3>2
  <2>2. QED BY <1>2, <2>1, KeptIsUsable
<1>3. ASSUME ~ListingExcluded(h, X) PROVE \A f \in Listed(h, X) : UsableNode(f)
  <2>1. CASE Listing(h) # 0 /\ h[Listing(h)].lists # {}
    <3>1. Listing(h) \in Used(h) BY <2>1, ListingIsUsed
    <3>2. Listing(h) \notin X BY <1>3, <2>1 DEF ListingExcluded
    <3>3. Listed(h, X) = h[Listing(h)].lists BY <2>1 DEF Listed
    <3>4. \A f \in Recorded(h[Listing(h)]) : UsableNode(f) BY <3>1, <3>2, KeptIsUsable
    <3>5. QED BY <3>3, <3>4 DEF Recorded
  <2>2. CASE ~(Listing(h) # 0 /\ h[Listing(h)].lists # {})
    <3>1. CASE Latest(h) = 0 BY <2>2, <3>1 DEF Listed
    <3>2. CASE Latest(h) # 0
      <4>1. Latest(h) \in Used(h) BY <3>2, LatestIsUsed
      <4>2. Latest(h) \notin X BY <1>3, <2>2 DEF ListingExcluded
      <4>3. Listed(h, X) \subseteq h[Latest(h)].cites BY <2>2, <3>2 DEF Listed
      <4>4. \A f \in Recorded(h[Latest(h)]) : UsableNode(f) BY <4>1, <4>2, KeptIsUsable
      <4>5. QED BY <4>3, <4>4 DEF Recorded
    <3>3. QED BY <3>1, <3>2
  <2>3. QED BY <2>1, <2>2
<1>4. ASSUME NEW f \in Remembered(h, X) PROVE UsableNode(f)
  <2> DEFINE U == ({i \in InWindow(h) : Assistant(h, i)} \cup ({Latest(h)} \ {0})) \ X
             A == UNION {Recorded(h[i]) : i \in U}
             B == IF ListingExcluded(h, X) THEN {} ELSE Listed(h, X)
  <2>1. \A i \in U : \A g \in Recorded(h[i]) : UsableNode(g) BY <1>2
  <2>2. Remembered(h, X) = A \cup B BY DEF Remembered
  <2>3. \A g \in B : UsableNode(g) BY <1>3
  <2> HIDE DEF U
  <2>4. \A g \in A : UsableNode(g) BY <2>1
  <2> HIDE DEF A, B
  <2>5. QED BY <1>4, <2>2, <2>3, <2>4
<1>5. QED BY <1>1, <1>4

\* What may be shown again of the history is honest as the history is.
LEMMA PresentIsHonest == ASSUME Honest(messages) PROVE Honest(Present(messages))
<1> DEFINE n == Len(messages)
           P == [i \in 1..n |-> IF Assistant(messages, i) /\ ~Shown(messages[i])
                                 THEN Hidden(messages[i].position) ELSE messages[i]]
           S == {P[i] : i \in 1..n}
<1>1. n \in Nat BY DEF Honest
<1>2. Present(messages) = P BY DEF Present
<1>3. P \in [1..n -> S] OBVIOUS
<1>4. P \in Seq(S) /\ Len(P) = n BY <1>1, <1>3
<1>5. ASSUME NEW i \in 1..n, P[i].lists # {} PROVE P[i].role = "assistant"
  <2>1. CASE Assistant(messages, i) /\ ~Shown(messages[i])
    <3>1. P[i] = Hidden(messages[i].position) BY <2>1
    <3>2. QED BY <3>1 DEF Hidden, Message
  <2>2. CASE ~(Assistant(messages, i) /\ ~Shown(messages[i]))
    <3>1. P[i] = messages[i] BY <2>2
    <3>2. messages[i].lists # {} => messages[i].role = "assistant" BY DEF Honest, Assistant
    <3>3. QED BY <1>5, <3>1, <3>2
  <2>3. QED BY <2>1, <2>2
<1> HIDE DEF P, S
<1>6. QED BY <1>2, <1>4, <1>5 DEF Honest, Assistant
-----------------------------------------------------------------------------
(* The steps.                                                              *)

LEMMA SetsOne ==
  ASSUME ConversationInv, NEW r \in Requests, NEW t, Sets(r, t)
  PROVE  /\ turn' = [q \in Requests |-> turn'[q]] /\ turn'[r] = t
         /\ \A q \in Requests : q # r => turn'[q] = turn[q]
BY DEF ConversationInv, Sets

\* A step of one turn that stores nothing.
LEMMA TurnStep ==
  ASSUME ConversationInv, NEW r \in Requests, NEW t, Sets(r, t), Sound(t), UNCHANGED messages,
         lock' = lock \/ (lock = Nobody /\ lock' = r),
         t.pc \notin {"idle", "append"} => lock' = r,
         t.pc \in Underway => t.position = Len(messages) + 1
  PROVE  ConversationInv'
<1>1. /\ turn' = [q \in Requests |-> turn'[q]] /\ turn'[r] = t
      /\ \A q \in Requests : q # r => turn'[q] = turn[q]
  BY SetsOne
<1>2. \A q \in Requests : Sound(turn'[q])
  <2>1. SUFFICES ASSUME NEW q \in Requests PROVE Sound(turn'[q]) OBVIOUS
  <2>2. CASE q = r BY <1>1, <2>2
  <2>3. CASE q # r
    <3>1. Sound(turn[q]) BY DEF ConversationInv
    <3>2. turn'[q] = turn[q] BY <1>1, <2>3
    <3>3. QED BY <3>1, <3>2
  <2>4. QED BY <2>2, <2>3
<1>3. Holds'
  <2>1. SUFFICES ASSUME NEW q \in Requests, turn'[q].pc \notin {"idle", "append"} PROVE lock' = q BY DEF Holds
  <2>2. CASE q = r BY <1>1, <2>1, <2>2
  <2>3. CASE q # r
    <3>1. lock = q BY <1>1, <2>1, <2>3 DEF ConversationInv, Holds
    <3>2. lock # Nobody BY <3>1, ConversationAssumption
    <3>3. QED BY <3>1, <3>2
  <2>4. QED BY <2>2, <2>3
<1>4. Placed'
  <2>1. SUFFICES ASSUME NEW q \in Requests, turn'[q].pc \in Underway PROVE turn'[q].position = Len(messages) + 1
    BY DEF Placed
  <2>2. CASE q = r BY <1>1, <2>1, <2>2
  <2>3. CASE q # r BY <1>1, <2>1, <2>3 DEF ConversationInv, Placed
  <2>4. QED BY <2>2, <2>3
<1>5. Honest(messages)' /\ TurnsContiguous' BY DEF ConversationInv, TurnsContiguous, Assistant
<1>6. QED BY <1>1, <1>2, <1>3, <1>4, <1>5 DEF ConversationInv

LEMMA LoadTurnKeeps ==
  ASSUME ConversationInv, NEW r \in Requests, NEW mentions, LoadTurn(r, mentions) PROVE ConversationInv'
<1> DEFINE t == [Idle EXCEPT !.pc = "append", !.number = begun + 1, !.seen = Present(messages), !.mentions = mentions]
<1>1. Sets(r, t) /\ UNCHANGED <<messages, lock>> BY DEF LoadTurn
<1>2. t.pc = "append" /\ t.seen = Present(messages) BY DEF Idle
<1>3. IsTurn(t) /\ IsMemory(t.memory) BY DEF IsTurn, Fields, IsMemory, Idle, NoMemory
<1>4. Honest(Present(messages)) BY PresentIsHonest DEF ConversationInv
<1> HIDE DEF t
<1>5. Sound(t) BY <1>2, <1>3, <1>4 DEF Sound, Grounded, Narrow
<1>6. QED BY <1>1, <1>2, <1>5, TurnStep DEF Underway

LEMMA TakeTurnKeeps ==
  ASSUME ConversationInv, NEW r \in Requests, TakeTurn(r) PROVE ConversationInv'
<1>1. PICK s : s = turn[r] OBVIOUS
<1> DEFINE t == [s EXCEPT !.pc = "check", !.position = NextPosition]
<1>2. Sets(r, t) /\ UNCHANGED messages /\ lock = Nobody /\ lock' = r /\ s.pc = "append"
  BY <1>1 DEF TakeTurn, ConversationFree, At
<1>3. Sound(s) BY <1>1 DEF ConversationInv
<1>4. t.pc = "check" /\ t.seen = s.seen /\ t.position = NextPosition /\ IsTurn(t) /\ t.memory = s.memory
  BY <1>3 DEF Sound, IsTurn, Fields
<1>5. NextPosition = Len(messages) + 1
  <2>1. Len(messages) \in Nat /\ {messages[i].position : i \in 1..Len(messages)} = 1..Len(messages)
    BY PlacesOfAll DEF ConversationInv
  <2>2. QED BY <2>1, GreatestOfAll DEF NextPosition
<1> HIDE DEF t
<1>6. Sound(t) BY <1>2, <1>3, <1>4 DEF Sound, Grounded, Narrow
<1>7. QED BY <1>2, <1>4, <1>5, <1>6, TurnStep

LEMMA CheckKeeps ==
  ASSUME ConversationInv, NEW r \in Requests, Check(r) PROVE ConversationInv'
<1>1. PICK s : s = turn[r] OBVIOUS
<1>2. PICK m : m = Memory(s.seen, s.mentions) OBVIOUS
<1> DEFINE t == [s EXCEPT !.pc = "decide", !.memory = m, !.seen = <<>>]
<1>3. Sets(r, t) /\ UNCHANGED <<messages, lock>> /\ s.pc = "check" BY <1>1, <1>2 DEF Check, At
<1>4. Sound(s) BY <1>1 DEF ConversationInv
<1>5. t.pc = "decide" /\ t.position = s.position /\ IsTurn(t) /\ t.memory = m
  BY <1>4 DEF Sound, IsTurn, Fields
<1>6. IsMemory(m) BY <1>2 DEF IsMemory, Memory
<1>7. lock = r /\ s.position = Len(messages) + 1 BY <1>1, <1>3 DEF ConversationInv, Holds, Placed, Underway
<1> HIDE DEF t
<1>8. Sound(t) BY <1>5, <1>6 DEF Sound, Grounded, Narrow
<1>9. QED BY <1>3, <1>5, <1>7, <1>8, TurnStep

LEMMA DecideKeeps ==
  ASSUME ConversationInv, NEW r \in Requests, Decide(r) PROVE ConversationInv'
<1>1. PICK s : s = turn[r] OBVIOUS
<1> DEFINE t == [s EXCEPT !.pc = "execute", !.memory.shown = {}]
<1>2. s.pc = "decide" /\ UNCHANGED <<messages, lock>> BY <1>1 DEF Decide, At
<1>3. \E intent, target, targets : Sets(r, [t EXCEPT !.intent = intent, !.target = target, !.targets = targets])
  <2>1. CASE \E intent \in Intents, said \in Leaning \cup {"library", "mentioned"} :
               LET target == TargetOf(t, said)
               IN  /\ target = "previous_ordinals" => t.memory.listed # {}
                   /\ \E chosen \in IF target = "previous_ordinals" THEN SUBSET t.memory.listed \ {{}} ELSE {{}} :
                        Sets(r, [t EXCEPT !.intent = intent, !.target = target, !.targets = Resolved(t, target, chosen)])
    <3> HIDE DEF t
    <3>1. PICK intent \in Intents, said \in Leaning \cup {"library", "mentioned"} :
            \E chosen \in IF TargetOf(t, said) = "previous_ordinals" THEN SUBSET t.memory.listed \ {{}} ELSE {{}} :
              Sets(r, [t EXCEPT !.intent = intent, !.target = TargetOf(t, said),
                                !.targets = Resolved(t, TargetOf(t, said), chosen)])
      BY <2>1
    <3>2. PICK target : target = TargetOf(t, said) OBVIOUS
    <3>3. PICK chosen : Sets(r, [t EXCEPT !.intent = intent, !.target = target, !.targets = Resolved(t, target, chosen)])
      BY <3>1, <3>2
    <3>4. QED BY <3>3
  <2>2. CASE Sets(r, [t EXCEPT !.intent = "ask_content", !.targets = t.mentions,
                               !.target = IF t.mentions = {} THEN "library" ELSE "mentioned"])
    <3> HIDE DEF t
    <3>1. PICK targets, target : targets = t.mentions /\ target = IF t.mentions = {} THEN "library" ELSE "mentioned" OBVIOUS
    <3>2. [t EXCEPT !.intent = "ask_content", !.targets = targets, !.target = target]
          = [t EXCEPT !.intent = "ask_content", !.target = target, !.targets = targets]
      OBVIOUS
    <3>3. Sets(r, [t EXCEPT !.intent = "ask_content", !.target = target, !.targets = targets]) BY <2>2, <3>1, <3>2
    <3>4. QED BY <3>3
  <2>3. QED BY <1>1, <2>1, <2>2 DEF Decide
<1>4. PICK intent, target, targets : Sets(r, [t EXCEPT !.intent = intent, !.target = target, !.targets = targets])
  BY <1>3
<1> DEFINE u == [t EXCEPT !.intent = intent, !.target = target, !.targets = targets]
<1>5. Sound(s) BY <1>1 DEF ConversationInv
<1>6. t.pc = "execute" /\ t.position = s.position /\ IsTurn(t) /\ IsMemory(t.memory)
  BY <1>5 DEF Sound, IsTurn, Fields, IsMemory
<1> HIDE DEF t
<1>7. u.pc = "execute" /\ u.position = s.position /\ IsTurn(u) /\ u.memory = t.memory
  BY <1>6 DEF IsTurn, Fields
<1>8. lock = r /\ s.position = Len(messages) + 1 BY <1>1, <1>2 DEF ConversationInv, Holds, Placed, Underway
<1> HIDE DEF u
<1>9. Sound(u) BY <1>6, <1>7 DEF Sound, Grounded, Narrow
<1>10. Sets(r, u) BY <1>4 DEF u
<1>11. QED BY <1>2, <1>7, <1>8, <1>9, <1>10, TurnStep

\* A turn that was under way and fails, or ends with its question.
LEMMA EndsKeeps ==
  ASSUME ConversationInv, NEW r \in Requests, turn[r].pc \in Underway, UNCHANGED <<messages, lock>>,
         Fails(r) \/ Sets(r, [Idle EXCEPT !.pc = "unavailable", !.number = turn[r].number,
                                          !.position = turn[r].position, !.mentions = turn[r].mentions])
  PROVE  ConversationInv'
<1>1. lock = r /\ turn[r].position = Len(messages) + 1
  BY DEF ConversationInv, Holds, Placed, Underway
<1>2. CASE Fails(r)
  <2> DEFINE t == [Idle EXCEPT !.pc = "denied"]
  <2>1. t.pc = "denied" /\ IsTurn(t) /\ IsMemory(t.memory) BY DEF Idle, NoMemory, IsTurn, Fields, IsMemory
  <2>2. Sets(r, t) BY <1>2 DEF Fails
  <2> HIDE DEF t
  <2>3. Sound(t) BY <2>1 DEF Sound, Grounded, Narrow
  <2>4. QED BY <1>1, <2>1, <2>2, <2>3, TurnStep DEF Underway
<1>3. CASE Sets(r, [Idle EXCEPT !.pc = "unavailable", !.number = turn[r].number, !.position = turn[r].position,
                                !.mentions = turn[r].mentions])
  <2>1. PICK number, position, mentions : number = turn[r].number /\ position = turn[r].position /\ mentions = turn[r].mentions
    OBVIOUS
  <2> DEFINE t == [Idle EXCEPT !.pc = "unavailable", !.number = number, !.position = position, !.mentions = mentions]
  <2>2. t.pc = "unavailable" /\ t.position = position /\ IsTurn(t) /\ IsMemory(t.memory)
    BY DEF Idle, NoMemory, IsTurn, Fields, IsMemory
  <2>3. Sets(r, t) BY <1>3, <2>1
  <2> HIDE DEF t
  <2>4. Sound(t) BY <2>2 DEF Sound, Grounded, Narrow
  <2>5. QED BY <1>1, <2>1, <2>2, <2>3, <2>4, TurnStep DEF Underway
<1>4. QED BY <1>2, <1>3

LEMMA GiveUpKeeps ==
  ASSUME ConversationInv, NEW r \in Requests, GiveUp(r) PROVE ConversationInv'
BY EndsKeeps DEF GiveUp, At, Underway

\* An answer written from the whole library does not lean on one kept out.
LEMMA RespondsKeeps ==
  ASSUME ConversationInv, NEW r \in Requests, NEW t, NEW intent, NEW wide, NEW answer, Responds(r, t, intent, wide, answer),
         UNCHANGED <<messages, lock>>, turn[r].pc \in Underway, t.position = turn[r].position,
         wide /\ LeansOnExcluded(t) => intent \in Catalogued
  PROVE  ConversationInv'
<1>1. lock = r /\ turn[r].position = Len(messages) + 1
  BY DEF ConversationInv, Holds, Placed, Underway
<1> DEFINE u == [Idle EXCEPT !.pc = "finish", !.number = t.number, !.position = t.position, !.mentions = t.mentions,
                             !.intent = intent, !.wide = wide, !.answer = answer,
                             !.leans = t.memory.answer = "excluded" /\ t.mentions = {} /\ t.target \in Leaning]
<1>2. Sets(r, u) BY DEF Responds
<1>3. u.pc = "finish" /\ u.position = t.position /\ u.intent = intent /\ u.wide = wide
      /\ u.leans = (t.memory.answer = "excluded" /\ t.mentions = {} /\ t.target \in Leaning)
  BY DEF Idle
<1>4. IsTurn(u) /\ IsMemory(u.memory)
  BY DEF Idle, NoMemory, IsTurn, Fields, IsMemory
<1>5. u.leans = LeansOnExcluded(t) BY <1>3 DEF LeansOnExcluded
<1> HIDE DEF u
<1>6. Narrow(u) BY <1>3, <1>5 DEF Narrow
<1>7. Sound(u) BY <1>3, <1>4, <1>6 DEF Sound, Grounded
<1>8. QED BY <1>1, <1>2, <1>3, <1>7, TurnStep

LEMMA ExecuteKeeps ==
  ASSUME ConversationInv, NEW r \in Requests, Execute(r) PROVE ConversationInv'
<1>1. PICK t : t = turn[r] OBVIOUS
<1>2. PICK intent : intent = Meant(t) OBVIOUS
<1>3. PICK targets :
        targets = IF intent \in Catalogued THEN t.targets ELSE t.targets \ {f \in Reused(t) : ~Readable(f)}
  OBVIOUS
<1>4. /\ t.pc = "execute" /\ UNCHANGED <<messages, lock>>
      /\ IF intent \notin Catalogued /\ Denied(t) THEN Fails(r)
         ELSE IF NothingToReadIn(t, intent, targets)
         THEN Responds(r, t, intent, FALSE, NoRecord)
         ELSE Sets(r, [t EXCEPT !.pc = "work", !.intent = intent, !.targets = targets])
  BY <1>1, <1>2, <1>3 DEF Execute, At
<1>5. turn[r].pc \in Underway BY <1>1, <1>4 DEF Underway
<1>6. CASE Fails(r) BY <1>4, <1>5, <1>6, EndsKeeps
<1>7. CASE Responds(r, t, intent, FALSE, NoRecord) BY <1>1, <1>4, <1>5, <1>7, RespondsKeeps
<1>8. CASE /\ ~NothingToReadIn(t, intent, targets)
           /\ Sets(r, [t EXCEPT !.pc = "work", !.intent = intent, !.targets = targets])
  <2> DEFINE u == [t EXCEPT !.pc = "work", !.intent = intent, !.targets = targets]
  <2>1. Sound(t) BY <1>1 DEF ConversationInv
  <2>2. /\ u.pc = "work" /\ u.intent = intent /\ u.targets = targets /\ u.memory = t.memory /\ u.mentions = t.mentions
        /\ u.target = t.target /\ u.position = t.position /\ IsTurn(u)
    BY <2>1 DEF Sound, IsTurn, Fields
  <2>3. Sets(r, u) BY <1>8
  <2> HIDE DEF u
  <2>4. LeansOnExcluded(u) => Leans(t) BY <2>2 DEF LeansOnExcluded, Leans, Leaning
  <2>5. Grounded(u) BY <1>8, <2>2, <2>4 DEF Grounded, NothingToReadIn
  <2>6. Sound(u) BY <2>1, <2>2, <2>5 DEF Sound, Narrow
  <2>7. lock = r /\ t.position = Len(messages) + 1 BY <1>1, <1>5 DEF ConversationInv, Holds, Placed, Underway
  <2>8. QED BY <1>4, <2>2, <2>3, <2>6, <2>7, TurnStep
<1>9. QED BY <1>4, <1>6, <1>7, <1>8

\* What a tool answers at work is from the files chosen, or from the whole library when none is.
Works(r, t) ==
  \/ Fails(r)
  \/ \E answer : Responds(r, t, t.intent, FALSE, answer)
  \/ t.intent # "conversation" /\ \E answer : Responds(r, t, t.intent, t.targets = {}, answer)
  \/ t.intent # "conversation" /\ \E answer, files : Responds(r, t, t.intent, t.targets = {} /\ files # {}, answer)

LEMMA ContentWorks ==
  ASSUME NEW r \in Requests, NEW t, t.intent # "conversation", Content(r, t) PROVE Works(r, t)
<1>1. CASE Fails(r) BY <1>1 DEF Works
<1>2. CASE \E cites \in Synthesized(Found(t.targets)) :
             Responds(r, t, t.intent, t.targets = {}, [NoRecord EXCEPT !.cites = cites])
  BY <1>2 DEF Works
<1>3. CASE \E files \in Consulted(t) : Responds(r, t, t.intent, t.targets = {}, [NoRecord EXCEPT !.lists = files])
  BY <1>3 DEF Works
<1>4. QED BY <1>1, <1>2, <1>3 DEF Content

LEMMA CatalogedWorks ==
  ASSUME NEW r \in Requests, NEW t, t.intent # "conversation",
         NEW files, NEW cites, NEW foldered, Cataloged(r, t, files, cites, foldered)
  PROVE  Works(r, t)
BY DEF Cataloged, Works

LEMMA InventoryWorks ==
  ASSUME NEW r \in Requests, NEW t, t.intent # "conversation", CatalogInventory(r, t) PROVE Works(r, t)
<1>1. CASE Cataloged(r, t, {}, {}, {}) BY <1>1, CatalogedWorks
<1>2. CASE Fails(r) BY <1>2 DEF Works
<1>3. ASSUME NEW cites, NEW kept, Inventory(r, t, cites, kept) PROVE Works(r, t)
  <2>1. PICK foldered : foldered = IF Container \in t.targets THEN kept ELSE kept \cap t.memory.foldered OBVIOUS
  <2>2. Cataloged(r, t, kept, cites, foldered) BY <1>3, <2>1 DEF Inventory
  <2>3. QED BY <2>2, CatalogedWorks
<1>4. PICK files : files = InventoryFiles(t) OBVIOUS
<1>5. \/ Cataloged(r, t, {}, {}, {}) \/ Fails(r) \/ InventoryStats(r, t, files) \/ SelectByTopic(r, t, files)
      \/ Inventory(r, t, WithContent(files), files)
  BY <1>4 DEF CatalogInventory
<1>6. CASE InventoryStats(r, t, files) BY <1>3, <1>6 DEF InventoryStats
<1>7. CASE SelectByTopic(r, t, files) BY <1>3, <1>7 DEF SelectByTopic
<1>8. CASE Inventory(r, t, WithContent(files), files) BY <1>3, <1>8
<1>9. QED BY <1>1, <1>2, <1>5, <1>6, <1>7, <1>8

LEMMA SnapshotsWork ==
  ASSUME NEW r \in Requests, NEW t, t.intent # "conversation", FileSnapshots(r, t) PROVE Works(r, t)
<1>1. CASE Fails(r) BY <1>1 DEF Works
<1>2. CASE Cataloged(r, t, t.targets, WithContent(t.targets), {}) BY <1>2, CatalogedWorks
<1>3. QED BY <1>1, <1>2 DEF FileSnapshots

LEMMA WorkKeeps ==
  ASSUME ConversationInv, NEW r \in Requests, Work(r) PROVE ConversationInv'
<1>1. PICK t : t = turn[r] OBVIOUS
<1>2. t.pc = "work" /\ UNCHANGED <<messages, lock>> BY <1>1 DEF Work, At
<1>3. Works(r, t)
  <2>1. CASE t.intent = "conversation"
    <3>1. Converse(r, t) BY <1>1, <2>1 DEF Work, Catalogued
    <3>2. QED BY <3>1 DEF Converse, Works
  <2>2. CASE t.intent # "conversation"
    <3>1. ListFiles(r, t) \/ CatalogInventory(r, t) \/ Summarize(r, t) \/ Content(r, t)
      BY <1>1, <2>2 DEF Work
    <3>2. CASE CompleteInventory(r, t)
      <4>1. CASE Fails(r) BY <4>1 DEF Works
      <4>2. CASE ~Fails(r)
        <5>1. \E inside : Cataloged(r, t, inside, WithContent(inside), inside) BY <3>2, <4>2 DEF CompleteInventory
        <5>2. QED BY <2>2, <5>1, CatalogedWorks
      <4>3. QED BY <4>1, <4>2
    <3>3. CASE SearchLibrary(r, t) BY <2>2, <3>3, CatalogedWorks DEF SearchLibrary
    <3>4. CASE FileSnapshots(r, t) BY <2>2, <3>4, SnapshotsWork
    <3>5. CASE CatalogInventory(r, t) BY <2>2, <3>5, InventoryWorks
    <3>6. CASE Content(r, t) BY <2>2, <3>6, ContentWorks
    <3>7. ListFiles(r, t) => \/ CompleteInventory(r, t) \/ Content(r, t) \/ FileSnapshots(r, t) \/ SearchLibrary(r, t)
                             \/ CatalogInventory(r, t)
      BY DEF ListFiles
    <3>8. Summarize(r, t) => FileSnapshots(r, t) \/ Content(r, t) BY DEF Summarize
    <3>9. QED BY <3>1, <3>2, <3>3, <3>4, <3>5, <3>6, <3>7, <3>8
  <2>3. QED BY <2>1, <2>2
<1>4. turn[r].pc \in Underway BY <1>1, <1>2 DEF Underway
<1>5. t.targets = {} /\ LeansOnExcluded(t) /\ t.intent # "conversation" => t.intent \in Catalogued
  BY <1>1, <1>2 DEF ConversationInv, Sound, Grounded
<1>6. CASE Fails(r) BY <1>2, <1>4, <1>6, EndsKeeps
<1>7. CASE \E answer : Responds(r, t, t.intent, FALSE, answer)
  BY <1>1, <1>2, <1>4, <1>7, RespondsKeeps
<1>8. CASE t.intent # "conversation" /\ \E answer : Responds(r, t, t.intent, t.targets = {}, answer)
  BY <1>1, <1>2, <1>4, <1>5, <1>8, RespondsKeeps
<1>9. CASE t.intent # "conversation" /\ \E answer, files : Responds(r, t, t.intent, t.targets = {} /\ files # {}, answer)
  BY <1>1, <1>2, <1>4, <1>5, <1>9, RespondsKeeps
<1>10. QED BY <1>3, <1>6, <1>7, <1>8, <1>9 DEF Works

\* A question, its answer after it, or nothing, and the conversation is free.
LEMMA FinishKeeps ==
  ASSUME ConversationInv, NEW r \in Requests, Finish(r) PROVE ConversationInv'
<1>1. PICK t : t = turn[r] OBVIOUS
<1> DEFINE n == Len(messages)
<1>2. t.pc \in {"finish", "unavailable", "denied"} /\ lock' = Nobody /\ Sets(r, Idle)
  BY <1>1 DEF Finish, At
<1>3. lock = r BY <1>1, <1>2 DEF ConversationInv, Holds
<1>4. /\ turn' = [q \in Requests |-> turn'[q]] /\ turn'[r] = Idle
      /\ \A q \in Requests : q # r => turn'[q] = turn[q]
  BY <1>2, SetsOne
<1>5. \A q \in Requests : turn'[q].pc \in {"idle", "append"}
  <2>1. SUFFICES ASSUME NEW q \in Requests PROVE turn'[q].pc \in {"idle", "append"} OBVIOUS
  <2>2. CASE q = r BY <1>4, <2>2 DEF Idle
  <2>3. CASE q # r BY <1>3, <1>4, <2>3 DEF ConversationInv, Holds
  <2>4. QED BY <2>2, <2>3
<1>6. \A q \in Requests : Sound(turn'[q])
  <2>1. Sound(Idle)
    <3>1. IsTurn(Idle) /\ IsMemory(Idle.memory) /\ Idle.pc = "idle" BY DEF IsTurn, Fields, IsMemory, Idle, NoMemory
    <3>2. QED BY <3>1 DEF Sound, Grounded, Narrow
  <2>2. SUFFICES ASSUME NEW q \in Requests PROVE Sound(turn'[q]) OBVIOUS
  <2>3. CASE q = r BY <1>4, <2>1, <2>3
  <2>4. CASE q # r
    <3>1. Sound(turn[q]) BY DEF ConversationInv
    <3>2. turn'[q] = turn[q] BY <1>4, <2>4
    <3>3. QED BY <3>1, <3>2
  <2>5. QED BY <2>3, <2>4
<1>7. Holds' /\ Placed' BY <1>5 DEF Holds, Placed, Underway
<1>8. n \in Nat /\ {messages[i].position : i \in 1..n} = 1..n BY PlacesOfAll DEF ConversationInv
<1>9. t.pc \in {"finish", "unavailable"} => t.position = n + 1 BY <1>1 DEF ConversationInv, Placed, Underway
<1>10. PICK S : messages \in Seq(S) BY DEF ConversationInv, Honest
<1>11. \A i \in 1..n : messages[i].lists # {} => messages[i].role = "assistant"
  BY DEF ConversationInv, Honest, Assistant
<1>12. \A i \in 1..n : /\ messages[i].position = i
                       /\ messages[i].role = "assistant" =>
                            i > 1 /\ messages[i - 1].role = "user" /\ messages[i - 1].number = messages[i].number
  BY DEF ConversationInv, TurnsContiguous, Assistant
<1>13. PICK a, b : a = Question(t) /\ b = Reply(t) OBVIOUS
<1>14. a.role = "user" /\ a.lists = {} /\ a.position = t.position /\ a.number = t.number
  BY <1>13 DEF Question, Message, NoRecord
<1>15. b.role = "assistant" /\ b.number = t.number
       /\ b.position = Greatest({messages[i].position : i \in 1..n} \cup {t.position}) + 1
  BY <1>13 DEF Reply, Message
<1> HIDE DEF n
<1>16. Honest(messages)' /\ TurnsContiguous'
  <2>1. CASE t.pc = "finish"
    <3>1. messages' = messages \o <<a, b>> BY <1>1, <1>13, <2>1 DEF Finish, At
    <3>2. b.position = n + 2
      <4>1. (1..n) \cup {n + 1} = 1..(n + 1) BY <1>8
      <4>2. Greatest(1..(n + 1)) = n + 1 BY <1>8, GreatestOfAll
      <4>3. b.position = (n + 1) + 1 BY <1>8, <1>9, <1>15, <2>1, <4>1, <4>2
      <4>4. QED BY <1>8, <4>3
    <3> DEFINE T == S \cup {a, b}
    <3>3. messages \in Seq(T) /\ <<a, b>> \in Seq(T) BY <1>10
    <3>4. /\ messages' \in Seq(T) /\ Len(messages') = n + 2
          /\ \A i \in 1..n : messages'[i] = messages[i]
          /\ messages'[n + 1] = a /\ messages'[n + 2] = b
      BY <1>8, <3>1, <3>3 DEF n
    <3> HIDE DEF T
    <3>5. \A i \in 1..(n + 2) : i \in 1..n \/ i = n + 1 \/ i = n + 2 BY <1>8
    <3>6. Honest(messages)' BY <1>11, <1>14, <1>15, <3>4, <3>5 DEF Honest, Assistant
    <3>7. ASSUME NEW i \in 1..(n + 2)
          PROVE  /\ messages'[i].position = i
                 /\ messages'[i].role = "assistant" =>
                      i > 1 /\ messages'[i - 1].role = "user" /\ messages'[i - 1].number = messages'[i].number
      <4>1. CASE i \in 1..n
        <5>1. messages'[i] = messages[i] BY <3>4, <4>1
        <5>2. i > 1 => i - 1 \in 1..n /\ messages'[i - 1] = messages[i - 1] BY <1>8, <3>4, <4>1
        <5>3. QED BY <1>12, <4>1, <5>1, <5>2
      <4>2. CASE i = n + 1 BY <1>9, <1>14, <2>1, <3>4, <4>2
      <4>3. CASE i = n + 2
        <5>1. i > 1 /\ i - 1 = n + 1 BY <1>8, <4>3
        <5>2. messages'[i] = b /\ messages'[i - 1] = a BY <3>4, <4>3, <5>1
        <5>3. QED BY <1>14, <1>15, <3>2, <4>3, <5>1, <5>2
      <4>4. QED BY <3>5, <4>1, <4>2, <4>3
    <3>8. QED BY <3>4, <3>6, <3>7 DEF TurnsContiguous, Assistant
  <2>2. CASE t.pc = "unavailable"
    <3>1. messages' = Append(messages, a) BY <1>1, <1>13, <2>2 DEF Finish, At
    <3> DEFINE T == S \cup {a}
    <3>2. messages \in Seq(T) BY <1>10
    <3>3. /\ messages' \in Seq(T) /\ Len(messages') = n + 1
          /\ \A i \in 1..n : messages'[i] = messages[i]
          /\ messages'[n + 1] = a
      BY <1>8, <3>1, <3>2 DEF n
    <3> HIDE DEF T
    <3>4. \A i \in 1..(n + 1) : i \in 1..n \/ i = n + 1 BY <1>8
    <3>5. Honest(messages)' BY <1>11, <1>14, <3>3, <3>4 DEF Honest, Assistant
    <3>6. ASSUME NEW i \in 1..(n + 1)
          PROVE  /\ messages'[i].position = i
                 /\ messages'[i].role = "assistant" =>
                      i > 1 /\ messages'[i - 1].role = "user" /\ messages'[i - 1].number = messages'[i].number
      <4>1. CASE i \in 1..n
        <5>1. messages'[i] = messages[i] BY <3>3, <4>1
        <5>2. i > 1 => i - 1 \in 1..n /\ messages'[i - 1] = messages[i - 1] BY <1>8, <3>3, <4>1
        <5>3. QED BY <1>12, <4>1, <5>1, <5>2
      <4>2. CASE i = n + 1 BY <1>9, <1>14, <2>2, <3>3, <4>2
      <4>3. QED BY <3>4, <4>1, <4>2
    <3>7. QED BY <3>3, <3>5, <3>6 DEF TurnsContiguous, Assistant
  <2>3. CASE t.pc = "denied"
    <3>1. messages' = messages BY <1>1, <2>3 DEF Finish, At
    <3>2. QED BY <3>1 DEF ConversationInv, Honest, TurnsContiguous, Assistant
  <2>4. QED BY <1>2, <2>1, <2>2, <2>3
<1>17. QED BY <1>4, <1>6, <1>7, <1>16 DEF ConversationInv

LEMMA ConversationStep == ConversationInv /\ [TalkNext]_talkVars => ConversationInv'
<1>1. SUFFICES ASSUME ConversationInv, [TalkNext]_talkVars PROVE ConversationInv' OBVIOUS
<1>2. ASSUME UNCHANGED <<messages, lock, turn>> PROVE ConversationInv'
  BY <1>1, <1>2 DEF ConversationInv, Holds, Placed, Honest, TurnsContiguous, Assistant
<1>3. CASE \E f \in Files : IndexFile(f) \/ Withdraw(f) \/ Grant(f) \/ Suspend(f) \/ Move(f)
  BY <1>2, <1>3 DEF IndexFile, Withdraw, Grant, Suspend, Move, Shifts
<1>4. CASE UNCHANGED talkVars BY <1>2, <1>4 DEF talkVars
<1>5. CASE \E r \in Requests :
             \/ \E mentions \in Selections : LoadTurn(r, mentions)
             \/ TakeTurn(r) \/ Check(r) \/ Decide(r) \/ Execute(r) \/ Work(r) \/ GiveUp(r) \/ Finish(r)
  BY <1>1, <1>5, LoadTurnKeeps, TakeTurnKeeps, CheckKeeps, DecideKeeps, ExecuteKeeps, WorkKeeps, GiveUpKeeps,
     FinishKeeps
<1>6. QED BY <1>1, <1>3, <1>4, <1>5 DEF TalkNext

\* Whatever moves in the catalog and in the rights, what a model is shown of earlier answers is within
\* reach when it is checked; the messages of a conversation follow one another, each answer after its
\* question; and a message that leans on an answer kept out is not answered from the whole library
\* (knowledge/agent.py).
THEOREM ConversationKeptAlways == TalkSpec => []ConversationKept
<1>1. TalkInit => ConversationInv
  <2>1. SUFFICES ASSUME TalkInit PROVE ConversationInv OBVIOUS
  <2>2. turn = [q \in Requests |-> Idle] /\ messages = <<>> BY <2>1 DEF TalkInit
  <2>3. Sound(Idle) /\ Idle.pc = "idle"
    <3>1. IsTurn(Idle) /\ IsMemory(Idle.memory) /\ Idle.pc = "idle" BY DEF IsTurn, Fields, IsMemory, Idle, NoMemory
    <3>2. QED BY <3>1 DEF Sound, Grounded, Narrow
  <2>4. Honest(messages) /\ TurnsContiguous
    <3>1. messages \in Seq({}) /\ Len(messages) = 0 BY <2>2
    <3>2. QED BY <3>1 DEF Honest, TurnsContiguous
  <2>5. turn = [q \in Requests |-> turn[q]] /\ \A q \in Requests : turn[q] = Idle BY <2>2
  <2>6. QED BY <2>3, <2>4, <2>5 DEF ConversationInv, Holds, Placed, Underway
<1>2. ConversationInv /\ [TalkNext]_talkVars => ConversationInv' BY ConversationStep
<1>3. ConversationInv => ConversationKept
  <2>1. ConversationInv => MemoryAuthorized
    BY ShownIsUsable DEF ConversationInv, Sound, MemoryAuthorized, At
  <2>2. ConversationInv => NoWideningOfContent BY DEF ConversationInv, Sound, Narrow, NoWideningOfContent
  <2>3. QED BY <2>1, <2>2 DEF ConversationInv, ConversationKept
<1>4. QED BY <1>1, <1>2, <1>3, PTL DEF TalkSpec
=============================================================================
