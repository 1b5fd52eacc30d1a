---------------------------- MODULE AccountProofs ----------------------------
(***************************************************************************)
(* Theorems about what stands between an account and a paid or an outside  *)
(* act, for every value of the constants.                                  *)
(*                                                                         *)
(* UsagePools: a transaction draws on a pool, or indexes a document, only  *)
(* under the lock of the row it counts; while it holds that lock, what it  *)
(* adds stays within the limit.                                            *)
(*                                                                         *)
(* TaskCreation: what a missing row tells, and five facts about a key      *)
(* ClickUp has refused nothing under, which together leave it one POST.    *)
(*                                                                         *)
(* Billing: events are numbered in the order of their seconds, the newest  *)
(* event that carries a copy of a subscription was sent when it last       *)
(* changed, and a handler that read the subscription before a newer event  *)
(* was sent can only write a row that the newer event writes again, or     *)
(* that is counted as missed.                                              *)
(*                                                                         *)
(* Sessions: a state is in the cookie of the browser that began its visit, *)
(* so a callback of another browser finds no match; a user is of one       *)
(* account, whatever first logins run in parallel; and a browser signed    *)
(* out carries the cookie that asks for a fresh challenge until a visit    *)
(* has taken the challenge along.                                          *)
(***************************************************************************)
EXTENDS Billing, UsagePools, TaskCreation, Sessions, FiniteSetTheorems, SequenceTheorems,
        WellFoundedInduction, TLAPS

-----------------------------------------------------------------------------
(* Usage pools.                                                            *)

Corpus == UNION {Docs[j] : j \in Jobs}
TransactionStages == {"idle", "batch", "document", "check", "insert", "retrieve", "answered"}
Transaction == [at : TransactionStages, left : SUBSET Corpus, doc : Corpus \cup {None}, ocr : BOOLEAN,
                metric : Metrics \cup {None}, seen : {0}, add : [Metrics -> Nat],
                indexed : SUBSET Corpus]

UsageTypeOK ==
    /\ onTrial \in BOOLEAN /\ limit \in Limits /\ before \in [Metrics -> Nat]
    /\ used \in [Metrics -> Nat \cup {None}]
    /\ drawn \in [Metrics -> Nat]
    /\ active \in SUBSET Corpus
    /\ lock \in [Rows -> Actors \cup {None}]
    /\ work \in [Actors -> Transaction]

\* A transaction about to draw has a pool in mind, OCR that of a document, and one about to
\* insert the month's first record has not drawn on it; what it adds to a pool it adds under
\* the lock, within the limit.
Drawing(a) ==
    /\ work[a].at = "document" \/ work[a].metric = "ocr_pages" => work[a].doc \in Corpus
    /\ work[a].at \in {"check", "insert"} => work[a].metric \in Metrics
    /\ work[a].at = "insert" => lock[work[a].metric] # a
    /\ \A m \in Metrics :
        /\ lock[m] # a => work[a].add[m] = 0
        /\ lock[m] = a => Quantity(m) + work[a].add[m] <= limit

\* What it indexes it indexes under the lock of the organisation, within the plan.
Indexing(a) ==
    /\ lock[Organization] # a => work[a].indexed = {}
    /\ IsFiniteSet(work[a].indexed)
    /\ Cardinality(active \cup work[a].indexed) <= Cap

UsageInv ==
    /\ UsageTypeOK /\ LimitsHold /\ IsFiniteSet(active)
    /\ \A a \in Actors : Drawing(a) /\ Indexing(a)

\* The month starts with no record and no document.
LEMMA UsageInitInv == ASSUME UsageAssumption PROVE UsageInit => UsageInv
<1> SUFFICES ASSUME UsageInit PROVE UsageInv
  OBVIOUS
<1> USE DEF UsageAssumption, UsageInit
<1>1. limit \in Nat /\ limit >= 1 /\ limit - 1 \in Nat
  OBVIOUS
<1>2. before \in [Metrics -> Nat]
  BY <1>1 DEF Nothing
<1>3. Idle \in Transaction
  BY DEF Idle, Transaction, TransactionStages, Nothing
<1>4. UsageTypeOK
  BY <1>1, <1>2, <1>3 DEF UsageTypeOK, Nothing
<1>5. \A m \in Metrics : Quantity(m) = 0 /\ drawn[m] = 0
  BY DEF Quantity, Nothing
<1>6. IsFiniteSet(active) /\ Cardinality(active) = 0 /\ active = {}
  BY FS_EmptySet
<1>7. ASSUME NEW a \in Actors PROVE Drawing(a) /\ Indexing(a)
  <2>1. /\ work[a].at = "idle" /\ work[a].indexed = {} /\ work[a].metric \notin Metrics
        /\ \A m \in Metrics : work[a].add[m] = 0
    BY DEF Idle, Nothing
  <2>2. Drawing(a) BY <1>1, <1>5, <2>1 DEF Drawing, Metrics
  <2>3. active \cup work[a].indexed = active BY <2>1
  <2>4. Cardinality(active) <= Cap BY <1>6
  <2>5. Indexing(a) BY <2>1, <2>3, <2>4, FS_EmptySet DEF Indexing
  <2>6. QED BY <2>2, <2>5
<1>8. LimitsHold
  BY <1>1, <1>5, <1>6 DEF LimitsHold, PoolsHold, ActiveWithinCap
<1>9. QED BY <1>4, <1>6, <1>7, <1>8 DEF UsageInv

\* A transaction that is rolled back gives up its locks with all it added.
LEMMA RollbackInv ==
    ASSUME UsageAssumption, UsageInv, NEW a \in Actors, Rollback(a), UNCHANGED <<onTrial, limit, before>>
    PROVE  UsageInv'
<1> USE DEF UsageAssumption
<1>1. work' = [work EXCEPT ![a] = Idle] /\ UNCHANGED <<used, active, drawn>>
  BY DEF Rollback
<1>2. lock' = [r \in Rows |-> IF lock[r] = a THEN None ELSE lock[r]]
  BY DEF Rollback, Release
<1>3. /\ Idle \in Transaction /\ Idle.indexed = {} /\ Idle.at = "idle" /\ Idle.metric # "ocr_pages"
      /\ \A m \in Metrics : Idle.add[m] = 0
  BY DEF Idle, Transaction, TransactionStages, Nothing, Metrics
<1> HIDE DEF UsageAssumption
<1>4. UsageTypeOK' BY <1>1, <1>2, <1>3 DEF UsageInv, UsageTypeOK
<1>5. LimitsHold' /\ IsFiniteSet(active)' /\ \A m \in Metrics : Quantity(m)' = Quantity(m)
  BY <1>1 DEF UsageInv, LimitsHold, PoolsHold, ActiveWithinCap, Quantity
<1>6. ASSUME NEW b \in Actors, b # a PROVE Drawing(b)' /\ Indexing(b)'
  <2>1. work'[b] = work[b] /\ \A r \in Rows : lock'[r] = b <=> lock[r] = b
    BY <1>1, <1>2, <1>6 DEF UsageInv, UsageTypeOK, UsageAssumption
  <2>2. Drawing(b)' BY <1>5, <2>1 DEF UsageInv, Drawing, Rows
  <2>3. Indexing(b)' BY <1>1, <2>1 DEF UsageInv, Indexing, Rows
  <2>4. QED BY <2>2, <2>3
<1>7. Drawing(a)' /\ Indexing(a)'
  <2>1. work'[a] = Idle /\ \A r \in Rows : lock'[r] # a
    BY <1>1, <1>2 DEF UsageInv, UsageTypeOK, UsageAssumption
  <2>2. Drawing(a)' BY <1>3, <2>1 DEF Drawing, Rows
  <2>3. active' \cup Idle.indexed = active BY <1>1, <1>3
  <2>4. Indexing(a)'
    BY <1>3, <1>5, <2>1, <2>3, FS_EmptySet DEF Indexing, LimitsHold, ActiveWithinCap, Rows, UsageInv
  <2>5. QED BY <2>2, <2>4
<1>8. QED BY <1>4, <1>5, <1>6, <1>7 DEF UsageInv

\* A step that only moves a transaction along, adding and indexing nothing.
Moves(a, next) ==
    /\ work' = [work EXCEPT ![a] = next] /\ next \in Transaction
    /\ next.add = work[a].add /\ next.indexed = work[a].indexed
    /\ next.at = "document" \/ next.metric = "ocr_pages" => next.doc \in Corpus
    /\ next.at \in {"check", "insert"} => next.metric \in Metrics
    /\ next.at = "insert" => lock[next.metric] # a
    /\ UNCHANGED <<lock, used, active, drawn>>

LEMMA MoveInv ==
    ASSUME UsageInv, NEW a \in Actors, NEW next, Moves(a, next), UNCHANGED <<onTrial, limit, before>>
    PROVE  UsageInv'
<1>1. UsageTypeOK' BY DEF UsageInv, UsageTypeOK, Moves
<1>2. LimitsHold' /\ IsFiniteSet(active)' /\ \A m \in Metrics : Quantity(m)' = Quantity(m)
  BY DEF UsageInv, LimitsHold, PoolsHold, ActiveWithinCap, Quantity, Moves
<1>3. ASSUME NEW b \in Actors PROVE Drawing(b)' /\ Indexing(b)'
  <2>1. work'[b].add = work[b].add /\ work'[b].indexed = work[b].indexed
    BY DEF Moves, UsageInv, UsageTypeOK
  <2>2. /\ work'[b].at = "document" \/ work'[b].metric = "ocr_pages" => work'[b].doc \in Corpus
        /\ work'[b].at \in {"check", "insert"} => work'[b].metric \in Metrics
        /\ work'[b].at = "insert" => lock[work'[b].metric] # b
    BY DEF Moves, UsageInv, UsageTypeOK, Drawing
  <2>3. Drawing(b)' BY <1>2, <2>1, <2>2 DEF Moves, UsageInv, Drawing
  <2>4. Indexing(b)' BY <2>1 DEF Moves, UsageInv, Indexing
  <2>5. QED BY <2>3, <2>4
<1>4. QED BY <1>1, <1>2, <1>3 DEF UsageInv

\* A unit drawn on a pool: the lock is free or the transaction's own, and one more fits.
LEMMA RecordInv ==
    ASSUME UsageAssumption, UsageInv, NEW a \in Actors, Recorded(a), work[a].metric \in Metrics,
           Available(a, work[a].metric), lock' = [lock EXCEPT ![work[a].metric] = a],
           Quantity(work[a].metric) + work[a].add[work[a].metric] + 1 <= limit,
           UNCHANGED <<used, active, drawn, onTrial, limit, before>>
    PROVE  UsageInv'
<1> DEFINE m == work[a].metric
           old == work[a]
           more == [old.add EXCEPT ![m] = @ + 1]
           next == [old EXCEPT !.at = After(a), !.add = more, !.metric = None, !.seen = 0]
<1>1. work' = [work EXCEPT ![a] = next] BY DEF Recorded
<1>2. old \in Transaction BY DEF UsageInv, UsageTypeOK
<1>3. /\ next.add = [old.add EXCEPT ![m] = @ + 1] /\ next.indexed = old.indexed
      /\ next.at \in TransactionStages \ {"check", "insert"} /\ next \in Transaction
      /\ next.at = "document" \/ next.metric = "ocr_pages" => next.doc \in Corpus
  <2>1. After(a) \in TransactionStages \ {"check", "insert"} BY DEF After, TransactionStages
  <2>2. [old.add EXCEPT ![m] = @ + 1] \in [Metrics -> Nat] BY <1>2 DEF Transaction
  <2>3. After(a) = "document" => old.doc \in Corpus BY DEF After, UsageInv, Drawing
  <2>4. QED BY <1>2, <2>1, <2>2, <2>3 DEF Transaction, Metrics, UsageAssumption
<1> HIDE DEF next
<1>4. UsageTypeOK'
  <2>1. work' \in [Actors -> Transaction] BY <1>1, <1>3 DEF UsageInv, UsageTypeOK
  <2>2. lock' \in [Rows -> Actors \cup {None}] BY DEF UsageInv, UsageTypeOK
  <2>3. QED BY <2>1, <2>2 DEF UsageInv, UsageTypeOK
<1>5. LimitsHold' /\ IsFiniteSet(active)' /\ \A n \in Metrics : Quantity(n)' = Quantity(n)
  BY DEF UsageInv, LimitsHold, PoolsHold, ActiveWithinCap, Quantity
<1>6. lock[m] \in {None, a} /\ None # a BY DEF Available, UsageAssumption
<1>7. /\ \A r \in Rows : lock'[r] = IF r = m THEN a ELSE lock[r]
      /\ m \in Rows /\ m # Organization /\ Organization \in Rows
  BY DEF UsageInv, UsageTypeOK, Rows, UsageAssumption
<1>8. ASSUME NEW b \in Actors, b # a PROVE Drawing(b)' /\ Indexing(b)'
  <2>1. work'[b] = work[b] BY <1>1, <1>8 DEF UsageInv, UsageTypeOK
  <2>2. lock[m] # b /\ lock'[m] # b BY <1>6, <1>7, <1>8 DEF UsageAssumption
  <2>3. \A n \in Rows : n # m => lock'[n] = lock[n] BY <1>7
  <2>4. Drawing(b)' BY <1>5, <2>1, <2>2, <2>3 DEF UsageInv, Drawing, Rows
  <2>5. Indexing(b)' BY <1>7, <2>1 DEF UsageInv, Indexing
  <2>6. QED BY <2>4, <2>5
<1>9. Drawing(a)'
  <2>1. work'[a] = next BY <1>1 DEF UsageInv, UsageTypeOK
  <2>2. ASSUME NEW n \in Metrics
        PROVE  /\ lock'[n] # a => next.add[n] = 0
               /\ lock'[n] = a => Quantity(n) + next.add[n] <= limit
    <3>1. CASE n = m
      <4>1. next.add[n] = old.add[m] + 1 BY <1>2, <1>3, <3>1 DEF Transaction
      <4>2. Quantity(m) \in Nat /\ old.add[m] \in Nat /\ limit \in Nat
        BY <1>2 DEF Transaction, UsageInv, UsageTypeOK, Quantity, UsageAssumption
      <4>3. QED BY <1>7, <3>1, <4>1, <4>2
    <3>2. CASE n # m
      <4>1. next.add[n] = old.add[n] BY <1>2, <1>3, <3>2 DEF Transaction
      <4>2. QED BY <1>7, <3>2, <4>1 DEF UsageInv, Drawing, Rows
    <3>3. QED BY <3>1, <3>2
  <2>3. QED BY <1>3, <1>5, <2>1, <2>2 DEF Drawing
<1>10. Indexing(a)'
  <2>1. work'[a].indexed = old.indexed BY <1>1, <1>3 DEF UsageInv, UsageTypeOK
  <2>2. QED BY <1>7, <2>1 DEF UsageInv, Indexing
<1>11. QED BY <1>4, <1>5, <1>8, <1>9, <1>10 DEF UsageInv

\* What a transaction wants next is a move.
LEMMA WantsInv ==
    ASSUME UsageInv, NEW a \in Actors, NEW metric \in {"embedding_tokens", "questions"}, Wants(a, metric),
           UNCHANGED <<lock, used, active, drawn, onTrial, limit, before>>
    PROVE  UsageInv'
<1> DEFINE next == [work[a] EXCEPT !.at = "check", !.metric = metric]
<1>1. work[a] \in Transaction BY DEF UsageInv, UsageTypeOK
<1>2. Moves(a, next) BY <1>1 DEF Moves, Wants, Transaction, TransactionStages, Metrics
<1>3. QED BY <1>2, MoveInv

\* A refused draw ends the transaction, or only the document read by OCR.
LEMMA ExceededInv ==
    ASSUME UsageAssumption, UsageInv, NEW a \in Actors, NEW at \in {"batch", "idle"}, Exceeded(a, at),
           UNCHANGED <<onTrial, limit, before>>
    PROVE  UsageInv'
<1>1. CASE work[a].metric = "ocr_pages"
  <2> DEFINE next == [work[a] EXCEPT !.at = at, !.metric = None, !.doc = None, !.ocr = FALSE,
                                     !.left = work[a].left \ {work[a].doc}]
  <2>1. work[a] \in Transaction BY DEF UsageInv, UsageTypeOK
  <2>2. None # "ocr_pages" BY DEF UsageAssumption, Metrics
  <2>3. Moves(a, next) BY <1>1, <2>1, <2>2 DEF Exceeded, Moves, Transaction, TransactionStages
  <2>4. QED BY <2>3, MoveInv
<1>2. CASE work[a].metric # "ocr_pages" BY <1>2, RollbackInv DEF Exceeded
<1>3. QED BY <1>1, <1>2

\* The check of a pool and the insertion of its first record.
LEMMA PoolInv ==
    ASSUME UsageAssumption, UsageInv, NEW a \in Actors, Check(a) \/ Insert(a), UNCHANGED <<onTrial, limit, before>>
    PROVE  UsageInv'
<1> DEFINE m == work[a].metric
           at == IF a \in Jobs THEN "batch" ELSE "idle"
<1>1. /\ work[a] \in Transaction /\ m \in Metrics /\ at \in {"batch", "idle"}
      /\ limit \in Nat /\ limit >= 1 /\ Quantity(m) \in Nat /\ work[a].add[m] \in Nat /\ Carryover(m) \in Nat
      /\ None # a /\ m \in Rows
  BY DEF UsageInv, UsageTypeOK, Drawing, Check, Insert, Quantity, Carryover, UsageAssumption, Transaction, Rows
<1>2. lock[m] # a => work[a].add[m] = 0 BY <1>1 DEF UsageInv, Drawing
<1>3. CASE Check(a)
  <2> DEFINE current == Quantity(m) + (IF lock[m] = a THEN work[a].add[m] ELSE 0) + Carryover(m)
  <2>1. CASE current + 1 > limit BY <1>1, <1>3, <2>1, ExceededInv DEF Check
  <2>2. CASE ~(current + 1 > limit) /\ (used[m] # None \/ lock[m] = a)
    <3>1. /\ Recorded(a) /\ lock' = [lock EXCEPT ![m] = a] /\ UNCHANGED <<used, active, drawn>>
          /\ Available(a, m)
      BY <1>3, <2>2 DEF Check, Available
    <3>2. Quantity(m) + work[a].add[m] + 1 <= limit
      BY <1>1, <1>2, <2>2
    <3>3. QED BY <1>1, <3>1, <3>2, RecordInv
  <2>3. CASE ~(current + 1 > limit) /\ used[m] = None /\ lock[m] # a
    <3> DEFINE next == [work[a] EXCEPT !.at = "insert"]
    <3>1. work' = [work EXCEPT ![a] = next] /\ UNCHANGED <<lock, used, active, drawn>>
      BY <1>3, <2>3 DEF Check
    <3>2. work[a].metric = "ocr_pages" => work[a].doc \in Corpus BY DEF UsageInv, Drawing
    <3>3. Moves(a, next) BY <1>1, <2>3, <3>1, <3>2 DEF Moves, Transaction, TransactionStages
    <3>4. QED BY <3>3, MoveInv
  <2>4. QED BY <2>1, <2>2, <2>3
<1>4. CASE Insert(a)
  <2>1. CASE used[m] # None /\ used[m] + 1 > limit BY <1>1, <1>4, <2>1, ExceededInv DEF Insert
  <2>2. CASE ~(used[m] # None /\ used[m] + 1 > limit)
    <3>1. /\ Recorded(a) /\ lock' = [lock EXCEPT ![m] = a] /\ UNCHANGED <<used, active, drawn>>
          /\ Available(a, m) /\ work[a].at = "insert"
      BY <1>4, <2>2 DEF Insert
    <3>2. lock[m] # a BY <3>1 DEF UsageInv, Drawing
    <3>3. Quantity(m) + 1 <= limit BY <1>1, <2>2 DEF Quantity
    <3>4. Quantity(m) + work[a].add[m] + 1 <= limit BY <1>1, <1>2, <3>2, <3>3
    <3>5. QED BY <1>1, <3>1, <3>4, RecordInv
  <2>3. QED BY <2>1, <2>2
<1>5. QED BY <1>3, <1>4

\* Room for a document: the row of the organisation is the transaction's, so no other has
\* documents of its own to count.
LEMMA CapacityInv ==
    ASSUME UsageAssumption, UsageInv, NEW j \in Jobs, Capacity(j), UNCHANGED <<onTrial, limit, before>>
    PROVE  UsageInv'
<1> DEFINE d == work[j].doc
           indexed == active \cup work[j].indexed
           moved == [work[j] EXCEPT !.at = "check", !.metric = "processed_bytes", !.left = work[j].left \ {d}]
           next == [work[j] EXCEPT !.at = "check", !.metric = "processed_bytes", !.left = work[j].left \ {d},
                                   !.indexed = work[j].indexed \cup {d}]
<1>1. j \in Actors /\ work[j] \in Transaction /\ "processed_bytes" \in Metrics
  BY DEF Actors, UsageInv, UsageTypeOK, Metrics
<1>2. CASE d \in indexed
  <2>1. Moves(j, moved) BY <1>1, <1>2 DEF Moves, Capacity, Transaction, TransactionStages
  <2>2. QED BY <1>1, <2>1, MoveInv
<1>3. CASE d \notin indexed /\ Cardinality(indexed) >= Cap
  BY <1>1, <1>3, RollbackInv DEF Capacity
<1>4. CASE d \notin indexed /\ ~(Cardinality(indexed) >= Cap)
  <2>1. /\ work' = [work EXCEPT ![j] = next] /\ lock' = [lock EXCEPT ![Organization] = j]
        /\ lock[Organization] \in {None, j} /\ None # j /\ UNCHANGED <<used, active, drawn>>
    BY <1>1, <1>4 DEF Capacity, Available, UsageAssumption
  <2>2. /\ next.add = work[j].add /\ next.at = "check" /\ next.metric = "processed_bytes"
        /\ next.indexed = work[j].indexed \cup {d}
    BY <1>1 DEF Transaction
  <2>3. next \in Transaction
    <3>1. d \in Corpus BY <1>1 DEF Capacity, UsageInv, Drawing
    <3>2. QED BY <1>1, <3>1 DEF Transaction, TransactionStages
  <2> HIDE DEF next
  <2>4. UsageTypeOK'
    <3>1. work' \in [Actors -> Transaction] BY <2>1, <2>3 DEF UsageInv, UsageTypeOK
    <3>2. lock' \in [Rows -> Actors \cup {None}] BY <1>1, <2>1 DEF UsageInv, UsageTypeOK
    <3>3. QED BY <2>1, <3>1, <3>2 DEF UsageInv, UsageTypeOK
  <2>5. LimitsHold' /\ IsFiniteSet(active)' /\ \A n \in Metrics : Quantity(n)' = Quantity(n)
    BY <2>1 DEF UsageInv, LimitsHold, PoolsHold, ActiveWithinCap, Quantity
  <2>6. /\ \A n \in Metrics : lock'[n] = lock[n]
        /\ lock'[Organization] = j
    BY <2>1 DEF UsageInv, UsageTypeOK, Rows, UsageAssumption
  <2>7. ASSUME NEW b \in Actors, b # j PROVE Drawing(b)' /\ Indexing(b)'
    <3>1. work'[b] = work[b] BY <2>1, <2>7 DEF UsageInv, UsageTypeOK
    <3>2. lock[Organization] # b BY <2>1, <2>7 DEF UsageAssumption
    <3>3. Drawing(b)' BY <2>5, <2>6, <3>1 DEF UsageInv, Drawing
    <3>4. Indexing(b)' BY <2>1, <3>1, <3>2 DEF UsageInv, Indexing
    <3>5. QED BY <3>3, <3>4
  <2>8. Drawing(j)'
    <3>1. work'[j] = next BY <1>1, <2>1 DEF UsageInv, UsageTypeOK
    <3>2. QED BY <1>1, <2>2, <2>5, <2>6, <3>1 DEF UsageInv, Drawing
  <2>9. Indexing(j)'
    <3>1. work'[j].indexed = work[j].indexed \cup {d} BY <1>1, <2>1, <2>2 DEF UsageInv, UsageTypeOK
    <3>2. IsFiniteSet(work[j].indexed) /\ IsFiniteSet(indexed)
      BY <1>1, FS_Union DEF UsageInv, Indexing
    <3>3. IsFiniteSet(work'[j].indexed) BY <3>1, <3>2, FS_AddElement
    <3>4. active' \cup work'[j].indexed = indexed \cup {d} BY <2>1, <3>1
    <3>5. Cardinality(indexed \cup {d}) = Cardinality(indexed) + 1 BY <1>4, <3>2, FS_AddElement
    <3>6. Cardinality(indexed) \in Nat BY <3>2, FS_CardinalityType
    <3>7. Cardinality(indexed \cup {d}) <= Cap
      BY <1>4, <3>5, <3>6 DEF UsageAssumption
    <3>8. QED BY <2>6, <3>3, <3>4, <3>7 DEF Indexing
  <2>10. QED BY <2>4, <2>5, <2>7, <2>8, <2>9 DEF UsageInv
<1>5. QED BY <1>2, <1>3, <1>4

\* What a committed transaction added is what the records and the index gain, and no other
\* transaction had counted on a row it held.
LEMMA CommitInv ==
    ASSUME UsageAssumption, UsageInv, NEW a \in Actors, CommitUsage(a), UNCHANGED <<onTrial, limit, before>>
    PROVE  UsageInv'
<1>1. /\ used' = [m \in Metrics |-> IF lock[m] = a THEN Quantity(m) + work[a].add[m] ELSE used[m]]
      /\ drawn' = [m \in Metrics |-> drawn[m] + work[a].add[m]]
      /\ active' = active \cup work[a].indexed
      /\ lock' = [r \in Rows |-> IF lock[r] = a THEN None ELSE lock[r]]
      /\ work' = [work EXCEPT ![a] = Idle]
  BY DEF CommitUsage, Release
<1>2. /\ Idle \in Transaction /\ Idle.indexed = {} /\ Idle.at = "idle" /\ Idle.metric # "ocr_pages"
      /\ \A m \in Metrics : Idle.add[m] = 0
  BY DEF Idle, Transaction, TransactionStages, Nothing, Metrics, UsageAssumption
<1>3. work[a] \in Transaction BY DEF UsageInv, UsageTypeOK
<1>4. ASSUME NEW m \in Metrics
      PROVE  /\ Quantity(m) \in Nat /\ work[a].add[m] \in Nat /\ drawn[m] = Quantity(m)
             /\ m \in Rows /\ None \notin Nat /\ limit \in Nat
  BY <1>3 DEF UsageInv, UsageTypeOK, Transaction, Quantity, Rows, UsageAssumption, LimitsHold, PoolsHold
<1>5. UsageTypeOK'
  <2>1. used' \in [Metrics -> Nat \cup {None}] BY <1>1, <1>4 DEF UsageInv, UsageTypeOK
  <2>2. drawn' \in [Metrics -> Nat] BY <1>1, <1>4 DEF UsageInv, UsageTypeOK
  <2>3. work' \in [Actors -> Transaction] BY <1>1, <1>2 DEF UsageInv, UsageTypeOK
  <2>4. active' \in SUBSET Corpus BY <1>1, <1>3 DEF UsageInv, UsageTypeOK, Transaction
  <2>5. lock' \in [Rows -> Actors \cup {None}] BY <1>1 DEF UsageInv, UsageTypeOK
  <2>6. QED BY <2>1, <2>2, <2>3, <2>4, <2>5 DEF UsageInv, UsageTypeOK
<1>6. ASSUME NEW m \in Metrics
      PROVE  /\ Quantity(m)' = IF lock[m] = a THEN Quantity(m) + work[a].add[m] ELSE Quantity(m)
             /\ drawn'[m] = Quantity(m)' /\ drawn'[m] <= limit
  <2>1. CASE lock[m] = a
    <3>1. Quantity(m)' = Quantity(m) + work[a].add[m] BY <1>1, <1>4, <2>1 DEF Quantity
    <3>2. Quantity(m) + work[a].add[m] <= limit BY <2>1 DEF UsageInv, Drawing
    <3>3. QED BY <1>1, <1>4, <2>1, <3>1, <3>2
  <2>2. CASE lock[m] # a
    <3>1. Quantity(m)' = Quantity(m) BY <1>1, <2>2 DEF Quantity
    <3>2. work[a].add[m] = 0 BY <2>2 DEF UsageInv, Drawing
    <3>3. drawn[m] <= limit BY DEF UsageInv, LimitsHold, PoolsHold
    <3>4. drawn'[m] = drawn[m] BY <1>1, <1>4, <3>2
    <3>5. QED BY <1>4, <2>2, <3>1, <3>3, <3>4
  <2>3. QED BY <2>1, <2>2
<1>7. IsFiniteSet(active') /\ Cardinality(active') <= Cap
  BY <1>1, FS_Union DEF UsageInv, Indexing
<1>8. LimitsHold'
  BY <1>6, <1>7 DEF LimitsHold, PoolsHold, ActiveWithinCap
<1>9. ASSUME NEW b \in Actors, b # a PROVE Drawing(b)' /\ Indexing(b)'
  <2>1. work'[b] = work[b] /\ \A r \in Rows : lock'[r] = b <=> lock[r] = b
    BY <1>1, <1>9 DEF UsageInv, UsageTypeOK, UsageAssumption
  <2>2. \A m \in Metrics : lock[m] = b => Quantity(m)' = Quantity(m)
    BY <1>6, <1>9
  <2>3. Drawing(b)' BY <1>4, <2>1, <2>2 DEF UsageInv, Drawing
  <2>4. Organization \in Rows BY DEF Rows
  <2>5. CASE lock[Organization] = b
    <3>1. active' = active BY <1>1, <1>9, <2>5 DEF UsageInv, Indexing
    <3>2. active' \cup work'[b].indexed = active \cup work[b].indexed BY <2>1, <3>1
    <3>3. lock'[Organization] = b BY <2>1, <2>4, <2>5
    <3>4. IsFiniteSet(work[b].indexed) /\ Cardinality(active \cup work[b].indexed) <= Cap
      BY DEF UsageInv, Indexing
    <3>5. Indexing(b)' BY <2>1, <3>2, <3>3, <3>4 DEF Indexing
    <3>6. QED BY <2>3, <3>5
  <2>6. CASE lock[Organization] # b
    <3>1. work'[b].indexed = {} BY <2>1, <2>6 DEF UsageInv, Indexing
    <3>2. active' \cup work'[b].indexed = active' BY <3>1
    <3>3. Indexing(b)' BY <1>7, <3>1, <3>2, FS_EmptySet DEF Indexing
    <3>4. QED BY <2>3, <3>3
  <2>7. QED BY <2>3, <2>5, <2>6
<1>10. Drawing(a)' /\ Indexing(a)'
  <2>1. work'[a] = Idle /\ \A r \in Rows : lock'[r] # a
    BY <1>1 DEF UsageInv, UsageTypeOK, UsageAssumption
  <2>2. Drawing(a)' BY <1>2, <1>4, <2>1 DEF Drawing
  <2>3. active' \cup Idle.indexed = active' BY <1>2
  <2>4. Indexing(a)' BY <1>2, <1>7, <2>1, <2>3, FS_EmptySet DEF Indexing
  <2>5. QED BY <2>2, <2>4
<1>11. QED BY <1>5, <1>7, <1>8, <1>9, <1>10 DEF UsageInv

\* A removal only makes room.
LEMMA RemoveInv ==
    ASSUME UsageAssumption, UsageInv, NEW d, Remove(d), UNCHANGED <<onTrial, limit, before>>
    PROVE  UsageInv'
<1>1. active' = active \ {d} /\ UNCHANGED <<lock, used, work, drawn>> BY DEF Remove
<1>2. UsageTypeOK' BY <1>1 DEF UsageInv, UsageTypeOK
<1>3. ASSUME NEW S, IsFiniteSet(S)
      PROVE  /\ IsFiniteSet(active' \cup S)
             /\ Cardinality(active \cup S) <= Cap => Cardinality(active' \cup S) <= Cap
  <2>1. IsFiniteSet(active \cup S) BY <1>3, FS_Union DEF UsageInv
  <2>2. active' \cup S \subseteq active \cup S BY <1>1
  <2>3. /\ IsFiniteSet(active' \cup S) /\ Cardinality(active' \cup S) <= Cardinality(active \cup S)
        /\ Cardinality(active \cup S) \in Nat /\ Cardinality(active' \cup S) \in Nat
    BY <2>1, <2>2, FS_Subset, FS_CardinalityType
  <2>4. QED BY <2>3 DEF UsageAssumption
<1>4. active \cup {} = active /\ active' \cup {} = active' OBVIOUS
<1>5. IsFiniteSet(active') /\ Cardinality(active') <= Cap
  BY <1>3, <1>4, FS_EmptySet DEF UsageInv, LimitsHold, ActiveWithinCap
<1>6. LimitsHold' /\ \A m \in Metrics : Quantity(m)' = Quantity(m)
  BY <1>1, <1>5 DEF UsageInv, LimitsHold, PoolsHold, ActiveWithinCap, Quantity
<1>7. ASSUME NEW a \in Actors PROVE Drawing(a)' /\ Indexing(a)'
  <2>1. Drawing(a)' BY <1>1, <1>6 DEF UsageInv, Drawing
  <2>2. Indexing(a)' BY <1>1, <1>3 DEF UsageInv, Indexing
  <2>3. QED BY <2>1, <2>2
<1>8. QED BY <1>2, <1>5, <1>6, <1>7 DEF UsageInv

\* Every step keeps the invariant.
LEMMA UsageStepInv == ASSUME UsageAssumption, UsageInv, [UsageNext]_usageVars PROVE UsageInv'
<1>1. CASE UNCHANGED usageVars
  BY <1>1 DEF usageVars, UsageInv, UsageTypeOK, LimitsHold, PoolsHold, ActiveWithinCap, Quantity, Drawing, Indexing
<1> SUFFICES ASSUME UsageNext PROVE UsageInv'
  BY <1>1
<1> USE DEF Actors
<1>2. UNCHANGED <<onTrial, limit, before>> BY DEF UsageNext
<1>3. ASSUME NEW j \in Jobs, StartBatch(j) PROVE UsageInv'
  <2>1. PICK batch \in SUBSET Docs[j] : work' = [work EXCEPT ![j] = [Idle EXCEPT !.at = "batch", !.left = batch]]
    BY <1>3 DEF StartBatch
  <2> DEFINE next == [Idle EXCEPT !.at = "batch", !.left = batch]
  <2>2. next \in Transaction /\ next.add = Idle.add /\ next.indexed = Idle.indexed /\ next.metric # "ocr_pages"
        /\ next.at = "batch"
    BY DEF Idle, Transaction, TransactionStages, Nothing, Corpus, UsageAssumption, Metrics
  <2>3. work[j] = Idle /\ UNCHANGED <<lock, used, active, drawn>> BY <1>3 DEF StartBatch
  <2> HIDE DEF next
  <2>4. Moves(j, next) BY <2>1, <2>2, <2>3 DEF Moves, next
  <2>5. QED BY <1>2, <2>4, MoveInv
<1>4. ASSUME NEW j \in Jobs, NextDocument(j) PROVE UsageInv'
  <2>1. PICK d \in work[j].left, ocr \in BOOLEAN :
          work' = [work EXCEPT ![j] = [work[j] EXCEPT !.at = IF ocr THEN "check" ELSE "document", !.doc = d,
                                       !.ocr = ocr, !.metric = IF ocr THEN "ocr_pages" ELSE None]]
    BY <1>4 DEF NextDocument
  <2> DEFINE next == [work[j] EXCEPT !.at = IF ocr THEN "check" ELSE "document", !.doc = d,
                                     !.ocr = ocr, !.metric = IF ocr THEN "ocr_pages" ELSE None]
  <2>2. work[j] \in Transaction /\ d \in Corpus BY DEF UsageInv, UsageTypeOK, Transaction
  <2>3. UNCHANGED <<lock, used, active, drawn>> BY <1>4 DEF NextDocument
  <2>4. Moves(j, next) BY <2>1, <2>2, <2>3 DEF Moves, Transaction, TransactionStages, Metrics
  <2>5. QED BY <1>2, <2>4, MoveInv
<1>5. ASSUME NEW j \in Jobs, Embed(j) PROVE UsageInv'
  BY <1>2, <1>5, WantsInv DEF Embed
<1>6. ASSUME NEW q \in Questions, Ask(q) PROVE UsageInv'
  BY <1>2, <1>6, WantsInv DEF Ask
<1>7. ASSUME NEW q \in Questions, Retrieve(q) PROVE UsageInv'
  <2>1. CASE Wants(q, "embedding_tokens") BY <1>2, <1>7, <2>1, WantsInv DEF Retrieve
  <2>2. CASE work' = [work EXCEPT ![q].at = "answered"]
    <3> DEFINE next == [work[q] EXCEPT !.at = "answered"]
    <3>1. work[q] \in Transaction /\ work[q].at = "retrieve" /\ UNCHANGED <<lock, used, active, drawn>>
      BY <1>7 DEF UsageInv, UsageTypeOK, Retrieve
    <3>2. work[q].metric = "ocr_pages" => work[q].doc \in Corpus BY DEF UsageInv, Drawing
    <3>3. Moves(q, next) BY <2>2, <3>1, <3>2 DEF Moves, Transaction, TransactionStages
    <3>4. QED BY <1>2, <3>3, MoveInv
  <2>3. QED BY <1>7, <2>1, <2>2 DEF Retrieve
<1>8. QED
  BY <1>2, <1>3, <1>4, <1>5, <1>6, <1>7, PoolInv, CapacityInv, CommitInv, RemoveInv, RollbackInv
  DEF UsageNext, Fail

\* No pool is drawn past its limit, no unit used is lost or counted twice, and the active
\* documents stay within the plan, however transactions interleave, fail or end in a deadlock
\* (audit_usage/service.py:88-160, ingestion/service.py:1008-1027).
THEOREM LimitsHoldAlways == ASSUME UsageAssumption PROVE UsageSpec => []LimitsHold
<1>1. UsageInv => LimitsHold BY DEF UsageInv
<1>2. QED BY <1>1, UsageInitInv, UsageStepInv, PTL DEF UsageSpec

-----------------------------------------------------------------------------
(* Tasks in ClickUp.                                                       *)

RequestStages == {"unsent", "insert", "update", "send", "settle", "ended"}
Working == {"insert", "update", "send", "settle"}
Outcomes == {"created", "outcome_unknown"} \cup Refusals

TaskTypeOK ==
    /\ request \in [Requests -> [at : RequestStages, key : Keys \cup {NoRow},
                                 message : Messages \cup {NoRow}, outcome : {"none"} \cup Outcomes]]
    /\ ledger \in [Keys -> LedgerRows \cup {NoRow}]
    /\ tasks \in [Keys -> Nat]
    /\ refused \in SUBSET Keys
    /\ \A r \in Requests :
        /\ request[r].at \in Working => request[r].key \in Keys /\ request[r].message \in Messages
        /\ request[r].at = "settle" => request[r].outcome \in Outcomes

\* A request at one of the stages S works under key k.
At(r, S, k) == request[r].at \in S /\ request[r].key = k

\* Without a row nothing was sent under the key, and nothing is about to be.
NothingBeforeRow ==
    \A k \in Keys : ledger[k] = NoRow =>
        tasks[k] = 0 /\ \A r \in Requests : ~At(r, {"update", "send", "settle"}, k)

\* An outcome that is a refusal is one of a refused key.
RefusalsAreKnown ==
    \A r \in Requests : request[r].at = "settle" /\ request[r].outcome \in Refusals =>
        request[r].key \in refused

\* A key ClickUp refused nothing under: its row failed only with an unknown outcome, no request
\* is about to take it over, one request at most is past its first commit, and it made no
\* task while that request has not sent, one at most after.
OnePost(k) ==
    /\ ledger[k] # NoRow /\ ledger[k].status = "failed" => ledger[k].error = "outcome_unknown"
    /\ \A r \in Requests : ~At(r, {"update"}, k)
    /\ \A r, q \in Requests : At(r, {"send", "settle"}, k) /\ At(q, {"send", "settle"}, k) => r = q
    /\ \A r \in Requests : At(r, {"send"}, k) => tasks[k] = 0
    /\ tasks[k] <= 1

TaskInv ==
    /\ TaskTypeOK /\ NothingBeforeRow /\ RefusalsAreKnown
    /\ \A k \in Keys \ refused : OnePost(k)

\* The ledger starts empty.
LEMMA TaskInitInv == ASSUME TaskAssumption PROVE TaskInit => TaskInv
BY DEF TaskAssumption, TaskInit, TaskInv, TaskTypeOK, NothingBeforeRow, RefusalsAreKnown, OnePost, At,
   Fresh, RequestStages, Working, Outcomes, Refusals

\* A request that ends, whatever for, disturbs nothing that is not its own.
LEMMA EndInv ==
    ASSUME TaskInv, NEW r \in Requests, request' = End(r), UNCHANGED <<ledger, tasks, refused>>
    PROVE  TaskInv'
BY DEF TaskInv, TaskTypeOK, NothingBeforeRow, RefusalsAreKnown, OnePost, At, End, Fresh, RequestStages, Working,
   Outcomes, Refusals

\* Every step keeps the invariant.
LEMMA TaskStepInv == ASSUME TaskAssumption, TaskInv, [TaskNext]_taskVars PROVE TaskInv'
<1> USE DEF RequestStages, Working, Outcomes, Refusals
<1>1. ASSUME NEW r \in Requests, Begin(r) PROVE TaskInv'
  <2>1. CASE request' = End(r) BY <1>1, <2>1, EndInv DEF Begin
  <2>2. CASE request' # End(r)
    <3>1. PICK user \in Users, m \in Messages, k \in Keys :
            /\ ledger[k] = NoRow \/ Replay(ledger[k], user, m) = "retry"
            /\ request' = [request EXCEPT ![r] =
                  [at |-> IF ledger[k] = NoRow THEN "insert" ELSE "update",
                   key |-> k, message |-> m, outcome |-> "none"]]
      BY <1>1, <2>2 DEF Begin
    <3>2. request[r].at = "unsent" /\ UNCHANGED <<ledger, tasks, refused>>
      BY <1>1 DEF Begin
    <3>3. ledger[k] # NoRow => ledger[k].status = "failed" /\ ledger[k].error # "outcome_unknown"
      BY <3>1 DEF Replay, TaskInv, TaskTypeOK, LedgerRows
    <3>4. TaskTypeOK' BY <3>1, <3>2 DEF TaskInv, TaskTypeOK
    <3>5. NothingBeforeRow' /\ RefusalsAreKnown'
      BY <3>1, <3>2 DEF TaskInv, TaskTypeOK, NothingBeforeRow, RefusalsAreKnown, At
    <3>6. ASSUME NEW c \in Keys \ refused' PROVE OnePost(c)'
      BY <3>1, <3>2, <3>3, <3>6 DEF TaskInv, TaskTypeOK, OnePost, At
    <3>7. QED BY <3>4, <3>5, <3>6 DEF TaskInv
  <2>3. QED BY <2>1, <2>2
<1>2. ASSUME NEW r \in Requests, Commit(r) PROVE TaskInv'
  <2> DEFINE k == request[r].key
             m == request[r].message
  <2>1. CASE request[r].at = "insert" /\ ledger[k] # NoRow
    BY <1>2, <2>1, EndInv DEF Commit
  <2>2. CASE ~(request[r].at = "insert" /\ ledger[k] # NoRow)
    <3>1. /\ ledger' = [ledger EXCEPT ![k] = Row(Author[m], m, "pending", "none")]
          /\ request' = [request EXCEPT ![r].at = "send"]
          /\ UNCHANGED <<tasks, refused>>
          /\ request[r].at \in {"insert", "update"}
      BY <1>2, <2>2 DEF Commit
    <3>2. k \in Keys /\ m \in Messages BY <3>1 DEF TaskInv, TaskTypeOK
    <3>3. Row(Author[m], m, "pending", "none") \in LedgerRows
      BY <3>2 DEF Row, LedgerRows, Users
    <3>4. ledger'[k] # NoRow /\ ledger'[k].status = "pending"
      BY <3>1, <3>2, <3>3 DEF TaskInv, TaskTypeOK, TaskAssumption, LedgerRows, Row, Users
    <3>5. TaskTypeOK' BY <3>1, <3>2, <3>3 DEF TaskInv, TaskTypeOK
    <3>6. NothingBeforeRow' /\ RefusalsAreKnown'
      BY <3>1, <3>2, <3>4 DEF TaskInv, TaskTypeOK, NothingBeforeRow, RefusalsAreKnown, At
    <3>7. ASSUME NEW c \in Keys \ refused', c = k PROVE OnePost(c)'
      <4>1. request[r].at = "insert" /\ ledger[k] = NoRow
        BY <2>2, <3>1, <3>2, <3>7 DEF TaskInv, OnePost, At
      <4>2. tasks[k] = 0 /\ \A q \in Requests : ~At(q, {"update", "send", "settle"}, k)
        BY <3>2, <4>1 DEF TaskInv, NothingBeforeRow
      <4>3. QED BY <3>1, <3>2, <3>4, <3>7, <4>2 DEF OnePost, At, TaskInv, TaskTypeOK
    <3>8. ASSUME NEW c \in Keys \ refused', c # k PROVE OnePost(c)'
      BY <3>1, <3>2, <3>8 DEF TaskInv, TaskTypeOK, OnePost, At
    <3>9. QED BY <3>5, <3>6, <3>7, <3>8 DEF TaskInv
  <2>3. QED BY <2>1, <2>2
<1>3. ASSUME NEW r \in Requests, Post(r) PROVE TaskInv'
  <2> DEFINE k == request[r].key
  <2>1. PICK outcome \in Outcomes, made \in {0, 1} :
          /\ request' = [request EXCEPT ![r] = [@ EXCEPT !.at = "settle", !.outcome = outcome]]
          /\ tasks' = [tasks EXCEPT ![k] = @ + made]
          /\ refused' = IF outcome \in Refusals THEN refused \cup {k} ELSE refused
          /\ UNCHANGED ledger
    BY <1>3 DEF Post
  <2>2. request[r].at = "send" /\ k \in Keys
    BY <1>3 DEF Post, TaskInv, TaskTypeOK
  <2>3. TaskTypeOK'
    <3>1. tasks' \in [Keys -> Nat] BY <2>1, <2>2 DEF TaskInv, TaskTypeOK
    <3>2. refused' \in SUBSET Keys BY <2>1, <2>2 DEF TaskInv, TaskTypeOK
    <3>3. request' \in [Requests -> [at : RequestStages, key : Keys \cup {NoRow},
                                     message : Messages \cup {NoRow}, outcome : {"none"} \cup Outcomes]]
      <4> DEFINE next == [request[r] EXCEPT !.at = "settle", !.outcome = outcome]
      <4>1. /\ request[r] \in [at : RequestStages, key : Keys \cup {NoRow},
                               message : Messages \cup {NoRow}, outcome : {"none"} \cup Outcomes]
            /\ request' = [request EXCEPT ![r] = next]
        BY <2>1 DEF TaskInv, TaskTypeOK
      <4>2. next \in [at : RequestStages, key : Keys \cup {NoRow},
                      message : Messages \cup {NoRow}, outcome : {"none"} \cup Outcomes]
        BY <4>1
      <4> HIDE DEF next
      <4>3. QED BY <4>1, <4>2 DEF TaskInv, TaskTypeOK
    <3>4. \A q \in Requests :
            /\ request'[q].at \in Working => request'[q].key \in Keys /\ request'[q].message \in Messages
            /\ request'[q].at = "settle" => request'[q].outcome \in Outcomes
      BY <2>1, <2>2 DEF TaskInv, TaskTypeOK
    <3>5. ledger' \in [Keys -> LedgerRows \cup {NoRow}] BY <2>1 DEF TaskInv, TaskTypeOK
    <3>6. QED BY <3>1, <3>2, <3>3, <3>4, <3>5 DEF TaskTypeOK
  <2>4. NothingBeforeRow' /\ RefusalsAreKnown'
    BY <2>1, <2>2 DEF TaskInv, TaskTypeOK, NothingBeforeRow, RefusalsAreKnown, At
  <2>5. ASSUME NEW c \in Keys \ refused' PROVE OnePost(c)'
    <3>1. c \in Keys \ refused BY <2>1, <2>5
    <3>2. OnePost(c) BY <3>1 DEF TaskInv
    <3>3. tasks[c] \in Nat /\ tasks'[c] \in Nat BY <2>3, <3>1 DEF TaskInv, TaskTypeOK
    <3>4. c = k => tasks[c] = 0 /\ \A q \in Requests : At(q, {"send", "settle"}, k) => q = r
      BY <2>2, <3>2 DEF OnePost, At
    <3>5. QED BY <2>1, <2>2, <3>1, <3>2, <3>3, <3>4 DEF OnePost, At, TaskInv, TaskTypeOK
  <2>6. QED BY <2>3, <2>4, <2>5 DEF TaskInv
<1>4. ASSUME NEW r \in Requests, Settle(r) PROVE TaskInv'
  <2> DEFINE q == request[r]
             over == [Fresh EXCEPT !.at = "ended"]
             new == IF q.outcome = "created" THEN Row(ledger[q.key].user, ledger[q.key].message, "created", "none")
                    ELSE Row(ledger[q.key].user, ledger[q.key].message, "failed", q.outcome)
  <2>1. /\ q.at = "settle" /\ q.key \in Keys /\ q.outcome \in Outcomes
        /\ ledger' = [ledger EXCEPT ![q.key] = new]
        /\ request' = End(r) /\ UNCHANGED <<tasks, refused>>
    BY <1>4 DEF Settle, TaskInv, TaskTypeOK
  <2>2. ledger[q.key] \in LedgerRows
    BY <2>1 DEF TaskInv, TaskTypeOK, NothingBeforeRow, At
  <2>3. new \in LedgerRows /\ new # NoRow
    BY <2>1, <2>2 DEF Row, LedgerRows, TaskAssumption
  <2>4. new.status = "failed" => q.outcome = new.error /\ q.outcome # "created"
    BY DEF Row
  <2>5. q.outcome \in Refusals => q.key \in refused
    BY <2>1 DEF TaskInv, RefusalsAreKnown
  <2>6. /\ request' = [request EXCEPT ![r] = over] /\ over.at = "ended"
        /\ over \in [at : RequestStages, key : Keys \cup {NoRow},
                     message : Messages \cup {NoRow}, outcome : {"none"} \cup Outcomes]
    BY <2>1 DEF End, Fresh
  <2> HIDE DEF new, over
  <2>7. TaskTypeOK' BY <2>1, <2>3, <2>6 DEF TaskInv, TaskTypeOK
  <2>8. NothingBeforeRow' /\ RefusalsAreKnown'
    BY <2>1, <2>3, <2>6 DEF TaskInv, TaskTypeOK, NothingBeforeRow, RefusalsAreKnown, At
  <2>9. ASSUME NEW c \in Keys \ refused' PROVE OnePost(c)'
    <3>1. OnePost(c) /\ c \in Keys BY <2>1, <2>9 DEF TaskInv
    <3>2. ledger' [c] # NoRow /\ ledger'[c].status = "failed" => ledger'[c].error = "outcome_unknown"
      <4>1. CASE c = q.key BY <2>1, <2>3, <2>4, <2>5, <2>9, <4>1 DEF TaskInv, TaskTypeOK
      <4>2. CASE c # q.key BY <2>1, <3>1, <4>2 DEF OnePost, TaskInv, TaskTypeOK
      <4>3. QED BY <4>1, <4>2
    <3>3. QED BY <2>1, <2>6, <3>1, <3>2 DEF OnePost, At, TaskInv, TaskTypeOK
  <2>10. QED BY <2>7, <2>8, <2>9 DEF TaskInv
<1>5. ASSUME NEW r \in Requests, Crash(r) PROVE TaskInv'
  BY <1>5, EndInv DEF Crash
<1>6. CASE UNCHANGED <<request, ledger, tasks, refused>>
  BY <1>6 DEF TaskInv, TaskTypeOK, NothingBeforeRow, RefusalsAreKnown, OnePost, At
<1>7. QED BY <1>1, <1>2, <1>3, <1>4, <1>5, <1>6 DEF TaskNext, taskVars, ListOptions, Reconnect, Select, Hide,
      MinutePasses

\* A second task of a key comes only after a refusal, however many requests share the key and
\* wherever their workers die (clickup_tasks.py:311-333).
THEOREM SecondTaskAfterRefusalAlways ==
    ASSUME TaskAssumption PROVE TaskSpec => []SecondTaskOnlyAfterRefusal
<1>1. TaskInv => SecondTaskOnlyAfterRefusal
  BY DEF TaskInv, TaskTypeOK, OnePost, SecondTaskOnlyAfterRefusal
<1>2. QED BY <1>1, TaskInitInv, TaskStepInv, PTL DEF TaskSpec

-----------------------------------------------------------------------------
(* Billing.                                                                *)

Copies == {"upsert", "cancel"}
Payments == {"failed", "paid"}
Event == [n : Nat, sub : Subs, kind : Copies \cup Payments, at : Nat]

Paying == {"active", "past_due"}

\* Rows are those of the provider's subscriptions, and accounts have a type.
Typed ==
    /\ truth \in [Subs -> SubRow \cup {NoSub}] /\ row \in [Subs -> SubRow \cup {NoSub}]
    /\ open \in [Subs -> Types \cup {"no"}] /\ account \in Types
    /\ last \in [Subs -> Nat] /\ order \in Seq(Subs)
    /\ missed \subseteq Subs /\ paid \subseteq Subs

\* Events are numbered from one in the order of their seconds.
InSequence(E, second) ==
    /\ IsFiniteSet(E) /\ E \subseteq Event /\ second \in Nat
    /\ \A e \in E : e.n \in 1..Cardinality(E) /\ e.at <= second
    /\ \A e, f \in E : e.n = f.n => e = f
    /\ \A e, f \in E : e.n <= f.n => e.at <= f.at

\* Those handled are among the events.
Numbered == InSequence(events, clock) /\ done \subseteq 1..Sent

CopyOf(e, s) == e \in events /\ e.sub = s /\ e.kind \in Copies

\* The last event that carries a copy of its subscription.
Newest(e) == e.kind \in Copies /\ \A f \in events : CopyOf(f, e.sub) => f.n <= e.n

\* What the events say of a subscription: it exists since the first, not while a checkout is open, a payment after the last
\* copy tells the status it has, and a cancellation is the last of all.
Told(s) ==
    /\ open[s] # "no" => truth[s] = NoSub
    /\ truth[s] # NoSub => \E e \in events : e.sub = s /\ Newest(e)
    /\ row[s] # NoSub => truth[s] # NoSub
    /\ \A e \in events : e.sub = s =>
        /\ truth[s] # NoSub
        /\ e.kind = "cancel" => truth[s].status = "canceled" /\ \A f \in events : f.sub = s => f.n <= e.n
        /\ e.kind = "failed" /\ (\A f \in events : CopyOf(f, s) => f.n < e.n) => truth[s].status = "past_due"
        /\ e.kind = "paid" /\ (\A f \in events : CopyOf(f, s) => f.n < e.n) => truth[s].status = "active"

\* Who pays: at the provider, in the row.
PaidFor(s) ==
    /\ truth[s] # NoSub /\ truth[s].status \in Paying => s \in paid
    /\ row[s] # NoSub /\ row[s].status \in Paying => s \in paid

\* A handler holds the subscription as it was no earlier than its event, so as it is now, or a newer
\* event is there.
Held(h) ==
    LET e == handler[h].event IN
    handler[h] # Free =>
        /\ e \in events /\ handler[h].copy \in SubRow /\ handler[h].known \in BOOLEAN
        /\ handler[h].known => row[e.sub] # NoSub
        /\ handler[h].copy = truth[e.sub] \/ \E f \in events : CopyOf(f, e.sub) /\ f.n > e.n
        /\ handler[h].copy.status \in Paying => e.sub \in paid

\* Once the newest copy was handled, the row is of its second at least, and right or counted as missed.
Mirrored(s) ==
    \A e \in events : e.sub = s /\ Newest(e) /\ e.n \in done =>
        row[s] # NoSub /\ last[s] >= e.at /\ (row[s] = truth[s] \/ s \in missed)

\* No step brings a subscription back whose cancellation was applied, but of the very same second.
NotRevived ==
    \A s \in Subs, e \in events :
        e.kind = "cancel" /\ e.sub = s /\ e.n \in done =>
            \/ row[s] = NoSub \/ row[s].status # "canceled" \/ row'[s].status = "canceled"
            \/ \E f \in events : f.sub = s /\ f.at = last[s] /\ f.n \in done' \ done

BillingInv ==
    /\ Typed /\ Numbered /\ LegacyKept
    /\ \A s \in Subs : Told(s) /\ PaidFor(s) /\ Mirrored(s)
    /\ handler \in [Handlers -> {handler[h] : h \in Handlers}]
    /\ \A h \in Handlers : Held(h)

-----------------------------------------------------------------------------
(* The rows in the order they were made.                                   *)

LEMMA GreatestIndex ==
    ASSUME NEW n \in Nat, NEW S \in SUBSET (1..n), S # {}
    PROVE  \E i \in S : \A j \in S : j <= i
<1> DEFINE T == {n - i : i \in S}
<1>1. T \subseteq Nat /\ T # {}
  <2>1. \A i \in S : n - i \in Nat
    OBVIOUS
  <2>2. PICK i \in S : TRUE
    OBVIOUS
  <2>3. n - i \in T
    OBVIOUS
  <2> QED BY <2>1, <2>3
<1>2. PICK x \in T : \A y \in T : ~ (<<y, x>> \in OpToRel(<, Nat))
  BY <1>1, NatLessThanWellFounded, WFMin
<1>3. \A y \in T : ~ (y < x)
  BY <1>1, <1>2 DEF OpToRel
<1>4. PICK i \in S : x = n - i
  BY <1>2
<1>5. ASSUME NEW j \in S PROVE j <= i
  <2>1. ~ (n - j < n - i)
    BY <1>3, <1>4
  <2> QED BY <2>1
<1> QED BY <1>5

\* The current subscription is one of the rows.
LEMMA CurrentIsARow ==
    ASSUME NEW r, NEW o \in Seq(Subs), Current(r, o) # NoSub
    PROVE  \E s \in Subs : r[s] = Current(r, o)
<1> DEFINE live == {i \in 1..Len(o) : r[o[i]].status # "canceled"}
           newest == CHOOSE i \in live : \A j \in live : j <= i
<1>1. live # {}
  BY DEF Current
<1>2. newest \in live
  <2>1. Len(o) \in Nat /\ live \in SUBSET (1..Len(o))
    OBVIOUS
  <2>2. \E i \in live : \A j \in live : j <= i
    <3> HIDE DEF live
    <3> QED BY <1>1, <2>1, GreatestIndex
  <2> QED BY <2>2
<1>3. Current(r, o) = r[o[newest]]
  BY <1>1 DEF Current
<1>4. o[newest] \in Subs
  <2> HIDE DEF newest
  <2>1. newest \in 1..Len(o)
    BY <1>2
  <2> QED BY <2>1
<1> QED BY <1>3, <1>4

\* What grants access is a subscription that pays.
LEMMA GrantedByPayer ==
    ASSUME NEW r, NEW o \in Seq(Subs), NEW P,
           \A s \in Subs : r[s] # NoSub /\ r[s].status \in Paying => s \in P,
           NEW acct, NEW mk, NEW tr, NEW cp, Resolve(acct, mk, tr, cp, r, o) = "subscription"
    PROVE  \E s \in P : r[s] = Current(r, o)
<1>1. Current(r, o) # NoSub /\ Grants(Current(r, o))
  BY DEF Resolve
<1> QED BY <1>1, CurrentIsARow DEF Grants, Paying

\* A payment that comes to a row leaves who pays as it is.
LEMMA AfterPaymentType ==
    ASSUME NEW sub \in SubRow, NEW kind \in Payments
    PROVE  /\ AfterPayment(sub, kind) \in SubRow
           /\ AfterPayment(sub, kind).status \in Paying => sub.status \in Paying
           /\ kind = "failed" /\ sub.status = "past_due" => AfterPayment(sub, kind) = sub
           /\ kind = "paid" /\ sub.status = "active" => AfterPayment(sub, kind) = sub
BY DEF AfterPayment, Payments, Paying, SubRow, Statuses

\* A copy is as it was read, or canceled.
LEMMA AfterCopyType ==
    ASSUME NEW sub \in SubRow, NEW kind \in Copies
    PROVE  /\ AfterCopy(sub, kind) \in SubRow
           /\ AfterCopy(sub, kind).status \in Paying => sub.status \in Paying
           /\ kind # "cancel" \/ sub.status = "canceled" => AfterCopy(sub, kind) = sub
BY DEF AfterCopy, Copies, Paying, SubRow, Statuses

-----------------------------------------------------------------------------
(* The provider's events.                                                  *)

\* One more event, of this second or later.
LEMMA AddEvent ==
    ASSUME NEW E, NEW k, InSequence(E, k), NEW c \in Event, c.n = Cardinality(E) + 1, c.at >= k
    PROVE  InSequence(E \cup {c}, c.at) /\ Cardinality(E \cup {c}) = Cardinality(E) + 1
<1>1. IsFiniteSet(E) /\ c \notin E /\ Cardinality(E) \in Nat
  BY FS_CardinalityType DEF InSequence, Event
<1>2. IsFiniteSet(E \cup {c}) /\ Cardinality(E \cup {c}) = Cardinality(E) + 1
  BY <1>1, FS_AddElement
<1> QED BY <1>1, <1>2 DEF InSequence, Event

\* What an announced change leaves: a copy event numbered next, and perhaps one of a payment.
Announced(s, kind, more) ==
    \E c \in Event :
        /\ c.n = Sent + 1 /\ c.sub = s /\ c.kind = kind /\ c \in events'
        /\ \A e \in events' : e \in events \/ e = c \/ (e.n = Sent + 2 /\ e.sub = s /\ e.kind \in more)

LEMMA SendOne ==
    ASSUME Numbered, done' = done, NEW s \in Subs, NEW kind \in Copies, Send(s, <<kind>>)
    PROVE  Numbered' /\ Sent' >= Sent /\ Sent + 1 <= MaxEvents /\ events \subseteq events' /\ Announced(s, kind, {})
<1>1. Len(<<kind>>) = 1 /\ <<kind>>[1] = kind /\ Sent \in Nat
  BY FS_CardinalityType DEF Numbered, InSequence, Sent
<1>2. PICK at \in [1..1 -> {clock, clock + 1}] :
        /\ clock' = at[1]
        /\ events' = events \cup {[n |-> Sent + i, sub |-> s, kind |-> <<kind>>[i], at |-> at[i]] : i \in 1..1}
  BY <1>1 DEF Send
<1> DEFINE c == [n |-> Sent + 1, sub |-> s, kind |-> kind, at |-> at[1]]
<1>3. at[1] \in {clock, clock + 1} /\ clock \in Nat
  BY <1>2 DEF Numbered, InSequence
<1>4. events' = events \cup {c}
  BY <1>1, <1>2
<1>5. c \in Event /\ c.n = Sent + 1 /\ c.sub = s /\ c.kind = kind /\ c.at = at[1] /\ c.at >= clock
  BY <1>1, <1>3 DEF Event
<1> HIDE DEF c
<1>6. InSequence(events', clock') /\ Sent' = Sent + 1
  BY <1>2, <1>4, <1>5, AddEvent DEF Numbered, Sent
<1>7. done' \subseteq 1..Sent'
  BY <1>1, <1>6 DEF Numbered
<1>8. Sent + 1 <= MaxEvents
  BY <1>1 DEF Send
<1> QED BY <1>1, <1>4, <1>5, <1>6, <1>7, <1>8 DEF Numbered, Announced

LEMMA SendTwo ==
    ASSUME Numbered, done' = done, NEW s \in Subs, NEW kind \in Payments, Send(s, <<"upsert", kind>>)
    PROVE  Numbered' /\ Sent' >= Sent /\ Sent + 1 <= MaxEvents /\ events \subseteq events' /\ Announced(s, "upsert", {kind})
<1> DEFINE kinds == <<"upsert", kind>>
<1>1. Len(kinds) = 2 /\ kinds[1] = "upsert" /\ kinds[2] = kind /\ Sent \in Nat
  BY FS_CardinalityType DEF Numbered, InSequence, Sent
<1> HIDE DEF kinds
<1>2. PICK at \in [1..2 -> {clock, clock + 1}] :
        /\ \A i, j \in 1..2 : i <= j => at[i] <= at[j]
        /\ clock' = at[2]
        /\ events' = events \cup {[n |-> Sent + i, sub |-> s, kind |-> kinds[i], at |-> at[i]] : i \in 1..2}
  BY <1>1 DEF Send, kinds
<1> DEFINE c == [n |-> Sent + 1, sub |-> s, kind |-> "upsert", at |-> at[1]]
           d == [n |-> Sent + 2, sub |-> s, kind |-> kind, at |-> at[2]]
<1>3. at[1] \in {clock, clock + 1} /\ at[2] \in {clock, clock + 1} /\ clock \in Nat /\ at[1] <= at[2]
  BY <1>2 DEF Numbered, InSequence
<1>4. events' = (events \cup {c}) \cup {d}
  BY <1>1, <1>2
<1>5. c \in Event /\ c.n = Sent + 1 /\ c.sub = s /\ c.kind = "upsert" /\ c.at = at[1] /\ c.at >= clock
  BY <1>1, <1>3 DEF Event, Copies
<1>6. d \in Event /\ d.n = Sent + 2 /\ d.sub = s /\ d.kind = kind /\ d.at = at[2] /\ d.at >= c.at
  BY <1>1, <1>3 DEF Event
<1> HIDE DEF c, d
<1>7. InSequence(events \cup {c}, c.at) /\ Cardinality(events \cup {c}) = Sent + 1
  BY <1>5, AddEvent DEF Numbered, Sent
<1>8. InSequence(events', clock') /\ Sent' = Sent + 2
  <2>1. d.n = Cardinality(events \cup {c}) + 1
    BY <1>1, <1>6, <1>7
  <2> QED BY <1>1, <1>2, <1>4, <1>6, <1>7, <2>1, AddEvent DEF Sent
<1>9. done' \subseteq 1..Sent'
  BY <1>1, <1>8 DEF Numbered
<1>10. Sent + 1 <= MaxEvents
  BY <1>1, BillingAssumption DEF Send, kinds
<1> QED BY <1>1, <1>4, <1>5, <1>6, <1>8, <1>9, <1>10 DEF Numbered, Announced

\* A subscription that becomes another, and perhaps its row with it: the copy event that is sent is the
\* newest, no handler has it, and those that hold an older one are outdated.
LEMMA Becoming ==
    ASSUME BillingInv, Numbered', NEW s \in Subs,
           NEW kind \in Copies, NEW more \in SUBSET Payments, Announced(s, kind, more), events \subseteq events',
           \A t \in Subs \ {s} : truth'[t] = truth[t] /\ row'[t] = row[t] /\ open'[t] = open[t],
           truth[s] = NoSub \/ truth[s].status # "canceled", truth'[s] \in SubRow, open'[s] = "no",
           row'[s] = NoSub <=> row[s] = NoSub, row[s] # NoSub => row'[s].status = row[s].status /\ truth[s] # NoSub,
           kind = "cancel" => truth'[s].status = "canceled",
           "failed" \in more => truth'[s].status = "past_due", "paid" \in more => truth'[s].status = "active",
           truth'[s].status \in Paying => s \in paid', paid \subseteq paid',
           UNCHANGED <<last, done, missed, handler>>
    PROVE  /\ \A t \in Subs : Told(t)' /\ PaidFor(t)' /\ Mirrored(t)'
           /\ \A h \in Handlers : Held(h)'
<1>1. PICK c \in Event :
        /\ c.n = Sent + 1 /\ c.sub = s /\ c.kind = kind /\ c \in events'
        /\ \A e \in events' : e \in events \/ e = c \/ (e.n = Sent + 2 /\ e.sub = s /\ e.kind \in more)
  BY DEF Announced
<1>2. Sent \in Nat /\ \A e \in events : e \in Event /\ e.n \in Nat /\ e.n <= Sent
  BY FS_CardinalityType DEF BillingInv, Numbered, InSequence, Sent
<1>3. NoSub \notin SubRow
  BY BillingAssumption DEF SubRow
<1>4. Copies \cap Payments = {}
  BY DEF Copies, Payments
<1>5. \A e \in events' : e.sub # s => e \in events
  BY <1>1
<1>6. \A e \in events' : CopyOf(e, s)' => e \in events \/ e = c
  BY <1>1, <1>4 DEF CopyOf
<1>7. ASSUME NEW t \in Subs \ {s}
      PROVE  Told(t)' /\ PaidFor(t)' /\ Mirrored(t)'
  <2>1. \A e : CopyOf(e, t)' <=> CopyOf(e, t)
    BY <1>5 DEF CopyOf
  <2>2. \A e : e.sub = t => (Newest(e)' <=> Newest(e))
    BY <1>5, <2>1 DEF Newest, CopyOf
  <2>3. Told(t) /\ PaidFor(t) /\ Mirrored(t)
    BY DEF BillingInv
  <2>4. Told(t)'
    BY <1>5, <2>1, <2>2, <2>3 DEF Told
  <2>5. PaidFor(t)'
    BY <2>3 DEF PaidFor
  <2>6. Mirrored(t)'
    BY <1>5, <2>2, <2>3 DEF Mirrored
  <2> QED BY <2>4, <2>5, <2>6
<1>8. \A e \in events' : CopyOf(e, s)' => e.n <= c.n
  BY <1>1, <1>2, <1>6
<1>9. Newest(c)'
  BY <1>1, <1>8 DEF Newest
<1>10. Told(s) /\ PaidFor(s)
  BY DEF BillingInv
<1>11. Told(s)'
  <2>1. \E e \in events' : e.sub = s /\ Newest(e)'
    BY <1>1, <1>9
  <2>2. truth'[s] # NoSub
    BY <1>3
  <2>3. CopyOf(c, s)'
    BY <1>1 DEF CopyOf
  <2>4. ASSUME NEW e \in events', e.sub = s, e.kind = "cancel"
        PROVE  truth'[s].status = "canceled" /\ \A f \in events' : f.sub = s => f.n <= e.n
    <3>1. e \notin events
      BY <1>10, <2>4 DEF Told
    <3>2. e = c
      BY <1>1, <2>4, <3>1 DEF Payments
    <3>3. kind = "cancel" /\ more = {}
      BY <1>1, <2>4, <3>2 DEF Payments
    <3> QED BY <1>1, <1>2, <3>2, <3>3
  <2>5. ASSUME NEW e \in events', e.sub = s, e.kind \in Payments, \A f \in events' : CopyOf(f, s)' => f.n < e.n
        PROVE  e.kind \in more
    <3>1. c.n < e.n
      BY <1>1, <2>3, <2>5
    <3> QED BY <1>1, <1>2, <3>1
  <2> QED BY <2>1, <2>2, <2>4, <2>5 DEF Told, Payments
<1>12. PaidFor(s)'
  BY <1>10 DEF PaidFor
<1>13. Mirrored(s)'
  <2> SUFFICES ASSUME NEW e \in events', e.sub = s, Newest(e)', e.n \in done PROVE FALSE
    BY DEF Mirrored
  <2>1. CopyOf(c, s)'
    BY <1>1 DEF CopyOf
  <2>2. c.n <= e.n
    BY <1>1, <2>1 DEF Newest
  <2> QED BY <1>1, <1>2, <2>2 DEF BillingInv, Numbered
<1>14. ASSUME NEW h \in Handlers PROVE Held(h)'
  <2> DEFINE e == handler[h].event
  <2> SUFFICES ASSUME handler[h] # Free PROVE Held(h)'
    BY DEF Held
  <2>1. Held(h) /\ handler'[h] = handler[h] /\ e \in events /\ e.sub \in Subs
    BY <1>2 DEF BillingInv, Held, Event
  <2>2. handler[h].copy = truth'[e.sub] \/ \E f \in events' : CopyOf(f, e.sub)' /\ f.n > e.n
    <3>1. CASE e.sub = s
      <4>1. CopyOf(c, e.sub)' /\ c.n > e.n
        BY <1>1, <1>2, <2>1, <3>1 DEF CopyOf
      <4> QED BY <1>1, <4>1
    <3>2. CASE e.sub # s
      <4>1. truth'[e.sub] = truth[e.sub]
        BY <2>1, <3>2
      <4> QED BY <2>1, <4>1 DEF Held, CopyOf
    <3> QED BY <3>1, <3>2
  <2>3. row'[e.sub] = NoSub <=> row[e.sub] = NoSub
    BY <2>1
  <2> HIDE DEF e
  <2>4. /\ handler[h].copy \in SubRow /\ handler[h].known \in BOOLEAN
        /\ handler[h].known => row[e.sub] # NoSub
        /\ handler[h].copy.status \in Paying => e.sub \in paid
    BY <2>1 DEF Held, e
  <2> QED BY <2>1, <2>2, <2>3, <2>4 DEF Held, e
<1> QED BY <1>7, <1>11, <1>12, <1>13, <1>14

\* Only a purchase takes the legacy mark.
LEMMA LegacyStays ==
    ASSUME LegacyKept, paid \subseteq paid', order' \in Seq(Subs), \A s \in Subs : PaidFor(s)',
           trial' = trial, mark' = mark \/ \E acct, cp : Refresh(acct, cp, row', order')
    PROVE  LegacyKept'
<1> SUFFICES ASSUME trial = "none", paid' = {} PROVE mark' = "legacy"
  BY DEF LegacyKept
<1>1. mark = "legacy"
  BY DEF LegacyKept
<1>2. CASE mark' = mark
  BY <1>1, <1>2
<1>3. ASSUME NEW acct, NEW cp, Refresh(acct, cp, row', order') PROVE mark' = "legacy"
  <2> DEFINE source == Resolve(acct, mark, trial, cp, row', order')
  <2>1. mark' = Projected(mark, source)
    BY <1>3 DEF Refresh
  <2>2. source # "subscription"
    <3>1. \A s \in Subs : row'[s] # NoSub /\ row'[s].status \in Paying => s \in paid'
      BY DEF PaidFor
    <3> QED BY <3>1, GrantedByPayer
  <2> HIDE DEF source
  <2> QED BY <1>1, <2>1, <2>2 DEF Projected
<1> QED BY <1>2, <1>3

-----------------------------------------------------------------------------
(* Every step keeps the invariant.                                         *)

LEMMA InitInv == ASSUME Init PROVE BillingInv
<1>1. NoSub \notin SubRow
  BY BillingAssumption DEF SubRow
<1>2. Typed
  BY DEF Init, Typed, Types
<1>3. Numbered
  <2>1. IsFiniteSet(events) /\ events = {}
    BY FS_EmptySet DEF Init
  <2> QED BY <2>1 DEF Init, Numbered, InSequence, Event
<1>4. LegacyKept
  BY DEF Init, LegacyKept
<1> QED BY <1>2, <1>3, <1>4 DEF Init, BillingInv, Told, PaidFor, Mirrored, Held

\* Events that tell of a status: a copy, and perhaps a payment.
Tells(kinds, to, kind, more) ==
    /\ kind \in Copies /\ more \in SUBSET Payments
    /\ \/ kinds = <<kind>> /\ more = {}
       \/ kind = "upsert" /\ \E p \in Payments : kinds = <<"upsert", p>> /\ more = {p}
    /\ kind = "cancel" => to = "canceled"
    /\ "failed" \in more => to = "past_due"
    /\ "paid" \in more => to = "active"

\* The subscription becomes another, and no row changes but its own.
LEMMA BecomesInv ==
    ASSUME BillingInv, NEW s \in Subs, NEW to \in Statuses, NEW plan \in Types,
           NEW kinds, NEW kind, NEW more, Becomes(s, to, plan, kinds), Tells(kinds, to, kind, more),
           truth[s] = NoSub \/ truth[s].status # "canceled",
           to = "past_due" => s \in paid,
           \A t \in Subs \ {s} : open'[t] = open[t], open' \in [Subs -> Types \cup {"no"}], open'[s] = "no",
           row' \in [Subs -> SubRow \cup {NoSub}], \A t \in Subs \ {s} : row'[t] = row[t],
           row'[s] = NoSub <=> row[s] = NoSub, row[s] # NoSub => row'[s].status = row[s].status,
           account' \in Types, trial' = trial, mark' = mark \/ \E acct, cp : Refresh(acct, cp, row', order'),
           UNCHANGED <<last, order, done, missed, handler>>
    PROVE  BillingInv' /\ Mirror!Change(s) /\ NotRevived
<1>1. Numbered' /\ Sent + 1 <= MaxEvents /\ events \subseteq events' /\ Announced(s, kind, more)
  <2>1. CASE kinds = <<kind>> /\ more = {}
    BY <2>1, SendOne DEF Becomes, BillingInv, Tells
  <2>2. ASSUME NEW p \in Payments, kinds = <<"upsert", p>>, more = {p}, kind = "upsert"
        PROVE  Numbered' /\ Sent + 1 <= MaxEvents /\ events \subseteq events' /\ Announced(s, kind, more)
    BY <2>2, SendTwo DEF Becomes, BillingInv
  <2> QED BY <2>1, <2>2 DEF Tells
<1>2. Sent \in Nat
  BY FS_CardinalityType DEF BillingInv, Numbered, InSequence, Sent
<1> DEFINE sub == [status |-> to, plan |-> plan, v |-> Sent + 1]
<1>3. sub \in SubRow /\ sub.status = to
  BY <1>1, <1>2, BillingAssumption DEF SubRow
<1>4. truth' = [truth EXCEPT ![s] = sub]
  BY DEF Becomes
<1> HIDE DEF sub
<1>5. truth \in [Subs -> SubRow \cup {NoSub}] /\ truth'[s] = sub /\ \A t \in Subs \ {s} : truth'[t] = truth[t]
  BY <1>4 DEF BillingInv, Typed
<1>6. truth' \in [Subs -> SubRow \cup {NoSub}]
  BY <1>3, <1>4, <1>5
<1>7. paid \subseteq paid' /\ paid' \subseteq Subs /\ (to \in Paying => s \in paid')
  BY DEF Becomes, Paying, BillingInv, Typed
<1>8. row[s] # NoSub => truth[s] # NoSub
  BY DEF BillingInv, Told
<1>9. (\A t \in Subs : Told(t)' /\ PaidFor(t)' /\ Mirrored(t)') /\ (\A h \in Handlers : Held(h)')
  BY <1>1, <1>3, <1>5, <1>7, <1>8, Becoming DEF Tells
<1>10. Typed'
  BY <1>6, <1>7 DEF BillingInv, Typed
<1>11. LegacyKept'
  BY <1>7, <1>9, <1>10, LegacyStays DEF BillingInv, Typed
<1>12. handler' \in [Handlers -> {handler'[h] : h \in Handlers}]
  BY DEF BillingInv
<1>13. Mirror!Change(s)
  <2>1. truth' = [truth EXCEPT ![s] = truth'[s]] /\ truth'[s] \in SubRow
    BY <1>3, <1>4, <1>5
  <2>2. row' = [row EXCEPT ![s] = row'[s]] /\ row'[s] \in SubRow \cup {NoSub}
    BY DEF BillingInv, Typed
  <2>3. ~ Quiet(s)'
    <3>1. PICK c \in events' : c.n = Sent + 1 /\ c.sub = s
      BY <1>1 DEF Announced
    <3> QED BY <1>2, <3>1 DEF BillingInv, Numbered, Quiet
  <2>4. ASSUME NEW t \in Subs \ {s} PROVE Quiet(t)' <=> Quiet(t)
    <3>1. \A e \in events' : e.sub = t => e \in events
      BY <1>1 DEF Announced
    <3> QED BY <1>1, <3>1 DEF Quiet
  <2>5. {t \in Subs : Quiet(t) /\ t \notin missed}' = {t \in Subs : Quiet(t) /\ t \notin missed} \ {s}
    BY <2>3, <2>4
  <2> QED BY <2>1, <2>2, <2>5 DEF Mirror!Change, Mirror!Only
<1>14. NotRevived
  <2>1. \A e \in events : e.sub = s => e.kind # "cancel"
    BY BillingAssumption DEF BillingInv, Told
  <2> QED BY <2>1 DEF NotRevived
<1> QED BY <1>1, <1>9, <1>10, <1>11, <1>12, <1>13, <1>14 DEF BillingInv

\* The customer finishes a checkout.
LEMMA CompleteStep ==
    ASSUME BillingInv, NEW s \in Subs, Complete(s)
    PROVE  BillingInv' /\ Mirror!Next /\ NotRevived
<1>1. PICK to \in {"active", "incomplete"} : Becomes(s, to, open[s], <<"upsert">>)
  BY DEF Complete
<1>2. open[s] \in Types /\ open' \in [Subs -> Types \cup {"no"}] /\ open'[s] = "no"
      /\ \A t \in Subs \ {s} : open'[t] = open[t]
  BY DEF Complete, BillingInv, Typed
<1>3. truth[s] = NoSub
  BY DEF Complete, BillingInv, Told
<1>4. to \in Statuses /\ Tells(<<"upsert">>, to, "upsert", {})
  BY DEF Statuses, Copies, Tells
<1>5. UNCHANGED <<row, last, order, done, missed, handler, account, mark, trial>> /\ row \in [Subs -> SubRow \cup {NoSub}]
      /\ account \in Types
  BY DEF Complete, mirrorVars, orgVars, BillingInv, Typed
<1>6. BillingInv' /\ Mirror!Change(s) /\ NotRevived
  BY <1>1, <1>2, <1>3, <1>4, <1>5, BecomesInv
<1> QED BY <1>6 DEF Mirror!Next

\* A payment, or the end.
LEMMA ProviderStep ==
    ASSUME BillingInv, NEW s \in Subs, ProviderChanges(s)
    PROVE  BillingInv' /\ Mirror!Next /\ NotRevived
<1>1. truth[s] \in SubRow /\ truth[s].plan \in Types
  BY DEF ProviderChanges, BillingInv, Typed, SubRow
<1>2. open[s] = "no" /\ open \in [Subs -> Types \cup {"no"}]
  BY DEF ProviderChanges, BillingInv, Typed, Told
<1>3. UNCHANGED <<open, row, last, order, done, missed, handler, account, mark, trial>>
      /\ row \in [Subs -> SubRow \cup {NoSub}] /\ account \in Types
  BY DEF ProviderChanges, mirrorVars, orgVars, BillingInv, Typed
<1>4. truth[s].status \in Paying => s \in paid
  BY DEF ProviderChanges, BillingInv, PaidFor
<1>5. ASSUME NEW to \in {"active", "past_due", "canceled"}, NEW kinds, NEW kind, NEW more,
             truth[s].status # "canceled", Becomes(s, to, truth[s].plan, kinds), Tells(kinds, to, kind, more),
             to = "past_due" => truth[s].status = "active"
      PROVE  BillingInv' /\ Mirror!Next /\ NotRevived
  <2>1. to \in Statuses /\ (to = "past_due" => s \in paid)
    BY <1>4, <1>5 DEF Statuses, Paying
  <2>2. BillingInv' /\ Mirror!Change(s) /\ NotRevived
    BY <1>1, <1>2, <1>3, <1>5, <2>1, BecomesInv
  <2> QED BY <2>2 DEF Mirror!Next
<1>6. /\ Tells(<<"upsert">>, "active", "upsert", {}) /\ Tells(<<"upsert", "failed">>, "past_due", "upsert", {"failed"})
      /\ Tells(<<"upsert", "paid">>, "active", "upsert", {"paid"}) /\ Tells(<<"cancel">>, "canceled", "cancel", {})
  BY DEF Tells, Copies, Payments
<1>7. CASE truth[s].status = "incomplete" /\ Becomes(s, "active", truth[s].plan, <<"upsert">>)
  BY <1>5, <1>6, <1>7
<1>8. CASE truth[s].status = "active" /\ Becomes(s, "past_due", truth[s].plan, <<"upsert", "failed">>)
  BY <1>5, <1>6, <1>8
<1>9. CASE truth[s].status = "past_due" /\ Becomes(s, "active", truth[s].plan, <<"upsert", "paid">>)
  BY <1>5, <1>6, <1>9
<1>10. CASE truth[s].status # "canceled" /\ Becomes(s, "canceled", truth[s].plan, <<"cancel">>)
  BY <1>5, <1>6, <1>10
<1> QED BY <1>7, <1>8, <1>9, <1>10 DEF ProviderChanges

\* The subscription an owner's operation is about.
LEMMA CurrentExists ==
    ASSUME BillingInv, Current(row, order) # NoSub
    PROVE  LET s == CHOOSE x \in Subs : row[x] = Current(row, order) IN
           s \in Subs /\ row[s] \in SubRow /\ truth[s] \in SubRow /\ open[s] = "no"
<1> DEFINE s == CHOOSE x \in Subs : row[x] = Current(row, order)
<1>1. s \in Subs /\ row[s] = Current(row, order)
  BY CurrentIsARow DEF BillingInv, Typed
<1> QED BY <1>1 DEF BillingInv, Typed, Told

\* A step in which the current subscription changes at the provider, and its row perhaps with it.
LEMMA CurrentBecomes ==
    ASSUME BillingInv, NEW s \in Subs, row[s] \in SubRow, truth[s] \in SubRow, open[s] = "no",
           truth[s].status \in Paying, NEW plan \in Types, Becomes(s, truth[s].status, plan, <<"upsert">>),
           NEW p \in Types, row' = [row EXCEPT ![s].plan = p, ![s].v = Sent + 1] \/ row' = [row EXCEPT ![s].v = Sent + 1] \/ row' = row,
           account' \in Types, trial' = trial, mark' = mark \/ \E acct, cp : Refresh(acct, cp, row', order'),
           UNCHANGED <<open, last, order, done, missed, handler>>
    PROVE  BillingInv' /\ Mirror!Next /\ NotRevived
<1>1. truth[s].status \in Statuses /\ truth[s].status # "canceled" /\ s \in paid
  BY BillingAssumption DEF BillingInv, PaidFor, Paying, Statuses, SubRow
<1>2. Tells(<<"upsert">>, truth[s].status, "upsert", {})
  BY DEF Tells, Copies
<1>3. Sent + 1 \in 0..MaxEvents
  <2>1. Sent \in Nat
    BY FS_CardinalityType DEF BillingInv, Numbered, InSequence, Sent
  <2> QED BY <2>1, BillingAssumption DEF Becomes, Send
<1>4. /\ row' \in [Subs -> SubRow \cup {NoSub}] /\ \A t \in Subs \ {s} : row'[t] = row[t]
      /\ row'[s] \in SubRow /\ row'[s].status = row[s].status
  <2> DEFINE r1 == [row[s] EXCEPT !.plan = p, !.v = Sent + 1]
             r2 == [row[s] EXCEPT !.v = Sent + 1]
  <2>1. row \in [Subs -> SubRow \cup {NoSub}]
    BY DEF BillingInv, Typed
  <2>2. r1 \in SubRow /\ r1.status = row[s].status
    BY <1>3 DEF SubRow
  <2>3. r2 \in SubRow /\ r2.status = row[s].status
    BY <1>3 DEF SubRow
  <2>4. row' = [row EXCEPT ![s] = r1] \/ row' = [row EXCEPT ![s] = r2] \/ row' = row
    BY <2>1
  <2> HIDE DEF r1, r2
  <2> QED BY <2>1, <2>2, <2>3, <2>4
<1>5. NoSub \notin SubRow
  BY BillingAssumption DEF SubRow
<1>6. open \in [Subs -> Types \cup {"no"}]
  BY DEF BillingInv, Typed
<1>7. BillingInv' /\ Mirror!Change(s) /\ NotRevived
  BY <1>1, <1>2, <1>4, <1>5, <1>6, BecomesInv
<1> QED BY <1>7 DEF Mirror!Next

LEMMA ChangedStep ==
    ASSUME BillingInv, NEW plan \in Types, NEW acct \in Types, Current(row, order) # NoSub, Changed(plan, acct)
    PROVE  BillingInv' /\ Mirror!Next /\ NotRevived
<1> DEFINE s == CHOOSE x \in Subs : row[x] = Current(row, order)
<1>1. s \in Subs /\ row[s] \in SubRow /\ truth[s] \in SubRow /\ open[s] = "no"
  BY CurrentExists
<1>2. /\ truth[s].status \in Paying /\ Becomes(s, truth[s].status, plan, <<"upsert">>)
      /\ \/ row' = [row EXCEPT ![s].plan = plan, ![s].v = Sent + 1] /\ Refresh(acct, comp, row', order)
         \/ UNCHANGED <<row, orgVars>>
      /\ UNCHANGED <<open, last, order, done, missed, handler>>
  BY DEF Changed, Paying
<1> HIDE DEF s
<1>3. row' = [row EXCEPT ![s].plan = plan, ![s].v = Sent + 1] \/ row' = row
  BY <1>2
<1>4. account' \in Types /\ trial' = trial /\ (mark' = mark \/ \E a, cp : Refresh(a, cp, row', order'))
  BY <1>2 DEF Refresh, orgVars, BillingInv, Typed
<1> QED BY <1>1, <1>2, <1>3, <1>4, CurrentBecomes

LEMMA CancelStep ==
    ASSUME BillingInv, Cancel
    PROVE  BillingInv' /\ Mirror!Next /\ NotRevived
<1> DEFINE s == CHOOSE x \in Subs : row[x] = Current(row, order)
<1>1. s \in Subs /\ row[s] \in SubRow /\ truth[s] \in SubRow /\ open[s] = "no"
  BY CurrentExists DEF Cancel
<1>2. /\ truth[s].status \in Paying /\ Becomes(s, truth[s].status, truth[s].plan, <<"upsert">>)
      /\ row' = [row EXCEPT ![s].v = Sent + 1] \/ row' = row
      /\ UNCHANGED <<open, last, order, done, missed, handler, orgVars>>
  BY DEF Cancel, Paying
<1> HIDE DEF s
<1>3. account' \in Types /\ trial' = trial /\ mark' = mark /\ truth[s].plan \in Types
  BY <1>1, <1>2 DEF orgVars, BillingInv, Typed, SubRow
<1> QED BY <1>1, <1>2, <1>3, CurrentBecomes

LEMMA ChangePlanStep ==
    ASSUME BillingInv, ChangePlan
    PROVE  BillingInv' /\ Mirror!Next /\ NotRevived
BY ChangedStep DEF ChangePlan, BillingInv, Typed

\* What changes neither a subscription nor an event nor a row.
LEMMA ElsewhereStep ==
    ASSUME BillingInv, UNCHANGED <<truth, events, clock, mirrorVars, handler, paid>>,
           open' \in [Subs -> Types \cup {"no"}], \A s \in Subs : open'[s] # "no" => truth[s] = NoSub,
           account' \in Types, LegacyKept'
    PROVE  BillingInv' /\ UNCHANGED Mirror!vars /\ NotRevived
<1>1. Typed' /\ Numbered'
  BY DEF BillingInv, Typed, Numbered, InSequence, Sent, mirrorVars
<1>2. ASSUME NEW s \in Subs PROVE Told(s)' /\ PaidFor(s)' /\ Mirrored(s)'
  BY DEF BillingInv, Told, PaidFor, Mirrored, Newest, CopyOf, mirrorVars
<1>3. ASSUME NEW h \in Handlers PROVE Held(h)'
  BY DEF BillingInv, Held, CopyOf, mirrorVars
<1>4. UNCHANGED Mirror!vars
  BY DEF Mirror!vars, mirrorVars, Quiet
<1>5. NotRevived
  BY DEF NotRevived, mirrorVars
<1>6. handler' \in [Handlers -> {handler'[h] : h \in Handlers}]
  BY DEF BillingInv
<1> QED BY <1>1, <1>2, <1>3, <1>4, <1>5, <1>6 DEF BillingInv

LEMMA CheckoutStep ==
    ASSUME BillingInv, NEW s \in Subs, Checkout(s)
    PROVE  BillingInv' /\ UNCHANGED Mirror!vars /\ NotRevived
<1>1. open' = [open EXCEPT ![s] = account] /\ truth[s] = NoSub /\ UNCHANGED <<truth, events, clock, mirrorVars, handler, orgVars, paid>>
  BY DEF Checkout
<1>2. open' \in [Subs -> Types \cup {"no"}] /\ \A t \in Subs : open'[t] # "no" => truth[t] = NoSub
  BY <1>1 DEF BillingInv, Typed, Told
<1>3. account' \in Types /\ LegacyKept'
  BY <1>1 DEF BillingInv, Typed, orgVars, LegacyKept
<1> QED BY <1>1, <1>2, <1>3, ElsewhereStep

\* A step of the organisation alone.
LEMMA OrganizationStep ==
    ASSUME BillingInv, UNCHANGED <<stripeVars, mirrorVars, handler, paid>>, account' \in Types,
           \/ trial' = trial /\ (mark' = mark \/ \E acct, cp : Refresh(acct, cp, row, order))
           \/ trial' = "over"
    PROVE  BillingInv' /\ UNCHANGED Mirror!vars /\ NotRevived
<1>1. UNCHANGED <<truth, events, clock, open, row, order, paid>>
  BY DEF stripeVars, mirrorVars
<1>2. open' \in [Subs -> Types \cup {"no"}] /\ \A s \in Subs : open'[s] # "no" => truth[s] = NoSub
  BY <1>1 DEF BillingInv, Typed, Told
<1>3. LegacyKept'
  <2>1. CASE trial' = "over"
    BY <2>1 DEF LegacyKept
  <2>2. CASE trial' = trial /\ (mark' = mark \/ \E acct, cp : Refresh(acct, cp, row, order))
    <3>1. \A s \in Subs : PaidFor(s)'
      BY <1>1 DEF BillingInv, PaidFor
    <3>2. order' \in Seq(Subs) /\ LegacyKept /\ paid \subseteq paid'
      BY <1>1 DEF BillingInv, Typed
    <3> QED BY <1>1, <2>2, <3>1, <3>2, LegacyStays
  <2> QED BY <2>1, <2>2
<1> QED BY <1>1, <1>2, <1>3, ElsewhereStep

LEMMA ChangeAccountStep ==
    ASSUME BillingInv, NEW acct \in Types, ChangeAccount(acct)
    PROVE  BillingInv' /\ (Mirror!Next \/ UNCHANGED Mirror!vars) /\ NotRevived
<1>1. CASE Current(row, order) # NoSub /\ Current(row, order).status \in {"active", "past_due"}
  BY <1>1, ChangedStep DEF ChangeAccount
<1>2. CASE ~ (Current(row, order) # NoSub /\ Current(row, order).status \in {"active", "past_due"})
  <2>1. Refresh(acct, comp, row, order) /\ UNCHANGED <<stripeVars, mirrorVars, handler, paid>>
    BY <1>2 DEF ChangeAccount
  <2> QED BY <2>1, OrganizationStep DEF Refresh
<1> QED BY <1>1, <1>2

LEMMA ChangeCompStep ==
    ASSUME BillingInv, ChangeComp
    PROVE  BillingInv' /\ UNCHANGED Mirror!vars /\ NotRevived
<1>1. account \in Types
  BY DEF BillingInv, Typed
<1>2. /\ UNCHANGED <<stripeVars, mirrorVars, handler, paid>> /\ account' = account /\ trial' = trial
      /\ mark' = mark \/ \E cp : Refresh(account, cp, row, order)
  BY DEF ChangeComp, Refresh
<1> QED BY <1>1, <1>2, OrganizationStep

LEMMA TrialEndsStep ==
    ASSUME BillingInv, TrialEnds
    PROVE  BillingInv' /\ UNCHANGED Mirror!vars /\ NotRevived
<1>1. account' \in Types /\ trial' = "over" /\ UNCHANGED <<stripeVars, mirrorVars, handler, paid>>
  BY DEF TrialEnds, BillingInv, Typed
<1> QED BY <1>1, OrganizationStep

-----------------------------------------------------------------------------
(* Webhooks.                                                               *)

LEMMA ReceiveStep ==
    ASSUME BillingInv, NEW h \in Handlers, NEW e \in events, Receive(h, e)
    PROVE  BillingInv' /\ UNCHANGED Mirror!vars /\ NotRevived
<1> DEFINE taken == [event |-> e, copy |-> truth[e.sub], known |-> row[e.sub] # NoSub]
<1>1. UNCHANGED <<stripeVars, mirrorVars, orgVars, paid>> /\ handler' = [handler EXCEPT ![h] = taken]
  BY DEF Receive
<1>2. taken.event = e /\ taken.copy = truth[e.sub] /\ taken.known = (row[e.sub] # NoSub)
  OBVIOUS
<1> HIDE DEF taken
<1>3. UNCHANGED <<truth, events, clock, open, row, last, order, done, missed, account, mark, trial, comp, paid>>
  BY <1>1 DEF stripeVars, mirrorVars, orgVars
<1>4. Typed' /\ Numbered' /\ LegacyKept'
  BY <1>3 DEF BillingInv, Typed, Numbered, InSequence, Sent, LegacyKept
<1>5. ASSUME NEW s \in Subs PROVE Told(s)' /\ PaidFor(s)' /\ Mirrored(s)'
  BY <1>3 DEF BillingInv, Told, PaidFor, Mirrored, Newest, CopyOf
<1>6. handler'[h] = taken /\ \A g \in Handlers \ {h} : handler'[g] = handler[g]
  BY <1>1 DEF BillingInv
<1>7. ASSUME NEW g \in Handlers PROVE Held(g)'
  <2>1. CASE g = h
    <3>1. e.sub \in Subs /\ Told(e.sub) /\ PaidFor(e.sub) /\ truth[e.sub] \in SubRow \cup {NoSub}
      BY DEF BillingInv, Typed, Numbered, InSequence, Event
    <3>2. truth[e.sub] # NoSub
      BY <3>1 DEF Told
    <3>3. taken.copy.status \in Paying => e.sub \in paid
      BY <1>2, <3>1, <3>2 DEF PaidFor
    <3> QED BY <1>2, <1>3, <1>6, <2>1, <3>1, <3>2, <3>3 DEF Held
  <2>2. CASE g # h
    BY <1>3, <1>6, <2>2 DEF BillingInv, Held, CopyOf
  <2> QED BY <2>1, <2>2
<1>8. UNCHANGED Mirror!vars /\ NotRevived
  BY <1>3 DEF Mirror!vars, Quiet, NotRevived
<1>9. handler' \in [Handlers -> {handler'[g] : g \in Handlers}]
  BY <1>1 DEF BillingInv
<1> QED BY <1>4, <1>5, <1>7, <1>8, <1>9 DEF BillingInv

LEMMA DropStep ==
    ASSUME BillingInv, NEW h \in Handlers, Drop(h)
    PROVE  BillingInv' /\ UNCHANGED Mirror!vars /\ NotRevived
<1>1. UNCHANGED <<truth, events, clock, open, row, last, order, done, missed, account, mark, trial, comp, paid>>
      /\ handler' = [handler EXCEPT ![h] = Free]
  BY DEF Drop, stripeVars, mirrorVars, orgVars
<1>2. Typed' /\ Numbered' /\ LegacyKept'
  BY <1>1 DEF BillingInv, Typed, Numbered, InSequence, Sent, LegacyKept
<1>3. ASSUME NEW s \in Subs PROVE Told(s)' /\ PaidFor(s)' /\ Mirrored(s)'
  BY <1>1 DEF BillingInv, Told, PaidFor, Mirrored, Newest, CopyOf
<1>4. handler'[h] = Free /\ \A g \in Handlers \ {h} : handler'[g] = handler[g]
  BY <1>1 DEF BillingInv
<1>5. ASSUME NEW g \in Handlers PROVE Held(g)'
  BY <1>1, <1>4 DEF BillingInv, Held, CopyOf
<1>6. UNCHANGED Mirror!vars /\ NotRevived
  BY <1>1 DEF Mirror!vars, Quiet, NotRevived
<1>7. handler' \in [Handlers -> {handler'[g] : g \in Handlers}]
  BY <1>1 DEF BillingInv
<1> QED BY <1>2, <1>3, <1>5, <1>6, <1>7 DEF BillingInv

\* What the handling of an event does to the row of its subscription: nothing, or a write in the event's second.
Handled(s, e) ==
    \/ /\ UNCHANGED <<row, last, order, orgVars>>
       /\ missed' = missed \cup {s} \/ missed' = missed
       /\ e.kind \in Copies => last[s] > e.at /\ row[s] # NoSub /\ (row[s] = truth[s] \/ s \in missed')
    \/ /\ row' = [row EXCEPT ![s] = row'[s]] /\ last' = [last EXCEPT ![s] = e.at] /\ row'[s] \in SubRow
       /\ row[s] # NoSub => e.at >= last[s]
       /\ e.at = last[s] => row'[s] = truth[s] \/ s \in missed'
       /\ missed' = missed \cup {s} \/ missed' = missed \/ (missed' = missed \ {s} /\ e.kind \in Copies)
       /\ row'[s].status \in Paying => s \in paid
       /\ e.kind \in Copies /\ Newest(e) => row'[s] = truth[s]
       /\ e.kind \in Payments => row[s] # NoSub /\ row'[s] = AfterPayment(row[s], e.kind)
       /\ order' \in Seq(Subs) /\ account' \in Types /\ trial' = trial /\ Refresh(account', comp, row', order')

LEMMA ApplyHandles ==
    ASSUME BillingInv, NEW h \in Handlers, Apply(h)
    PROVE  LET e == handler[h].event IN
           /\ e \in events /\ e.sub \in Subs /\ e.n \notin done /\ done' = done \cup {e.n}
           /\ handler' = [handler EXCEPT ![h] = Free] /\ UNCHANGED <<truth, events, clock, open, paid>>
           /\ Handled(e.sub, e)
<1> DEFINE e == handler[h].event
           s == e.sub
           copy == handler[h].copy
<1>1. /\ handler[h] # Free /\ e.n \notin done /\ done' = done \cup {e.n} /\ handler' = [handler EXCEPT ![h] = Free]
      /\ UNCHANGED <<truth, events, clock, open, paid>>
      /\ \E known \in {handler[h].known, row[s] # NoSub} :
           IF e.kind \in {"failed", "paid"}
           THEN IF ~known \/ Stale(s, e.at) THEN Ignore(s, FALSE)
                ELSE Write(s, AfterPayment(row[s], e.kind), e, "payment")
           ELSE IF known /\ Stale(s, e.at) THEN Ignore(s, TRUE)
                ELSE /\ known = (row[s] # NoSub)
                     /\ Write(s, AfterCopy(copy, e.kind), e, "copy")
  BY DEF Apply, Duplicate, stripeVars
<1>2. /\ e \in events /\ copy \in SubRow /\ (handler[h].known => row[s] # NoSub)
      /\ copy = truth[s] \/ \E f \in events : CopyOf(f, s) /\ f.n > e.n
      /\ copy.status \in Paying => s \in paid
  BY <1>1 DEF BillingInv, Held
<1>3. e \in Event /\ s \in Subs /\ e.at \in Nat /\ e.n \in Nat /\ e.kind \in Copies \cup Payments
  BY <1>2 DEF BillingInv, Numbered, InSequence, Event
<1>4. PICK known \in {handler[h].known, row[s] # NoSub} :
           IF e.kind \in {"failed", "paid"}
           THEN IF ~known \/ Stale(s, e.at) THEN Ignore(s, FALSE)
                ELSE Write(s, AfterPayment(row[s], e.kind), e, "payment")
           ELSE IF known /\ Stale(s, e.at) THEN Ignore(s, TRUE)
                ELSE /\ known = (row[s] # NoSub)
                     /\ Write(s, AfterCopy(copy, e.kind), e, "copy")
  BY <1>1
<1> HIDE DEF e, s, copy
<1>5. known => row[s] # NoSub
  BY <1>2, <1>4
<1>6. last \in [Subs -> Nat] /\ row \in [Subs -> SubRow \cup {NoSub}] /\ order \in Seq(Subs) /\ account \in Types
      /\ missed \subseteq Subs /\ PaidFor(s) /\ Told(s)
  BY <1>3 DEF BillingInv, Typed
<1>7. ASSUME NEW sub \in SubRow, NEW kind, Write(s, sub, e, kind)
      PROVE  /\ row' = [row EXCEPT ![s] = row'[s]] /\ row'[s] = sub /\ last' = [last EXCEPT ![s] = e.at]
             /\ e.at = last[s] => row'[s] = truth[s] \/ s \in missed'
             /\ missed' = missed \cup {s} \/ missed' = missed \/ (missed' = missed \ {s} /\ kind = "copy")
             /\ order' \in Seq(Subs) /\ account' \in Types /\ trial' = trial /\ Refresh(account', comp, row', order')
  <2>1. /\ row' = [row EXCEPT ![s] = sub] /\ order' = Ordered(s) /\ last' = [last EXCEPT ![s] = e.at]
        /\ missed' = IF e.at = last[s] /\ sub # truth[s] THEN missed \cup {s}
                     ELSE IF kind = "copy" THEN missed \ {s} ELSE missed
        /\ Refresh(TypeAfter(sub), comp, row', order')
    BY <1>7 DEF Write
  <2>2. row'[s] = sub
    BY <1>3, <1>6, <2>1
  <2>3. order' \in Seq(Subs)
    BY <1>3, <1>6, <2>1 DEF Ordered
  <2>4. TypeAfter(sub) \in Types
    BY <1>6 DEF TypeAfter, SubRow
  <2>5. account' = TypeAfter(sub) /\ trial' = trial
    BY <2>1 DEF Refresh
  <2>6. e.at = last[s] => row'[s] = truth[s] \/ s \in missed'
    BY <2>1, <2>2
  <2>7. missed' = missed \cup {s} \/ missed' = missed \/ (missed' = missed \ {s} /\ kind = "copy")
    BY <2>1
  <2> QED BY <2>1, <2>2, <2>3, <2>4, <2>5, <2>6, <2>7
<1>8. CASE e.kind \in Payments
  <2>1. e.kind \notin Copies
    BY <1>8 DEF Payments, Copies
  <2>2. CASE ~known \/ Stale(s, e.at)
    <3>1. Ignore(s, FALSE)
      BY <1>4, <1>8, <2>2 DEF Payments
    <3> QED BY <1>1, <1>2, <1>3, <2>1, <3>1 DEF Ignore, Handled, e, s
  <2>3. CASE known /\ ~Stale(s, e.at)
    <3>1. row[s] \in SubRow /\ row[s] # NoSub
      BY <1>3, <1>5, <1>6, <2>3
    <3>2. Write(s, AfterPayment(row[s], e.kind), e, "payment")
      BY <1>4, <1>8, <2>3 DEF Payments
    <3>3. AfterPayment(row[s], e.kind) \in SubRow /\ (AfterPayment(row[s], e.kind).status \in Paying => s \in paid)
      BY <1>6, <1>8, <3>1, AfterPaymentType DEF PaidFor
    <3>4. e.at >= last[s]
      BY <1>3, <1>6, <2>3 DEF Stale
    <3>5. Handled(s, e)
      BY <1>7, <1>8, <2>1, <3>1, <3>2, <3>3, <3>4 DEF Handled
    <3> QED BY <1>1, <1>2, <1>3, <3>5 DEF e, s
  <2> QED BY <2>2, <2>3
<1>9. CASE e.kind \in Copies
  <2>1. e.kind \notin Payments
    BY <1>9 DEF Payments, Copies
  <2>2. CASE known /\ Stale(s, e.at)
    <3>1. Ignore(s, TRUE)
      BY <1>4, <2>1, <2>2 DEF Payments
    <3>2. last[s] > e.at /\ row[s] # NoSub
      BY <1>3, <1>5, <1>6, <2>2 DEF Stale
    <3>3. Handled(s, e)
      BY <1>9, <3>1, <3>2 DEF Ignore, Handled
    <3> QED BY <1>1, <1>2, <1>3, <3>3 DEF e, s
  <2>3. CASE ~ (known /\ Stale(s, e.at))
    <3>1. known = (row[s] # NoSub) /\ Write(s, AfterCopy(copy, e.kind), e, "copy")
      BY <1>4, <2>1, <2>3 DEF Payments
    <3>2. AfterCopy(copy, e.kind) \in SubRow /\ (AfterCopy(copy, e.kind).status \in Paying => s \in paid)
      BY <1>2, <1>9, AfterCopyType
    <3>3. row[s] # NoSub => e.at >= last[s]
      <4> SUFFICES ASSUME row[s] # NoSub PROVE e.at >= last[s]
        OBVIOUS
      <4>1. known
        BY <3>1, Zenon
      <4>2. ~ Stale(s, e.at)
        BY <2>3, <4>1
      <4> QED BY <1>3, <1>6, <4>2 DEF Stale
    <3>4. Newest(e) => AfterCopy(copy, e.kind) = truth[s]
      <4> SUFFICES ASSUME Newest(e) PROVE AfterCopy(copy, e.kind) = truth[s]
        OBVIOUS
      <4>1. copy = truth[s]
        <5>1. \A f \in events : CopyOf(f, s) => f.n <= e.n /\ f.n \in Nat
          BY DEF Newest, s, BillingInv, Numbered, InSequence, Event
        <5> QED BY <1>2, <1>3, <5>1
      <4>2. e.kind # "cancel" \/ copy.status = "canceled"
        BY <1>2, <1>6, <4>1 DEF Told, s
      <4> QED BY <1>2, <1>9, <4>1, <4>2, AfterCopyType
    <3>5. Handled(s, e)
      BY <1>7, <1>9, <2>1, <3>1, <3>2, <3>3, <3>4 DEF Handled
    <3> QED BY <1>1, <1>2, <1>3, <3>5 DEF e, s
  <2> QED BY <2>2, <2>3
<1> QED BY <1>3, <1>8, <1>9

\* The row is right or counted as missed once the newest copy of its subscription was handled.
LEMMA HandledMirrors ==
    ASSUME BillingInv, NEW e \in events, NEW s \in Subs, e.sub = s, e.n \notin done, done' = done \cup {e.n},
           UNCHANGED <<truth, events>>, Handled(s, e)
    PROVE  Mirrored(s)'
<1>1. last \in [Subs -> Nat] /\ row \in [Subs -> SubRow \cup {NoSub}] /\ truth \in [Subs -> SubRow \cup {NoSub}]
      /\ e.at \in Nat /\ e.n \in Nat /\ e.kind \in Copies \cup Payments /\ Copies \cap Payments = {}
  BY DEF BillingInv, Typed, Numbered, InSequence, Event, Copies, Payments
<1>2. NoSub \notin SubRow
  BY BillingAssumption DEF SubRow
<1> SUFFICES ASSUME NEW u \in events, u.sub = s, Newest(u), u.n \in done \cup {e.n}
             PROVE  row'[s] # NoSub /\ last'[s] >= u.at /\ (row'[s] = truth[s] \/ s \in missed')
  BY DEF Mirrored, Newest, CopyOf
<1>3. u.at \in Nat /\ u.n \in Nat /\ u.kind \in Copies /\ (u.n = e.n => u = e)
      /\ (e.n <= u.n => e.at <= u.at)
  BY DEF BillingInv, Numbered, InSequence, Event, Newest
<1>4. u # e => row[s] # NoSub /\ last[s] >= u.at /\ (row[s] = truth[s] \/ s \in missed)
  BY <1>3 DEF BillingInv, Mirrored
<1>5. e.kind \in Copies => e.n <= u.n
  BY DEF Newest, CopyOf
<1>6. CASE UNCHANGED <<row, last>> /\ (missed' = missed \cup {s} \/ missed' = missed)
           /\ (e.kind \in Copies => last[s] > e.at /\ row[s] # NoSub /\ (row[s] = truth[s] \/ s \in missed'))
  BY <1>1, <1>3, <1>4, <1>5, <1>6
<1>7. CASE /\ row' = [row EXCEPT ![s] = row'[s]] /\ last' = [last EXCEPT ![s] = e.at] /\ row'[s] \in SubRow
           /\ row[s] # NoSub => e.at >= last[s]
           /\ e.at = last[s] => row'[s] = truth[s] \/ s \in missed'
           /\ missed' = missed \cup {s} \/ missed' = missed \/ (missed' = missed \ {s} /\ e.kind \in Copies)
           /\ e.kind \in Copies /\ Newest(e) => row'[s] = truth[s]
           /\ e.kind \in Payments => row[s] # NoSub /\ row'[s] = AfterPayment(row[s], e.kind)
  <2>1. last'[s] = e.at /\ row'[s] # NoSub
    BY <1>1, <1>2, <1>7
  <2>2. CASE u = e
    BY <1>1, <1>3, <1>7, <2>1, <2>2
  <2>3. CASE u # e /\ e.n <= u.n
    BY <1>1, <1>3, <1>4, <1>7, <2>1, <2>3
  <2>4. CASE u # e /\ ~ (e.n <= u.n)
    <3>1. e.kind \in Payments
      BY <1>1, <1>5, <2>4
    <3>2. last'[s] >= u.at
      BY <1>1, <1>3, <1>4, <1>7, <2>1, <2>4
    <3>3. s \in missed => s \in missed'
      BY <1>1, <1>7, <3>1
    <3>4. ASSUME row[s] = truth[s] PROVE row'[s] = truth[s]
      <4>1. \A f \in events : CopyOf(f, s) => f.n < e.n
        <5>1. \A f \in events : CopyOf(f, s) => f.n <= u.n /\ f.n \in Nat
          BY DEF Newest, BillingInv, Numbered, InSequence, Event
        <5> QED BY <1>1, <1>3, <2>4, <5>1
      <4>2. (e.kind = "failed" => truth[s].status = "past_due") /\ (e.kind = "paid" => truth[s].status = "active")
        BY <4>1 DEF BillingInv, Told
      <4>3. row[s] \in SubRow /\ row'[s] = AfterPayment(row[s], e.kind)
        BY <1>1, <1>7, <3>1
      <4> QED BY <3>1, <3>4, <4>2, <4>3, AfterPaymentType DEF Payments
    <3> QED BY <1>4, <2>1, <2>4, <3>2, <3>3, <3>4
  <2> QED BY <2>2, <2>3, <2>4
<1> QED BY <1>6, <1>7 DEF Handled

LEMMA ApplyStep ==
    ASSUME BillingInv, NEW h \in Handlers, Apply(h)
    PROVE  BillingInv' /\ (Mirror!Next \/ UNCHANGED Mirror!vars) /\ NotRevived
<1>1. PICK e \in events, s \in Subs :
        /\ s = e.sub /\ e.n \notin done /\ done' = done \cup {e.n}
        /\ handler' = [handler EXCEPT ![h] = Free] /\ UNCHANGED <<truth, events, clock, open, paid>>
        /\ Handled(s, e)
  BY ApplyHandles
<1>2. Typed /\ Numbered /\ e.at \in Nat /\ e.n \in 1..Sent
  BY <1>1 DEF BillingInv, Numbered, InSequence, Event, Sent
<1>3. row \in [Subs -> SubRow \cup {NoSub}] /\ NoSub \notin SubRow /\ last \in [Subs -> Nat]
  BY <1>2, BillingAssumption DEF Typed, SubRow
<1>4. /\ row' = [row EXCEPT ![s] = row'[s]] /\ last' = [last EXCEPT ![s] = last'[s]] /\ last'[s] \in Nat
      /\ row'[s] \in SubRow \cup {NoSub} /\ (row[s] # NoSub => row'[s] # NoSub)
      /\ missed' = missed \cup {s} \/ missed' = missed \/ missed' = missed \ {s}
      /\ order' \in Seq(Subs) /\ account' \in Types /\ trial' = trial
      /\ mark' = mark \/ \E acct, cp : Refresh(acct, cp, row', order')
  <2>1. CASE UNCHANGED <<row, last, order, orgVars>> /\ (missed' = missed \cup {s} \/ missed' = missed)
    BY <1>1, <1>2, <1>3, <2>1 DEF Typed, orgVars
  <2>2. CASE ~ (UNCHANGED <<row, last, order, orgVars>> /\ (missed' = missed \cup {s} \/ missed' = missed))
    <3>1. /\ row' = [row EXCEPT ![s] = row'[s]] /\ last' = [last EXCEPT ![s] = e.at] /\ row'[s] \in SubRow
          /\ missed' = missed \cup {s} \/ missed' = missed \/ missed' = missed \ {s}
          /\ order' \in Seq(Subs) /\ account' \in Types /\ trial' = trial /\ Refresh(account', comp, row', order')
      BY <1>1, <2>2 DEF Handled
    <3>2. last'[s] = e.at
      BY <1>1, <1>3, <3>1
    <3> QED BY <1>2, <1>3, <3>1, <3>2
  <2> QED BY <2>1, <2>2
<1>5. \A t \in Subs \ {s} : row'[t] = row[t] /\ last'[t] = last[t] /\ (t \in missed' <=> t \in missed)
  BY <1>3, <1>4
<1>6. Typed'
  BY <1>1, <1>2, <1>3, <1>4 DEF Typed
<1>7. Numbered'
  BY <1>1, <1>2 DEF Numbered, InSequence, Sent
<1>8. truth[s] # NoSub
  BY <1>1 DEF BillingInv, Told
<1>9. ASSUME NEW t \in Subs PROVE Told(t)'
  BY <1>1, <1>5, <1>8 DEF BillingInv, Told, Newest, CopyOf
<1>10. ASSUME NEW t \in Subs PROVE PaidFor(t)'
  <2>1. CASE t # s
    BY <1>1, <1>5, <2>1 DEF BillingInv, PaidFor
  <2>2. CASE t = s
    BY <1>1, <2>2 DEF BillingInv, PaidFor, Handled
  <2> QED BY <2>1, <2>2
<1>11. ASSUME NEW t \in Subs PROVE Mirrored(t)'
  <2>1. CASE t # s
    <3>1. \A f \in events : f.sub = t => f.n # e.n
      BY <1>1, <1>2, <2>1 DEF Numbered, InSequence
    <3>2. \A f \in events : Newest(f)' <=> Newest(f)
      BY <1>1 DEF Newest, CopyOf
    <3> QED BY <1>1, <1>5, <2>1, <3>1, <3>2 DEF BillingInv, Mirrored
  <2>2. CASE t = s
    BY <1>1, <2>2, HandledMirrors
  <2> QED BY <2>1, <2>2
<1>12. LegacyKept'
  BY <1>1, <1>4, <1>10, LegacyStays DEF BillingInv
<1>13. handler'[h] = Free /\ (\A g \in Handlers \ {h} : handler'[g] = handler[g])
       /\ handler' \in [Handlers -> {handler'[g] : g \in Handlers}]
  BY <1>1 DEF BillingInv
<1>14. ASSUME NEW g \in Handlers PROVE Held(g)'
  <2> SUFFICES ASSUME handler'[g] # Free PROVE Held(g)'
    BY DEF Held
  <2>1. handler'[g] = handler[g] /\ Held(g) /\ handler[g] # Free
    BY <1>13 DEF BillingInv
  <2>2. handler[g].event.sub \in Subs
    BY <1>2, <2>1 DEF Held, Numbered, InSequence, Event
  <2>3. row[handler[g].event.sub] # NoSub => row'[handler[g].event.sub] # NoSub
    BY <1>4, <1>5, <2>2
  <2> QED BY <1>1, <2>1, <2>3 DEF Held, CopyOf
<1>15. BillingInv'
  BY <1>6, <1>7, <1>9, <1>10, <1>11, <1>12, <1>13, <1>14 DEF BillingInv
<1>16. Mirror!Next \/ UNCHANGED Mirror!vars
  <2>1. ~ Quiet(s)
    BY <1>1 DEF Quiet
  <2>2. Mirror!Only(s) /\ truth'[s] = truth[s] /\ row'[s] \in SubRow \cup {NoSub}
    BY <1>1, <1>2, <1>4 DEF Mirror!Only, Typed
  <2>3. ASSUME NEW t \in Subs \ {s} PROVE (Quiet(t) /\ t \notin missed)' <=> (Quiet(t) /\ t \notin missed)
    <3>1. \A f \in events : f.sub = t => f.n # e.n
      BY <1>1, <1>2 DEF Numbered, InSequence
    <3> QED BY <1>1, <1>5, <3>1 DEF Quiet
  <2>4. CASE (Quiet(s) /\ s \notin missed)'
    <3>1. row'[s] = truth[s]
      <4>1. PICK u \in events : u.sub = s /\ Newest(u)'
        BY <1>1, <1>8, <1>9 DEF Told
      <4>2. u.n \in done'
        BY <1>1, <2>4, <4>1 DEF Quiet
      <4> QED BY <1>1, <1>11, <2>4, <4>1, <4>2 DEF Mirrored
    <3>2. {t \in Subs : Quiet(t) /\ t \notin missed}' = {t \in Subs : Quiet(t) /\ t \notin missed} \cup {s}
      BY <1>1, <2>3, <2>4
    <3>3. Mirror!Take(s)
      BY <2>1, <2>2, <3>1, <3>2 DEF Mirror!Take
    <3> QED BY <1>1, <3>3 DEF Mirror!Next
  <2>5. CASE ~ (Quiet(s) /\ s \notin missed)'
    <3>1. {t \in Subs : Quiet(t) /\ t \notin missed}' = {t \in Subs : Quiet(t) /\ t \notin missed}
      BY <2>1, <2>3, <2>5
    <3>2. Mirror!Take(s)
      BY <2>1, <2>2, <3>1 DEF Mirror!Take
    <3> QED BY <1>1, <3>2 DEF Mirror!Next
  <2> QED BY <2>4, <2>5
<1>17. NotRevived
  <2> SUFFICES ASSUME NEW t \in Subs, NEW c \in events, c.kind = "cancel", c.sub = t, c.n \in done,
                      row[t] # NoSub, row[t].status = "canceled", row'[t].status # "canceled"
               PROVE  \E f \in events : f.sub = t /\ f.at = last[t] /\ f.n \in done' \ done
    BY DEF NotRevived
  <2>1. t = s
    BY <1>5
  <2>2. \A f \in events : f.sub = t => f.n <= c.n
    BY DEF BillingInv, Told
  <2>3. Newest(c)
    BY <2>2 DEF Newest, CopyOf, Copies
  <2>4. last[s] >= c.at
    BY <2>1, <2>3 DEF BillingInv, Mirrored
  <2>5. e.at <= c.at /\ c.at \in Nat
    BY <1>1, <1>2, <2>1, <2>2 DEF Numbered, InSequence, Event
  <2>6. e.at >= last[s]
    BY <1>1, <2>1 DEF Handled
  <2>7. e.at = last[s]
    BY <1>1, <1>2, <1>3, <2>4, <2>5, <2>6
  <2> QED BY <1>1, <2>1, <2>7
<1> QED BY <1>15, <1>16, <1>17

-----------------------------------------------------------------------------
(* Theorems.                                                               *)

LEMMA NextStep ==
    ASSUME BillingInv, Next
    PROVE  BillingInv' /\ (Mirror!Next \/ UNCHANGED Mirror!vars) /\ NotRevived
<1>1. ASSUME NEW s \in Subs, Complete(s) \/ ProviderChanges(s) \/ Checkout(s)
      PROVE  BillingInv' /\ (Mirror!Next \/ UNCHANGED Mirror!vars) /\ NotRevived
  BY <1>1, CompleteStep, ProviderStep, CheckoutStep
<1>2. ASSUME NEW h \in Handlers, Apply(h) \/ Drop(h) \/ \E e \in events : Receive(h, e)
      PROVE  BillingInv' /\ (Mirror!Next \/ UNCHANGED Mirror!vars) /\ NotRevived
  BY <1>2, ApplyStep, DropStep, ReceiveStep
<1>3. ASSUME ChangePlan \/ Cancel \/ ChangeComp \/ TrialEnds
      PROVE  BillingInv' /\ (Mirror!Next \/ UNCHANGED Mirror!vars) /\ NotRevived
  BY <1>3, ChangePlanStep, CancelStep, ChangeCompStep, TrialEndsStep
<1>4. ASSUME NEW acct \in Types, ChangeAccount(acct)
      PROVE  BillingInv' /\ (Mirror!Next \/ UNCHANGED Mirror!vars) /\ NotRevived
  BY <1>4, ChangeAccountStep
<1> QED BY <1>1, <1>2, <1>3, <1>4 DEF Next

LEMMA StutterStep ==
    ASSUME BillingInv, UNCHANGED vars
    PROVE  BillingInv' /\ UNCHANGED Mirror!vars /\ NotRevived
<1>1. UNCHANGED <<stripeVars, mirrorVars, handler, paid>> /\ account' \in Types /\ trial' = trial /\ mark' = mark
  BY DEF vars, orgVars, BillingInv, Typed
<1> QED BY <1>1, OrganizationStep

\* The invariant holds in every behaviour.
THEOREM BillingInvAlways == Spec => []BillingInv
<1>1. BillingInv /\ [Next]_vars => BillingInv'
  BY NextStep, StutterStep
<1> QED BY InitInv, <1>1, PTL DEF Spec

\* Access is granted by a subscription only after the provider had it paid, whatever order webhooks
\* come in, and the legacy mark is not lost to anything but a purchase (resolve_entitlement, project).
THEOREM EntitlementKeptAlways == Spec => []EntitlementKept
<1>1. ASSUME BillingInv PROVE EntitlementKept
  <2>1. GrantedOnlyIfPaid
    <3> SUFFICES ASSUME Resolve(account, mark, trial, comp, row, order) = "subscription"
                 PROVE  \E s \in paid : row[s] = Current(row, order)
      BY DEF GrantedOnlyIfPaid, Source
    <3>1. order \in Seq(Subs) /\ \A s \in Subs : row[s] # NoSub /\ row[s].status \in Paying => s \in paid
      BY <1>1 DEF BillingInv, Typed, PaidFor
    <3> QED BY <3>1, GrantedByPayer
  <2> QED BY <1>1, <2>1 DEF EntitlementKept, BillingInv
<1> QED BY <1>1, BillingInvAlways, PTL

\* Whatever order, number of times and handlers the events of a subscription come in, its row ends as
\* the subscription is at the provider: the webhooks implement the mirror (apply_event, _stale).
THEOREM MirrorImplementedAlways == Spec => MirrorImplemented
<1>1. Init => Mirror!Init
  BY DEF Init, Mirror!Init, Quiet
<1>2. BillingInv /\ [Next]_vars => [Mirror!Next]_(Mirror!vars)
  BY NextStep, StutterStep
<1> QED BY <1>1, <1>2, BillingInvAlways, PTL DEF Spec, MirrorImplemented, Mirror!Spec

\* Once its cancellation was applied a subscription is not brought back by a late event, only by one
\* of the very same second (_stale).
THEOREM NeverRevivedAlways == Spec => NeverRevived
<1>1. BillingInv /\ [Next]_vars => [NotRevived]_vars
  BY NextStep, StutterStep
<1> QED BY <1>1, BillingInvAlways, PTL DEF Spec, NeverRevived, NotRevived

-----------------------------------------------------------------------------
(* Sign-ins.                                                               *)

Afters == {"no", "kept", "out", "forced", "earlier"}
SessionRow == [user : Nat, subject : Subjects, origin : Browsers, live : BOOLEAN, resumed : Afters]
Cookie == [session : Nat \cup {Nobody}, state : Flows \cup {Nobody}, pending : Subjects \cup {Nobody}, force : BOOLEAN]
Visit == [at : {"unused", "begun", "authenticated", "used"}, browser : Browsers \cup {Nobody}, challenge : BOOLEAN,
          after : Afters, subject : Subjects \cup {Nobody}, resumed : Afters]
SigningIn == [at : {"idle", "revoke", "establish", "create"}, browser : Browsers \cup {Nobody}, hosted : BOOLEAN,
              origin : Browsers \cup {Nobody}, subject : Subjects \cup {Nobody}, resumed : Afters,
              user : Nat \cup {Nobody}]

RowsTyped == session \in Seq(SessionRow)

SessionsTyped ==
  /\ identity \in [Subjects -> Nat \cup {Nobody}] /\ users \in Nat
  /\ cookie \in [Browsers -> Cookie] /\ flow \in [Flows -> Visit] /\ signing \in [Signings -> SigningIn]
  /\ left \in [Browsers -> Afters]

\* Visits under way are of a browser, and know their account once it is authenticated.
VisitsKnown ==
  \A f \in Flows : /\ flow[f].at \in {"begun", "authenticated"} => flow[f].browser \in Browsers
                   /\ flow[f].at = "authenticated" => flow[f].subject \in Subjects

\* A sign-in at work is of the browser whose login it is, and of the account's user if it read one.
SigningsKnown ==
  \A q \in Signings :
    /\ signing[q].at # "idle" => signing[q].browser \in Browsers /\ signing[q].subject \in Subjects
    /\ signing[q].at \in {"establish", "create"} => signing[q].origin = signing[q].browser
    /\ signing[q].at = "create" /\ signing[q].user # Nobody => signing[q].user = identity[signing[q].subject]

\* A state is in the cookie of the browser that began its visit, or the visit is over.
StatesKnown ==
  \A b \in Browsers : cookie[b].state # Nobody =>
    /\ flow[cookie[b].state].at # "unused"
    /\ flow[cookie[b].state].at # "used" => flow[cookie[b].state].browser = b

\* A browser's session is one that it signed in to.
CookiesOwn ==
  \A b \in Browsers : cookie[b].session # Nobody =>
    cookie[b].session \in DOMAIN session /\ session[cookie[b].session].origin = b

\* The user of a session is that of its account, and accounts share none.
UsersOwn ==
  /\ \A i \in DOMAIN session : /\ identity[session[i].subject] # Nobody
                               /\ session[i].user = identity[session[i].subject]
  /\ \A s \in Subjects : identity[s] # Nobody => identity[s] <= users
  /\ \A s, t \in Subjects : identity[s] # Nobody /\ identity[s] = identity[t] => s = t

\* After a sign-out the browser asks for a fresh challenge, until it has asked or time has passed.
ForcedOut ==
  /\ \A b \in Browsers : left[b] = "out" => cookie[b].force
  /\ \A f \in Flows : (flow[f].after = "out" => flow[f].challenge) /\ flow[f].resumed # "out"
  /\ \A q \in Signings : signing[q].resumed # "out"
  /\ \A i \in DOMAIN session : session[i].resumed # "out"

SessionInv ==
  /\ SessionsTyped /\ RowsTyped /\ VisitsKnown /\ SigningsKnown /\ StatesKnown
  /\ CookiesOwn /\ UsersOwn /\ ForcedOut

LEMMA RowsFacts ==
  ASSUME RowsTyped
  PROVE  /\ Len(session) \in Nat /\ DOMAIN session = 1..Len(session)
         /\ \A i \in DOMAIN session : session[i] \in SessionRow
<1>1. session \in Seq(SessionRow) BY DEF RowsTyped
<1>2. /\ Len(session) \in Nat /\ session \in [1..Len(session) -> SessionRow]
      /\ DOMAIN session = 1..Len(session)
  BY <1>1, LenProperties
<1>3. QED BY <1>2

LEMMA RowsFunction ==
  ASSUME SessionInv
  PROVE  session = [i \in DOMAIN session |-> IF i \in {} THEN [session[i] EXCEPT !.live = FALSE] ELSE session[i]]
         /\ session = [i \in DOMAIN session |-> session[i]]
<1>1. session \in Seq(SessionRow) BY DEF SessionInv, RowsTyped
<1>2. session \in [1..Len(session) -> SessionRow] BY <1>1, LenProperties
<1>3. QED BY <1>2

\* Sessions that end keep their user, account and browser.
LEMMA RowsKept ==
  ASSUME SessionInv, NEW ended \in SUBSET DOMAIN session,
         session' = [i \in DOMAIN session |->
                       IF i \in ended THEN [session[i] EXCEPT !.live = FALSE] ELSE session[i]]
  PROVE  /\ RowsTyped' /\ DOMAIN session' = DOMAIN session
         /\ \A i \in DOMAIN session :
              /\ session'[i].user = session[i].user /\ session'[i].subject = session[i].subject
              /\ session'[i].origin = session[i].origin /\ session'[i].resumed = session[i].resumed
<1>1. /\ Len(session) \in Nat /\ DOMAIN session = 1..Len(session)
      /\ \A i \in DOMAIN session : session[i] \in SessionRow
  BY RowsFacts DEF SessionInv
<1>2. \A i \in DOMAIN session : session'[i] \in SessionRow
  BY <1>1 DEF SessionRow
<1>3. PICK n \in Nat : DOMAIN session = 1..n
  BY <1>1
<1>4. session' \in [1..n -> SessionRow]
  BY <1>2, <1>3
<1>5. RowsTyped'
  <2>1. PICK rows : rows = session' OBVIOUS
  <2>2. rows \in [1..n -> SessionRow] BY <1>4, <2>1
  <2>3. rows \in Seq(SessionRow) BY <1>3, <2>2
  <2>4. QED BY <2>1, <2>3 DEF RowsTyped
<1>6. \A i \in DOMAIN session :
              /\ session'[i].user = session[i].user /\ session'[i].subject = session[i].subject
              /\ session'[i].origin = session[i].origin /\ session'[i].resumed = session[i].resumed
  BY <1>1 DEF SessionRow
<1>7. QED BY <1>3, <1>4, <1>5, <1>6

\* What the browsers' own sessions and the users' ask of sessions that end.
LEMMA EndsKeep ==
  ASSUME SessionInv, NEW ended \in SUBSET DOMAIN session,
         session' = [i \in DOMAIN session |->
                       IF i \in ended THEN [session[i] EXCEPT !.live = FALSE] ELSE session[i]],
         UNCHANGED <<identity, users>>,
         \A b \in Browsers : cookie'[b].session \in {cookie[b].session, Nobody}
  PROVE  RowsTyped' /\ CookiesOwn' /\ UsersOwn' /\ \A i \in DOMAIN session' : session'[i].resumed # "out"
<1>1. /\ RowsTyped' /\ DOMAIN session' = DOMAIN session
      /\ \A i \in DOMAIN session :
           /\ session'[i].user = session[i].user /\ session'[i].subject = session[i].subject
           /\ session'[i].origin = session[i].origin /\ session'[i].resumed = session[i].resumed
  BY RowsKept
<1>2. CookiesOwn' BY <1>1 DEF SessionInv, CookiesOwn
<1>3. UsersOwn' BY <1>1 DEF SessionInv, UsersOwn
<1>4. \A i \in DOMAIN session' : session'[i].resumed # "out" BY <1>1 DEF SessionInv, ForcedOut
<1>5. QED BY <1>1, <1>2, <1>3, <1>4

\* A sign-in begins, goes on or is over; the visit it came from is used up.
LEMMA SigningMoves ==
  ASSUME NobodyApart, SessionInv, NEW q \in Signings, NEW r \in SigningIn,
         signing' = [signing EXCEPT ![q] = r],
         r.at # "idle" => r.browser \in Browsers /\ r.subject \in Subjects,
         r.at \in {"establish", "create"} => r.origin = r.browser,
         r.at = "create" /\ r.user # Nobody => r.user = identity[r.subject],
         r.resumed # "out",
         UNCHANGED <<identity, users, session, cookie, left>>,
         flow' = flow \/ \E f \in Flows : flow' = [flow EXCEPT ![f] = [Unused EXCEPT !.at = "used"]]
  PROVE  SessionInv'
<1>0. SessionsTyped /\ VisitsKnown /\ SigningsKnown /\ StatesKnown /\ ForcedOut
  BY DEF SessionInv
<1>1. signing' \in [Signings -> SigningIn] /\ signing'[q] = r /\ \A p \in Signings \ {q} : signing'[p] = signing[p]
  BY <1>0 DEF SessionsTyped
<1>2. PICK over : over = [Unused EXCEPT !.at = "used"]
  OBVIOUS
<1>3. over \in Visit /\ over.at = "used" /\ over.after = "no" /\ over.resumed = "no"
  BY <1>2 DEF Unused, Visit, Afters
<1>4. flow' \in [Flows -> Visit] /\ \A f \in Flows : flow'[f] \in {flow[f], over}
  BY <1>0, <1>2, <1>3 DEF SessionsTyped
<1>5. SessionsTyped' BY <1>0, <1>1, <1>4 DEF SessionsTyped
<1>6. VisitsKnown' BY <1>0, <1>3, <1>4 DEF VisitsKnown
<1>7. SigningsKnown' BY <1>0, <1>1 DEF SigningsKnown
<1>8. StatesKnown'
  <2>1. \A b \in Browsers : cookie[b].state # Nobody => cookie[b].state \in Flows
    BY <1>0 DEF SessionsTyped, Cookie
  <2>2. QED BY <1>0, <1>3, <1>4, <2>1 DEF StatesKnown
<1>9. ForcedOut' BY <1>0, <1>1, <1>3, <1>4 DEF ForcedOut
<1>10. RowsTyped' /\ CookiesOwn' /\ UsersOwn' BY DEF SessionInv, RowsTyped, CookiesOwn, UsersOwn
<1>11. QED BY <1>5, <1>6, <1>7, <1>8, <1>9, <1>10 DEF SessionInv

\* A sign-out leaves visits and sign-ins what they are, but for what history notes of them.
Noted(x, y) == y.after \in {x.after, "earlier"} /\ y.resumed \in {x.resumed, "earlier"}
SameVisit(x, y) ==
  Noted(x, y) /\ y.at = x.at /\ y.browser = x.browser /\ y.challenge = x.challenge /\ y.subject = x.subject
SameSigning(x, y) ==
  /\ y.resumed \in {x.resumed, "earlier"} /\ y.at = x.at /\ y.browser = x.browser
  /\ y.origin = x.origin /\ y.subject = x.subject /\ y.user = x.user

\* A browser loses what it held, and sessions end.
LEMMA BrowserMoves ==
  ASSUME NobodyApart, SessionInv, NEW b \in Browsers, NEW k \in Cookie, NEW l \in Afters,
         NEW ended \in SUBSET DOMAIN session,
         cookie' = [cookie EXCEPT ![b] = k], left' = [left EXCEPT ![b] = l],
         k.session \in {cookie[b].session, Nobody}, k.state \in {cookie[b].state, Nobody},
         l = "out" => k.force,
         session' = [i \in DOMAIN session |->
                       IF i \in ended THEN [session[i] EXCEPT !.live = FALSE] ELSE session[i]],
         UNCHANGED <<identity, users>>,
         flow' \in [Flows -> Visit], \A f \in Flows : SameVisit(flow[f], flow'[f]),
         signing' \in [Signings -> SigningIn],
         \A q \in Signings : signing'[q] = Resting \/ SameSigning(signing[q], signing'[q])
  PROVE  SessionInv'
<1>0. SessionsTyped /\ VisitsKnown /\ SigningsKnown /\ StatesKnown /\ ForcedOut
  BY DEF SessionInv
<1>1. /\ cookie' \in [Browsers -> Cookie] /\ left' \in [Browsers -> Afters]
      /\ cookie'[b] = k /\ left'[b] = l
      /\ \A c \in Browsers \ {b} : cookie'[c] = cookie[c] /\ left'[c] = left[c]
  BY <1>0 DEF SessionsTyped
<1>2. Resting \in SigningIn /\ Resting.at = "idle" /\ Resting.resumed = "no"
  BY DEF Resting, SigningIn, Afters
<1>3. \A f \in Flows : /\ flow'[f].at = flow[f].at /\ flow'[f].browser = flow[f].browser
                       /\ flow'[f].subject = flow[f].subject /\ flow'[f].challenge = flow[f].challenge
                       /\ (flow'[f].after = "out" => flow[f].after = "out")
                       /\ (flow'[f].resumed = "out" => flow[f].resumed = "out")
  BY DEF SameVisit, Noted
<1>4. SessionsTyped' BY <1>0, <1>1 DEF SessionsTyped
<1>5. VisitsKnown' BY <1>0, <1>3 DEF VisitsKnown
<1>6. SigningsKnown' /\ \A q \in Signings : signing'[q].resumed # "out"
  <2>1. ASSUME NEW q \in Signings
        PROVE  /\ signing'[q].at # "idle" => signing'[q].browser \in Browsers /\ signing'[q].subject \in Subjects
               /\ signing'[q].at \in {"establish", "create"} => signing'[q].origin = signing'[q].browser
               /\ signing'[q].at = "create" /\ signing'[q].user # Nobody
                    => signing'[q].user = identity'[signing'[q].subject]
               /\ signing'[q].resumed # "out"
    <3>1. CASE signing'[q] = Resting BY <1>2, <3>1
    <3>2. CASE SameSigning(signing[q], signing'[q])
      BY <1>0, <3>2 DEF SameSigning, SigningsKnown, ForcedOut
    <3>3. QED BY <3>1, <3>2
  <2>2. QED BY <2>1 DEF SigningsKnown
<1>7. StatesKnown'
  <2>1. \A c \in Browsers : cookie'[c].state # Nobody => cookie'[c].state = cookie[c].state /\ cookie[c].state \in Flows
    BY <1>0, <1>1 DEF SessionsTyped, Cookie
  <2>2. QED BY <1>0, <1>3, <2>1 DEF StatesKnown
<1>8. \A c \in Browsers : cookie'[c].session \in {cookie[c].session, Nobody} BY <1>1
<1>9. RowsTyped' /\ CookiesOwn' /\ UsersOwn' /\ \A i \in DOMAIN session' : session'[i].resumed # "out"
  BY <1>8, EndsKeep
<1>10. ForcedOut' BY <1>0, <1>1, <1>3, <1>6, <1>9 DEF ForcedOut
<1>11. QED BY <1>4, <1>5, <1>6, <1>7, <1>9, <1>10 DEF SessionInv

\* The same while no visit or sign-in is overtaken.
LEMMA CookieMoves ==
  ASSUME NobodyApart, SessionInv, NEW b \in Browsers, NEW k \in Cookie, NEW l \in Afters,
         NEW ended \in SUBSET DOMAIN session,
         cookie' = [cookie EXCEPT ![b] = k], left' = [left EXCEPT ![b] = l],
         k.session \in {cookie[b].session, Nobody}, k.state \in {cookie[b].state, Nobody},
         l = "out" => k.force,
         session' = [i \in DOMAIN session |->
                       IF i \in ended THEN [session[i] EXCEPT !.live = FALSE] ELSE session[i]],
         UNCHANGED <<identity, users, flow, signing>>
  PROVE  SessionInv'
<1>1. flow' \in [Flows -> Visit] /\ \A f \in Flows : SameVisit(flow[f], flow'[f])
  BY DEF SessionInv, SessionsTyped, SameVisit, Noted
<1>2. signing' \in [Signings -> SigningIn] /\ \A q \in Signings : signing'[q] = Resting \/ SameSigning(signing[q], signing'[q])
  BY DEF SessionInv, SessionsTyped, SameSigning
<1>3. UNCHANGED <<identity, users>> OBVIOUS
<1>4. QED BY <1>1, <1>2, <1>3, BrowserMoves

\* The visits and the sign-ins that a sign-out overtakes.
LEMMA OvertakenFacts ==
  ASSUME SessionInv, NEW b \in Browsers
  PROVE  /\ Earlier(b) => /\ left' = [left EXCEPT ![b] = "out"]
                          /\ flow' \in [Flows -> Visit] /\ \A f \in Flows : SameVisit(flow[f], flow'[f])
         /\ \A q \in Signings : Overtaken(q, b) \in SigningIn /\ SameSigning(signing[q], Overtaken(q, b))
<1>0. SessionsTyped BY DEF SessionInv
<1>1. ASSUME Earlier(b)
      PROVE  /\ left' = [left EXCEPT ![b] = "out"]
             /\ flow' \in [Flows -> Visit] /\ \A f \in Flows : SameVisit(flow[f], flow'[f])
  <2>1. ASSUME NEW f \in Flows PROVE flow'[f] \in Visit /\ SameVisit(flow[f], flow'[f])
    <3>1. flow[f] \in Visit BY <1>0 DEF SessionsTyped
    <3>2. PICK n \in Afters : n = IF flow[f].resumed = "no" THEN flow[f].resumed ELSE "earlier" BY DEF Afters
    <3>3. flow'[f] = flow[f] \/ flow'[f] = [flow[f] EXCEPT !.after = "earlier", !.resumed = n]
      BY <1>1, <3>1, <3>2 DEF Earlier, Visit
    <3>4. PICK v : v = [flow[f] EXCEPT !.after = "earlier", !.resumed = n] OBVIOUS
    <3>5. /\ v \in Visit /\ v.at = flow[f].at /\ v.browser = flow[f].browser /\ v.challenge = flow[f].challenge
          /\ v.subject = flow[f].subject /\ v.after = "earlier" /\ v.resumed = n
      BY <3>1, <3>4 DEF Visit, Afters
    <3>6. n \in {flow[f].resumed, "earlier"} BY <3>2
    <3>7. QED BY <3>1, <3>3, <3>4, <3>5, <3>6 DEF SameVisit, Noted
  <2>2. left' = [left EXCEPT ![b] = "out"] /\ flow' = [f \in Flows |-> flow'[f]] BY <1>1 DEF Earlier
  <2>3. QED BY <2>1, <2>2
<1>2. ASSUME NEW q \in Signings PROVE Overtaken(q, b) \in SigningIn /\ SameSigning(signing[q], Overtaken(q, b))
  <2>1. signing[q] \in SigningIn BY <1>0 DEF SessionsTyped
  <2>2. PICK v : v = [signing[q] EXCEPT !.resumed = "earlier"] OBVIOUS
  <2>3. /\ v \in SigningIn /\ v.at = signing[q].at /\ v.browser = signing[q].browser /\ v.origin = signing[q].origin
        /\ v.subject = signing[q].subject /\ v.user = signing[q].user /\ v.resumed = "earlier"
    BY <2>1, <2>2 DEF SigningIn, Afters
  <2>4. Overtaken(q, b) \in {signing[q], v} BY <2>2 DEF Overtaken
  <2>5. QED BY <2>1, <2>3, <2>4 DEF SameSigning
<1>3. QED BY <1>1, <1>2

LEMMA SignIns ==
  ASSUME NobodyApart, SessionInv, NEW q \in Signings, NEW b \in Browsers,
         \/ \E s \in Subjects : ConfirmPasswordReset(q, b, s) \/ PasswordLogin(q, b, s)
         \/ VerifyEmail(q, b)
  PROVE  SessionInv'
<1>0. SessionsTyped BY DEF SessionInv
<1>1. ASSUME NEW s \in Subjects, signing' = [signing EXCEPT ![q] = Establish(b, s)],
             UNCHANGED <<identity, users, session, cookie, flow, left>>
      PROVE  SessionInv'
  <2>1. PICK r : r = Establish(b, s) OBVIOUS
  <2>2. /\ r \in SigningIn /\ r.at = "establish" /\ r.browser = b /\ r.subject = s /\ r.origin = b
        /\ r.resumed = "no"
    BY <2>1 DEF Establish, Resting, SigningIn, Afters
  <2>3. QED BY <1>1, <2>1, <2>2, SigningMoves
<1>2. ASSUME NEW s \in Subjects, ConfirmPasswordReset(q, b, s) PROVE SessionInv'
  <2>1. PICK r : r = [Resting EXCEPT !.at = "revoke", !.browser = b, !.subject = s] OBVIOUS
  <2>2. r \in SigningIn /\ r.at = "revoke" /\ r.browser = b /\ r.subject = s /\ r.resumed = "no"
    BY <2>1 DEF Resting, SigningIn, Afters
  <2>3. signing' = [signing EXCEPT ![q] = r] /\ UNCHANGED <<identity, users, session, cookie, flow, left>>
    BY <1>2, <2>1 DEF ConfirmPasswordReset
  <2>4. QED BY <2>2, <2>3, SigningMoves
<1>3. ASSUME NEW s \in Subjects, PasswordLogin(q, b, s) PROVE SessionInv'
  <2>1. CASE signing' = [signing EXCEPT ![q] = Establish(b, s)] /\ UNCHANGED cookie
    BY <1>1, <1>3, <2>1 DEF PasswordLogin
  <2>2. CASE UNCHANGED signing /\ \E p \in {s, Nobody} : cookie' = [cookie EXCEPT ![b].pending = p]
    <3>1. PICK p \in {s, Nobody} : cookie' = [cookie EXCEPT ![b].pending = p] BY <2>2
    <3>2. PICK k : k = [cookie[b] EXCEPT !.pending = p] OBVIOUS
    <3>3. k \in Cookie /\ k.session = cookie[b].session /\ k.state = cookie[b].state /\ k.force = cookie[b].force
      BY <1>0, <3>2 DEF SessionsTyped, Cookie
    <3>4. cookie' = [cookie EXCEPT ![b] = k] BY <3>1, <3>2
    <3>5. UNCHANGED <<identity, users, session, flow, left>> BY <1>3 DEF PasswordLogin
    <3>6. left[b] \in Afters /\ left' = [left EXCEPT ![b] = left[b]] /\ (left[b] = "out" => k.force)
      BY <1>0, <3>3, <3>5 DEF SessionsTyped, SessionInv, ForcedOut
    <3>7. session' = [i \in DOMAIN session |->
                       IF i \in {} THEN [session[i] EXCEPT !.live = FALSE] ELSE session[i]]
      BY <3>5, RowsFunction
    <3>8. {} \in SUBSET DOMAIN session OBVIOUS
    <3>9. QED BY <2>2, <3>3, <3>4, <3>5, <3>6, <3>7, <3>8, CookieMoves
  <2>3. QED BY <1>3, <2>1, <2>2 DEF PasswordLogin
<1>4. CASE VerifyEmail(q, b)
  <2>1. cookie[b].pending \in Subjects BY <1>0, <1>4 DEF VerifyEmail, SessionsTyped, Cookie
  <2>2. QED BY <1>1, <1>4, <2>1 DEF VerifyEmail
<1>5. QED BY <1>2, <1>3, <1>4

LEMMA Callbacks ==
  ASSUME NobodyApart, SessionInv, NEW q \in Signings, NEW b \in Browsers, NEW f \in Flows, Callback(q, b, f)
  PROVE  SessionInv'
<1>0. SessionsTyped /\ VisitsKnown /\ StatesKnown /\ ForcedOut BY DEF SessionInv
<1>1. CASE StateMatches(b, f) /\ signing' = [signing EXCEPT ![q] = Hosted(b, f)]
           /\ flow' = [flow EXCEPT ![f] = [Unused EXCEPT !.at = "used"]] /\ UNCHANGED cookie
  <2>1. flow[f].at = "authenticated" /\ UNCHANGED <<identity, users, session, left>>
    BY DEF Callback
  <2>2. flow[f].subject \in Subjects /\ flow[f].resumed \in Afters /\ flow[f].resumed # "out"
    BY <1>0, <2>1 DEF SessionsTyped, VisitsKnown, ForcedOut, Visit
  <2>3. flow[f].browser = b
    BY <1>0, <1>1, <2>1 DEF StateMatches, StatesKnown, NobodyApart
  <2>4. PICK r : r = Hosted(b, f) OBVIOUS
  <2>5. /\ r \in SigningIn /\ r.at = "establish" /\ r.browser = b /\ r.subject = flow[f].subject
        /\ r.origin = b /\ r.resumed = flow[f].resumed
    BY <2>2, <2>3, <2>4 DEF Hosted, Establish, Resting, SigningIn, Afters
  <2>6. QED BY <1>1, <2>1, <2>2, <2>4, <2>5, SigningMoves
<1>2. CASE cookie' = [cookie EXCEPT ![b].state = Nobody] /\ UNCHANGED <<signing, flow>>
  <2>1. PICK k : k = [cookie[b] EXCEPT !.state = Nobody] OBVIOUS
  <2>2. k \in Cookie /\ k.session = cookie[b].session /\ k.state = Nobody /\ k.force = cookie[b].force
    BY <1>0, <2>1 DEF SessionsTyped, Cookie
  <2>3. cookie' = [cookie EXCEPT ![b] = k] BY <1>2, <2>1
  <2>4. UNCHANGED <<identity, users, session, left>> BY DEF Callback
  <2>5. left[b] \in Afters /\ left' = [left EXCEPT ![b] = left[b]] /\ (left[b] = "out" => k.force)
    BY <1>0, <2>2, <2>4 DEF SessionsTyped, ForcedOut
  <2>6. PICK ended \in SUBSET DOMAIN session : ended = {}
    OBVIOUS
  <2>7. session' = [i \in DOMAIN session |->
                     IF i \in ended THEN [session[i] EXCEPT !.live = FALSE] ELSE session[i]]
    BY <2>4, <2>6, RowsFunction
  <2>8. signing' = signing /\ UNCHANGED <<identity, users, flow>> /\ left[b] \in Afters
    BY <1>2, <2>4, <2>5
  <2>9. QED BY <2>2, <2>3, <2>5, <2>7, <2>8, CookieMoves
<1>3. QED BY <1>1, <1>2 DEF Callback

LEMMA Revokes ==
  ASSUME NobodyApart, SessionInv, NEW q \in Signings, RevokeUserSessions(q)
  PROVE  SessionInv'
<1>0. SessionsTyped /\ SigningsKnown BY DEF SessionInv
<1>1. PICK b \in Browsers : b = signing[q].browser
  BY <1>0 DEF RevokeUserSessions, SigningsKnown
<1>2. PICK user : user = identity[signing[q].subject]
  OBVIOUS
<1>3. PICK ended \in SUBSET DOMAIN session :
        ended = {i \in DOMAIN session : user # Nobody /\ session[i].user = user}
  OBVIOUS
<1>4. session' = [i \in DOMAIN session |->
                    IF i \in ended THEN [session[i] EXCEPT !.live = FALSE] ELSE session[i]]
  BY <1>2, <1>3 DEF RevokeUserSessions
<1>5. PICK k : k = [cookie[b] EXCEPT !.session = Nobody, !.force = TRUE, !.pending = Nobody]
  OBVIOUS
<1>6. k \in Cookie /\ k.session = Nobody /\ k.state = cookie[b].state /\ k.force = TRUE
  BY <1>0, <1>5 DEF SessionsTyped, Cookie
<1>7. cookie' = [cookie EXCEPT ![b] = k]
  BY <1>0, <1>1, <1>5 DEF RevokeUserSessions, SignedOut, SessionsTyped, Cookie
<1>8. /\ Earlier(b) /\ UNCHANGED <<identity, users>>
      /\ signing' = [r \in Signings |-> IF r = q THEN Resting ELSE Overtaken(r, b)]
  BY <1>1 DEF RevokeUserSessions
<1>9. "out" \in Afters BY DEF Afters
<1>10. /\ left' = [left EXCEPT ![b] = "out"]
       /\ flow' \in [Flows -> Visit] /\ \A f \in Flows : SameVisit(flow[f], flow'[f])
  BY <1>8, OvertakenFacts
<1>11. Resting \in SigningIn BY DEF Resting, SigningIn, Afters
<1>12. /\ signing' \in [Signings -> SigningIn]
       /\ \A r \in Signings : signing'[r] = Resting \/ SameSigning(signing[r], signing'[r])
  BY <1>8, <1>11, OvertakenFacts
<1>13. k.session \in {cookie[b].session, Nobody} /\ k.state \in {cookie[b].state, Nobody} /\ UNCHANGED <<identity, users>>
  BY <1>6, <1>8
<1>14. QED BY <1>4, <1>6, <1>7, <1>9, <1>10, <1>12, <1>13, BrowserMoves

LEMMA Establishes ==
  ASSUME NobodyApart, SessionInv, NEW q \in Signings, EstablishIdentity(q) \/ RollBack(q)
  PROVE  SessionInv'
<1>0. SessionsTyped /\ SigningsKnown /\ ForcedOut BY DEF SessionInv
<1>1. CASE EstablishIdentity(q)
  <2>1. PICK r : r = [signing[q] EXCEPT !.at = "create", !.user = identity[signing[q].subject]] OBVIOUS
  <2>2. signing[q] \in SigningIn /\ signing[q].at = "establish" /\ signing[q].subject \in Subjects
    BY <1>0, <1>1 DEF EstablishIdentity, SessionsTyped, SigningsKnown
  <2>3. identity[signing[q].subject] \in Nat \cup {Nobody} BY <1>0, <2>2 DEF SessionsTyped
  <2>4. /\ r \in SigningIn /\ r.at = "create" /\ r.browser = signing[q].browser /\ r.subject = signing[q].subject
        /\ r.origin = signing[q].origin /\ r.resumed = signing[q].resumed /\ r.user = identity[r.subject]
    BY <2>1, <2>2, <2>3 DEF SigningIn
  <2>5. /\ signing' = [signing EXCEPT ![q] = r]
        /\ UNCHANGED <<identity, users, session, cookie, flow, left>>
    BY <1>1, <2>1 DEF EstablishIdentity
  <2>6. r.browser \in Browsers /\ r.origin = r.browser /\ r.resumed # "out"
    BY <1>0, <2>2, <2>4 DEF SigningsKnown, ForcedOut
  <2>7. QED BY <2>2, <2>4, <2>5, <2>6, SigningMoves
<1>2. CASE RollBack(q)
  <2>1. Resting \in SigningIn /\ Resting.at = "idle" /\ Resting.resumed = "no"
    BY DEF Resting, SigningIn, Afters
  <2>2. QED BY <1>2, <2>1, SigningMoves DEF RollBack
<1>3. QED BY <1>1, <1>2

\* A session for the account's user, who is new exactly when the account had none.
LEMMA Creates ==
  ASSUME NobodyApart, SessionInv, NEW q \in Signings, CreateSession(q)
  PROVE  SessionInv'
<1>0. SessionsTyped /\ RowsTyped /\ VisitsKnown /\ SigningsKnown /\ StatesKnown /\ CookiesOwn /\ UsersOwn /\ ForcedOut
  BY DEF SessionInv
<1>1. PICK b \in Browsers, s \in Subjects, r \in SigningIn :
        /\ r = signing[q] /\ b = r.browser /\ s = r.subject /\ r.at = "create" /\ r.origin = b
        /\ (r.user # Nobody => r.user = identity[s]) /\ r.resumed # "out"
  BY <1>0 DEF CreateSession, SessionsTyped, SigningsKnown, ForcedOut
<1>2. (r.user = Nobody => identity[s] = Nobody) /\ identity[s] \in Nat \cup {Nobody} /\ users \in Nat
  BY <1>0, <1>1 DEF CreateSession, Taken, SessionsTyped
<1>3. PICK user : user = IF r.user = Nobody THEN users + 1 ELSE r.user
  OBVIOUS
<1>4. user \in Nat /\ user # Nobody /\ r.user \in Nat \cup {Nobody}
  BY <1>2, <1>3 DEF SigningIn, NobodyApart
<1>5. PICK entry : entry = [user |-> user, subject |-> s, origin |-> b, live |-> TRUE, resumed |-> r.resumed]
  OBVIOUS
<1>6. entry \in SessionRow /\ entry.user = user /\ entry.subject = s /\ entry.origin = b /\ entry.resumed # "out"
  BY <1>1, <1>4, <1>5 DEF SessionRow, SigningIn
<1>7. /\ users' = (IF r.user = Nobody THEN user ELSE users)
      /\ identity' = [identity EXCEPT ![s] = user]
      /\ session' = Append(session, entry)
      /\ cookie' = [cookie EXCEPT ![b] =
            IF r.hosted THEN [cookie[b] EXCEPT !.session = Len(session'), !.state = Nobody]
                        ELSE [Clean EXCEPT !.session = Len(session')]]
      /\ left' = [left EXCEPT ![b] = "no"]
      /\ signing' = [signing EXCEPT ![q] = Resting]
      /\ UNCHANGED flow
  BY <1>1, <1>3, <1>5 DEF CreateSession
<1>8. PICK n \in Nat : n = Len(session) /\ DOMAIN session = 1..n /\ \A i \in 1..n : session[i] \in SessionRow
  BY <1>0, RowsFacts
<1>9. /\ session' \in Seq(SessionRow) /\ Len(session') = n + 1 /\ DOMAIN session' = 1..(n + 1)
      /\ session'[n + 1] = entry /\ \A i \in 1..n : session'[i] = session[i]
  <2>1. session \in Seq(SessionRow) BY <1>0 DEF RowsTyped
  <2>2. /\ Append(session, entry) \in Seq(SessionRow)
        /\ Append(session, entry) # << >>
        /\ Len(Append(session, entry)) = Len(session) + 1
        /\ \A i \in 1..Len(session) : Append(session, entry)[i] = session[i]
        /\ Append(session, entry)[Len(session) + 1] = entry
    BY <1>6, <2>1, AppendProperties
  <2>3. DOMAIN Append(session, entry) = 1..Len(Append(session, entry))
    BY <2>2, LenProperties
  <2>4. QED BY <1>7, <1>8, <2>2, <2>3
<1>10. RowsTyped' BY <1>9 DEF RowsTyped
<1>11. PICK k : k = IF r.hosted THEN [cookie[b] EXCEPT !.session = n + 1, !.state = Nobody]
                                ELSE [Clean EXCEPT !.session = n + 1]
  OBVIOUS
<1>12. k \in Cookie /\ k.session = n + 1 /\ k.state = Nobody
  <2>1. n + 1 \in Nat BY <1>8
  <2>2. cookie[b] \in Cookie BY <1>0 DEF SessionsTyped
  <2>3. CASE r.hosted
    <3>1. k = [cookie[b] EXCEPT !.session = n + 1, !.state = Nobody] BY <1>11, <2>3
    <3>2. QED BY <2>1, <2>2, <3>1 DEF Cookie
  <2>4. CASE ~r.hosted
    <3>1. k = [session |-> n + 1, state |-> Nobody, pending |-> Nobody, force |-> FALSE]
      BY <1>11, <2>4 DEF Clean
    <3>2. QED BY <2>1, <3>1 DEF Cookie
  <2>5. QED BY <2>3, <2>4
<1>13. /\ cookie' \in [Browsers -> Cookie] /\ cookie'[b] = k /\ \A c \in Browsers \ {b} : cookie'[c] = cookie[c]
  BY <1>0, <1>7, <1>9, <1>11, <1>12 DEF SessionsTyped
<1>14. left' \in [Browsers -> Afters] /\ left'[b] = "no" /\ \A c \in Browsers \ {b} : left'[c] = left[c]
  BY <1>0, <1>7 DEF SessionsTyped, Afters
<1>15. Resting \in SigningIn /\ Resting.at = "idle" /\ Resting.resumed = "no"
  BY DEF Resting, SigningIn, Afters
<1>16. /\ signing' \in [Signings -> SigningIn] /\ signing'[q] = Resting
       /\ \A p \in Signings \ {q} : signing'[p] = signing[p]
  BY <1>0, <1>7, <1>15 DEF SessionsTyped
<1>17. /\ identity' \in [Subjects -> Nat \cup {Nobody}] /\ identity'[s] = user
       /\ \A t \in Subjects \ {s} : identity'[t] = identity[t]
       /\ users' \in Nat
  BY <1>0, <1>2, <1>4, <1>7 DEF SessionsTyped
<1>18. identity[s] # Nobody => user = identity[s]
  BY <1>1, <1>2, <1>3
<1>19. SessionsTyped' BY <1>0, <1>7, <1>13, <1>14, <1>16, <1>17 DEF SessionsTyped
<1>20. VisitsKnown' BY <1>0, <1>7 DEF VisitsKnown
<1>21. SigningsKnown'
  <2>1. SUFFICES ASSUME NEW p \in Signings
                 PROVE  /\ signing'[p].at # "idle" => signing'[p].browser \in Browsers /\ signing'[p].subject \in Subjects
                        /\ signing'[p].at \in {"establish", "create"} => signing'[p].origin = signing'[p].browser
                        /\ signing'[p].at = "create" /\ signing'[p].user # Nobody
                             => signing'[p].user = identity'[signing'[p].subject]
    BY DEF SigningsKnown
  <2>2. CASE p = q BY <1>15, <1>16, <2>2
  <2>3. CASE p # q
    <3>1. signing'[p] = signing[p] BY <1>16, <2>3
    <3>2. CASE signing[p].subject = s
      BY <1>0, <1>17, <1>18, <3>1, <3>2 DEF SigningsKnown
    <3>3. CASE signing[p].subject # s
      BY <1>0, <1>17, <3>1, <3>3 DEF SigningsKnown
    <3>4. QED BY <3>2, <3>3
  <2>4. QED BY <2>2, <2>3
<1>22. StatesKnown' BY <1>0, <1>7, <1>12, <1>13 DEF StatesKnown
<1>23. CookiesOwn'
  <2>1. SUFFICES ASSUME NEW c \in Browsers, cookie'[c].session # Nobody
                 PROVE  cookie'[c].session \in DOMAIN session' /\ session'[cookie'[c].session].origin = c
    BY DEF CookiesOwn
  <2>2. CASE c = b BY <1>6, <1>9, <1>12, <1>13, <2>2
  <2>3. CASE c # b
    <3>1. cookie[c].session \in 1..n /\ session[cookie[c].session].origin = c /\ cookie'[c] = cookie[c]
      BY <1>0, <1>8, <1>13, <2>1, <2>3 DEF CookiesOwn
    <3>2. QED BY <1>9, <3>1
  <2>4. QED BY <2>2, <2>3
<1>24. UsersOwn'
  <2>1. ASSUME NEW i \in DOMAIN session'
        PROVE  identity'[session'[i].subject] # Nobody /\ session'[i].user = identity'[session'[i].subject]
    <3>1. CASE i = n + 1 BY <1>4, <1>6, <1>9, <1>17, <3>1
    <3>2. CASE i # n + 1
      <4>1. i \in 1..n /\ session'[i] = session[i] BY <1>9, <2>1, <3>2
      <4>2. session[i].subject \in Subjects BY <1>8, <4>1 DEF SessionRow
      <4>3. identity[session[i].subject] # Nobody /\ session[i].user = identity[session[i].subject]
        BY <1>0, <1>8, <4>1 DEF UsersOwn
      <4>4. QED BY <1>17, <1>18, <4>1, <4>2, <4>3
    <3>3. QED BY <3>1, <3>2
  <2>2. users' >= users /\ (r.user = Nobody => users' = users + 1 /\ user = users + 1)
    BY <1>2, <1>3, <1>7
  <2>3. ASSUME NEW t \in Subjects, identity'[t] # Nobody PROVE identity'[t] <= users'
    <3>1. CASE t = s
      <4>1. r.user # Nobody => user <= users BY <1>0, <1>1, <1>3 DEF UsersOwn
      <4>2. QED BY <1>2, <1>4, <1>17, <2>2, <3>1, <4>1
    <3>2. CASE t # s
      <4>1. identity'[t] = identity[t] /\ identity[t] <= users /\ identity[t] \in Nat
        BY <1>0, <1>17, <2>3, <3>2 DEF UsersOwn, SessionsTyped
      <4>2. QED BY <1>2, <1>17, <2>2, <4>1
    <3>3. QED BY <3>1, <3>2
  <2>4. ASSUME NEW t \in Subjects, t # s, identity'[t] # Nobody PROVE identity'[t] # user
    <3>1. identity'[t] = identity[t] /\ identity[t] <= users /\ identity[t] \in Nat
      BY <1>0, <1>17, <2>4 DEF UsersOwn, SessionsTyped
    <3>2. CASE r.user = Nobody BY <1>2, <2>2, <3>1, <3>2
    <3>3. CASE r.user # Nobody BY <1>0, <1>1, <1>3, <2>4, <3>1, <3>3 DEF UsersOwn
    <3>4. QED BY <3>2, <3>3
  <2>5. ASSUME NEW t \in Subjects, NEW u \in Subjects, identity'[t] # Nobody, identity'[t] = identity'[u]
        PROVE  t = u
    <3>1. CASE t = s BY <1>4, <1>17, <2>4, <2>5, <3>1
    <3>2. CASE u = s BY <1>4, <1>17, <2>4, <2>5, <3>2
    <3>3. CASE t # s /\ u # s BY <1>0, <1>17, <2>5, <3>3 DEF UsersOwn
    <3>4. QED BY <3>1, <3>2, <3>3
  <2>6. QED BY <2>1, <2>3, <2>5 DEF UsersOwn
<1>25. ForcedOut'
  <2>1. \A i \in DOMAIN session' : session'[i].resumed # "out"
    <3>1. ASSUME NEW i \in DOMAIN session' PROVE session'[i].resumed # "out"
      <4>1. CASE i = n + 1 BY <1>6, <1>9, <4>1
      <4>2. CASE i # n + 1
        <5>1. i \in 1..n /\ session'[i] = session[i] BY <1>9, <3>1, <4>2
        <5>2. QED BY <1>0, <1>8, <5>1 DEF ForcedOut
      <4>3. QED BY <4>1, <4>2
    <3>2. QED BY <3>1
  <2>2. QED BY <1>0, <1>7, <1>13, <1>14, <1>15, <1>16, <2>1 DEF ForcedOut
<1>26. QED BY <1>10, <1>19, <1>20, <1>21, <1>22, <1>23, <1>24, <1>25 DEF SessionInv

LEMMA Logins ==
  ASSUME NobodyApart, SessionInv, NEW b \in Browsers, NEW f \in Flows, Login(b, f)
  PROVE  SessionInv'
<1>0. SessionsTyped /\ VisitsKnown /\ SigningsKnown /\ StatesKnown /\ ForcedOut BY DEF SessionInv
<1>1. PICK v : v = [Unused EXCEPT !.at = "begun", !.browser = b, !.challenge = cookie[b].force, !.after = left[b]]
  OBVIOUS
<1>2. /\ v \in Visit /\ v.at = "begun" /\ v.browser = b /\ v.challenge = cookie[b].force /\ v.after = left[b]
      /\ v.resumed = "no"
  BY <1>0, <1>1 DEF SessionsTyped, Unused, Visit, Cookie, Afters
<1>3. /\ flow' = [flow EXCEPT ![f] = v] /\ flow[f].at = "unused"
      /\ UNCHANGED <<identity, users, session, signing>>
  BY <1>1 DEF Login, Challenged, Unused
<1>4. flow' \in [Flows -> Visit] /\ flow'[f] = v /\ \A g \in Flows \ {f} : flow'[g] = flow[g]
  BY <1>0, <1>2, <1>3 DEF SessionsTyped
<1>5. PICK k : k = [cookie[b] EXCEPT !.state = f, !.force = FALSE]
  OBVIOUS
<1>6. k \in Cookie /\ k.session = cookie[b].session /\ k.state = f
  BY <1>0, <1>5 DEF SessionsTyped, Cookie
<1>7. cookie' = [cookie EXCEPT ![b] = k]
  BY <1>0, <1>5 DEF Login, SessionsTyped, Cookie
<1>8. cookie' \in [Browsers -> Cookie] /\ cookie'[b] = k /\ \A c \in Browsers \ {b} : cookie'[c] = cookie[c]
  BY <1>0, <1>6, <1>7 DEF SessionsTyped
<1>9. /\ left' \in [Browsers -> Afters] /\ left'[b] # "out"
      /\ \A c \in Browsers \ {b} : left'[c] = left[c]
  BY <1>0 DEF Login, SessionsTyped, ForcedOut, Afters
<1>10. SessionsTyped' BY <1>0, <1>3, <1>4, <1>8, <1>9 DEF SessionsTyped
<1>11. VisitsKnown' BY <1>0, <1>2, <1>4 DEF VisitsKnown
<1>12. SigningsKnown' BY <1>0, <1>3 DEF SigningsKnown
<1>13. StatesKnown'
  <2>1. SUFFICES ASSUME NEW c \in Browsers, cookie'[c].state # Nobody
                 PROVE  /\ flow'[cookie'[c].state].at # "unused"
                        /\ flow'[cookie'[c].state].at # "used" => flow'[cookie'[c].state].browser = c
    BY DEF StatesKnown
  <2>2. CASE c = b BY <1>2, <1>4, <1>6, <1>8, <2>2
  <2>3. CASE c # b
    <3>1. cookie'[c] = cookie[c] /\ cookie[c].state \in Flows
      BY <1>0, <1>8, <2>1, <2>3 DEF SessionsTyped, Cookie
    <3>2. /\ flow[cookie[c].state].at # "unused"
          /\ flow[cookie[c].state].at # "used" => flow[cookie[c].state].browser = c
      BY <1>0, <2>1, <3>1 DEF StatesKnown
    <3>3. cookie[c].state # f BY <1>3, <3>2
    <3>4. QED BY <1>4, <3>1, <3>2, <3>3
  <2>4. QED BY <2>2, <2>3
<1>14. RowsTyped' /\ UsersOwn' BY <1>3 DEF SessionInv, RowsTyped, UsersOwn
<1>15. CookiesOwn' BY <1>3, <1>6, <1>8 DEF SessionInv, CookiesOwn
<1>16. ForcedOut'
  <2>1. \A c \in Browsers : left'[c] = "out" => cookie'[c].force BY <1>0, <1>8, <1>9 DEF ForcedOut
  <2>2. \A g \in Flows : (flow'[g].after = "out" => flow'[g].challenge) /\ flow'[g].resumed # "out"
    BY <1>0, <1>2, <1>4 DEF ForcedOut
  <2>3. QED BY <1>0, <1>3, <2>1, <2>2 DEF ForcedOut
<1>17. QED BY <1>10, <1>11, <1>12, <1>13, <1>14, <1>15, <1>16 DEF SessionInv

LEMMA Authentications ==
  ASSUME NobodyApart, SessionInv, NEW f \in Flows, Authenticate(f)
  PROVE  SessionInv'
<1>0. SessionsTyped /\ VisitsKnown /\ SigningsKnown /\ StatesKnown /\ ForcedOut BY DEF SessionInv
<1>1. PICK s \in Subjects, entered \in BOOLEAN :
        /\ ~entered => ~flow[f].challenge
        /\ flow' = [flow EXCEPT ![f].at = "authenticated", ![f].subject = s,
                                ![f].resumed = IF entered THEN "no" ELSE IF flow[f].after = "no" THEN "kept" ELSE flow[f].after]
  BY DEF Authenticate
<1>15. PICK how : how = IF entered THEN "no" ELSE IF flow[f].after = "no" THEN "kept" ELSE flow[f].after
  OBVIOUS
<1>2. PICK v : v = [flow[f] EXCEPT !.at = "authenticated", !.subject = s, !.resumed = how]
  OBVIOUS
<1>3. flow[f] \in Visit /\ flow[f].at = "begun" /\ UNCHANGED <<identity, users, session, cookie, signing, left>>
  BY <1>0 DEF SessionsTyped, Authenticate
<1>4. /\ v \in Visit /\ v.at = "authenticated" /\ v.browser = flow[f].browser /\ v.subject = s
      /\ v.challenge = flow[f].challenge /\ v.after = flow[f].after
      /\ v.resumed = how
  BY <1>2, <1>3, <1>15 DEF Visit, Afters
<1>5. flow' = [flow EXCEPT ![f] = v]
  BY <1>0, <1>1, <1>2, <1>3, <1>15 DEF SessionsTyped, Visit
<1>6. flow' \in [Flows -> Visit] /\ flow'[f] = v /\ \A g \in Flows \ {f} : flow'[g] = flow[g]
  BY <1>0, <1>4, <1>5 DEF SessionsTyped
<1>7. SessionsTyped' BY <1>0, <1>3, <1>6 DEF SessionsTyped
<1>8. VisitsKnown' BY <1>0, <1>3, <1>4, <1>6 DEF VisitsKnown
<1>9. SigningsKnown' BY <1>0, <1>3 DEF SigningsKnown
<1>10. StatesKnown'
  <2>1. SUFFICES ASSUME NEW c \in Browsers, cookie[c].state # Nobody
                 PROVE  /\ flow'[cookie[c].state].at # "unused"
                        /\ flow'[cookie[c].state].at # "used" => flow'[cookie[c].state].browser = c
    BY <1>3 DEF StatesKnown
  <2>2. cookie[c].state \in Flows BY <1>0, <2>1 DEF SessionsTyped, Cookie
  <2>3. CASE cookie[c].state = f BY <1>0, <1>3, <1>4, <1>6, <2>1, <2>3 DEF StatesKnown
  <2>4. CASE cookie[c].state # f BY <1>0, <1>6, <2>1, <2>2, <2>4 DEF StatesKnown
  <2>5. QED BY <2>3, <2>4
<1>11. RowsTyped' /\ UsersOwn' /\ CookiesOwn' BY <1>3 DEF SessionInv, RowsTyped, UsersOwn, CookiesOwn
<1>12. v.resumed # "out" /\ (v.after = "out" => v.challenge) BY <1>0, <1>1, <1>4, <1>15 DEF ForcedOut
<1>13. ForcedOut' BY <1>0, <1>3, <1>6, <1>12 DEF ForcedOut
<1>14. QED BY <1>7, <1>8, <1>9, <1>10, <1>11, <1>13 DEF SessionInv

LEMMA SignOuts ==
  ASSUME NobodyApart, SessionInv, NEW b \in Browsers, Logout(b) \/ CookiesExpire(b)
  PROVE  SessionInv'
<1>0. SessionsTyped /\ CookiesOwn /\ ForcedOut BY DEF SessionInv
<1>1. CASE Logout(b)
  <2>1. cookie[b].session \in DOMAIN session BY <1>0, <1>1 DEF Logout, CookiesOwn
  <2>2. PICK ended \in SUBSET DOMAIN session : ended = {cookie[b].session} BY <2>1
  <2>3. session' = [i \in DOMAIN session |->
                      IF i \in ended THEN [session[i] EXCEPT !.live = FALSE] ELSE session[i]]
    <3>1. session' = [session EXCEPT ![cookie[b].session].live = FALSE] BY <1>1 DEF Logout
    <3>2. session = [i \in DOMAIN session |-> session[i]] BY RowsFunction
    <3>3. QED BY <2>1, <2>2, <3>1, <3>2
  <2>4. PICK k : k = [cookie[b] EXCEPT !.session = Nobody, !.force = TRUE] OBVIOUS
  <2>5. k \in Cookie /\ k.session = Nobody /\ k.state = cookie[b].state /\ k.force = TRUE
    BY <1>0, <2>4 DEF SessionsTyped, Cookie
  <2>6. cookie' = [cookie EXCEPT ![b] = k]
    BY <1>0, <1>1, <2>4 DEF Logout, SignedOut, SessionsTyped, Cookie
  <2>7. Earlier(b) /\ signing' = [q \in Signings |-> Overtaken(q, b)] /\ UNCHANGED <<identity, users>> /\ "out" \in Afters
    BY <1>1 DEF Logout, Afters
  <2>8. /\ left' = [left EXCEPT ![b] = "out"]
        /\ flow' \in [Flows -> Visit] /\ \A f \in Flows : SameVisit(flow[f], flow'[f])
    BY <2>7, OvertakenFacts
  <2>9. /\ signing' \in [Signings -> SigningIn]
        /\ \A q \in Signings : signing'[q] = Resting \/ SameSigning(signing[q], signing'[q])
    BY <2>7, OvertakenFacts
  <2>10. k.session \in {cookie[b].session, Nobody} /\ k.state \in {cookie[b].state, Nobody} /\ UNCHANGED <<identity, users>>
    BY <2>5, <2>7
  <2>11. QED BY <2>3, <2>5, <2>6, <2>7, <2>8, <2>9, <2>10, BrowserMoves
<1>2. CASE CookiesExpire(b)
  <2>1. PICK k : k = [Clean EXCEPT !.session = cookie[b].session] OBVIOUS
  <2>2. k \in Cookie /\ k.session = cookie[b].session /\ k.state = Nobody
    BY <1>0, <2>1 DEF SessionsTyped, Cookie, Clean
  <2>3. PICK l \in Afters : l = (IF left[b] = "out" THEN "forced" ELSE left[b])
    BY <1>0 DEF SessionsTyped, Afters
  <2>4. /\ cookie' = [cookie EXCEPT ![b] = k] /\ left' = [left EXCEPT ![b] = l]
        /\ UNCHANGED <<identity, users, session, flow, signing>>
    BY <1>2, <2>1, <2>3 DEF CookiesExpire
  <2>5. session' = [i \in DOMAIN session |->
                      IF i \in {} THEN [session[i] EXCEPT !.live = FALSE] ELSE session[i]]
    BY <2>4, RowsFunction
  <2>6. {} \in SUBSET DOMAIN session /\ l # "out" BY <2>3
  <2>7. QED BY <2>2, <2>4, <2>5, <2>6, CookieMoves
<1>3. QED BY <1>1, <1>2

LEMMA SessionsEnd ==
  ASSUME NobodyApart, SessionInv, NEW j \in DOMAIN session, EndSession(j)
  PROVE  SessionInv'
<1>1. UNCHANGED <<identity, users, cookie, flow, signing, left>> BY DEF EndSession
<1>2. session = [i \in DOMAIN session |-> session[i]] BY RowsFunction
<1>3. PICK ended \in SUBSET DOMAIN session :
        session' = [i \in DOMAIN session |->
                      IF i \in ended THEN [session[i] EXCEPT !.live = FALSE] ELSE session[i]]
  <2>1. CASE session' = [session EXCEPT ![j].live = FALSE]
    <3>1. PICK ended \in SUBSET DOMAIN session : ended = {j} OBVIOUS
    <3>2. session' = [i \in DOMAIN session |->
                      IF i \in ended THEN [session[i] EXCEPT !.live = FALSE] ELSE session[i]]
      BY <1>2, <2>1, <3>1
    <3>3. QED BY <3>2
  <2>2. CASE session' = [i \in DOMAIN session |-> IF session[i].user = session[j].user
                          THEN [session[i] EXCEPT !.live = FALSE] ELSE session[i]]
    <3>1. PICK ended \in SUBSET DOMAIN session : ended = {i \in DOMAIN session : session[i].user = session[j].user}
      OBVIOUS
    <3>2. session' = [i \in DOMAIN session |->
                      IF i \in ended THEN [session[i] EXCEPT !.live = FALSE] ELSE session[i]]
      BY <2>2, <3>1
    <3>3. QED BY <3>2
  <2>3. QED BY <2>1, <2>2 DEF EndSession
<1>4. RowsTyped' /\ CookiesOwn' /\ UsersOwn' /\ \A i \in DOMAIN session' : session'[i].resumed # "out"
  BY <1>1, <1>3, EndsKeep
<1>5. SessionsTyped' /\ VisitsKnown' /\ SigningsKnown' /\ StatesKnown'
  BY <1>1 DEF SessionInv, SessionsTyped, VisitsKnown, SigningsKnown, StatesKnown
<1>6. ForcedOut' BY <1>1, <1>4 DEF SessionInv, ForcedOut
<1>7. QED BY <1>4, <1>5, <1>6 DEF SessionInv

LEMMA InitSessions == ASSUME NobodyApart PROVE SessionInit => SessionInv
<1> SUFFICES ASSUME SessionInit PROVE SessionInv
  OBVIOUS
<1>1. Clean \in Cookie /\ Clean.state = Nobody /\ Clean.session = Nobody BY DEF Clean, Cookie
<1>2. Unused \in Visit /\ Unused.at = "unused" /\ Unused.after = "no" /\ Unused.resumed = "no"
  BY DEF Unused, Visit, Afters
<1>3. Resting \in SigningIn /\ Resting.at = "idle" /\ Resting.resumed = "no"
  BY DEF Resting, SigningIn, Afters
<1>4. SessionsTyped BY <1>1, <1>2, <1>3 DEF SessionInit, SessionsTyped, Afters
<1>5. VisitsKnown /\ SigningsKnown /\ StatesKnown
  BY <1>1, <1>2, <1>3 DEF SessionInit, VisitsKnown, SigningsKnown, StatesKnown
<1>6. RowsTyped /\ DOMAIN session = {} BY EmptySeq DEF SessionInit, RowsTyped
<1>7. CookiesOwn /\ UsersOwn BY <1>1, <1>6 DEF SessionInit, CookiesOwn, UsersOwn
<1>8. ForcedOut BY <1>2, <1>3, <1>6 DEF SessionInit, ForcedOut
<1>9. QED BY <1>4, <1>5, <1>6, <1>7, <1>8 DEF SessionInv

LEMMA StepSessions == ASSUME NobodyApart, SessionInv, [SessionNext]_sessionVars PROVE SessionInv'
<1>1. CASE UNCHANGED <<identity, users, session, cookie, flow, signing, left>>
  BY <1>1 DEF SessionInv, SessionsTyped, RowsTyped, VisitsKnown, SigningsKnown, StatesKnown, CookiesOwn, UsersOwn, ForcedOut
<1>2. CASE \E s \in Subjects : RequestPasswordReset(s) BY <1>1, <1>2 DEF RequestPasswordReset
<1>3. CASE UNCHANGED sessionVars BY <1>1, <1>3 DEF sessionVars
<1>4. QED
  BY <1>2, <1>3, SignIns, Callbacks, Revokes, Establishes, Creates, Logins, Authentications, SignOuts, SessionsEnd
  DEF SessionNext

\* A browser is signed in as who authenticated in it, one user stands for one account however many
\* first logins run in parallel, and after a sign-out nobody is signed in again without credentials
\* unless a forced login was left unfinished, ten minutes passed, or the login is one begun before
\* that sign-out (api/auth.py, identity/auth.py).
THEOREM SessionsHoldAlways == ASSUME NobodyApart PROVE SessionSpec => []SessionsHold
<1>1. SessionInv => SessionsHold
  <2> SUFFICES ASSUME SessionInv PROVE SessionsHold
    OBVIOUS
  <2>1. LoginBound BY DEF SessionInv, CookiesOwn, LoginBound
  <2>2. ResumedOnlyIfForced BY DEF SessionInv, ForcedOut, ResumedOnlyIfForced
  <2>3. OneUserPerSubject
    <3>1. \A i \in DOMAIN session : session[i].subject \in Subjects
      BY RowsFacts DEF SessionInv, SessionRow
    <3>2. QED BY <3>1 DEF SessionInv, UsersOwn, OneUserPerSubject
  <2>4. QED BY <2>1, <2>2, <2>3 DEF SessionsHold
<1>2. QED BY <1>1, InitSessions, StepSessions, PTL DEF SessionSpec
=============================================================================
