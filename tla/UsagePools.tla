----------------------------- MODULE UsagePools -----------------------------
(***************************************************************************)
(* What an organisation may use (audit_usage/service.py, and its callers    *)
(* in ingestion/service.py and knowledge/questions.py): the pools of the    *)
(* month, one record each, and the documents it may keep active.  Folder    *)
(* jobs index batches and people ask questions at the same time, each in a  *)
(* transaction of its own; record and organisation are locked row by row,   *)
(* and the database aborts one of two transactions that wait for each       *)
(* other.                                                                   *)
(***************************************************************************)
EXTENDS Naturals, FiniteSets

CONSTANTS
    Jobs, Questions,
    Docs,           \* Docs[j]: the documents of the folder of job j
    Limits,         \* what the pool of a metric may be
    Cap,            \* active documents of the plan
    Organization,   \* the organisation's row
    None

VARIABLES
    onTrial,    \* the organisation is in its trial, which spans two months
    limit,      \* of every pool
    before,     \* what the trial used of each pool last month
    used,       \* used[m]: the record of metric m, or None
    active,     \* documents indexed, as committed
    lock,       \* lock[row]: the transaction that holds it
    work,       \* the transaction of each actor
    drawn       \* drawn[m]: what committed transactions used of metric m this month
usageVars == <<onTrial, limit, before, used, active, lock, work, drawn>>

Actors == Jobs \cup Questions
Metrics == {"processed_bytes", "embedding_tokens", "ocr_pages", "questions"}
Rows == Metrics \cup {Organization}
Nothing == [m \in Metrics |-> 0]
Idle == [at |-> "idle", left |-> {}, doc |-> None, ocr |-> FALSE, metric |-> None, seen |-> 0,
         add |-> Nothing, indexed |-> {}]

\* The mark of nothing is no actor and no quantity; a limit lets at least one unit through.
UsageAssumption ==
    /\ None \notin Nat \cup Actors \cup Metrics
    /\ Organization \notin Metrics
    /\ Limits \subseteq Nat \ {0}
    /\ Cap \in Nat

UsageInit ==
    /\ onTrial \in BOOLEAN /\ limit \in Limits
    /\ before \in [Metrics -> {0}] \cup {[m \in Metrics |-> limit - 1]} /\ (~onTrial => before = Nothing)
    /\ used = [m \in Metrics |-> None] /\ active = {}
    /\ lock = [r \in Rows |-> None] /\ work = [a \in Actors |-> Idle] /\ drawn = Nothing

-----------------------------------------------------------------------------
(* A pool.                                                                 *)

Quantity(m) == IF used[m] = None THEN 0 ELSE used[m]

\* A 14-day trial may span two calendar months.
Carryover(m) == IF onTrial THEN before[m] ELSE 0

AlwaysAvailable(a, r) == TRUE

Available(a, r) == lock[r] \in {None, a}

Release(a) == [r \in Rows |-> IF lock[r] = a THEN None ELSE lock[r]]

Rollback(a) ==
    /\ work' = [work EXCEPT ![a] = Idle] /\ lock' = Release(a)
    /\ UNCHANGED <<used, active, drawn>>

\* A pool that is exhausted rolls the transaction back, but for OCR: the document fails alone.
Exceeded(a, next) ==
    IF work[a].metric = "ocr_pages"
    THEN /\ work' = [work EXCEPT ![a] = [@ EXCEPT !.at = next, !.metric = None, !.doc = None, !.ocr = FALSE,
                                                 !.left = work[a].left \ {work[a].doc}]]
         /\ UNCHANGED <<lock, used, active, drawn>>
    ELSE Rollback(a)

After(a) == IF work[a].metric = "ocr_pages" THEN "document" ELSE IF work[a].metric = "questions" THEN "retrieve"
            ELSE IF work[a].metric = "processed_bytes" THEN "batch" ELSE "answered"

Recorded(a) ==
    LET m == work[a].metric
        more == [work[a].add EXCEPT ![m] = @ + 1] IN
    work' = [work EXCEPT ![a] = [@ EXCEPT !.at = After(a), !.add = more, !.metric = None, !.seen = 0]]

\* The record, when there is one, is locked and read; when there is none nothing is.
Check(a) ==
    LET m == work[a].metric
        mine == lock[m] = a
        current == Quantity(m) + (IF mine THEN work[a].add[m] ELSE 0) + Carryover(m)
    IN
    /\ work[a].at = "check" /\ (used[m] # None => Available(a, m))
    /\ IF current + 1 > limit THEN Exceeded(a, IF a \in Jobs THEN "batch" ELSE "idle")
       ELSE IF used[m] # None \/ mine
       THEN /\ lock' = [lock EXCEPT ![m] = a] /\ Recorded(a)
            /\ UNCHANGED <<used, active, drawn>>
       ELSE /\ work' = [work EXCEPT ![a].at = "insert"]
            /\ UNCHANGED <<lock, used, active, drawn>>

\* The first record of a month: another transaction may be inserting it, or have done so.
Insert(a) ==
    LET m == work[a].metric IN
    /\ work[a].at = "insert" /\ Available(a, m)
    /\ IF used[m] # None /\ used[m] + 1 > limit THEN Exceeded(a, IF a \in Jobs THEN "batch" ELSE "idle")
       ELSE /\ lock' = [lock EXCEPT ![m] = a] /\ Recorded(a)
            /\ UNCHANGED <<used, active, drawn>>

Wants(a, metric) == work' = [work EXCEPT ![a] = [@ EXCEPT !.at = "check", !.metric = metric]]

-----------------------------------------------------------------------------
(* A batch of a folder job.                                                *)

StartBatch(j) ==
    /\ work[j] = Idle
    /\ \E batch \in SUBSET Docs[j] \ {{}} : work' = [work EXCEPT ![j] = [Idle EXCEPT !.at = "batch", !.left = batch]]
    /\ UNCHANGED <<lock, used, active, drawn>>

\* The next document: read by OCR or not.
NextDocument(j) ==
    /\ work[j].at = "batch"
    /\ \E d \in work[j].left, ocr \in BOOLEAN :
        work' = [work EXCEPT ![j] = [@ EXCEPT !.at = IF ocr THEN "check" ELSE "document", !.doc = d, !.ocr = ocr,
                                              !.metric = IF ocr THEN "ocr_pages" ELSE None]]
    /\ UNCHANGED <<lock, used, active, drawn>>

\* A document that is not active needs room: the organisation's row is locked, then counted.
Capacity(j) ==
    LET d == work[j].doc
        left == work[j].left \ {d}
        indexed == active \cup work[j].indexed IN
    /\ work[j].at = "document"
    /\ IF d \in indexed
       THEN /\ work' = [work EXCEPT ![j] = [@ EXCEPT !.at = "check", !.metric = "processed_bytes", !.left = left]]
            /\ UNCHANGED <<lock, used, active, drawn>>
       ELSE /\ Available(j, Organization)
            /\ IF Cardinality(indexed) >= Cap THEN Rollback(j)
               ELSE /\ work' = [work EXCEPT ![j] = [@ EXCEPT !.at = "check", !.metric = "processed_bytes",
                                                           !.left = left, !.indexed = work[j].indexed \cup {d}]]
                    /\ lock' = [lock EXCEPT ![Organization] = j]
                    /\ UNCHANGED <<used, active, drawn>>

\* After its documents, the batch is embedded.
Embed(j) ==
    /\ work[j].at = "batch" /\ work[j].left = {} /\ Wants(j, "embedding_tokens")
    /\ UNCHANGED <<lock, used, active, drawn>>

-----------------------------------------------------------------------------
(* A question.                                                             *)

Ask(q) ==
    /\ work[q] = Idle /\ Wants(q, "questions")
    /\ UNCHANGED <<lock, used, active, drawn>>

\* The question is embedded, or answered without.
Retrieve(q) ==
    /\ work[q].at = "retrieve"
    /\ Wants(q, "embedding_tokens") \/ work' = [work EXCEPT ![q].at = "answered"]
    /\ UNCHANGED <<lock, used, active, drawn>>

-----------------------------------------------------------------------------

CommitUsage(a) ==
    /\ work[a].at = "answered"
    /\ used' = [m \in Metrics |-> IF lock[m] = a THEN Quantity(m) + work[a].add[m] ELSE used[m]]
    /\ drawn' = [m \in Metrics |-> drawn[m] + work[a].add[m]]
    /\ active' = active \cup work[a].indexed
    /\ lock' = Release(a) /\ work' = [work EXCEPT ![a] = Idle]

\* A provider fails, a worker dies, or the database ends a deadlock.
Fail(a) == work[a] # Idle /\ Rollback(a)

\* A document leaves the index by a removal of another transaction.
Remove(d) ==
    /\ d \in active /\ active' = active \ {d}
    /\ \A j \in Jobs : d \in Docs[j] => work[j] = Idle
    /\ UNCHANGED <<lock, used, work, drawn>>

UsageNext ==
    /\ \/ \E a \in Actors : Check(a) \/ Insert(a) \/ CommitUsage(a) \/ Fail(a)
       \/ \E j \in Jobs : StartBatch(j) \/ NextDocument(j) \/ Capacity(j) \/ Embed(j)
       \/ \E q \in Questions : Ask(q) \/ Retrieve(q)
       \/ \E d \in UNION {Docs[j] : j \in Jobs} : Remove(d)
    /\ UNCHANGED <<onTrial, limit, before>>

UsageSpec == UsageInit /\ [][UsageNext]_usageVars

-----------------------------------------------------------------------------
(* Properties.                                                             *)

\* The record of a pool is what was used of it, no update lost and no failed transaction counted,
\* and it stays within the limit of the month (audit_usage/service.py:88-121).
PoolsHold == \A m \in Metrics : Quantity(m) = drawn[m] /\ drawn[m] <= limit

\* Jobs of several folders together never index more documents than the plan allows, counting
\* only what is committed and their own (ingestion/service.py:1008-1027).
ActiveWithinCap == Cardinality(active) <= Cap

\* The limits of the plan: pools and active documents.
LimitsHold == PoolsHold /\ ActiveWithinCap
=============================================================================
