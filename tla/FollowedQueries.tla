---------------------------- MODULE FollowedQueries ----------------------------
(***************************************************************************)
(* Followed questions of a folder (notifications/followed.py): the worker  *)
(* that finished a synchronisation asks them again if something was        *)
(* indexed since they were last asked.                                     *)
(*                                                                         *)
(* One folder and one owner.  A run's job has ended before its questions   *)
(* are asked, so that the next run may begin and refreshes overlap.        *)
(* Questions were saved before the first run.  Left out are the answers    *)
(* themselves and what the owner is told of them, and the provider's own   *)
(* times of files, which are older than their indexing.                    *)
(***************************************************************************)
EXTENDS Naturals, FiniteSets, Sequences

CONSTANTS
  Queries,    \* saved queries, in the order they are asked
  Workers,
  MaxTime,
  None

Names == {Queries[n] : n \in 1..Len(Queries)}

ASSUME FollowAssumption ==
  /\ Queries \in Seq(Names) /\ MaxTime \in Nat
  /\ None \notin [checked : Nat, asked : Nat]

VARIABLES
  now,
  revision,   \* changes of the folder indexed so far
  stamp,      \* the newest indexed_at
  query,      \* query -> [followed, checked, asked]; asked is the revision it was asked about
  access,     \* the owner reads the folder
  refresh,    \* worker -> its run and the questions after it
  crossed,    \* queries last answered by a refresh that another run of the folder overlapped
  missed      \* a refresh that went well left a query behind

followVars == <<now, revision, stamp, query, access, refresh, crossed, missed>>

Nothing == [q \in Names |-> None]
Unchecked == [q \in Names |-> 0]

\* stamp and brought: when the run began to index, and the revision it left.  chosen: who is
\* owed an answer.  since: when each was checked, as read with them.  seen: the revision asked
\* about.  alone: no other run of the folder began or went on meanwhile.
Rest == [step |-> "idle", stamp |-> 0, brought |-> 0, chosen |-> {}, todo |-> {}, since |-> Unchecked,
         seen |-> 0, staged |-> Nothing, alone |-> TRUE]

\* The query whose turn it is, and those after it; todo holds places in Queries.
Place(w) == CHOOSE n \in refresh[w].todo : \A m \in refresh[w].todo : n <= m
Turn(w) == Queries[Place(w)]
Later(w) == refresh[w].todo \ {Place(w)}

-----------------------------------------------------------------------------
(* A run                                                                   *)

Busy(v) == refresh[v].step # "idle"

\* apply_reconciliation takes indexed_at when it begins; one run of a folder indexes at
\* a time.
BeginRun(w) ==
  /\ ~Busy(w) /\ now < MaxTime
  /\ \A v \in Workers : refresh[v].step # "indexing"
  /\ now' = now + 1
  /\ refresh' = [v \in Workers |->
       IF v = w THEN [Rest EXCEPT !.step = "indexing", !.stamp = now + 1, !.alone = \A u \in Workers : ~Busy(u)]
       ELSE [refresh[v] EXCEPT !.alone = ~Busy(v)]]
  /\ UNCHANGED <<revision, stamp, query, access, crossed, missed>>

\* The last commit of a run that found something new, or nothing.
CommitRun(w) ==
  /\ refresh[w].step = "indexing"
  /\ \/ revision' = revision + 1 /\ stamp' = refresh[w].stamp
     \/ UNCHANGED <<revision, stamp>>
  /\ refresh' = [refresh EXCEPT ![w].step = "loading", ![w].stamp = 0, ![w].brought = revision']
  /\ UNCHANGED <<now, query, access, crossed, missed>>

-----------------------------------------------------------------------------
(* refresh_followed_queries                                                *)

\* The owner's access is read once, and the rows of the queries.
Load(w) ==
  /\ refresh[w].step = "loading"
  /\ LET followed(q) == access /\ query[q].followed IN
     refresh' = [refresh EXCEPT ![w].step = "next", ![w].todo = {n \in 1..Len(Queries) : followed(Queries[n])},
                                ![w].chosen = {q \in Names : followed(q)},
                                ![w].since = [q \in Names |-> IF followed(q) THEN query[q].checked ELSE 0]]
  /\ UNCHANGED <<now, revision, stamp, query, access, crossed, missed>>

\* _has_changes
HasChanges(w) == stamp > refresh[w].since[Turn(w)]

Skip(w) ==
  /\ refresh[w].step = "next" /\ refresh[w].todo # {}
  /\ ~HasChanges(w)
  /\ refresh' = [refresh EXCEPT ![w].todo = Later(w)]
  /\ UNCHANGED <<now, revision, stamp, query, access, crossed, missed>>

\* The question's passages are read; access may be refused by now.
Retrieve(w) ==
  /\ refresh[w].step = "next" /\ refresh[w].todo # {}
  /\ HasChanges(w)
  /\ refresh' = IF access THEN [refresh EXCEPT ![w].step = "asking", ![w].seen = revision]
             ELSE [refresh EXCEPT ![w].todo = Later(w)]
  /\ UNCHANGED <<now, revision, stamp, query, access, crossed, missed>>

\* The answer comes; a question that finds none is checked all the same.
AnswerComes(w) ==
  /\ refresh[w].step = "asking" /\ now < MaxTime
  /\ now' = now + 1
  /\ refresh' = [refresh EXCEPT ![w].step = "next", ![w].todo = Later(w), ![w].seen = 0,
                          ![w].staged[Turn(w)] = [checked |-> now + 1, asked |-> refresh[w].seen]]
  /\ UNCHANGED <<revision, stamp, query, access, crossed, missed>>

\* Mutant of Stopped: a question that was refused counts as checked.
StoppedChecked(w) ==
  [refresh[w].staged EXCEPT ![Turn(w)] = [checked |-> now + 1, asked |-> query[Turn(w)].asked]]

\* The refused question's savepoint is rolled back, those before it stand.
Stopped(w) == refresh[w].staged

\* The quota is reached, or the provider does not answer: the rest waits.
Stop(w) ==
  /\ refresh[w].step = "asking"
  /\ refresh' = [refresh EXCEPT ![w].step = "stopped", ![w].todo = {}, ![w].chosen = {},
                          ![w].since = Unchecked, ![w].seen = 0, ![w].staged = Stopped(w)]
  /\ UNCHANGED <<now, revision, stamp, query, access, crossed, missed>>

\* The columns that were set, whatever the rest of the row became meanwhile.
Written(w) ==
  [q \in Names |-> IF refresh[w].staged[q] = None THEN query[q]
                   ELSE [query[q] EXCEPT !.checked = refresh[w].staged[q].checked, !.asked = refresh[w].staged[q].asked]]

AnsweredBy(w) == {q \in Names : refresh[w].staged[q] # None}

\* One commit for all of them.  missed records whether a query that was followed
\* and is was left without what the run brought, although nothing failed and no
\* refresh that another run overlapped was the last to answer it.
End(w) ==
  /\ refresh[w].todo = {} /\ refresh[w].step \in {"next", "stopped"}
  /\ query' = Written(w)
  /\ crossed' = IF refresh[w].alone THEN crossed \ AnsweredBy(w) ELSE crossed \cup AnsweredBy(w)
  /\ missed' = (missed \/ (refresh[w].step = "next"
                           /\ \E q \in refresh[w].chosen \ crossed' : query'[q].asked < refresh[w].brought))
  /\ refresh' = [refresh EXCEPT ![w] = Rest]
  /\ UNCHANGED <<now, revision, stamp, access>>

\* Anything else that goes wrong, or a lost worker, undoes it; the run stands.
UndoRefresh(w) ==
  /\ refresh[w].step \in {"loading", "next", "asking"}
  /\ refresh' = [refresh EXCEPT ![w] = Rest]
  /\ UNCHANGED <<now, revision, stamp, query, access, crossed, missed>>

-----------------------------------------------------------------------------
(* The owner                                                               *)

\* set_followed; what was known of a query is forgotten with it.
Follow(q) ==
  /\ ~query[q].followed /\ access
  /\ query' = [query EXCEPT ![q].followed = TRUE]
  /\ UNCHANGED <<now, revision, stamp, access, refresh, crossed, missed>>

Forgotten(q) == [query[q] EXCEPT !.followed = FALSE, !.checked = 0]

\* Nobody owes the query an answer now; a refresh that has it goes on with it.
Released(qs) == [w \in Workers |-> [refresh[w] EXCEPT !.chosen = @ \ qs]]

Unfollow(q) ==
  /\ query[q].followed
  /\ query' = [query EXCEPT ![q] = Forgotten(q)]
  /\ refresh' = Released({q})
  /\ UNCHANGED <<now, revision, stamp, access, crossed, missed>>

\* clear_followed_state_for_lost_access
LoseAccess ==
  /\ access
  /\ access' = FALSE
  /\ query' = [q \in Names |-> Forgotten(q)]
  /\ refresh' = Released(Names)
  /\ UNCHANGED <<now, revision, stamp, crossed, missed>>

RegainAccess ==
  /\ ~access
  /\ access' = TRUE
  /\ UNCHANGED <<now, revision, stamp, query, refresh, crossed, missed>>

FollowInit ==
  /\ now = 0 /\ revision = 0 /\ stamp = 0 /\ access = TRUE /\ crossed = {} /\ missed = FALSE
  /\ query = [q \in Names |-> [followed |-> FALSE, checked |-> 0, asked |-> 0]]
  /\ refresh = [w \in Workers |-> Rest]

FollowNext ==
  \/ \E w \in Workers : BeginRun(w) \/ CommitRun(w) \/ Load(w) \/ Skip(w) \/ Retrieve(w)
                        \/ AnswerComes(w) \/ Stop(w) \/ End(w) \/ UndoRefresh(w)
  \/ \E q \in Names : Follow(q) \/ Unfollow(q)
  \/ LoseAccess \/ RegainAccess

FollowSpec == FollowInit /\ [][FollowNext]_followVars

-----------------------------------------------------------------------------
(* Properties                                                              *)

\* Once a run's refresh ended and nothing failed in it, every query that was and is
\* followed was asked about what the run indexed, even if refreshes before it were
\* stopped, refused or undone.  The exception: a query last answered by a refresh that
\* another run of the folder overlapped, until a refresh that none overlaps asks it
\* again.  Such an answer may be of before the other run's commit and bear a later time.
ChangeIsReasked == ~missed
=============================================================================
