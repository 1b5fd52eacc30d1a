---------------------------- MODULE TaskCreation ----------------------------
(***************************************************************************)
(* A ClickUp task made from a stored answer (integrations/                 *)
(* clickup_tasks.py, api/clickup_tasks.py): the only write the program     *)
(* makes outside its database.  A ledger row per idempotency key is        *)
(* committed as pending, the task is POSTed once, and the row is settled;  *)
(* requests run in parallel, a worker may die between any two steps, and   *)
(* an answer of ClickUp may be lost after the task was made.               *)
(***************************************************************************)
EXTENDS Naturals, FiniteSets

CONSTANTS
    Requests, Keys, Messages,
    Author,     \* Author[m]: the user whose conversation holds the answer m
    Lists,      \* lists of ClickUp; the other nodes are the spaces and folders above them
    Parent,     \* Parent[n]: the node above n in the catalogue, Account above all
    Account,
    Everything, \* the selection of all that is accessible
    PerMinute,  \* CREATIONS_PER_MINUTE
    NoRow

VARIABLES
    status,     \* of the ClickUp source
    chosen,     \* what the administrators selected of it
    visible,    \* answers their authors still see
    request,    \* request[r]: where it is, its key, its message and the POST's outcome
    ledger,     \* ledger[k]: the ledger's row of key k
    minute,     \* the authors of the rows created in the last minute, by key
    tasks,      \* tasks[k]: tasks in ClickUp made by requests of key k
    refused     \* keys an attempt of which ClickUp is known to have refused
taskVars == <<status, chosen, visible, request, ledger, minute, tasks, refused>>

Users == {Author[m] : m \in Messages}
Refusals == {"reauth_required", "list_unavailable", "rate_limited", "rejected"}
Fresh == [at |-> "unsent", key |-> NoRow, message |-> NoRow, outcome |-> "none"]
Row(user, m, state, error) == [user |-> user, message |-> m, status |-> state, error |-> error]

TaskInit ==
    /\ status = "connected" /\ visible = Messages
    /\ chosen \in {{Everything}} \cup {{n} : n \in DOMAIN Parent}
    /\ request = [r \in Requests |-> Fresh]
    /\ ledger = [k \in Keys |-> NoRow] /\ minute = {}
    /\ tasks = [k \in Keys |-> 0] /\ refused = {}

-----------------------------------------------------------------------------
(* What a request may do.                                                  *)

\* A node with all that is above it.
Ancestors(n) ==
    LET up[m \in DOMAIN Parent \cup {Account}] == IF m = Account THEN {} ELSE {m} \cup up[Parent[m]]
    IN  up[n]

\* Lists selected, directly or by a space or folder above them.
SelectedLists == {l \in Lists : Everything \in chosen \/ Ancestors(l) \cap chosen # {}}

OwnAnswer(user, m) == Author[m] = user /\ m \in visible

RateLimited(user) == Cardinality({k \in Keys : <<user, k>> \in minute}) >= PerMinute

ReplayUnknown(found, user, m) ==
    IF found.user # user \/ found.message # m THEN "clash"
    ELSE IF found.status = "created" THEN "done"
    ELSE IF found.status = "pending" THEN "conflict"
    ELSE "retry"

\* What a request finds under its key: "retry" for none of the refusals.
Replay(found, user, m) ==
    IF found.user # user \/ found.message # m THEN "clash"
    ELSE IF found.status = "created" THEN "done"
    ELSE IF found.status = "pending" \/ found.error = "outcome_unknown" THEN "conflict"
    ELSE "retry"

End(r) == [request EXCEPT ![r] = [Fresh EXCEPT !.at = "ended"]]

-----------------------------------------------------------------------------
(* create(), in the steps its two commits and its POST make.               *)

\* The source, the list and the key are read; nothing is locked.
Begin(r) ==
    /\ request[r].at = "unsent"
    /\ \E user \in Users, m \in Messages, k \in Keys, l \in Lists :
        /\ OwnAnswer(user, m)
        /\ IF \/ status # "connected" \/ l \notin SelectedLists
              \/ ledger[k] # NoRow /\ Replay(ledger[k], user, m) # "retry"
              \/ ledger[k] = NoRow /\ RateLimited(user)
           THEN request' = End(r)
           ELSE request' = [request EXCEPT ![r] =
                    [at |-> IF ledger[k] = NoRow THEN "insert" ELSE "update",
                     key |-> k, message |-> m, outcome |-> "none"]]
    /\ UNCHANGED <<status, chosen, visible, ledger, minute, tasks, refused>>

\* The row is pending for good: a new one unless its key was taken meanwhile, in which
\* case the row found decides and nothing is sent; an old one whatever it became.
Commit(r) ==
    LET k == request[r].key
        m == request[r].message
        pending == Row(Author[m], m, "pending", "none") IN
    /\ request[r].at \in {"insert", "update"}
    /\ IF request[r].at = "insert" /\ ledger[k] # NoRow
       THEN request' = End(r) /\ UNCHANGED <<ledger, minute>>
       ELSE /\ ledger' = [ledger EXCEPT ![k] = pending]
            /\ minute' = IF request[r].at = "insert" THEN minute \cup {<<Author[m], k>>} ELSE minute
            /\ request' = [request EXCEPT ![r].at = "send"]
    /\ UNCHANGED <<status, chosen, visible, tasks, refused>>

\* One POST.  A timeout, a server error or an unreadable answer leaves the task made or not.
Post(r) ==
    /\ request[r].at = "send"
    /\ \E outcome \in {"created", "outcome_unknown"} \cup Refusals :
        /\ request' = [request EXCEPT ![r] = [@ EXCEPT !.at = "settle", !.outcome = outcome]]
        /\ \E made \in IF outcome = "created" THEN {1} ELSE IF outcome \in Refusals THEN {0} ELSE {0, 1} :
            tasks' = [tasks EXCEPT ![request[r].key] = @ + made]
        /\ refused' = IF outcome \in Refusals THEN refused \cup {request[r].key} ELSE refused
    /\ UNCHANGED <<status, chosen, visible, ledger, minute>>

\* The row says what is known; a token ClickUp no longer takes marks the source.
Settle(r) ==
    LET q == request[r] IN
    /\ q.at = "settle"
    /\ ledger' = [ledger EXCEPT ![q.key] =
            IF q.outcome = "created" THEN Row(@.user, @.message, "created", "none")
            ELSE Row(@.user, @.message, "failed", q.outcome)]
    /\ status' = IF q.outcome = "reauth_required" THEN "reauth_required" ELSE status
    /\ request' = End(r)
    /\ UNCHANGED <<chosen, visible, minute, tasks, refused>>

\* The worker dies, before or after the POST; the row stays as it was committed.
Crash(r) ==
    /\ request[r].at \in {"insert", "update", "send", "settle"}
    /\ request' = End(r)
    /\ UNCHANGED <<status, chosen, visible, ledger, minute, tasks, refused>>

-----------------------------------------------------------------------------
(* Around it.                                                              *)

\* The form reads the members and statuses of a list: the token may be found refused.
ListOptions(user, m, l) ==
    /\ OwnAnswer(user, m) /\ status = "connected" /\ l \in SelectedLists
    /\ status' = "reauth_required"
    /\ UNCHANGED <<chosen, visible, request, ledger, minute, tasks, refused>>

Reconnect ==
    /\ status # "connected" /\ status' = "connected"
    /\ UNCHANGED <<chosen, visible, request, ledger, minute, tasks, refused>>

Select(n) ==
    /\ chosen' = {n} /\ chosen' # chosen
    /\ UNCHANGED <<status, visible, request, ledger, minute, tasks, refused>>

Hide(m) ==
    /\ m \in visible /\ visible' = visible \ {m}
    /\ UNCHANGED <<status, chosen, request, ledger, minute, tasks, refused>>

MinutePasses ==
    /\ minute # {} /\ minute' = {}
    /\ UNCHANGED <<status, chosen, visible, request, ledger, tasks, refused>>

TaskNext ==
    \/ \E r \in Requests : Begin(r) \/ Commit(r) \/ Post(r) \/ Settle(r) \/ Crash(r)
    \/ \E user \in Users, m \in Messages, l \in Lists : ListOptions(user, m, l)
    \/ Reconnect
    \/ \E n \in DOMAIN Parent : Select(n)
    \/ \E m \in Messages : Hide(m)
    \/ MinutePasses

TaskSpec == TaskInit /\ [][TaskNext]_taskVars

\* The ledger's rows, and the assumption that the mark of a key without a row is none of them.
LedgerRows == [user : Users, message : Messages, status : {"pending", "created", "failed"},
         error : {"none", "outcome_unknown"} \cup Refusals]
TaskAssumption == NoRow \notin LedgerRows

-----------------------------------------------------------------------------
(* Properties.                                                             *)

\* Two tasks of one key come only after ClickUp was known to refuse one of its attempts:
\* the unique row, its pending state and the unknown outcome block every other second POST
\* (clickup_tasks.py:311-333), whatever crashed, was lost or ran in parallel.
SecondTaskOnlyAfterRefusal == \A k \in Keys : tasks[k] > 1 => k \in refused
=============================================================================
