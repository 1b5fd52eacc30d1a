---------------------------- MODULE Connections ----------------------------
(***************************************************************************)
(* The OAuth connections of one organisation's sources of one provider     *)
(* (integrations/oauth_base.py, google_drive.py, onedrive.py, notion.py,   *)
(* clickup.py, api/integrations.py).  A connection is begun, granted at    *)
(* the provider and completed by a callback; sources are disconnected; and *)
(* listings, synchronisations and openings of files use a source's         *)
(* credentials and write back what they learnt.  All of them run in        *)
(* parallel: each reads a source, calls the provider, and then updates the *)
(* columns it changed of the row it read.                                  *)
(***************************************************************************)
EXTENDS Naturals, Sequences

CONSTANTS
    Providers, Microsoft, Google,
    Flows,      \* OAuth states
    Callbacks, Disconnects, Readers, \* requests and tasks
    Accounts, MaxSources, None

\* The marker for nothing is no account, source or state.
AccountsApart == None \notin Accounts /\ None \notin Nat /\ None \notin Flows

VARIABLES
    provider,
    sources,    \* in order of creation: [status, credentials, account, cursor]
    first,      \* first[s]: the account source s was created for
    flow,       \* flow[f]: "unused", "valid" or "consumed", and the source it names
    session, admin, \* the session that begins connections is live, its user administrates
    callback, disconnect, reader,
    completed,  \* completed[f]: callbacks that connected a source with f
    outdated    \* flows naming a source that was disconnected before they completed
requests == <<callback, disconnect, reader>>
connectionVars == <<provider, sources, first, flow, session, admin, requests, completed, outdated>>

AtRest == [at |-> "idle", id |-> None, kind |-> "none", account |-> None, read |-> None]
Source(account) == [status |-> "connected", credentials |-> account, account |-> account, cursor |-> None]

ConnectionInit ==
    /\ provider \in Providers
    /\ \E account \in Accounts : sources = <<Source(account)>> /\ first = <<account>>
    /\ flow = [f \in Flows |-> [state |-> "unused", source |-> None]]
    /\ session = TRUE /\ admin = TRUE
    /\ callback = [c \in Callbacks |-> AtRest]
    /\ disconnect = [d \in Disconnects |-> AtRest]
    /\ reader = [r \in Readers |-> AtRest]
    /\ completed = [f \in Flows |-> 0] /\ outdated = {}

\* An update writes the columns that differ from what was read.
Merge(now, read, new) ==
    [column \in DOMAIN now |-> IF new[column] = read[column] THEN now[column] ELSE new[column]]

-----------------------------------------------------------------------------
(* Connecting.                                                             *)

\* begin(): for a new connection or to renew the source named.
Begin(f, s) ==
    /\ flow[f].state = "unused" /\ session /\ admin
    /\ flow' = [flow EXCEPT ![f] = [state |-> "valid", source |-> s]]
    /\ UNCHANGED <<provider, sources, first, session, admin, requests, completed, outdated>>

\* A state's row is locked by the callback at work on it.
Locked(f) == \E c \in Callbacks : callback[c].id = f

Free(f) == ~Locked(f)

FindValidState(f) == flow[f].state = "valid" /\ session /\ Free(f)

\* The callback finds its state and exchanges the code; a failed exchange consumes nothing.
Receive(c, f) ==
    /\ callback[c] = AtRest /\ FindValidState(f) /\ admin
    /\ \E account \in Accounts :
        callback' = [callback EXCEPT ![c] = [AtRest EXCEPT !.at = "load", !.id = f, !.account = account]]
    /\ UNCHANGED <<provider, sources, first, flow, session, admin, disconnect, reader, completed, outdated>>

Cancel(f) ==
    /\ FindValidState(f) /\ admin
    /\ flow' = [flow EXCEPT ![f].state = "consumed"]
    /\ UNCHANGED <<provider, sources, first, session, admin, requests, completed, outdated>>

\* The source to renew: the one named; else Google makes a new one, the others take the newest.
Target(f) ==
    IF flow[f].source # None THEN flow[f].source
    ELSE IF provider = Google \/ sources = <<>> THEN None
    ELSE Len(sources)

MismatchIfConnected(read, account) ==
    provider \in Microsoft /\ read.credentials # None /\ read.account # account

\* A Microsoft source keeps the drive it was bound to.
Mismatch(read, account) ==
    provider \in Microsoft /\ read.account # None /\ read.account # account

Load(c) ==
    LET s == Target(callback[c].id) IN
    /\ callback[c].at = "load"
    /\ callback' = [callback EXCEPT ![c].at = "write",
            ![c].read = IF s = None THEN None ELSE [id |-> s, row |-> sources[s]]]
    /\ UNCHANGED <<provider, sources, first, flow, session, admin, disconnect, reader, completed, outdated>>

\* Cursors: Microsoft takes new ones after every renewal, Google when both accounts are
\* known and differ, the others keep theirs.
Renewed(read, account) ==
    [Source(account) EXCEPT !.cursor =
        IF \/ provider \in Microsoft
           \/ provider = Google /\ read.account \notin {None, account}
        THEN None ELSE read.cursor]

Complete(c) ==
    LET f == callback[c].id
        read == callback[c].read
        account == callback[c].account
        new == Append(sources, Source(account)) IN
    /\ callback[c].at = "write"
    /\ callback' = [callback EXCEPT ![c] = AtRest]
    /\ IF read = None /\ Len(sources) >= MaxSources
       THEN UNCHANGED <<sources, first, flow, completed>>
       ELSE /\ flow' = [flow EXCEPT ![f].state = "consumed"]
            /\ IF read = None
               THEN /\ sources' = new /\ first' = Append(first, account)
                    /\ completed' = [completed EXCEPT ![f] = @ + 1]
               ELSE IF Mismatch(read.row, account)
               THEN UNCHANGED <<sources, first, completed>>
               ELSE /\ sources' = [sources EXCEPT ![read.id] = Merge(@, read.row, Renewed(read.row, account))]
                    /\ completed' = [completed EXCEPT ![f] = @ + 1]
                    /\ UNCHANGED first
    /\ UNCHANGED <<provider, session, admin, disconnect, reader, outdated>>

\* The exchange failed, or the worker died: the transaction is rolled back.
Withdraw(c) ==
    /\ callback[c] # AtRest
    /\ callback' = [callback EXCEPT ![c] = AtRest]
    /\ UNCHANGED <<provider, sources, first, flow, session, admin, disconnect, reader, completed, outdated>>

-----------------------------------------------------------------------------
(* Disconnecting.                                                          *)

\* The source is read; Google's token is then revoked, a call of up to ten seconds.
StartDisconnect(d, s) ==
    /\ disconnect[d] = AtRest /\ admin /\ s \in DOMAIN sources
    /\ sources[s].status # "disconnected"
    /\ disconnect' = [disconnect EXCEPT ![d] = [AtRest EXCEPT !.at = "write", !.id = s, !.read = sources[s]]]
    /\ UNCHANGED <<provider, sources, first, flow, session, admin, callback, reader, completed, outdated>>

Awaited(s) == {f \in Flows : flow[f].source = s /\ flow[f].state = "valid"}

Disconnected(read) ==
    [status |-> "disconnected", credentials |-> None,
     account |-> IF provider \in Microsoft THEN read.account ELSE None,
     cursor |-> IF provider \in Microsoft THEN None ELSE read.cursor]

Consumed(s) ==
    [f \in Flows |-> IF f \in Awaited(s) THEN [flow[f] EXCEPT !.state = "consumed"] ELSE flow[f]]

\* The connections begun for the source are consumed, once no callback holds one of them.
FinishDisconnect(d) ==
    LET s == disconnect[d].id IN
    /\ disconnect[d].at = "write" /\ \A f \in Awaited(s) : Free(f)
    /\ flow' = Consumed(s)
    /\ sources' = [sources EXCEPT ![s] = Merge(@, disconnect[d].read, Disconnected(disconnect[d].read))]
    /\ outdated' = outdated \cup Awaited(s)
    /\ disconnect' = [disconnect EXCEPT ![d] = AtRest]
    /\ UNCHANGED <<provider, first, session, admin, callback, reader, completed>>

-----------------------------------------------------------------------------
(* Using a source.                                                         *)

Read(r, s, kind) ==
    /\ reader[r] = AtRest /\ s \in DOMAIN sources
    /\ sources[s].status = "connected" /\ sources[s].credentials # None
    /\ reader' = [reader EXCEPT ![r] = [AtRest EXCEPT !.at = "write", !.id = s, !.kind = kind, !.read = sources[s]]]
    /\ UNCHANGED <<provider, sources, first, flow, session, admin, callback, disconnect, completed, outdated>>

\* What was learnt is written to the row as it was read.
Write(r, new) ==
    /\ sources' = [sources EXCEPT ![reader[r].id] = Merge(@, reader[r].read, new)]
    /\ reader' = [reader EXCEPT ![r] = AtRest]
    /\ UNCHANGED <<provider, first, flow, session, admin, callback, disconnect, completed, outdated>>

\* A renewed token is another value even for the same account: it is written whatever the row holds.
Renew(r) ==
    /\ sources' = [sources EXCEPT ![reader[r].id].credentials = reader[r].read.credentials]
    /\ reader' = [reader EXCEPT ![r] = AtRest]
    /\ UNCHANGED <<provider, first, flow, session, admin, callback, disconnect, completed, outdated>>

ListFolders(r) ==
    /\ reader[r].at = "write" /\ reader[r].kind = "list"
    /\ \/ Write(r, [reader[r].read EXCEPT !.status = "reauth_required"])
       \/ provider \in Microsoft /\ Renew(r)
       \/ Write(r, reader[r].read)

Synchronise(r) ==
    /\ reader[r].at = "write" /\ reader[r].kind = "sync"
    /\ \/ Write(r, [reader[r].read EXCEPT !.status = "reauth_required"])
       \/ Write(r, [reader[r].read EXCEPT !.cursor = reader[r].read.credentials])
       \/ provider \in Microsoft \cup {Google} /\ Renew(r)

OpenFile(r) ==
    /\ reader[r].at = "write" /\ reader[r].kind = "open"
    /\ \/ provider \in Microsoft /\ Renew(r)
       \/ Write(r, reader[r].read)

-----------------------------------------------------------------------------
(* People and time.                                                        *)

Lapse(f) ==
    /\ flow[f].state = "valid" /\ Free(f)
    /\ flow' = [flow EXCEPT ![f].state = "consumed"]
    /\ UNCHANGED <<provider, sources, first, session, admin, requests, completed, outdated>>

SignOut ==
    /\ session /\ session' = FALSE
    /\ UNCHANGED <<provider, sources, first, flow, admin, requests, completed, outdated>>

Demote ==
    /\ admin /\ admin' = FALSE
    /\ UNCHANGED <<provider, sources, first, flow, session, requests, completed, outdated>>

ConnectionNext ==
    \/ \E f \in Flows, s \in {None} \cup DOMAIN sources : Begin(f, s)
    \/ \E f \in Flows : Cancel(f) \/ Lapse(f)
    \/ \E c \in Callbacks : (\E f \in Flows : Receive(c, f)) \/ Load(c) \/ Complete(c) \/ Withdraw(c)
    \/ \E d \in Disconnects : (\E s \in DOMAIN sources : StartDisconnect(d, s)) \/ FinishDisconnect(d)
    \/ \E r \in Readers :
        \/ \E s \in DOMAIN sources, kind \in {"list", "sync", "open"} : Read(r, s, kind)
        \/ ListFolders(r) \/ Synchronise(r) \/ OpenFile(r)
    \/ SignOut \/ Demote

ConnectionSpec == ConnectionInit /\ [][ConnectionNext]_connectionVars

-----------------------------------------------------------------------------
(* Properties.                                                             *)

\* All that a Microsoft source holds, credentials and cursor, is of the drive it was created
\* for, through disconnections, renewals by other accounts and late writers (onedrive.py:693-707).
DriveBound ==
    provider \in Microsoft =>
        \A s \in DOMAIN sources :
            {sources[s].account, sources[s].credentials, sources[s].cursor} \subseteq {None, first[s]}

\* A renewal begun before its source was disconnected never connects it again
\* (oauth_base.py:120-127), even when the callback is at work as the source is disconnected.
DisconnectStands == \A f \in outdated : completed[f] = 0

\* A connection is of one account, and its disconnections stand.
ConnectionsKept == DriveBound /\ DisconnectStands
=============================================================================
