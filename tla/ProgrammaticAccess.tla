-------------------------- MODULE ProgrammaticAccess --------------------------
(***************************************************************************)
(* Programs that read the library for a person: keys of the public API,    *)
(* which an administrator creates for some nodes, and the binding of a     *)
(* person's MCP client.  A call knows its credential, then selects what    *)
(* the credential reaches, then reads; each step is a query of its own and *)
(* sees what was committed before it.                                      *)
(*                                                                         *)
(* A binding is replaced by reading the active row, revoking it and        *)
(* inserting another; a unique index admits one active row of a person.    *)
(***************************************************************************)
EXTENDS LibraryViews

CONSTANTS
  Keys, Bindings,  \* rows that may be written
  Confinements,    \* sets of nodes a credential may be confined to; {} is no confinement
  Asked,           \* sets of nodes a call may ask for
  Narrowings,      \* sets of spaces a call may narrow itself to
  Slots,           \* requests that enable MCP at once
  MaxChanges,      \* changes of rights, catalog and credentials in a behaviour
  Unused, Closed, NoCall

\* What a row may be confined to is told from a row not written and from one closed.
ASSUME AccessAssumption ==
  {Unused, Closed} \cap Confinements = {} /\ Unused # Closed

VARIABLES
  active,    \* the person's membership is active
  apiOn,     \* the organisation's switch of the public API
  mcpOn,     \* and of MCP
  key,       \* key -> Unused, Closed or the nodes it is confined to
  bound,     \* binding -> Unused, Closed or the nodes
  enabling,  \* slot -> NoCall or [nodes, previous]
  call,      \* NoCall or [step, nodes, spaces, sel, docs]
  changes,   \* changes so far
  unbound    \* history: the person or a lost feature took the last binding away, or none was made

accessVars == <<active, apiOn, mcpOn, key, bound, enabling, call, changes, unbound>>
allVars == <<libraryVars, accessVars>>

-----------------------------------------------------------------------------
(* Administration                                                          *)

Changes == changes < MaxChanges /\ changes' = changes + 1

Open(rows, c) == rows[c] \notin {Unused, Closed}

CreateKey(k, ns) ==
  /\ Changes /\ active /\ admin
  /\ key[k] = Unused /\ \A n \in ns : There(n)
  /\ key' = [key EXCEPT ![k] = ns]
  /\ UNCHANGED <<libraryVars, active, apiOn, mcpOn, bound, enabling, call, unbound>>

RevokeKey(k) ==
  /\ Changes /\ Open(key, k)
  /\ key' = [key EXCEPT ![k] = Closed]
  /\ UNCHANGED <<libraryVars, active, apiOn, mcpOn, bound, enabling, call, unbound>>

SwitchApi ==
  /\ Changes /\ active /\ admin
  /\ apiOn' = ~apiOn
  /\ UNCHANGED <<libraryVars, active, mcpOn, key, bound, enabling, call, unbound>>

SwitchMcp ==
  /\ Changes /\ active /\ admin
  /\ mcpOn' = ~mcpOn
  /\ UNCHANGED <<libraryVars, active, apiOn, key, bound, enabling, call, unbound>>

\* The person leaves the organisation, or is back.
ChangeMembership ==
  /\ Changes
  /\ active' = ~active
  /\ UNCHANGED <<libraryVars, apiOn, mcpOn, key, bound, enabling, call, unbound>>

\* Rights, catalog and documents change under the calls.
World ==
  /\ Changes /\ LibraryNext
  /\ UNCHANGED <<active, apiOn, mcpOn, key, bound, enabling, call, unbound>>

-----------------------------------------------------------------------------
(* The binding of a client                                                 *)

EnableReads(q, ns) ==
  /\ Changes /\ enabling[q] = NoCall /\ active /\ mcpOn /\ \A n \in ns : There(n)
  /\ \E prev \in {b \in Bindings : Open(bound, b)} \cup {Unused} :
       /\ prev = Unused => \A b \in Bindings : ~Open(bound, b)
       /\ enabling' = [enabling EXCEPT ![q] = [nodes |-> ns, previous |-> prev]]
  /\ UNCHANGED <<libraryVars, active, apiOn, mcpOn, key, bound, call, unbound>>

\* Rows of the binding table once the request has revoked what it read.
Revoked(q) ==
  [b \in Bindings |-> IF b = enabling[q].previous THEN Closed ELSE bound[b]]

\* uq_mcp_connections_active_user
Vacant(rows) == \A b \in Bindings : ~Open(rows, b)

\* A request that the index refuses is rolled back.
EnableWrites(q) ==
  /\ enabling[q] # NoCall
  /\ \E b \in Bindings :
       /\ bound[b] = Unused
       /\ bound' = IF Vacant(Revoked(q)) THEN [Revoked(q) EXCEPT ![b] = enabling[q].nodes] ELSE bound
  /\ enabling' = [enabling EXCEPT ![q] = NoCall]
  /\ unbound' = FALSE
  /\ UNCHANGED <<libraryVars, active, apiOn, mcpOn, key, call, changes>>

RevokeBinding(b) ==
  /\ Changes /\ active /\ Open(bound, b)
  /\ bound' = [bound EXCEPT ![b] = Closed] /\ unbound' = TRUE
  /\ UNCHANGED <<libraryVars, active, apiOn, mcpOn, key, enabling, call>>

-----------------------------------------------------------------------------
(* A call                                                                  *)

Known(ns, S) == [step |-> "known", nodes |-> ns, spaces |-> S, sel |-> Every, docs |-> {}]

\* ApiKeyAuthenticator: the key acts for its creator, who still administers.
WithKey(k, S) ==
  /\ call = NoCall /\ Open(key, k) /\ apiOn /\ active /\ admin
  /\ S = Spaces \/ S \subseteq member
  /\ call' = Known(key[k], S)
  /\ UNCHANGED <<libraryVars, active, apiOn, mcpOn, key, bound, enabling, changes, unbound>>

\* McpPrincipalResolver: any active member.
WithBinding(b, S) ==
  /\ call = NoCall /\ Open(bound, b) /\ mcpOn /\ active
  /\ S = Spaces \/ S \subseteq member
  /\ call' = Known(bound[b], S)
  /\ UNCHANGED <<libraryVars, active, apiOn, mcpOn, key, bound, enabling, changes, unbound>>

\* The scope of the key, its rate or the organisation's, a limiter that is down.
Refused ==
  /\ call # NoCall
  /\ call' = NoCall
  /\ UNCHANGED <<libraryVars, active, apiOn, mcpOn, key, bound, enabling, changes, unbound>>

\* authorize_mentions: every root is there to be seen, and what is wanted for is below one.
Inside(ns, wanted, S) ==
  /\ ns \cup wanted \subseteq Found(S)
  /\ \A n \in wanted : ns = {} \/ Chain[n] \cap ns # {}

\* ScopedAccess.selection: node by node; a node without anything to select is left out.
Reached(ns, wanted, S) ==
  LET ms == IF wanted = {} THEN ns ELSE wanted
      taken == {n \in ms : Accepted(S, n)}
  IN  IF Eligible(S) = {} \/ (ms # {} /\ taken = {}) THEN [folders |-> {}, docs |-> {}]
      ELSE Selection(S, taken)

Select(wanted) ==
  /\ call # NoCall /\ call.step = "known"
  /\ call' = IF active /\ Inside(call.nodes, wanted, call.spaces)
             THEN [call EXCEPT !.step = "selected", !.sel = Reached(call.nodes, wanted, call.spaces)]
             ELSE NoCall
  /\ UNCHANGED <<libraryVars, active, apiOn, mcpOn, key, bound, enabling, changes, unbound>>

\* Mutant of AnswerOf: the rights are those the selection was made with.
AnswerOfSelection(sel, S) ==
  {d \in Indexed : d[1] \in sel.folders /\ (sel.docs = Every \/ d \in sel.docs)}

\* search and fetch: within the selection, what the person reads by now.
AnswerOf(sel, S) == Hits(S, sel)

Read ==
  /\ call # NoCall /\ call.step = "selected"
  /\ call' = IF active
             THEN [call EXCEPT !.step = "read", !.docs = AnswerOf(call.sel, call.spaces)]
             ELSE NoCall
  /\ UNCHANGED <<libraryVars, active, apiOn, mcpOn, key, bound, enabling, changes, unbound>>

AccessInit ==
  /\ active = TRUE /\ apiOn = FALSE /\ mcpOn = FALSE
  /\ key = [k \in Keys |-> Unused] /\ bound = [b \in Bindings |-> Unused]
  /\ enabling = [q \in Slots |-> NoCall] /\ call = NoCall
  /\ changes = 0 /\ unbound = TRUE

AccessNext ==
  \/ \E k \in Keys : (\E ns \in Confinements : CreateKey(k, ns)) \/ RevokeKey(k)
  \/ SwitchApi \/ SwitchMcp \/ ChangeMembership \/ World
  \/ \E q \in Slots : (\E ns \in Confinements : EnableReads(q, ns)) \/ EnableWrites(q)
  \/ \E b \in Bindings : RevokeBinding(b)
  \/ \E S \in Narrowings : (\E k \in Keys : WithKey(k, S)) \/ (\E b \in Bindings : WithBinding(b, S))
  \/ \E wanted \in Asked : Select(wanted)
  \/ Read \/ Refused

AccessSpec == LibraryInit /\ AccessInit /\ [][AccessNext]_allVars

-----------------------------------------------------------------------------
(* Properties                                                              *)

\* What a credential selects lies below its nodes and within the rights of its person at that moment;
\* what it is answered, whatever was revoked since the selection, is within the rights at the moment
\* of the reading.
CredentialWithinPerson ==
  [][call # NoCall /\ call' # NoCall =>
       /\ call'.step = "selected" /\ call.step = "known" =>
            \A d \in Hits(call.spaces, call'.sel) : call.nodes = {} \/ d[2] \in Under(call.nodes)
       /\ call'.step = "read" /\ call.step = "selected" =>
            active /\ call'.docs \subseteq Readable(call.spaces) \cap Indexed]_allVars

\* Once a person has enabled the client, and until it is revoked, exactly one binding is active: of two
\* requests at once one wins, and the other leaves the winner's binding as it is.
OneBinding == unbound \/ \E b \in Bindings : \A c \in Bindings : Open(bound, c) <=> c = b

\* The views agree with each other, and a person has one binding at most.
ViewsAgree == FoundIsBrowsed /\ SuggestionsHold /\ SealsGrant /\ ListedIsDescribed /\ OneBinding
=============================================================================
