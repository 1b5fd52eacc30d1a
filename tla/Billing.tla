-------------------------------- MODULE Billing --------------------------------
(***************************************************************************)
(* The subscription of one organisation: the provider's subscriptions, the *)
(* events it sends about them, the webhook that mirrors them locally, the  *)
(* operations an owner asks for, and the entitlement that is read from the *)
(* mirror, the courtesy plan, the trial and the legacy mark.               *)
(*                                                                         *)
(* A webhook reads the subscription from the provider, looks for its row,  *)
(* waits for the organisation's lock and applies the event in one commit:  *)
(* two steps here.  The provider delivers an event again until a handler   *)
(* answers.  Seats, prices, discounts, the end of a period and the grace   *)
(* of a late payment are part of a subscription's version number.          *)
(***************************************************************************)
EXTENDS Integers, FiniteSets, Sequences

CONSTANTS
  Subs,         \* subscriptions the provider may hold for the organisation
  Handlers,     \* webhook requests under way at once
  MaxEvents,    \* events the provider sends
  NoSub, Free

Types == {"personal", "business"}
Statuses == {"incomplete", "active", "past_due", "canceled"}

ASSUME BillingAssumption ==
  /\ MaxEvents \in Nat
  /\ NoSub \notin [status : Statuses, plan : Types, v : 0..MaxEvents]

VARIABLES
  truth,        \* subscription -> what the provider has, or NoSub
  events,       \* events sent: [n, sub, kind, at]
  clock,        \* the provider's second
  open,         \* subscription -> plan of its open checkout, "no" without one
  row,          \* subscription -> its local row, or NoSub
  last,         \* subscription -> last_event_at of its row
  order,        \* subscriptions in the order their rows were made
  done,         \* events in the ledger
  handler,      \* handler -> [event, copy, known] or Free
  account,      \* Organization.account_type
  mark,         \* Organization.entitlement_source
  trial,        \* the organisation's trial: none, running, over
  comp,         \* plan type of the live courtesy plan, "none" without one
  missed,       \* history: rows that lost news to a payment event or to equal seconds
  paid          \* history: subscriptions that have been active

stripeVars == <<truth, events, clock, open>>
mirrorVars == <<row, last, order, done, missed>>
orgVars == <<account, mark, trial, comp>>
vars == <<stripeVars, mirrorVars, handler, orgVars, paid>>

-----------------------------------------------------------------------------
(* Entitlements                                                            *)

\* current_subscription: the newest row that has not ended.
Current(r, o) ==
  LET live == {i \in 1..Len(o) : r[o[i]].status # "canceled"} IN
  IF live = {} THEN NoSub ELSE r[o[CHOOSE i \in live : \A j \in live : j <= i]]

\* Mutant of Grants: an unpaid first invoice already grants.
GrantsUnpaid(sub) == TRUE

\* _subscription_access: an incomplete subscription grants nothing.
Grants(sub) == sub.status \in {"active", "past_due"}

\* resolve_entitlement: comp > subscription > trial > legacy > expired, each for the
\* organisation's own type of account.
Resolve(acct, mk, tr, cp, r, o) ==
  LET sub == Current(r, o) IN
  IF cp = acct THEN "comp"
  ELSE IF sub # NoSub /\ sub.plan = acct /\ Grants(sub) THEN "subscription"
  ELSE IF tr = "running" THEN "trial"
  ELSE IF mk = "legacy" THEN "legacy"
  ELSE "expired"

\* project: the legacy mark is an input, which only a purchase clears.
Projected(old, source) == IF old = "legacy" /\ source # "subscription" THEN old ELSE source

Source == Resolve(account, mark, trial, comp, row, order)

Refresh(acct, cp, r, o) ==
  /\ account' = acct
  /\ comp' = cp
  /\ mark' = Projected(mark, Resolve(acct, mark, trial, cp, r, o))
  /\ UNCHANGED trial

-----------------------------------------------------------------------------
(* The provider                                                            *)

Sent == Cardinality(events)

\* An event of the change, in this second or the next, and one of an invoice with it.
Send(s, kinds) ==
  /\ Sent + Len(kinds) <= MaxEvents
  /\ \E at \in [1..Len(kinds) -> {clock, clock + 1}] :
       /\ \A i, j \in 1..Len(kinds) : i <= j => at[i] <= at[j]
       /\ clock' = at[Len(kinds)]
       /\ events' = events \cup
            {[n |-> Sent + i, sub |-> s, kind |-> kinds[i], at |-> at[i]] : i \in 1..Len(kinds)}

\* The subscription becomes another, and the provider says so.
Becomes(s, status, plan, kinds) ==
  /\ truth' = [truth EXCEPT ![s] = [status |-> status, plan |-> plan, v |-> Sent + 1]]
  /\ paid' = IF status = "active" THEN paid \cup {s} ELSE paid
  /\ Send(s, kinds)

\* The customer finishes a checkout: paid at once, or by a method that pays later.
Complete(s) ==
  /\ open[s] # "no"
  /\ \E status \in {"active", "incomplete"} : Becomes(s, status, open[s], <<"upsert">>)
  /\ open' = [open EXCEPT ![s] = "no"]
  /\ UNCHANGED <<mirrorVars, handler, orgVars>>

\* Payments, and what ends a subscription.
ProviderChanges(s) ==
  /\ truth[s] # NoSub
  /\ \/ truth[s].status = "incomplete" /\ Becomes(s, "active", truth[s].plan, <<"upsert">>)
     \/ truth[s].status = "active"
        /\ Becomes(s, "past_due", truth[s].plan, <<"upsert", "failed">>)
     \/ truth[s].status = "past_due"
        /\ Becomes(s, "active", truth[s].plan, <<"upsert", "paid">>)
     \/ truth[s].status # "canceled" /\ Becomes(s, "canceled", truth[s].plan, <<"cancel">>)
  /\ UNCHANGED <<open, mirrorVars, handler, orgVars>>

-----------------------------------------------------------------------------
(* Webhooks                                                                *)

\* parse_webhook fetches the subscription, then its row is looked for.
Receive(h, e) ==
  /\ handler[h] = Free
  /\ handler' = [handler EXCEPT ![h] =
       [event |-> e, copy |-> truth[e.sub], known |-> row[e.sub] # NoSub]]
  /\ UNCHANGED <<stripeVars, mirrorVars, orgVars, paid>>

\* Mutant of Stale: the order of events is not looked at.
StaleNever(s, at) == FALSE

\* _stale: older than the last event applied, by strict comparison.
Stale(s, at) == at < last[s]

Duplicate(e) == e.n \in done

\* A payment changes the status alone.
AfterPayment(sub, kind) ==
  [sub EXCEPT !.status = IF kind = "failed" /\ @ = "active" THEN "past_due"
                         ELSE IF kind = "paid" /\ @ = "past_due" THEN "active" ELSE @]

\* _copy: the provider's subscription as the handler read it.
AfterCopy(sub, kind) == [sub EXCEPT !.status = IF kind = "cancel" THEN "canceled" ELSE @]

\* The account type a live subscription decides.
TypeAfter(sub) == IF sub.status \in {"canceled", "incomplete"} THEN account ELSE sub.plan

\* One row for a subscription, made by the first event that names it.
Ordered(s) == IF row[s] = NoSub THEN Append(order, s) ELSE order

\* The row is written: the second and kind of its event, and what it leaves missed.
Write(s, sub, e, kind) ==
  LET o == Ordered(s) IN
  /\ row' = [row EXCEPT ![s] = sub]
  /\ order' = o
  /\ last' = [last EXCEPT ![s] = e.at]
  /\ missed' = IF e.at = last[s] /\ sub # truth[s] THEN missed \cup {s}
               ELSE IF kind = "copy" THEN missed \ {s} ELSE missed
  /\ Refresh(TypeAfter(sub), comp, row', o)

Ignore(s, wasNews) ==
  /\ missed' = IF wasNews /\ row[s] # truth[s] THEN missed \cup {s} ELSE missed
  /\ UNCHANGED <<row, last, order, orgVars>>

\* apply_event, under the organisation's lock; the row was looked for at any time before.
Apply(h) ==
  LET e == handler[h].event
      s == e.sub IN
  /\ handler[h] # Free /\ ~Duplicate(e)
  /\ done' = done \cup {e.n}
  /\ handler' = [handler EXCEPT ![h] = Free]
  /\ \E known \in {handler[h].known, row[s] # NoSub} :
       IF e.kind \in {"failed", "paid"}
       THEN IF ~known \/ Stale(s, e.at) THEN Ignore(s, FALSE)
            ELSE Write(s, AfterPayment(row[s], e.kind), e, "payment")
       ELSE IF known /\ Stale(s, e.at) THEN Ignore(s, TRUE)
            ELSE /\ known = (row[s] # NoSub)
                 /\ Write(s, AfterCopy(handler[h].copy, e.kind), e, "copy")
  /\ UNCHANGED <<stripeVars, paid>>

\* A duplicate, a row two first events both insert, or a failure: nothing is kept.
Drop(h) ==
  /\ handler[h] # Free
  /\ handler' = [handler EXCEPT ![h] = Free]
  /\ UNCHANGED <<stripeVars, mirrorVars, orgVars, paid>>

-----------------------------------------------------------------------------
(* The owner and the staff                                                 *)

\* checkout: refused while a subscription that would be billed twice is mirrored.
Checkout(s) ==
  LET sub == Current(row, order) IN
  /\ truth[s] = NoSub /\ open[s] = "no"
  /\ sub # NoSub => sub.status \notin {"active", "past_due"}
  /\ open' = [open EXCEPT ![s] = account]
  /\ UNCHANGED <<truth, events, clock, mirrorVars, handler, orgVars, paid>>

\* The provider takes a change of the current subscription and the row follows, unless
\* the transaction is lost after the provider's answer.
Changed(plan, acct) ==
  LET s == CHOOSE x \in Subs : row[x] = Current(row, order) IN
  /\ truth[s].status \in {"active", "past_due"}
  /\ Becomes(s, truth[s].status, plan, <<"upsert">>)
  /\ \/ /\ row' = [row EXCEPT ![s].plan = plan, ![s].v = Sent + 1]
        /\ Refresh(acct, comp, row', order)
     \/ UNCHANGED <<row, orgVars>>
  /\ UNCHANGED <<open, last, order, done, missed, handler>>

\* change_plan: another plan of the same type.
ChangePlan ==
  /\ Current(row, order) # NoSub
  /\ Changed(account, account)

\* cancel at the end of the period: access is read again, nothing is projected.
Cancel ==
  /\ Current(row, order) # NoSub
  /\ LET s == CHOOSE x \in Subs : row[x] = Current(row, order) IN
     /\ truth[s].status \in {"active", "past_due"}
     /\ Becomes(s, truth[s].status, truth[s].plan, <<"upsert">>)
     /\ row' = [row EXCEPT ![s].v = Sent + 1] \/ UNCHANGED row
  /\ UNCHANGED <<open, last, order, done, missed, handler, orgVars>>

\* upgrade_to_business and downgrade_to_personal.
ChangeAccount(acct) ==
  LET sub == Current(row, order) IN
  /\ account # acct
  /\ acct = "business" => comp # "personal"
  /\ IF sub # NoSub /\ sub.status \in {"active", "past_due"}
     THEN Changed(acct, acct)
     ELSE /\ Refresh(acct, comp, row, order)
          /\ UNCHANGED <<stripeVars, mirrorVars, handler, paid>>

\* CompService: granted, replaced, revoked or expired.
ChangeComp ==
  /\ \E cp \in {"none", account} :
       /\ cp # comp
       /\ \/ Refresh(account, cp, row, order)
          \/ cp = "none" /\ comp' = "none" /\ UNCHANGED <<account, mark, trial>>
  /\ UNCHANGED <<stripeVars, mirrorVars, handler, paid>>

TrialEnds ==
  /\ trial = "running" /\ trial' = "over"
  /\ UNCHANGED <<stripeVars, mirrorVars, handler, account, mark, comp, paid>>

-----------------------------------------------------------------------------
Init ==
  /\ truth = [s \in Subs |-> NoSub] /\ row = truth
  /\ events = {} /\ clock = 1 /\ done = {}
  /\ open = [s \in Subs |-> "no"]
  /\ last = [s \in Subs |-> 0]
  /\ order = <<>>
  /\ handler = [h \in Handlers |-> Free]
  /\ account \in Types
  /\ \/ mark = "legacy" /\ trial = "none"
     \/ mark = "trial" /\ trial = "running"
     \/ mark = "expired" /\ trial = "over"
  /\ comp = "none"
  /\ missed = {} /\ paid = {}

Next ==
  \/ \E s \in Subs : Complete(s) \/ ProviderChanges(s) \/ Checkout(s)
  \/ \E h \in Handlers : Apply(h) \/ Drop(h) \/ \E e \in events : Receive(h, e)
  \/ ChangePlan \/ Cancel \/ ChangeComp \/ TrialEnds
  \/ \E acct \in Types : ChangeAccount(acct)

Spec == Init /\ [][Next]_vars

-----------------------------------------------------------------------------
(* Properties                                                              *)

SubRow == [status : Statuses, plan : Types, v : 0..MaxEvents]

\* Rows, ledger and marks keep values the code can store, and every row has its place.
TypeOK ==
  /\ truth \in [Subs -> SubRow \cup {NoSub}] /\ row \in [Subs -> SubRow \cup {NoSub}]
  /\ events \subseteq [n : 1..MaxEvents, sub : Subs, kind : {"upsert", "cancel", "failed", "paid"},
                       at : 1..(MaxEvents + 1)]
  /\ done \subseteq {e.n : e \in events}
  /\ {order[i] : i \in 1..Len(order)} = {s \in Subs : row[s] # NoSub}
  /\ Len(order) = Cardinality({s \in Subs : row[s] # NoSub})
  /\ account \in Types /\ comp \in Types \cup {"none"} /\ trial \in {"none", "running", "over"}
  /\ mark \in {"legacy", "trial", "subscription", "comp", "expired"}
  /\ missed \subseteq Subs /\ paid \subseteq Subs

\* Nothing of the subscription is under way: every event of it is in the ledger and no
\* handler holds one that may still be applied.
Quiet(s) == \A e \in events : e.sub = s => e.n \in done

\* Whatever order, number of times and handlers the events of a subscription come in,
\* its row ends as the subscription is at the provider, unless a payment event of a later
\* second or an event of the same second took its place (apply_event, _stale).
Mirror == INSTANCE SubscriptionMirror WITH
  Value <- SubRow \cup {NoSub}, Absent <- NoSub,
  copy <- row, settled <- {s \in Subs : Quiet(s) /\ s \notin missed}

MirrorImplemented == Mirror!Spec

\* Once its cancellation was applied, a subscription is not brought back by any event
\* that comes late, only by one of the very same second (_stale).
NeverRevived ==
  [][\A s \in Subs, e \in events :
       e.kind = "cancel" /\ e.sub = s /\ e.n \in done =>
         \/ row[s] = NoSub \/ row[s].status # "canceled" \/ row'[s].status = "canceled"
         \/ \E f \in events : f.sub = s /\ f.at = last[s] /\ f.n \in done' \ done]_vars

\* Access is granted by a subscription only after the provider had it paid.
GrantedOnlyIfPaid ==
  Source = "subscription" => \E s \in paid : row[s] = Current(row, order)

\* An organisation that predates plans keeps what it had through courtesy plans, changes
\* of account and unpaid checkouts, until it buys one.
LegacyKept == trial = "none" /\ paid = {} => mark = "legacy"

\* What grants access: a subscription that was paid, or what the organisation had.
EntitlementKept == GrantedOnlyIfPaid /\ LegacyKept
=============================================================================
