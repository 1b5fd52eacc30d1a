-------------------------- MODULE SubscriptionMirror --------------------------
(***************************************************************************)
(* What the billing mirror promises of each subscription: while news of it *)
(* is under way the local copy may be anything, and once none is left the  *)
(* copy is the provider's subscription, and stays so until that changes.   *)
(***************************************************************************)
CONSTANTS
  Subs,       \* subscriptions
  Value,      \* what one can be, at the provider or in the copy
  Absent      \* what it is before there is one

VARIABLES
  truth,      \* subscription -> what it is at the provider
  copy,       \* subscription -> the local row
  settled     \* subscriptions no news of which is under way

vars == <<truth, copy, settled>>

Init ==
  /\ truth = [s \in Subs |-> Absent] /\ copy = truth
  /\ settled = Subs

\* Of the others, nothing changes.
Only(s) ==
  /\ truth' = [truth EXCEPT ![s] = truth'[s]]
  /\ copy' = [copy EXCEPT ![s] = copy'[s]]

\* The provider changes it; an operation of ours may change both.
Change(s) ==
  /\ truth'[s] \in Value /\ copy'[s] \in Value /\ Only(s)
  /\ settled' = settled \ {s}

\* News is taken in, in any order and any number of times.
Take(s) ==
  /\ s \notin settled
  /\ copy'[s] \in Value /\ Only(s)
  /\ truth'[s] = truth[s]
  /\ \/ copy'[s] = truth[s] /\ settled' = settled \cup {s}
     \/ settled' = settled

Next == \E s \in Subs : Change(s) \/ Take(s)

Spec == Init /\ [][Next]_vars
=============================================================================
