------------------------------ MODULE MCAccounts ------------------------------
(***************************************************************************)
(* Instances of Billing, UsagePools, Sessions and TaskCreation for TLC.  A *)
(* behaviour is one of them, so that their states add up; that of Sessions *)
(* comes twice, with two visits and with two requests at work.  The        *)
(* browsers and the handlers of a webhook are the same symmetric values.   *)
(***************************************************************************)
EXTENDS Billing, UsagePools, TaskCreation, Sessions, TLC

CONSTANTS s1, h1, h2, m1, m2, u1, u2, l1, f, j1, j2, q1, x, y, z, Subject, v1, v2

\* Two answers of two users, a list directly below the account, and one beside it.
MCAuthor == (m1 :> u1) @@ (m2 :> u2)
MCParent == (l1 :> Account) @@ (f :> Account)

\* A job with two documents and one with a third.
MCDocs == (j1 :> {x, y}) @@ (j2 :> {z})

ASSUME TaskAssumption /\ UsageAssumption /\ NobodyApart

VARIABLE side

FixBilling == Init /\ account = "personal" /\ mark = "legacy"
FixTask == TaskInit /\ chosen = {Everything}
FixUsage == UsageInit /\ onTrial = FALSE /\ before = Nothing
FixLogin ==
    /\ authkit = <<>> /\ remembered = <<>> /\ identity = <<>> /\ users = 0 /\ session = <<>>
    /\ cookie = [b \in Browsers |-> Clean] /\ flow = <<>> /\ signing = <<>> /\ left = <<>>

MCInit ==
    \/ side = "billing" /\ Init /\ FixTask /\ FixUsage /\ FixLogin
    \/ side = "tasks" /\ FixBilling /\ TaskInit /\ FixUsage /\ FixLogin
    \/ side = "usage" /\ FixBilling /\ FixTask /\ UsageInit /\ FixLogin
    \/ side \in {"logins", "parallel"} /\ FixBilling /\ FixTask /\ FixUsage /\ SessionInit

\* The requests for tasks are alike: they begin in order.
InOrder == \A r \in {2, 3} : request'[r].at # "unsent" => request[r - 1].at # "unsent"

\* A courtesy plan has no trial beside it, and one webhook at a time.
CourtesyApart == comp' # "none" => trial = "none" /\ \E h \in Handlers : handler'[h] = Free

\* Visits are alike, and begin in order.  Two of them with one request at work, a reset asked for
\* before they begin; or two requests at work with one visit, a reset confirmed before a session.
VisitsInOrder == flow'[2] # Unused => flow'[1] # Unused
Asked == \E s \in Subjects : authkit'[s].link
OneRequest == (\E q \in Signings : signing'[q] = Resting) /\ (Asked => flow'[1] = Unused)
OneVisit == flow'[2] = Unused /\ (Asked => session' = <<>>)

MCNext ==
    /\ UNCHANGED side
    /\ \/ side = "billing" /\ Next /\ CourtesyApart /\ UNCHANGED <<taskVars, usageVars, sessionVars>>
       \/ side = "tasks" /\ TaskNext /\ InOrder /\ UNCHANGED <<vars, usageVars, sessionVars>>
       \/ side = "usage" /\ UsageNext /\ UNCHANGED <<vars, taskVars, sessionVars>>
       \/ side = "logins" /\ SessionNext /\ VisitsInOrder /\ OneRequest /\ UNCHANGED <<vars, taskVars, usageVars>>
       \/ side = "parallel" /\ SessionNext /\ OneVisit /\ UNCHANGED <<vars, taskVars, usageVars>>

MCSpec == MCInit /\ [][MCNext]_<<vars, taskVars, usageVars, sessionVars, side>>

Symmetry == Permutations(Handlers) \cup Permutations({v1, v2})

=============================================================================
