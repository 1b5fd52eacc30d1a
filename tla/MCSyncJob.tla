------------------------------ MODULE MCSyncJob ------------------------------
(***************************************************************************)
(* Instances of SyncJob for TLC.  JobNext has one job under faults and      *)
(* retries, or two successive jobs of one folder: the second is requested  *)
(* when there was no fault and no retry is under way, and then there are   *)
(* none (a run that meets an error fails, as it does without retries), the *)
(* source stays connected and the lease of the second job does not end.    *)
(***************************************************************************)
EXTENDS SyncJob, TLC

CONSTANTS f1, j1, j2, w1, w2, t1, t2, t3

\* One folder, two successive jobs.
OneFolder == (j1 :> f1) @@ (j2 :> f1)

\* One folder, one job.
OneJob == j1 :> f1

Retrying ==
  \/ \E w \in Workers : pc[w] = "retrying" \/ (pc[w] # "idle" /\ held[w].retries > 0)
  \/ \E m \in Msg : m.retries > 0 /\ queue[m] > 0

JobNext ==
  /\ Next
  /\ \A j \in Jobs \ {j1} :
       status'[j] # "none" => faults' = 0 /\ ~Retrying' /\ connected' /\ ~leaseOver'[j]

FairJobSpec == Init /\ [][JobNext]_vars /\ Fairness /\ SchedulerFairness

\* Tokens are interchangeable; so are workers, where no liveness is checked.
Symmetry == Permutations(Workers) \cup Permutations(Tokens)
=============================================================================
