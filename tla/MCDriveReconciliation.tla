------------------------ MODULE MCDriveReconciliation ------------------------
(* Instances of DriveReconciliation for TLC.  In those of MCFairSpec a     *)
(* source is disconnected, and credentials are renewed, while the second   *)
(* file is not in play.                                                    *)
EXTENDS DriveReconciliation, TLC

CONSTANTS f1, f2, a1, a2

\* Two files of one account.
OneAccount == (f1 :> a1) @@ (f2 :> a1)

Undisturbed == remote \subseteq {f1} /\ doc[f2] = "none"

Renewed == run # NoRun /\ run.refreshed

MCNext == Next /\ (connected /\ ~connected' => Undisturbed) /\ (Renewed' => Undisturbed')

MCFairSpec == Init /\ [][MCNext]_vars /\ WF_vars(RunStep)
=============================================================================
