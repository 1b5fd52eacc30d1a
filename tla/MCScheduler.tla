----------------------------- MODULE MCScheduler -----------------------------
(* Instances of Scheduler for TLC. *)
EXTENDS Scheduler, TLC

CONSTANTS f1, f2, f3, s1, s2, o1, o2

\* Three folders, in the order of the beat.
Order3 == <<f1, f2, f3>>

\* A folder of a robot and two of an OAuth source, all of one organisation.
MixedSources == (f1 :> s1) @@ (f2 :> s2) @@ (f3 :> s2)
OneOrg3 == (f1 :> o1) @@ (f2 :> o1) @@ (f3 :> o1)

ASSUME RoomForAll == Room
=============================================================================
