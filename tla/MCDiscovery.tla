----------------------------- MODULE MCDiscovery -----------------------------
(***************************************************************************)
(* SyncJob with MicrosoftDelta and NotionDiscovery for TLC: the jobs of a  *)
(* folder, and what the run of a job asks of a provider.  A behaviour is   *)
(* of one of them, so that their states add up.                            *)
(***************************************************************************)
EXTENDS MCSyncJob, MicrosoftDelta, TLC

CONSTANTS A, B, r, d, c, Workspace

Space(provider, selections, meanwhile) ==
    [provider |-> provider, selections |-> selections, meanwhile |-> meanwhile]
MCSpaces == {
    Space("onedrive", <<All>>, "moves"), Space("onedrive", <<A, B>>, "edits"),
    Space("onedrive", <<A, RootFiles>>, "edits"),
    Space("sharepoint", <<B>>, "moves"), Space("sharepoint", <<A, B>>, "nothing")}

VARIABLES parent, readable, edited, pageIndex, pageRun, quiet
notionVars == <<parent, readable, edited, pageIndex, pageRun, quiet>>
Notion == INSTANCE NotionDiscovery
    WITH Pages <- {r, d, c}, Bases <- {d}, Requested <- {r}, MaxEdits <- 1, MovesDuringRuns <- FALSE,
         Trees <- {(r :> Workspace) @@ (d :> r) @@ (c :> d)}, index <- pageIndex, run <- pageRun

VARIABLE side

FixMicrosoft ==
    /\ space = Space("onedrive", <<All>>, "moves") /\ place = [f \in Files |-> Root] /\ up = A
    /\ feed = [i \in Selections |-> NoCursor] /\ index = [f \in Files |-> "none"] /\ run = Idle
FixNotion == parent = <<>> /\ readable = {} /\ edited = <<>> /\ pageIndex = <<>> /\ pageRun = <<>> /\ quiet = "no"

MCInit ==
    \/ side = "jobs" /\ Init /\ FixMicrosoft /\ FixNotion
    \/ side = "microsoft" /\ Init /\ FeedInit /\ FixNotion
    \/ side = "notion" /\ Init /\ FixMicrosoft /\ Notion!Init

MCNext ==
    /\ UNCHANGED side
    /\ \/ side = "jobs" /\ JobNext /\ UNCHANGED <<feedVars, notionVars>>
       \/ side = "microsoft" /\ FeedNext /\ UNCHANGED <<vars, notionVars>>
       \/ side = "notion" /\ Notion!Next /\ r \in readable' /\ UNCHANGED <<vars, feedVars>>

MCSpec == MCInit /\ [][MCNext]_<<vars, feedVars, notionVars, side>>

\* Notion: a run during which nothing changed leaves the index right.
QuietRunAgrees == side = "notion" => Notion!QuietRunAgrees
=============================================================================
