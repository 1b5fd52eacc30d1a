------------------------------ MODULE MCSources ------------------------------
(***************************************************************************)
(* Instances of DriveLinks, RobotPool, FolderTree, ClickUpDiscovery and    *)
(* RemoteHttp for TLC.  A behaviour is of one of them, so that their       *)
(* states add up.                                                          *)
(***************************************************************************)
EXTENDS DriveLinks, RobotPool, ClickUpDiscovery, RemoteHttp, TLC

CONSTANTS a, b, union, r1, r2, pa, qa, A, B, x, Root, Gone, Idle, task, d1, l1

\* A union of two folders: each depends on the other's link.
SelectionOf == union :> {a, b}

\* RobotPool's projects in the order they are tried.
PoolOrder == <<pa, qa>>

\* ClickUp: a task and a Doc, one of them in the selected list.
MCPlaces == {(task :> l1) @@ (d1 :> Nowhere), (task :> Nowhere) @@ (d1 :> l1)}

\* RemoteHttp: three versions of the file.
MCSize == <<2, 3, 2>>

VARIABLES theDrive, changes, known, listed, parent, alive, barred, tied, holed
treeVars == <<theDrive, changes, known, listed, parent, alive, barred, tied, holed>>
Tree == INSTANCE FolderTree
    WITH Folders <- {A, B}, Files <- {x}, Order <- <<A, B>>, Spaces <- {"s", "t"}, Early <- {"s"}, MaxChanges <- 3,
         space <- known, remote <- theDrive, node <- parent, live <- alive, excluded <- barred, bound <- tied

VARIABLE side

FixTree ==
    /\ theDrive = <<>> /\ changes = 0 /\ known = {} /\ listed = <<>>
    /\ parent = <<>> /\ alive = <<>> /\ barred = {} /\ tied = <<>> /\ holed = FALSE

FixClickUp ==
    /\ now = 0 /\ lies = [i \in TasksAndDocs |-> Nowhere] /\ stamp = [i \in TasksAndDocs |-> 0]
    /\ reach = {} /\ came = {} /\ moves = 0 /\ stored = [i \in TasksAndDocs |-> NoCopy]
    /\ cursor = NoCheckpoint /\ visit = NoVisit /\ still = {}
FixDrive == Init /\ PoolInit
FixHttp == GateInit /\ DownloadInit

MCInit ==
    \/ side \in {"links", "robots", "http", "download"} /\ FixDrive /\ FixTree /\ FixClickUp /\ FixHttp
    \/ side = "tree" /\ FixDrive /\ Tree!Init /\ theDrive[A] = B /\ theDrive[x] # Root /\ FixClickUp /\ FixHttp
    \/ side = "clickup" /\ FixDrive /\ FixTree /\ DiscoveryInit /\ FixHttp

\* A task gives up, and the maintenance is under way, while nothing else is.
Apart ==
    /\ givingUp' => run'[union] = "none" /\ beat' = "idle"
    /\ beat' # "idle" => tasks' = 0

\* A third change at the provider only while one space reads and nothing was removed.
ThirdChange == changes' = 3 => barred' = {} /\ \E s \in {"s", "t"} : listed'[s] = Idle

MCNext ==
    /\ UNCHANGED side
    /\ \/ side = "links" /\ Next /\ Apart /\ UNCHANGED <<poolVars, treeVars, discoveryVars, gateVars, downloadVars>>
       \/ side = "robots" /\ PoolNext /\ UNCHANGED <<vars, treeVars, discoveryVars, gateVars, downloadVars>>
       \/ side = "tree" /\ Tree!Next /\ ThirdChange /\ UNCHANGED <<vars, poolVars, discoveryVars, gateVars, downloadVars>>
       \/ side = "clickup" /\ DiscoveryNext /\ UNCHANGED <<vars, poolVars, treeVars, gateVars, downloadVars>>
       \/ side = "http" /\ GateNext /\ UNCHANGED <<vars, poolVars, treeVars, discoveryVars, downloadVars>>
       \/ side = "download" /\ DownloadNext /\ UNCHANGED <<vars, poolVars, treeVars, discoveryVars, gateVars>>

MCSpec == MCInit /\ [][MCNext]_<<vars, poolVars, treeVars, discoveryVars, gateVars, downloadVars, side>>

Symmetry == Permutations(Robots) \cup Permutations(Folders)

ASSUME SourcesAssumption == PoolAssumption

=============================================================================
