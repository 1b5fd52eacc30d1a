------------------------------ MODULE MCWorkspace ----------------------------
(***************************************************************************)
(* Instances of Catalog, Spaces, ReadingRights and Connections for TLC.  A *)
(* behaviour is one of the four, so that their states add up.  The         *)
(* symmetric values are shared: the spaces of the catalog are the guests,  *)
(* the spaces of ReadingRights and the callbacks of a connection, too.     *)
(* PeoplePlaced, ReplacedInTime and ConnectionsKept also hold of the fixed *)
(* values that their variables have on the other sides.                    *)
(***************************************************************************)
EXTENDS Catalog, Connections, Spaces, ReadingRights, TLC

CONSTANTS s1, s2, f1, i1, i2, d1, d2, desk, later, x, onedrive, notion

ASSUME WorkspaceAssumption == AccountsApart /\ PeopleAssumption /\ RightsAssumption

VARIABLE side

FixCatalog == Init /\ inScope = [s \in Spaces |-> {}]
FixRights == RightsInit /\ nodeGrant = {} /\ folderGrant = [s \in AccessSpaces |-> {}]

FixConnection ==
    /\ provider = Google /\ sources = <<>> /\ first = <<>> /\ flow = <<>> /\ session = FALSE /\ admin = FALSE
    /\ callback = <<>> /\ disconnect = <<>> /\ reader = <<>> /\ completed = <<>> /\ outdated = {}

MCInit ==
    \/ side = "catalog" /\ Init /\ PeopleInit /\ FixRights /\ FixConnection
    \/ side = "people" /\ FixCatalog /\ PeopleInit /\ FixRights /\ FixConnection
    \/ side = "rights" /\ FixCatalog /\ PeopleInit /\ RightsInit /\ FixConnection
    \/ side = "connections" /\ FixCatalog /\ PeopleInit /\ FixRights /\ ConnectionInit

\* Once two transactions wrote the file at once, only what is open goes on.
AfterCrossing == crossed # {} => \E s \in Spaces : Written(s) # {} /\ run'[s] # run[s]

MCNext ==
    /\ UNCHANGED side
    /\ \/ side = "catalog" /\ Next /\ AfterCrossing /\ UNCHANGED <<peopleVars, rightsVars, connectionVars>>
       \/ side = "people" /\ PeopleNext /\ UNCHANGED <<vars, rightsVars, connectionVars>>
       \/ side = "rights" /\ RightsNext /\ UNCHANGED <<vars, peopleVars, connectionVars>>
       \/ side = "connections" /\ ConnectionNext /\ UNCHANGED <<vars, peopleVars, rightsVars>>

MCSpec == MCInit /\ [][MCNext]_<<vars, peopleVars, rightsVars, connectionVars, side>>

Symmetry == Permutations({s1, s2}) \cup Permutations({i1, i2}) \cup Permutations({d1, d2})
=============================================================================
