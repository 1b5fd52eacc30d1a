------------------------------- MODULE MCViews -------------------------------
(***************************************************************************)
(* LibraryViews with ProgrammaticAccess, ManualRuns, ChatScreen and        *)
(* FollowedQueries for TLC: a behaviour is one of them, so that their      *)
(* states add up.  The views are checked while everything below them       *)
(* changes; credentials and calls start from a library that is set up      *)
(* and see a few changes.                                                  *)
(***************************************************************************)
EXTENDS ProgrammaticAccess, ManualRuns, FollowedQueries, ChatScreen, TLC

CONSTANTS top, A, B, f, w, v, p, q, drive, x, y, n, a1, a2, c1, c2, c3, k1, k2

MCHome == [h \in {top, A, B, f, w, v} |-> top]
MCTool == [h \in {top} |-> drive]
MCPlaces == (A :> {top}) @@ (B :> {A}) @@ (f :> {top, B})
MCCopies == {<<w, f>>, <<v, f>>}
MCGrantable == {<<p, w>>, <<q, v>>, <<q, A>>}
MCConfinements == {{}, {B}}
MCAsked == {{}, {f}}
MCNarrowings == {Spaces, {q}}

\* Two spaces of one source and a folder of its library.
MCTargets == {n, 2}
MCSelected == (1 :> {x}) @@ (2 :> {x, y})
MCOverlaps == n :> {1, 2}
MCBelow == n :> {x}

MCQueries == <<"q1", "q2">>
MCBefore == {c1, c2}
MCIds == {c1, c2, c3}
MCWorkers == {k1, k2}

VARIABLE side

\* Both spaces have their copy of the file.  One of them may be removed.
Copied == ManualInit /\ copy = [d \in {1, 2} \X {x} |-> Kept]

FixViews ==
    /\ LibraryInit /\ AccessInit
    /\ parent = [m \in Folders \cup Files |-> Gone] /\ doc = [d \in Copies |-> "none"]
    /\ state = [s \in Scopes |-> "idle"] /\ member = {} /\ grants = {} /\ admin = FALSE
FixChat ==
    /\ server = [c \in Ids |-> Absent] /\ open = Absent /\ stored = Absent /\ shown = {} /\ failed = {} /\ pending = 0
    /\ restoring = FALSE /\ epoch = 0 /\ sequence = 0 /\ flight = {}
FixFollow ==
    /\ now = 0 /\ revision = 0 /\ stamp = 0 /\ query = <<>> /\ access = FALSE
    /\ refresh = <<>> /\ crossed = {} /\ missed = FALSE

\* A file in a folder of a folder, embedded in one scope, and a person with some grants.
SetUp ==
    /\ parent = (A :> top) @@ (B :> A) @@ (f :> B)
    /\ doc = [d \in Copies |-> IF d[1] = w THEN "embedded" ELSE "none"]
    /\ state = [s \in Scopes |-> "ready"]
    /\ member = Spaces /\ grants \in {{<<p, w>>}, {<<q, A>>}} /\ admin = TRUE
    /\ active = TRUE /\ apiOn = TRUE /\ mcpOn = TRUE
    /\ key \in [Keys -> {Unused, {B}}]
    /\ bound \in {[b \in Bindings |-> Unused], [b \in Bindings |-> IF b = 1 THEN {B} ELSE Unused]}
    /\ unbound = (bound[1] = Unused)
    /\ enabling = [s \in Slots |-> NoCall] /\ call = NoCall /\ changes = 0


MCInit ==
    \/ side = "views" /\ LibraryInit /\ AccessInit /\ Copied /\ FixChat /\ FixFollow
    \/ side = "access" /\ SetUp /\ Copied /\ FixChat /\ FixFollow
    \/ side = "manual" /\ FixViews /\ Copied /\ FixChat /\ FixFollow
    \/ side = "chat" /\ FixViews /\ Copied /\ ChatInit /\ FixFollow
    \/ side = "followed" /\ FixViews /\ Copied /\ FixChat /\ FollowInit

\* Only the first space is removed, while no minute has passed; a job is tried again, or
\* taken over, while no request is at work, and one of them is lost by a worker.
AloneOnRetry ==
    /\ 2 \in exists'
    /\ 1 \in exists' \/ \A j \in {1, 2} : job'[j] # NotMade => job'[j].recent
    /\ late' # {} \/ (\E j \in {1, 2} : job'[j] # NotMade /\ job'[j].tries > 0) => \A a \in {a1, a2} : ask'[a] = AtRest
    /\ (\E j \in unsent' : job'[j].status # "queued" \/ txn'[j] # AtRest) => \A a \in {a1, a2} : ask'[a] = AtRest
    /\ unsent' \cup late' # {} => \A j \in {1, 2} : job'[j] # NotMade => job'[j].tries = 0 /\ job'[j].recent
    /\ \A j \in {1, 2} : job'[j] # NotMade /\ job'[j].tries > 0 => job'[j].recent
    /\ late' \subseteq {1} /\ (late' # {} => 1 \in exists')

\* Two grants at once, and an administrator while nothing has been stored of the file.
AFewGrants == Cardinality(grants') <= 2 /\ (admin' => (CopiesOf(f) = {})')

\* A client is enabled while no call is under way.
Apart == call' = NoCall \/ \A s \in Slots : enabling'[s] = NoCall

\* What the owner does, early.
EarlyOwner == now <= 2 \/ \A qs \in Names : query'[qs].followed = query[qs].followed /\ access' = access

MCNext ==
    /\ UNCHANGED side
    /\ \/ side = "views" /\ LibraryNext /\ AFewGrants /\ UNCHANGED <<accessVars, manualVars, chatVars, followVars>>
       \/ side = "access" /\ AccessNext /\ Apart /\ UNCHANGED <<manualVars, chatVars, followVars>>
       \/ side = "manual" /\ ManualNext /\ AloneOnRetry /\ UNCHANGED <<allVars, chatVars, followVars>>
       \/ side = "chat" /\ ChatNext /\ UNCHANGED <<allVars, manualVars, followVars>>
       \/ side = "followed" /\ FollowNext /\ EarlyOwner /\ UNCHANGED <<allVars, manualVars, chatVars>>

MCSpec == MCInit /\ [][MCNext]_<<allVars, manualVars, chatVars, followVars, side>>

Symmetry == Permutations({a1, a2}) \cup Permutations({k1, k2})
=============================================================================
