SPECIFICATION MCSpec
CONSTANTS
  top = top  A = A  B = B  f = f  w = w  v = v  p = p  q = q
  drive = drive
  x = x  y = y  n = n
  a1 = a1  a2 = a2
  c1 = c1  c2 = c2  c3 = c3
  k1 = k1  k2 = k2
  Workspaces = {1, 2}
  Items = {x}
  Targets <- MCTargets
  Selected <- MCSelected
  Overlaps <- MCOverlaps
  Below <- MCBelow
  Asks = {a1, a2}
  JobIds = {1, 2}
  Runs = {1, 2}
  MaxTries = 1
  NotMade = NotMade  AtRest = AtRest
  NoDocument = NoDocument  Kept = Kept  Free = Free  Unread = Unread  None = None
  Gone = Gone  Every = Every  Unused = Unused  Closed = Closed  NoCall = NoCall
  Sources = {top}
  Folders = {A, B}
  Files = {f}
  Scopes = {w, v}
  Spaces = {p, q}
  Home <- MCHome
  Tool <- MCTool
  Places <- MCPlaces
  Copies <- MCCopies
  Grantable <- MCGrantable
  Keys = {1}
  Bindings = {1, 2}
  Slots = {1, 2}
  Confinements <- MCConfinements
  Asked <- MCAsked
  Narrowings <- MCNarrowings
  MaxChanges = 2
  Queries <- MCQueries
  Workers <- MCWorkers
  Ids <- MCIds
  Before <- MCBefore
  MaxSequence = 3
  MaxRequests = 2
  MaxEpoch = 2
  Absent = Absent
  MaxTime = 5
SYMMETRY Symmetry
INVARIANTS ViewsAgree RunsKept ScreenKept ChangeIsReasked
PROPERTIES CredentialWithinPerson
CHECK_DEADLOCK FALSE
