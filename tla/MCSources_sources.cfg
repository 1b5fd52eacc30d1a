SPECIFICATION MCSpec
CONSTANTS
  a = a  b = b
  union = union
  r1 = r1  r2 = r2
  Folders = {a, b}
  Scopes = {union}
  Selection <- SelectionOf
  Robots = {r1, r2}
  NoRobot = NoRobot
  MaxTasks = 1
  Orgs = {"o1"}
  Workers = {"w1", "w2"}
  Pool <- PoolOrder
  Quota = 1
  WarmSize = 2
  MaxWarm = 2
  NoOrg = NoOrg
  pa = pa  qa = qa
  A = A  B = B  x = x
  Root = Root  Gone = Gone  Idle = Idle
  task = task  d1 = d1  l1 = l1
  Nowhere = Nowhere
  Tasks = {task}  Docs = {d1}  Lists = {l1}  Chosen = {l1}
  Places <- MCPlaces
  Margin = 2  Interval = 2  Lag = 1
  MaxTime = 4  MaxMoves = 1
  Calls = {c1, c2}
  MaxAttempts = 3  MaxTotalWait = 3  MinInterval = 1
  Delays = {1, 2}
  MaxClock = 6
  Size <- MCSize  MaxBlocks = 2  ChunkRetries = 2
SYMMETRY Symmetry
INVARIANTS HiddenWhileInDoubt ChangesSuffice PoolKept  DueTaskIsRead TransportKept
CHECK_DEADLOCK FALSE
