SPECIFICATION MCSpec
CONSTANTS
  f1 = f1
  j1 = j1  j2 = j2
  w1 = w1  w2 = w2
  t1 = t1  t2 = t2  t3 = t3
  Folders = {f1}
  Jobs = {j1, j2}
  FolderOf <- OneFolder
  Workers = {w1, w2}
  Tokens = {t1, t2, t3}
  NoToken = NoToken
  NoMsg = NoMsg
  MaxRetries = 1
  MaxCopies = 1
  MaxFaults = 2
  Spaces <- MCSpaces
  Files = {f1}
  Root = Root  A = A  B = B
  Branches = {A, B}
  Sub = Sub  Gone = Gone  RootFiles = RootFiles  All = All
  FoldersLeave = FALSE
  r = r  d = d  c = c
  Workspace = Workspace
SYMMETRY Symmetry
INVARIANTS JobsCarried OneOwner OneActiveJob BusyFolderHasJob
INVARIANTS DeltaCovers QuietRunAgrees
PROPERTIES EndedJobsStay IndexChangedByOwner
CHECK_DEADLOCK FALSE
