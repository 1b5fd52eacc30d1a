SPECIFICATION MCSpec
CONSTANTS
  s1 = s1
  h1 = h1  h2 = h2
  Subs = {s1}
  Handlers = {h1, h2}
  MaxEvents = 3
  NoSub = NoSub
  Free = Free
  None = None
  m1 = m1  m2 = m2
  u1 = u1  u2 = u2
  l1 = l1  f = f
  Account = Account
  Everything = Everything
  NoRow = NoRow
  j1 = j1  j2 = j2
  q1 = q1
  Requests = {1, 2, 3}
  Keys = {z}
  Messages = {m1, m2}
  Author <- MCAuthor
  Lists = {l1}
  Parent <- MCParent
  PerMinute = 1
  Jobs = {j1, j2}
  Questions = {q1}
  Docs <- MCDocs
  Limits = {2}
  Cap = 1
  x = x  y = y  z = z
  Organization = Organization
  Subject = Subject
  Subjects = {Subject}
  Browsers = {h1, h2}
  v1 = v1  v2 = v2
  Flows = {1, 2}
  Signings = {v1, v2}
  MaxSessions = 2
  Nobody = None
SYMMETRY Symmetry
INVARIANTS EntitlementKept SecondTaskOnlyAfterRefusal LimitsHold SessionsHold
PROPERTIES MirrorImplemented
CHECK_DEADLOCK FALSE
