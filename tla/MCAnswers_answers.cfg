SPECIFICATION MCSpec
CONSTANTS
  a1 = a1  a2 = a2  b1 = b1
  fa = fa  fb = fb
  Docs = {a1, a2, b1}
  Folders = {fa, fb}
  File <- MCFile
  Folder <- MCFolder
  Positions = {1, 2}
  Candidates = 2
  MaxMoves = 1
  Words = {"a", "b"}
  Budget = 8
  Wrapper = 2
  MinOverlap = 2
  p1 = p1  p2 = p2  f = f  g = g
  Container = Container
  Nobody = Nobody
  Files = {f, g}
  Requests = {p1, p2}
  Window = 2
  MaxTurns = 2
  MaxShifts = 1
INVARIANTS AnsweredWithinScope TextKept SummaryKept ConversationKept
CHECK_DEADLOCK FALSE
