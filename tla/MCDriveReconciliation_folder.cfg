SPECIFICATION MCFairSpec
CONSTANTS
  f1 = f1  f2 = f2
  a1 = a1  a2 = a2
  Files = {f1, f2}
  Accounts = {a1}
  AccountOf <- OneAccount
  NoAccount = NoAccount
  NoCursor = NoCursor
  NoRun = NoRun
  Kind = "folder"
  Disconnects = TRUE
INVARIANT CursorCovers
PROPERTY CatchesUp
