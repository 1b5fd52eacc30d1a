SPECIFICATION FairJobSpec
CONSTANTS
  f1 = f1
  j1 = j1
  j2 = j2
  w1 = w1
  w2 = w2
  t1 = t1
  t2 = t2
  t3 = t3
  Folders = {f1}
  Jobs = {j1}
  FolderOf <- OneJob
  Workers = {w1, w2}
  Tokens = {t1, t2}
  NoToken = NoToken
  NoMsg = NoMsg
  MaxRetries = 1
  MaxCopies = 1
  MaxFaults = 0
CHECK_DEADLOCK FALSE
PROPERTIES EveryJobEnds
