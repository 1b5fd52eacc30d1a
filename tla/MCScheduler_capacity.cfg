SPECIFICATION SchedulerFairSpec
CONSTANTS
  f1 = f1  f2 = f2  f3 = f3
  s1 = s1  s2 = s2
  o1 = o1  o2 = o2
  FolderOrder <- Order3
  SourceOf <- MixedSources
  OrgOf <- OneOrg3
  RobotSources = {s1}
  RobotOrgs = {o1, o2}
  OcrFolders = {f1}
  FreshBeats = 2
  CooldownBeats = 2
  MaxPerOrg = 2
  MaxWait = 1
INVARIANT WaitBounded
PROPERTY DueScopeQueued
