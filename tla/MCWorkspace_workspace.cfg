SPECIFICATION MCSpec
CONSTANTS
  s1 = s1  s2 = s2
  f1 = f1
  Spaces = {s1, s2}
  Files = {f1}
  NoRun = NoRun
  MaxRunning = 2
  i1 = i1  i2 = i2
  d1 = d1  d2 = d2
  desk = desk
  Owner = Owner  General = General  later = later
  x = x
  Unused = Unused  Closed = Closed  Nobody = Nobody  Resting = Resting  Nothing = Nothing
  onedrive = onedrive  notion = notion
  Providers = {Google, onedrive, notion}
  AccessSpaces = {s1, s2}
  Scopes = {i1, i2}
  SourceFiles = {x}
  Below = {x}
  Items = {1}
  MaxTime = 7
  MaxMoves = 2
  MaxMissed = 1
  Lookback = 8
  Guests = {s1, s2}
  Others = {later}
  Invitations = {i1, i2}
  Desks = {desk}
  Doors = {d1, d2}
  MaxMembers = 2
  Invited = {"member"}
  Chosen = {{later}}
  Microsoft = {onedrive}
  Google = Google
  Flows = {i1, i2}
  Callbacks = {s1, s2}
  Disconnects = {desk}
  Readers = {f1}
  Accounts = {d1, d2}
  MaxSources = 2
  None = None
SYMMETRY Symmetry
INVARIANTS CatalogKept PeoplePlaced ReplacedInTime ConnectionsKept
CHECK_DEADLOCK FALSE
