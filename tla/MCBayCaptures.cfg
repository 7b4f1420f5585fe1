SPECIFICATION CapturesSpec
CONSTANTS
  n1 = n1
  n2 = n2
  d1 = d1
  x1 = x1
  c1 = c1
  NoText = NoText
  Nodes = {n1, n2}
  Codes = {c1}
  DIDs = {d1}
  Texts = {x1}
  Scans <- MCScans
  Handlers = {h1, h2}
  MaxPuts = 4
  Path = Path
  Post = Post
  Flushes = {f1}
  MaxSaves = 3
  MaxLosses = 1
  MaxEvents = 1
  Nobody = Nobody
SYMMETRY Alike
INVARIANTS
  NothingForgotten
  NothingInvented
  MapFollowsScans
CHECK_DEADLOCK FALSE
