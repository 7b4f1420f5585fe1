SPECIFICATION Spec
CONSTANTS
  n1 = n1
  n2 = n2
  d1 = d1
  x1 = x1
  c1 = c1
  h1 = h1
  h2 = h2
  NoText = NoText
  Nodes <- MCNodes
  Codes = {c1}
  DIDs = {d1}
  Texts = {x1}
  Scans <- MCScans
  Handlers <- MCHandlers
  MaxPuts = 3
PROPERTIES
  EverReachableStays
CHECK_DEADLOCK FALSE
