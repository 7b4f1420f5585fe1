SPECIFICATION Spec
CONSTANTS
  Cars = {a, b, c}
  None = None
  MaxStalls = 2
  MaxPending = 2
  MaxBegun = 3
  Nodes = {"ECM", "ABS"}
  Ecm = "ECM"
  Asks = {"dtcs", "vin"}
  Sockets = {"tab1", "tab2"}
  MaxCommands = 4
  MaxConnects = 2
  MaxAsked = 2
SYMMETRY AnyCar
CONSTRAINT NothingExcused
INVARIANTS
  TypeOK
  WorkKept
  OneCarPerVisit
  ExchangeOfItsNode
  KitStaysReachable
CHECK_DEADLOCK FALSE
