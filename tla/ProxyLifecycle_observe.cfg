\* A proxy mapped before its graph is there.
SPECIFICATION Spec
CONSTANTS
  c1 = c1
  c2 = c2
  f1 = f1
  f2 = f2
  Conns = {c1}
  Forms = {f1}
  GPMAForms = {}
  Player = Player
  NoConn = NoConn
  NoForm = NoForm
  MaxTasks = 2
  MaxCopies = 0
INVARIANTS
  MappedProxyIsObserved
CHECK_DEADLOCK FALSE
