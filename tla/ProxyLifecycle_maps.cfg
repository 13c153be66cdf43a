\* Two clients and two form ids that change hands.
SPECIFICATION Spec
CONSTANTS
  c1 = c1
  c2 = c2
  f1 = f1
  f2 = f2
  Conns = {c1, c2}
  Forms = {f1, f2}
  GPMAForms = {}
  Player = Player
  NoConn = NoConn
  NoForm = NoForm
  MaxTasks = 3
  MaxCopies = 0
INVARIANTS
  AttachedAreMapped
  NoSinkLeaks
  MirrorsResolver
CHECK_DEADLOCK FALSE
