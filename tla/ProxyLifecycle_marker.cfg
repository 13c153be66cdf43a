\* Helmet Toggle on the proxy of one client that comes and goes.
SPECIFICATION FairSpec
CONSTANTS
  c1 = c1
  c2 = c2
  f1 = f1
  f2 = f2
  Conns = {c1}
  Forms = {f1}
  GPMAForms = {f1}
  Player = Player
  NoConn = NoConn
  NoForm = NoForm
  MaxTasks = 3
  MaxCopies = 5
INVARIANTS
  TypeOK
  StoppedAreAttached
PROPERTIES
  StaleCopiesAreDoomed
  CleanupSparesActive
  StaleMarkerGoes
CHECK_DEADLOCK FALSE
