\* The player's inputs nest, a proxy replays, and time passes.
SPECIFICATION Spec
CONSTANTS
  p1 = p1
  Player = Player
  Proxies = {p1}
  Inputs <- MCInputs
  Profiled <- MCProfiled
  Nothing = Nothing
  Window = 1
  MaxTime = 3
  MaxNesting = 1
INVARIANTS
  TypeOK
  SelectionsAreExplained
  ArmedBeforeInput
CHECK_DEADLOCK FALSE
