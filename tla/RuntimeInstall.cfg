\* Two other plugins hook the same slots; every stage may fail on every load.
SPECIFICATION Spec
CONSTANTS
  Others = {o1, o2}
  Nothing = Nothing
INVARIANTS
  TypeOK
  HooksReachEngine
  RegisteredOnce
  ResolverIsHeard
  CompletesWhenPossible
CHECK_DEADLOCK FALSE
