\* One proxy that stays up; the variables wander, sends may fail.
SPECIFICATION StableSpec
CONSTANTS
  p1 = p1
  p2 = p2
  Peers = {p1}
  Absent = Absent
  NaN = NaN
  Unset = Unset
  NoEvent = NoEvent
  NoReplay = NoReplay
  Epsilon = 1
  Names <- MCNames
  Events <- DeltaSynced
  SyncedEvents <- DeltaSynced
  LocalValues <- DeltaValues
  Rules <- DeltaRules
  PeerEvents <- SameEvents
  PeerTypes <- SameTypes
  Accepting = {p1}
  WithOAR = {p1}
  SendMayFail = TRUE
  NameOnWire <- ShortNames
  TagOnWire <- SameTags
  MaxNesting = 1
  MaxInFlight = 4
INVARIANTS
  CacheReachesProxy
  ReplaySeesCapturedState
  OARReachesSentState
CHECK_DEADLOCK FALSE
