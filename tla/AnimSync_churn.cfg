\* One client that comes and goes, with and without its proxy.
SPECIFICATION Spec
CONSTANTS
  p1 = p1
  p2 = p2
  Peers = {p1}
  Absent = Absent
  NaN = NaN
  Unset = Unset
  NoEvent = NoEvent
  NoReplay = NoReplay
  Epsilon = 1
  Names <- MCNames
  Events <- HelmetEvents
  SyncedEvents <- HelmetSynced
  LocalValues <- HelmetValues
  Rules <- HelmetRules
  PeerEvents <- SameEvents
  PeerTypes <- SameTypes
  Accepting = {p1}
  WithOAR = {p1}
  SendMayFail = TRUE
  NameOnWire <- ShortNames
  TagOnWire <- SameTags
  MaxNesting = 0
  MaxInFlight = 3
INVARIANTS
  TypeOK
  GPMAStateAtReplay
PROPERTIES
  ReplaysAtMostOnce
CHECK_DEADLOCK FALSE
