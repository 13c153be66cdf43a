\* A refused send is not retried before the event.
SPECIFICATION StableSpec
CONSTANTS
  p1 = p1
  p2 = p2
  Peers = {p1}
  Absent = Absent
  NaN = NaN
  Unset = Unset
  NoEvent = NoEvent
  NoReplay = NoReplay
  Epsilon = 1
  Names <- MCNames
  Events <- DeltaEvents
  SyncedEvents <- DeltaSynced
  LocalValues <- DeltaValues
  Rules <- DeltaRules
  PeerEvents <- SameEvents
  PeerTypes <- SameTypes
  Accepting = {p1}
  WithOAR = {p1}
  SendMayFail = TRUE
  NameOnWire <- ShortNames
  TagOnWire <- SameTags
  MaxNesting = 0
  MaxInFlight = 3
INVARIANTS
  ReplaySeesLocalState
CHECK_DEADLOCK FALSE
