\* Two profiled inputs on a proxy that stays up; one variable's name is cut.
SPECIFICATION FairStableSpec
CONSTANTS
  p1 = p1
  p2 = p2
  Peers = {p1}
  Absent = Absent
  NaN = NaN
  Unset = Unset
  NoEvent = NoEvent
  NoReplay = NoReplay
  Epsilon = 1
  Names <- MCNames
  Events <- DeltaEvents
  SyncedEvents <- DeltaEvents
  LocalValues <- BlendValues
  Rules <- DeltaRules
  PeerEvents <- SameEvents
  PeerTypes <- SameTypes
  Accepting = {p1}
  WithOAR = {}
  SendMayFail = TRUE
  NameOnWire <- LongTorch
  TagOnWire <- SameTags
  MaxNesting = 1
  MaxInFlight = 4
PROPERTIES
  ReplaysReliably
  SentValuesArrive
  WaitingInputsReplay
CHECK_DEADLOCK FALSE
