\* Three rule files that come, go and change.
SPECIFICATION Spec
CONSTANTS
  Absent = Absent
  Events <- MCEvents
  Names <- MCNames
  RuleFiles = {1, 2, 3}
  OtherFiles = {4}
  Profiles <- MCProfiles
  OARNames = {"fBlend", "iGPMAOffsetType"}
INVARIANTS
  TypeOK
  RulesFollowFiles
  TablesAgree
  CandidatesToldApart
PROPERTIES
  RulesStayPut
CHECK_DEADLOCK FALSE
