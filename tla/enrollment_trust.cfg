SPECIFICATION FairRestartSpec
CONSTANTS
  Mac = {m1}
  NoMac = NoMac
  Key = {k1, k2}
  MaxNodeID = 1
  AdapterType = {}
  AdapterTypeUnknown = unknown
  Name = {}
  EmptyName = EmptyName
  Zone = {}
  EmptyZone = EmptyZone
  Link = {l1}
  Admin = {a1}
  TypeAsked = {"configured"}
  WriteMayFail = TRUE
  SaveMayFail = TRUE
  MaxCrashes = 1
VIEW RestartView
INVARIANTS
  TypeOK
  ApprovedKeyWasGranted
  AuthFileOwed
PROPERTIES
  LostAckHealed
  AnsweredSurvives
