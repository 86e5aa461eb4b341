SPECIFICATION IdentitySpec
CONSTANTS
  Mac = {m1, m2}
  NoMac = NoMac
  Key = {k1}
  MaxNodeID = 2
  AdapterType = {t1}
  AdapterTypeUnknown = unknown
  Name = {}
  EmptyName = EmptyName
  Zone = {}
  EmptyZone = EmptyZone
  Link = {l1}
  Admin = {a1}
  TypeAsked = {"none"}
  WriteMayFail = TRUE
  SaveMayFail = FALSE
VIEW IdentityView
INVARIANTS
  UniqueActiveIDs
  DeviceToldItsID
