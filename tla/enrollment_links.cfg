SPECIFICATION Spec
CONSTANTS
  Mac = {m1}
  NoMac = NoMac
  Key = {k1, k2}
  MaxNodeID = 1
  AdapterType = {}
  AdapterTypeUnknown = unknown
  Name = {}
  EmptyName = EmptyName
  Zone = {}
  EmptyZone = EmptyZone
  Link = {l1, l2}
  Admin = {a1}
  TypeAsked = {"none", "named", "configured"}
  WriteMayFail = FALSE
  SaveMayFail = FALSE
SYMMETRY Symmetry
INVARIANTS
  ApprovedKeyWasGranted
