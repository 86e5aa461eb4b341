SPECIFICATION FairSpec
VIEW CommandsView
CONSTANTS
  light1 = light1
  light2 = light2
  sensor = sensor
  Call = {c1, c2}
  Device <- MCDevice
  AdapterType = {"pir", "led"}
  TypeOf <- MCTypeOf
  OutputTypes = {"led"}
  Zones <- MCZones
  Token = {zero, t1, t2}
  ZeroToken = zero
  TornToken = {zero}
  MaxFailures = 1
  GiveUpAfter = 2
INVARIANTS
  TypeOK
  AckMeansActed
  AckFindsCommand
  AnnouncedOnce
  CarriedOutIsOwed
PROPERTIES
  CarriedOutIsAcked
  AcceptedIsHeard
