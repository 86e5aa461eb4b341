SPECIFICATION FairSpec
CONSTANTS
  Mac = {m1}
  Link = {l1, l2}
  Detector = detector
  Client = {c1}
  Publisher <- MCPublisher
  Event <- MCEvent
  NoEvent = NoEvent
  BufferSize = 2
INVARIANTS
  TypeOK
  NoSendOnClosed
  StreamTellsPresence
PROPERTIES
  PresenceAlternates
  PublishFinishes
  SilentGoesOffline
  ReportsBringOnline
