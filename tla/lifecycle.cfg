SPECIFICATION FairSpec
CONSTANTS
  Link = {"primary"}
  Request = {q1}
  RequestKind = {"approve", "stop", "start"}
  Frame = {"health", "join"}
  MaxChanges = 1
  MaxStarts = 2
INVARIANTS
  TypeOK
  StoreOpenWhenUsed
  CheckedSendHasLink
  StopLeavesNothing
  StopSaves
PROPERTIES
  SendersFinish
  OnlyTheLockHoldsStop
CHECK_DEADLOCK FALSE
