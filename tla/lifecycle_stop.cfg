SPECIFICATION FairSpec
CONSTANTS
  Link = {"primary"}
  Request = {q1}
  RequestKind = {"message"}
  Frame = {"health", "motion"}
  MaxChanges = 1
  MaxStarts = 1
PROPERTIES
  ShutdownCompletes
CHECK_DEADLOCK FALSE
