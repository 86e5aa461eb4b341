SPECIFICATION Spec
CONSTANTS
  Link = {"primary"}
  Request = {q1}
  RequestKind = {"message", "stop", "start"}
  Frame = {"health", "motion"}
  MaxChanges = 1
  MaxStarts = 2
INVARIANTS
  StartServes
CHECK_DEADLOCK FALSE
