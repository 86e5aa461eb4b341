SPECIFICATION FairSpec
CONSTANTS
  Link = {"primary", "secondary"}
  Sender = {s1}
  MaxConsecutiveErrors = 1
  HealthTimeout = 1
  FailoverAfter = 1
  Longest = 2
INVARIANTS
  GaugeNeverOverstates
  SecondaryMeansSilence
  StopForgets
PROPERTIES
  SilenceFailsOver
