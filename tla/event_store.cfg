SPECIFICATION FairSpec
CONSTANTS
  Topic = {t1, t2}
  Writer = {w1, w2}
  MaxTries = 3
  MaxWrites = 1
INVARIANTS
  TypeOK
  ReadyMeansExists
  FailuresAddUp
  QuietAfterClose
PROPERTIES
  CloseEnds
  TopicsComeReady
CHECK_DEADLOCK FALSE
