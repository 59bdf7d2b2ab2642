SPECIFICATION FairSpec
CONSTANTS
  Events = {1, 2, 3}
  Workers = {w1, w2}
  Kind <- MCKind
  BatchSize = 2
  MaxAttempts = 2
  MaxFaults = 2
CHECK_DEADLOCK FALSE
INVARIANTS
  TypeOK
  RepeatsAreEarned
  ProcessedMeansDone
  DeadLetterIsEarned
PROPERTIES
  TerminalIsFinal
  EveryEventEnds
  DeliverySpec
