SPECIFICATION FairSpec
CONSTANTS
  Events = {e1, e2}
  Workers = {w1, w2}
  MaxAttempts = 2
  MaxOverruns = 1
  MaxCrashes = 1
  MaxRecoveries = 1
CHECK_DEADLOCK FALSE
INVARIANTS
  ClaimIsExclusive
  DeliveredOnce
  DeadLetterEarned
PROPERTIES
  AttemptsFinal
  Settles
