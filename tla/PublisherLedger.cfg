SPECIFICATION FairSpec
CONSTANTS
  Workers = {w1, w2}
  MaxJobs = 2
  MaxFaults = 2
INVARIANTS
  TypeOK
  OneHolder
  PublishAtMostOnce
  AckedMeansDone
  AuditTruthful
  EachFaultLosesOneJob
  WorkDirsRemoved
PROPERTIES
  AbandonedForGood
  LedgerSpec
  QueuedIsDelivered
  TakenIsSettled
