CONSTANTS
  w1 = w1
  w2 = w2
  Workers = {w1}
  Symbols = {1, 2}
  Dates = {1, 2}
  Payloads = {{}, {1, 2}}
  MaxRetries = 2
  MaxAttempts = 3
  MaxJobs = 4
SPECIFICATION FairSpec
INVARIANTS TypeOK NothingLost PublishedBeforeLedger
PROPERTIES NothingErased ManifestMatches ReconcileFillsGaps JobsEnd
CHECK_DEADLOCK FALSE
