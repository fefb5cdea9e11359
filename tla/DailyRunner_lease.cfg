CONSTANTS
  s1 = s1
  s2 = s2
  s3 = s3
  Schedulers = {s1, s2, s3}
  Ttl = 2
  MaxTokens = 4
SPECIFICATION FairSpec
INVARIANTS TypeOK LeaseExcludes
PROPERTIES ReleaseOwnOnly LockComesFree
