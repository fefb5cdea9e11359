CONSTANTS
  t1 = t1
  o1 = o1
  o2 = o2
  Threads = {t1}
  Orders = {o1, o2}
  BaseSecret = 0
  MaxApprovals = 2
  MaxSecrets = 2
  MaxCalls = 2
SPECIFICATION Spec
INVARIANTS TypeOK GuardedSend CredentialsDropped OneIdentity LiveWasApproved
