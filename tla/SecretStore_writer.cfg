CONSTANTS
  w1 = w1
  r1 = r1
  x1 = x1
  i1 = i1
  i2 = i2
  v1 = v1
  v2 = v2
  k1 = k1
  k2 = k2
  Clients = {w1, r1, x1}
  Writers = {w1}
  Ids = {i1, i2}
  NoRecord = NoRecord
  Never = Never
  Unreadable = Unreadable
  KeyOf <- KeysOf
  Offered <- Some
  MaxTime = 1
  MaxCalls = 4
  MaxFiles = 2
SPECIFICATION Spec
INVARIANTS TypeOK AcknowledgedKept
PROPERTIES GetsCurrent AtomicVault
