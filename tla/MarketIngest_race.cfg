CONSTANTS
  w1 = w1
  w2 = w2
  Workers = {w1, w2}
  Symbols = {1, 2}
  Dates = {1, 2}
  Payloads = {{}, {2}, {1, 2}}
  MaxRetries = 2
  MaxAttempts = 3
  MaxJobs = 2
SPECIFICATION Spec
PROPERTIES NothingErased
SYMMETRY WorkerSymmetry
CHECK_DEADLOCK FALSE
