CONSTANTS
  a1 = a1
  t1 = t1
  p1 = p1
  p2 = p2
  s1 = s1
  s2 = s2
  None = None
  Admins = {a1}
  Callers = {t1}
  Plugins = {p1, p2}
  Skills = {s1, s2}
  SkillsOf <- Manifests
  Requests <- SomeRequests
  Allowed = {"PAPER_SANDBOX", "VIRTUAL_BACKTEST"}
  EnvironmentGiven = TRUE
  MaxOps = 4
  MaxBars = 2
SPECIFICATION Spec
INVARIANTS TypeOK RunsAreAuthorised NoOrphanSkills FailedInstallRestores
