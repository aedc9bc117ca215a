CONSTANTS
  Servers = {s1, s2}
  Tunnelled = {s1, s2}
  Tokens = {t1, t2}
  Procs = {p1}
  Settings <- BothSettings
  None = None
  Torn = Torn
  s1 = s1
  s2 = s2
  t1 = t1
  t2 = t2
  p1 = p1
SPECIFICATION Spec
INVARIANTS TypeOK ActiveIsLive TunnelIsActive SomeServerActive
PROPERTY FailedActivationUndone
