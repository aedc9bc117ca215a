CONSTANTS
  Conns = {c1}
  MaxSessions = 1
  Stalls = FALSE
  c1 = c1
  c2 = c2
SPECIFICATION FairSpec
PROPERTY ShellExitEndsSession
