CONSTANTS
  Servers = {a, b, c}
  HostOf <- TwoAtDefault
  Ids = {i1, i2}
  None = None
  a = a
  b = b
  c = c
  i1 = i1
  i2 = i2
SPECIFICATION FairSpec
INVARIANT AnswerFromThisAddress
PROPERTY RecoveryShown
