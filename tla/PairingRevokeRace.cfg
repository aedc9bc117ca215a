CONSTANTS
  Procs = {p1, p2}
  Names = {n1, n2}
  Creds = {c1, c2, c3}
  HostIPs = {2, 3, 4}
  InitPeers <- UpgradedPeers
  InitEntries <- UpgradedEntries
  Serial = FALSE
  ReadFaults = FALSE
  NoCred = NoCred
  c1 = c1
  c2 = c2
  c3 = c3
  n1 = n1
  n2 = n2
SPECIFICATION Spec
INVARIANT RevokedTokenDeleted
