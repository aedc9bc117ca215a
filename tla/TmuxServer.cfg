CONSTANTS
  Terminals = {c1, c2, c3}
  Names = {main, work}
  main = main
  Nobody = Nobody
  c1 = c1
  c2 = c2
  c3 = c3
SPECIFICATION TmuxFairSpec
PROPERTIES ServerOutsideSandbox ConnectionsGetShells
