CONSTANTS
  Conns = {c1, c2}
  MaxSessions = 1
  Stalls = TRUE
  c1 = c1
  c2 = c2
SPECIFICATION Spec
INVARIANTS SlotsCounted NoZombie 
SYMMETRY Symmetry
