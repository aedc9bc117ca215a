CONSTANTS
  Names = {n1, n2}
  Creds = {c1, c2, c3}
  Nobody = Nobody
  Requests = {r1, r2}
  Hands = {h1}
  Settings <- OverlapAndAlone
  n1 = n1
  n2 = n2
  c1 = c1
  c2 = c2
  c3 = c3
  r1 = r1
  r2 = r2
  h1 = h1
SPECIFICATION Spec
INVARIANTS AnswersAreTrue NeverCutsItselfOff
SYMMETRY Symmetry
