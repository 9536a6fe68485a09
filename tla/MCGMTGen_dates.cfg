CONSTANTS
  w1 = w1
  w2 = w2
  w3 = w3
  Workers = {w1, w2, w3}
  Base = 2
  MaxTime = 2
SPECIFICATION Spec
SYMMETRY Symmetry
INVARIANT DateIsOfCallsAround
