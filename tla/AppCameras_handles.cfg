SPECIFICATION Spec
CONSTANTS
  Cameras = {c1, c2}
  Visits = {v1, v2}
  Previews = {p1, p2}
  Openers = {o1, o2}
  MaxLate = 1
  None = None
INVARIANTS HandOverInv  WindowShowsChosen
SYMMETRY HolderSymmetry
CHECK_DEADLOCK FALSE
