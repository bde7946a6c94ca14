SPECIFICATION Spec
CONSTANTS
  None = None
  r1 = r1
  r2 = r2
  c1 = c1
  c2 = c2
  x = x
  s1 = s1
  Routes = {r1, r2}
  Candidates = {c1, c2}
  Strangers = {x}
  Sources = {s1}
  MaxEvents = 6
SYMMETRY Symmetry
INVARIANTS
  OneLessonPerRoute
  CorrectionsStand
PROPERTIES
  NothingIsUndone
CHECK_DEADLOCK FALSE
