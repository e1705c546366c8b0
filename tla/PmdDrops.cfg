CONSTANTS
  NULL = NULL
  Empty = Empty
  Ones = Ones
  p1 = p1
  p2 = p2
  i1 = i1
  i2 = i2
  sr = sr
  dac = dac
  bad = bad
  Procs = {p1}
  Intfs = {i1, i2}
  Modules = {dac}
  A0 <- MCA0
  A2 <- MCA2
  Cage <- MCCage
  Drops = TRUE
  Glitches = FALSE
SPECIFICATION Spec
INVARIANTS
  ReadyMeansPublished
