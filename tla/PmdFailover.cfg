CONSTANTS
  NULL = NULL
  Empty = Empty
  Ones = Ones
  p1 = p1
  p2 = p2
  i1 = i1
  i2 = i2
  sr = sr
  dac = dac
  bad = bad
  Procs = {p1, p2}
  Intfs = {i1}
  Modules = {sr, bad}
  A0 <- MCA0
  A2 <- MCA2
  Cage <- MCCage
  Drops = FALSE
  Glitches = TRUE
SPECIFICATION Spec
INVARIANTS
  TypeOK
  ReadyMeansPublished
  OneScanner
  UnpublishedIsFlagged
PROPERTIES
  Converges
  BecomesReady
  LaserConverges
