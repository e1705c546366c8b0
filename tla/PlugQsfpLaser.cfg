CONSTANTS
  NULL = NULL
  Empty = Empty
  Ones = Ones
  sr = sr
  dark = dark
  dac = dac
  odd = odd
  bad = bad
  sr4 = sr4
  cr4 = cr4
  clr4 = clr4
  bad4 = bad4
  Modules = {sr4, cr4}
  A0 <- MCA0
  A2 <- MCA2
  Cage = "QSFP_PLUS"
  HasReset = TRUE
  FastSwap = FALSE
  BusFails = FALSE
SPECIFICATION EmptyCageSpec
INVARIANTS
  LaserObeys
