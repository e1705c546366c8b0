CONSTANTS
  NULL = NULL
  Empty = Empty
  Ones = Ones
  sr = sr
  dark = dark
  dac = dac
  odd = odd
  bad = bad
  sr4 = sr4
  cr4 = cr4
  clr4 = clr4
  bad4 = bad4
  Modules = {sr, dac}
  A0 <- MCA0
  A2 <- MCA2
  Cage = "SFP_PLUS"
  HasReset = FALSE
  FastSwap = FALSE
  BusFails = FALSE
SPECIFICATION Spec
INVARIANTS
  AbsentIsBare
