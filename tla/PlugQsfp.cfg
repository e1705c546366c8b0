CONSTANTS
  NULL = NULL
  Empty = Empty
  Ones = Ones
  sr = sr
  dark = dark
  dac = dac
  odd = odd
  bad = bad
  sr4 = sr4
  cr4 = cr4
  clr4 = clr4
  bad4 = bad4
  Modules = {clr4, cr4, bad4}
  A0 <- MCA0
  A2 <- MCA2
  Cage = "QSFP28"
  HasReset = TRUE
  FastSwap = FALSE
  BusFails = TRUE
SPECIFICATION CSpec
PROPERTIES
  NoResetInService
  ScanTerminates
  DetectsInsertion
  ImplementsPortReport
  ScanKeepsContract
