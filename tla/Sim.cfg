CONSTANTS
  NULL = NULL
  Empty = Empty
  Ones = Ones
  i1 = i1
  i2 = i2
  base = base
  ext = ext
  sr = sr
  bad = bad
  Modules = {sr, bad}
  A0 <- MCA0
  A2 <- MCA2
  Cage = "SFP_PLUS"
  Names = {i1}
  Subs = {base}
  HwDesc <- MCHwDesc
  YamlFails = TRUE
SPECIFICATION Spec
INVARIANTS
  TypeOK
  UnflaggedIsPublished
PROPERTIES
  PresenceReachesRow
  Answered
