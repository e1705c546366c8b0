CONSTANTS
  NULL = NULL
  Empty = Empty
  Ones = Ones
  i1 = i1
  i2 = i2
  base = base
  ext = ext
  Modules = {}
  A0 <- NoPages
  A2 <- NoPages
  Names = {i1, i2}
  Subs = {base, ext}
  HwDesc <- MCHwDesc
  YamlFails = TRUE
SPECIFICATION RowsSpec
INVARIANTS
  RowsTypeOK
  TablesMatchRows
  RowsServed
  RequestsApplied
