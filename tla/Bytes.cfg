CONSTANTS
  NULL = NULL
  Modules = {}
  A0 <- NoPages
  A2 <- NoPages
  Ones = Ones
  Pages <- MCPages
  Buffers <- MCBuffers
  Ouis <- MCOuis
  Fields <- MCFields
  Temperatures <- MCTemperatures
  Words <- MCWords
SPECIFICATION Spec
INVARIANTS
  SingleByteErrorDetected
  HexFaithful
  StripKeepsText
  TemperatureIsCurrent
  DriftBounded
  PublishesWhatIsSet
