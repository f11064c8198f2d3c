CONSTANTS
  Samples <- AllSamples
  Texts <- MCTexts
SPECIFICATION Spec
CHECK_DEADLOCK FALSE
INVARIANTS
  PageReadsValue
  ServerReadsPage
  NativeRoundTrip
  EqualTellsValues
  LessIsStrictOrder
  NamesTellTypes
