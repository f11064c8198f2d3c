CONSTANTS
  Samples <- OptionSamples
  Texts <- MCTexts
SPECIFICATION Spec
CHECK_DEADLOCK FALSE
INVARIANTS
  ArgumentsArrive
