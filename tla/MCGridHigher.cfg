SPECIFICATION MCSpec
CONSTANTS
  N = 3
  Limit = 2
  Modes = 2
  Tapes <- TapesDef
PROPERTIES
  HigherCausal
