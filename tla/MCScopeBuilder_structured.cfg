SPECIFICATION Spec
CONSTANTS
  Builders = {b1, b2, b3}
  NoBuilder = NoBuilder
  Functions = {f}
  VoidFunctions = {}
  NoFunction = NoFunction
  MaxBlocks = 7
  MaxMisuses = 0
SYMMETRY Symmetry
INVARIANTS TypeOK BlocksClosed StructuredFlow ArmsEntered WaysMeet
PROPERTIES BuildsStructuredProgram
CHECK_DEADLOCK FALSE
