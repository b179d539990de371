SPECIFICATION Spec
CONSTANTS
  Builders = {b1, b2}
  NoBuilder = NoBuilder
  Functions = {f}
  VoidFunctions = {}
  NoFunction = NoFunction
  MaxBlocks = 4
  MaxMisuses = 1
SYMMETRY Symmetry
PROPERTIES FinalisedBlocksUnmodified
CHECK_DEADLOCK FALSE
