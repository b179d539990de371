SPECIFICATION ScopesSpec
CONSTANTS
  Builders = {b1, b2, b3}
  NoBuilder = NoBuilder
  Functions = {f}
  VoidFunctions = {}
  NoFunction = NoFunction
  MaxBlocks = 6
  MaxMisuses = 0
  Names = {x}
  MaxScopes = 5
SYMMETRY Symmetry
INVARIANTS ScopesTypeOK NamesDominate
CHECK_DEADLOCK FALSE
