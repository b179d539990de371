SPECIFICATION RunSpec
CONSTANTS
  Builders = {b1, b2}
  NoBuilder = NoBuilder
  Functions = {v}
  VoidFunctions = {v}
  NoFunction = NoFunction
  MaxBlocks = 5
  MaxMisuses = 1
INVARIANTS RegistryExact TeardownSafe BlockOwnership MisuseIsCaught RunTypeOK ScriptNotMisused ExclusiveArms NeverRepeats
PROPERTIES RunReturns
CHECK_DEADLOCK FALSE
