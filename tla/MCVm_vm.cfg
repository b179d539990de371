SPECIFICATION VmSpec
CONSTANTS
  void = void
  int64 = int64
  m = m
  n = n
  Natives <- MCNatives
  VoidT = void
  Int64T = int64
  Names <- MCNames
  print = print
  main = main
  Functions <- MCFunctions
  PrintFn = print
  ProcessSymbols = {main}
  ClientTypes <- MCClientTypes
  ClientSigs <- MCClientSigs
  NoType = NoType
  NoName = NoName
  NoSig = NoSig
  NoScript = NoScript
  Raw = Raw
INVARIANTS VmTypeOK LinkedCallsFit RunnableStaysRunnable DefinedIsAvailable
CHECK_DEADLOCK FALSE
