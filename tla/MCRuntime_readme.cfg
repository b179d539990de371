SPECIFICATION TablesSpec
CONSTANTS
  void = void
  int64 = int64
  qubit = qubit
  l = l
  m = m
  n = n
  Natives <- TwoNatives
  VoidT = void
  Int64T = int64
  Names <- TwoNames
  Functions = {print}
  PrintFn = print
  Specialised <- TwoNatives
  NamedTypes <- TwoTypes
  NamedSigs <- TwoSigs
  NoType = NoType
  NoName = NoName
  NoSig = NoSig
  Raw = Raw
INVARIANTS DeclaredIsBuildable
