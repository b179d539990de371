SPECIFICATION TablesSpec
CONSTANTS
  void = void
  int64 = int64
  qubit = qubit
  l = l
  m = m
  n = n
  Natives <- MCNatives
  VoidT = void
  Int64T = int64
  Names <- MCNames
  Functions = {print}
  PrintFn = print
  Specialised <- MCSpecialised
  NamedTypes <- MCNamedTypes
  NamedSigs <- MCNamedSigs
  NoType = NoType
  NoName = NoName
  NoSig = NoSig
  Raw = Raw
INVARIANTS TypeOK AbiMatches NativeAlwaysResolves NativeArgumentsFit
PROPERTIES DefinitionsAreFinal
