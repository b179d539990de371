SPECIFICATION ToySpec
CONSTANTS
  Base = 3
  NoWord = NoWord
  Literals = {1}
  Lengths = {1, 2}
  ElemSize = 1
  MaxCode = 37
  Quota <- NoQuota
  n1 = n1
  n2 = n2
  print = print
  main = main
  Names = {n1, n2}
  Functions = {print, main}
  Imported = {print}
  Expressions <- ProgramsOps
  Room = 26
CONSTRAINT Meaningful
INVARIANTS OperatorsMeanSource
CHECK_DEADLOCK FALSE
