SPECIFICATION ToySpec
CONSTANTS
  Base = 10
  NoWord = NoWord
  Literals = {1}
  Lengths = {1, 2}
  ElemSize = 8
  MaxCode = 32
  Quota <- NoQuota
  n1 = n1
  n2 = n2
  print = print
  main = main
  Names = {n1, n2}
  Functions = {print, main}
  Imported = {print}
  Expressions <- Programs64
  Room = 26
CONSTRAINT Meaningful
INVARIANTS ElementsInBounds
CHECK_DEADLOCK FALSE
