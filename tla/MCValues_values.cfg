SPECIFICATION Spec
CONSTANTS
  Base = 3
  NoWord = NoWord
  Literals = {1}
  Lengths = {3}
  ElemSize = 2
  MaxCode = 7
  Quota <- SmallQuota
CONSTRAINT Sensible
INVARIANTS TypeOK RunAgrees ArmsHaveNoEffect
CHECK_DEADLOCK FALSE
