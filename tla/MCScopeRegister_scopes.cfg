SPECIFICATION Spec
CONSTANTS
  Names = {x, y}
  Values = {v1, v2}
  NoValue = NoValue
  MaxScopes = 4
SYMMETRY Symmetry
INVARIANTS TypeOK HasIsBacked GetFindsNearest
PROPERTIES DeclarePreservesMeaning
CHECK_DEADLOCK FALSE
