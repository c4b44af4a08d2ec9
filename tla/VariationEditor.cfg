CONSTANTS
  Editors = {"row", "new"}
  Target <- MCTarget
  i1 = i1
  i2 = i2
  Ids <- MCIds
  Contents = {nil, c}
  Nil = nil
  Bad = Bad
  Fields = {f}
  Blank = blank
  Inputs = {x, y}
  Requests = {q1, q2}
  Setups <- AllSetups
  MaxChanges = 2
  None = None
SPECIFICATION Spec
SYMMETRY Symmetry
INVARIANT ResultIsOfShown
PROPERTY StoredAsShown
CHECK_DEADLOCK FALSE
