SPECIFICATION Spec
CONSTANTS
  A = A
  B = B
  Spaces = {A, B}
  N = 3
  U32Max = 2
  Boot <- BootGrantFrame
  Callers = {}
  RetypeTypes = {"Frame"}
  MaxPerObj = 1
  NewRights = {{"WRITE"}, {"DERIVE", "GRANT"}}
  GrantModes = {"Mint"}
  MaxObj = 2
PROPERTIES NeverWipesOwned
CHECK_DEADLOCK FALSE
