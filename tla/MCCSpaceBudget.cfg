SPECIFICATION Spec
CONSTANTS
  A = A
  B = B
  Spaces = {A, B}
  N = 3
  U32Max = 2
  Boot <- BootGrantSched
  Callers = {}
  RetypeTypes = {}
  MaxPerObj = 0
  NewRights = {{"DERIVE", "GRANT"}}
  GrantModes = {"Move"}
  MaxObj = 2
PROPERTIES BudgetConserved
CHECK_DEADLOCK FALSE
