SPECIFICATION GrantsSpec
CONSTANTS
  A = A
  B = B
  Spaces = {A, B}
  N = 3
  U32Max = 2
  Boot <- BootGrantSched
  Callers = {0}
  RetypeTypes = {"Frame"}
  MaxPerObj = 1
  NewRights = {{"WRITE"}, {"DERIVE", "GRANT"}}
  GrantModes = {"Move", "Mint"}
  MaxObj = 2
INVARIANTS  ParentsLive
PROPERTIES BudgetNotForged
CHECK_DEADLOCK FALSE
