SPECIFICATION Spec
CONSTANTS
  A = A
  B = B
  Spaces = {A}
  N = 4
  U32Max = 4
  Boot <- BootUntyped
  Callers = {}
  RetypeTypes = {"Frame", "Untyped"}
  MaxPerObj = 2
  NewRights = {{"WRITE", "DERIVE"}, {"EXECUTE", "DERIVE"}}
  GrantModes = {}
  MaxObj = 1
INVARIANTS TypeOK DerivationMonotone NoAlias NoResidual WalkFindsDescendants
PROPERTIES RevokeComplete RevokeTerminates
CHECK_DEADLOCK FALSE
