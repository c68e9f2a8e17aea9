SPECIFICATION Spec
CONSTANTS
  b1 = b1
  b2 = b2
  b3 = b3
  b4 = b4
  a1 = a1
  a2 = a2
  p1 = p1
  p2 = p2
  Procs = {p1, p2}
  Blocks = {b1, b2, b3, b4}
  ASpaces = {a1, a2}
  Kernel = Kernel
  None = None
  Budgets = {1, Forever}
  Forever = Forever
  MaxTasks = 6
INVARIANTS CurrentRuns CpuMatches StacksConserved TablesSafe
PROPERTIES NoStarvation
