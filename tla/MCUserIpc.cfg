SPECIFICATION Spec
CONSTANTS
  Boot = Boot
  None = None
  Srv = Srv
  Cli = Cli
  Cli2 = Cli2
  Wtr = Wtr
  Procs = {Srv, Cli, Wtr}
  Plans <- DemoAndAny
INVARIANTS ServedOnce OneCallerAnswered RequestNotLost HasWaiter
PROPERTIES DemoEnds
