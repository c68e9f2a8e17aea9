SPECIFICATION Spec
CONSTANTS
  Boot = Boot
  None = None
  Srv = Srv
  Cli = Cli
  Cli2 = Cli2
  Wtr = Wtr
  Procs = {Srv, Cli, Cli2}
  Plans <- TwoClients
INVARIANTS AnswersOwn
