SPECIFICATION Spec
CONSTANTS
  Registrars = {r1}
  Requests = {q1}
  Additions <- MCAdditions
  Paths <- MCPaths
  Method <- MCMethod
  MaxRoutes = 4
  Bytecode <- Compile
  NoProc = NoProc
  NoMachine = NoMachine
ACTION_CONSTRAINT RunAlone
INVARIANTS
  TypeOK
  NaiveRouting
  MachinesLawful
  NoLoop
  NoStaleMachine
  AllowedMethods
