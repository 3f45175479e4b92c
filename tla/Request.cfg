SPECIFICATION Spec
CONSTANTS
  Muxes = {"outer", "inner"}
  Outer = "outer"
  Segments = {"a", "b", "c", "d", "x", "y"}
  Handlers = {"leaf"}
  Routes <- MCRoutes
  Stacks <- MCStacks
  Requests <- MCRequests
  Servers <- MCServers
  MaxDepth = 5
  MaxCalls = 3
CHECK_DEADLOCK FALSE
INVARIANTS
  TypeOK
  NoLoop
  Stripped
  StatusTrue
  OptionsAnswered
  HandlersHeard
PROPERTY Restored
