SPECIFICATION Spec
CONSTANTS
  c1 = c1
  c2 = c2
  c3 = c3
  u1 = u1
  u2 = u2
  s1 = s1
  s2 = s2
  Conns = {c1, c2}
  Users = {u1, u2}
  Sweepers = {s1}
  NumShards = 1
  Modes = {"Manual", "Automatic", "Deadline"}
  NoProc = NoProc
  NoConn = NoConn
SYMMETRY Symmetry
INVARIANTS
  TypeOK
  RegistryExact
  OutstandingCounted
  NoIdleEscapes
  RequestsSurvive
  DisownedLeftAlone
  DrainWaits
