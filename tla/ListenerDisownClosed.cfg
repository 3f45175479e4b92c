SPECIFICATION Spec
CONSTANTS
  c1 = c1
  c2 = c2
  c3 = c3
  u1 = u1
  u2 = u2
  s1 = s1
  s2 = s2
  Conns = {c1, c2, c3}
  Users = {u1}
  Sweepers = {s1}
  NumShards = 2
  Modes = {"Automatic"}
  NoProc = NoProc
  NoConn = NoConn
SYMMETRY Symmetry
INVARIANT DrainWaitsForAll
