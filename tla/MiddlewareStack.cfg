SPECIFICATION Spec
CONSTANTS
  a = a
  b = b
  x1 = x1
  x2 = x2
  s1 = s1
  s2 = s2
  Layers = {a, b}
  Calls = {x1, x2}
  Stacks = {s1, s2}
  TornLists <- MCTornLists
  MaxChanges = 3
  MaxLayers = 3
  NoCall = NoCall
  NoStack = NoStack
  Blank = Blank
SYMMETRY Symmetry
INVARIANTS
  TypeOK
  StacksPrivate
  PoolCurrent
PROPERTY ContractSpec
