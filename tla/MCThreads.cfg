SPECIFICATION Spec
CONSTANTS
  main = main
  a = a
  b = b
  c = c
  Thread = {main, a, b, c}
  Main = main
  Base <- MCBase
  Mutex = {m1, m2}
  Ref = {r1}
  Quantum = 1
  None = None
INVARIANTS
  ListsAgree
  WaitsAgree
  PriorityOrder
  Inherited
PROPERTIES
  MessageStays
  RoundRobin
