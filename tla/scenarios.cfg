SPECIFICATION ScenariosSpec
CONSTANTS
  t1 = t1  t2 = t2
  a1 = a1  a2 = a2  b1 = b1
  l1 = l1  l2 = l2
  i1 = i1  i2 = i2
  absent = absent
  d1 = d1
  Invalid = Invalid
  None = None
  Procs = {a1, a2, b1, l1, l2}
  Ids = {i1, i2, absent}
  Bodies <- TheBodies
  Ops = {"get", "create", "update", "deleteCompletely"}
  Collisions = FALSE
  Lag = TRUE
  Faults = {}
  MaxVersion = 3
  Retries = 2
  Runners = {t1, t2}
  Own <- Hands
  Template <- DemoTemplate
  Absent = absent
SYMMETRY Symmetry
VIEW Relevant
CHECK_DEADLOCK FALSE
INVARIANTS ScenariosPass NothingLeft
