SPECIFICATION WebSpec
CONSTANTS
  t1 = t1
  t2 = t2
  Tabs = {t1, t2}
  Calls = {1, 2}
  Rows = {r1}
  Items = {i1}
  Pages = {1, 2}
  Workloads <- MCWorkloads
  None = None
  MaxGen = 4
  MaxVersion = 3
  MaxFaults = 1
INVARIANTS KeepsSession ListIsOfQuery
PROPERTIES SavesOverSeen
CHECK_DEADLOCK FALSE
