SPECIFICATION Spec
CONSTANTS
  ann = ann
  bob = bob
  c1 = c1
  c2 = c2
  Emails = {ann, bob}
  InitialAdmin = ann
  Clients = {c1, c2}
  Codes = {k1}
  Requests = {r1, r2}
  Workloads <- MCWorkloads
  None = None
  MaxTokens = 3
  MaxFaults = 1
INVARIANTS OneLivePerLogin HonestStays IssuedByApproval
PROPERTIES AdminRemains
SYMMETRY Symmetry
CHECK_DEADLOCK FALSE
