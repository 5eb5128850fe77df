SPECIFICATION FairSpec
CONSTANTS
  Objects = {o1}
  Requests = {r1, r2, r3}
  Cron = cron
  Keys = {k1}
  None = None
  MaxFaults = 1
INVARIANTS UploadedIsStored NothingOrphaned
PROPERTIES StoredIsSpared Processed
CHECK_DEADLOCK FALSE
