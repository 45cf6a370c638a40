SPECIFICATION FairlyFromOne
CONSTANTS
  Profiles = {here, there}
  Requests = {r1, r2, r3}
  None = None
  TTL = 1
  MinInterval = 2
  Retention = 2
  MaxRecords = 2
  MaxSkew = 1
  MaxTime = 3
  MaxEvents = 1
  MaxFailures = 1
CHECK_DEADLOCK FALSE
PROPERTIES
  HistoryKept
  DataRemainAvailable
