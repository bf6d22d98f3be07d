SPECIFICATION Spec
CONSTANTS
  i1 = i1
  i2 = i2
  v1 = v1
  None = None
  Instances = {i1, i2}
  Services = {v1}
  Mode <- AllWait
  Roots = {1}
  MaxRow = 4
  ServiceOf <- OneService
  Recurs <- RecurOnce
  MaxRetry = 0
  AdminOps = {}
  MaxFaults = 1
CHECK_DEADLOCK FALSE
PROPERTY JobsEnd
