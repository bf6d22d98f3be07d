SPECIFICATION Spec
CONSTANTS
  i1 = i1
  i2 = i2
  v1 = v1
  None = None
  Instances = {i1, i2}
  Services = {v1}
  Mode <- AllWait
  Roots = {1}
  MaxRow = 3
  ServiceOf <- OneService
  Recurs <- RecurOnce
  MaxRetry = 1
  AdminOps = {"cancel", "noRetry", "reset"}
  MaxFaults = 2
INVARIANTS TypeOK SingleStart NotStranded SemaphoreHeldByBody CancelHonoured ScheduleLives OneHeir
CHECK_DEADLOCK FALSE
SYMMETRY InstanceSymmetry
