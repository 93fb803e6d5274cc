SPECIFICATION MCSpec
CONSTANTS
  Task = {t1, t2, t3}
  Machine = {haze, kush}
  Target = {haze, kush, mars}
  DefaultMachine = haze
  Priority <- MCPriority
  Stamp <- MCStamp
  Limit <- MCLimit
  DependsOn <- MCDependsOn
  Vehicle = {v1, v2}
  Copy = {1, 2}
  MaxQueued = 0
  Slots = 2
  MaxStrays = 3
  MaxRequests = 2
  MaxRestarts = 1
SYMMETRY MCSymmetry
INVARIANTS ServerTypeOK NoLostWakeup BudgetBehind AttentionReachesContainer ProcessesAreFew NoVehicleLost
PROPERTIES NothingDropped NoOvertaking
CHECK_DEADLOCK FALSE
