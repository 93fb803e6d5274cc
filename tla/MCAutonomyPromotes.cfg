SPECIFICATION AutonomySpec
CONSTANTS
  Builds = {b1, b2}
  Vehicles = {}
  MinInstances = 2
  MaxCalls = 3
PROPERTIES GoodIsPromoted
CHECK_DEADLOCK FALSE
