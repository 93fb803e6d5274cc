SPECIFICATION MCSpec
CONSTANTS
  Clients = {c1, c2}
  Slugs = {1, 2}
  CheckedSlugs = {2}
  MaxSends = 2
  Window = 1
  MaxUnlucky = 1
  MaxSections = 3
  Criteria = {k1, k2, k3}
  Paths = {f1, f2}
  Builds = {b1, b2}
  Vehicles = {b2}
  MinInstances = 2
  MaxCalls = 3
  angle_a = angle_a
  angle_b = angle_b
  Titles = {angle_a, angle_b}
  Wants <- MCWants
  Begins <- MCBegins
  MaxAttempts = 2
  MaxWrites = 3
  MaxMishaps = 1
  MaxSlides = 2
  MaxEditions = 2
  MaxFailures = 1
  Tasks = {s1, s2}
  Threads = {loop, builder}
  EventLoop = loop
  MaxChanges = 4
  MaxStarts = 1
INVARIANTS ToolsTypeOK TasksAreFiled SpecIsWhole NeighboursApart HumanWordStands PublishedOnce DashboardShowsFile FinishedIsTheModule RowsCurrent
PROPERTY SpecKept
CHECK_DEADLOCK FALSE
