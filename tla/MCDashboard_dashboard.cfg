SPECIFICATION Spec
CONSTANTS
  n1 = n1
  n2 = n2
  n3 = n3
  Nodes = {n1, n2, n3}
  Cores <- CoresOfNodes
  Memory <- MemoryOfNodes
  Loads = {0, 1, 2}
  g1 = g1
  g2 = g2
  g3 = g3
  Guests = {g1, g2, g3}
  KindOf <- KindOfGuests
  Templates = {g3}
  HostOf <- HostOfGuests
  Mounting = {1, 2, 3}
  Fills = {1, 2}
  Services = {s1, s2}
  Instants = {0, 10, 30, 31, 40, 60, 61}
  Skews <- SkewsOfTheClock
  Devices = {d1, d2}
  Sizes = {1, 2}
  MaxMounts = 3
  Interfaces = {e1, e2}
  Noise = {"link-local"}
  MaxInterfaces = 2
  Paths <- AclPaths
  Privileges = {"Sys.Audit", "VM.PowerMgmt", "VM.GuestAgent.Unrestricted"}
  Values = {"pve1", "101"}
  Methods = {"GET", "POST", "PUT", "DELETE"}
  MaxChanges = 1
  MaxGrants = 2
  Readings = {0, 1}
  MaxLines = 2
  Jobs = {j1, j2}
  LastMinute = 3
  MaxTasks = 3
  Times = {1, 2}
  MaxEntries = 3
  r1 = r1
  r2 = r2
  Routes = {r1, r2}
  Parameters <- ParametersOfRoutes
  RoutePrivileges = {"Sys.Audit", "VM.PowerMgmt"}
  CheckNames = {"none", "audit", "power", "both", "any", "optional", "or", "and", "nested"}
  Shape <- ShapeOfChecks
  NoCheck = "none"
  Checks <- ChecksOfRoutes
  Callers = {t1, t2}
  Places = {n1, n2}
  Machines = {v1}
  MaxCalls = 3
  RetriesOn401 = TRUE
SYMMETRY Symmetry
INVARIANTS TypeOK FiguresAreOfTheLiving MasterIsNotMisjudged TwiceOnlyAfterALoss VerdictIsHonest PassingTestsMeanAgreement
PROPERTIES RefusalIsForetold RouteFindsItself OutageIsNoRelief AMountLostChangesNoFigure DisarmingHidesNothing MountedAgainChangesNothing PrimaryChangesWithCause NoiseChangesNothing LagIsNotHidden BackupShownIsTheLastOne
CHECK_DEADLOCK FALSE
