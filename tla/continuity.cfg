\* Two channels with pods of their own, one of which comes and goes, unready; every fault, once.
SPECIFICATION HistorySpec
CONSTANTS
  NoEndpoints = NoEndpoints
  Channels = {1, 2}
  PortNames = {"api"}
  Addrs = {"a", "b"}
  Contents <- UnreadyPodChanges
  Faults = {"abort", "early", "hasty", "restart", "delete", "empty"}
  MaxEdits = 3
  MaxFaults = 1
  MaxQueue = 1
INVARIANTS
  TypeOK
  SteadyIsSecured
  OnlyRacesLoseReports
PROPERTIES
  ServedPodsStayServed
  CalmPassesAreRight
