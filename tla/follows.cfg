\* The mux Endpoints catch up with restarts, deletions and edits.
SPECIFICATION FairSpec
CONSTANTS
  NoEndpoints = NoEndpoints
  Channels = {1, 2}
  PortNames = {"api"}
  Addrs = {"a", "b"}
  Contents <- OnePodChanges
  Faults = {"abort", "restart", "delete", "empty"}
  MaxEdits = 2
  MaxFaults = 2
  MaxQueue = 1
PROPERTIES
  MuxFollowsChannels
