\* The Endpoints of a new channel are reported before its Service.
SPECIFICATION FairSpec
CONSTANTS
  NoEndpoints = NoEndpoints
  Channels = {1}
  PortNames = {"api"}
  Addrs = {"a"}
  Contents <- OnePod
  Faults = {"early"}
  MaxEdits = 1
  MaxFaults = 0
  MaxQueue = 1
PROPERTIES
  EventsUpdateTheCache
