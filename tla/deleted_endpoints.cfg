\* Somebody deletes the mux Endpoints.
SPECIFICATION FairSpec
CONSTANTS
  NoEndpoints = NoEndpoints
  Channels = {1}
  PortNames = {"api"}
  Addrs = {"a"}
  Contents <- OnePod
  Faults = {"delete"}
  MaxEdits = 1
  MaxFaults = 1
  MaxQueue = 1
PROPERTIES
  DriftIsCorrected
