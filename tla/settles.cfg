\* Once users stop creating and deleting channels, and GitOps resets, conflicts are real.
SPECIFICATION FairSpec
CONSTANTS
  AutoPort = AutoPort
  NoChannel = NoChannel
  NoOwner = NoOwner
  NoLimit = NoLimit
  Channels = {1, 2, 3}
  PortNames = {1}
  Ports = {1, 2}
  Protocols = {"TCP"}
  SpecChoices <- FixedSpecs
  Settings <- RangeOneTwo
  LegacyClaims <- NoLegacy
  Edits = {"create", "delete"}
  Faults = {"abort", "reset"}
  MaxEdits = 4
  MaxFaults = 1
PROPERTIES
  EveryChannelServedOrBlocked
