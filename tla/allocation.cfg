\* Automatic and static ports, one or two to a channel, for two protocols, under
\* changing ranges and limits; the ConfigMap is deleted, the mux reset.
SPECIFICATION Spec
CONSTANTS
  AutoPort = AutoPort
  NoChannel = NoChannel
  NoOwner = NoOwner
  NoLimit = NoLimit
  Channels = {1, 2}
  PortNames = {1, 2}
  Ports = {1, 2, 3}
  Protocols = {"TCP", "UDP"}
  SpecChoices <- MixedSpecs
  Settings <- ChangingSettings
  LegacyClaims <- NoLegacy
  Edits = {"create", "delete", "settings"}
  Faults = {"delete", "reset"}
  MaxEdits = 3
  MaxFaults = 1
INVARIANTS
  WithinLimit
PROPERTIES
  AutoAssignmentStable
  ImplementsRegistry
