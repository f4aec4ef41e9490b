\* Two one-port channels contending for two ports: every edit, and at any moment
\* a crash of the operator, a placeholder written over the mux, or a ConfigMap
\* that is deleted or overwritten with something else.
SPECIFICATION Spec
CONSTANTS
  AutoPort = AutoPort
  NoChannel = NoChannel
  NoOwner = NoOwner
  NoLimit = NoLimit
  Channels = {1, 2}
  PortNames = {1}
  Ports = {1, 2}
  Protocols = {"TCP"}
  SpecChoices <- ContendingSpecs
  Settings <- RangeOneTwo
  LegacyClaims <- LegacyAuto
  Edits = {"create", "update", "delete"}
  Faults = {"abort", "corrupt", "delete", "reset"}
  MaxEdits = 4
  MaxFaults = 1
INVARIANTS
  TypeOK
  OneOwnerPerSlot
  PersistedClaimsDisjoint
  PersistedStaticOwnerServed
PROPERTIES
  PublishedPortsAreClaimed
  NoLivePortTakenOver
