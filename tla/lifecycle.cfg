\* Two muxes, between which a channel moves; crashes and restarts.
CHECK_DEADLOCK FALSE
SPECIFICATION MCSpec
CONSTANTS
  NoMux = NoMux
  NoChannel = NoChannel
  NoKey = NoKey
  Muxes = {m1, m2}
  Channels = {c1}
  Faults = {"abort", "restart"}
  MaxEvents = 2
INVARIANTS
  TypeOK
  DaemonReadsTheQueue
  ShownChannelsHaveTheirMux
PROPERTIES
  LiveMuxesAreServed
  DeletionCompletes
