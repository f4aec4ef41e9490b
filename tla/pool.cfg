\* Two channels that can keep both threads from their mux.
SPECIFICATION FairSpec
CHECK_DEADLOCK FALSE
CONSTANTS
  Muxes = {m1}
  Channels = {c1, c2}
  NoMux = NoMux
  NoChannel = NoChannel
  Bodies <- SomeBodies
  Workers = 2
  Faults = {"abort"}
  MaxEvents = 5
INVARIANTS
  TypeOK
  NoChangeIsForgotten
  MuxesAreInHand
PROPERTIES
  LiveMuxesHaveDaemons
  DeletionsComplete
  MuxesHearOfChanges
