\* Three muxes configured with one ConfigMap.
SPECIFICATION FairSpec
CONSTANTS
  Muxes = {m1, m2, m3}
  NoMux = NoMux
  NoConfigMap = NoConfigMap
  MaxEvents = 3
INVARIANTS
  TypeOK
  NoForeignClaims
PROPERTIES
  OnlyRacedStateIsLost
  OneMuxKeepsTheState
