\* Two channels, users who write the same annotations.
SPECIFICATION MCSpec
CONSTANTS
  Channels = {1, 2}
  Bodies <- SomeBodies
  Addresses = {ip}
  Pods = {0, 2}
  NoBody = NoBody
  Absent = Absent
  UserValue = UserValue
  MaxEvents = 3
INVARIANTS
  TypeOK
  PublishedKeysAreTracked
PROPERTIES
  OnlyRacedEditsAreLost
  UnracedPassesSettle
  AnnotationsSettle
