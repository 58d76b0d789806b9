SPECIFICATION FairSpec
CONSTANTS
  Writer = {conn, data, sql}
  Lines = 2
  Capacity = 2
INVARIANTS
  TypeOK
  NoLineIsLost
  LogIsComplete
  SpinsOnlyAfterDeath
PROPERTIES
  StuckOnlyAtOpen
  LogProcessEnds
