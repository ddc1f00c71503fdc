SPECIFICATION OrmSpec

CONSTANTS
  s1 = s1
  s2 = s2
  Sessions <- MCSessions
  Contents = {0, 1}
  MaxVersion = 2
  Schema <- OrmSchema
  Requests = {}
  MaxRowId = 2

INVARIANTS
  OrmTypeOK
  NoLostUpdate
  OwnVersionCurrent

PROPERTIES
  CallsReturn
