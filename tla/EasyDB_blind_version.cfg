SPECIFICATION Spec

CONSTANTS
  Schema <- MCSchema
  Requests <- MCRequestsBlind
  MaxRowId = 4

PROPERTIES
  VersionAdvances
