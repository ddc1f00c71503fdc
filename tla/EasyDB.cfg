SPECIFICATION Spec

CONSTANTS
  Schema <- MCSchema
  Requests <- MCRequestsBlind
  MaxRowId = 4

INVARIANTS
  TypeOK
  RowsWellTyped
  ReferentialIntegrity
  IdsUnique

PROPERTIES
  NoResurrection
  RejectedIsNoop
