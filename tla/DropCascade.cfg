SPECIFICATION FairCascadeSpec

CONSTANTS
  Schema <- MCSchema
  Requests <- MCRequestsCascade
  MaxRowId = 4

INVARIANTS
  CascadeTypeOK
  DepthBounded
  ReferentialIntegrity
  NoPanic

PROPERTIES
  DropReturns
  DropIsAtomic
