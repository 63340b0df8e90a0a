SPECIFICATION BSpec
CONSTANTS
  Layouts <- MCLayouts
  BatchRows = 2
  MaxRecords = 3
  MaxEntries = 2
INVARIANTS
  ColumnTypeOK
  ColumnContract
  BatchesAligned
  NoEntryLost
  FieldsReachTheirColumns
PROPERTIES
  ImplementsRowBuffer
CHECK_DEADLOCK FALSE
