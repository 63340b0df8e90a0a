SPECIFICATION RunSpec
CONSTANTS
  NoDate = NoDate
  NoPart = NoPart
  NoFile = NoFile
  Item <- MCItem
  Table <- MCTable
  Type <- MCType
  TableName <- MCTableName
  Rank <- MCRank
  System <- MCSystem
  Day = {1}
  Alnum = {"A"}
  MaxItems = 3
  BatchRows = 2
  RecordRows = 2
  MaxRows = 6
INVARIANTS
  BatchTypeOK
  EndToEnd
  ReportTruthful
  FailuresExplained
PROPERTIES
  EventuallyEnds
  RefinesTables
  StepsLeftShrink
