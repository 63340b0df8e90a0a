SPECIFICATION RunSpec
CONSTANTS
  NoDate = NoDate
  NoPart = NoPart
  NoFile = NoFile
  Item <- MCCounters
  Table <- MCTable
  Type <- MCType
  TableName <- MCTableName
  Rank <- MCRank
  System <- MCSystem
  Day = {1}
  Alnum = {"A"}
  MaxItems = 2
  BatchRows = 2
  RecordRows = 2
  MaxRows = 4
INVARIANTS
  Lossless
