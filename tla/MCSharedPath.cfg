SPECIFICATION Spec
CONSTANTS
  t1 = t1
  t2 = t2
  NoDate = NoDate
  NoPart = NoPart
  NoFile = NoFile
  Table = {t1}
  TableName <- MCTableName
  Rank <- MCRank
  System <- MCCollidingSystems
  Day = {1}
  Alnum = {"A", "B"}
  BatchRows = 2
  RecordRows = 2
  MaxRows = 2
PROPERTIES
  VisibleNeverChanges
