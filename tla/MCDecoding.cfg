SPECIFICATION Spec
CONSTANTS
  NoDay = NoDay
  HeaderDates <- MCDates
  Years = {0, 124, 1969, 1970, 1972, 1999, 2000, 2001, 2023, 2024, 2099, 2100, 9999}
  HeaderTimes = {0, 8639999, 8640000, 5025678}
  MaxU32 = 100000
  Inputs <- MCInputs
  Framed <- MCFramed
  RecordType = {26, 30, 70, 71, 72, 73, 74, 75, 76, 77, 78, 79, 98, 99, 113, 1154}
  Subtype = {0, 1, 2, 3, 4, 5, 6, 7, 8, 9, 10, 12, 13, 14, 83, 84}
INVARIANTS
  FiledUnderItsDay
  OffCalendarIsMarked
  TimeInItsDay
  ReadsInsideRecord
  EntriesThatFit
  FieldsInPlace
  LongEntriesComplete
  RoutedIsClosed
  RoutedIsReported
  NamesDistinguish
  ParserAgrees
  OneMeaning
  AbortsExplained
  OutsideOnlyByWrap
CHECK_DEADLOCK FALSE
