SPECIFICATION Spec
CONSTANTS
  NoDay = NoDay
  HeaderDates <- MCDates
  Years = {2025}
  HeaderTimes = {0}
  MaxU32 = 100000
  Inputs <- TestInputs
  Framed <- NoFramed
  RecordType = {26, 30, 70, 71, 72, 73, 74, 75, 76, 77, 78, 79, 98, 99, 113, 1154}
  Subtype = {0, 1, 2, 3, 4, 5, 6, 7, 8, 9, 10, 12, 13, 14, 83, 84}
INVARIANTS
  TestFieldsRead
CHECK_DEADLOCK FALSE
