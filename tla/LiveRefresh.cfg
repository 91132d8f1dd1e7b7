\* Up to six records, pages of one or two, four pages, three edits.
CONSTANTS
  MaxId = 6
  Asked = 2
  MaxPages = 4
  MaxRecords = 5
  MaxEdits = 3
SPECIFICATION Spec
CHECK_DEADLOCK FALSE
INVARIANTS
  QuietIsExact
  MissingNeedsDeletion
