SPECIFICATION ChtSpec
CONSTANTS
  MaxHeight = 11
  MaxCapacity = 5
INVARIANTS RowsArePriorityLists AbortsOnlyOnArguments
PROPERTY FillEnds
