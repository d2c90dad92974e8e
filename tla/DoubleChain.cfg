SPECIFICATION Spec
CONSTANTS
  IndexRange = 3
  MaxTime = 3
INVARIANTS TypeOK ListsPartition
PROPERTY ImplementsIndexPool
