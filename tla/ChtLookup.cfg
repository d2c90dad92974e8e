SPECIFICATION ChtSpec
CONSTANTS
  MaxHeight = 3
  MaxCapacity = 2
INVARIANT ChosenFromPriorityList
