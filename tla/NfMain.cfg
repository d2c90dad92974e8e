SPECIFICATION LoopSpec
CONSTANTS
  DevicesCount = 3
  RxQueueSize = 1
  TxQueueSize = 1
  MbufCount = 7
  CloneCount = 2
INVARIANTS RefcntsExact BuffersSuffice
PROPERTY RingsAreServed
