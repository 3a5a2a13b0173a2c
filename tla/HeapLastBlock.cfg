SPECIFICATION Spec
CONSTANTS
  HeapSize = 36
  HeaderSize = 3
  OffsetSize = 2
  MaxOffset = 9
  MinPayload = 5
  Sizes = {1}
  Alignments = {4}
  MaxLive = 3
INVARIANT PreviousSwallows
CHECK_DEADLOCK FALSE
