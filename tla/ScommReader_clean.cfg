\* Every split of a clean stream of all five frame types into reads.
CONSTANTS
  Frames <- AllTypes
  Noise <- NoNoise
  BufCap = 8
  MaxEmits = 3
SPECIFICATION Spec
INVARIANT ForwardedInOrder
PROPERTY EveryFrameDispatched
CHECK_DEADLOCK FALSE
