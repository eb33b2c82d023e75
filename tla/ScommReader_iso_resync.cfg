\* Noise before an ISO frame: the resync scan does not recognise ISO.
CONSTANTS
  Frames <- AllTypes
  Noise <- ZeroNoise
  BufCap = 8
  MaxEmits = 3
SPECIFICATION Spec
INVARIANT ForwardedInOrder
CHECK_DEADLOCK FALSE
