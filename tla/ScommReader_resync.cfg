\* Noise bytes between frames of the types the resync scan recognises.
CONSTANTS
  Frames <- Scanned
  Noise <- ZeroNoise
  BufCap = 8
  MaxEmits = 4
SPECIFICATION Spec
INVARIANT TypeOK
INVARIANT ForwardedInOrder
CHECK_DEADLOCK FALSE
