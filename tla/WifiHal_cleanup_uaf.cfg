\* A successful skw_wifi_initialize and one netlink event that wakes the
\* event loop between cleanup's hal->exit = true and its write.
SPECIFICATION Spec
CONSTANTS
  InitFailAt <- OnlySuccess
  MaxNlEvents = 1
  BandMasks = {1}
  IfaceMasks = {1}
  ChanReplies <- Replies
  MaxSizes = {1}
  Dumps <- IfaceDumps
  SKW_NR_IFACE = 2
  Garbage = {0}
  MaxIfaceCalls = 0
INVARIANT NoResourceMisuse
CHECK_DEADLOCK FALSE
