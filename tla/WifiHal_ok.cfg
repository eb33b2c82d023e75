\* Every failure point of skw_wifi_initialize, up to two netlink events,
\* every band and interface mask of four bits, and replies that need
\* clamping, a NACK, and every SKW mode and width.
SPECIFICATION Spec
CONSTANTS
  InitFailAt <- AllFailures
  MaxNlEvents = 2
  BandMasks = {0, 5, 8, 15}
  IfaceMasks = {0, 2, 7, 12}
  ChanReplies <- Replies
  MaxSizes = {1, 2}
  Dumps <- IfaceDumps
  SKW_NR_IFACE = 2
  Garbage = {0, 9}
  MaxIfaceCalls = 2
INVARIANT UsableChannelsConverted
INVARIANT IfaceTableFromDump
PROPERTY CleanupCompletes
CHECK_DEADLOCK FALSE
