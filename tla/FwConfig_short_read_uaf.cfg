\* A value cut short by the end of sv6316.nvbin.
CONSTANTS
  ChipIds = {21249}
  TlvFiles <- ShortTlvFiles
  BlockSizes = {0}
  XmitResults = {TRUE}
  VendorStorage <- Provisioned
  NvFilePresent = {TRUE}
SPECIFICATION Spec
INVARIANT BufferOwnership
CHECK_DEADLOCK FALSE
