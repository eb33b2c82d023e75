\* Bootstrap with well-formed NV files for every chip id, xmit_cb accepting.
CONSTANTS
  ChipIds = {21249, 23, 4660}
  TlvFiles <- GoodTlvFiles
  BlockSizes <- GoodBlockSizes
  XmitResults = {TRUE}
  VendorStorage <- Storages
  NvFilePresent = {TRUE}
SPECIFICATION Spec
INVARIANT TypeOK
INVARIANT NvChunking
INVARIANT UploadComplete
INVARIANT BdAddrFromPlatform
PROPERTY BootstrapTerminates
CHECK_DEADLOCK FALSE
