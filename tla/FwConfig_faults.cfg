\* Missing NV file, truncated triplet file, rejected sends: success is
\* never reported for an incomplete bootstrap.
CONSTANTS
  ChipIds = {21249, 23, 4660}
  TlvFiles <- AnyTlvFiles
  BlockSizes <- GoodBlockSizes
  XmitResults = {TRUE, FALSE}
  VendorStorage <- Storages
  NvFilePresent = {TRUE, FALSE}
SPECIFICATION Spec
INVARIANT UploadComplete
CHECK_DEADLOCK FALSE
