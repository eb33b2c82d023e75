\* One open and close of port 0 with controller traffic, a possible hang-up
\* reported either way, and host frames.
CONSTANTS
  MaxCtrlData = 2
  MaxHostWrites = 1
  HupMayOccur = TRUE
  HupSetsPollIn = {TRUE, FALSE}
  UartTrans = {TRUE, FALSE}
  UartOnly = {TRUE, FALSE}
  OpenResults = {TRUE, FALSE}
  Chip6160 = {TRUE, FALSE}
  NoSleep = {FALSE}
  BridgeCap = 1
  SaveLog = TRUE
  Slice = TRUE
  LogEn = TRUE
  SnoopLimit = 2
  LogLimit = 2
SPECIFICATION Spec
INVARIANT CloseReleasesPort
PROPERTY CloseTerminates PortRefinement
CHECK_DEADLOCK FALSE
