CONSTANTS
  MaxCtrlData = 2
  MaxHostWrites = 2
  HupMayOccur = FALSE
  HupSetsPollIn = {TRUE, FALSE}
  UartTrans = {TRUE, FALSE}
  UartOnly = {TRUE, FALSE}
  OpenResults = {TRUE, FALSE}
  Chip6160 = {TRUE, FALSE}
  NoSleep = {FALSE}
  BridgeCap = 1
  SaveLog = TRUE
  Slice = TRUE
  LogEn = TRUE
  SnoopLimit = 2
  LogLimit = 2
SPECIFICATION Spec
INVARIANT NoUseAfterClose
CHECK_DEADLOCK FALSE
