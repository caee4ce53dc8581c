SPECIFICATION Spec
CONSTANTS
  appA = appA
  appB = appB
  NoName = NoName
  Pins = {TRUE}
  FreeFails = 2
  UnlockCnt = 3
  RecentMax = 6
  Favorites = 5
  Names = {appA}
  UsbInhibits = FALSE
  SavedSettings <- JustOff
  Inputs = {"PinIdle", "NewIdleAnimation", "Lock", "PinBack", "PinUnlocked", "BootExit", "ApiUnlock", "OpenMenu", "OpenRecent", "CheckAnimation", "SaveSettings"}
  MaxEvents = 3
  MaxScenes = 4
  MaxFails = 2
  MaxLaunches = 1
PROPERTIES
  LoaderReleased
  PenaltyEnds
