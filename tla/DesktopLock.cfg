SPECIFICATION Spec
CONSTANTS
  appA = appA
  appB = appB
  NoName = NoName
  Pins = {TRUE, FALSE}
  FreeFails = 2
  UnlockCnt = 3
  RecentMax = 6
  Favorites = 5
  Names = {appA, appB}
  UsbInhibits = FALSE
  SavedSettings <- OnOrOff
  Inputs = {"Lock", "OpenLockMenu", "OpenDebug", "DebugExit", "OpenFavorites", "LockMenuToggle", "OpenQuickSettings", "QuickSettingsClose", "BootExit", "Reboot", "DummyModeOn", "DummyModeOff", "DummyUpLong", "PinUnlocked", "PinBack", "SetPin", "PinIdle", "ApiUnlock"}
  MaxEvents = 3
  MaxScenes = 4
  MaxFails = 3
  MaxLaunches = 0
INVARIANTS
  LockStateAgrees
  LockAssertsHold
  LockedViewReady
  PenaltyServed
