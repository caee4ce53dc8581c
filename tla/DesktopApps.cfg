SPECIFICATION Spec
CONSTANTS
  appA = appA
  appB = appB
  NoName = NoName
  Pins = {FALSE}
  FreeFails = 4
  UnlockCnt = 3
  RecentMax = 2
  Favorites = 5
  Names = {appA, appB}
  UsbInhibits = FALSE
  SavedSettings <- WithDummy
  Inputs = {"InteractAnimation", "ReloadSettings", "SaveSettings"}
  MaxEvents = 3
  MaxScenes = 4
  MaxFails = 0
  MaxLaunches = 3
SYMMETRY NameSymmetry
INVARIANTS
  AutoLockArmed
  AnimationInStep
  Handshake
  RecentMatchesHistory
