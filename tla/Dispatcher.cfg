SPECIFICATION Spec
CONSTANTS
  Key = {"Back", "Up", "Down"}
  LateTypes = {}
  QueueDepth = 1
  Port = {"desktop", "popup", "app"}
  LayerOf <- MCLayerOf
  Dispatched = {"app"}
  Clicked = {"Back", "Up"}
  Tapped = {"Back"}
  MaxClicks = 2
  MaxOps = 1
  View = {"main", "list"}
  Flipped = {"list"}
  FlippedKey <- MCFlippedKey
  InputLen = 1
CHECK_DEADLOCK FALSE
INVARIANTS
  KeyOwnsRelease
  NoStuckKeys
  NothingDangles
  ScreenUpToDate
