SPECIFICATION Spec
CONSTANTS
  desktop = desktop
  fap = fap
  Apps = Apps
  None = None
  plain = plain
  long = long
  Clients = {desktop}
  MenuUsers = {desktop}
  Enqueuers = {"app"}
  InternalApps = {}
  InsomniaSafeApps = {}
  FapApps = {fap}
  MissingApps = {}
  ApplicationsName = Apps
  StartNames = {fap, Apps}
  EnqueueNames = {fap}
  ArgKinds = {"none"}
  Styles = {plain, long}
  LongStyles = {long}
  QueueDepth = 1
  LaunchQueueMax = 1
  HoldMax = 1
  NullCancels = TRUE
CHECK_DEADLOCK FALSE
INVARIANTS
  MenuStyleMapped
  NoLostWakeup
