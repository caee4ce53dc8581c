SPECIFICATION FairSpec
CONSTANTS
  desktop = desktop
  fap = fap
  Apps = Apps
  None = None
  plain = plain
  long = long
  Clients = {desktop}
  MenuUsers = {desktop}
  Enqueuers = {}
  InternalApps = {}
  InsomniaSafeApps = {}
  FapApps = {fap}
  MissingApps = {}
  ApplicationsName = Apps
  StartNames = {fap, Apps}
  EnqueueNames = {fap}
  ArgKinds = {"none"}
  Styles = {}
  LongStyles = {}
  QueueDepth = 1
  LaunchQueueMax = 1
  HoldMax = 1
  NullCancels = FALSE
CHECK_DEADLOCK FALSE
PROPERTIES
  JoinReturns
