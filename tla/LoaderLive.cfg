SPECIFICATION LiveSpec
CONSTANTS
  c1 = c1
  c2 = c2
  safe = safe
  fap = fap
  gone = gone
  Apps = Apps
  None = None
  Clients = {c1, c2}
  MenuUsers = {}
  Enqueuers = {"app"}
  InternalApps = {safe}
  InsomniaSafeApps = {safe}
  FapApps = {fap}
  MissingApps = {gone}
  ApplicationsName = Apps
  StartNames = {safe, gone}
  EnqueueNames = {fap}
  ArgKinds = {"none"}
  Styles = {}
  LongStyles = {}
  QueueDepth = 1
  LaunchQueueMax = 4
  HoldMax = 1
  NullCancels = FALSE
  MaxCalls = 4
CHECK_DEADLOCK FALSE
PROPERTIES
  CallsReturn
  HoldEnds
  EndIsReported
