SPECIFICATION Spec
CONSTANTS
  c1 = c1
  c2 = c2
  safe = safe
  fap = fap
  gone = gone
  Apps = Apps
  None = None
  Clients = {c1, c2}
  MenuUsers = {}
  Enqueuers = {"app"}
  InternalApps = {safe}
  InsomniaSafeApps = {safe}
  FapApps = {fap}
  MissingApps = {gone}
  ApplicationsName = Apps
  StartNames = {safe, fap, gone}
  EnqueueNames = {fap}
  ArgKinds = {"none", "rpc"}
  Styles = {}
  LongStyles = {}
  QueueDepth = 1
  LaunchQueueMax = 2
  HoldMax = 1
  NullCancels = FALSE
SYMMETRY ClientSymmetry
INVARIANTS
  TypeOK
  ClosedOnce
  ResourcesMatchApp
  LoadingAccounted
  DepthBounded
  LockExclusive
  ReplyAwaited
  SubscribersInStep
PROPERTIES
  NoMoreAppsMeansNone
