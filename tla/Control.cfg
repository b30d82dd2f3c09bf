SPECIFICATION Spec
CONSTANTS
  Nodes = {1, 2, 3, 4, 5, 6, 7, 8, 9, 10, 11, 12, 13, 14, 15, 16}
  Roots = {1, 13}
  Kind <- ControlKind
  Kids <- ControlKids
  Below <- ControlBelow
  RunOf <- ControlRun
  Limit <- ControlLimit
  Resources = {}
  Claims <- ControlClaims
  PoolOf <- OnePool
  DryRuns = {13}
  Cancellable = {13}
  MayPanic = {}
INVARIANTS NothingOutlivesItsRun ConcurrentOnlyInParallel TimeoutsAreNotHidden
