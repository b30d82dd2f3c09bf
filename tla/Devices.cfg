SPECIFICATION FairSpec
CONSTANTS
  Nodes = {1, 2, 3, 4, 5, 6}
  Roots = {1, 5}
  Kind <- DeviceKind
  Kids <- DeviceKids
  Below <- DeviceBelow
  RunOf <- DeviceRun
  Limit <- DeviceLimit
  Resources = {"x", "y"}
  Claims <- DeviceClaims
  PoolOf <- OnePool
  DryRuns = {}
  Cancellable = {5}
  MayPanic = {6}
INVARIANTS DevicesExclusive GuardsAreLive
PROPERTIES EveryRunReturns
