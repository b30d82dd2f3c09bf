SPECIFICATION ActionsSpec
CONSTANTS
  Nodes = {1, 2, 3, 4, 5, 6, 7, 8, 9, 10, 11, 12, 13}
  Roots = {1, 8}
  Kind <- TKind
  Kids <- TKids
  Below <- TBelow
  RunOf <- TRun
  Limit <- TLimit
  Resources = {}
  Claims <- TClaims
  PoolOf <- OnePool
  DryRuns = {}
  Cancellable = {1}
  MayPanic = {}
  Job <- TJob
  Keys = {"a", "b"}
  Body <- TBody
  Operations = {"Click", "SetText", "SendKeys", "Focus"}
  Backends <- WindowBackends
  Op <- Asked
  Fallback <- Fallbacks
  Granted <- Grants
INVARIANTS ScriptsWriteAllOrNothing RunsDoNotMix RepeatedOnlyOnError LateOnlyWhenCut
PROPERTIES FocusIsInOrder
CHECK_DEADLOCK FALSE
