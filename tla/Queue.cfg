SPECIFICATION FairSpec
CONSTANTS
  QueueMacro = "queue"
  Macros = {"queue", "edited"}
  Runs = {1, 2, 3, 4, 5, 6}
  MacroOf <- OnBoth
  PolicyOf <- BothPolicies
  MayPanic = {}
  MayTimeOut = {}
  MaxTime = 0
INVARIANTS SerialExecution
PROPERTIES RefusedOnlyWhenBusy QueuedWorkRuns ImplementsSerialQueue
