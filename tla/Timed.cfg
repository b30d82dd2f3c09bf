SPECIFICATION Spec
CONSTANTS
  Macros = {"debounced", "throttled"}
  Runs = {1, 2, 3, 4, 5}
  MacroOf <- TimedMacro
  PolicyOf <- TimedPolicy
  MayPanic = {}
  MayTimeOut = {}
  MaxTime = 2
INVARIANTS ThrottleSpacing BurstCovered
PROPERTIES RefusedOnlyWhenBusy
