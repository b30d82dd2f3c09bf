SPECIFICATION Spec
CONSTANTS
  Macros = {"edited", "restarted"}
  Runs = {1, 2, 3, 4, 5, 6, 7}
  MacroOf <- MixedMacro
  PolicyOf <- MixedPolicy
  MayPanic = {1}
  MayTimeOut = {5}
  MaxTime = 0
INVARIANTS SlotAccounting StrandedOnlyByPanic RestartKeepsOne
PROPERTIES OverlapOnlyHandedOn
