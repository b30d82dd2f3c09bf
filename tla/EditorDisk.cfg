SPECIFICATION Spec
CONSTANTS
  Ids = {"a", "b", "n"}
  Bodies = {1, 2}
  Triggers = {"ctrl-a", "ctrl-b"}
  Kinds = {"Hotkey"}
  KindOf <- Kind
  TriggersOf <- Triggered
  Conditional = {}
  FirstList <- Start
  NewBody = 1
  Edited = {2}
  Outside = {}
  MaxCallbacks = 2
  MaxOutside = 1
  MaxCrashes = 0
INVARIANTS UiAndDiskConsistent
