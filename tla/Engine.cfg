SPECIFICATION FairSpec
CONSTANTS
  Ids = {"a", "b"}
  Bodies = {1, 2, 3}
  Triggers = {"ctrl-a", "ctrl-b", "focus"}
  Kinds = {"Hotkey", "WindowFocus"}
  KindOf <- Kind
  TriggersOf <- Triggered
  Conditional = {3}
  Sendable <- Commands
  Emitted = {"ctrl-a", "ctrl-b", "focus"}
  MaxSends = 4
PROPERTIES IndexStaysExact FiresWhatMatches ShutdownCompletes
