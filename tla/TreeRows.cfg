SPECIFICATION Spec
CONSTANTS
  MaxHeight = 8
  Macros <- WithLoop
  MaxEdits = 1
INVARIANTS SettingsStayHome
