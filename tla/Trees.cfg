SPECIFICATION Spec
CONSTANTS
  MaxHeight = 8
  Macros <- OneTree
  MaxEdits = 2
INVARIANTS TypeOK UpdateHitsItsRow DeleteSparesTheRest MovesSwapNeighbours ConditionsKeepTheirMeaning
