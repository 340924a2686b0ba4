CONSTANTS
  Bases <- MCBases
  LayerLists <- MCLayerLists
  MaxLayers = 2
SPECIFICATION Spec
INVARIANTS
  KeysUnique
  ScopesKept
  RequiredSurvives
  ReportExplains
CHECK_DEADLOCK FALSE
