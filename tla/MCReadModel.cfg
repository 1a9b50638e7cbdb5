SPECIFICATION Spec
CONSTANTS
  Node = {1, 2, 3}
  Edge = {12, 23, 31, 32}
  From <- MCFrom
  To <- MCTo
  Traces <- MCTraces
  Importance <- MCImportance
  GroupParent <- MCGroupParent
  LayerOf <- MCLayerOf
  None <- MCNone
  Views <- MCViews
  Lookback = 2
  Limits = {2, 3}
  MaxFaults = 1
INVARIANTS TypeOK OrderSound CorrectionIsSound SteadyWalkTiles ProjectionConserves
CHECK_DEADLOCK FALSE
