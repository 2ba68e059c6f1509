SPECIFICATION Spec
CONSTANTS
  Setups <- MCSetups
  NumClusters = 5
  NodesPerCluster = 4
INVARIANTS
  TypeOK
  MergedCodeRight
  WithinTolerance
  OneBlockPerNode
  BlocksInPlace
