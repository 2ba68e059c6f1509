SPECIFICATION Spec
CONSTANTS
  Codes <- MCCodes
  RandomlyPlaced <- MCRandomlyPlaced
  TargetCodes <- MCTargetCodes
  MaxLost = 3
  NodesPerCluster = 7
INVARIANTS
  TypeOK
  PlansDecode
  EachFailureOnce
  NeverWild
  AgreesWithCheck
  SingleClusterTolerant
  SpreadKept
