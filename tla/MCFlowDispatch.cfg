CONSTANTS
  NStripes = 2
  Plans = {1, 2}
  Tasks <- MCTasks
  Clusters = {1, 2, 3}
  StripeOf <- MCStripeOf
  MainOf <- MCMainOf
  AddressOf <- MCAddressOf
  PlanOf <- MCPlanOf
  HelperOf <- MCHelperOf
  Rounds <- MCRounds
  Capacity = 2
  Workers = 2
  Modes = {"plain", "unordered", "ordered", "join"}
  MaxFaults = 2
SPECIFICATION MCSpec
INVARIANTS
  TypeOK
  UndisturbedRunRepairs
  HonestAnswers
  RoundsDoNotOverlap
  PreparedBeforeSent
PROPERTIES
  RoundsFollowSuccess
  RepairReturns
