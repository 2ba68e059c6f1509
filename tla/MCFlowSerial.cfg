CONSTANTS
  NStripes = 2
  Plans = {1, 2, 3}
  Tasks <- MCTasks
  Clusters = {1, 2, 3}
  StripeOf <- MCStripeOf
  MainOf <- MCMainOf
  AddressOf <- MCAddressOf
  PlanOf <- MCPlanOf
  HelperOf <- MCHelperOf
  Rounds <- MCRounds
  Capacity = 2
  Workers = 2
  Modes = {"serial", "plain"}
  MaxFaults = 2
SPECIFICATION MCSpec
INVARIANTS
  OwnDataUntilAFailure
PROPERTIES
  RepairReturns
