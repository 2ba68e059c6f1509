CONSTANTS
  NThreads = 4
  Capacity = 2
SPECIFICATION MCSpec
INVARIANT
  GrantsFollowCreation
