CONSTANTS
  NThreads = 4
  Capacity = 2
SPECIFICATION MCSpec
INVARIANTS
  TypeOK
  PermitsConserved
  GrantsFollowTickets
  FrontWillBeWoken
PROPERTIES
  EveryThreadServed
  LineSpec
