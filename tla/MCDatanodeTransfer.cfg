CONSTANTS
  Threads = {"w", "r", "m1", "m2"}
  Nodes = {1, 2, 3}
  Blocks = {"a", "b1", "b2", "m", "e", "f", "d"}
  ContentOf <- MCContentOf
  Stored <- MCStored
  Script <- MCScript
  Absent = Absent
  Torn = Torn
  MaxFaults = 1
SPECIFICATION MCSpec
INVARIANTS
  TypeOK
  RightContent
  WritesLand
  MovesKeepTheBlock
PROPERTIES
  EveryTransferEnds
