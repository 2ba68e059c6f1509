CONSTANTS
  MaxNode = 4
  MaxTasks = 4
SPECIFICATION MCSpec
INVARIANTS
  TypeOK
  RoundsAreMatchings
  EveryTaskOnce
  ShortestSchedule
