SPECIFICATION FairSpec
CONSTANTS
  TASK_NUMBER = 4
  MaxPrio = 3
  PRINT_LIM = 2
  SIZE_MOD = 8
INVARIANT TypeOK
INVARIANT RunsToCompletion
PROPERTY AllTerminate
