SPECIFICATION SetupSpec
CONSTANTS
  Handlers = {t1, t2}
  NoHandler = NoHandler
  MaxCommits = 6
  MaxRevisions = 0
CHECK_DEADLOCK FALSE
INVARIANT UninitializedOwnsNoTasks
