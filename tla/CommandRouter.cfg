CONSTANTS
  Sessions = {s1, s2}
  ChosenIds <- MCChosenIds
  HistoryLimit = 2
  MaxCommands = 3
SPECIFICATION Spec
CHECK_DEADLOCK FALSE
INVARIANTS TasksAreQueued HistoriesAgree SequencesIncrease
PROPERTIES KeepsLife
