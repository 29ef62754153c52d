\* A ring of three, a timer with two tasks, a logger with two callers and a stop, a table
\* used by two threads, and two handles and a server for three descriptors.
CONSTANTS
  Capacity = 3
  MaxPushes = 6
  Horizon = 2
  Never = 99
  Periods = {1, 2}
  Repeats <- MCRepeats
  MaxTasks = 2
  p1 = p1
  p2 = p2
  Loggers <- TwoLoggers
  MaxLines = 1
  Ui = ui
  Scheduler = scheduler
  TaskIds = {1, 2}
  NewIds = {3}
  InitialState = 5
  States = {7}
  MaxSqlCalls = 3
  Handles = {h1, h2}
  Descriptors = {3, 4, 5}
SPECIFICATION FairSpec
INVARIANTS
  
  RunsAsOftenAsAsked
  StopWritesWhatWasQueued
  OwnedOnce
PROPERTIES
  
  DueTasksRun
  StopReturnsIfTaskPending
  LoggerKeepsGoing
  AloneDoesWhatWasAsked
CHECK_DEADLOCK FALSE
