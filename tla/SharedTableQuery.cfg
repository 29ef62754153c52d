\* The UI thread and the scheduler on one query: what is documented of get_by_task_id.
CONSTANTS
  Ui = ui
  Scheduler = scheduler
  TaskIds = {1, 2}
  NewIds = {3}
  InitialState = 5
  States = {7}
  MaxSqlCalls = 3
SPECIFICATION SqlSpec
PROPERTY SelectsItsTask
CHECK_DEADLOCK FALSE
