----------------------- MODULE BlockScheduleController -----------------------
(***************************************************************************)
(* The client's download scheduler, on its own thread: it queues the       *)
(* blocks of the tasks that are started, publishes one block request every *)
(* 30 ms, and on each answer writes the block to the destination file and  *)
(* records the outcome in the block and task tables.                       *)
(*                                                                         *)
(* Its slots run one at a time, in the thread's event loop; the signals it *)
(* reacts to and those it emits cross threads through Qt's event queues.   *)
(***************************************************************************)
EXTENDS Naturals, Sequences, SequencesExt

CONSTANTS
  Tasks,
  BlocksOf,      \* the blocks BlockService::add cuts the file of each task into
  Contents       \* what the server may send for a block: "data", "zeros", "empty"

Blocks == UNION {ToSet(BlocksOf[t]) : t \in Tasks}
TaskOf(b) == CHOOSE t \in Tasks : b \in ToSet(BlocksOf[t])

\* A block belongs to one task, once: BlockService::add makes a row for each.
ASSUME ScheduleAssumption ==
  /\ \A t \in Tasks : BlocksOf[t] \in Seq(Blocks) /\ IsInjective(BlocksOf[t])
  /\ \A t, u \in Tasks : t # u => ToSet(BlocksOf[t]) \cap ToSet(BlocksOf[u]) = {}
  /\ Contents \subseteq {"data", "zeros", "empty"}

VARIABLES
  blockState,    \* the block table: "none" until the row is inserted
  taskState,     \* the task table: "none" until the row is inserted
  pending,       \* m_task_pendding_map: is_paused of the tasks under way
  queue,         \* m_block_request_transfer_queue
  file,          \* what each block's range of the destination file holds
  events,        \* the scheduler thread's queued signals: tasks to start, answers
  requests,      \* block_request signals queued to the UI thread
  scheduled      \* the blocks a start of their task has put into the queue (history)

schedVars == <<blockState, taskState, pending, queue, file, events, requests, scheduled>>

SchedInit ==
  /\ blockState = [b \in Blocks |-> "none"]
  /\ taskState = [t \in Tasks |-> "none"]
  /\ pending = <<>>
  /\ queue = <<>>
  /\ file = [b \in Blocks |-> "none"]
  /\ events = <<>> /\ requests = <<>> /\ scheduled = {}

\* Signals queued to the scheduler.
Enqueue(t) == [kind |-> "enqueue", task |-> t]
Response(b, content) == [kind |-> "response", block |-> b, content |-> content]

Inserted(b) == blockState[b] # "none"
Waiting(t)  == {b \in ToSet(BlocksOf[t]) : blockState[b] = "Waiting"}

-----------------------------------------------------------------------------
\* on_task_enqueue: every block in the table is queued, whatever its state, in the
\* order the database returns the rows (the query asks for none); an entry of the task
\* that is still there is replaced.
OnTaskEnqueue ==
  /\ events # <<>> /\ Head(events).kind = "enqueue"
  /\ LET t    == Head(events).task
         rows == {b \in ToSet(BlocksOf[t]) : Inserted(b)}
     IN  /\ pending' = [u \in DOMAIN pending \cup {t} |-> IF u = t THEN FALSE ELSE pending[u]]
         /\ \E order \in SetToSeqs(rows) : queue' = queue \o order
         /\ scheduled' = scheduled \cup rows
  /\ events' = Tail(events)
  /\ UNCHANGED <<blockState, taskState, file, requests>>

\* on_task_cancle and on_task_paused: public slots.  The queued blocks stay.
OnTaskCancel(t) ==
  /\ t \in DOMAIN pending
  /\ pending' = [u \in DOMAIN pending \ {t} |-> pending[u]]
  /\ UNCHANGED <<blockState, taskState, queue, file, events, requests, scheduled>>

OnTaskPaused(t, isPaused) ==
  /\ t \in DOMAIN pending
  /\ pending' = [pending EXCEPT ![t] = isPaused]
  /\ UNCHANGED <<blockState, taskState, queue, file, events, requests, scheduled>>

\* Slips of on_block_request: the block of a paused task is taken off the queue like
\* that of a cancelled one; it stays at the head of the queue.
OnBlockRequest_DropsPaused ==
  /\ queue # <<>>
  /\ queue' = Tail(queue)
  /\ LET t == TaskOf(Head(queue))
     IN  IF t \in DOMAIN pending /\ ~pending[t]
         THEN requests' = Append(requests, Head(queue))
         ELSE UNCHANGED requests
  /\ UNCHANGED <<blockState, taskState, pending, file, events, scheduled>>

OnBlockRequest_HoldsPaused ==
  /\ queue # <<>>
  /\ LET t == TaskOf(Head(queue))
     IN  /\ ~(t \in DOMAIN pending /\ pending[t])
         /\ queue' = Tail(queue)
         /\ requests' = IF t \in DOMAIN pending THEN Append(requests, Head(queue)) ELSE requests
  /\ UNCHANGED <<blockState, taskState, pending, file, events, scheduled>>

\* on_block_request: a block of a cancelled task is discarded, one of a paused task
\* goes to the back of the queue.
OnBlockRequest ==
  /\ queue # <<>>
  /\ LET b == Head(queue)
         t == TaskOf(b)
     IN  \/ /\ t \notin DOMAIN pending
            /\ queue' = Tail(queue) /\ UNCHANGED requests
         \/ /\ t \in DOMAIN pending /\ pending[t]
            /\ queue' = Append(Tail(queue), b) /\ UNCHANGED requests
         \/ /\ t \in DOMAIN pending /\ ~pending[t]
            /\ queue' = Tail(queue) /\ requests' = Append(requests, b)
  /\ UNCHANGED <<blockState, taskState, pending, file, events, scheduled>>

-----------------------------------------------------------------------------
(* on_block_response.                                                      *)

Answered(b) ==
  /\ events # <<>> /\ Head(events).kind = "response" /\ Head(events).block = b
  /\ events' = Tail(events)
  /\ UNCHANGED <<pending, queue, requests, scheduled>>

\* The task has been cancelled.
IgnoreResponse(b) ==
  /\ TaskOf(b) \notin DOMAIN pending
  /\ Answered(b)
  /\ UNCHANGED <<blockState, taskState, file>>

\* A slip: the task inherits the state of its block.
BlockFails_WithTask(b) ==
  /\ TaskOf(b) \in DOMAIN pending
  /\ Answered(b)
  /\ blockState' = [blockState EXCEPT ![b] = "Failed"]
  /\ taskState' = [taskState EXCEPT ![TaskOf(b)] = "Failed"]
  /\ UNCHANGED file

\* The directory, the file, the seek or the write fails.
BlockFails(b) ==
  /\ TaskOf(b) \in DOMAIN pending
  /\ Answered(b)
  /\ blockState' = [blockState EXCEPT ![b] = "Failed"]
  /\ UNCHANGED <<taskState, file>>

\* The answer is written at the block's offset: an empty one writes nothing.  When
\* no block of the task is left waiting, the task is recorded as completed.
BlockCompletes(b) ==
  /\ TaskOf(b) \in DOMAIN pending
  /\ Answered(b)
  /\ blockState' = [blockState EXCEPT ![b] = "Completed"]
  /\ file' = IF Head(events).content = "empty" THEN file
             ELSE [file EXCEPT ![b] = Head(events).content]
  /\ taskState' = IF Waiting(TaskOf(b))' = {}
                  THEN [taskState EXCEPT ![TaskOf(b)] = "Completed"]
                  ELSE taskState

OnBlockResponse(b) == IgnoreResponse(b) \/ BlockFails(b) \/ BlockCompletes(b)

Scheduler ==
  \/ OnTaskEnqueue
  \/ OnBlockRequest
  \/ \E b \in Blocks : OnBlockResponse(b)

-----------------------------------------------------------------------------
(* Properties of the tables.                                               *)

SchedTypeOK ==
  /\ blockState \in [Blocks -> {"none", "Waiting", "Completed", "Failed"}]
  /\ taskState \in [Tasks -> {"none", "Waiting", "Completed"}]
  /\ DOMAIN pending \subseteq Tasks /\ \A t \in DOMAIN pending : pending[t] \in BOOLEAN
  /\ queue \in Seq(Blocks) /\ requests \in Seq(Blocks)
  /\ file \in [Blocks -> {"none", "data", "zeros"}]
  /\ events \in Seq([kind : {"enqueue"}, task : Tasks] \cup
                    [kind : {"response"}, block : Blocks, content : Contents])
  /\ scheduled \subseteq Blocks

\* A task that is recorded as completed has no block that still waits, and gets none
\* any more: also when it was started before all its blocks were in the table.
CompletedLeavesNothingWaiting ==
  \A t \in Tasks : taskState[t] = "Completed" => Waiting(t) = {}

\* What the plan of the transfer says: it has succeeded when every block in the table
\* was fetched successfully and the content is right, and is started again otherwise.
CompletedMeansWhole ==
  \A t \in Tasks : taskState[t] = "Completed" =>
    \A b \in ToSet(BlocksOf[t]) :
      Inserted(b) => blockState[b] = "Completed" /\ file[b] = "data"
=============================================================================
