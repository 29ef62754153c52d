---------------------------- MODULE BlockDownload ----------------------------
(***************************************************************************)
(* A download from the click to the last block: the dialogs of the client  *)
(* and its block service on the UI thread, BlockScheduleController on its  *)
(* own thread, TransService with the network and timer threads, and the    *)
(* server that answers.                                                    *)
(*                                                                         *)
(* A request names a task (for the file's description) or a block.  The UI *)
(* thread handles one event at a time: it takes up nothing new while it is *)
(* in the middle of sending a request or of inserting the rows of a task's *)
(* blocks.  The other threads go on meanwhile.                             *)
(***************************************************************************)
EXTENDS BlockScheduleController, TransService, FiniteSets

CONSTANTS
  StartBudget,  \* bound: how often the user may start each task
  MaxTimeouts   \* bound: how many requests time out

ASSUME DownloadAssumption ==
  /\ Requests = Tasks \cup Blocks /\ Tasks \cap Blocks = {}
  /\ Answers = Contents /\ "data" \in Contents
  /\ StartBudget \in [Tasks -> Nat] /\ MaxTimeouts \in Nat

VARIABLES
  serverFile,    \* the file on the server: "data", cut short ("zeros"), gone ("empty")
  inserting,     \* the blocks the UI thread has yet to insert, in order
  startsLeft     \* how often each task may still be started (bound)

uiVars == <<serverFile, inserting, startsLeft>>
vars == <<schedVars, transVars, uiVars>>

Init ==
  /\ SchedInit /\ TransInit
  /\ serverFile = "data"
  /\ inserting = <<>>
  /\ startsLeft = StartBudget

\* A slip: the rows are inserted from a timer, other events being handled in between.
UiIdle_WhileInserting == storing = <<>>

UiIdle == storing = <<>> /\ inserting = <<>>

-----------------------------------------------------------------------------
(* The UI thread.                                                          *)

\* NewDownloadDialog::on_add_download_push_button_clicked
AddTask(t) ==
  /\ UiIdle /\ taskState[t] = "none"
  /\ taskState' = [taskState EXCEPT ![t] = "Waiting"]
  /\ Send(t)
  /\ UNCHANGED <<blockState, pending, queue, file, events, requests, scheduled, uiVars>>

\* ClientMainWindow::on_start_task_action_triggered, on any task in the table
StartTask(t) ==
  /\ UiIdle /\ taskState[t] # "none" /\ startsLeft[t] > 0
  /\ startsLeft' = [startsLeft EXCEPT ![t] = @ - 1]
  /\ events' = Append(events, Enqueue(t))
  /\ UNCHANGED <<blockState, taskState, pending, queue, file, requests, scheduled, transVars,
                 serverFile, inserting>>

\* ViewEventController::on_block_request
ForwardRequest ==
  /\ UiIdle /\ requests # <<>>
  /\ Send(Head(requests))
  /\ requests' = Tail(requests)
  /\ UNCHANGED <<blockState, taskState, pending, queue, file, events, scheduled, uiVars>>

FinishRequest ==
  /\ Store
  /\ UNCHANGED <<schedVars, uiVars>>

\* A description of the file makes NewDownloadDialog insert the blocks of its task,
\* none when the file is unknown; the content of a block goes to the scheduler.
OnAnswer ==
  /\ UiIdle /\ Dispatch
  /\ LET a == Head(inbox)
         t == a.request
     IN  \/ /\ ~Handled(a)
            /\ UNCHANGED <<inserting, events>>
         \/ /\ Handled(a) /\ t \in Tasks
            /\ inserting' = IF a.answer = "empty" THEN <<>> ELSE BlocksOf[t]
            /\ UNCHANGED events
         \/ /\ Handled(a) /\ t \in Blocks
            /\ events' = Append(events, Response(t, a.answer))
            /\ UNCHANGED inserting
  /\ UNCHANGED <<blockState, taskState, pending, queue, file, requests, scheduled,
                 serverFile, startsLeft>>

\* One row of BlockService::add, which writes them one after the other and gives up
\* when one cannot be written.
InsertBlock ==
  /\ inserting # <<>>
  /\ \/ /\ blockState' = [blockState EXCEPT ![Head(inserting)] = "Waiting"]
        /\ inserting' = Tail(inserting)
     \/ inserting' = <<>> /\ UNCHANGED blockState
  /\ UNCHANGED <<taskState, pending, queue, file, events, requests, scheduled,
                 transVars, serverFile, startsLeft>>

-----------------------------------------------------------------------------
(* The other threads and the server.                                       *)

SchedulerStep == Scheduler /\ UNCHANGED <<transVars, uiVars>>

Control(t) ==
  /\ OnTaskCancel(t) \/ OnTaskPaused(t, ~pending[t])
  /\ UNCHANGED <<transVars, uiVars>>

NetworkStep ==
  /\ Connect \/ Receive \/ Serve(serverFile)
  /\ UNCHANGED <<schedVars, uiVars>>

TimerStep(id) ==
  /\ Cardinality(expired) < MaxTimeouts
  /\ Timeout(id)
  /\ UNCHANGED <<schedVars, uiVars>>

LinkFails ==
  /\ LinkDown
  /\ UNCHANGED <<schedVars, uiVars>>

\* The file is cut short or removed while the server runs.
ServerFileChanges ==
  /\ serverFile = "data"
  /\ serverFile' \in Contents \ {"data"}
  /\ UNCHANGED <<schedVars, transVars, inserting, startsLeft>>

UiStep == ForwardRequest \/ FinishRequest \/ OnAnswer \/ InsertBlock

Next ==
  \/ \E t \in Tasks : AddTask(t) \/ StartTask(t) \/ Control(t)
  \/ UiStep
  \/ SchedulerStep
  \/ NetworkStep
  \/ \E id \in Ids : TimerStep(id)
  \/ LinkFails
  \/ ServerFileChanges

Spec == Init /\ [][Next]_vars

\* The three event loops, the server and the connection go on.  The timer of a
\* request, the user, failures and the server's disk do what they please.
Fairness ==
  /\ WF_vars(UiStep)
  /\ WF_vars(OnTaskEnqueue /\ UNCHANGED <<transVars, uiVars>>)
  /\ WF_vars(OnBlockRequest /\ UNCHANGED <<transVars, uiVars>>)
  /\ WF_vars((\E b \in Blocks : OnBlockResponse(b)) /\ UNCHANGED <<transVars, uiVars>>)
  /\ WF_vars(Connect /\ UNCHANGED <<schedVars, uiVars>>)
  /\ WF_vars(Receive /\ UNCHANGED <<schedVars, uiVars>>)
  /\ WF_vars(Serve(serverFile) /\ UNCHANGED <<schedVars, uiVars>>)

FairSpec == Spec /\ Fairness

-----------------------------------------------------------------------------
(* Properties.                                                             *)

TypeOK ==
  /\ SchedTypeOK /\ TransTypeOK
  /\ serverFile \in Contents
  /\ inserting \in Seq(Blocks)
  /\ startsLeft \in [Tasks -> Nat]

\* The request for a block has timed out.
Expired(b) ==
  \E id \in expired : \/ id \in DOMAIN envelopes /\ envelopes[id] = b
                      \/ storing = <<[id |-> id, request |-> b]>>

\* A block that a started task waits for is on its way somewhere, unless its task was
\* cancelled, its request timed out or the connection broke: none is forgotten in the
\* queues between the threads, whatever is started again, paused or resumed.
OnItsWay(b) ==
  \/ b \in ToSet(queue) \cup ToSet(requests)
  \/ \E i \in DOMAIN events : events[i].kind = "response" /\ events[i].block = b
  \/ Enqueue(TaskOf(b)) \in ToSet(events)
  \/ \E s \in {outgoing, incoming, inbox} : \E i \in DOMAIN s : s[i].request = b

NothingForgotten ==
  \A b \in scheduled :
    blockState[b] = "Waiting" /\ TaskOf(b) \in DOMAIN pending /\ link # "down" =>
      OnItsWay(b) \/ Expired(b)

\* A task all of whose blocks are queued comes to an end: it is completed, unless it
\* was cancelled or paused, or a block failed or got no answer.
Trouble(t) ==
  \/ t \notin DOMAIN pending \/ pending[t]
  \/ link = "down"
  \/ \E b \in ToSet(BlocksOf[t]) : blockState[b] = "Failed" \/ Expired(b)

StartedTasksFinish ==
  \A t \in Tasks :
    t \in DOMAIN pending /\ ToSet(BlocksOf[t]) \subseteq scheduled ~>
      taskState[t] = "Completed" \/ Trouble(t)
=============================================================================
