----------------------------- MODULE TimerManager -----------------------------
(***************************************************************************)
(* TimerManager: callbacks kept by deadline and run by one timer thread,   *)
(* which sleeps until the first deadline or a notify; periodic tasks, which*)
(* are one-shot callbacks that add their own successor; the destructor,    *)
(* which clears a flag, notifies and joins.                                *)
(*                                                                         *)
(* The caller is one thread.  Tasks are numbered as they are added and a   *)
(* callback is the number of its task.  An execute environment, where one  *)
(* is set, says where callbacks run; here they run on the timer thread.    *)
(***************************************************************************)
EXTENDS Integers, Sequences, FiniteSets

CONSTANTS
  Horizon,     \* bound: the last instant of the clock
  Never,       \* time_point::max(), later than any deadline
  Periods,     \* the durations in use
  Repeats,     \* remain_times of the periodic tasks, -1 for ever
  MaxTasks     \* bound: how many tasks the caller adds

ASSUME TimerAssumption ==
  /\ Horizon \in Nat /\ MaxTasks \in Nat /\ Repeats \subseteq Int
  /\ Periods \subseteq Nat \ {0} /\ \A d \in Periods : Horizon + d < Never

VARIABLES
  now,                \* the steady clock
  m_timer_callbacks,  \* [due, task], by deadline and then in the order they were added
  m_periodic_tasks,   \* task -> [time, remain_times]
  m_task_queue,       \* callbacks taken because they were due, not yet run
  m_is_running,
  timer,              \* the timer thread: where it is, and until when it sleeps
  caller,             \* "runs", then in the destructor "stops", "joins", "gone"
  tasks,              \* the tasks added: periodic or not, and how often to run (history)
  ran,                \* task -> how often it has run (history)
  lastDue,            \* the deadline of the callback run last (history)
  cancelled           \* task -> how often it had run when it was cancelled (history)

timerVars == <<now, m_timer_callbacks, m_periodic_tasks, m_task_queue, m_is_running,
               timer, caller, tasks, ran, lastDue, cancelled>>

timerHistory == <<tasks, ran, lastDue, cancelled>>

TimerInit ==
  /\ now = 0
  /\ m_timer_callbacks = <<>> /\ m_periodic_tasks = <<>> /\ m_task_queue = <<>>
  /\ m_is_running = TRUE
  /\ timer = [at |-> "runs", until |-> Never]
  /\ caller = "runs" /\ tasks = <<>> /\ ran = <<>> /\ lastDue = 0 /\ cancelled = <<>>

Assign(f, x, y) == [z \in DOMAIN f \cup {x} |-> IF z = x THEN y ELSE f[z]]

First == IF m_timer_callbacks = <<>> THEN Never ELSE Head(m_timer_callbacks).due

\* A slip: callbacks are kept in the order they were added.
Inserted_ByArrival(due, task) == Append(m_timer_callbacks, [due |-> due, task |-> task])

\* How many callbacks, from the front, are due by then.
DueBy(time) ==
  CHOOSE n \in 0..Len(m_timer_callbacks) :
    /\ \A i \in 1..n : m_timer_callbacks[i].due <= time
    /\ n < Len(m_timer_callbacks) => m_timer_callbacks[n + 1].due > time

\* std::multimap::insert
Inserted(due, task) ==
  SubSeq(m_timer_callbacks, 1, DueBy(due))
    \o <<[due |-> due, task |-> task]>>
    \o SubSeq(m_timer_callbacks, DueBy(due) + 1, Len(m_timer_callbacks))

\* A slip: adding a callback wakes nobody.
Notified_Never(t) == IF m_is_running THEN t ELSE [t EXCEPT !.at = "woken"]

\* notify_one.  A thread that does not sleep yet does not notice.
Notified(t) == IF t.at = "asleep" THEN [t EXCEPT !.at = "woken"] ELSE t

\* The timer thread holds m_task_queue_mutex from its check to its sleep.
Unlocked == timer.at # "dozing"

-----------------------------------------------------------------------------
(* The caller.                                                             *)

\* add_task_for and, the deadline worked out by the caller, add_task_until.
AddTask(time) ==
  /\ caller = "runs" /\ Len(tasks) < MaxTasks /\ Unlocked
  /\ ran' = Append(ran, 0)
  /\ tasks' = Append(tasks, [periodic |-> FALSE, times |-> 1])
  /\ m_timer_callbacks' = Inserted(now + time, Len(tasks'))
  /\ timer' = Notified(timer)
  /\ UNCHANGED <<now, m_periodic_tasks, m_task_queue, m_is_running, caller, lastDue,
                 cancelled>>

\* add_periodic_task: nobody else knows the task before its callback is in.
AddPeriodicTask(time, times) ==
  /\ caller = "runs" /\ Len(tasks) < MaxTasks /\ Unlocked
  /\ ran' = Append(ran, 0)
  /\ tasks' = Append(tasks, [periodic |-> TRUE, times |-> times])
  /\ m_periodic_tasks' =
       Assign(m_periodic_tasks, Len(tasks'), [time |-> time, remain_times |-> times])
  /\ m_timer_callbacks' = Inserted(now + time, Len(tasks'))
  /\ timer' = Notified(timer)
  /\ UNCHANGED <<now, m_task_queue, m_is_running, caller, lastDue, cancelled>>

CancelPeriodicTask(task) ==
  /\ caller = "runs" /\ task \in DOMAIN m_periodic_tasks
  /\ m_periodic_tasks' = [t \in DOMAIN m_periodic_tasks \ {task} |-> m_periodic_tasks[t]]
  /\ cancelled' = Assign(cancelled, task, ran[task])
  /\ UNCHANGED <<now, m_timer_callbacks, m_task_queue, m_is_running, timer, caller, tasks, ran,
                 lastDue>>

\* ~TimerManager: neither the store nor the notify is under the mutex.
StopStores ==
  /\ caller = "runs" /\ m_is_running' = FALSE /\ caller' = "stops"
  /\ UNCHANGED <<now, m_timer_callbacks, m_periodic_tasks, m_task_queue, timer, timerHistory>>

StopNotifies ==
  /\ caller = "stops" /\ timer' = Notified(timer) /\ caller' = "joins"
  /\ UNCHANGED <<now, m_timer_callbacks, m_periodic_tasks, m_task_queue, m_is_running, timerHistory>>

StopJoins ==
  /\ caller = "joins" /\ timer.at = "ended" /\ caller' = "gone"
  /\ UNCHANGED <<now, m_timer_callbacks, m_periodic_tasks, m_task_queue, m_is_running, timer,
                 timerHistory>>

-----------------------------------------------------------------------------
(* The timer thread.                                                       *)

\* The predicate before the wait: nothing is earlier than the deadline just read.
TimerChecks ==
  /\ timer.at = "runs" /\ m_task_queue = <<>>
  /\ timer' = [at |-> IF m_is_running THEN "dozing" ELSE "ended", until |-> First]
  /\ UNCHANGED <<now, m_timer_callbacks, m_periodic_tasks, m_task_queue, m_is_running, caller,
                 timerHistory>>

TimerSleeps ==
  /\ timer.at = "dozing"
  /\ timer' = [timer EXCEPT !.at = "asleep"]
  /\ UNCHANGED <<now, m_timer_callbacks, m_periodic_tasks, m_task_queue, m_is_running, caller,
                 timerHistory>>

\* A slip: the thread waits for a notify alone, without a deadline.
TimerWakes_NoDeadline ==
  /\ timer.at = "woken"
  /\ LET at == IF ~m_is_running THEN "ended"
               ELSE IF timer.until <= now \/ First < timer.until THEN "runs"
               ELSE "dozing"
     IN  /\ timer' = [timer EXCEPT !.at = at]
         /\ IF at = "runs"
            THEN /\ m_task_queue' = SubSeq(m_timer_callbacks, 1, DueBy(now))
                 /\ m_timer_callbacks' =
                      SubSeq(m_timer_callbacks, DueBy(now) + 1, Len(m_timer_callbacks))
            ELSE UNCHANGED <<m_task_queue, m_timer_callbacks>>
  /\ UNCHANGED <<now, m_periodic_tasks, m_is_running, caller, timerHistory>>

\* Woken or timed out: stopped, or something is due, or to sleep again, until an earlier
\* deadline if there is one.
TimerWakes ==
  /\ timer.at = "asleep" => timer.until <= now
  /\ timer.at \in {"woken", "asleep"}
  /\ LET at == IF ~m_is_running THEN "ended"
               ELSE IF timer.until <= now \/ First < timer.until THEN "runs"
               ELSE "dozing"
     IN  /\ timer' = [timer EXCEPT !.at = at]
         /\ IF at = "runs"
            THEN /\ m_task_queue' = SubSeq(m_timer_callbacks, 1, DueBy(now))
                 /\ m_timer_callbacks' =
                      SubSeq(m_timer_callbacks, DueBy(now) + 1, Len(m_timer_callbacks))
            ELSE UNCHANGED <<m_task_queue, m_timer_callbacks>>
  /\ UNCHANGED <<now, m_periodic_tasks, m_is_running, caller, timerHistory>>

Run(c) == ran' = [ran EXCEPT ![c.task] = @ + 1] /\ lastDue' = c.due

Periodic(task) == tasks[task].periodic

TimerRunsOnce ==
  /\ timer.at = "runs" /\ m_task_queue # <<>>
  /\ ~Periodic(Head(m_task_queue).task)
  /\ Run(Head(m_task_queue))
  /\ m_task_queue' = Tail(m_task_queue)
  /\ UNCHANGED <<now, m_timer_callbacks, m_periodic_tasks, m_is_running, timer, caller, tasks,
                 cancelled>>

\* A slip: the count is not taken down.
RunPeriodicTask_NoCount ==
  LET task == Head(m_task_queue).task
      info == m_periodic_tasks[task]
  IN  /\ timer.at = "runs" /\ m_task_queue # <<>>
      /\ task \in DOMAIN m_periodic_tasks /\ info.remain_times # 0
      /\ m_timer_callbacks' = Inserted(now + info.time, task)
      /\ timer' = [timer EXCEPT !.at = "calls"]
      /\ UNCHANGED <<now, m_periodic_tasks, m_task_queue, m_is_running, caller, timerHistory>>

\* execute_periodic_task, under m_periodic_task_mutex: the next round is added before this
\* one runs.
RunPeriodicTask ==
  LET task == Head(m_task_queue).task
      info == m_periodic_tasks[task]
  IN  /\ timer.at = "runs" /\ m_task_queue # <<>>
      /\ task \in DOMAIN m_periodic_tasks /\ info.remain_times # 0
      /\ m_periodic_tasks' =
           IF info.remain_times > 0
           THEN [m_periodic_tasks EXCEPT ![task].remain_times = @ - 1] ELSE m_periodic_tasks
      /\ m_timer_callbacks' = Inserted(now + info.time, task)
      /\ timer' = [timer EXCEPT !.at = "calls"]
      /\ UNCHANGED <<now, m_task_queue, m_is_running, caller, timerHistory>>

\* ... and the callback, outside it.
CallPeriodic ==
  /\ timer.at = "calls"
  /\ Run(Head(m_task_queue))
  /\ m_task_queue' = Tail(m_task_queue)
  /\ timer' = [timer EXCEPT !.at = "runs"]
  /\ UNCHANGED <<now, m_timer_callbacks, m_periodic_tasks, m_is_running, caller, tasks,
                 cancelled>>

\* The round after the last one cancels the task; a cancelled task does nothing.
EndPeriodic ==
  LET task == Head(m_task_queue).task
  IN  /\ timer.at = "runs" /\ m_task_queue # <<>> /\ Periodic(task)
      /\ task \in DOMAIN m_periodic_tasks => m_periodic_tasks[task].remain_times = 0
      /\ m_periodic_tasks' = [t \in DOMAIN m_periodic_tasks \ {task} |-> m_periodic_tasks[t]]
      /\ m_task_queue' = Tail(m_task_queue)
      /\ UNCHANGED <<now, m_timer_callbacks, m_is_running, timer, caller, timerHistory>>

Tick ==
  /\ now < Horizon /\ now' = now + 1
  /\ UNCHANGED <<m_timer_callbacks, m_periodic_tasks, m_task_queue, m_is_running, timer, caller,
                 timerHistory>>

CallerStep ==
  \/ \E time \in Periods : AddTask(time) \/ \E times \in Repeats : AddPeriodicTask(time, times)
  \/ \E task \in DOMAIN m_periodic_tasks : CancelPeriodicTask(task)
  \/ StopStores

StopStep == StopNotifies \/ StopJoins

TimerThread ==
  \/ TimerChecks \/ TimerSleeps \/ TimerWakes \/ TimerRunsOnce \/ RunPeriodicTask
  \/ CallPeriodic \/ EndPeriodic

TimerNext == CallerStep \/ StopStep \/ TimerThread \/ Tick

\* The threads run when they can and time goes on.
TimerFairness == WF_timerVars(TimerThread) /\ WF_timerVars(StopStep) /\ WF_timerVars(Tick)

TimerSpec == TimerInit /\ [][TimerNext]_timerVars /\ TimerFairness

-----------------------------------------------------------------------------
\* Callbacks run in the order of their deadlines and none before its own, over all the
\* batches the thread takes (timer_manager.cpp, the thread's lambda).
RunsInDeadlineOrder == [][lastDue <= lastDue' /\ lastDue' <= now']_timerVars

\* A task never runs more often than it was added for, and a cancelled one at most once
\* more: the run that had begun when cancel_periodic_task was called, which does not
\* wait for it (timer_manager.cpp, execute_periodic_task).
RunsAsOftenAsAsked ==
  /\ \A task \in DOMAIN tasks : tasks[task].times >= 0 => ran[task] <= tasks[task].times
  /\ \A task \in DOMAIN cancelled : ran[task] <= cancelled[task] + 1

\* A task that is to run at all runs once its deadline has passed, unless the manager is
\* being destroyed: an earlier deadline that comes in while the thread sleeps until a
\* later one wakes it, and one that comes in while it runs callbacks is not forgotten.
DueTasksRun ==
  \A task \in 1..MaxTasks :
    (\E i \in DOMAIN m_timer_callbacks :
       m_timer_callbacks[i].task = task /\ m_timer_callbacks[i].due <= Horizon)
      ~> \/ task \in DOMAIN tasks /\ (ran[task] > 0 \/ tasks[task].times = 0)
         \/ task \in DOMAIN cancelled \/ caller # "runs"

\* While some callback is still to come the destructor returns, at its deadline at the
\* latest.  With none to come it may wait for ever: its notify may fall between the
\* thread's check of the flag and its sleep (timer_manager.cpp:180).
StopReturnsIfTaskPending == caller = "joins" /\ First <= Horizon ~> caller = "gone"
=============================================================================
