------------------------------ MODULE AsyncLogger ------------------------------
(***************************************************************************)
(* AsyncLogger: log_msg() puts a line into the queue of each sink, console *)
(* and file, while the sink's flag is up, and writes it itself once it is  *)
(* down; a worker per sink writes what is queued; stop_async_log() takes   *)
(* the flags down one sink after the other, waits for each queue to run    *)
(* empty and joins the workers.  The flag is read before the queue's lock  *)
(* is taken, so a line may be queued after the worker has gone.            *)
(*                                                                         *)
(* The log file opens; the levels let everything through.                  *)
(***************************************************************************)
EXTENDS Naturals, Sequences

CONSTANTS
  Loggers,     \* the threads that log
  MaxLines     \* bound: how many lines each of them logs

ASSUME LoggerAssumption == MaxLines \in Nat

Sinks == <<"console", "file">>    \* in the order log_msg() and stop_async_log() take them
Sink  == {"console", "file"}

Lines == Loggers \X (1..MaxLines)

VARIABLES
  flag,      \* m_async_console_log_flag, m_async_file_log_flag
  queue,     \* m_console_log_queue, m_file_log_queue
  worker,    \* per sink: "runs", "asleep", "writes" its line, "exited"
  logging,   \* per logging thread: its line, the sink it is at, and what it read there
  stopper,   \* the thread in stop_async_log(): where, and at which sink
  written,   \* per sink: how often each line was written (history)
  queued,    \* per sink: the lines that were queued while the flag was up (history)
  late       \* per sink: the lines that were queued after it had come down (history)

loggerVars == <<flag, queue, worker, logging, stopper, written, queued, late>>

\* start_async_log
LoggerInit ==
  /\ flag = [k \in Sink |-> TRUE]
  /\ queue = [k \in Sink |-> <<>>]
  /\ worker = [k \in Sink |-> [at |-> "runs", line |-> <<>>]]
  /\ logging = [p \in Loggers |-> [line |-> 1, sink |-> 1, at |-> "load"]]
  /\ stopper = [at |-> "runs", sink |-> 1]
  /\ written = [k \in Sink |-> [l \in Lines |-> 0]]
  /\ queued = [k \in Sink |-> {}] /\ late = [k \in Sink |-> {}]

-----------------------------------------------------------------------------
(* log_msg                                                                 *)

Logs(p) == logging[p].line <= MaxLines
At(p)   == Sinks[logging[p].sink]
Line(p) == <<p, logging[p].line>>

LoadFlag(p) ==
  /\ Logs(p) /\ logging[p].at = "load"
  /\ logging' = [logging EXCEPT ![p].at = IF flag[At(p)] THEN "queue" ELSE "write"]
  /\ UNCHANGED <<flag, queue, worker, stopper, written, queued, late>>

NextCall(l) == IF l.sink = 1 THEN [line |-> l.line, sink |-> 2, at |-> "load"]
                         ELSE [line |-> l.line + 1, sink |-> 1, at |-> "load"]

\* A wait on the sink's condition variable, the worker's or the stopper's, is woken.
Woken(k)     == IF worker[k].at = "asleep" THEN [worker EXCEPT ![k].at = "runs"] ELSE worker
StopWoken(k) == IF stopper.at = "asleep" /\ Sinks[stopper.sink] = k
                THEN [stopper EXCEPT !.at = "woken"] ELSE stopper

\* notify_one wakes one of them.
NotifyOne(k) ==
  \/ worker' = Woken(k) /\ UNCHANGED stopper
     /\ (worker[k].at = "asleep" \/ StopWoken(k) = stopper)
  \/ stopper' = StopWoken(k) /\ stopper' # stopper /\ UNCHANGED worker

Enqueue(p) ==
  LET k == At(p)
  IN  /\ Logs(p) /\ logging[p].at = "queue"
      /\ queue' = [queue EXCEPT ![k] = Append(@, Line(p))]
      /\ IF flag[k] THEN queued' = [queued EXCEPT ![k] = @ \cup {Line(p)}] /\ UNCHANGED late
                    ELSE late' = [late EXCEPT ![k] = @ \cup {Line(p)}] /\ UNCHANGED queued
      /\ NotifyOne(k)
      /\ logging' = [logging EXCEPT ![p] = NextCall(@)]
      /\ UNCHANGED <<flag, written>>

WriteDirectly(p) ==
  /\ Logs(p) /\ logging[p].at = "write"
  /\ written' = [written EXCEPT ![At(p)][Line(p)] = @ + 1]
  /\ logging' = [logging EXCEPT ![p] = NextCall(@)]
  /\ UNCHANGED <<flag, queue, worker, stopper, queued, late>>

-----------------------------------------------------------------------------
(* async_console_log_handler, async_file_log_handler                       *)

\* The worker takes the first line and wakes whoever waits for the queue to empty.
WorkerTakes(k) ==
  /\ worker[k].at = "runs" /\ queue[k] # <<>>
  /\ worker' = [worker EXCEPT ![k] = [at |-> "writes", line |-> Head(queue[k])]]
  /\ queue' = [queue EXCEPT ![k] = Tail(@)]
  /\ stopper' = StopWoken(k)
  /\ UNCHANGED <<flag, logging, written, queued, late>>

WorkerSleeps(k) ==
  /\ worker[k].at = "runs" /\ queue[k] = <<>> /\ flag[k]
  /\ worker' = [worker EXCEPT ![k].at = "asleep"]
  /\ UNCHANGED <<flag, queue, logging, stopper, written, queued, late>>

\* A slip: a worker that is told to stop leaves what is queued.
WorkerExits_AtOnce(k) ==
  /\ worker[k].at = "runs" /\ ~flag[k]
  /\ worker' = [worker EXCEPT ![k].at = "exited"]
  /\ queue' = [queue EXCEPT ![k] = <<>>]
  /\ stopper' = StopWoken(k)
  /\ UNCHANGED <<flag, logging, written, queued, late>>

WorkerExits(k) ==
  /\ worker[k].at = "runs" /\ queue[k] = <<>> /\ ~flag[k]
  /\ worker' = [worker EXCEPT ![k].at = "exited"]
  /\ stopper' = StopWoken(k)
  /\ UNCHANGED <<flag, queue, logging, written, queued, late>>

WorkerWrites(k) ==
  /\ worker[k].at = "writes"
  /\ written' = [written EXCEPT ![k][worker[k].line] = @ + 1]
  /\ worker' = [worker EXCEPT ![k] = [at |-> "runs", line |-> <<>>]]
  /\ UNCHANGED <<flag, queue, logging, stopper, queued, late>>

-----------------------------------------------------------------------------
(* stop_async_log                                                          *)

\* With the queue empty the next sink is taken in hand, after the last one the joins.
Proceed(k) ==
  IF queue[k] # <<>> THEN [stopper EXCEPT !.at = "asleep"]
  ELSE IF k = "console" THEN [at |-> "runs", sink |-> 2]
  ELSE [at |-> "joins", sink |-> 2]

\* A slip: the worker is not told that the flag is down.
StopFlag_Silently ==
  LET k == Sinks[stopper.sink]
  IN  /\ stopper.at = "runs"
      /\ flag' = [flag EXCEPT ![k] = FALSE]
      /\ stopper' = Proceed(k)
      /\ UNCHANGED <<queue, worker, logging, written, queued, late>>

StopFlag ==
  LET k == Sinks[stopper.sink]
  IN  /\ stopper.at = "runs"
      /\ flag' = [flag EXCEPT ![k] = FALSE]
      /\ worker' = Woken(k)
      /\ stopper' = Proceed(k)
      /\ UNCHANGED <<queue, logging, written, queued, late>>

StopWakes ==
  LET k == Sinks[stopper.sink]
  IN  /\ stopper.at = "woken"
      /\ stopper' = Proceed(k)
      /\ worker' = IF queue[k] = <<>> THEN Woken(k) ELSE worker
      /\ UNCHANGED <<flag, queue, logging, written, queued, late>>

LogStopJoins ==
  /\ stopper.at = "joins" /\ \A k \in Sink : worker[k].at = "exited"
  /\ stopper' = [stopper EXCEPT !.at = "done"]
  /\ UNCHANGED <<flag, queue, worker, logging, written, queued, late>>

StopperStep == StopFlag \/ StopWakes \/ LogStopJoins
WorkerStep(k) == WorkerTakes(k) \/ WorkerSleeps(k) \/ WorkerExits(k) \/ WorkerWrites(k)
LogStep(p) == LoadFlag(p) \/ Enqueue(p) \/ WriteDirectly(p)

LoggerNext == (\E p \in Loggers : LogStep(p)) \/ (\E k \in Sink : WorkerStep(k)) \/ StopperStep

\* The workers and the stopping thread run when they can; nothing obliges a caller to
\* log, or to finish a call it has begun.
LoggerFairness ==
  /\ \A k \in Sink : WF_loggerVars(WorkerStep(k))
  /\ WF_loggerVars(stopper # [at |-> "runs", sink |-> 1] /\ StopperStep)

-----------------------------------------------------------------------------
\* When stop_async_log() returns, every line queued while the flag was up has been
\* written, once, to its sink; only a line that was queued after the flag had come down
\* can be lost (async_logger.cpp, stop_async_log and the workers' exit).
StopWritesWhatWasQueued ==
  stopper.at = "done" =>
    \A k \in Sink, l \in Lines :
      /\ l \in queued[k] => written[k][l] = 1
      /\ l \in late[k] => written[k][l] <= 1

\* stop_async_log() comes to its end, unless a line was queued late: then the worker may
\* have gone and nobody empties the queue it waits for (async_logger.cpp:39).
LogStopReturns ==
  ~flag["console"] ~> \/ stopper.at = "done"
                      \/ \E k \in Sink : late[k] # {}

\* As long as a sink is not stopped its worker takes what is queued: it is told of a line
\* that comes in while it sleeps.
QueuesAreEmptied ==
  \A k \in Sink : queue[k] # <<>> ~> queue[k] = <<>> \/ ~flag[k]

\* Neither the workers nor the stopping thread is left asleep with something to do
\* (async_logger.cpp, the three waits and the notifications that end them).
LoggerKeepsGoing == LogStopReturns /\ QueuesAreEmptied
=============================================================================
