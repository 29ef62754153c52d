-------------------------------- MODULE MCThreads --------------------------------
(***************************************************************************)
(* The small components that threads share, side by side in one instance:  *)
(* the ring, the timer, the logger, the table query and the descriptors    *)
(* have nothing in common, so each behaviour is one of one of them, the    *)
(* others at rest.                                                         *)
(***************************************************************************)
EXTENDS SpscRingQueue, TimerManager, AsyncLogger, SqlTableQuery, PosixHandles

CONSTANTS p1, p2

VARIABLE part    \* the component this behaviour is about

threadsVars == <<part, spscVars, timerVars, loggerVars, sqlVars, handleVars>>

TwoLoggers == {p1, p2}
MCRepeats  == {1, -1}

Init ==
  /\ part \in {"ring", "timer", "logger", "query", "handles"}
  /\ SpscInit /\ TimerInit /\ LoggerInit /\ SqlInit /\ HandlesInit

Next ==
  \/ part = "ring" /\ SpscNext /\ UNCHANGED <<part, timerVars, loggerVars, sqlVars, handleVars>>
  \/ part = "timer" /\ TimerNext /\ UNCHANGED <<part, spscVars, loggerVars, sqlVars, handleVars>>
  \/ part = "logger" /\ LoggerNext /\ UNCHANGED <<part, spscVars, timerVars, sqlVars, handleVars>>
  \/ part = "query" /\ SqlNext /\ UNCHANGED <<part, spscVars, timerVars, loggerVars, handleVars>>
  \/ /\ part = "handles" /\ HandlesNext
     /\ UNCHANGED <<part, spscVars, timerVars, loggerVars, sqlVars>>

\* The fairness of the component at work; the others' holds, as they can do nothing.
FairSpec ==
  /\ Init /\ [][Next]_threadsVars
  /\ WF_timerVars(part = "timer" /\ TimerThread /\ UNCHANGED <<part, spscVars, loggerVars, sqlVars, handleVars>>)
  /\ WF_timerVars(part = "timer" /\ StopStep /\ UNCHANGED <<part, spscVars, loggerVars, sqlVars, handleVars>>)
  /\ WF_timerVars(part = "timer" /\ Tick /\ UNCHANGED <<part, spscVars, loggerVars, sqlVars, handleVars>>)
  /\ \A k \in Sink :
       WF_loggerVars(part = "logger" /\ WorkerStep(k) /\ UNCHANGED <<part, spscVars, timerVars, sqlVars, handleVars>>)
  /\ WF_loggerVars(/\ part = "logger" /\ stopper # [at |-> "runs", sink |-> 1] /\ StopperStep
                   /\ UNCHANGED <<part, spscVars, timerVars, sqlVars, handleVars>>)
=============================================================================
