-------------------------- MODULE ServerShutdownProofs --------------------------
(* Proofs about module ServerShutdown.  First, the threads of the server use    *)
(* the dispatcher and the scheduler as these are specified, so that whatever    *)
(* was proved of each alone holds of it in the server.  Then, that a server     *)
(* which is shut down by SIGQUIT, or stops because its network failed before,   *)
(* violates no assertion and executes what it had accepted while its world is   *)
(* still there: for any number of signals, tasks and instants.                  *)
EXTENDS ServerShutdown, Functions, SequenceTheorems, TLAPS

DP == INSTANCE DispatcherProofs WITH
        state <- dState, tasks <- dTasks, pc <- dPc, current <- dCurrent,
        batch <- dBatch, inner <- dInner, status <- dStatus,
        Expiring <- {}, Urgent <- {}

SP == INSTANCE SchedulerProofs WITH
        state <- sState, lastId <- sLastId, pending <- sPending, heap <- sHeap,
        due <- sDue, id <- sId, pc <- sPc, deadline <- sDeadline,
        handing <- sHanding, status <- sStatus,
        Task <- Timed, MaxTaskId <- 7

-------------------------------------------------------------------------------
(* The two components are those of their modules. *)

\* The dispatcher's lemmas are about the dispatcher that the server uses.
LEMMA SameDispatcher == /\ D!Init => DP!Init
                        /\ [D!Next]_dVars => [DP!Next]_DP!vars
<1>1. D!Init => DP!Init BY DEF D!Init, DP!Init
<1>2. D!Next => DP!Next
  BY DEF D!Next, D!Thread, D!Callers, D!CheckState, D!Enter, D!Wake, D!Finish, D!Drain,
         D!BatchTake, D!BatchFinish, D!BatchEnd, D!Final, D!SpuriousWakeup, D!AddTask,
         D!RefuseTask, D!Start, D!Stop, D!Join, D!WaitInTask, D!Take, D!Notified,
         D!Accepting, D!KeepRunning, D!MoveTasks, D!Push, D!Return,
         DP!Next, DP!Thread, DP!Callers, DP!CheckState, DP!Enter, DP!Wake, DP!Finish,
         DP!Drain, DP!BatchTake, DP!BatchFinish, DP!BatchEnd, DP!Final,
         DP!SpuriousWakeup, DP!AddTask, DP!RefuseTask, DP!Start, DP!Stop, DP!Join,
         DP!WaitInTask, DP!Take, DP!Notified, DP!Accepting, DP!KeepRunning,
         DP!MoveTasks, DP!Push, DP!Return
<1>3. UNCHANGED dVars => UNCHANGED DP!vars BY DEF dVars, DP!vars
<1>. QED BY <1>1, <1>2, <1>3

\* The scheduler's lemmas are about the scheduler that the server uses.
LEMMA SameScheduler == /\ S!Init => SP!Init
                       /\ [S!Next]_sVars => [SP!Next]_SP!vars
<1>1. S!Init => SP!Init BY DEF S!Init, SP!Init, S!Forever, SP!Forever
<1>2. S!Next => SP!Next
  BY DEF S!Next, S!Thread, S!Callers, S!CheckState, S!Enter, S!Timeout, S!WakeIdle,
         S!Hand, S!Final, S!WakeCancelled, S!WakeDue, S!SpuriousWakeup, S!Tick, S!AddTask,
         S!RefuseTask, S!CancelTask, S!Start, S!Stop, S!Join, S!Notified, S!NextId,
         S!IsTop, S!Reached, S!IsCancelled, S!Erase, S!Time, S!Forever, S!TaskId,
         SP!Next, SP!Thread, SP!Callers, SP!CheckState, SP!Enter, SP!Timeout,
         SP!WakeIdle, SP!Hand, SP!Final, SP!WakeCancelled, SP!WakeDue,
         SP!SpuriousWakeup, SP!Tick, SP!AddTask, SP!RefuseTask, SP!CancelTask,
         SP!Start, SP!Stop, SP!Join, SP!Notified, SP!NextId, SP!IsTop, SP!Reached,
         SP!IsCancelled, SP!Erase, SP!Time, SP!Forever, SP!TaskId
<1>3. UNCHANGED sVars => UNCHANGED SP!vars BY DEF sVars, SP!vars
<1>. QED BY <1>1, <1>2, <1>3

\* Whatever a step of the server does to the scheduler, the scheduler may do.
LEMMA SchedulerStep == [Next]_vars => [S!Next]_sVars
<1>. SUFFICES ASSUME [Next]_vars PROVE S!Next \/ UNCHANGED sVars OBVIOUS
<1>1. CASE UNCHANGED vars BY <1>1 DEF vars
<1>2. CASE DispatcherLoop \/ NetSubmits \/ Signal BY <1>2 DEF DispatcherLoop, NetSubmits, Signal
<1>3. CASE SchedulerLoop BY <1>3 DEF SchedulerLoop, S!Next, S!Thread
<1>4. CASE Tick \/ Spurious BY <1>4 DEF Tick, Spurious, S!Next
<1>5. CASE Main
  <2>1. CASE MainStartDispatcher BY <2>1 DEF MainStartDispatcher, S!Next, S!Callers
  <2>2. CASE MainStartScheduler BY <2>2 DEF MainStartScheduler, S!Next, S!Callers
  <2>3. CASE MainStartIo \/ MainIoReturns \/ MainChecks
    BY <2>3 DEF MainStartIo, MainIoReturns, MainChecks
  <2>4. CASE MainStopScheduler
    BY <2>4 DEF MainStopScheduler, Abort, S!Next, S!Callers
  <2>5. CASE MainStopDispatcher BY <2>5 DEF MainStopDispatcher, Abort
  <2>6. CASE MainJoinScheduler BY <2>6 DEF MainJoinScheduler, S!Next, S!Callers
  <2>7. CASE MainJoinDispatcher BY <2>7 DEF MainJoinDispatcher
  <2>. QED BY <1>5, <2>1, <2>2, <2>3, <2>4, <2>5, <2>6, <2>7 DEF Main
<1>6. CASE TaskStep
  <2>1. PICK t : \/ QuitBegin(t) \/ QuitSubmit(t) \/ QuitStopScheduler(t)
                 \/ QuitStopDispatcher(t) \/ ShutdownWaitScheduler(t)
                 \/ ShutdownWaitDispatcher(t) \/ ShutdownClear(t)
                 \/ TimedRearm(t) \/ TaskReturns(t)
    BY <1>6 DEF TaskStep
  <2>2. CASE QuitBegin(t) \/ QuitSubmit(t) \/ ShutdownClear(t) \/ TaskReturns(t)
    BY <2>2 DEF QuitBegin, QuitSubmit, ShutdownClear, TaskReturns
  <2>3. CASE QuitStopDispatcher(t) \/ ShutdownWaitDispatcher(t)
    BY <2>3 DEF QuitStopDispatcher, ShutdownWaitDispatcher, Abort
  <2>4. CASE QuitStopScheduler(t)
    BY <2>4 DEF QuitStopScheduler, Abort, S!Next, S!Callers
  <2>5. CASE ShutdownWaitScheduler(t)
    BY <2>5 DEF ShutdownWaitScheduler, Abort, S!Next, S!Callers
  <2>6. CASE TimedRearm(t) BY <2>6 DEF TimedRearm, S!Next, S!Callers
  <2>. QED BY <2>1, <2>2, <2>3, <2>4, <2>5, <2>6
<1>. QED BY <1>1, <1>2, <1>3, <1>4, <1>5, <1>6 DEF Next

\* The server runs the scheduler of module Scheduler: every step of the server
\* is one of the scheduler's or does not concern it.
THEOREM ServerRunsScheduler == Spec => S!Spec
<1>1. Init => S!Init BY DEF Init
<1>2. [Next]_vars => [S!Next]_S!vars BY SchedulerStep DEF sVars, S!vars
<1>. QED BY <1>1, <1>2, PTL DEF Spec, S!Spec

-------------------------------------------------------------------------------
(* The scheduler's thread in the server. *)

\* Where the scheduler's thread is agrees with its state and with the task it
\* is about to hand over.
SchedulerThread == /\ sPc = "final" => sState # "STARTED"
                   /\ sPc = "hand" => sHanding \in Timed

\* No step of the scheduler breaks it.
LEMMA SchedulerThreadStep == SchedulerThread /\ [S!Next]_sVars => SchedulerThread'
<1>. SUFFICES ASSUME SchedulerThread, S!Next \/ UNCHANGED sVars PROVE SchedulerThread' OBVIOUS
<1>. USE DEF SchedulerThread
<1>1. CASE UNCHANGED sVars BY <1>1 DEF sVars
<1>2. CASE S!SpuriousWakeup \/ S!Tick BY <1>2 DEF S!SpuriousWakeup, S!Tick
<1>3. CASE S!Callers
  BY <1>3 DEF S!Callers, S!AddTask, S!RefuseTask, S!CancelTask, S!Start, S!Stop, S!Join,
              S!Notified
<1>4. CASE S!Thread
  BY <1>4 DEF S!Thread, S!CheckState, S!Enter, S!Timeout, S!WakeIdle, S!Hand, S!Final,
              S!WakeCancelled, S!WakeDue
<1>. QED BY <1>1, <1>2, <1>3, <1>4 DEF S!Next

\* What the scheduler's thread hands over is one of the server's timed tasks.
LEMMA SchedulerThreadHolds == Spec => []SchedulerThread
<1>1. Init => SchedulerThread BY DEF Init, S!Init, SchedulerThread
<1>2. SchedulerThread /\ [Next]_vars => SchedulerThread'
  BY SchedulerStep, SchedulerThreadStep
<1>. QED BY <1>1, <1>2, PTL DEF Spec

-------------------------------------------------------------------------------
(* The dispatcher in the server. *)

\* Whatever a step of the server does to the dispatcher, the dispatcher may do.
LEMMA DispatcherStep == SchedulerThread /\ [Next]_vars => [D!Next]_dVars
<1>. SUFFICES ASSUME SchedulerThread, [Next]_vars PROVE D!Next \/ UNCHANGED dVars OBVIOUS
<1>0. ASSUME NEW t \in Task, Submit(t) PROVE D!Next
  <2>1. CASE D!AddTask(t, FALSE)
    <3>1. (t \in {}) = FALSE OBVIOUS
    <3>2. D!AddTask(t, t \in {}) BY <2>1, <3>1
    <3>. QED BY <3>2 DEF D!Next, D!Callers
  <2>2. CASE D!RefuseTask(t) BY <2>2 DEF D!Next, D!Callers
  <2>. QED BY <1>0, <2>1, <2>2 DEF Submit
<1>1. CASE UNCHANGED vars BY <1>1 DEF vars
<1>2. CASE DispatcherLoop BY <1>2 DEF DispatcherLoop, D!Next, D!Thread
<1>3. CASE NetSubmits \/ Signal BY <1>0, <1>3 DEF NetSubmits, Signal, Task
<1>4. CASE SchedulerLoop
  <2>1. CASE S!Hand /\ Submit(sHanding)
    <3>1. sHanding \in Task BY <2>1 DEF S!Hand, SchedulerThread, Task
    <3>. QED BY <1>0, <2>1, <3>1
  <2>. QED BY <1>4, <2>1 DEF SchedulerLoop
<1>5. CASE Tick \/ Spurious BY <1>5 DEF Tick, Spurious, D!Next
<1>6. CASE Main
  <2>1. CASE MainStartDispatcher BY <2>1 DEF MainStartDispatcher, D!Next, D!Callers
  <2>2. CASE MainStartScheduler \/ MainStartIo \/ MainIoReturns \/ MainChecks
    BY <2>2 DEF MainStartScheduler, MainStartIo, MainIoReturns, MainChecks
  <2>3. CASE MainStopScheduler BY <2>3 DEF MainStopScheduler, Abort
  <2>4. CASE MainStopDispatcher BY <2>4 DEF MainStopDispatcher, Abort, D!Next, D!Callers
  <2>5. CASE MainJoinScheduler BY <2>5 DEF MainJoinScheduler
  <2>6. CASE MainJoinDispatcher BY <2>6 DEF MainJoinDispatcher, D!Next, D!Callers
  <2>. QED BY <1>6, <2>1, <2>2, <2>3, <2>4, <2>5, <2>6 DEF Main
<1>7. CASE TaskStep
  <2>1. PICK t : \/ QuitBegin(t) \/ QuitSubmit(t) \/ QuitStopScheduler(t)
                 \/ QuitStopDispatcher(t) \/ ShutdownWaitScheduler(t)
                 \/ ShutdownWaitDispatcher(t) \/ ShutdownClear(t)
                 \/ TimedRearm(t) \/ TaskReturns(t)
    BY <1>7 DEF TaskStep
  <2>2. CASE QuitBegin(t) \/ ShutdownClear(t) \/ TimedRearm(t)
    BY <2>2 DEF QuitBegin, ShutdownClear, TimedRearm
  <2>3. CASE QuitSubmit(t)
    BY <1>0, <2>3 DEF QuitSubmit, SubmitShutdown, Task
  <2>4. CASE QuitStopScheduler(t) \/ ShutdownWaitScheduler(t) \/ ShutdownWaitDispatcher(t)
    BY <2>4 DEF QuitStopScheduler, ShutdownWaitScheduler, ShutdownWaitDispatcher, Abort
  <2>5. CASE QuitStopDispatcher(t)
    BY <2>5 DEF QuitStopDispatcher, Abort, D!Next, D!Callers
  <2>6. CASE TaskReturns(t) BY <2>6 DEF TaskReturns, D!Next, D!Thread
  <2>. QED BY <2>1, <2>2, <2>3, <2>4, <2>5, <2>6
<1>. QED BY <1>1, <1>2, <1>3, <1>4, <1>5, <1>6, <1>7 DEF Next

\* The server runs the dispatcher of module Dispatcher: every step of the server
\* is one of the dispatcher's or does not concern it.
THEOREM ServerRunsDispatcher == Spec => D!Spec
<1>1. Init => D!Init BY DEF Init
<1>2. SchedulerThread /\ [Next]_vars => [D!Next]_D!vars
  BY DispatcherStep DEF dVars, D!vars
<1>. QED BY <1>1, <1>2, SchedulerThreadHolds, PTL DEF Spec, D!Spec

\* Everything proved of the dispatcher holds of the server's.
DispatcherInv == DP!TypeOK /\ DP!SafetyInv /\ DP!AccountInv

\* The dispatcher keeps what it promises whoever calls it in the server.
LEMMA DispatcherInvHolds == Spec => []DispatcherInv
<1>1. Init => DP!Init BY SameDispatcher DEF Init
<1>2. SchedulerThread /\ [Next]_vars => [DP!Next]_DP!vars BY DispatcherStep, SameDispatcher
<1>3. NoTask \notin Task BY ShutdownAssumption
<1>4. DP!Spec => []DP!TypeOK BY <1>3, DP!TypeCorrect
<1>5. DP!Spec => []DP!SafetyInv BY <1>3, DP!SafetyHolds
<1>6. DP!Spec => []DP!AccountInv BY <1>3, DP!AccountHolds
<1>. QED BY <1>1, <1>2, <1>4, <1>5, <1>6, SchedulerThreadHolds, PTL
         DEF Spec, DP!Spec, DispatcherInv

\* In the server, too, no task that was accepted is lost or executed twice.
THEOREM NoTaskLostInServer == Spec => []D!TasksAccounted
<1>1. NoTask \notin Task BY ShutdownAssumption
<1>2. DP!TasksAccounted => D!TasksAccounted 
  BY DEF D!TasksAccounted, DP!TasksAccounted, D!Range, DP!Range, D!IsInjective, DP!IsInjective
<1>3. DP!Spec => []DP!TasksAccounted BY <1>1, DP!NoTaskLostOrDuplicated
<1>4. Init => DP!Init BY SameDispatcher DEF Init
<1>5. SchedulerThread /\ [Next]_vars => [DP!Next]_DP!vars BY DispatcherStep, SameDispatcher
<1>. QED BY <1>2, <1>3, <1>4, <1>5, SchedulerThreadHolds, PTL DEF Spec, DP!Spec

\* In the server, too, the scheduler's thread never sleeps past the time of a
\* task.
THEOREM NeverOversleepsInServer == Spec => []S!NeverOversleeps
<1>1. MaxTime \in Nat /\ NoTask \notin Timed /\ 7 \in Nat \ {0}
  BY ShutdownAssumption DEF Task
<1>2. SP!NeverOversleeps => S!NeverOversleeps BY DEF S!NeverOversleeps, SP!NeverOversleeps
<1>3. SP!Spec => []SP!NeverOversleeps BY <1>1, SP!ThreadNeverOversleeps
<1>4. Init => SP!Init BY SameScheduler DEF Init
<1>5. [Next]_vars => [SP!Next]_SP!vars BY SchedulerStep, SameScheduler
<1>. QED BY <1>2, <1>3, <1>4, <1>5, PTL DEF Spec, SP!Spec

-------------------------------------------------------------------------------
(* The shutdown. *)

\* What the proofs below need of the dispatcher: the thread is in its loop, in
\* the drain or elsewhere, and executes what the history says is executing.
LEMMA DispatcherFacts ==
    ASSUME DispatcherInv
    PROVE  /\ dTasks \in Seq(Task) /\ dBatch \in Seq(Task)
           /\ dStatus \in [Task -> DP!Statuses]
           /\ dState \in {"STOPPED", "STARTED", "STOPPING"}
           /\ dCurrent \in Task \cup {NoTask} /\ dInner \in Task \cup {NoTask}
           /\ dPc = "run" => dCurrent \in Task
           /\ dPc \in {"drain", "batch", "final"} => dState = "STOPPING"
           /\ dState = "STOPPED" => dPc \in {"none", "exit"}
           /\ dPc \notin {"run", "batch"} => dCurrent = NoTask
           /\ dPc # "batch" => dInner = NoTask /\ dBatch = <<>>
           /\ Range(dBatch) \cup Range(dTasks) = {t \in Task : dStatus[t] = "queued"}
           /\ \A t \in Task : dStatus[t] = "executing" <=> t \in {dCurrent, dInner}
<1>. USE DEF DispatcherInv
<1>1. /\ dTasks \in Seq(Task) /\ dBatch \in Seq(Task)
      /\ dStatus \in [Task -> DP!Statuses]
      /\ dState \in {"STOPPED", "STARTED", "STOPPING"}
      /\ dCurrent \in Task \cup {NoTask} /\ dInner \in Task \cup {NoTask}
      /\ dPc = "run" => dCurrent \in Task
  BY DEF DP!TypeOK, DP!States
<1>2. /\ dPc \in {"drain", "batch", "final"} => dState = "STOPPING"
      /\ dState = "STOPPED" => dPc \in {"none", "exit"}
      /\ dPc \notin {"run", "batch"} => dCurrent = NoTask
      /\ dPc # "batch" => dInner = NoTask
  BY DEF DP!SafetyInv, DP!LifeCycle
<1>3. /\ dPc # "batch" => dBatch = <<>>
      /\ Range(dBatch) \cup Range(dTasks) = {t \in Task : dStatus[t] = "queued"}
      /\ {dCurrent, dInner} \ {NoTask} = {t \in Task : dStatus[t] = "executing"}
  BY DEF DP!AccountInv, DP!Range, Range
<1>4. NoTask \notin Task BY ShutdownAssumption
<1>. QED BY <1>1, <1>2, <1>3, <1>4

\* The server goes down orderly when no SIGTERM arrives, no signal before the
\* services run, and the network fails, if it does, before any signal: elsewhere
\* the assertions of the two classes do fail.
Orderly == Term = {} /\ ~Early /\ "signalled" \notin IoFails

Starting == main \in {"startDispatcher", "startScheduler", "startIo"}
Up       == dState = "STARTED" /\ sState = "STARTED"
Down     == dState # "STARTED" /\ sState # "STARTED"

\* The SIGQUIT that entered SHUTDOWN has the dispatcher's thread and goes on,
\* from the save to the end of stop(), before any other task.
Leads(t) ==
    /\ dPc = "run" /\ dCurrent = t /\ dState = "STARTED"
    /\ main = "io" /\ services = "running" /\ Signalled
    /\ \/ step[t] = "submit" /\ sState = "STARTED" /\ dStatus[Shutdown] = "new"
       \/ step[t] = "stopScheduler" /\ sState = "STARTED" /\ dStatus[Shutdown] = "queued"
       \/ step[t] = "stopDispatcher" /\ sState # "STARTED" /\ dStatus[Shutdown] = "queued"

\* Where the tasks are: nothing is nested in the loop's task, and only signals
\* and the shutdown take several steps.
TasksInOrder == /\ dPc = "batch" => dCurrent = NoTask
                /\ \A t \in Net : step[t] = "begin"
                /\ \A t \in Timed : step[t] \in {"begin", "end"}

\* The game is shut down by one SIGQUIT, during which main() waits, or by none.
GameInOrder ==
    /\ ~Signalled => gameState = "NORMAL"
    /\ gameState = "NORMAL" => /\ dStatus[Shutdown] = "new"
                               /\ \A t \in Quit : step[t] = "begin"
    /\ gameState = "NORMAL" /\ Signalled => Up /\ main = "io" /\ services = "running"
    /\ gameState = "SHUTDOWN" => \/ \E t \in Quit : Leads(t)
                                 \/ Down /\ \A t \in Quit : step[t] \in {"begin", "end"}
    /\ services = "stopped" => gameState = "SHUTDOWN" /\ Down

\* main() stops the two threads only where no SIGQUIT does.
MainInOrder ==
    /\ Starting => ~Signalled
    /\ main = "startScheduler" => dState = "STARTED"
    /\ main = "startIo" => Up
    /\ main = "io" => services # "idle"
    /\ main \in {"io", "checkScheduler"} /\ ~Signalled => Up
    /\ main = "checkDispatcher" /\ ~Signalled => dState = "STARTED"
    /\ main = "stopScheduler" => ~Signalled /\ Up
    /\ main = "stopDispatcher" => ~Signalled /\ dState = "STARTED"
    /\ ~Starting /\ main # "io" /\ Signalled => gameState = "SHUTDOWN" /\ Down

InOrder == TypeOK /\ ~aborted /\ TasksInOrder /\ GameInOrder /\ MainInOrder

\* A step of the threads that leaves the game, the services and main() where
\* they are, and a task that runs where it is, keeps the order.
LEMMA FrameKeepsOrder ==
    ASSUME InOrder,
           UNCHANGED gVars,
           dState' = "STARTED" <=> dState = "STARTED",
           sState' = "STARTED" <=> sState = "STARTED",
           dPc = "run" => dPc' = "run" /\ dCurrent' = dCurrent,
           dPc' = "batch" => dCurrent' = NoTask,
           dStatus[Shutdown] = "new" => dStatus'[Shutdown] = "new",
           dPc = "run" /\ dStatus[Shutdown] = "queued" => dStatus'[Shutdown] = "queued",
           \A t \in Task : dStatus[t] = "executing" => dStatus'[t] = "executing",
           Signalled => Signalled',
           Signalled' => Signalled \/ main = "io"
    PROVE  InOrder'
<1>1. /\ gameState' = gameState /\ world' = world /\ services' = services
      /\ step' = step /\ main' = main /\ earlier' = earlier /\ aborted' = aborted
  BY DEF gVars
<1>2. TypeOK' BY <1>1 DEF InOrder, TypeOK
<1>3. TasksInOrder' BY <1>1 DEF InOrder, TasksInOrder
<1>4. \A t \in Quit : Leads(t) => Leads(t)' BY <1>1 DEF Leads
<1>5. gameState \in {"NORMAL", "SHUTDOWN"} /\ services \in {"idle", "running", "stopped"}
  BY DEF InOrder, TypeOK
<1>6. GameInOrder'
  <2>. USE DEF InOrder, GameInOrder, MainInOrder, Up, Down
  <2>1. ~Signalled' => gameState' = "NORMAL" BY <1>1
  <2>2. gameState' = "NORMAL" => /\ dStatus'[Shutdown] = "new"
                                 /\ \A t \in Quit : step'[t] = "begin"
    BY <1>1
  <2>3. gameState' = "NORMAL" /\ Signalled' => Up' /\ main' = "io" /\ services' = "running"
    BY <1>1, <1>5
  <2>4. gameState' = "SHUTDOWN" => \/ \E t \in Quit : Leads(t)'
                                   \/ Down' /\ \A t \in Quit : step'[t] \in {"begin", "end"}
    BY <1>1, <1>4
  <2>5. services' = "stopped" => gameState' = "SHUTDOWN" /\ Down' BY <1>1
  <2>. QED BY <2>1, <2>2, <2>3, <2>4, <2>5
<1>7. MainInOrder' BY <1>1 DEF InOrder, MainInOrder, Starting, Up, Down
<1>. QED BY <1>1, <1>2, <1>3, <1>6, <1>7 DEF InOrder

\* Who submits a task does not disturb the one that is executed.
LEMMA SubmitEffect ==
    ASSUME DispatcherInv, NEW u \in Task, Submit(u)
    PROVE  /\ dState' = dState /\ dCurrent' = dCurrent /\ dInner' = dInner
           /\ dBatch' = dBatch /\ dTasks' \in {dTasks, Append(dTasks, u)}
           /\ dPc' = dPc \/ (dPc = "wait" /\ dPc' = "wake")
           /\ dStatus[u] = "new" /\ dStatus'[u] \in {"queued", "refused"}
           /\ dState = "STARTED" => dStatus'[u] = "queued"
           /\ \A t \in Task \ {u} : dStatus'[t] = dStatus[t]
<1>1. dStatus \in [Task -> DP!Statuses] BY DispatcherFacts
<1>2. CASE D!AddTask(u, FALSE)
  BY <1>1, <1>2 DEF D!AddTask, D!Push, D!Notified
<1>3. CASE D!RefuseTask(u) BY <1>1, <1>3 DEF D!RefuseTask, D!Accepting
<1>. QED BY <1>2, <1>3 DEF Submit

DispatcherSteps == \/ D!CheckState \/ D!Enter \/ D!Wake \/ D!Drain
                   \/ D!BatchTake \/ D!BatchEnd \/ D!Final \/ D!SpuriousWakeup

\* The dispatcher's thread, while no task runs, only makes queued tasks run; the
\* loop does while the dispatcher is started, the drain does when it is not.
LEMMA LoopEffect ==
    ASSUME DispatcherInv, TasksInOrder, DispatcherSteps
    PROVE  /\ dState' = "STARTED" <=> dState = "STARTED"
           /\ dPc # "run"
           /\ dPc' = "batch" => dCurrent' = NoTask
           /\ \A t \in Task : \/ dStatus'[t] = dStatus[t]
                              \/ /\ dStatus[t] = "queued" /\ dStatus'[t] = "executing"
<1>1. /\ dTasks \in Seq(Task) /\ dBatch \in Seq(Task)
      /\ dStatus \in [Task -> DP!Statuses]
      /\ dPc \in {"drain", "batch", "final"} => dState = "STOPPING"
      /\ dPc \notin {"run", "batch"} => dCurrent = NoTask
      /\ Range(dBatch) \cup Range(dTasks) = {t \in Task : dStatus[t] = "queued"}
  BY DispatcherFacts
<1>2. dPc = "batch" => dCurrent = NoTask BY DEF TasksInOrder
<1>3. ASSUME D!Take, dPc \in {"enter", "wake"}
      PROVE  /\ dState' = dState /\ dPc' # "batch"
             /\ \A t \in Task : \/ dStatus'[t] = dStatus[t]
                                \/ /\ dStatus[t] = "queued" /\ dStatus'[t] = "executing"
  <2>1. CASE ~D!KeepRunning \/ dTasks = <<>> BY <1>3, <2>1 DEF D!Take
  <2>2. CASE D!KeepRunning /\ dTasks # <<>>
    <3>1. Head(dTasks) \in Range(dTasks) BY <1>1, <2>2 DEF Range
    <3>2. dStatus[Head(dTasks)] = "queued" /\ Head(dTasks) \in Task BY <1>1, <3>1
    <3>3. /\ dPc' = "run" /\ dState' = dState
          /\ dStatus' = [dStatus EXCEPT ![Head(dTasks)] = "executing"]
      BY <1>3, <2>2 DEF D!Take
    <3>. QED BY <1>1, <3>2, <3>3
  <2>. QED BY <2>1, <2>2
<1>4. CASE D!CheckState BY <1>1, <1>4 DEF D!CheckState
<1>5. CASE D!Enter
  <2>1. CASE dTasks = <<>> BY <1>5, <2>1 DEF D!Enter
  <2>2. CASE dTasks # <<>> BY <1>3, <1>5, <2>2 DEF D!Enter
  <2>. QED BY <2>1, <2>2
<1>6. CASE D!Wake BY <1>3, <1>6 DEF D!Wake
<1>7. CASE D!Drain BY <1>1, <1>7 DEF D!Drain
<1>8. CASE D!BatchTake
  <2>1. /\ dPc = "batch" /\ dBatch # <<>> /\ dState' = dState /\ dPc' = dPc
        /\ dCurrent' = dCurrent
        /\ dStatus' = [dStatus EXCEPT ![Head(dBatch)] = "executing"]
    BY <1>8 DEF D!BatchTake
  <2>2. Head(dBatch) \in Range(dBatch) BY <1>1, <2>1 DEF Range
  <2>3. dStatus[Head(dBatch)] = "queued" /\ Head(dBatch) \in Task BY <1>1, <2>2
  <2>. QED BY <1>1, <1>2, <2>1, <2>3
<1>9. CASE D!BatchEnd BY <1>2, <1>9 DEF D!BatchEnd, D!Return
<1>10. CASE D!Final BY <1>1, <1>10 DEF D!Final
<1>11. CASE D!SpuriousWakeup BY <1>11 DEF D!SpuriousWakeup
<1>. QED BY <1>4, <1>5, <1>6, <1>7, <1>8, <1>9, <1>10, <1>11 DEF DispatcherSteps

SchedulerSteps == \/ S!CheckState \/ S!Enter \/ S!Timeout \/ S!WakeIdle \/ S!Final
                  \/ S!Hand \/ S!Tick \/ S!SpuriousWakeup
                  \/ \E t \in Timed : S!WakeCancelled(t) \/ S!WakeDue(t)
                  \/ \E t \in Timed : S!RefuseTask(t) \/ \E d \in S!Time : S!AddTask(t, d)

\* Nobody but its callers starts or stops the scheduler.
LEMMA SchedulerEffect ==
    ASSUME SchedulerThread, SchedulerSteps
    PROVE  sState' = "STARTED" <=> sState = "STARTED"
BY DEF SchedulerThread, SchedulerSteps, S!CheckState, S!Enter, S!Timeout, S!WakeIdle, S!Final,
       S!Hand, S!Tick, S!SpuriousWakeup, S!WakeCancelled, S!WakeDue, S!AddTask, S!RefuseTask

\* The steps of the two threads, of the clock, and of who only submits a task.
LEMMA ThreadsKeepOrder ==
    ASSUME Orderly, DispatcherInv, SchedulerThread, InOrder,
           DispatcherLoop \/ SchedulerLoop \/ NetSubmits \/ Signal \/ Spurious \/ Tick
    PROVE  InOrder'
<1>0. Shutdown \in Task /\ Timed \subseteq Task /\ Quit \cup Term \cup Net \subseteq Task
  BY DEF Task
<1>1. ASSUME NEW u \in Task, u # Shutdown, Submit(u), UNCHANGED gVars,
             u \in Quit \cup Term => main = "io",
             sState' = "STARTED" <=> sState = "STARTED"
      PROVE  InOrder'
  <2>1. /\ dState' = dState /\ dCurrent' = dCurrent
        /\ dPc' = dPc \/ (dPc = "wait" /\ dPc' = "wake")
        /\ dStatus[u] = "new" /\ dStatus'[u] \in {"queued", "refused"}
        /\ \A t \in Task \ {u} : dStatus'[t] = dStatus[t]
    BY <1>1, SubmitEffect
  <2>2. dPc' = "batch" => dCurrent' = NoTask BY <2>1 DEF InOrder, TasksInOrder
  <2>3. Signalled => Signalled' BY <1>0, <2>1 DEF Signalled
  <2>4. Signalled' => Signalled \/ main = "io" BY <1>0, <1>1, <2>1 DEF Signalled
  <2>. QED BY <1>0, <1>1, <2>1, <2>2, <2>3, <2>4, FrameKeepsOrder
<1>2. ASSUME DispatcherSteps, UNCHANGED <<sVars, gVars>> PROVE InOrder'
  <2>1. TasksInOrder BY DEF InOrder
  <2>2. /\ dState' = "STARTED" <=> dState = "STARTED"
        /\ dPc # "run"
        /\ dPc' = "batch" => dCurrent' = NoTask
        /\ \A t \in Task : \/ dStatus'[t] = dStatus[t]
                           \/ /\ dStatus[t] = "queued" /\ dStatus'[t] = "executing"
    BY <1>2, <2>1, LoopEffect
  <2>3. Signalled <=> Signalled' BY <1>0, <2>2 DEF Signalled
  <2>4. sState' = sState /\ UNCHANGED gVars BY <1>2 DEF sVars
  <2>. QED BY <1>0, <2>2, <2>3, <2>4, FrameKeepsOrder
<1>3. ASSUME SchedulerSteps, UNCHANGED <<dVars, gVars>> PROVE InOrder'
  <2>1. sState' = "STARTED" <=> sState = "STARTED" BY <1>3, SchedulerEffect
  <2>2. /\ dState' = dState /\ dPc' = dPc /\ dCurrent' = dCurrent /\ dStatus' = dStatus
        /\ UNCHANGED gVars
    BY <1>3 DEF dVars
  <2>3. Signalled <=> Signalled' BY <2>2 DEF Signalled
  <2>4. dPc' = "batch" => dCurrent' = NoTask BY <2>2 DEF InOrder, TasksInOrder
  <2>. QED BY <2>1, <2>2, <2>3, <2>4, FrameKeepsOrder
<1>4. CASE DispatcherLoop BY <1>2, <1>4 DEF DispatcherLoop, DispatcherSteps
<1>5. CASE SchedulerLoop
  <2>1. CASE S!Hand /\ Submit(sHanding)
    <3>1. sHanding \in Timed BY <2>1 DEF S!Hand, SchedulerThread
    <3>2. sHanding \in Task /\ sHanding # Shutdown /\ sHanding \notin Quit \cup Term
      BY <1>0, <3>1, ShutdownAssumption
    <3>3. sState' = "STARTED" <=> sState = "STARTED"
      BY <2>1, SchedulerEffect DEF SchedulerSteps
    <3>. QED BY <1>1, <1>5, <2>1, <3>2, <3>3 DEF SchedulerLoop
  <2>2. CASE ~(S!Hand /\ Submit(sHanding))
    <3>1. SchedulerSteps /\ UNCHANGED <<dVars, gVars>>
      BY <1>5, <2>2 DEF SchedulerLoop, SchedulerSteps
    <3>. QED BY <1>3, <3>1
  <2>. QED BY <2>1, <2>2
<1>6. CASE NetSubmits
  <2>1. PICK u \in Net : Submit(u) BY <1>6 DEF NetSubmits
  <2>2. u \in Task /\ u # Shutdown /\ u \notin Quit \cup Term
    BY <1>0, <2>1, ShutdownAssumption
  <2>3. sState' = sState /\ UNCHANGED gVars BY <1>6 DEF NetSubmits, sVars
  <2>. QED BY <1>1, <2>1, <2>2, <2>3
<1>7. CASE Signal
  <2>1. PICK u \in Quit \cup Term : Submit(u) BY <1>7 DEF Signal
  <2>2. u \in Task /\ u # Shutdown BY <1>0, <2>1, ShutdownAssumption
  <2>3. sState' = sState /\ UNCHANGED gVars /\ main = "io"
    BY <1>7 DEF Signal, sVars, Orderly
  <2>. QED BY <1>1, <2>1, <2>2, <2>3
<1>8. CASE Spurious
  <2>1. CASE D!SpuriousWakeup /\ UNCHANGED <<sVars, gVars>>
    BY <1>2, <2>1 DEF DispatcherSteps
  <2>2. CASE S!SpuriousWakeup /\ UNCHANGED <<dVars, gVars>> BY <1>3, <2>2 DEF SchedulerSteps
  <2>. QED BY <1>8, <2>1, <2>2 DEF Spurious
<1>9. CASE Tick BY <1>3, <1>9 DEF Tick, SchedulerSteps
<1>. QED BY <1>4, <1>5, <1>6, <1>7, <1>8, <1>9

\* A step of main() that executes no task of the game.
LEMMA MainKeepsOrder ==
    ASSUME Orderly, DispatcherInv, InOrder, Main
    PROVE  InOrder'
<1>. USE DEF InOrder
<1>1. /\ gameState' = gameState /\ world' = world /\ step' = step /\ earlier' = earlier
      /\ dStatus' = dStatus /\ dCurrent' = dCurrent /\ (dPc' = "batch" => dPc = "batch")
  BY DEF Main, MainStartDispatcher, MainStartScheduler, MainStartIo, MainIoReturns, MainChecks,
         MainStopScheduler, MainStopDispatcher, MainJoinScheduler, MainJoinDispatcher,
         Abort, dVars, D!Start, D!Stop, D!Join, D!Notified
<1>2. Signalled' <=> Signalled BY <1>1 DEF Signalled
<1>3. TasksInOrder' BY <1>1 DEF TasksInOrder
<1>4. main # "io" \/ ~Signalled \/ (gameState = "SHUTDOWN" /\ Down)
  <2>1. SUFFICES ASSUME main = "io", Signalled PROVE gameState = "SHUTDOWN" /\ Down OBVIOUS
  <2>2. services = "stopped"
    BY <2>1 DEF Orderly, Main, MainStartDispatcher, MainStartScheduler, MainStartIo,
         MainIoReturns, MainChecks, MainStopScheduler, MainStopDispatcher,
         MainJoinScheduler, MainJoinDispatcher
  <2>. QED BY <2>2 DEF GameInOrder
<1>5. Signalled => gameState = "SHUTDOWN" /\ Down
  BY <1>4 DEF MainInOrder
<1>6. gameState \in {"NORMAL", "SHUTDOWN"} BY DEF TypeOK
<1>7. gameState = "SHUTDOWN" => Signalled /\ Down /\ \A t \in Quit : step[t] \in {"begin", "end"}
  BY <1>5, <1>6 DEF GameInOrder, Leads, Up, Down
<1>8. TypeOK' /\ UNCHANGED <<gameState, step, dStatus, dCurrent>> /\ ~aborted'
      /\ (gameState = "SHUTDOWN" => Down' /\ ~Starting' /\ main' # "io")
      /\ (gameState = "NORMAL" => services' # "stopped")
      /\ MainInOrder'
  <2>. SUFFICES /\ services' \in {"idle", "running", "stopped"} /\ main' \in MainSteps
                /\ aborted' = FALSE
                /\ gameState = "SHUTDOWN" => Down' /\ ~Starting' /\ main' # "io"
                /\ gameState = "NORMAL" => services' # "stopped"
                /\ MainInOrder'
    BY <1>1 DEF TypeOK
  <2>0. /\ services \in {"idle", "running", "stopped"} /\ main \in MainSteps /\ aborted = FALSE
        /\ gameState = "NORMAL" => services # "stopped"
        /\ Signalled <=> gameState = "SHUTDOWN"
    BY <1>5, <1>6, <1>7 DEF TypeOK, GameInOrder
  <2>. USE <1>1, <1>2, <1>6, <1>7, <2>0 DEF MainInOrder, Starting, Up, Down, MainSteps
  <2>1. CASE MainStartDispatcher
    <3>1. CASE D!Start /\ main' = "startScheduler" /\ UNCHANGED sVars
      BY <2>1, <3>1 DEF MainStartDispatcher, D!Start, sVars
    <3>2. CASE (\E t \in Timed, d \in S!Time : S!AddTask(t, d)) /\ UNCHANGED <<dVars, main>>
      BY <2>1, <3>2 DEF MainStartDispatcher, S!AddTask, dVars
    <3>. QED BY <2>1, <3>1, <3>2 DEF MainStartDispatcher
  <2>2. CASE MainStartScheduler BY <2>2 DEF MainStartScheduler, S!Start, dVars
  <2>3. CASE MainStartIo BY <2>3 DEF MainStartIo, dVars, sVars
  <2>4. CASE MainIoReturns BY <2>4 DEF MainIoReturns, dVars, sVars
  <2>5. CASE MainChecks BY <2>5 DEF MainChecks, NeedsStop, dVars, sVars
  <2>6. CASE MainStopScheduler BY <2>6 DEF MainStopScheduler, S!Stop, dVars
  <2>7. CASE MainStopDispatcher BY <2>7 DEF MainStopDispatcher, D!Stop, sVars
  <2>8. CASE MainJoinScheduler BY <2>8 DEF MainJoinScheduler, S!Join, dVars, sVars
  <2>9. CASE MainJoinDispatcher BY <2>9 DEF MainJoinDispatcher, D!Join, dVars, sVars
  <2>. QED BY <2>1, <2>2, <2>3, <2>4, <2>5, <2>6, <2>7, <2>8, <2>9 DEF Main
<1>9. GameInOrder'
  BY <1>1, <1>2, <1>5, <1>7, <1>8 DEF GameInOrder
<1>. QED BY <1>3, <1>8, <1>9

\* One task is executed at a time; a SIGQUIT that leads is that task.
LEMMA ActiveFacts ==
    ASSUME Orderly, DispatcherInv, InOrder, NEW t, t = Active, t # NoTask
    PROVE  /\ t \in Task /\ dStatus \in [Task -> DP!Statuses] /\ step \in [Task -> Steps]
           /\ \A u \in Task : dStatus[u] = "executing" <=> u = t
           /\ \/ dPc = "run" /\ dCurrent = t
              \/ dPc = "batch" /\ dCurrent = NoTask /\ dInner = t
           /\ dState # "STOPPED"
           /\ dPc = "batch" => dState # "STARTED"
           /\ \A u \in Quit : Leads(u) => u = t
           /\ t \in Quit => Signalled
           /\ t = Shutdown => gameState = "SHUTDOWN"
           /\ gameState = "SHUTDOWN" /\ ~Leads(t)
                 => Down /\ \A u \in Quit : step[u] \in {"begin", "end"}
<1>. NoTask \notin Task /\ Quit \subseteq Task /\ Shutdown \in Task
  BY ShutdownAssumption DEF Task
<1>1. /\ dStatus \in [Task -> DP!Statuses]
      /\ dCurrent \in Task \cup {NoTask} /\ dInner \in Task \cup {NoTask}
      /\ dPc \in {"drain", "batch", "final"} => dState = "STOPPING"
      /\ dState = "STOPPED" => dPc \in {"none", "exit"}
      /\ dPc # "batch" => dInner = NoTask
      /\ \A u \in Task : dStatus[u] = "executing" <=> u \in {dCurrent, dInner}
  BY DispatcherFacts
<1>2. /\ step \in [Task -> Steps] /\ gameState \in {"NORMAL", "SHUTDOWN"}
      /\ dPc = "batch" => dCurrent = NoTask
  BY DEF InOrder, TypeOK, TasksInOrder
<1>3. /\ t \in Task
      /\ \/ dPc = "run" /\ dCurrent = t
         \/ dPc = "batch" /\ dCurrent = NoTask /\ dInner = t
  BY <1>1, <1>2 DEF Active
<1>4. \A u \in Task : dStatus[u] = "executing" <=> u = t BY <1>1, <1>3
<1>5. \A u \in Quit : Leads(u) => u = t BY <1>3 DEF Leads
<1>6. t \in Quit => Signalled BY <1>3, <1>4 DEF Signalled
<1>7. t = Shutdown => gameState = "SHUTDOWN" BY <1>2, <1>4 DEF InOrder, GameInOrder
<1>8. gameState = "SHUTDOWN" /\ ~Leads(t)
         => Down /\ \A u \in Quit : step[u] \in {"begin", "end"}
  BY <1>5 DEF InOrder, GameInOrder
<1>. QED BY <1>1, <1>2, <1>3, <1>4, <1>5, <1>6, <1>7, <1>8

\* A step of a task that does not lead the shutdown, and changes neither the
\* game nor who is started, keeps the order.
LEMMA FollowerKeepsOrder ==
    ASSUME Orderly, DispatcherInv, InOrder, NEW t, t = Active, t # NoTask, ~Leads(t),
           UNCHANGED <<gameState, main, aborted>>,
           world' \in {"live", "saved", "cleared"}, earlier' = earlier,
           \/ services' = services
           \/ services' \in {services, "stopped"} /\ gameState = "SHUTDOWN",
           dState' = dState, sState' = "STARTED" <=> sState = "STARTED",
           dPc' = "batch" => dCurrent' = NoTask,
           \/ /\ dStatus' = dStatus
              /\ \E s \in Steps : step' = [step EXCEPT ![t] = s]
              /\ gameState = "NORMAL" => step' = step \/ t \notin Quit
              /\ t \notin Net /\ (t \in Timed \cup Quit => step'[t] \in {"begin", "end"})
           \/ /\ step' = step /\ step[t] \in {"begin", "end"}
              /\ dStatus' = [dStatus EXCEPT ![t] = "done"]
    PROVE  InOrder'
<1>. Quit \subseteq Task /\ Timed \subseteq Task /\ Net \subseteq Task /\ Shutdown \in Task
  BY DEF Task
<1>1. /\ t \in Task /\ dStatus \in [Task -> DP!Statuses] /\ step \in [Task -> Steps]
      /\ \A u \in Task : dStatus[u] = "executing" <=> u = t
      /\ t \in Quit => Signalled
      /\ t = Shutdown => gameState = "SHUTDOWN"
      /\ gameState = "SHUTDOWN" => Down /\ \A u \in Quit : step[u] \in {"begin", "end"}
  BY ActiveFacts
<1>2. /\ \A u \in Task : dStatus[u] = "new" <=> dStatus'[u] = "new"
      /\ \A u \in Task : dStatus'[u] # dStatus[u] => u = t /\ step'[t] \in {"begin", "end"}
      /\ step' \in [Task -> Steps]
      /\ \A u \in Task \ {t} : step'[u] = step[u]
  BY <1>1
<1>3. Signalled' <=> Signalled
  <2>. Quit \cup Term \subseteq Task BY DEF Task
  <2>. QED BY <1>2 DEF Signalled
<1>4. TypeOK'
  <2>1. ASSUME NEW u \in Task, step'[u] \notin {"begin", "end"}
        PROVE  dStatus'[u] = "executing"
    BY <1>1, <1>2, <2>1 DEF InOrder, TypeOK
  <2>. QED BY <1>2, <2>1 DEF InOrder, TypeOK
<1>5. TasksInOrder'
  <2>1. \A u \in Net : step'[u] = "begin" BY <1>1, <1>2 DEF InOrder, TasksInOrder
  <2>2. \A u \in Timed : step'[u] \in {"begin", "end"}
    BY <1>1, <1>2 DEF InOrder, TasksInOrder
  <2>. QED BY <2>1, <2>2 DEF TasksInOrder
<1>6. GameInOrder'
  <2>. USE DEF InOrder, GameInOrder, Up, Down
  <2>1. gameState' = "NORMAL" => /\ dStatus'[Shutdown] = "new"
                                 /\ \A u \in Quit : step'[u] = "begin"
    <3>1. gameState' = "NORMAL" => dStatus'[Shutdown] = "new" BY <1>2
    <3>2. gameState' = "NORMAL" => \A u \in Quit : step'[u] = "begin" BY <1>2
    <3>. QED BY <3>1, <3>2
  <2>2. gameState' = "SHUTDOWN" => Down' /\ \A u \in Quit : step'[u] \in {"begin", "end"}
    <3>1. gameState' = "SHUTDOWN" => Down' BY <1>1
    <3>2. gameState' = "SHUTDOWN" => \A u \in Quit : step'[u] \in {"begin", "end"}
      BY <1>1, <1>2
    <3>. QED BY <3>1, <3>2
  <2>3. ~Signalled' => gameState' = "NORMAL" BY <1>3
  <2>4. gameState' = "NORMAL" /\ Signalled' => Up' /\ main' = "io" /\ services' = "running"
    BY <1>3
  <2>5. services' = "stopped" => gameState' = "SHUTDOWN" /\ Down' BY <1>1
  <2>. QED BY <2>1, <2>2, <2>3, <2>4, <2>5
<1>7. MainInOrder'
  BY <1>1, <1>3 DEF InOrder, MainInOrder, Starting, Up, Down
<1>. QED BY <1>4, <1>5, <1>6, <1>7 DEF InOrder

\* The steps of the SIGQUIT that shuts the server down: nobody else stops the
\* scheduler or the dispatcher between its test and its stop().
LEMMA LeaderKeepsOrder ==
    ASSUME Orderly, DispatcherInv, InOrder, NEW t, t = Active, t # NoTask, t \in Quit,
           \/ QuitBegin(t) /\ ~AlreadyShutDown
           \/ QuitSubmit(t) \/ QuitStopScheduler(t) \/ QuitStopDispatcher(t)
    PROVE  InOrder'
<1>. Quit \subseteq Task /\ Timed \subseteq Task /\ Net \subseteq Task /\ Shutdown \in Task
  BY DEF Task
<1>1. /\ t \in Task /\ dStatus \in [Task -> DP!Statuses] /\ step \in [Task -> Steps]
      /\ \A u \in Task : dStatus[u] = "executing" <=> u = t
      /\ \/ dPc = "run" /\ dCurrent = t
         \/ dPc = "batch" /\ dCurrent = NoTask /\ dInner = t
      /\ dPc = "batch" => dState # "STARTED"
      /\ Signalled
      /\ gameState = "SHUTDOWN" /\ ~Leads(t)
            => \A u \in Quit : step[u] \in {"begin", "end"}
  BY ActiveFacts
<1>2. /\ gameState \in {"NORMAL", "SHUTDOWN"} /\ world \in {"live", "saved", "cleared"}
      /\ services \in {"idle", "running", "stopped"} /\ main \in MainSteps
      /\ earlier \in SUBSET Task /\ aborted = FALSE
      /\ \A u \in Task : step[u] \notin {"begin", "end"} => dStatus[u] = "executing"
  BY DEF InOrder, TypeOK
<1>3. t \notin Net /\ t \notin Timed /\ t # Shutdown BY ShutdownAssumption
<1>4. /\ gameState = "NORMAL" => /\ Up /\ main = "io" /\ services = "running"
                                 /\ dStatus[Shutdown] = "new" /\ step[t] = "begin"
      /\ step[t] # "begin" /\ step[t] # "end" => gameState = "SHUTDOWN" /\ Leads(t)
  BY <1>1, <1>2 DEF InOrder, GameInOrder
<1>5. \* the parts of the order that every one of these steps keeps
      ASSUME NEW s \in Steps, step' = [step EXCEPT ![t] = s], dCurrent' = dCurrent,
             dPc' = dPc, dStatus'[t] = "executing", Signalled', gameState' = "SHUTDOWN",
             world' \in {"live", "saved", "cleared"}, earlier' \in SUBSET Task, aborted' = FALSE,
             main' = main, main = "io", services' = services, services = "running",
             Leads(t)' \/ (Down' /\ s = "end")
      PROVE  InOrder'
  <2>1. \A u \in Task \ {t} : step'[u] = step[u] BY <1>1, <1>5
  <2>2. \A u \in Task \ {t} : step[u] \in {"begin", "end"} BY <1>1, <1>2
  <2>3. step' \in [Task -> Steps] /\ step'[t] = s BY <1>1, <1>5
  <2>4. TypeOK'
    BY <1>2, <1>5, <2>1, <2>2, <2>3 DEF TypeOK
  <2>5. TasksInOrder' BY <1>3, <1>5, <2>1 DEF InOrder, TasksInOrder
  <2>6. GameInOrder' BY <1>5, <2>1, <2>2, <2>3 DEF GameInOrder
  <2>7. MainInOrder' BY <1>5 DEF MainInOrder, Starting
  <2>. QED BY <1>5, <2>4, <2>5, <2>6, <2>7 DEF InOrder
<1>6. CASE QuitBegin(t) /\ ~AlreadyShutDown
  <2>1. gameState = "NORMAL" BY <1>2, <1>6 DEF AlreadyShutDown
  <2>2. dPc = "run" /\ dCurrent = t BY <1>1, <1>4, <2>1 DEF Up
  <2>3. /\ gameState' = "SHUTDOWN" /\ world' = "saved"
        /\ step' = [step EXCEPT ![t] = "submit"] /\ earlier' = earlier
        /\ aborted' = aborted /\ main' = main /\ services' = services
        /\ UNCHANGED <<dVars, sVars>>
    BY <1>6 DEF QuitBegin, WorldSaved, AfterSave, Go
  <2>4. /\ dState' = dState /\ dPc' = dPc /\ dCurrent' = dCurrent /\ dStatus' = dStatus
        /\ sState' = sState /\ "submit" \in Steps /\ step'[t] = "submit"
    BY <1>1, <2>3 DEF dVars, sVars, Steps
  <2>5. Signalled' BY <1>1, <2>4 DEF Signalled
  <2>6. Leads(t)' BY <1>4, <2>1, <2>2, <2>3, <2>4, <2>5 DEF Leads, Up
  <2>. QED BY <1>1, <1>2, <1>4, <1>5, <2>1, <2>3, <2>4, <2>5, <2>6
<1>7. CASE QuitSubmit(t)
  <2>1. step[t] = "submit" BY <1>7 DEF QuitSubmit
  <2>2. Leads(t) /\ gameState = "SHUTDOWN" BY <1>4, <2>1
  <2>3. dStatus[Shutdown] = "new" /\ dState = "STARTED" /\ sState = "STARTED"
    BY <2>1, <2>2 DEF Leads
  <2>4. Submit(Shutdown) BY <1>7, <2>3 DEF QuitSubmit, SubmitShutdown
  <2>5. /\ dState' = dState /\ dCurrent' = dCurrent
        /\ dPc' = dPc
        /\ dStatus'[Shutdown] = "queued"
        /\ \A u \in Task \ {Shutdown} : dStatus'[u] = dStatus[u]
    BY <2>2, <2>3, <2>4, SubmitEffect DEF Leads
  <2>6. /\ step' = [step EXCEPT ![t] = "stopScheduler"] /\ earlier' \in SUBSET Task
        /\ gameState' = gameState /\ world' = world /\ services' = services
        /\ main' = main /\ aborted' = aborted /\ sState' = sState
    BY <1>7 DEF QuitSubmit, Go, sVars
  <2>7. dStatus'[t] = "executing" BY <1>1, <1>3, <2>5
  <2>8. Signalled' BY <2>7 DEF Signalled
  <2>9. "stopScheduler" \in Steps /\ step'[t] = "stopScheduler" BY <1>1, <2>6 DEF Steps
  <2>10. Leads(t)' BY <2>2, <2>3, <2>5, <2>6, <2>8, <2>9 DEF Leads
  <2>. QED BY <1>2, <1>5, <2>2, <2>5, <2>6, <2>7, <2>8, <2>9, <2>10 DEF Leads
<1>8. CASE QuitStopScheduler(t)
  <2>1. step[t] = "stopScheduler" BY <1>8 DEF QuitStopScheduler
  <2>2. Leads(t) /\ gameState = "SHUTDOWN" BY <1>4, <2>1
  <2>3. sState = "STARTED" /\ dStatus[Shutdown] = "queued" BY <2>1, <2>2 DEF Leads
  <2>4. /\ S!Stop /\ step' = [step EXCEPT ![t] = "stopDispatcher"]
        /\ UNCHANGED <<dVars, gameState, world, services, main, earlier, aborted>>
    BY <1>8, <2>3 DEF QuitStopScheduler, Go
  <2>5. /\ dState' = dState /\ dPc' = dPc /\ dCurrent' = dCurrent /\ dStatus' = dStatus
        /\ sState' = "STOPPING"
        /\ "stopDispatcher" \in Steps /\ step'[t] = "stopDispatcher"
    BY <1>1, <2>4 DEF dVars, S!Stop, Steps
  <2>6. Signalled' BY <1>1, <2>5 DEF Signalled
  <2>7. Leads(t)' BY <2>2, <2>3, <2>4, <2>5, <2>6 DEF Leads
  <2>. QED BY <1>1, <1>2, <1>5, <2>2, <2>4, <2>5, <2>6, <2>7 DEF Leads
<1>9. CASE QuitStopDispatcher(t)
  <2>1. step[t] = "stopDispatcher" BY <1>9 DEF QuitStopDispatcher
  <2>2. Leads(t) /\ gameState = "SHUTDOWN" BY <1>4, <2>1
  <2>3. dState = "STARTED" /\ sState # "STARTED" /\ dPc = "run" BY <2>1, <2>2 DEF Leads
  <2>4. /\ D!Stop /\ step' = [step EXCEPT ![t] = "end"]
        /\ UNCHANGED <<sVars, gameState, world, services, main, earlier, aborted>>
    BY <1>9, <2>3 DEF QuitStopDispatcher, Go
  <2>5. /\ dState' = "STOPPING" /\ dPc' = dPc /\ dCurrent' = dCurrent /\ dStatus' = dStatus
        /\ sState' = sState /\ "end" \in Steps /\ step'[t] = "end"
    BY <1>1, <2>3, <2>4 DEF sVars, D!Stop, D!Notified, Steps
  <2>6. Signalled' BY <1>1, <2>5 DEF Signalled
  <2>7. Down' BY <2>3, <2>5 DEF Down
  <2>. QED BY <1>1, <1>2, <1>5, <2>2, <2>4, <2>5, <2>6, <2>7 DEF Leads
<1>. QED BY <1>6, <1>7, <1>8, <1>9

\* A step of the task that is executed.
LEMMA TaskStepKeepsOrder ==
    ASSUME Orderly, DispatcherInv, SchedulerThread, InOrder, TaskStep
    PROVE  InOrder'
<1>. NoTask \notin Task /\ Quit \cup Net \cup Timed \cup {Shutdown} \subseteq Task
  BY ShutdownAssumption DEF Task
<1>1. PICK t : /\ t = Active /\ t # NoTask
               /\ \/ QuitBegin(t) \/ QuitSubmit(t) \/ QuitStopScheduler(t)
                  \/ QuitStopDispatcher(t) \/ ShutdownWaitScheduler(t)
                  \/ ShutdownWaitDispatcher(t) \/ ShutdownClear(t)
                  \/ TimedRearm(t) \/ TaskReturns(t)
  BY DEF TaskStep
<1>2. /\ t \in Task /\ dStatus \in [Task -> DP!Statuses] /\ step \in [Task -> Steps]
      /\ \/ dPc = "run" /\ dCurrent = t
         \/ dPc = "batch" /\ dCurrent = NoTask /\ dInner = t
      /\ t = Shutdown => gameState = "SHUTDOWN"
      /\ gameState = "SHUTDOWN" /\ ~Leads(t) => Down
  BY <1>1, ActiveFacts
<1>3. /\ world \in {"live", "saved", "cleared"} /\ services \in {"idle", "running", "stopped"}
      /\ dPc = "batch" => dCurrent = NoTask
      /\ \A u \in Net : step[u] = "begin"
      /\ aborted = FALSE
  BY DEF InOrder, TypeOK, TasksInOrder
<1>4. Leads(t) => step[t] \notin {"begin", "end"} BY DEF Leads
<1>5. CASE \/ QuitBegin(t) /\ ~AlreadyShutDown
           \/ QuitSubmit(t) \/ QuitStopScheduler(t) \/ QuitStopDispatcher(t)
  <2>1. t \in Quit
    BY <1>5 DEF QuitBegin, QuitSubmit, QuitStopScheduler, QuitStopDispatcher
  <2>. QED BY <1>1, <1>5, <2>1, LeaderKeepsOrder
<1>6. CASE QuitBegin(t) /\ AlreadyShutDown
  <2>1. /\ t \in Quit /\ step[t] = "begin" /\ gameState = "SHUTDOWN"
        /\ step' = [step EXCEPT ![t] = "end"]
        /\ UNCHANGED <<gameState, world, dVars, sVars, services, main, earlier, aborted>>
    BY <1>6 DEF QuitBegin, AlreadyShutDown, Go
  <2>2. /\ dState' = dState /\ dPc' = dPc /\ dCurrent' = dCurrent /\ dStatus' = dStatus
        /\ sState' = sState /\ "end" \in Steps /\ step'[t] = "end" /\ t \notin Net
    BY <1>2, <2>1, ShutdownAssumption DEF dVars, sVars, Steps
  <2>3. ~Leads(t) BY <1>4, <2>1
  <2>. QED BY <1>1, <1>3, <2>1, <2>2, <2>3, FollowerKeepsOrder
<1>7. CASE ShutdownWaitScheduler(t) \/ ShutdownWaitDispatcher(t) \/ ShutdownClear(t)
  <2>1. t = Shutdown
    BY <1>7 DEF ShutdownWaitScheduler, ShutdownWaitDispatcher, ShutdownClear, GoingDown, Orderly
  <2>2. t \notin Quit /\ t \notin Net /\ t \notin Timed BY <2>1, ShutdownAssumption
  <2>3. ~Leads(t)
    <3>1. SUFFICES ASSUME Leads(t) PROVE FALSE OBVIOUS
    <3>2. dStatus[Shutdown] = "executing" BY <1>1, <1>2, <2>1, ActiveFacts
    <3>. QED BY <3>1, <3>2 DEF Leads
  <2>4. gameState = "SHUTDOWN" /\ Down BY <1>2, <2>1, <2>3
  <2>5. \E s \in Steps : step' = [step EXCEPT ![t] = s]
    BY <1>7, <2>4 DEF ShutdownWaitScheduler, ShutdownWaitDispatcher, ShutdownClear, Down,
                      Go, Steps
  <2>6. UNCHANGED <<dVars, gameState, main, earlier, aborted>>
    BY <1>7, <2>4 DEF ShutdownWaitScheduler, ShutdownWaitDispatcher, ShutdownClear, Down
  <2>7. sState' = sState
    BY <1>7, <2>4 DEF ShutdownWaitScheduler, ShutdownWaitDispatcher, ShutdownClear, Down,
                      S!Join, sVars
  <2>8. world' \in {"live", "saved", "cleared"} /\ services' \in {services, "stopped"}
    BY <1>3, <1>7, <2>4 DEF ShutdownWaitScheduler, ShutdownWaitDispatcher, ShutdownClear,
                            Down, StopServices
  <2>9. dState' = dState /\ dPc' = dPc /\ dCurrent' = dCurrent /\ dStatus' = dStatus
    BY <2>6 DEF dVars
  <2>. QED BY <1>1, <1>3, <2>2, <2>3, <2>4, <2>5, <2>6, <2>7, <2>8, <2>9, FollowerKeepsOrder
<1>8. CASE TimedRearm(t)
  <2>1. /\ t \in Timed /\ step[t] = "begin" /\ step' = [step EXCEPT ![t] = "end"]
        /\ UNCHANGED <<dVars, gameState, world, services, main, earlier, aborted>>
    BY <1>8 DEF TimedRearm, Go
  <2>2. sState' = "STARTED" <=> sState = "STARTED"
    <3>1. CASE UNCHANGED sVars BY <3>1 DEF sVars
    <3>2. CASE \E u \in Timed, d \in S!Time : S!AddTask(u, d) \/ S!RefuseTask(u)
      <4>1. SchedulerSteps BY <3>2 DEF SchedulerSteps
      <4>. QED BY <4>1, SchedulerEffect
    <3>. QED BY <1>8, <3>1, <3>2 DEF TimedRearm
  <2>3. /\ dState' = dState /\ dPc' = dPc /\ dCurrent' = dCurrent /\ dStatus' = dStatus
        /\ "end" \in Steps /\ step'[t] = "end" /\ t \notin Net /\ t \notin Quit
    BY <1>2, <2>1, ShutdownAssumption DEF dVars, Steps
  <2>4. ~Leads(t) BY <1>4, <2>1
  <2>. QED BY <1>1, <1>3, <2>1, <2>2, <2>3, <2>4, FollowerKeepsOrder
<1>9. CASE TaskReturns(t)
  <2>1. step[t] \in {"begin", "end"} BY <1>3, <1>9 DEF TaskReturns, Returns
  <2>2. UNCHANGED <<sVars, gVars>> BY <1>9 DEF TaskReturns
  <2>3. /\ UNCHANGED <<gameState, main, aborted>> /\ world' = world /\ earlier' = earlier
        /\ services' = services /\ sState' = sState /\ step' = step
    BY <2>2 DEF sVars, gVars
  <2>4. dStatus' = [dStatus EXCEPT ![t] = "done"]
    BY <1>2, <1>9 DEF TaskReturns, D!Finish, D!BatchFinish
  <2>5. dState' = dState /\ (dPc' = "batch" => dCurrent' = NoTask)
    BY <1>2, <1>9 DEF TaskReturns, D!Finish, D!BatchFinish
  <2>6. ~Leads(t) BY <1>4, <2>1
  <2>. QED BY <1>1, <1>3, <2>1, <2>3, <2>4, <2>5, <2>6, FollowerKeepsOrder
<1>. QED BY <1>1, <1>5, <1>6, <1>7, <1>8, <1>9

\* The order of an orderly shutdown is never broken.
LEMMA ServerStaysInOrder == ASSUME Orderly PROVE Spec => []InOrder
<1>1. Init => InOrder
  <2>. SUFFICES ASSUME Init PROVE InOrder OBVIOUS
  <2>. Shutdown \in Task /\ Quit \cup Term \cup Net \cup Timed \subseteq Task BY DEF Task
  <2>1. /\ dStatus = [t \in Task |-> "new"] /\ dPc = "none"
        /\ step = [t \in Task |-> "begin"] /\ gameState = "NORMAL" /\ world = "live"
        /\ services = "idle" /\ main = "startDispatcher" /\ earlier = {} /\ aborted = FALSE
    BY DEF Init, D!Init
  <2>2. ~Signalled BY <2>1 DEF Signalled
  <2>3. TypeOK BY <2>1 DEF TypeOK, Steps, MainSteps
  <2>4. TasksInOrder BY <2>1 DEF TasksInOrder
  <2>5. GameInOrder BY <2>1, <2>2 DEF GameInOrder
  <2>6. MainInOrder BY <2>1, <2>2 DEF MainInOrder, Starting
  <2>. QED BY <2>1, <2>3, <2>4, <2>5, <2>6 DEF InOrder
<1>2. DispatcherInv /\ SchedulerThread /\ InOrder /\ [Next]_vars => InOrder'
  <2>. SUFFICES ASSUME DispatcherInv, SchedulerThread, InOrder, [Next]_vars PROVE InOrder'
    OBVIOUS
  <2>1. CASE UNCHANGED vars
    <3>1. /\ UNCHANGED gVars /\ dState' = dState /\ sState' = sState /\ dPc' = dPc
          /\ dCurrent' = dCurrent /\ dStatus' = dStatus
      BY <2>1 DEF vars, dVars, sVars
    <3>2. Signalled' <=> Signalled BY <3>1 DEF Signalled
    <3>. QED BY <3>1, <3>2, FrameKeepsOrder DEF InOrder, TasksInOrder
  <2>2. CASE Main BY <2>2, MainKeepsOrder
  <2>3. CASE TaskStep BY <2>3, TaskStepKeepsOrder
  <2>4. CASE DispatcherLoop \/ SchedulerLoop \/ NetSubmits \/ Signal \/ Spurious \/ Tick
    BY <2>4, ThreadsKeepOrder
  <2>. QED BY <2>1, <2>2, <2>3, <2>4 DEF Next
<1>. QED BY <1>1, <1>2, DispatcherInvHolds, SchedulerThreadHolds, PTL DEF Spec

\* However many SIGQUITs arrive, and whether or not the network fails before the
\* first, no thread stops what is not started nor waits for what was not asked
\* to stop: the assertions of stop() and waitUntilStopped() hold.
THEOREM OrderlyServerNeverAborts == ASSUME Orderly PROVE Spec => []NeverAborts
<1>1. InOrder => NeverAborts BY DEF InOrder, NeverAborts
<1>. QED BY <1>1, ServerStaysInOrder, PTL

-------------------------------------------------------------------------------
(* The tasks accepted before the shutdown are executed before it. *)

\* In the queue q the shutdown comes after every task of E.
Last(q, E) == \A i, j \in 1..Len(q) : q[i] = Shutdown /\ q[j] \in E => j < i

ShutdownBegun == dStatus[Shutdown] \notin {"new", "queued"}

\* The shutdown is queued behind the tasks accepted earlier, wherever the drain
\* has moved them, and begins when they are done.
ShutdownLast ==
    /\ earlier \subseteq Task \ {Shutdown}
    /\ \A t \in earlier : dStatus[t] \notin {"new", "refused"}
    /\ Last(dTasks, earlier) /\ Last(dBatch, earlier)
    /\ Shutdown \in Range(dBatch) => Range(dTasks) \cap earlier = {}
    /\ ShutdownBegun => \A t \in earlier : dStatus[t] \in {"done", "expired"}
    /\ world = "cleared" => ShutdownBegun

\* The shutdown stays last when another task is queued or the first is taken;
\* queued itself, it is last; and first, it is alone.
LEMMA LastLemma ==
    ASSUME NEW q \in Seq(Task), NEW E, Shutdown \notin E
    PROVE  /\ Last(q, E) => \A u \in Task \ {Shutdown} : u \notin E => Last(Append(q, u), E)
           /\ Last(q, E) /\ q # <<>> => Last(Tail(q), E)
           /\ Last(q, E) /\ q # <<>> /\ Head(q) = Shutdown => Range(q) \cap E = {}
           /\ Shutdown \notin Range(q) => Last(Append(q, Shutdown), E)
           /\ Last(<<>>, E)
<1>. Shutdown \in Task /\ DOMAIN q = 1..Len(q) /\ Len(q) \in Nat BY DEF Task
<1>1. \A u \in Task : /\ Len(Append(q, u)) = Len(q) + 1
                      /\ Append(q, u)[Len(q) + 1] = u
                      /\ \A i \in 1..Len(q) : Append(q, u)[i] = q[i]
  OBVIOUS
<1>2. ASSUME Last(q, E), NEW u \in Task \ {Shutdown}, u \notin E PROVE Last(Append(q, u), E)
  <2>1. ASSUME NEW i \in 1..(Len(q) + 1), NEW j \in 1..(Len(q) + 1),
               Append(q, u)[i] = Shutdown, Append(q, u)[j] \in E
        PROVE  j < i
    <3>1. i \in 1..Len(q) /\ j \in 1..Len(q) BY <1>1, <1>2, <2>1
    <3>. QED BY <1>1, <1>2, <2>1, <3>1 DEF Last
  <2>. QED BY <1>1, <2>1 DEF Last
<1>3. ASSUME Last(q, E), q # <<>> PROVE Last(Tail(q), E)
  <2>1. /\ Len(q) > 0 /\ Len(Tail(q)) = Len(q) - 1
        /\ \A i \in 1..(Len(q) - 1) : Tail(q)[i] = q[i + 1]
    BY <1>3
  <2>. QED BY <1>3, <2>1 DEF Last
<1>4. ASSUME Last(q, E), q # <<>>, Head(q) = Shutdown PROVE Range(q) \cap E = {}
  <2>1. Len(q) > 0 /\ q[1] = Shutdown BY <1>4
  <2>2. ASSUME NEW j \in 1..Len(q), q[j] \in E PROVE FALSE
    BY <1>4, <2>1, <2>2 DEF Last
  <2>. QED BY <2>2 DEF Range
<1>5. ASSUME Shutdown \notin Range(q) PROVE Last(Append(q, Shutdown), E)
  <2>1. ASSUME NEW i \in 1..(Len(q) + 1), NEW j \in 1..(Len(q) + 1),
               Append(q, Shutdown)[i] = Shutdown, Append(q, Shutdown)[j] \in E
        PROVE  j < i
    <3>1. i = Len(q) + 1 /\ j # Len(q) + 1 BY <1>1, <1>5, <2>1 DEF Range
    <3>. QED BY <3>1
  <2>. QED BY <1>1, <2>1 DEF Last
<1>6. Last(<<>>, E) BY DEF Last
<1>. QED BY <1>2, <1>3, <1>4, <1>5, <1>6

\* A step that queues nothing and begins no task.
LEMMA FrameKeepsLast ==
    ASSUME ShutdownLast, earlier' = earlier, dTasks' = dTasks, dBatch' = dBatch,
           world' = "cleared" => world = "cleared" \/ ShutdownBegun,
           \A t \in Task : \/ dStatus'[t] = dStatus[t]
                           \/ dStatus[t] = "executing" /\ dStatus'[t] = "done"
    PROVE  ShutdownLast'
<1>. Shutdown \in Task BY DEF Task
<1>1. ShutdownBegun' <=> ShutdownBegun BY DEF ShutdownBegun
<1>2. earlier \subseteq Task \ {Shutdown} BY DEF ShutdownLast
<1>3. \A t \in earlier : dStatus'[t] \notin {"new", "refused"} BY <1>2 DEF ShutdownLast
<1>4. ShutdownBegun => \A t \in earlier : dStatus'[t] \in {"done", "expired"}
  BY <1>2 DEF ShutdownLast
<1>5. Last(dTasks, earlier)' /\ Last(dBatch, earlier)' BY DEF ShutdownLast, Last
<1>. QED BY <1>1, <1>2, <1>3, <1>4, <1>5 DEF ShutdownLast

\* A task submitted meanwhile is none of the earlier ones.
LEMMA SubmitKeepsLast ==
    ASSUME DispatcherInv, ShutdownLast, NEW u \in Task, u # Shutdown, Submit(u),
           earlier' = earlier, world' = world
    PROVE  ShutdownLast'
<1>. Shutdown \in Task BY DEF Task
<1>1. /\ dBatch' = dBatch /\ dTasks' \in {dTasks, Append(dTasks, u)} /\ dStatus[u] = "new"
      /\ \A t \in Task \ {u} : dStatus'[t] = dStatus[t]
  BY SubmitEffect
<1>2. dTasks \in Seq(Task) /\ dBatch \in Seq(Task) BY DispatcherFacts
<1>3. /\ earlier \subseteq Task \ {Shutdown} /\ u \notin earlier
      /\ Last(dTasks, earlier) /\ Last(dBatch, earlier)
  BY <1>1 DEF ShutdownLast
<1>4. ShutdownBegun' <=> ShutdownBegun BY <1>1 DEF ShutdownBegun
<1>5. \A t \in earlier : dStatus'[t] = dStatus[t] BY <1>1, <1>3
<1>6. Last(Append(dTasks, u), earlier) BY <1>2, <1>3, LastLemma
<1>7. Last(dTasks', earlier) /\ Last(dBatch', earlier) BY <1>1, <1>3, <1>6
<1>8. Last(dTasks, earlier)' /\ Last(dBatch, earlier)' BY <1>7 DEF Last
<1>9. Range(dBatch') = Range(dBatch) /\ Range(dTasks') \subseteq Range(dTasks) \cup {u}
  BY <1>1, <1>2 DEF Range
<1>. QED BY <1>3, <1>4, <1>5, <1>8, <1>9 DEF ShutdownLast

\* The first task of the queue begins: if it is the shutdown, no earlier one is
\* left in the queue, and none is executed.
LEMMA BeginKeepsLast ==
    ASSUME ShutdownLast, dStatus \in [Task -> DP!Statuses],
           \A t \in Task : dStatus[t] # "executing",
           NEW h \in Task, dStatus[h] = "queued",
           dStatus' = [dStatus EXCEPT ![h] = "executing"],
           earlier' = earlier, world' = world,
           Last(dTasks', earlier), Last(dBatch', earlier),
           Shutdown \in Range(dBatch') => Range(dTasks') \cap earlier = {},
           h = Shutdown => \A t \in earlier : dStatus[t] # "queued"
    PROVE  ShutdownLast'
<1>. Shutdown \in Task BY DEF Task
<1>1. earlier \subseteq Task \ {Shutdown} BY DEF ShutdownLast
<1>2. \A t \in earlier : dStatus'[t] \notin {"new", "refused"} BY <1>1 DEF ShutdownLast
<1>3. ShutdownBegun' => ShutdownBegun \/ h = Shutdown BY DEF ShutdownBegun
<1>4. ShutdownBegun => ShutdownBegun' BY DEF ShutdownBegun
<1>5. ASSUME ShutdownBegun', NEW t \in earlier PROVE dStatus'[t] \in {"done", "expired"}
  <2>1. t \in Task /\ dStatus[t] \in DP!Statuses BY <1>1
  <2>2. CASE ShutdownBegun
    <3>1. dStatus[t] \in {"done", "expired"} BY <2>2 DEF ShutdownLast
    <3>. QED BY <2>1, <3>1
  <2>3. CASE h = Shutdown
    <3>1. dStatus[t] \notin {"queued", "executing", "new", "refused"}
      BY <2>1, <2>3 DEF ShutdownLast
    <3>. QED BY <1>1, <2>1, <2>3, <3>1 DEF DP!Statuses
  <2>. QED BY <1>3, <1>5, <2>2, <2>3
<1>6. Last(dTasks, earlier)' /\ Last(dBatch, earlier)' BY DEF Last
<1>. QED BY <1>1, <1>2, <1>4, <1>5, <1>6 DEF ShutdownLast

\* The dispatcher's thread takes the tasks from the front, in the loop and in
\* the drain, and the drain takes them all.
LEMMA LoopKeepsLast ==
    ASSUME DispatcherInv, TasksInOrder, ShutdownLast, DispatcherSteps,
           earlier' = earlier, world' = world
    PROVE  ShutdownLast'
<1>1. /\ dTasks \in Seq(Task) /\ dBatch \in Seq(Task)
      /\ dStatus \in [Task -> DP!Statuses]
      /\ dPc \notin {"run", "batch"} => dCurrent = NoTask
      /\ dPc # "batch" => dInner = NoTask /\ dBatch = <<>>
      /\ Range(dBatch) \cup Range(dTasks) = {t \in Task : dStatus[t] = "queued"}
      /\ \A t \in Task : dStatus[t] = "executing" <=> t \in {dCurrent, dInner}
  BY DispatcherFacts
<1>2. dPc = "batch" => dCurrent = NoTask BY DEF TasksInOrder
<1>3. /\ earlier \subseteq Task \ {Shutdown} /\ Last(dTasks, earlier) /\ Last(dBatch, earlier)
      /\ Shutdown \in Range(dBatch) => Range(dTasks) \cap earlier = {}
  BY DEF ShutdownLast
<1>4. NoTask \notin Task BY ShutdownAssumption
<1>5. Range(<<>>) = {} BY DEF Range
<1>6. CASE dTasks' = dTasks /\ dBatch' = dBatch /\ dStatus' = dStatus
  BY <1>6, FrameKeepsLast
<1>7. ASSUME D!Take, dPc \in {"enter", "wake"} PROVE ShutdownLast'
  <2>1. CASE ~D!KeepRunning \/ dTasks = <<>> BY <1>6, <1>7, <2>1 DEF D!Take
  <2>2. CASE D!KeepRunning /\ dTasks # <<>>
    <3>1. PICK h : h = Head(dTasks) OBVIOUS
    <3>2. /\ dTasks' = Tail(dTasks) /\ dBatch' = <<>>
          /\ dStatus' = [dStatus EXCEPT ![h] = "executing"]
      BY <1>1, <1>7, <2>2, <3>1 DEF D!Take
    <3>3. h \in Range(dTasks) BY <1>1, <2>2, <3>1 DEF Range
    <3>4. h \in Task /\ dStatus[h] = "queued" BY <1>1, <3>3
    <3>5. \A t \in Task : dStatus[t] # "executing" BY <1>1, <1>4, <1>7
    <3>6. Last(dTasks', earlier) /\ Last(dBatch', earlier) 
      BY <1>1, <1>3, <2>2, <3>2, LastLemma
    <3>7. h = Shutdown => \A t \in earlier : dStatus[t] # "queued"
      <4>1. SUFFICES ASSUME h = Shutdown, NEW t \in earlier, dStatus[t] = "queued" PROVE FALSE
        OBVIOUS
      <4>2. Range(dTasks) \cap earlier = {} BY <1>1, <1>3, <2>2, <3>1, <4>1, LastLemma
      <4>3. t \in Range(dTasks) BY <1>1, <1>3, <1>5, <1>7, <4>1
      <4>. QED BY <4>2, <4>3
    <3>8. Shutdown \in Range(dBatch') => Range(dTasks') \cap earlier = {} BY <1>5, <3>2
    <3>. QED BY <1>1, <3>2, <3>4, <3>5, <3>6, <3>7, <3>8, BeginKeepsLast
  <2>. QED BY <2>1, <2>2
<1>8. CASE D!Drain
  <2>1. dBatch' = dTasks /\ dTasks' = <<>> /\ dStatus' = dStatus
    BY <1>8 DEF D!Drain, D!MoveTasks
  <2>2. Last(dTasks', earlier) /\ Last(dBatch', earlier) BY <1>1, <1>3, <2>1, LastLemma
  <2>3. Last(dTasks, earlier)' /\ Last(dBatch, earlier)' BY <2>2 DEF Last
  <2>4. Range(dTasks') \cap earlier = {} BY <1>5, <2>1
  <2>5. ShutdownBegun' <=> ShutdownBegun BY <2>1 DEF ShutdownBegun
  <2>. QED BY <2>1, <2>3, <2>4, <2>5 DEF ShutdownLast
<1>9. CASE D!BatchTake
  <2>1. PICK h : h = Head(dBatch) OBVIOUS
  <2>2. /\ dBatch # <<>> /\ dBatch' = Tail(dBatch) /\ dTasks' = dTasks
        /\ dStatus' = [dStatus EXCEPT ![h] = "executing"]
        /\ dPc = "batch" /\ dInner = NoTask
    BY <1>9, <2>1 DEF D!BatchTake
  <2>3. h \in Range(dBatch) /\ Range(Tail(dBatch)) \subseteq Range(dBatch)
    BY <1>1, <2>1, <2>2 DEF Range
  <2>4. h \in Task /\ dStatus[h] = "queued" BY <1>1, <2>3
  <2>5. \A t \in Task : dStatus[t] # "executing" BY <1>1, <1>2, <1>4, <2>2
  <2>6. Last(dTasks', earlier) /\ Last(dBatch', earlier)
    BY <1>1, <1>3, <2>2, LastLemma
  <2>7. h = Shutdown => \A t \in earlier : dStatus[t] # "queued"
    <3>1. SUFFICES ASSUME h = Shutdown, NEW t \in earlier, dStatus[t] = "queued" PROVE FALSE
      OBVIOUS
    <3>2. Range(dBatch) \cap earlier = {} BY <1>1, <1>3, <2>1, <2>2, <3>1, LastLemma
    <3>3. Range(dTasks) \cap earlier = {} BY <1>3, <2>3, <3>1
    <3>4. t \in Range(dBatch) \cup Range(dTasks) BY <1>1, <1>3, <3>1
    <3>. QED BY <3>2, <3>3, <3>4
  <2>8. Shutdown \in Range(dBatch') => Range(dTasks') \cap earlier = {}
    BY <1>3, <2>2, <2>3
  <2>. QED BY <1>1, <2>2, <2>4, <2>5, <2>6, <2>7, <2>8, BeginKeepsLast
<1>10. CASE D!Enter
  <2>1. CASE dTasks = <<>> BY <1>6, <1>10, <2>1 DEF D!Enter
  <2>2. CASE dTasks # <<>> BY <1>7, <1>10, <2>2 DEF D!Enter
  <2>. QED BY <2>1, <2>2
<1>11. CASE D!Wake BY <1>7, <1>11 DEF D!Wake
<1>12. CASE D!CheckState \/ D!BatchEnd \/ D!Final \/ D!SpuriousWakeup
  BY <1>6, <1>12 DEF D!CheckState, D!BatchEnd, D!Final, D!SpuriousWakeup
<1>. QED BY <1>8, <1>9, <1>10, <1>11, <1>12 DEF DispatcherSteps

\* No step of the server puts the shutdown before a task accepted earlier.
LEMMA StepKeepsLast ==
    ASSUME Orderly, DispatcherInv, SchedulerThread, InOrder, ShutdownLast, [Next]_vars
    PROVE  ShutdownLast'
<1>0. /\ Shutdown \in Task /\ Timed \subseteq Task /\ Quit \cup Term \cup Net \subseteq Task
      /\ Shutdown \notin Quit \cup Term \cup Net \cup Timed
  BY ShutdownAssumption DEF Task
<1>1. ASSUME UNCHANGED dVars, earlier' = earlier,
             world' = "cleared" => world = "cleared" \/ ShutdownBegun
      PROVE  ShutdownLast'
  BY <1>1, FrameKeepsLast DEF dVars
<1>2. ASSUME NEW u \in Task, u # Shutdown, Submit(u), UNCHANGED gVars PROVE ShutdownLast'
  BY <1>2, SubmitKeepsLast DEF gVars
<1>3. CASE UNCHANGED vars BY <1>1, <1>3 DEF vars, gVars
<1>4. CASE DispatcherLoop
  BY <1>4, LoopKeepsLast DEF DispatcherLoop, DispatcherSteps, gVars, InOrder
<1>5. CASE SchedulerLoop
  <2>1. CASE S!Hand /\ Submit(sHanding)
    <3>1. sHanding \in Timed BY <2>1 DEF S!Hand, SchedulerThread
    <3>. QED BY <1>0, <1>2, <1>5, <2>1, <3>1 DEF SchedulerLoop
  <2>2. CASE ~(S!Hand /\ Submit(sHanding)) BY <1>1, <1>5, <2>2 DEF SchedulerLoop, gVars
  <2>. QED BY <2>1, <2>2
<1>6. CASE NetSubmits BY <1>0, <1>2, <1>6 DEF NetSubmits
<1>7. CASE Signal BY <1>0, <1>2, <1>7 DEF Signal
<1>8. CASE Spurious
  <2>1. CASE D!SpuriousWakeup /\ UNCHANGED <<sVars, gVars>>
    BY <2>1, LoopKeepsLast DEF DispatcherSteps, gVars, InOrder
  <2>2. CASE S!SpuriousWakeup /\ UNCHANGED <<dVars, gVars>> BY <1>1, <2>2 DEF gVars
  <2>. QED BY <1>8, <2>1, <2>2 DEF Spurious
<1>9. CASE Tick BY <1>1, <1>9 DEF Tick, gVars
<1>10. CASE Main
  <2>1. earlier' = earlier /\ world' = world /\ dTasks' = dTasks /\ dBatch' = dBatch
        /\ dStatus' = dStatus
    BY <1>10 DEF Main, MainStartDispatcher, MainStartScheduler, MainStartIo, MainIoReturns,
         MainChecks, MainStopScheduler, MainStopDispatcher, MainJoinScheduler,
         MainJoinDispatcher, Abort, dVars, D!Start, D!Stop, D!Join
  <2>. QED BY <2>1, FrameKeepsLast
<1>11. CASE TaskStep
  <2>1. PICK t : /\ t = Active /\ t # NoTask
                 /\ \/ QuitBegin(t) \/ QuitSubmit(t) \/ QuitStopScheduler(t)
                    \/ QuitStopDispatcher(t) \/ ShutdownWaitScheduler(t)
                    \/ ShutdownWaitDispatcher(t) \/ ShutdownClear(t)
                    \/ TimedRearm(t) \/ TaskReturns(t)
    BY <1>11 DEF TaskStep
  <2>2. /\ t \in Task /\ dStatus \in [Task -> DP!Statuses]
        /\ dStatus[t] = "executing"
        /\ \/ dPc = "run" /\ dCurrent = t
           \/ dPc = "batch" /\ dCurrent = NoTask /\ dInner = t
    BY <2>1, ActiveFacts
  <2>3. CASE QuitBegin(t) \/ ShutdownWaitScheduler(t) \/ ShutdownWaitDispatcher(t)
             \/ TimedRearm(t)
    <3>1. UNCHANGED dVars /\ earlier' = earlier /\ (world' = world \/ world' = "saved")
      BY <2>3 DEF QuitBegin, ShutdownWaitScheduler, ShutdownWaitDispatcher, TimedRearm,
                  Abort, WorldSaved
    <3>. QED BY <1>1, <3>1
  <2>4. CASE QuitStopScheduler(t) \/ QuitStopDispatcher(t)
    <3>1. /\ dTasks' = dTasks /\ dBatch' = dBatch /\ dStatus' = dStatus
          /\ earlier' = earlier /\ world' = world
      BY <2>4 DEF QuitStopScheduler, QuitStopDispatcher, Abort, D!Stop, dVars
    <3>. QED BY <3>1, FrameKeepsLast
  <2>5. CASE ShutdownClear(t)
    <3>1. t = Shutdown BY <2>5 DEF ShutdownClear, GoingDown, Orderly
    <3>2. ShutdownBegun BY <2>2, <3>1 DEF ShutdownBegun
    <3>3. UNCHANGED dVars /\ earlier' = earlier BY <2>5 DEF ShutdownClear
    <3>. QED BY <1>1, <3>2, <3>3
  <2>6. CASE TaskReturns(t)
    <3>1. /\ dTasks' = dTasks /\ dBatch' = dBatch
          /\ dStatus' = [dStatus EXCEPT ![t] = "done"]
      BY <2>2, <2>6 DEF TaskReturns, D!Finish, D!BatchFinish
    <3>2. earlier' = earlier /\ world' = world BY <2>6 DEF TaskReturns, gVars
    <3>3. \A u \in Task : \/ dStatus'[u] = dStatus[u]
                          \/ dStatus[u] = "executing" /\ dStatus'[u] = "done"
      BY <2>2, <3>1
    <3>. QED BY <3>1, <3>2, <3>3, FrameKeepsLast
  <2>7. CASE QuitSubmit(t)
    <3>1. /\ t \in Quit /\ step[t] = "submit" /\ SubmitShutdown /\ world' = world
          /\ earlier' = {u \in Task : dStatus[u] \notin {"new", "refused"}}
      BY <2>7 DEF QuitSubmit
    <3>2. Leads(t)
      <4>1. gameState = "SHUTDOWN" => Leads(t) BY <2>1, <3>1, ActiveFacts
      <4>2. gameState = "SHUTDOWN" BY <3>1 DEF InOrder, GameInOrder, TypeOK
      <4>. QED BY <4>1, <4>2
    <3>3. /\ dStatus[Shutdown] = "new" /\ dState = "STARTED" /\ dPc = "run"
          /\ Submit(Shutdown)
      BY <3>1, <3>2 DEF Leads, SubmitShutdown
    <3>4. /\ dBatch' = dBatch /\ dTasks' \in {dTasks, Append(dTasks, Shutdown)}
          /\ dStatus'[Shutdown] = "queued"
          /\ \A u \in Task \ {Shutdown} : dStatus'[u] = dStatus[u]
      BY <1>0, <3>3, SubmitEffect
    <3>5. /\ dTasks \in Seq(Task) /\ dBatch = <<>>
          /\ Range(dBatch) \cup Range(dTasks) = {u \in Task : dStatus[u] = "queued"}
      BY <3>3, DispatcherFacts
    <3>6. Shutdown \notin Range(dTasks) /\ Shutdown \notin Range(dBatch)
      BY <1>0, <3>3, <3>5
    <3>7. Shutdown \notin earlier' BY <3>1, <3>3
    <3>8. \A E : Shutdown \notin Range(dTasks) => Last(dTasks, E) BY <3>5 DEF Last, Range
    <3>9. Last(dTasks', earlier') /\ Last(dBatch', earlier')
      <4>1. PICK E : E = earlier' OBVIOUS
      <4>2. Shutdown \notin E BY <3>7, <4>1
      <4>3. /\ Last(Append(dTasks, Shutdown), E) /\ Last(<<>>, E)
            /\ Last(dTasks, E)
        BY <3>5, <3>6, <3>8, <4>2, LastLemma
      <4>. QED BY <3>4, <3>5, <4>1, <4>3
    <3>10. Last(dTasks, earlier)' /\ Last(dBatch, earlier)' BY <3>9 DEF Last
    <3>11. \A u \in earlier' : dStatus'[u] \notin {"new", "refused"} BY <3>1, <3>4, <3>7
    <3>12. ~ShutdownBegun' /\ ~ShutdownBegun BY <3>3, <3>4 DEF ShutdownBegun
    <3>13. world' # "cleared" BY <3>1, <3>12 DEF ShutdownLast
    <3>14. earlier' \subseteq Task \ {Shutdown} BY <3>1, <3>7
    <3>15. Shutdown \notin Range(dBatch') BY <3>4, <3>6
    <3>. QED BY <3>10, <3>11, <3>12, <3>13, <3>14, <3>15 DEF ShutdownLast
  <2>. QED BY <2>1, <2>3, <2>4, <2>5, <2>6, <2>7
<1>. QED BY <1>3, <1>4, <1>5, <1>6, <1>7, <1>8, <1>9, <1>10, <1>11 DEF Next

\* Whatever was accepted before the shutdown was submitted has been executed when
\* the world is deleted, in the dispatcher's loop or in its drain, however many
\* tasks were queued and whoever queued them.
THEOREM EarlierTasksAreExecuted == ASSUME Orderly PROVE Spec => []EarlierTasksSeeTheWorld
<1>1. Init => ShutdownLast
  <2>. SUFFICES ASSUME Init PROVE ShutdownLast OBVIOUS
  <2>1. /\ dTasks = <<>> /\ dBatch = <<>> /\ dStatus = [t \in Task |-> "new"]
        /\ earlier = {} /\ world = "live"
    BY DEF Init, D!Init
  <2>2. Shutdown \in Task BY DEF Task
  <2>. QED BY <2>1, <2>2 DEF ShutdownLast, ShutdownBegun, Last, Range
<1>2. DispatcherInv /\ SchedulerThread /\ InOrder /\ ShutdownLast /\ [Next]_vars
         => ShutdownLast'
  BY StepKeepsLast
<1>3. ShutdownLast => EarlierTasksSeeTheWorld BY DEF ShutdownLast, EarlierTasksSeeTheWorld
<1>. QED BY <1>1, <1>2, <1>3, DispatcherInvHolds, SchedulerThreadHolds, ServerStaysInOrder,
            PTL DEF Spec
===============================================================================
