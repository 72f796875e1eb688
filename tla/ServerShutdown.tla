---------------------------- MODULE ServerShutdown ----------------------------
(* How the server starts and goes down: the main thread (main in otserv.cpp,   *)
(* Server::run and Server::destroy in server.cpp), which also runs the network *)
(* services and receives the signals; the dispatcher thread, which executes    *)
(* Game::setGameState(GAME_STATE_SHUTDOWN) for SIGQUIT and Game::shutdown for  *)
(* SIGTERM (game.cpp); and the scheduler thread.  The dispatcher and the       *)
(* scheduler are those of modules Dispatcher and Scheduler; this module says   *)
(* which calls are made, by whom, and when, and where an assertion in the      *)
(* callee aborts the process.  Signals are taken by the main thread between    *)
(* two of its steps: a handler that interrupts a thread holding one of the     *)
(* mutexes is not modelled.                                                    *)
EXTENDS Naturals, Sequences

CONSTANTS Quit,       \* the SIGQUITs: tasks calling setGameState(SHUTDOWN)
          Term,       \* the SIGTERMs: tasks calling shutdown()
          Net,        \* tasks the network services submit
          Timed,      \* scheduler tasks; each arms another when it is executed
          Shutdown,   \* the task setGameState(SHUTDOWN) submits
          NoTask,     \* "no task"
          MaxTime,    \* the bound on the scheduler's clock
          Early,      \* may signals arrive before Server::run()?
          IoFails     \* when io_service::run() may throw: "alone" before any
                      \* signal, "signalled" after one

Task == Quit \cup Term \cup Net \cup Timed \cup {Shutdown}

ASSUME ShutdownAssumption ==
    /\ NoTask \notin Task /\ MaxTime \in Nat
    /\ Shutdown \notin Quit \cup Term \cup Net \cup Timed
    /\ Quit \cap (Term \cup Net \cup Timed) = {}
    /\ Term \cap (Net \cup Timed) = {} /\ Net \cap Timed = {}

VARIABLES dState, dTasks, dPc, dCurrent, dBatch, dInner, dStatus,
          now, sState, sLastId, sPending, sHeap, sDue, sId, sPc, sDeadline,
          sHanding, sStatus,
          gameState,  \* NORMAL or SHUTDOWN, as Game::gameState
          world,      \* "live", "saved" or "cleared": the map and its players
          services,   \* the ServiceManager: "idle", "running" or "stopped"
          step,       \* the next step of every task that has begun
          main,       \* where the main thread is
          earlier,    \* history: the tasks accepted before the shutdown task
          aborted     \* an assertion failed

D == INSTANCE Dispatcher WITH
       state <- dState, tasks <- dTasks, pc <- dPc, current <- dCurrent,
       batch <- dBatch, inner <- dInner, status <- dStatus,
       Expiring <- {}, Urgent <- {}

S == INSTANCE Scheduler WITH
       state <- sState, lastId <- sLastId, pending <- sPending, heap <- sHeap,
       due <- sDue, id <- sId, pc <- sPc, deadline <- sDeadline,
       handing <- sHanding, status <- sStatus,
       Task <- Timed, MaxTaskId <- 7

dVars == <<dState, dTasks, dPc, dCurrent, dBatch, dInner, dStatus>>
sVars == <<now, sState, sLastId, sPending, sHeap, sDue, sId, sPc, sDeadline,
           sHanding, sStatus>>
gVars == <<gameState, world, services, step, main, earlier, aborted>>
vars  == <<dVars, sVars, gVars>>

Steps == {"begin", "submit", "stopScheduler", "stopDispatcher",
          "waitDispatcher", "clear", "end"}
MainSteps == {"startDispatcher", "startScheduler", "startIo", "io",
              "checkScheduler", "stopScheduler", "checkDispatcher",
              "stopDispatcher", "joinScheduler", "joinDispatcher", "destroyed"}

TypeOK == /\ gameState \in {"NORMAL", "SHUTDOWN"}
          /\ world \in {"live", "saved", "cleared"}
          /\ services \in {"idle", "running", "stopped"}
          /\ step \in [Task -> Steps]
          /\ main \in MainSteps
          /\ earlier \in SUBSET Task
          /\ aborted \in BOOLEAN
          /\ \A t \in Task : step[t] \notin {"begin", "end"} => dStatus[t] = "executing"

Init == /\ D!Init
        /\ S!Init
        /\ gameState = "NORMAL"
        /\ world = "live"
        /\ services = "idle"
        /\ step = [t \in Task |-> "begin"]
        /\ main = "startDispatcher"
        /\ earlier = {}
        /\ aborted = FALSE

\* The task whose code the dispatcher thread is executing.
Active == IF dPc = "batch" THEN dInner ELSE IF dPc = "run" THEN dCurrent ELSE NoTask

Abort == /\ aborted' = TRUE
         /\ UNCHANGED <<dVars, sVars, gameState, world, services, step, main, earlier>>

\* The task t goes on at step s.
Go(t, s) == step' = [step EXCEPT ![t] = s]

-------------------------------------------------------------------------------
(* Faulty variants of the helpers below, one per slip the code could contain;  *)
(* the specification uses none of them (README, "Mutants").                    *)

SubmitUrgent(t)    == D!AddTask(t, TRUE) \/ D!RefuseTask(t)
ShutdownForgotten  == "stopScheduler"    \* setGameState submits no task
NotSticky          == FALSE              \* SHUTDOWN can be entered again

-------------------------------------------------------------------------------
(* What the actions are made of. *)

\* The addTask of the dispatcher, accepted or refused.
Submit(t) == D!AddTask(t, FALSE) \/ D!RefuseTask(t)

\* Another shutdown task is refused once the dispatcher is stopped.
SubmitShutdown == IF dStatus[Shutdown] = "new" \/ D!Accepting THEN Submit(Shutdown)
                                                              ELSE UNCHANGED dVars

\* What follows the save in setGameState.
AfterSave == "submit"

WorldSaved == "saved"

AlreadyShutDown == gameState = "SHUTDOWN"

\* ServiceManager::stop(): returns at once unless run() has been entered.
StopServices == IF services = "running" THEN "stopped" ELSE services

\* getState() == STARTED in main().
NeedsStop(st) == st = "STARTED"

\* Whether join() has returned, or there was no thread to join.
Joined(thread) == thread = "none"

\* The code of the task has come to its end.
Returns(t) == step[t] = "end" \/ t \in Net

-------------------------------------------------------------------------------
(* Game::setGameState(GAME_STATE_SHUTDOWN), executed for SIGQUIT. *)

\* "this cannot be stopped": a second request returns at once.  The first kicks
\* the players and saves the game.
QuitBegin(t) ==
    /\ t \in Quit
    /\ step[t] = "begin"
    /\ IF AlreadyShutDown
       THEN Go(t, "end") /\ UNCHANGED <<gameState, world>>
       ELSE /\ gameState' = "SHUTDOWN"
            /\ world' = WorldSaved
            /\ Go(t, AfterSave)
    /\ UNCHANGED <<dVars, sVars, services, main, earlier, aborted>>

QuitSubmit(t) ==
    /\ t \in Quit
    /\ step[t] = "submit"
    /\ SubmitShutdown
    /\ earlier' = {u \in Task : dStatus[u] \notin {"new", "refused"}}
    /\ Go(t, "stopScheduler")
    /\ UNCHANGED <<sVars, gameState, world, services, main, aborted>>

QuitStopScheduler(t) ==
    /\ t \in Quit
    /\ step[t] = "stopScheduler"
    /\ IF sState # "STARTED"
       THEN Abort
       ELSE /\ S!Stop
            /\ Go(t, "stopDispatcher")
            /\ UNCHANGED <<dVars, gameState, world, services, main, earlier, aborted>>

QuitStopDispatcher(t) ==
    /\ t \in Quit
    /\ step[t] = "stopDispatcher"
    /\ IF dState # "STARTED"
       THEN Abort
       ELSE /\ D!Stop
            /\ Go(t, "end")
            /\ UNCHANGED <<sVars, gameState, world, services, main, earlier, aborted>>

-------------------------------------------------------------------------------
(* Game::shutdown, executed for SIGTERM and as the task setGameState submits. *)

GoingDown(t) == t \in Term \cup {Shutdown}

\* scheduler.waitUntilStopped(): aborts while STARTED; otherwise joins.
ShutdownWaitScheduler(t) ==
    /\ GoingDown(t)
    /\ step[t] = "begin"
    /\ IF sState = "STARTED"
       THEN Abort
       ELSE /\ \/ S!Join
               \/ sPc = "none" /\ UNCHANGED sVars
            /\ Go(t, "waitDispatcher")
            /\ UNCHANGED <<dVars, gameState, world, services, main, earlier, aborted>>

\* dispatcher.waitUntilStopped() on the dispatcher's own thread.  A task that
\* gets here is executed by the drain (before it, the dispatcher is STARTED), so
\* that there is nothing left to execute (Dispatcher!NothingBehindTheDrain).
ShutdownWaitDispatcher(t) ==
    /\ GoingDown(t)
    /\ step[t] = "waitDispatcher"
    /\ IF dState = "STARTED"
       THEN Abort
       ELSE /\ dPc = "batch"
            /\ Go(t, "clear")
            /\ UNCHANGED <<dVars, sVars, gameState, world, services, main, earlier, aborted>>

\* Spawns, raids and the game are cleared (the map is deleted), and the network
\* services are stopped.
ShutdownClear(t) ==
    /\ GoingDown(t)
    /\ step[t] = "clear"
    /\ world' = "cleared"
    /\ services' = StopServices
    /\ Go(t, "end")
    /\ UNCHANGED <<dVars, sVars, gameState, main, earlier, aborted>>

\* A timed task arms another one (checkDecay, checkLight and the others rearm
\* themselves); any other task just returns.
TimedRearm(t) ==
    /\ t \in Timed
    /\ step[t] = "begin"
    /\ Go(t, "end")
    /\ \/ \E u \in Timed, d \in S!Time : S!AddTask(u, d) \/ S!RefuseTask(u)
       \/ UNCHANGED sVars
    /\ UNCHANGED <<dVars, gameState, world, services, main, earlier, aborted>>

TaskReturns(t) ==
    /\ Returns(t)
    /\ D!Finish \/ D!BatchFinish
    /\ UNCHANGED <<sVars, gVars>>

TaskStep ==
    LET t == Active IN
    /\ ~aborted
    /\ t # NoTask
    /\ \/ QuitBegin(t) \/ QuitSubmit(t) \/ QuitStopScheduler(t) \/ QuitStopDispatcher(t)
       \/ ShutdownWaitScheduler(t) \/ ShutdownWaitDispatcher(t) \/ ShutdownClear(t)
       \/ TimedRearm(t) \/ TaskReturns(t)

-------------------------------------------------------------------------------
(* The threads. *)

DispatcherLoop ==
    /\ ~aborted
    /\ \/ D!CheckState \/ D!Enter \/ D!Wake \/ D!Drain
       \/ D!BatchTake \/ D!BatchEnd \/ D!Final
    /\ UNCHANGED <<sVars, gVars>>

SchedulerLoop ==
    /\ ~aborted
    /\ \/ /\ \/ S!CheckState \/ S!Enter \/ S!Timeout \/ S!WakeIdle \/ S!Final
             \/ \E t \in Timed : S!WakeCancelled(t) \/ S!WakeDue(t)
          /\ UNCHANGED dVars
       \/ /\ S!Hand
          /\ Submit(sHanding)
    /\ UNCHANGED gVars

\* main(): Game::start has armed timed tasks before server.run().
MainStartDispatcher ==
    /\ ~aborted
    /\ main = "startDispatcher"
    /\ \/ /\ D!Start
          /\ main' = "startScheduler"
          /\ UNCHANGED <<sVars>>
       \/ /\ \E t \in Timed, d \in S!Time : S!AddTask(t, d)
          /\ UNCHANGED <<dVars, main>>
    /\ UNCHANGED <<gameState, world, services, step, earlier, aborted>>

MainStartScheduler ==
    /\ ~aborted
    /\ main = "startScheduler"
    /\ S!Start
    /\ main' = "startIo"
    /\ UNCHANGED <<dVars, gameState, world, services, step, earlier, aborted>>

\* servicer.run()
MainStartIo ==
    /\ ~aborted
    /\ main = "startIo"
    /\ main' = "io"
    /\ services' = "running"
    /\ UNCHANGED <<dVars, sVars, gameState, world, step, earlier, aborted>>

\* A handler of the io_service submits a task.
NetSubmits ==
    /\ ~aborted
    /\ main = "io"
    /\ services = "running"
    /\ \E t \in Net : Submit(t)
    /\ UNCHANGED <<sVars, gVars>>

\* signalHandler: the server is ready as soon as the signals are registered,
\* long before its threads are started.
Signal ==
    /\ ~aborted
    /\ main = "io" \/ (Early /\ main \in {"startDispatcher", "startScheduler", "startIo"})
    /\ \E t \in Quit \cup Term : Submit(t)
    /\ UNCHANGED <<sVars, gVars>>

Signalled == \E t \in Quit \cup Term : dStatus[t] # "new"

\* io_service::run() returns after ServiceManager::stop(), or throws; run()
\* catches that and returns.
MainIoReturns ==
    /\ ~aborted
    /\ main = "io"
    /\ \/ services = "stopped" /\ UNCHANGED services
       \/ /\ (IF Signalled THEN "signalled" ELSE "alone") \in IoFails
          /\ services = "running"
          /\ services' = "idle"
    /\ main' = "checkScheduler"
    /\ UNCHANGED <<dVars, sVars, gameState, world, step, earlier, aborted>>

\* if (getState() == STARTED) stop(): the mutex is released in between.
MainChecks ==
    /\ ~aborted
    /\ \/ /\ main = "checkScheduler"
          /\ main' = IF NeedsStop(sState) THEN "stopScheduler" ELSE "checkDispatcher"
       \/ /\ main = "checkDispatcher"
          /\ main' = IF NeedsStop(dState) THEN "stopDispatcher" ELSE "joinScheduler"
    /\ UNCHANGED <<dVars, sVars, gameState, world, services, step, earlier, aborted>>

MainStopScheduler ==
    /\ ~aborted
    /\ main = "stopScheduler"
    /\ IF sState # "STARTED"
       THEN Abort
       ELSE /\ S!Stop
            /\ main' = "checkDispatcher"
            /\ UNCHANGED <<dVars, gameState, world, services, step, earlier, aborted>>

MainStopDispatcher ==
    /\ ~aborted
    /\ main = "stopDispatcher"
    /\ IF dState # "STARTED"
       THEN Abort
       ELSE /\ D!Stop
            /\ main' = "joinScheduler"
            /\ UNCHANGED <<sVars, gameState, world, services, step, earlier, aborted>>

\* Server::destroy(): both waitUntilStopped, then the components are deleted.
MainJoinScheduler ==
    /\ ~aborted
    /\ main = "joinScheduler"
    /\ IF Joined(sPc) THEN main' = "joinDispatcher" /\ UNCHANGED sVars
                      ELSE S!Join /\ UNCHANGED main
    /\ UNCHANGED <<dVars, gameState, world, services, step, earlier, aborted>>

MainJoinDispatcher ==
    /\ ~aborted
    /\ main = "joinDispatcher"
    /\ IF Joined(dPc) THEN main' = "destroyed" /\ UNCHANGED dVars
                      ELSE D!Join /\ UNCHANGED main
    /\ UNCHANGED <<sVars, gameState, world, services, step, earlier, aborted>>

Main == \/ MainStartDispatcher \/ MainStartScheduler \/ MainStartIo \/ MainIoReturns
        \/ MainChecks \/ MainStopScheduler \/ MainStopDispatcher \/ MainJoinScheduler \/ MainJoinDispatcher

Tick == ~aborted /\ S!Tick /\ UNCHANGED <<dVars, gVars>>

Spurious ==
    /\ ~aborted
    /\ \/ D!SpuriousWakeup /\ UNCHANGED <<sVars, gVars>>
       \/ S!SpuriousWakeup /\ UNCHANGED <<dVars, gVars>>

Next == DispatcherLoop \/ SchedulerLoop \/ TaskStep \/ Main \/ NetSubmits \/ Signal
        \/ Spurious \/ Tick

Spec == Init /\ [][Next]_vars

\* Every thread is scheduled and time passes.  No signal need arrive and no
\* wakeup need happen for no reason.
FairSpec == /\ Spec
            /\ WF_vars(DispatcherLoop)
            /\ WF_vars(SchedulerLoop)
            /\ WF_vars(TaskStep)
            /\ WF_vars(Main)
            /\ WF_vars(Tick)
-------------------------------------------------------------------------------
(* Properties. *)

\* No assertion of the dispatcher or the scheduler on its caller fails: nobody
\* stops what is not started or waits for what was not asked to stop
\* (assertions in stop() and waitUntilStopped()).
NeverAborts == TypeOK /\ ~aborted

\* A task accepted before the shutdown task is executed while the map exists:
\* the shutdown runs in the drain of the dispatcher, after whatever was queued
\* when setGameState submitted it.
EarlierTasksSeeTheWorld ==
    world = "cleared" => \A t \in earlier : dStatus[t] \in {"done", "expired"}

\* Entering SHUTDOWN brings the process to its end, or leaves the scheduler's
\* thread asleep over its empty queue: nothing else can hold the shutdown up.
QuitEndsUnlessAsleep ==
    gameState = "SHUTDOWN" ~> \/ main = "destroyed"
                              \/ sPc = "wait" /\ sState = "STOPPING" /\ sHeap = {}

\* When io_service::run() has thrown, main() stops both threads from outside and
\* ends, or one of the two sleeps over its empty queue.
FailureEndsUnlessAsleep ==
    main = "checkScheduler" ~> \/ main = "destroyed"
                               \/ sPc = "wait" /\ sState = "STOPPING" /\ sHeap = {}
                               \/ dPc = "wait" /\ dState = "STOPPING" /\ dTasks = <<>>

\* However the end comes, only a thread asleep over its empty queue holds it up
\* (stop, thread and waitUntilStopped of both classes).
EndsUnlessAsleep == QuitEndsUnlessAsleep /\ FailureEndsUnlessAsleep

\* Entering SHUTDOWN brings the process to its end.
QuitEnds == gameState = "SHUTDOWN" ~> main = "destroyed"

\* The network services do not run on a map that has been deleted.
NoServiceOnClearedWorld == ~(world = "cleared" /\ services = "running")

===============================================================================
