------------------------------ MODULE Dispatcher ------------------------------
(* The dispatcher (sources/dispatcher.cpp): one deque of tasks that any thread *)
(* may add to, and one thread that executes them.  Every section the code runs *)
(* under _mutex is one action; the read of _state in the loop condition, which *)
(* takes no lock, is an action of its own.  Precondition assertions of the     *)
(* code (start, stop, waitUntilStopped in the wrong state abort the process)   *)
(* are guards here; module ServerShutdown is where callers are held to them.   *)
EXTENDS Sequences, Functions

CONSTANTS Task,         \* the task objects; each is added at most once
          Expiring,     \* the tasks created with an expiration time
          Urgent,       \* the tasks added as urgent
          NoTask        \* "no task"

ASSUME DispatcherAssumption == /\ Expiring \subseteq Task
                               /\ Urgent \subseteq Task
                               /\ NoTask \notin Task

VARIABLES state,    \* _state
          tasks,    \* _tasks
          pc,       \* where the dispatcher thread is
          current,  \* the task the thread's loop is executing
          batch,    \* the rest of the deque a call of runTasks iterates over
          inner,    \* the task that call is executing
          status    \* history: what became of every task

vars == <<state, tasks, pc, current, batch, inner, status>>

States   == {"STOPPED", "STARTED", "STOPPING"}
Locus    == {"none",     \* no thread: not started, or joined
             "check",    \* about to read _state in the loop condition
             "enter",    \* about to lock _mutex
             "wait",     \* blocked in _signal.wait
             "wake",     \* notified, or woken for no reason; about to relock
             "run",      \* executing current
             "drain",    \* out of the loop, about to take the remaining tasks
             "batch",    \* in runTasks: from drain, or from inside current
             "final",    \* about to become STOPPED
             "exit"}     \* returned, not joined
Statuses == {"new", "queued", "executing", "done", "expired", "refused"}

TypeOK == /\ state \in States
          /\ tasks \in Seq(Task)
          /\ pc \in Locus
          /\ current \in Task \cup {NoTask}
          /\ batch \in Seq(Task)
          /\ inner \in Task \cup {NoTask}
          /\ status \in [Task -> Statuses]
          /\ pc = "run" => current # NoTask

Init == /\ state = "STOPPED"
        /\ tasks = <<>>
        /\ pc = "none"
        /\ current = NoTask
        /\ batch = <<>>
        /\ inner = NoTask
        /\ status = [t \in Task |-> "new"]

-------------------------------------------------------------------------------
(* Faulty variants of the helpers below, one per slip the code could contain;  *)
(* the specification uses none of them (README, "Mutants").                    *)

NotifiedLate     == pc                   \* the notification is missing
AcceptingAlways  == TRUE                 \* addTask without the switch on _state
CopyTasks        == /\ batch' = tasks    \* a copy in place of std::move
                    /\ tasks' = tasks
PushSwapped(t, urgent) == IF urgent THEN Append(tasks, t) ELSE <<t>> \o tasks

-------------------------------------------------------------------------------
(* What the actions are made of. *)

\* notify_one: wakes the thread if it is blocked, and is forgotten otherwise.
Notified == IF pc = "wait" THEN "wake" ELSE pc

\* The states in which addTask takes a task.
Accepting == state \in {"STOPPED", "STARTED"}

\* The loop condition of thread().
KeepRunning == state = "STARTED"

\* auto tasks = std::move(_tasks): the remaining tasks become a local deque.
MoveTasks == /\ batch' = tasks
             /\ tasks' = <<>>

Push(t, urgent) == IF urgent THEN <<t>> \o tasks ELSE Append(tasks, t)

\* Where runTasks returns to: the task that called waitUntilStopped, or thread().
Return == IF current # NoTask THEN "run" ELSE "final"

\* A task's code is being executed by the dispatcher thread.
TaskActive == pc = "run" \/ (pc = "batch" /\ inner # NoTask)

-------------------------------------------------------------------------------
(* Calls made by any thread. *)

AddTask(t, urgent) ==
    /\ status[t] = "new"
    /\ Accepting
    /\ tasks' = Push(t, urgent)
    /\ pc' = IF Len(tasks') = 1 THEN Notified ELSE pc
    /\ status' = [status EXCEPT ![t] = "queued"]
    /\ UNCHANGED <<state, current, batch, inner>>

\* addTask while STOPPING: the task is dropped and the caller is not told.
RefuseTask(t) ==
    /\ status[t] = "new"
    /\ ~Accepting
    /\ status' = [status EXCEPT ![t] = "refused"]
    /\ UNCHANGED <<state, tasks, pc, current, batch, inner>>

\* std::thread's assignment needs the previous thread to have been joined.
Start ==
    /\ state = "STOPPED"
    /\ pc = "none"
    /\ state' = "STARTED"
    /\ pc' = "check"
    /\ UNCHANGED <<tasks, current, batch, inner, status>>

Stop ==
    /\ state = "STARTED"
    /\ state' = "STOPPING"
    /\ pc' = IF tasks = <<>> THEN Notified ELSE pc
    /\ UNCHANGED <<tasks, current, batch, inner, status>>

\* waitUntilStopped from another thread: join returns once the thread has.
Join ==
    /\ state # "STARTED"
    /\ pc = "exit"
    /\ pc' = "none"
    /\ UNCHANGED <<state, tasks, current, batch, inner, status>>

\* waitUntilStopped from a task: the caller executes what is queued inside
\* itself.  From a task that runTasks executes the call finds an empty deque
\* (NothingBehindTheDrain) and returns at once.
WaitInTask ==
    /\ pc = "run"
    /\ state # "STARTED"
    /\ pc' = "batch"
    /\ MoveTasks
    /\ UNCHANGED <<state, current, inner, status>>

-------------------------------------------------------------------------------
(* The dispatcher thread. *)

\* while (_state == State::STARTED), read without the lock.
CheckState ==
    /\ pc = "check"
    /\ pc' = IF KeepRunning THEN "enter" ELSE "drain"
    /\ UNCHANGED <<state, tasks, current, batch, inner, status>>

\* Both conditions of the locked section after the wait, and the pop.  Whether
\* the task has expired is decided here, where runTask reads the clock.
Take ==
    IF ~KeepRunning \/ tasks = <<>>
    THEN /\ pc' = "check"
         /\ UNCHANGED <<state, tasks, current, batch, inner, status>>
    ELSE /\ tasks' = Tail(tasks)
         /\ \/ /\ pc' = "run"
               /\ current' = Head(tasks)
               /\ status' = [status EXCEPT ![Head(tasks)] = "executing"]
            \/ /\ Head(tasks) \in Expiring
               /\ pc' = "check"
               /\ status' = [status EXCEPT ![Head(tasks)] = "expired"]
               /\ UNCHANGED current
         /\ UNCHANGED <<state, batch, inner>>

\* With an empty deque wait() releases the mutex and blocks: it does not look
\* at _state again.
Enter ==
    /\ pc = "enter"
    /\ IF tasks = <<>>
       THEN /\ pc' = "wait"
            /\ UNCHANGED <<state, tasks, current, batch, inner, status>>
       ELSE Take

SpuriousWakeup ==
    /\ pc = "wait"
    /\ pc' = "wake"
    /\ UNCHANGED <<state, tasks, current, batch, inner, status>>

Wake ==
    /\ pc = "wake"
    /\ Take

\* The task of the loop returns.
Finish ==
    /\ pc = "run"
    /\ pc' = "check"
    /\ current' = NoTask
    /\ status' = [status EXCEPT ![current] = "done"]
    /\ UNCHANGED <<state, tasks, batch, inner>>

\* The loop is over: the remaining tasks are moved to a local deque.
Drain ==
    /\ pc = "drain"
    /\ pc' = "batch"
    /\ MoveTasks
    /\ UNCHANGED <<state, current, inner, status>>

BatchTake ==
    /\ pc = "batch"
    /\ inner = NoTask
    /\ batch # <<>>
    /\ batch' = Tail(batch)
    /\ \/ /\ inner' = Head(batch)
          /\ status' = [status EXCEPT ![Head(batch)] = "executing"]
       \/ /\ Head(batch) \in Expiring
          /\ status' = [status EXCEPT ![Head(batch)] = "expired"]
          /\ UNCHANGED inner
    /\ UNCHANGED <<state, tasks, pc, current>>

BatchFinish ==
    /\ pc = "batch"
    /\ inner # NoTask
    /\ inner' = NoTask
    /\ status' = [status EXCEPT ![inner] = "done"]
    /\ UNCHANGED <<state, tasks, pc, current, batch>>

\* runTasks returns.
BatchEnd ==
    /\ pc = "batch"
    /\ inner = NoTask
    /\ batch = <<>>
    /\ pc' = Return
    /\ UNCHANGED <<state, tasks, current, batch, inner, status>>

Final ==
    /\ pc = "final"
    /\ state' = "STOPPED"
    /\ pc' = "exit"
    /\ UNCHANGED <<tasks, current, batch, inner, status>>

-------------------------------------------------------------------------------
Thread == \/ CheckState \/ Enter \/ Wake \/ Finish \/ Drain
          \/ BatchTake \/ BatchFinish \/ BatchEnd \/ Final

Callers == \/ \E t \in Task : AddTask(t, t \in Urgent) \/ RefuseTask(t)
           \/ Start \/ Stop \/ Join \/ WaitInTask

Next == Thread \/ SpuriousWakeup \/ Callers

Spec == Init /\ [][Next]_vars

\* The thread is scheduled, and a task returns, however often it waits for the
\* rest of the queue first; nothing is assumed of the callers, nor that a wakeup
\* ever happens for no reason.
FairSpec == Spec /\ WF_vars(Thread) /\ SF_vars(Finish)

-------------------------------------------------------------------------------
(* Properties. *)

\* The thread never sleeps over work: it is blocked only while the deque is
\* empty, although addTask and stop() notify it only on the transition from
\* empty (Dispatcher::addTask and Dispatcher::stop, the size()/empty() tests).
NoSleepOverTasks == pc = "wait" => tasks = <<>>

\* The thread and _state agree, although thread() reads _state without the lock
\* and join() looks at the thread alone: the remaining tasks are taken only
\* after stop(), STOPPED means that the thread is done, and only the loop's own
\* task calls waitUntilStopped from inside the loop.
LifeCycle ==
    /\ state = "STOPPED" <=> pc \in {"none", "exit"}
    /\ pc \in {"drain", "batch", "final"} => state = "STOPPING"
    /\ pc \notin {"run", "batch"} => current = NoTask
    /\ pc # "batch" => inner = NoTask

\* Once the remaining tasks have been taken nothing is left behind in _tasks
\* until the dispatcher is STOPPED: a task accepted before stop() is executed by
\* the drain or not at all, and a nested waitUntilStopped has nothing to do.
NothingBehindTheDrain ==
    pc \in {"batch", "final"} /\ current = NoTask => tasks = <<>>

\* The three rest on each other: nothing is left behind because nothing is taken
\* while STOPPING, and STOPPING is left only behind the drain (thread, addTask).
SafetyInv == LifeCycle /\ NoSleepOverTasks /\ NothingBehindTheDrain

\* No accepted task is lost or duplicated when it moves between the deque, the
\* local deque of the drain and execution: the queued tasks are exactly the
\* elements of the two deques, each once, and those being executed are exactly
\* the thread's (the moves of _tasks in thread() and waitUntilStopped()).
TasksAccounted ==
    LET queue == batch \o tasks IN
    /\ Range(queue) = {t \in Task : status[t] = "queued"}
    /\ IsInjective(queue)
    /\ {current, inner} \ {NoTask} = {t \in Task : status[t] = "executing"}

\* The dispatcher implements its promise: module Executor, where the deque the
\* drain iterates over comes before what is queued after it.
Promise ==
    INSTANCE Executor WITH
        queue <- batch \o tasks,
        executing <- (IF current = NoTask THEN <<>> ELSE <<current>>)
                       \o (IF inner = NoTask THEN <<>> ELSE <<inner>>),
        accepted <- {t \in Task : status[t] \notin {"new", "refused"}},
        closing <- state = "STOPPING"

ImplementsExecutor == Promise!Spec

\* Every task accepted while the dispatcher runs is eventually executed, or
\* discarded because it expired, whoever stops the dispatcher and whenever.
AcceptedIsExecuted ==
    \A t \in Task : status[t] = "queued" /\ state = "STARTED"
                       ~> status[t] \in {"done", "expired"}

===============================================================================
