------------------------------- MODULE Scheduler ------------------------------
(* The scheduler (sources/scheduler.cpp): a priority queue of tasks by time, a *)
(* set of the ids that are still pending, and one thread that hands each task  *)
(* to the dispatcher when its time has come.  cancelTask() only takes the id   *)
(* out of the pending set; the task stays in the queue until it comes to its   *)
(* top.  Every section the code runs under _mutex is one action; the read of   *)
(* _state in the loop condition takes no lock and is an action of its own.     *)
(* Assertions on the caller (start, stop, waitUntilStopped in the wrong state) *)
(* are guards; module ServerShutdown holds the callers to them.                *)
EXTENDS Naturals

CONSTANTS Task,        \* the task objects; each is added at most once, with id 0
          MaxTime,     \* the bound on the clock and on the times of the tasks
          MaxTaskId,   \* numeric_limits<TaskId>::max()
          NoTask       \* "no task"

ASSUME SchedulerAssumption == /\ MaxTime \in Nat
                              /\ MaxTaskId \in Nat \ {0}
                              /\ NoTask \notin Task

VARIABLES now,       \* Clock::now()
          state,     \* _state
          lastId,    \* _lastUsedTaskId
          pending,   \* _pendingTaskIds
          heap,      \* the tasks in _tasks
          due,       \* getTime() of every task
          id,        \* getId() of every task, 0 before addTask
          pc,        \* where the scheduler thread is
          deadline,  \* the time it waits until; Forever if it waits for a signal
          handing,   \* the task it is about to give to the dispatcher
          status     \* history: what became of every task

vars == <<now, state, lastId, pending, heap, due, id, pc, deadline, handing, status>>

Time     == 0..MaxTime
Forever  == MaxTime + 1
TaskId   == 1..MaxTaskId
States   == {"STOPPED", "STARTED", "STOPPING"}
Locus    == {"none",     \* no thread: not started, or joined
             "check",    \* about to read _state in the loop condition
             "enter",    \* about to lock _mutex
             "wait",     \* blocked in _signal.wait or wait_until
             "wake",     \* notified, timed out or woken for no reason
             "hand",     \* about to call dispatcher().addTask
             "final",    \* out of the loop, about to clear everything
             "exit"}     \* returned, not joined
Statuses == {"new", "armed", "cancelled", "handed", "fired", "refused", "dropped", "lost"}

TypeOK == /\ now \in Time
          /\ state \in States
          /\ lastId \in 0..MaxTaskId
          /\ pending \in SUBSET TaskId
          /\ heap \in SUBSET Task
          /\ due \in [Task -> Time]
          /\ id \in [Task -> 0..MaxTaskId]
          /\ pc \in Locus
          /\ deadline \in Time \cup {Forever}
          /\ handing \in Task \cup {NoTask}
          /\ status \in [Task -> Statuses]

Init == /\ now = 0
        /\ state = "STOPPED"
        /\ lastId = 0
        /\ pending = {}
        /\ heap = {}
        /\ due = [t \in Task |-> 0]
        /\ id = [t \in Task |-> 0]
        /\ pc = "none"
        /\ deadline = Forever
        /\ handing = NoTask
        /\ status = [t \in Task |-> "new"]

-------------------------------------------------------------------------------
(* Faulty variants of the helpers below, one per slip the code could contain;  *)
(* the specification uses none of them (README, "Mutants").                    *)

NotifiedLate   == pc              \* the notification is missing
EraseNothing(i) == pending        \* the id is found and not erased
AlwaysReached(t) == TRUE          \* the time is not tested after the wait

-------------------------------------------------------------------------------
(* What the actions are made of. *)

\* notify_one: wakes the thread if it is blocked, and is forgotten otherwise.
Notified == IF pc = "wait" THEN "wake" ELSE pc

\* The id a task gets: ids wrap to 1, as 0 means "no task".
NextId == IF lastId = MaxTaskId THEN 1 ELSE lastId + 1

\* _tasks.top(): no task of the queue has an earlier time.
IsTop(t) == t \in heap /\ \A u \in heap : due[t] <= due[u]

Reached(t) == due[t] <= now

IsCancelled(t) == id[t] \notin pending

Erase(i) == pending \ {i}

-------------------------------------------------------------------------------
(* Calls made by any thread. *)

\* The tasks exist already, so their times may be in the past.  The thread is
\* notified if the new task is the top of the queue, which it does not become
\* when another has the same time.
AddTask(t, d) ==
    LET isTop == \A u \in heap : d < due[u]
        \* the ids, not the tasks, are compared
        sameId == \E u \in heap : IsTop(u) /\ id[u] = NextId
    IN /\ status[t] = "new"
       /\ state \in {"STOPPED", "STARTED"}
       /\ lastId' = NextId
       /\ id' = [id EXCEPT ![t] = NextId]
       /\ due' = [due EXCEPT ![t] = d]
       /\ pending' = pending \cup {NextId}
       /\ heap' = heap \cup {t}
       /\ \/ /\ isTop \/ sameId
             /\ pc' = Notified
          \/ /\ ~isTop
             /\ pc' = pc
       /\ status' = [status EXCEPT ![t] = "armed"]
       /\ UNCHANGED <<now, state, deadline, handing>>

\* addTask while STOPPING returns 0.
RefuseTask(t) ==
    /\ status[t] = "new"
    /\ state = "STOPPING"
    /\ status' = [status EXCEPT ![t] = "refused"]
    /\ UNCHANGED <<now, state, lastId, pending, heap, due, id, pc, deadline, handing>>

\* cancelTask(i) where it returns true; elsewhere it changes nothing.
CancelTask(i) ==
    /\ state = "STARTED"
    /\ i \in pending
    /\ pending' = Erase(i)
    /\ status' = [t \in Task |-> IF t \in heap /\ id[t] = i /\ status[t] = "armed"
                                 THEN "cancelled" ELSE status[t]]
    /\ UNCHANGED <<now, state, lastId, heap, due, id, pc, deadline, handing>>

\* std::thread's assignment needs the previous thread to have been joined.
Start ==
    /\ state = "STOPPED"
    /\ pc = "none"
    /\ state' = "STARTED"
    /\ pc' = "check"
    /\ UNCHANGED <<now, lastId, pending, heap, due, id, deadline, handing, status>>

Stop ==
    /\ state = "STARTED"
    /\ state' = "STOPPING"
    /\ pc' = Notified
    /\ UNCHANGED <<now, lastId, pending, heap, due, id, deadline, handing, status>>

\* waitUntilStopped from another thread: join returns once the thread has.
Join ==
    /\ state # "STARTED"
    /\ pc = "exit"
    /\ pc' = "none"
    /\ UNCHANGED <<now, state, lastId, pending, heap, due, id, deadline, handing, status>>

-------------------------------------------------------------------------------
(* The scheduler thread. *)

\* while (_state == State::STARTED), read without the lock.
CheckState ==
    /\ pc = "check"
    /\ pc' = IF state = "STARTED" THEN "enter" ELSE "final"
    /\ UNCHANGED <<now, state, lastId, pending, heap, due, id, deadline, handing, status>>

\* The thread blocks whatever _state is by now.
Enter ==
    /\ pc = "enter"
    /\ pc' = "wait"
    /\ \/ /\ heap = {}
          /\ deadline' = Forever
       \/ \E t \in heap : IsTop(t) /\ deadline' = due[t]
    /\ UNCHANGED <<now, state, lastId, pending, heap, due, id, handing, status>>

Timeout ==
    /\ pc = "wait"
    /\ deadline <= now
    /\ pc' = "wake"
    /\ UNCHANGED <<now, state, lastId, pending, heap, due, id, deadline, handing, status>>

SpuriousWakeup ==
    /\ pc = "wait"
    /\ pc' = "wake"
    /\ UNCHANGED <<now, state, lastId, pending, heap, due, id, deadline, handing, status>>

\* Nothing to do: the loop goes round.
WakeIdle ==
    /\ pc = "wake"
    /\ state # "STARTED" \/ \A t \in heap : IsTop(t) => ~Reached(t)
    /\ pc' = "check"
    /\ UNCHANGED <<now, state, lastId, pending, heap, due, id, deadline, handing, status>>

\* The top of the queue was cancelled: it is forgotten.  A task that shares its
\* id with one that was popped before it is taken for cancelled as well.
WakeCancelled(t) ==
    /\ pc = "wake"
    /\ state = "STARTED"
    /\ IsTop(t)
    /\ Reached(t)
    /\ IsCancelled(t)
    /\ heap' = heap \ {t}
    /\ pc' = "check"
    /\ status' = [status EXCEPT ![t] = IF status[t] = "armed" THEN "lost" ELSE @]
    /\ UNCHANGED <<now, state, lastId, pending, due, id, deadline, handing>>

WakeDue(t) ==
    /\ pc = "wake"
    /\ state = "STARTED"
    /\ IsTop(t)
    /\ Reached(t)
    /\ ~IsCancelled(t)
    /\ heap' = heap \ {t}
    /\ pending' = Erase(id[t])
    /\ handing' = t
    /\ pc' = "hand"
    /\ status' = [status EXCEPT ![t] = "handed"]
    /\ UNCHANGED <<now, state, lastId, due, id, deadline>>

\* server.dispatcher().addTask(task), without the scheduler's mutex.
Hand ==
    /\ pc = "hand"
    /\ pc' = "check"
    /\ handing' = NoTask
    /\ status' = [status EXCEPT ![handing] = "fired"]
    /\ UNCHANGED <<now, state, lastId, pending, heap, due, id, deadline>>

Final ==
    /\ pc = "final"
    /\ pc' = "exit"
    /\ state' = "STOPPED"
    /\ lastId' = 0
    /\ pending' = {}
    /\ heap' = {}
    /\ status' = [t \in Task |-> IF status[t] = "armed" THEN "dropped" ELSE status[t]]
    /\ UNCHANGED <<now, due, id, deadline, handing>>

-------------------------------------------------------------------------------
Tick ==
    /\ now < MaxTime
    /\ now' = now + 1
    /\ UNCHANGED <<state, lastId, pending, heap, due, id, pc, deadline, handing, status>>

Thread == \/ CheckState \/ Enter \/ Timeout \/ WakeIdle \/ Hand \/ Final
          \/ \E t \in Task : WakeCancelled(t) \/ WakeDue(t)

Callers == \/ \E t \in Task, d \in Time : AddTask(t, d)
           \/ \E t \in Task : RefuseTask(t)
           \/ \E i \in TaskId : CancelTask(i)
           \/ Start \/ Stop \/ Join

Next == Thread \/ SpuriousWakeup \/ Tick \/ Callers

Spec == Init /\ [][Next]_vars

\* The thread is scheduled and time passes; nothing is assumed of the callers,
\* nor that a wakeup ever happens for no reason.
FairSpec == Spec /\ WF_vars(Thread) /\ WF_vars(Tick)

-------------------------------------------------------------------------------
(* Properties. *)

\* The thread never sleeps past the time of a task: while it is blocked nothing
\* in the queue is due before it wakes up, although addTask notifies it only
\* when the id of the new task is that of the top (Scheduler::addTask).
NeverOversleeps == pc = "wait" => \A t \in heap : deadline <= due[t]

\* The pending set and the queue agree: a pending id is the id of exactly one
\* task of the queue, so that cancelTask hits the task its caller means and a
\* popped task finds its own id (addTask, cancelTask and thread(), which change
\* the two containers separately).
PendingIdsIdentify ==
    /\ \A i \in pending : \E t \in heap : id[t] = i
    /\ \A t, u \in heap : id[t] = id[u] => t = u
    /\ \A t \in heap : id[t] \in pending <=> status[t] = "armed"

\* The scheduler implements its promise, a task that was disarmed or expired
\* staying so: module Timer, where the armed tasks are those of the queue whose
\* id is pending.
Promise ==
    INSTANCE Timer WITH
        armed <- {t \in heap : id[t] \in pending},
        expired <- {t \in Task : status[t] \in {"handed", "fired"}}

ImplementsTimer == Promise!Spec

\* While the scheduler runs, every armed task is eventually handed over or
\* cancelled, unless the scheduler is stopped.
ArmedFires ==
    \A t \in Task : status[t] = "armed" /\ state = "STARTED"
                       ~> status[t] \in {"fired", "cancelled"} \/ state # "STARTED"
===============================================================================
