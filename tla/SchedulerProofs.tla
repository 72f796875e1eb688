---------------------------- MODULE SchedulerProofs ---------------------------
(* Proofs about module Scheduler, for every set of tasks and every time        *)
(* horizon.  Types and the thread's sleep do not depend on the ids; what the   *)
(* ids mean, and so the promise, holds as long as they do not wrap.            *)
EXTENDS Scheduler, FiniteSetTheorems, TLAPS

\* Every variable of the scheduler keeps its type; in particular ids stay within
\* TaskId when they wrap (the test for numeric_limits<TaskId>::max()).
LEMMA TypeStep == TypeOK /\ [Next]_vars => TypeOK'
<1> SUFFICES ASSUME TypeOK, [Next]_vars PROVE TypeOK'
  OBVIOUS
<1> USE SchedulerAssumption DEF TypeOK, States, Locus, Statuses, Time, Forever, TaskId
<1>1. ASSUME NEW t \in Task, NEW d \in Time, AddTask(t, d) PROVE TypeOK'
  <2>1. NextId \in TaskId /\ NextId \in 0..MaxTaskId
    BY DEF NextId
  <2>2. pc' \in Locus
    BY <1>1 DEF AddTask, Notified
  <2>3. due' \in [Task -> Time] /\ id' \in [Task -> 0..MaxTaskId]
    BY <1>1, <2>1 DEF AddTask
  <2>4. pending' \in SUBSET TaskId /\ heap' \in SUBSET Task /\ lastId' \in 0..MaxTaskId
    BY <1>1, <2>1 DEF AddTask
  <2>5. status' \in [Task -> Statuses]
    BY <1>1 DEF AddTask
  <2>6. UNCHANGED <<now, state, deadline, handing>>
    BY <1>1 DEF AddTask
  <2> QED
    BY <2>2, <2>3, <2>4, <2>5, <2>6
<1>2. ASSUME NEW t \in Task, RefuseTask(t) PROVE TypeOK'
  BY <1>2 DEF RefuseTask
<1>3. ASSUME NEW i \in TaskId, CancelTask(i) PROVE TypeOK'
  BY <1>3 DEF CancelTask, Erase
<1>4. CASE Start
  BY <1>4 DEF Start
<1>5. CASE Stop
  BY <1>5 DEF Stop, Notified
<1>6. CASE Join
  BY <1>6 DEF Join
<1>7. CASE CheckState
  BY <1>7 DEF CheckState
<1>8. CASE Enter
  BY <1>8 DEF Enter, IsTop
<1>9. CASE Timeout
  BY <1>9 DEF Timeout
<1>10. CASE SpuriousWakeup
  BY <1>10 DEF SpuriousWakeup
<1>11. CASE WakeIdle
  BY <1>11 DEF WakeIdle
<1>12. ASSUME NEW t \in Task, WakeCancelled(t) PROVE TypeOK'
  BY <1>12 DEF WakeCancelled
<1>13. ASSUME NEW t \in Task, WakeDue(t) PROVE TypeOK'
  BY <1>13 DEF WakeDue, Erase
<1>14. CASE Hand
  BY <1>14 DEF Hand
<1>15. CASE Final
  BY <1>15 DEF Final
<1>16. CASE Tick
  BY <1>16 DEF Tick
<1>17. CASE UNCHANGED vars
  BY <1>17 DEF vars
<1> QED
  BY <1>1, <1>2, <1>3, <1>4, <1>5, <1>6, <1>7, <1>8, <1>9, <1>10, <1>11, <1>12,
     <1>13, <1>14, <1>15, <1>16, <1>17 DEF Next, Thread, Callers

\* Type correctness of every reachable state (the members of class Scheduler).
THEOREM TypeCorrect == Spec => []TypeOK
<1>1. Init => TypeOK
  BY SchedulerAssumption
  DEF Init, TypeOK, States, Locus, Statuses, Time, Forever, TaskId
<1> QED
  BY <1>1, TypeStep, PTL DEF Spec

-------------------------------------------------------------------------------
(* NeverOversleeps is inductive once a task that was never added is known not  *)
(* to be in the queue, so that addTask changes the time of no queued task.     *)

NewNotQueued == \A t \in heap : status[t] # "new"

SleepInv == NewNotQueued /\ NeverOversleeps

\* No step makes the thread oversleep.
LEMMA SleepStep == TypeOK /\ SleepInv /\ [Next]_vars => SleepInv'
<1> SUFFICES ASSUME TypeOK, SleepInv, [Next]_vars PROVE SleepInv'
  OBVIOUS
<1> USE SchedulerAssumption
    DEF TypeOK, States, Locus, Statuses, Time, Forever, TaskId,
        SleepInv, NewNotQueued, NeverOversleeps
<1>1. ASSUME NEW t \in Task, NEW d \in Time, AddTask(t, d) PROVE SleepInv'
  <2>1. t \notin heap
    BY <1>1 DEF AddTask
  <2>2. /\ heap' = heap \cup {t}
        /\ \A u \in heap : due'[u] = due[u]
        /\ due'[t] = d
        /\ deadline' = deadline
    BY <1>1, <2>1 DEF AddTask
  <2>3. NewNotQueued'
    BY <1>1 DEF AddTask
  <2>4. ASSUME pc' = "wait" PROVE deadline <= d
    <3>1. pc = "wait" /\ \E u \in heap : ~(d < due[u])
      BY <1>1, <2>4 DEF AddTask, Notified
    <3>2. PICK u \in heap : ~(d < due[u])
      BY <3>1
    <3>3. deadline <= due[u] /\ due[u] \in Nat /\ d \in Nat /\ deadline \in Nat
      BY <3>1
    <3> QED
      BY <3>2, <3>3
  <2>5. pc' = "wait" => pc = "wait"
    BY <1>1 DEF AddTask, Notified
  <2> QED
    BY <2>2, <2>3, <2>4, <2>5
<1>2. ASSUME NEW t \in Task, RefuseTask(t) PROVE SleepInv'
  BY <1>2 DEF RefuseTask
<1>3. ASSUME NEW i \in TaskId, CancelTask(i) PROVE SleepInv'
  BY <1>3 DEF CancelTask
<1>4. CASE Start
  BY <1>4 DEF Start
<1>5. CASE Stop
  BY <1>5 DEF Stop, Notified
<1>6. CASE Join
  BY <1>6 DEF Join
<1>7. CASE CheckState
  BY <1>7 DEF CheckState
<1>8. CASE Enter
  <2>1. CASE heap = {}
    BY <1>8, <2>1 DEF Enter
  <2>2. CASE \E t \in heap : IsTop(t) /\ deadline' = due[t]
    BY <1>8, <2>2 DEF Enter, IsTop
  <2> QED
    BY <1>8, <2>1, <2>2 DEF Enter
<1>9. CASE Timeout
  BY <1>9 DEF Timeout
<1>10. CASE SpuriousWakeup
  BY <1>10 DEF SpuriousWakeup
<1>11. CASE WakeIdle
  BY <1>11 DEF WakeIdle
<1>12. ASSUME NEW t \in Task, WakeCancelled(t) PROVE SleepInv'
  BY <1>12 DEF WakeCancelled
<1>13. ASSUME NEW t \in Task, WakeDue(t) PROVE SleepInv'
  BY <1>13 DEF WakeDue
<1>14. CASE Hand
  BY <1>14 DEF Hand
<1>15. CASE Final
  BY <1>15 DEF Final
<1>16. CASE Tick
  BY <1>16 DEF Tick
<1>17. CASE UNCHANGED vars
  BY <1>17 DEF vars
<1> QED
  BY <1>1, <1>2, <1>3, <1>4, <1>5, <1>6, <1>7, <1>8, <1>9, <1>10, <1>11, <1>12,
     <1>13, <1>14, <1>15, <1>16, <1>17 DEF Next, Thread, Callers

\* While the thread is blocked nothing in the queue is due before it wakes up
\* (Scheduler::addTask notifies it only for a new top of the queue).
THEOREM ThreadNeverOversleeps == Spec => []NeverOversleeps
<1>1. Init => SleepInv
  BY DEF Init, SleepInv, NewNotQueued, NeverOversleeps
<1>2. Spec => []SleepInv
  BY <1>1, TypeCorrect, SleepStep, PTL DEF Spec
<1> QED
  BY <1>2, PTL DEF SleepInv

-------------------------------------------------------------------------------
(* The ids.  Two containers are changed separately; they agree because no id   *)
(* is given twice.  After numeric_limits<TaskId>::max() tasks ids start again  *)
(* at 1, whether or not the task that had the id is still queued: the results  *)
(* below hold for as many tasks as there are ids.                              *)

IdsSuffice == IsFiniteSet(Task) /\ Cardinality(Task) <= MaxTaskId

\* The tasks that were ever added, or refused.
Used == {t \in Task : status[t] # "new"}

IdInv ==
    /\ PendingIdsIdentify
    /\ lastId <= Cardinality(Used)
    /\ \A t \in heap : id[t] \in 1..lastId /\ status[t] \in {"armed", "cancelled"}
    /\ handing # NoTask => status[handing] = "handed"

\* A task is added: its id is new to every task in the queue.
LEMMA NewId ==
    ASSUME IdsSuffice, TypeOK, IdInv, NEW t \in Task, status[t] = "new",
           status' = [status EXCEPT ![t] = "armed"]
    PROVE  /\ NextId = lastId + 1 /\ NextId \in TaskId
           /\ NextId <= Cardinality(Used')
           /\ t \notin heap
           /\ \A u \in heap : id[u] # NextId
<1> USE SchedulerAssumption DEF TypeOK, Statuses, TaskId
<1>1. IsFiniteSet(Used) /\ Used \subseteq Task
  BY FS_Subset DEF Used, IdsSuffice
<1>2. Used' = Used \cup {t} /\ t \notin Used
  BY DEF Used
<1>3. Cardinality(Used) \in Nat /\ Cardinality(Used') = Cardinality(Used) + 1
  BY <1>1, <1>2, FS_CardinalityType, FS_AddElement
<1>4. Cardinality(Used') <= Cardinality(Task) /\ Cardinality(Task) \in Nat
  BY <1>2, FS_Subset, FS_CardinalityType DEF Used, IdsSuffice
<1>5. lastId < MaxTaskId /\ lastId \in Nat
  BY <1>3, <1>4 DEF IdsSuffice, IdInv
<1>6. NextId = lastId + 1
  BY <1>5 DEF NextId
<1> QED
  BY <1>3, <1>5, <1>6 DEF IdInv

\* Using up another task never lowers the number of those used.
LEMMA UsedGrows ==
    ASSUME IdsSuffice, Used \subseteq Used'
    PROVE  Cardinality(Used) <= Cardinality(Used') /\ Cardinality(Used) \in Nat
<1>1. IsFiniteSet(Used') /\ IsFiniteSet(Used)
  BY FS_Subset DEF Used, IdsSuffice
<1> QED
  BY <1>1, FS_Subset, FS_CardinalityType

\* No step gives two waiting tasks one id.
LEMMA IdStep == IdsSuffice /\ TypeOK /\ IdInv /\ [Next]_vars => IdInv'
<1> SUFFICES ASSUME IdsSuffice, TypeOK, IdInv, [Next]_vars PROVE IdInv'
  OBVIOUS
<1> USE SchedulerAssumption DEF TypeOK, States, Locus, Statuses, TaskId, PendingIdsIdentify
<1>0. ASSUME UNCHANGED <<pending, heap, id, lastId, handing>>, Used \subseteq Used',
             \A t \in heap : status'[t] = status[t],
             handing # NoTask => status'[handing] = status[handing]
      PROVE  IdInv'
  <2>1. Cardinality(Used) <= Cardinality(Used') /\ Cardinality(Used) \in Nat
        /\ Cardinality(Used') \in Nat
    BY <1>0, UsedGrows, FS_Subset, FS_CardinalityType DEF IdsSuffice, Used
  <2> QED
    BY <1>0, <2>1 DEF IdInv
<1>1. ASSUME NEW t \in Task, NEW d \in Time, AddTask(t, d) PROVE IdInv'
  <2>1. status[t] = "new" /\ status' = [status EXCEPT ![t] = "armed"]
    BY <1>1 DEF AddTask
  <2>2. /\ lastId' = lastId + 1 /\ lastId' \in Nat
        /\ lastId' <= Cardinality(Used')
        /\ t \notin heap /\ \A u \in heap : id[u] # lastId'
    <3>1. lastId' = NextId
      BY <1>1 DEF AddTask
    <3>2. /\ NextId = lastId + 1 /\ NextId <= Cardinality(Used')
          /\ t \notin heap /\ \A u \in heap : id[u] # NextId
      BY <2>1, NewId
    <3> QED
      BY <3>1, <3>2
  <2>3. /\ heap' = heap \cup {t} /\ id' = [id EXCEPT ![t] = lastId']
        /\ pending' = pending \cup {lastId'} /\ handing' = handing
    BY <1>1 DEF AddTask
  <2>4. PendingIdsIdentify'
    <3>1. \A u \in heap : id'[u] = id[u] /\ status'[u] = status[u]
      BY <2>1, <2>2, <2>3
    <3>2. id'[t] = lastId' /\ status'[t] = "armed"
      BY <2>1, <2>3, <2>2
    <3>3. \A u \in heap : id'[u] \in pending' <=> id[u] \in pending
      BY <2>2, <2>3, <3>1
    <3>4. \A i \in pending' : \E u \in heap' : id'[u] = i
      BY <2>3, <3>1, <3>2 DEF IdInv
    <3>5. \A u, v \in heap' : id'[u] = id'[v] => u = v
      BY <2>2, <2>3, <3>1, <3>2 DEF IdInv
    <3>6. \A u \in heap' : id'[u] \in pending' <=> status'[u] = "armed"
      BY <2>3, <3>1, <3>2, <3>3 DEF IdInv
    <3> QED
      BY <3>4, <3>5, <3>6
  <2>5. \A u \in heap' : id'[u] \in 1..lastId' /\ status'[u] \in {"armed", "cancelled"}
    BY <2>1, <2>2, <2>3 DEF IdInv
  <2>6. handing' # NoTask => status'[handing'] = "handed"
    BY <2>1, <2>3 DEF IdInv
  <2> QED
    BY <2>2, <2>4, <2>5, <2>6 DEF IdInv
<1>2. ASSUME NEW t \in Task, RefuseTask(t) PROVE IdInv'
  BY <1>0, <1>2 DEF RefuseTask, Used, IdInv
<1>3. ASSUME NEW i \in TaskId, CancelTask(i) PROVE IdInv'
  <2>1. Used \subseteq Used'
    BY <1>3 DEF CancelTask, Used
  <2>2. Cardinality(Used) <= Cardinality(Used') /\ Cardinality(Used) \in Nat
        /\ Cardinality(Used') \in Nat
    BY <2>1, UsedGrows, FS_Subset, FS_CardinalityType DEF IdsSuffice, Used
  <2>3. PendingIdsIdentify'
    BY <1>3 DEF CancelTask, Erase, IdInv
  <2>4. handing' # NoTask => status'[handing'] = "handed"
    BY <1>3 DEF CancelTask, IdInv
  <2>5. \A u \in heap' : id'[u] \in 1..lastId' /\ status'[u] \in {"armed", "cancelled"}
    BY <1>3 DEF CancelTask, IdInv
  <2> QED
    BY <1>3, <2>2, <2>3, <2>4, <2>5 DEF CancelTask, IdInv
<1>4. CASE Start
  BY <1>0, <1>4 DEF Start, Used
<1>5. CASE Stop
  BY <1>0, <1>5 DEF Stop, Used
<1>6. CASE Join
  BY <1>0, <1>6 DEF Join, Used
<1>7. CASE CheckState
  BY <1>0, <1>7 DEF CheckState, Used
<1>8. CASE Enter
  BY <1>0, <1>8 DEF Enter, Used
<1>9. CASE Timeout
  BY <1>0, <1>9 DEF Timeout, Used
<1>10. CASE SpuriousWakeup
  BY <1>0, <1>10 DEF SpuriousWakeup, Used
<1>11. CASE WakeIdle
  BY <1>0, <1>11 DEF WakeIdle, Used
<1>12. ASSUME NEW t \in Task, WakeCancelled(t) PROVE IdInv'
  <2>1. status[t] = "cancelled"
    BY <1>12 DEF WakeCancelled, IsTop, IsCancelled, IdInv
  <2>2. status' = status
    BY <1>12, <2>1 DEF WakeCancelled
  <2> QED
    BY <1>12, <2>2 DEF WakeCancelled, IsTop, IsCancelled, IdInv, Used
<1>13. ASSUME NEW t \in Task, WakeDue(t) PROVE IdInv'
  <2>1. Used' = Used
    BY <1>13 DEF WakeDue, Used, IsTop, IdInv
  <2>2. /\ heap' = heap \ {t} /\ t \in heap /\ pending' = pending \ {id[t]}
        /\ id' = id /\ lastId' = lastId /\ handing' = t
        /\ status' = [status EXCEPT ![t] = "handed"]
    BY <1>13 DEF WakeDue, IsTop, Erase
  <2>3. PendingIdsIdentify'
    BY <2>2 DEF IdInv
  <2> QED
    BY <2>1, <2>2, <2>3 DEF IdInv
<1>14. CASE Hand
  <2>1. handing \notin heap
    BY <1>14 DEF IdInv
  <2>2. Used \subseteq Used'
    BY <1>14 DEF Hand, Used
  <2>3. Cardinality(Used) <= Cardinality(Used') /\ Cardinality(Used) \in Nat
        /\ Cardinality(Used') \in Nat
    BY <2>2, UsedGrows, FS_Subset, FS_CardinalityType DEF IdsSuffice, Used
  <2>4. \A t \in heap : status'[t] = status[t]
    BY <1>14, <2>1 DEF Hand
  <2> QED
    BY <1>14, <2>3, <2>4 DEF Hand, IdInv
<1>15. CASE Final
  <2>1. Cardinality(Used') \in Nat
    BY FS_Subset, FS_CardinalityType DEF IdsSuffice, Used
  <2> QED
    BY <1>15, <2>1 DEF Final, IdInv
<1>16. CASE Tick
  BY <1>0, <1>16 DEF Tick, Used
<1>17. CASE UNCHANGED vars
  BY <1>0, <1>17 DEF vars, Used
<1> QED
  BY <1>1, <1>2, <1>3, <1>4, <1>5, <1>6, <1>7, <1>8, <1>9, <1>10, <1>11, <1>12,
     <1>13, <1>14, <1>15, <1>16, <1>17 DEF Next, Thread, Callers

\* The inductive invariant, of every reachable state, while the ids suffice.
LEMMA IdsHold == ASSUME IdsSuffice PROVE Spec => []IdInv
<1>1. Init => IdInv
  <2>1. Init => Cardinality(Used) \in Nat
    BY FS_Subset, FS_CardinalityType DEF IdsSuffice, Used
  <2> QED
    BY <2>1 DEF Init, IdInv, PendingIdsIdentify
<1>2. IdsSuffice
  OBVIOUS
<1> QED
  BY <1>1, <1>2, TypeCorrect, IdStep, PTL DEF Spec

\* As long as no more tasks are ever added than there are ids, a pending id is
\* that of exactly one queued task: cancelTask() hits the task its caller means,
\* and thread() takes no other for cancelled.
THEOREM IdsIdentify == ASSUME IdsSuffice PROVE Spec => []PendingIdsIdentify
<1>1. IdInv => PendingIdsIdentify
  BY DEF IdInv
<1> QED
  BY <1>1, IdsHold, PTL

-------------------------------------------------------------------------------
(* The scheduler implements its promise.  The armed tasks of the promise are   *)
(* the queued ones whose id is pending: cancelTask() disarms one by its id     *)
(* alone, and the thread makes one expire that is the top of the whole queue.  *)

Armed   == {t \in heap : id[t] \in pending}
Expired == {t \in Task : status[t] \in {"handed", "fired"}}

\* A task is added: it is armed, with the time it is due.
LEMMA ArmStep ==
    ASSUME IdsSuffice, TypeOK, IdInv, NEW t \in Task, NEW d \in Time, AddTask(t, d)
    PROVE  Promise!Arm(t, d)
<1> USE SchedulerAssumption DEF TypeOK, Statuses, TaskId
<1>1. /\ status[t] = "new" /\ status' = [status EXCEPT ![t] = "armed"]
      /\ heap' = heap \cup {t} /\ id' = [id EXCEPT ![t] = NextId]
      /\ pending' = pending \cup {NextId}
      /\ due' = [due EXCEPT ![t] = d] /\ now' = now
  BY DEF AddTask
<1>2. NextId \in TaskId /\ t \notin heap /\ \A u \in heap : id[u] # NextId
  BY <1>1, NewId
<1>3. Armed' = Armed \cup {t} /\ t \notin Armed
  BY <1>1, <1>2 DEF Armed
<1>4. Expired' = Expired /\ t \notin Expired
  BY <1>1 DEF Expired
<1> QED
  BY <1>1, <1>3, <1>4 DEF Promise!Arm, Armed, Expired

\* cancelTask(i), where it returns true.
LEMMA DisarmStep ==
    ASSUME TypeOK, IdInv, NEW i \in TaskId, CancelTask(i)
    PROVE  \E t \in Task : Promise!Disarm(t)
<1> USE DEF TypeOK, Statuses, TaskId, IdInv, PendingIdsIdentify
<1>1. PICK t \in heap : id[t] = i
  BY DEF CancelTask
<1>2. Armed' = Armed \ {t} /\ t \in Armed
  BY <1>1 DEF CancelTask, Erase, Armed
<1>3. Expired' = Expired
  BY DEF CancelTask, Expired
<1> QED
  BY <1>2, <1>3 DEF CancelTask, Promise!Disarm, Armed, Expired

\* The thread takes a task whose time has come.
LEMMA ExpireStep ==
    ASSUME TypeOK, IdInv, NEW t \in Task, WakeDue(t)
    PROVE  Promise!Expire(t)
<1> USE DEF TypeOK, Statuses, IdInv, PendingIdsIdentify
<1>1. /\ t \in heap /\ heap' = heap \ {t} /\ pending' = pending \ {id[t]} /\ id' = id
      /\ status' = [status EXCEPT ![t] = "handed"]
      /\ id[t] \in pending /\ due[t] <= now /\ \A u \in heap : due[t] <= due[u]
      /\ now' = now /\ due' = due
  BY DEF WakeDue, IsTop, Reached, IsCancelled, Erase
<1>2. Armed' = Armed \ {t} /\ t \in Armed /\ \A u \in Armed : due[t] <= due[u]
  BY <1>1 DEF Armed
<1>3. Expired' = Expired \cup {t}
  BY <1>1 DEF Expired
<1> QED
  BY <1>1, <1>2, <1>3 DEF Promise!Expire, Armed, Expired

\* Every step of the scheduler is a step of the promise, or invisible to it.
LEMMA RefinementStep ==
    IdsSuffice /\ TypeOK /\ IdInv /\ [Next]_vars => [Promise!Next]_Promise!vars
<1> SUFFICES ASSUME IdsSuffice, TypeOK, IdInv, [Next]_vars
             PROVE  [Promise!Next]_Promise!vars
  OBVIOUS
<1> USE DEF TypeOK, Statuses
<1>0. ASSUME UNCHANGED <<now, due, pending, heap, id>>, Expired' = Expired
      PROVE  UNCHANGED Promise!vars
  BY <1>0 DEF Promise!vars, Expired
<1>1. ASSUME NEW t \in Task, NEW d \in Time, AddTask(t, d) PROVE Promise!Next
  BY <1>1, ArmStep DEF Promise!Next, Time
<1>2. ASSUME NEW t \in Task, RefuseTask(t) PROVE UNCHANGED Promise!vars
  BY <1>0, <1>2 DEF RefuseTask, Expired
<1>3. ASSUME NEW i \in TaskId, CancelTask(i) PROVE Promise!Next
  BY <1>3, DisarmStep DEF Promise!Next
<1>4. CASE Start \/ Stop \/ Join \/ CheckState \/ Enter \/ Timeout \/ WakeIdle
           \/ SpuriousWakeup \/ UNCHANGED vars
  <2>1. UNCHANGED <<now, due, pending, heap, id, status>>
    BY <1>4 DEF Start, Stop, Join, CheckState, Enter, Timeout, WakeIdle, SpuriousWakeup, vars
  <2> QED
    BY <1>0, <2>1 DEF Expired
<1>5. ASSUME NEW t \in Task, WakeCancelled(t) PROVE UNCHANGED Promise!vars
  <2>1. /\ heap' = heap \ {t} /\ id[t] \notin pending
        /\ UNCHANGED <<now, due, pending, id>>
    BY <1>5 DEF WakeCancelled, IsCancelled
  <2>2. Armed' = Armed
    BY <2>1 DEF Armed
  <2>3. Expired' = Expired
    BY <1>5 DEF WakeCancelled, Expired
  <2> QED
    BY <2>1, <2>2, <2>3 DEF Promise!vars, Armed, Expired
<1>6. ASSUME NEW t \in Task, WakeDue(t) PROVE Promise!Next
  BY <1>6, ExpireStep DEF Promise!Next
<1>7. CASE Hand
  <2>1. Expired' = Expired
    BY <1>7, SchedulerAssumption DEF Hand, Expired, IdInv
  <2> QED
    BY <1>0, <1>7, <2>1 DEF Hand
<1>8. CASE Final
  <2>1. Armed' = {}
    BY <1>8 DEF Final, Armed
  <2>2. Expired' = Expired
    BY <1>8 DEF Final, Expired
  <2> QED
    BY <1>8, <2>1, <2>2 DEF Final, Promise!Next, Promise!Reset, Armed, Expired
<1>9. CASE Tick
  <2>1. Expired' = Expired
    BY <1>9 DEF Tick, Expired
  <2> QED
    BY <1>9, <2>1 DEF Tick, Promise!Next, Promise!Tick, Expired
<1> QED
  BY <1>1, <1>2, <1>3, <1>4, <1>5, <1>6, <1>7, <1>8, <1>9 DEF Next, Thread, Callers

\* As long as no more tasks are ever added than there are ids, the scheduler
\* implements module Timer: an armed task expires at most once, not before its
\* time nor before an armed task whose time is earlier, and never after it was
\* cancelled (addTask, cancelTask and thread()).
THEOREM SchedulerImplementsTimer == ASSUME IdsSuffice PROVE Spec => ImplementsTimer
<1>1. Init => Promise!Init
  BY DEF Init, Promise!Init
<1>2. TypeOK /\ IdInv /\ [Next]_vars => [Promise!Next]_Promise!vars
  BY RefinementStep
<1> QED
  BY <1>1, <1>2, IdsHold, TypeCorrect, PTL DEF Spec, ImplementsTimer, Promise!Spec
===============================================================================
