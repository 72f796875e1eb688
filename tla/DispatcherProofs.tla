--------------------------- MODULE DispatcherProofs ---------------------------
(* Proofs about module Dispatcher, for every set of tasks, expiring or not.    *)
EXTENDS Dispatcher, Sequences, SequenceTheorems, TLAPS

-------------------------------------------------------------------------------
(* What the operations on a queue do to the set of its elements, and that they *)
(* keep a queue without duplicates free of them.                               *)

\* Putting a new element at the back (Dispatcher::addTask, push_back).
LEMMA AppendLemma ==
  ASSUME NEW S, NEW s \in Seq(S), NEW e \in S, e \notin Range(s)
  PROVE  /\ Range(Append(s, e)) = Range(s) \cup {e}
         /\ IsInjective(s) => IsInjective(Append(s, e))
<1>1. /\ DOMAIN Append(s, e) = 1..(Len(s) + 1)
      /\ DOMAIN s = 1..Len(s)
      /\ \A i \in 1..Len(s) : Append(s, e)[i] = s[i]
      /\ Append(s, e)[Len(s) + 1] = e
      /\ Len(s) \in Nat
  OBVIOUS
<1>2. Range(Append(s, e)) \subseteq Range(s) \cup {e}
  BY <1>1 DEF Range
<1>3. Range(s) \cup {e} \subseteq Range(Append(s, e))
  BY <1>1 DEF Range
<1>4. ASSUME IsInjective(s) PROVE IsInjective(Append(s, e))
  BY <1>1, <1>4 DEF IsInjective, Range
<1>. QED
  BY <1>2, <1>3, <1>4

\* Putting a new element at the front (Dispatcher::addTask, push_front).
LEMMA PrependLemma ==
  ASSUME NEW S, NEW s \in Seq(S), NEW e \in S, e \notin Range(s)
  PROVE  /\ Range(<<e>> \o s) = Range(s) \cup {e}
         /\ IsInjective(s) => IsInjective(<<e>> \o s)
<1> DEFINE q == <<e>> \o s
<1>1. /\ DOMAIN q = 1..(Len(s) + 1)
      /\ DOMAIN s = 1..Len(s)
      /\ \A i \in 1..Len(s) : q[i + 1] = s[i]
      /\ q[1] = e
      /\ Len(s) \in Nat
  OBVIOUS
<1>0. \A i \in 1..(Len(s) + 1) : i = 1 \/ (i - 1 \in 1..Len(s) /\ q[i] = s[i-1])
  BY <1>1
<1> HIDE DEF q
<1>2. Range(q) \subseteq Range(s) \cup {e}
  BY <1>1, <1>0 DEF Range
<1>3. Range(s) \cup {e} \subseteq Range(q)
  BY <1>1 DEF Range
<1>4. ASSUME IsInjective(s) PROVE IsInjective(q)
  BY <1>1, <1>0, <1>4 DEF IsInjective, Range
<1>. QED
  BY <1>2, <1>3, <1>4 DEF q

\* Taking the front (Dispatcher::thread, pop_front; runTasks, the iteration).
LEMMA TailLemma ==
  ASSUME NEW S, NEW s \in Seq(S), s # <<>>, IsInjective(s)
  PROVE  /\ Range(Tail(s)) = Range(s) \ {Head(s)}
         /\ Head(s) \in Range(s)
         /\ IsInjective(Tail(s))
<1>1. /\ DOMAIN Tail(s) = 1..(Len(s) - 1)
      /\ DOMAIN s = 1..Len(s)
      /\ \A i \in 1..(Len(s)-1) : Tail(s)[i] = s[i+1]
      /\ Head(s) = s[1]
      /\ Len(s) \in Nat /\ Len(s) > 0
  OBVIOUS
<1>0. \A i \in 1..Len(s) : i = 1 \/ (i - 1 \in 1..(Len(s)-1) /\ Tail(s)[i-1] = s[i])
  BY <1>1
<1>2. Head(s) \in Range(s)
  BY <1>1 DEF Range
<1>3. Range(Tail(s)) \subseteq Range(s) \ {Head(s)}
  BY <1>1 DEF Range, IsInjective
<1>4. Range(s) \ {Head(s)} \subseteq Range(Tail(s))
  <2>. SUFFICES ASSUME NEW i \in 1..Len(s), s[i] # Head(s) PROVE s[i] \in Range(Tail(s))
    BY <1>1 DEF Range
  <2>1. i - 1 \in DOMAIN Tail(s) /\ Tail(s)[i - 1] = s[i]
    BY <1>0, <1>1
  <2>. QED
    BY <2>1 DEF Range
<1>5. IsInjective(Tail(s))
  BY <1>1 DEF IsInjective
<1>. QED
  BY <1>2, <1>3, <1>4, <1>5

\* One queue behind another without common elements.
LEMMA ConcatLemma ==
  ASSUME NEW S, NEW s \in Seq(S), NEW u \in Seq(S), IsInjective(s), IsInjective(u), Range(s) \cap Range(u) = {}
  PROVE  /\ Range(s \o u) = Range(s) \cup Range(u)
         /\ IsInjective(s \o u)
<1> DEFINE q == s \o u
<1>1. /\ DOMAIN q = 1..(Len(s) + Len(u))
      /\ DOMAIN s = 1..Len(s)
      /\ DOMAIN u = 1..Len(u)
      /\ \A i \in 1..Len(s) : q[i] = s[i]
      /\ \A i \in 1..Len(u) : q[Len(s) + i] = u[i]
      /\ Len(s) \in Nat /\ Len(u) \in Nat
  OBVIOUS
<1>0. \A i \in 1..(Len(s) + Len(u)) : (i \in 1..Len(s) /\ q[i] = s[i])
                   \/ (i - Len(s) \in 1..Len(u) /\ q[i] = u[i - Len(s)])
  BY <1>1
<1> HIDE DEF q
<1>2. Range(q) \subseteq Range(s) \cup Range(u)
  BY <1>1, <1>0 DEF Range
<1>3. Range(s) \cup Range(u) \subseteq Range(q)
  <2>1. Range(s) \subseteq Range(q)
    BY <1>1 DEF Range
  <2>2. Range(u) \subseteq Range(q)
    <3> SUFFICES ASSUME NEW i \in 1..Len(u) PROVE u[i] \in Range(q)
      BY <1>1 DEF Range
    <3>1. Len(s) + i \in DOMAIN q /\ q[Len(s) + i] = u[i]
      BY <1>1
    <3>. QED
      BY <3>1 DEF Range
  <2>. QED
    BY <2>1, <2>2
<1>4. IsInjective(q)
  <2>. SUFFICES ASSUME NEW i \in DOMAIN q, NEW j \in DOMAIN q, q[i] = q[j] PROVE i = j
    BY DEF IsInjective
  <2>1. CASE i \in 1..Len(s) /\ j \in 1..Len(s)
    BY <2>1, <1>1 DEF IsInjective
  <2>2. CASE i \notin 1..Len(s) /\ j \notin 1..Len(s)
    <3>1. /\ i - Len(s) \in DOMAIN u /\ q[i] = u[i - Len(s)]
          /\ j - Len(s) \in DOMAIN u /\ q[j] = u[j - Len(s)]
      BY <2>2, <1>0, <1>1
    <3>2. i - Len(s) = j - Len(s)
      BY <3>1 DEF IsInjective
    <3>. QED
      BY <3>2, <1>1
  <2>3. ASSUME NEW k \in DOMAIN q, NEW l \in DOMAIN q,
               k \in 1..Len(s), l \notin 1..Len(s)
        PROVE  q[k] # q[l]
    <3>1. k \in DOMAIN s /\ q[k] = s[k] /\ l - Len(s) \in DOMAIN u /\ q[l] = u[l - Len(s)]
      BY <2>3, <1>0, <1>1
    <3>2. q[k] \in Range(s) /\ q[l] \in Range(u)
      BY <3>1 DEF Range
    <3>. QED
      BY <3>2
  <2>. QED
    BY <2>1, <2>2, <2>3
<1>. QED
  BY <1>2, <1>3, <1>4 DEF q

\* Two queues of two elements are the same when these are.
LEMMA TwoElements ==
  ASSUME NEW S, NEW s \in Seq(S), NEW u \in Seq(S), Len(s) = 2, Len(u) = 2,
         s[1] = u[1], s[2] = u[2]
  PROVE  s = u
<1>1. \A k \in 1..Len(s) : k = 1 \/ k = 2
  OBVIOUS
<1>2. \A k \in 1..Len(s) : s[k] = u[k]
  BY <1>1
<1> QED
  BY <1>2, SeqEqual

\* A task inside another: the innermost one is the last (runTasks, called from
\* waitUntilStopped inside a task).
LEMMA PairLemma ==
  ASSUME NEW c, NEW i
  PROVE  /\ Append(<<c>>, i) = <<c, i>>
         /\ <<c>> \o <<i>> = <<c, i>>
         /\ SubSeq(<<c, i>>, 1, 1) = <<c>>
         /\ SubSeq(<<c>>, 1, 0) = <<>>
         /\ <<c>> # <<>> /\ Len(<<c>>) - 1 = 0
         /\ <<c, i>> # <<>> /\ Len(<<c, i>>) - 1 = 1
<1> DEFINE S == {c, i}
<1>0. <<c>> \in Seq(S) /\ <<i>> \in Seq(S) /\ <<c, i>> \in Seq(S)
  OBVIOUS
<1>1. /\ Len(<<c, i>>) = 2 /\ <<c, i>>[1] = c /\ <<c, i>>[2] = i
      /\ Len(<<c>>) = 1 /\ <<c>>[1] = c
  OBVIOUS
<1>2. Append(<<c>>, i) = <<c, i>>
  <2>1. Len(Append(<<c>>, i)) = 2 /\ Append(<<c>>, i)[1] = c /\ Append(<<c>>, i)[2] = i
    OBVIOUS
  <2>2. Append(<<c>>, i) \in Seq(S)
    BY <1>0, AppendProperties
  <2> QED
    BY <1>0, <1>1, <2>1, <2>2, TwoElements
<1>3. <<c>> \o <<i>> = <<c, i>>
  BY <1>0, <1>2, AppendIsConcat
<1>4. SubSeq(<<c, i>>, 1, 1) = <<c>>
  <2>1. /\ SubSeq(<<c, i>>, 1, 1) \in Seq(S) /\ Len(SubSeq(<<c, i>>, 1, 1)) = 1
        /\ SubSeq(<<c, i>>, 1, 1)[1] = c
    OBVIOUS
  <2>2. \A k \in 1..Len(<<c>>) : SubSeq(<<c, i>>, 1, 1)[k] = <<c>>[k]
    BY <1>1, <2>1
  <2> DEFINE r == SubSeq(<<c, i>>, 1, 1)
             e == <<c>>
  <2>3. r \in Seq(S) /\ e \in Seq(S) /\ Len(r) = Len(e) /\ \A k \in 1..Len(e) : r[k] = e[k]
    BY <1>0, <1>1, <2>1, <2>2
  <2> HIDE DEF r, e
  <2>4. r = e
    BY <2>3, SeqEqual
  <2> QED
    BY <2>4 DEF r, e
<1>5. SubSeq(<<c>>, 1, 0) = <<>>
  OBVIOUS
<1>6. /\ <<c>> # <<>> /\ Len(<<c>>) - 1 = 0
      /\ <<c, i>> # <<>> /\ Len(<<c, i>>) - 1 = 1
  OBVIOUS
<1> QED
  BY <1>2, <1>3, <1>4, <1>5, <1>6

\* The front of two queues one behind the other is that of the first, as long as
\* there is one (the local deque of waitUntilStopped before _tasks).
LEMMA BehindLemma ==
  ASSUME NEW S, NEW s \in Seq(S), NEW u \in Seq(S)
  PROVE  /\ <<>> \o u = u /\ s \o <<>> = s
         /\ s \o u = <<>> <=> s = <<>> /\ u = <<>>
         /\ s # <<>> => /\ Head(s \o u) = Head(s)
                        /\ Tail(s \o u) = Tail(s) \o u
<1>1. /\ <<>> \o u = u /\ s \o <<>> = s
      /\ s \o u = <<>> <=> s = <<>> /\ u = <<>>
  BY ConcatEmptySeq, ConcatEqualIffEmpty
<1>2. ASSUME s # <<>>
      PROVE  Head(s \o u) = Head(s) /\ Tail(s \o u) = Tail(s) \o u
  <2> DEFINE q == s \o u
             r == Tail(s) \o u
  <2>1. Len(s) \in Nat /\ Len(s) > 0 /\ Len(u) \in Nat
    BY <1>2
  <2>2. /\ q \in Seq(S) /\ Len(q) = Len(s) + Len(u)
        /\ \A i \in 1..Len(q) : q[i] = IF i <= Len(s) THEN s[i] ELSE u[i - Len(s)]
    BY ConcatProperties
  <2>3. /\ Tail(s) \in Seq(S) /\ Len(Tail(s)) = Len(s) - 1
        /\ \A i \in 1..Len(Tail(s)) : Tail(s)[i] = s[i+1]
    BY <1>2, HeadTailProperties
  <2>4. /\ r \in Seq(S) /\ Len(r) = Len(s) - 1 + Len(u)
        /\ \A i \in 1..Len(r) : r[i] = IF i <= Len(s) - 1 THEN Tail(s)[i] ELSE u[i - (Len(s) - 1)]
    BY <2>3, ConcatProperties
  <2>5. /\ Tail(q) \in Seq(S) /\ Len(Tail(q)) = Len(q) - 1
        /\ \A i \in 1..Len(Tail(q)) : Tail(q)[i] = q[i+1]
    BY <1>2, <2>2, <1>1, HeadTailProperties
  <2>6. Head(q) = q[1] /\ Head(s) = s[1] /\ q[1] = s[1]
    BY <2>1, <2>2, <1>2, <1>1
  <2> HIDE DEF q, r
  <2>7. \A i \in 1..Len(r) : Tail(q)[i] = r[i]
    <3> SUFFICES ASSUME NEW i \in 1..Len(r) PROVE Tail(q)[i] = r[i]
      OBVIOUS
    <3>1. i \in 1..Len(Tail(q)) /\ i + 1 \in 1..Len(q) /\ i \in Nat
      BY <2>1, <2>2, <2>4, <2>5
    <3>2. Tail(q)[i] = IF i + 1 <= Len(s) THEN s[i + 1] ELSE u[i + 1 - Len(s)]
      BY <3>1, <2>2, <2>5
    <3>3. CASE i + 1 <= Len(s)
      <4>1. i \in 1..Len(Tail(s))
        BY <3>1, <3>3, <2>1, <2>3
      <4> QED
        BY <3>1, <3>2, <3>3, <4>1, <2>3, <2>4, <2>1
    <3>4. CASE ~(i + 1 <= Len(s))
      <4>1. i + 1 - Len(s) = i - (Len(s) - 1)
        BY <2>1, <3>1
      <4> QED
        BY <3>1, <3>2, <3>4, <4>1, <2>4, <2>1
    <3> QED
      BY <3>3, <3>4
  <2>8. Tail(q) = r
    BY <2>1, <2>2, <2>4, <2>5, <2>7, SeqEqual
  <2> QED
    BY <2>6, <2>8 DEF q, r
<1> QED
  BY <1>1, <1>2

-------------------------------------------------------------------------------

\* Every variable of the dispatcher keeps its type.
LEMMA TypeStep == TypeOK /\ [Next]_vars => TypeOK'
<1> SUFFICES ASSUME TypeOK, [Next]_vars PROVE TypeOK'
  OBVIOUS
<1> USE DispatcherAssumption DEF TypeOK, States, Locus, Statuses, Notified, Push, Accepting, KeepRunning, MoveTasks, Return
<1>1. ASSUME NEW t \in Task, AddTask(t, t \in Urgent) PROVE TypeOK'
  BY <1>1 DEF AddTask
<1>2. ASSUME NEW t \in Task, RefuseTask(t) PROVE TypeOK'
  BY <1>2 DEF RefuseTask
<1>3. CASE Start
  BY <1>3 DEF Start
<1>4. CASE Stop
  BY <1>4 DEF Stop
<1>5. CASE Join
  BY <1>5 DEF Join
<1>6. CASE WaitInTask
  BY <1>6 DEF WaitInTask
<1>7. CASE CheckState
  BY <1>7 DEF CheckState
<1>8. ASSUME Take PROVE TypeOK'
  <2>1. CASE ~KeepRunning \/ tasks = <<>>
    BY <1>8, <2>1 DEF Take
  <2>2. CASE ~(~KeepRunning \/ tasks = <<>>)
    <3>1. Head(tasks) \in Task /\ Tail(tasks) \in Seq(Task)
      BY <2>2
    <3> QED
      BY <1>8, <2>2, <3>1 DEF Take
  <2> QED
    BY <2>1, <2>2
<1>9. CASE Enter
  BY <1>8, <1>9 DEF Enter
<1>10. CASE Wake
  BY <1>8, <1>10 DEF Wake
<1>11. CASE Finish
  BY <1>11 DEF Finish
<1>12. CASE Drain
  BY <1>12 DEF Drain
<1>13. CASE BatchTake
  <2>1. Head(batch) \in Task /\ Tail(batch) \in Seq(Task)
    BY <1>13 DEF BatchTake
  <2> QED
    BY <1>13, <2>1 DEF BatchTake
<1>14. CASE BatchFinish
  BY <1>14 DEF BatchFinish
<1>15. CASE BatchEnd
  BY <1>15 DEF BatchEnd
<1>16. CASE Final
  BY <1>16 DEF Final
<1>17. CASE SpuriousWakeup
  BY <1>17 DEF SpuriousWakeup
<1>18. CASE UNCHANGED vars
  BY <1>18 DEF vars
<1> QED
  BY <1>1, <1>2, <1>3, <1>4, <1>5, <1>6, <1>7, <1>9, <1>10, <1>11, <1>12, <1>13,
     <1>14, <1>15, <1>16, <1>17, <1>18 DEF Next, Thread, Callers

\* Type correctness of every reachable state (the members of class Dispatcher
\* and the locals of thread() and runTasks()).
THEOREM TypeCorrect == Spec => []TypeOK
<1>1. Init => TypeOK
  BY DispatcherAssumption DEF Init, TypeOK, States, Locus, Statuses
<1> QED
  BY <1>1, TypeStep, PTL DEF Spec

-------------------------------------------------------------------------------
(* _state, the thread and the deque agree.  NoSleepOverTasks is inductive; that *)
(* nothing is left behind the drain also needs LifeCycle: what is left when    *)
(* the drain begins has all been moved, and addTask refuses while STOPPING.    *)

\* No step breaks the safety invariant.
LEMMA SafetyStep == TypeOK /\ SafetyInv /\ [Next]_vars => SafetyInv'
<1> SUFFICES ASSUME TypeOK, SafetyInv, [Next]_vars PROVE SafetyInv'
  OBVIOUS
<1> USE DEF TypeOK, States, Locus, SafetyInv, LifeCycle, NoSleepOverTasks,
            NothingBehindTheDrain, Notified, Accepting, KeepRunning, MoveTasks, Return
<1>1. ASSUME NEW t \in Task, AddTask(t, t \in Urgent) PROVE SafetyInv'
  <2>1. Len(Push(t, t \in Urgent)) = Len(tasks) + 1
    BY DEF Push
  <2>2. pc = "wait" => pc' = "wake"
    BY <1>1, <2>1 DEF AddTask
  <2>3. pc' # "wait" /\ (pc' # pc => pc = "wait")
    BY <1>1, <2>2 DEF AddTask
  <2> QED
    BY <1>1, <2>3 DEF AddTask
<1>2. ASSUME NEW t \in Task, RefuseTask(t) PROVE SafetyInv'
  BY <1>2 DEF RefuseTask
<1>3. CASE Start
  BY <1>3 DEF Start
<1>4. CASE Stop
  BY <1>4 DEF Stop
<1>5. CASE Join
  BY <1>5 DEF Join
<1>6. CASE WaitInTask
  BY <1>6, DispatcherAssumption DEF WaitInTask
<1>7. CASE CheckState
  BY <1>7 DEF CheckState
<1>8. ASSUME Take, pc \in {"enter", "wake"} PROVE SafetyInv'
  <2>1. CASE ~KeepRunning \/ tasks = <<>>
    BY <1>8, <2>1 DEF Take
  <2>2. CASE ~(~KeepRunning \/ tasks = <<>>)
    BY <1>8, <2>2 DEF Take
  <2> QED
    BY <2>1, <2>2
<1>9. CASE Enter
  BY <1>8, <1>9 DEF Enter
<1>10. CASE Wake
  BY <1>8, <1>10 DEF Wake
<1>11. CASE Finish
  BY <1>11 DEF Finish
<1>12. CASE Drain
  BY <1>12 DEF Drain
<1>13. CASE BatchTake
  BY <1>13 DEF BatchTake
<1>14. CASE BatchFinish
  BY <1>14 DEF BatchFinish
<1>15. CASE BatchEnd
  BY <1>15 DEF BatchEnd
<1>16. CASE Final
  BY <1>16 DEF Final
<1>17. CASE SpuriousWakeup
  BY <1>17 DEF SpuriousWakeup
<1>18. CASE UNCHANGED vars
  BY <1>18 DEF vars
<1> QED
  BY <1>1, <1>2, <1>3, <1>4, <1>5, <1>6, <1>7, <1>9, <1>10, <1>11, <1>12, <1>13,
     <1>14, <1>15, <1>16, <1>17, <1>18 DEF Next, Thread, Callers

\* _state and the thread agree, the thread never sleeps over tasks, and the drain
\* leaves nothing behind (thread, addTask, stop, waitUntilStopped).
THEOREM SafetyHolds == Spec => []SafetyInv
<1>1. Init => SafetyInv
  BY DEF Init, SafetyInv, LifeCycle, NoSleepOverTasks, NothingBehindTheDrain
<1> QED
  BY <1>1, TypeCorrect, SafetyStep, PTL DEF Spec

-------------------------------------------------------------------------------
(* No task is lost or duplicated.  The two deques are kept apart here: tasks    *)
(* are only added while the local deque is empty, because addTask refuses      *)
(* while STOPPING (LifeCycle).                                                  *)

AccountInv ==
    /\ pc # "batch" => batch = <<>>
    /\ IsInjective(batch)
    /\ IsInjective(tasks)
    /\ Range(batch) \cap Range(tasks) = {}
    /\ Range(batch) \cup Range(tasks) = {t \in Task : status[t] = "queued"}
    /\ {current, inner} \ {NoTask} = {t \in Task : status[t] = "executing"}
    /\ current = inner => current = NoTask

\* The empty queue has no elements.
LEMMA EmptyQueue == Range(<<>>) = {} /\ IsInjective(<<>>)
BY DEF Range, IsInjective

\* The loop's next task leaves the queue and nothing else changes its place.
LEMMA TakeAccounts ==
    TypeOK /\ SafetyInv /\ AccountInv /\ Take /\ pc \in {"enter", "wake"} => AccountInv'
<1> SUFFICES ASSUME TypeOK, SafetyInv, AccountInv, Take, pc \in {"enter", "wake"}
             PROVE  AccountInv'
  OBVIOUS
<1> USE DispatcherAssumption DEF TypeOK, AccountInv
<1>1. CASE ~KeepRunning \/ tasks = <<>>
  BY <1>1 DEF Take
<1>2. CASE KeepRunning /\ tasks # <<>>
  <2> DEFINE t == Head(tasks)
  <2>1. /\ tasks \in Seq(Task)
        /\ t \in Range(tasks)
        /\ Range(tasks') = Range(tasks) \ {t}
        /\ IsInjective(tasks')
    BY <1>2, TailLemma DEF Take
  <2>2. t \in Task /\ status[t] = "queued"
    BY <2>1
  <2>3. batch = <<>> /\ batch' = batch /\ inner' = inner /\ current = NoTask /\ inner = NoTask
    BY <1>2 DEF Take, SafetyInv, LifeCycle
  <2>4. Range(batch) = {} /\ IsInjective(batch')
    BY <2>3, EmptyQueue
  <2>5. \A u \in Task : status[u] = "queued" <=> u \in Range(tasks)
    BY <2>4
  <2>6. pc' # "batch"
    BY <1>2 DEF Take
  <2>7. CASE /\ current' = t
             /\ status' = [status EXCEPT ![t] = "executing"]
    BY <2>1, <2>2, <2>3, <2>4, <2>5, <2>6, <2>7
  <2>8. CASE /\ current' = current
             /\ status' = [status EXCEPT ![t] = "expired"]
    BY <2>1, <2>2, <2>3, <2>4, <2>5, <2>6, <2>8
  <2> QED
    BY <1>2, <2>7, <2>8 DEF Take
<1> QED
  BY <1>1, <1>2

\* So does the next task of the drain's local deque.
LEMMA BatchTakeAccounts ==
    TypeOK /\ SafetyInv /\ AccountInv /\ BatchTake => AccountInv'
<1> SUFFICES ASSUME TypeOK, SafetyInv, AccountInv, BatchTake PROVE AccountInv'
  OBVIOUS
<1> USE DispatcherAssumption DEF TypeOK, AccountInv
<1> DEFINE t == Head(batch)
<1>1. /\ batch \in Seq(Task)
      /\ t \in Range(batch)
      /\ Range(batch') = Range(batch) \ {t}
      /\ IsInjective(batch')
  BY TailLemma DEF BatchTake
<1>2. t \in Task /\ status[t] = "queued"
  BY <1>1
<1>3. tasks' = tasks /\ current' = current /\ pc' = "batch" /\ inner = NoTask
  BY DEF BatchTake
<1>4. t \notin {current, inner}
  BY <1>2
<1>5. CASE inner' = t /\ status' = [status EXCEPT ![t] = "executing"]
  <2>1. {u \in Task : status'[u] = "executing"} = {u \in Task : status[u] = "executing"} \cup {t}
    BY <1>2, <1>5
  <2>2. {u \in Task : status'[u] = "queued"} = {u \in Task : status[u] = "queued"} \ {t}
    BY <1>2, <1>5
  <2> QED
    BY <1>1, <1>2, <1>3, <1>4, <1>5, <2>1, <2>2
<1>6. CASE inner' = inner /\ status' = [status EXCEPT ![t] = "expired"]
  BY <1>1, <1>2, <1>3, <1>4, <1>6
<1> QED
  BY <1>5, <1>6 DEF BatchTake

\* No step loses a task or takes one up a second time.
LEMMA AccountStep ==
    TypeOK /\ SafetyInv /\ AccountInv /\ [Next]_vars => AccountInv'
<1> SUFFICES ASSUME TypeOK, SafetyInv, AccountInv, [Next]_vars PROVE AccountInv'
  OBVIOUS
<1> USE DispatcherAssumption DEF TypeOK, SafetyInv, AccountInv, Notified
<1>1. ASSUME NEW t \in Task, AddTask(t, t \in Urgent) PROVE AccountInv'
  <2>1. t \notin Range(tasks) /\ t \notin Range(batch)
    BY <1>1 DEF AddTask
  <2>2. Range(tasks') = Range(tasks) \cup {t} /\ IsInjective(tasks')
    BY <1>1, <2>1, AppendLemma, PrependLemma DEF AddTask, Push
  <2>3. pc # "batch" /\ pc' # "batch"
    BY <1>1 DEF AddTask, Accepting, LifeCycle
  <2>4. {u \in Task : status'[u] = "queued"} = {u \in Task : status[u] = "queued"} \cup {t}
    BY <1>1 DEF AddTask
  <2>5. {u \in Task : status'[u] = "executing"} = {u \in Task : status[u] = "executing"}
    BY <1>1 DEF AddTask
  <2>6. batch' = batch /\ current' = current /\ inner' = inner
    BY <1>1 DEF AddTask
  <2> QED
    BY <2>1, <2>2, <2>3, <2>4, <2>5, <2>6
<1>2. ASSUME NEW t \in Task, RefuseTask(t) PROVE AccountInv'
  BY <1>2 DEF RefuseTask
<1>3. CASE Start
  BY <1>3 DEF Start
<1>4. CASE Stop
  BY <1>4 DEF Stop
<1>5. CASE Join
  BY <1>5 DEF Join
<1>6. CASE WaitInTask \/ Drain
  <2>1. /\ batch = <<>> /\ batch' = tasks /\ tasks' = <<>> /\ pc' = "batch"
        /\ UNCHANGED <<current, inner, status>>
    BY <1>6 DEF WaitInTask, Drain, MoveTasks
  <2> QED
    BY <2>1, EmptyQueue
<1>7. CASE CheckState
  BY <1>7 DEF CheckState
<1>9. CASE Enter
  BY <1>9, TakeAccounts DEF Enter
<1>10. CASE Wake
  BY <1>10, TakeAccounts DEF Wake
<1>11. CASE Finish
  BY <1>11 DEF Finish, LifeCycle
<1>13. CASE BatchTake
  BY <1>13, BatchTakeAccounts
<1>14. CASE BatchFinish
  BY <1>14 DEF BatchFinish
<1>15. CASE BatchEnd
  BY <1>15 DEF BatchEnd
<1>16. CASE Final
  BY <1>16 DEF Final
<1>17. CASE SpuriousWakeup
  BY <1>17 DEF SpuriousWakeup
<1>18. CASE UNCHANGED vars
  BY <1>18 DEF vars
<1> QED
  BY <1>1, <1>2, <1>3, <1>4, <1>5, <1>6, <1>7, <1>9, <1>10, <1>11, <1>13,
     <1>14, <1>15, <1>16, <1>17, <1>18 DEF Next, Thread, Callers

\* The inductive invariant, of every reachable state.
LEMMA AccountHolds == Spec => []AccountInv
<1>1. Init => AccountInv
  BY EmptyQueue DEF Init, AccountInv
<1> QED
  BY <1>1, TypeCorrect, SafetyHolds, AccountStep, PTL DEF Spec

\* The queued tasks are those of the two deques, each once, and the executing
\* tasks those of the thread (the moves of _tasks in thread() and
\* waitUntilStopped()).
THEOREM NoTaskLostOrDuplicated == Spec => []TasksAccounted
<1>1. TypeOK /\ AccountInv => TasksAccounted
  BY ConcatLemma DEF TypeOK, AccountInv, TasksAccounted
<1> QED
  BY <1>1, AccountHolds, TypeCorrect, PTL

-------------------------------------------------------------------------------
(* The dispatcher implements its promise.  Only five steps of it are visible   *)
(* there: a task is added, begins (or is discarded) and ends, stop() is called *)
(* and the thread becomes STOPPED.  The local deque of a drain comes before    *)
(* what is queued after it; that it is empty whenever a task is added, and     *)
(* whenever the loop takes one, is AccountInv's first part.                    *)

\* What the promise sees of the thread's tasks is one sequence of at most two.
LEMMA ExecutingCases ==
    ASSUME NEW c \in Task \cup {NoTask}, NEW i \in Task \cup {NoTask}
    PROVE  LET e == (IF c = NoTask THEN <<>> ELSE <<c>>) \o (IF i = NoTask THEN <<>> ELSE <<i>>)
           IN /\ c = NoTask /\ i = NoTask => e = <<>>
              /\ c # NoTask /\ i = NoTask => e = <<c>>
              /\ c = NoTask /\ i # NoTask => e = <<i>>
              /\ c # NoTask /\ i # NoTask => e = <<c, i>>
<1>1. <<>> \o <<>> = <<>>
  BY ConcatEmptySeq
<1>2. <<c>> \o <<>> = <<c>> /\ <<>> \o <<i>> = <<i>>
  <2>1. <<c>> \in Seq(Task \cup {NoTask}) /\ <<i>> \in Seq(Task \cup {NoTask})
    OBVIOUS
  <2> QED
    BY <2>1, ConcatEmptySeq
<1>3. <<c>> \o <<i>> = <<c, i>>
  BY PairLemma
<1> QED
  BY <1>1, <1>2, <1>3

\* Everything the simulation of a step rests on.
RefinementInv == TypeOK /\ SafetyInv /\ AccountInv

\* A task is added: in front of the queue if it is urgent, otherwise behind it.
LEMMA SubmitStep ==
    ASSUME RefinementInv, NEW t \in Task, AddTask(t, t \in Urgent)
    PROVE  Promise!Submit(t)
<1> USE DEF RefinementInv, TypeOK
<1>1. batch = <<>> /\ batch' = batch /\ current' = current /\ inner' = inner /\ state' = state
  BY DEF AddTask, AccountInv, SafetyInv, LifeCycle, Accepting
<1>2. batch \o tasks = tasks /\ (batch \o tasks)' = tasks'
  <2>1. tasks' \in Seq(Task)
    BY DEF AddTask, Push
  <2> QED
    BY <1>1, <2>1, BehindLemma, ConcatEmptySeq
<1>3. state # "STOPPING"
  BY DEF AddTask, Accepting
<1>4. /\ t \notin {u \in Task : status[u] \notin {"new", "refused"}}
      /\ {u \in Task : status'[u] \notin {"new", "refused"}}
           = {u \in Task : status[u] \notin {"new", "refused"}} \cup {t}
  BY DEF AddTask
<1>5. tasks' = IF t \in Urgent THEN <<t>> \o tasks ELSE Append(tasks, t)
  BY DEF AddTask, Push
<1> QED
  BY <1>1, <1>2, <1>3, <1>4, <1>5 DEF Promise!Submit

\* The next task of the loop: it begins, or is discarded, while no other is being
\* executed; or the loop goes round.
LEMMA TakeStep ==
    ASSUME RefinementInv, Take, pc \in {"enter", "wake"}
    PROVE  Promise!Begin \/ Promise!Discard \/ UNCHANGED Promise!vars
<1> USE DispatcherAssumption DEF RefinementInv, TypeOK
<1>1. CASE ~KeepRunning \/ tasks = <<>>
  BY <1>1 DEF Take, Promise!vars
<1>2. CASE KeepRunning /\ tasks # <<>>
  <2> DEFINE t == Head(tasks)
  <2>1. /\ batch = <<>> /\ batch' = <<>> /\ tasks' = Tail(tasks) /\ state' = state
        /\ current = NoTask /\ inner = NoTask /\ inner' = NoTask
        /\ t \in Task /\ Tail(tasks) \in Seq(Task)
    BY <1>2 DEF Take, AccountInv, SafetyInv, LifeCycle
  <2>2. batch \o tasks = tasks /\ (batch \o tasks)' = Tail(tasks)
    BY <2>1, ConcatEmptySeq
  <2>3. status[t] = "queued"
    <3>1. t \in Range(tasks)
      BY <1>2, TailLemma DEF AccountInv
    <3> QED
      BY <2>1, <3>1 DEF AccountInv
  <2>4. (IF current = NoTask THEN <<>> ELSE <<current>>)
          \o (IF inner = NoTask THEN <<>> ELSE <<inner>>) = <<>>
    BY <2>1, ExecutingCases
  <2>5. CASE current' = t /\ status' = [status EXCEPT ![t] = "executing"]
    <3>1. ((IF current = NoTask THEN <<>> ELSE <<current>>)
            \o (IF inner = NoTask THEN <<>> ELSE <<inner>>))' = <<t>>
      <4>1. t # NoTask
        BY <2>1
      <4> QED
        BY <2>1, <2>5, <4>1, ExecutingCases
    <3>2. Append(<<>>, t) = <<t>>
      OBVIOUS
    <3>3. {u \in Task : status'[u] \notin {"new", "refused"}}
            = {u \in Task : status[u] \notin {"new", "refused"}}
      BY <2>3, <2>5
    <3> QED
      BY <1>2, <2>1, <2>2, <2>4, <3>1, <3>2, <3>3 DEF Promise!Begin
  <2>6. CASE /\ t \in Expiring /\ current' = current
             /\ status' = [status EXCEPT ![t] = "expired"]
    <3>1. {u \in Task : status'[u] \notin {"new", "refused"}}
            = {u \in Task : status[u] \notin {"new", "refused"}}
      BY <2>3, <2>6
    <3> QED
      BY <1>2, <2>1, <2>2, <2>4, <2>6, <3>1 DEF Promise!Discard
  <2> QED
    BY <1>2, <2>5, <2>6 DEF Take
<1> QED
  BY <1>1, <1>2

\* The next task of runTasks, inside the task that waits or behind the loop.
LEMMA BatchTakeStep ==
    ASSUME RefinementInv, BatchTake
    PROVE  Promise!Begin \/ Promise!Discard
<1> USE DispatcherAssumption DEF RefinementInv, TypeOK
<1> DEFINE t == Head(batch)
<1>1. /\ batch \in Seq(Task) /\ batch # <<>> /\ batch' = Tail(batch) /\ tasks' = tasks
      /\ state = "STOPPING" /\ state' = state /\ inner = NoTask /\ current' = current
      /\ t \in Task
  BY DEF BatchTake, SafetyInv, LifeCycle
<1>2. /\ batch \o tasks # <<>> /\ Head(batch \o tasks) = t
      /\ (batch \o tasks)' = Tail(batch \o tasks)
  BY <1>1, BehindLemma
<1>3. status[t] = "queued"
  <2>1. t \in Range(batch)
    BY <1>1, TailLemma DEF AccountInv
  <2> QED
    BY <1>1, <2>1 DEF AccountInv
<1>4. CASE inner' = t /\ status' = [status EXCEPT ![t] = "executing"]
  <2>1. t # NoTask
    BY <1>1
  <2>2. ((IF current = NoTask THEN <<>> ELSE <<current>>)
          \o (IF inner = NoTask THEN <<>> ELSE <<inner>>))'
          = Append((IF current = NoTask THEN <<>> ELSE <<current>>)
                     \o (IF inner = NoTask THEN <<>> ELSE <<inner>>), t)
    <3>1. CASE current = NoTask
      <4>1. Append(<<>>, t) = <<t>>
        OBVIOUS
      <4> QED
        BY <1>1, <1>4, <2>1, <3>1, <4>1, ExecutingCases
    <3>2. CASE current # NoTask
      <4>1. Append(<<current>>, t) = <<current, t>>
        BY PairLemma, Zenon
      <4> QED
        BY <1>1, <1>4, <2>1, <3>2, <4>1, ExecutingCases
    <3> QED
      BY <3>1, <3>2
  <2>3. {u \in Task : status'[u] \notin {"new", "refused"}}
          = {u \in Task : status[u] \notin {"new", "refused"}}
    BY <1>3, <1>4
  <2> QED
    BY <1>1, <1>2, <2>2, <2>3 DEF Promise!Begin
<1>5. CASE t \in Expiring /\ inner' = inner /\ status' = [status EXCEPT ![t] = "expired"]
  <2>1. {u \in Task : status'[u] \notin {"new", "refused"}}
          = {u \in Task : status[u] \notin {"new", "refused"}}
    BY <1>3, <1>5
  <2> QED
    BY <1>1, <1>2, <1>5, <2>1 DEF Promise!Discard
<1> QED
  BY <1>4, <1>5 DEF BatchTake

\* A task returns: the innermost one.
LEMMA CompleteStep ==
    ASSUME RefinementInv, Finish \/ BatchFinish
    PROVE  Promise!Complete
<1> USE DispatcherAssumption DEF RefinementInv, TypeOK
<1> DEFINE e == (IF current = NoTask THEN <<>> ELSE <<current>>)
                  \o (IF inner = NoTask THEN <<>> ELSE <<inner>>)
<1>1. e # <<>> /\ e' = SubSeq(e, 1, Len(e) - 1)
  <2>1. CASE Finish
    <3>1. /\ current # NoTask /\ inner = NoTask
          /\ current' = NoTask /\ inner' = NoTask
      BY <2>1 DEF Finish, SafetyInv, LifeCycle
    <3>2. e = <<current>> /\ e' = <<>>
      BY <3>1, ExecutingCases
    <3> HIDE DEF e
    <3> QED
      BY <3>2, PairLemma, Zenon
  <2>2. CASE BatchFinish /\ current = NoTask
    <3>1. inner # NoTask /\ current' = NoTask /\ inner' = NoTask
      BY <2>2 DEF BatchFinish
    <3>2. e = <<inner>> /\ e' = <<>>
      BY <2>2, <3>1, ExecutingCases
    <3> HIDE DEF e
    <3> QED
      BY <3>2, PairLemma, Zenon
  <2>3. CASE BatchFinish /\ current # NoTask
    <3>1. inner # NoTask /\ current' = current /\ inner' = NoTask
      BY <2>3 DEF BatchFinish
    <3>2. e = <<current, inner>> /\ e' = <<current>>
      BY <2>3, <3>1, ExecutingCases
    <3> HIDE DEF e
    <3> QED
      BY <3>2, PairLemma, Zenon
  <2> QED
    BY <2>1, <2>2, <2>3
<1>2. {u \in Task : status'[u] \notin {"new", "refused"}}
        = {u \in Task : status[u] \notin {"new", "refused"}}
  <2>1. CASE Finish
    BY <2>1 DEF Finish, AccountInv
  <2>2. CASE BatchFinish
    BY <2>2 DEF BatchFinish, AccountInv
  <2> QED
    BY <2>1, <2>2
<1>3. UNCHANGED <<batch, tasks, state>>
  BY DEF Finish, BatchFinish
<1> QED
  BY <1>1, <1>2, <1>3 DEF Promise!Complete

\* stop() closes the promise; the thread becomes STOPPED when nothing is left
\* (NothingBehindTheDrain).
LEMMA CloseSteps ==
    ASSUME RefinementInv
    PROVE  (Stop => Promise!Close) /\ (Final => Promise!Closed)
<1> USE DispatcherAssumption DEF RefinementInv, TypeOK
<1>1. Stop => Promise!Close
  BY DEF Stop, Promise!Close
<1>2. ASSUME Final PROVE Promise!Closed
  <2>1. /\ batch = <<>> /\ tasks = <<>> /\ current = NoTask /\ inner = NoTask
        /\ state = "STOPPING" /\ state' = "STOPPED"
    BY <1>2 DEF Final, AccountInv, SafetyInv, LifeCycle, NothingBehindTheDrain
  <2>2. /\ batch \o tasks = <<>>
        /\ (IF current = NoTask THEN <<>> ELSE <<current>>)
             \o (IF inner = NoTask THEN <<>> ELSE <<inner>>) = <<>>
    BY <2>1, ConcatEmptySeq, ExecutingCases
  <2> QED
    BY <1>2, <2>1, <2>2 DEF Final, Promise!Closed
<1> QED
  BY <1>1, <1>2

\* A task refused, and everything between two tasks, the promise does not see; the
\* moves of a drain leave the two deques the same, one behind the other.
LEMMA InvisibleSteps ==
    ASSUME RefinementInv,
           \/ \E t \in Task : RefuseTask(t)
           \/ Start \/ Join \/ WaitInTask \/ CheckState \/ Drain \/ BatchEnd
           \/ SpuriousWakeup \/ (Enter /\ tasks = <<>>) \/ UNCHANGED vars
    PROVE  UNCHANGED Promise!vars
<1> USE DEF RefinementInv, TypeOK
<1>1. ASSUME NEW t \in Task, RefuseTask(t) PROVE UNCHANGED Promise!vars
  <2>1. {u \in Task : status'[u] \notin {"new", "refused"}}
          = {u \in Task : status[u] \notin {"new", "refused"}}
    BY <1>1 DEF RefuseTask
  <2> QED
    BY <1>1, <2>1 DEF RefuseTask, Promise!vars
<1>2. CASE WaitInTask \/ Drain
  <2>1. /\ batch = <<>> /\ batch' = tasks /\ tasks' = <<>>
        /\ UNCHANGED <<state, current, inner, status>>
    BY <1>2 DEF WaitInTask, Drain, MoveTasks, AccountInv
  <2>2. batch \o tasks = tasks /\ (batch \o tasks)' = tasks
    BY <2>1, ConcatEmptySeq
  <2> QED
    BY <2>1, <2>2 DEF Promise!vars
<1>3. CASE Start \/ Join \/ CheckState
  BY <1>3 DEF Start, Join, CheckState, Promise!vars, SafetyInv, LifeCycle
<1>4. CASE BatchEnd \/ SpuriousWakeup \/ UNCHANGED vars
  BY <1>4 DEF BatchEnd, SpuriousWakeup, vars, Promise!vars
<1>5. CASE Enter /\ tasks = <<>>
  BY <1>5 DEF Enter, Promise!vars
<1> QED
  BY <1>1, <1>2, <1>3, <1>4, <1>5

\* Every step of the dispatcher is a step of the promise, or invisible to it.
LEMMA RefinementStep == RefinementInv /\ [Next]_vars => [Promise!Next]_Promise!vars
<1> SUFFICES ASSUME RefinementInv, [Next]_vars PROVE [Promise!Next]_Promise!vars
  OBVIOUS
<1>1. ASSUME NEW t \in Task, AddTask(t, t \in Urgent) PROVE Promise!Next
  BY <1>1, SubmitStep DEF Promise!Next
<1>2. CASE Enter
  <2>1. CASE tasks = <<>>
    BY <1>2, <2>1, InvisibleSteps
  <2>2. CASE tasks # <<>>
    BY <1>2, <2>2, TakeStep DEF Enter, Promise!Next
  <2> QED
    BY <2>1, <2>2
<1>3. CASE Wake
  BY <1>3, TakeStep DEF Wake, Promise!Next
<1>4. CASE BatchTake
  BY <1>4, BatchTakeStep DEF Promise!Next
<1>5. CASE Finish \/ BatchFinish
  BY <1>5, CompleteStep DEF Promise!Next
<1>6. CASE Stop \/ Final
  BY <1>6, CloseSteps DEF Promise!Next
<1>7. CASE \/ \E t \in Task : RefuseTask(t)
           \/ Start \/ Join \/ WaitInTask \/ CheckState \/ Drain \/ BatchEnd
           \/ SpuriousWakeup \/ UNCHANGED vars
  BY <1>7, InvisibleSteps
<1> QED
  BY <1>1, <1>2, <1>3, <1>4, <1>5, <1>6, <1>7 DEF Next, Thread, Callers

\* The dispatcher implements module Executor: tasks are executed in the order of
\* the queue, one at a time or inside one that waits, none is accepted while it is
\* stopping, and it is STOPPED only when nothing is left (addTask, thread, stop,
\* runTasks and waitUntilStopped).
THEOREM DispatcherImplementsExecutor == Spec => ImplementsExecutor
<1>1. Init => Promise!Init
  <2> SUFFICES ASSUME Init PROVE Promise!Init
    OBVIOUS
  <2>1. <<>> \o <<>> = <<>>
    BY ConcatEmptySeq
  <2> QED
    BY <2>1, ExecutingCases DEF Init, Promise!Init
<1>2. Spec => []RefinementInv
  BY AccountHolds, TypeCorrect, SafetyHolds, PTL DEF RefinementInv
<1> QED
  BY <1>1, <1>2, RefinementStep, PTL DEF Spec, ImplementsExecutor, Promise!Spec
===============================================================================
