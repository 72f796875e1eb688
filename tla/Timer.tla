-------------------------------- MODULE Timer ---------------------------------
(* What the scheduler promises to the code that arms tasks with it: an armed   *)
(* task expires at most once, not before its time, never after it has been     *)
(* disarmed, and never before an armed task whose time is earlier.  Resetting  *)
(* the timer disarms everything.                                               *)
EXTENDS Naturals

CONSTANTS Task,      \* the tasks that may be armed
          MaxTime    \* the bound on time

VARIABLES now,       \* the time
          armed,     \* the tasks that are armed
          due,       \* the time of every task
          expired    \* the tasks that have expired

vars == <<now, armed, due, expired>>

Init == /\ now = 0
        /\ armed = {}
        /\ due = [t \in Task |-> 0]
        /\ expired = {}

Tick == /\ now < MaxTime
        /\ now' = now + 1
        /\ UNCHANGED <<armed, due, expired>>

Arm(t, d) == /\ t \notin armed \cup expired
             /\ armed' = armed \cup {t}
             /\ due' = [due EXCEPT ![t] = d]
             /\ UNCHANGED <<now, expired>>

Disarm(t) == /\ t \in armed
             /\ armed' = armed \ {t}
             /\ UNCHANGED <<now, due, expired>>

Expire(t) == /\ t \in armed
             /\ due[t] <= now
             /\ \A u \in armed : due[t] <= due[u]
             /\ armed' = armed \ {t}
             /\ expired' = expired \cup {t}
             /\ UNCHANGED <<now, due>>

Reset == /\ armed' = {}
         /\ UNCHANGED <<now, due, expired>>

Next == \/ Tick
        \/ \E t \in Task : Disarm(t) \/ Expire(t)
        \/ \E t \in Task, d \in 0..MaxTime : Arm(t, d)
        \/ Reset

Spec == Init /\ [][Next]_vars
===============================================================================
