------------------------------- MODULE Executor -------------------------------
(* What the dispatcher promises to the code that hands it tasks: the tasks it  *)
(* accepts are executed one after the other, each at most once, in the order   *)
(* of the queue, where an urgent task goes to the front; a task that has       *)
(* expired is discarded instead.  While the executor is closing it accepts     *)
(* nothing, and it cannot finish closing before the queue is empty and no task *)
(* is being executed.  A task may wait, inside its own execution, for the rest *)
(* of the queue to be executed, but only once the executor is closing.         *)
EXTENDS Naturals, Sequences

CONSTANTS Task,       \* the tasks that may be submitted
          Expiring,   \* the tasks that carry an expiration time
          Urgent      \* the tasks that go before all others

VARIABLES queue,      \* the accepted tasks not yet begun, the next one first
          executing,  \* the tasks being executed, the innermost one last
          accepted,   \* every task ever accepted
          closing     \* TRUE from the request to stop until the stop is complete

vars == <<queue, executing, accepted, closing>>

Init == /\ queue = <<>>
        /\ executing = <<>>
        /\ accepted = {}
        /\ closing = FALSE

Submit(t) ==
    /\ ~closing
    /\ t \notin accepted
    /\ accepted' = accepted \cup {t}
    /\ queue' = IF t \in Urgent THEN <<t>> \o queue ELSE Append(queue, t)
    /\ UNCHANGED <<executing, closing>>

\* The next task begins.  Only a closing executor runs a task inside another.
Begin ==
    /\ queue # <<>>
    /\ executing = <<>> \/ closing
    /\ executing' = Append(executing, Head(queue))
    /\ queue' = Tail(queue)
    /\ UNCHANGED <<accepted, closing>>

Discard ==
    /\ queue # <<>>
    /\ executing = <<>> \/ closing
    /\ Head(queue) \in Expiring
    /\ queue' = Tail(queue)
    /\ UNCHANGED <<executing, accepted, closing>>

Complete ==
    /\ executing # <<>>
    /\ executing' = SubSeq(executing, 1, Len(executing) - 1)
    /\ UNCHANGED <<queue, accepted, closing>>

Close ==
    /\ ~closing
    /\ closing' = TRUE
    /\ UNCHANGED <<queue, executing, accepted>>

Closed ==
    /\ closing
    /\ queue = <<>>
    /\ executing = <<>>
    /\ closing' = FALSE
    /\ UNCHANGED <<queue, executing, accepted>>

Next == \/ \E t \in Task : Submit(t)
        \/ Begin
        \/ Discard
        \/ Complete
        \/ Close
        \/ Closed

Spec == Init /\ [][Next]_vars
===============================================================================
