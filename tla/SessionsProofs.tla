----------------------------- MODULE SessionsProofs ----------------------------
(* Proofs about module Sessions: clients and players agree on who commands     *)
(* whom, for any clients, characters and order of the dispatcher's tasks, and  *)
(* the world is never fuller than maxPlayers.                                  *)
EXTENDS Sessions, SequenceTheorems, FiniteSetTheorems, WellFoundedInduction, TLAPS

-------------------------------------------------------------------------------
(* What the operations on a queue do to the set of its elements, and that they *)
(* keep a queue without duplicates free of them.                               *)

\* Putting a new element at the back (Dispatcher::addTask, push_back).
LEMMA AppendLemma ==
  ASSUME NEW S, NEW s \in Seq(S), NEW e \in S, e \notin Range(s)
  PROVE  /\ Range(Append(s, e)) = Range(s) \cup {e}
         /\ IsInjective(s) => IsInjective(Append(s, e))
<1>1. /\ DOMAIN Append(s, e) = 1..(Len(s) + 1)
      /\ DOMAIN s = 1..Len(s)
      /\ \A i \in 1..Len(s) : Append(s, e)[i] = s[i]
      /\ Append(s, e)[Len(s) + 1] = e
      /\ Len(s) \in Nat
  OBVIOUS
<1>2. Range(Append(s, e)) \subseteq Range(s) \cup {e}
  BY <1>1 DEF Range
<1>3. Range(s) \cup {e} \subseteq Range(Append(s, e))
  BY <1>1 DEF Range
<1>4. ASSUME IsInjective(s) PROVE IsInjective(Append(s, e))
  BY <1>1, <1>4 DEF IsInjective, Range
<1>. QED
  BY <1>2, <1>3, <1>4

\* Taking the front (Dispatcher::thread, pop_front; runTasks, the iteration).
LEMMA TailLemma ==
  ASSUME NEW S, NEW s \in Seq(S), s # <<>>, IsInjective(s)
  PROVE  /\ Range(Tail(s)) = Range(s) \ {Head(s)}
         /\ Head(s) \in Range(s)
         /\ IsInjective(Tail(s))
<1>1. /\ DOMAIN Tail(s) = 1..(Len(s) - 1)
      /\ DOMAIN s = 1..Len(s)
      /\ \A i \in 1..(Len(s)-1) : Tail(s)[i] = s[i+1]
      /\ Head(s) = s[1]
      /\ Len(s) \in Nat /\ Len(s) > 0
  OBVIOUS
<1>0. \A i \in 1..Len(s) : i = 1 \/ (i - 1 \in 1..(Len(s)-1) /\ Tail(s)[i-1] = s[i])
  BY <1>1
<1>2. Head(s) \in Range(s)
  BY <1>1 DEF Range
<1>3. Range(Tail(s)) \subseteq Range(s) \ {Head(s)}
  BY <1>1 DEF Range, IsInjective
<1>4. Range(s) \ {Head(s)} \subseteq Range(Tail(s))
  <2>. SUFFICES ASSUME NEW i \in 1..Len(s), s[i] # Head(s) PROVE s[i] \in Range(Tail(s))
    BY <1>1 DEF Range
  <2>1. i - 1 \in DOMAIN Tail(s) /\ Tail(s)[i - 1] = s[i]
    BY <1>0, <1>1
  <2>. QED
    BY <2>1 DEF Range
<1>5. IsInjective(Tail(s))
  BY <1>1 DEF IsInjective
<1>. QED
  BY <1>2, <1>3, <1>4, <1>5

\* The front of two queues one behind the other is that of the first, as long as
\* there is one (the local deque of waitUntilStopped before _tasks).
LEMMA BehindLemma ==
  ASSUME NEW S, NEW s \in Seq(S), NEW u \in Seq(S)
  PROVE  /\ <<>> \o u = u /\ s \o <<>> = s
         /\ s \o u = <<>> <=> s = <<>> /\ u = <<>>
         /\ s # <<>> => /\ Head(s \o u) = Head(s)
                        /\ Tail(s \o u) = Tail(s) \o u
<1>1. /\ <<>> \o u = u /\ s \o <<>> = s
      /\ s \o u = <<>> <=> s = <<>> /\ u = <<>>
  BY ConcatEmptySeq, ConcatEqualIffEmpty
<1>2. ASSUME s # <<>>
      PROVE  Head(s \o u) = Head(s) /\ Tail(s \o u) = Tail(s) \o u
  <2> DEFINE q == s \o u
             r == Tail(s) \o u
  <2>1. Len(s) \in Nat /\ Len(s) > 0 /\ Len(u) \in Nat
    BY <1>2
  <2>2. /\ q \in Seq(S) /\ Len(q) = Len(s) + Len(u)
        /\ \A i \in 1..Len(q) : q[i] = IF i <= Len(s) THEN s[i] ELSE u[i - Len(s)]
    BY ConcatProperties
  <2>3. /\ Tail(s) \in Seq(S) /\ Len(Tail(s)) = Len(s) - 1
        /\ \A i \in 1..Len(Tail(s)) : Tail(s)[i] = s[i+1]
    BY <1>2, HeadTailProperties
  <2>4. /\ r \in Seq(S) /\ Len(r) = Len(s) - 1 + Len(u)
        /\ \A i \in 1..Len(r) : r[i] = IF i <= Len(s) - 1 THEN Tail(s)[i] ELSE u[i - (Len(s) - 1)]
    BY <2>3, ConcatProperties
  <2>5. /\ Tail(q) \in Seq(S) /\ Len(Tail(q)) = Len(q) - 1
        /\ \A i \in 1..Len(Tail(q)) : Tail(q)[i] = q[i+1]
    BY <1>2, <2>2, <1>1, HeadTailProperties
  <2>6. Head(q) = q[1] /\ Head(s) = s[1] /\ q[1] = s[1]
    BY <2>1, <2>2, <1>2, <1>1
  <2> HIDE DEF q, r
  <2>7. \A i \in 1..Len(r) : Tail(q)[i] = r[i]
    <3> SUFFICES ASSUME NEW i \in 1..Len(r) PROVE Tail(q)[i] = r[i]
      OBVIOUS
    <3>1. i \in 1..Len(Tail(q)) /\ i + 1 \in 1..Len(q) /\ i \in Nat
      BY <2>1, <2>2, <2>4, <2>5
    <3>2. Tail(q)[i] = IF i + 1 <= Len(s) THEN s[i + 1] ELSE u[i + 1 - Len(s)]
      BY <3>1, <2>2, <2>5
    <3>3. CASE i + 1 <= Len(s)
      <4>1. i \in 1..Len(Tail(s))
        BY <3>1, <3>3, <2>1, <2>3
      <4> QED
        BY <3>1, <3>2, <3>3, <4>1, <2>3, <2>4, <2>1
    <3>4. CASE ~(i + 1 <= Len(s))
      <4>1. i + 1 - Len(s) = i - (Len(s) - 1)
        BY <2>1, <3>1
      <4> QED
        BY <3>1, <3>2, <3>4, <4>1, <2>4, <2>1
    <3> QED
      BY <3>3, <3>4
  <2>8. Tail(q) = r
    BY <2>1, <2>2, <2>4, <2>5, <2>7, SeqEqual
  <2> QED
    BY <2>6, <2>8 DEF q, r
<1> QED
  BY <1>1, <1>2

-------------------------------------------------------------------------------
(* The inductive invariant. *)

Task == {"login", "logout", "close", "connect"} \X Clients
Tasks == Range(queue)

\* Wherever b is in the queue s, a is before it.
Precedes(s, a, b) == \A j \in DOMAIN s : s[j] = b => \E i \in 1..(j - 1) : s[i] = a
Before(a, b) == Precedes(queue, a, b)

ProtoSet == [state : {"free", "open", "closing", "closed"},
             who : Names \cup {None}, player : {None, "inside", "outside"},
             accept : BOOLEAN, event : Events]
PlayerSet == [client : Clients \cup {None}, connecting : Clients \cup {None}]

\* The tasks of c that are queued: a login is that of a client that plays nobody
\* yet; a connection is closed by one task, after the client's login; and a
\* connect belongs to an event that is due.
TaskInv(c) ==
    /\ <<"login", c>> \in Tasks =>
           /\ proto[c].state \in {"open", "closing"}
           /\ proto[c].player = None
           /\ proto[c].event = "none"
    /\ <<"close", c>> \in Tasks <=> proto[c].state = "closing"
    /\ <<"connect", c>> \in Tasks => proto[c].event \in {"queued", "stale_queued"}
    /\ <<"login", c>> \in Tasks /\ <<"close", c>> \in Tasks =>
           Before(<<"login", c>>, <<"close", c>>)

\* What a client holds: a Player in the world is the character of its login, and
\* is commanded by it as long as its packets are read.
ClientInv(c) ==
    /\ proto[c].state = "free" => proto[c].event = "none" /\ proto[c].player = None
    /\ proto[c].state # "free" => proto[c].who \in Names
    /\ proto[c].player = "inside" => Inside(proto[c].who)
    /\ proto[c].state = "open" /\ proto[c].player = "inside" =>
           world[proto[c].who].client = c

\* What a Player holds: its client waits for nothing; the client that takes it
\* over is expected; and while there are both, the former was disconnected and,
\* once the latter is due, is released before.
PlayerInv(n) ==
    Inside(n) =>
        LET k == world[n].client
            c == world[n].connecting
        IN /\ k # None => /\ proto[k].state # "free" /\ proto[k].who = n
                          /\ proto[k].player = "inside" /\ proto[k].event = "none"
           /\ c # None => proto[c].who = n /\ proto[c].event \in {"armed", "queued"}
           /\ k # None /\ c # None =>
                  /\ proto[k].state # "open"
                  /\ proto[c].event = "queued" =>
                         /\ proto[k].state = "closing"
                         /\ Before(<<"close", k>>, <<"connect", c>>)

Inv == /\ TypeOK
       /\ IsInjective(queue)
       /\ \A c \in Clients : TaskInv(c) /\ ClientInv(c)
       /\ \A n \in Names : PlayerInv(n)

-------------------------------------------------------------------------------
(* The dispatcher's queue. *)

\* What is executed first has nothing before it.
LEMMA PrecedesHead ==
    ASSUME NEW S, NEW s \in Seq(S), s # <<>>, NEW a, Precedes(s, a, Head(s))
    PROVE  FALSE
<1>1. 1 \in DOMAIN s /\ s[1] = Head(s) BY HeadTailProperties, LenProperties, EmptySeq
<1>2. PICK i \in 1..(1 - 1) : s[i] = a BY <1>1 DEF Precedes
<1>. QED BY <1>2

\* The order of two tasks survives the execution of another.
LEMMA PrecedesTail ==
    ASSUME NEW S, NEW s \in Seq(S), s # <<>>, NEW a, NEW b, a # Head(s),
           Precedes(s, a, b)
    PROVE  Precedes(Tail(s), a, b)
<1>1. /\ Len(s) \in Nat \ {0} /\ DOMAIN s = 1..Len(s) /\ Head(s) = s[1]
      /\ DOMAIN Tail(s) = 1..(Len(s) - 1)
      /\ \A i \in 1..(Len(s) - 1) : Tail(s)[i] = s[i + 1]
  BY HeadTailProperties, LenProperties, EmptySeq
<1>. SUFFICES ASSUME NEW j \in DOMAIN Tail(s), Tail(s)[j] = b
              PROVE  \E i \in 1..(j - 1) : Tail(s)[i] = a
  BY DEF Precedes
<1>2. j + 1 \in DOMAIN s /\ s[j + 1] = b /\ j \in Nat BY <1>1
<1>3. PICK i \in 1..((j + 1) - 1) : s[i] = a BY <1>2 DEF Precedes
<1>4. i # 1 BY <1>1, <1>3
<1>5. i - 1 \in 1..(j - 1) /\ i - 1 \in 1..(Len(s) - 1) BY <1>1, <1>2, <1>3, <1>4
<1>6. Tail(s)[i - 1] = a BY <1>1, <1>3, <1>5
<1>. QED BY <1>5, <1>6

\* A new task is behind all that are queued, and their order stays.
LEMMA PrecedesAppend ==
    ASSUME NEW S, NEW s \in Seq(S), NEW e \in S, e \notin Range(s), NEW a
    PROVE  /\ a \in Range(s) => Precedes(Append(s, e), a, e)
           /\ \A b : b # e /\ Precedes(s, a, b) => Precedes(Append(s, e), a, b)
<1>1. /\ Len(s) \in Nat /\ DOMAIN s = 1..Len(s)
      /\ DOMAIN Append(s, e) = 1..(Len(s) + 1)
      /\ \A i \in 1..Len(s) : Append(s, e)[i] = s[i]
      /\ Append(s, e)[Len(s) + 1] = e
  BY AppendProperties, LenProperties
<1>2. ASSUME a \in Range(s) PROVE Precedes(Append(s, e), a, e)
  <2>. SUFFICES ASSUME NEW j \in DOMAIN Append(s, e), Append(s, e)[j] = e
                PROVE  \E i \in 1..(j - 1) : Append(s, e)[i] = a
    BY DEF Precedes
  <2>1. PICK i \in DOMAIN s : s[i] = a BY <1>2 DEF Range
  <2>2. \A l \in DOMAIN s : s[l] # e BY DEF Range
  <2>3. j \notin 1..Len(s) BY <1>1, <2>2
  <2>4. j = Len(s) + 1 BY <1>1, <2>3
  <2>5. i \in 1..(j - 1) BY <1>1, <2>1, <2>4
  <2>. QED BY <1>1, <2>1, <2>5
<1>3. ASSUME NEW b, b # e, Precedes(s, a, b) PROVE Precedes(Append(s, e), a, b)
  <2>. SUFFICES ASSUME NEW j \in DOMAIN Append(s, e), Append(s, e)[j] = b
                PROVE  \E i \in 1..(j - 1) : Append(s, e)[i] = a
    BY DEF Precedes
  <2>1. j # Len(s) + 1 BY <1>1, <1>3
  <2>2. j \in DOMAIN s /\ s[j] = b /\ j \in Nat /\ j <= Len(s) BY <1>1, <2>1
  <2>3. PICK i \in 1..(j - 1) : s[i] = a BY <1>3, <2>2 DEF Precedes
  <2>4. i \in 1..Len(s) BY <1>1, <2>2, <2>3
  <2>. QED BY <1>1, <2>3, <2>4
<1>. QED BY <1>2, <1>3

\* A step that takes the tasks H from the queue and puts the tasks N at its end.
QueueStep(H, N) ==
    /\ queue' \in Seq(Task)
    /\ IsInjective(queue')
    /\ Tasks' = (Tasks \ H) \cup N
    /\ \A a, b : a \notin H /\ b \notin N /\ Before(a, b) => Before(a, b)'
    /\ \A a, b : a \in Tasks \ H /\ b \in N => Before(a, b)'

QueueOK == queue \in Seq(Task) /\ IsInjective(queue)

\* Connection::close() posts closeConnection for a client that is open.
NewClose(c) == IF proto[c].state = "open" THEN {<<"close", c>>} ELSE {}

\* The queue stays as it is.
LEMMA SameQueue == ASSUME QueueOK, UNCHANGED queue PROVE QueueStep({}, {})
BY DEF QueueOK, QueueStep, Tasks, Before

\* A task is posted.
LEMMA Post ==
    ASSUME QueueOK, NEW e \in Task, e \notin Tasks, queue' = Append(queue, e)
    PROVE  QueueStep({}, {e})
<1>1. queue \in Seq(Task) /\ IsInjective(queue) /\ e \notin Range(queue)
  BY DEF QueueOK, Tasks
<1>2. queue' \in Seq(Task) BY <1>1, AppendProperties
<1>3. Range(queue') = Range(queue) \cup {e} /\ IsInjective(queue')
  BY <1>1, AppendLemma
<1>4. ASSUME NEW a, NEW b, b # e, Precedes(queue, a, b) PROVE Precedes(queue', a, b)
  BY <1>1, <1>4, PrecedesAppend
<1>5. ASSUME NEW a \in Range(queue) PROVE Precedes(queue', a, e)
  BY <1>1, <1>5, PrecedesAppend
<1>. QED BY <1>2, <1>3, <1>4, <1>5 DEF QueueStep, Tasks, Before

\* A task is executed.
LEMMA Execute ==
    ASSUME QueueOK, queue # <<>>, queue' = Tail(queue)
    PROVE  QueueStep({Head(queue)}, {})
<1>1. queue \in Seq(Task) /\ IsInjective(queue) BY DEF QueueOK
<1>2. queue' \in Seq(Task) BY <1>1, HeadTailProperties
<1>3. Range(queue') = Range(queue) \ {Head(queue)} /\ IsInjective(queue')
  BY <1>1, TailLemma
<1>4. ASSUME NEW a, NEW b, a # Head(queue), Precedes(queue, a, b)
      PROVE  Precedes(queue', a, b)
  BY <1>1, <1>4, PrecedesTail
<1>. QED BY <1>2, <1>3, <1>4 DEF QueueStep, Tasks, Before

\* A task is executed, and posts another.
LEMMA ExecuteAndPost ==
    ASSUME QueueOK, queue # <<>>, NEW e \in Task, e \notin Tasks,
           queue' = Append(Tail(queue), e)
    PROVE  QueueStep({Head(queue)}, {e})
<1>. DEFINE s == Tail(queue)
<1>1. queue \in Seq(Task) /\ IsInjective(queue) /\ e \notin Range(queue)
  BY DEF QueueOK, Tasks
<1>2. s \in Seq(Task) BY <1>1, HeadTailProperties
<1>3. Range(s) = Range(queue) \ {Head(queue)} /\ IsInjective(s) BY <1>1, TailLemma
<1>4. \A a, b : a # Head(queue) /\ Precedes(queue, a, b) => Precedes(s, a, b)
  BY <1>1, PrecedesTail
<1>. HIDE DEF s
<1>5. e \notin Range(s) /\ queue' = Append(s, e) BY <1>1, <1>3 DEF s
<1>a. Append(s, e) \in Seq(Task) BY <1>2, AppendProperties
<1>b. Range(Append(s, e)) = Range(s) \cup {e} /\ IsInjective(Append(s, e))
  BY <1>2, <1>3, <1>5, AppendLemma
<1>6. queue' \in Seq(Task) BY <1>5, <1>a
<1>7. Range(queue') = Range(s) \cup {e} /\ IsInjective(queue') BY <1>5, <1>b
<1>8. ASSUME NEW a, NEW b, b # e, Precedes(s, a, b) PROVE Precedes(queue', a, b)
  BY <1>2, <1>5, <1>8, PrecedesAppend
<1>9. ASSUME NEW a \in Range(s) PROVE Precedes(queue', a, e)
  BY <1>2, <1>5, <1>9, PrecedesAppend
<1>. QED BY <1>3, <1>4, <1>6, <1>7, <1>8, <1>9 DEF QueueStep, Tasks, Before

\* What CloseTask adds to a queue.
LEMMA CloseTaskAdds ==
    ASSUME NEW s \in Seq(Task), NEW c \in Clients, NEW pr, pr[c].state = proto[c].state
    PROVE  s \o CloseTask(pr, c) =
               IF proto[c].state = "open" THEN Append(s, <<"close", c>>) ELSE s
<1>1. <<"close", c>> \in Task BY DEF Task
<1>2. s \o <<>> = s BY BehindLemma, EmptySeq
<1>3. s \o <<<<"close", c>>>> = Append(s, <<"close", c>>)
  <2>. DEFINE e == <<"close", c>>
  <2>. HIDE DEF e
  <2>1. e \in Task BY <1>1 DEF e
  <2>2. s \o <<e>> = Append(s, e) BY <2>1
  <2>. QED BY <2>2 DEF e
<1>. QED BY <1>2, <1>3 DEF CloseTask

\* A task is executed and closes the connection of c.
LEMMA ExecuteAndClose ==
    ASSUME Inv, queue # <<>>, NEW c \in Clients, NEW pr, pr[c].state = proto[c].state,
           queue' = Tail(queue) \o CloseTask(pr, c)
    PROVE  QueueStep({Head(queue)}, NewClose(c))
<1>1. QueueOK BY DEF Inv, TypeOK, QueueOK, Task
<1>2. Tail(queue) \in Seq(Task) BY <1>1, HeadTailProperties DEF QueueOK
<1>3. queue' = IF proto[c].state = "open" THEN Append(Tail(queue), <<"close", c>>)
                                         ELSE Tail(queue)
  BY <1>2, CloseTaskAdds
<1>4. CASE proto[c].state = "open"
  <2>1. <<"close", c>> \notin Tasks BY <1>4 DEF Inv, TaskInv
  <2>2. <<"close", c>> \in Task BY DEF Task
  <2>. QED BY <1>1, <1>3, <1>4, <2>1, <2>2, ExecuteAndPost DEF NewClose
<1>5. CASE proto[c].state # "open" BY <1>1, <1>3, <1>5, Execute DEF NewClose
<1>. QED BY <1>4, <1>5

\* The connection of c is closed between two tasks.
LEMMA PostClose ==
    ASSUME Inv, NEW c \in Clients, NEW pr, pr[c].state = proto[c].state,
           queue' = queue \o CloseTask(pr, c)
    PROVE  QueueStep({}, NewClose(c))
<1>1. QueueOK BY DEF Inv, TypeOK, QueueOK, Task
<1>2. queue' = IF proto[c].state = "open" THEN Append(queue, <<"close", c>>) ELSE queue
  BY <1>1, CloseTaskAdds DEF QueueOK
<1>3. CASE proto[c].state = "open"
  <2>1. <<"close", c>> \notin Tasks BY <1>3 DEF Inv, TaskInv
  <2>2. <<"close", c>> \in Task BY DEF Task
  <2>. QED BY <1>1, <1>2, <1>3, <2>1, <2>2, Post DEF NewClose
<1>4. CASE proto[c].state # "open" BY <1>1, <1>2, <1>4, SameQueue DEF NewClose
<1>. QED BY <1>3, <1>4

-------------------------------------------------------------------------------
(* Clients and characters a step is not about. *)

Types == /\ world \in [Names -> {None} \cup PlayerSet]
         /\ proto \in [Clients -> ProtoSet]
         /\ cast \in Casts

\* The types, as the steps use them.
LEMMA TypesOf == Inv => Types /\ QueueOK
BY DEF Inv, TypeOK, Types, QueueOK, ProtoSet, PlayerSet, Task

\* The tasks of a client after a step that executes no close task of it and posts
\* no other task than that.
LEMMA TaskStep ==
    ASSUME Inv, NEW H, NEW N, QueueStep(H, N), NEW k \in Clients,
           <<"login", k>> \notin N, <<"connect", k>> \notin N, <<"close", k>> \notin H,
           <<"close", k>> \in N => proto[k].state = "open" /\ proto'[k].state = "closing",
           <<"close", k>> \notin N => proto'[k].state = proto[k].state,
           <<"login", k>> \in Tasks \ H =>
               proto'[k].player = None /\ proto'[k].event = "none",
           <<"connect", k>> \in Tasks \ H => proto'[k].event \in {"queued", "stale_queued"}
    PROVE  TaskInv(k)'
<1>. DEFINE L == <<"login", k>>
            C == <<"close", k>>
            E == <<"connect", k>>
<1>1. /\ L \in Tasks => proto[k].state \in {"open", "closing"}
      /\ C \in Tasks <=> proto[k].state = "closing"
      /\ L \in Tasks /\ C \in Tasks => Before(L, C)
  BY DEF Inv, TaskInv
<1>2. /\ L \notin N /\ E \notin N /\ C \notin H
      /\ C \in N => proto[k].state = "open" /\ proto'[k].state = "closing"
      /\ C \notin N => proto'[k].state = proto[k].state
      /\ L \in Tasks \ H => proto'[k].player = None /\ proto'[k].event = "none"
      /\ E \in Tasks \ H => proto'[k].event \in {"queued", "stale_queued"}
  OBVIOUS
<1>. HIDE DEF L, C, E
<1>3. Tasks' = (Tasks \ H) \cup N BY DEF QueueStep
<1>4. L \in Tasks' => L \in Tasks \ H BY <1>2, <1>3
<1>5. E \in Tasks' => E \in Tasks \ H BY <1>2, <1>3
<1>6. C \in Tasks' <=> proto'[k].state = "closing" BY <1>1, <1>2, <1>3
<1>7. L \in Tasks' => /\ proto'[k].state \in {"open", "closing"}
                      /\ proto'[k].player = None
                      /\ proto'[k].event = "none"
  BY <1>1, <1>2, <1>4
<1>8. ASSUME L \in Tasks', C \in Tasks' PROVE Before(L, C)'
  <2>1. CASE C \in N BY <1>4, <1>8, <2>1 DEF QueueStep
  <2>2. CASE C \notin N
    <3>1. C \in Tasks /\ L \in Tasks /\ L \notin H BY <1>3, <1>4, <1>8, <2>2
    <3>2. Before(L, C) BY <1>1, <3>1
    <3>. QED BY <2>2, <3>1, <3>2 DEF QueueStep
  <2>. QED BY <2>1, <2>2
<1>9. E \in Tasks' => proto'[k].event \in {"queued", "stale_queued"} BY <1>2, <1>5
<1>10. L' = L /\ C' = C /\ E' = E BY DEF L, C, E
<1>. QED BY <1>6, <1>7, <1>8, <1>9 DEF TaskInv, L, C, E

\* None is no client, no character and no value of a Player.
LEMMA NoneIsNoClient == /\ None \notin Clients /\ None \notin Names
                        /\ None # "inside" /\ None # "outside" /\ None \notin PlayerSet
BY SessionsAssumption DEF PlayerSet

\* The two clients of a Player.
LEMMA PlayersOf ==
    ASSUME Inv, NEW m \in Names, Inside(m)
    PROVE  /\ world[m] \in PlayerSet
           /\ world[m].client \in Clients \cup {None}
           /\ world[m].connecting \in Clients \cup {None}
<1>1. world[m] \in PlayerSet BY TypesOf DEF Types, Inside
<1>. QED BY <1>1 DEF PlayerSet

\* A client of a Player is one of its character.
LEMMA ClientOf ==
    ASSUME Inv, NEW m \in Names, Inside(m), NEW k \in Clients,
           world[m].client = k \/ world[m].connecting = k
    PROVE  proto[k].who = m /\ proto[k].state # "free"
<1>1. k # None BY NoneIsNoClient
<1>2. PlayerInv(m) /\ (proto[k].state = "free" => proto[k].event = "none")
  BY DEF Inv, ClientInv
<1>3. CASE world[m].client = k BY <1>1, <1>2, <1>3 DEF PlayerInv
<1>4. CASE world[m].connecting = k BY <1>1, <1>2, <1>4 DEF PlayerInv
<1>. QED BY <1>3, <1>4

\* The client k still holds its Player, or closes its connection and holds it;
\* and is still expected.
Held(k) == /\ proto'[k].who = proto[k].who
           /\ proto'[k].player = proto[k].player /\ proto'[k].event = proto[k].event
           /\ \/ proto'[k].state = proto[k].state
              \/ proto[k].state = "open" /\ proto'[k].state = "closing"
Awaited(k) == proto'[k].who = proto[k].who /\ proto'[k].event = proto[k].event

\* A character keeps its clients when they are held and awaited.
LEMMA PlayerKept ==
    ASSUME Inv, NEW H, NEW N, QueueStep(H, N), NEW m \in Names, world'[m] = world[m],
           Inside(m) /\ world[m].client # None =>
               Held(world[m].client) /\ <<"close", world[m].client>> \notin H,
           Inside(m) /\ world[m].connecting # None =>
               Awaited(world[m].connecting) /\ <<"connect", world[m].connecting>> \notin N
    PROVE  PlayerInv(m)'
<1>0. PICK k, c : k = world[m].client /\ c = world[m].connecting OBVIOUS
<1>1. CASE ~Inside(m) BY <1>1 DEF PlayerInv, Inside
<1>2. CASE Inside(m)
  <2>1. PlayerInv(m) BY DEF Inv
  <2>2. /\ k # None => /\ proto[k].state # "free" /\ proto[k].who = m
                       /\ proto[k].player = "inside" /\ proto[k].event = "none"
        /\ c # None => proto[c].who = m /\ proto[c].event \in {"armed", "queued"}
        /\ k # None /\ c # None =>
               /\ proto[k].state # "open"
               /\ proto[c].event = "queued" =>
                      /\ proto[k].state = "closing"
                      /\ Before(<<"close", k>>, <<"connect", c>>)
    BY <1>0, <1>2, <2>1 DEF PlayerInv
  <2>3. world'[m].client = k /\ world'[m].connecting = c BY <1>0
  <2>4. k # None => Held(k) /\ <<"close", k>> \notin H BY <1>0, <1>2
  <2>5. c # None => Awaited(c) /\ <<"connect", c>> \notin N BY <1>0, <1>2
  <2>6. ASSUME k # None, c # None, Before(<<"close", k>>, <<"connect", c>>)
        PROVE  Before(<<"close", k>>, <<"connect", c>>)'
    BY <2>4, <2>5, <2>6 DEF QueueStep
  <2>7. k # None => /\ proto'[k].state # "free" /\ proto'[k].who = m
                    /\ proto'[k].player = "inside" /\ proto'[k].event = "none"
    BY <2>2, <2>4 DEF Held
  <2>8. c # None => proto'[c].who = m /\ proto'[c].event \in {"armed", "queued"}
    BY <2>2, <2>5 DEF Awaited
  <2>9. k # None /\ c # None =>
             /\ proto'[k].state # "open"
             /\ proto'[c].event = "queued" =>
                    /\ proto'[k].state = "closing"
                    /\ Before(<<"close", k>>, <<"connect", c>>)'
    BY <2>2, <2>4, <2>5, <2>6 DEF Held, Awaited
  <2>. QED BY <2>3, <2>7, <2>8, <2>9 DEF PlayerInv
<1>. QED BY <1>1, <1>2

\* The client k is as it was, and none of its tasks is executed or posted.
Quiet(k, H, N) ==
    /\ proto'[k].state = proto[k].state /\ proto'[k].who = proto[k].who
    /\ proto'[k].player = proto[k].player /\ proto'[k].event = proto[k].event
    /\ \A t \in H \cup N : t[2] # k

\* The tasks of a quiet client stay as they are.
LEMMA QuietTasks ==
    ASSUME Inv, NEW H, NEW N, QueueStep(H, N), NEW k \in Clients, Quiet(k, H, N)
    PROVE  TaskInv(k)'
<1>1. \A what : <<what, k>> \notin H /\ <<what, k>> \notin N BY DEF Quiet
<1>2. /\ proto'[k].state = proto[k].state
      /\ proto'[k].player = proto[k].player /\ proto'[k].event = proto[k].event
  BY DEF Quiet
<1>3. TaskInv(k) BY DEF Inv
<1>4. <<"login", k>> \in Tasks \ H => proto'[k].player = None /\ proto'[k].event = "none"
  BY <1>2, <1>3 DEF TaskInv
<1>5. <<"connect", k>> \in Tasks \ H => proto'[k].event \in {"queued", "stale_queued"}
  BY <1>2, <1>3 DEF TaskInv
<1>. QED BY <1>1, <1>2, <1>4, <1>5, TaskStep

\* A step about the character n: the clients of other characters are quiet.
About(n, H, N) ==
    /\ QueueStep(H, N)
    /\ \A m \in Names \ {n} : world'[m] = world[m]
    /\ \A k \in Clients : proto[k].state # "free" /\ proto[k].who # n => Quiet(k, H, N)

\* What such a step leaves as it is.
LEMMA Elsewhere ==
    ASSUME Inv, NEW n \in Names, NEW H, NEW N, About(n, H, N)
    PROVE  /\ \A k \in Clients : proto[k].state # "free" /\ proto[k].who # n =>
                  TaskInv(k)' /\ ClientInv(k)'
           /\ \A m \in Names \ {n} : PlayerInv(m)'
<1>1. QueueStep(H, N) BY DEF About
<1>2. ASSUME NEW k \in Clients, proto[k].state # "free", proto[k].who # n
      PROVE  TaskInv(k)' /\ ClientInv(k)'
  <2>1. Quiet(k, H, N) BY <1>2 DEF About
  <2>2. TaskInv(k)' BY <1>1, <2>1, QuietTasks
  <2>3. ClientInv(k) BY DEF Inv
  <2>4. proto[k].who \in Names \ {n} BY <1>2, <2>3 DEF ClientInv
  <2>5. world'[proto[k].who] = world[proto[k].who] BY <2>4 DEF About
  <2>6. ClientInv(k)' BY <1>2, <2>1, <2>3, <2>5 DEF ClientInv, Quiet, Inside
  <2>. QED BY <2>2, <2>6
<1>3. ASSUME NEW m \in Names \ {n} PROVE PlayerInv(m)'
  <2>1. world'[m] = world[m] BY DEF About
  <2>2. ASSUME NEW k \in Clients, Inside(m), world[m].client = k \/ world[m].connecting = k
        PROVE  Quiet(k, H, N)
    <3>1. proto[k].who = m /\ proto[k].state # "free" BY <2>2, ClientOf
    <3>. QED BY <3>1 DEF About
  <2>3. ASSUME Inside(m), world[m].client # None
        PROVE  Held(world[m].client) /\ <<"close", world[m].client>> \notin H
    <3>1. world[m].client \in Clients BY <2>3, PlayersOf
    <3>. QED BY <2>2, <2>3, <3>1 DEF Quiet, Held
  <2>4. ASSUME Inside(m), world[m].connecting # None
        PROVE  Awaited(world[m].connecting) /\ <<"connect", world[m].connecting>> \notin N
    <3>1. world[m].connecting \in Clients BY <2>4, PlayersOf
    <3>. QED BY <2>2, <2>4, <3>1 DEF Quiet, Awaited
  <2>. QED BY <1>1, <2>1, <2>3, <2>4, PlayerKept
<1>. QED BY <1>2, <1>3

\* Enough for the invariant: types, and the parts about the character of the step.
LEMMA AboutStep ==
    ASSUME Inv, NEW n \in Names, NEW H, NEW N, About(n, H, N), Types', PlayerInv(n)',
           \A k \in Clients : proto[k].state = "free" \/ proto[k].who = n =>
               TaskInv(k)' /\ ClientInv(k)'
    PROVE  Inv'
<1>1. QueueOK' BY DEF About, QueueStep, QueueOK
<1>2. TypeOK' BY <1>1 DEF TypeOK, Types, QueueOK, ProtoSet, PlayerSet, Task
<1>3. \A k \in Clients : TaskInv(k)' /\ ClientInv(k)' BY Elsewhere
<1>4. \A m \in Names : PlayerInv(m)' BY Elsewhere
<1>. QED BY <1>1, <1>2, <1>3, <1>4 DEF Inv, QueueOK

-------------------------------------------------------------------------------
(* The operators on clients. *)

\* Connection::close() changes the state of an open connection.
LEMMA ClosingFields ==
    ASSUME NEW pr \in [Clients -> ProtoSet], NEW c \in Clients
    PROVE  /\ Closing(pr, c) \in [Clients -> ProtoSet]
           /\ \A k \in Clients \ {c} : Closing(pr, c)[k] = pr[k]
           /\ Closing(pr, c)[c].state =
                  IF pr[c].state = "open" THEN "closing" ELSE pr[c].state
           /\ Closing(pr, c)[c].who = pr[c].who
           /\ Closing(pr, c)[c].player = pr[c].player
           /\ Closing(pr, c)[c].event = pr[c].event
<1>1. pr[c] \in ProtoSet OBVIOUS
<1>2. [pr[c] EXCEPT !.state = "closing"] \in ProtoSet BY <1>1 DEF ProtoSet
<1>. QED BY <1>1, <1>2 DEF Closing, ProtoSet

\* Events of a character that left the world.
Staled(e) == CASE e = "armed" -> "stale" [] e = "queued" -> "stale_queued" [] OTHER -> e

\* Who holds the Player of n, or is armed for him, when he leaves the world.
LEMMA LeftBehindFields ==
    ASSUME NEW pr \in [Clients -> ProtoSet], NEW n \in Names
    PROVE  /\ LeftBehind(pr, n) \in [Clients -> ProtoSet]
           /\ \A k \in Clients :
                 /\ LeftBehind(pr, n)[k].state = pr[k].state
                 /\ LeftBehind(pr, n)[k].who = pr[k].who
                 /\ pr[k].who # n => LeftBehind(pr, n)[k] = pr[k]
                 /\ pr[k].who = n =>
                        /\ LeftBehind(pr, n)[k].player # "inside"
                        /\ pr[k].player = None => LeftBehind(pr, n)[k].player = None
                        /\ pr[k].event = "none" => LeftBehind(pr, n)[k].event = "none"
                        /\ pr[k].event \in {"queued", "stale_queued"} =>
                               LeftBehind(pr, n)[k].event = "stale_queued"
<1>. DEFINE q == LeftBehind(pr, n)
<1>1. ASSUME NEW k \in Clients, pr[k].who # n PROVE q[k] = pr[k]
  BY <1>1 DEF LeftBehind
<1>2. ASSUME NEW k \in Clients, pr[k].who = n
      PROVE  /\ q[k] \in ProtoSet /\ q[k].state = pr[k].state /\ q[k].who = pr[k].who
             /\ q[k].player = IF pr[k].player = "inside" THEN "outside" ELSE pr[k].player
             /\ q[k].event = Staled(pr[k].event)
  <2>1. pr[k] \in ProtoSet OBVIOUS
  <2>2. pr[k].event \in Events BY <2>1 DEF ProtoSet
  <2>3. Staled(pr[k].event) \in Events BY <2>2 DEF Staled, Events
  <2>. DEFINE a == [pr[k] EXCEPT
                      !.player = IF pr[k].player = "inside" THEN "outside" ELSE pr[k].player]
  <2>4. /\ a \in ProtoSet /\ a.state = pr[k].state /\ a.who = pr[k].who
        /\ a.event = pr[k].event
        /\ a.player = IF pr[k].player = "inside" THEN "outside" ELSE pr[k].player
    BY <2>1 DEF ProtoSet
  <2>. HIDE DEF a
  <2>5. q[k] = [a EXCEPT !.event = Staled(pr[k].event)]
    BY <1>2 DEF LeftBehind, a, Staled
  <2>6. /\ q[k] \in ProtoSet /\ q[k].state = a.state /\ q[k].who = a.who
        /\ q[k].player = a.player /\ q[k].event = Staled(pr[k].event)
    BY <2>3, <2>4, <2>5 DEF ProtoSet
  <2>. QED BY <2>4, <2>6
<1>3. q = [k \in Clients |-> q[k]] BY DEF LeftBehind
<1>. HIDE DEF q
<1>4. \A k \in Clients : q[k] \in ProtoSet BY <1>1, <1>2
<1>5. q \in [Clients -> ProtoSet] BY <1>3, <1>4
<1>6. ASSUME NEW k \in Clients, pr[k].who = n
      PROVE  /\ q[k].player # "inside"
             /\ pr[k].player = None => q[k].player = None
             /\ pr[k].event = "none" => q[k].event = "none"
             /\ pr[k].event \in {"queued", "stale_queued"} => q[k].event = "stale_queued"
  BY <1>2, <1>6, NoneIsNoClient DEF Staled
<1>. QED BY <1>1, <1>2, <1>5, <1>6 DEF q

-------------------------------------------------------------------------------
(* Steps that end or begin a connection. *)

\* The task at the head of the queue.
LEMMA HeadTask ==
    ASSUME Inv, NEW what, NEW c \in Clients, Running(what, c)
    PROVE  queue # <<>> /\ Head(queue) = <<what, c>> /\ <<what, c>> \in Tasks
<1>1. queue # <<>> /\ Head(queue) = <<what, c>> BY DEF Running
<1>2. queue \in Seq(Task) /\ IsInjective(queue) BY TypesOf DEF QueueOK
<1>. QED BY <1>1, <1>2, TailLemma DEF Tasks

\* A client whose login is executed holds nothing, and nobody waits for it.
LEMMA AtLogin ==
    ASSUME Inv, NEW c \in Clients, Running("login", c)
    PROVE  /\ proto[c].state \in {"open", "closing"} /\ proto[c].who \in Names
           /\ proto[c].player = None /\ proto[c].event = "none"
           /\ <<"connect", c>> \notin Tasks
           /\ \A m \in Names : Inside(m) =>
                  world[m].client # c /\ world[m].connecting # c
<1>1. TaskInv(c) /\ ClientInv(c) /\ <<"login", c>> \in Tasks BY HeadTask DEF Inv
<1>2. /\ proto[c].state \in {"open", "closing"}
      /\ proto[c].player = None /\ proto[c].event = "none"
  BY <1>1 DEF TaskInv
<1>3. proto[c].who \in Names BY <1>1, <1>2 DEF ClientInv
<1>4. <<"connect", c>> \notin Tasks BY <1>1, <1>2 DEF TaskInv
<1>5. ASSUME NEW m \in Names, Inside(m)
      PROVE  world[m].client # c /\ world[m].connecting # c
  <2>1. PlayerInv(m) /\ c # None BY NoneIsNoClient DEF Inv
  <2>2. world[m].client # c BY <1>2, <1>5, <2>1, NoneIsNoClient DEF PlayerInv
  <2>3. world[m].connecting # c BY <1>2, <1>5, <2>1 DEF PlayerInv
  <2>. QED BY <2>2, <2>3
<1>. QED BY <1>2, <1>3, <1>4, <1>5

\* A client whose second is over.
LEMMA AtConnect ==
    ASSUME Inv, NEW c \in Clients, Running("connect", c)
    PROVE  /\ proto[c].state # "free" /\ proto[c].who \in Names
           /\ proto[c].event \in {"queued", "stale_queued"}
           /\ <<"login", c>> \notin Tasks
           /\ \A m \in Names : Inside(m) => world[m].client # c
<1>1. TaskInv(c) /\ ClientInv(c) /\ <<"connect", c>> \in Tasks BY HeadTask DEF Inv
<1>2. proto[c].event \in {"queued", "stale_queued"} BY <1>1 DEF TaskInv
<1>3. proto[c].state # "free" /\ proto[c].who \in Names BY <1>1, <1>2 DEF ClientInv
<1>4. <<"login", c>> \notin Tasks BY <1>1, <1>2 DEF TaskInv
<1>5. ASSUME NEW m \in Names, Inside(m) PROVE world[m].client # c
  <2>1. PlayerInv(m) /\ c # None BY NoneIsNoClient DEF Inv
  <2>. QED BY <1>2, <1>5, <2>1 DEF PlayerInv
<1>. QED BY <1>2, <1>3, <1>4, <1>5

\* A task of c closes its connection and leaves it nothing new; c is no client of
\* a Player, and where its event ends it was not awaited.
LEMMA EndStep ==
    ASSUME Inv, NEW c \in Clients, NEW what, what # "close", Running(what, c),
           proto[c].state # "free",
           NEW pr \in [Clients -> ProtoSet],
           \A k \in Clients \ {c} : pr[k] = proto[k],
           pr[c].state = proto[c].state, pr[c].who = proto[c].who,
           pr[c].player = "inside" => proto[c].player = "inside",
           <<"login", c>> \in Tasks => what = "login",
           <<"connect", c>> \in Tasks => what = "connect" \/ pr[c].event = proto[c].event,
           \A m \in Names : Inside(m) => world[m].client # c,
           pr[c].event = proto[c].event
               \/ \A m \in Names : Inside(m) => world[m].connecting # c,
           proto' = Closing(pr, c), queue' = Tail(queue) \o CloseTask(pr, c),
           UNCHANGED <<world, cast>>
    PROVE  Inv'
<1>. DEFINE H == {<<what, c>>}
            N == NewClose(c)
<1>1. queue # <<>> /\ Head(queue) = <<what, c>> BY HeadTask
<1>2. QueueStep(H, N) BY <1>1, ExecuteAndClose
<1>3. Types BY TypesOf
<1>4. /\ proto' \in [Clients -> ProtoSet]
      /\ \A k \in Clients \ {c} : proto'[k] = proto[k]
      /\ proto'[c].state = IF proto[c].state = "open" THEN "closing" ELSE proto[c].state
      /\ proto'[c].who = proto[c].who /\ proto'[c].player = pr[c].player
      /\ proto'[c].event = pr[c].event
  BY ClosingFields
<1>5. /\ <<"login", c>> \notin N /\ <<"connect", c>> \notin N /\ <<"close", c>> \notin H
      /\ <<"close", c>> \in N <=> proto[c].state = "open"
      /\ \A t \in H \cup N : t[2] = c
  BY DEF NewClose
<1>. DEFINE n == proto[c].who
<1>6. TaskInv(c) /\ ClientInv(c) BY DEF Inv
<1>7. n \in Names BY <1>6 DEF ClientInv
<1>8. TaskInv(c)'
  <2>1. <<"login", c>> \notin Tasks \ H OBVIOUS
  <2>2. <<"connect", c>> \in Tasks \ H => proto'[c].event \in {"queued", "stale_queued"}
    BY <1>4, <1>6 DEF TaskInv
  <2>. QED BY <1>2, <1>4, <1>5, <2>1, <2>2, TaskStep
<1>9. ClientInv(c)'
  <2>1. proto'[c].state # "open" /\ proto'[c].state # "free" BY <1>4
  <2>2. proto'[c].player = "inside" => Inside(proto[c].who) BY <1>4, <1>6 DEF ClientInv
  <2>. QED BY <1>4, <1>7, <2>1, <2>2 DEF ClientInv, Inside
<1>. HIDE DEF H, N
<1>10. \A k \in Clients \ {c} : Quiet(k, H, N) BY <1>4, <1>5 DEF Quiet
<1>11. ASSUME NEW k \in Clients \ {c} PROVE TaskInv(k)' /\ ClientInv(k)'
  <2>1. TaskInv(k)' BY <1>2, <1>10, QuietTasks
  <2>2. ClientInv(k) BY DEF Inv
  <2>3. ClientInv(k)' BY <1>4, <2>2 DEF ClientInv, Inside
  <2>. QED BY <2>1, <2>3
<1>12. ASSUME NEW m \in Names PROVE PlayerInv(m)'
  <2>1. ASSUME Inside(m), world[m].client # None
        PROVE  Held(world[m].client) /\ <<"close", world[m].client>> \notin H
    <3>1. world[m].client \in Clients \ {c} BY <2>1, PlayersOf
    <3>2. Quiet(world[m].client, H, N) BY <1>10, <3>1
    <3>. QED BY <3>2 DEF Held, Quiet
  <2>2. ASSUME Inside(m), world[m].connecting # None
        PROVE  Awaited(world[m].connecting) /\ <<"connect", world[m].connecting>> \notin N
    <3>1. world[m].connecting \in Clients BY <2>2, PlayersOf
    <3>2. CASE world[m].connecting = c BY <1>4, <1>5, <2>2, <3>2 DEF Awaited
    <3>3. CASE world[m].connecting # c
      <4>1. Quiet(world[m].connecting, H, N) BY <1>10, <3>1, <3>3
      <4>. QED BY <4>1 DEF Awaited, Quiet
    <3>. QED BY <3>2, <3>3
  <2>. QED BY <1>2, <2>1, <2>2, PlayerKept
<1>13. Types' BY <1>3, <1>4 DEF Types
<1>14. About(n, H, N) BY <1>2, <1>10 DEF About
<1>. QED BY <1>7, <1>8, <1>9, <1>11, <1>12, <1>13, <1>14, AboutStep

\* A new Player that is not in the world.
LEMMA NewFields ==
    ASSUME proto \in [Clients -> ProtoSet], NEW c \in Clients,
           NEW pr \in {New(c), [New(c) EXCEPT ![c].accept = TRUE]}
    PROVE  /\ pr \in [Clients -> ProtoSet]
           /\ \A k \in Clients \ {c} : pr[k] = proto[k]
           /\ pr[c].state = proto[c].state /\ pr[c].who = proto[c].who
           /\ pr[c].player = "outside" /\ pr[c].event = proto[c].event
<1>1. proto[c] \in ProtoSet OBVIOUS
<1>2. [proto[c] EXCEPT !.player = "outside"] \in ProtoSet BY <1>1 DEF ProtoSet
<1>. DEFINE q == New(c)
<1>3. /\ q \in [Clients -> ProtoSet]
      /\ \A k \in Clients \ {c} : q[k] = proto[k]
      /\ q[c].state = proto[c].state /\ q[c].who = proto[c].who
      /\ q[c].player = "outside" /\ q[c].event = proto[c].event
  BY <1>1, <1>2 DEF New, ProtoSet
<1>. HIDE DEF q
<1>4. q[c] \in ProtoSet BY <1>3
<1>5. [q[c] EXCEPT !.accept = TRUE] \in ProtoSet BY <1>4 DEF ProtoSet
<1>. DEFINE r == [q EXCEPT ![c].accept = TRUE]
<1>6. /\ r \in [Clients -> ProtoSet]
      /\ \A k \in Clients \ {c} : r[k] = q[k]
      /\ r[c].state = q[c].state /\ r[c].who = q[c].who
      /\ r[c].player = q[c].player /\ r[c].event = q[c].event
  BY <1>3, <1>4, <1>5 DEF ProtoSet
<1>. HIDE DEF r
<1>7. pr = q \/ pr = r BY DEF q, r
<1>. QED BY <1>3, <1>6, <1>7

\* A login that is refused, or told to wait, or whose Player a script keeps out.
LEMMA LoginEndsStep ==
    ASSUME Inv, NEW c \in Clients, Running("login", c),
           NEW pr \in {New(c), [New(c) EXCEPT ![c].accept = TRUE]},
           CloseClient(pr, c), UNCHANGED world
    PROVE  Inv'
<1>1. proto \in [Clients -> ProtoSet] BY TypesOf DEF Types
<1>2. /\ pr \in [Clients -> ProtoSet]
      /\ \A k \in Clients \ {c} : pr[k] = proto[k]
      /\ pr[c].state = proto[c].state /\ pr[c].who = proto[c].who
      /\ pr[c].player # "inside" /\ pr[c].event = proto[c].event
  BY <1>1, NewFields
<1>3. /\ proto' = Closing(pr, c) /\ queue' = Tail(queue) \o CloseTask(pr, c)
      /\ UNCHANGED <<world, cast>>
  BY DEF CloseClient, Do
<1>4. /\ proto[c].state # "free"
      /\ <<"connect", c>> \notin Tasks
      /\ \A m \in Names : Inside(m) => world[m].client # c
  BY AtLogin
<1>. QED BY <1>2, <1>3, <1>4, EndStep

\* A login, or the connect that a login armed, becomes the client of the Player,
\* or ends where the Player is gone or has one.
LEMMA AttachStep ==
    ASSUME Inv, NEW c \in Clients, NEW what \in {"login", "connect"}, Running(what, c),
           Attach(c)
    PROVE  Inv'
<1>0. PICK n : n = proto[c].who OBVIOUS
<1>. USE <1>0
<1>. DEFINE H == {<<what, c>>}
<1>1. Types /\ QueueOK BY TypesOf
<1>2. proto[c] \in ProtoSet BY <1>1 DEF Types
<1>3. /\ proto[c].state # "free" /\ n \in Names
      /\ <<"login", c>> \in Tasks => what = "login"
      /\ <<"connect", c>> \in Tasks => what = "connect"
      /\ \A m \in Names : Inside(m) => world[m].client # c
  <2>1. CASE what = "login" BY <2>1, AtLogin
  <2>2. CASE what = "connect" BY <2>2, AtConnect
  <2>. QED BY <2>1, <2>2
<1>4. queue # <<>> /\ Head(queue) = <<what, c>> BY HeadTask
<1>5. CASE /\ Inside(n) /\ proto[c].event \notin {"stale", "stale_queued"}
           /\ world[n].client = None
  <2>1. /\ world' = [world EXCEPT ![n] = [client |-> c, connecting |-> None]]
        /\ proto' = [proto EXCEPT ![c] = [proto[c] EXCEPT
                        !.player = "inside", !.accept = TRUE, !.event = "none"]]
        /\ queue' = Tail(queue) \o <<>>
        /\ cast' = cast
    BY <1>5 DEF Attach, Do
  <2>2. queue' = Tail(queue)
    <3>1. Tail(queue) \in Seq(Task) BY <1>1, <1>4, HeadTailProperties DEF QueueOK
    <3>. QED BY <2>1, <3>1, BehindLemma, EmptySeq
  <2>3. QueueStep(H, {}) BY <1>1, <1>4, <2>2, Execute
  <2>4. /\ proto' \in [Clients -> ProtoSet]
        /\ \A k \in Clients \ {c} : proto'[k] = proto[k]
        /\ proto'[c].state = proto[c].state /\ proto'[c].who = n
        /\ proto'[c].player = "inside" /\ proto'[c].event = "none"
    <3>. DEFINE a == [state |-> proto[c].state, who |-> proto[c].who,
                      player |-> "inside", accept |-> TRUE, event |-> "none"]
    <3>1. proto'[c] = a BY <1>1, <1>2, <2>1 DEF Types, ProtoSet
    <3>2. a \in ProtoSet BY <1>2 DEF ProtoSet, Events
    <3>. QED BY <1>1, <2>1, <3>1, <3>2 DEF Types
  <2>5. /\ world' \in [Names -> {None} \cup PlayerSet]
        /\ world'[n] = [client |-> c, connecting |-> None]
        /\ \A m \in Names \ {n} : world'[m] = world[m]
    <3>1. [client |-> c, connecting |-> None] \in PlayerSet BY DEF PlayerSet
    <3>. QED BY <1>1, <1>3, <2>1, <3>1 DEF Types
  <2>6. Inside(n)'
    <3>1. world'[n] \in PlayerSet BY <2>5 DEF PlayerSet
    <3>. QED BY <2>4, <3>1, NoneIsNoClient DEF Inside
  <2>7. \A k \in Clients \ {c} : Quiet(k, H, {}) BY <2>4 DEF Quiet
  <2>8. TaskInv(c)'
    <3>1. <<"login", c>> \notin Tasks \ H /\ <<"connect", c>> \notin Tasks \ H BY <1>3
    <3>2. <<"close", c>> \notin H OBVIOUS
    <3>3. \A t : t \notin {} OBVIOUS
    <3>. HIDE DEF H
    <3>. QED BY <2>3, <2>4, <3>1, <3>2, <3>3, TaskStep
  <2>9. ClientInv(c)' BY <1>3, <2>4, <2>5, <2>6 DEF ClientInv
  <2>. HIDE DEF H
  <2>10. ASSUME NEW k \in Clients \ {c} PROVE TaskInv(k)' /\ ClientInv(k)'
    <3>1. TaskInv(k)' BY <2>3, <2>7, QuietTasks
    <3>2. ClientInv(k) BY DEF Inv
    <3>3. CASE proto[k].who = n
      <4>1. ~(proto[k].state = "open" /\ proto[k].player = "inside")
        BY <1>5, <3>2, <3>3, NoneIsNoClient DEF ClientInv
      <4>. QED BY <2>4, <2>6, <3>1, <3>2, <3>3, <4>1 DEF ClientInv
    <3>4. CASE proto[k].who # n
      <4>1. proto[k].player = "inside" => proto[k].who \in Names \ {n}
        BY <3>2, <3>4, NoneIsNoClient DEF ClientInv
      <4>. QED BY <2>4, <2>5, <3>1, <3>2, <4>1 DEF ClientInv, Inside
    <3>. QED BY <3>3, <3>4
  <2>11. PlayerInv(n)'
    <3>1. world'[n].client = c /\ world'[n].connecting = None BY <2>5
    <3>. QED BY <1>3, <2>4, <3>1 DEF PlayerInv
  <2>12. Types' BY <1>1, <2>1, <2>4, <2>5 DEF Types
  <2>13. About(n, H, {}) BY <2>3, <2>5, <2>7 DEF About
  <2>14. \A k \in Clients : TaskInv(k)' /\ ClientInv(k)' BY <2>8, <2>9, <2>10
  <2>15. n \in Names BY <1>3
  <2>. QED BY <2>11, <2>12, <2>13, <2>14, <2>15, AboutStep
<1>6. CASE ~(/\ Inside(n) /\ proto[c].event \notin {"stale", "stale_queued"}
             /\ world[n].client = None)
  <2>. DEFINE pr == [proto EXCEPT ![c].event = "none"]
  <2>1. /\ proto' = Closing(pr, c) /\ queue' = Tail(queue) \o CloseTask(pr, c)
        /\ UNCHANGED <<world, cast>>
    BY <1>6 DEF Attach, CloseClient, Do
  <2>2. /\ pr \in [Clients -> ProtoSet]
        /\ \A k \in Clients \ {c} : pr[k] = proto[k]
        /\ pr[c].state = proto[c].state /\ pr[c].who = proto[c].who
        /\ pr[c].player = proto[c].player /\ pr[c].event = "none"
    <3>1. [proto[c] EXCEPT !.event = "none"] \in ProtoSet BY <1>2 DEF ProtoSet, Events
    <3>. QED BY <1>1, <1>2, <3>1 DEF Types, ProtoSet
  <2>. HIDE DEF pr
  <2>3. ASSUME NEW m \in Names, Inside(m), world[m].connecting = c PROVE FALSE
    <3>1. CASE what = "login" BY <2>3, <3>1, AtLogin
    <3>2. CASE what = "connect"
      <4>1. PlayerInv(m) /\ c # None BY NoneIsNoClient DEF Inv
      <4>2. m = n /\ proto[c].event \in {"armed", "queued"}
        BY <2>3, <4>1 DEF PlayerInv
      <4>3. proto[c].event \in {"queued", "stale_queued"} BY <3>2, AtConnect
      <4>4. world[m].client # None BY <1>6, <2>3, <4>2
      <4>5. PICK k : k = world[m].client OBVIOUS
      <4>6. Before(<<"close", k>>, <<"connect", c>>)
        BY <2>3, <4>1, <4>2, <4>3, <4>4, <4>5 DEF PlayerInv
      <4>. QED BY <1>1, <1>4, <3>2, <4>6, PrecedesHead DEF Before, QueueOK
    <3>. QED BY <3>1, <3>2
  <2>. QED BY <1>3, <2>1, <2>2, <2>3, EndStep
<1>. QED BY <1>5, <1>6

\* A login brings its character into the world.
LEMMA EnterStep ==
    ASSUME Inv, NEW c \in Clients, Running("login", c), ~Inside(proto[c].who),
           world' = [world EXCEPT ![proto[c].who] = [client |-> c, connecting |-> None]],
           Do([proto EXCEPT ![c].player = "inside", ![c].accept = TRUE], <<>>)
    PROVE  Inv'
<1>0. PICK n : n = proto[c].who OBVIOUS
<1>. USE <1>0
<1>. DEFINE H == {<<"login", c>>}
<1>1. Types /\ QueueOK BY TypesOf
<1>2. proto[c] \in ProtoSet BY <1>1 DEF Types
<1>3. /\ proto[c].state # "free" /\ n \in Names /\ proto[c].event = "none"
      /\ <<"connect", c>> \notin Tasks
  BY AtLogin
<1>4. queue # <<>> /\ Head(queue) = <<"login", c>> BY HeadTask
<1>5. /\ proto' = [proto EXCEPT ![c].player = "inside", ![c].accept = TRUE]
      /\ queue' = Tail(queue) \o <<>> /\ cast' = cast
  BY DEF Do
<1>6. queue' = Tail(queue)
  <2>1. Tail(queue) \in Seq(Task) BY <1>1, <1>4, HeadTailProperties DEF QueueOK
  <2>. QED BY <1>5, <2>1, BehindLemma, EmptySeq
<1>7. QueueStep(H, {}) BY <1>1, <1>4, <1>6, Execute
<1>8. /\ proto' \in [Clients -> ProtoSet]
      /\ \A k \in Clients \ {c} : proto'[k] = proto[k]
      /\ proto'[c].state = proto[c].state /\ proto'[c].who = n
      /\ proto'[c].player = "inside" /\ proto'[c].event = "none"
  <2>. DEFINE q == [proto EXCEPT ![c].player = "inside"]
  <2>1. [proto[c] EXCEPT !.player = "inside"] \in ProtoSet BY <1>2 DEF ProtoSet
  <2>2. /\ q \in [Clients -> ProtoSet]
        /\ \A k \in Clients \ {c} : q[k] = proto[k]
        /\ q[c].state = proto[c].state /\ q[c].who = n
        /\ q[c].player = "inside" /\ q[c].event = "none"
    BY <1>1, <1>2, <1>3, <2>1 DEF Types, ProtoSet
  <2>3. proto' = [q EXCEPT ![c].accept = TRUE] BY <1>5
  <2>. HIDE DEF q
  <2>4. q[c] \in ProtoSet BY <2>2
  <2>5. [q[c] EXCEPT !.accept = TRUE] \in ProtoSet BY <2>4 DEF ProtoSet
  <2>. QED BY <2>2, <2>3, <2>4, <2>5 DEF ProtoSet
<1>9. /\ world' \in [Names -> {None} \cup PlayerSet]
      /\ world'[n] = [client |-> c, connecting |-> None]
      /\ \A m \in Names \ {n} : world'[m] = world[m]
  <2>1. [client |-> c, connecting |-> None] \in PlayerSet BY DEF PlayerSet
  <2>. QED BY <1>1, <1>3, <2>1 DEF Types
<1>10. Inside(n)'
  <2>1. world'[n] \in PlayerSet BY <1>9 DEF PlayerSet
  <2>. QED BY <2>1, NoneIsNoClient DEF Inside
<1>11. \A k \in Clients \ {c} : Quiet(k, H, {}) BY <1>8 DEF Quiet
<1>12. TaskInv(c)'
  <2>1. <<"login", c>> \notin Tasks \ H /\ <<"connect", c>> \notin Tasks \ H BY <1>3
  <2>2. <<"close", c>> \notin H OBVIOUS
  <2>3. \A t : t \notin {} OBVIOUS
  <2>. HIDE DEF H
  <2>. QED BY <1>7, <1>8, <2>1, <2>2, <2>3, TaskStep
<1>13. ClientInv(c)' BY <1>3, <1>8, <1>9, <1>10 DEF ClientInv
<1>. HIDE DEF H
<1>14. ASSUME NEW k \in Clients \ {c} PROVE TaskInv(k)' /\ ClientInv(k)'
  <2>1. TaskInv(k)' BY <1>7, <1>11, QuietTasks
  <2>2. ClientInv(k) BY DEF Inv
  <2>3. proto[k].player = "inside" => proto[k].who \in Names \ {n}
    BY <2>2, NoneIsNoClient DEF ClientInv
  <2>. QED BY <1>8, <1>9, <2>1, <2>2, <2>3 DEF ClientInv, Inside
<1>15. PlayerInv(n)'
  <2>1. world'[n].client = c /\ world'[n].connecting = None BY <1>9
  <2>. QED BY <1>3, <1>8, <2>1 DEF PlayerInv
<1>16. Types' BY <1>1, <1>5, <1>8, <1>9 DEF Types
<1>17. About(n, H, {}) BY <1>7, <1>9, <1>11 DEF About
<1>18. \A k \in Clients : TaskInv(k)' /\ ClientInv(k)' BY <1>12, <1>13, <1>14
<1>. QED BY <1>3, <1>15, <1>16, <1>17, <1>18, AboutStep

\* A login has the client of its character disconnected and waits for a second.
LEMMA TakeOverStep ==
    ASSUME Inv, NEW c \in Clients, Running("login", c), Inside(proto[c].who),
           world[proto[c].who].client # None,
           TakeOver(c, world[proto[c].who].client, proto[c].who)
    PROVE  Inv'
<1>0. PICK n, x : n = proto[c].who /\ x = world[n].client OBVIOUS
<1>. USE <1>0
<1>. DEFINE H == {<<"login", c>>}
            N == NewClose(x)
<1>1. Types /\ QueueOK BY TypesOf
<1>2. proto[c] \in ProtoSet BY <1>1 DEF Types
<1>3. /\ proto[c].state \in {"open", "closing"} /\ n \in Names
      /\ proto[c].event = "none" /\ proto[c].player = None
      /\ <<"connect", c>> \notin Tasks
      /\ \A m \in Names : Inside(m) =>
             world[m].client # c /\ world[m].connecting # c
  BY AtLogin
<1>4. x \in Clients /\ x # c BY <1>3, PlayersOf
<1>5. /\ proto[x].state # "free" /\ proto[x].who = n
      /\ proto[x].player = "inside" /\ proto[x].event = "none"
  BY <1>3, <1>4, NoneIsNoClient DEF Inv, PlayerInv
<1>6. queue # <<>> /\ Head(queue) = <<"login", c>> BY HeadTask
<1>7. /\ world' = [world EXCEPT ![n].connecting = c]
      /\ proto' = [Closing(proto, x) EXCEPT ![c].event = "armed"]
      /\ queue' = Tail(queue) \o CloseTask(proto, x)
      /\ cast' = cast
  BY DEF TakeOver, Do
<1>8. QueueStep(H, N) BY <1>4, <1>6, <1>7, ExecuteAndClose
<1>9. /\ proto' \in [Clients -> ProtoSet]
      /\ \A k \in Clients \ {c, x} : proto'[k] = proto[k]
      /\ proto'[c].state = proto[c].state /\ proto'[c].who = n
      /\ proto'[c].player = None /\ proto'[c].event = "armed"
      /\ proto'[x].state = IF proto[x].state = "open" THEN "closing" ELSE proto[x].state
      /\ proto'[x].who = n /\ proto'[x].player = "inside" /\ proto'[x].event = "none"
  <2>. DEFINE q == Closing(proto, x)
  <2>1. /\ q \in [Clients -> ProtoSet]
        /\ \A k \in Clients \ {x} : q[k] = proto[k]
        /\ q[x].state = IF proto[x].state = "open" THEN "closing" ELSE proto[x].state
        /\ q[x].who = proto[x].who /\ q[x].player = proto[x].player
        /\ q[x].event = proto[x].event
    BY <1>1, <1>4, ClosingFields DEF Types
  <2>. HIDE DEF q
  <2>2. q[c] = proto[c] /\ proto' = [q EXCEPT ![c].event = "armed"]
    BY <1>4, <1>7, <2>1 DEF q
  <2>3. [q[c] EXCEPT !.event = "armed"] \in ProtoSet BY <1>2, <2>2 DEF ProtoSet, Events
  <2>4. /\ proto' \in [Clients -> ProtoSet] /\ proto'[c] = [q[c] EXCEPT !.event = "armed"]
        /\ \A k \in Clients \ {c} : proto'[k] = q[k]
    BY <2>1, <2>2, <2>3
  <2>5. /\ proto'[c].state = proto[c].state /\ proto'[c].who = proto[c].who
        /\ proto'[c].player = proto[c].player /\ proto'[c].event = "armed"
    BY <1>2, <2>2, <2>4 DEF ProtoSet
  <2>6. proto'[x] = q[x] BY <1>4, <2>4
  <2>7. \A k \in Clients \ {c, x} : proto'[k] = proto[k] BY ONLY <2>1, <2>4
  <2>8. /\ proto'[c].who = n /\ proto'[c].player = None
        /\ proto'[x].who = n /\ proto'[x].player = "inside" /\ proto'[x].event = "none"
    BY ONLY <1>0, <1>3, <1>5, <2>1, <2>5, <2>6
  <2>9. proto'[x].state = IF proto[x].state = "open" THEN "closing" ELSE proto[x].state
    BY ONLY <2>1, <2>6
  <2>. QED BY ONLY <2>4, <2>5, <2>7, <2>8, <2>9
<1>10. /\ world' \in [Names -> {None} \cup PlayerSet]
       /\ world'[n] \in PlayerSet
       /\ world'[n].client = x /\ world'[n].connecting = c
       /\ \A m \in Names \ {n} : world'[m] = world[m]
  <2>1. world[n] \in PlayerSet BY <1>3, PlayersOf
  <2>2. [world[n] EXCEPT !.connecting = c] \in PlayerSet BY <2>1 DEF PlayerSet
  <2>. QED BY <1>1, <1>3, <1>7, <2>1, <2>2 DEF Types, PlayerSet
<1>11. Inside(n)' BY <1>10, NoneIsNoClient DEF Inside
<1>12. /\ \A t \in H : t[2] = c
       /\ \A t \in N : t[2] = x
       /\ <<"login", x>> \notin N /\ <<"connect", x>> \notin N /\ <<"close", x>> \notin H
       /\ <<"login", c>> \notin N /\ <<"connect", c>> \notin N /\ <<"close", c>> \notin H
       /\ <<"close", x>> \in N <=> proto[x].state = "open"
       /\ <<"close", c>> \notin N
  BY <1>4 DEF NewClose
<1>13. \A k \in Clients \ {c, x} : Quiet(k, H, N) BY <1>9, <1>12 DEF Quiet
<1>14. TaskInv(c)'
  <2>1. <<"login", c>> \notin Tasks \ H /\ <<"connect", c>> \notin Tasks \ H BY <1>3
  <2>. HIDE DEF H, N
  <2>. QED BY <1>8, <1>9, <1>12, <2>1, TaskStep
<1>15. TaskInv(x)'
  <2>1. TaskInv(x) BY <1>4 DEF Inv
  <2>2. <<"login", x>> \notin Tasks /\ <<"connect", x>> \notin Tasks
    BY <1>5, <2>1, NoneIsNoClient DEF TaskInv
  <2>. HIDE DEF H, N
  <2>. QED BY <1>4, <1>8, <1>9, <1>12, <2>2, TaskStep
<1>. HIDE DEF H, N
<1>16. ClientInv(c)' BY <1>3, <1>9, NoneIsNoClient DEF ClientInv
<1>17. ClientInv(x)' BY <1>3, <1>5, <1>9, <1>10, <1>11 DEF ClientInv
<1>18. ASSUME NEW k \in Clients \ {c, x} PROVE TaskInv(k)' /\ ClientInv(k)'
  <2>1. TaskInv(k)' BY <1>8, <1>13, QuietTasks
  <2>2. ClientInv(k) BY DEF Inv
  <2>3. proto[k].player = "inside" => proto[k].who \in Names
    BY <2>2, NoneIsNoClient DEF ClientInv
  <2>4. CASE proto[k].who = n BY <1>9, <1>10, <1>11, <2>1, <2>2, <2>4 DEF ClientInv
  <2>5. CASE proto[k].who # n
    BY <1>9, <1>10, <2>1, <2>2, <2>3, <2>5 DEF ClientInv, Inside
  <2>. QED BY <2>4, <2>5
<1>19. PlayerInv(n)' BY <1>5, <1>9, <1>10 DEF PlayerInv
<1>20. Types' BY <1>1, <1>7, <1>9, <1>10 DEF Types
<1>21. About(n, H, N) BY <1>3, <1>5, <1>8, <1>10, <1>13 DEF About
<1>22. \A k \in Clients : TaskInv(k)' /\ ClientInv(k)' BY <1>14, <1>15, <1>16, <1>17, <1>18
<1>. QED BY <1>3, <1>19, <1>20, <1>21, <1>22, AboutStep

\* A client connects.
LEMMA FirstPacketStep ==
    ASSUME Inv, NEW c \in Clients, NEW n \in Names, FirstPacket(c, n)
    PROVE  Inv'
<1>. DEFINE H == {}
            N == {<<"login", c>>}
<1>1. Types /\ QueueOK BY TypesOf
<1>2. /\ proto[c].state = "free" /\ cast' = cast
      /\ proto' = [proto EXCEPT ![c] = [Free EXCEPT !.state = "open", !.who = n]]
      /\ queue' = Append(queue, <<"login", c>>) /\ world' = world
  BY DEF FirstPacket
<1>3. TaskInv(c) /\ ClientInv(c) BY DEF Inv
<1>4. /\ <<"login", c>> \notin Tasks /\ <<"close", c>> \notin Tasks
      /\ proto[c].event = "none"
  BY <1>2, <1>3 DEF TaskInv, ClientInv
<1>5. <<"connect", c>> \notin Tasks BY <1>3, <1>4 DEF TaskInv
<1>6. QueueStep(H, N)
  <2>1. <<"login", c>> \in Task BY DEF Task
  <2>. QED BY <1>1, <1>2, <1>4, <2>1, Post
<1>7. /\ proto' \in [Clients -> ProtoSet]
      /\ \A k \in Clients \ {c} : proto'[k] = proto[k]
      /\ proto'[c].state = "open" /\ proto'[c].who = n
      /\ proto'[c].player = None /\ proto'[c].event = "none"
  <2>0. Free \in ProtoSet /\ Free.player = None /\ Free.event = "none"
    BY DEF Free, ProtoSet, Events
  <2>. DEFINE b == [Free EXCEPT !.state = "open"]
              a == [b EXCEPT !.who = n]
  <2>1. proto' = [proto EXCEPT ![c] = a] BY <1>2
  <2>. HIDE DEF a
  <2>2. b \in ProtoSet /\ b.state = "open" /\ b.player = None /\ b.event = "none"
    BY <2>0 DEF ProtoSet
  <2>. HIDE DEF b
  <2>3. /\ a \in ProtoSet /\ a.state = "open" /\ a.who = n /\ a.player = None
        /\ a.event = "none"
    BY <2>2 DEF ProtoSet, a
  <2>. QED BY <1>1, <2>1, <2>3 DEF Types
<1>8. \A k \in Clients \ {c} : Quiet(k, H, N) BY <1>7 DEF Quiet
<1>9. Tasks' = Tasks \cup N BY <1>6 DEF QueueStep
<1>10. TaskInv(c)' BY <1>4, <1>5, <1>7, <1>9 DEF TaskInv
<1>11. ClientInv(c)' BY <1>7, NoneIsNoClient DEF ClientInv
<1>. HIDE DEF H, N
<1>12. ASSUME NEW k \in Clients \ {c} PROVE TaskInv(k)' /\ ClientInv(k)'
  <2>1. TaskInv(k)' BY <1>6, <1>8, QuietTasks
  <2>2. ClientInv(k) BY DEF Inv
  <2>. QED BY <1>2, <1>7, <2>1, <2>2 DEF ClientInv, Inside
<1>13. ASSUME NEW m \in Names PROVE PlayerInv(m)'
  <2>1. ASSUME NEW k \in Clients, Inside(m), world[m].client = k \/ world[m].connecting = k
        PROVE  Quiet(k, H, N)
    <3>1. k # c BY <1>2, <2>1, ClientOf
    <3>. QED BY <1>8, <3>1
  <2>2. ASSUME Inside(m), world[m].client # None
        PROVE  Held(world[m].client) /\ <<"close", world[m].client>> \notin H
    <3>1. world[m].client \in Clients BY <2>2, PlayersOf
    <3>. QED BY <2>1, <2>2, <3>1 DEF Quiet, Held
  <2>3. ASSUME Inside(m), world[m].connecting # None
        PROVE  Awaited(world[m].connecting) /\ <<"connect", world[m].connecting>> \notin N
    <3>1. world[m].connecting \in Clients BY <2>3, PlayersOf
    <3>. QED BY <2>1, <2>3, <3>1 DEF Quiet, Awaited
  <2>. QED BY <1>2, <1>6, <2>2, <2>3, PlayerKept
<1>14. Types' BY <1>1, <1>2, <1>7 DEF Types
<1>15. About(n, H, N) BY <1>2, <1>6, <1>8 DEF About
<1>16. \A k \in Clients : TaskInv(k)' /\ ClientInv(k)' BY <1>10, <1>11, <1>12
<1>. QED BY <1>13, <1>14, <1>15, <1>16, AboutStep

\* The second of a takeover is over: the client it replaces is gone, or about to
\* be released by a task that is queued before.
LEMMA SecondStep ==
    ASSUME Inv, NEW c \in Clients, Second(c)
    PROVE  Inv'
<1>0. PICK n : n = proto[c].who OBVIOUS
<1>. USE <1>0
<1>. DEFINE H == {}
            N == {<<"connect", c>>}
<1>1. Types /\ QueueOK BY TypesOf
<1>2. /\ proto[c].event \in {"armed", "stale"}
      /\ Inside(n) /\ world[n].connecting = c /\ world[n].client # None =>
             ~RetryDue(world[n].client)
      /\ proto' = [proto EXCEPT ![c].event =
                      IF proto[c].event = "armed" THEN "queued" ELSE "stale_queued"]
      /\ queue' = Append(queue, <<"connect", c>>) /\ world' = world /\ cast' = cast
  BY DEF Second
<1>3. TaskInv(c) /\ ClientInv(c) BY DEF Inv
<1>4. <<"login", c>> \notin Tasks /\ <<"connect", c>> \notin Tasks
  BY <1>2, <1>3 DEF TaskInv
<1>5. proto[c].state # "free" /\ n \in Names BY <1>2, <1>3 DEF ClientInv
<1>6. QueueStep(H, N)
  <2>1. <<"connect", c>> \in Task BY DEF Task
  <2>. QED BY <1>1, <1>2, <1>4, <2>1, Post
<1>7. /\ proto' \in [Clients -> ProtoSet]
      /\ \A k \in Clients \ {c} : proto'[k] = proto[k]
      /\ proto'[c].state = proto[c].state /\ proto'[c].who = n
      /\ proto'[c].player = proto[c].player
      /\ proto'[c].event \in {"queued", "stale_queued"}
      /\ proto[c].event = "armed" => proto'[c].event = "queued"
  <2>. DEFINE e == IF proto[c].event = "armed" THEN "queued" ELSE "stale_queued"
  <2>1. proto[c] \in ProtoSet /\ e \in Events BY <1>1 DEF Types, Events
  <2>2. /\ e \in {"queued", "stale_queued"}
        /\ proto[c].event = "armed" => e = "queued"
        /\ proto' = [proto EXCEPT ![c].event = e]
    BY <1>2
  <2>. HIDE DEF e
  <2>3. [proto[c] EXCEPT !.event = e] \in ProtoSet BY <2>1 DEF ProtoSet
  <2>. QED BY <1>1, <2>1, <2>2, <2>3 DEF Types, ProtoSet
<1>8. \A k \in Clients \ {c} : Quiet(k, H, N) BY <1>7 DEF Quiet
<1>9. Tasks' = Tasks \cup N BY <1>6 DEF QueueStep
<1>10. TaskInv(c)' BY <1>3, <1>4, <1>7, <1>9 DEF TaskInv
<1>11. ClientInv(c)' BY <1>2, <1>3, <1>5, <1>7 DEF ClientInv, Inside
<1>12. ASSUME NEW k \in Clients, k # c PROVE <<"connect", k>> \notin N BY <1>12
<1>. HIDE DEF H
<1>13. ASSUME NEW k \in Clients \ {c} PROVE TaskInv(k)' /\ ClientInv(k)'
  <2>1. TaskInv(k)' BY <1>6, <1>8, QuietTasks
  <2>2. ClientInv(k) BY DEF Inv
  <2>. QED BY <1>2, <1>7, <2>1, <2>2 DEF ClientInv, Inside
<1>14. PlayerInv(n)'
  <2>1. ASSUME Inside(n), world[n].client # None
        PROVE  Held(world[n].client) /\ <<"close", world[n].client>> \notin H
    <3>1. world[n].client \in Clients BY <1>5, <2>1, PlayersOf
    <3>2. world[n].client # c
      BY <1>2, <1>5, <2>1 DEF Inv, PlayerInv
    <3>. QED BY <1>8, <3>1, <3>2 DEF Quiet, Held, H
  <2>2. CASE Inside(n) /\ world[n].connecting = c
    <3>1. PlayerInv(n) /\ c # None BY <1>5, NoneIsNoClient DEF Inv
    <3>2. proto[c].event = "armed" BY <1>2, <2>2, <3>1 DEF PlayerInv
    <3>3. world'[n].connecting = c /\ proto'[c].who = n /\ proto'[c].event = "queued"
      BY <1>2, <1>7, <2>2, <3>2
    <3>4. CASE world[n].client = None
      <4>1. world'[n].client = None BY <1>2, <3>4
      <4>. QED BY <3>3, <4>1 DEF PlayerInv
    <3>5. CASE world[n].client # None
      <4>1. PICK k : k = world[n].client OBVIOUS
      <4>2. k \in Clients BY <1>5, <2>2, <3>5, <4>1, PlayersOf
      <4>3. /\ proto[k].state # "free" /\ proto[k].state # "open" /\ proto[k].who = n
            /\ proto[k].player = "inside" /\ proto[k].event = "none"
        BY <2>2, <3>1, <3>5, <4>1 DEF PlayerInv
      <4>4. proto[k].state # "closed" BY <1>2, <2>2, <3>5, <4>1, <4>3 DEF RetryDue
      <4>5. proto[k].state = "closing"
        <5>1. proto[k] \in ProtoSet BY <1>1, <4>2 DEF Types
        <5>. QED BY <4>3, <4>4, <5>1 DEF ProtoSet
      <4>6. <<"close", k>> \in Tasks BY <4>2, <4>5 DEF Inv, TaskInv
      <4>7. Before(<<"close", k>>, <<"connect", c>>)'
        <5>1. <<"close", k>> \in Tasks \ H /\ <<"connect", c>> \in N BY <4>6 DEF H
        <5>. QED BY <1>6, <5>1 DEF QueueStep
      <4>8. /\ proto'[k].state = "closing" /\ proto'[k].who = n
            /\ proto'[k].player = "inside" /\ proto'[k].event = "none"
        BY <1>2, <1>7, <4>2, <4>3, <4>5
      <4>9. world'[n].client = k BY <1>2, <4>1
      <4>. QED BY <3>3, <4>7, <4>8, <4>9 DEF PlayerInv
    <3>. QED BY <3>4, <3>5
  <2>3. CASE ~(Inside(n) /\ world[n].connecting = c)
    <3>1. ASSUME Inside(n), world[n].connecting # None
          PROVE  Awaited(world[n].connecting) /\ <<"connect", world[n].connecting>> \notin N
      <4>1. world[n].connecting \in Clients \ {c} BY <1>5, <2>3, <3>1, PlayersOf
      <4>. QED BY <1>7, <1>12, <4>1 DEF Awaited
    <3>. HIDE DEF N
    <3>. QED BY <1>2, <1>5, <1>6, <2>1, <3>1, PlayerKept
  <2>. QED BY <2>2, <2>3
<1>. HIDE DEF N
<1>15. Types' BY <1>1, <1>2, <1>7 DEF Types
<1>16. About(n, H, N) BY <1>2, <1>6, <1>8 DEF About
<1>17. \A k \in Clients : TaskInv(k)' /\ ClientInv(k)' BY <1>10, <1>11, <1>13
<1>. QED BY <1>5, <1>14, <1>15, <1>16, <1>17, AboutStep

\* The object of a connection that is closed lets its Player go.
LEMMA ReleaseStep ==
    ASSUME Inv, NEW c \in Clients, proto[c].state \in {"closing", "closed"},
           NEW H \in SUBSET {<<"close", c>>}, QueueStep(H, {}),
           <<"login", c>> \notin Tasks, <<"close", c>> \notin Tasks',
           world' = Released(c), cast' = cast,
           NEW a \in ProtoSet, proto' = [proto EXCEPT ![c] = a],
           \/ proto[c].event = "none" /\ a = Free
           \/ /\ a.state = "closed" /\ a.who = proto[c].who
              /\ a.player = proto[c].player /\ a.event = proto[c].event
    PROVE  Inv'
<1>0. PICK n : n = proto[c].who OBVIOUS
<1>. USE <1>0
<1>1. Types /\ QueueOK BY TypesOf
<1>2. TaskInv(c) /\ ClientInv(c) BY DEF Inv
<1>3. n \in Names BY <1>2 DEF ClientInv
<1>4. /\ Free.state = "free" /\ Free.player = None /\ Free.event = "none"
  BY DEF Free
<1>5. /\ proto' \in [Clients -> ProtoSet]
      /\ \A k \in Clients \ {c} : proto'[k] = proto[k]
      /\ proto'[c] = a
  BY <1>1 DEF Types
<1>6. /\ a.state # "open" /\ a.state # "closing" /\ a.event = proto[c].event
      /\ a.state = "free" => a.event = "none" /\ a.player = None
      /\ a.state # "free" => a.who = n /\ a.player = proto[c].player
      /\ a.event # "none" => a.who = n
  BY <1>4
<1>7. /\ world' \in [Names -> {None} \cup PlayerSet]
      /\ \A m \in Names : (Inside(m)' <=> Inside(m))
                          /\ (~Inside(m) \/ world[m].client # c => world'[m] = world[m])
      /\ Inside(n) /\ world[n].client = c =>
             world'[n].client = None /\ world'[n].connecting = world[n].connecting
  <2>1. ASSUME NEW m \in Names, Inside(m), world[m].client = c
        PROVE  /\ world'[m] \in PlayerSet /\ world'[m].client = None
               /\ world'[m].connecting = world[m].connecting
    <3>1. world[m] \in PlayerSet BY <2>1, PlayersOf
    <3>2. world'[m] = [world[m] EXCEPT !.client = None]
      BY <2>1 DEF Released, Inside
    <3>. QED BY <3>1, <3>2 DEF PlayerSet
  <2>2. ASSUME NEW m \in Names, ~(Inside(m) /\ world[m].client = c)
        PROVE  world'[m] = world[m]
    BY <2>2 DEF Released, Inside
  <2>3. \A m \in Names : world'[m] \in {None} \cup PlayerSet
    BY <1>1, <2>1, <2>2 DEF Types
  <2>4. world' = [m \in Names |-> world'[m]] BY DEF Released
  <2>5. world' \in [Names -> {None} \cup PlayerSet] BY <2>3, <2>4
  <2>6. \A m \in Names : Inside(m)' <=> Inside(m)
    BY <2>1, <2>2, NoneIsNoClient DEF Inside
  <2>. QED BY <1>3, <2>1, <2>2, <2>5, <2>6
<1>8. \A m \in Names \ {n} : world'[m] = world[m]
  <2>1. \A m \in Names : Inside(m) /\ world[m].client = c => m = n BY ClientOf
  <2>. QED BY <1>7, <2>1
<1>9. \A k \in Clients \ {c} : Quiet(k, H, {}) BY <1>5 DEF Quiet
<1>10. TaskInv(c)'
  <2>1. Tasks' \subseteq Tasks BY DEF QueueStep
  <2>2. <<"connect", c>> \in Tasks' => a.event \in {"queued", "stale_queued"}
    BY <1>2, <1>6, <2>1 DEF TaskInv
  <2>3. <<"login", c>> \notin Tasks' BY <2>1
  <2>. QED BY <1>5, <1>6, <2>2, <2>3 DEF TaskInv
<1>11. ClientInv(c)'
  <2>1. a.player = "inside" => Inside(a.who)'
    BY <1>2, <1>3, <1>6, <1>7, NoneIsNoClient DEF ClientInv
  <2>. QED BY <1>3, <1>5, <1>6, <2>1 DEF ClientInv
<1>12. ASSUME NEW k \in Clients \ {c} PROVE TaskInv(k)' /\ ClientInv(k)'
  <2>1. TaskInv(k)' BY <1>9, QuietTasks
  <2>2. ClientInv(k) BY DEF Inv
  <2>3. proto[k].player = "inside" => proto[k].who \in Names
    BY <2>2, NoneIsNoClient DEF ClientInv
  <2>4. proto[k].player = "inside" => Inside(proto[k].who)'
    BY <1>7, <2>2, <2>3 DEF ClientInv
  <2>5. ASSUME proto[k].state = "open", proto[k].player = "inside"
        PROVE  world'[proto[k].who].client = k
    <3>1. world[proto[k].who].client = k BY <2>2, <2>5 DEF ClientInv
    <3>. QED BY <1>7, <2>3, <2>5, <3>1
  <2>. QED BY <1>5, <2>1, <2>2, <2>4, <2>5 DEF ClientInv
<1>13. PlayerInv(n)'
  <2>1. CASE Inside(n) /\ world[n].client = c
    <3>1. PlayerInv(n) BY <1>3 DEF Inv
    <3>2. PICK x : x = world[n].connecting OBVIOUS
    <3>3. x # None => proto[x].who = n /\ proto[x].event \in {"armed", "queued"}
      BY <2>1, <3>1, <3>2 DEF PlayerInv
    <3>4. x \in Clients \cup {None} BY <1>3, <2>1, <3>2, PlayersOf
    <3>5. world'[n].client = None /\ world'[n].connecting = x BY <1>7, <2>1, <3>2
    <3>6. x # None => proto'[x].who = n /\ proto'[x].event \in {"armed", "queued"}
      <4>1. CASE x = c BY <1>5, <1>6, <3>3, <4>1
      <4>2. CASE x # c BY <1>5, <3>3, <3>4, <4>2
      <4>. QED BY <4>1, <4>2
    <3>. QED BY <3>5, <3>6 DEF PlayerInv
  <2>2. CASE ~(Inside(n) /\ world[n].client = c)
    <3>1. ASSUME Inside(n), world[n].client # None
          PROVE  Held(world[n].client) /\ <<"close", world[n].client>> \notin H
      <4>1. world[n].client \in Clients \ {c} BY <1>3, <2>2, <3>1, PlayersOf
      <4>. QED BY <1>9, <4>1 DEF Quiet, Held
    <3>2. ASSUME Inside(n), world[n].connecting # None
          PROVE  /\ Awaited(world[n].connecting)
                 /\ <<"connect", world[n].connecting>> \notin {}
      <4>1. world[n].connecting \in Clients BY <1>3, <3>2, PlayersOf
      <4>2. CASE world[n].connecting = c
        <5>1. proto[c].event \in {"armed", "queued"}
          BY <1>3, <3>2, <4>2 DEF Inv, PlayerInv
        <5>. QED BY <1>5, <1>6, <4>2, <5>1 DEF Awaited
      <4>3. CASE world[n].connecting # c BY <1>5, <4>1, <4>3 DEF Awaited
      <4>. QED BY <4>2, <4>3
    <3>3. world'[n] = world[n] BY <1>3, <1>7, <2>2
    <3>4. PICK N : N = {} OBVIOUS
    <3>5. QueueStep(H, N) BY <3>4
    <3>6. Inside(n) /\ world[n].connecting # None =>
              Awaited(world[n].connecting) /\ <<"connect", world[n].connecting>> \notin N
      BY <3>2, <3>4
    <3>. QED BY <1>3, <3>1, <3>3, <3>5, <3>6, PlayerKept
  <2>. QED BY <2>1, <2>2
<1>14. Types' BY <1>1, <1>5, <1>7 DEF Types
<1>15. About(n, H, {}) BY <1>8, <1>9 DEF About
<1>16. \A k \in Clients : TaskInv(k)' /\ ClientInv(k)' BY <1>10, <1>11, <1>12
<1>. QED BY <1>3, <1>13, <1>14, <1>15, <1>16, AboutStep

\* The task that Connection::close() posted.
LEMMA CloseConnectionStep ==
    ASSUME Inv, NEW c \in Clients, CloseConnection(c)
    PROVE  Inv'
<1>. DEFINE H == {<<"close", c>>}
            a == IF proto[c].event = "none" THEN Free
                 ELSE [proto[c] EXCEPT !.state = "closed"]
<1>1. Types /\ QueueOK BY TypesOf
<1>2. Running("close", c) BY DEF CloseConnection
<1>3. queue # <<>> /\ Head(queue) = <<"close", c>> /\ <<"close", c>> \in Tasks
  BY <1>2, HeadTask
<1>4. TaskInv(c) BY DEF Inv
<1>5. proto[c].state = "closing" BY <1>3, <1>4 DEF TaskInv
<1>6. <<"login", c>> \notin Tasks
  <2>1. SUFFICES ASSUME Before(<<"login", c>>, <<"close", c>>) PROVE FALSE
    BY <1>3, <1>4 DEF TaskInv
  <2>. QED BY <1>1, <1>3, <2>1, PrecedesHead DEF Before, QueueOK
<1>7. queue' = Tail(queue)
  <2>1. Tail(queue) \in Seq(Task) BY <1>1, <1>3, HeadTailProperties DEF QueueOK
  <2>2. queue' = Tail(queue) \o <<>> BY DEF CloseConnection, Do
  <2>. QED BY <2>1, <2>2, BehindLemma, EmptySeq
<1>8. QueueStep(H, {}) BY <1>1, <1>3, <1>7, Execute
<1>9. <<"close", c>> \notin Tasks' BY <1>8 DEF QueueStep
<1>10. proto[c] \in ProtoSet BY <1>1 DEF Types
<1>11. /\ world' = Released(c) /\ cast' = cast
       /\ proto' = [proto EXCEPT ![c] = a]
  BY DEF CloseConnection, Do
<1>12. [proto[c] EXCEPT !.state = "closed"] \in ProtoSet BY <1>10 DEF ProtoSet
<1>13. Free \in ProtoSet BY DEF Free, ProtoSet, Events
<1>14. a \in ProtoSet BY <1>12, <1>13
<1>15. \/ proto[c].event = "none" /\ a = Free
       \/ /\ a.state = "closed" /\ a.who = proto[c].who
          /\ a.player = proto[c].player /\ a.event = proto[c].event
  BY <1>10 DEF ProtoSet
<1>16. H \in SUBSET {<<"close", c>>} OBVIOUS
<1>. HIDE DEF H, a
<1>. QED BY <1>5, <1>6, <1>8, <1>9, <1>11, <1>14, <1>15, <1>16, ReleaseStep

\* The retry of releaseProtocol when the last reference is gone.
LEMMA RetryReleaseStep ==
    ASSUME Inv, NEW c \in Clients, RetryRelease(c)
    PROVE  Inv'
<1>. DEFINE H == {}
<1>1. Types /\ QueueOK BY TypesOf
<1>2. proto[c].state = "closed" /\ proto[c].event = "none"
  BY DEF RetryRelease, RetryDue
<1>3. /\ world' = Released(c) /\ cast' = cast /\ queue' = queue
      /\ proto' = [proto EXCEPT ![c] = Free]
  BY DEF RetryRelease
<1>4. TaskInv(c) BY DEF Inv
<1>5. <<"login", c>> \notin Tasks /\ <<"close", c>> \notin Tasks
  BY <1>2, <1>4 DEF TaskInv
<1>6. QueueStep(H, {}) BY <1>1, <1>3, SameQueue
<1>7. <<"close", c>> \notin Tasks' BY <1>3, <1>5 DEF Tasks
<1>8. Free \in ProtoSet BY DEF Free, ProtoSet, Events
<1>9. H \in SUBSET {<<"close", c>>} OBVIOUS
<1>. HIDE DEF H
<1>. QED BY <1>2, <1>3, <1>5, <1>6, <1>7, <1>8, <1>9, ReleaseStep

-------------------------------------------------------------------------------
(* Steps by which a character leaves the world. *)

\* The protocols q are those before the step, but for clients of n that a step with
\* the tasks H and N closes.
Closed(q, n, H, N) ==
    /\ q \in [Clients -> ProtoSet]
    /\ \A k \in Clients :
           /\ q[k].who = proto[k].who /\ q[k].player = proto[k].player
           /\ q[k].event = proto[k].event
           /\ <<"login", k>> \notin N /\ <<"connect", k>> \notin N
           /\ <<"close", k>> \notin H
           /\ <<"close", k>> \in N => proto[k].state = "open" /\ q[k].state = "closing"
           /\ <<"close", k>> \notin N => q[k].state = proto[k].state
           /\ proto[k].who # n => \A t \in H \cup N : t[2] # k

\* Those who hold its Player hold one that is not in the world; at most a client
\* of it is closed.
LEMMA LeaveStep ==
    ASSUME Inv, NEW n \in Names, NEW H, NEW N, QueueStep(H, N),
           world' = [world EXCEPT ![n] = None], cast' = cast,
           NEW q, Closed(q, n, H, N), proto' = LeftBehind(q, n)
    PROVE  Inv'
<1>0. /\ q \in [Clients -> ProtoSet]
      /\ \A k \in Clients :
            /\ q[k].who = proto[k].who /\ q[k].player = proto[k].player
            /\ q[k].event = proto[k].event
            /\ <<"login", k>> \notin N /\ <<"connect", k>> \notin N
            /\ <<"close", k>> \notin H
            /\ <<"close", k>> \in N => proto[k].state = "open" /\ q[k].state = "closing"
            /\ <<"close", k>> \notin N => q[k].state = proto[k].state
            /\ proto[k].who # n => \A t \in H \cup N : t[2] # k
  BY DEF Closed
<1>1. Types /\ QueueOK BY TypesOf
<1>2. /\ proto' \in [Clients -> ProtoSet]
      /\ \A k \in Clients :
            /\ proto'[k].state = q[k].state /\ proto'[k].who = proto[k].who
            /\ proto[k].who # n => proto'[k] = q[k]
            /\ proto[k].who = n =>
                   /\ proto'[k].player # "inside"
                   /\ proto[k].player = None => proto'[k].player = None
                   /\ proto[k].event = "none" => proto'[k].event = "none"
                   /\ proto[k].event \in {"queued", "stale_queued"} =>
                          proto'[k].event = "stale_queued"
  <2>1. /\ proto' \in [Clients -> ProtoSet]
        /\ \A k \in Clients :
              /\ proto'[k].state = q[k].state /\ proto'[k].who = q[k].who
              /\ q[k].who # n => proto'[k] = q[k]
              /\ q[k].who = n =>
                     /\ proto'[k].player # "inside"
                     /\ q[k].player = None => proto'[k].player = None
                     /\ q[k].event = "none" => proto'[k].event = "none"
                     /\ q[k].event \in {"queued", "stale_queued"} =>
                            proto'[k].event = "stale_queued"
    BY <1>0, LeftBehindFields
  <2>2. \A k \in Clients : /\ q[k].who = proto[k].who /\ q[k].player = proto[k].player
                           /\ q[k].event = proto[k].event
    BY <1>0
  <2>. QED BY <2>1, <2>2
<1>3. /\ world' \in [Names -> {None} \cup PlayerSet] /\ world'[n] = None
      /\ \A m \in Names \ {n} : world'[m] = world[m]
  BY <1>1 DEF Types
<1>4. ASSUME NEW k \in Clients, proto[k].who # n PROVE Quiet(k, H, N)
  <2>1. \A t \in H \cup N : t[2] # k BY <1>0, <1>4
  <2>2. <<"close", k>> \notin N BY <2>1
  <2>. QED BY <1>0, <1>2, <1>4, <2>1, <2>2 DEF Quiet
<1>5. ASSUME NEW k \in Clients
      PROVE  /\ proto[k].player = None => proto'[k].player = None
             /\ proto[k].event = "none" => proto'[k].event = "none"
             /\ proto[k].event \in {"queued", "stale_queued"} =>
                    proto'[k].event \in {"queued", "stale_queued"}
             /\ proto'[k].state = "free" <=> proto[k].state = "free"
  <2>1. proto'[k].state = "free" <=> proto[k].state = "free" BY <1>0, <1>2
  <2>2. CASE proto[k].who = n
    <3>1. /\ proto[k].player = None => proto'[k].player = None
          /\ proto[k].event = "none" => proto'[k].event = "none"
          /\ proto[k].event \in {"queued", "stale_queued"} =>
                 proto'[k].event = "stale_queued"
      BY ONLY <1>2, <1>5, <2>2
    <3>. QED BY ONLY <2>1, <3>1
  <2>3. CASE proto[k].who # n
    <3>1. proto'[k] = q[k] BY ONLY <1>2, <1>5, <2>3
    <3>2. q[k].player = proto[k].player /\ q[k].event = proto[k].event
      BY ONLY <1>0, <1>5
    <3>. QED BY ONLY <2>1, <3>1, <3>2
  <2>. QED BY ONLY <2>2, <2>3
<1>6. ASSUME NEW k \in Clients PROVE TaskInv(k)'
  <2>1. TaskInv(k) BY DEF Inv
  <2>2. <<"login", k>> \in Tasks \ H => proto'[k].player = None /\ proto'[k].event = "none"
    BY <1>5, <2>1 DEF TaskInv
  <2>3. <<"connect", k>> \in Tasks \ H => proto'[k].event \in {"queued", "stale_queued"}
    BY <1>5, <2>1 DEF TaskInv
  <2>4. /\ <<"close", k>> \in N => proto[k].state = "open" /\ proto'[k].state = "closing"
        /\ <<"close", k>> \notin N => proto'[k].state = proto[k].state
    BY <1>0, <1>2
  <2>. QED BY <1>0, <2>2, <2>3, <2>4, TaskStep
<1>7. ASSUME NEW k \in Clients, proto[k].state = "free" \/ proto[k].who = n
      PROVE  ClientInv(k)'
  <2>1. ClientInv(k) BY DEF Inv
  <2>2. proto'[k].player # "inside"
    BY <1>2, <1>5, <1>7, <2>1, NoneIsNoClient DEF ClientInv
  <2>3. /\ proto'[k].state = "free" => proto'[k].event = "none" /\ proto'[k].player = None
        /\ proto'[k].state # "free" => proto'[k].who \in Names
    BY <1>2, <1>5, <2>1 DEF ClientInv
  <2>. QED BY <2>2, <2>3 DEF ClientInv
<1>8. PlayerInv(n)' BY <1>3 DEF PlayerInv, Inside
<1>9. Types' BY <1>1, <1>2, <1>3 DEF Types
<1>10. About(n, H, N) BY <1>3, <1>4 DEF About
<1>. QED BY <1>6, <1>7, <1>8, <1>9, <1>10, AboutStep

\* The connection of c, a client of n, is closed if it is open.
LEMMA ClosedFields ==
    ASSUME Inv, NEW c \in Clients, NEW n, proto[c].who = n,
           NEW H, <<"close", c>> \notin H, \A t \in H : t[2] = c
    PROVE  Closed(Closing(proto, c), n, H, NewClose(c))
<1>1. proto \in [Clients -> ProtoSet] BY TypesOf DEF Types
<1>. DEFINE q == Closing(proto, c)
<1>2. /\ q \in [Clients -> ProtoSet]
      /\ \A k \in Clients \ {c} : q[k] = proto[k]
      /\ q[c].state = IF proto[c].state = "open" THEN "closing" ELSE proto[c].state
      /\ q[c].who = proto[c].who /\ q[c].player = proto[c].player
      /\ q[c].event = proto[c].event
  BY <1>1, ClosingFields
<1>. HIDE DEF q
<1>3. /\ \A t \in NewClose(c) : t[2] = c /\ t[1] = "close"
      /\ <<"close", c>> \in NewClose(c) <=> proto[c].state = "open"
  BY DEF NewClose
<1>4. ASSUME NEW k \in Clients
      PROVE  /\ q[k].who = proto[k].who /\ q[k].player = proto[k].player
             /\ q[k].event = proto[k].event
             /\ <<"login", k>> \notin NewClose(c) /\ <<"connect", k>> \notin NewClose(c)
             /\ <<"close", k>> \notin H
             /\ <<"close", k>> \in NewClose(c) =>
                    proto[k].state = "open" /\ q[k].state = "closing"
             /\ <<"close", k>> \notin NewClose(c) => q[k].state = proto[k].state
             /\ proto[k].who # n => \A t \in H \cup NewClose(c) : t[2] # k
  <2>1. CASE k = c BY <1>2, <1>3, <2>1
  <2>2. CASE k # c
    <3>1. q[k] = proto[k] BY <1>2, <2>2
    <3>2. \A t \in H \cup NewClose(c) : t[2] = c BY <1>3
    <3>3. \A t \in H \cup NewClose(c) : t[2] # k BY <2>2, <3>2
    <3>4. /\ <<"login", k>> \notin NewClose(c) /\ <<"connect", k>> \notin NewClose(c)
          /\ <<"close", k>> \notin H /\ <<"close", k>> \notin NewClose(c)
      BY <3>3
    <3>. QED BY <3>1, <3>3, <3>4
  <2>. QED BY <2>1, <2>2
<1>. QED BY <1>2, <1>4 DEF q, Closed

\* A player is kicked.
LEMMA KickStep ==
    ASSUME Inv, NEW n \in Names, Kick(n)
    PROVE  Inv'
<1>. DEFINE H == {}
<1>1. Types /\ QueueOK BY TypesOf
<1>2. /\ Inside(n) /\ world' = [world EXCEPT ![n] = None] /\ cast' = cast
  BY DEF Kick
<1>3. CASE world[n].client = None
  <2>. DEFINE N == {}
  <2>1. proto' = LeftBehind(proto, n) /\ queue' = queue BY <1>3 DEF Kick
  <2>2. QueueStep(H, N) BY <1>1, <2>1, SameQueue
  <2>3. proto \in [Clients -> ProtoSet] BY <1>1 DEF Types
  <2>4. Closed(proto, n, H, N) BY <2>3 DEF Closed
  <2>. HIDE DEF H, N
  <2>. QED BY <1>2, <2>1, <2>2, <2>3, <2>4, LeaveStep
<1>4. CASE world[n].client # None
  <2>0. PICK c : c = world[n].client OBVIOUS
  <2>1. c \in Clients BY <1>2, <1>4, <2>0, PlayersOf
  <2>2. proto[c].who = n BY <1>2, <2>0, <2>1, ClientOf
  <2>3. /\ proto' = LeftBehind(Closing(proto, c), n)
        /\ queue' = queue \o CloseTask(proto, c)
    BY <1>4, <2>0 DEF Kick
  <2>4. QueueStep(H, NewClose(c)) BY <2>1, <2>3, PostClose
  <2>5. <<"close", c>> \notin H /\ \A t \in H : t[2] = c OBVIOUS
  <2>. HIDE DEF H
  <2>6. Closed(Closing(proto, c), n, H, NewClose(c)) BY <2>1, <2>2, <2>5, ClosedFields
  <2>7. PICK q : q = Closing(proto, c) OBVIOUS
  <2>8. PICK N : N = NewClose(c) OBVIOUS
  <2>9. QueueStep(H, N) /\ proto' = LeftBehind(q, n) /\ Closed(q, n, H, N)
    BY <2>3, <2>4, <2>6, <2>7, <2>8
  <2>. QED BY <1>2, <2>9, LeaveStep
<1>. QED BY <1>3, <1>4

\* A player dies.
LEMMA DieStep ==
    ASSUME Inv, NEW n \in Names, Die(n)
    PROVE  Inv'
<1>. DEFINE H == {}
            N == {}
<1>1. Types /\ QueueOK BY TypesOf
<1>2. /\ world' = [world EXCEPT ![n] = None] /\ cast' = cast
      /\ proto' = LeftBehind(proto, n) /\ queue' = queue
  BY DEF Die
<1>3. QueueStep(H, N) BY <1>1, <1>2, SameQueue
<1>4. proto \in [Clients -> ProtoSet] BY <1>1 DEF Types
<1>5. Closed(proto, n, H, N) BY <1>4 DEF Closed
<1>. HIDE DEF H, N
<1>. QED BY <1>2, <1>3, <1>4, <1>5, LeaveStep

-------------------------------------------------------------------------------
(* Steps that change no Player. *)

\* A client is lost: it still holds its Player, and may be expected.
LEMMA LoseStep ==
    ASSUME Inv, NEW c \in Clients, Lose(c)
    PROVE  Inv'
<1>0. PICK n, H : n = proto[c].who /\ H = {} OBVIOUS
<1>. DEFINE N == NewClose(c)
<1>1. Types /\ QueueOK BY TypesOf
<1>2. /\ proto[c].state = "open" /\ proto' = Closing(proto, c)
      /\ queue' = queue \o CloseTask(proto, c) /\ world' = world /\ cast' = cast
  BY DEF Lose
<1>3. QueueStep(H, N) BY <1>0, <1>2, PostClose
<1>4. /\ proto' \in [Clients -> ProtoSet]
      /\ \A k \in Clients \ {c} : proto'[k] = proto[k]
      /\ proto'[c].state = "closing" /\ proto'[c].who = proto[c].who
      /\ proto'[c].player = proto[c].player /\ proto'[c].event = proto[c].event
  BY <1>1, <1>2, ClosingFields DEF Types
<1>5. N = {<<"close", c>>} BY <1>2 DEF NewClose
<1>. HIDE DEF N
<1>6. \A k \in Clients \ {c} : Quiet(k, H, N) BY <1>0, <1>4, <1>5 DEF Quiet
<1>7. TaskInv(c) /\ ClientInv(c) BY DEF Inv
<1>8. n \in Names BY <1>0, <1>2, <1>7 DEF ClientInv
<1>9. TaskInv(c)'
  <2>1. /\ <<"login", c>> \in Tasks \ H => proto'[c].player = None /\ proto'[c].event = "none"
        /\ <<"connect", c>> \in Tasks \ H => proto'[c].event \in {"queued", "stale_queued"}
    BY <1>4, <1>7 DEF TaskInv
  <2>2. /\ <<"login", c>> \notin N /\ <<"connect", c>> \notin N
        /\ <<"close", c>> \notin H /\ <<"close", c>> \in N
    BY <1>0, <1>5
  <2>. QED BY <1>2, <1>3, <1>4, <2>1, <2>2, TaskStep
<1>10. ClientInv(c)' BY <1>0, <1>2, <1>4, <1>7, <1>8 DEF ClientInv, Inside
<1>11. ASSUME NEW k \in Clients \ {c} PROVE TaskInv(k)' /\ ClientInv(k)'
  <2>1. TaskInv(k)' BY <1>3, <1>6, QuietTasks
  <2>2. ClientInv(k) BY DEF Inv
  <2>. QED BY <1>2, <1>4, <2>1, <2>2 DEF ClientInv, Inside
<1>12. ASSUME NEW k \in Clients
       PROVE  /\ Held(k) /\ Awaited(k)
              /\ <<"close", k>> \notin H /\ <<"connect", k>> \notin N
  <2>1. <<"close", k>> \notin H /\ <<"connect", k>> \notin N BY <1>0, <1>5
  <2>2. CASE k = c BY <1>2, <1>4, <2>1, <2>2 DEF Held, Awaited
  <2>3. CASE k # c BY <1>4, <2>1, <2>3 DEF Held, Awaited
  <2>. QED BY <2>2, <2>3
<1>13. ASSUME NEW m \in Names PROVE PlayerInv(m)'
  <2>1. /\ Inside(m) /\ world[m].client # None =>
               Held(world[m].client) /\ <<"close", world[m].client>> \notin H
        /\ Inside(m) /\ world[m].connecting # None =>
               Awaited(world[m].connecting) /\ <<"connect", world[m].connecting>> \notin N
    BY <1>12, PlayersOf
  <2>. QED BY <1>2, <1>3, <2>1, PlayerKept
<1>14. Types' BY <1>1, <1>2, <1>4 DEF Types
<1>15. About(n, H, N) BY <1>2, <1>3, <1>6, <1>0 DEF About
<1>16. \A k \in Clients : TaskInv(k)' /\ ClientInv(k)' BY <1>9, <1>10, <1>11
<1>. QED BY <1>8, <1>13, <1>14, <1>15, <1>16, AboutStep

\* A logout is asked for, or is forbidden.
LEMMA LogoutTaskStep ==
    ASSUME Inv, NEW H, NEW N, QueueStep(H, N), UNCHANGED <<world, proto, cast>>,
           \A t \in H \cup N : t[1] = "logout"
    PROVE  Inv'
<1>1. Types BY TypesOf
<1>2. \A k : /\ <<"login", k>> \notin N /\ <<"connect", k>> \notin N
             /\ <<"close", k>> \notin H /\ <<"close", k>> \notin N
  OBVIOUS
<1>3. ASSUME NEW k \in Clients PROVE TaskInv(k)' /\ ClientInv(k)'
  <2>1. TaskInv(k) /\ ClientInv(k) BY DEF Inv
  <2>2. /\ <<"login", k>> \in Tasks \ H => proto'[k].player = None /\ proto'[k].event = "none"
        /\ <<"connect", k>> \in Tasks \ H => proto'[k].event \in {"queued", "stale_queued"}
    BY <2>1 DEF TaskInv
  <2>3. proto'[k].state = proto[k].state OBVIOUS
  <2>4. TaskInv(k)' BY <1>2, <2>2, <2>3, TaskStep
  <2>5. ClientInv(k)' BY <2>1 DEF ClientInv, Inside
  <2>. QED BY <2>4, <2>5
<1>4. \A k : Held(k) /\ Awaited(k) BY DEF Held, Awaited
<1>5. ASSUME NEW m \in Names PROVE PlayerInv(m)'
  <2>1. world'[m] = world[m] OBVIOUS
  <2>. QED BY <1>2, <1>4, <2>1, PlayerKept
<1>6. Types' BY <1>1 DEF Types
<1>7. QueueOK' BY DEF QueueStep, QueueOK
<1>8. TypeOK' BY <1>6, <1>7 DEF TypeOK, Types, QueueOK, ProtoSet, PlayerSet, Task
<1>. QED BY <1>3, <1>5, <1>7, <1>8 DEF Inv, QueueOK

\* ProtocolGame::parseLogout.
LEMMA AskLogoutStep ==
    ASSUME Inv, NEW c \in Clients, AskLogout(c)
    PROVE  Inv'
<1>0. PICK H, N : H = {} /\ N = {<<"logout", c>>} OBVIOUS
<1>1. Types /\ QueueOK BY TypesOf
<1>2. /\ <<"logout", c>> \notin ToSet(queue) /\ queue' = Append(queue, <<"logout", c>>)
      /\ UNCHANGED <<world, proto, cast>>
  BY DEF AskLogout
<1>3. <<"logout", c>> \notin Tasks BY <1>2 DEF Tasks, ToSet, Range
<1>4. <<"logout", c>> \in Task BY DEF Task
<1>5. QueueStep(H, N) BY <1>0, <1>1, <1>2, <1>3, <1>4, Post
<1>6. \A t \in H \cup N : t[1] = "logout" BY <1>0
<1>. QED BY <1>2, <1>5, <1>6, LogoutTaskStep

\* ProtocolGame::logout: forbidden; or he leaves the world; or he did before.
LEMMA LogoutStep ==
    ASSUME Inv, NEW c \in Clients, Logout(c)
    PROVE  Inv'
<1>0. PICK n, H : n = proto[c].who /\ H = {<<"logout", c>>} OBVIOUS
<1>1. Types /\ QueueOK BY TypesOf
<1>2. Running("logout", c) BY DEF Logout
<1>3. queue # <<>> /\ Head(queue) = <<"logout", c>> BY <1>2, HeadTask
<1>4. TaskInv(c) /\ ClientInv(c) BY DEF Inv
<1>5. CASE Do(proto, <<>>) /\ UNCHANGED world
  <2>1. queue' = Tail(queue) \o <<>> /\ UNCHANGED <<world, proto, cast>> BY <1>5 DEF Do
  <2>2. queue' = Tail(queue)
    <3>1. Tail(queue) \in Seq(Task) BY <1>1, <1>3, HeadTailProperties DEF QueueOK
    <3>. QED BY <2>1, <3>1, BehindLemma, EmptySeq
  <2>3. PICK N : N = {} OBVIOUS
  <2>4. QueueStep(H, N) BY <1>0, <1>1, <1>3, <2>2, <2>3, Execute
  <2>5. \A t \in H \cup N : t[1] = "logout" BY <1>0, <2>3
  <2>. QED BY <2>1, <2>4, <2>5, LogoutTaskStep
<1>6. CASE /\ proto[c].player = "inside"
           /\ world' = [world EXCEPT ![proto[c].who] = None]
           /\ Do(LeftBehind(Closing(proto, c), proto[c].who), CloseTask(proto, c))
  <2>1. /\ world' = [world EXCEPT ![n] = None] /\ cast' = cast
        /\ proto' = LeftBehind(Closing(proto, c), n)
        /\ queue' = Tail(queue) \o CloseTask(proto, c)
    BY <1>0, <1>6 DEF Do
  <2>2. n \in Names BY <1>0, <1>4, <1>6, NoneIsNoClient DEF ClientInv
  <2>3. QueueStep(H, NewClose(c)) BY <1>0, <1>3, <2>1, ExecuteAndClose
  <2>4. <<"close", c>> \notin H /\ \A t \in H : t[2] = c BY <1>0
  <2>5. Closed(Closing(proto, c), n, H, NewClose(c)) BY <1>0, <2>4, ClosedFields
  <2>6. PICK q : q = Closing(proto, c) OBVIOUS
  <2>7. PICK N : N = NewClose(c) OBVIOUS
  <2>8. QueueStep(H, N) /\ proto' = LeftBehind(q, n) /\ Closed(q, n, H, N)
    BY <2>1, <2>3, <2>5, <2>6, <2>7
  <2>. QED BY <2>1, <2>2, <2>8, LeaveStep
<1>7. CASE proto[c].player = "outside" /\ CloseClient(proto, c) /\ UNCHANGED world
  <2>1. /\ proto' = Closing(proto, c) /\ queue' = Tail(queue) \o CloseTask(proto, c)
        /\ UNCHANGED <<world, cast>>
    BY <1>7 DEF CloseClient, Do
  <2>2. proto[c].player # "inside" /\ proto[c].player # None BY <1>7, NoneIsNoClient
  <2>3. proto[c].state # "free" /\ <<"login", c>> \notin Tasks
    BY <1>4, <2>2 DEF ClientInv, TaskInv
  <2>4. ASSUME NEW m \in Names, Inside(m) PROVE world[m].client # c
    <3>1. PlayerInv(m) /\ c # None BY NoneIsNoClient DEF Inv
    <3>. QED BY <2>2, <2>4, <3>1 DEF PlayerInv
  <2>5. proto \in [Clients -> ProtoSet] BY <1>1 DEF Types
  <2>. QED BY <1>2, <2>1, <2>2, <2>3, <2>4, <2>5, EndStep
<1>. QED BY <1>5, <1>6, <1>7 DEF Logout

\* Only the waiting list changes, if anything.
LEMMA IdleStep ==
    ASSUME Inv, UNCHANGED <<world, proto, queue, cast>>
    PROVE  Inv'
<1>1. PICK H, N : H = {} /\ N = {} OBVIOUS
<1>2. QueueOK BY TypesOf
<1>3. QueueStep(H, N) BY <1>1, <1>2, SameQueue
<1>4. \A t \in H \cup N : t[1] = "logout" BY <1>1
<1>. QED BY <1>3, <1>4, LogoutTaskStep

-------------------------------------------------------------------------------
(* The theorems. *)

\* A login takes over a character that somebody plays, or is refused.
LEMMA LoginReplacesStep ==
    ASSUME Inv, NEW c \in Clients, LoginReplaces(c)
    PROVE  Inv'
<1>1. /\ Running("login", c) /\ Inside(proto[c].who)
      /\ world[proto[c].who].client # None
      /\ IF ReplaceKick THEN TakeOver(c, world[proto[c].who].client, proto[c].who)
         ELSE CloseClient(proto, c) /\ UNCHANGED world
  BY DEF LoginReplaces
<1>2. CASE ReplaceKick BY <1>1, <1>2, TakeOverStep
<1>3. CASE ~ReplaceKick
  <2>1. /\ proto' = Closing(proto, c) /\ queue' = Tail(queue) \o CloseTask(proto, c)
        /\ UNCHANGED <<world, cast>>
    BY <1>1, <1>3 DEF CloseClient, Do
  <2>2. /\ proto[c].state # "free" /\ <<"connect", c>> \notin Tasks
        /\ \A m \in Names : Inside(m) => world[m].client # c
    BY <1>1, AtLogin
  <2>3. proto \in [Clients -> ProtoSet] BY TypesOf DEF Types
  <2>. QED BY <1>1, <2>1, <2>2, <2>3, EndStep
<1>. QED BY <1>2, <1>3

\* A login of a character that is not in the world.
LEMMA LoginStep ==
    ASSUME Inv, NEW c \in Clients, LoginRefused(c) \/ LoginWaits(c) \/ LoginAccepted(c)
    PROVE  Inv'
<1>1. Running("login", c) /\ ~Inside(proto[c].who)
  BY DEF LoginRefused, LoginWaits, LoginAccepted
<1>2. \/ CloseClient(New(c), c) /\ UNCHANGED world
      \/ CloseClient([New(c) EXCEPT ![c].accept = TRUE], c) /\ UNCHANGED world
      \/ /\ world' = [world EXCEPT ![proto[c].who] = [client |-> c, connecting |-> None]]
         /\ Do([proto EXCEPT ![c].player = "inside", ![c].accept = TRUE], <<>>)
  BY DEF LoginRefused, LoginWaits, LoginAccepted
<1>3. CASE \E pr \in {New(c), [New(c) EXCEPT ![c].accept = TRUE]} :
               CloseClient(pr, c) /\ UNCHANGED world
  BY <1>1, <1>3, LoginEndsStep
<1>4. CASE /\ world' = [world EXCEPT ![proto[c].who] = [client |-> c, connecting |-> None]]
           /\ Do([proto EXCEPT ![c].player = "inside", ![c].accept = TRUE], <<>>)
  BY <1>1, <1>4, EnterStep
<1>. QED BY <1>2, <1>3, <1>4

\* It holds before the first client connects.
LEMMA InvInit == Init => Inv
<1>. SUFFICES ASSUME Init PROVE Inv OBVIOUS
<1>1. /\ world = [n \in Names |-> None] /\ proto = [c \in Clients |-> Free]
      /\ queue = <<>> /\ cast \in Casts
  BY DEF Init
<1>2. Free \in ProtoSet BY DEF Free, ProtoSet, Events
<1>3. Tasks = {} /\ IsInjective(queue) BY <1>1 DEF Tasks, Range, IsInjective
<1>4. TypeOK
  <2>1. queue \in Seq(Task) BY <1>1
  <2>2. world \in [Names -> {None} \cup PlayerSet] BY <1>1
  <2>3. proto \in [Clients -> ProtoSet] BY <1>1, <1>2
  <2>. QED BY <1>1, <2>1, <2>2, <2>3 DEF TypeOK, ProtoSet, PlayerSet, Task
<1>5. ASSUME NEW c \in Clients PROVE TaskInv(c) /\ ClientInv(c)
  BY <1>1, <1>3, NoneIsNoClient DEF TaskInv, ClientInv, Free
<1>6. \A n \in Names : PlayerInv(n) BY <1>1 DEF PlayerInv, Inside
<1>. QED BY <1>3, <1>4, <1>5, <1>6 DEF Inv

\* Every step preserves the invariant.
LEMMA InvNext == Inv /\ [Next]_vars => Inv'
<1>. SUFFICES ASSUME Inv, [Next]_vars PROVE Inv' OBVIOUS
<1>1. ASSUME NEW c \in Clients, NEW n \in Names, FirstPacket(c, n) PROVE Inv'
  BY <1>1, FirstPacketStep
<1>2. ASSUME NEW c \in Clients,
             LoginRefused(c) \/ LoginWaits(c) \/ LoginAccepted(c)
      PROVE  Inv'
  BY <1>2, LoginStep
<1>3. ASSUME NEW c \in Clients, LoginReplaces(c) PROVE Inv'
  BY <1>3, LoginReplacesStep
<1>4. ASSUME NEW c \in Clients, LoginAttaches(c) PROVE Inv'
  BY <1>4, AttachStep DEF LoginAttaches
<1>5. ASSUME NEW c \in Clients, Connect(c) PROVE Inv'
  BY <1>5, AttachStep DEF Connect
<1>6. ASSUME NEW c \in Clients, CloseConnection(c) PROVE Inv'
  BY <1>6, CloseConnectionStep
<1>7. ASSUME NEW c \in Clients, Logout(c) PROVE Inv' BY <1>7, LogoutStep
<1>8. ASSUME NEW c \in Clients, Second(c) PROVE Inv' BY <1>8, SecondStep
<1>9. ASSUME NEW c \in Clients, Lose(c) PROVE Inv' BY <1>9, LoseStep
<1>10. ASSUME NEW c \in Clients, RetryRelease(c) PROVE Inv'
  BY <1>10, RetryReleaseStep
<1>11. ASSUME NEW c \in Clients, AskLogout(c) PROVE Inv' BY <1>11, AskLogoutStep
<1>12. ASSUME NEW n \in Names, Kick(n) \/ PongTimeout(n) PROVE Inv'
  BY <1>12, KickStep DEF PongTimeout
<1>13. ASSUME NEW n \in Names, Die(n) PROVE Inv' BY <1>13, DieStep
<1>14. ASSUME NEW i \in DOMAIN waitList, Late(i) PROVE Inv'
  BY <1>14, IdleStep DEF Late
<1>15. CASE UNCHANGED vars BY <1>15, IdleStep DEF vars
<1>. QED BY <1>1, <1>2, <1>3, <1>4, <1>5, <1>6, <1>7, <1>8, <1>9, <1>10, <1>11,
            <1>12, <1>13, <1>14, <1>15 DEF Next, Dispatch

\* Clients, characters and the tasks about them agree in every state.
THEOREM Invariant == Spec => []Inv
BY InvInit, InvNext, PTL DEF Spec

\* A character that is played has one client that commands it, which exists and
\* holds it; who is waited for is expected (login, connect, releaseProtocol).
THEOREM ClientsAndPlayersAgree == Spec => []SessionsAgree
<1>1. Inv => SessionsAgree
  <2>. SUFFICES ASSUME Inv PROVE SessionsAgree OBVIOUS
  <2>1. OneCommander BY DEF Inv, ClientInv, OneCommander
  <2>2. ConnectingIsExpected BY DEF Inv, PlayerInv, ConnectingIsExpected
  <2>3. ClientsExist BY DEF Inv, PlayerInv, ClientsExist
  <2>. QED BY <2>1, <2>2, <2>3 DEF SessionsAgree, Inv
<1>. QED BY <1>1, Invariant, PTL

-------------------------------------------------------------------------------
(* The world's limit. *)

\* Who is found in a list has a place in it.
LEMMA PlaceType == ASSUME NEW list, NEW n PROVE Place(list, n) \in Nat
<1>. DEFINE I == {i \in 1..Len(list) : list[i].who = n}
<1>1. Place(list, n) = IF I # {} THEN Min(I) ELSE 0 BY DEF Place, SelectInSeq
<1>2. I \subseteq Nat OBVIOUS
<1>. HIDE DEF I
<1>3. CASE I # {}
  <2>1. IsWellFoundedOn(OpToRel(<, Nat), Nat) BY NatLessThanWellFounded
  <2>2. PICK x \in I : \A y \in I : <<y, x>> \notin OpToRel(<, Nat)
    BY <1>2, <1>3, <2>1, WFMin
  <2>3. ASSUME NEW y \in I PROVE x =< y
    <3>1. x \in Nat /\ y \in Nat BY <1>2
    <3>2. <<y, x>> \in Nat \X Nat /\ <<y, x>>[1] = y /\ <<y, x>>[2] = x BY <3>1
    <3>3. ~(<<y, x>>[1] < <<y, x>>[2]) BY <2>2, <3>2 DEF OpToRel
    <3>. QED BY <3>1, <3>2, <3>3
  <2>4. Min(I) \in I BY <2>3 DEF Min
  <2>. QED BY <1>1, <1>2, <1>3, <2>4
<1>. QED BY <1>1, <1>3

\* Who is let in finds the world below its limit.
LEMMA AdmitBelowLimit ==
    ASSUME Online \in Nat, NEW list, NEW n, WaitingLogin(list, n).admit
    PROVE  Online < MaxPlayers
<1>. DEFINE kept == SelectSeq(list, LAMBDA w : ~w.late)
            slot == Place(kept, n)
<1>1. MaxPlayers \in Nat BY SessionsAssumption
<1>2. slot \in Nat BY PlaceType
<1>3. WaitingLogin(list, n) =
          IF list = <<>> /\ Online < MaxPlayers THEN [list |-> list, admit |-> TRUE]
          ELSE IF slot = 0 THEN [list |-> Enlist(kept, n), admit |-> FALSE]
          ELSE IF Online + slot > MaxPlayers
               THEN [list |-> [kept EXCEPT ![slot].late = FALSE], admit |-> FALSE]
               ELSE [list |-> RemoveAt(kept, slot), admit |-> TRUE]
  BY DEF WaitingLogin
<1>. HIDE DEF slot, kept
<1>4. Online < MaxPlayers \/ (slot # 0 /\ ~(Online + slot > MaxPlayers)) BY <1>3
<1>. QED BY <1>1, <1>2, <1>4

OnlineSet == {n \in Names : Inside(n)}

\* There are finitely many players in the world.
LEMMA OnlineType == IsFiniteSet(OnlineSet) /\ Online \in Nat /\ Online = Cardinality(OnlineSet)
<1>1. IsFiniteSet(Names) /\ OnlineSet \in SUBSET Names
  BY SessionsAssumption DEF OnlineSet
<1>2. IsFiniteSet(OnlineSet) BY <1>1, FS_Subset
<1>3. Online = Cardinality(OnlineSet) BY DEF Online, OnlineSet
<1>. QED BY <1>2, <1>3, FS_CardinalityType

\* A step that brings nobody into the world keeps to its limit.
LEMMA NobodyEnters ==
    ASSUME NeverOverfull, \A n \in Names : Inside(n)' => Inside(n)
    PROVE  NeverOverfull'
<1>1. OnlineSet' \in SUBSET OnlineSet BY DEF OnlineSet
<1>2. IsFiniteSet(OnlineSet) /\ Online = Cardinality(OnlineSet) /\ Online \in Nat
  BY OnlineType
<1>3. Cardinality(OnlineSet') <= Cardinality(OnlineSet) /\ IsFiniteSet(OnlineSet')
  BY <1>1, <1>2, FS_Subset
<1>4. Online' = Cardinality(OnlineSet') BY DEF Online, OnlineSet
<1>5. Online' \in Nat BY <1>3, <1>4, FS_CardinalityType
<1>6. MaxPlayers \in Nat BY SessionsAssumption
<1>. QED BY <1>2, <1>3, <1>4, <1>5, <1>6 DEF NeverOverfull

\* A player who is let in.
LEMMA EnterBelowLimit ==
    ASSUME Inv, NeverOverfull, NEW c \in Clients, LoginAccepted(c)
    PROVE  NeverOverfull'
<1>1. CASE UNCHANGED world BY <1>1, NobodyEnters DEF Inside
<1>2. CASE world' = [world EXCEPT ![proto[c].who] = [client |-> c, connecting |-> None]]
  <2>1. PICK n : n = proto[c].who OBVIOUS
  <2>2. Online \in Nat /\ IsFiniteSet(OnlineSet) /\ Online = Cardinality(OnlineSet)
    BY OnlineType
  <2>3. WaitingLogin(waitList, n).admit /\ ~Inside(n) BY <2>1 DEF LoginAccepted
  <2>4. Online < MaxPlayers BY <2>2, <2>3, AdmitBelowLimit
  <2>5. world \in [Names -> {None} \cup PlayerSet] BY TypesOf DEF Types
  <2>6. \A m \in Names \ {n} : world'[m] = world[m] BY <1>2, <2>1, <2>5
  <2>7. OnlineSet' \in SUBSET (OnlineSet \cup {n}) BY <2>6 DEF OnlineSet, Inside
  <2>8. /\ IsFiniteSet(OnlineSet \cup {n})
        /\ Cardinality(OnlineSet \cup {n}) <= Cardinality(OnlineSet) + 1
        /\ Cardinality(OnlineSet \cup {n}) \in Nat
    <3>1. /\ IsFiniteSet(OnlineSet \cup {n})
          /\ Cardinality(OnlineSet \cup {n}) =
                 IF n \in OnlineSet THEN Cardinality(OnlineSet) ELSE Cardinality(OnlineSet) + 1
      BY <2>2, FS_AddElement
    <3>. QED BY <2>2, <3>1
  <2>9. Cardinality(OnlineSet') <= Cardinality(OnlineSet \cup {n}) /\ IsFiniteSet(OnlineSet')
    BY <2>7, <2>8, FS_Subset
  <2>10. Online' = Cardinality(OnlineSet') BY DEF Online, OnlineSet
  <2>11. Online' \in Nat BY <2>9, <2>10, FS_CardinalityType
  <2>12. MaxPlayers \in Nat BY SessionsAssumption
  <2>. QED BY <2>2, <2>4, <2>8, <2>9, <2>10, <2>11, <2>12 DEF NeverOverfull
<1>. QED BY <1>1, <1>2 DEF LoginAccepted

\* Who commands a Player brings nobody into the world.
LEMMA AttachEnters ==
    ASSUME Inv, NeverOverfull, NEW c \in Clients, proto[c].who \in Names, Attach(c)
    PROVE  NeverOverfull'
<1>1. PICK n : n = proto[c].who OBVIOUS
<1>2. world \in [Names -> {None} \cup PlayerSet] BY TypesOf DEF Types
<1>3. \/ UNCHANGED world
      \/ Inside(n) /\ world' = [world EXCEPT ![n] = [client |-> c, connecting |-> None]]
  BY <1>1 DEF Attach
<1>4. \A m \in Names : Inside(m)' => Inside(m) BY <1>2, <1>3 DEF Inside
<1>. QED BY <1>4, NobodyEnters

\* Every step keeps the world to its limit.
LEMMA LimitNext == Inv /\ NeverOverfull /\ [Next]_vars => NeverOverfull'
<1>. SUFFICES ASSUME Inv, NeverOverfull, [Next]_vars PROVE NeverOverfull' OBVIOUS
<1>. DEFINE Same == \A n \in Names : Inside(n)' => Inside(n)
<1>0. world \in [Names -> {None} \cup PlayerSet] BY TypesOf DEF Types
<1>1. ASSUME UNCHANGED world PROVE Same BY <1>1 DEF Inside
<1>2. ASSUME NEW n, world' = [world EXCEPT ![n] = None] PROVE Same
  BY <1>0, <1>2 DEF Inside
<1>3. ASSUME NEW c \in Clients, world' = Released(c) PROVE Same
  BY <1>3 DEF Released, Inside
<1>4. ASSUME NEW c \in Clients, LoginReplaces(c) PROVE Same
  <2>1. PICK n : n = proto[c].who OBVIOUS
  <2>2. \/ UNCHANGED world
        \/ Inside(n) /\ world' = [world EXCEPT ![n].connecting = c]
    BY <1>4, <2>1 DEF LoginReplaces, TakeOver
  <2>. QED BY <1>0, <2>2 DEF Inside
<1>. HIDE DEF Same
<1>5. ASSUME NEW c \in Clients, LoginAttaches(c) PROVE NeverOverfull'
  BY <1>5, AtLogin, AttachEnters DEF LoginAttaches
<1>6. ASSUME NEW c \in Clients, Connect(c) PROVE NeverOverfull'
  BY <1>6, AtConnect, AttachEnters DEF Connect
<1>7. ASSUME NEW c \in Clients, LoginAccepted(c) PROVE NeverOverfull'
  BY <1>7, EnterBelowLimit
<1>8. ASSUME Same PROVE NeverOverfull' BY <1>8, NobodyEnters DEF Same
<1>9. ASSUME NEW c \in Clients, NEW n \in Names, FirstPacket(c, n) PROVE Same
  BY <1>1, <1>9 DEF FirstPacket
<1>10. ASSUME NEW c \in Clients,
              LoginRefused(c) \/ LoginWaits(c) \/ Second(c) \/ Lose(c) \/ AskLogout(c)
       PROVE  Same
  BY <1>1, <1>10 DEF LoginRefused, LoginWaits, Second, Lose, AskLogout
<1>11. ASSUME NEW c \in Clients, CloseConnection(c) \/ RetryRelease(c) PROVE Same
  BY <1>3, <1>11 DEF CloseConnection, RetryRelease
<1>12. ASSUME NEW c \in Clients, Logout(c) PROVE Same
  BY <1>1, <1>2, <1>12 DEF Logout
<1>13. ASSUME NEW n \in Names, Kick(n) \/ PongTimeout(n) \/ Die(n) PROVE Same
  BY <1>2, <1>13 DEF Kick, PongTimeout, Die
<1>14. ASSUME NEW i \in DOMAIN waitList, Late(i) PROVE Same BY <1>1, <1>14 DEF Late
<1>15. CASE UNCHANGED vars
  <2>1. UNCHANGED world BY <1>15 DEF vars
  <2>. QED BY <1>1, <1>8, <2>1
<1>. QED BY <1>4, <1>5, <1>6, <1>7, <1>8, <1>9, <1>10, <1>11, <1>12, <1>13, <1>14,
            <1>15 DEF Next, Dispatch

\* There are never more players in the world than maxPlayers, whatever the order
\* of logins, and although places are given away from a list (WaitingList::login).
THEOREM WorldIsNeverOverfull == Spec => []NeverOverfull
<1>1. Init => NeverOverfull
  <2>. SUFFICES ASSUME Init PROVE NeverOverfull OBVIOUS
  <2>1. OnlineSet = {} BY DEF Init, OnlineSet, Inside
  <2>2. Online = 0 BY <2>1, OnlineType, FS_EmptySet
  <2>. QED BY <2>2, SessionsAssumption DEF NeverOverfull
<1>. QED BY <1>1, LimitNext, Invariant, PTL DEF Spec
===============================================================================
