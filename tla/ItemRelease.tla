------------------------------ MODULE ItemRelease -----------------------------
(* The expiry of items that lie on the ground (Item::release, Item::retain,    *)
(* Item::testReleaseExpiration and class Item::ReleaseInfo in                  *)
(* sources/item.cpp).  An item placed on a tile is released: a task that will  *)
(* remove it is armed with the scheduler.  An item that is picked up, or put on *)
(* a house tile, is retained; the task stays armed, and a release soon after   *)
(* continues the old countdown.  All of this code runs in tasks of the         *)
(* dispatcher; the scheduler and the dispatcher are taken by their promises    *)
(* (modules Timer and Executor): an armed task moves to the dispatcher's queue *)
(* once it is due, can no longer be cancelled there, and any number of tasks   *)
(* queued before it are executed first.                                        *)
EXTENDS Naturals, Sequences, FiniteSets

CONSTANTS Item,      \* item objects
          Delays,    \* kind->expirationDelay; 0 means that the kind never expires
          MaxTime,   \* the bound on time
          MaxTasks   \* the bound on the number of expiry tasks

ASSUME ItemAssumption == Delays \subseteq Nat /\ MaxTime \in Nat /\ MaxTasks \in Nat

VARIABLES now,       \* Clock::now()
          place,     \* where the item is
          delay,     \* kind->expirationDelay of the item's kind
          info,      \* _releaseInfo
          armed,     \* expiry tasks armed with the scheduler
          queue,     \* expiry tasks in the dispatcher's queue
          lastTask,  \* the id of the last task created
          failed     \* the assertion that failed and aborted the process

vars == <<now, place, delay, info, armed, queue, lastTask, failed>>

Never  == MaxTime + 1    \* BREAK_TIME_NEVER: the item is released
NoInfo == [breakTime |-> Never, delay |-> 0, expiration |-> Never, task |-> 0]
Infos  == [breakTime : 0..Never, delay : Delays \cup {0}, expiration : 0..Never, task : 0..MaxTasks]
Expiry == [task : 1..MaxTasks, item : Item, due : 0..MaxTime]

TypeOK == /\ now \in 0..MaxTime
          /\ place \in [Item -> {"none", "tile", "held", "gone"}]
          /\ delay \in [Item -> Delays]
          /\ info \in [Item -> Infos]
          /\ armed \in SUBSET Expiry
          /\ queue \in Seq(Expiry)
          /\ lastTask \in 0..MaxTasks
          /\ failed \in {"", "expired", "copied"}
          /\ \A i \in Item : info[i].task <= lastTask

Init == /\ now = 0
        /\ place = [i \in Item |-> "none"]
        /\ delay \in [Item -> Delays]
        /\ info = [i \in Item |-> NoInfo]
        /\ armed = {}
        /\ queue = <<>>
        /\ lastTask = 0
        /\ failed = ""

Queued == {queue[n] : n \in DOMAIN queue}

\* _task.lock() of a task in arm, or in the dispatcher's queue: the task object
\* lives until it has been executed.
Alive(task, arm) == \E e \in arm \cup Queued : e.task = task

Present(i) == place[i] \in {"tile", "held"}

IsReleased(inf) == inf.breakTime = Never

-------------------------------------------------------------------------------
(* Faulty variants of the helpers below, one per slip the code could contain;  *)
(* the specification uses none of them (README, "Mutants").                    *)

RetainedNot(inf)         == inf                    \* retain() does nothing
ContinuedByDelay(inf, d) == inf.expiration + d     \* put off by the whole delay
BecomesUnarmed(i, inf, arm, last) ==               \* addTask is missing
    /\ info' = [info EXCEPT ![i] = inf]
    /\ lastTask' = last
    /\ UNCHANGED armed

-------------------------------------------------------------------------------
(* Item::ReleaseInfo.  NoInfo stands for a null _releaseInfo as well as for a  *)
(* new one: both have no task and an expiration delay that no kind matches.    *)

IsExpired(inf)  == IsReleased(inf) /\ inf.expiration <= now
IsReleasable(d) == d # 0

\* Putting the expiration off by the time the item was held; not for longer than
\* half of its delay.
Continued(inf, d) ==
    IF now - inf.breakTime <= d \div 2 THEN inf.expiration + (now - inf.breakTime)
                                       ELSE now + d

\* The expiration time release() chooses.
NewExpiration(inf, d) ==
    IF d # inf.delay THEN now + d
    ELSE IF IsReleased(inf) THEN inf.expiration ELSE Continued(inf, d)

\* release() keeps its task if that is still alive and the time is the same.
KeepsTask(inf, x, arm) == Alive(inf.task, arm) /\ inf.expiration = x

\* Item::retain()
Retained(inf) == IF inf = NoInfo \/ ~IsReleased(inf)
                 THEN inf ELSE [inf EXCEPT !.breakTime = now]

\* The item's release info, the armed tasks and the last id after a call.
Becomes(i, inf, arm, last) ==
    /\ info' = [info EXCEPT ![i] = inf]
    /\ armed' = arm
    /\ lastTask' = last

\* Item::release() of item i with kind delay d and release info inf, where arm
\* are the armed tasks and last the last id.
Release(i, inf, d, arm, last) ==
    LET x == NewExpiration(inf, d) IN
    IF ~IsReleasable(d) THEN Becomes(i, inf, arm, last)
    ELSE IF KeepsTask(inf, x, arm)
    THEN Becomes(i, [inf EXCEPT !.breakTime = Never, !.delay = d, !.expiration = x],
                 arm, last)
    ELSE /\ x <= MaxTime
         /\ last < MaxTasks
         /\ Becomes(i, [breakTime |-> Never, delay |-> d, expiration |-> x,
                          task |-> last + 1],
                      {e \in arm : e.task # inf.task}
                        \cup {[task |-> last + 1, item |-> i, due |-> x]},
                      last + 1)

\* What a cylinder does with an item it takes or changes.
Settle(i, inf, where, d, arm, last) ==
    IF where = "tile" THEN Release(i, inf, d, arm, last)
                      ELSE Becomes(i, Retained(inf), arm, last)

-------------------------------------------------------------------------------
(* Tasks of the dispatcher, queued at any earlier time.                        *)

\* An item is created somewhere, or moved as a whole.
Put(i, where) ==
    /\ failed = ""
    /\ place[i] # "gone"
    /\ place' = [place EXCEPT ![i] = where]
    /\ Settle(i, info[i], where, delay[i], armed, lastTask)
    /\ UNCHANGED <<now, delay, queue, failed>>

\* Game::transformItem, where it changes the kind of the object.
Transform(i, d) ==
    /\ failed = ""
    /\ Present(i)
    /\ delay' = [delay EXCEPT ![i] = d]
    /\ Settle(i, info[i], place[i], d, armed, lastTask)
    /\ UNCHANGED <<now, place, queue, failed>>

\* Item::copyReleaseInfo into a new object, which is then put somewhere: the
\* target of a moved stack (Game::internalMoveItem) or the replacement of a
\* transformed item (Game::transformItem).  ReleaseInfo::copy asserts that the
\* time of a released original is not over.
Copy(i, left, j, where, d) ==
    /\ failed = ""
    /\ Present(i)
    /\ place[j] = "none"
    /\ place' = [place EXCEPT ![i] = left, ![j] = where]
    /\ delay' = [delay EXCEPT ![j] = d]
    /\ IF info[i] # NoInfo /\ IsReleased(info[i])
       THEN /\ info[i].expiration >= now
            /\ lastTask < MaxTasks
            /\ Settle(j, [info[i] EXCEPT !.task = lastTask + 1], where, d,
                      armed \cup {[task |-> lastTask + 1, item |-> j,
                                   due |-> info[i].expiration]},
                      lastTask + 1)
       ELSE Settle(j, [info[i] EXCEPT !.task = 0], where, d, armed, lastTask)
    /\ UNCHANGED <<now, queue, failed>>

CopyFails(i) ==
    /\ failed = ""
    /\ Present(i)
    /\ info[i] # NoInfo
    /\ IsReleased(info[i])
    /\ info[i].expiration < now
    /\ failed' = "copied"
    /\ UNCHANGED <<now, place, delay, info, armed, queue, lastTask>>

\* The item is removed for another reason.  Its tasks keep the object alive.
Removal(i) ==
    /\ failed = ""
    /\ Present(i)
    /\ place' = [place EXCEPT ![i] = "gone"]
    /\ UNCHANGED <<now, delay, info, armed, queue, lastTask, failed>>

\* Item::testReleaseExpiration, the next expiry task of the dispatcher.
TestExpiration ==
    /\ failed = ""
    /\ queue # <<>>
    /\ queue' = Tail(queue)
    /\ LET i == Head(queue).item IN
       IF info[i] = NoInfo
       THEN UNCHANGED <<place, info, failed>>
       ELSE IF ~IsReleased(info[i]) \/ ~IsReleasable(delay[i])
       THEN info' = [info EXCEPT ![i] = NoInfo] /\ UNCHANGED <<place, failed>>
       ELSE IF ~IsExpired(info[i])
       THEN failed' = "expired" /\ UNCHANGED <<place, info>>
       ELSE /\ place' = [place EXCEPT ![i] = IF Present(i) THEN "gone" ELSE @]
            /\ UNCHANGED <<info, failed>>
    /\ UNCHANGED <<now, delay, armed, lastTask>>

-------------------------------------------------------------------------------
\* The scheduler hands a due task to the dispatcher, the earliest first.
Expire(e) ==
    /\ failed = ""
    /\ e \in armed
    /\ e.due <= now
    /\ \A f \in armed : e.due <= f.due
    /\ armed' = armed \ {e}
    /\ queue' = Append(queue, e)
    /\ UNCHANGED <<now, place, delay, info, lastTask, failed>>

Tick ==
    /\ failed = ""
    /\ now < MaxTime
    /\ now' = now + 1
    /\ UNCHANGED <<place, delay, info, armed, queue, lastTask, failed>>

Next == \/ \E i \in Item, where \in {"tile", "held"} : Put(i, where)
        \/ \E i \in Item, d \in Delays : Transform(i, d)
        \/ \E i, j \in Item, where \in {"tile", "held"}, d \in Delays :
               \E left \in {place[i], "gone"} : Copy(i, left, j, where, d)
        \/ \E i \in Item : CopyFails(i) \/ Removal(i)
        \/ TestExpiration
        \/ \E e \in armed : Expire(e)
        \/ Tick

Spec == Init /\ [][Next]_vars

\* The dispatcher executes its queue, the scheduler hands over what is due, and
\* time passes.
FairSpec == /\ Spec
            /\ WF_vars(TestExpiration)
            /\ WF_vars(\E e \in armed : Expire(e))
            /\ WF_vars(Tick)

-------------------------------------------------------------------------------
(* Properties. *)

\* An item that lies on a tile and can expire has a live task that will test it
\* at its time: picking it up, putting it down, transforming it and the tasks of
\* earlier releases never leave it without one (Item::ReleaseInfo::release).
TileItemHasTask ==
    \A i \in Item : place[i] = "tile" /\ IsReleasable(delay[i]) /\ failed = "" =>
        /\ IsReleased(info[i])
        /\ \E e \in armed \cup Queued : /\ e.task = info[i].task
                                        /\ e.item = i
                                        /\ e.due = info[i].expiration

\* The expiry never takes an item that is held or cannot expire, whatever was
\* armed while it lay on a tile (the tests in Item::testReleaseExpiration).
ExpiryOnlyOnTiles ==
    [][\A i \in Item : Len(queue') < Len(queue) /\ place'[i] # place[i]
            => place[i] = "tile" /\ IsReleasable(delay[i])]_vars

\* However often an item is picked up and put down, continued countdowns never
\* add up to more than its delay from now (Item::ReleaseInfo::release).
CountdownBounded ==
    \A i \in Item : info[i] # NoInfo /\ place[i] = "tile" /\ IsReleasable(delay[i])
        => info[i].expiration <= now + info[i].delay

\* An item on a tile is counted down, and by no more than its delay.
TileItemCounted == TypeOK /\ TileItemHasTask /\ CountdownBounded

\* An item left on a tile disappears, unless it is picked up or transformed.
TileItemExpires ==
    \A i \in Item : place[i] = "tile" /\ IsReleasable(delay[i])
        ~> place[i] # "tile" \/ ~IsReleasable(delay[i]) \/ failed # ""

\* The assertion in Item::testReleaseExpiration: a task that finds its item
\* released finds it expired.
ExpiryIsDue == failed # "expired"
===============================================================================
