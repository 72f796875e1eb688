------------------------------ MODULE ItemProofs -------------------------------
(* Proofs about the items, for any players, things, places and bounds.       *)
(* Module ItemRelease: an item that lies on a tile and can expire always has *)
(* a live task that tests it at its time, and the expiry takes nothing but   *)
(* such items.                                                               *)
(* Module Cylinders: the things stay in order through every move,            *)
(* transformation and payment, and every window shows what its player may    *)
(* look into.                                                                *)
(* Module Trade: the two sides of a trade agree whatever happens around      *)
(* them, and the thing that was offered and looked at is the thing that is   *)
(* exchanged.                                                                *)
EXTENDS ItemRelease, Trade, SequenceTheorems, FiniteSetTheorems, WellFoundedInduction, TLAPS

-------------------------------------------------------------------------------
(* The inductive invariant. *)

\* A countdown that runs ends within its delay from now, and one that is held
\* ended within its delay from the time it was stopped.
Sane(inf) ==
    inf # NoInfo =>
        /\ inf.expiration <= MaxTime
        /\ IsReleased(inf) => inf.expiration <= now + inf.delay
        /\ ~IsReleased(inf) => /\ inf.breakTime <= now
                               /\ inf.expiration <= inf.breakTime + inf.delay

\* Every task was given an id of its own, not above the last.
Booked(arm, last) ==
    /\ \A e \in arm \cup Queued : e.task <= last
    /\ \A e, f \in arm \cup Queued : e.task = f.task => e = f

\* The task that inf, the release info of item k, names is a task of k, armed
\* for the time inf holds.
Owns(k, inf, arm) ==
    \A e \in arm \cup Queued :
        e.task = inf.task => e.item = k /\ e.due = inf.expiration

\* An item on a tile that can expire is counted down by a live task, and an item
\* that is held is not counted down.
Watched(k) ==
    /\ place[k] = "tile" /\ IsReleasable(delay[k]) =>
           IsReleased(info[k]) /\ (failed = "" => Alive(info[k].task, armed))
    /\ place[k] = "held" => info[k] = NoInfo \/ ~IsReleased(info[k])

Inv == /\ TypeOK
       /\ Booked(armed, lastTask)
       /\ \A k \in Item : Sane(info[k]) /\ Owns(k, info[k], armed) /\ Watched(k)

-------------------------------------------------------------------------------
(* The dispatcher's queue. *)

\* A queued task is an expiry task.
LEMMA QueuedType == ASSUME TypeOK PROVE Queued \in SUBSET Expiry
<1>1. queue \in Seq(Expiry) BY DEF TypeOK
<1>2. DOMAIN queue = 1..Len(queue) /\ \A n \in 1..Len(queue) : queue[n] \in Expiry
  BY <1>1, ElementOfSeq, LenProperties
<1>. QED BY <1>2 DEF Queued

\* A task that is handed over is queued behind the others.
LEMMA QueuedAppend ==
    ASSUME TypeOK, NEW e \in Expiry, queue' = Append(queue, e)
    PROVE  Queued' = Queued \cup {e}
<1>1. queue \in Seq(Expiry) BY DEF TypeOK
<1>2. /\ Len(queue) \in Nat
      /\ DOMAIN queue = 1..Len(queue)
      /\ DOMAIN queue' = 1..(Len(queue) + 1)
      /\ \A n \in 1..Len(queue) : queue'[n] = queue[n]
      /\ queue'[Len(queue) + 1] = e
  BY <1>1, AppendProperties, LenProperties
<1>3. DOMAIN queue' = DOMAIN queue \cup {Len(queue) + 1} BY <1>2
<1>4. Queued' = {queue'[n] : n \in DOMAIN queue'} BY DEF Queued
<1>5. Queued' = {queue'[n] : n \in DOMAIN queue} \cup {queue'[Len(queue) + 1]}
  BY <1>3, <1>4
<1>. QED BY <1>2, <1>5 DEF Queued

\* A task that is executed leaves the queue, and only that one.
LEMMA QueuedTail ==
    ASSUME TypeOK, queue # <<>>, queue' = Tail(queue)
    PROVE  /\ Head(queue) \in Queued
           /\ queue' \in Seq(Expiry)
           /\ Queued = Queued' \cup {Head(queue)}
           /\ Len(queue') < Len(queue)
<1>1. queue \in Seq(Expiry) BY DEF TypeOK
<1>2. /\ Len(queue) \in Nat \ {0}
      /\ DOMAIN queue = 1..Len(queue)
      /\ Head(queue) = queue[1]
      /\ queue' \in Seq(Expiry)
      /\ Len(queue') = Len(queue) - 1
      /\ DOMAIN queue' = 1..(Len(queue) - 1)
      /\ \A n \in 1..(Len(queue) - 1) : queue'[n] = queue[n + 1]
  BY <1>1, HeadTailProperties, LenProperties, EmptySeq
<1>3. Queued' = {queue'[n] : n \in DOMAIN queue'} BY DEF Queued
<1>4. Queued' \subseteq Queued
  <2>. SUFFICES ASSUME NEW n \in DOMAIN queue' PROVE queue'[n] \in Queued BY <1>3
  <2>1. n + 1 \in DOMAIN queue /\ queue'[n] = queue[n + 1] BY <1>2
  <2>. QED BY <2>1 DEF Queued
<1>5. ASSUME NEW e \in Queued PROVE e \in Queued' \cup {Head(queue)}
  <2>1. PICK n \in DOMAIN queue : e = queue[n] BY <1>5 DEF Queued
  <2>2. CASE n = 1 BY <1>2, <2>1, <2>2
  <2>3. CASE n # 1
    <3>1. n - 1 \in DOMAIN queue' /\ queue'[n - 1] = queue[n] BY <1>2, <2>3
    <3>. QED BY <1>3, <2>1, <3>1
  <2>. QED BY <2>2, <2>3
<1>6. Head(queue) \in Queued BY <1>2 DEF Queued
<1>. QED BY <1>2, <1>4, <1>5, <1>6

-------------------------------------------------------------------------------
(* Item::release() and Item::retain().  Item i has release info inf, arm are    *)
(* the armed tasks and last the last id when the call is made; each lemma says *)
(* that the invariant's parts hold of what the call leaves.                    *)

\* What a call leaves: release info y for item i, and the tasks of the other
\* items as they were.
Settled(i, y, arm, last) ==
    /\ info' = [info EXCEPT ![i] = y]
    /\ y \in Infos
    /\ armed' \in SUBSET Expiry
    /\ lastTask' \in last..MaxTasks
    /\ y.task <= lastTask'
    /\ Booked(armed', lastTask')
    /\ Sane(y)
    /\ Owns(i, y, armed')
    /\ \A k \in Item \ {i} : /\ Owns(k, info[k], armed')
                             /\ Alive(info[k].task, arm) => Alive(info[k].task, armed')

\* When the call may be made: the parts hold of arm, last and inf.
CallReady(i, inf, arm, last) ==
    /\ TypeOK
    /\ inf \in Infos
    /\ arm \in SUBSET Expiry
    /\ last \in lastTask..MaxTasks
    /\ inf.task <= last
    /\ Booked(arm, last)
    /\ Sane(inf)
    /\ Owns(i, inf, arm)
    /\ \A k \in Item \ {i} : Owns(k, info[k], arm)

\* Neither call touches the tasks when it writes release info with the same task
\* and the same time.
LEMMA SameTask ==
    ASSUME NEW i \in Item, NEW inf, NEW arm, NEW last, NEW y \in Infos,
           CallReady(i, inf, arm, last), Becomes(i, y, arm, last),
           y.task = inf.task, y.expiration = inf.expiration, Sane(y)
    PROVE  Settled(i, y, arm, last)
<1>1. Owns(i, y, arm) BY DEF CallReady, Owns
<1>2. lastTask \in 0..MaxTasks /\ last \in lastTask..MaxTasks BY DEF CallReady, TypeOK
<1>3. last \in last..MaxTasks BY <1>2, ItemAssumption
<1>. QED BY <1>1, <1>3 DEF CallReady, Becomes, Settled

\* Item::retain() stops the countdown.
LEMMA RetainedSettles ==
    ASSUME NEW i \in Item, NEW inf, NEW arm, NEW last, CallReady(i, inf, arm, last),
           Becomes(i, Retained(inf), arm, last)
    PROVE  /\ Settled(i, Retained(inf), arm, last)
           /\ Retained(inf) = NoInfo \/ ~IsReleased(Retained(inf))
<1>. DEFINE y == Retained(inf)
<1>1. inf \in Infos /\ now \in 0..MaxTime /\ MaxTime \in Nat /\ Delays \subseteq Nat
  BY ItemAssumption DEF CallReady, TypeOK
<1>2. CASE inf = NoInfo \/ ~IsReleased(inf)
  <2>1. y = inf BY <1>2 DEF Retained
  <2>2. Sane(inf) BY DEF CallReady
  <2>. QED BY <1>1, <1>2, <2>1, <2>2, SameTask
<1>3. CASE ~(inf = NoInfo \/ ~IsReleased(inf))
  <2>1. y = [inf EXCEPT !.breakTime = now] BY <1>3 DEF Retained
  <2>2. /\ y \in Infos /\ y.task = inf.task /\ y.expiration = inf.expiration
        /\ y.breakTime = now /\ y.delay = inf.delay
    BY <1>1, <2>1 DEF Infos, Never
  <2>3. ~IsReleased(y) BY <1>1, <2>2 DEF IsReleased, Never
  <2>4. Sane(inf) BY DEF CallReady
  <2>5. Sane(y) BY <1>1, <1>3, <2>2, <2>3, <2>4 DEF Sane
  <2>6. Settled(i, y, arm, last) BY <2>2, <2>5, SameTask
  <2>. QED BY <2>3, <2>6
<1>. QED BY <1>2, <1>3

\* The time release() chooses is at most the kind's delay from now.
LEMMA NewExpirationBound ==
    ASSUME NEW inf \in Infos, NEW d \in Delays, now \in 0..MaxTime, IsReleasable(d),
           Sane(inf)
    PROVE  NewExpiration(inf, d) \in Nat /\ NewExpiration(inf, d) <= now + d
<1>. DEFINE x == NewExpiration(inf, d)
<1>a. /\ inf.breakTime \in 0..Never /\ inf.expiration \in 0..Never
      /\ inf.delay \in Delays \cup {0}
  BY DEF Infos
<1>b. MaxTime \in Nat /\ Delays \subseteq Nat BY ItemAssumption
<1>1. /\ d \in Nat /\ d # 0 /\ MaxTime \in Nat /\ now \in Nat /\ now <= MaxTime
      /\ inf.breakTime \in Nat /\ inf.expiration \in Nat /\ inf.delay \in Nat
  <2>1. d \in Nat /\ inf.delay \in Nat
    <3>1. d \in Nat BY <1>b
    <3>2. \A z \in Delays \cup {0} : z \in Nat BY <1>b
    <3>. QED BY <1>a, <3>1, <3>2
  <2>2. MaxTime \in Nat /\ now \in Nat /\ now <= MaxTime BY <1>b
  <2>3. inf.breakTime \in Nat /\ inf.expiration \in Nat BY <1>a, <1>b DEF Never
  <2>4. d # 0 BY DEF IsReleasable
  <2>. QED BY <2>1, <2>2, <2>3, <2>4
<1>2. CASE d # inf.delay BY <1>1, <1>2 DEF NewExpiration
<1>3. CASE d = inf.delay
  <2>1. inf # NoInfo BY <1>1, <1>3 DEF NoInfo
  <2>2. CASE IsReleased(inf)
    BY <1>1, <1>3, <2>1, <2>2 DEF NewExpiration, Sane
  <2>3. CASE ~IsReleased(inf)
    <3>1. x = Continued(inf, d) BY <1>3, <2>3 DEF NewExpiration
    <3>2. x = inf.expiration + (now - inf.breakTime) \/ x = now + d
      BY <3>1 DEF Continued
    <3>3. inf.breakTime <= now /\ inf.expiration <= inf.breakTime + inf.delay
      BY <2>1, <2>3 DEF Sane
    <3>. HIDE DEF x
    <3>4. x \in Nat /\ x <= now + d BY <1>1, <1>3, <3>2, <3>3
    <3>. QED BY <3>4 DEF x
  <2>. QED BY <2>2, <2>3
<1>. QED BY <1>2, <1>3

\* Item::release() leaves an item that can expire counted down by a live task.
LEMMA ReleaseSettles ==
    ASSUME NEW i \in Item, NEW inf, NEW arm, NEW last, NEW d \in Delays,
           CallReady(i, inf, arm, last), Release(i, inf, d, arm, last),
           UNCHANGED queue
    PROVE  \E y : /\ Settled(i, y, arm, last)
                  /\ IsReleasable(d) => IsReleased(y) /\ Alive(y.task, armed')
<1>. DEFINE x == NewExpiration(inf, d)
<1>a. /\ inf \in Infos /\ now \in 0..MaxTime /\ lastTask \in 0..MaxTasks
      /\ last \in lastTask..MaxTasks /\ Sane(inf) /\ arm \in SUBSET Expiry
      /\ inf.task <= last /\ Booked(arm, last) /\ Owns(i, inf, arm)
      /\ \A k \in Item \ {i} : Owns(k, info[k], arm)
  BY DEF CallReady, TypeOK
<1>c. Queued \in SUBSET Expiry BY QueuedType DEF CallReady
<1>d. last \in Nat /\ MaxTasks \in Nat /\ MaxTime \in Nat /\ Delays \subseteq Nat
  BY <1>a, ItemAssumption
<1>1. CASE ~IsReleasable(d)
  <2>1. Becomes(i, inf, arm, last) BY <1>1 DEF Release
  <2>2. Settled(i, inf, arm, last) BY <1>a, <2>1, SameTask
  <2>. QED BY <1>1, <2>2
<1>2. CASE IsReleasable(d) /\ KeepsTask(inf, x, arm)
  <2>. DEFINE y == [inf EXCEPT !.breakTime = Never, !.delay = d, !.expiration = x]
  <2>1. Becomes(i, y, arm, last) BY <1>2 DEF Release
  <2>2. x \in Nat /\ x <= now + d BY <1>a, <1>2, NewExpirationBound
  <2>3. inf.expiration = x /\ Alive(inf.task, arm) BY <1>2 DEF KeepsTask
  <2>4. inf.task # 0
    <3>1. PICK e \in Expiry : e.task = inf.task BY <1>a, <1>c, <2>3 DEF Alive
    <3>2. e.task \in 1..MaxTasks BY DEF Expiry
    <3>. QED BY <1>d, <3>1, <3>2
  <2>5. inf # NoInfo BY <2>4 DEF NoInfo
  <2>6. x <= MaxTime BY <1>a, <2>3, <2>5 DEF Sane
  <2>7. Never \in 0..Never BY <1>d DEF Never
  <2>. HIDE DEF x
  <2>8. x \in 0..Never BY <1>a, <1>d, <2>3 DEF Infos
  <2>9. inf = [breakTime |-> inf.breakTime, delay |-> inf.delay,
               expiration |-> inf.expiration, task |-> inf.task]
    BY <1>a DEF Infos
  <2>10. /\ y \in Infos /\ y.task = inf.task /\ y.expiration = inf.expiration
         /\ y.breakTime = Never /\ y.delay = d /\ y.expiration = x
    BY <1>a, <2>3, <2>7, <2>8, <2>9 DEF Infos
  <2>. HIDE DEF y
  <2>11. IsReleased(y) BY <2>10 DEF IsReleased
  <2>12. Sane(y) BY <2>2, <2>6, <2>10, <2>11 DEF Sane
  <2>13. Settled(i, y, arm, last) BY <1>a, <2>1, <2>10, <2>12, SameTask
  <2>14. Alive(y.task, armed') BY <2>1, <2>3, <2>10 DEF Becomes, Alive
  <2>. QED BY <2>11, <2>13, <2>14
<1>3. CASE IsReleasable(d) /\ ~KeepsTask(inf, x, arm)
  <2>. DEFINE y == [breakTime |-> Never, delay |-> d, expiration |-> x, task |-> last + 1]
              new == [task |-> last + 1, item |-> i, due |-> x]
              kept == {e \in arm : e.task # inf.task}
  <2>1. x <= MaxTime /\ last < MaxTasks /\ Becomes(i, y, kept \cup {new}, last + 1)
    BY <1>3 DEF Release
  <2>2. x \in Nat /\ x <= now + d BY <1>a, <1>3, NewExpirationBound
  <2>. HIDE DEF x
  <2>3. /\ y.task = last + 1 /\ y.expiration = x /\ y.breakTime = Never /\ y.delay = d
        /\ new.task = last + 1 /\ new.item = i /\ new.due = x
    OBVIOUS
  <2>4. last + 1 \in 1..MaxTasks /\ last + 1 \in 0..MaxTasks /\ x \in 0..MaxTime
        /\ x \in 0..Never /\ Never \in 0..Never
    BY <1>d, <2>1, <2>2 DEF Never
  <2>5. y \in Infos BY <2>4 DEF Infos
  <2>6. new \in Expiry BY <2>4 DEF Expiry
  <2>. HIDE DEF y, new
  <2>7. /\ info' = [info EXCEPT ![i] = y] /\ armed' = kept \cup {new}
        /\ lastTask' = last + 1
    BY <2>1 DEF Becomes
  <2>8. kept \subseteq arm OBVIOUS
  <2>9. IsReleased(y) BY <2>3 DEF IsReleased
  <2>10. Sane(y) BY <2>1, <2>2, <2>3, <2>9 DEF Sane
  <2>11. \A e \in arm \cup Queued : e.task <= last BY <1>a DEF Booked
  <2>12. \A e \in arm \cup Queued : e \in Expiry /\ e.task \in Nat
    BY <1>a, <1>c DEF Expiry
  <2>13. armed' \cup Queued \subseteq (arm \cup Queued) \cup {new}
    BY <2>7, <2>8
  <2>14. Booked(armed', lastTask')
    <3>1. \A e \in armed' \cup Queued : e.task <= last + 1
      BY <1>d, <2>3, <2>11, <2>12, <2>13
    <3>2. \A e \in arm \cup Queued : e.task # new.task
      BY <1>d, <2>3, <2>11, <2>12
    <3>3. \A e, f \in arm \cup Queued : e.task = f.task => e = f BY <1>a DEF Booked
    <3>4. \A e, f \in armed' \cup Queued : e.task = f.task => e = f
      BY <2>13, <3>2, <3>3
    <3>. QED BY <2>7, <3>1, <3>4 DEF Booked
  <2>15. Owns(i, y, armed')
    <3>. SUFFICES ASSUME NEW e \in armed' \cup Queued, e.task = y.task
                  PROVE  e.item = i /\ e.due = y.expiration
      BY DEF Owns
    <3>1. e = new BY <1>d, <2>3, <2>11, <2>12, <2>13
    <3>. QED BY <2>3, <3>1
  <2>16. ASSUME NEW k \in Item \ {i}
         PROVE  /\ Owns(k, info[k], armed')
                /\ Alive(info[k].task, arm) => Alive(info[k].task, armed')
    <3>1. info[k] \in Infos /\ info[k].task <= lastTask BY DEF CallReady, TypeOK
    <3>2. info[k].task \in Nat /\ info[k].task <= last
      BY <1>a, <1>d, <3>1 DEF Infos
    <3>3. Owns(k, info[k], armed')
      <4>. SUFFICES ASSUME NEW e \in armed' \cup Queued, e.task = info[k].task
                    PROVE  e.item = k /\ e.due = info[k].expiration
        BY DEF Owns
      <4>1. e # new BY <1>d, <2>3, <3>2
      <4>2. e \in arm \cup Queued BY <2>13, <4>1
      <4>. QED BY <1>a, <4>2 DEF Owns
    <3>4. ASSUME Alive(info[k].task, arm) PROVE Alive(info[k].task, armed')
      <4>1. PICK e \in arm \cup Queued : e.task = info[k].task BY <3>4 DEF Alive
      <4>2. e.item = k BY <1>a, <4>1 DEF Owns
      <4>3. e.task # inf.task BY <1>a, <4>2 DEF Owns
      <4>4. e \in armed' \cup Queued BY <2>7, <4>3
      <4>. QED BY <4>1, <4>4 DEF Alive
    <3>. QED BY <3>3, <3>4
  <2>17. armed' \in SUBSET Expiry BY <1>a, <2>6, <2>7, <2>8
  <2>18. lastTask' \in last..MaxTasks /\ y.task <= lastTask' BY <1>d, <2>1, <2>3, <2>7
  <2>19. Settled(i, y, arm, last)
    BY <2>5, <2>7, <2>10, <2>14, <2>15, <2>16, <2>17, <2>18 DEF Settled
  <2>20. new \in armed' BY <2>7
  <2>21. Alive(y.task, armed') BY <2>3, <2>20 DEF Alive
  <2>. QED BY <2>9, <2>19, <2>21
<1>. QED BY <1>1, <1>2, <1>3

\* A cylinder's item: counted down on a tile, and not counted down elsewhere.
LEMMA SettleSettles ==
    ASSUME NEW i \in Item, NEW inf, NEW arm, NEW last, NEW d \in Delays, NEW where,
           CallReady(i, inf, arm, last), Settle(i, inf, where, d, arm, last),
           UNCHANGED queue
    PROVE  \E y : /\ Settled(i, y, arm, last)
                  /\ where = "tile" /\ IsReleasable(d) =>
                         IsReleased(y) /\ Alive(y.task, armed')
                  /\ where # "tile" => y = NoInfo \/ ~IsReleased(y)
<1>1. CASE where = "tile" BY <1>1, ReleaseSettles DEF Settle
<1>2. CASE where # "tile" BY <1>2, RetainedSettles DEF Settle
<1>. QED BY <1>1, <1>2

-------------------------------------------------------------------------------
(* Every step preserves the invariant. *)

\* A step that settles one item, leaves the others where they are or removes
\* them, and takes no task from another item.
LEMMA SettledStep ==
    ASSUME Inv, NEW i \in Item, NEW y, NEW arm, NEW last,
           Settled(i, y, arm, last), armed \subseteq arm, last \in lastTask..MaxTasks,
           UNCHANGED <<now, queue, failed>>,
           place' \in [Item -> {"none", "tile", "held", "gone"}],
           delay' \in [Item -> Delays],
           \A k \in Item \ {i} : /\ place'[k] = "gone" \/ place'[k] = place[k]
                                 /\ delay'[k] = delay[k],
           place'[i] = "tile" /\ IsReleasable(delay'[i]) =>
               IsReleased(y) /\ Alive(y.task, armed'),
           place'[i] = "held" => y = NoInfo \/ ~IsReleased(y)
    PROVE  Inv'
<1>1. TypeOK /\ lastTask \in 0..MaxTasks /\ MaxTasks \in Nat
  BY ItemAssumption DEF Inv, TypeOK
<1>2. Queued' = Queued BY DEF Queued
<1>3. /\ info' = [info EXCEPT ![i] = y] /\ y \in Infos /\ armed' \in SUBSET Expiry
      /\ lastTask' \in last..MaxTasks /\ y.task <= lastTask'
      /\ Booked(armed', lastTask') /\ Sane(y) /\ Owns(i, y, armed')
  BY DEF Settled
<1>4. info \in [Item -> Infos] BY <1>1 DEF TypeOK
<1>5. info'[i] = y /\ \A k \in Item \ {i} : info'[k] = info[k] BY <1>3, <1>4
<1>6. lastTask' \in 0..MaxTasks /\ lastTask <= lastTask' BY <1>1, <1>3
<1>7. TypeOK'
  <2>1. info' \in [Item -> Infos] BY <1>3, <1>4
  <2>2. ASSUME NEW k \in Item PROVE info'[k].task <= lastTask'
    <3>1. CASE k = i BY <1>3, <1>5, <3>1
    <3>2. CASE k # i
      <4>1. info[k] \in Infos /\ info[k].task <= lastTask BY <1>1 DEF TypeOK
      <4>2. info[k].task \in 0..MaxTasks BY <4>1 DEF Infos
      <4>. QED BY <1>1, <1>5, <1>6, <3>2, <4>1, <4>2
    <3>. QED BY <3>1, <3>2
  <2>. QED BY <1>1, <1>3, <1>6, <2>1, <2>2 DEF TypeOK
<1>8. Booked(armed, lastTask)' BY <1>2, <1>3 DEF Booked
<1>9. ASSUME NEW k \in Item
      PROVE  Sane(info[k])' /\ Owns(k, info[k], armed)' /\ Watched(k)'
  <2>1. CASE k = i
    <3>1. Sane(info[k])' BY <1>3, <1>5, <2>1 DEF Sane, IsReleased
    <3>2. Owns(k, info[k], armed)' BY <1>2, <1>3, <1>5, <2>1 DEF Owns
    <3>3. Watched(k)'
      BY <1>2, <1>5, <2>1 DEF Watched, Alive, IsReleased, IsReleasable
    <3>. QED BY <3>1, <3>2, <3>3
  <2>2. CASE k # i
    <3>1. Sane(info[k]) /\ Owns(k, info[k], armed) /\ Watched(k) BY DEF Inv
    <3>2. Owns(k, info[k], armed') BY <2>2 DEF Settled
    <3>3. Alive(info[k].task, armed) => Alive(info[k].task, armed')
      BY <2>2 DEF Settled, Alive
    <3>4. Sane(info[k])' BY <1>5, <2>2, <3>1 DEF Sane, IsReleased
    <3>5. Owns(k, info[k], armed)' BY <1>2, <1>5, <2>2, <3>2 DEF Owns
    <3>6. Alive(info[k].task, armed) => Alive(info[k].task, armed)'
      BY <1>2, <1>5, <2>2, <3>3 DEF Alive
    <3>7. delay'[k] = delay[k] /\ failed' = failed /\ info'[k] = info[k]
      BY <1>5, <2>2
    <3>8. ASSUME place'[k] = "gone" PROVE Watched(k)' BY <3>8 DEF Watched
    <3>9. ASSUME place'[k] = place[k] PROVE Watched(k)'
      <4>1. (place[k] = "tile" /\ IsReleasable(delay[k]))'
              => (place[k] = "tile" /\ IsReleasable(delay[k]))
        BY <3>7, <3>9 DEF IsReleasable
      <4>2. IsReleased(info[k]) => IsReleased(info[k])' BY <3>7 DEF IsReleased
      <4>3. (place[k] = "held" => info[k] = NoInfo \/ ~IsReleased(info[k]))'
        BY <3>1, <3>7, <3>9 DEF Watched, IsReleased
      <4>4. (failed = "")' => failed = "" BY <3>7
      <4>. QED BY <3>1, <3>6, <4>1, <4>2, <4>3, <4>4 DEF Watched
    <3>10. Watched(k)' BY <2>2, <3>8, <3>9
    <3>. QED BY <3>4, <3>5, <3>10
  <2>. QED BY <2>1, <2>2
<1>. QED BY <1>7, <1>8, <1>9 DEF Inv

\* The invariant makes an item of the state ready to be settled.
LEMMA ItemReady ==
    ASSUME Inv, NEW i \in Item
    PROVE  CallReady(i, info[i], armed, lastTask)
<1>1. TypeOK /\ lastTask \in 0..MaxTasks /\ MaxTasks \in Nat
  BY ItemAssumption DEF Inv, TypeOK
<1>2. lastTask \in lastTask..MaxTasks BY <1>1
<1>. QED BY <1>1, <1>2 DEF CallReady, Inv, TypeOK

\* An item is created or moved as a whole.
LEMMA PutStep ==
    ASSUME Inv, NEW i \in Item, NEW where \in {"tile", "held"}, Put(i, where)
    PROVE  Inv'
<1>1. TypeOK BY DEF Inv
<1>2. CallReady(i, info[i], armed, lastTask) BY ItemReady
<1>3. /\ place' = [place EXCEPT ![i] = where]
      /\ Settle(i, info[i], where, delay[i], armed, lastTask)
      /\ UNCHANGED <<now, delay, queue, failed>>
  BY DEF Put
<1>4. delay[i] \in Delays BY <1>1 DEF TypeOK
<1>5. PICK y : /\ Settled(i, y, armed, lastTask)
               /\ where = "tile" /\ IsReleasable(delay[i]) =>
                      IsReleased(y) /\ Alive(y.task, armed')
               /\ where # "tile" => y = NoInfo \/ ~IsReleased(y)
  BY <1>2, <1>3, <1>4, SettleSettles
<1>6. place' \in [Item -> {"none", "tile", "held", "gone"}] /\ delay' \in [Item -> Delays]
  BY <1>1, <1>3 DEF TypeOK
<1>7. /\ place'[i] = where /\ delay'[i] = delay[i]
      /\ \A k \in Item \ {i} : place'[k] = place[k] /\ delay'[k] = delay[k]
  BY <1>1, <1>3 DEF TypeOK
<1>8. armed \subseteq armed /\ lastTask \in lastTask..MaxTasks BY <1>2 DEF CallReady
<1>. QED BY <1>3, <1>5, <1>6, <1>7, <1>8, SettledStep

\* The kind of an item is changed.
LEMMA TransformStep ==
    ASSUME Inv, NEW i \in Item, NEW d \in Delays, Transform(i, d)
    PROVE  Inv'
<1>1. TypeOK BY DEF Inv
<1>2. CallReady(i, info[i], armed, lastTask) BY ItemReady
<1>3. /\ delay' = [delay EXCEPT ![i] = d]
      /\ Settle(i, info[i], place[i], d, armed, lastTask)
      /\ UNCHANGED <<now, place, queue, failed>>
  BY DEF Transform
<1>4. PICK y : /\ Settled(i, y, armed, lastTask)
               /\ place[i] = "tile" /\ IsReleasable(d) =>
                      IsReleased(y) /\ Alive(y.task, armed')
               /\ place[i] # "tile" => y = NoInfo \/ ~IsReleased(y)
  BY <1>2, <1>3, SettleSettles
<1>5. place' \in [Item -> {"none", "tile", "held", "gone"}] /\ delay' \in [Item -> Delays]
  BY <1>1, <1>3 DEF TypeOK
<1>6. /\ place'[i] = place[i] /\ delay'[i] = d
      /\ \A k \in Item \ {i} : place'[k] = place[k] /\ delay'[k] = delay[k]
  BY <1>1, <1>3 DEF TypeOK
<1>7. armed \subseteq armed /\ lastTask \in lastTask..MaxTasks BY <1>2 DEF CallReady
<1>. QED BY <1>3, <1>4, <1>5, <1>6, <1>7, SettledStep

\* ReleaseInfo::copy() gives the new object a countdown of its own: the copy is
\* ready to be settled.
LEMMA CopyReady ==
    ASSUME Inv, NEW i \in Item, NEW j \in Item, info[i] # NoInfo, IsReleased(info[i]),
           lastTask < MaxTasks
    PROVE  CallReady(j, [info[i] EXCEPT !.task = lastTask + 1],
                 armed \cup {[task |-> lastTask + 1, item |-> j,
                              due |-> info[i].expiration]}, lastTask + 1)
<1>. DEFINE y   == [info[i] EXCEPT !.task = lastTask + 1]
            new == [task |-> lastTask + 1, item |-> j, due |-> info[i].expiration]
            arm == armed \cup {new}
<1>1. TypeOK /\ Sane(info[i]) /\ Booked(armed, lastTask) BY DEF Inv
<1>a. lastTask \in 0..MaxTasks BY <1>1 DEF TypeOK
<1>2. lastTask \in Nat /\ MaxTasks \in Nat /\ MaxTime \in Nat
  BY <1>a, ItemAssumption
<1>3. lastTask + 1 \in 1..MaxTasks /\ lastTask + 1 \in 0..MaxTasks
      /\ lastTask + 1 \in lastTask..MaxTasks
  BY <1>2
<1>4. info[i] \in Infos BY <1>1 DEF TypeOK
<1>5. /\ y \in Infos /\ y.task = lastTask + 1 /\ y.breakTime = info[i].breakTime
      /\ y.delay = info[i].delay /\ y.expiration = info[i].expiration
  BY <1>3, <1>4 DEF Infos
<1>6. info[i].expiration \in 0..MaxTime
  <2>1. info[i].expiration \in 0..Never BY <1>4 DEF Infos
  <2>2. info[i].expiration <= MaxTime BY <1>1 DEF Sane
  <2>. QED BY <1>2, <2>1, <2>2 DEF Never
<1>7. new \in Expiry /\ new.task = lastTask + 1 /\ new.item = j /\ new.due = info[i].expiration
  BY <1>3, <1>6 DEF Expiry
<1>. HIDE DEF y, new
<1>8. Sane(y) BY <1>1, <1>5 DEF Sane, IsReleased
<1>9. armed \in SUBSET Expiry /\ Queued \in SUBSET Expiry BY <1>1, QueuedType DEF TypeOK
<1>10. \A e \in armed \cup Queued : e.task \in Nat BY <1>9 DEF Expiry
<1>11. \A e \in armed \cup Queued : e.task <= lastTask BY <1>1 DEF Booked
<1>12. \A e \in armed \cup Queued : e.task # new.task BY <1>2, <1>7, <1>10, <1>11
<1>13. Booked(arm, lastTask + 1)
  <2>1. \A e \in arm \cup Queued : e.task <= lastTask + 1
    BY <1>2, <1>7, <1>10, <1>11
  <2>2. \A e, f \in arm \cup Queued : e.task = f.task => e = f BY <1>1, <1>12 DEF Booked
  <2>. QED BY <2>1, <2>2 DEF Booked
<1>14. Owns(j, y, arm) BY <1>5, <1>7, <1>12 DEF Owns
<1>15. ASSUME NEW k \in Item \ {j} PROVE Owns(k, info[k], arm)
  <2>1. Owns(k, info[k], armed) BY DEF Inv
  <2>2. info[k] \in Infos /\ info[k].task <= lastTask BY <1>1 DEF TypeOK
  <2>3. info[k].task \in Nat BY <2>2 DEF Infos
  <2>4. new.task # info[k].task BY <1>2, <1>7, <2>2, <2>3
  <2>. QED BY <2>1, <2>4 DEF Owns
<1>16. arm \in SUBSET Expiry BY <1>7, <1>9
<1>17. y.task <= lastTask + 1 BY <1>2, <1>5
<1>18. CallReady(j, y, arm, lastTask + 1)
  BY <1>1, <1>3, <1>5, <1>8, <1>13, <1>14, <1>15, <1>16, <1>17 DEF CallReady
<1>. QED BY <1>18 DEF y, new

\* The copy of a countdown that is held, or of none, has no task.
LEMMA HeldCopyReady ==
    ASSUME Inv, NEW i \in Item, NEW j \in Item, info[i] = NoInfo \/ ~IsReleased(info[i])
    PROVE  CallReady(j, [info[i] EXCEPT !.task = 0], armed, lastTask)
<1>. DEFINE y == [info[i] EXCEPT !.task = 0]
<1>1. /\ TypeOK /\ Sane(info[i]) /\ Booked(armed, lastTask)
      /\ \A k \in Item : Owns(k, info[k], armed)
  BY DEF Inv
<1>2. lastTask \in 0..MaxTasks /\ MaxTasks \in Nat BY <1>1, ItemAssumption DEF TypeOK
<1>a. 0 \in 0..MaxTasks BY <1>2
<1>3. info[i] \in Infos /\ 0 \in 0..MaxTasks BY <1>1, <1>a DEF TypeOK
<1>4. /\ y \in Infos /\ y.task = 0 /\ y.breakTime = info[i].breakTime
      /\ y.delay = info[i].delay /\ y.expiration = info[i].expiration
  BY <1>3 DEF Infos
<1>5. info[i] = NoInfo => y = NoInfo BY DEF NoInfo
<1>. HIDE DEF y
<1>6. Sane(y) BY <1>1, <1>4, <1>5 DEF Sane, IsReleased
<1>7. armed \in SUBSET Expiry /\ Queued \in SUBSET Expiry BY <1>1, QueuedType DEF TypeOK
<1>8. \A e \in armed \cup Queued : e.task \in 1..MaxTasks BY <1>7 DEF Expiry
<1>9. Owns(j, y, armed) BY <1>2, <1>4, <1>8 DEF Owns
<1>10. y.task <= lastTask /\ lastTask \in lastTask..MaxTasks BY <1>2, <1>4
<1>11. CallReady(j, y, armed, lastTask)
  BY <1>1, <1>4, <1>6, <1>7, <1>9, <1>10 DEF CallReady
<1>. QED BY <1>11 DEF y

\* A new object takes over the countdown of another and is put somewhere.
LEMMA CopyStep ==
    ASSUME Inv, NEW i \in Item, NEW j \in Item, NEW where \in {"tile", "held"},
           NEW d \in Delays, NEW left \in {place[i], "gone"}, Copy(i, left, j, where, d)
    PROVE  Inv'
<1>1. TypeOK BY DEF Inv
<1>2. /\ Present(i) /\ place[j] = "none"
      /\ place' = [place EXCEPT ![i] = left, ![j] = where]
      /\ delay' = [delay EXCEPT ![j] = d]
      /\ UNCHANGED <<now, queue, failed>>
  BY DEF Copy
<1>3. i # j BY <1>2 DEF Present
<1>4. place' \in [Item -> {"none", "tile", "held", "gone"}] /\ delay' \in [Item -> Delays]
  BY <1>1, <1>2 DEF TypeOK
<1>5. /\ place'[j] = where /\ delay'[j] = d
      /\ \A k \in Item \ {j} : /\ place'[k] = "gone" \/ place'[k] = place[k]
                               /\ delay'[k] = delay[k]
  BY <1>1, <1>2, <1>3 DEF TypeOK
<1>6. lastTask \in 0..MaxTasks /\ MaxTasks \in Nat BY <1>1, ItemAssumption DEF TypeOK
<1>7. CASE info[i] # NoInfo /\ IsReleased(info[i])
  <2>. DEFINE inf == [info[i] EXCEPT !.task = lastTask + 1]
              arm == armed \cup {[task |-> lastTask + 1, item |-> j,
                                  due |-> info[i].expiration]}
  <2>1. lastTask < MaxTasks /\ Settle(j, inf, where, d, arm, lastTask + 1)
    BY <1>7 DEF Copy
  <2>2. CallReady(j, inf, arm, lastTask + 1) BY <1>7, <2>1, CopyReady
  <2>3. armed \subseteq arm OBVIOUS
  <2>. HIDE DEF inf, arm
  <2>4. PICK y : /\ Settled(j, y, arm, lastTask + 1)
                 /\ where = "tile" /\ IsReleasable(d) =>
                        IsReleased(y) /\ Alive(y.task, armed')
                 /\ where # "tile" => y = NoInfo \/ ~IsReleased(y)
    BY <1>2, <2>1, <2>2, SettleSettles
  <2>5. lastTask + 1 \in lastTask..MaxTasks BY <1>6, <2>1
  <2>. QED BY <1>2, <1>4, <1>5, <2>3, <2>4, <2>5, SettledStep
<1>8. CASE ~(info[i] # NoInfo /\ IsReleased(info[i]))
  <2>. DEFINE inf == [info[i] EXCEPT !.task = 0]
  <2>1. Settle(j, inf, where, d, armed, lastTask) BY <1>8 DEF Copy
  <2>2. CallReady(j, inf, armed, lastTask) BY <1>8, HeldCopyReady
  <2>. HIDE DEF inf
  <2>3. PICK y : /\ Settled(j, y, armed, lastTask)
                 /\ where = "tile" /\ IsReleasable(d) =>
                        IsReleased(y) /\ Alive(y.task, armed')
                 /\ where # "tile" => y = NoInfo \/ ~IsReleased(y)
    BY <1>2, <2>1, <2>2, SettleSettles
  <2>4. armed \subseteq armed /\ lastTask \in lastTask..MaxTasks BY <1>6
  <2>. QED BY <1>2, <1>4, <1>5, <2>3, <2>4, SettledStep
<1>. QED BY <1>7, <1>8

\* A step that changes nothing, but that the assertion of ReleaseInfo::copy() may
\* end the process.
LEMMA IdleStep ==
    ASSUME Inv, UNCHANGED <<now, place, delay, info, armed, queue, lastTask>>,
           failed' \in {failed, "copied"}
    PROVE  Inv'
<1>1. UNCHANGED <<now, place, delay, info, armed, queue, lastTask>> OBVIOUS
<1>2. Queued' = Queued BY <1>1 DEF Queued
<1>3. TypeOK' BY <1>1 DEF Inv, TypeOK
<1>4. Booked(armed, lastTask)' BY <1>1, <1>2 DEF Inv, Booked
<1>5. ASSUME NEW k \in Item
      PROVE  Sane(info[k])' /\ Owns(k, info[k], armed)' /\ Watched(k)'
  <2>1. Sane(info[k]) /\ Owns(k, info[k], armed) /\ Watched(k) BY DEF Inv
  <2>2. Sane(info[k])' BY <1>1, <2>1 DEF Sane, IsReleased
  <2>3. Owns(k, info[k], armed)' BY <1>1, <1>2, <2>1 DEF Owns
  <2>4. Alive(info[k].task, armed)' <=> Alive(info[k].task, armed)
    BY <1>1, <1>2 DEF Alive
  <2>5. Watched(k)' BY <1>1, <2>1, <2>4 DEF Watched, IsReleased, IsReleasable
  <2>. QED BY <2>2, <2>3, <2>5
<1>. QED BY <1>3, <1>4, <1>5 DEF Inv

\* An item that is removed lies nowhere; its task stays.
LEMMA RemoveStep ==
    ASSUME Inv, NEW i \in Item, Removal(i) PROVE Inv'
<1>1. /\ UNCHANGED <<now, delay, info, armed, queue, lastTask, failed>>
      /\ place' = [place EXCEPT ![i] = "gone"]
  BY DEF Removal
<1>2. Queued' = Queued BY <1>1 DEF Queued
<1>3. TypeOK' BY <1>1 DEF Inv, TypeOK
<1>4. Booked(armed, lastTask)' BY <1>1, <1>2 DEF Inv, Booked
<1>5. ASSUME NEW k \in Item
      PROVE  Sane(info[k])' /\ Owns(k, info[k], armed)' /\ Watched(k)'
  <2>1. Sane(info[k]) /\ Owns(k, info[k], armed) /\ Watched(k) BY DEF Inv
  <2>2. Sane(info[k])' BY <1>1, <2>1 DEF Sane, IsReleased
  <2>3. Owns(k, info[k], armed)' BY <1>1, <1>2, <2>1 DEF Owns
  <2>4. place'[k] = "gone" \/ place'[k] = place[k] BY <1>1 DEF Inv, TypeOK
  <2>5. Alive(info[k].task, armed)' <=> Alive(info[k].task, armed)
    BY <1>1, <1>2 DEF Alive
  <2>6. Watched(k)' BY <1>1, <2>1, <2>4, <2>5 DEF Watched, IsReleased, IsReleasable
  <2>. QED BY <2>2, <2>3, <2>6
<1>. QED BY <1>3, <1>4, <1>5 DEF Inv

\* The scheduler hands a task over: it is as alive in the queue as it was armed.
LEMMA ExpireStep ==
    ASSUME Inv, NEW e \in armed, Expire(e) PROVE Inv'
<1>1. /\ UNCHANGED <<now, place, delay, info, lastTask, failed>>
      /\ armed' = armed \ {e}
      /\ queue' = Append(queue, e)
  BY DEF Expire
<1>2. TypeOK /\ e \in Expiry BY DEF Inv, TypeOK
<1>3. Queued' = Queued \cup {e} BY <1>1, <1>2, QueuedAppend
<1>4. armed' \cup Queued' = armed \cup Queued BY <1>1, <1>3
<1>5. queue' \in Seq(Expiry)
  <2>1. queue \in Seq(Expiry) BY <1>2 DEF TypeOK
  <2>. QED BY <1>1, <1>2, <2>1, AppendProperties
<1>6. TypeOK' BY <1>1, <1>5 DEF Inv, TypeOK
<1>7. Booked(armed, lastTask)' BY <1>1, <1>4 DEF Inv, Booked
<1>8. ASSUME NEW k \in Item
      PROVE  Sane(info[k])' /\ Owns(k, info[k], armed)' /\ Watched(k)'
  <2>1. Sane(info[k]) /\ Owns(k, info[k], armed) /\ Watched(k) BY DEF Inv
  <2>2. Sane(info[k])' BY <1>1, <2>1 DEF Sane, IsReleased
  <2>3. Owns(k, info[k], armed)' BY <1>1, <1>4, <2>1 DEF Owns
  <2>4. Alive(info[k].task, armed)' <=> Alive(info[k].task, armed)
    BY <1>1, <1>4 DEF Alive
  <2>5. Watched(k)' BY <1>1, <2>1, <2>4 DEF Watched, IsReleased, IsReleasable
  <2>. QED BY <2>2, <2>3, <2>5
<1>. QED BY <1>6, <1>7, <1>8 DEF Inv

\* Time passes.
LEMMA TickStep ==
    ASSUME Inv, Tick PROVE Inv'
<1>1. /\ UNCHANGED <<place, delay, info, armed, queue, lastTask, failed>>
      /\ now' = now + 1 /\ now < MaxTime
  BY DEF Tick
<1>2. TypeOK BY DEF Inv
<1>3. Queued' = Queued BY <1>1 DEF Queued
<1>4. now \in 0..MaxTime /\ MaxTime \in Nat BY <1>2, ItemAssumption DEF TypeOK
<1>5. now' \in 0..MaxTime BY <1>1, <1>4
<1>6. TypeOK' BY <1>1, <1>2, <1>5 DEF TypeOK
<1>7. Booked(armed, lastTask)' BY <1>1, <1>3 DEF Inv, Booked
<1>8. ASSUME NEW k \in Item
      PROVE  Sane(info[k])' /\ Owns(k, info[k], armed)' /\ Watched(k)'
  <2>1. Sane(info[k]) /\ Owns(k, info[k], armed) /\ Watched(k) BY DEF Inv
  <2>2. info[k] \in Infos BY <1>2 DEF TypeOK
  <2>3. /\ info[k].breakTime \in 0..Never /\ info[k].expiration \in 0..Never
        /\ info[k].delay \in Delays \cup {0}
    BY <2>2 DEF Infos
  <2>4. /\ info[k].breakTime \in Nat /\ info[k].expiration \in Nat
        /\ info[k].delay \in Nat
    <3>1. \A z \in Delays \cup {0} : z \in Nat BY ItemAssumption
    <3>2. \A z \in 0..Never : z \in Nat BY <1>4 DEF Never
    <3>. QED BY <2>3, <3>1, <3>2
  <2>5. ASSUME info[k].breakTime = Never, info[k].expiration <= now + info[k].delay
        PROVE  info[k].expiration <= now' + info[k].delay
    BY <1>1, <1>4, <2>4, <2>5
  <2>6. info[k].breakTime <= now => info[k].breakTime <= now' BY <1>1, <1>4, <2>4
  <2>7. info'[k] = info[k] BY <1>1
  <2>8. Sane(info[k])' BY <2>1, <2>5, <2>6, <2>7 DEF Sane, IsReleased
  <2>9. Owns(k, info[k], armed)' BY <1>1, <1>3, <2>1 DEF Owns
  <2>10. Alive(info[k].task, armed)' <=> Alive(info[k].task, armed)
    BY <1>1, <1>3 DEF Alive
  <2>11. Watched(k)' BY <1>1, <2>1, <2>10 DEF Watched, IsReleased, IsReleasable
  <2>. QED BY <2>8, <2>9, <2>11
<1>. QED BY <1>6, <1>7, <1>8 DEF Inv

\* A step that executes a task: the item the task tests may lose it, and has
\* nothing to be watched for then; no other item does.
LEMMA TestStep ==
    ASSUME Inv, TestExpiration PROVE Inv'
<1>. DEFINE t == Head(queue)
            i == t.item
<1>1. TypeOK BY DEF Inv
<1>2. /\ queue # <<>> /\ queue' = Tail(queue) /\ failed = ""
      /\ UNCHANGED <<now, delay, armed, lastTask>>
  BY DEF TestExpiration
<1>3. /\ t \in Queued
      /\ queue' \in Seq(Expiry)
      /\ Queued = Queued' \cup {t}
  BY <1>1, <1>2, QueuedTail
<1>4. t \in Expiry BY <1>1, <1>3, QueuedType
<1>5. i \in Item /\ t.task \in 1..MaxTasks BY <1>4 DEF Expiry
<1>6. armed' \cup Queued' \subseteq armed \cup Queued BY <1>2, <1>3
<1>7. Booked(armed, lastTask)' BY <1>2, <1>6 DEF Inv, Booked
<1>8. MaxTasks \in Nat /\ MaxTime \in Nat /\ NoInfo \in Infos
  <2>1. MaxTasks \in Nat /\ MaxTime \in Nat BY ItemAssumption
  <2>2. Never \in 0..Never /\ 0 \in 0..MaxTasks /\ 0 \in Delays \cup {0}
    BY <2>1 DEF Never
  <2>. QED BY <2>1, <2>2 DEF NoInfo, Infos
<1>. HIDE DEF t
\* The four branches.
<1>9. \/ info[i] = NoInfo /\ UNCHANGED <<place, info, failed>>
      \/ /\ ~IsReleased(info[i]) \/ ~IsReleasable(delay[i])
         /\ info' = [info EXCEPT ![i] = NoInfo]
         /\ UNCHANGED <<place, failed>>
      \/ /\ info[i] # NoInfo /\ IsReleased(info[i])
         /\ failed' = "expired" /\ UNCHANGED <<place, info>>
      \/ /\ info[i] # NoInfo /\ IsReleased(info[i])
         /\ place' = [place EXCEPT ![i] = IF Present(i) THEN "gone" ELSE @]
         /\ UNCHANGED <<info, failed>>
  BY DEF TestExpiration, t
<1>10. /\ info' \in [Item -> Infos]
       /\ \A k \in Item : info'[k] = info[k] \/ (k = i /\ info'[k] = NoInfo)
  BY <1>1, <1>5, <1>8, <1>9 DEF TypeOK
<1>11. /\ place' \in [Item -> {"none", "tile", "held", "gone"}]
       /\ \A k \in Item : place'[k] = place[k] \/ (k = i /\ place'[k] = "gone")
  BY <1>1, <1>5, <1>9 DEF TypeOK
<1>12. failed' \in {"", "expired", "copied"} BY <1>1, <1>9 DEF TypeOK
<1>13. \A k \in Item : info'[k].task <= lastTask'
  <2>1. lastTask \in 0..MaxTasks BY <1>1 DEF TypeOK
  <2>2. NoInfo.task <= lastTask BY <1>8, <2>1 DEF NoInfo
  <2>. QED BY <1>1, <1>2, <1>10, <2>2 DEF TypeOK
<1>14. TypeOK' BY <1>1, <1>2, <1>3, <1>10, <1>11, <1>12, <1>13 DEF TypeOK
<1>15. ASSUME NEW k \in Item
       PROVE  Sane(info[k])' /\ Owns(k, info[k], armed)' /\ Watched(k)'
  <2>1. Sane(info[k]) /\ Owns(k, info[k], armed) /\ Watched(k) BY DEF Inv
  <2>2. Sane(info[k])'
    <3>1. CASE info'[k] = info[k] BY <1>2, <2>1, <3>1 DEF Sane, IsReleased
    <3>2. CASE info'[k] = NoInfo BY <3>2 DEF Sane
    <3>. QED BY <1>10, <3>1, <3>2
  <2>3. Owns(k, info[k], armed)'
    <3>1. CASE info'[k] = info[k] BY <1>6, <2>1, <3>1 DEF Owns
    <3>2. CASE info'[k] = NoInfo
      <4>1. armed \in SUBSET Expiry /\ Queued \in SUBSET Expiry
        BY <1>1, QueuedType DEF TypeOK
      <4>2. \A e \in armed' \cup Queued' : e.task \in 1..MaxTasks
        BY <1>6, <4>1 DEF Expiry
      <4>3. \A e \in armed' \cup Queued' : e.task # 0 BY <1>8, <4>2
      <4>4. info'[k].task = 0 BY <3>2 DEF NoInfo
      <4>. QED BY <4>3, <4>4 DEF Owns
    <3>. QED BY <1>10, <3>1, <3>2
  <2>4. ASSUME info[k].task # t.task, info'[k] = info[k], Alive(info[k].task, armed)
        PROVE  Alive(info[k].task, armed)'
    <3>1. PICK e \in armed \cup Queued : e.task = info[k].task BY <2>4 DEF Alive
    <3>2. e # t BY <2>4, <3>1
    <3>3. e \in armed' \cup Queued' BY <1>2, <1>3, <3>2
    <3>. QED BY <2>4, <3>1, <3>3 DEF Alive
  <2>5. info[k].task = t.task => k = i BY <1>3, <2>1 DEF Owns
  <2>6. CASE k # i
    <3>1. info'[k] = info[k] /\ place'[k] = place[k] /\ delay'[k] = delay[k]
      BY <1>2, <1>10, <1>11, <2>6
    <3>2. info[k].task # t.task BY <2>5, <2>6
    <3>3. Alive(info[k].task, armed) => Alive(info[k].task, armed)'
      BY <2>4, <3>1, <3>2
    <3>4. (place[k] = "held" => info[k] = NoInfo \/ ~IsReleased(info[k]))'
      BY <2>1, <3>1 DEF Watched, IsReleased
    <3>5. (place[k] = "tile" /\ IsReleasable(delay[k]))' =>
              IsReleased(info[k])' /\ Alive(info[k].task, armed)
      BY <1>2, <2>1, <3>1 DEF Watched, IsReleased, IsReleasable
    <3>6. Watched(k)' BY <3>3, <3>4, <3>5 DEF Watched
    <3>. QED BY <2>2, <2>3, <3>6
  <2>7. CASE k = i
    <3>1. delay'[k] = delay[k] BY <1>2
    <3>2. ASSUME info[i] = NoInfo, UNCHANGED <<place, info, failed>>
          PROVE  Watched(k)'
      <4>1. info[k].task # t.task BY <1>5, <2>7, <3>2 DEF NoInfo
      <4>2. Alive(info[k].task, armed) => Alive(info[k].task, armed)'
        BY <2>4, <3>2, <4>1
      <4>. QED BY <2>1, <3>1, <3>2, <4>2 DEF Watched, IsReleased, IsReleasable
    <3>3. ASSUME ~IsReleased(info[i]) \/ ~IsReleasable(delay[i]),
                 info' = [info EXCEPT ![i] = NoInfo], UNCHANGED <<place, failed>>
          PROVE  Watched(k)'
      <4>1. info'[k] = NoInfo /\ place'[k] = place[k]
        BY <1>1, <2>7, <3>3 DEF TypeOK
      <4>2. ~(place[k] = "tile" /\ IsReleasable(delay[k]))
        BY <2>1, <2>7, <3>3 DEF Watched
      <4>. QED BY <3>1, <4>1, <4>2 DEF Watched, IsReleasable
    <3>4. ASSUME info[i] # NoInfo, IsReleased(info[i]), failed' = "expired",
                 UNCHANGED <<place, info>>
          PROVE  Watched(k)'
      <4>1. place[k] # "held" BY <2>1, <2>7, <3>4 DEF Watched
      <4>. QED BY <2>7, <3>4, <4>1 DEF Watched, IsReleased
    <3>5. ASSUME info[i] # NoInfo, IsReleased(info[i]),
                 place' = [place EXCEPT ![i] = IF Present(i) THEN "gone" ELSE @]
          PROVE  Watched(k)'
      <4>1. place'[k] # "tile" /\ place'[k] # "held"
        BY <1>1, <2>7, <3>5 DEF Present, TypeOK
      <4>. QED BY <4>1 DEF Watched
    <3>6. Watched(k)' BY <1>9, <3>2, <3>3, <3>4, <3>5
    <3>. QED BY <2>2, <2>3, <3>6
  <2>. QED BY <2>6, <2>7
<1>. QED BY <1>7, <1>14, <1>15 DEF Inv

\* The invariant holds in every reachable state.
THEOREM Invariant == Spec => []Inv
<1>1. Init => Inv
  <2>. SUFFICES ASSUME Init PROVE Inv OBVIOUS
  <2>1. MaxTime \in Nat /\ MaxTasks \in Nat BY ItemAssumption
  <2>2. 0 \in 0..MaxTime /\ 0 \in 0..MaxTasks /\ Never \in 0..Never
        /\ 0 \in Delays \cup {0}
    BY <2>1 DEF Never
  <2>3. NoInfo \in Infos /\ NoInfo.task = 0 BY <2>2 DEF NoInfo, Infos
  <2>4. \A k \in Item : info[k] = NoInfo BY DEF Init
  <2>5. queue = <<>> /\ armed = {} BY DEF Init
  <2>6. Queued = {} BY <2>5 DEF Queued
  <2>7. TypeOK
    <3>1. info \in [Item -> Infos] BY <2>3 DEF Init
    <3>2. queue \in Seq(Expiry) BY <2>5
    <3>3. \A k \in Item : info[k].task <= lastTask
      <4>1. lastTask = 0 /\ \A k \in Item : info[k].task = 0 BY <2>3, <2>4 DEF Init
      <4>. QED BY <4>1
    <3>4. now \in 0..MaxTime /\ lastTask \in 0..MaxTasks BY <2>2 DEF Init
    <3>. QED BY <3>1, <3>2, <3>3, <3>4 DEF Init, TypeOK
  <2>8. Booked(armed, lastTask) BY <2>5, <2>6 DEF Booked
  <2>9. ASSUME NEW k \in Item
        PROVE  Sane(info[k]) /\ Owns(k, info[k], armed) /\ Watched(k)
    <3>1. place[k] = "none" BY DEF Init
    <3>. QED BY <2>4, <2>5, <2>6, <3>1 DEF Sane, Owns, Watched
  <2>. QED BY <2>7, <2>8, <2>9 DEF Inv
<1>2. Inv /\ [Next]_vars => Inv'
  <2>. SUFFICES ASSUME Inv, [Next]_vars PROVE Inv' OBVIOUS
  <2>1. ASSUME NEW i \in Item, NEW where \in {"tile", "held"}, Put(i, where) PROVE Inv'
    BY <2>1, PutStep
  <2>2. ASSUME NEW i \in Item, NEW d \in Delays, Transform(i, d) PROVE Inv'
    BY <2>2, TransformStep
  <2>3. ASSUME NEW i \in Item, NEW j \in Item, NEW where \in {"tile", "held"},
               NEW d \in Delays, NEW left \in {place[i], "gone"},
               Copy(i, left, j, where, d)
        PROVE  Inv'
    BY <2>3, CopyStep
  <2>4. ASSUME NEW i \in Item, CopyFails(i) PROVE Inv'
    BY <2>4, IdleStep DEF CopyFails
  <2>5. ASSUME NEW i \in Item, Removal(i) PROVE Inv' BY <2>5, RemoveStep
  <2>6. ASSUME TestExpiration PROVE Inv' BY <2>6, TestStep
  <2>7. ASSUME NEW e \in armed, Expire(e) PROVE Inv' BY <2>7, ExpireStep
  <2>8. ASSUME Tick PROVE Inv' BY <2>8, TickStep
  <2>9. ASSUME UNCHANGED vars PROVE Inv'
    BY <2>9, IdleStep DEF vars
  <2>. QED BY <2>1, <2>2, <2>3, <2>4, <2>5, <2>6, <2>7, <2>8, <2>9 DEF Next
<1>. QED BY <1>1, <1>2, PTL DEF Spec

-------------------------------------------------------------------------------
(* The theorems. *)

\* An item that lies on a tile and can expire is counted down by a live task of
\* its own, armed for its time, and by no more than its delay, however often it
\* was picked up, put down, transformed or copied (Item::ReleaseInfo::release).
THEOREM TileItemsAreCounted == Spec => []TileItemCounted
<1>1. Inv => TileItemCounted
  <2>. SUFFICES ASSUME Inv PROVE TileItemCounted OBVIOUS
  <2>1. TypeOK BY DEF Inv
  <2>2. TileItemHasTask
    <3>. SUFFICES ASSUME NEW i \in Item,
                         place[i] = "tile" /\ IsReleasable(delay[i]) /\ failed = ""
                  PROVE  /\ IsReleased(info[i])
                         /\ \E e \in armed \cup Queued :
                                /\ e.task = info[i].task
                                /\ e.item = i
                                /\ e.due = info[i].expiration
      BY DEF TileItemHasTask
    <3>1. Watched(i) /\ Owns(i, info[i], armed) BY DEF Inv
    <3>2. IsReleased(info[i]) /\ Alive(info[i].task, armed) BY <3>1 DEF Watched
    <3>. QED BY <3>1, <3>2 DEF Alive, Owns
  <2>3. CountdownBounded
    <3>. SUFFICES ASSUME NEW i \in Item, info[i] # NoInfo, place[i] = "tile",
                         IsReleasable(delay[i])
                  PROVE  info[i].expiration <= now + info[i].delay
      BY DEF CountdownBounded
    <3>1. Watched(i) /\ Sane(info[i]) BY DEF Inv
    <3>. QED BY <3>1 DEF Watched, Sane
  <2>. QED BY <2>1, <2>2, <2>3 DEF TileItemCounted
<1>. QED BY <1>1, Invariant, PTL

\* A task of an earlier release never takes an item that was picked up or can no
\* longer expire (the tests in Item::testReleaseExpiration).
THEOREM ExpirySparesHeldItems == Spec => ExpiryOnlyOnTiles
<1>. DEFINE A == \A i \in Item : Len(queue') < Len(queue) /\ place'[i] # place[i]
                     => place[i] = "tile" /\ IsReleasable(delay[i])
<1>1. Inv /\ [Next]_vars => [A]_vars
  <2>. SUFFICES ASSUME Inv, Next, NEW i \in Item, Len(queue') < Len(queue),
                       place'[i] # place[i]
                PROVE  place[i] = "tile" /\ IsReleasable(delay[i])
    OBVIOUS
  <2>1. TypeOK /\ queue \in Seq(Expiry) /\ Len(queue) \in Nat
    BY LenProperties DEF Inv, TypeOK
  <2>2. queue' # queue BY <2>1
  <2>3. ASSUME NEW e \in armed, Expire(e) PROVE FALSE
    <3>1. queue' = Append(queue, e) /\ e \in Expiry BY <2>1, <2>3 DEF Expire, TypeOK
    <3>2. Len(queue') = Len(queue) + 1 BY <2>1, <3>1, AppendProperties
    <3>. QED BY <2>1, <3>2
  <2>4. TestExpiration
    BY <2>2, <2>3 DEF Next, Put, Transform, Copy, CopyFails, Removal, Tick
  <2>. DEFINE t == Head(queue)
  <2>5. t \in Expiry
    <3>1. queue # <<>> /\ queue' = Tail(queue) BY <2>4 DEF TestExpiration
    <3>2. t \in Queued BY <2>1, <3>1, QueuedTail
    <3>. QED BY <2>1, <3>2, QueuedType
  <2>6. t.item \in Item BY <2>5 DEF Expiry
  <2>7. /\ info[t.item] # NoInfo
        /\ IsReleased(info[t.item]) /\ IsReleasable(delay[t.item])
        /\ place' = [place EXCEPT ![t.item] = IF Present(t.item) THEN "gone" ELSE @]
    BY <2>4 DEF TestExpiration
  <2>. HIDE DEF t
  <2>8. t.item = i /\ Present(i) BY <2>1, <2>6, <2>7 DEF TypeOK
  <2>9. Watched(i) BY DEF Inv
  <2>10. place[i] # "held" BY <2>7, <2>8, <2>9 DEF Watched
  <2>. QED BY <2>7, <2>8, <2>10 DEF Present
<1>. QED BY <1>1, Invariant, PTL DEF Spec, ExpiryOnlyOnTiles

-------------------------------------------------------------------------------
(* Trades.  Whatever becomes of the things, nobody's offer and nobody's place  *)
(* is written but by the handlers of the trade: first for every operator of    *)
(* Cylinders that a trade goes through.                                        *)

Trader == {"at", "offer"}
Kept(w, v) == Trader \subseteq DOMAIN w =>
    Trader \subseteq DOMAIN v /\ v.at = w.at /\ v.offer = w.offer

\* Nothing done, nothing written.
LEMMA KeptSelf == ASSUME NEW w PROVE Kept(w, w)
BY DEF Kept

\* Two operations in a row write no more than each of them.
LEMMA KeptTrans ==
    ASSUME NEW u, NEW v, NEW w, Kept(u, v), Kept(v, w)
    PROVE  Kept(u, w)
BY DEF Kept

\* What each operator writes.
LEMMA KeptWrite ==
    ASSUME NEW w, NEW e
    PROVE  /\ Kept(w, [w EXCEPT !.kind = e]) /\ Kept(w, [w EXCEPT !.count = e])
           /\ Kept(w, [w EXCEPT !.parent = e]) /\ Kept(w, [w EXCEPT !.inside = e])
           /\ Kept(w, [w EXCEPT !.slot = e]) /\ Kept(w, [w EXCEPT !.total = e])
           /\ Kept(w, [w EXCEPT !.carried = e]) /\ Kept(w, [w EXCEPT !.open = e])
           /\ Kept(w, [w EXCEPT !.ledger = e])
BY DEF Kept, Trader

\* The client's counters are not a trader's.
LEMMA BumpKept == ASSUME NEW w, NEW c, NEW d PROVE Kept(w, Bump(w, c, d))
BY KeptWrite DEF Bump

\* Cylinder::__updateThing changes an item's kind and count.
LEMMA UpdateKept ==
    ASSUME NEW w, NEW i, NEW k, NEW n PROVE Kept(w, UpdateThing(w, i, k, n))
<1>. DEFINE u == [w EXCEPT !.kind[i] = k, !.count[i] = n]
<1>1. Kept(w, u) BY DEF Kept, Trader
<1>. HIDE DEF u
<1>2. ASSUME NEW c, NEW d PROVE Kept(w, Bump(u, c, d)) BY <1>1, BumpKept, KeptTrans
<1>3. UpdateThing(w, i, k, n) \in {u, Bump(u, w.parent[i], Weight(u, i) - Weight(w, i))}
  BY DEF UpdateThing, u
<1>. QED BY <1>1, <1>2, <1>3

\* Cylinder::__addThing puts an item into a slot or a list.
LEMMA AddKept ==
    ASSUME NEW w, NEW cyl, NEW idx, NEW i PROVE Kept(w, AddThing(w, cyl, idx, i))
<1>1. Kept(w, [w EXCEPT !.parent[i] = cyl, !.slot[cyl][idx] = i]) BY DEF Kept, Trader
<1>. DEFINE u == [w EXCEPT !.parent[i] = cyl, !.inside[cyl] = <<i>> \o @]
<1>2. Kept(w, u) BY DEF Kept, Trader
<1>. HIDE DEF u
<1>3. Kept(w, Bump(u, cyl, Weight(w, i))) BY <1>2, BumpKept, KeptTrans
<1>4. AddThing(w, cyl, idx, i) \in
        {w, [w EXCEPT !.parent[i] = cyl, !.slot[cyl][idx] = i], u, Bump(u, cyl, Weight(w, i))}
  BY DEF AddThing, u
<1>. QED BY <1>1, <1>2, <1>3, <1>4, KeptSelf

\* Cylinder::__removeThing takes it out again.
LEMMA RemoveKept ==
    ASSUME NEW w, NEW cyl, NEW i, NEW n PROVE Kept(w, RemoveThing(w, cyl, i, n))
<1>. DEFINE u == [w EXCEPT !.parent[i] = None]
            a == [u EXCEPT !.slot[cyl][SlotOf(w, cyl, i)] = None]
            b == [u EXCEPT !.inside[cyl] = RemoveAt(@, Index(w, cyl, i))]
            r == UpdateThing(w, i, w.kind[i], w.count[i] - n)
            c == Bump(b, cyl, - Weight(w, i))
<1>1. Kept(w, u) /\ Kept(w, a) /\ Kept(w, b) BY DEF Kept, Trader
<1>2. RemoveThing(w, cyl, i, n) \in {a, b, c, r} BY DEF RemoveThing
<1>3. Kept(w, r) BY UpdateKept
<1>. HIDE DEF u, a, b, r
<1>4. Kept(w, c) BY <1>1, BumpKept, KeptTrans
<1>. QED BY <1>1, <1>2, <1>3, <1>4

\* Items that are freed were nobody's position and nobody's offer field.
LEMMA BlankKept == ASSUME NEW w, NEW S PROVE Kept(w, Blank(w, S))
BY DEF Blank, Kept, Trader

\* Container::updateItemWeight changes weights.
LEMMA WeighKept == ASSUME NEW w, NEW cyl PROVE Kept(w, Weigh(w, cyl))
BY DEF Weigh, Kept, Trader

\* postRemoveNotification weighs and closes windows.
LEMMA RemovedKept == ASSUME NEW w, NEW cyl, NEW i PROVE Kept(w, RemovedNotice(w, cyl, i))
<1>. DEFINE u == Weigh(w, cyl)
            told == IF Root(w, cyl) \in Players THEN {Root(w, cyl)} ELSE Players
            opened == [p \in Players |-> IF IsContainer(w, i) /\ p \in told /\ Loses(w, p, i)
                                         THEN AutoClose(w, p, i) ELSE u.open[p]]
<1>1. Kept(w, u) BY WeighKept
<1>. HIDE DEF u
<1>2. Kept(u, [u EXCEPT !.open = opened]) BY KeptWrite
<1>. HIDE DEF opened
<1>3. RemovedNotice(w, cyl, i) = [u EXCEPT !.open = opened] BY DEF RemovedNotice, u, opened
<1>. QED BY <1>1, <1>2, <1>3, KeptTrans

\* Game::FreeThing of what has no parent left.
LEMMA DiscardKept ==
    ASSUME NEW w, NEW u, NEW i, NEW n PROVE Kept(u, Discard(w, u, i, n))
<1>1. PICK S, e : Discard(w, u, i, n) = [Blank(u, S) EXCEPT !.ledger = e] BY DEF Discard
<1>. QED BY <1>1, BlankKept, KeptWrite, KeptTrans

\* Game::internalRemoveItem.
LEMMA RemoveItemKept == ASSUME NEW w, NEW i, NEW n PROVE Kept(w, RemoveItem(w, i, n))
<1>. DEFINE cyl == w.parent[i]
            u == RemoveThing(w, cyl, i, n)
            v == RemovedNotice(u, cyl, i)
<1>1. Kept(w, u) BY RemoveKept
<1>2. Kept(u, v) BY RemovedKept
<1>3. Kept(v, Discard(w, v, i, n)) BY DiscardKept
<1>4. RemoveItem(w, i, n) \in {w, Discard(w, v, i, n)} BY DEF RemoveItem
<1>. HIDE DEF u, v
<1>. QED BY <1>1, <1>2, <1>3, <1>4, KeptSelf, KeptTrans

\* postAddNotification weighs.
LEMMA AddedKept == ASSUME NEW w, NEW cyl, NEW i PROVE Kept(w, AddedNotice(w, cyl, i))
BY RemoveItemKept, WeighKept DEF AddedNotice

\* A script in the middle of an operation takes an item away, or nothing.
LEMMA ScriptedKept == ASSUME NEW w, NEW v \in Scripted(w) PROVE Kept(w, v)
BY RemoveItemKept, KeptSelf DEF Scripted

\* The second half of Game::internalMoveItem: the merge and the rest.
LEMMA LayDownKept ==
    ASSUME NEW w, NEW u, NEW from, NEW d, NEW i, NEW m, NEW merge
    PROVE  Kept(u, LayDown(w, u, from, d, i, m, merge))
<1>. DEFINE k == w.kind[i]
            j == IF u.parent[i] = None THEN i ELSE Fresh(u)
            v == IF merge = 0 THEN u
                 ELSE UpdateThing(u, d.item, k, u.count[d.item] + merge)
            c == Create(v, j, k, m - merge)
            a == CASE ~Stackable(w, i) -> AddThing(v, d.cyl, d.idx, i)
                   [] m > merge -> AddThing(c, d.cyl, d.idx, j)
                   [] OTHER -> v
            r == RemovedNotice(a, from, i)
            x == IF merge = m /\ Stackable(w, i) THEN d.item ELSE j
<1>1. Kept(u, v) BY UpdateKept, KeptSelf
<1>2. LayDown(w, u, from, d, i, m, merge) = AddedNotice(r, d.cyl, x) BY DEF LayDown
<1>. HIDE DEF v, x
<1>3. Kept(v, c) BY DEF Create, Kept, Trader
<1>. HIDE DEF c
<1>4. a \in {v, AddThing(v, d.cyl, d.idx, i), AddThing(c, d.cyl, d.idx, j)} OBVIOUS
<1>5. Kept(v, a) BY <1>3, <1>4, AddKept, KeptSelf, KeptTrans
<1>. HIDE DEF a
<1>6. Kept(a, r) BY RemovedKept
<1>. HIDE DEF r
<1>7. Kept(r, AddedNotice(r, d.cyl, x)) BY AddedKept
<1>8. Kept(u, a) BY <1>1, <1>5, KeptTrans
<1>9. Kept(u, r) BY <1>6, <1>8, KeptTrans
<1>. QED BY <1>2, <1>7, <1>9, KeptTrans

\* The first half of Game::internalMoveItem: the removal, a script, the rest.
LEMMA TransferKept ==
    ASSUME NEW w, NEW from, NEW d, NEW i, NEW n, NEW v \in Transfer(w, from, d, i, n)
    PROVE  Kept(w, v)
<1>. SUFFICES ASSUME v # w PROVE Kept(w, v) BY KeptSelf
<1>1. PICK m : LET u == RemoveThing(w, from, i, m)
                   l == LayDown(w, u, from, d, i, m, Mergeable(w, d, i, m))
               IN v \in Scripted(Swept(l))
  BY DEF Transfer
<1>. DEFINE u == RemoveThing(w, from, i, m)
            l == LayDown(w, u, from, d, i, m, Mergeable(w, d, i, m))
<1>2. Kept(w, u) BY RemoveKept
<1>3. Kept(u, l) BY LayDownKept
<1>4. Kept(l, Swept(l)) BY BlankKept DEF Swept
<1>5. v \in Scripted(Swept(l)) BY <1>1
<1>. HIDE DEF u, l
<1>6. Kept(Swept(l), v) BY <1>5, ScriptedKept
<1>. QED BY <1>2, <1>3, <1>4, <1>6, KeptTrans

\* Game::internalMoveItem, the exchange of what is worn included.
LEMMA MoveItemKept ==
    ASSUME NEW w, NEW from, NEW cyl, NEW idx, NEW i, NEW n,
           NEW v \in MoveItem(w, from, cyl, idx, i, n)
    PROVE  Kept(w, v)
<1>. DEFINE d == Resolve(w, cyl, idx, i)
            x == d.item
            r == RemoveThing(w, d.cyl, x, Count(w, x))
            out == AddThing(r, from, 0, x)
            told == RemovedNotice(out, d.cyl, x)
            back == SwapBack(told, from, x)
<1>1. Kept(w, r) BY RemoveKept
<1>2. Kept(r, out) BY AddKept
<1>3. Kept(out, told) BY RemovedKept
<1>4. Kept(told, back) BY AddedKept, KeptSelf DEF SwapBack
<1>5. PICK u, e : /\ u = w \/ u \in Scripted(back)
                  /\ v = u \/ v \in Transfer(u, from, e, i, n)
  BY DEF MoveItem, MoveTo
<1>. HIDE DEF r, out, told, back
<1>6. Kept(w, back) BY <1>1, <1>2, <1>3, <1>4, KeptTrans
<1>7. Kept(w, u) BY <1>5, <1>6, ScriptedKept, KeptSelf, KeptTrans
<1>8. Kept(u, v) BY <1>5, TransferKept, KeptSelf
<1>. QED BY <1>7, <1>8, KeptTrans

\* A step of a player writes where he stands.
LEMMA WalkedKept ==
    ASSUME NEW w, Trader \subseteq DOMAIN w, NEW p, NEW t
    PROVE  /\ Trader \subseteq DOMAIN Walked(w, p, t)
           /\ Walked(w, p, t).offer = w.offer
           /\ Walked(w, p, t).at = [w.at EXCEPT ![p] = t]
<1>1. PICK e : LET v == [w EXCEPT !.at[p] = t]
               IN Walked(w, p, t) = [v EXCEPT !.open[p] = e]
  BY DEF Walked
<1>. QED BY <1>1 DEF Trader

\* The traders agree, and the world is one that says where each player stands
\* and what he offers.
TradersInv ==
    /\ TradersAgree
    /\ Trader \subseteq DOMAIN world /\ world.offer \in [Players -> Items \cup {None}]

\* A trade ends for both sides of it: nobody outside of it has to do with one
\* who is in it.
LEMMA ClosedBoth ==
    ASSUME TradersInv, NEW S \in SUBSET Players
    PROVE  /\ Closed(S) \in SUBSET Players
           /\ \A p \in Players \ Closed(S) : partner[p] # None => partner[p] \in Players \ Closed(S)
<1>1. /\ partner \in [Players -> Players \cup {None}]
      /\ \A p \in Players : partner[p] # None => partner[partner[p]] = p
  BY DEF TradersInv, TradersAgree, TradeTypeOK
<1>2. None \notin Players BY ThingAssumption
<1>. QED BY <1>1, <1>2 DEF Closed

\* What stays after the trades of S have ended agrees, if those left are near.
LEMMA CloseTradeStep ==
    ASSUME TradersInv, NEW w, Trader \subseteq DOMAIN w, w.offer = world.offer,
           NEW S \in SUBSET Players, CloseTrade(w, S),
           online' \in SUBSET Players, online \ online' \subseteq Closed(S),
           stopped' \in BOOLEAN,
           \A p \in Players \ Closed(S) :
               partner[p] # None => <<w.at[p], w.at[partner[p]]>> \in Seen
    PROVE  TradersInv'
<1>. DEFINE out == Closed(S)
<1>1. /\ out \in SUBSET Players
      /\ \A p \in Players \ out : partner[p] # None => partner[p] \in Players \ out
  BY ClosedBoth
<1>2. /\ state \in [Players -> States] /\ partner \in [Players -> Players \cup {None}]
      /\ goods \subseteq Items /\ online \subseteq Players
      /\ world.offer \in [Players -> Items \cup {None}]
      /\ None \notin Players \cup Items
  BY ThingAssumption DEF TradersInv, TradersAgree, TradeTypeOK
<1>3. /\ goods = Offered(world)
      /\ \A p \in Players :
           /\ (state[p] = "none") = (partner[p] = None)
           /\ partner[p] # None => /\ partner[partner[p]] = p
                                   /\ {p, partner[p]} \subseteq online
           /\ Offer(p) # None =>
                /\ partner[p] # None /\ state[p] \in {"initiated", "accept"}
                /\ \A q \in Players \ {p} : Offer(q) # Offer(p)
  BY DEF TradersInv, TradersAgree
<1>4. /\ Trader \subseteq DOMAIN world' /\ world'.at = w.at
      /\ world'.offer = [p \in Players |-> IF p \in out THEN None ELSE world.offer[p]]
  BY DEF CloseTrade, Trader
<1>5. /\ goods' = goods \ {world.offer[p] : p \in out}
      /\ state' = [p \in Players |-> IF p \in out THEN "none" ELSE state[p]]
      /\ partner' = [p \in Players |-> IF p \in out THEN None ELSE partner[p]]
  BY DEF CloseTrade
<1>. HIDE DEF out
<1>6. TradeTypeOK' BY <1>2, <1>5 DEF TradeTypeOK, States
<1>7. world'.offer \in [Players -> Items \cup {None}] BY <1>2, <1>4
<1>8. \A p \in Players : Offer(p) = world.offer[p] /\ Offer(p)' = world'.offer[p] BY DEF Offer
<1>9. goods' = Offered(world)'
  <2>1. \A p \in out, q \in Players \ out :
             world.offer[q] # None => world.offer[q] # world.offer[p]
    BY <1>1, <1>3, <1>8
  <2>. QED BY <1>1, <1>3, <1>4, <1>5, <2>1 DEF Offered
<1>10. ASSUME NEW p \in Players
       PROVE  /\ (state'[p] = "none") = (partner'[p] = None)
              /\ partner'[p] # None =>
                     /\ partner'[partner'[p]] = p
                     /\ {p, partner'[p]} \subseteq online'
                     /\ <<world'.at[p], world'.at[partner'[p]]>> \in Seen
  <2>1. CASE p \in out BY <1>5, <2>1
  <2>2. CASE p \notin out
    <3>1. partner'[p] = partner[p] /\ state'[p] = state[p] BY <1>5, <2>2
    <3>2. ASSUME partner[p] # None
          PROVE  /\ partner'[partner[p]] = p /\ {p, partner[p]} \subseteq online'
                 /\ <<world'.at[p], world'.at[partner[p]]>> \in Seen
      <4>1. partner[p] \in Players \ out /\ partner[partner[p]] = p
        BY <1>1, <1>3, <2>2, <3>2
      <4>2. partner'[partner[p]] = p BY <1>5, <4>1
      <4>3. {p, partner[p]} \subseteq online' BY <1>3, <2>2, <3>2, <4>1 DEF out
      <4>. QED BY <1>4, <2>2, <3>2, <4>2, <4>3 DEF out
    <3>. QED BY <1>3, <3>1, <3>2
  <2>. QED BY <2>1, <2>2
<1>11. ASSUME NEW p \in Players, Offer(p)' # None
       PROVE  /\ partner'[p] # None /\ state'[p] \in {"initiated", "accept"}
              /\ \A q \in Players \ {p} : Offer(q)' # Offer(p)'
  <2>1. p \notin out /\ Offer(p)' = Offer(p) BY <1>4, <1>8, <1>11
  <2>2. \A q \in Players : Offer(q)' \in {None, Offer(q)} BY <1>4, <1>8
  <2>. QED BY <1>3, <1>5, <1>11, <2>1, <2>2
<1>. QED BY <1>4, <1>6, <1>7, <1>9, <1>10, <1>11 DEF TradersInv, TradersAgree

\* The same when only the things change.
LEMMA KeptClose ==
    ASSUME TradersInv, NEW w, Kept(world, w), NEW S \in SUBSET Players, CloseTrade(w, S),
           online' = online, stopped' \in BOOLEAN
    PROVE  TradersInv'
<1>1. Trader \subseteq DOMAIN w /\ w.offer = world.offer /\ w.at = world.at
  BY DEF Kept, TradersInv
<1>2. \A p \in Players : partner[p] # None => <<w.at[p], w.at[partner[p]]>> \in Seen
  BY <1>1 DEF TradersInv, TradersAgree
<1>3. online' \in SUBSET Players BY DEF TradersInv, TradersAgree, TradeTypeOK
<1>. QED BY <1>1, <1>2, <1>3, CloseTradeStep

\* Whatever becomes of the things, if it leaves the traders' fields alone: the
\* trades it disturbs are closed on both sides (Player::checkTradeState).
LEMMA ThingsBecomeStep ==
    ASSUME TradersInv, NEW v, Kept(world, v), NEW extra, ThingsBecome(v, extra)
    PROVE  TradersInv'
<1>1. CloseTrade(v, Disturbed(world, v, extra)) /\ online' = online /\ stopped' = stopped
  BY DEF ThingsBecome
<1>2. Disturbed(world, v, extra) \in SUBSET Players BY DEF Disturbed
<1>3. stopped' \in BOOLEAN BY <1>1 DEF TradersInv, TradersAgree, TradeTypeOK
<1>. QED BY <1>1, <1>2, <1>3, KeptClose

\* A request makes both sides of a trade at once.
LEMMA RequestStep ==
    ASSUME TradersInv, NEW p \in Players, NEW q \in Players, NEW i \in Placed(world),
           RequestTrade(p, q, i)
    PROVE  TradersInv'
<1>1. /\ state \in [Players -> States] /\ partner \in [Players -> Players \cup {None}]
      /\ goods \subseteq Items /\ online \subseteq Players /\ stopped \in BOOLEAN
      /\ world.offer \in [Players -> Items \cup {None}]
      /\ i \in Items /\ i # None /\ None \notin Players \cup Items
  BY ThingAssumption DEF TradersInv, TradersAgree, TradeTypeOK, Placed
<1>2. /\ goods = Offered(world)
      /\ \A r \in Players :
           /\ (state[r] = "none") = (partner[r] = None)
           /\ partner[r] # None => /\ partner[partner[r]] = r
                                   /\ {r, partner[r]} \subseteq online
                                   /\ <<world.at[r], world.at[partner[r]]>> \in Seen
           /\ Offer(r) # None =>
                /\ partner[r] # None /\ state[r] \in {"initiated", "accept"}
                /\ \A x \in Players \ {r} : Offer(x) # Offer(r)
  BY DEF TradersInv, TradersAgree
<1>3. /\ p \in online /\ q \in online /\ q # p
      /\ <<world.at[p], world.at[q]>> \in Seen /\ <<world.at[q], world.at[p]>> \in Seen
  <2>1. \A x, y : <<x, y>> \in Seen => <<y, x>> \in Seen
    <3>. SUFFICES ASSUME NEW x, NEW y, <<x, y>> \in Seen PROVE <<y, x>> \in Seen OBVIOUS
    <3>. QED BY TradeAssumption
  <2>. QED BY <2>1 DEF RequestTrade, Ready
<1>4. /\ world' = [world EXCEPT !.offer[p] = i] /\ goods' = goods \cup {i}
      /\ state' = [state EXCEPT ![p] = "initiated",
                                ![q] = IF @ = "none" THEN "acknowledge" ELSE @]
      /\ partner' = [partner EXCEPT ![p] = q, ![q] = p]
      /\ online' = online /\ stopped' = stopped
  BY DEF RequestTrade
<1>5. i \notin goods BY DEF RequestTrade, Traded
<1>6. /\ partner[p] # None => partner[p] = q /\ state[p] = "acknowledge"
      /\ partner[q] # None => partner[q] = p
  BY <1>1, <1>2 DEF RequestTrade, FreeFor
<1>7. /\ Trader \subseteq DOMAIN world' /\ world'.at = world.at
      /\ world'.offer = [world.offer EXCEPT ![p] = i]
  BY <1>4 DEF TradersInv, Trader
<1>8. world'.offer \in [Players -> Items \cup {None}] BY <1>1, <1>7
<1>9. TradeTypeOK'
  <2>1. state' \in [Players -> States] BY <1>1, <1>4 DEF States
  <2>2. partner' \in [Players -> Players \cup {None}] BY <1>1, <1>4
  <2>. QED BY <1>1, <1>4, <2>1, <2>2 DEF TradeTypeOK
<1>10. \A r \in Players : Offer(r) = world.offer[r] /\ Offer(r)' = world'.offer[r] BY DEF Offer
<1>11. world.offer[p] = None BY <1>1, <1>2, <1>6, <1>10
<1>12. goods' = Offered(world)' BY <1>1, <1>2, <1>4, <1>7, <1>11 DEF Offered
<1>13. ASSUME NEW r \in Players
       PROVE  /\ (state'[r] = "none") = (partner'[r] = None)
              /\ partner'[r] # None =>
                     /\ partner'[partner'[r]] = r
                     /\ {r, partner'[r]} \subseteq online'
                     /\ <<world'.at[r], world'.at[partner'[r]]>> \in Seen
  <2>1. CASE r = p
    <3>1. state'[p] = "initiated" /\ partner'[p] = q /\ partner'[q] = p
      BY <1>1, <1>3, <1>4
    <3>. QED BY <1>1, <1>3, <1>4, <1>7, <2>1, <3>1
  <2>2. CASE r = q
    <3>1. state'[q] # "none" /\ partner'[p] = q /\ partner'[q] = p
      BY <1>1, <1>3, <1>4
    <3>. QED BY <1>1, <1>3, <1>4, <1>7, <2>2, <3>1
  <2>3. CASE r # p /\ r # q
    <3>1. state'[r] = state[r] /\ partner'[r] = partner[r] BY <1>1, <1>4, <2>3
    <3>2. ASSUME partner[r] # None PROVE partner'[partner[r]] = r
      <4>1. partner[r] \in Players /\ partner[partner[r]] = r BY <1>1, <1>2, <3>2
      <4>2. partner[r] # p /\ partner[r] # q BY <1>1, <1>6, <2>3, <4>1
      <4>. QED BY <1>1, <1>4, <4>1, <4>2
    <3>3. /\ (state[r] = "none") = (partner[r] = None)
          /\ partner[r] # None =>
                 {r, partner[r]} \subseteq online /\ <<world.at[r], world.at[partner[r]]>> \in Seen
      BY ONLY <1>2
    <3>. QED BY ONLY <1>4, <1>7, <3>1, <3>2, <3>3
  <2>. QED BY <2>1, <2>2, <2>3
<1>14. ASSUME NEW r \in Players, Offer(r)' # None
       PROVE  /\ partner'[r] # None /\ state'[r] \in {"initiated", "accept"}
              /\ \A x \in Players \ {r} : Offer(x)' # Offer(r)'
  <2>1. \A x \in Players : world.offer[x] # i BY <1>1, <1>2, <1>5 DEF Offered
  <2>2. /\ world'.offer[p] = i
        /\ \A x \in Players \ {p} : world'.offer[x] = world.offer[x]
    BY <1>1, <1>7
  <2>3. CASE r = p
    <3>1. state'[p] = "initiated" /\ partner'[p] = q BY <1>1, <1>3, <1>4
    <3>. QED BY <1>1, <1>10, <2>1, <2>2, <2>3, <3>1
  <2>4. CASE r # p
    <3>1. Offer(r) = Offer(r)' /\ Offer(r) # None BY <1>10, <1>14, <2>2, <2>4
    <3>2. partner[r] # None /\ state[r] \in {"initiated", "accept"} BY <1>2, <3>1
    <3>3. state'[r] = state[r] BY <1>1, <1>4, <2>4, <3>2
    <3>4. partner'[r] # None BY <1>1, <1>4, <2>4, <3>2
    <3>5. ASSUME NEW x \in Players \ {r} PROVE Offer(x)' # Offer(r)'
      <4>1. Offer(x) # Offer(r) /\ Offer(r) # i BY <1>2, <1>10, <2>1, <3>1
      <4>2. Offer(x)' = IF x = p THEN i ELSE Offer(x) BY <1>10, <2>2
      <4>. QED BY <3>1, <4>1, <4>2
    <3>. QED BY <3>2, <3>3, <3>4, <3>5
  <2>. QED BY <2>3, <2>4
<1>. QED BY <1>7, <1>8, <1>9, <1>12, <1>13, <1>14 DEF TradersInv, TradersAgree

\* The first acceptance changes the state of one side
\* (Game::playerAcceptTrade).
LEMMA AcceptAloneStep ==
    ASSUME TradersInv, NEW p \in Players, AcceptAlone(p) PROVE TradersInv'
<1>1. /\ state[p] \in {"acknowledge", "initiated"} /\ state' = [state EXCEPT ![p] = "accept"]
      /\ UNCHANGED <<world, partner, goods, online, stopped>>
  BY DEF AcceptAlone
<1>2. state \in [Players -> States] BY DEF TradersInv, TradersAgree, TradeTypeOK
<1>3. state' \in [Players -> States] BY <1>1, <1>2 DEF States
<1>4. TradeTypeOK' BY <1>1, <1>3 DEF TradersInv, TradersAgree, TradeTypeOK
<1>5. \A r \in Players : Offer(r)' = Offer(r) BY <1>1 DEF Offer
<1>6. Offered(world)' = Offered(world) BY <1>1 DEF Offered
<1>7. \A r \in Players : IF r = p THEN state[p] # "none" /\ state'[r] = "accept"
                                  ELSE state'[r] = state[r]
  BY <1>1, <1>2
<1>. QED BY <1>1, <1>4, <1>5, <1>6, <1>7 DEF TradersInv, TradersAgree

\* An exchange ends the trade, and what the scripts inside it disturb.
LEMMA ExchangeStep ==
    ASSUME TradersInv, NEW p \in Players, AcceptBoth(p) PROVE TradersInv'
<1>. DEFINE q == partner[p]
            i == Offer(p)
            j == Offer(q)
            give(w, from, to, x) == MoveItem(w, w.parent[x], to, Where, x, Count(w, x))
            told(w) == [w EXCEPT !.offer = [r \in Players |->
                           IF r \in Closed(Disturbed(world, w, {})) THEN None ELSE @[r]]]
            out(w) == {p, q} \cup Disturbed(world, w, {})
            done(w) == /\ CloseTrade([w EXCEPT !.offer = world.offer], out(w))
                       /\ stopped' = FALSE
            At(w) == Trader \subseteq DOMAIN w /\ w.at = world.at
<1>1. q # None /\ online' = online BY DEF AcceptBoth
<1>2. q \in Players BY <1>1 DEF TradersInv, TradersAgree, TradeTypeOK
<1>3. ASSUME NEW w, At(w), done(w) PROVE TradersInv'
  <2>1. Kept(world, [w EXCEPT !.offer = world.offer]) BY <1>3 DEF Kept, Trader
  <2>2. out(w) \in SUBSET Players BY <1>2 DEF Disturbed
  <2>. QED BY <1>1, <1>3, <2>1, <2>2, KeptClose
<1>4. CASE stopped' = TRUE /\ UNCHANGED <<world, state, partner, goods>>
  <2>1. TradersAgree' /\ world' = world
    BY <1>1, <1>4 DEF TradersInv, TradersAgree, TradeTypeOK, Offered, Offer
  <2>. QED BY <2>1 DEF TradersInv
<1>5. CASE \E w \in {told(v) : v \in Scripted(world)} :
             \/ done(w)
             \/ \E v \in give(w, p, q, i) : \E u \in give(v, q, p, j) : done(u)
  <2>1. PICK s \in Scripted(world) :
               \/ done(told(s))
               \/ \E v \in give(told(s), p, q, i) : \E u \in give(v, q, p, j) : done(u)
    BY <1>5
  <2>2. At(s) BY ScriptedKept DEF Kept, TradersInv
  <2>3. At(told(s)) BY <2>2 DEF Trader
  <2>4. CASE done(told(s)) BY <1>3, <2>3, <2>4
  <2>5. CASE \E v \in give(told(s), p, q, i) : \E u \in give(v, q, p, j) : done(u)
    <3>1. PICK v \in give(told(s), p, q, i) : \E u \in give(v, q, p, j) : done(u) BY <2>5
    <3>2. PICK u \in give(v, q, p, j) : done(u) BY <3>1
    <3>3. Kept(told(s), v) /\ Kept(v, u) BY <3>1, <3>2, MoveItemKept
    <3>4. At(u) BY <2>3, <3>3 DEF Kept
    <3>. QED BY <1>3, <3>2, <3>4
  <2>. QED BY <2>1, <2>4, <2>5
<1>. QED BY <1>4, <1>5 DEF AcceptBoth

\* Who walks away from his partner ends the trade (Player::onCreatureMove).
LEMMA TradeWalkStep ==
    ASSUME TradersInv, NEW p \in Players, TradeWalk(p) PROVE TradersInv'
<1>1. PICK t : LET w == Walked(world, p, t)
               IN /\ CloseTrade(w, IF FarOffer(w, p) THEN {p} ELSE {})
                  /\ online' = online /\ stopped' = stopped
  BY DEF TradeWalk
<1>. DEFINE w == Walked(world, p, t)
            S == IF FarOffer(w, p) THEN {p} ELSE {}
<1>2. /\ Trader \subseteq DOMAIN w /\ w.offer = world.offer
      /\ w.at = [world.at EXCEPT ![p] = t]
  <2>1. Trader \subseteq DOMAIN world BY DEF TradersInv
  <2>. QED BY ONLY <2>1, WalkedKept
<1>3. CloseTrade(w, S) /\ online' = online /\ stopped' = stopped BY <1>1
<1>4. S \in SUBSET Players OBVIOUS
<1>5. /\ partner \in [Players -> Players \cup {None}]
      /\ \A r \in Players : partner[r] # None => /\ partner[partner[r]] = r
                                                 /\ <<world.at[r], world.at[partner[r]]>> \in Seen
      /\ online' \in SUBSET Players /\ stopped' \in BOOLEAN
  BY <1>3 DEF TradersInv, TradersAgree, TradeTypeOK
<1>. HIDE DEF w
<1>6. ASSUME NEW r \in Players \ Closed(S), partner[r] # None
      PROVE  <<w.at[r], w.at[partner[r]]>> \in Seen
  <2>1. partner[r] \in Players \ Closed(S) BY <1>4, <1>6, ClosedBoth
  <2>2. CASE p \in {r, partner[r]}
    <3>1. p \notin Closed(S) BY <2>1, <2>2
    <3>2. ~FarOffer(w, p) BY <3>1 DEF Closed
    <3>3. partner[p] # None BY <1>5, <1>6, <2>2, ThingAssumption
    <3>4. <<w.at[p], w.at[partner[p]]>> \in Seen BY <3>2, <3>3 DEF FarOffer
    <3>5. <<w.at[partner[p]], w.at[p]>> \in Seen BY <3>4, TradeAssumption
    <3>. QED BY <1>5, <1>6, <2>2, <3>4, <3>5
  <2>3. CASE p \notin {r, partner[r]}
    <3>1. w.at[r] = world.at[r] /\ w.at[partner[r]] = world.at[partner[r]] BY <1>2, <2>3
    <3>. QED BY <1>5, <1>6, <3>1
  <2>. QED BY <2>2, <2>3
<1>. HIDE DEF S
<1>. QED BY <1>2, <1>3, <1>4, <1>5, <1>6, CloseTradeStep

\* Who leaves ends his trade (Player::onCreatureDisappear).
LEMMA LeaveStep ==
    ASSUME TradersInv, NEW p \in Players, Leave(p) PROVE TradersInv'
<1>1. PICK w : /\ Kept(world, w) /\ w.offer = world.offer /\ CloseTrade(w, {p})
               /\ online' = online \ {p} /\ stopped' = stopped
  <2>. DEFINE v == Blank(world, Holds(world, p))
              w == [v EXCEPT !.slot[p] = [s \in Slots |-> None], !.carried[p] = 0,
                             !.open[p] = [n \in Windows |-> None]]
              u == [w EXCEPT !.offer = world.offer]
  <2>1. Kept(world, v) BY BlankKept
  <2>2. CloseTrade(u, {p}) /\ online' = online \ {p} /\ stopped' = stopped BY DEF Leave
  <2>. HIDE DEF v
  <2>3. Kept(world, u) BY <2>1 DEF Kept, Trader
  <2>4. u.offer = world.offer BY <2>3 DEF Kept, TradersInv
  <2>. QED BY <2>2, <2>3, <2>4
<1>2. Trader \subseteq DOMAIN w /\ w.at = world.at BY <1>1 DEF Kept, TradersInv
<1>3. \A r \in Players : partner[r] # None => <<w.at[r], w.at[partner[r]]>> \in Seen
  BY <1>2 DEF TradersInv, TradersAgree
<1>4. online' \in SUBSET Players /\ online \ online' \subseteq Closed({p}) /\ stopped' \in BOOLEAN
  BY <1>1 DEF TradersInv, TradersAgree, TradeTypeOK, Closed
<1>. QED BY <1>1, <1>2, <1>3, <1>4, CloseTradeStep

\* Nothing happens.
LEMMA TradeStutter == ASSUME TradersInv, UNCHANGED allVars PROVE TradersInv'
BY DEF allVars, dealVars, TradersInv, TradersAgree, TradeTypeOK, Offered, Offer

\* The traders agree, and the world says who offers what: an invariant of its
\* own, whatever becomes of the things.
THEOREM TradersInvariant == TradeSpec => []TradersInv
<1>1. TradeInit => TradersInv
  <2>. SUFFICES ASSUME TradeInit PROVE TradersInv OBVIOUS
  <2>1. /\ Trader \subseteq DOMAIN world /\ world.offer = [p \in Players |-> None]
        /\ None \notin Players \cup Items
    BY ThingAssumption, StartAssumption, TradeAssumption
       DEF TradeInit, Trader, InPlace, Typed
  <2>2. \A p \in Players : Offer(p) = None BY <2>1 DEF Offer
  <2>3. Offered(world) = {} BY <2>1 DEF Offered
  <2>. QED BY <2>1, <2>2, <2>3 DEF TradeInit, TradersInv, TradersAgree, TradeTypeOK, States
<1>2. TradersInv /\ [TradeNext]_allVars => TradersInv'
  <2>. SUFFICES ASSUME TradersInv, [TradeNext]_allVars PROVE TradersInv' OBVIOUS
  <2>1. CASE UNCHANGED allVars BY <2>1, TradeStutter
  <2>2. ASSUME NEW p \in Players, NEW q \in Players, NEW i \in Placed(world),
               RequestTrade(p, q, i)
        PROVE  TradersInv'
    BY <2>2, RequestStep
  <2>3. ASSUME NEW p \in Players, AcceptAlone(p) PROVE TradersInv' BY <2>3, AcceptAloneStep
  <2>4. ASSUME NEW p \in Players, AcceptBoth(p) PROVE TradersInv' BY <2>4, ExchangeStep
  <2>5. ASSUME NEW p \in Players, PlayerCloseTrade(p) PROVE TradersInv'
    <3>1. CloseTrade(world, {p}) /\ online' = online /\ stopped' = stopped
      BY <2>5 DEF PlayerCloseTrade
    <3>2. stopped' \in BOOLEAN BY <3>1 DEF TradersInv, TradersAgree, TradeTypeOK
    <3>. QED BY <3>1, <3>2, KeptSelf, KeptClose
  <2>6. ASSUME NEW p \in Players, TradeWalk(p) PROVE TradersInv' BY <2>6, TradeWalkStep
  <2>7. ASSUME NEW p \in Players, TradeMove(p) PROVE TradersInv'
    <3>1. PICK i, from, cyl, idx, v, extra :
                 v \in MoveItem(world, from, cyl, idx, i, 1) /\ ThingsBecome(v, extra)
      BY <2>7 DEF TradeMove
    <3>. QED BY <3>1, MoveItemKept, ThingsBecomeStep
  <2>8. ASSUME NEW p \in Players, TradeWindow(p) PROVE TradersInv'
    <3>1. UNCHANGED dealVars BY <2>8 DEF TradeWindow
    <3>2. PICK e : world' = [world EXCEPT !.open[p] = e]
      BY <2>8 DEF TradeWindow, PlayerUseContainer
    <3>3. Trader \subseteq DOMAIN world' /\ world'.at = world.at /\ world'.offer = world.offer
      BY <3>2 DEF TradersInv, Trader
    <3>. QED BY <3>1, <3>3 DEF dealVars, TradersInv, TradersAgree, TradeTypeOK, Offered, Offer
  <2>9. ASSUME NEW p \in Players, Leave(p) PROVE TradersInv' BY <2>9, LeaveStep
  <2>10. ASSUME TradeScript PROVE TradersInv'
    <3>1. PICK i : ThingsBecome(RemoveItem(world, i, 1), {}) BY <2>10 DEF TradeScript
    <3>. QED BY <3>1, RemoveItemKept, ThingsBecomeStep
  <2>. QED BY <2>1, <2>2, <2>3, <2>4, <2>5, <2>6, <2>7, <2>8, <2>9, <2>10 DEF TradeNext
<1>. QED BY <1>1, <1>2, PTL DEF TradeSpec

\* A trade has two sides that know each other as long as it lasts, whatever
\* happens to the things, to the players and to the scripts in between
\* (Game::internalStartTrade, internalCloseTrade, playerAcceptTrade).
THEOREM TradersAlwaysAgree == TradeSpec => []TradersAgree
<1>1. TradersInv => TradersAgree BY DEF TradersInv
<1>. QED BY <1>1, TradersInvariant, PTL

\* Induction over a set of numbers: the library's rule takes a predicate, this
\* one a set, so that it can be used from a proof.
LEMMA NatSetInduction ==
    ASSUME NEW G, 0 \in G, \A n \in Nat : n \in G => n + 1 \in G
    PROVE  Nat \subseteq G
<1>. SUFFICES ASSUME Nat \ G # {} PROVE FALSE OBVIOUS
<1>1. IsWellFoundedOn(OpToRel(<, Nat), Nat) BY NatLessThanWellFounded
<1>2. PICK x \in Nat \ G : \A y \in Nat \ G : <<y, x>> \notin OpToRel(<, Nat)
  BY <1>1, WFMin
<1>3. x # 0 /\ x - 1 \in Nat /\ x - 1 < x /\ (x - 1) + 1 = x OBVIOUS
<1>4. x - 1 \notin G BY <1>3
<1>5. <<x - 1, x>> \in OpToRel(<, Nat)
  <2>1. <<x - 1, x>> \in Nat \X Nat /\ <<x - 1, x>>[1] = x - 1 /\ <<x - 1, x>>[2] = x
    BY <1>3
  <2>. QED BY <1>3, <2>1 DEF OpToRel
<1>. QED BY <1>2, <1>3, <1>4, <1>5

-------------------------------------------------------------------------------
(* Places: what is around an item, and where that ends.                      *)

\* What is above an item: its parent, the parent of that, and no more.
LEMMA AncestorsLemma ==
    ASSUME NEW w, NEW x \in Items
    PROVE  /\ w.parent[x] \in Ancestors(w, x)
           /\ \A y \in Ancestors(w, x) \cap Items : w.parent[y] \in Ancestors(w, x)
           /\ \A S : w.parent[x] \in S /\ (\A y \in S \cap Items : w.parent[y] \in S)
                     => Ancestors(w, x) \subseteq S
<1>. DEFINE N == Depth
            V(S) == S \cup {w.parent[y] : y \in S \cap Items}
            Body(g, n) == IF n = 0 THEN {w.parent[x]} ELSE V(g[n - 1])
            Runs(g, k) == g = [n \in 0..k |-> Body(g, n)]
            f == CHOOSE g : Runs(g, N)
<1>1. Ancestors(w, x) = f[N] BY DEF Ancestors
<1>2. N \in Nat BY ThingAssumption, FS_CardinalityType DEF Depth
<1>. HIDE DEF N
<1>3. \E g : Runs(g, N)
  <2>. DEFINE H == {k \in Nat : \E g : Runs(g, k)}
  <2>1. 0 \in H
    <3>. DEFINE g == [n \in 0..0 |-> {w.parent[x]}]
    <3>1. g = [n \in 0..0 |-> Body(g, n)] OBVIOUS
    <3>. QED BY <3>1
  <2>2. ASSUME NEW k \in Nat, k \in H PROVE k + 1 \in H
    <3>1. PICK g : Runs(g, k) BY <2>2
    <3>. DEFINE h == [n \in 0..(k + 1) |-> IF n = k + 1 THEN V(g[k]) ELSE g[n]]
    <3>2. ASSUME NEW n \in 0..(k + 1) PROVE h[n] = Body(h, n)
      <4>1. CASE n = k + 1
        <5>1. h[n] = V(g[k]) /\ h[n - 1] = g[k] /\ n # 0 BY <4>1
        <5>. HIDE DEF h, V
        <5>. QED BY <5>1
      <4>2. CASE n # k + 1
        <5>1. n \in 0..k BY <4>2
        <5>2. h[n] = g[n] /\ (n # 0 => h[n - 1] = g[n - 1]) BY <5>1
        <5>3. g[n] = Body(g, n) BY <3>1, <5>1
        <5>. HIDE DEF h, V
        <5>. QED BY <5>2, <5>3
      <4>. QED BY <4>1, <4>2
    <3>3. h = [n \in 0..(k + 1) |-> h[n]] OBVIOUS
    <3>. HIDE DEF h, Body
    <3>4. Runs(h, k + 1) BY <3>2, <3>3
    <3>. QED BY <3>4
  <2>. HIDE DEF H
  <2>3. Nat \subseteq H BY <2>1, <2>2, NatSetInduction
  <2>. QED BY <1>2, <2>3 DEF H
<1>4. Runs(f, N) BY <1>3
<1>. HIDE DEF f
<1>5. ASSUME NEW n \in 0..N PROVE f[n] = Body(f, n) BY <1>4
<1>6. f[0] = {w.parent[x]}
  <2>. HIDE DEF V
  <2>1. 0 \in 0..N BY <1>2
  <2>. QED BY <1>5, <2>1
<1>7. ASSUME NEW n \in Nat, n + 1 \in 0..N PROVE n \in 0..N /\ f[n + 1] = V(f[n])
  <2>. HIDE DEF V
  <2>1. n \in 0..N /\ (n + 1) - 1 = n /\ n + 1 # 0 BY <1>2, <1>7
  <2>. QED BY <1>5, <1>7, <2>1
<1>. HIDE DEF Runs, Body
<1>8. w.parent[x] \in f[N]
  <2>. DEFINE H == {n \in Nat : n \in 0..N => w.parent[x] \in f[n]}
  <2>1. 0 \in H BY <1>6
  <2>2. ASSUME NEW n \in Nat, n \in H PROVE n + 1 \in H
    <3>. SUFFICES ASSUME n + 1 \in 0..N PROVE w.parent[x] \in f[n + 1] OBVIOUS
    <3>1. n \in 0..N /\ f[n + 1] = V(f[n]) BY <1>7
    <3>2. w.parent[x] \in f[n] BY <2>2, <3>1
    <3>3. f[n] \subseteq V(f[n]) OBVIOUS
    <3>. HIDE DEF V
    <3>. QED BY <3>1, <3>2, <3>3
  <2>. HIDE DEF H
  <2>3. Nat \subseteq H BY <2>1, <2>2, NatSetInduction
  <2>. QED BY <1>2, <2>3 DEF H
<1>9. ASSUME NEW S, w.parent[x] \in S, \A y \in S \cap Items : w.parent[y] \in S
      PROVE  f[N] \subseteq S
  <2>. DEFINE H == {n \in Nat : n \in 0..N => f[n] \subseteq S}
  <2>1. 0 \in H BY <1>6, <1>9
  <2>2. ASSUME NEW n \in Nat, n \in H PROVE n + 1 \in H
    <3>1. SUFFICES ASSUME n + 1 \in 0..N PROVE f[n + 1] \subseteq S OBVIOUS
    <3>2. f[n] \subseteq S /\ f[n + 1] = V(f[n]) BY <1>7, <2>2, <3>1
    <3>. QED BY <1>9, <3>2
  <2>. HIDE DEF H
  <2>3. Nat \subseteq H BY <2>1, <2>2, NatSetInduction
  <2>. QED BY <1>2, <2>3 DEF H
\* The items above x grow by one at least, or no more: after all of them they are closed.
<1>10. \A y \in f[N] \cap Items : w.parent[y] \in f[N]
  <2>. DEFINE Lot(n) == f[n] \cap Items
              Done(n) == \A y \in Lot(n) : w.parent[y] \in f[n]
              H == {n \in Nat : n \in 0..N => Done(n) \/ Cardinality(Lot(n)) >= n + 1}
  <2>1. ASSUME NEW n PROVE /\ IsFiniteSet(Lot(n)) /\ Cardinality(Lot(n)) \in Nat
                           /\ Cardinality(Lot(n)) <= N
    <3>1. Lot(n) \subseteq Items OBVIOUS
    <3>. HIDE DEF Lot
    <3>. QED BY <3>1, ThingAssumption, FS_Subset, FS_CardinalityType DEF Depth, N
  <2>2. 0 \in H
    <3>1. CASE w.parent[x] \in Items
      <4>1. Lot(0) = {w.parent[x]} BY <1>6, <3>1
      <4>2. Cardinality(Lot(0)) = 1 BY <4>1, FS_Singleton
      <4>. QED BY <4>2
    <3>2. CASE w.parent[x] \notin Items BY <1>6, <3>2
    <3>. QED BY <3>1, <3>2
  <2>3. ASSUME NEW n \in Nat, n \in H PROVE n + 1 \in H
    <3>1. SUFFICES ASSUME n + 1 \in 0..N, ~Done(n + 1) PROVE Cardinality(Lot(n + 1)) >= n + 2
      OBVIOUS
    <3>2. n \in 0..N /\ f[n + 1] = V(f[n]) BY <1>7, <3>1
    <3>3. ~Done(n) BY <3>1, <3>2
    <3>4. Cardinality(Lot(n)) >= n + 1 BY <2>3, <3>2, <3>3
    <3>5. Lot(n) \subseteq Lot(n + 1) /\ Lot(n) # Lot(n + 1) BY <3>1, <3>2
    <3>. HIDE DEF Lot, Done, V
    <3>6. Cardinality(Lot(n)) < Cardinality(Lot(n + 1))
      <4>1. /\ IsFiniteSet(Lot(n + 1)) /\ Cardinality(Lot(n + 1)) \in Nat
            /\ Cardinality(Lot(n)) \in Nat
        BY <2>1
      <4>2. Cardinality(Lot(n)) <= Cardinality(Lot(n + 1)) BY <3>5, <4>1, FS_Subset
      <4>3. Cardinality(Lot(n)) # Cardinality(Lot(n + 1)) BY <3>5, <4>1, FS_Subset
      <4>. QED BY <4>1, <4>2, <4>3
    <3>. QED BY <2>1, <3>4, <3>6
  <2>4. Nat \subseteq H
    <3>. HIDE DEF H
    <3>. QED BY <2>2, <2>3, NatSetInduction
  <2>5. Done(N) \/ Cardinality(Lot(N)) >= N + 1 BY <1>2, <2>4
  <2>6. Done(N)
    <3>. HIDE DEF Lot, Done
    <3>. QED BY <1>2, <2>1, <2>5
  <2>. QED BY <2>6
<1>. QED BY <1>1, <1>8, <1>9, <1>10

\* Players and tiles are in nothing.
LEMMA AncestorsOfOthers == ASSUME NEW w, NEW x, x \notin Items PROVE Ancestors(w, x) = {}
BY DEF Ancestors

\* One step up, and then on from there.
LEMMA AncestorsUnfold ==
    ASSUME NEW w, NEW x \in Items
    PROVE  Ancestors(w, x) = {w.parent[x]} \cup Ancestors(w, w.parent[x])
<1>. DEFINE u == w.parent[x]
            S == {u} \cup Ancestors(w, u)
<1>1. \A y \in S \cap Items : w.parent[y] \in S
  <2>1. u \in Items => w.parent[u] \in S BY AncestorsLemma
  <2>2. ASSUME NEW y \in Ancestors(w, u), y \in Items PROVE w.parent[y] \in S
    <3>1. u \in Items BY <2>2, AncestorsOfOthers
    <3>. QED BY <2>2, <3>1, AncestorsLemma
  <2>. QED BY <2>1, <2>2
<1>2. Ancestors(w, x) \subseteq S
  <2>. HIDE DEF S
  <2>1. u \in S BY DEF S
  <2>. QED BY <1>1, <2>1, AncestorsLemma
<1>3. Ancestors(w, u) \subseteq Ancestors(w, x)
  <2>1. CASE u \notin Items BY <2>1, AncestorsOfOthers
  <2>2. CASE u \in Items
    <3>1. w.parent[u] \in Ancestors(w, x) BY <2>2, AncestorsLemma
    <3>. QED BY <2>2, <3>1, AncestorsLemma
  <2>. QED BY <2>1, <2>2
<1>4. u \in Ancestors(w, x) BY AncestorsLemma
<1>. QED BY <1>2, <1>3, <1>4

\* Whatever is around something that is around x, is around x.
LEMMA AncestorsAbove ==
    ASSUME NEW w, NEW x, NEW y \in Ancestors(w, x)
    PROVE  Ancestors(w, y) \subseteq Ancestors(w, x)
<1>1. CASE y \notin Items BY <1>1, AncestorsOfOthers
<1>2. CASE y \in Items
  <2>1. x \in Items BY AncestorsOfOthers
  <2>2. w.parent[y] \in Ancestors(w, x) BY <1>2, <2>1, AncestorsLemma
  <2>. QED BY <1>2, <2>1, <2>2, AncestorsLemma
<1>. QED BY <1>1, <1>2

\* The way up from x is one way: whatever is on it is below z, until z.
LEMMA AncestorsChain ==
    ASSUME NEW w, NEW x, NEW z \in Ancestors(w, x), z \in Items => z \in Ancestors(w, z)
    PROVE  \A y \in Ancestors(w, x) : y = z \/ z \in Ancestors(w, y)
<1>. DEFINE S == {y \in Ancestors(w, x) : y = z \/ z \in Ancestors(w, y)}
<1>1. x \in Items BY AncestorsOfOthers
<1>2. w.parent[x] \in S BY <1>1, AncestorsUnfold, AncestorsLemma
<1>3. ASSUME NEW y \in S, y \in Items PROVE w.parent[y] \in S
  <2>1. w.parent[y] \in Ancestors(w, x) BY <1>1, <1>3, AncestorsLemma
  <2>2. z \in Ancestors(w, y) BY <1>3
  <2>. QED BY <1>3, <2>1, <2>2, AncestorsUnfold
<1>. HIDE DEF S
<1>4. Ancestors(w, x) \subseteq S BY <1>1, <1>2, <1>3, AncestorsLemma
<1>. QED BY <1>4 DEF S

\* What is above x depends on the parents from x upwards only.
LEMMA AncestorsSame ==
    ASSUME NEW v, NEW w, NEW x,
           \A y \in ({x} \cup Ancestors(w, x)) \cap Items : v.parent[y] = w.parent[y]
    PROVE  Ancestors(v, x) = Ancestors(w, x)
<1>1. CASE x \notin Items BY <1>1, AncestorsOfOthers
<1>2. CASE x \in Items
  <2>1. v.parent[x] = w.parent[x] BY <1>2
  <2>2. Ancestors(v, x) \subseteq Ancestors(w, x)
    <3>1. \A y \in Ancestors(w, x) \cap Items : v.parent[y] \in Ancestors(w, x)
      BY <1>2, AncestorsLemma
    <3>. QED BY <1>2, <2>1, <3>1, AncestorsLemma
  <2>3. Ancestors(w, x) \subseteq Ancestors(v, x)
    <3>. DEFINE S == Ancestors(v, x) \cap Ancestors(w, x)
    <3>1. w.parent[x] \in S BY <1>2, <2>1, AncestorsLemma
    <3>2. ASSUME NEW y \in S \cap Items PROVE w.parent[y] \in S
      <4>1. v.parent[y] = w.parent[y] OBVIOUS
      <4>. QED BY <1>2, <4>1, AncestorsLemma
    <3>. HIDE DEF S
    <3>3. Ancestors(w, x) \subseteq S BY <1>2, <3>1, <3>2, AncestorsLemma
    <3>. QED BY <3>3 DEF S
  <2>. QED BY <2>2, <2>3
<1>. QED BY <1>1, <1>2

Grounds == Players \cup Tiles

\* There is one root at most, the same for all that is above x, and no item
\* with a root is in itself.
LEMMA RootLemma ==
    ASSUME NEW w, NEW x, NEW r \in Grounds, r \in {x} \cup Ancestors(w, x)
    PROVE  /\ Root(w, x) = r /\ x \notin Ancestors(w, x)
           /\ \A y \in Ancestors(w, x) : Root(w, y) = r /\ y \notin Ancestors(w, y)
<1>a. \A y \in Grounds : y \notin Items BY ThingAssumption DEF Grounds
<1>1. ASSUME NEW y, r \in {y} \cup Ancestors(w, y)
      PROVE  Root(w, y) = r /\ y \notin Ancestors(w, y)
  <2>1. CASE y \notin Items
    <3>1. y = r BY <1>1, <2>1, AncestorsOfOthers
    <3>. QED BY <2>1, <3>1, AncestorsOfOthers DEF Root, Grounds
  <2>2. CASE y \in Items
    <3>1. r \in Ancestors(w, y) BY <1>a, <1>1, <2>2
    <3>2. \A s \in Ancestors(w, y) : s = r \/ r \in Ancestors(w, s)
      BY <1>a, <3>1, AncestorsChain
    <3>3. \A s \in Ancestors(w, y) \cap Grounds : s = r BY <1>a, <3>2, AncestorsOfOthers
    <3>4. Ancestors(w, y) \cap Grounds = {r} BY <3>1, <3>3
    <3>5. Root(w, y) = r BY <1>a, <2>2, <3>4 DEF Root, Grounds
    <3>6. ASSUME y \in Ancestors(w, y) PROVE FALSE
      <4>1. \A s \in Ancestors(w, y) : s = y \/ y \in Ancestors(w, s)
        BY <3>6, AncestorsChain
      <4>. QED BY <1>a, <2>2, <3>1, <4>1, AncestorsOfOthers
    <3>. QED BY <3>5, <3>6
  <2>. QED BY <2>1, <2>2
<1>2. ASSUME NEW y \in Ancestors(w, x) PROVE r \in {y} \cup Ancestors(w, y)
  <2>1. r \in Ancestors(w, x) BY <1>a, AncestorsOfOthers
  <2>. QED BY <1>a, <2>1, AncestorsChain
<1>. QED BY <1>1, <1>2

\* What Item::getTopParent ends at is a player or a tile, or there is none.
LEMMA RootType ==
    ASSUME NEW w, NEW x
    PROVE  /\ Root(w, x) \in Grounds \cup {None}
           /\ Root(w, x) # None => Root(w, x) \in {x} \cup Ancestors(w, x)
BY ThingAssumption DEF Root, Grounds

\* The same way up ends at the same place.
LEMMA RootSame ==
    ASSUME NEW v, NEW w, NEW x, Ancestors(v, x) = Ancestors(w, x)
    PROVE  Root(v, x) = Root(w, x)
<1>1. ASSUME NEW a, NEW b, Ancestors(a, x) = Ancestors(b, x), Root(a, x) # None
      PROVE  Root(b, x) = Root(a, x)
  <2>1. Root(a, x) \in Grounds /\ Root(a, x) \in {x} \cup Ancestors(b, x) BY <1>1, RootType
  <2>. QED BY <2>1, RootLemma
<1>. QED BY <1>1

\* An item has the root of its parent.
LEMMA RootUp ==
    ASSUME NEW w, NEW x \in Items
    PROVE  Root(w, x) = Root(w, w.parent[x])
<1>. DEFINE u == w.parent[x]
<1>1. Ancestors(w, x) = {u} \cup Ancestors(w, u) BY AncestorsUnfold
<1>2. CASE Root(w, u) # None
  <2>1. Root(w, u) \in Grounds /\ Root(w, u) \in {u} \cup Ancestors(w, u) BY <1>2, RootType
  <2>. QED BY <1>1, <2>1, RootLemma
<1>3. CASE Root(w, u) = None
  <2>. SUFFICES ASSUME Root(w, x) # None PROVE FALSE BY <1>3
  <2>1. Root(w, x) \in Grounds /\ Root(w, x) \in {x} \cup Ancestors(w, x) BY RootType
  <2>2. Root(w, x) \in {u} \cup Ancestors(w, u) BY <1>1, <2>1, ThingAssumption DEF Grounds
  <2>3. Root(w, u) = Root(w, x) BY <2>1, <2>2, RootLemma
  <2>. QED BY <1>3, <2>3
<1>. QED BY <1>2, <1>3

-------------------------------------------------------------------------------
(* Order: the tree of things, with some of them taken up.                    *)

\* The child pointers and the parent pointers agree.
Held(w) ==
    /\ \A c \in Items \cup Tiles :
         /\ IsInjective(w.inside[c])
         /\ \A i \in Range(w.inside[c]) : w.parent[i] = c
         /\ c \in Items => Len(w.inside[c]) <= Capacity(w, c)
    /\ \A p \in Players, s \in Slots :
         LET i == w.slot[p][s]
         IN i # None => /\ w.parent[i] = p
                        /\ \A t \in Slots : w.slot[p][t] = i => t = s

\* Things are in order but for those of L, which are in nobody's hands, with
\* what is in them.
Orderly(w, L) ==
    /\ Typed(w) /\ Held(w)
    /\ L \subseteq Items /\ \A l \in L : w.parent[l] = None
    /\ \A i \in Placed(w) : /\ Has(w, w.parent[i], i) /\ Count(w, i) \in 1..MaxStack
                            /\ \E r \in Grounds \cup L : r \in Ancestors(w, i)

\* Nothing is loose between two operations.
LEMMA OrderlyInPlace == ASSUME NEW w PROVE InPlace(w) <=> Orderly(w, {})
<1>1. ASSUME NEW i \in Items
      PROVE  Root(w, i) # None <=> \E r \in Grounds : r \in Ancestors(w, i)
  <2>1. ASSUME Root(w, i) # None PROVE \E r \in Grounds : r \in Ancestors(w, i)
    BY <2>1, RootType, ThingAssumption DEF Grounds
  <2>2. ASSUME NEW r \in Grounds, r \in Ancestors(w, i) PROVE Root(w, i) # None
    BY <2>2, RootLemma, ThingAssumption DEF Grounds
  <2>. QED BY <2>1, <2>2
<1>. QED BY <1>1 DEF InPlace, Orderly, Held, Placed

\* Who differs in the weights, the windows and the books only.
Alike(w, v) ==
    /\ DOMAIN v = DOMAIN w /\ v.kind = w.kind /\ v.count = w.count /\ v.parent = w.parent
    /\ v.inside = w.inside /\ v.slot = w.slot /\ v.at = w.at /\ v.offer = w.offer

\* They see the same things in the same places.
LEMMA AlikeViews ==
    ASSUME NEW w, NEW v, Alike(w, v)
    PROVE  /\ Placed(v) = Placed(w) /\ Free(v) = Free(w)
           /\ \A x : /\ Ancestors(v, x) = Ancestors(w, x) /\ Root(v, x) = Root(w, x)
                     /\ Holds(v, x) = Holds(w, x)
                     /\ Spot(v, x) = Spot(w, x) /\ IsContainer(v, x) = IsContainer(w, x)
           /\ \A c, x : Has(v, c, x) = Has(w, c, x)
<1>1. \A x : Ancestors(v, x) = Ancestors(w, x) BY AncestorsSame DEF Alike
<1>2. \A x : Root(v, x) = Root(w, x) BY <1>1, RootSame
<1>3. \A x : Holds(v, x) = Holds(w, x) BY <1>1 DEF Holds
<1>4. \A x : Spot(v, x) = Spot(w, x) BY <1>2 DEF Spot, Alike
<1>5. \A x : IsContainer(v, x) = IsContainer(w, x) BY DEF IsContainer, Capacity, Alike
<1>6. \A c, x : Has(v, c, x) = Has(w, c, x) BY DEF Has, SlotItems, Alike
<1>. QED BY <1>1, <1>2, <1>3, <1>4, <1>5, <1>6 DEF Placed, Free, Alike

\* What is in order for the one is so for the other.
LEMMA AlikeOrderly ==
    ASSUME NEW w, NEW v, NEW L, Orderly(w, L), Alike(w, v),
           v.open \in [Players -> [Windows -> Items \cup {None}]]
    PROVE  Orderly(v, L)
<1>1. Typed(v) BY DEF Orderly, Typed, Alike
<1>2. Held(v) BY DEF Orderly, Held, Alike, Capacity
<1>. QED BY <1>1, <1>2, AlikeViews DEF Orderly, Alike, Count

\* A counter moves nothing.
LEMMA BumpAlike == ASSUME NEW w, NEW c, NEW d
                   PROVE  Alike(w, Bump(w, c, d)) /\ Bump(w, c, d).open = w.open
BY DEF Bump, Alike

\* Container::updateItemWeight moves nothing.
LEMMA WeighAlike == ASSUME NEW w, NEW cyl
                    PROVE  Alike(w, Weigh(w, cyl)) /\ Weigh(w, cyl).open = w.open
BY DEF Weigh, Alike

\* Erasing an element of a list takes this one and leaves the order.
LEMMA RemoveAtLemma ==
    ASSUME NEW S, NEW m \in Seq(S), IsInjective(m), NEW k \in 1..Len(m)
    PROVE  /\ RemoveAt(m, k) \in Seq(S) /\ IsInjective(RemoveAt(m, k))
           /\ Range(RemoveAt(m, k)) = Range(m) \ {m[k]}
           /\ Len(RemoveAt(m, k)) = Len(m) - 1
<1>. DEFINE r == RemoveAt(m, k)
            from(i) == IF i < k THEN i ELSE i + 1
<1>1. PICK n \in Nat : n = Len(m) OBVIOUS
<1>2. PICK a : a = SubSeq(m, 1, k - 1) OBVIOUS
<1>3. PICK b : b = SubSeq(m, k + 1, n) OBVIOUS
<1>4. /\ a \in Seq(S) /\ Len(a) = k - 1 /\ b \in Seq(S) /\ Len(b) = n - k
      /\ \A i \in 1..(k - 1) : a[i] = m[i]
      /\ \A i \in 1..(n - k) : b[i] = m[k + i]
      /\ k \in 1..n
  <2>1. /\ SubSeq(m, 1, k - 1) \in Seq(S) /\ Len(SubSeq(m, 1, k - 1)) = k - 1
        /\ \A i \in 1..(k - 1) : SubSeq(m, 1, k - 1)[i] = m[i]
    BY <1>1
  <2>2. /\ SubSeq(m, k + 1, n) \in Seq(S) /\ Len(SubSeq(m, k + 1, n)) = n - k
        /\ \A i \in 1..(n - k) : SubSeq(m, k + 1, n)[i] = m[k + i]
    BY <1>1
  <2>. QED BY <1>1, <1>2, <1>3, <2>1, <2>2
<1>5. r = a \o b BY <1>1, <1>2, <1>3 DEF RemoveAt
<1>. HIDE DEF r
<1>6. /\ r \in Seq(S) /\ Len(r) = n - 1
      /\ \A i \in 1..(n - 1) : r[i] = IF i < k THEN a[i] ELSE b[i - (k - 1)]
  <2>1. /\ a \o b \in Seq(S) /\ Len(a \o b) = n - 1
        /\ \A i \in 1..(n - 1) : (a \o b)[i] = IF i < k THEN a[i] ELSE b[i - (k - 1)]
    <3>1. a \in Seq(S) /\ Len(a) = k - 1 /\ b \in Seq(S) /\ Len(b) = n - k /\ k \in 1..n
      BY <1>4
    <3>. QED BY ONLY <3>1, n \in Nat
  <2>. QED BY <1>5, <2>1
<1>7. DOMAIN r = 1..(n - 1) /\ DOMAIN m = 1..n BY <1>1, <1>6
<1>8. ASSUME NEW i \in 1..(n - 1) PROVE r[i] = m[from(i)] /\ from(i) \in 1..n /\ from(i) # k
  <2>1. CASE i < k BY <1>4, <1>6, <2>1
  <2>2. CASE ~(i < k)
    <3>1. i - (k - 1) \in 1..(n - k) /\ k + (i - (k - 1)) = i + 1 BY <1>4, <2>2
    <3>2. b[i - (k - 1)] = m[k + (i - (k - 1))] BY <1>4, <3>1
    <3>. QED BY <1>4, <1>6, <2>2, <3>1, <3>2
  <2>. QED BY <2>1, <2>2
<1>9. \A i, j \in 1..(n - 1) : from(i) = from(j) => i = j BY <1>1, <1>4
<1>10. \A j \in (1..n) \ {k} : \E i \in 1..(n - 1) : from(i) = j
  <2>. SUFFICES ASSUME NEW j \in 1..n, j # k PROVE \E i \in 1..(n - 1) : from(i) = j OBVIOUS
  <2>1. CASE j < k
    <3>1. j \in 1..(n - 1) /\ from(j) = j BY <1>1, <1>4, <2>1
    <3>. QED BY <3>1
  <2>2. CASE ~(j < k)
    <3>1. j - 1 \in 1..(n - 1) /\ from(j - 1) = j BY <1>1, <1>4, <2>2
    <3>. QED BY <3>1
  <2>. QED BY <2>1, <2>2
<1>11. \A i, j \in 1..n : m[i] = m[j] => i = j BY <1>7 DEF IsInjective
<1>. HIDE DEF from
<1>12. IsInjective(r)
  <2>. SUFFICES ASSUME NEW i \in 1..(n - 1), NEW j \in 1..(n - 1), r[i] = r[j] PROVE i = j
    BY <1>7 DEF IsInjective
  <2>1. from(i) = from(j) BY <1>8, <1>11
  <2>. QED BY <1>9, <2>1
<1>13. Range(r) \subseteq Range(m) \ {m[k]}
  <2>. SUFFICES ASSUME NEW i \in 1..(n - 1) PROVE r[i] \in Range(m) \ {m[k]}
    BY <1>7 DEF Range
  <2>1. r[i] = m[from(i)] /\ from(i) \in 1..n /\ from(i) # k BY <1>8
  <2>. QED BY <1>4, <1>7, <1>11, <2>1 DEF Range
<1>14. Range(m) \ {m[k]} \subseteq Range(r)
  <2>. SUFFICES ASSUME NEW j \in 1..n, m[j] # m[k] PROVE m[j] \in Range(r)
    BY <1>7 DEF Range
  <2>1. PICK i \in 1..(n - 1) : from(i) = j BY <1>10
  <2>2. r[i] = m[j] BY <1>8, <2>1
  <2>. QED BY <1>7, <2>2 DEF Range
<1>. QED BY <1>1, <1>6, <1>12, <1>13, <1>14 DEF r

\* A new first element.
LEMMA PrependLemma ==
    ASSUME NEW S, NEW m \in Seq(S), IsInjective(m), NEW x \in S, x \notin Range(m)
    PROVE  /\ <<x>> \o m \in Seq(S) /\ IsInjective(<<x>> \o m)
           /\ Range(<<x>> \o m) = Range(m) \cup {x}
           /\ Len(<<x>> \o m) = Len(m) + 1
<1>1. PICK r : r = <<x>> \o m OBVIOUS
<1>2. PICK n \in Nat : n = Len(m) OBVIOUS
<1>3. /\ r \in Seq(S) /\ Len(r) = n + 1 /\ r[1] = x
      /\ \A i \in 1..n : r[i + 1] = m[i]
  BY <1>1, <1>2
<1>4. DOMAIN r = 1..(n + 1) /\ DOMAIN m = 1..n BY <1>2, <1>3
<1>5. ASSUME NEW i \in 1..(n + 1), i # 1 PROVE i - 1 \in 1..n /\ r[i] = m[i - 1] /\ r[i] # x
  <2>1. i - 1 \in 1..n /\ (i - 1) + 1 = i BY <1>5
  <2>2. r[i] = m[i - 1] BY <1>3, <2>1
  <2>. QED BY <1>4, <2>1, <2>2 DEF Range
<1>6. IsInjective(r)
  <2>. SUFFICES ASSUME NEW i \in 1..(n + 1), NEW j \in 1..(n + 1), r[i] = r[j] PROVE i = j
    BY <1>4 DEF IsInjective
  <2>1. CASE i = 1 \/ j = 1 BY <1>3, <1>5, <2>1
  <2>2. CASE i # 1 /\ j # 1
    <3>1. m[i - 1] = m[j - 1] /\ i - 1 \in 1..n /\ j - 1 \in 1..n BY <1>5, <2>2
    <3>2. i - 1 = j - 1 BY <1>4, <3>1 DEF IsInjective
    <3>. QED BY <3>2
  <2>. QED BY <2>1, <2>2
<1>7. Range(r) \subseteq Range(m) \cup {x}
  <2>. SUFFICES ASSUME NEW i \in 1..(n + 1) PROVE r[i] \in Range(m) \cup {x}
    BY <1>4 DEF Range
  <2>. QED BY <1>3, <1>4, <1>5 DEF Range
<1>8. Range(m) \cup {x} \subseteq Range(r)
  <2>1. x \in Range(r)
    <3>1. 1 \in 1..(n + 1) OBVIOUS
    <3>. QED BY <1>3, <1>4, <3>1 DEF Range
  <2>2. ASSUME NEW i \in 1..n PROVE m[i] \in Range(r)
    <3>1. i + 1 \in 1..(n + 1) OBVIOUS
    <3>. QED BY <1>3, <1>4, <3>1 DEF Range
  <2>. QED BY <1>4, <2>1, <2>2 DEF Range
<1>. QED BY <1>1, <1>2, <1>3, <1>6, <1>7, <1>8

\* Somebody's child is below him.
LEMMA ChildBelow ==
    ASSUME NEW w, NEW x, NEW i \in Ancestors(w, x)
    PROVE  \E y \in Items : w.parent[y] = i
<1>. SUFFICES ASSUME \A y \in Items : w.parent[y] # i PROVE FALSE OBVIOUS
<1>. DEFINE S == Ancestors(w, x) \ {i}
<1>1. x \in Items BY AncestorsOfOthers
<1>2. w.parent[x] \in S /\ \A y \in S \cap Items : w.parent[y] \in S BY <1>1, AncestorsLemma
<1>. HIDE DEF S
<1>3. Ancestors(w, x) \subseteq S BY <1>1, <1>2, AncestorsLemma
<1>. QED BY <1>3 DEF S

\* Nothing is in an item that is nowhere, unless it has just been taken up.
LEMMA FreeEmpty ==
    ASSUME NEW w, NEW L, Orderly(w, L), NEW f \in Free(w) \ L
    PROVE  /\ w.inside[f] = <<>> /\ \A y \in Items : w.parent[y] # f
           /\ \A x : f \notin Ancestors(w, x)
<1>1. f \in Items /\ w.parent[f] = None BY DEF Free, Placed
<1>2. Ancestors(w, f) = {None}
  <2>1. Ancestors(w, None) = {} BY AncestorsOfOthers, ThingAssumption
  <2>. QED BY <1>1, <2>1, AncestorsUnfold
<1>3. ASSUME NEW y \in Items, w.parent[y] = f PROVE FALSE
  <2>1. y \in Placed(w) BY <1>1, <1>3, ThingAssumption DEF Placed
  <2>2. PICK r \in Grounds \cup L : r \in Ancestors(w, y) BY <2>1 DEF Orderly
  <2>3. r \in {f, None} BY <1>2, <1>3, <2>2, AncestorsUnfold
  <2>4. r # None /\ r # f
    BY <1>1, <2>2, ThingAssumption DEF Grounds, Orderly
  <2>. QED BY <2>3, <2>4
<1>4. w.inside[f] \in Seq(Items) BY <1>1 DEF Orderly, Typed
<1>5. Range(w.inside[f]) = {}
  <2>1. \A i \in Range(w.inside[f]) : w.parent[i] = f BY <1>1 DEF Orderly, Held
  <2>2. Range(w.inside[f]) \subseteq Items BY <1>4, RangeOfSeq DEF Range
  <2>. QED BY <1>3, <2>1, <2>2
<1>6. w.inside[f] = <<>>
  <2>1. PICK m : m = w.inside[f] OBVIOUS
  <2>2. m \in Seq(Items) /\ Range(m) = {} BY <1>4, <1>5, <2>1
  <2>3. DOMAIN m = {} BY <2>2 DEF Range
  <2>4. Len(m) \in Nat /\ DOMAIN m = 1..Len(m) BY <2>2, LenProperties
  <2>5. Len(m) = 0 BY <2>3, <2>4
  <2>. QED BY <2>1, <2>2, <2>5, EmptySeq
<1>. QED BY <1>3, <1>6, ChildBelow

\* An object that is nowhere may as well be called loose.
LEMMA Loosen ==
    ASSUME NEW w, Orderly(w, {}), NEW i \in Free(w)
    PROVE  Orderly(w, {i})
BY DEF Orderly, Free, Placed

\* What holds nothing leaves the others in order when it is taken up.
LEMMA LooseEmpty ==
    ASSUME NEW w, NEW i, Orderly(w, {i}), Capacity(w, i) = 0
    PROVE  Orderly(w, {})
<1>1. i \in Items BY DEF Orderly
<1>2. w.inside[i] \in Seq(Items) /\ Len(w.inside[i]) <= 0 BY <1>1 DEF Orderly, Held, Typed
<1>3. Range(w.inside[i]) = {} BY <1>2 DEF Range
<1>4. \A y \in Items : w.parent[y] # i
  <2>. SUFFICES ASSUME NEW y \in Items, w.parent[y] = i PROVE FALSE OBVIOUS
  <2>1. y \in Placed(w) BY <1>1, ThingAssumption DEF Placed
  <2>2. Has(w, i, y) BY <2>1 DEF Orderly
  <2>3. i \notin Players BY <1>1, ThingAssumption
  <2>. QED BY <1>3, <2>2, <2>3 DEF Has
<1>5. \A x : i \notin Ancestors(w, x) BY <1>4, ChildBelow
<1>. QED BY <1>5 DEF Orderly

\* Where an item was or will be put makes no difference to what is in it, nor
\* to what is not.
LEMMA OneParent ==
    ASSUME NEW w, NEW u, NEW i, \A y \in Items \ {i} : u.parent[y] = w.parent[y]
    PROVE  /\ \A x : x # i /\ i \notin Ancestors(w, x) => Ancestors(u, x) = Ancestors(w, x)
           /\ \A x : x # i => (i \in Ancestors(u, x) <=> i \in Ancestors(w, x))
<1>1. ASSUME NEW a, NEW b, \A y \in Items \ {i} : a.parent[y] = b.parent[y],
             NEW x, x # i, i \notin Ancestors(b, x)
      PROVE  Ancestors(a, x) = Ancestors(b, x)
  BY <1>1, AncestorsSame
<1>2. \A x : x # i /\ i \notin Ancestors(w, x) => Ancestors(u, x) = Ancestors(w, x)
  BY <1>1
<1>3. \A x : x # i /\ i \notin Ancestors(u, x) => Ancestors(u, x) = Ancestors(w, x)
  BY <1>1
<1>. QED BY <1>2, <1>3

\* The kind and the count of i change, not what it can hold.
Recast(w, u, i, k, n) ==
    /\ DOMAIN u = DOMAIN w /\ u.parent = w.parent /\ u.inside = w.inside /\ u.slot = w.slot
    /\ u.at = w.at /\ u.offer = w.offer /\ u.open = w.open
    /\ u.kind = [w.kind EXCEPT ![i] = k] /\ u.count = [w.count EXCEPT ![i] = n]

\* Item::setID and setSubType leave the order, if what the item can hold does
\* not shrink below what it holds.
LEMMA RecastOrderly ==
    ASSUME NEW w, NEW L, Orderly(w, L), NEW i \in Items, NEW k \in Kinds, NEW n \in 0..MaxStack,
           i \in Placed(w) => n >= 1,
           Attr[k].capacity = Capacity(w, i) \/ w.inside[i] = <<>>,
           NEW u, Recast(w, u, i, k, n)
    PROVE  Orderly(u, L)
<1>1. Typed(w) /\ Held(w) BY DEF Orderly
<1>2. Typed(u) BY <1>1 DEF Typed, Recast
<1>3. ASSUME NEW c \in Items PROVE Len(u.inside[c]) <= Capacity(u, c)
  <2>1. Len(w.inside[c]) <= Capacity(w, c) BY <1>1 DEF Held
  <2>2. u.inside[c] = w.inside[c] BY DEF Recast
  <2>3. u.kind[c] = IF c = i THEN k ELSE w.kind[c] BY <1>1 DEF Recast, Typed
  <2>4. Attr[k].capacity \in Nat BY KindAssumption
  <2>5. Len(<<>>) = 0 OBVIOUS
  <2>. QED BY <2>1, <2>2, <2>3, <2>4, <2>5 DEF Capacity
<1>4. Held(u) BY <1>1, <1>3 DEF Held, Recast
<1>5. \A x : Ancestors(u, x) = Ancestors(w, x) BY AncestorsSame DEF Recast
<1>6. \A c, x : Has(u, c, x) = Has(w, c, x) BY DEF Has, SlotItems, Recast
<1>7. Placed(u) = Placed(w) BY DEF Placed, Recast
<1>8. ASSUME NEW x \in Placed(u) PROVE Count(u, x) \in 1..MaxStack
  <2>1. x \in Items /\ Count(w, x) \in 1..MaxStack BY <1>7 DEF Orderly, Placed
  <2>2. u.count[x] = IF x = i THEN n ELSE w.count[x] BY <1>1, <2>1 DEF Recast, Typed
  <2>. QED BY <1>7, <2>1, <2>2 DEF Count
<1>9. u.parent = w.parent BY DEF Recast
<1>. QED BY <1>2, <1>4, <1>5, <1>6, <1>7, <1>8, <1>9 DEF Orderly

\* Cylinder::__updateThing does no more than that.
LEMMA UpdateRecast ==
    ASSUME NEW w, NEW i, NEW k, NEW n
    PROVE  Recast(w, UpdateThing(w, i, k, n), i, k, n)
<1>. DEFINE u == [w EXCEPT !.kind[i] = k, !.count[i] = n]
<1>1. Recast(w, u, i, k, n) BY DEF Recast
<1>2. UpdateThing(w, i, k, n) \in {u, Bump(u, w.parent[i], Weight(u, i) - Weight(w, i))}
  BY DEF UpdateThing
<1>. HIDE DEF u
<1>3. ASSUME NEW c, NEW d PROVE Recast(w, Bump(u, c, d), i, k, n)
  BY <1>1, BumpAlike DEF Recast, Alike
<1>. QED BY <1>1, <1>2, <1>3

-------------------------------------------------------------------------------
(* Taking an item out, and putting one in.                                   *)

\* u is w without i, which is nowhere now, with all that is in it.
Removed(w, u, i) ==
    /\ DOMAIN u = DOMAIN w /\ u.kind = w.kind /\ u.count = w.count
    /\ u.at = w.at /\ u.offer = w.offer /\ u.open = w.open
    /\ u.parent = [w.parent EXCEPT ![i] = None]
    /\ u.slot \in [Players -> [Slots -> Items \cup {None}]]
    /\ \A p \in Players, s \in Slots :
          u.slot[p][s] = IF w.slot[p][s] = i THEN None ELSE w.slot[p][s]
    /\ u.inside \in [Items \cup Tiles -> Seq(Items)]
    /\ \A c \in Items \cup Tiles : /\ Range(u.inside[c]) = Range(w.inside[c]) \ {i}
                                   /\ Len(u.inside[c]) <= Len(w.inside[c])
                                   /\ IsInjective(u.inside[c])

\* What is taken out is loose, with what is in it, and all else is in order.
LEMMA RemovedOrderly ==
    ASSUME NEW w, Orderly(w, {}), NEW i \in Items, NEW u, Removed(w, u, i)
    PROVE  Orderly(u, {i})
<1>1. Typed(w) /\ Held(w) BY DEF Orderly
<1>2. \A y \in Items : u.parent[y] = IF y = i THEN None ELSE w.parent[y]
  BY <1>1 DEF Removed, Typed
<1>3. Typed(u) BY <1>1 DEF Typed, Removed
<1>4. Held(u)
  <2>1. ASSUME NEW c \in Items \cup Tiles
        PROVE  /\ IsInjective(u.inside[c])
               /\ \A x \in Range(u.inside[c]) : u.parent[x] = c
               /\ c \in Items => Len(u.inside[c]) <= Capacity(u, c)
    <3>1. IsInjective(u.inside[c]) BY DEF Removed
    <3>2. ASSUME NEW x \in Range(u.inside[c]) PROVE u.parent[x] = c
      <4>1. x \in Range(w.inside[c]) /\ x # i BY DEF Removed
      <4>2. w.inside[c] \in Seq(Items) BY <1>1 DEF Typed
      <4>3. x \in Items BY <4>1, <4>2, RangeOfSeq DEF Range
      <4>. QED BY <1>1, <1>2, <4>1, <4>3 DEF Held
    <3>3. ASSUME c \in Items PROVE Len(u.inside[c]) <= Capacity(u, c)
      <4>1. Len(w.inside[c]) <= Capacity(w, c) BY <1>1, <3>3 DEF Held
      <4>2. Len(u.inside[c]) <= Len(w.inside[c]) BY DEF Removed
      <4>3. Len(u.inside[c]) \in Nat /\ Len(w.inside[c]) \in Nat
        BY <1>1, <1>3, LenProperties DEF Typed
      <4>4. Capacity(u, c) = Capacity(w, c) /\ Capacity(w, c) \in Nat
        BY <1>1, <3>3, KindAssumption DEF Capacity, Removed, Typed
      <4>. QED BY <4>1, <4>2, <4>3, <4>4
    <3>. QED BY <3>1, <3>2, <3>3
  <2>2. ASSUME NEW p \in Players, NEW s \in Slots, u.slot[p][s] # None
        PROVE  /\ u.parent[u.slot[p][s]] = p
               /\ \A t \in Slots : u.slot[p][t] = u.slot[p][s] => t = s
    <3>1. u.slot[p][s] = w.slot[p][s] /\ w.slot[p][s] # i BY <2>2 DEF Removed
    <3>2. w.slot[p][s] \in Items /\ w.slot[p][s] # None
      BY <1>1, <2>2, <3>1 DEF Typed
    <3>3. \A t \in Slots : u.slot[p][t] = w.slot[p][s] => w.slot[p][t] = w.slot[p][s]
      BY <3>2, ThingAssumption DEF Removed
    <3>. QED BY <1>1, <1>2, <3>1, <3>2, <3>3 DEF Held
  <2>. QED BY <2>1, <2>2 DEF Held
<1>5. Placed(u) = Placed(w) \ {i} BY <1>2 DEF Placed
<1>6. ASSUME NEW x \in Placed(u)
      PROVE  /\ Has(u, u.parent[x], x) /\ Count(u, x) \in 1..MaxStack
             /\ \E r \in Grounds \cup {i} : r \in Ancestors(u, x)
  <2>1. x \in Placed(w) /\ x # i /\ x \in Items BY <1>5 DEF Placed
  <2>2. u.parent[x] = w.parent[x] BY <1>2, <2>1
  <2>3. Has(w, w.parent[x], x) /\ Count(w, x) \in 1..MaxStack BY <2>1 DEF Orderly
  <2>4. Has(u, w.parent[x], x)
    <3>1. CASE w.parent[x] \in Players
      <4>1. PICK s \in Slots : w.slot[w.parent[x]][s] = x
        BY <2>3, <3>1 DEF Has, SlotItems
      <4>2. u.slot[w.parent[x]][s] = x BY <2>1, <3>1, <4>1 DEF Removed
      <4>3. x # None BY <2>1, ThingAssumption
      <4>. QED BY <3>1, <4>2, <4>3 DEF Has, SlotItems
    <3>2. CASE w.parent[x] \notin Players
      <4>1. w.parent[x] \in Items \cup Tiles BY <1>1, <2>1, <3>2 DEF Typed, Placed
      <4>2. x \in Range(w.inside[w.parent[x]]) BY <2>3, <3>2 DEF Has
      <4>. QED BY <2>1, <3>2, <4>1, <4>2 DEF Has, Removed
    <3>. QED BY <3>1, <3>2
  <2>5. Count(u, x) \in 1..MaxStack BY <2>3 DEF Count, Removed
  <2>6. PICK r \in Grounds : r \in Ancestors(w, x) BY <2>1 DEF Orderly
  <2>7. \A y \in Items \ {i} : u.parent[y] = w.parent[y] BY <1>2
  <2>8. i \in Ancestors(u, x) \/ r \in Ancestors(u, x)
    <3>1. CASE i \in Ancestors(w, x) BY <2>1, <2>7, <3>1, OneParent
    <3>2. CASE i \notin Ancestors(w, x)
      <4>1. Ancestors(u, x) = Ancestors(w, x) BY <2>1, <2>7, <3>2, OneParent
      <4>. QED BY <2>6, <4>1
    <3>. QED BY <3>1, <3>2
  <2>. QED BY <2>2, <2>4, <2>5, <2>8
<1>7. u.parent[i] = None BY <1>2
<1>. QED BY <1>3, <1>4, <1>6, <1>7 DEF Orderly

\* Who has an item has it in one place.
LEMMA IndexLemma ==
    ASSUME NEW w, NEW L, Orderly(w, L), NEW i \in Placed(w)
    PROVE  LET cyl == w.parent[i]
           IN IF cyl \in Players
              THEN /\ SlotOf(w, cyl, i) \in Slots /\ w.slot[cyl][SlotOf(w, cyl, i)] = i
              ELSE /\ cyl \in Items \cup Tiles
                   /\ Index(w, cyl, i) \in DOMAIN w.inside[cyl]
                   /\ w.inside[cyl][Index(w, cyl, i)] = i
<1>. DEFINE cyl == w.parent[i]
<1>1. Has(w, cyl, i) /\ cyl \in Players \cup Tiles \cup Items
  BY DEF Orderly, Typed, Placed
<1>2. CASE cyl \in Players
  <2>1. \E s \in Slots : w.slot[cyl][s] = i BY <1>1, <1>2 DEF Has, SlotItems
  <2>. QED BY <1>2, <2>1 DEF SlotOf
<1>3. CASE cyl \notin Players
  <2>1. \E n \in DOMAIN w.inside[cyl] : w.inside[cyl][n] = i BY <1>1, <1>3 DEF Has, Range
  <2>2. PICK a : a = Index(w, cyl, i) OBVIOUS
  <2>3. a = CHOOSE n \in DOMAIN w.inside[cyl] : w.inside[cyl][n] = i
    BY <1>3, <2>2 DEF Index
  <2>4. a \in DOMAIN w.inside[cyl] /\ w.inside[cyl][a] = i BY <2>1, <2>3
  <2>. QED BY <1>1, <1>3, <2>2, <2>4
<1>. QED BY <1>2, <1>3

\* All of i is taken out of where it is.
LEMMA RemoveRemoved ==
    ASSUME NEW w, Orderly(w, {}), NEW i \in Placed(w), NEW n,
           Stackable(w, i) => n = w.count[i]
    PROVE  Removed(w, RemoveThing(w, w.parent[i], i, n), i)
<1>. DEFINE cyl == w.parent[i]
            t == [w EXCEPT !.parent[i] = None]
            a == [t EXCEPT !.slot[cyl][SlotOf(w, cyl, i)] = None]
            b == [t EXCEPT !.inside[cyl] = RemoveAt(@, Index(w, cyl, i))]
<1>1. Typed(w) /\ Held(w) /\ i \in Items BY DEF Orderly, Placed
<1>2. RemoveThing(w, cyl, i, n) =
        CASE cyl \in Players -> a [] cyl \in Tiles -> b
          [] OTHER -> Bump(b, cyl, - Weight(w, i))
  BY DEF RemoveThing
<1>3. CASE cyl \in Players
  <2>. DEFINE s == SlotOf(w, cyl, i)
  <2>1. s \in Slots /\ w.slot[cyl][s] = i BY <1>3, IndexLemma
  <2>2. RemoveThing(w, cyl, i, n) = a
    <3>. HIDE DEF a, b
    <3>1. cyl \notin Tiles BY <1>3, ThingAssumption
    <3>. QED BY <1>2, <1>3, <3>1
  <2>. HIDE DEF s
  <2>3. /\ DOMAIN a = DOMAIN w /\ a.kind = w.kind /\ a.count = w.count /\ a.inside = w.inside
        /\ a.at = w.at /\ a.offer = w.offer /\ a.open = w.open
        /\ a.parent = [w.parent EXCEPT ![i] = None]
        /\ a.slot = [w.slot EXCEPT ![cyl][s] = None]
    BY <1>1 DEF Typed, s
  <2>. HIDE DEF a
  <2>4. \A c \in Items \cup Tiles : i \notin Range(w.inside[c])
    BY <1>1, <1>3, ThingAssumption DEF Held
  <2>5. a.slot \in [Players -> [Slots -> Items \cup {None}]]
    BY <1>1, <1>3, <2>1, <2>3 DEF Typed
  <2>6. ASSUME NEW p \in Players, NEW t0 \in Slots
        PROVE  a.slot[p][t0] = IF w.slot[p][t0] = i THEN None ELSE w.slot[p][t0]
    <3>1. w.slot[p][t0] = i => p = cyl /\ t0 = s
      BY <1>1, <1>3, <2>1, ThingAssumption DEF Held
    <3>2. w.slot \in [Players -> [Slots -> Items \cup {None}]] BY <1>1 DEF Typed
    <3>3. a.slot[p][t0] = IF p = cyl /\ t0 = s THEN None ELSE w.slot[p][t0]
      BY <1>3, <2>1, <2>3, <3>2
    <3>. QED BY <2>1, <3>1, <3>3
  <2>7. \A c \in Items \cup Tiles : Len(w.inside[c]) <= Len(w.inside[c])
    BY <1>1, LenProperties DEF Typed
  <2>8. \A c \in Items \cup Tiles : IsInjective(w.inside[c]) BY <1>1 DEF Held
  <2>9. w.inside \in [Items \cup Tiles -> Seq(Items)] BY <1>1 DEF Typed
  <2>. QED BY <2>2, <2>3, <2>4, <2>5, <2>6, <2>7, <2>8, <2>9 DEF Removed
<1>4. CASE cyl \notin Players
  <2>. DEFINE k == Index(w, cyl, i)
              m == w.inside[cyl]
  <2>1. cyl \in Items \cup Tiles /\ k \in DOMAIN m /\ m[k] = i BY <1>4, IndexLemma
  <2>2. Alike(b, RemoveThing(w, cyl, i, n)) /\ RemoveThing(w, cyl, i, n).open = b.open
    <3>1. RemoveThing(w, cyl, i, n) \in {b, Bump(b, cyl, - Weight(w, i))} BY <1>2, <1>4
    <3>2. Alike(b, b) BY DEF Alike
    <3>. HIDE DEF b
    <3>. QED BY <3>1, <3>2, BumpAlike
  <2>3. /\ DOMAIN b = DOMAIN w /\ b.kind = w.kind /\ b.count = w.count /\ b.slot = w.slot
        /\ b.at = w.at /\ b.offer = w.offer /\ b.open = w.open
        /\ b.parent = [w.parent EXCEPT ![i] = None]
        /\ b.inside = [w.inside EXCEPT ![cyl] = RemoveAt(@, k)]
    BY <1>1 DEF Typed
  <2>. HIDE DEF b, k
  <2>4. m \in Seq(Items) /\ IsInjective(m) BY <1>1, <2>1 DEF Typed, Held
  <2>5. k \in 1..Len(m) BY <2>1, <2>4, LenProperties
  <2>6. /\ RemoveAt(m, k) \in Seq(Items) /\ IsInjective(RemoveAt(m, k))
        /\ Range(RemoveAt(m, k)) = Range(m) \ {i} /\ Len(RemoveAt(m, k)) = Len(m) - 1
    <3>. HIDE DEF m
    <3>. QED BY <2>1, <2>4, <2>5, RemoveAtLemma
  <2>7. w.inside \in [Items \cup Tiles -> Seq(Items)] BY <1>1 DEF Typed
  <2>8. b.inside \in [Items \cup Tiles -> Seq(Items)] BY <2>1, <2>3, <2>6, <2>7
  <2>9. ASSUME NEW c \in Items \cup Tiles
        PROVE  /\ Range(b.inside[c]) = Range(w.inside[c]) \ {i}
               /\ Len(b.inside[c]) <= Len(w.inside[c]) /\ IsInjective(b.inside[c])
    <3>1. w.inside[c] \in Seq(Items) /\ Len(w.inside[c]) \in Nat BY <2>7, LenProperties
    <3>2. CASE c = cyl
      <4>1. b.inside[c] = RemoveAt(m, k) BY <2>3, <2>7, <3>2
      <4>. QED BY <2>6, <3>1, <3>2, <4>1
    <3>3. CASE c # cyl
      <4>1. b.inside[c] = w.inside[c] BY <2>3, <2>7, <3>3
      <4>2. i \notin Range(w.inside[c]) BY <1>1, <3>3 DEF Held
      <4>. QED BY <1>1, <3>1, <4>1, <4>2 DEF Held
    <3>. QED BY <3>2, <3>3
  <2>10. \A p \in Players, s \in Slots : w.slot[p][s] # i
    BY <1>1, <1>4, ThingAssumption DEF Held
  <2>11. w.slot \in [Players -> [Slots -> Items \cup {None}]] BY <1>1 DEF Typed
  <2>. QED BY <2>2, <2>3, <2>8, <2>9, <2>10, <2>11 DEF Removed, Alike
<1>. QED BY <1>3, <1>4

\* Where a thing finds room.
Fits(w, cyl, idx) ==
    \/ cyl \in Players /\ idx \in Slots /\ w.slot[cyl][idx] = None
    \/ cyl \in Tiles /\ Len(w.inside[cyl]) < TileRoom
    \/ /\ cyl \in Items /\ Root(w, cyl) # None
       /\ idx \in Int /\ idx < Capacity(w, cyl) /\ Len(w.inside[cyl]) < Capacity(w, cyl)

\* v is w with i, which was nowhere, in cyl.
Added(w, v, cyl, i) ==
    /\ DOMAIN v = DOMAIN w /\ v.kind = w.kind /\ v.count = w.count
    /\ v.at = w.at /\ v.offer = w.offer /\ v.open = w.open
    /\ v.parent = [w.parent EXCEPT ![i] = cyl]
    /\ v.slot \in [Players -> [Slots -> Items \cup {None}]]
    /\ v.inside \in [Items \cup Tiles -> Seq(Items)]
    /\ IF cyl \in Players
       THEN \E s \in Slots : w.slot[cyl][s] = None /\ v.slot = [w.slot EXCEPT ![cyl][s] = i]
       ELSE v.slot = w.slot
    /\ \A c \in Items \cup Tiles :
          /\ Range(v.inside[c]) = Range(w.inside[c]) \cup (IF c = cyl THEN {i} ELSE {})
          /\ IsInjective(v.inside[c])
          /\ c \in Items => Len(v.inside[c]) <= Capacity(w, c)

\* An item with a root is below nothing that has none.
LEMMA AboveRooted ==
    ASSUME NEW w, NEW x, Root(w, x) # None, NEW i \in {x} \cup Ancestors(w, x)
    PROVE  Root(w, i) = Root(w, x)
<1>1. Root(w, x) \in Grounds /\ Root(w, x) \in {x} \cup Ancestors(w, x) BY RootType
<1>. QED BY <1>1, RootLemma

\* What has no parent has no place.
LEMMA NowhereRoot ==
    ASSUME NEW w, NEW i \in Items, w.parent[i] = None PROVE Root(w, i) = None
BY RootUp, AncestorsOfOthers, RootType, ThingAssumption DEF Grounds

\* A loose item that is put into a place with room for it is in order again.
LEMMA AddedOrderly ==
    ASSUME NEW w, NEW i, Orderly(w, {i}), Count(w, i) >= 1,
           NEW cyl \in Grounds \cup Items, cyl \in Items => Root(w, cyl) # None,
           NEW v, Added(w, v, cyl, i)
    PROVE  Orderly(v, {})
<1>1. Typed(w) /\ Held(w) /\ i \in Items /\ w.parent[i] = None BY DEF Orderly
<1>2. \A y \in Items : v.parent[y] = IF y = i THEN cyl ELSE w.parent[y]
  BY <1>1 DEF Added, Typed
<1>3. Typed(v) BY <1>1 DEF Typed, Added, Grounds
<1>4. /\ \A c \in Items \cup Tiles : i \notin Range(w.inside[c])
      /\ \A p \in Players, s \in Slots : w.slot[p][s] # i
  BY <1>1, ThingAssumption DEF Held
<1>5. \E q, o : \A p \in Players, s \in Slots :
         v.slot[p][s] = IF p = cyl /\ p = q /\ s = o THEN i ELSE w.slot[p][s]
  <2>1. CASE cyl \in Players
    <3>1. PICK o \in Slots : v.slot = [w.slot EXCEPT ![cyl][o] = i] BY <2>1 DEF Added
    <3>2. w.slot \in [Players -> [Slots -> Items \cup {None}]] BY <1>1 DEF Typed
    <3>3. \A p \in Players, s \in Slots :
             v.slot[p][s] = IF p = cyl /\ p = cyl /\ s = o THEN i ELSE w.slot[p][s]
      BY <2>1, <3>1, <3>2
    <3>. QED BY <3>3
  <2>2. CASE cyl \notin Players
    <3>1. v.slot = w.slot BY <2>2 DEF Added
    <3>. QED BY <2>2, <3>1
  <2>. QED BY <2>1, <2>2
<1>6. /\ \A p \in Players, s \in Slots : v.slot[p][s] \in {w.slot[p][s], i}
      /\ \A p \in Players, s \in Slots : v.slot[p][s] = i => p = cyl
      /\ \A p \in Players, s, t \in Slots : v.slot[p][s] = i /\ v.slot[p][t] = i => s = t
      /\ \A p \in Players, s \in Slots : w.slot[p][s] # None => v.slot[p][s] = w.slot[p][s]
  <2>1. \A p \in Players, s \in Slots : w.slot[p][s] # None => v.slot[p][s] = w.slot[p][s]
    <3>1. CASE cyl \in Players
      <4>1. PICK o \in Slots : w.slot[cyl][o] = None /\ v.slot = [w.slot EXCEPT ![cyl][o] = i]
        BY <3>1 DEF Added
      <4>2. w.slot \in [Players -> [Slots -> Items \cup {None}]] BY <1>1 DEF Typed
      <4>. QED BY <3>1, <4>1, <4>2
    <3>2. CASE cyl \notin Players BY <3>2 DEF Added
    <3>. QED BY <3>1, <3>2
  <2>2. PICK q, o : \A p \in Players, s \in Slots :
           v.slot[p][s] = IF p = cyl /\ p = q /\ s = o THEN i ELSE w.slot[p][s]
    BY <1>5
  <2>. QED BY <1>4, <2>1, <2>2
<1>7. Held(v)
  <2>1. ASSUME NEW c \in Items \cup Tiles
        PROVE  /\ IsInjective(v.inside[c])
               /\ \A x \in Range(v.inside[c]) : v.parent[x] = c
               /\ c \in Items => Len(v.inside[c]) <= Capacity(v, c)
    <3>1. ASSUME NEW x \in Range(v.inside[c]) PROVE v.parent[x] = c
      <4>1. CASE x \in Range(w.inside[c])
        <5>1. w.inside[c] \in Seq(Items) BY <1>1 DEF Typed
        <5>2. x \in Items BY <4>1, <5>1, RangeOfSeq DEF Range
        <5>. QED BY <1>1, <1>2, <1>4, <4>1, <5>2 DEF Held
      <4>2. CASE x \notin Range(w.inside[c]) BY <1>1, <1>2, <3>1, <4>2 DEF Added
      <4>. QED BY <4>1, <4>2
    <3>2. c \in Items => Capacity(v, c) = Capacity(w, c) BY DEF Capacity, Added
    <3>. QED BY <3>1, <3>2 DEF Added
  <2>2. ASSUME NEW p \in Players, NEW s \in Slots, v.slot[p][s] # None
        PROVE  /\ v.parent[v.slot[p][s]] = p
               /\ \A t \in Slots : v.slot[p][t] = v.slot[p][s] => t = s
    <3>1. CASE v.slot[p][s] = i BY <1>1, <1>2, <1>4, <1>6, <3>1
    <3>2. CASE v.slot[p][s] # i
      <4>1. v.slot[p][s] = w.slot[p][s] BY <1>6, <3>2
      <4>2. w.slot[p][s] \in Items BY <1>1, <2>2, <4>1 DEF Typed
      <4>3. \A t \in Slots : v.slot[p][t] = v.slot[p][s] => w.slot[p][t] = w.slot[p][s]
        BY <1>6, <3>2, <4>1
      <4>. QED BY <1>1, <1>2, <2>2, <3>2, <4>1, <4>2, <4>3 DEF Held
    <3>. QED BY <3>1, <3>2
  <2>. QED BY <2>1, <2>2 DEF Held
<1>8. cyl # None BY ThingAssumption DEF Grounds
<1>9. Placed(v) = Placed(w) \cup {i} BY <1>1, <1>2, <1>8 DEF Placed
<1>10. \A y \in Items \ {i} : v.parent[y] = w.parent[y] BY <1>2
\* i is under a player or a tile now
<1>11. \E r \in Grounds : r \in Ancestors(v, i)
  <2>1. Ancestors(v, i) = {cyl} \cup Ancestors(v, cyl) BY <1>1, <1>2, AncestorsUnfold
  <2>2. CASE cyl \in Grounds BY <2>1, <2>2
  <2>3. CASE cyl \in Items
    <3>1. Root(w, cyl) # None /\ Root(w, i) = None BY <1>1, <2>3, NowhereRoot
    <3>2. i # cyl /\ i \notin Ancestors(w, cyl) BY <3>1, AboveRooted
    <3>3. Ancestors(v, cyl) = Ancestors(w, cyl) BY <1>10, <3>2, OneParent
    <3>4. Root(w, cyl) \in Grounds /\ Root(w, cyl) \in Ancestors(w, cyl)
      BY <2>3, <3>1, RootType, ThingAssumption DEF Grounds
    <3>. QED BY <2>1, <3>3, <3>4
  <2>. QED BY <2>2, <2>3
<1>12. ASSUME NEW x \in Placed(v)
       PROVE  /\ Has(v, v.parent[x], x) /\ Count(v, x) \in 1..MaxStack
              /\ \E r \in Grounds : r \in Ancestors(v, x)
  <2>1. CASE x = i
    <3>1. Count(v, i) \in 1..MaxStack
      <4>1. w.count[i] \in 0..MaxStack /\ v.count = w.count BY <1>1 DEF Typed, Added
      <4>2. w.count[i] >= 1 BY DEF Count
      <4>. QED BY <4>1, <4>2, KindAssumption DEF Count
    <3>2. Has(v, cyl, i)
      <4>1. CASE cyl \in Players
        <5>1. PICK s \in Slots : v.slot = [w.slot EXCEPT ![cyl][s] = i] BY <4>1 DEF Added
        <5>2. v.slot[cyl][s] = i BY <1>1, <4>1, <5>1 DEF Typed
        <5>. QED BY <1>1, <4>1, <5>2, ThingAssumption DEF Has, SlotItems
      <4>2. CASE cyl \notin Players
        <5>1. cyl \in Items \cup Tiles BY <4>2 DEF Grounds
        <5>. QED BY <4>2, <5>1 DEF Has, Added
      <4>. QED BY <4>1, <4>2
    <3>. QED BY <1>1, <1>2, <1>11, <2>1, <3>1, <3>2
  <2>2. CASE x # i
    <3>1. x \in Placed(w) /\ x \in Items /\ v.parent[x] = w.parent[x]
      BY <1>2, <1>9, <2>2 DEF Placed
    <3>2. Has(w, w.parent[x], x) /\ Count(w, x) \in 1..MaxStack BY <3>1 DEF Orderly
    <3>3. Has(v, w.parent[x], x)
      <4>1. CASE w.parent[x] \in Players
        <5>1. PICK s \in Slots : w.slot[w.parent[x]][s] = x
          BY <3>2, <4>1 DEF Has, SlotItems
        <5>2. x # None BY <3>1, ThingAssumption
        <5>3. v.slot[w.parent[x]][s] = x BY <1>6, <4>1, <5>1, <5>2
        <5>. QED BY <4>1, <5>2, <5>3 DEF Has, SlotItems
      <4>2. CASE w.parent[x] \notin Players
        <5>1. w.parent[x] \in Items \cup Tiles BY <1>1, <3>1, <4>2 DEF Typed, Placed
        <5>2. x \in Range(w.inside[w.parent[x]]) BY <3>2, <4>2 DEF Has
        <5>. QED BY <4>2, <5>1, <5>2 DEF Has, Added
      <4>. QED BY <4>1, <4>2
    <3>4. Count(v, x) \in 1..MaxStack BY <3>2 DEF Count, Added
    <3>5. PICK r \in Grounds \cup {i} : r \in Ancestors(w, x) BY <3>1 DEF Orderly
    <3>6. \E q \in Grounds : q \in Ancestors(v, x)
      <4>1. CASE i \in Ancestors(w, x)
        <5>1. i \in Ancestors(v, x) BY <1>10, <2>2, <4>1, OneParent
        <5>2. Ancestors(v, i) \subseteq Ancestors(v, x) BY <5>1, AncestorsAbove
        <5>. QED BY <1>11, <5>2
      <4>2. CASE i \notin Ancestors(w, x)
        <5>1. Ancestors(v, x) = Ancestors(w, x) BY <1>10, <2>2, <4>2, OneParent
        <5>. QED BY <3>5, <4>2, <5>1
      <4>. QED BY <4>1, <4>2
    <3>. QED BY <3>1, <3>3, <3>4, <3>6
  <2>. QED BY <2>1, <2>2
<1>. QED BY <1>3, <1>7, <1>12 DEF Orderly

\* Cylinder::__addThing puts it there, in each of the three kinds of cylinder.
LEMMA AddAdded ==
    ASSUME NEW w, NEW i, Orderly(w, {i}), NEW cyl, NEW idx, Fits(w, cyl, idx)
    PROVE  Added(w, AddThing(w, cyl, idx, i), cyl, i)
<1>. DEFINE t == [w EXCEPT !.parent[i] = cyl]
            a == [t EXCEPT !.slot[cyl][idx] = i]
            b == [t EXCEPT !.inside[cyl] = <<i>> \o @]
<1>1. Typed(w) /\ Held(w) /\ i \in Items /\ w.parent[i] = None BY DEF Orderly
<1>2. /\ \A c \in Items \cup Tiles : i \notin Range(w.inside[c])
      /\ \A p \in Players, s \in Slots : w.slot[p][s] # i
  BY <1>1, ThingAssumption DEF Held
<1>3. w.inside \in [Items \cup Tiles -> Seq(Items)] BY <1>1 DEF Typed
<1>4. \A c \in Items \cup Tiles :
         /\ w.inside[c] \in Seq(Items) /\ IsInjective(w.inside[c])
         /\ c \in Items => Len(w.inside[c]) <= Capacity(w, c)
  BY <1>1, <1>3 DEF Held
<1>5. CASE cyl \in Players
  <2>1. idx \in Slots /\ w.slot[cyl][idx] = None BY <1>5, ThingAssumption DEF Fits
  <2>2. AddThing(w, cyl, idx, i) = [w EXCEPT !.parent[i] = cyl, !.slot[cyl][idx] = i]
    <3>1. cyl \notin Tiles BY <1>5, ThingAssumption
    <3>. QED BY <1>5, <2>1, <3>1 DEF AddThing
  <2>3. PICK v : v = AddThing(w, cyl, idx, i) OBVIOUS
  <2>4. /\ DOMAIN v = DOMAIN w /\ v.kind = w.kind /\ v.count = w.count
        /\ v.inside = w.inside /\ v.at = w.at /\ v.offer = w.offer /\ v.open = w.open
        /\ v.parent = [w.parent EXCEPT ![i] = cyl]
        /\ v.slot = [w.slot EXCEPT ![cyl][idx] = i]
    BY <1>1, <2>2, <2>3 DEF Typed
  <2>5. v.slot \in [Players -> [Slots -> Items \cup {None}]]
    BY <1>1, <1>5, <2>1, <2>4 DEF Typed
  <2>6. \A c \in Items \cup Tiles : c # cyl BY <1>5, ThingAssumption
  <2>7. Added(w, v, cyl, i) BY <1>3, <1>4, <1>5, <2>1, <2>4, <2>5, <2>6 DEF Added
  <2>. QED BY <2>3, <2>7
<1>6. CASE cyl \in Tiles \cup Items
  <2>1. cyl \notin Players BY <1>6, ThingAssumption
  <2>2. AddThing(w, cyl, idx, i) \in
          {[w EXCEPT !.parent[i] = cyl, !.inside[cyl] = <<i>> \o @],
           Bump([w EXCEPT !.parent[i] = cyl, !.inside[cyl] = <<i>> \o @], cyl, Weight(w, i))}
    <3>1. CASE cyl \in Tiles
      <4>1. Len(w.inside[cyl]) < TileRoom BY <2>1, <3>1, ThingAssumption DEF Fits
      <4>2. Len(w.inside[cyl]) \in Nat BY <1>4, <3>1, LenProperties
      <4>3. ~(Len(w.inside[cyl]) >= TileRoom) BY <4>1, <4>2, KindAssumption
      <4>. QED BY <2>1, <3>1, <4>3 DEF AddThing
    <3>2. CASE cyl \notin Tiles
      <4>1. idx \in Int /\ idx < Capacity(w, cyl) BY <2>1, <3>2 DEF Fits
      <4>2. Capacity(w, cyl) \in Nat BY <1>1, <1>6, <3>2, KindAssumption DEF Capacity, Typed
      <4>3. ~(idx >= Capacity(w, cyl)) BY <4>1, <4>2
      <4>. QED BY <2>1, <3>2, <4>3 DEF AddThing
    <3>. QED BY <3>1, <3>2
  <2>3. PICK v : v = [w EXCEPT !.parent[i] = cyl, !.inside[cyl] = <<i>> \o @] OBVIOUS
  <2>4. PICK m : m = w.inside[cyl] OBVIOUS
  <2>5. /\ DOMAIN v = DOMAIN w /\ v.kind = w.kind /\ v.count = w.count
        /\ v.slot = w.slot /\ v.at = w.at /\ v.offer = w.offer /\ v.open = w.open
        /\ v.parent = [w.parent EXCEPT ![i] = cyl]
        /\ v.inside = [w.inside EXCEPT ![cyl] = <<i>> \o m]
    BY <1>1, <2>3, <2>4 DEF Typed
  <2>6. /\ <<i>> \o m \in Seq(Items) /\ IsInjective(<<i>> \o m)
        /\ Range(<<i>> \o m) = Range(m) \cup {i} /\ Len(<<i>> \o m) = Len(m) + 1
    BY <1>1, <1>2, <1>4, <1>6, <2>4, PrependLemma
  <2>7. v.inside \in [Items \cup Tiles -> Seq(Items)] BY <1>3, <1>6, <2>5, <2>6
  <2>8. ASSUME NEW c \in Items \cup Tiles
        PROVE  /\ Range(v.inside[c]) = Range(w.inside[c]) \cup (IF c = cyl THEN {i} ELSE {})
               /\ IsInjective(v.inside[c])
               /\ c \in Items => Len(v.inside[c]) <= Capacity(w, c)
    <3>1. CASE c = cyl
      <4>1. v.inside[c] = <<i>> \o m BY <1>3, <2>5, <3>1
      <4>2. ASSUME c \in Items PROVE Len(<<i>> \o m) <= Capacity(w, c)
        <5>1. Len(m) < Capacity(w, c) BY <2>1, <2>4, <3>1, <4>2, ThingAssumption DEF Fits
        <5>2. Len(m) \in Nat BY <1>4, <1>6, <2>4, LenProperties
        <5>3. Capacity(w, c) \in Nat BY <1>1, <4>2, KindAssumption DEF Capacity, Typed
        <5>. QED BY <2>6, <5>1, <5>2, <5>3
      <4>. QED BY <2>4, <2>6, <3>1, <4>1, <4>2
    <3>2. CASE c # cyl
      <4>1. v.inside[c] = w.inside[c] BY <1>3, <2>5, <3>2
      <4>. QED BY <1>4, <3>2, <4>1
    <3>. QED BY <3>1, <3>2
  <2>9. w.slot \in [Players -> [Slots -> Items \cup {None}]] BY <1>1 DEF Typed
  <2>10. Added(w, v, cyl, i)
    BY <2>1, <2>5, <2>7, <2>8, <2>9 DEF Added
  <2>11. AddThing(w, cyl, idx, i) \in {v, Bump(v, cyl, Weight(w, i))} BY <2>2, <2>3
  <2>12. Alike(v, AddThing(w, cyl, idx, i)) /\ AddThing(w, cyl, idx, i).open = v.open
    <3>1. Alike(v, v) BY DEF Alike
    <3>. QED BY <2>11, <3>1, BumpAlike
  <2>. QED BY <2>10, <2>12 DEF Added, Alike
<1>. QED BY <1>5, <1>6 DEF Fits

\* The objects of S go: with whatever is in them, and out of nobody's hands.
Apart(w, S) ==
    /\ S \subseteq Items
    /\ \A y \in Items : w.parent[y] \in S => y \in S
    /\ \A y \in S : w.parent[y] \in S \cup {None}

Blanked(w, v, S) ==
    /\ DOMAIN v = DOMAIN w /\ v.at = w.at /\ v.offer = w.offer /\ v.open = w.open
    /\ v.slot = w.slot
    /\ v.parent = [x \in Items |-> IF x \in S THEN None ELSE w.parent[x]]
    /\ \A x \in Items \ S : v.kind[x] = w.kind[x] /\ v.count[x] = w.count[x]
    /\ \A x : x \notin S => Ancestors(v, x) = Ancestors(w, x)

\* Objects that are freed together with all that is in them leave the others in
\* order.
LEMMA BlankLemma ==
    ASSUME NEW w, NEW L, Orderly(w, L), NEW S, Apart(w, S), NEW v, v = Blank(w, S)
    PROVE  Orderly(v, L \ S) /\ Blanked(w, v, S)
<1>1. Typed(w) /\ Held(w) /\ S \subseteq Items BY DEF Orderly, Apart
<1>2. PICK k0 : k0 = CHOOSE k \in Kinds : TRUE OBVIOUS
<1>3. k0 \in Kinds BY <1>2, ThingAssumption
<1>4. /\ DOMAIN v = DOMAIN w /\ v.at = w.at /\ v.offer = w.offer /\ v.open = w.open
      /\ v.slot = w.slot
      /\ v.parent = [x \in Items |-> IF x \in S THEN None ELSE w.parent[x]]
      /\ v.count = [x \in Items |-> IF x \in S THEN 0 ELSE w.count[x]]
      /\ v.inside = [c \in Items \cup Tiles |-> IF c \in S THEN <<>> ELSE w.inside[c]]
      /\ v.kind = [x \in Items |-> IF x \in S THEN k0 ELSE w.kind[x]]
  BY <1>1, <1>2 DEF Blank, Typed
<1>5. ASSUME NEW x, x \notin S PROVE Ancestors(w, x) \cap S = {}
  <2>1. CASE x \notin Items BY <2>1, AncestorsOfOthers
  <2>2. CASE x \in Items
    <3>. DEFINE A == Ancestors(w, x) \ S
    <3>1. w.parent[x] \in A BY <1>5, <2>2, AncestorsLemma DEF Apart
    <3>2. \A y \in A \cap Items : w.parent[y] \in A BY <2>2, AncestorsLemma DEF Apart
    <3>. HIDE DEF A
    <3>3. Ancestors(w, x) \subseteq A BY <2>2, <3>1, <3>2, AncestorsLemma
    <3>. QED BY <3>3 DEF A
  <2>. QED BY <2>1, <2>2
<1>6. ASSUME NEW x, x \notin S PROVE Ancestors(v, x) = Ancestors(w, x)
  <2>1. \A y \in ({x} \cup Ancestors(w, x)) \cap Items : v.parent[y] = w.parent[y]
    BY <1>4, <1>5, <1>6
  <2>. QED BY <2>1, AncestorsSame
<1>7. \A x \in Items \ S :
         v.kind[x] = w.kind[x] /\ v.count[x] = w.count[x] /\ v.parent[x] = w.parent[x]
  BY <1>4
<1>8. Typed(v)
  <2>1. v.kind \in [Items -> Kinds] /\ v.count \in [Items -> 0..MaxStack]
    BY <1>1, <1>3, <1>4, KindAssumption DEF Typed
  <2>2. v.parent \in [Items -> Players \cup Tiles \cup Items \cup {None}]
    BY <1>1, <1>4 DEF Typed
  <2>3. v.inside \in [Items \cup Tiles -> Seq(Items)] BY <1>1, <1>4 DEF Typed
  <2>. QED BY <1>1, <1>4, <2>1, <2>2, <2>3 DEF Typed
<1>9. Held(v)
  <2>1. ASSUME NEW c \in Items \cup Tiles
        PROVE  /\ IsInjective(v.inside[c])
               /\ \A x \in Range(v.inside[c]) : v.parent[x] = c
               /\ c \in Items => Len(v.inside[c]) <= Capacity(v, c)
    <3>1. CASE c \in S
      <4>1. v.inside[c] = <<>> BY <1>4, <3>1
      <4>2. c \in Items => Capacity(v, c) \in Nat BY <1>8, KindAssumption DEF Capacity, Typed
      <4>3. DOMAIN <<>> = {} /\ Len(<<>>) = 0 OBVIOUS
      <4>4. PICK e : e = v.inside[c] OBVIOUS
      <4>5. DOMAIN e = {} /\ Len(e) = 0 BY <4>1, <4>3, <4>4
      <4>6. IsInjective(e) /\ Range(e) = {} BY <4>5 DEF IsInjective, Range
      <4>7. c \in Items => Len(e) <= Capacity(v, c) BY <4>2, <4>5
      <4>. QED BY <4>4, <4>6, <4>7
    <3>2. CASE c \notin S
      <4>1. v.inside[c] = w.inside[c] BY <1>4, <3>2
      <4>2. ASSUME NEW x \in Range(w.inside[c]) PROVE v.parent[x] = c
        <5>1. w.inside[c] \in Seq(Items) BY <1>1 DEF Typed
        <5>2. x \in Items /\ w.parent[x] = c BY <1>1, <4>2, <5>1, RangeOfSeq DEF Range, Held
        <5>3. x \notin S BY <3>2, <5>2, ThingAssumption DEF Apart
        <5>. QED BY <1>7, <5>2, <5>3
      <4>3. c \in Items => Capacity(v, c) = Capacity(w, c) BY <1>7, <3>2 DEF Capacity
      <4>. QED BY <1>1, <4>1, <4>2, <4>3 DEF Held
    <3>. QED BY <3>1, <3>2
  <2>2. ASSUME NEW p \in Players, NEW s \in Slots, w.slot[p][s] # None
        PROVE  v.parent[w.slot[p][s]] = p
    <3>1. w.slot[p][s] \in Items /\ w.parent[w.slot[p][s]] = p
      BY <1>1, <2>2 DEF Typed, Held
    <3>2. w.slot[p][s] \notin S BY <1>1, <3>1, ThingAssumption DEF Apart
    <3>. QED BY <1>7, <3>1, <3>2
  <2>3. \A p \in Players, s, t \in Slots :
           w.slot[p][s] # None /\ w.slot[p][t] = w.slot[p][s] => t = s
    BY <1>1 DEF Held
  <2>4. v.slot = w.slot BY <1>4
  <2>. QED BY <2>1, <2>2, <2>3, <2>4 DEF Held
<1>10. Placed(v) \subseteq Placed(w) \ S BY <1>4, ThingAssumption DEF Placed
<1>11. ASSUME NEW x \in Placed(v)
       PROVE  /\ Has(v, v.parent[x], x) /\ Count(v, x) \in 1..MaxStack
              /\ \E r \in Grounds \cup (L \ S) : r \in Ancestors(v, x)
  <2>1. x \in Placed(w) /\ x \in Items \ S BY <1>10 DEF Placed
  <2>2. v.parent[x] = w.parent[x] BY <1>7, <2>1
  <2>3. Has(w, w.parent[x], x) /\ Count(w, x) \in 1..MaxStack BY <2>1 DEF Orderly
  <2>4. Has(v, w.parent[x], x)
    <3>1. CASE w.parent[x] \in Players BY <1>4, <2>3, <3>1 DEF Has, SlotItems
    <3>2. CASE w.parent[x] \notin Players
      <4>1. w.parent[x] \in Items \cup Tiles BY <1>1, <2>1, <3>2 DEF Typed, Placed
      <4>2. w.parent[x] \notin S BY <2>1 DEF Apart
      <4>3. v.inside[w.parent[x]] = w.inside[w.parent[x]] BY <1>4, <4>1, <4>2
      <4>. QED BY <2>3, <3>2, <4>3 DEF Has
    <3>. QED BY <3>1, <3>2
  <2>5. Count(v, x) \in 1..MaxStack BY <1>7, <2>1, <2>3 DEF Count
  <2>6. PICK r \in Grounds \cup L : r \in Ancestors(w, x) BY <2>1 DEF Orderly
  <2>7. r \notin S BY <1>5, <2>1, <2>6
  <2>8. r \in Ancestors(v, x) BY <1>6, <2>1, <2>6
  <2>. QED BY <2>2, <2>4, <2>5, <2>6, <2>7, <2>8
<1>12. \A l \in L \ S : v.parent[l] = None BY <1>7 DEF Orderly
<1>13. L \subseteq Items BY DEF Orderly
<1>. QED BY <1>4, <1>6, <1>7, <1>8, <1>9, <1>11, <1>12, <1>13 DEF Orderly, Blanked

-------------------------------------------------------------------------------
(* Windows.                                                                  *)

\* What a player may look into.
MayWatch(w, p, c) ==
    /\ IsContainer(w, c) /\ Root(w, c) # None /\ Spot(w, c) = w.at[p]
    /\ Root(w, c) \in Players => Root(w, c) = p
Fine(w) == InPlace(w) /\ InReach(w)

\* Whose window shows a container may look into it.
LEMMA ReachLemma ==
    ASSUME NEW w, NEW p \in Players, InReach(w), NEW n \in Windows, w.open[p][n] # None,
           w.open \in [Players -> [Windows -> Items \cup {None}]]
    PROVE  MayWatch(w, p, w.open[p][n])
BY DEF InReach, MayWatch, Opened, Range

\* If each window shows what its player may look into, the windows are right.
LEMMA ReachIfWatched ==
    ASSUME NEW w, w.open \in [Players -> [Windows -> Items \cup {None}]],
           \A p \in Players, n \in Windows :
              w.open[p][n] # None => MayWatch(w, p, w.open[p][n])
    PROVE  InReach(w)
BY DEF InReach, MayWatch, Opened, Range

\* The things that are watched stay where they are, the windows as they were
\* or closed.
LEMMA ReachSame ==
    ASSUME NEW w, NEW v, InReach(w), v.at = w.at,
           w.open \in [Players -> [Windows -> Items \cup {None}]],
           v.open \in [Players -> [Windows -> Items \cup {None}]],
           \A p \in Players, n \in Windows :
              v.open[p][n] # None =>
                 LET x == v.open[p][n]
                 IN w.open[p][n] = x /\ Root(v, x) = Root(w, x)
                    /\ (IsContainer(w, x) => IsContainer(v, x))
    PROVE  InReach(v)
<1>1. ASSUME NEW p \in Players, NEW n \in Windows, v.open[p][n] # None
      PROVE  MayWatch(v, p, v.open[p][n])
  <2>1. PICK x : x = v.open[p][n] OBVIOUS
  <2>2. w.open[p][n] = x /\ Root(v, x) = Root(w, x) /\ (IsContainer(w, x) => IsContainer(v, x))
    BY <1>1, <2>1
  <2>3. MayWatch(w, p, x) BY <1>1, <2>1, <2>2, ReachLemma
  <2>. QED BY <2>1, <2>2, <2>3 DEF MayWatch, Spot
<1>. QED BY <1>1, ReachIfWatched

\* Everything without a place is nothing any more.
LEMMA SweptFine ==
    ASSUME NEW w, Fine(w)
    PROVE  Fine(Swept(w))
<1>1. Orderly(w, {}) /\ InReach(w) BY OrderlyInPlace DEF Fine
<1>2. Apart(w, Free(w))
  <2>1. \A f \in Free(w) : \A y \in Items : w.parent[y] # f BY <1>1, FreeEmpty
  <2>. QED BY <2>1 DEF Apart, Free, Placed
<1>3. PICK v : v = Swept(w) OBVIOUS
<1>4. v = Blank(w, Free(w)) BY <1>3 DEF Swept
<1>5. Orderly(v, {} \ Free(w)) /\ Blanked(w, v, Free(w)) BY <1>1, <1>2, <1>4, BlankLemma
<1>6. v.at = w.at /\ v.open = w.open /\ \A x : x \notin Free(w) => Ancestors(v, x) = Ancestors(w, x)
  BY <1>5 DEF Blanked
<1>7. \A x \in Items \ Free(w) : v.kind[x] = w.kind[x] BY <1>5 DEF Blanked
<1>8. InPlace(v)
  <2>1. Orderly(v, {}) BY <1>5
  <2>. QED BY <2>1, OrderlyInPlace
<1>9. ASSUME NEW p \in Players, NEW n \in Windows, v.open[p][n] # None
      PROVE  LET x == v.open[p][n]
             IN w.open[p][n] = x /\ Root(v, x) = Root(w, x)
                /\ (IsContainer(w, x) => IsContainer(v, x))
  <2>1. PICK x : x = v.open[p][n] OBVIOUS
  <2>2. w.open \in [Players -> [Windows -> Items \cup {None}]] BY <1>1 DEF Orderly, Typed
  <2>3. x \in Items /\ Root(w, x) # None
    BY <1>1, <1>6, <1>9, <2>1, <2>2, ReachLemma DEF MayWatch, IsContainer
  <2>4. x \notin Free(w) BY <2>3, NowhereRoot DEF Free, Placed
  <2>5. Root(v, x) = Root(w, x) BY <1>6, <2>4, RootSame
  <2>6. IsContainer(v, x) = IsContainer(w, x) BY <1>7, <2>3, <2>4 DEF IsContainer, Capacity
  <2>. QED BY <1>6, <2>1, <2>5, <2>6
<1>10. InReach(v)
  <2>1. /\ w.open \in [Players -> [Windows -> Items \cup {None}]]
        /\ v.open \in [Players -> [Windows -> Items \cup {None}]]
    BY <1>1, <1>5 DEF Orderly, Typed
  <2>. QED BY <1>1, <1>6, <1>9, <2>1, ReachSame
<1>. QED BY <1>3, <1>8, <1>10 DEF Fine

\* What is no container holds nothing.
LEMMA NoContainer ==
    ASSUME NEW w, NEW L, Orderly(w, L), NEW i \in Items, ~IsContainer(w, i)
    PROVE  (\A y \in Items : w.parent[y] # i) /\ \A x : i \notin Ancestors(w, x)
<1>1. Typed(w) /\ Held(w) BY DEF Orderly
<1>2. Capacity(w, i) \in Nat BY <1>1, KindAssumption DEF Capacity, Typed
<1>3. Capacity(w, i) = 0 BY <1>2 DEF IsContainer
<1>4. w.inside[i] \in Seq(Items) /\ Len(w.inside[i]) <= 0 BY <1>1, <1>3 DEF Held, Typed
<1>5. Range(w.inside[i]) = {} BY <1>4 DEF Range
<1>6. ASSUME NEW y \in Items, w.parent[y] = i PROVE FALSE
  <2>1. y \in Placed(w) BY <1>6, ThingAssumption DEF Placed
  <2>2. Has(w, i, y) BY <1>6, <2>1 DEF Orderly
  <2>3. i \notin Players BY ThingAssumption
  <2>. QED BY <1>5, <2>2, <2>3 DEF Has
<1>. QED BY <1>6, ChildBelow

\* Weights and counters change nothing about places and windows.
LEMMA AlikeFine ==
    ASSUME NEW w, NEW v, Fine(w), Alike(w, v), v.open = w.open
    PROVE  Fine(v)
<1>1. Orderly(w, {}) /\ InReach(w) BY OrderlyInPlace DEF Fine
<1>2. w.open \in [Players -> [Windows -> Items \cup {None}]] BY <1>1 DEF Orderly, Typed
<1>3. Orderly(v, {}) BY <1>1, <1>2, AlikeOrderly
<1>4. InReach(v) BY <1>1, <1>2, AlikeViews, ReachSame DEF Alike
<1>. QED BY <1>3, <1>4, OrderlyInPlace DEF Fine

\* postRemoveNotification closes windows and weighs:
\* Player::autoCloseContainers is called for those who lose sight of a
\* container.
LEMMA NoticeAlike ==
    ASSUME NEW v, NEW cyl, NEW i, Typed(v), NEW u, u = RemovedNotice(v, cyl, i)
    PROVE  /\ Alike(v, u) /\ u.open \in [Players -> [Windows -> Items \cup {None}]]
           /\ \A p \in Players, n \in Windows :
                 IF /\ IsContainer(v, i) /\ Loses(v, p, i)
                    /\ Root(v, cyl) \in Players => p = Root(v, cyl)
                 THEN u.open[p][n] = AutoClose(v, p, i)[n]
                 ELSE u.open[p][n] = v.open[p][n]
<1>. DEFINE told == IF Root(v, cyl) \in Players THEN {Root(v, cyl)} ELSE Players
<1>1. PICK x : x = Weigh(v, cyl) OBVIOUS
<1>2. Alike(v, x) /\ x.open = v.open BY <1>1, WeighAlike
<1>3. PICK o : o = [p \in Players |->
           IF IsContainer(v, i) /\ p \in told /\ Loses(v, p, i)
           THEN AutoClose(v, p, i) ELSE v.open[p]]
  OBVIOUS
<1>4. u = [x EXCEPT !.open = o]
  <2>1. u = [x EXCEPT !.open = [p \in Players |->
               IF IsContainer(v, i) /\ p \in told /\ Loses(v, p, i)
               THEN AutoClose(v, p, i) ELSE x.open[p]]]
    BY <1>1 DEF RemovedNotice
  <2>. QED BY <1>2, <1>3, <2>1
<1>5. u.open = o BY <1>2, <1>4 DEF Alike, Typed
<1>6. Alike(v, u) BY <1>2, <1>4 DEF Alike
<1>7. /\ u.open \in [Players -> [Windows -> Items \cup {None}]]
      /\ \A p \in Players : o[p] =
           IF IsContainer(v, i) /\ p \in told /\ Loses(v, p, i)
           THEN AutoClose(v, p, i) ELSE v.open[p]
  <2>1. v.open \in [Players -> [Windows -> Items \cup {None}]] BY DEF Typed
  <2>2. \A p \in Players : AutoClose(v, p, i) \in [Windows -> Items \cup {None}]
    BY <2>1 DEF AutoClose
  <2>3. o \in [Players -> [Windows -> Items \cup {None}]] BY <1>3, <2>1, <2>2
  <2>. HIDE DEF told
  <2>. QED BY <1>3, <1>5, <2>3
<1>8. \A p \in Players : p \in told <=> (Root(v, cyl) \in Players => p = Root(v, cyl))
  OBVIOUS
<1>. HIDE DEF told
<1>. QED BY <1>5, <1>6, <1>7, <1>8

\* v is w after i has been moved: what was in i still is, the rest is where
\* it was.
Moved(w, v, i) ==
    /\ v.at = w.at /\ v.open = w.open
    /\ \A x \in Placed(w) : IsContainer(w, x) <=> IsContainer(v, x)
    /\ \A x \in Placed(w) \ {i} : IF i \in Ancestors(w, x) THEN i \in Ancestors(v, x)
                                  ELSE Root(v, x) = Root(w, x)

\* Whoever may no longer look into i, or into what is in it, is told so.
LEMMA NoticeReach ==
    ASSUME NEW w, Fine(w), NEW i \in Placed(w), NEW v, Typed(v), Moved(w, v, i),
           NEW u, u = RemovedNotice(v, w.parent[i], i)
    PROVE  InReach(u)
<1>. DEFINE cyl == w.parent[i]
<1>1. Orderly(w, {}) /\ InReach(w) /\ i \in Items BY OrderlyInPlace DEF Fine, Placed
<1>2. Alike(v, u) /\ u.open \in [Players -> [Windows -> Items \cup {None}]]
  BY NoticeAlike
<1>3. \A p \in Players, n \in Windows :
         IF /\ IsContainer(v, i) /\ Loses(v, p, i)
            /\ Root(v, cyl) \in Players => p = Root(v, cyl)
         THEN u.open[p][n] = AutoClose(v, p, i)[n]
         ELSE u.open[p][n] = v.open[p][n]
  BY NoticeAlike
<1>4. Root(w, i) # None
  BY <1>1 DEF Fine, InPlace
<1>5. Root(v, cyl) = Root(w, i)
  <2>1. Root(w, cyl) = Root(w, i) BY <1>1, RootUp
  <2>2. CASE cyl \in Items
    <3>1. cyl \in Placed(w) BY <1>4, <2>1, <2>2, NowhereRoot DEF Placed
    <3>2. cyl # i /\ i \notin Ancestors(w, cyl)
      <4>1. Root(w, i) \in Grounds /\ Root(w, i) \in {i} \cup Ancestors(w, i)
        BY <1>4, RootType
      <4>2. i \notin Ancestors(w, i) BY <4>1, RootLemma
      <4>. QED BY <1>1, <4>2, AncestorsUnfold
    <3>. QED BY <2>1, <3>1, <3>2 DEF Moved
  <2>3. CASE cyl \notin Items
    <3>1. cyl \in Grounds BY <1>1, <2>3 DEF Orderly, Typed, Grounds, Placed
    <3>2. Root(w, cyl) = cyl /\ Root(v, cyl) = cyl BY <3>1 DEF Root, Grounds
    <3>. QED BY <2>1, <3>2
  <2>. QED BY <2>2, <2>3
<1>6. ASSUME NEW p \in Players, NEW n \in Windows, u.open[p][n] # None
      PROVE  MayWatch(v, p, u.open[p][n])
  <2>1. PICK x : x = u.open[p][n] OBVIOUS
  <2>2. x = v.open[p][n] BY <1>3, <1>6, <2>1 DEF AutoClose
  <2>3. w.open \in [Players -> [Windows -> Items \cup {None}]] BY <1>1 DEF Orderly, Typed
  <2>4. MayWatch(w, p, x) BY <1>1, <1>6, <2>1, <2>2, <2>3, ReachLemma DEF Moved
  <2>5. x \in Placed(w) BY <2>4, NowhereRoot DEF MayWatch, Placed, IsContainer
  <2>6. IsContainer(v, x) BY <2>4, <2>5 DEF MayWatch, Moved
  <2>7. CASE Root(v, x) = Root(w, x) BY <2>1, <2>4, <2>6, <2>7 DEF MayWatch, Spot, Moved
  <2>8. CASE Root(v, x) # Root(w, x)
    <3>1. x = i \/ (i \in Ancestors(w, x) /\ i \in Ancestors(v, x))
      BY <2>5, <2>8 DEF Moved
    <3>2. Root(w, i) = Root(w, x) BY <2>4, <3>1, AboveRooted DEF MayWatch
    <3>3. IsContainer(v, i)
      <4>1. IsContainer(w, i) BY <1>1, <2>4, <3>1, NoContainer DEF MayWatch
      <4>. QED BY <4>1 DEF Moved
    <3>4. Root(v, cyl) \in Players => p = Root(v, cyl) BY <1>5, <2>4, <3>2 DEF MayWatch
    <3>5. ~Loses(v, p, i)
      <4>. SUFFICES ASSUME Loses(v, p, i) PROVE FALSE OBVIOUS
      <4>1. u.open[p][n] = AutoClose(v, p, i)[n] BY <1>3, <3>3, <3>4
      <4>. QED BY <1>6, <2>1, <2>2, <3>1, <4>1 DEF AutoClose
    <3>6. Root(v, i) # None /\ Spot(v, i) = v.at[p] /\ Root(v, i) \notin Players \ {p}
      BY <3>5 DEF Loses
    <3>7. Root(v, x) = Root(v, i)
      <4>1. Root(v, i) \in Grounds /\ Root(v, i) \in {i} \cup Ancestors(v, i)
        BY <3>6, RootType
      <4>2. CASE x = i BY <4>2
      <4>3. CASE i \in Ancestors(v, x)
        <5>1. Root(v, i) \in Ancestors(v, x) BY <4>1, <4>3, AncestorsAbove
        <5>. QED BY <4>1, <5>1, RootLemma
      <4>. QED BY <3>1, <4>2, <4>3
    <3>. QED BY <2>1, <2>6, <3>6, <3>7 DEF MayWatch, Spot
  <2>. QED BY <2>7, <2>8
<1>7. ASSUME NEW p \in Players, NEW n \in Windows, u.open[p][n] # None
      PROVE  MayWatch(u, p, u.open[p][n])
  <2>1. MayWatch(v, p, u.open[p][n]) BY <1>6, <1>7
  <2>2. u.at = v.at BY <1>2 DEF Alike
  <2>. QED BY <1>2, <2>1, <2>2, AlikeViews DEF MayWatch
<1>. QED BY <1>2, <1>7, ReachIfWatched

\* Nothing is put where it was not: an empty slot stays empty, an item that
\* still has a place has the same one and is what it was.
Shrunk(w, v) ==
    /\ v.at = w.at /\ v.offer = w.offer
    /\ \A p \in Players, s \in Slots : w.slot[p][s] = None => v.slot[p][s] = None

\* Game::internalRemoveItem leaves the things in order and the windows right,
\* whether all of an item goes or some of a stack.
LEMMA RemoveItemFine ==
    ASSUME NEW w, Fine(w), NEW i \in Items, NEW n \in Nat, NEW v, v = RemoveItem(w, i, n)
    PROVE  Fine(v) /\ Shrunk(w, v)
<1>. DEFINE cyl == w.parent[i]
<1>1. Orderly(w, {}) /\ InReach(w) /\ Typed(w) BY OrderlyInPlace DEF Fine, InPlace
<1>2. CASE cyl = None \/ ~QueryRemove(w, cyl, i, n)
  <2>1. v = w BY <1>2 DEF RemoveItem
  <2>. QED BY <2>1 DEF Shrunk
<1>3. CASE cyl # None /\ QueryRemove(w, cyl, i, n)
  <2>1. i \in Placed(w) /\ n > 0 /\ (Stackable(w, i) => n <= w.count[i])
    BY <1>3 DEF Placed, QueryRemove
  <2>2. w.count[i] \in 1..MaxStack BY <1>1, <2>1 DEF Orderly, Count
  <2>3. PICK u : u = RemoveThing(w, cyl, i, n) OBVIOUS
  <2>4. PICK r : r = RemovedNotice(u, cyl, i) OBVIOUS
  <2>5. v = Discard(w, r, i, n) BY <1>3, <2>3, <2>4 DEF RemoveItem
  <2>6. PICK S : S = IF r.parent[i] # None THEN {} ELSE {i} \cup Holds(w, i) OBVIOUS
  <2>7. PICK b : b = Blank(r, S) OBVIOUS
  <2>8. Alike(b, v) /\ v.open = b.open BY <2>5, <2>6, <2>7 DEF Discard, Alike
  <2>9. SUFFICES Fine(b) /\ Shrunk(w, b) BY <2>8, AlikeFine DEF Shrunk, Alike
  <2>10. CASE Stackable(w, i) /\ n # w.count[i]
    <3>1. u = UpdateThing(w, i, w.kind[i], w.count[i] - n) BY <2>3, <2>10 DEF RemoveThing
    <3>2. Recast(w, u, i, w.kind[i], w.count[i] - n) BY <3>1, UpdateRecast
    <3>3. w.count[i] - n \in 0..MaxStack /\ w.count[i] - n >= 1
      BY <2>1, <2>2, <2>10, KindAssumption
    <3>4. w.kind[i] \in Kinds /\ Attr[w.kind[i]].capacity = Capacity(w, i)
      BY <1>1 DEF Typed, Capacity
    <3>5. Orderly(u, {}) BY <1>1, <3>2, <3>3, <3>4, RecastOrderly
    <3>6. u.at = w.at /\ u.open = w.open /\ u.parent = w.parent /\ u.slot = w.slot
          /\ u.offer = w.offer /\ u.kind = w.kind
      BY <1>1, <3>2 DEF Recast, Typed
    <3>7. Moved(w, u, i)
      <4>1. \A x : Ancestors(u, x) = Ancestors(w, x) BY <3>6, AncestorsSame
      <4>2. \A x : Root(u, x) = Root(w, x) BY <4>1, RootSame
      <4>. QED BY <3>6, <4>1, <4>2 DEF Moved, IsContainer, Capacity
    <3>8. Alike(u, r) /\ r.open \in [Players -> [Windows -> Items \cup {None}]]
      BY <2>4, <3>5, NoticeAlike DEF Orderly
    <3>9. InReach(r)
      <4>1. Typed(u) BY <3>5 DEF Orderly
      <4>. QED BY <2>1, <2>4, <3>7, <4>1, NoticeReach
    <3>10. Orderly(r, {}) BY <3>5, <3>8, AlikeOrderly
    <3>11. r.parent[i] # None BY <1>3, <3>6, <3>8 DEF Alike
    <3>12. S = {} /\ Apart(r, S) BY <2>6, <3>11 DEF Apart
    <3>13. Orderly(b, {} \ S) /\ Blanked(r, b, S) BY <2>7, <3>10, <3>12, BlankLemma
    <3>14. Fine(b)
      <4>1. InPlace(b)
        <5>1. Orderly(b, {}) BY <3>12, <3>13
        <5>. QED BY <5>1, OrderlyInPlace
      <4>2. \A x : Ancestors(b, x) = Ancestors(r, x) BY <3>12, <3>13 DEF Blanked
      <4>3. \A x : Root(b, x) = Root(r, x) BY <4>2, RootSame
      <4>4. \A x : IsContainer(r, x) => IsContainer(b, x)
        BY <3>12, <3>13 DEF Blanked, IsContainer, Capacity
      <4>5. b.at = r.at /\ b.open = r.open BY <3>13 DEF Blanked
      <4>6. InReach(b) BY <3>8, <3>9, <4>3, <4>4, <4>5, ReachSame
      <4>. QED BY <4>1, <4>6 DEF Fine
    <3>15. b.at = w.at /\ b.slot = w.slot /\ b.offer = w.offer
      BY <3>6, <3>8, <3>13 DEF Blanked, Alike
    <3>. QED BY <3>14, <3>15 DEF Shrunk
  <2>11. CASE ~(Stackable(w, i) /\ n # w.count[i])
    <3>1. Stackable(w, i) => n = w.count[i] BY <2>11
    <3>2. Removed(w, u, i) BY <1>1, <2>1, <2>3, <3>1, RemoveRemoved
    <3>3. Orderly(u, {i}) BY <1>1, <3>2, RemovedOrderly
    <3>4. Typed(u) BY <3>3 DEF Orderly
    <3>5. \A y \in Items : u.parent[y] = IF y = i THEN None ELSE w.parent[y]
      BY <1>1, <3>2 DEF Removed, Typed
    <3>6. /\ \A x : x # i /\ i \notin Ancestors(w, x) => Ancestors(u, x) = Ancestors(w, x)
          /\ \A x : x # i => (i \in Ancestors(u, x) <=> i \in Ancestors(w, x))
      <4>1. \A y \in Items \ {i} : u.parent[y] = w.parent[y] BY <3>5
      <4>. QED BY <4>1, OneParent
    <3>7. Moved(w, u, i)
      <4>1. \A x : x # i /\ i \notin Ancestors(w, x) => Root(u, x) = Root(w, x)
        BY <3>6, RootSame
      <4>2. \A x : IsContainer(u, x) = IsContainer(w, x)
        BY <3>2 DEF Removed, IsContainer, Capacity
      <4>. QED BY <3>2, <3>6, <4>1, <4>2 DEF Moved, Removed
    <3>8. Alike(u, r) /\ r.open \in [Players -> [Windows -> Items \cup {None}]]
      BY <2>4, <3>4, NoticeAlike
    <3>9. InReach(r) BY <2>1, <2>4, <3>4, <3>7, NoticeReach
    <3>10. Orderly(r, {i}) BY <3>3, <3>8, AlikeOrderly
    <3>11. r.parent = u.parent /\ r.parent[i] = None BY <3>5, <3>8 DEF Alike
    <3>12. S = {i} \cup Holds(w, i) BY <2>6, <3>11
    <3>13. Apart(r, S)
      <4>1. \A y \in Items \ {i} : y \in Holds(w, i) <=> w.parent[y] \in {i} \cup Holds(w, i)
        <5>. SUFFICES ASSUME NEW y \in Items \ {i}
                      PROVE  y \in Holds(w, i) <=> w.parent[y] \in {i} \cup Holds(w, i)
          OBVIOUS
        <5>1. Ancestors(w, y) = {w.parent[y]} \cup Ancestors(w, w.parent[y]) BY AncestorsUnfold
        <5>. QED BY <5>1, AncestorsOfOthers DEF Holds
      <4>2. S \subseteq Items BY <3>12 DEF Holds
      <4>3. \A y \in Items : r.parent[y] \in S => y \in S BY <3>5, <3>11, <3>12, <4>1
      <4>4. \A y \in S : r.parent[y] \in S \cup {None} BY <3>5, <3>11, <3>12, <4>1, <4>2
      <4>. QED BY <4>2, <4>3, <4>4 DEF Apart
    <3>14. Orderly(b, {i} \ S) /\ Blanked(r, b, S) BY <2>7, <3>10, <3>13, BlankLemma
    <3>15. Fine(b)
      <4>1. InPlace(b)
        <5>1. {i} \ S = {} BY <3>12
        <5>2. Orderly(b, {}) BY <3>14, <5>1
        <5>. QED BY <5>2, OrderlyInPlace
      <4>2. b.at = r.at /\ b.open = r.open BY <3>14 DEF Blanked
      <4>3. ASSUME NEW p \in Players, NEW m \in Windows, b.open[p][m] # None
            PROVE  LET x == b.open[p][m]
                   IN r.open[p][m] = x /\ Root(b, x) = Root(r, x)
                      /\ (IsContainer(r, x) => IsContainer(b, x))
        <5>1. PICK x : x = b.open[p][m] OBVIOUS
        <5>2. x \in Items /\ Root(r, x) # None
          BY <3>8, <3>9, <4>2, <4>3, <5>1, ReachLemma DEF MayWatch, IsContainer
        <5>3. Root(r, i) = None BY <3>11, NowhereRoot
        <5>4. x # i /\ i \notin Ancestors(r, x) BY <5>2, <5>3, AboveRooted
        <5>5. Ancestors(r, x) = Ancestors(u, x) BY <3>8, AlikeViews
        <5>6. x \notin S BY <3>6, <3>12, <5>4, <5>5 DEF Holds
        <5>7. Root(b, x) = Root(r, x) BY <3>14, <5>6, RootSame DEF Blanked
        <5>8. IsContainer(r, x) => IsContainer(b, x)
          BY <3>14, <5>2, <5>6 DEF Blanked, IsContainer, Capacity
        <5>. QED BY <4>2, <5>1, <5>7, <5>8
      <4>4. b.open \in [Players -> [Windows -> Items \cup {None}]] BY <3>8, <4>2
      <4>5. InReach(b) BY <3>8, <3>9, <4>2, <4>3, <4>4, ReachSame
      <4>. QED BY <4>1, <4>5 DEF Fine
    <3>16. Shrunk(w, b)
      <4>1. b.at = w.at /\ b.offer = w.offer BY <3>2, <3>8, <3>14 DEF Blanked, Alike, Removed
      <4>2. b.slot = u.slot BY <3>8, <3>14 DEF Blanked, Alike
      <4>3. \A p \in Players, s \in Slots : w.slot[p][s] = None => u.slot[p][s] = None
        BY <3>2 DEF Removed
      <4>. QED BY <4>1, <4>2, <4>3 DEF Shrunk
    <3>. QED BY <3>15, <3>16
  <2>. QED BY <2>10, <2>11
<1>. QED BY <1>2, <1>3

\* The lesser of two.
LEMMA MinTwo ==
    ASSUME NEW a \in Int, NEW b \in Int
    PROVE  Min({a, b}) = IF a <= b THEN a ELSE b
BY DEF Min

\* The greater of two.
LEMMA MaxTwo ==
    ASSUME NEW a \in Int, NEW b \in Int
    PROVE  Max({a, b}) = IF a <= b THEN b ELSE a
BY DEF Max

\* postAddNotification changes neither places nor windows.
LEMMA AddedNoticeFine ==
    ASSUME NEW w, Fine(w), NEW cyl \in Grounds \cup Items, NEW i,
           NEW v, v = AddedNotice(w, cyl, i)
    PROVE  Fine(v) /\ Shrunk(w, v)
<1>1. Typed(w) BY DEF Fine, InPlace
<1>2. CASE cyl \in Trash /\ Has(w, cyl, i)
  <2>1. i \in Items
    <3>1. CASE cyl \in Players BY <1>1, <1>2, <3>1 DEF Has, SlotItems, Typed
    <3>2. CASE cyl \notin Players
      <4>1. w.inside[cyl] \in Seq(Items) BY <1>1, <3>2 DEF Typed, Grounds
      <4>. QED BY <1>2, <3>2, <4>1, RangeOfSeq DEF Has, Range
    <3>. QED BY <3>1, <3>2
  <2>2. Count(w, i) \in Nat BY <1>1, <2>1 DEF Count, Typed
  <2>3. v = RemoveItem(w, i, Count(w, i)) BY <1>2 DEF AddedNotice
  <2>. QED BY <2>1, <2>2, <2>3, RemoveItemFine
<1>3. CASE ~(cyl \in Trash /\ Has(w, cyl, i))
  <2>1. v = Weigh(w, cyl) BY <1>3 DEF AddedNotice
  <2>. QED BY <2>1, WeighAlike, AlikeFine DEF Shrunk, Alike
<1>. QED BY <1>2, <1>3

\* A script that runs inside an operation (an onDeEquip, a stepOut) may remove
\* an item, and the things are in order when the operation goes on.
LEMMA ScriptedFine ==
    ASSUME NEW w, Fine(w), NEW v \in Scripted(w)
    PROVE  Fine(v) /\ Shrunk(w, v)
<1>1. CASE v = w BY <1>1 DEF Shrunk
<1>2. CASE v # w
  <2>1. PICK i \in Placed(w) : v = RemoveItem(w, i, Count(w, i)) BY <1>2 DEF Scripted
  <2>2. i \in Items /\ Count(w, i) \in Nat BY DEF Placed, Fine, InPlace, Typed, Count
  <2>. QED BY <2>1, <2>2, RemoveItemFine
<1>. QED BY <1>1, <1>2

\* i has been moved, or j in its stead; the others are where they were.
Others(w, v, i, j) ==
    /\ v.at = w.at /\ v.open = w.open
    /\ \A x \in Items : x \in Placed(w) => v.kind[x] = w.kind[x]
    /\ \A x \in Items \ {i, j} : v.parent[x] = w.parent[x]

\* A thing that moved on its own, others staying, is a thing that moved.
LEMMA OthersMoved ==
    ASSUME NEW w, Fine(w), NEW i \in Placed(w), NEW j \in Free(w) \cup {i},
           NEW v, Others(w, v, i, j)
    PROVE  Moved(w, v, i)
<1>1. Orderly(w, {}) BY OrderlyInPlace DEF Fine
<1>2. \A x \in Placed(w) : IsContainer(w, x) <=> IsContainer(v, x)
  BY DEF IsContainer, Capacity, Others, Placed
<1>3. ASSUME NEW x \in Placed(w) \ {i}
      PROVE  IF i \in Ancestors(w, x) THEN i \in Ancestors(v, x) ELSE Root(v, x) = Root(w, x)
  <2>1. j # i => j \notin {x} \cup Ancestors(w, x) BY <1>1, <1>3, FreeEmpty DEF Free
  <2>2. x \in Items BY <1>3 DEF Placed
  <2>3. CASE i \in Ancestors(w, x)
    <3>. DEFINE A == Ancestors(v, x)
                S == {y \in Ancestors(w, x) : y \in A \/ i \in A}
    <3>1. w.parent[x] \in S
      <4>1. v.parent[x] = w.parent[x] BY <1>3, <2>1, <2>2 DEF Others
      <4>. QED BY <2>2, <4>1, AncestorsLemma
    <3>2. ASSUME NEW y \in S, y \in Items PROVE w.parent[y] \in S
      <4>1. w.parent[y] \in Ancestors(w, x) BY <2>2, <3>2, AncestorsLemma
      <4>2. CASE y # i
        <5>1. v.parent[y] = w.parent[y] BY <2>1, <3>2, <4>2 DEF Others
        <5>. QED BY <2>2, <3>2, <4>1, <5>1, AncestorsLemma
      <4>3. CASE y = i BY <3>2, <4>1, <4>3
      <4>. QED BY <4>2, <4>3
    <3>. HIDE DEF S
    <3>3. Ancestors(w, x) \subseteq S BY <2>2, <3>1, <3>2, AncestorsLemma
    <3>. QED BY <2>3, <3>3 DEF S
  <2>4. CASE i \notin Ancestors(w, x)
    <3>1. \A y \in ({x} \cup Ancestors(w, x)) \cap Items : v.parent[y] = w.parent[y]
      BY <1>3, <2>1, <2>4 DEF Others
    <3>2. Ancestors(v, x) = Ancestors(w, x) BY <3>1, AncestorsSame
    <3>. QED BY <2>4, <3>2, RootSame
  <2>. QED BY <2>3, <2>4
<1>. QED BY <1>2, <1>3 DEF Moved, Others

\* Less is there than was: there still is room.
Emptier(w, v) ==
    /\ \A p \in Players, s \in Slots : w.slot[p][s] = None => v.slot[p][s] = None
    /\ \A c \in Items \cup Tiles : Len(v.inside[c]) <= Len(w.inside[c])

\* What fitted still fits after things have been taken away.
LEMMA FitsKept ==
    ASSUME NEW w, Typed(w), NEW v, Typed(v), NEW cyl, NEW idx, Fits(w, cyl, idx),
           Emptier(w, v),
           cyl \in Items => v.kind[cyl] = w.kind[cyl] /\ Root(v, cyl) = Root(w, cyl)
    PROVE  Fits(v, cyl, idx)
<1>1. CASE cyl \in Players /\ idx \in Slots /\ w.slot[cyl][idx] = None
  BY <1>1 DEF Fits, Emptier
<1>2. CASE cyl \in Tiles /\ Len(w.inside[cyl]) < TileRoom
  <2>1. Len(w.inside[cyl]) \in Nat /\ Len(v.inside[cyl]) \in Nat
    BY <1>2, LenProperties DEF Typed
  <2>2. Len(v.inside[cyl]) <= Len(w.inside[cyl]) BY <1>2 DEF Emptier
  <2>3. Len(v.inside[cyl]) < TileRoom BY <1>2, <2>1, <2>2, KindAssumption
  <2>. QED BY <1>2, <2>3 DEF Fits
<1>3. CASE /\ cyl \in Items /\ Root(w, cyl) # None
           /\ idx \in Int /\ idx < Capacity(w, cyl) /\ Len(w.inside[cyl]) < Capacity(w, cyl)
  <2>1. Len(w.inside[cyl]) \in Nat /\ Len(v.inside[cyl]) \in Nat
    BY <1>3, LenProperties DEF Typed
  <2>2. Len(v.inside[cyl]) <= Len(w.inside[cyl]) BY <1>3 DEF Emptier
  <2>3. Capacity(v, cyl) = Capacity(w, cyl) BY <1>3 DEF Capacity
  <2>4. Capacity(w, cyl) \in Nat BY <1>3, KindAssumption DEF Capacity, Typed
  <2>5. Len(v.inside[cyl]) < Capacity(v, cyl) BY <1>3, <2>1, <2>2, <2>3, <2>4
  <2>. QED BY <1>3, <2>3, <2>5 DEF Fits
<1>. QED BY <1>1, <1>2, <1>3 DEF Fits

\* The same things in the same places, of the same kinds.
Same(u, v) ==
    /\ v.kind = u.kind /\ v.parent = u.parent /\ v.inside = u.inside /\ v.slot = u.slot
    /\ v.at = u.at /\ v.open = u.open /\ v.offer = u.offer

\* A stack takes some more.
LEMMA MergeLemma ==
    ASSUME NEW u, Orderly(u, {}), NEW x \in Placed(u), NEW more \in Nat,
           u.count[x] + more <= MaxStack,
           NEW v, v = UpdateThing(u, x, u.kind[x], u.count[x] + more)
    PROVE  Orderly(v, {}) /\ Same(u, v)
<1>1. Typed(u) /\ x \in Items BY DEF Orderly, Placed
<1>2. Recast(u, v, x, u.kind[x], u.count[x] + more) BY UpdateRecast
<1>3. u.count[x] \in 1..MaxStack BY DEF Orderly, Count
<1>4. u.count[x] + more \in 0..MaxStack /\ u.count[x] + more >= 1
  BY <1>3, KindAssumption
<1>5. u.kind[x] \in Kinds /\ Attr[u.kind[x]].capacity = Capacity(u, x)
  BY <1>1 DEF Typed, Capacity
<1>6. Orderly(v, {}) BY <1>1, <1>2, <1>4, <1>5, RecastOrderly
<1>7. v.kind = u.kind BY <1>1, <1>2 DEF Recast, Typed
<1>. QED BY <1>2, <1>6, <1>7 DEF Same, Recast

\* A new object, which is nowhere yet.
Created(u, c, j, k, q) ==
    /\ Orderly(c, {})
    /\ c.count = [u.count EXCEPT ![j] = Max({1, q})] /\ Max({1, q}) \in 1..MaxStack
    /\ c.kind = [u.kind EXCEPT ![j] = k]
    /\ c.parent = u.parent /\ c.inside = u.inside /\ c.slot = u.slot
    /\ c.at = u.at /\ c.open = u.open /\ c.offer = u.offer

\* Item::CreateItem makes an object that is nowhere and in nothing.
LEMMA CreateLemma ==
    ASSUME NEW u, Orderly(u, {}), NEW j \in Free(u), NEW k \in Kinds, NEW q \in Int,
           q <= MaxStack
    PROVE  Created(u, Create(u, j, k, q), j, k, q)
<1>. PICK c : c = Create(u, j, k, q) OBVIOUS
<1>1. Typed(u) /\ j \in Items BY DEF Orderly, Free
<1>2. Max({1, q}) = IF 1 <= q THEN q ELSE 1 BY MaxTwo
<1>3. Max({1, q}) \in 1..MaxStack BY <1>2, KindAssumption
<1>4. PICK m : m = Max({1, q}) OBVIOUS
<1>5. c = [u EXCEPT !.kind[j] = k, !.count[j] = m] BY <1>4 DEF Create
<1>6. Recast(u, c, j, k, m) BY <1>1, <1>5 DEF Recast, Typed
<1>7. u.inside[j] = <<>> BY FreeEmpty
<1>8. j \notin Placed(u) BY DEF Free
<1>9. m \in 0..MaxStack BY <1>3, <1>4
<1>10. Orderly(c, {}) BY <1>1, <1>6, <1>7, <1>8, <1>9, RecastOrderly
<1>. QED BY <1>3, <1>4, <1>6, <1>10 DEF Recast, Created

\* A new object of kind k is put into cyl.
PutIn(u, t, j, k, cyl) ==
    /\ Orderly(t, {}) /\ t.at = u.at /\ t.open = u.open
    /\ t.parent = [u.parent EXCEPT ![j] = cyl] /\ t.kind = [u.kind EXCEPT ![j] = k]
    /\ cyl \in Grounds \cup Items

\* A new object goes where it fits.
LEMMA PutLemma ==
    ASSUME NEW u, Orderly(u, {}), NEW j \in Free(u), NEW k \in Kinds, NEW q \in Int,
           q <= MaxStack, NEW cyl, NEW idx, Fits(u, cyl, idx)
    PROVE  PutIn(u, AddThing(Create(u, j, k, q), cyl, idx, j), j, k, cyl)
<1>. DEFINE t == AddThing(Create(u, j, k, q), cyl, idx, j)
<1>. HIDE DEF t
<1>1. PICK c : c = Create(u, j, k, q) OBVIOUS
<1>2. /\ Orderly(c, {})
      /\ c.count = [u.count EXCEPT ![j] = Max({1, q})] /\ Max({1, q}) \in 1..MaxStack
      /\ c.kind = [u.kind EXCEPT ![j] = k]
      /\ c.parent = u.parent /\ c.inside = u.inside /\ c.slot = u.slot
      /\ c.at = u.at /\ c.open = u.open /\ c.offer = u.offer
  <2>1. Created(u, c, j, k, q) BY <1>1, CreateLemma
  <2>. QED BY <2>1 DEF Created
<1>3. Typed(u) /\ Typed(c) /\ j \in Items /\ u.parent[j] = None
  BY <1>2 DEF Orderly, Free, Placed
<1>4. Count(c, j) >= 1 BY <1>2, <1>3 DEF Count, Typed
<1>5. Orderly(c, {j})
  <2>1. j \in Free(c) BY <1>2 DEF Free, Placed
  <2>. QED BY <1>2, <2>1, Loosen
<1>6. Fits(c, cyl, idx)
  <2>1. Emptier(u, c)
    <3>1. \A s \in Items \cup Tiles : Len(u.inside[s]) \in Nat BY <1>3, LenProperties DEF Typed
    <3>. QED BY <1>2, <3>1 DEF Emptier
  <2>2. Root(c, cyl) = Root(u, cyl) BY <1>2, AncestorsSame, RootSame
  <2>3. ASSUME cyl \in Items PROVE c.kind[cyl] = u.kind[cyl]
    <3>1. Root(u, cyl) # None BY <2>3, ThingAssumption DEF Fits
    <3>2. Root(u, j) = None BY <1>3, NowhereRoot
    <3>. QED BY <1>2, <1>3, <2>3, <3>1, <3>2 DEF Typed
  <2>. QED BY <1>3, <2>1, <2>2, <2>3, FitsKept
<1>7. Added(c, t, cyl, j) BY <1>1, <1>5, <1>6, AddAdded DEF t
<1>8. cyl \in Grounds \cup Items /\ (cyl \in Items => Root(c, cyl) # None)
  BY <1>6, ThingAssumption DEF Fits, Grounds
<1>9. Orderly(t, {}) BY <1>4, <1>5, <1>7, <1>8, AddedOrderly
<1>10. PutIn(u, t, j, k, cyl) BY <1>2, <1>7, <1>8, <1>9 DEF Added, PutIn
<1>. QED BY <1>10 DEF t

\* m of a stack are taken away: j is an object for what they become.
LEMMA StackOut ==
    ASSUME NEW w, Fine(w), NEW i \in Placed(w), Stackable(w, i), NEW m \in 1..w.count[i],
           m < w.count[i] => Free(w) # {},
           NEW u, u = RemoveThing(w, w.parent[i], i, m),
           NEW j, j = IF u.parent[i] = None THEN i ELSE Fresh(u)
    PROVE  /\ Orderly(u, {}) /\ j \in Free(u) /\ j \in Free(w) \cup {i}
           /\ u.kind = w.kind /\ u.at = w.at /\ u.open = w.open
           /\ \A x \in Items \ {i} : u.parent[x] = w.parent[x] /\ u.count[x] = w.count[x]
           /\ Emptier(w, u)
<1>1. Orderly(w, {}) /\ Typed(w) /\ i \in Items /\ w.parent[i] # None
  BY OrderlyInPlace DEF Fine, InPlace, Placed
<1>2. w.count[i] \in 1..MaxStack BY <1>1 DEF Orderly, Count
<1>3. CASE m # w.count[i]
  <2>1. u = UpdateThing(w, i, w.kind[i], w.count[i] - m) BY <1>3 DEF RemoveThing
  <2>2. Recast(w, u, i, w.kind[i], w.count[i] - m) BY <2>1, UpdateRecast
  <2>3. w.count[i] - m \in 0..MaxStack /\ w.count[i] - m >= 1 /\ m < w.count[i]
    BY <1>2, <1>3, KindAssumption
  <2>4. w.kind[i] \in Kinds /\ Attr[w.kind[i]].capacity = Capacity(w, i)
    BY <1>1 DEF Typed, Capacity
  <2>5. Orderly(u, {}) BY <1>1, <2>2, <2>3, <2>4, RecastOrderly
  <2>6. u.kind = w.kind /\ \A x \in Items \ {i} : u.count[x] = w.count[x]
    BY <1>1, <2>2 DEF Recast, Typed
  <2>7. Emptier(w, u)
    <3>1. \A c \in Items \cup Tiles : Len(w.inside[c]) \in Nat BY <1>1, LenProperties DEF Typed
    <3>. QED BY <2>2, <3>1 DEF Emptier, Recast
  <2>8. u.parent = w.parent BY <2>2 DEF Recast
  <2>9. j \in Free(u) /\ Free(u) = Free(w)
    <3>1. j = CHOOSE x \in Free(u) : TRUE BY <1>1, <2>8 DEF Fresh
    <3>2. Free(u) = Free(w) BY <2>8 DEF Free, Placed
    <3>. QED BY <2>3, <3>1, <3>2
  <2>. QED BY <2>2, <2>5, <2>6, <2>7, <2>8, <2>9 DEF Recast
<1>4. CASE m = w.count[i]
  <2>1. Removed(w, u, i) BY <1>1, <1>4, RemoveRemoved
  <2>2. Orderly(u, {i}) BY <1>1, <2>1, RemovedOrderly
  <2>3. Capacity(u, i) = 0 BY <1>1, <2>1, KindAssumption DEF Capacity, Stackable, Removed, Typed
  <2>4. Orderly(u, {}) BY <2>2, <2>3, LooseEmpty
  <2>5. \A x \in Items : u.parent[x] = IF x = i THEN None ELSE w.parent[x]
    BY <1>1, <2>1 DEF Removed, Typed
  <2>6. j = i /\ j \in Free(u) BY <1>1, <2>5 DEF Free, Placed
  <2>7. Emptier(w, u) BY <2>1 DEF Removed, Emptier
  <2>. QED BY <2>1, <2>4, <2>5, <2>6, <2>7 DEF Removed
<1>. QED BY <1>3, <1>4

-------------------------------------------------------------------------------
(* Moving: Game::internalMoveItem.                                           *)

\* A place a thing may be told to go to.
Host(w, c) == c \in Grounds \/ (IsContainer(w, c) /\ Root(w, c) # None)
There(w, c, idx) == IF idx >= 0 /\ idx < Len(w.inside[c]) THEN w.inside[c][idx + 1] ELSE None
GoodDest(w, d) ==
    /\ d = Dest(d.cyl, d.idx, d.item) /\ Host(w, d.cyl)
    /\ d.item # None => d.item \in Placed(w) /\ w.parent[d.item] = d.cyl
    /\ d.cyl \in Players /\ d.idx \in Slots => d.item = w.slot[d.cyl][d.idx]
    /\ d.cyl \in Items => /\ d.idx \in Int /\ d.idx < Capacity(w, d.cyl)
                          /\ d.item = There(w, d.cyl, d.idx)

\* What is merged is of the same kind and does not overfill the stack.
LEMMA MergeableLemma ==
    ASSUME NEW w, Orderly(w, {}), NEW d, d.item # None => d.item \in Placed(w),
           NEW i \in Items, NEW m \in Nat \ {0}
    PROVE  /\ Mergeable(w, d, i, m) \in 0..m
           /\ Mergeable(w, d, i, m) # 0 =>
                 /\ d.item \in Placed(w) /\ Stackable(w, i) /\ w.kind[d.item] = w.kind[i]
                 /\ w.count[d.item] + Mergeable(w, d, i, m) <= MaxStack
           /\ /\ Stackable(w, i) /\ d.item # None /\ w.kind[d.item] = w.kind[i]
              /\ m <= MaxStack - w.count[d.item]
              => Mergeable(w, d, i, m) = m
<1>1. CASE Stackable(w, i) /\ d.item # None /\ w.kind[d.item] = w.kind[i]
  <2>1. PICK n : n = w.count[d.item] OBVIOUS
  <2>2. n \in 1..MaxStack BY <1>1, <2>1 DEF Orderly, Count
  <2>3. Mergeable(w, d, i, m) = Min({MaxStack - n, m}) BY <1>1, <2>1 DEF Mergeable
  <2>4. Min({MaxStack - n, m}) = IF MaxStack - n <= m THEN MaxStack - n ELSE m
    BY <2>2, MinTwo, KindAssumption
  <2>5. PICK g : g = Mergeable(w, d, i, m) OBVIOUS
  <2>6. g \in 0..m /\ n + g <= MaxStack /\ (m <= MaxStack - n => g = m)
    <3>1. MaxStack \in Nat BY KindAssumption
    <3>2. CASE MaxStack - n <= m
      <4>1. g = MaxStack - n BY <2>3, <2>4, <2>5, <3>2
      <4>. QED BY <2>2, <3>1, <3>2, <4>1
    <3>3. CASE ~(MaxStack - n <= m)
      <4>1. g = m BY <2>3, <2>4, <2>5, <3>3
      <4>. QED BY <2>2, <3>1, <3>3, <4>1
    <3>. QED BY <3>2, <3>3
  <2>. QED BY <1>1, <2>1, <2>5, <2>6
<1>2. CASE ~(Stackable(w, i) /\ d.item # None /\ w.kind[d.item] = w.kind[i])
  <2>1. Mergeable(w, d, i, m) = 0 BY <1>2 DEF Mergeable
  <2>. QED BY <1>2, <2>1
<1>. QED BY <1>1, <1>2

MostAt(w, d, i, n, most) == most = QueryMaxCount(w, d.cyl, d.idx, i, n, FALSE)

\* Where the cylinder agrees and has room for m, what is not merged fits.
LEMMA RoomLemma ==
    ASSUME NEW w, Orderly(w, {}), NEW d, GoodDest(w, d), NEW i \in Items,
           NEW n \in Nat \ {0}, NEW q, QueryAdd(w, d.cyl, d.idx, i, q, FALSE) = "yes",
           NEW most, MostAt(w, d, i, n, most)
    PROVE  /\ most \in Nat
           /\ most > 0 /\ ~Stackable(w, i) => Fits(w, d.cyl, d.idx)
           /\ \A m \in 1..most : Stackable(w, i) /\ m > Mergeable(w, d, i, m)
                                => Fits(w, d.cyl, d.idx)
           /\ d.cyl \in Items => i # d.cyl /\ i \notin Ancestors(w, d.cyl)
<1>1. Typed(w) BY DEF Orderly
<1>. DEFINE room(o) == IF o # None /\ Stackable(w, o) /\ w.kind[o] = w.kind[i]
                       THEN MaxStack - w.count[o] ELSE 0
<1>2. \A o \in Items \cup {None} : room(o) \in Nat
  BY <1>1, KindAssumption DEF Typed
<1>3. CASE d.cyl \in Players
  <2>1. d.cyl \notin Tiles /\ d.cyl \notin Items BY <1>3, ThingAssumption
  <2>2. PICK o : o = d.item OBVIOUS
  <2>3. PlayerQueryAdd(w, d.cyl, d.idx, i, q) = "yes" BY <1>3, <2>1 DEF QueryAdd
  <2>4. d.idx \in Slots BY <2>3 DEF PlayerQueryAdd
  <2>5. o = w.slot[d.cyl][d.idx] BY <1>3, <2>2, <2>4 DEF GoodDest
  <2>6. o = None \/ (Stackable(w, o) /\ w.kind[o] = w.kind[i])
    BY <2>3, <2>4, <2>5 DEF PlayerQueryAdd
  <2>7. o \in Items \cup {None} BY <1>1, <1>3, <2>4, <2>5 DEF Typed
  <2>8. most = IF o # None THEN room(o) ELSE IF Stackable(w, i) THEN MaxStack ELSE 1
    BY <1>3, <2>1, <2>4, <2>5 DEF MostAt, QueryMaxCount
  <2>9. most \in Nat BY <1>2, <2>7, <2>8, KindAssumption
  <2>10. o = None => Fits(w, d.cyl, d.idx) BY <1>3, <2>4, <2>5 DEF Fits
  <2>11. o # None => Stackable(w, i) BY <2>6 DEF Stackable
  <2>12. ASSUME o # None, NEW m \in 1..most PROVE Mergeable(w, d, i, m) = m
    <3>1. most = MaxStack - w.count[o] BY <2>6, <2>8, <2>12
    <3>2. m \in Nat \ {0} /\ m <= MaxStack - w.count[o] BY <2>9, <3>1
    <3>3. d.item # None => d.item \in Placed(w) BY DEF GoodDest
    <3>. QED BY <2>2, <2>6, <2>11, <2>12, <3>2, <3>3, MergeableLemma
  <2>. QED BY <2>1, <2>9, <2>10, <2>11, <2>12
<1>4. CASE d.cyl \in Tiles
  <2>1. d.cyl \notin Players /\ d.cyl \notin Items BY <1>4, ThingAssumption
  <2>2. TileQueryAdd(w, d.cyl) = "yes" BY <2>1 DEF QueryAdd
  <2>3. Len(w.inside[d.cyl]) < TileRoom BY <2>2 DEF TileQueryAdd
  <2>4. most = Max({1, n}) BY <1>4, <2>1 DEF MostAt, QueryMaxCount
  <2>5. most \in Nat BY <2>4, MaxTwo
  <2>. QED BY <1>4, <2>1, <2>3, <2>5 DEF Fits
<1>5. CASE d.cyl \in Items
  <2>1. d.cyl \notin Players /\ d.cyl \notin Tiles BY <1>5, ThingAssumption
  <2>2. ContainerQueryAdd(w, d.cyl, d.idx, i, q, FALSE) = "yes" BY <1>5, <2>1 DEF QueryAdd
  <2>3. i # d.cyl /\ i \notin Ancestors(w, d.cyl) BY <2>2 DEF ContainerQueryAdd
  <2>4. /\ d.idx \in Int /\ d.idx < Capacity(w, d.cyl) /\ Root(w, d.cyl) # None
        /\ d.item = There(w, d.cyl, d.idx)
    BY <1>5, <2>1 DEF GoodDest, Host, Grounds
  <2>5. PICK len \in Nat : len = Len(w.inside[d.cyl]) BY <1>1, <1>5, LenProperties DEF Typed
  <2>6. PICK cap \in Nat : cap = Capacity(w, d.cyl)
    BY <1>1, <1>5, KindAssumption DEF Capacity, Typed
  <2>7. PICK slots : slots = Max({cap - len, 0}) OBVIOUS
  <2>8. slots \in Nat /\ (slots # 0 => len < cap) BY <2>7, MaxTwo
  <2>9. slots # 0 => Fits(w, d.cyl, d.idx) BY <1>5, <2>4, <2>5, <2>6, <2>8 DEF Fits
  <2>10. d.item \in Items \cup {None} BY DEF GoodDest, Placed
  <2>11. most = IF Stackable(w, i) THEN slots * MaxStack + room(d.item) ELSE slots
    BY <2>1, <2>4, <2>5, <2>6, <2>7 DEF MostAt, QueryMaxCount, There
  <2>12. room(d.item) \in Nat /\ MaxStack \in Nat BY <1>2, <2>10, KindAssumption
  <2>13. most \in Nat
    <3>. HIDE DEF room
    <3>1. slots * MaxStack \in Nat BY <2>8, <2>12
    <3>. QED BY <2>8, <2>11, <2>12, <3>1
  <2>14. ASSUME slots = 0, Stackable(w, i), NEW m \in 1..most PROVE Mergeable(w, d, i, m) = m
    <3>1. most = room(d.item)
      <4>. HIDE DEF room
      <4>. QED BY <2>11, <2>12, <2>14
    <3>2. m \in Nat \ {0} /\ m <= room(d.item) BY <2>13, <2>14, <3>1
    <3>3. d.item # None /\ w.kind[d.item] = w.kind[i] /\ m <= MaxStack - w.count[d.item]
      BY <3>2
    <3>4. d.item # None => d.item \in Placed(w) BY DEF GoodDest
    <3>. QED BY <2>14, <3>2, <3>3, <3>4, MergeableLemma
  <2>15. most > 0 /\ ~Stackable(w, i) => slots # 0 BY <2>8, <2>11
  <2>16. \A m \in 1..most : Stackable(w, i) /\ m > Mergeable(w, d, i, m) => slots # 0
    <3>. SUFFICES ASSUME NEW m \in 1..most, Stackable(w, i), m > Mergeable(w, d, i, m), slots = 0
                  PROVE  FALSE
      OBVIOUS
    <3>1. Mergeable(w, d, i, m) = m BY <2>14
    <3>. QED BY <3>1
  <2>. QED BY <2>3, <2>9, <2>13, <2>15, <2>16
<1>. QED BY <1>3, <1>4, <1>5 DEF GoodDest, Host, Grounds, IsContainer

\* What is moved lands where there is room for it.
Laid(w, u, d, i, m, merge, j) ==
    LET k == w.kind[i]
        v == IF merge = 0 THEN u
             ELSE UpdateThing(u, d.item, k, u.count[d.item] + merge)
    IN CASE ~Stackable(w, i) -> AddThing(v, d.cyl, d.idx, i)
         [] Stackable(w, i) /\ m > merge -> AddThing(Create(v, j, k, m - merge), d.cyl, d.idx, j)
         [] OTHER -> v

\* The cylinder agreed to take m of i.
Agreed(w, d, i, m) ==
    \E n \in Nat \ {0} : \E q, most :
        /\ QueryAdd(w, d.cyl, d.idx, i, q, FALSE) = "yes"
        /\ MostAt(w, d, i, n, most) /\ most # 0
        /\ IF Stackable(w, i) THEN m \in 1..most /\ m \in 1..w.count[i] ELSE m = most
        /\ Stackable(w, i) /\ m < w.count[i] => Free(w) # {}
\* u is w without m of i, j an object for them, t is u with them at d.
Carried(w, d, i, m, u, j, t) ==
    /\ u = RemoveThing(w, w.parent[i], i, m)
    /\ j = IF u.parent[i] = None THEN i ELSE Fresh(u)
    /\ t = Laid(w, u, d, i, m, Mergeable(w, d, i, m), j)

\* Game::internalMoveItem lays down what it took: merged as far as it can be,
\* the rest as an item of its own.
LEMMA LaidLemma ==
    ASSUME NEW w, Fine(w), NEW i \in Placed(w), NEW d, GoodDest(w, d), i # d.item,
           NEW m, Agreed(w, d, i, m), NEW u, NEW j, NEW t, Carried(w, d, i, m, u, j, t)
    PROVE  Orderly(t, {}) /\ j \in Free(w) \cup {i} /\ Others(w, t, i, j)
<1>. SUFFICES
       ASSUME NEW n \in Nat \ {0}, NEW q, QueryAdd(w, d.cyl, d.idx, i, q, FALSE) = "yes",
              NEW most, MostAt(w, d, i, n, most), most # 0,
              IF Stackable(w, i) THEN m \in 1..most /\ m \in 1..w.count[i] ELSE m = most,
              Stackable(w, i) /\ m < w.count[i] => Free(w) # {},
              u = RemoveThing(w, w.parent[i], i, m),
              j = IF u.parent[i] = None THEN i ELSE Fresh(u),
              t = Laid(w, u, d, i, m, Mergeable(w, d, i, m), j)
       PROVE  Orderly(t, {}) /\ j \in Free(w) \cup {i} /\ Others(w, t, i, j)
  BY DEF Agreed, Carried
<1>1. Orderly(w, {}) /\ Typed(w) /\ i \in Items /\ w.parent[i] # None
  BY OrderlyInPlace DEF Fine, InPlace, Placed
<1>2. /\ most \in Nat
      /\ most > 0 /\ ~Stackable(w, i) => Fits(w, d.cyl, d.idx)
      /\ \A r \in 1..most : Stackable(w, i) /\ r > Mergeable(w, d, i, r)
                            => Fits(w, d.cyl, d.idx)
      /\ d.cyl \in Items => i # d.cyl /\ i \notin Ancestors(w, d.cyl)
  BY <1>1, RoomLemma
<1>3. d.cyl \in Grounds \cup Items /\ (d.cyl \in Items => d.cyl \notin Grounds)
  BY ThingAssumption DEF GoodDest, Host, IsContainer, Grounds
<1>4. d.cyl \in Items => Root(w, d.cyl) # None BY <1>3 DEF GoodDest, Host
<1>5. PICK merge : merge = Mergeable(w, d, i, m) /\ t = Laid(w, u, d, i, m, merge, j)
  OBVIOUS
<1>6. PICK v : v = IF merge = 0 THEN u
                   ELSE UpdateThing(u, d.item, w.kind[i], u.count[d.item] + merge)
  OBVIOUS
<1>7. CASE ~Stackable(w, i)
  <2>1. merge = 0 /\ v = u BY <1>5, <1>6, <1>7 DEF Mergeable
  <2>2. t = AddThing(u, d.cyl, d.idx, i) BY <1>5, <1>7, <2>1 DEF Laid
  <2>3. Removed(w, u, i) BY <1>1, <1>7, RemoveRemoved
  <2>4. Orderly(u, {i}) /\ Typed(u) BY <1>1, <2>3, RemovedOrderly DEF Orderly
  <2>5. \A x \in Items : u.parent[x] = IF x = i THEN None ELSE w.parent[x]
    BY <1>1, <2>3 DEF Removed, Typed
  <2>6. j = i BY <1>1, <2>5
  <2>7. d.cyl \in Items => Root(u, d.cyl) = Root(w, d.cyl)
    <3>. SUFFICES ASSUME d.cyl \in Items PROVE Root(u, d.cyl) = Root(w, d.cyl) OBVIOUS
    <3>1. \A x \in Items \ {i} : u.parent[x] = w.parent[x] BY <2>5
    <3>2. Ancestors(u, d.cyl) = Ancestors(w, d.cyl) BY <1>2, <3>1, OneParent
    <3>. QED BY <3>2, RootSame
  <2>8. Fits(u, d.cyl, d.idx)
    <3>1. Emptier(w, u) BY <2>3 DEF Removed, Emptier
    <3>2. Fits(w, d.cyl, d.idx) BY <1>2, <1>7
    <3>. QED BY <1>1, <2>3, <2>4, <2>7, <3>1, <3>2, FitsKept DEF Removed
  <2>9. Added(u, t, d.cyl, i)
    <3>1. PICK c, x : c = d.cyl /\ x = d.idx OBVIOUS
    <3>2. Fits(u, c, x) BY <2>8, <3>1
    <3>3. Added(u, AddThing(u, c, x, i), c, i) BY ONLY <2>4, <3>2, AddAdded
    <3>. QED BY <2>2, <3>1, <3>3
  <2>10. Count(u, i) >= 1
    <3>1. w.count[i] \in 1..MaxStack /\ u.count = w.count BY <1>1, <2>3 DEF Orderly, Count, Removed
    <3>. QED BY <3>1 DEF Count
  <2>11. Orderly(t, {}) BY <1>3, <1>4, <2>4, <2>7, <2>9, <2>10, AddedOrderly
  <2>12. Others(w, t, i, j)
    <3>1. t.kind = w.kind /\ t.at = w.at /\ t.open = w.open BY <2>3, <2>9 DEF Removed, Added
    <3>2. \A x \in Items \ {i} : t.parent[x] = w.parent[x]
      <4>1. t.parent = [u.parent EXCEPT ![i] = d.cyl] BY <2>9 DEF Added
      <4>2. DOMAIN u.parent = Items BY <2>4 DEF Typed
      <4>. QED BY <2>5, <4>1, <4>2
    <3>. QED BY <2>6, <3>1, <3>2 DEF Others
  <2>. QED BY <2>6, <2>11, <2>12
<1>8. CASE Stackable(w, i)
  <2>1. m \in 1..most /\ m \in 1..w.count[i] /\ m \in Nat \ {0} BY <1>8
  <2>2. /\ Orderly(u, {}) /\ j \in Free(u) /\ j \in Free(w) \cup {i}
        /\ u.kind = w.kind /\ u.at = w.at /\ u.open = w.open
        /\ \A x \in Items \ {i} : u.parent[x] = w.parent[x] /\ u.count[x] = w.count[x]
        /\ Emptier(w, u)
    BY <1>8, <2>1, StackOut
  <2>3. d.item # None => d.item \in Placed(w) BY DEF GoodDest
  <2>4. /\ merge \in 0..m
        /\ merge # 0 => /\ d.item \in Placed(w) /\ w.kind[d.item] = w.kind[i]
                        /\ w.count[d.item] + merge <= MaxStack
    BY <1>1, <1>5, <2>1, <2>3, MergeableLemma
  <2>5. Orderly(v, {}) /\ Same(u, v)
    <3>1. CASE merge = 0 BY <1>6, <2>2, <3>1 DEF Same
    <3>2. CASE merge # 0
      <4>1. PICK x : x = d.item OBVIOUS
      <4>2. x \in Items \ {i} /\ w.parent[x] # None BY <2>4, <3>2, <4>1 DEF Placed
      <4>3. x \in Placed(u) /\ u.count[x] + merge <= MaxStack /\ u.kind[x] = w.kind[i]
        BY <2>2, <2>4, <3>2, <4>1, <4>2 DEF Placed
      <4>4. v = UpdateThing(u, x, u.kind[x], u.count[x] + merge) BY <1>6, <3>2, <4>1, <4>3
      <4>5. merge \in Nat BY <2>4
      <4>. QED BY <2>2, <4>3, <4>4, <4>5, MergeLemma
    <3>. QED BY <3>1, <3>2
  <2>6. Typed(w) /\ Typed(v) /\ Typed(u) BY <1>1, <2>2, <2>5 DEF Orderly
  <2>7. CASE m > merge
    <3>1. t = AddThing(Create(v, j, w.kind[i], m - merge), d.cyl, d.idx, j)
      BY <1>5, <1>6, <1>8, <2>7 DEF Laid
    <3>2. Fits(w, d.cyl, d.idx) BY <1>2, <1>5, <1>8, <2>1, <2>7
    <3>3. d.cyl \in Items => Root(v, d.cyl) = Root(w, d.cyl)
      <4>. SUFFICES ASSUME d.cyl \in Items PROVE Root(v, d.cyl) = Root(w, d.cyl) OBVIOUS
      <4>1. \A x \in Items \ {i} : v.parent[x] = w.parent[x] BY <2>2, <2>5 DEF Same
      <4>2. Ancestors(v, d.cyl) = Ancestors(w, d.cyl) BY <1>2, <4>1, OneParent
      <4>. QED BY <4>2, RootSame
    <3>4. Fits(v, d.cyl, d.idx)
      <4>1. Emptier(w, v) BY <2>2, <2>5 DEF Emptier, Same
      <4>2. v.kind = w.kind BY <2>2, <2>5 DEF Same
      <4>. QED BY <2>6, <3>2, <3>3, <4>1, <4>2, FitsKept
    <3>5. m - merge \in Int /\ m - merge <= MaxStack
      <4>1. w.count[i] \in 1..MaxStack BY DEF Orderly, Count, Fine, InPlace
      <4>. QED BY <2>1, <2>4, <4>1, KindAssumption
    <3>6. j \in Free(v) /\ w.kind[i] \in Kinds
      BY <1>1, <2>2, <2>5, <2>6 DEF Same, Free, Placed, Typed
    <3>7. PICK k \in Kinds : k = w.kind[i] BY <3>6
    <3>8. PICK r \in Int : r = m - merge BY <3>5
    <3>9. t = AddThing(Create(v, j, k, r), d.cyl, d.idx, j) /\ r <= MaxStack
      BY <3>1, <3>5, <3>7, <3>8
    <3>10. /\ Orderly(t, {}) /\ t.at = v.at /\ t.open = v.open
           /\ t.parent = [v.parent EXCEPT ![j] = d.cyl] /\ t.kind = [v.kind EXCEPT ![j] = k]
      <4>1. PICK c, x : c = d.cyl /\ x = d.idx OBVIOUS
      <4>2. Fits(v, c, x) /\ t = AddThing(Create(v, j, k, r), c, x, j) BY <3>4, <3>9, <4>1
      <4>3. PutIn(v, AddThing(Create(v, j, k, r), c, x, j), j, k, c)
        BY <2>5, <3>6, <3>9, <4>2, PutLemma
      <4>. QED BY <4>1, <4>2, <4>3 DEF PutIn
    <3>11. Others(w, t, i, j)
      <4>1. t.at = w.at /\ t.open = w.open BY <2>2, <2>5, <3>10 DEF Same
      <4>2. ASSUME NEW x \in Items, x \in Placed(w) PROVE t.kind[x] = w.kind[x]
        <5>1. x = j => x = i BY <2>2, <4>2 DEF Free
        <5>2. v.kind = w.kind BY <2>2, <2>5 DEF Same
        <5>. QED BY <2>6, <3>7, <3>10, <5>1, <5>2 DEF Typed
      <4>3. ASSUME NEW x \in Items \ {i, j} PROVE t.parent[x] = w.parent[x]
        <5>1. u.parent[x] = w.parent[x] /\ v.parent = u.parent BY <2>2, <2>5 DEF Same
        <5>2. t.parent[x] = v.parent[x] BY <2>6, <3>10 DEF Typed
        <5>. QED BY <5>1, <5>2
      <4>. QED BY <4>1, <4>2, <4>3 DEF Others
    <3>. QED BY <2>2, <3>10, <3>11
  <2>8. CASE ~(m > merge)
    <3>1. t = v BY ONLY <1>5, <1>6, <1>8, <2>8 DEF Laid
    <3>2. Others(w, t, i, j) BY <2>2, <2>5, <3>1 DEF Others, Same
    <3>. QED BY <2>2, <2>5, <3>1, <3>2
  <2>. QED BY <2>7, <2>8
<1>. QED BY <1>7, <1>8

\* Game::internalMoveItem without exchange: what it takes away arrives, though
\* a script may run between the removal and the arrival.
LEMMA TransferFine ==
    ASSUME NEW w, Fine(w), NEW i \in Placed(w), NEW d, GoodDest(w, d), i # d.item,
           NEW n \in Nat \ {0}, QueryAdd(w, d.cyl, d.idx, i, n, FALSE) = "yes",
           NEW v \in Transfer(w, w.parent[i], d, i, n)
    PROVE  Fine(v)
<1>1. Orderly(w, {}) /\ Typed(w) /\ i \in Items /\ w.parent[i] # None
  BY OrderlyInPlace DEF Fine, InPlace, Placed
<1>2. PICK most : MostAt(w, d, i, n, most) BY DEF MostAt
<1>3. most \in Nat BY <1>1, <1>2, RoomLemma
<1>4. PICK m : m = IF Stackable(w, i) THEN Min({n, most}) ELSE most OBVIOUS
<1>5. CASE \/ most = 0 \/ ~QueryRemove(w, w.parent[i], i, m)
           \/ Stackable(w, i) /\ m < w.count[i] /\ Free(w) = {}
  <2>1. v = w BY <1>2, <1>4, <1>5 DEF Transfer, MostAt
  <2>. QED BY <2>1
<1>6. CASE ~(\/ most = 0 \/ ~QueryRemove(w, w.parent[i], i, m)
             \/ Stackable(w, i) /\ m < w.count[i] /\ Free(w) = {})
  <2>1. PICK u : u = RemoveThing(w, w.parent[i], i, m) OBVIOUS
  <2>2. PICK j : j = IF u.parent[i] = None THEN i ELSE Fresh(u) OBVIOUS
  <2>3. PICK merge : merge = Mergeable(w, d, i, m) OBVIOUS
  <2>4. PICK t : t = Laid(w, u, d, i, m, merge, j) OBVIOUS
  <2>5. PICK a : a = RemovedNotice(t, w.parent[i], i) OBVIOUS
  <2>6. PICK x : x = IF merge = m /\ Stackable(w, i) THEN d.item ELSE j OBVIOUS
  <2>7. PICK b : b = AddedNotice(a, d.cyl, x) OBVIOUS
  <2>8. v \in Scripted(Swept(LayDown(w, u, w.parent[i], d, i, m, merge)))
    BY <1>2, <1>4, <1>6, <2>1, <2>3 DEF Transfer, MostAt
  <2>9. b = LayDown(w, u, w.parent[i], d, i, m, merge)
    BY <2>2, <2>4, <2>5, <2>6, <2>7 DEF LayDown, Laid
  <2>10. w.count[i] \in 1..MaxStack BY <1>1 DEF Orderly, Count
  <2>11. IF Stackable(w, i) THEN m \in 1..most /\ m \in 1..w.count[i] ELSE m = most
    <3>1. CASE Stackable(w, i)
      <4>1. m = Min({n, most}) BY <1>4, <3>1
      <4>2. m = IF n <= most THEN n ELSE most BY <1>3, <4>1, MinTwo
      <4>3. m \in Nat \ {0} /\ m <= most
        <5>1. CASE n <= most BY <1>3, <4>2, <5>1
        <5>2. CASE ~(n <= most) BY <1>3, <1>6, <4>2, <5>2
        <5>. QED BY <5>1, <5>2
      <4>4. m <= w.count[i] BY <1>6, <3>1 DEF QueryRemove
      <4>. QED BY <1>3, <2>10, <3>1, <4>3, <4>4
    <3>2. CASE ~Stackable(w, i) BY <1>4, <3>2
    <3>. QED BY <3>1, <3>2
  <2>12. Orderly(t, {}) /\ j \in Free(w) \cup {i} /\ Others(w, t, i, j)
    <3>1. Agreed(w, d, i, m) BY <1>2, <1>6, <2>11 DEF Agreed
    <3>2. Carried(w, d, i, m, u, j, t) BY <2>1, <2>2, <2>3, <2>4 DEF Carried
    <3>. QED BY <3>1, <3>2, LaidLemma
  <2>13. Typed(t) /\ Moved(w, t, i) BY <2>12, OthersMoved DEF Orderly
  <2>14. InReach(a) BY <2>5, <2>13, NoticeReach
  <2>15. Orderly(a, {}) BY <2>5, <2>12, <2>13, NoticeAlike, AlikeOrderly
  <2>16. Fine(a) BY <2>14, <2>15, OrderlyInPlace DEF Fine
  <2>17. d.cyl \in Grounds \cup Items BY DEF GoodDest, Host, IsContainer
  <2>18. Fine(b) BY <2>7, <2>16, <2>17, AddedNoticeFine
  <2>19. Fine(Swept(b)) BY <2>18, SweptFine
  <2>. QED BY <2>8, <2>9, <2>19, ScriptedFine
<1>. QED BY <1>5, <1>6

\* Some place comes first among those that are tried.
LEMMA FirstLemma ==
    ASSUME NEW w, NEW p, NEW S, S # {}, \A d \in S : Turn(w, p, d) \in Nat
    PROVE  FirstPlace(w, p, S) \in S
<1>. DEFINE T == {Turn(w, p, d) : d \in S}
<1>1. T \subseteq Nat /\ T # {} OBVIOUS
<1>2. PICK x \in T : \A y \in T : <<y, x>> \notin OpToRel(<, Nat)
  BY <1>1, NatLessThanWellFounded, WFMin
<1>3. \A y \in T : x <= y
  <2>. SUFFICES ASSUME NEW y \in T, y < x PROVE FALSE BY <1>1
  <2>1. x \in Nat /\ y \in Nat BY <1>1
  <2>2. <<y, x>> \in OpToRel(<, Nat)
    <3>1. <<y, x>> \in Nat \X Nat /\ <<y, x>>[1] = y /\ <<y, x>>[2] = x BY <2>1
    <3>. QED BY <3>1 DEF OpToRel
  <2>. QED BY <1>2, <2>2
<1>4. PICK d \in S : x = Turn(w, p, d) OBVIOUS
<1>5. \A e \in S : Turn(w, p, d) <= Turn(w, p, e) BY <1>3, <1>4
<1>. QED BY <1>5 DEF FirstPlace

\* A cylinder is a place to go to, with no item named in it.
LEMMA AgainNone ==
    ASSUME NEW w, NEW c, Host(w, c), Typed(w)
    PROVE  GoodDest(w, Dest(c, Where, None))
<1>1. Where \notin Slots /\ Where \in Int /\ Where < 0 BY ThingAssumption DEF Where, Slots
<1>2. c \in Items => Capacity(w, c) \in Nat BY KindAssumption DEF Capacity, Typed
<1>3. There(w, c, Where) = None BY <1>1 DEF There
<1>4. c \in Items => Where < Capacity(w, c) BY <1>1, <1>2
<1>. QED BY <1>1, <1>3, <1>4 DEF GoodDest, Dest

\* A container that is somewhere, and what is in it.
LEMMA HostLemma ==
    ASSUME NEW w, Orderly(w, {}), NEW c \in Placed(w), IsContainer(w, c) PROVE Host(w, c)
<1>1. Root(w, c) # None BY OrderlyInPlace DEF InPlace
<1>. QED BY <1>1 DEF Host

\* Player::__queryDestination finds a slot or a container he wears.
LEMMA FindLemma ==
    ASSUME NEW w, Orderly(w, {}), NEW p \in Players, NEW i
    PROVE  GoodDest(w, FindPlace(w, p, i))
<1>1. Typed(w) BY DEF Orderly
<1>. DEFINE S == {d \in PlacesOf(w, p) :
                        QueryAdd(w, d.cyl, d.idx, i, Count(w, i), FALSE) = "yes"}
                 \cup {Dest(p, Where, None)}
<1>2. FindPlace(w, p, i) = FirstPlace(w, p, S) BY DEF FindPlace
<1>3. Where \notin Slots BY ThingAssumption DEF Where, Slots
<1>4. p \notin Items BY ThingAssumption
<1>5. Len(SlotSeq) \in Nat /\ DOMAIN SlotSeq = 1..Len(SlotSeq)
  BY ThingAssumption, LenProperties
<1>6. \A s \in Slots : (CHOOSE n \in DOMAIN SlotSeq : SlotSeq[n] = s) \in Nat
  <2>. SUFFICES ASSUME NEW s \in Slots
                PROVE  (CHOOSE n \in DOMAIN SlotSeq : SlotSeq[n] = s) \in Nat
    OBVIOUS
  <2>1. \E n \in DOMAIN SlotSeq : SlotSeq[n] = s BY DEF Slots, Range
  <2>2. (CHOOSE n \in DOMAIN SlotSeq : SlotSeq[n] = s) \in DOMAIN SlotSeq BY <2>1
  <2>. QED BY <1>5, <2>2
<1>7. ASSUME NEW c \in Items, w.parent[c] = p PROVE SlotOf(w, p, c) \in Slots
  <2>1. c \in Placed(w) BY <1>7, ThingAssumption DEF Placed
  <2>. QED BY <1>7, <2>1, IndexLemma
<1>8. ASSUME NEW d \in S
      PROVE  \/ d = Dest(p, Where, None)
             \/ \E s \in Slots : d = Dest(p, s, None) /\ w.slot[p][s] = None
             \/ \E c \in Items : d = Dest(c, Where, None) /\ p \in Ancestors(w, c)
                                                         /\ IsContainer(w, c)
  BY DEF PlacesOf, Holds
<1>9. ASSUME NEW d \in S PROVE Turn(w, p, d) \in Nat
  <2>1. CASE d = Dest(p, Where, None)
    <3>1. Turn(w, p, d) = 2 * Len(SlotSeq) + 2 BY <1>4, <2>1 DEF Turn, Dest
    <3>. QED BY <1>5, <3>1
  <2>2. ASSUME NEW s \in Slots, d = Dest(p, s, None) PROVE Turn(w, p, d) \in Nat
    <3>1. Turn(w, p, d) = (CHOOSE n \in DOMAIN SlotSeq : SlotSeq[n] = s)
      BY <1>3, <1>4, <2>2 DEF Turn, Dest
    <3>. QED BY <1>6, <3>1
  <2>3. ASSUME NEW c \in Items, d = Dest(c, Where, None) PROVE Turn(w, p, d) \in Nat
    <3>1. d.cyl = c BY <2>3 DEF Dest
    <3>2. CASE w.parent[c] = p
      <4>1. PICK s : s = SlotOf(w, p, c) OBVIOUS
      <4>2. PICK n : n = CHOOSE k \in DOMAIN SlotSeq : SlotSeq[k] = s OBVIOUS
      <4>3. n \in Nat BY <1>6, <1>7, <3>2, <4>1, <4>2
      <4>4. Turn(w, p, d) = Len(SlotSeq) + n BY <3>1, <3>2, <4>1, <4>2 DEF Turn
      <4>. QED BY <1>5, <4>3, <4>4
    <3>3. CASE w.parent[c] # p
      <4>1. Turn(w, p, d) = 2 * Len(SlotSeq) + 1 BY <3>1, <3>3 DEF Turn
      <4>. QED BY <1>5, <4>1
    <3>. QED BY <3>2, <3>3
  <2>. QED BY <1>8, <2>1, <2>2, <2>3
<1>10. ASSUME NEW d \in S PROVE GoodDest(w, d)
  <2>1. CASE d = Dest(p, Where, None) BY <1>1, <2>1, AgainNone DEF Host, Grounds
  <2>2. ASSUME NEW s \in Slots, d = Dest(p, s, None), w.slot[p][s] = None
        PROVE  GoodDest(w, d)
    BY <1>4, <2>2 DEF GoodDest, Dest, Host, Grounds
  <2>3. ASSUME NEW c \in Items, d = Dest(c, Where, None), p \in Ancestors(w, c),
               IsContainer(w, c)
        PROVE  GoodDest(w, d)
    <3>1. Root(w, c) = p BY <2>3, RootLemma DEF Grounds
    <3>2. Host(w, c) BY <2>3, <3>1, ThingAssumption DEF Host
    <3>. QED BY <1>1, <2>3, <3>2, AgainNone
  <2>. QED BY <1>8, <2>1, <2>2, <2>3
<1>. HIDE DEF S
<1>11. S # {} BY DEF S
<1>12. FirstPlace(w, p, S) \in S BY <1>9, <1>11, FirstLemma
<1>. QED BY <1>2, <1>10, <1>12

\* Where a cylinder sends a thing, things are in order.
LEMMA DestLemma ==
    ASSUME NEW w, Orderly(w, {}), NEW c, Host(w, c), NEW idx, c \in Items => idx \in Int,
           NEW i
    PROVE  GoodDest(w, QueryDestination(w, c, idx, i))
<1>1. Typed(w) /\ Held(w) BY DEF Orderly
<1>2. CASE c \in Players
  <2>1. c \notin Tiles /\ c \notin Items BY <1>2, ThingAssumption
  <2>2. CASE idx \notin Slots
    <3>1. ~IsContainer(w, None) BY ThingAssumption DEF IsContainer
    <3>2. QueryDestination(w, c, idx, i) = FindPlace(w, c, i)
      BY <1>2, <2>1, <2>2, <3>1 DEF QueryDestination
    <3>. QED BY <1>2, <3>2, FindLemma
  <2>3. CASE idx \in Slots
    <3>1. PICK o : o = w.slot[c][idx] OBVIOUS
    <3>2. o # None => o \in Placed(w) /\ w.parent[o] = c
      BY <1>1, <1>2, <2>3, <3>1, ThingAssumption DEF Held, Typed, Placed
    <3>3. CASE IsContainer(w, o)
      <4>1. QueryDestination(w, c, idx, i) = Dest(o, Where, None)
        BY <1>2, <2>1, <2>3, <3>1, <3>3 DEF QueryDestination
      <4>2. Host(w, o) BY <3>2, <3>3, HostLemma, ThingAssumption DEF IsContainer
      <4>. QED BY <1>1, <4>1, <4>2, AgainNone
    <3>4. CASE ~IsContainer(w, o)
      <4>1. QueryDestination(w, c, idx, i) = Dest(c, idx, o)
        BY <1>2, <2>1, <2>3, <3>1, <3>4 DEF QueryDestination
      <4>. QED BY <2>1, <3>1, <3>2, <4>1 DEF GoodDest, Dest
    <3>. QED BY <3>3, <3>4
  <2>. QED BY <2>2, <2>3
<1>3. CASE c \in Tiles
  <2>1. c \notin Players /\ c \notin Items BY <1>3, ThingAssumption
  <2>2. PICK o : o = IF w.inside[c] = <<>> THEN None ELSE w.inside[c][1] OBVIOUS
  <2>3. QueryDestination(w, c, idx, i) = Dest(c, idx, o)
    BY <1>3, <2>1, <2>2 DEF QueryDestination
  <2>4. o # None => o \in Placed(w) /\ w.parent[o] = c
    <3>. SUFFICES ASSUME o # None PROVE o \in Placed(w) /\ w.parent[o] = c OBVIOUS
    <3>1. w.inside[c] \in Seq(Items) /\ w.inside[c] # <<>> BY <1>1, <1>3, <2>2 DEF Typed
    <3>2. 1 \in DOMAIN w.inside[c] /\ w.inside[c][1] \in Items
      BY <3>1, LenProperties, EmptySeq
    <3>3. o \in Range(w.inside[c]) /\ o \in Items BY <2>2, <3>1, <3>2 DEF Range
    <3>. QED BY <1>1, <1>3, <3>3, ThingAssumption DEF Held, Placed
  <2>. QED BY <2>1, <2>3, <2>4 DEF GoodDest, Dest
<1>4. CASE c \in Items
  <2>1. c \notin Tiles /\ c \notin Players BY <1>4, ThingAssumption
  <2>2. IsContainer(w, c) /\ Root(w, c) # None BY <2>1 DEF Host, Grounds
  <2>3. PICK m \in Seq(Items) : m = w.inside[c] BY <1>1, <1>4 DEF Typed
  <2>4. PICK cap \in Nat : cap = Capacity(w, c)
    BY <1>1, <1>4, KindAssumption DEF Capacity, Typed
  <2>5. Len(m) \in Nat /\ Len(m) <= cap BY <1>1, <1>4, <2>3, <2>4, LenProperties DEF Held
  <2>6. PICK o : o = There(w, c, idx) OBVIOUS
  <2>7. (IF idx >= 0 /\ idx < Min({Len(w.inside[c]), Capacity(w, c)})
         THEN w.inside[c][idx + 1] ELSE None) = o
    <3>1. Min({Len(m), cap}) = Len(m) BY <2>5, MinTwo
    <3>. QED BY <2>3, <2>4, <2>6, <3>1 DEF There
  <2>8. o # None => idx < cap /\ idx >= 0 /\ o \in Placed(w) /\ w.parent[o] = c
    <3>. SUFFICES ASSUME o # None
                  PROVE  idx < cap /\ idx >= 0 /\ o \in Placed(w) /\ w.parent[o] = c
      OBVIOUS
    <3>1. idx \in Int /\ idx >= 0 /\ idx < Len(m) /\ o = m[idx + 1]
      BY <1>4, <2>3, <2>6 DEF There
    <3>2. idx + 1 \in 1..Len(m) BY <2>5, <3>1
    <3>3. o \in Range(m) /\ o \in Items BY <3>1, <3>2, LenProperties DEF Range
    <3>4. idx < cap BY <2>5, <3>1
    <3>. QED BY <1>1, <1>4, <2>3, <3>1, <3>3, <3>4, ThingAssumption DEF Held, Placed
  <2>9. Up \in Int /\ Up < 0 BY DEF Up
  <2>10. CASE idx = Up
    <3>1. PICK x : x = IF w.parent[c] \in Items THEN w.parent[c] ELSE c OBVIOUS
    <3>2. o = None BY <2>8, <2>9, <2>10
    <3>3. ~IsContainer(w, None) BY ThingAssumption DEF IsContainer
    <3>4. ~(idx >= cap) BY <2>9, <2>10
    <3>5. QueryDestination(w, c, idx, i) = Dest(x, Where, None)
      BY <1>4, <2>1, <2>4, <2>7, <2>10, <3>1, <3>2, <3>3, <3>4 DEF QueryDestination
    <3>6. Host(w, x)
      <4>1. CASE w.parent[c] \in Items
        <5>1. Root(w, x) # None BY <1>4, <2>2, <3>1, <4>1, RootUp
        <5>2. IsContainer(w, x) BY <1>4, <3>1, <4>1, NoContainer
        <5>. QED BY <5>1, <5>2 DEF Host
      <4>2. CASE w.parent[c] \notin Items BY <3>1, <4>2
      <4>. QED BY <4>1, <4>2
    <3>. QED BY <1>1, <3>5, <3>6, AgainNone
  <2>11. CASE IsContainer(w, o)
    <3>1. o # None BY <2>11, ThingAssumption DEF IsContainer
    <3>2. idx # Up /\ ~(idx >= cap) BY <1>4, <2>8, <2>9, <3>1
    <3>3. QueryDestination(w, c, idx, i) = Dest(o, Where, None)
      BY <1>4, <2>1, <2>4, <2>7, <2>11, <3>2 DEF QueryDestination
    <3>4. Host(w, o) BY <2>8, <2>11, <3>1, HostLemma
    <3>. QED BY <1>1, <3>3, <3>4, AgainNone
  <2>12. CASE idx # Up /\ ~IsContainer(w, o) /\ idx >= cap
    <3>1. QueryDestination(w, c, idx, i) = Dest(c, Where, None)
      BY <1>4, <2>1, <2>4, <2>7, <2>12 DEF QueryDestination
    <3>. QED BY <1>1, <3>1, AgainNone
  <2>13. CASE idx # Up /\ ~IsContainer(w, o) /\ ~(idx >= cap)
    <3>1. QueryDestination(w, c, idx, i) = Dest(c, idx, o)
      BY <1>4, <2>1, <2>4, <2>7, <2>13 DEF QueryDestination
    <3>2. idx < cap BY <1>4, <2>13
    <3>. QED BY <1>4, <2>1, <2>4, <2>6, <2>8, <3>1, <3>2 DEF GoodDest, Dest
  <2>. QED BY <2>10, <2>11, <2>12, <2>13
<1>. QED BY <1>2, <1>3, <1>4 DEF Host, Grounds, IsContainer

\* Game::internalMoveItem follows the destinations until one stays.
LEMMA ResolveLemma ==
    ASSUME NEW w, Orderly(w, {}), NEW c, Host(w, c), NEW idx, c \in Items => idx \in Int,
           NEW i
    PROVE  GoodDest(w, Resolve(w, c, idx, i))
<1>1. PICK d : d = QueryDestination(w, c, idx, i) OBVIOUS
<1>2. GoodDest(w, d) BY <1>1, DestLemma
<1>3. GoodDest(w, QueryDestination(w, d.cyl, d.idx, i))
  <2>1. Host(w, d.cyl) /\ (d.cyl \in Items => d.idx \in Int) BY <1>2 DEF GoodDest
  <2>. QED BY <2>1, DestLemma
<1>. QED BY <1>1, <1>2, <1>3 DEF Resolve, Onward

\* What a cylinder finds in itself has it as its parent.
LEMMA HasParent ==
    ASSUME NEW w, Orderly(w, {}), NEW cyl \in Grounds \cup Items, NEW i, Has(w, cyl, i)
    PROVE  i \in Placed(w) /\ w.parent[i] = cyl
<1>1. Typed(w) /\ Held(w) BY DEF Orderly
<1>2. CASE cyl \in Players
  <2>1. PICK s \in Slots : w.slot[cyl][s] = i /\ i # None BY <1>2 DEF Has, SlotItems
  <2>. QED BY <1>1, <1>2, <2>1, ThingAssumption DEF Held, Typed, Placed
<1>3. CASE cyl \notin Players
  <2>1. cyl \in Items \cup Tiles BY <1>3 DEF Grounds
  <2>2. w.inside[cyl] \in Seq(Items) /\ i \in Range(w.inside[cyl])
    BY <1>1, <1>3, <2>1 DEF Typed, Has
  <2>3. i \in Items BY <2>2, RangeOfSeq DEF Range
  <2>. QED BY <1>1, <2>1, <2>2, <2>3, ThingAssumption DEF Held, Placed
<1>. QED BY <1>2, <1>3

\* What is worn is taken off and put where i is, which is not worn.
Exchanged(w, from, d, i) ==
    SwapBack(RemovedNotice(AddThing(RemoveThing(w, d.cyl, d.item, Count(w, d.item)),
                                    from, 0, d.item), d.cyl, d.item), from, d.item)
Swaps(w, from, d, i, n) ==
    /\ QueryAdd(w, d.cyl, d.idx, i, n, FALSE) = "exchange"
    /\ QueryAdd(w, from, Index(w, from, i), d.item, Count(w, d.item), FALSE) = "yes"
    /\ QueryMaxCount(w, from, Where, d.item, Count(w, d.item), FALSE) > 0

\* The exchange at the top of Game::internalMoveItem leaves the slot free and
\* the things in order.
LEMMA ExchangeLemma ==
    ASSUME NEW w, Fine(w), NEW i \in Placed(w), NEW d, GoodDest(w, d), i # d.item, NEW n,
           Swaps(w, w.parent[i], d, i, n), NEW v, v = Exchanged(w, w.parent[i], d, i)
    PROVE  /\ Fine(v) /\ d.cyl \in Players
           /\ d.idx \in Slots => v.slot[d.cyl][d.idx] = None
<1>1. /\ Orderly(w, {}) /\ Typed(w) /\ i \in Items /\ w.parent[i] # None
      /\ Root(w, i) # None
  BY OrderlyInPlace DEF Fine, InPlace, Placed
<1>2. PICK from : from = w.parent[i] OBVIOUS
<1>3. PICK p : p = d.cyl OBVIOUS
<1>4. PICK x : x = d.item OBVIOUS
<1>5. from \in Grounds \cup Items BY <1>1, <1>2 DEF Typed, Grounds
<1>6. p \in Players
  <2>1. QueryAdd(w, p, d.idx, i, n, FALSE) = "exchange" BY <1>3 DEF Swaps
  <2>2. ContainerQueryAdd(w, p, d.idx, i, n, FALSE) # "exchange" BY DEF ContainerQueryAdd
  <2>3. TileQueryAdd(w, p) # "exchange" BY DEF TileQueryAdd
  <2>. QED BY <2>1, <2>2, <2>3 DEF QueryAdd
<1>7. p \notin Items /\ p \notin Tiles BY <1>6, ThingAssumption
<1>8. /\ d.idx \in Slots /\ x = w.slot[p][d.idx] /\ x # None
      /\ ~(Stackable(w, x) /\ w.kind[x] = w.kind[i])
  <2>1. PlayerQueryAdd(w, p, d.idx, i, n) = "exchange"
    BY <1>3, <1>6, <1>7 DEF Swaps, QueryAdd
  <2>2. d.idx \in Slots BY <2>1 DEF PlayerQueryAdd
  <2>3. x = w.slot[p][d.idx] BY <1>3, <1>4, <1>6, <2>2 DEF GoodDest
  <2>. QED BY <2>1, <2>2, <2>3 DEF PlayerQueryAdd
<1>9. x \in Placed(w) /\ x \in Items /\ w.parent[x] = p
  BY <1>3, <1>4, <1>8 DEF GoodDest, Placed
<1>10. QueryAdd(w, from, Index(w, from, i), x, Count(w, x), FALSE) = "yes"
  BY <1>2, <1>4 DEF Swaps
<1>11. from \notin Players
  <2>. SUFFICES ASSUME from \in Players PROVE FALSE OBVIOUS
  <2>1. from \notin Items /\ from \notin Tiles BY ThingAssumption
  <2>2. PICK s : s = SlotOf(w, from, i) OBVIOUS
  <2>3. s \in Slots /\ w.slot[from][s] = i BY <1>1, <1>2, <2>2, IndexLemma
  <2>4. PlayerQueryAdd(w, from, s, x, Count(w, x)) = "yes"
    BY <1>10, <2>1, <2>2 DEF QueryAdd, Index
  <2>5. i # None BY <1>1, ThingAssumption
  <2>6. Stackable(w, i) /\ w.kind[i] = w.kind[x] BY <2>3, <2>4, <2>5 DEF PlayerQueryAdd
  <2>. QED BY <1>8, <2>6 DEF Stackable
<1>12. Fits(w, from, 0) /\ (from \in Items => x # from /\ x \notin Ancestors(w, from))
  <2>1. CASE from \in Tiles
    <3>1. from \notin Items BY <2>1, ThingAssumption
    <3>2. TileQueryAdd(w, from) = "yes" BY <1>10, <1>11, <3>1 DEF QueryAdd
    <3>. QED BY <2>1, <3>1, <3>2 DEF TileQueryAdd, Fits
  <2>2. CASE from \in Items
    <3>1. from \notin Tiles BY <2>2, ThingAssumption
    <3>2. ContainerQueryAdd(w, from, Index(w, from, i), x, Count(w, x), FALSE) = "yes"
      BY <1>10, <1>11, <2>2 DEF QueryAdd
    <3>3. x # from /\ x \notin Ancestors(w, from) BY <3>2 DEF ContainerQueryAdd
    <3>4. PICK len \in Nat : len = Len(w.inside[from]) BY <1>1, <2>2, LenProperties DEF Typed
    <3>5. PICK cap \in Nat : cap = Capacity(w, from)
      BY <1>1, <2>2, KindAssumption DEF Capacity, Typed
    <3>6. PICK slots : slots = Max({cap - len, 0}) OBVIOUS
    <3>7. slots \in Nat /\ (slots # 0 => len < cap) BY <3>6, MaxTwo
    <3>8. PICK most : most = QueryMaxCount(w, from, Where, x, Count(w, x), FALSE) OBVIOUS
    <3>9. most > 0 BY <1>2, <1>4, <3>8 DEF Swaps
    <3>10. ~(Where >= 0) BY DEF Where
    <3>11. most = IF Stackable(w, x) THEN slots * MaxStack + 0 ELSE slots
      BY <1>11, <3>1, <3>4, <3>5, <3>6, <3>8, <3>10 DEF QueryMaxCount
    <3>12. slots # 0
      <4>. SUFFICES ASSUME slots = 0 PROVE FALSE OBVIOUS
      <4>1. 0 * MaxStack + 0 = 0 BY KindAssumption
      <4>2. most = 0 BY <3>11, <4>1
      <4>. QED BY <3>9, <4>2
    <3>13. len < cap /\ 0 < cap BY <3>7, <3>12
    <3>14. Root(w, from) # None BY <1>1, <1>2, RootUp
    <3>. QED BY <2>2, <3>3, <3>4, <3>5, <3>13, <3>14 DEF Fits
  <2>. QED BY <1>5, <1>11, <2>1, <2>2 DEF Grounds
<1>13. PICK c : c = Count(w, x) OBVIOUS
<1>14. PICK u : u = RemoveThing(w, p, x, c) OBVIOUS
<1>15. PICK t : t = AddThing(u, from, 0, x) OBVIOUS
<1>16. PICK a : a = RemovedNotice(t, p, x) OBVIOUS
<1>17. v = SwapBack(a, from, x)
  BY <1>2, <1>3, <1>4, <1>13, <1>14, <1>15, <1>16 DEF Exchanged
<1>18. Removed(w, u, x)
  <2>1. Stackable(w, x) => c = w.count[x] BY <1>13 DEF Count
  <2>. QED BY <1>1, <1>9, <1>14, <2>1, RemoveRemoved
<1>19. Orderly(u, {x}) /\ Typed(u) BY <1>1, <1>9, <1>18, RemovedOrderly DEF Orderly
<1>20. \A y \in Items \ {x} : u.parent[y] = w.parent[y]
  BY <1>1, <1>18 DEF Removed, Typed
<1>21. from \in Items => Root(u, from) = Root(w, from)
  <2>. SUFFICES ASSUME from \in Items PROVE Root(u, from) = Root(w, from) OBVIOUS
  <2>1. Ancestors(u, from) = Ancestors(w, from) BY <1>12, <1>20, OneParent
  <2>. QED BY <2>1, RootSame
<1>22. Fits(u, from, 0)
  <2>1. Emptier(w, u) /\ u.kind = w.kind BY <1>18 DEF Removed, Emptier
  <2>. QED BY <1>1, <1>12, <1>19, <1>21, <2>1, FitsKept
<1>23. Added(u, t, from, x) BY <1>15, <1>19, <1>22, AddAdded
<1>24. Orderly(t, {}) /\ Typed(t)
  <2>1. Count(u, x) >= 1
    <3>1. w.count[x] \in 1..MaxStack /\ u.count = w.count
      BY <1>1, <1>9, <1>18 DEF Orderly, Count, Removed
    <3>. QED BY <3>1 DEF Count
  <2>2. from \in Items => Root(u, from) # None
    BY <1>1, <1>2, <1>21, RootUp
  <2>. QED BY <1>5, <1>19, <1>23, <2>1, <2>2, AddedOrderly DEF Orderly
<1>25. Moved(w, t, x)
  <2>1. t.kind = w.kind /\ t.at = w.at /\ t.open = w.open BY <1>18, <1>23 DEF Removed, Added
  <2>2. \A y \in Items \ {x} : t.parent[y] = w.parent[y]
    <3>1. t.parent = [u.parent EXCEPT ![x] = from] BY <1>23 DEF Added
    <3>2. DOMAIN u.parent = Items BY <1>19 DEF Typed
    <3>. QED BY <1>20, <3>1, <3>2
  <2>3. Others(w, t, x, x) BY <2>1, <2>2 DEF Others
  <2>. QED BY <1>9, <2>3, OthersMoved
<1>26. Fine(a) /\ Alike(t, a)
  <2>1. InReach(a) BY <1>9, <1>16, <1>24, <1>25, NoticeReach
  <2>2. /\ Alike(t, a) /\ a.open \in [Players -> [Windows -> Items \cup {None}]]
    BY <1>16, <1>24, NoticeAlike
  <2>3. Orderly(a, {}) BY <1>24, <2>2, AlikeOrderly
  <2>. QED BY <2>1, <2>2, <2>3, OrderlyInPlace DEF Fine
<1>27. a.slot[p][d.idx] = None
  <2>1. a.slot = u.slot BY <1>11, <1>23, <1>26 DEF Alike, Added
  <2>2. u.slot[p][d.idx] = None BY <1>6, <1>8, <1>18 DEF Removed
  <2>. QED BY <2>1, <2>2
<1>28. Fine(v) /\ Shrunk(a, v)
  <2>1. CASE Has(a, from, x)
    <3>1. v = AddedNotice(a, from, x) BY <1>17, <2>1 DEF SwapBack
    <3>. QED BY <1>5, <1>26, <3>1, AddedNoticeFine
  <2>2. CASE ~Has(a, from, x)
    <3>1. v = a BY <1>17, <2>2 DEF SwapBack
    <3>. QED BY <1>26, <3>1 DEF Shrunk
  <2>. QED BY <2>1, <2>2
<1>. QED BY <1>3, <1>6, <1>8, <1>27, <1>28 DEF Shrunk

\* Game::internalMoveItem from a resolved destination on: exchange, then
\* transfer.
LEMMA MoveToFine ==
    ASSUME NEW w, Fine(w), NEW i \in Placed(w), NEW d, GoodDest(w, d), NEW n \in Nat \ {0},
           NEW v \in MoveTo(w, w.parent[i], d, i, n)
    PROVE  Fine(v)
<1>1. Orderly(w, {}) /\ Typed(w) /\ i \in Items /\ w.parent[i] # None
  BY OrderlyInPlace DEF Fine, InPlace, Placed
<1>2. PICK from : from = w.parent[i] OBVIOUS
<1>3. from \in Grounds \cup Items BY <1>1, <1>2 DEF Typed, Grounds
<1>4. PICK u \in IF i # d.item /\ Swaps(w, from, d, i, n)
                 THEN Scripted(Exchanged(w, from, d, i)) ELSE {w} :
         v \in IF /\ i # d.item /\ QueryAdd(u, d.cyl, d.idx, i, n, FALSE) = "yes"
                  /\ Has(u, from, i)
               THEN Transfer(u, from, [d EXCEPT !.item = IF Swaps(w, from, d, i, n)
                                                         THEN None ELSE d.item], i, n)
               ELSE {u}
  BY <1>2 DEF MoveTo, Swaps, Exchanged
<1>5. CASE i # d.item /\ Swaps(w, from, d, i, n)
  <2>1. PICK x : x = Exchanged(w, from, d, i) OBVIOUS
  <2>2. Fine(x) /\ d.cyl \in Players /\ (d.idx \in Slots => x.slot[d.cyl][d.idx] = None)
    BY <1>2, <1>5, <2>1, ExchangeLemma
  <2>3. Fine(u) /\ Shrunk(x, u) BY <1>4, <1>5, <2>1, <2>2, ScriptedFine
  <2>4. CASE QueryAdd(u, d.cyl, d.idx, i, n, FALSE) = "yes" /\ Has(u, from, i)
    <3>1. PICK e : e = [d EXCEPT !.item = None] OBVIOUS
    <3>2. v \in Transfer(u, from, e, i, n) BY <1>4, <1>5, <2>4, <3>1
    <3>3. e = Dest(d.cyl, d.idx, None) BY <3>1 DEF GoodDest, Dest
    <3>4. e.cyl = d.cyl /\ e.idx = d.idx /\ e.item = None BY <3>3 DEF Dest
    <3>5. GoodDest(u, e)
      BY <2>2, <2>3, <3>3, <3>4, ThingAssumption DEF GoodDest, Host, Grounds, Shrunk
    <3>6. i \in Placed(u) /\ u.parent[i] = from
      <4>1. Orderly(u, {}) BY <2>3, OrderlyInPlace DEF Fine
      <4>. QED BY <1>3, <2>4, <4>1, HasParent
    <3>7. i # e.item BY <1>1, <3>4, ThingAssumption
    <3>8. QueryAdd(u, e.cyl, e.idx, i, n, FALSE) = "yes" BY <2>4, <3>4
    <3>. QED BY <2>3, <3>2, <3>5, <3>6, <3>7, <3>8, TransferFine
  <2>5. CASE ~(QueryAdd(u, d.cyl, d.idx, i, n, FALSE) = "yes" /\ Has(u, from, i))
    BY <1>4, <2>3, <2>5
  <2>. QED BY <2>4, <2>5
<1>6. CASE ~(i # d.item /\ Swaps(w, from, d, i, n))
  <2>1. u = w BY <1>4, <1>6
  <2>2. CASE i # d.item /\ QueryAdd(w, d.cyl, d.idx, i, n, FALSE) = "yes"
    <3>1. ~Swaps(w, from, d, i, n) BY <2>2 DEF Swaps
    <3>2. [d EXCEPT !.item = d.item] = d BY DEF GoodDest, Dest
    <3>3. v \in {w} \cup Transfer(w, from, d, i, n) BY <1>4, <2>1, <3>1, <3>2
    <3>. QED BY <1>2, <2>2, <3>3, TransferFine
  <2>3. CASE ~(i # d.item /\ QueryAdd(w, d.cyl, d.idx, i, n, FALSE) = "yes")
    BY <1>4, <2>1, <2>3
  <2>. QED BY <2>2, <2>3
<1>. QED BY <1>5, <1>6

\* Game::internalMoveItem for every item that is somewhere and every cylinder.
LEMMA MoveItemFine ==
    ASSUME NEW w, Fine(w), NEW i \in Placed(w), NEW c, Host(w, c), NEW idx,
           c \in Items => idx \in Int, NEW n \in Nat \ {0},
           NEW v \in MoveItem(w, w.parent[i], c, idx, i, n)
    PROVE  Fine(v)
<1>1. PICK d : d = Resolve(w, c, idx, i) OBVIOUS
<1>2. GoodDest(w, d) BY <1>1, ResolveLemma, OrderlyInPlace DEF Fine
<1>3. v \in MoveTo(w, w.parent[i], d, i, n) BY <1>1 DEF MoveItem
<1>. QED BY <1>2, <1>3, MoveToFine

\* Only the object j, which was none, has come.
OneNew(w, t, j) ==
    /\ t.at = w.at /\ t.open = w.open
    /\ \A y \in Items \ {j} : t.parent[y] = w.parent[y] /\ t.kind[y] = w.kind[y]

\* An object that has come from nowhere is shown in no window.
LEMMA NewFine ==
    ASSUME NEW w, Fine(w), NEW j \in Free(w), NEW t, Orderly(t, {}), OneNew(w, t, j)
    PROVE  Fine(t)
<1>1. Orderly(w, {}) /\ InReach(w) /\ j \in Items /\ w.parent[j] = None
  BY OrderlyInPlace DEF Fine, Free, Placed
<1>2. w.open \in [Players -> [Windows -> Items \cup {None}]] BY <1>1 DEF Orderly, Typed
<1>3. ASSUME NEW p \in Players, NEW n \in Windows, t.open[p][n] # None
      PROVE  LET x == t.open[p][n]
             IN w.open[p][n] = x /\ Root(t, x) = Root(w, x)
                /\ (IsContainer(w, x) => IsContainer(t, x))
  <2>1. PICK x : x = t.open[p][n] OBVIOUS
  <2>2. x \in Items /\ Root(w, x) # None
    BY <1>1, <1>2, <1>3, <2>1, ReachLemma DEF MayWatch, IsContainer, OneNew
  <2>3. Root(w, j) = None BY <1>1, NowhereRoot
  <2>4. x # j /\ j \notin Ancestors(w, x) BY <2>2, <2>3, AboveRooted
  <2>5. Ancestors(t, x) = Ancestors(w, x) BY <2>4, OneParent DEF OneNew
  <2>6. Root(t, x) = Root(w, x) BY <2>5, RootSame
  <2>7. IsContainer(t, x) = IsContainer(w, x) BY <2>2, <2>4 DEF IsContainer, Capacity, OneNew
  <2>. QED BY <2>1, <2>6, <2>7 DEF OneNew
<1>4. InReach(t) BY <1>1, <1>2, <1>3, ReachSame DEF OneNew
<1>. QED BY <1>4, OrderlyInPlace DEF Fine

\* A tile takes the same whether limits are looked at or not.
LEMMA NoLimit ==
    ASSUME NEW u, NEW c \in Tiles, NEW idx, NEW j, NEW n, NEW nolimit
    PROVE  /\ QueryAdd(u, c, idx, j, n, nolimit) = QueryAdd(u, c, idx, j, n, FALSE)
           /\ QueryMaxCount(u, c, idx, j, n, nolimit) = QueryMaxCount(u, c, idx, j, n, FALSE)
<1>1. c \notin Players /\ c \notin Items BY ThingAssumption
<1>. QED BY <1>1 DEF QueryAdd, QueryMaxCount

\* Game::internalAddItem to a player or a tile, fully or in part, or not at
\* all.
LEMMA AddItemFine ==
    ASSUME NEW w, Fine(w), NEW c \in Grounds, NEW k \in Kinds, NEW n \in 1..MaxStack,
           NEW nolimit, nolimit => c \in Tiles, nolimit \in BOOLEAN
    PROVE  Fine(AddItem(w, c, Where, k, n, nolimit).world)
<1>1. Orderly(w, {}) /\ Typed(w) BY OrderlyInPlace DEF Fine, InPlace
<1>2. PICK j : j = Fresh(w) OBVIOUS
<1>3. PICK u : u = Create(w, j, k, n) OBVIOUS
<1>4. PICK d : d = QueryDestination(u, c, Where, j) OBVIOUS
<1>5. PICK r : r = AddTo(w, u, j, d, k, n, nolimit) OBVIOUS
<1>6. AddItem(w, c, Where, k, n, nolimit)
        = IF Free(w) = {} THEN [done |-> FALSE, world |-> w] ELSE r
  BY <1>2, <1>3, <1>4, <1>5 DEF AddItem
<1>7. CASE Free(w) = {} BY <1>6, <1>7
<1>8. CASE Free(w) # {}
  <2>1. j \in Free(w) BY <1>2, <1>8 DEF Fresh
  <2>2. n \in Int /\ n <= MaxStack /\ n \in Nat \ {0} BY KindAssumption
  <2>3. /\ Orderly(u, {})
        /\ u.count = [w.count EXCEPT ![j] = Max({1, n})] /\ Max({1, n}) \in 1..MaxStack
        /\ u.kind = [w.kind EXCEPT ![j] = k]
        /\ u.parent = w.parent /\ u.inside = w.inside /\ u.slot = w.slot
        /\ u.at = w.at /\ u.open = w.open /\ u.offer = w.offer
    <3>1. Created(w, u, j, k, n) BY <1>1, <1>3, <2>1, <2>2, CreateLemma
    <3>. QED BY <3>1 DEF Created
  <2>4. Typed(u) /\ j \in Items /\ j \in Free(u)
    BY <2>1, <2>3 DEF Orderly, Free, Placed
  <2>5. Count(u, j) = n /\ u.kind[j] = k
    <3>1. Max({1, n}) = n BY <2>2, MaxTwo
    <3>. QED BY <1>1, <2>3, <2>4, <3>1 DEF Typed, Count
  <2>6. c \notin Items BY ThingAssumption DEF Grounds
  <2>7. GoodDest(u, d) BY <1>4, <2>3, <2>6, DestLemma DEF Host
  <2>8. nolimit => d.cyl \in Tiles
    <3>. SUFFICES ASSUME c \in Tiles PROVE d.cyl \in Tiles OBVIOUS
    <3>1. c \notin Players BY ThingAssumption
    <3>2. d.cyl = c BY <1>4, <2>6, <3>1 DEF QueryDestination, Dest
    <3>. QED BY <3>2
  <2>9. /\ QueryAdd(u, d.cyl, d.idx, j, n, nolimit) = QueryAdd(u, d.cyl, d.idx, j, n, FALSE)
        /\ QueryMaxCount(u, d.cyl, d.idx, j, n, nolimit)
             = QueryMaxCount(u, d.cyl, d.idx, j, n, FALSE)
    <3>1. CASE nolimit BY <2>8, <3>1, NoLimit
    <3>2. CASE ~nolimit
      <4>1. nolimit = FALSE BY <3>2
      <4>. QED BY <4>1
    <3>. QED BY <3>1, <3>2
  <2>10. PICK merge : merge = Mergeable(u, d, j, n) OBVIOUS
  <2>11. PICK v : v = IF merge = 0 THEN u
                      ELSE UpdateThing(u, d.item, k, u.count[d.item] + merge)
    OBVIOUS
  <2>12. PICK t : t = AddThing(Create(v, j, k, n - merge), d.cyl, d.idx, j) OBVIOUS
  <2>13. PICK out : out = IF merge = n /\ Stackable(u, j) THEN v ELSE AddedNotice(t, d.cyl, j)
    OBVIOUS
  <2>14. PICK e : e = [out EXCEPT !.ledger[k] = @ + n] OBVIOUS
  <2>15. PICK most : MostAt(u, d, j, n, most) BY DEF MostAt
  <2>16. r = IF QueryAdd(u, d.cyl, d.idx, j, n, FALSE) = "yes" /\ most >= n
             THEN [done |-> TRUE, world |-> Swept(e)] ELSE [done |-> FALSE, world |-> w]
    BY <1>5, <2>5, <2>9, <2>10, <2>11, <2>12, <2>13, <2>14, <2>15 DEF AddTo, MostAt
  <2>17. CASE ~(QueryAdd(u, d.cyl, d.idx, j, n, FALSE) = "yes" /\ most >= n)
    <3>1. r = [done |-> FALSE, world |-> w] BY <2>16, <2>17
    <3>2. AddItem(w, c, Where, k, n, nolimit) = [done |-> FALSE, world |-> w]
      BY <1>6, <1>8, <3>1
    <3>. QED BY <3>2
  <2>18. CASE QueryAdd(u, d.cyl, d.idx, j, n, FALSE) = "yes" /\ most >= n
    <3>1. /\ most \in Nat
          /\ most > 0 /\ ~Stackable(u, j) => Fits(u, d.cyl, d.idx)
          /\ \A m \in 1..most : Stackable(u, j) /\ m > Mergeable(u, d, j, m)
                                => Fits(u, d.cyl, d.idx)
      BY <2>2, <2>3, <2>4, <2>7, <2>15, <2>18, RoomLemma
    <3>2. n \in 1..most BY <2>2, <2>18, <3>1
    <3>3. d.item # None => d.item \in Placed(u) BY <2>7 DEF GoodDest
    <3>4. /\ merge \in 0..n
          /\ merge # 0 => /\ d.item \in Placed(u) /\ Stackable(u, j)
                          /\ u.kind[d.item] = u.kind[j]
                          /\ u.count[d.item] + merge <= MaxStack
      <4>1. Orderly(u, {}) BY <2>3
      <4>. QED BY <2>2, <2>4, <2>10, <3>3, <4>1, MergeableLemma
    <3>5. Orderly(v, {}) /\ Same(u, v)
      <4>1. CASE merge = 0 BY <2>3, <2>11, <4>1 DEF Same
      <4>2. CASE merge # 0
        <5>1. PICK x : x = d.item OBVIOUS
        <5>2. x \in Placed(u) /\ u.count[x] + merge <= MaxStack /\ u.kind[x] = k
          BY <2>5, <3>4, <4>2, <5>1
        <5>3. v = UpdateThing(u, x, u.kind[x], u.count[x] + merge) BY <2>11, <4>2, <5>1, <5>2
        <5>4. merge \in Nat BY <3>4
        <5>. QED BY <2>3, <5>2, <5>3, <5>4, MergeLemma
      <4>. QED BY <4>1, <4>2
    <3>6. OneNew(w, v, j)
      <4>1. v.at = w.at /\ v.open = w.open /\ v.parent = w.parent BY <2>3, <3>5 DEF Same
      <4>2. \A y \in Items \ {j} : v.kind[y] = w.kind[y] BY <1>1, <2>3, <3>5 DEF Same, Typed
      <4>. QED BY <4>1, <4>2 DEF OneNew
    <3>7. Fine(out)
      <4>1. CASE merge = n /\ Stackable(u, j)
        <5>1. out = v BY <2>13, <4>1
        <5>. QED BY <2>1, <3>5, <3>6, <5>1, NewFine
      <4>2. CASE ~(merge = n /\ Stackable(u, j))
        <5>1. Fits(u, d.cyl, d.idx)
          <6>1. CASE Stackable(u, j)
            <7>1. n > merge BY <2>2, <3>4, <4>2, <6>1
            <7>. QED BY <2>10, <3>1, <3>2, <6>1, <7>1
          <6>2. CASE ~Stackable(u, j)
            <7>1. most > 0 BY <3>1, <3>2
            <7>. QED BY <3>1, <6>2, <7>1
          <6>. QED BY <6>1, <6>2
        <5>2. Fits(v, d.cyl, d.idx)
          <6>1. Typed(v) BY <3>5 DEF Orderly
          <6>2. Emptier(u, v)
            <7>1. \A s \in Items \cup Tiles : Len(u.inside[s]) \in Nat
              BY <2>4, LenProperties DEF Typed
            <7>. QED BY <3>5, <7>1 DEF Emptier, Same
          <6>3. Root(v, d.cyl) = Root(u, d.cyl) /\ v.kind = u.kind
            BY <3>5, AncestorsSame, RootSame DEF Same
          <6>. QED BY <2>4, <5>1, <6>1, <6>2, <6>3, FitsKept
        <5>3. PICK q \in Int : q = n - merge BY <2>2, <3>4
        <5>4. q <= MaxStack BY <2>2, <3>4, <5>3, KindAssumption
        <5>5. j \in Free(v) BY <2>4, <3>5 DEF Same, Free, Placed
        <5>6. PICK s, x : s = d.cyl /\ x = d.idx OBVIOUS
        <5>7. Fits(v, s, x) /\ t = AddThing(Create(v, j, k, q), s, x, j)
          BY <2>12, <5>2, <5>3, <5>6
        <5>8. PutIn(v, AddThing(Create(v, j, k, q), s, x, j), j, k, s)
          BY <3>5, <5>4, <5>5, <5>7, PutLemma
        <5>9. PutIn(v, t, j, k, s) BY <5>7, <5>8
        <5>10. OneNew(w, t, j)
          <6>1. t.at = w.at /\ t.open = w.open BY <3>6, <5>9 DEF PutIn, OneNew
          <6>2. Typed(v) BY <3>5 DEF Orderly
          <6>3. \A y \in Items \ {j} : t.parent[y] = v.parent[y] /\ t.kind[y] = v.kind[y]
            BY <5>9, <6>2 DEF PutIn, Typed
          <6>. QED BY <3>6, <6>1, <6>3 DEF OneNew
        <5>11. Fine(t) BY <2>1, <5>9, <5>10, NewFine DEF PutIn
        <5>12. out = AddedNotice(t, s, j) /\ s \in Grounds \cup Items
          BY <2>13, <4>2, <5>6, <5>9 DEF PutIn
        <5>. QED BY <5>11, <5>12, AddedNoticeFine
      <4>. QED BY <4>1, <4>2
    <3>8. Fine(e)
      <4>1. Alike(out, e) /\ e.open = out.open BY <2>14 DEF Alike
      <4>. QED BY <3>7, <4>1, AlikeFine
    <3>9. Fine(Swept(e)) BY <3>8, SweptFine
    <3>10. AddItem(w, c, Where, k, n, nolimit).world = Swept(e)
      BY <1>6, <1>8, <2>16, <2>18
    <3>. QED BY <3>9, <3>10
  <2>. QED BY <2>17, <2>18
<1>. QED BY <1>7, <1>8

\* Game::internalPlayerAddItem: to the player, and to the ground under him what
\* he does not take.
LEMMA PlayerAddItemFine ==
    ASSUME NEW w, Fine(w), NEW p \in Players, NEW k \in Kinds, NEW n \in 1..MaxStack
    PROVE  Fine(PlayerAddItem(w, p, k, n).world)
<1>1. p \in Grounds /\ w.at[p] \in Tiles /\ w.at[p] \in Grounds
  BY DEF Grounds, Fine, InPlace, Typed
<1>2. Fine(AddItem(w, p, Where, k, n, FALSE).world) BY <1>1, AddItemFine
<1>3. Fine(AddItem(w, w.at[p], Where, k, n, TRUE).world) BY <1>1, AddItemFine
<1>. QED BY <1>2, <1>3 DEF PlayerAddItem, OrFloor

-------------------------------------------------------------------------------
(* Transforming: Game::transformItem.                                        *)

\* In a sequence j takes the place of i.
LEMMA ExchangeInSeq ==
    ASSUME NEW S, NEW m \in Seq(S), IsInjective(m), NEW k \in DOMAIN m, NEW j \in S,
           j \notin Range(m)
    PROVE  /\ [m EXCEPT ![k] = j] \in Seq(S) /\ IsInjective([m EXCEPT ![k] = j])
           /\ Range([m EXCEPT ![k] = j]) = (Range(m) \ {m[k]}) \cup {j}
           /\ Len([m EXCEPT ![k] = j]) = Len(m)
<1>1. PICK e : e = [m EXCEPT ![k] = j] OBVIOUS
<1>2. e \in Seq(S) /\ Len(e) = Len(m) /\ DOMAIN e = DOMAIN m
  BY <1>1, ExceptSeq, LenProperties
<1>3. \A n \in DOMAIN m : e[n] = IF n = k THEN j ELSE m[n] BY <1>1
<1>4. \A n \in DOMAIN m : m[n] # j BY DEF Range
<1>5. \A a, b \in DOMAIN m : m[a] = m[b] => a = b BY DEF IsInjective
<1>6. IsInjective(e)
  <2>1. \A a, b \in DOMAIN m : e[a] = e[b] => a = b BY <1>3, <1>4, <1>5
  <2>. QED BY <1>2, <2>1 DEF IsInjective
<1>7. Range(e) = (Range(m) \ {m[k]}) \cup {j}
  <2>1. ASSUME NEW n \in DOMAIN m PROVE e[n] \in (Range(m) \ {m[k]}) \cup {j}
    <3>1. CASE n = k BY <1>3, <3>1
    <3>2. CASE n # k
      <4>1. m[n] # m[k] /\ m[n] \in Range(m) BY <1>5, <3>2 DEF Range
      <4>. QED BY <1>3, <3>2, <4>1
    <3>. QED BY <3>1, <3>2
  <2>2. j \in Range(e)
    <3>1. e[k] = j BY <1>3
    <3>. QED BY <1>2, <3>1 DEF Range
  <2>3. ASSUME NEW y \in Range(m) \ {m[k]} PROVE y \in Range(e)
    <3>1. PICK n \in DOMAIN m : m[n] = y BY DEF Range
    <3>2. n # k /\ e[n] = y BY <1>3, <3>1
    <3>. QED BY <1>2, <3>2 DEF Range
  <2>4. \A y \in Range(e) : \E n \in DOMAIN m : y = e[n] BY <1>2 DEF Range
  <2>. QED BY <2>1, <2>2, <2>3, <2>4
<1>. QED BY <1>1, <1>2, <1>6, <1>7

\* j takes the place of i, which held nothing.
LEMMA ReplaceLemma ==
    ASSUME NEW c, Orderly(c, {}), NEW i \in Placed(c), NEW j \in Free(c), Count(c, j) >= 1,
           ~IsContainer(c, i), NEW r, r = ReplaceThing(c, c.parent[i], i, j)
    PROVE  /\ Orderly(r, {}) /\ r.kind = c.kind /\ r.at = c.at /\ r.open = c.open
           /\ r.parent[i] = None
           /\ \A y \in Items \ {i, j} : r.parent[y] = c.parent[y]
<1>1. /\ Typed(c) /\ Held(c) /\ i \in Items /\ c.parent[i] # None
      /\ j \in Items /\ c.parent[j] = None /\ i # j
  BY DEF Orderly, Placed, Free
<1>2. PICK cyl : cyl = c.parent[i] OBVIOUS
<1>3. cyl \in Grounds \cup Items BY <1>1, <1>2 DEF Typed, Grounds
<1>4. PICK u : u = RemoveThing(c, cyl, i, Count(c, i)) OBVIOUS
<1>5. Removed(c, u, i) BY <1>2, <1>4, RemoveRemoved DEF Count
<1>6. Orderly(u, {i}) /\ Typed(u) BY <1>1, <1>5, RemovedOrderly DEF Orderly
<1>7. Orderly(u, {j})
  <2>1. Capacity(c, i) \in Nat BY <1>1, KindAssumption DEF Capacity, Typed
  <2>2. Capacity(u, i) = 0 BY <1>1, <1>5, <2>1 DEF Capacity, IsContainer, Removed
  <2>3. Orderly(u, {}) BY <1>6, <2>2, LooseEmpty
  <2>4. j \in Free(u) BY <1>1, <1>5 DEF Free, Placed, Removed, Typed
  <2>. QED BY <2>3, <2>4, Loosen
<1>8. \A y \in Items : u.parent[y] = IF y = i THEN None ELSE c.parent[y]
  BY <1>1, <1>5 DEF Removed, Typed
<1>9. /\ \A s \in Items \cup Tiles : j \notin Range(c.inside[s])
      /\ \A p \in Players, s \in Slots : c.slot[p][s] # j
  BY <1>1, ThingAssumption DEF Held
<1>10. Added(u, r, cyl, j)
  <2>1. PICK t : t = [c EXCEPT !.parent[j] = cyl, !.parent[i] = None] OBVIOUS
  <2>2. /\ DOMAIN t = DOMAIN c /\ t.kind = c.kind /\ t.count = c.count
        /\ t.at = c.at /\ t.offer = c.offer /\ t.open = c.open
        /\ t.slot = c.slot /\ t.inside = c.inside
        /\ t.parent = [[c.parent EXCEPT ![j] = cyl] EXCEPT ![i] = None]
    BY <1>1, <2>1 DEF Typed
  <2>3. t.parent = [u.parent EXCEPT ![j] = cyl]
    <3>1. u.parent = [c.parent EXCEPT ![i] = None] BY <1>5 DEF Removed
    <3>. QED BY <1>1, <2>2, <3>1 DEF Typed
  <2>4. /\ DOMAIN u = DOMAIN c /\ u.kind = c.kind /\ u.count = c.count
        /\ u.at = c.at /\ u.offer = c.offer /\ u.open = c.open
    BY <1>5 DEF Removed
  <2>5. CASE cyl \in Players
    <3>1. PICK s : s = SlotOf(c, cyl, i) OBVIOUS
    <3>2. s \in Slots /\ c.slot[cyl][s] = i BY <1>2, <2>5, <3>1, IndexLemma
    <3>3. r = [t EXCEPT !.slot[cyl][s] = j] BY <1>2, <2>1, <2>5, <3>1 DEF ReplaceThing
    <3>4. /\ DOMAIN r = DOMAIN t /\ r.kind = t.kind /\ r.count = t.count
          /\ r.at = t.at /\ r.offer = t.offer /\ r.open = t.open
          /\ r.parent = t.parent /\ r.inside = t.inside
          /\ r.slot = [t.slot EXCEPT ![cyl][s] = j]
      BY <1>1, <2>2, <3>3 DEF Typed
    <3>5. r.slot \in [Players -> [Slots -> Items \cup {None}]]
      <4>1. c.slot \in [Players -> [Slots -> Items \cup {None}]] BY <1>1 DEF Typed
      <4>2. r.slot = [c.slot EXCEPT ![cyl][s] = j] BY <2>2, <3>4
      <4>. QED BY <1>1, <2>5, <3>2, <4>1, <4>2
    <3>6. u.slot[cyl][s] = None BY <1>5, <2>5, <3>2 DEF Removed
    <3>7. r.slot = [u.slot EXCEPT ![cyl][s] = j]
      <4>1. \A p \in Players, o \in Slots :
               r.slot[p][o] = [u.slot EXCEPT ![cyl][s] = j][p][o]
        <5>1. \A p \in Players, o \in Slots :
                 u.slot[p][o] = IF c.slot[p][o] = i THEN None ELSE c.slot[p][o]
          BY <1>5 DEF Removed
        <5>2. \A p \in Players, o \in Slots :
                 c.slot[p][o] = i => p = cyl /\ o = s
          BY <1>1, <1>2, <3>2, ThingAssumption DEF Held
        <5>3. c.slot \in [Players -> [Slots -> Items \cup {None}]]
              /\ u.slot \in [Players -> [Slots -> Items \cup {None}]]
          BY <1>1, <1>6 DEF Typed
        <5>4. \A p \in Players, o \in Slots :
                 r.slot[p][o] = IF p = cyl /\ o = s THEN j ELSE c.slot[p][o]
          BY <2>2, <3>4, <5>3
        <5>5. \A p \in Players, o \in Slots :
                 [u.slot EXCEPT ![cyl][s] = j][p][o]
                   = IF p = cyl /\ o = s THEN j ELSE u.slot[p][o]
          BY <5>3
        <5>. QED BY <5>1, <5>2, <5>4, <5>5
      <4>2. [u.slot EXCEPT ![cyl][s] = j] \in [Players -> [Slots -> Items \cup {None}]]
        BY <1>1, <1>6 DEF Typed
      <4>3. PICK f : f = [u.slot EXCEPT ![cyl][s] = j] OBVIOUS
      <4>4. \A p \in Players : r.slot[p] = f[p]
        <5>. SUFFICES ASSUME NEW p \in Players PROVE r.slot[p] = f[p] OBVIOUS
        <5>1. \A o \in Slots : r.slot[p][o] = f[p][o] BY <4>1, <4>3
        <5>2. r.slot[p] \in [Slots -> Items \cup {None}] /\ f[p] \in [Slots -> Items \cup {None}]
          BY <3>5, <4>2, <4>3
        <5>. QED BY <5>1, <5>2
      <4>. QED BY <3>5, <4>2, <4>3, <4>4
    <3>8. \A q \in Items \cup Tiles :
             /\ c.inside[q] \in Seq(Items) /\ IsInjective(c.inside[q])
             /\ q \in Items => Len(c.inside[q]) <= Capacity(c, q)
             /\ Range(u.inside[q]) = Range(c.inside[q]) /\ q # cyl
      <4>1. \A q \in Items \cup Tiles : q # cyl BY <2>5, ThingAssumption
      <4>2. \A q \in Items \cup Tiles : i \notin Range(c.inside[q])
        BY <1>1, <1>2, <4>1 DEF Held
      <4>3. \A q \in Items \cup Tiles : Range(u.inside[q]) = Range(c.inside[q]) \ {i}
        BY <1>5 DEF Removed
      <4>4. \A q \in Items \cup Tiles : c.inside[q] \in Seq(Items) BY <1>1 DEF Typed
      <4>5. \A q \in Items \cup Tiles :
               /\ IsInjective(c.inside[q])
               /\ q \in Items => Len(c.inside[q]) <= Capacity(c, q)
        BY <1>1 DEF Held
      <4>. QED BY <4>1, <4>2, <4>3, <4>4, <4>5
    <3>9. r.inside = c.inside BY <2>2, <3>4
    <3>10. c.inside \in [Items \cup Tiles -> Seq(Items)] BY <1>1 DEF Typed
    <3>11. /\ DOMAIN r = DOMAIN u /\ r.kind = u.kind /\ r.count = u.count
           /\ r.at = u.at /\ r.offer = u.offer /\ r.open = u.open
           /\ r.parent = [u.parent EXCEPT ![j] = cyl]
      BY <2>2, <2>3, <2>4, <3>4
    <3>12. \A q \in Items \cup Tiles :
             /\ Range(r.inside[q]) = Range(u.inside[q]) \cup (IF q = cyl THEN {j} ELSE {})
             /\ IsInjective(r.inside[q])
             /\ q \in Items => Len(r.inside[q]) <= Capacity(u, q)
      BY <2>4, <3>8, <3>9 DEF Capacity
    <3>. QED BY <2>5, <3>2, <3>5, <3>6, <3>7, <3>9, <3>10, <3>11, <3>12 DEF Added
  <2>6. CASE cyl \notin Players
    <3>1. cyl \in Items \cup Tiles BY <1>3, <2>6 DEF Grounds
    <3>2. PICK k : k = Index(c, cyl, i) OBVIOUS
    <3>3. PICK m : m = c.inside[cyl] OBVIOUS
    <3>4. m \in Seq(Items) /\ IsInjective(m) /\ k \in DOMAIN m /\ m[k] = i
      BY <1>1, <1>2, <2>6, <3>1, <3>2, <3>3, IndexLemma DEF Typed, Held
    <3>5. PICK e : e = [m EXCEPT ![k] = j] OBVIOUS
    <3>6. /\ e \in Seq(Items) /\ IsInjective(e) /\ Len(e) = Len(m)
          /\ Range(e) = (Range(m) \ {i}) \cup {j}
      BY <1>1, <1>9, <3>1, <3>3, <3>4, <3>5, ExchangeInSeq
    <3>7. PICK v : v = [t EXCEPT !.inside[cyl][k] = j] OBVIOUS
    <3>8. /\ DOMAIN v = DOMAIN t /\ v.kind = t.kind /\ v.count = t.count
          /\ v.at = t.at /\ v.offer = t.offer /\ v.open = t.open
          /\ v.parent = t.parent /\ v.slot = t.slot
          /\ v.inside = [c.inside EXCEPT ![cyl] = e]
      <4>1. v.inside = [t.inside EXCEPT ![cyl] = [t.inside[cyl] EXCEPT ![k] = j]]
        BY <1>1, <2>2, <3>7 DEF Typed
      <4>2. v.inside = [c.inside EXCEPT ![cyl] = e] BY <2>2, <3>3, <3>5, <4>1
      <4>. QED BY <1>1, <2>2, <3>7, <4>2 DEF Typed
    <3>9. /\ Alike(v, r) /\ r.open = v.open
      <4>1. r \in {v, Bump(v, cyl, Weight(c, j) - Weight(c, i))}
        BY <1>2, <2>1, <2>6, <3>2, <3>7 DEF ReplaceThing
      <4>2. Alike(v, v) BY DEF Alike
      <4>. QED BY <4>1, <4>2, BumpAlike
    <3>10. /\ DOMAIN r = DOMAIN t /\ r.kind = t.kind /\ r.count = t.count
           /\ r.at = t.at /\ r.offer = t.offer /\ r.open = t.open
           /\ r.parent = t.parent /\ r.slot = t.slot
           /\ r.inside = [c.inside EXCEPT ![cyl] = e]
      BY <3>8, <3>9 DEF Alike
    <3>11. r.inside \in [Items \cup Tiles -> Seq(Items)] BY <1>1, <3>1, <3>6, <3>10 DEF Typed
    <3>12. ASSUME NEW q \in Items \cup Tiles
           PROVE  /\ Range(r.inside[q])
                       = Range(u.inside[q]) \cup (IF q = cyl THEN {j} ELSE {})
                  /\ IsInjective(r.inside[q])
                  /\ q \in Items => Len(r.inside[q]) <= Capacity(u, q)
      <4>1. Capacity(u, q) = Capacity(c, q) BY <2>4 DEF Capacity
      <4>2. Range(u.inside[q]) = Range(c.inside[q]) \ {i} BY <1>5 DEF Removed
      <4>3. CASE q = cyl
        <5>1. r.inside[q] = e BY <1>1, <3>10, <4>3 DEF Typed
        <5>2. q \in Items => Len(m) <= Capacity(c, q) BY <1>1, <3>3, <4>3 DEF Held
        <5>. QED BY <3>3, <3>6, <4>1, <4>2, <4>3, <5>1, <5>2
      <4>4. CASE q # cyl
        <5>1. r.inside[q] = c.inside[q] BY <1>1, <3>10, <4>4 DEF Typed
        <5>2. i \notin Range(c.inside[q]) BY <1>1, <1>2, <4>4 DEF Held
        <5>3. IsInjective(c.inside[q]) /\ (q \in Items => Len(c.inside[q]) <= Capacity(c, q))
          BY <1>1 DEF Held
        <5>. QED BY <4>1, <4>2, <4>4, <5>1, <5>2, <5>3
      <4>. QED BY <4>3, <4>4
    <3>13. r.slot = u.slot /\ r.slot \in [Players -> [Slots -> Items \cup {None}]]
      <4>1. \A p \in Players, s \in Slots : c.slot[p][s] # i
        BY <1>1, <1>2, <2>6, ThingAssumption DEF Held
      <4>2. /\ c.slot \in [Players -> [Slots -> Items \cup {None}]]
            /\ u.slot \in [Players -> [Slots -> Items \cup {None}]]
        BY <1>1, <1>6 DEF Typed
      <4>3. \A p \in Players, s \in Slots : u.slot[p][s] = c.slot[p][s]
        BY <1>5, <4>1 DEF Removed
      <4>. QED BY <2>2, <3>10, <4>2, <4>3
    <3>. QED BY <2>2, <2>3, <2>4, <2>6, <3>10, <3>11, <3>12, <3>13 DEF Added
  <2>. QED BY <2>5, <2>6
<1>11. Orderly(r, {})
  <2>1. Count(u, j) >= 1 BY <1>5 DEF Count, Removed
  <2>2. ASSUME cyl \in Items PROVE Root(u, cyl) # None
    <3>1. Root(c, i) # None /\ Root(c, cyl) = Root(c, i)
      BY <1>1, <1>2, OrderlyInPlace, RootUp DEF InPlace
    <3>2. i # cyl /\ i \notin Ancestors(c, cyl)
      <4>1. Root(c, i) \in Grounds /\ Root(c, i) \in {i} \cup Ancestors(c, i)
        BY <3>1, RootType
      <4>2. i \notin Ancestors(c, i) BY <4>1, RootLemma
      <4>. QED BY <1>1, <1>2, <4>2, AncestorsUnfold
    <3>3. \A y \in Items \ {i} : u.parent[y] = c.parent[y] BY <1>8
    <3>4. Ancestors(u, cyl) = Ancestors(c, cyl) BY <3>2, <3>3, OneParent
    <3>. QED BY <3>1, <3>4, RootSame
  <2>. QED BY <1>3, <1>7, <1>10, <2>1, <2>2, AddedOrderly
<1>12. /\ r.kind = c.kind /\ r.at = c.at /\ r.open = c.open
  BY <1>5, <1>10 DEF Removed, Added
<1>13. \A y \in Items \ {j} : r.parent[y] = u.parent[y]
  <2>1. r.parent = [u.parent EXCEPT ![j] = cyl] BY <1>10 DEF Added
  <2>2. DOMAIN u.parent = Items BY <1>6 DEF Typed
  <2>. QED BY <2>1, <2>2
<1>. QED BY <1>1, <1>8, <1>11, <1>12, <1>13

\* An object that holds nothing and is nowhere is destroyed.
LEMMA BlankOne ==
    ASSUME NEW w, Fine(w), NEW i \in Free(w)
    PROVE  Fine(Blank(w, {i}))
<1>0. PICK v : v = Blank(w, {i}) OBVIOUS
<1>1. Orderly(w, {}) /\ InReach(w) /\ i \in Items /\ w.parent[i] = None
  BY OrderlyInPlace DEF Fine, Free, Placed
<1>2. Apart(w, {i}) BY <1>1, FreeEmpty DEF Apart
<1>3. Orderly(v, {} \ {i}) /\ Blanked(w, v, {i}) BY <1>0, <1>1, <1>2, BlankLemma
<1>4. Orderly(v, {})
  <2>1. {} \ {i} = {} OBVIOUS
  <2>. QED BY <1>3, <2>1
<1>5. /\ v.at = w.at /\ v.open = w.open /\ \A x \in Items \ {i} : v.kind[x] = w.kind[x]
      /\ \A x : x # i => Ancestors(v, x) = Ancestors(w, x)
  BY <1>3 DEF Blanked
<1>6. w.open \in [Players -> [Windows -> Items \cup {None}]] BY <1>1 DEF Orderly, Typed
<1>7. ASSUME NEW p \in Players, NEW n \in Windows, v.open[p][n] # None
      PROVE  LET x == v.open[p][n]
             IN w.open[p][n] = x /\ Root(v, x) = Root(w, x)
                /\ (IsContainer(w, x) => IsContainer(v, x))
  <2>1. PICK x : x = v.open[p][n] OBVIOUS
  <2>2. x \in Items /\ Root(w, x) # None
    BY <1>1, <1>5, <1>6, <1>7, <2>1, ReachLemma DEF MayWatch, IsContainer
  <2>3. x # i BY <1>1, <2>2, NowhereRoot
  <2>4. Root(v, x) = Root(w, x) BY <1>5, <2>3, RootSame
  <2>5. IsContainer(v, x) = IsContainer(w, x) BY <1>5, <2>2, <2>3 DEF IsContainer, Capacity
  <2>. QED BY <1>5, <2>1, <2>4, <2>5
<1>8. InReach(v)
  <2>1. v.open \in [Players -> [Windows -> Items \cup {None}]] BY <1>5, <1>6
  <2>. QED BY <1>1, <1>5, <1>6, <1>7, <2>1, ReachSame
<1>. QED BY <1>0, <1>4, <1>8, OrderlyInPlace DEF Fine

\* Game::transformItem, through each of its branches: the item goes, changes
\* its kind or its count, or another one takes its place.
LEMMA TransformItemFine ==
    ASSUME NEW w, Fine(w), Free(w) # {}, NEW i \in Placed(w), ~IsContainer(w, i),
           NEW k \in Kinds, Attr[k].capacity = 0, NEW n \in {-1, 0, 1},
           n = 0 /\ Attr[k].stackable => Stackable(w, i),
           NEW v, v = TransformItem(w, i, k, n)
    PROVE  Fine(v)
<1>1. /\ Orderly(w, {}) /\ InReach(w) /\ Typed(w) /\ i \in Items /\ w.parent[i] # None
      /\ w.count[i] \in 1..MaxStack
  BY OrderlyInPlace DEF Fine, InPlace, Placed, Orderly, Count
<1>2. PICK cyl : cyl = w.parent[i] OBVIOUS
<1>3. PICK kin : kin = (Attr[k].class = Attr[w.kind[i]].class) OBVIOUS
<1>4. PICK size : size = IF n = -1 \/ ~Attr[k].stackable THEN w.count[i] ELSE n OBVIOUS
<1>5. CASE k = w.kind[i] /\ (n = -1 \/ (n = w.count[i] /\ n # 0))
  <2>1. v = w BY <1>5 DEF TransformItem
  <2>. QED BY <2>1
<1>6. CASE ~(k = w.kind[i] /\ (n = -1 \/ (n = w.count[i] /\ n # 0)))
  <2>1. CASE kin /\ n = 0 /\ Stackable(w, i)
    <3>1. v = RemoveItem(w, i, w.count[i]) BY <1>3, <1>6, <2>1 DEF TransformItem
    <3>2. w.count[i] \in Nat BY <1>1
    <3>. QED BY <1>1, <3>1, <3>2, RemoveItemFine
  <2>2. CASE kin /\ ~(n = 0 /\ Stackable(w, i))
    <3>1. PICK u : u = UpdateThing(w, i, k, size) OBVIOUS
    <3>2. PICK a : a = Weigh(u, cyl) OBVIOUS
    <3>3. Alike(a, v) /\ v.open = a.open
      <4>1. v = [a EXCEPT !.ledger = [x \in Kinds |->
                   @[x] - (IF x = w.kind[i] THEN Count(w, i) ELSE 0)
                        + (IF x = k THEN Count(u, i) ELSE 0)]]
        BY <1>2, <1>3, <1>4, <1>6, <2>2, <3>1, <3>2 DEF TransformItem
      <4>. QED BY <4>1 DEF Alike
    <3>4. size \in 0..MaxStack /\ size >= 1
      <4>1. CASE n = -1 \/ ~Attr[k].stackable
        <5>1. size = w.count[i] BY <1>4, <4>1
        <5>. QED BY <1>1, <5>1, KindAssumption
      <4>2. CASE ~(n = -1 \/ ~Attr[k].stackable)
        <5>1. size = n BY <1>4, <4>2
        <5>2. n = 1 BY <2>2, <4>2
        <5>. QED BY <5>1, <5>2, KindAssumption
      <4>. QED BY <4>1, <4>2
    <3>5. Recast(w, u, i, k, size) BY <3>1, UpdateRecast
    <3>6. Attr[k].capacity = Capacity(w, i)
      <4>1. Capacity(w, i) \in Nat BY <1>1, KindAssumption DEF Capacity, Typed
      <4>. QED BY <1>1, <4>1 DEF IsContainer
    <3>7. Orderly(u, {}) BY <1>1, <3>4, <3>5, <3>6, RecastOrderly
    <3>8. /\ u.at = w.at /\ u.open = w.open
          /\ \A x : Root(u, x) = Root(w, x) /\ (IsContainer(w, x) => IsContainer(u, x))
      <4>1. u.at = w.at /\ u.open = w.open /\ u.parent = w.parent BY <3>5 DEF Recast
      <4>2. \A x : Root(u, x) = Root(w, x) BY <4>1, AncestorsSame, RootSame
      <4>3. \A x \in Items \ {i} : u.kind[x] = w.kind[x] BY <1>1, <3>5 DEF Recast, Typed
      <4>4. \A x : IsContainer(w, x) => IsContainer(u, x)
        BY <4>3 DEF IsContainer, Capacity
      <4>. QED BY <4>1, <4>2, <4>4
    <3>9. InReach(u)
      <4>1. w.open \in [Players -> [Windows -> Items \cup {None}]] BY <1>1 DEF Typed
      <4>. QED BY <1>1, <3>8, <4>1, ReachSame
    <3>10. Fine(u) BY <3>7, <3>9, OrderlyInPlace DEF Fine
    <3>11. Fine(a) BY <3>2, <3>10, WeighAlike, AlikeFine
    <3>. QED BY <3>3, <3>11, AlikeFine
  <2>3. CASE ~kin
    <3>1. PICK j : j = Fresh(w) OBVIOUS
    <3>2. PICK c : c = Create(w, j, k, n) OBVIOUS
    <3>3. PICK r : r = ReplaceThing(c, cyl, i, j) OBVIOUS
    <3>4. PICK a : a = Weigh(r, cyl) OBVIOUS
    <3>5. PICK b : b = RemovedNotice(a, cyl, i) OBVIOUS
    <3>6. PICK e : e = [b EXCEPT !.ledger = [x \in Kinds |->
                   @[x] - (IF x = w.kind[i] THEN Count(w, i) ELSE 0)
                        + (IF x = k THEN Count(a, j) ELSE 0)]]
      OBVIOUS
    <3>7. v = Blank(e, {i})
      BY <1>2, <1>3, <1>6, <2>3, <3>1, <3>2, <3>3, <3>4, <3>5, <3>6 DEF TransformItem
    <3>8. j \in Free(w) /\ j \in Items /\ j # i
      BY <3>1, <1>1 DEF Fresh, Free, Placed
    <3>9. n \in Int /\ n <= MaxStack BY KindAssumption
    <3>10. /\ Orderly(c, {})
           /\ c.count = [w.count EXCEPT ![j] = Max({1, n})] /\ Max({1, n}) \in 1..MaxStack
           /\ c.kind = [w.kind EXCEPT ![j] = k]
           /\ c.parent = w.parent /\ c.inside = w.inside /\ c.slot = w.slot
           /\ c.at = w.at /\ c.open = w.open /\ c.offer = w.offer
      <4>1. Created(w, c, j, k, n) BY <1>1, <3>2, <3>8, <3>9, CreateLemma
      <4>. QED BY <4>1 DEF Created
    <3>11. \A y \in Items \ {j} : c.kind[y] = w.kind[y] BY <1>1, <3>10 DEF Typed
    <3>12. /\ Orderly(r, {}) /\ r.kind = c.kind /\ r.at = c.at /\ r.open = c.open
           /\ r.parent[i] = None
           /\ \A y \in Items \ {i, j} : r.parent[y] = c.parent[y]
      <4>1. Orderly(c, {}) BY <3>10
      <4>2. i \in Placed(c) /\ cyl = c.parent[i] BY <1>1, <1>2, <3>10 DEF Placed
      <4>3. j \in Free(c) BY <3>8, <3>10 DEF Free, Placed
      <4>4. Count(c, j) >= 1
        <5>1. DOMAIN w.count = Items BY <1>1 DEF Typed
        <5>2. c.count[j] = Max({1, n}) BY <3>8, <3>10, <5>1
        <5>3. Max({1, n}) >= 1 BY <3>10
        <5>. QED BY <5>2, <5>3 DEF Count
      <4>5. ~IsContainer(c, i) BY <1>1, <3>8, <3>11 DEF IsContainer, Capacity
      <4>. QED BY <3>3, <4>1, <4>2, <4>3, <4>4, <4>5, ReplaceLemma
    <3>13. Alike(r, a) /\ a.open = r.open BY <3>4, WeighAlike
    <3>14. Orderly(a, {}) /\ Typed(a)
      <4>1. r.open \in [Players -> [Windows -> Items \cup {None}]]
        BY <3>12 DEF Orderly, Typed
      <4>2. Orderly(a, {}) BY <3>12, <3>13, <4>1, AlikeOrderly
      <4>. QED BY <4>2 DEF Orderly
    <3>15. Others(w, a, i, j)
      <4>1. a.at = w.at /\ a.open = w.open BY <3>10, <3>12, <3>13 DEF Alike
      <4>2. \A x \in Items : x \in Placed(w) => a.kind[x] = w.kind[x]
        BY <3>8, <3>11, <3>12, <3>13 DEF Alike, Free
      <4>3. \A x \in Items \ {i, j} : a.parent[x] = w.parent[x]
        BY <3>10, <3>12, <3>13 DEF Alike
      <4>. QED BY <4>1, <4>2, <4>3 DEF Others
    <3>16. Fine(b) /\ Alike(a, b)
      <4>1. Moved(w, a, i) BY <3>8, <3>15, OthersMoved
      <4>2. InReach(b) BY <1>2, <3>5, <3>14, <4>1, NoticeReach
      <4>3. Alike(a, b) /\ b.open \in [Players -> [Windows -> Items \cup {None}]]
        BY <3>5, <3>14, NoticeAlike
      <4>4. Orderly(b, {}) BY <3>14, <4>3, AlikeOrderly
      <4>. QED BY <4>2, <4>3, <4>4, OrderlyInPlace DEF Fine
    <3>17. Alike(b, e) /\ e.open = b.open BY <3>6 DEF Alike
    <3>18. Fine(e) BY <3>16, <3>17, AlikeFine
    <3>19. i \in Free(e)
      <4>1. e.parent[i] = None BY <3>12, <3>13, <3>16, <3>17 DEF Alike
      <4>. QED BY <1>1, <4>1 DEF Free, Placed
    <3>. QED BY <3>7, <3>18, <3>19, BlankOne
  <2>. QED BY <2>1, <2>2, <2>3
<1>. QED BY <1>5, <1>6

\* Division with the rest thrown away.
LEMMA DivLemma ==
    ASSUME NEW a \in Nat, NEW b \in Nat \ {0}
    PROVE  a \div b \in Nat /\ (a \div b) * b <= a
OBVIOUS

\* More times the same is more.
LEMMA TimesLemma ==
    ASSUME NEW x \in Nat, NEW y \in Nat, x <= y, NEW b \in Nat PROVE x * b <= y * b
<1>1. y * b = x * b + (y - x) * b OBVIOUS
<1>2. (y - x) * b \in Nat OBVIOUS
<1>3. x * b \in Nat OBVIOUS
<1>. QED BY <1>1, <1>2, <1>3

-------------------------------------------------------------------------------
(* Money: Game::addMoney and Game::removeMoney.                              *)

\* The piles of n coins, and the coins of a pile.
Piles(n) == (n + MaxStack - 1) \div MaxStack
Pile(n, x) == Min({MaxStack, n - (x - 1) * MaxStack})

\* Every pile of coins holds one coin at least and a stack at most.
LEMMA PileLemma ==
    ASSUME NEW n \in Nat
    PROVE  Piles(n) \in Nat /\ \A x \in 1..Piles(n) : Pile(n, x) \in 1..MaxStack
<1>. DEFINE M == MaxStack
            N == Piles(n)
<1>1. M \in Nat \ {0} BY KindAssumption
<1>. HIDE DEF M
<1>2. N = (n + M - 1) \div M BY DEF M, Piles
<1>3. n + M - 1 \in Nat BY <1>1
<1>4. N \in Nat /\ N * M <= n + M - 1 BY <1>1, <1>2, <1>3, DivLemma
<1>. HIDE DEF N
<1>5. ASSUME NEW x \in 1..N PROVE Pile(n, x) \in 1..M
  <2>1. x \in Nat /\ x <= N /\ x >= 1 BY <1>4
  <2>2. x * M <= N * M BY <1>1, <1>4, <2>1, TimesLemma
  <2>3. x * M \in Nat /\ N * M \in Nat BY <1>1, <1>4, <2>1
  <2>4. (x - 1) * M = x * M - M BY <1>1, <2>1
  <2>5. PICK q \in Int : q = n - (x - 1) * M BY <1>1, <2>3, <2>4
  <2>6. q >= 1 BY <1>1, <1>4, <2>2, <2>3, <2>4, <2>5
  <2>7. Pile(n, x) = Min({M, q}) BY <2>5 DEF Pile, M
  <2>8. Min({M, q}) = IF M <= q THEN M ELSE q BY <1>1, MinTwo
  <2>. QED BY <1>1, <2>6, <2>7, <2>8
<1>. QED BY <1>4, <1>5 DEF M, N

\* n coins of kind k are given, pile by pile.
AfterBody(w, p, k, n, g, x) ==
    IF x = 0 THEN w ELSE PlayerAddItem(g[x - 1], p, k, Pile(n, x)).world
AfterRuns(w, p, k, n, N, g) == g = [x \in 0..N |-> AfterBody(w, p, k, n, g, x)]
After(w, p, k, n) == (CHOOSE g : AfterRuns(w, p, k, n, Piles(n), g))[Piles(n)]

\* After any number of piles the things are in order.
LEMMA AfterFine ==
    ASSUME NEW w, Fine(w), NEW p \in Players, NEW k \in Kinds, NEW n \in Nat
    PROVE  Fine(After(w, p, k, n))
<1>. DEFINE N == Piles(n)
            f == CHOOSE g : AfterRuns(w, p, k, n, N, g)
<1>1. N \in Nat /\ \A x \in 1..N : Pile(n, x) \in 1..MaxStack BY PileLemma
<1>. HIDE DEF N
<1>2. \E g : AfterRuns(w, p, k, n, N, g)
  <2>. DEFINE H == {m \in Nat : \E g : AfterRuns(w, p, k, n, m, g)}
  <2>1. 0 \in H
    <3>. DEFINE g == [x \in 0..0 |-> w]
    <3>1. g = [x \in 0..0 |-> AfterBody(w, p, k, n, g, x)] BY DEF AfterBody
    <3>. QED BY <3>1 DEF AfterRuns
  <2>2. ASSUME NEW m \in Nat, m \in H PROVE m + 1 \in H
    <3>1. PICK g : AfterRuns(w, p, k, n, m, g) BY <2>2
    <3>. DEFINE h == [x \in 0..(m + 1) |-> IF x = m + 1 THEN AfterBody(w, p, k, n, g, x)
                                           ELSE g[x]]
    <3>2. ASSUME NEW x \in 0..(m + 1) PROVE h[x] = AfterBody(w, p, k, n, h, x)
      <4>1. x # 0 => x - 1 \in 0..m /\ h[x - 1] = g[x - 1] OBVIOUS
      <4>2. AfterBody(w, p, k, n, h, x) = AfterBody(w, p, k, n, g, x)
        <5>. HIDE DEF h
        <5>. QED BY <4>1 DEF AfterBody
      <4>3. x # m + 1 => x \in 0..m /\ g[x] = AfterBody(w, p, k, n, g, x)
        BY <3>1 DEF AfterRuns
      <4>4. h[x] = AfterBody(w, p, k, n, g, x) BY <4>3
      <4>. QED BY <4>2, <4>4
    <3>3. h = [x \in 0..(m + 1) |-> h[x]] OBVIOUS
    <3>. HIDE DEF h
    <3>4. AfterRuns(w, p, k, n, m + 1, h) BY <3>2, <3>3 DEF AfterRuns
    <3>. QED BY <3>4
  <2>. HIDE DEF H
  <2>3. Nat \subseteq H BY <2>1, <2>2, NatSetInduction
  <2>. QED BY <1>1, <2>3 DEF H
<1>3. AfterRuns(w, p, k, n, N, f) BY <1>2
<1>4. After(w, p, k, n) = f[N] BY DEF After, N
<1>. HIDE DEF f
<1>5. \A x \in 0..N : f[x] = AfterBody(w, p, k, n, f, x) BY <1>3 DEF AfterRuns
<1>. DEFINE H == {x \in Nat : x \in 0..N => Fine(f[x])}
<1>6. 0 \in H BY <1>5 DEF AfterBody
<1>7. ASSUME NEW x \in Nat, x \in H PROVE x + 1 \in H
  <2>. SUFFICES ASSUME x + 1 \in 0..N PROVE Fine(f[x + 1]) OBVIOUS
  <2>1. x \in 0..N /\ x + 1 \in 1..N /\ x + 1 # 0 /\ (x + 1) - 1 = x BY <1>1
  <2>2. Fine(f[x]) BY <1>7, <2>1
  <2>3. f[x + 1] = PlayerAddItem(f[x], p, k, Pile(n, x + 1)).world
    BY <1>5, <2>1 DEF AfterBody
  <2>. QED BY <1>1, <2>1, <2>2, <2>3, PlayerAddItemFine
<1>. HIDE DEF H
<1>8. Nat \subseteq H BY <1>6, <1>7, NatSetInduction
<1>. QED BY <1>1, <1>4, <1>8 DEF H

\* Money is given, one kind of coin after the other.
Give(r, p, k) ==
    [left |-> r.left - (r.left \div Attr[k].worth) * Attr[k].worth,
     world |-> After(r.world, p, k, r.left \div Attr[k].worth)]
GivenBody(w, p, m, g, n) ==
    IF n = 0 THEN [left |-> m, world |-> w] ELSE Give(g[n - 1], p, Coins[n])
GivenRuns(w, p, m, N, g) == g = [n \in 0..N |-> GivenBody(w, p, m, g, n)]

\* Game::addMoney is the last of the worlds it runs through.
LEMMA AddMoneyLemma ==
    ASSUME NEW w, NEW p, NEW m
    PROVE  AddMoney(w, p, m)
             = (CHOOSE g : GivenRuns(w, p, m, Len(Coins), g))[Len(Coins)].world
BY DEF AddMoney, GivenRuns, GivenBody, Give, After, AfterRuns, AfterBody, Pile, Piles

\* One kind of coin is given, as many as the sum allows.
LEMMA GiveFine ==
    ASSUME NEW r, r.left \in Nat, Fine(r.world), NEW p \in Players, NEW k \in Kinds,
           Attr[k].worth > 0
    PROVE  Give(r, p, k).left \in Nat /\ Fine(Give(r, p, k).world)
<1>1. PICK a \in Nat : a = r.left OBVIOUS
<1>2. PICK b : b = Attr[k].worth OBVIOUS
<1>3. b \in Nat \ {0} BY <1>2, KindAssumption
<1>4. a \div b \in Nat /\ (a \div b) * b <= a BY <1>3, DivLemma
<1>5. PICK c \in Nat : c = a \div b BY <1>4
<1>6. Give(r, p, k) = [left |-> a - c * b, world |-> After(r.world, p, k, c)]
  BY <1>1, <1>2, <1>5 DEF Give
<1>7. a - c * b \in Nat
  <2>1. c * b \in Nat BY <1>3
  <2>. QED BY <1>4, <1>5, <2>1
<1>8. Fine(After(r.world, p, k, c)) BY AfterFine
<1>. QED BY <1>6, <1>7, <1>8

\* Game::addMoney leaves the things in order, for any sum and any coins.
LEMMA AddMoneyFine ==
    ASSUME NEW w, Fine(w), NEW p \in Players, NEW m \in Nat
    PROVE  Fine(AddMoney(w, p, m))
<1>. DEFINE N == Len(Coins)
            f == CHOOSE g : GivenRuns(w, p, m, N, g)
<1>1. N \in Nat /\ DOMAIN Coins = 1..N BY KindAssumption, LenProperties
<1>. HIDE DEF N
<1>2. \E g : GivenRuns(w, p, m, N, g)
  <2>. DEFINE H == {n \in Nat : \E g : GivenRuns(w, p, m, n, g)}
  <2>1. 0 \in H
    <3>. DEFINE g == [n \in 0..0 |-> [left |-> m, world |-> w]]
    <3>1. g = [n \in 0..0 |-> GivenBody(w, p, m, g, n)] BY DEF GivenBody
    <3>. QED BY <3>1 DEF GivenRuns
  <2>2. ASSUME NEW n \in Nat, n \in H PROVE n + 1 \in H
    <3>1. PICK g : GivenRuns(w, p, m, n, g) BY <2>2
    <3>. DEFINE h == [x \in 0..(n + 1) |-> IF x = n + 1 THEN GivenBody(w, p, m, g, x)
                                           ELSE g[x]]
    <3>2. ASSUME NEW x \in 0..(n + 1) PROVE h[x] = GivenBody(w, p, m, h, x)
      <4>1. x # 0 => x - 1 \in 0..n /\ h[x - 1] = g[x - 1] OBVIOUS
      <4>2. GivenBody(w, p, m, h, x) = GivenBody(w, p, m, g, x)
        <5>. HIDE DEF h
        <5>. QED BY <4>1 DEF GivenBody
      <4>3. x # n + 1 => x \in 0..n /\ g[x] = GivenBody(w, p, m, g, x)
        BY <3>1 DEF GivenRuns
      <4>4. h[x] = GivenBody(w, p, m, g, x) BY <4>3
      <4>. QED BY <4>2, <4>4
    <3>3. h = [x \in 0..(n + 1) |-> h[x]] OBVIOUS
    <3>. HIDE DEF h
    <3>4. GivenRuns(w, p, m, n + 1, h) BY <3>2, <3>3 DEF GivenRuns
    <3>. QED BY <3>4
  <2>. HIDE DEF H
  <2>3. Nat \subseteq H BY <2>1, <2>2, NatSetInduction
  <2>. QED BY <1>1, <2>3 DEF H
<1>3. GivenRuns(w, p, m, N, f) BY <1>2
<1>4. AddMoney(w, p, m) = f[N].world BY AddMoneyLemma DEF N
<1>. HIDE DEF f
<1>5. \A n \in 0..N : f[n] = GivenBody(w, p, m, f, n) BY <1>3 DEF GivenRuns
<1>. DEFINE H == {n \in Nat : n \in 0..N => f[n].left \in Nat /\ Fine(f[n].world)}
<1>6. 0 \in H
  <2>1. 0 \in 0..N => f[0] = [left |-> m, world |-> w] BY <1>5 DEF GivenBody
  <2>. QED BY <2>1
<1>7. ASSUME NEW n \in Nat, n \in H PROVE n + 1 \in H
  <2>. SUFFICES ASSUME n + 1 \in 0..N
                PROVE  f[n + 1].left \in Nat /\ Fine(f[n + 1].world)
    OBVIOUS
  <2>1. n \in 0..N /\ n + 1 \in 1..N /\ n + 1 # 0 /\ (n + 1) - 1 = n BY <1>1
  <2>2. f[n].left \in Nat /\ Fine(f[n].world) BY <1>7, <2>1
  <2>3. f[n + 1] = Give(f[n], p, Coins[n + 1]) BY <1>5, <2>1 DEF GivenBody
  <2>4. Coins[n + 1] \in Kinds /\ Attr[Coins[n + 1]].worth > 0
    <3>1. n + 1 \in DOMAIN Coins BY <1>1, <2>1
    <3>2. Coins[n + 1] \in Range(Coins) BY <3>1 DEF Range
    <3>3. Coins[n + 1] \in Kinds BY <1>1, <3>1, KindAssumption
    <3>. QED BY <3>2, <3>3, KindAssumption
  <2>. QED BY <2>2, <2>3, <2>4, GiveFine
<1>. HIDE DEF H
<1>8. Nat \subseteq H BY <1>6, <1>7, NatSetInduction
<1>. QED BY <1>1, <1>4, <1>8 DEF H

\* Money is taken, the smallest stacks first.
Least(w, S) == CHOOSE i \in S : \A x \in S : Worth(w, i) <= Worth(w, x)
Take(w, r, i) == [rest |-> r.rest \ {i}, left |-> r.left - Worth(w, i),
                  world |-> RemoveItem(r.world, i, Count(r.world, i))]
PaidBody(w, p, m, g, n) ==
    IF n = 0 THEN [rest |-> Money(w, p), left |-> m, world |-> w]
    ELSE IF g[n - 1].left <= 0 \/ g[n - 1].rest = {} THEN g[n - 1]
         ELSE Take(w, g[n - 1], Least(w, g[n - 1].rest))
PaidRuns(w, p, m, N, g) == g = [n \in 0..N |-> PaidBody(w, p, m, g, n)]
Paid(w, p, m) == (CHOOSE g : PaidRuns(w, p, m, Cardinality(Money(w, p)), g))
                     [Cardinality(Money(w, p))]

\* Game::removeMoney takes stacks, and gives the change when it took too much.
LEMMA RemoveMoneyLemma ==
    ASSUME NEW w, NEW p, NEW m
    PROVE  RemoveMoney(w, p, m) = IF Paid(w, p, m).left < 0
                                  THEN AddMoney(Paid(w, p, m).world, p, - Paid(w, p, m).left)
                                  ELSE Paid(w, p, m).world
BY DEF RemoveMoney, Paid, PaidRuns, PaidBody, Take, Least

\* Some stack is worth least.
LEMMA LeastLemma ==
    ASSUME NEW w, NEW S, S # {}, \A i \in S : Worth(w, i) \in Nat
    PROVE  Least(w, S) \in S
<1>. DEFINE T == {Worth(w, i) : i \in S}
<1>1. T \subseteq Nat /\ T # {} OBVIOUS
<1>2. PICK x \in T : \A y \in T : <<y, x>> \notin OpToRel(<, Nat)
  BY <1>1, NatLessThanWellFounded, WFMin
<1>3. \A y \in T : x <= y
  <2>. SUFFICES ASSUME NEW y \in T, y < x PROVE FALSE BY <1>1
  <2>1. x \in Nat /\ y \in Nat BY <1>1
  <2>2. <<y, x>> \in OpToRel(<, Nat)
    <3>1. <<y, x>> \in Nat \X Nat /\ <<y, x>>[1] = y /\ <<y, x>>[2] = x BY <2>1
    <3>. QED BY <3>1 DEF OpToRel
  <2>. QED BY <1>2, <2>2
<1>4. PICK d \in S : x = Worth(w, d) OBVIOUS
<1>5. \A e \in S : Worth(w, d) <= Worth(w, e) BY <1>3, <1>4
<1>. QED BY <1>5 DEF Least

PaidOK(r) == r.rest \subseteq Items /\ r.left \in Int /\ Fine(r.world)

\* One more stack is taken.
LEMMA TakeFine ==
    ASSUME NEW w, NEW r, PaidOK(r), NEW i \in r.rest, Worth(w, i) \in Nat
    PROVE  PaidOK(Take(w, r, i))
<1>1. i \in Items BY DEF PaidOK
<1>2. Count(r.world, i) \in Nat BY <1>1 DEF PaidOK, Fine, InPlace, Typed, Count
<1>3. PICK v : v = RemoveItem(r.world, i, Count(r.world, i)) OBVIOUS
<1>4. Fine(v) BY <1>1, <1>2, <1>3, RemoveItemFine DEF PaidOK
<1>5. Take(w, r, i) = [rest |-> r.rest \ {i}, left |-> r.left - Worth(w, i), world |-> v]
  BY <1>3 DEF Take
<1>. QED BY <1>4, <1>5 DEF PaidOK

\* After any number of stacks the things are in order.
LEMMA PaidFine ==
    ASSUME NEW w, Fine(w), NEW p \in Players, NEW m \in Nat
    PROVE  PaidOK(Paid(w, p, m))
<1>. DEFINE N == Cardinality(Money(w, p))
            f == CHOOSE g : PaidRuns(w, p, m, N, g)
<1>1. N \in Nat /\ Money(w, p) \subseteq Items
  <2>1. Money(w, p) \subseteq Items BY DEF Money, Holds
  <2>. QED BY <2>1, ThingAssumption, FS_Subset, FS_CardinalityType
<1>. HIDE DEF N
<1>2. \E g : PaidRuns(w, p, m, N, g)
  <2>. DEFINE H == {n \in Nat : \E g : PaidRuns(w, p, m, n, g)}
  <2>1. 0 \in H
    <3>. DEFINE g == [n \in 0..0 |-> [rest |-> Money(w, p), left |-> m, world |-> w]]
    <3>1. g = [n \in 0..0 |-> PaidBody(w, p, m, g, n)] BY DEF PaidBody
    <3>. QED BY <3>1 DEF PaidRuns
  <2>2. ASSUME NEW n \in Nat, n \in H PROVE n + 1 \in H
    <3>1. PICK g : PaidRuns(w, p, m, n, g) BY <2>2
    <3>. DEFINE h == [x \in 0..(n + 1) |-> IF x = n + 1 THEN PaidBody(w, p, m, g, x)
                                           ELSE g[x]]
    <3>2. ASSUME NEW x \in 0..(n + 1) PROVE h[x] = PaidBody(w, p, m, h, x)
      <4>1. x # 0 => x - 1 \in 0..n /\ h[x - 1] = g[x - 1] OBVIOUS
      <4>2. PaidBody(w, p, m, h, x) = PaidBody(w, p, m, g, x)
        <5>. HIDE DEF h
        <5>. QED BY <4>1 DEF PaidBody
      <4>3. x # n + 1 => x \in 0..n /\ g[x] = PaidBody(w, p, m, g, x)
        BY <3>1 DEF PaidRuns
      <4>4. h[x] = PaidBody(w, p, m, g, x) BY <4>3
      <4>. QED BY <4>2, <4>4
    <3>3. h = [x \in 0..(n + 1) |-> h[x]] OBVIOUS
    <3>. HIDE DEF h
    <3>4. PaidRuns(w, p, m, n + 1, h) BY <3>2, <3>3 DEF PaidRuns
    <3>. QED BY <3>4
  <2>. HIDE DEF H
  <2>3. Nat \subseteq H BY <2>1, <2>2, NatSetInduction
  <2>. QED BY <1>1, <2>3 DEF H
<1>3. PaidRuns(w, p, m, N, f) BY <1>2
<1>4. Paid(w, p, m) = f[N] BY DEF Paid, N
<1>. HIDE DEF f
<1>5. \A n \in 0..N : f[n] = PaidBody(w, p, m, f, n) BY <1>3 DEF PaidRuns
<1>6. \A i \in Items : Worth(w, i) \in Nat
  <2>. SUFFICES ASSUME NEW i \in Items PROVE Worth(w, i) \in Nat OBVIOUS
  <2>1. Attr[w.kind[i]].worth \in Nat BY KindAssumption DEF Fine, InPlace, Typed
  <2>2. Count(w, i) \in Nat BY DEF Fine, InPlace, Typed, Count
  <2>. QED BY <2>1, <2>2 DEF Worth
<1>. DEFINE H == {n \in Nat : n \in 0..N => PaidOK(f[n])}
<1>7. 0 \in H
  <2>1. 0 \in 0..N => f[0] = [rest |-> Money(w, p), left |-> m, world |-> w]
    BY <1>5 DEF PaidBody
  <2>. QED BY <1>1, <2>1 DEF PaidOK
<1>8. ASSUME NEW n \in Nat, n \in H PROVE n + 1 \in H
  <2>. SUFFICES ASSUME n + 1 \in 0..N PROVE PaidOK(f[n + 1]) OBVIOUS
  <2>1. n \in 0..N /\ n + 1 # 0 /\ (n + 1) - 1 = n BY <1>1
  <2>2. PaidOK(f[n]) BY <1>8, <2>1
  <2>3. CASE f[n].left <= 0 \/ f[n].rest = {}
    <3>1. f[n + 1] = f[n] BY <1>5, <2>1, <2>3 DEF PaidBody
    <3>. QED BY <2>2, <3>1
  <2>4. CASE ~(f[n].left <= 0 \/ f[n].rest = {})
    <3>1. PICK i : i = Least(w, f[n].rest) OBVIOUS
    <3>2. f[n + 1] = Take(w, f[n], i) BY <1>5, <2>1, <2>4, <3>1 DEF PaidBody
    <3>3. f[n].rest \subseteq Items BY <2>2 DEF PaidOK
    <3>4. i \in f[n].rest BY <1>6, <2>4, <3>1, <3>3, LeastLemma
    <3>. QED BY <1>6, <2>2, <3>2, <3>3, <3>4, TakeFine
  <2>. QED BY <2>3, <2>4
<1>. HIDE DEF H
<1>9. Nat \subseteq H BY <1>7, <1>8, NatSetInduction
<1>. QED BY <1>1, <1>4, <1>9 DEF H

\* Game::removeMoney leaves the things in order, for any sum.
LEMMA RemoveMoneyFine ==
    ASSUME NEW w, Fine(w), NEW p \in Players, NEW m \in Nat
    PROVE  Fine(RemoveMoney(w, p, m))
<1>1. PICK r : r = Paid(w, p, m) OBVIOUS
<1>2. PaidOK(r) BY <1>1, PaidFine
<1>3. RemoveMoney(w, p, m) = IF r.left < 0 THEN AddMoney(r.world, p, - r.left) ELSE r.world
  BY <1>1, RemoveMoneyLemma
<1>4. CASE r.left < 0
  <2>1. - r.left \in Nat BY <1>2, <1>4 DEF PaidOK
  <2>. QED BY <1>2, <1>3, <1>4, <2>1, AddMoneyFine DEF PaidOK
<1>5. CASE ~(r.left < 0) BY <1>2, <1>3, <1>5 DEF PaidOK
<1>. QED BY <1>4, <1>5

-------------------------------------------------------------------------------
(* The steps of the cylinders.                                               *)

\* What a player sees he may also look into.
LEMMA OpenedWatched ==
    ASSUME NEW w, Fine(w), NEW p \in Players, NEW c \in Opened(w, p)
    PROVE  MayWatch(w, p, c)
BY DEF Fine, InReach, MayWatch

\* What a player may use is on him or on a tile, next to where he stands.
LEMMA ReachedAt ==
    ASSUME NEW w, Fine(w), NEW p \in Players, NEW i \in Placed(w), Reaches(w, p, i)
    PROVE  Root(w, i) \in Tiles \cup {p} /\ Spot(w, i) = w.at[p]
<1>1. Typed(w) /\ i \in Items BY DEF Fine, InPlace, Placed
<1>2. Root(w, i) = Root(w, w.parent[i]) BY <1>1, RootUp
<1>3. w.at[p] \in Tiles /\ w.at[p] \notin Players BY <1>1, ThingAssumption DEF Typed
<1>4. CASE w.parent[i] = p
  <2>1. Root(w, p) = p BY DEF Root
  <2>. QED BY <1>2, <1>4, <2>1 DEF Spot
<1>5. CASE w.parent[i] \in Opened(w, p)
  <2>1. MayWatch(w, p, w.parent[i]) BY <1>5, OpenedWatched
  <2>2. Root(w, i) \in Grounds BY <1>2, <2>1, RootType DEF MayWatch
  <2>. QED BY <1>2, <2>1, <2>2 DEF MayWatch, Spot, Grounds
<1>6. CASE w.parent[i] = w.at[p]
  <2>1. Root(w, w.at[p]) = w.at[p] BY <1>3 DEF Root
  <2>. QED BY <1>2, <1>3, <1>6, <2>1 DEF Spot
<1>. QED BY <1>4, <1>5, <1>6 DEF Reaches

\* A container he may use is one he may look into.
LEMMA ReachedWatched ==
    ASSUME NEW w, Fine(w), NEW p \in Players, NEW i \in Placed(w), Reaches(w, p, i),
           IsContainer(w, i)
    PROVE  MayWatch(w, p, i)
BY ReachedAt, ThingAssumption DEF MayWatch

\* A window of p shows what it showed, nothing, or what he may look into.
LEMMA OpenFine ==
    ASSUME NEW w, Fine(w), NEW p \in Players, NEW o \in [Windows -> Items \cup {None}],
           \A n \in Windows : \/ o[n] = None \/ o[n] = w.open[p][n]
                              \/ MayWatch(w, p, o[n])
    PROVE  Fine([w EXCEPT !.open[p] = o])
<1>1. PICK v : v = [w EXCEPT !.open[p] = o] OBVIOUS
<1>2. Orderly(w, {}) /\ InReach(w) BY OrderlyInPlace DEF Fine
<1>3. Typed(w) BY <1>2 DEF Orderly
<1>4. Alike(w, v) BY <1>1 DEF Alike
<1>5. v.open = [w.open EXCEPT ![p] = o] BY <1>1, <1>3 DEF Typed
<1>6. v.open \in [Players -> [Windows -> Items \cup {None}]] BY <1>3, <1>5 DEF Typed
<1>7. ASSUME NEW q \in Players, NEW n \in Windows, v.open[q][n] # None
      PROVE  MayWatch(v, q, v.open[q][n])
  <2>1. w.open \in [Players -> [Windows -> Items \cup {None}]] BY <1>3 DEF Typed
  <2>2. CASE q = p /\ v.open[q][n] # w.open[q][n]
    <3>1. v.open[q][n] = o[n] BY <1>5, <2>1, <2>2
    <3>. QED BY <1>4, <1>7, <2>2, <3>1, AlikeViews DEF MayWatch, Alike
  <2>3. CASE v.open[q][n] = w.open[q][n]
    <3>1. MayWatch(w, q, w.open[q][n]) BY <1>2, <1>7, <2>1, <2>3, ReachLemma
    <3>. QED BY <1>4, <2>3, <3>1, AlikeViews DEF MayWatch, Alike
  <2>4. q # p => v.open[q][n] = w.open[q][n] BY <1>5, <2>1
  <2>. QED BY <2>2, <2>3, <2>4
<1>8. InReach(v) BY <1>6, <1>7, ReachIfWatched
<1>9. Orderly(v, {}) BY <1>2, <1>4, <1>6, AlikeOrderly
<1>. QED BY <1>1, <1>8, <1>9, OrderlyInPlace DEF Fine

\* What a player may name as the place for a thing can take it.
LEMMA TargetLemma ==
    ASSUME NEW w, Fine(w), NEW p \in Players, NEW target \in Targets(w, p)
    PROVE  \E c, idx : target = <<c, idx>> /\ Host(w, c) /\ (c \in Items => idx \in Int)
<1>1. CASE target \in {<<p, s>> : s \in Slots \cup {Where}}
  BY <1>1, ThingAssumption DEF Host, Grounds
<1>2. CASE target \in {<<t, Where>> : t \in Tiles}
  BY <1>2, ThingAssumption DEF Host, Grounds
<1>3. ASSUME NEW c \in Opened(w, p),
             target \in {<<c, n>> : n \in {Up, Where} \cup 0..(Capacity(w, c) - 1)}
      PROVE  \E idx : target = <<c, idx>> /\ Host(w, c) /\ idx \in Int
  <2>1. Host(w, c) BY OpenedWatched DEF MayWatch, Host
  <2>2. PICK idx \in {Up, Where} \cup 0..(Capacity(w, c) - 1) : target = <<c, idx>>
    BY <1>3
  <2>3. idx \in Int BY DEF Up, Where
  <2>. QED BY <2>1, <2>2, <2>3
<1>. QED BY <1>1, <1>2, <1>3 DEF Targets

\* Game::playerMoveItem: whatever the packet names.
LEMMA MoveStep ==
    ASSUME Fine(world), NEW p \in Players, PlayerMoveItem(p)
    PROVE  Fine(world')
<1>1. PICK i \in Placed(world), target \in Targets(world, p), n \in 1..MaxStack :
         world' \in MoveItem(world, world.parent[i], target[1], target[2], i, n)
  BY DEF PlayerMoveItem
<1>2. n \in Nat \ {0} BY KindAssumption
<1>3. PICK c, idx : target = <<c, idx>> /\ Host(world, c) /\ (c \in Items => idx \in Int)
  BY TargetLemma
<1>4. world' \in MoveItem(world, world.parent[i], c, idx, i, n) BY <1>1, <1>3
<1>. QED BY <1>2, <1>3, <1>4, MoveItemFine

\* Game::playerUseItem on a container opens it in one of his windows.
LEMMA UseStep ==
    ASSUME Fine(world), NEW p \in Players, PlayerUseContainer(p)
    PROVE  Fine(world')
<1>1. PICK c \in Placed(world), n \in Windows :
         /\ IsContainer(world, c) /\ Reaches(world, p, c)
         /\ world' = [world EXCEPT !.open[p] =
              IF c \in Opened(world, p)
              THEN [@ EXCEPT ![CHOOSE m \in Windows : @[m] = c] = None]
              ELSE [@ EXCEPT ![n] = c]]
  BY DEF PlayerUseContainer
<1>2. MayWatch(world, p, c) BY <1>1, ReachedWatched
<1>3. PICK m : m = CHOOSE x \in Windows : world.open[p][x] = c OBVIOUS
<1>4. PICK o : o = IF c \in Opened(world, p) THEN [world.open[p] EXCEPT ![m] = None]
                   ELSE [world.open[p] EXCEPT ![n] = c]
  OBVIOUS
<1>5. world.open[p] \in [Windows -> Items \cup {None}] /\ c \in Items
  BY DEF Fine, InPlace, Typed, Placed
<1>6. world' = [world EXCEPT !.open[p] = o] BY <1>1, <1>3, <1>4
<1>7. o \in [Windows -> Items \cup {None}] BY <1>4, <1>5
<1>8. \A x \in Windows : o[x] = None \/ o[x] = world.open[p][x] \/ o[x] = c
  BY <1>4, <1>5
<1>. QED BY <1>2, <1>6, <1>7, <1>8, OpenFine

\* Game::playerCloseContainer.
LEMMA CloseStep ==
    ASSUME Fine(world), NEW p \in Players, PlayerCloseContainer(p)
    PROVE  Fine(world')
<1>1. PICK n \in Windows : world' = [world EXCEPT !.open[p][n] = None]
  BY DEF PlayerCloseContainer
<1>2. PICK o : o = [world.open[p] EXCEPT ![n] = None] OBVIOUS
<1>3. world.open[p] \in [Windows -> Items \cup {None}] BY DEF Fine, InPlace, Typed
<1>4. world' = [world EXCEPT !.open[p] = o] BY <1>1, <1>2
<1>5. o \in [Windows -> Items \cup {None}] BY <1>2, <1>3
<1>6. \A x \in Windows : o[x] = None \/ o[x] = world.open[p][x] BY <1>2, <1>3
<1>. QED BY <1>4, <1>5, <1>6, OpenFine

\* Game::playerMoveUpContainer shows what is around the container, which is
\* where the container is.
LEMMA UpStep ==
    ASSUME Fine(world), NEW p \in Players, PlayerMoveUpContainer(p)
    PROVE  Fine(world')
<1>1. PICK n \in Windows :
         \E x : /\ x = world.open[p][n] /\ x # None /\ world.parent[x] \in Items
               /\ world' = [world EXCEPT !.open[p][n] = world.parent[x]]
  BY DEF PlayerMoveUpContainer
<1>2. PICK c : /\ c = world.open[p][n] /\ c # None /\ world.parent[c] \in Items
               /\ world' = [world EXCEPT !.open[p][n] = world.parent[c]]
  BY <1>1
<1>3. PICK up : up = world.parent[c] OBVIOUS
<1>4. PICK o : o = [world.open[p] EXCEPT ![n] = up] OBVIOUS
<1>5. world.open[p] \in [Windows -> Items \cup {None}] BY DEF Fine, InPlace, Typed
<1>6. world' = [world EXCEPT !.open[p] = o] BY <1>2, <1>3, <1>4
<1>7. o \in [Windows -> Items \cup {None}] BY <1>2, <1>3, <1>4, <1>5
<1>8. MayWatch(world, p, c)
  <2>1. c \in Opened(world, p) BY <1>2, <1>5 DEF Opened, Range
  <2>. QED BY <2>1, OpenedWatched
<1>9. MayWatch(world, p, up)
  <2>1. c \in Items BY <1>8 DEF MayWatch, IsContainer
  <2>2. Root(world, c) = Root(world, up) BY <1>3, <2>1, RootUp
  <2>3. IsContainer(world, up)
    <3>1. Orderly(world, {}) BY OrderlyInPlace DEF Fine
    <3>. QED BY <1>2, <1>3, <2>1, <3>1, NoContainer
  <2>. QED BY <1>8, <2>2, <2>3 DEF MayWatch, Spot
<1>10. \A x \in Windows : o[x] = world.open[p][x] \/ o[x] = up BY <1>4, <1>5
<1>. QED BY <1>6, <1>7, <1>9, <1>10, OpenFine

\* Who walks takes his things with him and leaves the others where they are.
Strode(w, v, p, t) ==
    /\ Orderly(v, {}) /\ v.at = [w.at EXCEPT ![p] = t] /\ v.open = w.open
    /\ v.kind = w.kind /\ v.parent = w.parent
    /\ \A x : Root(v, x) = Root(w, x) /\ IsContainer(v, x) = IsContainer(w, x)
\* A step moves all that is on the player, and nothing else.
LEMMA StrideLemma ==
    ASSUME NEW w, Orderly(w, {}), NEW p \in Players, NEW t \in Tiles
    PROVE  Strode(w, [w EXCEPT !.at[p] = t], p, t)
<1>. PICK v : v = [w EXCEPT !.at[p] = t] OBVIOUS
<1>1. Typed(w) /\ Held(w) BY DEF Orderly
<1>2. v.at = [w.at EXCEPT ![p] = t] BY <1>1 DEF Typed
<1>3. /\ DOMAIN v = DOMAIN w /\ v.kind = w.kind /\ v.count = w.count
      /\ v.parent = w.parent /\ v.inside = w.inside /\ v.slot = w.slot
      /\ v.open = w.open /\ v.offer = w.offer
  OBVIOUS
<1>4. Typed(v)
  <2>1. v.at \in [Players -> Tiles] BY <1>1, <1>2 DEF Typed
  <2>. QED BY <1>1, <1>3, <2>1 DEF Typed
<1>5. Held(v)
  <2>1. \A c : Capacity(v, c) = Capacity(w, c) BY <1>3 DEF Capacity
  <2>. QED BY <1>1, <1>3, <2>1 DEF Held
<1>6. \A x : Ancestors(v, x) = Ancestors(w, x) BY <1>3, AncestorsSame
<1>7. \A c, x : Has(v, c, x) = Has(w, c, x) BY <1>3 DEF Has, SlotItems
<1>8. Placed(v) = Placed(w) /\ \A x : Count(v, x) = Count(w, x)
  BY <1>3 DEF Placed, Count
<1>9. Orderly(v, {}) BY <1>3, <1>4, <1>5, <1>6, <1>7, <1>8 DEF Orderly
<1>10. \A x : Root(v, x) = Root(w, x) BY <1>6, RootSame
<1>11. \A x : IsContainer(v, x) = IsContainer(w, x) BY <1>3 DEF IsContainer, Capacity
<1>. QED BY <1>2, <1>3, <1>9, <1>10, <1>11 DEF Strode

\* Player::onCreatureMove closes the windows on what is out of reach now
\* (autoCloseContainers), and no others have to be closed.
LEMMA WalkedFine ==
    ASSUME NEW w, Fine(w), NEW p \in Players, NEW t \in Tiles
    PROVE  Fine(Walked(w, p, t))
<1>1. PICK v : v = [w EXCEPT !.at[p] = t] OBVIOUS
<1>2. PICK far : far = {c \in Opened(w, p) : Spot(v, c) # t} OBVIOUS
<1>3. PICK o : o = [n \in Windows |->
          IF \E c \in far : AutoClose(v, p, c)[n] # v.open[p][n] THEN None
          ELSE v.open[p][n]]
  OBVIOUS
<1>4. PICK u : u = [v EXCEPT !.open[p] = o] OBVIOUS
<1>5. Walked(w, p, t) = u
  <2>1. Walked(w, p, t) = [v EXCEPT !.open[p] = [n \in Windows |->
            IF \E c \in far : AutoClose(v, p, c)[n] # @[n] THEN None ELSE @[n]]]
    BY <1>1, <1>2 DEF Walked
  <2>. QED BY <1>3, <1>4, <2>1
<1>6. Orderly(w, {}) /\ InReach(w) BY OrderlyInPlace DEF Fine
<1>7. /\ Orderly(v, {}) /\ v.at = [w.at EXCEPT ![p] = t] /\ v.open = w.open
      /\ v.kind = w.kind /\ v.parent = w.parent
      /\ \A x : Root(v, x) = Root(w, x) /\ IsContainer(v, x) = IsContainer(w, x)
  BY <1>1, <1>6, StrideLemma DEF Strode
<1>8. Alike(v, u) BY <1>4 DEF Alike
<1>9. /\ w.open \in [Players -> [Windows -> Items \cup {None}]]
      /\ w.at \in [Players -> Tiles]
  BY <1>6 DEF Orderly, Typed
<1>10. o \in [Windows -> Items \cup {None}] BY <1>3, <1>7, <1>9
<1>11. u.open = [w.open EXCEPT ![p] = o]
  <2>1. "open" \in DOMAIN v BY <1>7 DEF Orderly, Typed
  <2>. QED BY <1>4, <1>7, <2>1
<1>12. u.open \in [Players -> [Windows -> Items \cup {None}]] BY <1>9, <1>10, <1>11
<1>13. Orderly(u, {}) BY <1>7, <1>8, <1>12, AlikeOrderly
<1>14. ASSUME NEW q \in Players, NEW n \in Windows, u.open[q][n] # None
       PROVE  MayWatch(u, q, u.open[q][n])
  <2>1. PICK x : x = u.open[q][n] OBVIOUS
  <2>2. IF q = p THEN x = o[n] ELSE x = w.open[q][n] BY <1>9, <1>11, <2>1
  <2>3. x = w.open[q][n] BY <1>3, <1>7, <1>14, <2>1, <2>2
  <2>4. MayWatch(w, q, x) BY <1>6, <1>9, <1>14, <2>1, <2>3, ReachLemma
  <2>5. Root(u, x) = Root(w, x) /\ IsContainer(u, x) BY <1>7, <1>8, <2>4, AlikeViews DEF MayWatch
  <2>6. u.at = [w.at EXCEPT ![p] = t] BY <1>7, <1>8 DEF Alike
  <2>7. Spot(u, x) = u.at[q]
    <3>1. CASE q = p
      <4>1. x \in Opened(w, p)
        <5>1. w.open[p] \in [Windows -> Items \cup {None}] BY <1>9
        <5>2. x = w.open[p][n] /\ x # None BY <1>14, <2>1, <2>3, <3>1
        <5>. QED BY <5>1, <5>2 DEF Opened, Range
      <4>2. x \notin far
        <5>. SUFFICES ASSUME x \in far PROVE FALSE OBVIOUS
        <5>1. AutoClose(v, p, x)[n] = None BY <1>7, <2>3, <3>1 DEF AutoClose
        <5>2. v.open[p][n] = x BY <1>7, <2>3, <3>1
        <5>. QED BY <1>3, <1>14, <2>1, <2>2, <3>1, <5>1, <5>2
      <4>3. Spot(v, x) = t BY <1>2, <4>1, <4>2
      <4>4. Spot(u, x) = Spot(v, x) BY <1>8, AlikeViews
      <4>. QED BY <1>9, <2>6, <3>1, <4>3, <4>4
    <3>2. CASE q # p
      <4>1. u.at[q] = w.at[q] BY <1>9, <2>6, <3>2
      <4>2. Spot(w, x) = w.at[q] /\ (Root(w, x) \in Players => Root(w, x) = q)
        BY <2>4 DEF MayWatch
      <4>. QED BY <2>5, <4>1, <4>2 DEF Spot
    <3>. QED BY <3>1, <3>2
  <2>. QED BY <2>1, <2>4, <2>5, <2>7 DEF MayWatch
<1>15. InReach(u) BY <1>12, <1>14, ReachIfWatched
<1>. QED BY <1>5, <1>13, <1>15, OrderlyInPlace DEF Fine

\* The scripts' removals, transformations and additions.
LEMMA ScriptStep ==
    ASSUME Fine(world), ScriptRemove \/ ScriptTransform \/ \E p \in Players : ScriptAdd(p)
    PROVE  Fine(world')
<1>1. CASE ScriptRemove
  <2>1. PICK i \in Placed(world), n \in 1..MaxStack : world' = RemoveItem(world, i, n)
    BY <1>1 DEF ScriptRemove
  <2>2. i \in Items /\ n \in Nat BY KindAssumption DEF Placed
  <2>. QED BY <2>1, <2>2, RemoveItemFine
<1>2. CASE ScriptTransform
  <2>1. PICK i \in Placed(world), k \in Kinds, n \in {-1, 0, 1} :
           /\ Spare /\ ~IsContainer(world, i) /\ Attr[k].capacity = 0
           /\ n = 0 /\ Attr[k].stackable => Stackable(world, i)
           /\ world' = TransformItem(world, i, k, n)
    BY <1>2 DEF ScriptTransform
  <2>. QED BY <2>1, TransformItemFine DEF Spare
<1>3. ASSUME NEW p \in Players, ScriptAdd(p) PROVE Fine(world')
  <2>1. PICK k \in Kinds, n \in 1..MaxStack : world' = PlayerAddItem(world, p, k, n).world
    BY <1>3 DEF ScriptAdd
  <2>. QED BY <2>1, PlayerAddItemFine
<1>. QED BY <1>1, <1>2, <1>3

\* A price is paid (Game::removeMoney), or refused.
LEMMA PayStep ==
    ASSUME Fine(world), NEW p \in Players, Pay(p)
    PROVE  Fine(world')
<1>1. PICK m \in 1..Wealth(world, p) : world' = RemoveMoney(world, p, m) BY DEF Pay
<1>2. m \in Nat OBVIOUS
<1>. QED BY <1>1, <1>2, RemoveMoneyFine

\* Whatever the players, the scripts and the trades' exchanges ask for, the
\* parent pointers, the containers' lists and the slots describe one and the
\* same forest, and every window shows what its player may look into
\* (Game::internalMoveItem, internalAddItem, internalRemoveItem, transformItem,
\* addMoney, removeMoney, and Player::autoCloseContainers).
THEOREM ThingsStayFine == CylindersSpec => []Fine(world)
<1>1. CylindersInit => Fine(world) BY StartAssumption DEF CylindersInit, Fine
<1>2. Fine(world) /\ [CylindersNext]_cylindersVars => Fine(world)'
  <2>. SUFFICES ASSUME Fine(world), [CylindersNext]_cylindersVars PROVE Fine(world')
    OBVIOUS
  <2>1. ASSUME NEW p \in Players, PlayerMoveItem(p) PROVE Fine(world') BY <2>1, MoveStep
  <2>2. ASSUME NEW p \in Players, PlayerUseContainer(p) PROVE Fine(world') BY <2>2, UseStep
  <2>3. ASSUME NEW p \in Players, PlayerCloseContainer(p) PROVE Fine(world')
    BY <2>3, CloseStep
  <2>4. ASSUME NEW p \in Players, PlayerMoveUpContainer(p) PROVE Fine(world')
    BY <2>4, UpStep
  <2>5. ASSUME NEW p \in Players, Walk(p) PROVE Fine(world') BY <2>5, WalkedFine DEF Walk
  <2>6. ASSUME NEW p \in Players, Pay(p) PROVE Fine(world') BY <2>6, PayStep
  <2>7. ASSUME NEW p \in Players, ScriptAdd(p) PROVE Fine(world') BY <2>7, ScriptStep
  <2>8. CASE ScriptRemove \/ ScriptTransform BY <2>8, ScriptStep
  <2>9. CASE UNCHANGED cylindersVars BY <2>9 DEF cylindersVars
  <2>. QED BY <2>1, <2>2, <2>3, <2>4, <2>5, <2>6, <2>7, <2>8, <2>9 DEF CylindersNext
<1>. QED BY <1>1, <1>2, PTL DEF CylindersSpec

\* An item is in one place: what a slot, a container or a tile holds names it
\* as its parent, what has a parent is held there once, no container is inside
\* itself, none holds more than its capacity and no stack is empty or too high
\* (Cylinder::__addThing and __removeThing, through every operation of Game).
THEOREM ThingsWellPlaced == CylindersSpec => []WellPlaced
<1>1. Fine(world) => WellPlaced BY DEF Fine, WellPlaced
<1>. QED BY <1>1, ThingsStayFine, PTL

\* A window shows a container that exists and that its player wears or stands
\* beside: every way to lose sight of it closes the window
\* (Player::autoCloseContainers from postRemoveNotification and
\* onCreatureMove).
THEOREM WindowsStayInReach == CylindersSpec => []WindowsInReach
<1>1. Fine(world) => WindowsInReach BY DEF Fine, WindowsInReach
<1>. QED BY <1>1, ThingsStayFine, PTL

-------------------------------------------------------------------------------
(* The things during a trade: the offers stay as they were.                  *)

\* Who differs in what is offered only.
LEMMA OfferFine ==
    ASSUME NEW w, Fine(w), NEW o \in [Players -> Items \cup {None}]
    PROVE  Fine([w EXCEPT !.offer = o])
<1>1. PICK v : v = [w EXCEPT !.offer = o] OBVIOUS
<1>2. Orderly(w, {}) /\ InReach(w) BY OrderlyInPlace DEF Fine
<1>3. Typed(w) /\ Held(w) BY <1>2 DEF Orderly
<1>4. v.offer = o BY <1>1, <1>3 DEF Typed
<1>5. /\ DOMAIN v = DOMAIN w /\ v.kind = w.kind /\ v.count = w.count
      /\ v.parent = w.parent /\ v.inside = w.inside /\ v.slot = w.slot
      /\ v.open = w.open /\ v.at = w.at
  BY <1>1
<1>6. Typed(v) BY <1>3, <1>4, <1>5 DEF Typed
<1>7. Held(v)
  <2>1. \A c : Capacity(v, c) = Capacity(w, c) BY <1>5 DEF Capacity
  <2>. QED BY <1>3, <1>5, <2>1 DEF Held
<1>8. \A x : Ancestors(v, x) = Ancestors(w, x) BY <1>5, AncestorsSame
<1>9. \A c, x : Has(v, c, x) = Has(w, c, x) BY <1>5 DEF Has, SlotItems
<1>10. Placed(v) = Placed(w) /\ \A x : Count(v, x) = Count(w, x)
  BY <1>5 DEF Placed, Count
<1>11. Orderly(v, {}) BY <1>2, <1>5, <1>6, <1>7, <1>8, <1>9, <1>10 DEF Orderly
<1>12. \A x : Root(v, x) = Root(w, x) BY <1>8, RootSame
<1>13. \A x : IsContainer(v, x) = IsContainer(w, x) BY <1>5 DEF IsContainer, Capacity
<1>14. InReach(v)
  <2>1. w.open \in [Players -> [Windows -> Items \cup {None}]] BY <1>3 DEF Typed
  <2>2. v.open = w.open /\ v.at = w.at BY <1>5
  <2>. QED BY <1>2, <1>12, <1>13, <2>1, <2>2, ReachSame
<1>. QED BY <1>1, <1>11, <1>14, OrderlyInPlace DEF Fine

\* t is what it was, in what it was in, and holds what it held.
Steady(w, v, t) ==
    /\ v.kind[t] = w.kind[t] /\ v.count[t] = w.count[t] /\ v.parent[t] = w.parent[t]
    /\ Ancestors(v, t) = Ancestors(w, t) /\ Holds(v, t) = Holds(w, t)

\* Nothing moved, nothing changed.
LEMMA SteadySame ==
    ASSUME NEW w, NEW v, v.kind = w.kind, v.count = w.count, v.parent = w.parent
    PROVE  \A t : Steady(w, v, t)
<1>1. \A x : Ancestors(v, x) = Ancestors(w, x) BY AncestorsSame
<1>. QED BY <1>1 DEF Steady, Holds

\* What is under t is found in the other world, too, if nothing under t moved.
LEMMA UnderLemma ==
    ASSUME NEW w, NEW v, NEW t,
           \A x \in Items : t \in Ancestors(w, x) => v.parent[x] = w.parent[x]
    PROVE  \A y \in Items : t \in Ancestors(w, y) => t \in Ancestors(v, y)
<1>. SUFFICES ASSUME NEW y \in Items, t \in Ancestors(w, y), t \notin Ancestors(v, y)
              PROVE  FALSE
  OBVIOUS
<1>1. PICK S : S = {z \in Ancestors(v, y) : t \in Ancestors(w, z)} OBVIOUS
<1>2. \A x \in Items : t \in Ancestors(w, x) =>
          w.parent[x] = t \/ t \in Ancestors(w, w.parent[x])
  BY AncestorsUnfold
<1>3. w.parent[y] \in S
  <2>1. v.parent[y] = w.parent[y] /\ v.parent[y] \in Ancestors(v, y) BY AncestorsLemma
  <2>. QED BY <1>1, <1>2, <2>1
<1>4. ASSUME NEW z \in S \cap Items PROVE w.parent[z] \in S
  <2>1. t \in Ancestors(w, z) /\ z \in Ancestors(v, y) BY <1>1
  <2>2. v.parent[z] = w.parent[z] BY <2>1
  <2>3. v.parent[z] \in Ancestors(v, y) BY <2>1, AncestorsLemma
  <2>. QED BY <1>1, <1>2, <2>1, <2>2, <2>3
<1>5. Ancestors(w, y) \subseteq S BY <1>3, <1>4, AncestorsLemma
<1>. QED BY <1>1, <1>5

\* Player::checkTradeState lets nothing pass that concerns the offer.
LEMMA UndisturbedSteady ==
    ASSUME NEW w, Fine(w), NEW v, NEW t \in Placed(w),
           \A x \in Changed(w, v) : ~Touches(w, v, x, t)
    PROVE  Steady(w, v, t)
<1>1. t \in Items BY DEF Placed
<1>2. \A x \in Placed(w) \cup Placed(v) :
         \/ x \in Changed(w, v)
         \/ /\ v.parent[x] = w.parent[x] /\ v.count[x] = w.count[x] /\ v.kind[x] = w.kind[x]
  BY DEF Changed
<1>3. ASSUME NEW x \in Items, x \notin Changed(w, v) PROVE v.parent[x] = w.parent[x]
  BY <1>2, <1>3 DEF Placed
<1>4. ASSUME NEW x \in Items, x = t \/ x \in Ancestors(w, t) \/ t \in Ancestors(w, x)
                              \/ t \in Ancestors(v, x)
      PROVE  v.parent[x] = w.parent[x]
  <2>1. x \in Changed(w, v) => Touches(w, v, x, t) BY <1>4 DEF Touches
  <2>. QED BY <1>3, <2>1
<1>5. t \notin Changed(w, v) BY DEF Touches
<1>6. v.kind[t] = w.kind[t] /\ v.count[t] = w.count[t] /\ v.parent[t] = w.parent[t]
  BY <1>2, <1>5
<1>7. Ancestors(v, t) = Ancestors(w, t) BY <1>1, <1>4, AncestorsSame
<1>8. \A y \in Items : t \in Ancestors(w, y) => t \in Ancestors(v, y)
  BY <1>4, UnderLemma
<1>9. \A y \in Items : t \in Ancestors(v, y) => t \in Ancestors(w, y)
  BY <1>4, UnderLemma
<1>10. Holds(v, t) = Holds(w, t) BY <1>8, <1>9 DEF Holds
<1>. QED BY <1>6, <1>7, <1>10 DEF Steady

\* Who leaves, without what he wears: u is w after the things of p's slots
\* have been taken out of them.
Undressed(w, u, p) ==
    u = [w EXCEPT !.parent = [x \in Items |-> IF x \in SlotItems(w, p) THEN None ELSE @[x]],
                  !.slot = [@ EXCEPT ![p] = [s \in Slots |-> None]]]

\* What he wore is loose then, and stays together.
LEMMA UndressedOrderly ==
    ASSUME NEW w, Orderly(w, {}), NEW p \in Players, NEW u, Undressed(w, u, p)
    PROVE  /\ Orderly(u, SlotItems(w, p)) /\ Apart(u, Holds(w, p))
           /\ \A l \in SlotItems(w, p) : l \in Items /\ w.parent[l] = p
           /\ \A x : p \notin Ancestors(w, x) => Ancestors(u, x) = Ancestors(w, x)
<1>. DEFINE L == SlotItems(w, p)
<1>1. Typed(w) /\ Held(w) BY DEF Orderly
<1>2. /\ DOMAIN u = DOMAIN w /\ u.kind = w.kind /\ u.count = w.count
      /\ u.inside = w.inside /\ u.open = w.open /\ u.at = w.at /\ u.offer = w.offer
      /\ u.parent = [x \in Items |-> IF x \in L THEN None ELSE w.parent[x]]
      /\ u.slot = [w.slot EXCEPT ![p] = [s \in Slots |-> None]]
  BY <1>1 DEF Undressed, Typed
<1>3. \A l \in L : l \in Items /\ w.parent[l] = p
  BY <1>1 DEF SlotItems, Held, Typed
<1>4. \A y \in Items : w.parent[y] = p => y \in L
  <2>. SUFFICES ASSUME NEW y \in Items, w.parent[y] = p PROVE y \in L OBVIOUS
  <2>1. y \in Placed(w) BY ThingAssumption DEF Placed
  <2>. QED BY <2>1 DEF Orderly, Has
<1>5. p \notin Items \cup Tiles \cup {None} /\ p \in Grounds /\ None \notin Items
  BY ThingAssumption DEF Grounds
<1>6. \A y \in Items : IF y \in L THEN u.parent[y] = None ELSE u.parent[y] = w.parent[y]
  BY <1>2
<1>. HIDE DEF L
<1>7. \A x : p \notin Ancestors(w, x) => Ancestors(u, x) = Ancestors(w, x)
  <2>. SUFFICES ASSUME NEW x, p \notin Ancestors(w, x)
                PROVE  Ancestors(u, x) = Ancestors(w, x)
    OBVIOUS
  <2>1. ASSUME NEW y \in ({x} \cup Ancestors(w, x)) \cap Items
        PROVE  u.parent[y] = w.parent[y]
    <3>1. p \notin Ancestors(w, y) BY AncestorsAbove
    <3>2. y \notin L BY <1>3, <3>1, AncestorsLemma
    <3>. QED BY <1>6, <3>2
  <2>. QED BY <2>1, AncestorsSame
<1>8. Typed(u)
  <2>1. u.parent \in [Items -> Players \cup Tiles \cup Items \cup {None}]
    BY <1>1, <1>2 DEF Typed
  <2>2. u.slot \in [Players -> [Slots -> Items \cup {None}]] BY <1>1, <1>2 DEF Typed
  <2>. QED BY <1>1, <1>2, <2>1, <2>2 DEF Typed
<1>9. Held(u)
  <2>1. ASSUME NEW c \in Items \cup Tiles, NEW i \in Range(u.inside[c])
        PROVE  u.parent[i] = c
    <3>1. w.parent[i] = c BY <1>1, <1>2 DEF Held
    <3>2. i \in Items BY <1>1, <1>2 DEF Typed, Range
    <3>3. i \notin L BY <1>3, <1>5, <3>1
    <3>. QED BY <1>6, <3>1, <3>2, <3>3
  <2>2. ASSUME NEW q \in Players, NEW s \in Slots, u.slot[q][s] # None
        PROVE  /\ u.parent[u.slot[q][s]] = q
               /\ \A t \in Slots : u.slot[q][t] = u.slot[q][s] => t = s
    <3>1. q # p /\ u.slot[q] = w.slot[q] BY <1>1, <1>2, <2>2 DEF Typed
    <3>2. w.parent[w.slot[q][s]] = q /\ w.slot[q][s] \in Items
      BY <1>1, <2>2, <3>1 DEF Held, Typed
    <3>3. w.slot[q][s] \notin L BY <1>3, <3>1, <3>2
    <3>4. u.parent[w.slot[q][s]] = q BY <1>6, <3>2, <3>3
    <3>. QED BY <1>1, <2>2, <3>1, <3>4 DEF Held
  <2>3. \A c \in Items \cup Tiles :
           /\ IsInjective(u.inside[c])
           /\ c \in Items => Len(u.inside[c]) <= Capacity(u, c)
    BY <1>1, <1>2 DEF Held, Capacity
  <2>. QED BY <2>1, <2>2, <2>3 DEF Held
<1>10. ASSUME NEW i \in Placed(u)
       PROVE  /\ Has(u, u.parent[i], i) /\ Count(u, i) \in 1..MaxStack
              /\ \E r \in Grounds \cup L : r \in Ancestors(u, i)
  <2>1. i \in Items /\ i \notin L /\ u.parent[i] = w.parent[i] /\ w.parent[i] # None
    BY <1>6 DEF Placed
  <2>2. i \in Placed(w) BY <2>1 DEF Placed
  <2>3. Has(w, w.parent[i], i) /\ Count(w, i) \in 1..MaxStack BY <2>2 DEF Orderly
  <2>4. w.parent[i] # p BY <1>4, <2>1
  <2>5. Has(u, u.parent[i], i)
    <3>1. w.parent[i] \in Players => u.slot[w.parent[i]] = w.slot[w.parent[i]]
      BY <1>1, <1>2, <2>4 DEF Typed
    <3>. QED BY <1>2, <2>1, <2>3, <3>1 DEF Has, SlotItems
  <2>6. \E r \in Grounds \cup L : r \in Ancestors(u, i)
    <3>1. PICK r \in Grounds : r \in Ancestors(w, i) BY <2>2 DEF Orderly
    <3>2. CASE p \notin Ancestors(w, i) BY <1>7, <3>1, <3>2
    <3>3. CASE p \in Ancestors(w, i)
      <4>1. ASSUME \A l \in L : l \notin Ancestors(u, i) PROVE FALSE
        <5>1. w.parent[i] \in Ancestors(u, i) BY <2>1, AncestorsLemma
        <5>2. ASSUME NEW y \in Ancestors(u, i) \cap Items PROVE w.parent[y] \in Ancestors(u, i)
          <6>1. u.parent[y] = w.parent[y] BY <1>6, <4>1
          <6>. QED BY <2>1, <6>1, AncestorsLemma
        <5>3. Ancestors(w, i) \subseteq Ancestors(u, i) BY <2>1, <5>1, <5>2, AncestorsLemma
        <5>4. p \in Ancestors(u, i) BY <3>3, <5>3
        <5>5. PICK y \in Items : u.parent[y] = p BY <5>4, ChildBelow
        <5>6. y \notin L /\ w.parent[y] = p BY <1>5, <1>6, <5>5
        <5>. QED BY <1>4, <5>6
      <4>. QED BY <4>1
    <3>. QED BY <3>2, <3>3
  <2>. QED BY <1>2, <2>3, <2>5, <2>6 DEF Count
<1>11. L \subseteq Items /\ \A l \in L : u.parent[l] = None BY <1>3, <1>6
<1>12. Orderly(u, L) BY <1>8, <1>9, <1>10, <1>11 DEF Orderly
<1>13. Apart(u, Holds(w, p))
  <2>1. ASSUME NEW y \in Items, u.parent[y] \in Holds(w, p) PROVE y \in Holds(w, p)
    <3>1. u.parent[y] = w.parent[y] /\ w.parent[y] \in Items /\ p \in Ancestors(w, w.parent[y])
      BY <1>5, <1>6, <2>1 DEF Holds
    <3>2. p \in Ancestors(w, y) BY <3>1, AncestorsUnfold
    <3>. QED BY <3>2 DEF Holds
  <2>2. ASSUME NEW y \in Holds(w, p) PROVE u.parent[y] \in Holds(w, p) \cup {None}
    <3>1. y \in Items /\ p \in Ancestors(w, y) BY DEF Holds
    <3>2. CASE y \in L BY <1>6, <3>1, <3>2
    <3>3. CASE y \notin L
      <4>1. w.parent[y] # p BY <1>4, <3>1, <3>3
      <4>2. p \in Ancestors(w, w.parent[y]) BY <3>1, <4>1, AncestorsUnfold
      <4>3. w.parent[y] \in Items BY <4>2, AncestorsOfOthers
      <4>. QED BY <1>6, <3>1, <3>3, <4>2, <4>3 DEF Holds
    <3>. QED BY <3>2, <3>3
  <2>3. Holds(w, p) \subseteq Items BY DEF Holds
  <2>. QED BY <2>1, <2>2, <2>3 DEF Apart
<1>. QED BY <1>3, <1>7, <1>12, <1>13 DEF L

\* The things without p and what he wears.
Without(w, p) == [Blank(w, Holds(w, p)) EXCEPT
    !.slot[p] = [s \in Slots |-> None], !.carried[p] = 0,
    !.open[p] = [n \in Windows |-> None]]

\* Whatever is neither on p nor nowhere is as it was.
LeftBehind(w, v, p) ==
    /\ Fine(v) /\ v.at = w.at /\ v.offer = w.offer
    /\ \A t \in Items : Root(w, t) \notin {None, p} => Steady(w, v, t)

\* Player::onCreatureDisappear and the freeing of what he wears: the others'
\* things are in order, and no window shows what went with him.
LEMMA WithoutFine ==
    ASSUME NEW w, Fine(w), NEW p \in Players
    PROVE  LeftBehind(w, Without(w, p), p)
<1>. DEFINE S == Holds(w, p)
            L == SlotItems(w, p)
<1>1. Orderly(w, {}) /\ InReach(w) BY OrderlyInPlace DEF Fine
<1>2. Typed(w) BY <1>1 DEF Orderly
<1>3. PICK u : u = [w EXCEPT
          !.parent = [x \in Items |-> IF x \in L THEN None ELSE @[x]],
          !.slot = [@ EXCEPT ![p] = [s \in Slots |-> None]]]
  OBVIOUS
<1>4. Undressed(w, u, p) BY <1>3 DEF Undressed
<1>5. /\ Orderly(u, L) /\ Apart(u, S)
      /\ \A l \in L : l \in Items /\ w.parent[l] = p
      /\ \A x : p \notin Ancestors(w, x) => Ancestors(u, x) = Ancestors(w, x)
  BY <1>1, <1>4, UndressedOrderly
<1>6. L \subseteq S
  <2>1. \A l \in L : p \in Ancestors(w, l) BY <1>5, AncestorsLemma
  <2>. QED BY <1>5, <2>1 DEF Holds
<1>7. p \in Grounds /\ p \notin Items /\ None \notin Items BY ThingAssumption DEF Grounds
<1>8. PICK b : b = Blank(u, S) OBVIOUS
<1>9. Orderly(b, L \ S) /\ Blanked(u, b, S) BY <1>5, <1>8, BlankLemma
<1>10. Orderly(b, {})
  <2>1. L \ S = {} BY <1>6
  <2>. QED BY <1>9, <2>1
<1>11. PICK v : v = Without(w, p) OBVIOUS
<1>12. PICK x0 : x0 = Blank(w, S) OBVIOUS
<1>13. v = [x0 EXCEPT !.slot[p] = [s \in Slots |-> None], !.carried[p] = 0,
                      !.open[p] = [n \in Windows |-> None]]
  BY <1>11, <1>12 DEF Without
<1>14. /\ DOMAIN u = DOMAIN w /\ u.kind = w.kind /\ u.count = w.count
       /\ u.inside = w.inside /\ u.open = w.open /\ u.at = w.at /\ u.offer = w.offer
       /\ u.parent = [x \in Items |-> IF x \in L THEN None ELSE w.parent[x]]
       /\ u.slot = [w.slot EXCEPT ![p] = [s \in Slots |-> None]]
  BY <1>2, <1>3 DEF Typed
<1>. HIDE DEF S, L
<1>15. /\ DOMAIN x0 = DOMAIN w /\ x0.slot = w.slot /\ x0.open = w.open
       /\ x0.at = w.at /\ x0.offer = w.offer
       /\ x0.parent = [x \in Items |-> IF x \in S THEN None ELSE w.parent[x]]
       /\ x0.count = [x \in Items |-> IF x \in S THEN 0 ELSE w.count[x]]
       /\ x0.inside = [c \in DOMAIN w.inside |-> IF c \in S THEN <<>> ELSE w.inside[c]]
       /\ x0.kind = [x \in Items |-> IF x \in S THEN CHOOSE k \in Kinds : TRUE ELSE w.kind[x]]
  BY <1>2, <1>12 DEF Blank, Typed
<1>16. /\ DOMAIN b = DOMAIN u /\ b.slot = u.slot /\ b.open = u.open
       /\ b.at = u.at /\ b.offer = u.offer
       /\ b.parent = [x \in Items |-> IF x \in S THEN None ELSE u.parent[x]]
       /\ b.count = [x \in Items |-> IF x \in S THEN 0 ELSE u.count[x]]
       /\ b.inside = [c \in DOMAIN u.inside |-> IF c \in S THEN <<>> ELSE u.inside[c]]
       /\ b.kind = [x \in Items |-> IF x \in S THEN CHOOSE k \in Kinds : TRUE ELSE u.kind[x]]
  <2>1. Typed(u) BY <1>5 DEF Orderly
  <2>. QED BY <1>8, <2>1 DEF Blank, Typed
<1>17. /\ DOMAIN v = DOMAIN x0 /\ v.kind = x0.kind /\ v.count = x0.count
       /\ v.parent = x0.parent /\ v.inside = x0.inside /\ v.at = x0.at
       /\ v.offer = x0.offer
       /\ v.slot = [x0.slot EXCEPT ![p] = [s \in Slots |-> None]]
       /\ v.open = [x0.open EXCEPT ![p] = [n \in Windows |-> None]]
  BY <1>2, <1>13, <1>15 DEF Typed
<1>18. Alike(b, v)
  <2>1. b.parent = x0.parent BY <1>6, <1>14, <1>15, <1>16
  <2>2. /\ b.count = x0.count /\ b.inside = x0.inside /\ b.kind = x0.kind
    BY <1>14, <1>15, <1>16
  <2>. QED BY <1>14, <1>15, <1>16, <1>17, <2>1, <2>2 DEF Alike
<1>19. /\ v.open = [w.open EXCEPT ![p] = [n \in Windows |-> None]]
       /\ w.open \in [Players -> [Windows -> Items \cup {None}]]
       /\ v.open \in [Players -> [Windows -> Items \cup {None}]]
  BY <1>2, <1>15, <1>17 DEF Typed
<1>20. Orderly(v, {}) BY <1>10, <1>18, <1>19, AlikeOrderly
\* What is not on p is what it was.
<1>21. ASSUME NEW x, p \notin Ancestors(w, x)
       PROVE  /\ Ancestors(v, x) = Ancestors(w, x) /\ Root(v, x) = Root(w, x)
              /\ x \in Items => /\ v.kind[x] = w.kind[x] /\ v.count[x] = w.count[x]
                                /\ v.parent[x] = w.parent[x]
  <2>1. x \notin S BY <1>21 DEF S, Holds
  <2>2. Ancestors(b, x) = Ancestors(u, x) BY <1>9, <2>1 DEF Blanked
  <2>3. Ancestors(v, x) = Ancestors(w, x) BY <1>5, <1>18, <1>21, <2>2, AlikeViews
  <2>. QED BY <1>15, <1>17, <2>1, <2>3, RootSame
<1>22. ASSUME NEW x, Root(w, x) \notin {None, p} PROVE p \notin Ancestors(w, x)
  BY <1>7, <1>22, RootLemma
<1>23. ASSUME NEW q \in Players, NEW n \in Windows, v.open[q][n] # None
       PROVE  MayWatch(v, q, v.open[q][n])
  <2>1. q # p /\ v.open[q][n] = w.open[q][n] BY <1>19, <1>23
  <2>2. PICK x : x = w.open[q][n] OBVIOUS
  <2>3. MayWatch(w, q, x) BY <1>1, <1>19, <1>23, <2>1, <2>2, ReachLemma
  <2>4. p \notin Ancestors(w, x) BY <1>22, <2>1, <2>3 DEF MayWatch
  <2>5. Root(v, x) = Root(w, x) /\ v.at = w.at BY <1>15, <1>17, <1>21, <2>4
  <2>6. IsContainer(v, x) BY <1>21, <2>3, <2>4 DEF MayWatch, IsContainer, Capacity
  <2>. QED BY <2>1, <2>2, <2>3, <2>5, <2>6 DEF MayWatch, Spot
<1>24. Fine(v)
  <2>1. InReach(v) BY <1>19, <1>23, ReachIfWatched
  <2>. QED BY <1>20, <2>1, OrderlyInPlace DEF Fine
<1>25. ASSUME NEW t \in Items, Root(w, t) \notin {None, p} PROVE Steady(w, v, t)
  <2>1. p \notin Ancestors(w, t) BY <1>22, <1>25
  <2>2. ASSUME NEW y \in Items, t \in Ancestors(w, y) PROVE t \in Ancestors(v, y)
    <3>1. p \notin Ancestors(w, y)
      <4>. SUFFICES ASSUME p \in Ancestors(w, y) PROVE FALSE OBVIOUS
      <4>1. Root(w, t) = p BY <1>7, <2>2, RootLemma
      <4>. QED BY <1>25, <4>1
    <3>. QED BY <1>21, <2>2, <3>1
  <2>3. ASSUME NEW y \in Items, t \in Ancestors(v, y) PROVE t \in Ancestors(w, y)
    <3>1. CASE p \notin Ancestors(w, y) BY <1>21, <2>3, <3>1
    <3>2. CASE p \in Ancestors(w, y)
      <4>1. y \in S BY <3>2 DEF S, Holds
      <4>2. v.parent[y] = None BY <1>15, <1>17, <4>1
      <4>3. Ancestors(v, y) = {None} BY <1>7, <4>2, AncestorsUnfold, AncestorsOfOthers
      <4>. QED BY <1>7, <2>3, <4>3
    <3>. QED BY <3>1, <3>2
  <2>4. Holds(v, t) = Holds(w, t) BY <2>2, <2>3 DEF Holds
  <2>. QED BY <1>21, <2>1, <2>4 DEF Steady
<1>26. v.at = w.at /\ v.offer = w.offer BY <1>15, <1>17
<1>. QED BY <1>11, <1>24, <1>25, <1>26 DEF LeftBehind

-------------------------------------------------------------------------------
(* The steps of a trade.                                                     *)

\* What the proof keeps true: the traders agree, the things are in order, the
\* offers at hand.
TradeInv == TradersInv /\ Fine(world) /\ OffersAtHand

\* From w to v, no offer is made, and those that stay are as they were.
Goes(w, v) ==
    /\ Fine(v)
    /\ \A p \in Players : v.offer[p] # None =>
         /\ v.offer[p] = w.offer[p] /\ Steady(w, v, v.offer[p])
         /\ Spot(v, v.offer[p]) = v.at[p]

\* What stays as it was twice stays as it was.
LEMMA SteadyTrans ==
    ASSUME NEW u, NEW v, NEW w, NEW t, Steady(u, v, t), Steady(v, w, t)
    PROVE  Steady(u, w, t)
BY DEF Steady

\* What is offered is somewhere, where its owner stands.
LEMMA OfferedThing ==
    ASSUME TradeInv, NEW p \in Players, Offer(p) # None
    PROVE  /\ Offer(p) \in Placed(world) /\ Root(world, Offer(p)) \in Tiles \cup {p}
           /\ Root(world, Offer(p)) # None /\ Spot(world, Offer(p)) = world.at[p]
<1>1. Offer(p) \in Items BY DEF TradeInv, TradersInv, Offer
<1>2. Root(world, Offer(p)) \in Tiles \cup {p} /\ Spot(world, Offer(p)) = world.at[p]
  BY DEF TradeInv, OffersAtHand
<1>3. Root(world, Offer(p)) # None BY <1>2, ThingAssumption
<1>. QED BY <1>1, <1>2, <1>3, NowhereRoot DEF Placed

\* Then the offers that stay are at hand still.
LEMMA GoesAtHand ==
    ASSUME TradeInv, Goes(world, world')
    PROVE  OffersAtHand'
<1>. SUFFICES ASSUME NEW p \in Players, world'.offer[p] # None
              PROVE  /\ Spot(world', world'.offer[p]) = world'.at[p]
                     /\ Root(world', world'.offer[p]) \in Tiles \cup {p}
                     /\ \A q \in Players \ {p} : world'.offer[q] # None =>
                          world'.offer[q] \notin Ancestors(world', world'.offer[p])
  BY DEF OffersAtHand, Offer
<1>1. PICK t : t = world'.offer[p] OBVIOUS
<1>2. t = Offer(p) /\ Steady(world, world', t) /\ Spot(world', t) = world'.at[p]
  BY <1>1 DEF Goes, Offer
<1>3. Ancestors(world', t) = Ancestors(world, t) BY <1>2 DEF Steady
<1>4. Root(world', t) = Root(world, t) BY <1>3, RootSame
<1>5. Root(world, t) \in Tiles \cup {p} BY <1>1, <1>2, OfferedThing
<1>6. ASSUME NEW q \in Players \ {p}, world'.offer[q] # None
      PROVE  world'.offer[q] \notin Ancestors(world', t)
  <2>1. world'.offer[q] = Offer(q) /\ Offer(q) # None BY <1>6 DEF Goes, Offer
  <2>2. Offer(q) \notin Ancestors(world, Offer(p))
    BY <1>1, <1>2, <2>1 DEF TradeInv, OffersAtHand
  <2>. QED BY <1>2, <1>3, <2>1, <2>2
<1>. QED BY <1>1, <1>2, <1>4, <1>5, <1>6

\* Nothing happens to the things.
LEMMA GoesSame ==
    ASSUME TradeInv, Fine(world'), world'.offer = world.offer,
           world'.kind = world.kind, world'.count = world.count,
           world'.parent = world.parent, world'.at = world.at
    PROVE  Goes(world, world')
<1>1. \A t : Steady(world, world', t) BY SteadySame
<1>2. ASSUME NEW p \in Players, world'.offer[p] # None
      PROVE  Spot(world', world'.offer[p]) = world'.at[p]
  <2>1. PICK t : t = world.offer[p] OBVIOUS
  <2>2. Spot(world, t) = world.at[p] BY <1>2, <2>1, OfferedThing DEF Offer
  <2>3. Ancestors(world', t) = Ancestors(world, t) BY <1>1 DEF Steady
  <2>4. Root(world', t) = Root(world, t) BY <2>3, RootSame
  <2>. QED BY <2>1, <2>2, <2>4 DEF Spot
<1>. QED BY <1>1, <1>2 DEF Goes

\* Trades of S end while the things become w.
LEMMA GoesClose ==
    ASSUME TradeInv, NEW w, Fine(w), w.offer = world.offer, NEW S, CloseTrade(w, S),
           \A p \in Players \ Closed(S) : Offer(p) # None =>
               Steady(world, w, Offer(p)) /\ Spot(w, Offer(p)) = w.at[p]
    PROVE  Goes(world, world')
<1>1. PICK o : o = [p \in Players |-> IF p \in Closed(S) THEN None ELSE w.offer[p]] OBVIOUS
<1>2. world' = [w EXCEPT !.offer = o] BY <1>1 DEF CloseTrade
<1>3. w.offer \in [Players -> Items \cup {None}] BY DEF Fine, InPlace, Typed
<1>4. o \in [Players -> Items \cup {None}] BY <1>1, <1>3
<1>5. Fine(world') BY <1>2, <1>4, OfferFine
<1>6. /\ world'.kind = w.kind /\ world'.count = w.count /\ world'.parent = w.parent
      /\ world'.at = w.at /\ world'.offer = o
  BY <1>2 DEF Fine, InPlace, Typed
<1>7. \A t : Steady(w, world', t) BY <1>6, SteadySame
<1>8. ASSUME NEW p \in Players, world'.offer[p] # None
      PROVE  /\ world'.offer[p] = world.offer[p] /\ Steady(world, world', world'.offer[p])
             /\ Spot(world', world'.offer[p]) = world'.at[p]
  <2>1. p \notin Closed(S) /\ world'.offer[p] = Offer(p) BY <1>1, <1>6, <1>8 DEF Offer
  <2>2. Steady(world, w, Offer(p)) /\ Spot(w, Offer(p)) = w.at[p] BY <1>8, <2>1
  <2>3. Steady(world, world', Offer(p)) BY <1>7, <2>2, SteadyTrans
  <2>4. Ancestors(world', Offer(p)) = Ancestors(w, Offer(p)) BY <1>7 DEF Steady
  <2>5. Root(world', Offer(p)) = Root(w, Offer(p)) BY <2>4, RootSame
  <2>6. Spot(world', Offer(p)) = world'.at[p] BY <1>6, <2>2, <2>5 DEF Spot
  <2>. QED BY <2>1, <2>3, <2>6 DEF Offer
<1>. QED BY <1>5, <1>8 DEF Goes

\* The offers that the change does not disturb are steady.
LEMMA Undisturbed ==
    ASSUME TradeInv, NEW w, w.at = world.at, NEW S, NEW extra,
           Disturbed(world, w, extra) \subseteq S, NEW p \in Players \ Closed(S),
           Offer(p) # None
    PROVE  Steady(world, w, Offer(p)) /\ Spot(w, Offer(p)) = w.at[p]
<1>1. PICK t : t = Offer(p) OBVIOUS
<1>2. t \in Placed(world) /\ Spot(world, t) = world.at[p] BY <1>1, OfferedThing
<1>3. p \notin Disturbed(world, w, extra) BY DEF Closed
<1>4. \A x \in Changed(world, w) : ~Touches(world, w, x, t)
  BY <1>1, <1>3 DEF Disturbed, Offer
<1>5. Steady(world, w, t) BY <1>2, <1>4, UndisturbedSteady DEF TradeInv
<1>6. Ancestors(w, t) = Ancestors(world, t) BY <1>5 DEF Steady
<1>7. Root(w, t) = Root(world, t) BY <1>6, RootSame
<1>. QED BY <1>1, <1>2, <1>5, <1>7 DEF Spot

\* An operation on the things leaves the undisturbed offers as they were.
LEMMA BecomeGoes ==
    ASSUME TradeInv, NEW v, Fine(v), Kept(world, v), NEW extra, ThingsBecome(v, extra)
    PROVE  Goes(world, world')
<1>1. v.at = world.at /\ v.offer = world.offer BY DEF Kept, TradeInv, TradersInv
<1>2. CloseTrade(v, Disturbed(world, v, extra)) BY DEF ThingsBecome
<1>3. \A p \in Players \ Closed(Disturbed(world, v, extra)) : Offer(p) # None =>
          Steady(world, v, Offer(p)) /\ Spot(v, Offer(p)) = v.at[p]
  BY <1>1, Undisturbed
<1>. QED BY <1>1, <1>2, <1>3, GoesClose

\* A step of a trader: his own offer is on him, others' are where they were.
LEMMA TradeWalkGoes ==
    ASSUME TradeInv, NEW p \in Players, TradeWalk(p)
    PROVE  Goes(world, world')
<1>1. PICK t \in Tiles : LET w == Walked(world, p, t)
                         IN CloseTrade(w, IF FarOffer(w, p) THEN {p} ELSE {})
  BY DEF TradeWalk
<1>2. PICK w : w = Walked(world, p, t) OBVIOUS
<1>3. PICK S : S = IF FarOffer(w, p) THEN {p} ELSE {} OBVIOUS
<1>4. CloseTrade(w, S) BY <1>1, <1>2, <1>3
<1>5. Fine(w) BY <1>2, WalkedFine DEF TradeInv
<1>6. /\ w.kind = world.kind /\ w.count = world.count /\ w.parent = world.parent
      /\ w.offer = world.offer /\ w.at = [world.at EXCEPT ![p] = t]
  <2>1. PICK e : LET v == [world EXCEPT !.at[p] = t]
                 IN Walked(world, p, t) = [v EXCEPT !.open[p] = e]
    BY DEF Walked
  <2>. QED BY <1>2, <2>1 DEF TradeInv, Fine, InPlace, Typed
<1>7. world.at \in [Players -> Tiles] BY DEF TradeInv, Fine, InPlace, Typed
<1>8. ASSUME NEW r \in Players \ Closed(S), Offer(r) # None
      PROVE  Steady(world, w, Offer(r)) /\ Spot(w, Offer(r)) = w.at[r]
  <2>1. PICK x : x = Offer(r) OBVIOUS
  <2>2. Steady(world, w, x) BY <1>6, SteadySame
  <2>3. Ancestors(w, x) = Ancestors(world, x) BY <2>2 DEF Steady
  <2>4. Root(w, x) = Root(world, x) BY <2>3, RootSame
  <2>5. CASE r = p
    <3>1. ~FarOffer(w, p) BY <1>3, <2>5 DEF Closed
    <3>. QED BY <1>6, <1>8, <2>1, <2>2, <2>5, <3>1 DEF FarOffer, Offer
  <2>6. CASE r # p
    <3>1. w.at[r] = world.at[r] BY <1>6, <1>7, <2>6
    <3>2. Root(world, x) \in Tiles \cup {r} /\ Spot(world, x) = world.at[r]
      BY <1>8, <2>1, OfferedThing
    <3>3. Root(world, x) \in Players => Root(world, x) = r BY <3>2, ThingAssumption
    <3>4. Spot(w, x) = w.at[r] BY <2>4, <3>1, <3>2, <3>3 DEF Spot
    <3>. QED BY <2>1, <2>2, <3>4
  <2>. QED BY <2>5, <2>6
<1>. QED BY <1>4, <1>5, <1>6, <1>8, GoesClose

\* A move of an item, in the middle of any trade.
LEMMA TradeMoveGoes ==
    ASSUME TradeInv, NEW p \in Players, TradeMove(p)
    PROVE  Goes(world, world')
<1>1. PICK i \in Placed(world), target \in Targets(world, p) :
         \E v \in MoveItem(world, world.parent[i], target[1], target[2], i, 1) :
             ThingsBecome(v, IF v = world THEN {} ELSE {i})
  BY DEF TradeMove
<1>2. PICK c, idx : target = <<c, idx>> /\ Host(world, c) /\ (c \in Items => idx \in Int)
  BY TargetLemma DEF TradeInv
<1>3. PICK v \in MoveItem(world, world.parent[i], c, idx, i, 1) :
         ThingsBecome(v, IF v = world THEN {} ELSE {i})
  BY <1>1, <1>2
<1>4. 1 \in Nat \ {0} OBVIOUS
<1>5. Fine(v) BY <1>2, <1>4, MoveItemFine DEF TradeInv
<1>6. Kept(world, v) BY MoveItemKept
<1>. QED BY <1>3, <1>5, <1>6, BecomeGoes

\* A script removes an item, in the middle of any trade.
LEMMA TradeScriptGoes ==
    ASSUME TradeInv, TradeScript
    PROVE  Goes(world, world')
<1>1. PICK i \in Placed(world) : ThingsBecome(RemoveItem(world, i, 1), {})
  BY DEF TradeScript
<1>2. PICK v : v = RemoveItem(world, i, 1) OBVIOUS
<1>3. Fine(v) BY <1>2, RemoveItemFine DEF TradeInv, Placed
<1>4. Kept(world, v) BY <1>2, RemoveItemKept
<1>. QED BY <1>1, <1>2, <1>3, <1>4, BecomeGoes

\* A window is opened.
LEMMA TradeWindowGoes ==
    ASSUME TradeInv, NEW p \in Players, TradeWindow(p)
    PROVE  Goes(world, world')
<1>1. PlayerUseContainer(p) BY DEF TradeWindow
<1>2. Fine(world') BY <1>1, UseStep DEF TradeInv
<1>3. PICK e : world' = [world EXCEPT !.open[p] = e] BY <1>1 DEF PlayerUseContainer
<1>. QED BY <1>2, <1>3, GoesSame

\* The same, for things that do not know the offers.
LEMMA ReturnGoes ==
    ASSUME TradeInv, NEW u, Fine(u), NEW S,
           CloseTrade([u EXCEPT !.offer = world.offer], S),
           \A p \in Players \ Closed(S) : Offer(p) # None =>
               Steady(world, u, Offer(p)) /\ Spot(u, Offer(p)) = u.at[p]
    PROVE  Goes(world, world')
<1>1. PICK w : w = [u EXCEPT !.offer = world.offer] OBVIOUS
<1>2. world.offer \in [Players -> Items \cup {None}] BY DEF TradeInv, TradersInv
<1>3. Fine(w) BY <1>1, <1>2, OfferFine
<1>4. /\ w.kind = u.kind /\ w.count = u.count /\ w.parent = u.parent
      /\ w.at = u.at /\ w.offer = world.offer
  BY <1>1 DEF Fine, InPlace, Typed
<1>5. CloseTrade(w, S) BY <1>1
<1>6. ASSUME NEW r \in Players \ Closed(S), Offer(r) # None
      PROVE  Steady(world, w, Offer(r)) /\ Spot(w, Offer(r)) = w.at[r]
  <2>1. PICK t : t = Offer(r) OBVIOUS
  <2>2. Steady(world, u, t) /\ Spot(u, t) = u.at[r] BY <1>6, <2>1
  <2>3. Steady(u, w, t) BY <1>4, SteadySame
  <2>4. Steady(world, w, t) BY <2>2, <2>3, SteadyTrans
  <2>5. Ancestors(w, t) = Ancestors(u, t) BY <2>3 DEF Steady
  <2>6. Root(w, t) = Root(u, t) BY <2>5, RootSame
  <2>7. Spot(w, t) = w.at[r] BY <1>4, <2>2, <2>6 DEF Spot
  <2>. QED BY <2>1, <2>4, <2>7
<1>. QED BY <1>3, <1>4, <1>5, <1>6, GoesClose

\* A trader leaves: his trade ends, and the other trades' things stay.
LEMMA LeaveGoes ==
    ASSUME TradeInv, NEW p \in Players, Leave(p)
    PROVE  Goes(world, world')
<1>1. PICK v : v = Without(world, p) OBVIOUS
<1>2. LeftBehind(world, v, p) BY <1>1, WithoutFine DEF TradeInv
<1>3. CloseTrade([v EXCEPT !.offer = world.offer], {p}) BY <1>1 DEF Leave, Without
<1>4. Fine(v) /\ v.at = world.at BY <1>2 DEF LeftBehind
<1>5. ASSUME NEW r \in Players \ Closed({p}), Offer(r) # None
      PROVE  Steady(world, v, Offer(r)) /\ Spot(v, Offer(r)) = v.at[r]
  <2>1. PICK t : t = Offer(r) OBVIOUS
  <2>2. r # p BY DEF Closed
  <2>3. /\ t \in Items /\ Root(world, t) \in Tiles \cup {r} /\ Root(world, t) # None
        /\ Spot(world, t) = world.at[r]
    BY <1>5, <2>1, OfferedThing DEF Placed
  <2>4. Root(world, t) \notin {None, p} BY <2>2, <2>3, ThingAssumption
  <2>5. Steady(world, v, t) BY <1>2, <2>3, <2>4 DEF LeftBehind
  <2>6. Ancestors(v, t) = Ancestors(world, t) BY <2>5 DEF Steady
  <2>7. Root(v, t) = Root(world, t) BY <2>6, RootSame
  <2>8. Spot(v, t) = v.at[r] BY <1>4, <2>3, <2>7 DEF Spot
  <2>. QED BY <2>1, <2>5, <2>8
<1>. QED BY <1>3, <1>4, <1>5, ReturnGoes

\* The second acceptance: the trade ends, and every other one that the
\* exchange, or a script inside it, disturbs.
LEMMA AcceptGoes ==
    ASSUME TradeInv, NEW p \in Players, AcceptBoth(p)
    PROVE  Goes(world, world')
<1>1. PICK q, i, j : q = partner[p] /\ i = Offer(p) /\ j = Offer(q) OBVIOUS
<1>2. q \in Players
  BY <1>1 DEF AcceptBoth, TradeInv, TradersInv, TradersAgree, TradeTypeOK
<1>. DEFINE out(u) == {p, q} \cup Disturbed(world, u, {})
            done(u) == CloseTrade([u EXCEPT !.offer = world.offer], out(u))
            told(v) == [v EXCEPT !.offer = [r \in Players |->
                           IF r \in Closed(Disturbed(world, v, {})) THEN None ELSE @[r]]]
            give(w, to, x) == MoveItem(w, w.parent[x], to, Where, x, Count(w, x))
            Good(w) == Fine(w) /\ w.at = world.at
<1>3. ASSUME NEW u, Good(u), done(u) PROVE Goes(world, world')
  <2>1. PICK S : S = out(u) OBVIOUS
  <2>2. CloseTrade([u EXCEPT !.offer = world.offer], S) BY <1>3, <2>1
  <2>3. \A r \in Players \ Closed(S) : Offer(r) # None =>
            Steady(world, u, Offer(r)) /\ Spot(u, Offer(r)) = u.at[r]
    BY <1>3, <2>1, Undisturbed
  <2>. QED BY <1>3, <2>2, <2>3, ReturnGoes
<1>4. ASSUME NEW w, Good(w), NEW x \in Items, NEW to \in Players, w.parent[x] # None,
             NEW v \in give(w, to, x)
      PROVE  Good(v)
  <2>1. x \in Placed(w) BY <1>4 DEF Placed
  <2>2. Count(w, x) \in Nat \ {0}
    BY <1>4, <2>1, KindAssumption DEF Fine, InPlace
  <2>3. Host(w, to) /\ to \notin Items BY ThingAssumption DEF Host, Grounds
  <2>4. Fine(v) BY <1>4, <2>1, <2>2, <2>3, MoveItemFine
  <2>5. Kept(w, v) BY <1>4, MoveItemKept
  <2>6. v.at = w.at BY <1>4, <2>5 DEF Kept, Trader, Fine, InPlace, Typed
  <2>. QED BY <1>4, <2>4, <2>6
<1>5. ASSUME NEW v \in Scripted(world) PROVE Good(told(v))
  <2>1. Fine(v) BY ScriptedFine DEF TradeInv
  <2>2. v.at = world.at BY ScriptedKept DEF Kept, TradeInv, TradersInv
  <2>3. v.offer \in [Players -> Items \cup {None}] BY <2>1 DEF Fine, InPlace, Typed
  <2>4. PICK o : o = [r \in Players |->
           IF r \in Closed(Disturbed(world, v, {})) THEN None ELSE v.offer[r]]
    OBVIOUS
  <2>5. o \in [Players -> Items \cup {None}] BY <2>3, <2>4
  <2>6. told(v) = [v EXCEPT !.offer = o] BY <2>4
  <2>7. Fine(told(v)) BY <2>1, <2>5, <2>6, OfferFine
  <2>8. told(v).at = v.at BY <2>1, <2>6 DEF Fine, InPlace, Typed
  <2>. QED BY <2>2, <2>7, <2>8
<1>6. CASE stopped' = TRUE /\ UNCHANGED <<world, state, partner, goods>>
  BY <1>6, GoesSame DEF TradeInv
<1>7. CASE /\ None \notin {i, j}
           /\ \E w \in {told(v) : v \in Scripted(world)} :
                IF ~FitsBoth(w, p, q, i, j) THEN done(w)
                ELSE \E v \in give(w, q, i) :
                       \/ stopped' = TRUE /\ UNCHANGED <<world, state, partner, goods>>
                       \/ v.parent[j] # None /\ \E u \in give(v, p, j) : done(u)
  <2>1. i \in Items /\ j \in Items
    BY <1>1, <1>2, <1>7 DEF Offer, TradeInv, TradersInv
  <2>2. PICK s \in Scripted(world) :
                IF ~FitsBoth(told(s), p, q, i, j) THEN done(told(s))
                ELSE \E v \in give(told(s), q, i) :
                       \/ stopped' = TRUE /\ UNCHANGED <<world, state, partner, goods>>
                       \/ v.parent[j] # None /\ \E u \in give(v, p, j) : done(u)
    BY <1>7
  <2>3. PICK w : w = told(s) OBVIOUS
  <2>4. Good(w) BY <1>5, <2>3
  <2>. HIDE DEF told, give, done, Good
  <2>5. CASE ~FitsBoth(w, p, q, i, j) BY <1>3, <2>2, <2>3, <2>4, <2>5
  <2>6. CASE FitsBoth(w, p, q, i, j)
    <3>1. w.parent[i] # None BY <2>6 DEF FitsBoth, Given
    <3>2. PICK v \in give(w, q, i) :
             \/ stopped' = TRUE /\ UNCHANGED <<world, state, partner, goods>>
             \/ v.parent[j] # None /\ \E u \in give(v, p, j) : done(u)
      BY <2>2, <2>3, <2>6
    <3>3. CASE v.parent[j] # None /\ \E u \in give(v, p, j) : done(u)
      <4>1. PICK u \in give(v, p, j) : done(u) BY <3>3
      <4>2. Good(v) BY <1>2, <1>4, <2>1, <2>4, <3>1
      <4>3. Good(u) BY <1>4, <2>1, <3>3, <4>2
      <4>. QED BY <1>3, <4>1, <4>3
    <3>. QED BY <1>6, <3>2, <3>3
  <2>. QED BY <2>5, <2>6
<1>. QED BY <1>1, <1>6, <1>7 DEF AcceptBoth

\* A new offer is at hand, and neither in another one nor around it.
LEMMA RequestGoes ==
    ASSUME TradeInv, NEW p \in Players, NEW q \in Players, NEW i \in Placed(world),
           RequestTrade(p, q, i)
    PROVE  /\ Fine(world') /\ OffersAtHand'
           /\ \A t : Steady(world, world', t)
<1>1. /\ world' = [world EXCEPT !.offer[p] = i] /\ Reaches(world, p, i) /\ ~Traded(i)
  BY DEF RequestTrade
<1>2. world.offer \in [Players -> Items \cup {None}] BY DEF TradeInv, TradersInv
<1>3. PICK o : o = [world.offer EXCEPT ![p] = i] OBVIOUS
<1>4. o \in [Players -> Items \cup {None}] BY <1>2, <1>3 DEF Placed
<1>5. world' = [world EXCEPT !.offer = o] BY <1>1, <1>3
<1>6. Fine(world') BY <1>4, <1>5, OfferFine DEF TradeInv
<1>7. /\ world'.kind = world.kind /\ world'.count = world.count
      /\ world'.parent = world.parent /\ world'.at = world.at /\ world'.offer = o
  BY <1>5 DEF TradeInv, Fine, InPlace, Typed
<1>8. \A t : Steady(world, world', t) BY <1>7, SteadySame
<1>9. \A t : Ancestors(world', t) = Ancestors(world, t) BY <1>8 DEF Steady
<1>10. \A t : Root(world', t) = Root(world, t) BY <1>9, RootSame
<1>11. \A t : Spot(world', t) = Spot(world, t) BY <1>7, <1>10 DEF Spot
<1>12. o[p] = i /\ \A r \in Players \ {p} : o[r] = Offer(r) BY <1>2, <1>3 DEF Offer
<1>13. ASSUME NEW r \in Players, Offer(r) # None
       PROVE  Offer(r) \notin Ancestors(world, i) /\ i \notin Ancestors(world, Offer(r))
  <2>1. Offer(r) \in goods
    BY <1>13 DEF TradeInv, TradersInv, TradersAgree, Offered, Offer
  <2>. QED BY <1>1, <2>1 DEF Traded
<1>14. ASSUME NEW r \in Players, o[r] # None
       PROVE  /\ Spot(world', o[r]) = world'.at[r] /\ Root(world', o[r]) \in Tiles \cup {r}
              /\ \A x \in Players \ {r} : o[x] # None => o[x] \notin Ancestors(world', o[r])
  <2>1. CASE r = p
    <3>1. Root(world, i) \in Tiles \cup {p} /\ Spot(world, i) = world.at[p]
      BY <1>1, ReachedAt DEF TradeInv
    <3>. QED BY <1>7, <1>9, <1>10, <1>11, <1>12, <1>13, <2>1, <3>1
  <2>2. CASE r # p
    <3>1. o[r] = Offer(r) BY <1>12, <2>2
    <3>2. Root(world, Offer(r)) \in Tiles \cup {r} /\ Spot(world, Offer(r)) = world.at[r]
      BY <1>14, <3>1, OfferedThing
    <3>3. ASSUME NEW x \in Players \ {r}, o[x] # None
          PROVE  o[x] \notin Ancestors(world, Offer(r))
      <4>1. CASE x = p BY <1>12, <1>13, <1>14, <3>1, <4>1
      <4>2. CASE x # p
        <5>1. o[x] = Offer(x) BY <1>12, <4>2
        <5>. QED BY <1>14, <3>1, <3>3, <5>1 DEF TradeInv, OffersAtHand
      <4>. QED BY <4>1, <4>2
    <3>. QED BY <1>7, <1>9, <1>10, <1>11, <3>1, <3>2, <3>3
  <2>. QED BY <2>1, <2>2
<1>15. OffersAtHand' BY <1>7, <1>14 DEF OffersAtHand, Offer
<1>. QED BY <1>6, <1>8, <1>15

\* Every step: the things are in order, the offers at hand, and those that
\* stand are steady.
LEMMA TradeGoes ==
    ASSUME TradeInv, [TradeNext]_allVars
    PROVE  /\ Fine(world') /\ OffersAtHand'
           /\ \A p \in Players : world'.offer[p] # None /\ world'.offer[p] = world.offer[p]
                                 => Steady(world, world', world'.offer[p])
<1>1. CASE Goes(world, world') BY <1>1, GoesAtHand DEF Goes
<1>2. CASE \E p \in Players : \E q \in Players, i \in Placed(world) : RequestTrade(p, q, i)
  BY <1>2, RequestGoes
<1>3. CASE UNCHANGED allVars BY <1>1, <1>3, GoesSame DEF allVars, TradeInv
<1>4. ASSUME NEW p \in Players, AcceptAlone(p) PROVE Goes(world, world')
  BY <1>4, GoesSame DEF AcceptAlone, TradeInv
<1>5. ASSUME NEW p \in Players, AcceptBoth(p) PROVE Goes(world, world') BY <1>5, AcceptGoes
<1>6. ASSUME NEW p \in Players, PlayerCloseTrade(p) PROVE Goes(world, world')
  <2>1. CloseTrade(world, {p}) BY <1>6 DEF PlayerCloseTrade
  <2>2. \A r \in Players : Offer(r) # None =>
            Steady(world, world, Offer(r)) /\ Spot(world, Offer(r)) = world.at[r]
    BY OfferedThing DEF Steady
  <2>. QED BY <2>1, <2>2, GoesClose DEF TradeInv
<1>7. ASSUME NEW p \in Players, TradeWalk(p) PROVE Goes(world, world') BY <1>7, TradeWalkGoes
<1>8. ASSUME NEW p \in Players, TradeMove(p) PROVE Goes(world, world') BY <1>8, TradeMoveGoes
<1>9. ASSUME NEW p \in Players, TradeWindow(p) PROVE Goes(world, world')
  BY <1>9, TradeWindowGoes
<1>10. ASSUME NEW p \in Players, Leave(p) PROVE Goes(world, world') BY <1>10, LeaveGoes
<1>11. ASSUME TradeScript PROVE Goes(world, world') BY <1>11, TradeScriptGoes
<1>. QED BY <1>1, <1>2, <1>3, <1>4, <1>5, <1>6, <1>7, <1>8, <1>9, <1>10, <1>11 DEF TradeNext

\* The inductive invariant of a trade: two sides, things in order, offers at
\* hand.
THEOREM TradeInvariant == TradeSpec => []TradeInv
<1>1. TradeInit => Fine(world) /\ OffersAtHand
  <2>. SUFFICES ASSUME TradeInit PROVE Fine(world) /\ OffersAtHand OBVIOUS
  <2>1. Fine(world) BY StartAssumption DEF TradeInit, Fine
  <2>2. \A p \in Players : Offer(p) = None BY TradeAssumption DEF TradeInit, Offer
  <2>. QED BY <2>1, <2>2 DEF OffersAtHand
<1>2. TradersInv /\ Fine(world) /\ OffersAtHand /\ [TradeNext]_allVars
         => Fine(world)' /\ OffersAtHand'
  BY TradeGoes DEF TradeInv
<1>3. TradersInv /\ Fine(world) /\ OffersAtHand => TradeInv BY DEF TradeInv
<1>. QED BY <1>1, <1>2, <1>3, TradersInvariant, PTL DEF TradeSpec

\* A trade has two sides that know each other, every item that is offered is
\* known to Game::tradeItems, is somewhere and in no other offer, and is where
\* its owner is (Game::internalStartTrade, Player::checkTradeState,
\* internalCloseTrade).
THEOREM TradesAgree == TradeSpec => []TradeAgrees
<1>1. TradeInv => TradeAgrees BY DEF TradeInv, TradersInv, TradeAgrees
<1>. QED BY <1>1, TradeInvariant, PTL

\* As long as an offer stands, the thing that was looked at is the thing that
\* will be exchanged: it stays in what it was in, of the same kind and count,
\* and with all that was in it (Player::checkTradeState, called from every
\* notification).
THEOREM OffersStand == TradeSpec => OfferStands
<1>1. TradeInv /\ [TradeNext]_allVars =>
        [\A p \in Players :
            LET t == Offer(p) IN
            t # None /\ t = Offer(p)' =>
                /\ <<world.kind[t], world.count[t], world.parent[t]>>
                     = <<world'.kind[t], world'.count[t], world'.parent[t]>>
                /\ Holds(world, t) = Holds(world', t)]_allVars
  <2>. SUFFICES ASSUME TradeInv, [TradeNext]_allVars, NEW p \in Players,
                       Offer(p) # None, Offer(p) = Offer(p)'
                PROVE  LET t == Offer(p)
                       IN /\ <<world.kind[t], world.count[t], world.parent[t]>>
                               = <<world'.kind[t], world'.count[t], world'.parent[t]>>
                          /\ Holds(world, t) = Holds(world', t)
    OBVIOUS
  <2>1. Steady(world, world', Offer(p)) BY TradeGoes DEF Offer
  <2>. QED BY <2>1 DEF Steady
<1>. QED BY <1>1, TradeInvariant, PTL DEF TradeSpec, OfferStands
===============================================================================
