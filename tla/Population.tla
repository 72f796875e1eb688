------------------------------ MODULE Population ------------------------------
(***************************************************************************)
(* How the world is populated: one Spawn with its slots (spawn.cpp), the   *)
(* raids (raids.cpp), and the monsters and items that count for them       *)
(* (monster.cpp, item.cpp).  A monster holds raw pointers to its spawn and *)
(* its raid; the spawn checks its slots while fewer monsters are out than  *)
(* it has slots; a raid counts what it has put into the world, and may     *)
(* wait for it.  Everything runs in the dispatcher's thread; the tasks in  *)
(* between are those of the scheduler.                                     *)
(*                                                                         *)
(* A call is an operator from the state w it finds to the one it leaves.   *)
(* Left out: positions, times (whether one has come is a choice), chances, *)
(* the files, and NPCs, which enter once.                                  *)
(***************************************************************************)
EXTENDS Naturals, FiniteSets, Sequences

CONSTANTS
    Slots,      \* the keys of spawnMap: 1..n
    RateSpawn,  \* RATE_SPAWN of the configuration
    Raids,
    RefType,    \* of each raid: "none", "single" or "block"
    Events,     \* of each raid: what its events put into the world
    Brood, Horde,   \* the monsters of the spawn; the monsters and items of
                \* the raids (bounds)
    MaxChecks,  \* so many checks of the spawn, or more, are pending (a bound)
    MaxLost,    \* references that a raid may lose (a bound)
    None

ASSUME SlotsAssumption == /\ IsFiniteSet(Slots) /\ Slots = 1..Cardinality(Slots) /\ Slots # {}
                          /\ RateSpawn \in Nat \ {0} /\ MaxChecks \in Nat \ {0}
                          /\ IsFiniteSet(Brood) /\ Cardinality(Brood) >= Cardinality(Slots)
ASSUME RaidsAssumption == /\ RefType \in [Raids -> {"none", "single", "block"}]
                          /\ Events \in [Raids -> Seq({"monsters", "items", "other"})]
                          /\ IsFiniteSet(Horde) /\ None \notin Raids /\ MaxLost \in Nat

(***************************************************************************)
(* w.thing[m].stage is "none", "alive", "denied" (without health, but a    *)
(* script denied its death) or "item"; away: out of the zone of its slot.  *)
(* w.spawned is spawnedMap, pairs of a slot (0 for those that strayed) and *)
(* a monster; event is checkSpawnEvent # 0, checks the number of checks    *)
(* armed or queued.  w.ready are the slots whose interval is over; site    *)
(* says what is at a slot: nothing, a player who watches, or no room.      *)
(* w.raid[r].next is nextEvent # 0, task the event whose task is armed or  *)
(* queued; running is Raids::running.  lost is no variable of the code: it *)
(* says how many of the refs belong to an object that is gone.             *)
(***************************************************************************)
VARIABLES w, site
populationVars == <<w, site>>

Things == Brood \cup Horde
NoThing == [stage |-> "none", spawn |-> FALSE, raid |-> None, away |-> FALSE]
FreeIn(s, S) == {m \in S : s.thing[m].stage = "none"}
Entries(s, n) == {e \in s.spawned : e[1] = n}
Counts(s, m, r) == s.thing[m].raid = r
UsesRef(r) == RefType[r] # "none"

(***************************************************************************)
(* Spawn.                                                                  *)
(***************************************************************************)
\* Scheduler::addTask for checkSpawn, and Spawn::startEvent.
Armed(s) == [s EXCEPT !.event = TRUE, !.checks = IF @ < MaxChecks THEN @ + 1 ELSE @]
StartEvent(s) == IF s.event THEN s ELSE Armed(s)
RemoveMonster(s, m) == [s EXCEPT !.spawned = {e \in @ : e[2] # m}]

\* Monster::removeFromSpawn
RemoveFromSpawnOnly(s, m) ==          \* mutant: nobody looks for a successor
    IF s.thing[m].spawn THEN [RemoveMonster(s, m) EXCEPT !.thing[m].spawn = FALSE] ELSE s
RemoveFromSpawn(s, m) ==
    IF s.thing[m].spawn THEN [StartEvent(RemoveMonster(s, m)) EXCEPT !.thing[m].spawn = FALSE]
    ELSE s

\* Spawn::spawnMonster.  A monster that finds no room leaves the spawn again.
SpawnMonster(s, n) ==
    LET m == CHOOSE x \in Brood : s.thing[x].stage = "none"
        born == [s EXCEPT !.ready = @ \ {n},
                          !.thing[m] = [NoThing EXCEPT !.stage = "alive", !.spawn = TRUE]]
    IN IF site[n] = "blocked"
       THEN [RemoveFromSpawn(born, m) EXCEPT !.thing[m] = NoThing]
       ELSE [born EXCEPT !.spawned = @ \cup {<<n, m>>}]

\* Spawn::startup
Startup(s) ==
    LET filled[n \in 0..Cardinality(Slots)] ==
            IF n = 0 THEN s ELSE SpawnMonster(filled[n - 1], n)
    IN filled[Cardinality(Slots)]

\* The loops of checkSpawn: the dead give up their slots and the strayed are
\* kept under slot 0; then at most RateSpawn slots are tried.
Looked(s) ==
    LET dead == {e \in s.spawned : s.thing[e[2]].stage # "alive"}
    IN [s EXCEPT !.ready = @ \ {e[1] : e \in dead},
                 !.spawned = {IF s.thing[e[2]].away THEN <<0, e[2]>> ELSE e : e \in @ \ dead},
                 !.thing = [m \in Things |-> [@[m] EXCEPT !.away = FALSE]]]
Visited(s, n) ==
    IF s.tried >= RateSpawn \/ n \notin s.ready \/ Entries(s, n) # {} THEN s
    ELSE IF site[n] = "watched" THEN [s EXCEPT !.ready = @ \ {n}]
    ELSE [SpawnMonster(s, n) EXCEPT !.tried = @ + 1]
RearmedIfNone(s) == IF s.spawned = {} THEN Armed(s) ELSE s    \* mutant: one is enough
Rearmed(s) == IF Cardinality(s.spawned) < Cardinality(Slots) THEN Armed(s) ELSE s

\* The slots are tried in the order of spawnMap.
Swept(s) ==
    LET swept[n \in 0..Cardinality(Slots)] == IF n = 0 THEN s ELSE Visited(swept[n - 1], n)
    IN swept[Cardinality(Slots)]
KeepSites == UNCHANGED site

\* The bound on the monsters is met.
Crowded == /\ Cardinality(FreeIn(w, Brood)) < RateSpawn
           /\ \E n \in Slots : Entries(Looked(w), n) = {}

\* Spawn::checkSpawn, a task.  Of MaxChecks or more there may be as many left.
CheckSpawn ==
    /\ w.checks > 0 /\ ~Crowded
    /\ \E left \in {w.checks - 1} \cup (IF w.checks = MaxChecks THEN {MaxChecks} ELSE {}) :
          w' = [Rearmed(Swept(Looked([w EXCEPT !.event = FALSE, !.checks = left]))) EXCEPT !.tried = 0]
    /\ KeepSites

\* The interval of a slot is over; people come and go; monsters walk.
Ready(n) == n \notin w.ready /\ w' = [w EXCEPT !.ready = @ \cup {n}] /\ KeepSites
SiteChanges(n) == /\ \E x \in {"free", "watched", "blocked"} \ {site[n]} :
                        site' = [site EXCEPT ![n] = x]
                  /\ UNCHANGED w
Walk(m) == /\ w.thing[m].stage = "alive" /\ \E n \in Slots : <<n, m>> \in w.spawned
           /\ w' = [w EXCEPT !.thing[m].away = ~@] /\ KeepSites

(***************************************************************************)
(* Raids.                                                                  *)
(***************************************************************************)
Resting == [refs |-> 0, count |-> 0, next |-> FALSE, task |-> 0, lost |-> 0]
Over(s, r) == IF s.running = r THEN [s EXCEPT !.running = None] ELSE s

\* Raid::resetRaid
ResetRaidLate(s, r, checkExecution) ==     \* mutant: SINGLE waits, too
    IF checkExecution /\ s.raid[r].next THEN s
    ELSE LET t == [s EXCEPT !.raid[r] = [@ EXCEPT !.next = FALSE, !.task = 0]]
         IN IF UsesRef(r) /\ s.raid[r].refs > 0 THEN t
            ELSE Over([t EXCEPT !.raid[r].count = 0], r)
ResetRaid(s, r, checkExecution) ==
    IF checkExecution /\ s.raid[r].next THEN s
    ELSE LET t == [s EXCEPT !.raid[r] = [@ EXCEPT !.next = FALSE, !.task = 0]]
         IN IF RefType[r] = "block" /\ s.raid[r].refs > 0 THEN t
            ELSE IF RefType[r] = "single" /\ s.raid[r].refs > 0 THEN Over(t, r)
            ELSE Over([t EXCEPT !.raid[r].count = 0], r)
UnRef(s, r) ==
    LET t == [s EXCEPT !.raid[r].refs = @ - 1]
    IN IF t.raid[r].refs <= 0 THEN ResetRaid(t, r, TRUE) ELSE t

\* getNextRaidEvent, and the task for it.
HasNext(s, r) == s.raid[r].count < Len(Events[r])
ArmNext(s, r) == LET k == s.raid[r].count + 1
                 IN [s EXCEPT !.raid[r] = [@ EXCEPT !.count = k, !.next = TRUE, !.task = k]]
StartRaid(s, r) ==
    IF s.raid[r].refs > 0 \/ ~HasNext(s, r) THEN s ELSE [ArmNext(s, r) EXCEPT !.running = r]

\* Raids::checkRaids: it is its time, and chance is with it.
CheckRaids(r) == /\ w.running = None /\ w.raid[r].refs = 0
                 /\ w' = StartRaid(w, r) /\ KeepSites
\* doExecuteRaid
ExecuteRaid(r) == /\ w.running = None /\ w' = StartRaid(w, r) /\ KeepSites

\* Monster(type, raid), Item::setRaid and Raid::addRef.
Placed(s, r, S, stage) ==
    [s EXCEPT !.thing = [m \in Things |-> IF m \in S
                THEN [NoThing EXCEPT !.stage = stage, !.raid = IF UsesRef(r) THEN r ELSE None]
                ELSE @[m]],
              !.raid[r].refs = IF UsesRef(r) THEN @ + Cardinality(S) ELSE @]

\* References without an object in the world that would give them back: Item has
\* no destructor for them (~Item), and a moved stack is a new object.
Lost(s, r, n) ==
    [s EXCEPT !.raid[r] = [s.raid[r] EXCEPT !.refs = @ + n, !.lost = @ + n]]
Losable(s, r) == IF UsesRef(r) THEN 0..(MaxLost - s.raid[r].lost) ELSE {0}

\* Raid::executeRaidEvent, a task.  An event fails before it places anything,
\* places what finds room, or fails at a later monster, or stack, of several.  An
\* item that is merged into a stack on the tile, or of which only a part that is
\* split off is placed, is counted although it is destroyed at once
\* (ItemSpawnEvent::executeEvent, internalAddItem); one may be left out by chance.
After(s, r, done) == IF done /\ HasNext(s, r) THEN ArmNext(s, r) ELSE ResetRaid(s, r, FALSE)
ExecuteRaidEvent(r) ==
    /\ w.raid[r].task # 0
    /\ LET begun == [w EXCEPT !.raid[r].task = 0]
           kind == Events[r][w.raid[r].task]
       IN \/ w' = After(begun, r, FALSE)
          \/ kind = "other" /\ w' = After(begun, r, TRUE)
          \/ /\ kind = "items"
             /\ \E S \in SUBSET FreeIn(w, Horde), n \in Losable(w, r), done \in BOOLEAN :
                   w' = After(Lost(Placed(begun, r, S, "item"), r, n), r, done)
          \/ /\ kind = "monsters"
             /\ \E S \in SUBSET FreeIn(w, Horde), done \in BOOLEAN :
                   w' = After(Placed(begun, r, S, "alive"), r, done)
    /\ KeepSites

(***************************************************************************)
(* Monsters and items.                                                     *)
(***************************************************************************)
RemoveFromRaid(s, m) ==
    IF s.thing[m].raid = None THEN s
    ELSE [UnRef(s, s.thing[m].raid) EXCEPT !.thing[m].raid = None]
Gone(s, m) == [s EXCEPT !.thing[m] = NoThing]

\* Monster::willExitWorld: killed, despawned, removed.
MonsterExits(m) == /\ w.thing[m].stage \in {"alive", "denied"}
                   /\ w' = Gone(RemoveFromRaid(RemoveFromSpawn(w, m), m), m) /\ KeepSites
\* Monster::setMaster: convinced, it is of no concern here any more.
MonsterConvinced(m) == /\ w.thing[m].stage = "alive"
                       /\ w' = Gone(RemoveFromSpawn(RemoveFromRaid(w, m), m), m) /\ KeepSites
\* Item::onRemoved, by internalRemoveItem, and doItemRaidUnref.  The item is of no
\* concern any more even if it stays: removed in part, or asked whether it can be.
OnRemoved(m) == /\ w.thing[m].stage = "item"
                /\ w' = Gone(RemoveFromRaid(w, m), m) /\ KeepSites
\* The item goes without a word: a stack that is moved as a whole, or into another
\* one (internalMoveItem), an item replaced by one of another type
\* (transformItem), what is destroyed with a container or a player (~Item).
Vanished(s, m) ==
    LET r == s.thing[m].raid
    IN Gone(IF r = None THEN s ELSE [s EXCEPT !.raid[r].lost = @ + 1], m)
Vanish(m) == /\ w.thing[m].stage = "item"
             /\ w.thing[m].raid # None => w.raid[w.thing[m].raid].lost < MaxLost
             /\ w' = Vanished(w, m) /\ KeepSites
\* Creature::onDeath: a script refuses.
DenyDeath(m) == /\ w.thing[m].stage = "alive"
                /\ w' = [w EXCEPT !.thing[m].stage = "denied", !.thing[m].away = FALSE] /\ KeepSites

\* Raids::reload, while nothing that was put into the world and no queued task
\* knows a raid; the armed task is cancelled.
Reload == /\ \A m \in Things : w.thing[m].raid = None
          /\ w' = [w EXCEPT !.raid = [r \in Raids |-> Resting], !.running = None] /\ KeepSites

\* Spawns::startup tries every slot once.
PopulationInit ==
    /\ site \in [Slots -> {"free", "blocked"}]
    /\ w = Startup([thing |-> [m \in Things |-> NoThing], spawned |-> {}, event |-> FALSE,
                    checks |-> 0, ready |-> {}, tried |-> 0,
                    raid |-> [r \in Raids |-> Resting], running |-> None])
PopulationNext ==
    \/ CheckSpawn
    \/ \E n \in Slots : Ready(n) \/ SiteChanges(n)
    \/ \E m \in Things : Walk(m) \/ MonsterExits(m) \/ MonsterConvinced(m) \/ DenyDeath(m)
    \/ \E m \in Horde : OnRemoved(m) \/ Vanish(m)
    \/ \E r \in Raids : CheckRaids(r) \/ ExecuteRaid(r) \/ ExecuteRaidEvent(r)
    \/ Reload

\* The tasks run and time passes; nothing is assumed of monsters and players.
PopulationSpec ==
    /\ PopulationInit /\ [][PopulationNext]_populationVars
    /\ WF_populationVars(CheckSpawn) /\ \A n \in Slots : WF_populationVars(Ready(n))
    /\ \A r \in Raids : WF_populationVars(ExecuteRaidEvent(r))
-------------------------------------------------------------------------------
PopulationTypeOK ==
    /\ w.thing \in [Things -> [stage : {"none", "alive", "denied", "item"}, spawn : BOOLEAN,
                               raid : Raids \cup {None}, away : BOOLEAN]]
    /\ w.spawned \subseteq (Slots \cup {0}) \X Brood /\ w.ready \subseteq Slots
    /\ w.event \in BOOLEAN /\ w.checks \in 0..MaxChecks /\ w.tried = 0
    /\ \A r \in Raids : /\ w.raid[r].refs \in Nat /\ w.raid[r].lost \in 0..MaxLost
                        /\ w.raid[r].count \in 0..Len(Events[r])
                        /\ w.raid[r].task \in 0..Len(Events[r])
    /\ w.running \in Raids \cup {None} /\ site \in [Slots -> {"free", "watched", "blocked"}]

\* A living monster of the spawn is in its books, once; a slot has one at most
\* (spawnMonster, checkSpawn, removeMonster).
SpawnedAgree ==
    /\ \A m \in Brood : w.thing[m].spawn /\ w.thing[m].stage = "alive"
          => Cardinality({e \in w.spawned : e[2] = m}) = 1
    /\ \A e \in w.spawned : w.thing[e[2]].spawn
    /\ \A n \in Slots : Cardinality(Entries(w, n)) <= 1

\* As long as fewer monsters are out than there are slots a check is pending,
\* however they were lost (startEvent, checkSpawn).
SlotsWatched == /\ w.event => w.checks > 0
                /\ w.checks > 0 \/ Cardinality(w.spawned) >= Cardinality(Slots)

\* A raid counts what is in the world and refers to it, each thing once, and nothing
\* else but the references of items that went without a word; one that places
\* monsters only counts exactly (addRef, unRef).
Counting(r) == {m \in Horde : Counts(w, m, r)}
PlacesItems(r) == \E k \in 1..Len(Events[r]) : Events[r][k] = "items"
RefsAgree == \A r \in Raids :
    /\ w.raid[r].refs = Cardinality(Counting(r)) + w.raid[r].lost
    /\ w.raid[r].lost > 0 => PlacesItems(r)

\* One raid runs at a time: it has a task, or waits for what it has put into the
\* world; a raid at rest that nothing refers to begins with its first event
\* (resetRaid, executeRaidEvent).
RaidsDriven == \A r \in Raids :
    /\ w.raid[r].task # 0 <=> w.raid[r].next
    /\ w.raid[r].next => w.running = r
    /\ w.running = r => w.raid[r].next \/ (RefType[r] = "block" /\ w.raid[r].refs > 0)
    /\ w.running # r /\ w.raid[r].refs = 0 => w.raid[r].count = 0

\* What the spawn and the raids know of the world is what is there.
PopulationAgrees == PopulationTypeOK /\ SpawnedAgree /\ SlotsWatched /\ RefsAgree /\ RaidsDriven

\* A slot is filled again, unless a player watches it, a monster that strayed
\* takes its place in the books, or the tries are used up for others, which die
\* all the time or find no room (checkSpawn).
Hindered(n) == \/ site[n] = "watched" \/ \E k \in Slots : site[k] = "blocked"
               \/ Entries(w, 0) # {} \/ Crowded
SlotsFill ==
    \A n \in Slots :
        \/ []<>(Entries(w, n) # {} \/ Hindered(n))
        \/ []<><<\E m \in Brood : MonsterExits(m) \/ MonsterConvinced(m) \/ DenyDeath(m)>>_populationVars

\* A raid does not run for ever, unless it waits for something in the world, or
\* has lost the reference of an item, which nobody can give back
\* (executeRaidEvent, resetRaid).
Waits(r) == RefType[r] = "block" /\ (Counting(r) # {} \/ w.raid[r].lost > 0)
RaidsEnd == []<>(w.running = None \/ Waits(w.running))
===============================================================================
