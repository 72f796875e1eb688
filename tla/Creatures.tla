------------------------------- MODULE Creatures ------------------------------
(* The life of the creatures of a world: entering and leaving it, thinking,    *)
(* and serving as a summon (sources/creature.cpp, monster.cpp, world.cpp).  A  *)
(* creature that thinks has one task that lets it think: the first is given to *)
(* the dispatcher at once, each later one is armed with the scheduler by the   *)
(* previous.  Everything here runs in tasks of the dispatcher, except that the *)
(* scheduler's thread moves a due task to the dispatcher at any moment, after  *)
(* which cancelTask() no longer finds it.                                      *)
(*                                                                             *)
(* A handler calls other handlers (a leaving master kills its summons, whose   *)
(* deaths notify it), so that the operations are functions of the state s of   *)
(* all creatures.  Their parameter "keen" is the set of creatures that have    *)
(* something to think about while the operation runs (what they see, fight or  *)
(* suffer), "deny" the set of those whose death a script denies.               *)
EXTENDS Naturals, FiniteSets, FiniteSetsExt

CONSTANTS Player, Monster,   \* the creature objects
          NoCreature,        \* a null CreatureP
          ThinkDuration      \* THINK_DURATION, in steps of the clock

ASSUME CreaturesAssumption == /\ Player \cap Monster = {}
                              /\ IsFiniteSet(Player \cup Monster)
                              /\ NoCreature \notin Player \cup Monster
                              /\ ThinkDuration \in Nat \ {0}

VARIABLE creature   \* the state of every creature and of its think tasks

Creature == Player \cup Monster

(* stage         "new" before addCreature, "world" in the world, "gone" after  *)
(* healthy       health > 0                                                    *)
(* thinkDuration _thinkDuration; thinkTaskId _thinkTaskId                      *)
(* queued        think tasks in the dispatcher's queue                         *)
(* armed         ids of the think tasks armed with the scheduler               *)
(* master        _master; summons the members of the list summons              *)
Newborn == [stage |-> "new", healthy |-> TRUE, thinkDuration |-> 0, thinkTaskId |-> 0,
            queued |-> 0, armed |-> {}, master |-> NoCreature, summons |-> {}]

TypeOK == creature \in [Creature -> [stage : {"new", "world", "gone"}, healthy : BOOLEAN,
                                     thinkDuration : 0..ThinkDuration, thinkTaskId : 0..2,
                                     queued : 0..3, armed : SUBSET (1..2),
                                     master : Monster \cup Player \cup {NoCreature},
                                     summons : SUBSET Monster]]

Init == creature = [c \in Creature |-> Newborn]

InWorld(s, c)  == s[c].stage = "world"
Living(t)      == t.stage = "world" /\ t.healthy
Alive(s, c)    == Living(s[c])
Thinking(s, c) == s[c].thinkDuration > 0

\* getFinalOwner() of c, its masters on the way, and c itself.
Owners(s, c) ==
    LET owners[n \in 0..Cardinality(Creature)] ==
            IF n = 0 THEN {c}
            ELSE owners[n - 1] \cup ({s[d].master : d \in owners[n - 1]} \ {NoCreature})
    IN owners[Cardinality(Creature)]

Controlled(s, c) == Owners(s, c) \cap Player # {}

-------------------------------------------------------------------------------
(* Faulty variants of the operations below, one per slip the code could        *)
(* contain; the specification uses none of them (README, "Mutants").           *)

StopThinkingLeavesTimer(t) ==            \* cancelTask is missing
    IF t.thinkDuration = 0 THEN t ELSE [t EXCEPT !.thinkTaskId = 0, !.thinkDuration = 0]

KillSummonsNot(s, c, deny, keen) == [s EXCEPT ![c].summons = {}]   \* nobody is killed

-------------------------------------------------------------------------------
\* startThinking() of a creature whose state is t.
Wake(t) ==
    IF t.thinkDuration = 0 /\ t.stage = "world" /\ t.healthy
    THEN [t EXCEPT !.thinkDuration = ThinkDuration, !.queued = @ + 1]
    ELSE t

StartThinking(s, S) == [c \in Creature |-> IF c \in S THEN Wake(s[c]) ELSE s[c]]

\* stopThinking() of a creature whose state is t; the scheduler no longer knows
\* a task that it has moved to the dispatcher.
StopThinking(t) ==
    IF t.thinkDuration = 0 THEN t
    ELSE [t EXCEPT !.armed = @ \ {t.thinkTaskId}, !.thinkTaskId = 0, !.thinkDuration = 0]

\* onMonsterMasterChanged() for the masters of m, the previous and the new one c.
MasterChanged(s, m, c, previous) ==
    [d \in Creature |->
        CASE d = m        -> [s[d] EXCEPT !.master = c]
          [] d = c        -> [s[d] EXCEPT !.summons = @ \cup {m}]
          [] d = previous -> [s[d] EXCEPT !.summons = @ \ {m}]
          [] OTHER        -> s[d]]

\* notifyMasterChanged(): the masters hear of it even when they do not see the
\* monster; bystanders only of a monster that is alive.
Notified(s, m, c, previous, keen) == IF Alive(s, m) THEN keen ELSE keen \cap {previous, c}

SetMaster(s, m, c, keen) ==
    LET previous == s[m].master
    IN IF c = previous THEN s
       ELSE StartThinking(MasterChanged(s, m, c, previous), Notified(s, m, c, previous, keen))

\* The summons of c, those of theirs and so on that die when c's are killed.
Doomed(s, c, deny) ==
    LET victims(S) == {m \in UNION {s[d].summons : d \in S} : Alive(s, m) /\ m \notin deny}
        doomed[n \in 0..Cardinality(Monster)] ==
            IF n = 0 THEN victims({c}) ELSE doomed[n - 1] \cup victims(doomed[n - 1])
    IN doomed[Cardinality(Monster)]

\* killSummons(): the list is emptied first and every summon released after it
\* was killed, one whose death is denied too: it stays, without health.  c, the
\* previous master, hears of each release and may start to think.
KillSummons(s, c, deny, keen) ==
    LET dead   == Doomed(s, c, deny)
        spared == (UNION {s[d].summons : d \in dead \cup {c}}) \ dead
        killed == [d \in Creature |->
                     CASE d \in dead   -> [StopThinking(s[d]) EXCEPT
                                             !.stage = "gone", !.healthy = FALSE,
                                             !.master = NoCreature, !.summons = {}]
                       [] d \in spared -> [s[d] EXCEPT !.healthy = FALSE, !.master = NoCreature]
                       [] d = c        -> [s[d] EXCEPT !.summons = {}]
                       [] OTHER        -> s[d]]
    IN IF s[c].summons = {} THEN killed ELSE StartThinking(killed, {c} \cap keen)

\* willExitWorld(): a monster is released first, and tells its master.
WillExitWorld(s, c, deny, keen) ==
    LET released == IF c \in Monster THEN SetMaster(s, c, NoCreature, keen) ELSE s
    IN KillSummons([released EXCEPT ![c] = StopThinking(@)], c, deny, keen)

\* World::removeCreature()
ExitWorld(s, c, deny, keen) == [WillExitWorld(s, c, deny, keen) EXCEPT ![c].stage = "gone"]

\* changeHealth() down to 0, with onDeath().
Die(s, c, deny, keen) ==
    LET dead == [s EXCEPT ![c].healthy = FALSE]
    IN IF c \in deny THEN dead ELSE ExitWorld(dead, c, deny, keen)

\* World::addCreature(); c and those who see it appear may start to think.
EnterWorld(s, c, keen) == StartThinking([s EXCEPT ![c].stage = "world"], keen)

CanBeConvincedBy(s, m, c) == /\ m # c
                             /\ s[m].master # c
                             /\ s[m].master # NoCreature => ~Controlled(s, s[m].master)

\* Game::placeSummon(): convince() is forced and the monster is new, so it obeys.
PlaceSummon(s, c, m, keen) == SetMaster(EnterWorld(s, m, keen), m, c, keen)

CanSummon(s, c, m) == Alive(s, c) /\ s[c].master = NoCreature /\ s[m].stage = "new"

\* onCreatureMove() of a creature that moved away from its summons in far.
Despawn(s, far, deny, keen) ==
    FoldSet(LAMBDA m, t : IF InWorld(t, m) THEN ExitWorld(t, m, deny, keen) ELSE t, s, far)

\* What onThink() of c may do to the creatures: nothing, remove itself (despawn,
\* lost connection), make some creature die, place a summon, or move.
OnThink(s, c, deny, keen) ==
    {s, ExitWorld(s, c, deny, keen)}
        \cup {Die(s, d, deny, keen) : d \in {x \in Creature : Alive(s, x)}}
        \cup {PlaceSummon(s, c, m, keen) : m \in {x \in Monster : CanSummon(s, c, x)}}
        \cup {StartThinking(Despawn(s, far, deny, keen), keen) : far \in SUBSET s[c].summons}

\* The end of think(): the duration runs off unless there is something to think
\* about, and the next think task is armed.
FinishThinking(s, c, elapsed, keen) ==
    LET left   == s[c].thinkDuration
        stay   == CASE left > elapsed                     -> left - elapsed
                    [] left <= elapsed /\ c \in keen      -> ThinkDuration
                    [] left <= elapsed /\ c \notin keen   -> 0
        id     == Min((1..2) \ s[c].armed)
        awake  == [s EXCEPT ![c].thinkDuration = stay]
    IN IF ~Alive(s, c) \/ stay = 0 THEN [s EXCEPT ![c] = StopThinking(@)]
       ELSE IF s[c].thinkTaskId # 0 THEN awake
       ELSE [awake EXCEPT ![c].thinkTaskId = id, ![c].armed = @ \cup {id}]

-------------------------------------------------------------------------------
\* Players always have something to think about (Player::hasSomethingToThinkAbout).
Keen == {k \in SUBSET Creature : Player \subseteq k}

\* A script can deny the death of any creature that lives.
Deny == SUBSET {c \in Creature : Alive(creature, c)}

Enter(c) == /\ creature[c].stage = "new"
            /\ \E keen \in Keen : creature' = EnterWorld(creature, c, keen)

\* A logout, a script or a ban removes c.
Leave(c) == /\ InWorld(creature, c)
            /\ \E keen \in Keen, deny \in Deny :
                   creature' = ExitWorld(creature, c, deny, keen)

Kill(c) == /\ Alive(creature, c)
           /\ \E keen \in Keen, deny \in Deny :
                  creature' = Die(creature, c, deny, keen)

Move(c) == /\ Alive(creature, c)
           /\ \E keen \in Keen, deny \in Deny, far \in SUBSET creature[c].summons :
                  creature' = StartThinking(Despawn(creature, far, deny, keen), keen)

\* setAttackedCreature() and addCondition(): c starts to think whether or not it
\* sees anybody, and so may its summons.
Provoke(c) == \E keen \in Keen :
                 creature' = StartThinking(creature, {c} \cup (keen \cap creature[c].summons))

Convince(m, p) == /\ InWorld(creature, m) /\ InWorld(creature, p)
                  /\ CanBeConvincedBy(creature, m, p)
                  /\ \E keen \in Keen : creature' = SetMaster(creature, m, p, keen)

Summon(c, m) == /\ CanSummon(creature, c, m)
                /\ \E keen \in Keen : creature' = PlaceSummon(creature, c, m, keen)

\* A black skull: the player's summons are killed and it stays.
LoseSummons(p) == /\ Alive(creature, p)
                  /\ \E keen \in Keen, deny \in Deny :
                         creature' = KillSummons(creature, p, deny, keen)

\* The scheduler's thread moves the armed think task id of c to the dispatcher.
Fire(c, id) == /\ id \in creature[c].armed
               /\ creature' = [creature EXCEPT ![c].armed = @ \ {id}, ![c].queued = @ + 1]

\* The dispatcher executes a think task of c.
Think(c) ==
    /\ creature[c].queued > 0
    /\ LET taken == [creature EXCEPT ![c].queued = @ - 1]
           begun == [taken EXCEPT ![c].thinkTaskId = 0]
       IN IF ~Thinking(taken, c) THEN creature' = taken
          ELSE IF ~Alive(begun, c) THEN creature' = [begun EXCEPT ![c] = StopThinking(@)]
          ELSE \E keen \in Keen, deny \in Deny, elapsed \in 0..ThinkDuration :
                  \E thought \in OnThink(begun, c, deny, keen) :
                     creature' = FinishThinking(thought, c, elapsed, keen)

Next == \/ \E c \in Creature : \/ Enter(c) \/ Leave(c) \/ Kill(c) \/ Move(c) \/ Provoke(c)
                               \/ Think(c)
                               \/ \E id \in creature[c].armed : Fire(c, id)
                               \/ \E m \in Monster : Summon(c, m)
        \/ \E p \in Player : LoseSummons(p) \/ \E m \in Monster : Convince(m, p)

Spec == Init /\ [][Next]_creature

-------------------------------------------------------------------------------
(* Properties.                                                                 *)

\* A creature in the world that thinks has exactly one think task, armed or
\* queued: with none it would be deaf to every later startThinking(), with two
\* it would think at twice the rate for ever; and one that does not think has
\* none armed (startThinking, stopThinking and think, creature.cpp:746-897).
OneThinkTask ==
    \A c \in Creature :
        /\ Alive(creature, c) /\ Thinking(creature, c) =>
              creature[c].queued + Cardinality(creature[c].armed) = 1
        /\ creature[c].armed # {} =>
              /\ Thinking(creature, c) /\ InWorld(creature, c)
              /\ creature[c].armed = {creature[c].thinkTaskId}

\* A living summon is on its master's list, so that the master can take it along
\* in death, and its master is in the world (setMaster, killSummons and
\* willExitWorld); a creature that is gone serves nobody.
NoOrphans ==
    \A m \in Monster, c \in Creature :
        /\ creature[m].master = c /\ Alive(creature, m) =>
              InWorld(creature, c) /\ m \in creature[c].summons
        /\ m \in creature[c].summons => creature[m].master = c /\ InWorld(creature, m)

\* A player in good health never falls asleep (Player::hasSomethingToThinkAbout):
\* its ping, its conditions and its walking are driven by think().
PlayersThink == \A p \in Player : Alive(creature, p) => Thinking(creature, p)

\* A creature that is dead or has left the world may still be thinking: the
\* death of its summons wakes a creature on its way out, after stopThinking().
\* One more think task is then on its way, which finds it not alive and stops it
\* (think, creature.cpp:869); no timer is left for it.
TheDeadAreStopped ==
    \A c \in Creature : Thinking(creature, c) /\ ~Alive(creature, c) =>
                           /\ creature[c].queued > 0 \/ creature[c].armed # {}
                           /\ creature[c].stage = "gone" => creature[c].armed = {}

\* Whoever must think does so, once; and nobody else for long.
ThinkingAgrees == TypeOK /\ OneThinkTask /\ PlayersThink /\ TheDeadAreStopped
===============================================================================
