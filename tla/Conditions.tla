------------------------------ MODULE Conditions ------------------------------
(***************************************************************************)
(* The conditions of a player (condition.cpp, creature.cpp, player.cpp):   *)
(* haste and paralysis, attributes, invisibility and the fight he is in,   *)
(* given by spells and by a worn ring, ended by time, dispelled, and kept  *)
(* while he is away.                                                       *)
(*                                                                         *)
(* Every condition has two clocks: endTime, the instant it ends, and       *)
(* ticks, what is saved, which only the player's onThink() moves.  Here    *)
(* "left" is endTime - OTSYS_TIME().  Time passes in units of which        *)
(* onThink() takes at most Lag.  A call is an operator from a player to    *)
(* the player it leaves.  All of it runs in the dispatcher's thread.       *)
(*                                                                         *)
(* Left out: sub-ids, suppression by items, damage over time,              *)
(* regeneration, light, outfits, and deltas computed at random.            *)
(***************************************************************************)
EXTENDS Integers, FiniteSets, FiniteSetsExt

CONSTANTS
    Books,      \* sets of conditions that spells, items and scripts may add (a bound)
    RingSpeed,  \* what the worn ring adds to the speed; it makes invisible, too
    PzTicks, SkullTicks,    \* pzLocked and whiteSkullTime of the configuration
    Lag,        \* units of time between two thoughts, at most (a bound)
    Never,      \* an endTime that was never set
    Null

ASSUME GivenAssumption ==
    /\ IsFiniteSet(UNION Books) /\ RingSpeed \in Int
    /\ \A c \in UNION Books : /\ c.id \in {"COMBAT", "DEFAULT"}
                              /\ c.ticks \in Nat \ {0} /\ c.delta \in Int
ASSUME TicksAssumption == {PzTicks, SkullTicks} \subseteq Nat \ {0} /\ Lag \in Nat

VARIABLES
    me,         \* the player in the world, or Null
    stored,     \* the conditions in the database, while he is away
    elapsed,    \* time since his last thought, or since he left
    oldAccuracy,    \* OLD_CONDITION_ACCURACY of the configuration
    given       \* one of Books
conditionsVars == <<me, stored, elapsed, oldAccuracy, given>>
config == <<oldAccuracy, given>>

(***************************************************************************)
(* me.conds[k] is Null or what Creature::conditions holds for the key k;   *)
(* speed and stat are varSpeed and varStats; shown is what spectators were *)
(* last told; pz is pzLocked; worn is inventoryAbilities of the ring's     *)
(* slot.  A key's id may be "RING", the slot.                              *)
(***************************************************************************)
InFight(t) == [type |-> "INFIGHT", id |-> "DEFAULT", ticks |-> t, delta |-> 0]
RingInvisible == [type |-> "INVISIBLE", id |-> "RING", ticks |-> -1, delta |-> 0]
Key(c) == <<c.type, c.id>>
Keys == {Key(c) : c \in (UNION Books) \cup {InFight(PzTicks), RingInvisible}}

\* ticks is -1 for as long as the item is worn.
Condition == [ticks : Nat \cup {-1}, left : Int \cup {Never}, delta : Int]
PlayerRecord == [conds : [Keys -> Condition \cup {Null}], speed : Int, stat : Int,
                 shown : BOOLEAN, pz : BOOLEAN, worn : BOOLEAN]
ASSUME NullAssumption == Never \notin Int /\ Null \notin Condition \cup PlayerRecord

Nobody == [conds |-> [k \in Keys |-> Null], speed |-> 0, stat |-> 0,
           shown |-> TRUE, pz |-> FALSE, worn |-> FALSE]

Attached(p) == {k \in Keys : p.conds[k] # Null}
OfType(p, t) == {k \in Attached(p) : k[1] = t}
Persistent(k, a) == a.ticks > 0 /\ k[2] # "COMBAT"      \* isPersistent
Expired(a) == a.left # Never /\ a.left < 0

\* Creature::hasCondition: with the time checked, one whose time is over
\* does not count even while it is still attached.
HasAttached(p, t) == OfType(p, t) # {}
HasCondition(p, t) ==
    \E k \in OfType(p, t) : oldAccuracy \/ ~Expired(p.conds[k])

\* Condition::setTicks and startCondition.
SetTicks(a, t) == [a EXCEPT !.ticks = t, !.left = IF t > 0 THEN t ELSE @]
Started(c) == SetTicks([ticks |-> 0, left |-> Never, delta |-> c.delta], c.ticks)

\* What a change of its delta does to the player (changeSpeed, setVarStats).
Bump(p, t, n) ==
    CASE t \in {"HASTE", "PARALYZE"} -> [p EXCEPT !.speed = @ + n]
      [] t = "ATTRIBUTES"            -> [p EXCEPT !.stat = @ + n]
      [] OTHER                       -> p

\* Condition::endCondition and Creature/Player::onEndCondition of a
\* condition that was just erased from the list.
Unlocked(p) == [p EXCEPT !.pz = FALSE]
Shown(p) == [p EXCEPT !.shown = TRUE]
OnEndCondition(p, t) ==
    IF t = "INVISIBLE" /\ ~HasAttached(p, t) THEN Shown(p)
    ELSE IF t = "INFIGHT" THEN Unlocked(p) ELSE p
Detach(p, k) ==
    OnEndCondition(Bump([p EXCEPT !.conds[k] = Null], k[1], -p.conds[k].delta), k[1])
DetachAll(p, ks) == FoldSet(LAMBDA k, q : Detach(q, k), p, ks)

\* Creature::onAddCondition
OnAddHasteOnly(p, t, had) ==    \* mutant: paralysis adds to haste
    CASE t = "INVISIBLE" /\ ~had -> [p EXCEPT !.shown = FALSE]
      [] t = "HASTE" /\ HasCondition(p, "PARALYZE") -> DetachAll(p, OfType(p, "PARALYZE"))
      [] OTHER -> p
OnAddCondition(p, t, had) ==
    CASE t = "INVISIBLE" /\ ~had -> [p EXCEPT !.shown = FALSE]
      [] t = "PARALYZE" /\ HasCondition(p, "HASTE") -> DetachAll(p, OfType(p, "HASTE"))
      [] t = "HASTE" /\ HasCondition(p, "PARALYZE") -> DetachAll(p, OfType(p, "PARALYZE"))
      [] OTHER -> p

\* Condition::updateCondition, and ConditionSpeed's own test.
Updates(a, c) ==
    IF c.type \in {"HASTE", "PARALYZE"} THEN a.ticks # -1 \/ c.ticks <= 0
    ELSE /\ a.ticks # -1 \/ c.ticks < 1
         /\ c.ticks < 0 \/ a.left = Never \/ a.left <= c.ticks

\* addCondition() of the kinds of condition: one of the same key is merged.
MergeOnTop(p, c) ==    \* mutant: the old delta stays
    LET a == p.conds[Key(c)] IN
    IF ~Updates(a, c) THEN p
    ELSE Bump([p EXCEPT !.conds[Key(c)] = [SetTicks(a, c.ticks) EXCEPT !.delta = c.delta]],
              c.type, c.delta)
Merge(p, c) ==
    LET a == p.conds[Key(c)] IN
    IF ~Updates(a, c) THEN p
    ELSE Bump([p EXCEPT !.conds[Key(c)] = [SetTicks(a, c.ticks) EXCEPT !.delta = c.delta]],
              c.type, c.delta - a.delta)

\* Creature::addCondition
AddCondition(p, c) ==
    IF p.conds[Key(c)] # Null THEN Merge(p, c)
    ELSE LET had == HasAttached(p, c.type)
             q == Bump([p EXCEPT !.conds[Key(c)] = Started(c)], c.type, c.delta)
         IN OnAddCondition(q, c.type, had)

\* Creature::executeConditions
Spent(a, t) == IF a.ticks = -1 THEN a ELSE [a EXCEPT !.ticks = IF @ > t THEN @ - t ELSE 0]
Ticked(p, t) ==
    [p EXCEPT !.conds = [k \in Keys |-> IF k \in Attached(p) THEN Spent(@[k], t) ELSE @[k]]]
ExecuteNothing(p, t) == Ticked(p, t)    \* mutant: none is erased
ExecuteConditions(p, t) ==
    DetachAll(Ticked(p, t), {k \in Attached(p) : p.conds[k].ticks # -1 /\ p.conds[k].left < 0})

\* Creature::removeConditions(reason, onlyPersistent)
RemoveConditions(p, onlyPersistent) ==
    DetachAll(p, {k \in Attached(p) : onlyPersistent => Persistent(k, p.conds[k])})
-------------------------------------------------------------------------------
Nothing == [k \in Keys |-> Null]
ConditionsInit == /\ me = Nobody /\ stored = Nothing /\ elapsed = 0
                  /\ oldAccuracy \in BOOLEAN /\ given \in Books

Keep == UNCHANGED <<stored, elapsed, config>>

\* A spell, a potion or a script gives a condition.
Give(c) == me # Null /\ me' = AddCondition(me, c) /\ Keep

\* Player::onAttackedCreature and addInFightTicks: he attacks or is
\* attacked, and is locked if the other is a player he may not fight.
Fight(pzLock) ==
    /\ me # Null
    /\ LET p == AddCondition(me, InFight(PzTicks))
       IN me' = [p EXCEPT !.pz = @ \/ pzLock]
    /\ Keep

\* Player::onKilledCreature, the killed one a player.
OnKilledPlayer == /\ me # Null /\ HasCondition(me, "INFIGHT")
                  /\ me' = AddCondition([me EXCEPT !.pz = TRUE], InFight(SkullTicks))
                  /\ Keep

\* Creature::removeCondition(attacker, type), a dispelling spell, with
\* Player::onCombatRemoveCondition: those of items stay; while he may not
\* act (delay > 0) the others get that time instead.
Dispel(t, delay) ==
    /\ me # Null /\ HasAttached(me, t)
    /\ LET ks == {k \in OfType(me, t) : k[2] # "RING"}
       IN me' = IF delay = 0 THEN DetachAll(me, ks)
                ELSE [me EXCEPT !.conds = [k \in Keys |->
                        IF k \in ks THEN SetTicks(@[k], delay) ELSE @[k]]]
    /\ Keep

\* doRemoveConditions(cid, onlyPersistent) of a script.
Cleanse(onlyPersistent) ==
    me # Null /\ me' = RemoveConditions(me, onlyPersistent) /\ Keep

\* MoveEvent::EquipItem and DeEquipItem, the ring's.
PutOn(p) ==
    IF p.worn THEN p
    ELSE [AddCondition([p EXCEPT !.worn = TRUE], RingInvisible) EXCEPT !.speed = @ + RingSpeed]
TakeOff(p) ==
    LET q == [p EXCEPT !.worn = FALSE, !.speed = @ - RingSpeed]
        k == Key(RingInvisible)
    IN IF k \in Attached(q) THEN Detach(q, k) ELSE q
Equip   == me # Null /\ ~me.worn /\ me' = PutOn(me) /\ Keep
DeEquip == me # Null /\ me.worn /\ me' = TakeOff(me) /\ Keep

\* The clock: a unit passes for the conditions attached, or while he is away.
Older(a) == IF a.left = Never \/ a.left < 0 THEN a ELSE [a EXCEPT !.left = @ - 1]
Aged(p) == [p EXCEPT !.conds = [k \in Keys |-> IF k \in Attached(p) THEN Older(@[k]) ELSE @[k]]]
Time == /\ elapsed < Lag /\ elapsed' = elapsed + 1
        /\ me' = IF me = Null THEN Null ELSE Aged(me)
        /\ UNCHANGED <<stored, config>>

\* Creature::onThink
Thought == /\ me # Null /\ elapsed > 0 /\ elapsed' = 0
           /\ me' = ExecuteConditions(me, elapsed)
           /\ UNCHANGED <<stored, config>>

\* IOLoginData::savePlayer, as the player leaves the world.
Saved(p) == [k \in Keys |-> IF k \in Attached(p) /\ Persistent(k, p.conds[k])
                            THEN p.conds[k] ELSE Null]
Depart(p) == /\ stored' = Saved(p) /\ me' = Null /\ elapsed' = 0
             /\ UNCHANGED config
Logout == me # Null /\ Depart(me)

\* Player::onDeath and dropCorpse: either he leaves the world, or he was in
\* an arena (LOOT_DROP_NONE) and is moved to his temple, where he is shown anew.
OnDeath == me # Null /\ Depart(RemoveConditions(me, TRUE))
DieInArena ==
    /\ me # Null
    /\ LET p == RemoveConditions(me, TRUE)
       IN me' = [p EXCEPT !.pz = FALSE, !.shown = ~HasAttached(p, "INVISIBLE")]
    /\ Keep

\* Player::willEnterWorld, then onCreatureAppear, which equips the ring.
\* A condition whose time has passed while he was away is not added.
Stored(k) == [type |-> k[1], id |-> k[2], delta |-> stored[k].delta,
              ticks |-> stored[k].ticks - elapsed]
Login(ring) ==
    /\ me = Null
    /\ LET back == {Stored(k) : k \in {j \in Keys : stored[j] # Null /\ stored[j].ticks > elapsed}}
           p == FoldSet(LAMBDA c, q : AddCondition(q, c), Nobody, back)
       IN me' = IF ring THEN PutOn(p) ELSE p
    /\ stored' = Nothing /\ elapsed' = 0 /\ UNCHANGED config

ConditionsNext ==
    \/ \E c \in given : Give(c)
    \/ \E pzLock \in BOOLEAN : Fight(pzLock)
    \/ OnKilledPlayer
    \/ \E t \in {k[1] : k \in Keys} \ {"INFIGHT"}, delay \in {0, 1} : Dispel(t, delay)
    \/ \E onlyPersistent \in BOOLEAN : Cleanse(onlyPersistent)
    \/ Equip
    \/ DeEquip
    \/ Time
    \/ Thought
    \/ Logout
    \/ OnDeath
    \/ DieInArena
    \/ \E ring \in BOOLEAN : Login(ring)

\* The dispatcher runs the thoughts of a player in the world, and time passes.
ConditionsSpec == /\ ConditionsInit /\ [][ConditionsNext]_conditionsVars
                  /\ WF_conditionsVars(Time) /\ WF_conditionsVars(Thought)
-------------------------------------------------------------------------------
ConditionsTypeOK == /\ me \in PlayerRecord \cup {Null}
                    /\ stored \in [Keys -> Condition \cup {Null}]
                    /\ elapsed \in 0..Lag /\ oldAccuracy \in BOOLEAN /\ given \in Books

Total(p, ts) == FoldSet(LAMBDA k, n : n + p.conds[k].delta, 0,
                        {k \in Attached(p) : k[1] \in ts})

\* What conditions and the ring have done to the speed and the attributes is
\* exactly what those still in force account for, whatever was merged, ended,
\* dispelled or given back at a login (Condition*::addCondition, endCondition).
SumsAgree == me # Null =>
    /\ me.speed = Total(me, {"HASTE", "PARALYZE"}) + (IF me.worn THEN RingSpeed ELSE 0)
    /\ me.stat = Total(me, {"ATTRIBUTES"})

\* Spectators see a player unless something still hides him: a spell that ends
\* under a worn ring does not show him, the last of the two does
\* (Creature::onAddCondition, onEndCondition).
SpectatorsAgree == me # Null => me.shown = ~HasAttached(me, "INVISIBLE")

\* A locked player is in a fight: the lock cannot be left behind by whatever
\* ended the fight (Player::onEndCondition).
LockedInFight == me # Null /\ me.pz => HasAttached(me, "INFIGHT")

\* Haste and paralysis end each other.  Without oldConditionAccuracy a haste
\* whose time is over is not seen by the paralysis, and may be prolonged.
HasteOrParalysed == me # Null /\ oldAccuracy =>
    ~(HasAttached(me, "HASTE") /\ HasAttached(me, "PARALYZE"))

\* The two clocks of a condition never differ by more than a thought: the
\* ticks saved are those left, up to Lag (setTicks, executeCondition).
ClocksAgree == me # Null =>
    \A k \in Attached(me) : LET a == me.conds[k] IN
        a.ticks = -1 \/ (a.left <= a.ticks + Lag /\ a.ticks <= a.left + Lag)

\* What conditions have done to the player, his spectators and the database is
\* what those in force account for.
ConditionsAgree == ConditionsTypeOK /\ SumsAgree /\ SpectatorsAgree /\ LockedInFight /\ ClocksAgree

\* A player who stops fighting does not stay locked: the fight ends by itself,
\* if he remains in the world (executeConditions, onEndCondition).
LockFades ==
    (<>[][\A b \in BOOLEAN : ~Fight(b) /\ ~OnKilledPlayer]_conditionsVars) => []<>(me = Null \/ ~me.pz)
===============================================================================
