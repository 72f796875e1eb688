----------------------------- MODULE CreaturesProofs ----------------------------
(* Proofs about the creatures, module Creatures: who must think has one task   *)
(* for it, and masters and summons know each other, for any number of          *)
(* creatures.  A handler calls others in the middle of its work, so that the   *)
(* invariant is one of the state s of all creatures and of the creature b      *)
(* that is thinking.                                                           *)
(*                                                                             *)
(* And, from "Spawns and raids" on, about where monsters come from, module     *)
(* Population: the books of the spawn and of the raids are those of the world. *)
(*                                                                             *)
(* And, from "The conditions of a player" on, about what conditions do to a    *)
(* player, module Conditions: it is what those in force account for.           *)
EXTENDS Creatures, Population, Conditions, FiniteSetTheorems, WellFoundedInduction, TLAPS

-------------------------------------------------------------------------------
(* The inductive invariant. *)

State == [stage : {"new", "world", "gone"}, healthy : BOOLEAN,
          thinkDuration : 0..ThinkDuration, thinkTaskId : 0..2,
          queued : 0..2, armed : SUBSET (1..2),
          master : Creature \cup {NoCreature}, summons : SUBSET Monster]

\* A creature in the world has a think task if and only if it thinks, and the id
\* of one that is armed.
Settled(t) ==
    IF t.thinkDuration = 0 THEN t.queued = 0 /\ t.armed = {}
    ELSE \/ t.queued = 1 /\ t.armed = {}
         \/ t.queued = 0 /\ t.armed = {t.thinkTaskId}

\* One that is gone has no timer; if it thinks a task will find it gone.
Left(t) == t.armed = {} /\ (t.thinkDuration # 0 => t.queued # 0)

Steady(t) == /\ t.stage = "new" => t = Newborn
             /\ t.stage = "world" => Settled(t)
             /\ t.stage = "gone" => Left(t)

\* While it thinks, its task is used up; it may be gone before the thought ends.
InThought(t) == \/ /\ t.stage = "world" /\ t.thinkDuration # 0
                   /\ t.thinkTaskId = 0 /\ t.queued = 0 /\ t.armed = {}
                \/ t.stage = "gone" /\ Left(t)

Tasks(s, b) == \A c \in Creature : IF c = b THEN InThought(s[c]) ELSE Steady(s[c])

\* Summons and masters know each other and are in the world.
Family(s) ==
    /\ \A m \in Monster, c \in Creature : s[m].master = c <=> m \in s[c].summons
    /\ \A m \in Creature, c \in Creature :
           s[m].master = c => m \in Monster /\ m # c /\ InWorld(s, m) /\ InWorld(s, c)

Good(s, b) == s \in [Creature -> State] /\ Tasks(s, b) /\ Family(s)

Awake(s) == \A p \in Player : Alive(s, p) => Thinking(s, p)

Inv == Good(creature, NoCreature) /\ Awake(creature)

-------------------------------------------------------------------------------
(* Starting and stopping to think. *)

\* Two states of a creature that differ in its think tasks only.
Same(t, u) == /\ t.stage = u.stage /\ t.healthy = u.healthy
              /\ t.master = u.master /\ t.summons = u.summons

\* A creature that starts to think does so once, with a task of its own.
LEMMA WakeLemma ==
    ASSUME NEW t \in State, Steady(t) \/ InThought(t)
    PROVE  /\ Wake(t) \in State /\ Same(t, Wake(t))
           /\ Steady(t) => Steady(Wake(t))
           /\ InThought(t) => Wake(t) = t
           /\ t.thinkDuration # 0 => Wake(t).thinkDuration # 0
           /\ Living(t) => Wake(t).thinkDuration # 0
<1>1. ThinkDuration \in Nat \ {0} BY CreaturesAssumption
<1>2. CASE t.thinkDuration = 0 /\ t.stage = "world" /\ t.healthy
  <2>1. Wake(t) = [t EXCEPT !.thinkDuration = ThinkDuration, !.queued = @ + 1]
    BY <1>2 DEF Wake
  <2>2. Steady(t) /\ ~InThought(t) BY <1>2 DEF InThought
  <2>3. t.queued = 0 /\ t.armed = {} BY <1>2, <2>2 DEF Steady, Settled
  <2>4. Wake(t) = [t EXCEPT !.thinkDuration = ThinkDuration, !.queued = 1]
    BY <2>1, <2>3
  <2>5. Wake(t) \in State /\ Same(t, Wake(t))
    <3>. DEFINE u == [t EXCEPT !.thinkDuration = ThinkDuration]
    <3>1. ThinkDuration \in 0..ThinkDuration BY <1>1
    <3>2. u \in State /\ Same(t, u) BY <3>1 DEF State, Same
    <3>3. Wake(t) = [u EXCEPT !.queued = 1] BY <2>4
    <3>4. 1 \in 0..2 OBVIOUS
    <3>. HIDE DEF u
    <3>. QED BY <3>2, <3>3, <3>4 DEF State, Same
  <2>6. /\ Wake(t).stage = "world" /\ Wake(t).thinkDuration # 0
        /\ Wake(t).queued = 1 /\ Wake(t).armed = {}
    BY <1>1, <1>2, <2>3, <2>4 DEF State
  <2>7. Steady(Wake(t)) BY <2>6 DEF Steady, Settled
  <2>. QED BY <2>2, <2>5, <2>6, <2>7
<1>3. CASE ~(t.thinkDuration = 0 /\ t.stage = "world" /\ t.healthy)
  <2>1. Wake(t) = t BY <1>3 DEF Wake
  <2>. QED BY <1>3, <2>1 DEF Same, Living
<1>. QED BY <1>2, <1>3

\* Families are a matter of masters, summons and stages.
LEMMA FamilyLemma ==
    ASSUME NEW s, NEW v, Family(s),
           \A c \in Creature : /\ v[c].master = s[c].master /\ v[c].summons = s[c].summons
                               /\ InWorld(s, c) => InWorld(v, c)
    PROVE  Family(v)
BY DEF Family, Creature

LEMMA StartThinkingLemma ==
    ASSUME NEW s, NEW b, NEW S, Good(s, b)
    PROVE  /\ Good(StartThinking(s, S), b)
           /\ \A c \in Creature : /\ Same(s[c], StartThinking(s, S)[c])
                                  /\ Thinking(s, c) => Thinking(StartThinking(s, S), c)
           /\ \A c \in S \cap Creature :
                  Alive(s, c) => Thinking(StartThinking(s, S), c)
<1>. DEFINE v == StartThinking(s, S)
<1>1. v = [c \in Creature |-> IF c \in S THEN Wake(s[c]) ELSE s[c]] BY DEF StartThinking
<1>2. ASSUME NEW c \in Creature
      PROVE  /\ v[c] \in State /\ Same(s[c], v[c])
             /\ IF c = b THEN InThought(v[c]) ELSE Steady(v[c])
             /\ s[c].thinkDuration # 0 => v[c].thinkDuration # 0
             /\ c \in S /\ Living(s[c]) => v[c].thinkDuration # 0
  <2>1. s[c] \in State /\ (IF c = b THEN InThought(s[c]) ELSE Steady(s[c]))
    BY DEF Good, Tasks
  <2>2. v[c] = IF c \in S THEN Wake(s[c]) ELSE s[c] BY <1>1
  <2>3. CASE c \in S BY <2>1, <2>2, <2>3, WakeLemma
  <2>4. CASE c \notin S BY <2>1, <2>2, <2>4 DEF Same
  <2>. QED BY <2>3, <2>4
<1>3. v \in [Creature -> State]
  <2>1. ASSUME NEW c \in Creature PROVE (IF c \in S THEN Wake(s[c]) ELSE s[c]) \in State
    BY <1>1, <1>2
  <2>. QED BY <1>1, <2>1
<1>4. Tasks(v, b) BY <1>2 DEF Tasks
<1>5. Family(v)
  <2>1. Family(s) BY DEF Good
  <2>2. ASSUME NEW c \in Creature
        PROVE  /\ v[c].master = s[c].master /\ v[c].summons = s[c].summons
               /\ InWorld(s, c) => InWorld(v, c)
    BY <1>2 DEF Same, InWorld
  <2>. HIDE DEF v
  <2>. QED BY <2>1, <2>2, FamilyLemma
<1>6. ASSUME NEW c \in Creature PROVE s[c].thinkDuration \in Nat /\ v[c].thinkDuration \in Nat
  <2>1. s[c] \in State /\ v[c] \in State BY <1>2 DEF Good
  <2>. QED BY <2>1, CreaturesAssumption DEF State
<1>7. Good(v, b) BY <1>3, <1>4, <1>5 DEF Good
<1>. QED BY <1>2, <1>6, <1>7 DEF Thinking, Alive

\* Who stops to think has no timer left; a task that is queued stays.
LEMMA StopThinkingLemma ==
    ASSUME NEW t \in State, Steady(t) \/ InThought(t)
    PROVE  LET u == StopThinking(t)
           IN /\ u \in State /\ Same(t, u) /\ u.thinkDuration = 0 /\ u.armed = {}
              /\ u.queued = t.queued
              /\ t.stage = "world" => u.queued < 2
              /\ t.stage = "world" /\ InThought(t) => u.queued = 0
<1>1. ThinkDuration \in Nat \ {0} BY CreaturesAssumption
<1>2. CASE t.thinkDuration = 0
  <2>1. StopThinking(t) = t BY <1>2 DEF StopThinking
  <2>2. t.armed = {}
    BY <1>2 DEF Steady, InThought, Settled, Left, Newborn, State
  <2>3. t.stage = "world" => t.queued = 0
    BY <1>2 DEF Steady, InThought, Settled, State
  <2>. QED BY <1>2, <2>1, <2>2, <2>3 DEF Same
<1>3. CASE t.thinkDuration # 0
  <2>1. StopThinking(t) = [t EXCEPT !.armed = @ \ {t.thinkTaskId}, !.thinkTaskId = 0,
                                    !.thinkDuration = 0]
    BY <1>3 DEF StopThinking
  <2>2. t.armed \subseteq {t.thinkTaskId} /\ (t.stage = "world" => t.queued < 2)
    BY <1>3 DEF Steady, InThought, Settled, Left, Newborn, State
  <2>3. t.armed \ {t.thinkTaskId} = {} BY <2>2
  <2>4. StopThinking(t) = [t EXCEPT !.armed = {}, !.thinkTaskId = 0, !.thinkDuration = 0]
    BY <2>1, <2>3
  <2>5. StopThinking(t) \in State
    <3>. DEFINE u == [t EXCEPT !.armed = {}]
    <3>. DEFINE v == [u EXCEPT !.thinkTaskId = 0]
    <3>1. u \in State BY DEF State
    <3>2. v \in State
      <4>. HIDE DEF u
      <4>1. 0 \in 0..2 OBVIOUS
      <4>. QED BY <3>1, <4>1 DEF State
    <3>3. 0 \in 0..ThinkDuration BY <1>1
    <3>4. StopThinking(t) = [v EXCEPT !.thinkDuration = 0] BY <2>4
    <3>. HIDE DEF v
    <3>. QED BY <3>2, <3>3, <3>4 DEF State
  <2>6. t.stage = "world" /\ InThought(t) => t.queued = 0 BY DEF InThought
  <2>. QED BY <2>2, <2>4, <2>5, <2>6 DEF State, Same
<1>. QED BY <1>2, <1>3

-------------------------------------------------------------------------------
(* Masters and summons. *)

\* A creature whose master, summons or health change while it is in the world.
SameTasks(t, u) == /\ t.stage = "world" /\ u.stage = "world"
                   /\ u.thinkDuration = t.thinkDuration /\ u.thinkTaskId = t.thinkTaskId
                   /\ u.queued = t.queued /\ u.armed = t.armed

LEMMA SameTasksLemma ==
    ASSUME NEW t, NEW u, SameTasks(t, u)
    PROVE  (Steady(t) => Steady(u)) /\ (InThought(t) => InThought(u))
BY DEF SameTasks, Steady, InThought, Settled, Left

LEMMA MasterChangedLemma ==
    ASSUME NEW s, NEW b, Good(s, b), NEW m \in Monster, InWorld(s, m),
           NEW c \in Creature \cup {NoCreature}, c # m, c # s[m].master,
           c # NoCreature => InWorld(s, c)
    PROVE  LET v == MasterChanged(s, m, c, s[m].master)
           IN /\ Good(v, b) /\ v[m].master = c
              /\ \A d \in Creature : /\ v[d].stage = s[d].stage /\ v[d].healthy = s[d].healthy
                                     /\ v[d].thinkDuration = s[d].thinkDuration
<1>. DEFINE previous == s[m].master
            v == MasterChanged(s, m, c, previous)
<1>1. m \in Creature /\ s \in [Creature -> State] /\ NoCreature \notin Creature
  BY CreaturesAssumption DEF Creature, Good
<1>2. previous # m /\ (previous \in Creature => InWorld(s, previous))
      /\ previous \in Creature \cup {NoCreature}
  BY <1>1 DEF Good, Family, State
<1>3. v = [d \in Creature |->
             CASE d = m        -> [s[d] EXCEPT !.master = c]
               [] d = c        -> [s[d] EXCEPT !.summons = @ \cup {m}]
               [] d = previous -> [s[d] EXCEPT !.summons = @ \ {m}]
               [] OTHER        -> s[d]]
  BY DEF MasterChanged
<1>. HIDE DEF v, previous
<1>a. c # previous BY DEF previous
<1>4. v[m] = [s[m] EXCEPT !.master = c] BY <1>1, <1>2, <1>3, <1>a
<1>5. c \in Creature => v[c] = [s[c] EXCEPT !.summons = @ \cup {m}]
  BY <1>1, <1>2, <1>3, <1>a
<1>6. previous \in Creature => v[previous] = [s[previous] EXCEPT !.summons = @ \ {m}]
  BY <1>1, <1>2, <1>3, <1>a
<1>7. \A d \in Creature \ {m, c, previous} : v[d] = s[d] BY <1>3
<1>8. ASSUME NEW d \in Creature
      PROVE  /\ v[d] \in State
             /\ v[d].stage = s[d].stage /\ v[d].healthy = s[d].healthy
             /\ v[d].thinkDuration = s[d].thinkDuration
             /\ v[d] = s[d] \/ SameTasks(s[d], v[d])
             /\ v[d].master = IF d = m THEN c ELSE s[d].master
             /\ v[d].summons = IF d = c THEN s[d].summons \cup {m}
                               ELSE IF d = previous THEN s[d].summons \ {m}
                               ELSE s[d].summons
  <2>1. s[d] \in State BY <1>1
  <2>2. CASE d = m
    <3>1. d # c /\ d # previous BY <1>2, <2>2
    <3>2. v[d] = [s[d] EXCEPT !.master = c] /\ s[d].stage = "world"
      BY <1>4, <2>2 DEF InWorld
    <3>3. v[d] \in State BY <2>1, <3>2 DEF State
    <3>. QED BY <2>1, <2>2, <3>1, <3>2, <3>3 DEF State, SameTasks
  <2>3. CASE d = c
    <3>1. d # m /\ d # previous BY <1>a, <2>3
    <3>2. v[d] = [s[d] EXCEPT !.summons = @ \cup {m}] /\ s[d].stage = "world"
      BY <1>1, <1>5, <2>3 DEF InWorld
    <3>3. v[d] \in State BY <2>1, <3>2 DEF State
    <3>. QED BY <2>1, <2>3, <3>1, <3>2, <3>3 DEF State, SameTasks
  <2>4. CASE d = previous
    <3>1. d # m /\ d # c BY <1>a, <1>2, <2>4
    <3>2. v[d] = [s[d] EXCEPT !.summons = @ \ {m}] /\ s[d].stage = "world"
      BY <1>2, <1>6, <2>4 DEF InWorld
    <3>3. v[d] \in State BY <2>1, <3>2 DEF State
    <3>. QED BY <2>1, <2>4, <3>1, <3>2, <3>3 DEF State, SameTasks
  <2>5. CASE d \notin {m, c, previous}
    <3>1. v[d] = s[d] BY <1>7, <2>5
    <3>. QED BY <2>1, <2>5, <3>1
  <2>. QED BY <2>2, <2>3, <2>4, <2>5
<1>9. v \in [Creature -> State]
  <2>1. \A d \in Creature : v[d] \in State BY <1>8
  <2>2. v = [d \in Creature |-> v[d]] BY <1>3
  <2>. QED BY <2>1, <2>2
<1>10. Tasks(v, b)
  <2>1. ASSUME NEW d \in Creature PROVE IF d = b THEN InThought(v[d]) ELSE Steady(v[d])
    <3>1. IF d = b THEN InThought(s[d]) ELSE Steady(s[d]) BY DEF Good, Tasks
    <3>. QED BY <1>8, <3>1, SameTasksLemma
  <2>. QED BY <2>1 DEF Tasks
<1>11. Family(v)
  <2>1. ASSUME NEW k \in Monster, NEW d \in Creature
        PROVE  v[k].master = d <=> k \in v[d].summons
    <3>1. k \in Creature BY DEF Creature
    <3>2. s[k].master = d <=> k \in s[d].summons BY DEF Good, Family
    <3>3. v[k].master = IF k = m THEN c ELSE s[k].master BY <1>8, <3>1
    <3>4. v[d].summons = IF d = c THEN s[d].summons \cup {m}
                               ELSE IF d = previous THEN s[d].summons \ {m}
                               ELSE s[d].summons BY <1>8
    <3>. QED BY <1>1, <1>a, <3>2, <3>3, <3>4 DEF previous
  <2>2. ASSUME NEW k \in Creature, NEW d \in Creature, v[k].master = d
        PROVE  k \in Monster /\ k # d /\ InWorld(v, k) /\ InWorld(v, d)
    <3>1. v[k].master = IF k = m THEN c ELSE s[k].master BY <1>8
    <3>2. s[k].master = d => k \in Monster /\ k # d /\ InWorld(s, k) /\ InWorld(s, d)
      BY DEF Good, Family
    <3>3. k \in Monster /\ k # d /\ InWorld(s, k) /\ InWorld(s, d)
      BY <1>1, <2>2, <3>1, <3>2
    <3>. QED BY <1>8, <3>3 DEF InWorld
  <2>. QED BY <2>1, <2>2 DEF Family
<1>12. Good(v, b) BY <1>9, <1>10, <1>11 DEF Good
<1>13. v[m].master = c BY <1>1, <1>8
<1>. QED BY <1>8, <1>12, <1>13 DEF v, previous

LEMMA SetMasterLemma ==
    ASSUME NEW s, NEW b, NEW keen, Good(s, b), NEW m \in Monster, InWorld(s, m),
           NEW c \in Creature \cup {NoCreature}, c # m,
           c # NoCreature => InWorld(s, c)
    PROVE  LET v == SetMaster(s, m, c, keen)
           IN /\ Good(v, b) /\ v[m].master = c
              /\ \A d \in Creature : /\ v[d].stage = s[d].stage /\ v[d].healthy = s[d].healthy
                                     /\ Thinking(s, d) => Thinking(v, d)
<1>1. CASE c = s[m].master BY <1>1 DEF SetMaster
<1>2. CASE c # s[m].master
  <2>. DEFINE u == MasterChanged(s, m, c, s[m].master)
              S == Notified(s, m, c, s[m].master, keen)
              v == StartThinking(u, S)
  <2>1. SetMaster(s, m, c, keen) = v BY <1>2 DEF SetMaster
  <2>2. /\ Good(u, b) /\ u[m].master = c
        /\ \A d \in Creature : /\ u[d].stage = s[d].stage /\ u[d].healthy = s[d].healthy
                               /\ u[d].thinkDuration = s[d].thinkDuration
    BY <1>2, MasterChangedLemma
  <2>. HIDE DEF u, S
  <2>3. /\ Good(v, b)
        /\ \A d \in Creature : /\ Same(u[d], v[d])
                               /\ Thinking(u, d) => Thinking(v, d)
    BY <2>2, StartThinkingLemma
  <2>4. m \in Creature BY DEF Creature
  <2>. HIDE DEF v
  <2>. QED BY <2>1, <2>2, <2>3, <2>4 DEF Same, Thinking
<1>. QED BY <1>1, <1>2

-------------------------------------------------------------------------------
(* Induction, stated with sets. *)

LEMMA NatSetInduction ==
    ASSUME NEW G, 0 \in G, \A n \in Nat : n \in G => n + 1 \in G
    PROVE  Nat \subseteq G
<1>. SUFFICES ASSUME Nat \ G # {} PROVE FALSE OBVIOUS
<1>1. IsWellFoundedOn(OpToRel(<, Nat), Nat) BY NatLessThanWellFounded
<1>2. PICK x \in Nat \ G : \A y \in Nat \ G : <<y, x>> \notin OpToRel(<, Nat)
  BY <1>1, WFMin
<1>3. x # 0 /\ x - 1 \in Nat /\ x - 1 < x /\ (x - 1) + 1 = x OBVIOUS
<1>4. x - 1 \notin G BY <1>3
<1>5. <<x - 1, x>> \in OpToRel(<, Nat)
  <2>1. <<x - 1, x>> \in Nat \X Nat /\ <<x - 1, x>>[1] = x - 1 /\ <<x - 1, x>>[2] = x
    BY <1>3
  <2>. QED BY <1>3, <2>1 DEF OpToRel
<1>. QED BY <1>2, <1>3, <1>4, <1>5

LEMMA SubsetInduction ==
    ASSUME NEW S, IsFiniteSet(S), NEW G, {} \in G,
           \A T \in SUBSET S : T # {} /\ (\A x \in T : T \ {x} \in G) => T \in G
    PROVE  \A T \in SUBSET S : T \in G
<1>. DEFINE H == {n \in Nat : \A T \in SUBSET S : Cardinality(T) = n => T \in G}
<1>1. ASSUME NEW T \in SUBSET S
      PROVE  /\ IsFiniteSet(T) /\ Cardinality(T) \in Nat
             /\ Cardinality(T) = 0 => T = {}
             /\ \A x \in T : Cardinality(T \ {x}) = Cardinality(T) - 1
  <2>1. IsFiniteSet(T) BY FS_Subset
  <2>. QED BY <2>1, FS_CardinalityType, FS_EmptySet, FS_RemoveElement
<1>2. 0 \in H BY <1>1
<1>3. ASSUME NEW n \in Nat, n \in H PROVE n + 1 \in H
  <2>1. ASSUME NEW T \in SUBSET S, Cardinality(T) = n + 1 PROVE T \in G
    <3>1. T # {}
      <4>1. n + 1 # 0 /\ Cardinality({}) = 0 BY FS_EmptySet
      <4>. QED BY <2>1, <4>1
    <3>2. ASSUME NEW x \in T PROVE T \ {x} \in G
      <4>1. Cardinality(T \ {x}) = n BY <1>1, <2>1
      <4>. QED BY <1>3, <4>1
    <3>. QED BY <3>1, <3>2
  <2>. QED BY <2>1
<1>4. Nat \subseteq H
  <2>. HIDE DEF H
  <2>. QED BY <1>2, <1>3, NatSetInduction
<1>. QED BY <1>1, <1>4

\* A fold is defined: the elements of S are taken one after the other, and the
\* values stay in a set X.
Takes(one, S) == \A T \in SUBSET S : T # {} => one[T] \in T
IsFold(g, base, step, one, S, X) ==
    /\ g \in [SUBSET S -> X]
    /\ \A T \in SUBSET S :
          g[T] = IF T = {} THEN base ELSE step[one[T]][g[T \ {one[T]}]]

LEMMA FoldExists ==
    ASSUME NEW S, IsFiniteSet(S), NEW X, NEW base \in X, NEW step \in [S -> [X -> X]],
           NEW one, Takes(one, S)
    PROVE  \E g : IsFold(g, base, step, one, S, X)
<1>. DEFINE Upto(k) == {T \in SUBSET S : Cardinality(T) <= k}
            Body(g, T) == IF T = {} THEN base ELSE step[one[T]][g[T \ {one[T]}]]
            Runs(g, k) == g \in [Upto(k) -> X] /\ \A T \in Upto(k) : g[T] = Body(g, T)
            H == {k \in Nat : \E g : Runs(g, k)}
<1>1. ASSUME NEW T \in SUBSET S
      PROVE  /\ Cardinality(T) \in Nat /\ Cardinality(T) =< Cardinality(S)
             /\ T # {} => /\ one[T] \in S /\ T \ {one[T]} \in SUBSET S
                          /\ Cardinality(T \ {one[T]}) = Cardinality(T) - 1
             /\ Cardinality(T) = 0 => T = {}
  <2>1. IsFiniteSet(T) BY FS_Subset
  <2>. QED BY <2>1, FS_Subset, FS_CardinalityType, FS_EmptySet, FS_RemoveElement DEF Takes
<1>2. 0 \in H
  <2>. DEFINE g == [T \in Upto(0) |-> base]
  <2>1. \A T \in Upto(0) : T = {}
    <3>1. ASSUME NEW T \in Upto(0) PROVE T = {}
      <4>1. T \in SUBSET S /\ Cardinality(T) =< 0 OBVIOUS
      <4>2. Cardinality(T) \in Nat BY <1>1, <4>1
      <4>3. Cardinality(T) = 0 BY <4>1, <4>2
      <4>. QED BY <1>1, <4>1, <4>3
    <3>. QED BY <3>1
  <2>. HIDE DEF Upto
  <2>2. Runs(g, 0) BY <2>1
  <2>. QED BY <2>2
<1>3. ASSUME NEW k \in Nat, k \in H PROVE k + 1 \in H
  <2>1. PICK g : Runs(g, k) BY <1>3
  <2>. DEFINE h == [T \in Upto(k + 1) |-> IF T \in Upto(k) THEN g[T] ELSE Body(g, T)]
  <2>2. ASSUME NEW T \in Upto(k + 1), T # {}
        PROVE  T \ {one[T]} \in Upto(k) /\ T \ {one[T]} \in Upto(k + 1) /\ one[T] \in S
    <3>1. T \in SUBSET S /\ Cardinality(T) =< k + 1 OBVIOUS
    <3>2. /\ T \ {one[T]} \in SUBSET S /\ Cardinality(T) \in Nat /\ one[T] \in S
          /\ Cardinality(T \ {one[T]}) = Cardinality(T) - 1
      BY <1>1, <2>2, <3>1
    <3>3. Cardinality(T) - 1 =< k /\ Cardinality(T) - 1 =< k + 1 BY <3>1, <3>2
    <3>. QED BY <3>2, <3>3
  <2>3. \A T \in Upto(k) : T \in Upto(k + 1)
    <3>1. ASSUME NEW T \in Upto(k) PROVE T \in Upto(k + 1)
      <4>1. Cardinality(T) \in Nat /\ Cardinality(T) =< k BY <1>1
      <4>2. Cardinality(T) =< k + 1 BY <4>1
      <4>. QED BY <4>2
    <3>. QED BY <3>1
  <2>. HIDE DEF Upto
  <2>4. ASSUME NEW T \in Upto(k + 1) PROVE h[T] \in X /\ h[T] = Body(h, T)
    <3>1. T # {} => h[T \ {one[T]}] = g[T \ {one[T]}] /\ g[T \ {one[T]}] \in X
      BY <2>1, <2>2
    <3>2. h[T] = Body(g, T) BY <2>1
    <3>3. Body(g, T) = Body(h, T) BY <3>1
    <3>4. Body(g, T) \in X BY <2>2, <3>1
    <3>. QED BY <3>2, <3>3, <3>4
  <2>5. h = [T \in Upto(k + 1) |-> h[T]] OBVIOUS
  <2>. HIDE DEF h, Body
  <2>6. Runs(h, k + 1) BY <2>4, <2>5
  <2>. QED BY <2>6
<1>. HIDE DEF H
<1>4. Cardinality(S) \in H
  <2>1. Cardinality(S) \in Nat BY FS_CardinalityType
  <2>. QED BY <1>2, <1>3, <2>1, NatSetInduction
<1>5. PICK g : Runs(g, Cardinality(S)) BY <1>4 DEF H
<1>6. Upto(Cardinality(S)) = SUBSET S BY <1>1
<1>7. IsFold(g, base, step, one, S, X)
  <2>. HIDE DEF Upto
  <2>. QED BY <1>5, <1>6 DEF IsFold
<1>. QED BY <1>7

-------------------------------------------------------------------------------
(* The death of a creature's summons. *)

\* Those who die with their master are alive, and summons of c or of one of them.
LEMMA DoomedLemma ==
    ASSUME NEW s \in [Creature -> State], NEW c \in Creature, NEW deny
    PROVE  \A m \in Doomed(s, c, deny) :
              m \in Monster /\ Alive(s, m) /\ \E d \in Doomed(s, c, deny) \cup {c} : m \in s[d].summons
<1>. DEFINE N == Cardinality(Monster)
            V(S) == {m \in UNION {s[d].summons : d \in S} : Alive(s, m) /\ m \notin deny}
            Body(g, n) == IF n = 0 THEN V({c}) ELSE g[n - 1] \cup V(g[n - 1])
            Runs(g, k) == g = [n \in 0..k |-> Body(g, n)]
            f == CHOOSE g : Runs(g, N)
<1>1. Doomed(s, c, deny) = f[N] BY DEF Doomed
<1>2. N \in Nat
  <2>1. Monster \subseteq Player \cup Monster OBVIOUS
  <2>. QED BY <2>1, CreaturesAssumption, FS_Subset, FS_CardinalityType
<1>. HIDE DEF N
<1>3. \E g : Runs(g, N)
  <2>. DEFINE H == {k \in Nat : \E g : Runs(g, k)}
  <2>1. 0 \in H
    <3>. DEFINE g == [n \in 0..0 |-> V({c})]
    <3>1. g = [n \in 0..0 |-> Body(g, n)] OBVIOUS
    <3>. QED BY <3>1
  <2>2. ASSUME NEW k \in Nat, k \in H PROVE k + 1 \in H
    <3>1. PICK g : Runs(g, k) BY <2>2
    <3>. DEFINE h == [n \in 0..(k + 1) |-> IF n = k + 1 THEN g[k] \cup V(g[k]) ELSE g[n]]
    <3>2. ASSUME NEW n \in 0..(k + 1) PROVE h[n] = Body(h, n)
      <4>1. CASE n = k + 1
        <5>1. h[n] = g[k] \cup V(g[k]) /\ h[n - 1] = g[k] BY <4>1
        <5>2. n # 0 BY <4>1
        <5>. HIDE DEF h
        <5>. QED BY <5>1, <5>2
      <4>2. CASE n # k + 1
        <5>1. n \in 0..k BY <4>2
        <5>2. h[n] = g[n] /\ (n # 0 => h[n - 1] = g[n - 1]) BY <5>1
        <5>3. g[n] = Body(g, n) BY <3>1, <5>1
        <5>. HIDE DEF h
        <5>. QED BY <5>2, <5>3
      <4>. QED BY <4>1, <4>2
    <3>3. h = [n \in 0..(k + 1) |-> h[n]] OBVIOUS
    <3>. HIDE DEF h, Body
    <3>4. Runs(h, k + 1) BY <3>2, <3>3
    <3>. QED BY <3>4
  <2>. HIDE DEF H
  <2>3. Nat \subseteq H BY <2>1, <2>2, NatSetInduction
  <2>. QED BY <1>2, <2>3 DEF H
<1>4. Runs(f, N) BY <1>3
<1>. HIDE DEF f
<1>5. ASSUME NEW n \in 0..N PROVE f[n] = Body(f, n) BY <1>4
<1>. DEFINE Known(S) == \A m \in S : /\ m \in Monster /\ Alive(s, m)
                                     /\ \E d \in S \cup {c} : m \in s[d].summons
            K == {n \in Nat : n \in 0..N => Known(f[n])}
<1>a. \A d \in Creature : s[d].summons \subseteq Monster BY DEF State
<1>6. 0 \in K
  <2>1. f[0] = V({c})
    <3>. HIDE DEF V
    <3>1. 0 \in 0..N BY <1>2
    <3>. QED BY <1>5, <3>1
  <2>2. Known(V({c})) BY <1>a
  <2>. HIDE DEF V
  <2>. QED BY <2>1, <2>2
<1>7. ASSUME NEW n \in Nat, n \in K PROVE n + 1 \in K
  <2>1. SUFFICES ASSUME n + 1 \in 0..N PROVE Known(f[n + 1]) OBVIOUS
  <2>2. n \in 0..N /\ (n + 1) - 1 = n /\ n + 1 # 0 BY <1>2, <2>1
  <2>3. f[n + 1] = f[n] \cup V(f[n]) BY <1>5, <2>1, <2>2
  <2>4. Known(f[n]) BY <1>7, <2>2
  <2>5. ASSUME NEW m \in V(f[n])
        PROVE  m \in Monster /\ Alive(s, m) /\ \E d \in f[n] : m \in s[d].summons
    <3>1. \A d \in f[n] : d \in Creature BY <2>4 DEF Creature
    <3>. QED BY <1>a, <3>1
  <2>. HIDE DEF V
  <2>. QED BY <2>3, <2>4, <2>5
<1>. HIDE DEF K
<1>8. N \in K BY <1>2, <1>6, <1>7, NatSetInduction
<1>. QED BY <1>1, <1>2, <1>8 DEF K

\* The state v after the summons of c were killed: v[c] may have begun to think,
\* the others are well if they were.
LEMMA KillSummonsLemma ==
    ASSUME NEW s \in [Creature -> State], NEW b, NEW c \in Creature, NEW deny, NEW keen,
           Family(s), s[c].master = NoCreature,
           \A d \in Creature \ {c} : IF d = b THEN InThought(s[d]) ELSE Steady(s[d])
    PROVE  LET v == KillSummons(s, c, deny, keen)
               t == [s[c] EXCEPT !.summons = {}]
           IN /\ v = [d \in Creature |-> v[d]]
              /\ v[c] \in {t, Wake(t)}
              /\ \A d \in Creature \ {c} :
                    /\ v[d] \in State
                    /\ IF d = b THEN InThought(v[d]) ELSE Steady(v[d])
                    /\ Alive(v, d) => Alive(s, d) /\ v[d].thinkDuration = s[d].thinkDuration
              /\ Family(v)
<1>. DEFINE dead   == Doomed(s, c, deny)
            spared == (UNION {s[d].summons : d \in dead \cup {c}}) \ dead
            killed == [d \in Creature |->
                         CASE d \in dead   -> [StopThinking(s[d]) EXCEPT
                                                 !.stage = "gone", !.healthy = FALSE,
                                                 !.master = NoCreature, !.summons = {}]
                           [] d \in spared -> [s[d] EXCEPT !.healthy = FALSE, !.master = NoCreature]
                           [] d = c        -> [s[d] EXCEPT !.summons = {}]
                           [] OTHER        -> s[d]]
            v == KillSummons(s, c, deny, keen)
            t == [s[c] EXCEPT !.summons = {}]
<1>1. v = IF s[c].summons = {} THEN killed ELSE StartThinking(killed, {c} \cap keen)
  BY DEF KillSummons
<1>2. \A m \in dead : /\ m \in Monster /\ m \in Creature /\ Alive(s, m)
                      /\ \E d \in dead \cup {c} : m \in s[d].summons
  BY DoomedLemma DEF Creature
<1>. HIDE DEF dead
<1>3. \A d \in dead \cup {c} : d \in Creature BY <1>2
<1>4. \A k \in dead \cup spared : k \in Monster /\ \E d \in dead \cup {c} : k \in s[d].summons
  BY <1>2, <1>3 DEF State
<1>5. \A d \in dead \cup {c} : s[d].summons \subseteq dead \cup spared OBVIOUS
<1>6. \A k \in dead \cup spared : s[k].master \in dead \cup {c} BY <1>3, <1>4 DEF Family
<1>7. dead \cap spared = {} OBVIOUS
<1>. HIDE DEF spared
<1>8. c \notin dead \cup spared BY <1>3, <1>6, CreaturesAssumption DEF Creature
<1>9. /\ \A d \in dead : killed[d] = [StopThinking(s[d]) EXCEPT
                                        !.stage = "gone", !.healthy = FALSE,
                                        !.master = NoCreature, !.summons = {}]
      /\ \A d \in spared : killed[d] = [s[d] EXCEPT !.healthy = FALSE, !.master = NoCreature]
      /\ killed[c] = t
      /\ \A d \in Creature \ (dead \cup spared \cup {c}) : killed[d] = s[d]
  <2>1. dead \cup spared \cup {c} \subseteq Creature BY <1>3, <1>4 DEF Creature
  <2>. QED BY <1>7, <1>8, <2>1
<1>10. killed = [d \in Creature |-> killed[d]] OBVIOUS
<1>. HIDE DEF killed
<1>11. ASSUME NEW d \in Creature
       PROVE  /\ v[d] = IF d = c THEN v[c] ELSE killed[d]
              /\ v[c] \in {t, Wake(t)}
              /\ v = [e \in Creature |-> v[e]]
  <2>1. CASE v = killed BY <1>9, <1>10, <2>1
  <2>2. CASE v = StartThinking(killed, {c} \cap keen)
    <3>1. v = [e \in Creature |-> IF e \in {c} \cap keen THEN Wake(killed[e]) ELSE killed[e]]
      BY <2>2 DEF StartThinking
    <3>. HIDE DEF v
    <3>. QED BY <1>9, <3>1
  <2>. QED BY <1>1, <2>1, <2>2
<1>. HIDE DEF v
<1>12. /\ Wake(t).stage = t.stage /\ Wake(t).master = t.master /\ Wake(t).summons = t.summons
       /\ t.stage = s[c].stage /\ t.master = NoCreature /\ t.summons = {}
  BY DEF Wake, State
<1>13. v[c].stage = s[c].stage /\ v[c].master = NoCreature /\ v[c].summons = {}
  BY <1>11, <1>12
<1>14. ASSUME NEW d \in Creature \ {c}
       PROVE  /\ v[d] \in State
              /\ IF d = b THEN InThought(v[d]) ELSE Steady(v[d])
              /\ Alive(v, d) => Alive(s, d) /\ v[d].thinkDuration = s[d].thinkDuration
              /\ v[d].stage = IF d \in dead THEN "gone" ELSE s[d].stage
              /\ v[d].master = IF d \in dead \cup spared THEN NoCreature ELSE s[d].master
              /\ v[d].summons = IF d \in dead THEN {} ELSE s[d].summons
  <2>1. s[d] \in State /\ IF d = b THEN InThought(s[d]) ELSE Steady(s[d]) OBVIOUS
  <2>2. v[d] = killed[d] BY <1>11
  <2>3. CASE d \in dead
    <3>. DEFINE u == StopThinking(s[d])
    <3>1. u \in State /\ u.thinkDuration = 0 /\ u.armed = {} BY <2>1, StopThinkingLemma
    <3>. HIDE DEF u
    <3>2. v[d] = [u EXCEPT !.stage = "gone", !.healthy = FALSE,
                           !.master = NoCreature, !.summons = {}]
      BY <1>9, <2>2, <2>3 DEF u
    <3>3. /\ v[d] \in State /\ v[d].stage = "gone" /\ v[d].thinkDuration = 0 /\ v[d].armed = {}
          /\ v[d].master = NoCreature /\ v[d].summons = {}
      BY <3>1, <3>2 DEF State
    <3>. QED BY <2>3, <3>3 DEF InThought, Steady, Left, Alive, Living
  <2>4. CASE d \in spared
    <3>1. v[d] = [s[d] EXCEPT !.healthy = FALSE, !.master = NoCreature] BY <1>9, <2>2, <2>4
    <3>2. InWorld(s, d) BY <1>4, <1>6, <1>3, <2>4 DEF Family
    <3>3. v[d] \in State BY <2>1, <3>1 DEF State
    <3>4. ~v[d].healthy /\ v[d].stage = s[d].stage /\ v[d].summons = s[d].summons
          /\ v[d].master = NoCreature
      BY <2>1, <3>1 DEF State
    <3>5. SameTasks(s[d], v[d]) BY <2>1, <3>1, <3>2 DEF SameTasks, InWorld, State
    <3>. QED BY <1>7, <2>1, <2>4, <3>3, <3>4, <3>5, SameTasksLemma DEF Alive, Living
  <2>5. CASE d \notin dead \cup spared
    <3>1. v[d] = s[d] BY <1>9, <2>2, <2>5
    <3>. QED BY <2>1, <2>5, <3>1 DEF Alive
  <2>. QED BY <2>3, <2>4, <2>5
<1>15. ASSUME NEW d \in Creature
       PROVE  /\ v[d].stage = IF d \in dead THEN "gone" ELSE s[d].stage
              /\ v[d].master = IF d \in dead \cup spared THEN NoCreature ELSE s[d].master
              /\ v[d].summons = IF d \in dead \cup {c} THEN {} ELSE s[d].summons
  BY <1>8, <1>13, <1>14
<1>16. Family(v)
  <2>1. ASSUME NEW k \in Monster, NEW d \in Creature
        PROVE  v[k].master = d <=> k \in v[d].summons
    <3>1. k \in Creature /\ NoCreature \notin Creature BY CreaturesAssumption DEF Creature
    <3>2. s[k].master = d <=> k \in s[d].summons BY DEF Family
    <3>3. k \in dead \cup spared => s[k].master \in dead \cup {c} BY <1>6
    <3>4. d \in dead \cup {c} => s[d].summons \subseteq dead \cup spared BY <1>5
    <3>. QED BY <1>15, <3>1, <3>2, <3>3, <3>4
  <2>2. ASSUME NEW k \in Creature, NEW d \in Creature, v[k].master = d
        PROVE  k \in Monster /\ k # d /\ InWorld(v, k) /\ InWorld(v, d)
    <3>1. k \notin dead \cup spared /\ s[k].master = d
      BY <1>15, <2>2, CreaturesAssumption DEF Creature
    <3>2. k \in Monster /\ k # d /\ InWorld(s, k) /\ InWorld(s, d) BY <3>1 DEF Family
    <3>3. d \notin dead
      <4>1. k \in s[d].summons BY <3>1, <3>2 DEF Family
      <4>. QED BY <1>5, <3>1, <4>1
    <3>. QED BY <1>15, <3>1, <3>2, <3>3 DEF InWorld
  <2>. QED BY <2>1, <2>2 DEF Family
<1>17. v = [d \in Creature |-> v[d]] /\ v[c] \in {t, Wake(t)} BY <1>11
<1>. QED BY <1>14, <1>16, <1>17 DEF v

\* A creature without master and summons may go.
LEMMA LeaveFamilyLemma ==
    ASSUME NEW s, NEW v, NEW c \in Creature, Family(s),
           s[c].master = NoCreature, s[c].summons = {},
           \A d \in Creature : /\ v[d].master = s[d].master /\ v[d].summons = s[d].summons
                               /\ d # c => v[d].stage = s[d].stage
    PROVE  Family(v)
<1>1. \A m \in Monster : m \in Creature BY DEF Creature
<1>2. \A m \in Monster, d \in Creature : v[m].master = d <=> m \in v[d].summons
  BY <1>1 DEF Family
<1>3. ASSUME NEW m \in Creature, NEW d \in Creature, v[m].master = d
      PROVE  m \in Monster /\ m # d /\ InWorld(v, m) /\ InWorld(v, d)
  <2>1. s[m].master = d BY <1>3
  <2>2. m \in Monster /\ m # d /\ InWorld(s, m) /\ InWorld(s, d) BY <2>1 DEF Family
  <2>3. m # c BY <2>1, CreaturesAssumption DEF Creature
  <2>4. d # c BY <2>1, <2>2 DEF Family
  <2>. QED BY <2>2, <2>3, <2>4 DEF InWorld
<1>. QED BY <1>2, <1>3 DEF Family

LEMMA ExitWorldLemma ==
    ASSUME NEW s, NEW b, Good(s, b), NEW c \in Creature, InWorld(s, c), NEW deny, NEW keen
    PROVE  LET v == ExitWorld(s, c, deny, keen)
           IN /\ Good(v, b)
              /\ \A d \in Creature : Alive(v, d) =>
                    Alive(s, d) /\ (Thinking(s, d) => Thinking(v, d))
<1>. DEFINE r == IF c \in Monster THEN SetMaster(s, c, NoCreature, keen) ELSE s
            u == [r EXCEPT ![c] = StopThinking(@)]
            z == KillSummons(u, c, deny, keen)
            v == ExitWorld(s, c, deny, keen)
            t == [u[c] EXCEPT !.summons = {}]
<1>1. v = [z EXCEPT ![c].stage = "gone"] BY DEF ExitWorld, WillExitWorld
<1>2. /\ Good(r, b) /\ r[c].master = NoCreature
      /\ \A d \in Creature : /\ r[d].stage = s[d].stage /\ r[d].healthy = s[d].healthy
                             /\ Thinking(s, d) => Thinking(r, d)
  <2>1. CASE c \in Monster
    <3>1. NoCreature # c BY CreaturesAssumption DEF Creature
    <3>. QED BY <2>1, <3>1, SetMasterLemma
  <2>2. CASE c \notin Monster
    <3>1. s[c] \in State BY DEF Good
    <3>2. s[c].master = NoCreature BY <2>2, <3>1 DEF Good, Family, State
    <3>. QED BY <2>2, <3>2
  <2>. QED BY <2>1, <2>2
<1>. HIDE DEF r
<1>3. /\ r[c] \in State /\ r[c].stage = "world" /\ (Steady(r[c]) \/ InThought(r[c]))
  BY <1>2 DEF Good, Tasks, InWorld
<1>4. LET x == u[c]
      IN /\ x \in State /\ Same(r[c], x) /\ x.thinkDuration = 0 /\ x.armed = {}
         /\ x.queued < 2
  <2>1. u[c] = StopThinking(r[c]) BY <1>2 DEF Good
  <2>. HIDE DEF u
  <2>. QED BY <1>3, <2>1, StopThinkingLemma
<1>5. u \in [Creature -> State] /\ \A d \in Creature \ {c} : u[d] = r[d]
  BY <1>2, <1>4 DEF Good
<1>. HIDE DEF u
<1>6. Family(u)
  <2>1. ASSUME NEW d \in Creature
        PROVE  /\ u[d].master = r[d].master /\ u[d].summons = r[d].summons
               /\ InWorld(r, d) => InWorld(u, d)
    BY <1>4, <1>5 DEF Same, InWorld
  <2>. QED BY <1>2, <2>1, FamilyLemma DEF Good
<1>7. u[c].master = NoCreature BY <1>2, <1>4 DEF Same
<1>8. \A d \in Creature \ {c} : IF d = b THEN InThought(u[d]) ELSE Steady(u[d])
  BY <1>2, <1>5 DEF Good, Tasks
<1>9. /\ z = [d \in Creature |-> z[d]]
      /\ z[c] \in {t, Wake(t)}
      /\ \A d \in Creature \ {c} :
            /\ z[d] \in State
            /\ IF d = b THEN InThought(z[d]) ELSE Steady(z[d])
            /\ Alive(z, d) => Alive(u, d) /\ z[d].thinkDuration = u[d].thinkDuration
      /\ Family(z)
  BY <1>5, <1>6, <1>7, <1>8, KillSummonsLemma
<1>. HIDE DEF z
<1>10. /\ t \in State /\ t.stage = "world" /\ t.thinkDuration = 0 /\ t.armed = {}
       /\ t.queued < 2 /\ t.master = NoCreature /\ t.summons = {}
  BY <1>3, <1>4, <1>7 DEF State, Same
<1>. HIDE DEF t
<1>11. /\ Wake(t) \in State /\ Left(Wake(t)) /\ Wake(t).master = NoCreature
       /\ Wake(t).summons = {}
  <2>1. CASE Wake(t) = t BY <1>10, <2>1 DEF Left
  <2>2. CASE Wake(t) = [t EXCEPT !.thinkDuration = ThinkDuration, !.queued = @ + 1]
    <3>. DEFINE x == [t EXCEPT !.thinkDuration = ThinkDuration]
    <3>1. ThinkDuration \in 0..ThinkDuration BY CreaturesAssumption
    <3>2. x \in State /\ x.queued = t.queued /\ x.armed = {} /\ x.master = NoCreature
          /\ x.summons = {}
      BY <1>10, <3>1 DEF State
    <3>3. t.queued \in 0..2 BY <1>10 DEF State
    <3>4. t.queued + 1 \in 0..2 /\ t.queued + 1 # 0 BY <1>10, <3>3
    <3>5. Wake(t) = [x EXCEPT !.queued = t.queued + 1] BY <2>2
    <3>. HIDE DEF x
    <3>. QED BY <3>2, <3>4, <3>5 DEF State, Left
  <2>. QED BY <2>1, <2>2 DEF Wake
<1>12. /\ z[c] \in State /\ Left(z[c]) /\ z[c].master = NoCreature /\ z[c].summons = {}
  BY <1>9, <1>10, <1>11 DEF Left
<1>13. /\ v[c] = [z[c] EXCEPT !.stage = "gone"]
       /\ \A d \in Creature \ {c} : v[d] = z[d]
       /\ v = [d \in Creature |-> v[d]]
  BY <1>1, <1>9
<1>. HIDE DEF v
<1>14. /\ v[c] \in State /\ v[c].stage = "gone" /\ Left(v[c])
       /\ v[c].master = z[c].master /\ v[c].summons = z[c].summons
  BY <1>12, <1>13 DEF State, Left
<1>15. InThought(v[c]) /\ Steady(v[c]) BY <1>14 DEF InThought, Steady
<1>16. \A d \in Creature : v[d] \in State /\ IF d = b THEN InThought(v[d]) ELSE Steady(v[d])
  BY <1>9, <1>13, <1>14, <1>15
<1>17. v \in [Creature -> State] BY <1>13, <1>16
<1>18. Family(v)
  <2>1. \A d \in Creature : /\ v[d].master = z[d].master /\ v[d].summons = z[d].summons
                            /\ d # c => v[d].stage = z[d].stage
    BY <1>13, <1>14
  <2>. QED BY <1>9, <1>12, <2>1, LeaveFamilyLemma
<1>19. Good(v, b) BY <1>16, <1>17, <1>18 DEF Good, Tasks
<1>20. ASSUME NEW d \in Creature, Alive(v, d)
       PROVE  Alive(s, d) /\ (Thinking(s, d) => Thinking(v, d))
  <2>1. d # c BY <1>14, <1>20 DEF Alive, Living
  <2>2. Alive(z, d) /\ v[d] = z[d] BY <1>13, <1>20, <2>1 DEF Alive
  <2>3. Alive(u, d) /\ z[d].thinkDuration = u[d].thinkDuration BY <1>9, <2>1, <2>2
  <2>4. u[d] = r[d] BY <1>5, <2>1
  <2>. QED BY <1>2, <2>2, <2>3, <2>4 DEF Alive, Living, Thinking
<1>. QED BY <1>19, <1>20 DEF v

LEMMA DieLemma ==
    ASSUME NEW s, NEW b, Good(s, b), NEW c \in Creature, Alive(s, c), NEW deny, NEW keen
    PROVE  LET v == Die(s, c, deny, keen)
           IN /\ Good(v, b)
              /\ \A d \in Creature : Alive(v, d) =>
                    Alive(s, d) /\ (Thinking(s, d) => Thinking(v, d))
<1>. DEFINE u == [s EXCEPT ![c].healthy = FALSE]
<1>1. s[c] \in State /\ s[c].stage = "world" BY DEF Good, Alive, Living
<1>2. u[c] = [s[c] EXCEPT !.healthy = FALSE] /\ \A d \in Creature \ {c} : u[d] = s[d]
  BY DEF Good
<1>3. u = [d \in Creature |-> u[d]] BY DEF Good
<1>4. Die(s, c, deny, keen) = IF c \in deny THEN u ELSE ExitWorld(u, c, deny, keen) BY DEF Die
<1>. HIDE DEF u
<1>5. /\ u[c] \in State /\ SameTasks(s[c], u[c]) /\ ~u[c].healthy
      /\ u[c].master = s[c].master /\ u[c].summons = s[c].summons
  BY <1>1, <1>2 DEF State, SameTasks
<1>6. ASSUME NEW d \in Creature
      PROVE  u[d] \in State /\ IF d = b THEN InThought(u[d]) ELSE Steady(u[d])
  <2>1. s[d] \in State /\ IF d = b THEN InThought(s[d]) ELSE Steady(s[d]) BY DEF Good, Tasks
  <2>2. CASE d = c BY <1>5, <2>1, <2>2, SameTasksLemma
  <2>3. CASE d # c BY <1>2, <2>1, <2>3
  <2>. QED BY <2>2, <2>3
<1>7. \A d \in Creature : /\ u[d].master = s[d].master /\ u[d].summons = s[d].summons
                          /\ InWorld(s, d) => InWorld(u, d)
  BY <1>2, <1>5 DEF SameTasks, InWorld
<1>8. Family(u) BY <1>7, FamilyLemma DEF Good
<1>9. Good(u, b) BY <1>3, <1>6, <1>8 DEF Good, Tasks
<1>10. \A d \in Creature : Alive(u, d) => Alive(s, d) /\ (Thinking(s, d) => Thinking(u, d))
  BY <1>2, <1>5 DEF Alive, Living, Thinking
<1>11. InWorld(u, c) BY <1>5 DEF SameTasks, InWorld
<1>12. CASE c \in deny BY <1>4, <1>9, <1>10, <1>12
<1>13. CASE c \notin deny
  <2>. DEFINE v == ExitWorld(u, c, deny, keen)
  <2>1. /\ Good(v, b)
        /\ \A d \in Creature : Alive(v, d) =>
              Alive(u, d) /\ (Thinking(u, d) => Thinking(v, d))
    BY <1>9, <1>11, ExitWorldLemma
  <2>. HIDE DEF v
  <2>2. Die(s, c, deny, keen) = v BY <1>4, <1>13 DEF v
  <2>. QED BY <1>10, <2>1, <2>2
<1>. QED BY <1>12, <1>13

-------------------------------------------------------------------------------
(* Entering, serving, and leaving the summons behind. *)

\* A creature enters the world; until it starts to think it is a player that
\* does not, so that "keen" must have it.
LEMMA EnterWorldLemma ==
    ASSUME NEW s, NEW b, Good(s, b), NEW c \in Creature, s[c].stage = "new", c # b,
           NEW keen, Player \subseteq keen
    PROVE  LET v == EnterWorld(s, c, keen)
           IN /\ Good(v, b) /\ InWorld(v, c)
              /\ Awake(s) => Awake(v)
              /\ \A d \in Creature : InWorld(s, d) => InWorld(v, d)
<1>. DEFINE u == [s EXCEPT ![c].stage = "world"]
            v == StartThinking(u, keen)
<1>1. s[c] = Newborn /\ s[c] \in State /\ s \in [Creature -> State]
  BY DEF Good, Tasks, Steady
<1>2. u[c] = [Newborn EXCEPT !.stage = "world"] /\ \A d \in Creature \ {c} : u[d] = s[d]
  BY <1>1
<1>3. u = [d \in Creature |-> u[d]] BY <1>1
<1>. HIDE DEF u
<1>4. /\ u[c].stage = "world" /\ u[c].thinkDuration = 0 /\ u[c].queued = 0 /\ u[c].armed = {}
      /\ u[c].master = s[c].master /\ u[c].summons = s[c].summons
  BY <1>1, <1>2 DEF Newborn
<1>5. u[c] \in State
  <2>1. s[c] \in State /\ u[c] = [s[c] EXCEPT !.stage = "world"] BY <1>1, <1>2
  <2>. QED BY <2>1 DEF State
<1>6. Steady(u[c]) BY <1>4 DEF Steady, Settled
<1>7. \A d \in Creature : u[d] \in State /\ IF d = b THEN InThought(u[d]) ELSE Steady(u[d])
  BY <1>1, <1>2, <1>5, <1>6 DEF Good, Tasks
<1>8. \A d \in Creature : /\ u[d].master = s[d].master /\ u[d].summons = s[d].summons
                          /\ InWorld(s, d) => InWorld(u, d)
  BY <1>2, <1>4 DEF InWorld
<1>9. Family(u) BY <1>8, FamilyLemma DEF Good
<1>10. Good(u, b) BY <1>3, <1>7, <1>9 DEF Good, Tasks
<1>11. /\ Good(v, b)
       /\ \A d \in Creature : /\ Same(u[d], v[d])
                              /\ Thinking(u, d) => Thinking(v, d)
       /\ \A d \in keen \cap Creature : Alive(u, d) => Thinking(v, d)
  BY <1>10, StartThinkingLemma
<1>12. EnterWorld(s, c, keen) = v BY DEF EnterWorld, u
<1>. HIDE DEF v
<1>13. InWorld(v, c) BY <1>4, <1>11 DEF InWorld, Same
<1>14. Awake(v) BY <1>11 DEF Awake, Alive, Living, Same, Creature
<1>15. \A d \in Creature : InWorld(s, d) => InWorld(v, d) BY <1>8, <1>11 DEF InWorld, Same
<1>. QED BY <1>11, <1>12, <1>13, <1>14, <1>15

LEMMA PlaceSummonLemma ==
    ASSUME NEW s, NEW b, Good(s, b), Awake(s), NEW c \in Creature, NEW m \in Monster, m # b,
           CanSummon(s, c, m), NEW keen, Player \subseteq keen
    PROVE  Good(PlaceSummon(s, c, m, keen), b) /\ Awake(PlaceSummon(s, c, m, keen))
<1>. DEFINE u == EnterWorld(s, m, keen)
            v == SetMaster(u, m, c, keen)
<1>1. m \in Creature /\ InWorld(s, c) /\ s[m].stage = "new" /\ m # c
  BY DEF CanSummon, Alive, Living, InWorld, Creature
<1>2. Good(u, b) /\ InWorld(u, m) /\ Awake(u) /\ InWorld(u, c)
  BY <1>1, EnterWorldLemma
<1>. HIDE DEF u
<1>3. /\ Good(v, b)
      /\ \A d \in Creature : /\ v[d].stage = u[d].stage /\ v[d].healthy = u[d].healthy
                             /\ Thinking(u, d) => Thinking(v, d)
  BY <1>1, <1>2, SetMasterLemma
<1>4. PlaceSummon(s, c, m, keen) = v BY DEF PlaceSummon, u
<1>. HIDE DEF v
<1>5. Awake(v) BY <1>2, <1>3 DEF Awake, Alive, Living, Creature
<1>. QED BY <1>3, <1>4, <1>5

\* Whoever is alive afterwards was alive, and thinks if it did.
LEMMA AwakeLemma ==
    ASSUME NEW s, NEW v, Awake(s),
           \A d \in Creature : Alive(v, d) =>
               Alive(s, d) /\ (Thinking(s, d) => Thinking(v, d))
    PROVE  Awake(v)
BY DEF Awake, Creature

LEMMA StartAwakeLemma ==
    ASSUME NEW s, NEW b, NEW S, Good(s, b), Awake(s)
    PROVE  Good(StartThinking(s, S), b) /\ Awake(StartThinking(s, S))
<1>. DEFINE v == StartThinking(s, S)
<1>1. /\ Good(v, b)
      /\ \A c \in Creature : /\ Same(s[c], v[c])
                             /\ Thinking(s, c) => Thinking(v, c)
  BY StartThinkingLemma
<1>. HIDE DEF v
<1>2. Awake(v) BY <1>1 DEF Awake, Alive, Living, Same, Creature
<1>. QED BY <1>1, <1>2 DEF v

\* The loop over the summons that are too far away.
LEMMA DespawnLemma ==
    ASSUME NEW s, NEW b, Good(s, b), Awake(s), NEW far \in SUBSET Monster,
           NEW deny, NEW keen
    PROVE  Good(Despawn(s, far, deny, keen), b) /\ Awake(Despawn(s, far, deny, keen))
<1>. DEFINE one == [T \in SUBSET far |-> CHOOSE x \in T : TRUE]
            Step(m, t) == IF InWorld(t, m) THEN ExitWorld(t, m, deny, keen) ELSE t
            Body(g, T) == IF T = {} THEN s ELSE Step(one[T], g[T \ {one[T]}])
            Runs(g) == g = [T \in SUBSET far |-> Body(g, T)]
            f == CHOOSE g : Runs(g)
            X == {t \in [Creature -> State] : Good(t, b) /\ Awake(t)}
            step == [m \in far |-> [t \in X |-> Step(m, t)]]
<1>1. Despawn(s, far, deny, keen) = f[far]
  <2>. DEFINE Direct(g, T) ==
                IF T = {} THEN s
                ELSE Step(CHOOSE x \in T : TRUE, g[T \ {CHOOSE x \in T : TRUE}])
              d == CHOOSE g : g = [T \in SUBSET far |-> Direct(g, T)]
  <2>1. Despawn(s, far, deny, keen) = d[far] BY DEF Despawn, FoldSet, MapThenFoldSet
  <2>2. ASSUME NEW g, NEW T \in SUBSET far PROVE Direct(g, T) = Body(g, T) OBVIOUS
  <2>. HIDE DEF Direct, Body
  <2>3. \A g : Runs(g) <=> g = [T \in SUBSET far |-> Direct(g, T)] BY <2>2
  <2>4. d = f BY <2>3
  <2>. QED BY <2>1, <2>4
<1>2. IsFiniteSet(far)
  <2>1. far \subseteq Player \cup Monster OBVIOUS
  <2>. QED BY <2>1, CreaturesAssumption, FS_Subset
<1>3. Takes(one, far) BY DEF Takes
<1>4. ASSUME NEW t \in X, NEW m \in far PROVE Step(m, t) \in X
  <2>1. CASE InWorld(t, m)
    <3>1. m \in Creature BY DEF Creature
    <3>. DEFINE v == ExitWorld(t, m, deny, keen)
    <3>2. /\ Good(v, b)
          /\ \A d \in Creature : Alive(v, d) =>
                Alive(t, d) /\ (Thinking(t, d) => Thinking(v, d))
      BY <2>1, <3>1, ExitWorldLemma
    <3>. HIDE DEF v
    <3>3. Awake(v) BY <3>2, AwakeLemma
    <3>4. v \in X BY <3>2, <3>3 DEF Good
    <3>. QED BY <2>1, <3>4 DEF v
  <2>2. CASE ~InWorld(t, m) BY <2>2
  <2>. QED BY <2>1, <2>2
<1>5. s \in X BY DEF Good
<1>. HIDE DEF one, Step, X
<1>6. \E g : Runs(g)
  <2>1. step \in [far -> [X -> X]] BY <1>4
  <2>. HIDE DEF step
  <2>a. PICK g : IsFold(g, s, step, one, far, X) BY <1>2, <1>3, <1>5, <2>1, FoldExists
  <2>2. /\ g \in [SUBSET far -> X]
        /\ \A T \in SUBSET far :
              g[T] = IF T = {} THEN s ELSE step[one[T]][g[T \ {one[T]}]]
    BY <2>a DEF IsFold
  <2>3. ASSUME NEW T \in SUBSET far PROVE g[T] = Body(g, T)
    <3>1. CASE T = {} BY <2>2, <3>1
    <3>2. CASE T # {}
      <4>1. one[T] \in far /\ T \ {one[T]} \in SUBSET far BY <1>3, <3>2 DEF Takes
      <4>2. g[T \ {one[T]}] \in X BY <2>2, <4>1
      <4>3. step[one[T]][g[T \ {one[T]}]] = Step(one[T], g[T \ {one[T]}])
        BY <4>1, <4>2 DEF step
      <4>. QED BY <2>2, <3>2, <4>3
    <3>. QED BY <3>1, <3>2
  <2>4. g = [T \in SUBSET far |-> g[T]] BY <2>2
  <2>. HIDE DEF Body
  <2>5. Runs(g) BY <2>3, <2>4
  <2>. QED BY <2>5
<1>7. Runs(f) BY <1>6
<1>. HIDE DEF f, Body
<1>8. \A T \in SUBSET far : f[T] = Body(f, T) BY <1>7
<1>. DEFINE G == {T \in SUBSET far : f[T] \in X}
<1>9. {} \in G BY <1>5, <1>8 DEF Body
<1>10. ASSUME NEW T \in SUBSET far, T # {}, \A x \in T : T \ {x} \in G PROVE T \in G
  <2>1. one[T] \in T /\ one[T] \in far BY <1>3, <1>10 DEF Takes
  <2>2. f[T \ {one[T]}] \in X BY <1>10, <2>1
  <2>3. f[T] = Step(one[T], f[T \ {one[T]}]) BY <1>8, <1>10 DEF Body
  <2>. QED BY <1>4, <2>1, <2>2, <2>3
<1>. HIDE DEF G
<1>11. far \in G BY <1>2, <1>9, <1>10, SubsetInduction
<1>. QED BY <1>1, <1>11 DEF G, X

-------------------------------------------------------------------------------
(* A thought. *)

\* One creature changes, and begins or ends to be in thought.
LEMMA ChangeLemma ==
    ASSUME NEW s, NEW c \in Creature, NEW b \in {c, NoCreature}, NEW e \in {c, NoCreature},
           Good(s, b), NEW u \in State,
           u.master = s[c].master, u.summons = s[c].summons, u.stage = s[c].stage,
           IF c = e THEN InThought(u) ELSE Steady(u)
    PROVE  Good([s EXCEPT ![c] = u], e)
<1>. DEFINE v == [s EXCEPT ![c] = u]
<1>1. v[c] = u /\ (\A d \in Creature \ {c} : v[d] = s[d]) /\ v \in [Creature -> State]
  BY DEF Good
<1>. HIDE DEF v
<1>2. \A d \in Creature : /\ v[d].master = s[d].master /\ v[d].summons = s[d].summons
                          /\ InWorld(s, d) => InWorld(v, d)
  BY <1>1 DEF InWorld
<1>3. Family(v) BY <1>2, FamilyLemma DEF Good
<1>4. NoCreature \notin Creature BY CreaturesAssumption DEF Creature
<1>5. ASSUME NEW d \in Creature PROVE IF d = e THEN InThought(v[d]) ELSE Steady(v[d])
  <2>1. CASE d = c BY <1>1, <2>1
  <2>2. CASE d # c BY <1>1, <1>4, <2>2 DEF Good, Tasks
  <2>. QED BY <2>1, <2>2
<1>6. Good(v, e) BY <1>1, <1>3, <1>5 DEF Good, Tasks
<1>. QED BY <1>6 DEF v

LEMMA StopsLemma ==
    ASSUME NEW t \in State, t.armed = {}
    PROVE  LET u == StopThinking(t)
           IN /\ u \in State /\ Same(t, u) /\ u.thinkDuration = 0 /\ u.armed = {}
              /\ u.queued = t.queued
<1>1. CASE t.thinkDuration = 0
  <2>1. StopThinking(t) = t BY <1>1 DEF StopThinking
  <2>. QED BY <1>1, <2>1 DEF Same
<1>2. CASE t.thinkDuration # 0
  <2>. DEFINE u == [t EXCEPT !.thinkTaskId = 0]
  <2>1. StopThinking(t) = [t EXCEPT !.armed = @ \ {t.thinkTaskId}, !.thinkTaskId = 0,
                                    !.thinkDuration = 0]
    BY <1>2 DEF StopThinking
  <2>2. t = [t EXCEPT !.armed = {}] BY DEF State
  <2>3. StopThinking(t) = [t EXCEPT !.armed = {}, !.thinkTaskId = 0, !.thinkDuration = 0]
    BY <2>1
  <2>4. StopThinking(t) = [u EXCEPT !.thinkDuration = 0] BY <2>2, <2>3
  <2>5. 0 \in 0..2 /\ 0 \in 0..ThinkDuration BY CreaturesAssumption
  <2>6. u \in State /\ Same(t, u) /\ u.armed = {} /\ u.queued = t.queued
    BY <2>5 DEF State, Same
  <2>. HIDE DEF u
  <2>. QED BY <2>4, <2>5, <2>6 DEF State, Same
<1>. QED BY <1>1, <1>2

LEMMA MinLemma == Min(1..2) \in 1..2
<1>1. \E x \in 1..2 : \A y \in 1..2 : x =< y OBVIOUS
<1>. QED BY <1>1 DEF Min

\* Whatever it thought of, in the end it has one task for the next thought, or
\* has stopped to think, or is gone.
LEMMA FinishThinkingLemma ==
    ASSUME NEW s, NEW c \in Creature, Good(s, c), Awake(s),
           NEW passed \in 0..ThinkDuration, NEW keen, Player \subseteq keen
    PROVE  LET v == FinishThinking(s, c, passed, keen)
           IN Good(v, NoCreature) /\ Awake(v)
<1>. DEFINE left == s[c].thinkDuration
            stay == CASE left > passed                     -> left - passed
                      [] left <= passed /\ c \in keen      -> ThinkDuration
                      [] left <= passed /\ c \notin keen   -> 0
            id == Min((1..2) \ s[c].armed)
            v  == FinishThinking(s, c, passed, keen)
<1>1. /\ s[c] \in State /\ InThought(s[c]) /\ s \in [Creature -> State]
      /\ ThinkDuration \in Nat \ {0}
  BY CreaturesAssumption DEF Good, Tasks
<1>2. stay \in 0..ThinkDuration /\ (c \in Player => stay # 0)
  <2>1. left \in 0..ThinkDuration BY <1>1 DEF State
  <2>. HIDE DEF left
  <2>. QED BY <1>1, <2>1
<1>3. v = IF ~Alive(s, c) \/ stay = 0 THEN [s EXCEPT ![c] = StopThinking(@)]
          ELSE IF s[c].thinkTaskId # 0 THEN [s EXCEPT ![c].thinkDuration = stay]
          ELSE [[s EXCEPT ![c].thinkDuration = stay] EXCEPT
                   ![c].thinkTaskId = id, ![c].armed = @ \cup {id}]
  BY DEF FinishThinking
<1>. HIDE DEF stay
<1>4. NoCreature # c BY CreaturesAssumption DEF Creature
<1>5. CASE ~Alive(s, c) \/ stay = 0
  <2>. DEFINE u == StopThinking(s[c])
  <2>1. v = [s EXCEPT ![c] = u] BY <1>1, <1>3, <1>5
  <2>2. /\ u \in State /\ Same(s[c], u) /\ u.thinkDuration = 0 /\ u.armed = {}
        /\ u.queued = s[c].queued
    BY <1>1, StopThinkingLemma
  <2>. HIDE DEF u
  <2>3. Steady(u)
    BY <1>1, <2>2 DEF Same, InThought, Steady, Settled, Left
  <2>4. Good([s EXCEPT ![c] = u], NoCreature)
    BY <1>4, <2>2, <2>3, ChangeLemma DEF Same
  <2>5. Awake(v)
    <3>1. ASSUME NEW p \in Player, Alive(v, p) PROVE Thinking(v, p)
      <4>1. p # c
        <5>1. SUFFICES ASSUME p = c PROVE FALSE OBVIOUS
        <5>2. ~Alive(s, c) BY <1>2, <1>5, <5>1
        <5>. QED BY <1>1, <2>1, <2>2, <3>1, <5>1, <5>2 DEF Alive, Living, Same
      <4>. QED BY <1>1, <2>1, <3>1, <4>1 DEF Awake, Alive, Thinking, Creature
    <3>. QED BY <3>1 DEF Awake
  <2>. QED BY <2>1, <2>4, <2>5
<1>6. CASE ~(~Alive(s, c) \/ stay = 0)
  <2>1. s[c].stage = "world" /\ s[c].thinkTaskId = 0 /\ s[c].queued = 0 /\ s[c].armed = {}
    BY <1>1, <1>6 DEF InThought, Alive, Living
  <2>2. id \in 1..2
    <3>1. (1..2) \ s[c].armed = 1..2 BY <2>1
    <3>. QED BY <3>1, MinLemma
  <2>. HIDE DEF id
  <2>. DEFINE x == [s[c] EXCEPT !.thinkDuration = stay]
              y == [x EXCEPT !.thinkTaskId = id]
              u == [y EXCEPT !.armed = {id}]
  <2>3. v = [s EXCEPT ![c] = u]
    <3>1. v = [[s EXCEPT ![c].thinkDuration = stay] EXCEPT
                   ![c].thinkTaskId = id, ![c].armed = @ \cup {id}]
      BY <1>3, <1>6, <2>1
    <3>2. x.armed = {} BY <1>1, <2>1 DEF State
    <3>. QED BY <1>1, <3>1, <3>2
  <2>4. /\ x \in State /\ x.thinkDuration = stay /\ x.queued = 0 /\ Same(s[c], x)
    BY <1>1, <1>2, <2>1 DEF State, Same
  <2>. HIDE DEF x
  <2>5. id \in 0..2 /\ id \in 1..2 BY <2>2
  <2>6. y \in State /\ y.thinkDuration = stay /\ y.queued = 0 /\ Same(s[c], y)
        /\ y.thinkTaskId = id
    BY <2>4, <2>5 DEF State, Same
  <2>. HIDE DEF y
  <2>7. u \in State /\ u.thinkDuration = stay /\ u.queued = 0 /\ Same(s[c], u)
        /\ u.thinkTaskId = id /\ u.armed = {id}
    BY <2>5, <2>6 DEF State, Same
  <2>. HIDE DEF u
  <2>8. Steady(u) BY <1>6, <2>1, <2>7 DEF Same, Steady, Settled
  <2>9. Good([s EXCEPT ![c] = u], NoCreature)
    BY <1>4, <2>7, <2>8, ChangeLemma DEF Same
  <2>10. Awake(v)
    <3>1. ASSUME NEW p \in Player, Alive(v, p) PROVE Thinking(v, p)
      <4>1. CASE p = c BY <1>1, <1>2, <1>6, <2>3, <2>7, <4>1 DEF Thinking
      <4>2. CASE p # c
        BY <1>1, <2>3, <3>1, <4>2 DEF Awake, Alive, Thinking, Creature
      <4>. QED BY <4>1, <4>2
    <3>. QED BY <3>1 DEF Awake
  <2>. QED BY <2>3, <2>9, <2>10
<1>. QED BY <1>5, <1>6

\* What a thought may do while it is under way.
LEMMA OnThinkLemma ==
    ASSUME NEW s, NEW c \in Creature, Good(s, c), Awake(s), Alive(s, c), NEW deny,
           NEW keen, Player \subseteq keen, NEW thought \in OnThink(s, c, deny, keen)
    PROVE  Good(thought, c) /\ Awake(thought)
<1>1. CASE thought = s BY <1>1
<1>2. CASE thought = ExitWorld(s, c, deny, keen)
  <2>1. InWorld(s, c) BY DEF Alive, Living, InWorld
  <2>2. /\ Good(thought, c)
        /\ \A d \in Creature : Alive(thought, d) =>
              Alive(s, d) /\ (Thinking(s, d) => Thinking(thought, d))
    BY <1>2, <2>1, ExitWorldLemma
  <2>. QED BY <2>2, AwakeLemma
<1>3. ASSUME NEW d \in Creature, Alive(s, d), thought = Die(s, d, deny, keen)
      PROVE  Good(thought, c) /\ Awake(thought)
  <2>1. /\ Good(thought, c)
        /\ \A e \in Creature : Alive(thought, e) =>
              Alive(s, e) /\ (Thinking(s, e) => Thinking(thought, e))
    BY <1>3, DieLemma
  <2>. QED BY <2>1, AwakeLemma
<1>4. ASSUME NEW m \in Monster, CanSummon(s, c, m), thought = PlaceSummon(s, c, m, keen)
      PROVE  Good(thought, c) /\ Awake(thought)
  <2>1. m # c BY <1>4 DEF CanSummon, Alive, Living
  <2>. QED BY <1>4, <2>1, PlaceSummonLemma
<1>5. ASSUME NEW far \in SUBSET s[c].summons,
             thought = StartThinking(Despawn(s, far, deny, keen), keen)
      PROVE  Good(thought, c) /\ Awake(thought)
  <2>. DEFINE u == Despawn(s, far, deny, keen)
  <2>1. far \in SUBSET Monster
    <3>1. s[c] \in State BY DEF Good
    <3>. QED BY <3>1 DEF State
  <2>2. Good(u, c) /\ Awake(u) BY <2>1, DespawnLemma
  <2>. HIDE DEF u
  <2>3. thought = StartThinking(u, keen) BY <1>5 DEF u
  <2>. QED BY <2>2, <2>3, StartAwakeLemma
<1>. QED BY <1>1, <1>2, <1>3, <1>4, <1>5 DEF OnThink

-------------------------------------------------------------------------------
(* The invariant is inductive. *)

LEMMA InitInv == Init => Inv
<1>. SUFFICES ASSUME Init PROVE Inv OBVIOUS
<1>1. \A c \in Creature : creature[c] = Newborn BY DEF Init
<1>2. Newborn \in State
  <2>1. 0 \in 0..ThinkDuration /\ 0 \in 0..2 BY CreaturesAssumption
  <2>. QED BY <2>1 DEF Newborn, State
<1>3. creature \in [Creature -> State] BY <1>2 DEF Init
<1>4. Steady(Newborn) /\ ~Living(Newborn) /\ Newborn.master = NoCreature
      /\ Newborn.summons = {}
  BY DEF Steady, Newborn, Living
<1>5. NoCreature \notin Creature BY CreaturesAssumption DEF Creature
<1>6. Tasks(creature, NoCreature) BY <1>1, <1>4, <1>5 DEF Tasks
<1>7. Family(creature) BY <1>1, <1>4, <1>5 DEF Family, Creature
<1>8. Awake(creature) BY <1>1, <1>4 DEF Awake, Alive, Creature
<1>. QED BY <1>3, <1>6, <1>7, <1>8 DEF Inv, Good

LEMMA ThinkInv ==
    ASSUME Inv, NEW c \in Creature, Think(c)
    PROVE  Inv'
<1>. DEFINE t == creature[c]
            taken == [creature EXCEPT ![c].queued = @ - 1]
            begun == [taken EXCEPT ![c].thinkTaskId = 0]
            x == [t EXCEPT !.queued = t.queued - 1]
            y == [x EXCEPT !.thinkTaskId = 0]
<1>1. /\ Good(creature, NoCreature) /\ Awake(creature) /\ t \in State /\ t.queued > 0
      /\ creature \in [Creature -> State] /\ NoCreature \notin Creature
  BY CreaturesAssumption DEF Inv, Good, Think, Creature
<1>2. Steady(t) BY <1>1 DEF Good, Tasks
<1>3. taken = [creature EXCEPT ![c] = x] BY <1>1
<1>4. begun = [creature EXCEPT ![c] = y] BY <1>1
<1>5. /\ x \in State /\ Same(t, x) /\ x.thinkDuration = t.thinkDuration
      /\ x.queued = t.queued - 1 /\ x.armed = t.armed
  <2>1. t.queued \in 0..2 BY <1>1 DEF State
  <2>2. t.queued - 1 \in 0..2 BY <1>1, <2>1
  <2>. QED BY <1>1, <2>2 DEF State, Same
<1>6. /\ y \in State /\ Same(t, y) /\ y.thinkDuration = t.thinkDuration
      /\ y.queued = t.queued - 1 /\ y.armed = t.armed /\ y.thinkTaskId = 0
  <2>. HIDE DEF x
  <2>1. 0 \in 0..2 OBVIOUS
  <2>. QED BY <1>5, <2>1 DEF State, Same
<1>7. /\ t.stage = "world" => t.thinkDuration # 0 /\ t.queued = 1 /\ t.armed = {}
      /\ t.stage = "gone" => t.armed = {}
      /\ t.stage \in {"world", "gone"}
  BY <1>1, <1>2 DEF Steady, Settled, Left, Newborn, State
<1>8. taken[c] = x /\ begun[c] = y /\ \A d \in Creature \ {c} : begun[d] = creature[d]
  BY <1>1, <1>3, <1>4
<1>9. /\ Thinking(taken, c) <=> t.thinkDuration # 0
      /\ Alive(begun, c) <=> Living(t)
  <2>1. t.thinkDuration \in Nat BY <1>1, CreaturesAssumption DEF State
  <2>. HIDE DEF x, y, taken, begun
  <2>. QED BY <1>5, <1>6, <1>8, <2>1 DEF Thinking, Alive, Living, Same
<1>. HIDE DEF x, y, taken, begun
<1>10. CASE ~Thinking(taken, c)
  <2>1. creature' = [creature EXCEPT ![c] = x] BY <1>3, <1>10 DEF Think, taken
  <2>2. t.stage = "gone" /\ t.thinkDuration = 0 BY <1>7, <1>9, <1>10
  <2>3. Steady(x) BY <1>5, <1>7, <2>2 DEF Steady, Left, Same
  <2>4. Good([creature EXCEPT ![c] = x], NoCreature)
    BY <1>1, <1>5, <2>3, ChangeLemma DEF Same
  <2>5. Awake(creature')
    BY <1>1, <1>5, <2>1 DEF Awake, Alive, Living, Thinking, Same, Creature
  <2>. QED BY <2>1, <2>4, <2>5 DEF Inv
<1>11. CASE Thinking(taken, c) /\ ~Alive(begun, c)
  <2>. DEFINE u == StopThinking(y)
  <2>1. creature' = [begun EXCEPT ![c] = StopThinking(@)]
    BY <1>11 DEF Think, taken, begun
  <2>2. creature' = [creature EXCEPT ![c] = u] BY <1>1, <1>4, <2>1
  <2>3. /\ u \in State /\ Same(y, u) /\ u.thinkDuration = 0 /\ u.armed = {}
        /\ u.queued = y.queued
    BY <1>6, <1>7, StopsLemma
  <2>. HIDE DEF u
  <2>4. Steady(u) BY <1>6, <1>7, <2>3 DEF Steady, Settled, Left, Same
  <2>5. Good([creature EXCEPT ![c] = u], NoCreature)
    BY <1>1, <1>6, <2>3, <2>4, ChangeLemma DEF Same
  <2>6. Awake(creature')
    <3>1. ~Living(u) BY <1>6, <1>9, <1>11, <2>3 DEF Living, Same
    <3>. QED BY <1>1, <2>2, <3>1 DEF Awake, Alive, Thinking, Creature
  <2>. QED BY <2>2, <2>5, <2>6 DEF Inv
<1>12. CASE Thinking(taken, c) /\ Alive(begun, c)
  <2>1. PICK keen \in Keen, deny \in Deny, passed \in 0..ThinkDuration :
            \E thought \in OnThink(begun, c, deny, keen) :
                creature' = FinishThinking(thought, c, passed, keen)
    BY <1>12 DEF Think, taken, begun
  <2>2. Player \subseteq keen BY DEF Keen
  <2>3. InThought(y)
    BY <1>6, <1>7, <1>9, <1>12 DEF InThought, Living, Same
  <2>4. Good(begun, c)
    <3>1. Good([creature EXCEPT ![c] = y], c)
      BY <1>1, <1>6, <2>3, ChangeLemma DEF Same
    <3>. QED BY <1>4, <3>1
  <2>5. Awake(begun)
    BY <1>1, <1>6, <1>8 DEF Awake, Alive, Living, Thinking, Same, Creature
  <2>6. PICK thought \in OnThink(begun, c, deny, keen) :
            creature' = FinishThinking(thought, c, passed, keen)
    BY <2>1
  <2>7. Good(thought, c) /\ Awake(thought) BY <1>12, <2>2, <2>4, <2>5, OnThinkLemma
  <2>. DEFINE v == FinishThinking(thought, c, passed, keen)
  <2>8. Good(v, NoCreature) /\ Awake(v) BY <2>2, <2>7, FinishThinkingLemma
  <2>. HIDE DEF v
  <2>9. creature' = v BY <2>6 DEF v
  <2>. QED BY <2>8, <2>9 DEF Inv
<1>. QED BY <1>10, <1>11, <1>12

LEMMA NextInv == Inv /\ [Next]_creature => Inv'
<1>. SUFFICES ASSUME Inv, [Next]_creature PROVE Inv' OBVIOUS
<1>. DEFINE s == creature
<1>1. /\ Good(s, NoCreature) /\ Awake(s) /\ s \in [Creature -> State]
      /\ NoCreature \notin Creature
      /\ \A c \in Creature : s[c] \in State
      /\ \A c \in Creature : Steady(s[c])
  BY CreaturesAssumption DEF Inv, Good, Tasks, Creature
<1>2. \A keen \in Keen : Player \subseteq keen BY DEF Keen
<1>3. ASSUME NEW v, creature' = v, Good(v, NoCreature), Awake(v) PROVE Inv'
  BY <1>3 DEF Inv
<1>4. ASSUME NEW v, creature' = v, Good(v, NoCreature),
             \A d \in Creature : Alive(v, d) =>
                 Alive(s, d) /\ (Thinking(s, d) => Thinking(v, d))
      PROVE  Inv'
  BY <1>1, <1>3, <1>4, AwakeLemma
<1>5. ASSUME NEW c \in Creature, Enter(c) PROVE Inv'
  <2>1. PICK keen \in Keen : creature' = EnterWorld(s, c, keen) BY <1>5 DEF Enter
  <2>2. s[c].stage = "new" BY <1>5 DEF Enter
  <2>. DEFINE v == EnterWorld(s, c, keen)
  <2>3. Good(v, NoCreature) /\ Awake(v) BY <1>1, <1>2, <2>2, EnterWorldLemma
  <2>. HIDE DEF v
  <2>. QED BY <1>3, <2>1, <2>3 DEF v
<1>6. ASSUME NEW c \in Creature, Leave(c) PROVE Inv'
  <2>1. PICK keen \in Keen, deny \in Deny : creature' = ExitWorld(s, c, deny, keen)
    BY <1>6 DEF Leave
  <2>2. InWorld(s, c) BY <1>6 DEF Leave
  <2>. DEFINE v == ExitWorld(s, c, deny, keen)
  <2>3. /\ Good(v, NoCreature)
        /\ \A d \in Creature : Alive(v, d) =>
              Alive(s, d) /\ (Thinking(s, d) => Thinking(v, d))
    BY <1>1, <2>2, ExitWorldLemma
  <2>. HIDE DEF v
  <2>. QED BY <1>4, <2>1, <2>3 DEF v
<1>7. ASSUME NEW c \in Creature, Kill(c) PROVE Inv'
  <2>1. PICK keen \in Keen, deny \in Deny : creature' = Die(s, c, deny, keen)
    BY <1>7 DEF Kill
  <2>2. Alive(s, c) BY <1>7 DEF Kill
  <2>. DEFINE v == Die(s, c, deny, keen)
  <2>3. /\ Good(v, NoCreature)
        /\ \A d \in Creature : Alive(v, d) =>
              Alive(s, d) /\ (Thinking(s, d) => Thinking(v, d))
    BY <1>1, <2>2, DieLemma
  <2>. HIDE DEF v
  <2>. QED BY <1>4, <2>1, <2>3 DEF v
<1>8. ASSUME NEW c \in Creature, Move(c) PROVE Inv'
  <2>1. PICK keen \in Keen, deny \in Deny, far \in SUBSET s[c].summons :
            creature' = StartThinking(Despawn(s, far, deny, keen), keen)
    BY <1>8 DEF Move
  <2>2. far \in SUBSET Monster BY <1>1 DEF State
  <2>. DEFINE u == Despawn(s, far, deny, keen)
              v == StartThinking(u, keen)
  <2>3. Good(u, NoCreature) /\ Awake(u) BY <1>1, <2>2, DespawnLemma
  <2>. HIDE DEF u
  <2>4. Good(v, NoCreature) /\ Awake(v) BY <2>3, StartAwakeLemma
  <2>. HIDE DEF v
  <2>. QED BY <1>3, <2>1, <2>4 DEF u, v
<1>9. ASSUME NEW c \in Creature, Provoke(c) PROVE Inv'
  <2>1. PICK keen \in Keen :
            creature' = StartThinking(s, {c} \cup (keen \cap s[c].summons))
    BY <1>9 DEF Provoke
  <2>. DEFINE v == StartThinking(s, {c} \cup (keen \cap s[c].summons))
  <2>2. Good(v, NoCreature) /\ Awake(v) BY <1>1, StartAwakeLemma
  <2>. HIDE DEF v
  <2>. QED BY <1>3, <2>1, <2>2 DEF v
<1>10. ASSUME NEW c \in Creature, NEW id \in s[c].armed, Fire(c, id) PROVE Inv'
  <2>. DEFINE t == s[c]
              x == [t EXCEPT !.armed = {}]
              y == [x EXCEPT !.queued = 1]
  <2>1. /\ t.stage = "world" /\ t.thinkDuration # 0 /\ t.queued = 0 /\ t.armed = {id}
    BY <1>1, <1>10 DEF Steady, Settled, Left, Newborn, State
  <2>2. creature' = [s EXCEPT ![c].armed = @ \ {id}, ![c].queued = @ + 1]
    BY <1>10 DEF Fire
  <2>3. t.armed \ {id} = {} /\ t.queued + 1 = 1 BY <2>1
  <2>4. creature' = [s EXCEPT ![c] = y] BY <1>1, <2>2, <2>3
  <2>5. x \in State /\ Same(t, x) /\ x.thinkDuration # 0 /\ x.armed = {}
    BY <1>1, <2>1 DEF State, Same
  <2>6. 1 \in 0..2 OBVIOUS
  <2>. HIDE DEF x
  <2>7. y \in State /\ Same(t, y) /\ y.thinkDuration # 0 /\ y.armed = {} /\ y.queued = 1
    BY <2>5, <2>6 DEF State, Same
  <2>. HIDE DEF y
  <2>8. Steady(y) BY <2>1, <2>7 DEF Steady, Settled, Same
  <2>9. Good([s EXCEPT ![c] = y], NoCreature)
    BY <1>1, <2>7, <2>8, ChangeLemma DEF Same
  <2>10. y.thinkDuration > 0 BY <2>7, CreaturesAssumption DEF State
  <2>11. Awake([s EXCEPT ![c] = y])
    BY <1>1, <2>10 DEF Awake, Alive, Thinking, Creature
  <2>. QED BY <1>3, <2>4, <2>9, <2>11
<1>11. ASSUME NEW c \in Creature, NEW m \in Monster, Summon(c, m) PROVE Inv'
  <2>1. PICK keen \in Keen : creature' = PlaceSummon(s, c, m, keen) BY <1>11 DEF Summon
  <2>2. CanSummon(s, c, m) /\ m # NoCreature
    BY <1>11, CreaturesAssumption DEF Summon
  <2>. DEFINE v == PlaceSummon(s, c, m, keen)
  <2>3. Good(v, NoCreature) /\ Awake(v) BY <1>1, <1>2, <2>2, PlaceSummonLemma
  <2>. HIDE DEF v
  <2>. QED BY <1>3, <2>1, <2>3 DEF v
<1>12. ASSUME NEW p \in Player, LoseSummons(p) PROVE Inv'
  <2>1. PICK keen \in Keen, deny \in Deny : creature' = KillSummons(s, p, deny, keen)
    BY <1>12 DEF LoseSummons
  <2>2. p \in Creature /\ Alive(s, p) BY <1>12 DEF LoseSummons, Creature
  <2>3. s[p].master = NoCreature
    <3>1. s[p] \in State BY <1>1, <2>2
    <3>2. p \notin Monster BY CreaturesAssumption
    <3>. QED BY <1>1, <2>2, <3>1, <3>2 DEF Good, Family, State
  <2>. DEFINE v == KillSummons(s, p, deny, keen)
              t == [s[p] EXCEPT !.summons = {}]
  <2>4. \A d \in Creature \ {p} : IF d = NoCreature THEN InThought(s[d]) ELSE Steady(s[d])
    BY <1>1
  <2>a. Family(s) /\ s \in [Creature -> State] BY <1>1 DEF Good
  <2>5. /\ v = [d \in Creature |-> v[d]]
        /\ v[p] \in {t, Wake(t)}
        /\ \A d \in Creature \ {p} :
              /\ v[d] \in State
              /\ IF d = NoCreature THEN InThought(v[d]) ELSE Steady(v[d])
              /\ Alive(v, d) => Alive(s, d) /\ v[d].thinkDuration = s[d].thinkDuration
        /\ Family(v)
    BY <2>2, <2>3, <2>4, <2>a, KillSummonsLemma
  <2>. HIDE DEF v
  <2>6. /\ t \in State /\ SameTasks(s[p], t) /\ t.thinkDuration = s[p].thinkDuration
    BY <1>1, <2>2 DEF State, SameTasks, Alive, Living
  <2>7. Steady(t) BY <1>1, <2>2, <2>6, SameTasksLemma
  <2>8. /\ Wake(t) \in State /\ Steady(Wake(t))
        /\ t.thinkDuration # 0 => Wake(t).thinkDuration # 0
    BY <2>6, <2>7, WakeLemma
  <2>9. /\ v[p] \in State /\ Steady(v[p])
        /\ s[p].thinkDuration # 0 => v[p].thinkDuration # 0
    BY <2>5, <2>6, <2>7, <2>8
  <2>10. Good(v, NoCreature)
    <3>1. \A d \in Creature : v[d] \in State /\ Steady(v[d]) BY <1>1, <2>5, <2>9
    <3>2. v \in [Creature -> State] BY <2>5, <3>1
    <3>. QED BY <1>1, <2>5, <3>1, <3>2 DEF Good, Tasks
  <2>11. Awake(v)
    <3>1. \A d \in Creature : s[d].thinkDuration \in Nat /\ v[d].thinkDuration \in Nat
      BY <1>1, <2>10, CreaturesAssumption DEF Good, State
    <3>2. ASSUME NEW d \in Player, Alive(v, d) PROVE Thinking(v, d)
      <4>1. d \in Creature BY DEF Creature
      <4>2. CASE d = p BY <1>1, <2>2, <2>9, <3>1, <4>1, <4>2 DEF Awake, Thinking
      <4>3. CASE d # p BY <1>1, <2>5, <3>2, <4>1, <4>3 DEF Awake, Thinking
      <4>. QED BY <4>2, <4>3
    <3>. QED BY <3>2 DEF Awake
  <2>. QED BY <1>3, <2>1, <2>10, <2>11 DEF v
<1>13. ASSUME NEW p \in Player, NEW m \in Monster, Convince(m, p) PROVE Inv'
  <2>1. PICK keen \in Keen : creature' = SetMaster(s, m, p, keen) BY <1>13 DEF Convince
  <2>2. InWorld(s, m) /\ InWorld(s, p) /\ p # m /\ p \in Creature
    BY <1>13 DEF Convince, CanBeConvincedBy, Creature
  <2>. DEFINE v == SetMaster(s, m, p, keen)
  <2>3. /\ Good(v, NoCreature)
        /\ \A d \in Creature : /\ v[d].stage = s[d].stage /\ v[d].healthy = s[d].healthy
                               /\ Thinking(s, d) => Thinking(v, d)
    BY <1>1, <2>2, SetMasterLemma
  <2>. HIDE DEF v
  <2>4. Awake(v) BY <1>1, <2>3 DEF Awake, Alive, Living, Creature
  <2>. QED BY <1>3, <2>1, <2>3, <2>4 DEF v
<1>14. CASE UNCHANGED creature BY <1>1, <1>3, <1>14
<1>. QED BY <1>5, <1>6, <1>7, <1>8, <1>9, <1>10, <1>11, <1>12, <1>13, <1>14, ThinkInv DEF Next

LEMMA Invariance == Spec => []Inv
<1>. QED BY InitInv, NextInv, PTL DEF Spec

\* Whoever thinks in the world has one think task, armed or queued, players in
\* good health always think, and a creature that is gone leaves no timer behind
\* (startThinking, stopThinking, think), with any number of creatures.
THEOREM OneTaskPerThinker == Spec => []ThinkingAgrees
<1>1. Inv => ThinkingAgrees
  <2>. SUFFICES ASSUME Inv PROVE ThinkingAgrees OBVIOUS
  <2>1. /\ \A c \in Creature : creature[c] \in State /\ Steady(creature[c])
        /\ creature \in [Creature -> State] /\ Awake(creature)
    BY CreaturesAssumption DEF Inv, Good, Tasks, Creature
  <2>2. TypeOK
    <3>1. ASSUME NEW c \in Creature
          PROVE  creature[c] \in [stage : {"new", "world", "gone"}, healthy : BOOLEAN,
                                  thinkDuration : 0..ThinkDuration, thinkTaskId : 0..2,
                                  queued : 0..3, armed : SUBSET (1..2),
                                  master : Monster \cup Player \cup {NoCreature},
                                  summons : SUBSET Monster]
      <4>1. creature[c] \in State BY <2>1
      <4>2. 0..2 \subseteq 0..3 /\ Creature \cup {NoCreature} = Monster \cup Player \cup {NoCreature}
        BY DEF Creature
      <4>. QED BY <4>1, <4>2 DEF State
    <3>. QED BY <2>1, <3>1 DEF TypeOK
  <2>3. ASSUME NEW c \in Creature
        PROVE  /\ creature[c].thinkDuration \in Nat /\ creature[c].queued \in Nat
               /\ creature[c].stage = "new" =>
                     creature[c].thinkDuration = 0 /\ creature[c].armed = {}
    BY <2>1, CreaturesAssumption DEF State, Steady, Newborn
  <2>4. OneThinkTask
    <3>. SUFFICES ASSUME NEW c \in Creature
         PROVE  /\ Alive(creature, c) /\ Thinking(creature, c) =>
                      creature[c].queued + Cardinality(creature[c].armed) = 1
                /\ creature[c].armed # {} =>
                      /\ Thinking(creature, c) /\ InWorld(creature, c)
                      /\ creature[c].armed = {creature[c].thinkTaskId}
      BY DEF OneThinkTask
    <3>1. Cardinality({}) = 0 /\ Cardinality({creature[c].thinkTaskId}) = 1
      BY FS_EmptySet, FS_Singleton
    <3>2. Steady(creature[c]) /\ creature[c] \in State BY <2>1
    <3>3. creature[c].stage \in {"new", "world", "gone"} BY <3>2 DEF State
    <3>4. CASE creature[c].stage = "world"
      <4>. DEFINE t == creature[c]
      <4>1. Settled(t) BY <3>2, <3>4 DEF Steady
      <4>2. t.thinkDuration # 0 => t.queued + Cardinality(t.armed) = 1
        <5>1. CASE t.queued = 1 /\ t.armed = {} BY <3>1, <5>1
        <5>2. CASE t.queued = 0 /\ t.armed = {t.thinkTaskId} BY <3>1, <5>2
        <5>. QED BY <4>1, <5>1, <5>2 DEF Settled
      <4>. QED BY <2>3, <3>4, <4>1, <4>2 DEF Settled, Thinking, InWorld
    <3>5. CASE creature[c].stage # "world"
      BY <2>3, <3>2, <3>3, <3>5 DEF Steady, Left, Alive, Living
    <3>. QED BY <3>4, <3>5
  <2>5. PlayersThink BY <2>1 DEF PlayersThink, Awake
  <2>6. TheDeadAreStopped
    <3>. SUFFICES ASSUME NEW c \in Creature, Thinking(creature, c), ~Alive(creature, c)
         PROVE  /\ creature[c].queued > 0 \/ creature[c].armed # {}
                /\ creature[c].stage = "gone" => creature[c].armed = {}
      BY DEF TheDeadAreStopped
    <3>1. Steady(creature[c]) /\ creature[c] \in State BY <2>1
    <3>2. creature[c].stage \in {"new", "world", "gone"} BY <3>1 DEF State
    <3>. QED BY <2>3, <3>1, <3>2 DEF Steady, Settled, Left, Thinking
  <2>. QED BY <2>2, <2>4, <2>5, <2>6 DEF ThinkingAgrees
<1>. QED BY <1>1, Invariance, PTL

\* A living summon is on its master's list, its master is in the world, and nobody
\* has summons that are gone (setMaster, killSummons, willExitWorld), whoever dies,
\* leaves, convinces or summons whom.
THEOREM SummonsAreServed == Spec => []NoOrphans
<1>1. Inv => NoOrphans BY DEF Inv, Good, Family, NoOrphans, Creature
<1>. QED BY <1>1, Invariance, PTL

-------------------------------------------------------------------------------
(* Spawns and raids. *)

Thing == [stage : {"none", "alive", "denied", "item"}, spawn : BOOLEAN,
          raid : Raids \cup {None}, away : BOOLEAN]
RaidState == [refs : Nat, count : Nat, next : BOOLEAN, task : Nat, lost : 0..MaxLost]
PopState == [thing : [Things -> Thing], spawned : SUBSET ((Slots \cup {0}) \X Brood),
             event : BOOLEAN, checks : 0..MaxChecks, ready : SUBSET Slots, tried : Nat,
             raid : [Raids -> RaidState], running : Raids \cup {None}]

\* The books of the spawn: whoever belongs to it lives or was denied death, and
\* is listed once, under a slot of his own or under 0; an armed check is pending.
SpawnBooks(s) ==
    /\ \A m \in Things : s.thing[m].spawn => m \in Brood /\ s.thing[m].stage \in {"alive", "denied"}
    /\ \A m \in Brood : s.thing[m].spawn /\ s.thing[m].stage = "alive" =>
                           \E e \in s.spawned : e[2] = m
    /\ \A e \in s.spawned : s.thing[e[2]].spawn
    /\ \A e, f \in s.spawned : e[2] = f[2] \/ (e[1] = f[1] /\ e[1] # 0) => e = f
    /\ s.event => s.checks > 0

\* A raid q that is, or is not, the running one.
Driven(q, r, running) ==
    /\ q.count \in 0..Len(Events[r]) /\ q.task \in 0..Len(Events[r])
    /\ q.task # 0 <=> q.next
    /\ q.next => running = r
    /\ running = r => q.next \/ (RefType[r] = "block" /\ q.refs > 0)
    /\ running # r /\ q.refs = 0 => q.count = 0

\* What refers to a raid is in the world and counted; only items are lost.
Referring(s, r) == {m \in Horde : s.thing[m].raid = r}
RaidBooks(s) ==
    /\ \A m \in Things : s.thing[m].raid # None =>
          /\ m \in Horde /\ s.thing[m].stage # "none"
          /\ s.thing[m].stage = "item" => PlacesItems(s.thing[m].raid)
    /\ \A r \in Raids : s.raid[r].refs = Cardinality(Referring(s, r)) + s.raid[r].lost
    /\ \A r \in Raids : s.raid[r].lost > 0 => PlacesItems(r)

PopGood(s) ==
    /\ s \in PopState /\ SpawnBooks(s) /\ RaidBooks(s)
    /\ \A r \in Raids : Driven(s.raid[r], r, s.running)
    /\ s.tried = 0
    /\ s.checks > 0 \/ Cardinality(s.spawned) >= Cardinality(Slots)

PopInv == PopGood(w) /\ site \in [Slots -> {"free", "watched", "blocked"}]
-------------------------------------------------------------------------------

\* An operation that leaves the one half of the state, or the other, alone.
SameSpawn(s, t) ==
    /\ t.spawned = s.spawned /\ t.event = s.event /\ t.checks = s.checks
    /\ t.ready = s.ready /\ t.tried = s.tried
    /\ \A m \in Things : /\ t.thing[m].stage = s.thing[m].stage
                         /\ t.thing[m].spawn = s.thing[m].spawn
                         /\ t.thing[m].away = s.thing[m].away
SameRaids(s, t) ==
    /\ t.raid = s.raid /\ t.running = s.running
    /\ \A m \in Things : t.thing[m].raid = s.thing[m].raid

LEMMA BooksLemma ==
    ASSUME NEW s \in PopState, NEW t \in PopState, SameSpawn(s, t), SpawnBooks(s)
    PROVE  SpawnBooks(t)
<1>1. \A e \in t.spawned : e[2] \in Things /\ e[2] \in Brood BY DEF PopState, Things
<1>2. Brood \subseteq Things BY DEF Things
<1>. QED BY <1>1, <1>2 DEF SpawnBooks, SameSpawn

\* Nothing vanishes or becomes an item.
Stays(x, y) == y.stage # "none" /\ (y.stage = "item" => x.stage = "item")

LEMMA RaidBooksLemma ==
    ASSUME NEW s, NEW t, SameRaids(s, t), RaidBooks(s),
           \A m \in Things : s.thing[m].raid # None => Stays(s.thing[m], t.thing[m])
    PROVE  RaidBooks(t)
<1>1. ASSUME NEW r \in Raids PROVE Referring(t, r) = Referring(s, r)
  BY DEF Referring, SameRaids, Things
<1>. QED BY <1>1 DEF RaidBooks, SameRaids, Stays

-------------------------------------------------------------------------------
(* The spawn. *)

LEMMA ArmedLemma ==
    ASSUME SlotsAssumption, NEW s \in PopState
    PROVE  LET t == Armed(s)
           IN /\ t \in PopState /\ t.event /\ t.checks > 0
              /\ t.spawned = s.spawned /\ t.ready = s.ready /\ t.tried = s.tried
              /\ t.thing = s.thing /\ t.raid = s.raid /\ t.running = s.running
<1>. DEFINE k == IF s.checks < MaxChecks THEN s.checks + 1 ELSE s.checks
            u == [s EXCEPT !.event = TRUE]
<1>1. MaxChecks \in Nat \ {0} BY DEF SlotsAssumption
<1>2. Armed(s) = [u EXCEPT !.checks = k] BY DEF Armed, PopState
<1>3. k \in 0..MaxChecks /\ k > 0
  <2>1. s.checks \in 0..MaxChecks BY DEF PopState
  <2>. QED BY <1>1, <2>1
<1>. HIDE DEF k
<1>4. /\ u \in PopState /\ u.event
      /\ u.spawned = s.spawned /\ u.ready = s.ready /\ u.tried = s.tried
      /\ u.thing = s.thing /\ u.raid = s.raid /\ u.running = s.running
  BY DEF PopState
<1>. HIDE DEF u
<1>. QED BY <1>2, <1>3, <1>4 DEF PopState

LEMMA StartEventLemma ==
    ASSUME SlotsAssumption, NEW s \in PopState, s.event => s.checks > 0
    PROVE  LET t == StartEvent(s)
           IN /\ t \in PopState /\ t.checks > 0
              /\ t.spawned = s.spawned /\ t.ready = s.ready /\ t.tried = s.tried
              /\ t.thing = s.thing /\ t.raid = s.raid /\ t.running = s.running
BY ArmedLemma DEF StartEvent

LEMMA RemoveFromSpawnLemma ==
    ASSUME SlotsAssumption, NEW s \in PopState, NEW m \in Things, s.event => s.checks > 0,
           \A e \in s.spawned : s.thing[e[2]].spawn
    PROVE  LET t == RemoveFromSpawn(s, m)
           IN /\ t \in PopState /\ SameRaids(s, t)
              /\ t.spawned = {e \in s.spawned : e[2] # m}
              /\ t.event => t.checks > 0
              /\ t.checks > 0 \/ (t.spawned = s.spawned /\ t.checks = s.checks)
              /\ t.ready = s.ready /\ t.tried = s.tried
              /\ ~t.thing[m].spawn /\ t.thing[m].stage = s.thing[m].stage
              /\ \A x \in Things \ {m} : t.thing[x] = s.thing[x]
<1>1. CASE ~s.thing[m].spawn
  <2>1. RemoveFromSpawn(s, m) = s BY <1>1 DEF RemoveFromSpawn
  <2>2. s.spawned = {e \in s.spawned : e[2] # m} BY <1>1
  <2>. QED BY <1>1, <2>1, <2>2 DEF SameRaids
<1>2. CASE s.thing[m].spawn
  <2>. DEFINE S == {e \in s.spawned : e[2] # m}
              u == RemoveMonster(s, m)
              v == StartEvent(u)
              a == [v.thing[m] EXCEPT !.spawn = FALSE]
              f == [v.thing EXCEPT ![m] = a]
              t == [v EXCEPT !.thing = f]
  <2>1. u = [s EXCEPT !.spawned = S] BY DEF RemoveMonster
  <2>2. /\ u \in PopState /\ u.spawned = S /\ u.event = s.event /\ u.checks = s.checks
        /\ u.ready = s.ready /\ u.tried = s.tried
        /\ u.thing = s.thing /\ u.raid = s.raid /\ u.running = s.running
    BY <2>1 DEF PopState
  <2>. HIDE DEF u, S
  <2>3. /\ v \in PopState /\ v.checks > 0 /\ v.spawned = S
        /\ v.ready = s.ready /\ v.tried = s.tried
        /\ v.thing = s.thing /\ v.raid = s.raid /\ v.running = s.running
    BY <2>2, StartEventLemma
  <2>4. RemoveFromSpawn(s, m) = t BY <1>2 DEF RemoveFromSpawn, u
  <2>. HIDE DEF v
  <2>5. a \in Thing /\ ~a.spawn /\ a.stage = s.thing[m].stage /\ a.raid = s.thing[m].raid
    <3>1. v.thing[m] \in Thing BY <2>3 DEF PopState
    <3>. QED BY <2>3, <3>1 DEF Thing
  <2>. HIDE DEF a
  <2>6. /\ f \in [Things -> Thing] /\ f[m] = a /\ \A x \in Things \ {m} : f[x] = s.thing[x]
    BY <2>3, <2>5 DEF PopState
  <2>. HIDE DEF f
  <2>7. /\ t \in PopState /\ t.thing = f /\ t.spawned = S /\ t.checks > 0
        /\ t.ready = s.ready /\ t.tried = s.tried /\ t.raid = s.raid /\ t.running = s.running
    BY <2>3, <2>6 DEF PopState
  <2>. HIDE DEF t
  <2>8. SameRaids(s, t) BY <2>5, <2>6, <2>7 DEF SameRaids
  <2>. QED BY <2>4, <2>5, <2>6, <2>7, <2>8 DEF S
<1>. QED BY <1>1, <1>2

\* A monster that is no longer of the spawn is not listed.
LEMMA UnlistedLemma ==
    ASSUME SlotsAssumption, NEW s \in PopState, NEW m \in Things, SpawnBooks(s)
    PROVE  SpawnBooks(RemoveFromSpawn(s, m))
<1>. DEFINE t == RemoveFromSpawn(s, m)
<1>1. /\ s.event => s.checks > 0
      /\ \A e \in s.spawned : s.thing[e[2]].spawn /\ e[2] \in Things
      /\ Brood \subseteq Things
  BY DEF SpawnBooks, PopState, Things
<1>2. /\ t \in PopState /\ SameRaids(s, t)
      /\ t.spawned = {e \in s.spawned : e[2] # m}
      /\ t.event => t.checks > 0
      /\ ~t.thing[m].spawn /\ t.thing[m].stage = s.thing[m].stage
      /\ \A x \in Things \ {m} : t.thing[x] = s.thing[x]
  BY <1>1, RemoveFromSpawnLemma
<1>. HIDE DEF t
<1>3. \A x \in Things : t.thing[x].spawn => x \in Brood /\ t.thing[x].stage \in {"alive", "denied"}
  BY <1>2 DEF SpawnBooks
<1>4. ASSUME NEW x \in Brood, t.thing[x].spawn, t.thing[x].stage = "alive"
      PROVE  \E e \in t.spawned : e[2] = x
  BY <1>1, <1>2, <1>4 DEF SpawnBooks
<1>5. \A e \in t.spawned : t.thing[e[2]].spawn BY <1>1, <1>2
<1>6. \A e, f \in t.spawned : e[2] = f[2] \/ (e[1] = f[1] /\ e[1] # 0) => e = f
  BY <1>2 DEF SpawnBooks
<1>7. SpawnBooks(t) BY <1>2, <1>3, <1>4, <1>5, <1>6 DEF SpawnBooks
<1>. QED BY <1>7 DEF t

LEMMA SpawnMonsterLemma ==
    ASSUME SlotsAssumption, NEW s \in PopState, SpawnBooks(s), RaidBooks(s),
           NEW n \in Slots, Entries(s, n) = {}, FreeIn(s, Brood) # {}
    PROVE  \E m \in FreeIn(s, Brood) :
              LET t == SpawnMonster(s, n)
              IN /\ t \in PopState /\ SpawnBooks(t) /\ SameRaids(s, t) /\ RaidBooks(t)
                 /\ t.ready = s.ready \ {n} /\ t.tried = s.tried
                 /\ \/ t.spawned = s.spawned /\ t.checks > 0 /\ FreeIn(t, Brood) = FreeIn(s, Brood)
                    \/ /\ t.spawned = s.spawned \cup {<<n, m>>} /\ t.checks = s.checks
                       /\ FreeIn(t, Brood) = FreeIn(s, Brood) \ {m}
<1>. DEFINE m == CHOOSE x \in Brood : s.thing[x].stage = "none"
            a == [NoThing EXCEPT !.stage = "alive", !.spawn = TRUE]
            f == [s.thing EXCEPT ![m] = a]
            R == s.ready \ {n}
            q == [s EXCEPT !.ready = R]
            born == [q EXCEPT !.thing = f]
            t == SpawnMonster(s, n)
<1>1. m \in Brood /\ s.thing[m].stage = "none" /\ m \in FreeIn(s, Brood) BY DEF FreeIn
<1>2. m \in Things /\ Brood \subseteq Things BY <1>1 DEF Things
<1>3. /\ s.thing[m] \in Thing /\ s.thing[m].raid = None /\ s.thing[m].spawn = FALSE
  BY <1>1, <1>2 DEF SpawnBooks, RaidBooks, PopState, Thing
<1>4. t = IF site[n] = "blocked"
          THEN [RemoveFromSpawn(born, m) EXCEPT !.thing[m] = NoThing]
          ELSE [born EXCEPT !.spawned = @ \cup {<<n, m>>}]
  <2>1. [s EXCEPT !.ready = @ \ {n}, !.thing[m] = a] = born
    <3>. HIDE DEF m, a
    <3>. QED BY DEF PopState
  <2>. QED BY <2>1 DEF SpawnMonster
<1>. HIDE DEF m
<1>5. a \in Thing /\ a.stage = "alive" /\ a.spawn /\ a.raid = None BY DEF NoThing, Thing
<1>. HIDE DEF a
<1>6. f \in [Things -> Thing] /\ f[m] = a /\ \A x \in Things \ {m} : f[x] = s.thing[x]
  BY <1>2, <1>5 DEF PopState
<1>7. /\ born \in PopState /\ born.thing = f /\ born.ready = R
      /\ born.spawned = s.spawned /\ born.event = s.event /\ born.checks = s.checks
      /\ born.tried = s.tried /\ born.raid = s.raid /\ born.running = s.running
  <2>. HIDE DEF f
  <2>0. R \in SUBSET Slots BY DEF PopState
  <2>. HIDE DEF R
  <2>1. /\ q \in PopState /\ q.ready = R /\ q.thing = s.thing
        /\ q.spawned = s.spawned /\ q.event = s.event /\ q.checks = s.checks
        /\ q.tried = s.tried /\ q.raid = s.raid /\ q.running = s.running
    BY <2>0 DEF PopState
  <2>. HIDE DEF q
  <2>. QED BY <1>6, <2>1 DEF PopState
<1>8. SameRaids(s, born) BY <1>3, <1>5, <1>6, <1>7 DEF SameRaids
<1>. HIDE DEF f, R, born, t
<1>9. \A e \in s.spawned : /\ e[2] \in Things /\ e[2] # m /\ s.thing[e[2]].spawn
                           /\ e[1] \in Slots \cup {0} /\ e[2] \in Brood
                           /\ e[1] # n /\ e = <<e[1], e[2]>>
  <2>1. \A e \in s.spawned : /\ e[2] \in Brood /\ e[1] \in Slots \cup {0} /\ s.thing[e[2]].spawn
                             /\ e = <<e[1], e[2]>>
    BY DEF SpawnBooks, PopState
  <2>. QED BY <1>2, <1>3, <2>1 DEF Entries
<1>10. CASE site[n] = "blocked"
  <2>. DEFINE u == RemoveFromSpawn(born, m)
              g == [u.thing EXCEPT ![m] = NoThing]
              v == [u EXCEPT !.thing = g]
  <2>1. born.event => born.checks > 0 BY <1>7 DEF SpawnBooks
  <2>2. \A e \in born.spawned : born.thing[e[2]].spawn BY <1>6, <1>7, <1>9
  <2>3. /\ u \in PopState /\ SameRaids(born, u)
        /\ u.spawned = {e \in born.spawned : e[2] # m}
        /\ u.event => u.checks > 0
        /\ u.ready = born.ready /\ u.tried = born.tried
        /\ \A x \in Things \ {m} : u.thing[x] = born.thing[x]
    BY <1>2, <1>7, <2>1, <2>2, RemoveFromSpawnLemma
  <2>3a. u.checks > 0
    <3>1. born.thing[m].spawn BY <1>5, <1>6, <1>7
    <3>2. u = [StartEvent(RemoveMonster(born, m)) EXCEPT !.thing[m].spawn = FALSE]
      BY <3>1 DEF RemoveFromSpawn
    <3>. DEFINE p == RemoveMonster(born, m)
                z == StartEvent(p)
    <3>3. p = [born EXCEPT !.spawned = {e \in born.spawned : e[2] # m}] BY DEF RemoveMonster
    <3>4. p \in PopState /\ (p.event => p.checks > 0) BY <1>7, <2>1, <3>3 DEF PopState
    <3>. HIDE DEF p
    <3>5. z \in PopState /\ z.checks > 0 BY <3>4, StartEventLemma
    <3>. HIDE DEF z
    <3>6. u = [z EXCEPT !.thing[m].spawn = FALSE] BY <3>2 DEF z, p
    <3>. QED BY <3>5, <3>6 DEF PopState
  <2>. HIDE DEF u
  <2>4. t = v BY <1>4, <1>10 DEF u
  <2>5. /\ NoThing \in Thing /\ NoThing.stage = "none" /\ NoThing.spawn = FALSE
        /\ NoThing.raid = None
    BY DEF NoThing, Thing
  <2>6. /\ g \in [Things -> Thing] /\ g[m] = NoThing
        /\ \A x \in Things \ {m} : g[x] = s.thing[x]
    BY <1>2, <1>6, <1>7, <2>3, <2>5 DEF PopState
  <2>. HIDE DEF g
  <2>7. /\ v \in PopState /\ v.thing = g /\ v.spawned = u.spawned /\ v.event = u.event
        /\ v.checks = u.checks /\ v.ready = u.ready /\ v.tried = u.tried
        /\ v.raid = u.raid /\ v.running = u.running
    BY <2>3, <2>6 DEF PopState
  <2>. HIDE DEF v
  <2>8. v.spawned = s.spawned BY <1>7, <1>9, <2>3, <2>7
  <2>9. ASSUME NEW x \in Things
        PROVE  /\ v.thing[x].stage = s.thing[x].stage /\ v.thing[x].spawn = s.thing[x].spawn
               /\ v.thing[x].raid = s.thing[x].raid
    <3>1. CASE x = m BY <1>1, <1>3, <2>5, <2>6, <2>7, <3>1
    <3>2. CASE x # m BY <2>6, <2>7, <3>2
    <3>. QED BY <3>1, <3>2
  <2>10. SameRaids(s, v) BY <1>7, <2>3, <2>7, <2>9 DEF SameRaids
  <2>11. RaidBooks(v)
    <3>1. \A x \in Things : s.thing[x].raid # None => Stays(s.thing[x], v.thing[x])
      BY <2>9 DEF RaidBooks, Stays
    <3>. QED BY <2>10, <3>1, RaidBooksLemma
  <2>12. SpawnBooks(v)
    <3>1. v.event => v.checks > 0 BY <2>3, <2>7
    <3>. QED BY <1>2, <1>9, <2>8, <2>9, <3>1 DEF SpawnBooks
  <2>13. FreeIn(v, Brood) = FreeIn(s, Brood) BY <1>2, <2>9 DEF FreeIn
  <2>. QED BY <1>1, <1>7, <2>3, <2>3a, <2>4, <2>7, <2>8, <2>10, <2>11, <2>12, <2>13 DEF t, R
<1>11. CASE site[n] # "blocked"
  <2>. DEFINE S == s.spawned \cup {<<n, m>>}
              v == [born EXCEPT !.spawned = S]
  <2>1. t = v BY <1>4, <1>7, <1>11
  <2>2. S \in SUBSET ((Slots \cup {0}) \X Brood) BY <1>1 DEF PopState
  <2>. HIDE DEF S
  <2>3. /\ v \in PopState /\ v.thing = f /\ v.spawned = S /\ v.event = s.event
        /\ v.checks = s.checks /\ v.ready = R /\ v.tried = s.tried
        /\ v.raid = s.raid /\ v.running = s.running
    BY <1>7, <2>2 DEF PopState
  <2>. HIDE DEF v
  <2>4. SameRaids(s, v) BY <1>3, <1>5, <1>6, <2>3 DEF SameRaids
  <2>5. RaidBooks(v)
    <3>1. \A x \in Things : s.thing[x].raid # None => Stays(s.thing[x], v.thing[x])
      BY <1>3, <1>6, <2>3 DEF RaidBooks, Stays
    <3>. QED BY <2>4, <3>1, RaidBooksLemma
  <2>6. SpawnBooks(v)
    <3>1. \A x \in Things : v.thing[x].spawn => x \in Brood /\ v.thing[x].stage \in {"alive", "denied"}
      BY <1>1, <1>5, <1>6, <2>3 DEF SpawnBooks
    <3>2. ASSUME NEW x \in Brood, v.thing[x].spawn, v.thing[x].stage = "alive"
          PROVE  \E e \in v.spawned : e[2] = x
      <4>1. CASE x = m
        <5>1. <<n, m>> \in v.spawned /\ <<n, m>>[2] = m BY <2>3 DEF S
        <5>. QED BY <4>1, <5>1
      <4>2. CASE x # m
        <5>1. s.thing[x].spawn /\ s.thing[x].stage = "alive" BY <1>2, <1>6, <2>3, <3>2, <4>2
        <5>2. PICK e \in s.spawned : e[2] = x BY <5>1 DEF SpawnBooks
        <5>. QED BY <2>3, <5>2 DEF S
      <4>. QED BY <4>1, <4>2
    <3>3. \A e \in v.spawned : v.thing[e[2]].spawn
      BY <1>5, <1>6, <1>9, <2>3 DEF S
    <3>4. \A e, g \in v.spawned : e[2] = g[2] \/ (e[1] = g[1] /\ e[1] # 0) => e = g
      BY <1>9, <2>3 DEF S, SpawnBooks
    <3>5. v.event => v.checks > 0 BY <2>3 DEF SpawnBooks
    <3>. QED BY <3>1, <3>2, <3>3, <3>4, <3>5 DEF SpawnBooks
  <2>7. FreeIn(v, Brood) = FreeIn(s, Brood) \ {m}
    BY <1>2, <1>5, <1>6, <2>3 DEF FreeIn
  <2>. QED BY <1>1, <2>1, <2>3, <2>4, <2>5, <2>6, <2>7 DEF t, R, S
<1>. QED BY <1>10, <1>11

-------------------------------------------------------------------------------
(* The loops over the slots. *)

\* A loop over 1..N from a value base on is defined, and keeps what each of its
\* steps keeps.
IsLoop(g, base, step, N) ==
    g = [n \in 0..N |-> IF n = 0 THEN base ELSE step[n][g[n - 1]]]

LEMMA LoopExists ==
    ASSUME NEW N \in Nat, NEW base, NEW step
    PROVE  \E g : IsLoop(g, base, step, N)
<1>. DEFINE Body(g, n) == IF n = 0 THEN base ELSE step[n][g[n - 1]]
            Runs(g, k) == g = [n \in 0..k |-> Body(g, n)]
            H == {k \in Nat : \E g : Runs(g, k)}
<1>1. 0 \in H
  <2>. DEFINE g == [n \in 0..0 |-> base]
  <2>1. g = [n \in 0..0 |-> Body(g, n)] OBVIOUS
  <2>. QED BY <2>1
<1>2. ASSUME NEW k \in Nat, k \in H PROVE k + 1 \in H
  <2>1. PICK g : Runs(g, k) BY <1>2
  <2>. DEFINE h == [n \in 0..(k + 1) |-> IF n = k + 1 THEN step[k + 1][g[k]] ELSE g[n]]
  <2>2. ASSUME NEW n \in 0..(k + 1) PROVE h[n] = Body(h, n)
    <3>1. CASE n = k + 1
      <4>1. h[n] = step[n][g[k]] /\ h[n - 1] = g[k] /\ n # 0 BY <3>1
      <4>. HIDE DEF h
      <4>. QED BY <4>1
    <3>2. CASE n # k + 1
      <4>1. n \in 0..k BY <3>2
      <4>2. h[n] = g[n] /\ (n # 0 => h[n - 1] = g[n - 1]) BY <4>1
      <4>3. g[n] = Body(g, n) BY <2>1, <4>1
      <4>. HIDE DEF h
      <4>. QED BY <4>2, <4>3
    <3>. QED BY <3>1, <3>2
  <2>3. h = [n \in 0..(k + 1) |-> h[n]] OBVIOUS
  <2>. HIDE DEF h, Body
  <2>4. Runs(h, k + 1) BY <2>2, <2>3
  <2>. QED BY <2>4
<1>. HIDE DEF H
<1>3. N \in H BY <1>1, <1>2, NatSetInduction
<1>. QED BY <1>3 DEF H, IsLoop

LEMMA LoopKeeps ==
    ASSUME NEW N \in Nat, NEW g, NEW X, g[0] \in X[0],
           \A n \in 1..N : g[n - 1] \in X[n - 1] => g[n] \in X[n]
    PROVE  \A n \in 0..N : g[n] \in X[n]
<1>. DEFINE H == {k \in Nat : k \in 0..N => g[k] \in X[k]}
<1>1. 0 \in H OBVIOUS
<1>2. ASSUME NEW k \in Nat, k \in H PROVE k + 1 \in H
  <2>1. SUFFICES ASSUME k + 1 \in 0..N PROVE g[k + 1] \in X[k + 1] OBVIOUS
  <2>2. k \in 0..N /\ k + 1 \in 1..N /\ (k + 1) - 1 = k BY <2>1
  <2>. QED BY <1>2, <2>2
<1>. HIDE DEF H
<1>3. Nat \subseteq H BY <1>1, <1>2, NatSetInduction
<1>. QED BY <1>3 DEF H

\* While checkSpawn tries slots, there is a monster for every try that is left,
\* or no slot is empty.
Fed(s) == \/ Cardinality(FreeIn(s, Brood)) + s.tried >= RateSpawn
          \/ \A n \in Slots : Entries(s, n) # {}

LEMMA FreeLemma ==
    ASSUME SlotsAssumption, NEW s
    PROVE  IsFiniteSet(FreeIn(s, Brood)) /\ Cardinality(FreeIn(s, Brood)) \in Nat
<1>1. IsFiniteSet(Brood) BY DEF SlotsAssumption
<1>2. FreeIn(s, Brood) \subseteq Brood BY DEF FreeIn
<1>. QED BY <1>1, <1>2, FS_Subset, FS_CardinalityType

LEMMA VisitedLemma ==
    ASSUME SlotsAssumption, NEW s \in PopState, SpawnBooks(s), RaidBooks(s), Fed(s), NEW n \in Slots
    PROVE  LET t == Visited(s, n)
           IN /\ t \in PopState /\ SpawnBooks(t) /\ RaidBooks(t) /\ Fed(t)
              /\ t.raid = s.raid /\ t.running = s.running
<1>1. CASE s.tried >= RateSpawn \/ n \notin s.ready \/ Entries(s, n) # {}
  BY <1>1 DEF Visited
<1>2. CASE ~(s.tried >= RateSpawn \/ n \notin s.ready \/ Entries(s, n) # {}) /\ site[n] = "watched"
  <2>. DEFINE R == s.ready \ {n}
              t == [s EXCEPT !.ready = R]
  <2>1. Visited(s, n) = t BY <1>2 DEF Visited
  <2>2. R \in SUBSET Slots BY DEF PopState
  <2>. HIDE DEF R
  <2>3. /\ t \in PopState /\ t.thing = s.thing /\ t.spawned = s.spawned /\ t.event = s.event
        /\ t.checks = s.checks /\ t.tried = s.tried /\ t.raid = s.raid /\ t.running = s.running
    BY <2>2 DEF PopState
  <2>. HIDE DEF t
  <2>4. SpawnBooks(t) BY <2>3 DEF SpawnBooks
  <2>5. RaidBooks(t) BY <2>3 DEF RaidBooks, Referring
  <2>6. Fed(t) BY <2>3 DEF Fed, FreeIn, Entries
  <2>. QED BY <2>1, <2>3, <2>4, <2>5, <2>6
<1>3. CASE ~(s.tried >= RateSpawn \/ n \notin s.ready \/ Entries(s, n) # {}) /\ site[n] # "watched"
  <2>. DEFINE u == SpawnMonster(s, n)
              k == s.tried + 1
              t == [u EXCEPT !.tried = k]
              c == Cardinality(FreeIn(s, Brood))
  <2>0. RateSpawn \in Nat \ {0} /\ s.tried \in Nat BY DEF SlotsAssumption, PopState
  <2>1. c \in Nat /\ IsFiniteSet(FreeIn(s, Brood)) BY FreeLemma
  <2>2. c + s.tried >= RateSpawn BY <1>3 DEF Fed
  <2>3. FreeIn(s, Brood) # {}
    <3>1. c > 0 BY <1>3, <2>0, <2>1, <2>2
    <3>. QED BY <3>1, FS_EmptySet
  <2>4. PICK m \in FreeIn(s, Brood) :
          /\ u \in PopState /\ SpawnBooks(u) /\ SameRaids(s, u) /\ RaidBooks(u)
          /\ u.tried = s.tried
          /\ \/ FreeIn(u, Brood) = FreeIn(s, Brood)
             \/ FreeIn(u, Brood) = FreeIn(s, Brood) \ {m}
    BY <1>3, <2>3, SpawnMonsterLemma
  <2>5. Visited(s, n) = t
    <3>1. Visited(s, n) = [u EXCEPT !.tried = @ + 1] BY <1>3 DEF Visited
    <3>. HIDE DEF u
    <3>. QED BY <2>4, <3>1
  <2>. HIDE DEF u
  <2>6. k \in Nat BY <2>0
  <2>7. /\ t \in PopState /\ t.thing = u.thing /\ t.spawned = u.spawned /\ t.event = u.event
        /\ t.checks = u.checks /\ t.tried = k /\ t.raid = u.raid /\ t.running = u.running
    <3>. HIDE DEF k
    <3>. QED BY <2>4, <2>6 DEF PopState
  <2>. HIDE DEF t
  <2>8. SpawnBooks(t) BY <2>4, <2>7 DEF SpawnBooks
  <2>9. RaidBooks(t) BY <2>4, <2>7 DEF RaidBooks, Referring
  <2>10. Cardinality(FreeIn(t, Brood)) + t.tried >= RateSpawn
    <3>1. FreeIn(t, Brood) = FreeIn(u, Brood) BY <2>7 DEF FreeIn
    <3>2. Cardinality(FreeIn(s, Brood) \ {m}) = c - 1 BY <2>1, FS_RemoveElement
    <3>3. Cardinality(FreeIn(t, Brood)) \in {c, c - 1} BY <2>4, <3>1, <3>2
    <3>. HIDE DEF c
    <3>. QED BY <2>0, <2>1, <2>2, <2>7, <3>3
  <2>. QED BY <2>4, <2>5, <2>7, <2>8, <2>9, <2>10 DEF Fed, SameRaids
<1>. QED BY <1>1, <1>2, <1>3

LEMMA SweptLemma ==
    ASSUME SlotsAssumption, NEW s \in PopState, SpawnBooks(s), RaidBooks(s), Fed(s)
    PROVE  LET t == Swept(s)
           IN /\ t \in PopState /\ SpawnBooks(t) /\ RaidBooks(t)
              /\ t.raid = s.raid /\ t.running = s.running
<1>. DEFINE N == Cardinality(Slots)
            Y == {t \in PopState : /\ SpawnBooks(t) /\ RaidBooks(t) /\ Fed(t)
                                   /\ t.raid = s.raid /\ t.running = s.running}
            X == [n \in 0..N |-> Y]
            Body(g, n) == IF n = 0 THEN s ELSE Visited(g[n - 1], n)
            Runs(g) == g = [n \in 0..N |-> Body(g, n)]
            f == CHOOSE g : Runs(g)
            step == [n \in 1..N |-> [t \in Y |-> Visited(t, n)]]
<1>1. Swept(s) = f[N] BY DEF Swept
<1>2. N \in Nat /\ Slots = 1..N
  BY FS_CardinalityType DEF SlotsAssumption
<1>3. ASSUME NEW t \in Y, NEW n \in 1..N PROVE Visited(t, n) \in Y
  BY <1>2, VisitedLemma
<1>4. s \in Y OBVIOUS
<1>. HIDE DEF Y, N
<1>5. \E g : Runs(g)
  <2>1. PICK g : IsLoop(g, s, step, N) BY <1>2, LoopExists
  <2>2. g = [n \in 0..N |-> IF n = 0 THEN s ELSE step[n][g[n - 1]]] BY <2>1 DEF IsLoop
  <2>3. \A n \in 0..N : g[n] = IF n = 0 THEN s ELSE step[n][g[n - 1]] BY <2>2
  <2>4. g[0] \in X[0]
    <3>1. 0 \in 0..N BY <1>2
    <3>. QED BY <1>4, <2>3, <3>1
  <2>5. ASSUME NEW n \in 1..N, g[n - 1] \in X[n - 1] PROVE g[n] \in X[n]
    <3>1. n \in 0..N /\ n - 1 \in 0..N /\ n # 0 BY <1>2
    <3>2. g[n - 1] \in Y BY <2>5, <3>1
    <3>3. g[n] = step[n][g[n - 1]] BY <2>3, <3>1
    <3>4. g[n] = Visited(g[n - 1], n) BY <3>2, <3>3
    <3>. QED BY <1>3, <3>1, <3>2, <3>4
  <2>6. \A n \in 0..N : g[n] \in X[n]
    <3>. HIDE DEF X
    <3>. QED BY <1>2, <2>4, <2>5, LoopKeeps
  <2>7. ASSUME NEW n \in 0..N PROVE g[n] = Body(g, n)
    <3>1. CASE n = 0 BY <2>3, <3>1
    <3>2. CASE n # 0
      <4>1. n \in 1..N /\ n - 1 \in 0..N BY <1>2, <3>2
      <4>2. g[n - 1] \in Y BY <2>6, <4>1
      <4>3. g[n] = step[n][g[n - 1]] BY <2>3, <3>2
      <4>. QED BY <3>2, <4>1, <4>2, <4>3
    <3>. QED BY <3>1, <3>2
  <2>8. g = [n \in 0..N |-> g[n]] BY <2>2
  <2>. HIDE DEF Body
  <2>9. Runs(g) BY <2>7, <2>8
  <2>. QED BY <2>9
<1>6. Runs(f) BY <1>5
<1>. HIDE DEF f, Body
<1>7. \A n \in 0..N : f[n] = Body(f, n) BY <1>6
<1>8. f[0] \in X[0]
  <2>1. 0 \in 0..N BY <1>2
  <2>. QED BY <1>4, <1>7, <2>1 DEF Body
<1>9. ASSUME NEW n \in 1..N, f[n - 1] \in X[n - 1] PROVE f[n] \in X[n]
  <2>1. n \in 0..N /\ n - 1 \in 0..N /\ n # 0 BY <1>2
  <2>2. f[n - 1] \in Y BY <1>9, <2>1
  <2>3. f[n] = Visited(f[n - 1], n) BY <1>7, <2>1 DEF Body
  <2>. QED BY <1>3, <2>1, <2>2, <2>3
<1>10. f[N] \in Y
  <2>1. \A n \in 0..N : f[n] \in X[n]
    <3>. HIDE DEF X
    <3>. QED BY <1>2, <1>8, <1>9, LoopKeeps
  <2>2. N \in 0..N BY <1>2
  <2>. QED BY <2>1, <2>2
<1>. QED BY <1>1, <1>10 DEF Y

LEMMA LookedLemma ==
    ASSUME NEW s \in PopState, SpawnBooks(s), RaidBooks(s)
    PROVE  LET t == Looked(s)
           IN /\ t \in PopState /\ SpawnBooks(t) /\ RaidBooks(t)
              /\ t.raid = s.raid /\ t.running = s.running /\ t.tried = s.tried
              /\ FreeIn(t, Brood) = FreeIn(s, Brood)
<1>. DEFINE dead == {e \in s.spawned : s.thing[e[2]].stage # "alive"}
            Now(e) == IF s.thing[e[2]].away THEN <<0, e[2]>> ELSE e
            R == s.ready \ {e[1] : e \in dead}
            S == {Now(e) : e \in s.spawned \ dead}
            f == [m \in Things |-> [s.thing[m] EXCEPT !.away = FALSE]]
            u == [s EXCEPT !.ready = R]
            v == [u EXCEPT !.spawned = S]
            t == [v EXCEPT !.thing = f]
<1>1. Looked(s) = t
  <2>1. Looked(s) = [s EXCEPT !.ready = R, !.spawned = S, !.thing = f]
    BY DEF Looked, Things, PopState
  <2>. HIDE DEF R, S, f
  <2>. QED BY <2>1 DEF PopState
<1>2. R \in SUBSET Slots BY DEF PopState
<1>3. ASSUME NEW e \in s.spawned
      PROVE  /\ e[1] \in Slots \cup {0} /\ e[2] \in Brood /\ e[2] \in Things /\ e = <<e[1], e[2]>>
             /\ Now(e)[2] = e[2] /\ Now(e) \in (Slots \cup {0}) \X Brood
             /\ Now(e)[1] # 0 => Now(e) = e
  <2>1. e \in (Slots \cup {0}) \X Brood BY DEF PopState
  <2>2. CASE s.thing[e[2]].away BY <2>1, <2>2 DEF Things
  <2>3. CASE ~s.thing[e[2]].away BY <2>1, <2>3 DEF Things
  <2>. QED BY <2>2, <2>3
<1>4. S \in SUBSET ((Slots \cup {0}) \X Brood) BY <1>3
<1>5. ASSUME NEW m \in Things
      PROVE  /\ f[m] \in Thing /\ f[m].stage = s.thing[m].stage
             /\ f[m].spawn = s.thing[m].spawn /\ f[m].raid = s.thing[m].raid
  <2>1. s.thing[m] \in Thing BY DEF PopState
  <2>. QED BY <2>1 DEF Thing
<1>6. f \in [Things -> Thing] BY <1>5
<1>7. /\ t \in PopState /\ t.thing = f /\ t.spawned = S /\ t.event = s.event /\ t.checks = s.checks
      /\ t.ready = R /\ t.raid = s.raid /\ t.running = s.running /\ t.tried = s.tried
  <2>. HIDE DEF R, S, f
  <2>1. /\ u \in PopState /\ u.event = s.event /\ u.checks = s.checks
        /\ u.ready = R /\ u.raid = s.raid /\ u.running = s.running /\ u.tried = s.tried
    BY <1>2 DEF PopState
  <2>. HIDE DEF u
  <2>2. /\ v \in PopState /\ v.spawned = S /\ v.event = s.event /\ v.checks = s.checks
        /\ v.ready = R /\ v.raid = s.raid /\ v.running = s.running /\ v.tried = s.tried
    BY <1>4, <2>1 DEF PopState
  <2>. HIDE DEF v
  <2>. QED BY <1>6, <2>2 DEF PopState
<1>. HIDE DEF t, f, R
<1>8. SameRaids(s, t) BY <1>5, <1>7 DEF SameRaids
<1>9. RaidBooks(t)
  <2>1. \A x \in Things : s.thing[x].raid # None => Stays(s.thing[x], t.thing[x])
    BY <1>5, <1>7 DEF RaidBooks, Stays
  <2>. QED BY <1>8, <2>1, RaidBooksLemma
<1>10. SpawnBooks(t)
  <2>. HIDE DEF Now
  <2>1. \A x \in Things : t.thing[x].spawn => x \in Brood /\ t.thing[x].stage \in {"alive", "denied"}
    BY <1>5, <1>7 DEF SpawnBooks
  <2>2. ASSUME NEW x \in Brood, t.thing[x].spawn, t.thing[x].stage = "alive"
        PROVE  \E e \in t.spawned : e[2] = x
    <3>1. s.thing[x].spawn /\ s.thing[x].stage = "alive" BY <1>5, <1>7, <2>2 DEF Things
    <3>2. PICK e \in s.spawned : e[2] = x BY <3>1 DEF SpawnBooks
    <3>3. e \notin dead BY <3>1, <3>2
    <3>4. Now(e) \in S /\ Now(e)[2] = x BY <1>3, <3>2, <3>3
    <3>. QED BY <1>7, <3>4
  <2>3. ASSUME NEW e \in t.spawned PROVE t.thing[e[2]].spawn
    <3>1. PICK d \in s.spawned : e = Now(d) BY <1>7
    <3>2. s.thing[d[2]].spawn BY DEF SpawnBooks
    <3>. QED BY <1>3, <1>5, <1>7, <3>1, <3>2
  <2>4. ASSUME NEW e \in t.spawned, NEW g \in t.spawned,
               e[2] = g[2] \/ (e[1] = g[1] /\ e[1] # 0)
        PROVE  e = g
    <3>1. PICK d \in s.spawned : e = Now(d) BY <1>7
    <3>2. PICK h \in s.spawned : g = Now(h) BY <1>7
    <3>3. e[2] = d[2] /\ g[2] = h[2] BY <1>3, <3>1, <3>2
    <3>4. CASE e[2] = g[2]
      <4>1. d = h BY <3>3, <3>4 DEF SpawnBooks
      <4>. QED BY <3>1, <3>2, <4>1
    <3>5. CASE e[1] = g[1] /\ e[1] # 0
      <4>1. e = d /\ g = h BY <1>3, <3>1, <3>2, <3>5
      <4>. QED BY <3>5, <4>1 DEF SpawnBooks
    <3>. QED BY <2>4, <3>4, <3>5
  <2>5. t.event => t.checks > 0 BY <1>7 DEF SpawnBooks
  <2>. QED BY <2>1, <2>2, <2>3, <2>4, <2>5 DEF SpawnBooks
<1>11. FreeIn(t, Brood) = FreeIn(s, Brood) BY <1>5, <1>7 DEF FreeIn, Things
<1>. QED BY <1>1, <1>7, <1>9, <1>10, <1>11 DEF t

LEMMA SpawnedFinite ==
    ASSUME SlotsAssumption, NEW s \in PopState
    PROVE  IsFiniteSet(s.spawned) /\ Cardinality(s.spawned) \in Nat
<1>1. IsFiniteSet(Slots) /\ IsFiniteSet(Brood) BY DEF SlotsAssumption
<1>2. IsFiniteSet(Slots \cup {0}) BY <1>1, FS_AddElement
<1>3. IsFiniteSet((Slots \cup {0}) \X Brood) BY <1>1, <1>2, FS_Product
<1>4. s.spawned \subseteq (Slots \cup {0}) \X Brood BY DEF PopState
<1>. QED BY <1>3, <1>4, FS_Subset, FS_CardinalityType

\* A check leaves the books in order and another one pending as long as there are
\* fewer monsters than slots.
LEMMA CheckSpawnLemma ==
    ASSUME SlotsAssumption, PopInv, CheckSpawn
    PROVE  PopInv'
<1>0. /\ w.checks \in 0..MaxChecks /\ MaxChecks \in Nat \ {0} /\ w.checks > 0
      /\ w \in PopState /\ SpawnBooks(w) /\ RaidBooks(w) /\ w.tried = 0
      /\ ~Crowded /\ UNCHANGED site
  BY DEF PopInv, PopGood, PopState, SlotsAssumption, CheckSpawn, KeepSites
<1>1. PICK left \in 0..MaxChecks :
        w' = [Rearmed(Swept(Looked([w EXCEPT !.event = FALSE, !.checks = left]))) EXCEPT !.tried = 0]
  <2>1. PICK left \in {w.checks - 1} \cup (IF w.checks = MaxChecks THEN {MaxChecks} ELSE {}) :
          w' = [Rearmed(Swept(Looked([w EXCEPT !.event = FALSE, !.checks = left]))) EXCEPT !.tried = 0]
    BY DEF CheckSpawn
  <2>2. left \in 0..MaxChecks BY <1>0, <2>1
  <2>. QED BY <2>1, <2>2
<1>. DEFINE p == [w EXCEPT !.event = FALSE]
            q == [p EXCEPT !.checks = left]
            l == Looked(q)
            s == Swept(l)
            r == Rearmed(s)
<1>2. w' = [r EXCEPT !.tried = 0]
  <2>1. [w EXCEPT !.event = FALSE, !.checks = left] = q BY <1>0 DEF PopState
  <2>. QED BY <1>1, <2>1
<1>3. /\ q \in PopState /\ ~q.event /\ q.thing = w.thing /\ q.spawned = w.spawned
      /\ q.raid = w.raid /\ q.running = w.running /\ q.tried = 0
  <2>1. /\ p \in PopState /\ ~p.event /\ p.thing = w.thing /\ p.spawned = w.spawned
        /\ p.raid = w.raid /\ p.running = w.running /\ p.tried = 0
    BY <1>0 DEF PopState
  <2>. HIDE DEF p
  <2>. QED BY <2>1 DEF PopState
<1>. HIDE DEF q
<1>4. SpawnBooks(q) BY <1>0, <1>3 DEF SpawnBooks
<1>5. RaidBooks(q) BY <1>0, <1>3 DEF RaidBooks, Referring
<1>6. /\ l \in PopState /\ SpawnBooks(l) /\ RaidBooks(l)
      /\ l.raid = w.raid /\ l.running = w.running /\ l.tried = 0
      /\ FreeIn(l, Brood) = FreeIn(w, Brood)
  <2>1. FreeIn(q, Brood) = FreeIn(w, Brood) BY <1>3 DEF FreeIn
  <2>. QED BY <1>3, <1>4, <1>5, <2>1, LookedLemma
<1>7. l.spawned = Looked(w).spawned
  <2>. DEFINE dead(x) == {e \in x.spawned : x.thing[e[2]].stage # "alive"}
              S(x) == {IF x.thing[e[2]].away THEN <<0, e[2]>> ELSE e : e \in x.spawned \ dead(x)}
  <2>1. ASSUME NEW x \in PopState PROVE Looked(x).spawned = S(x)
    <3>. HIDE DEF dead
    <3>1. Looked(x) = [x EXCEPT !.ready = @ \ {e[1] : e \in dead(x)}, !.spawned = S(x),
                                  !.thing = [m \in Things |-> [@[m] EXCEPT !.away = FALSE]]]
      BY DEF Looked, dead
    <3>. HIDE DEF S
    <3>. QED BY <3>1 DEF PopState
  <2>2. S(q) = S(w) BY <1>3
  <2>. HIDE DEF S
  <2>. QED BY <1>0, <1>3, <2>1, <2>2
<1>8. Fed(l)
  <2>1. \/ ~(Cardinality(FreeIn(w, Brood)) < RateSpawn)
        \/ \A n \in Slots : Entries(Looked(w), n) # {}
    BY <1>0 DEF Crowded
  <2>2. Cardinality(FreeIn(w, Brood)) \in Nat /\ RateSpawn \in Nat
    BY FreeLemma DEF SlotsAssumption
  <2>3. \A n \in Slots : Entries(l, n) = Entries(Looked(w), n) BY <1>7 DEF Entries
  <2>. HIDE DEF l
  <2>. QED BY <1>6, <2>1, <2>2, <2>3 DEF Fed
<1>. HIDE DEF l
<1>9. /\ s \in PopState /\ SpawnBooks(s) /\ RaidBooks(s) /\ s.raid = w.raid /\ s.running = w.running
  BY <1>6, <1>8, SweptLemma
<1>. HIDE DEF s
<1>10. Cardinality(s.spawned) \in Nat /\ Cardinality(Slots) \in Nat
  BY <1>9, SpawnedFinite, FS_CardinalityType DEF SlotsAssumption
<1>11. /\ r \in PopState /\ r.spawned = s.spawned /\ r.thing = s.thing
       /\ r.raid = s.raid /\ r.running = s.running
       /\ r.event => r.checks > 0
       /\ r.checks > 0 \/ Cardinality(r.spawned) >= Cardinality(Slots)
  <2>1. CASE Cardinality(s.spawned) < Cardinality(Slots)
    <3>1. r = Armed(s) BY <2>1 DEF Rearmed
    <3>. QED BY <1>9, <3>1, ArmedLemma
  <2>2. CASE ~(Cardinality(s.spawned) < Cardinality(Slots))
    <3>1. r = s BY <2>2 DEF Rearmed
    <3>. QED BY <1>9, <1>10, <2>2, <3>1 DEF SpawnBooks
  <2>. QED BY <2>1, <2>2
<1>. HIDE DEF r
<1>12. /\ w' \in PopState /\ w'.spawned = s.spawned /\ w'.thing = s.thing
       /\ w'.raid = w.raid /\ w'.running = w.running /\ w'.tried = 0
       /\ w'.event => w'.checks > 0
       /\ w'.checks > 0 \/ Cardinality(w'.spawned) >= Cardinality(Slots)
  BY <1>2, <1>9, <1>11 DEF PopState
<1>13. SpawnBooks(w') BY <1>9, <1>12 DEF SpawnBooks
<1>14. RaidBooks(w') BY <1>9, <1>12 DEF RaidBooks, Referring
<1>15. \A x \in Raids : Driven(w'.raid[x], x, w'.running) BY <1>12 DEF PopInv, PopGood
<1>16. site' \in [Slots -> {"free", "watched", "blocked"}] BY <1>0 DEF PopInv
<1>17. PopGood(w') BY <1>12, <1>13, <1>14, <1>15 DEF PopGood
<1>. QED BY <1>16, <1>17 DEF PopInv

\* The world when it starts: each slot has its monster, or a check is pending.
LEMMA StartupLemma ==
    ASSUME SlotsAssumption, RaidsAssumption, PopulationInit
    PROVE  PopInv
<1>. DEFINE N == Cardinality(Slots)
            base == [thing |-> [m \in Things |-> NoThing], spawned |-> {}, event |-> FALSE,
                     checks |-> 0, ready |-> {}, tried |-> 0,
                     raid |-> [r \in Raids |-> Resting], running |-> None]
            Kept(t) == t.raid = base.raid /\ t.running = None /\ t.tried = 0
            Full(t, n) == \/ t.checks > 0
                          \/ Cardinality(t.spawned) = n
            Y(n) == {t \in PopState : /\ SpawnBooks(t) /\ RaidBooks(t) /\ Kept(t) /\ Full(t, n)
                                      /\ Cardinality(FreeIn(t, Brood)) + n >= N
                                      /\ \A e \in t.spawned : e[1] \in 1..n}
            X == [n \in 0..N |-> Y(n)]
            Body(g, n) == IF n = 0 THEN base ELSE SpawnMonster(g[n - 1], n)
            Runs(g) == g = [n \in 0..N |-> Body(g, n)]
            f == CHOOSE g : Runs(g)
            D == UNION {Y(n) : n \in 0..N}
            step == [n \in 1..N |-> [t \in D |-> SpawnMonster(t, n)]]
<1>1. w = f[N] BY DEF PopulationInit, Startup
<1>2. /\ N \in Nat /\ Slots = 1..N /\ MaxChecks \in Nat \ {0}
      /\ IsFiniteSet(Brood) /\ Cardinality(Brood) \in Nat /\ Cardinality(Brood) >= N
  BY FS_CardinalityType DEF SlotsAssumption
<1>. HIDE DEF N
<1>3. base \in Y(0)
  <2>1. /\ NoThing \in Thing /\ NoThing.stage = "none" /\ NoThing.spawn = FALSE
        /\ NoThing.raid = None
    BY DEF NoThing, Thing
  <2>2. Resting \in RaidState /\ Resting.refs = 0 /\ Resting.lost = 0
    BY DEF Resting, RaidState, RaidsAssumption
  <2>3. base \in PopState
    <3>1. [m \in Things |-> NoThing] \in [Things -> Thing] BY <2>1 DEF Things
    <3>2. [r \in Raids |-> Resting] \in [Raids -> RaidState] BY <2>2
    <3>3. 0 \in 0..MaxChecks BY <1>2
    <3>. QED BY <3>1, <3>2, <3>3 DEF PopState
  <2>4. \A m \in Things : base.thing[m] = NoThing BY DEF Things
  <2>5. SpawnBooks(base) BY <2>1, <2>4 DEF SpawnBooks, Things
  <2>6. RaidBooks(base)
    <3>1. ASSUME NEW r \in Raids
          PROVE  /\ Referring(base, r) = {} /\ base.raid[r].refs = 0
                 /\ base.raid[r].lost = 0
      <4>1. r # None BY DEF RaidsAssumption
      <4>2. \A m \in Horde : base.thing[m].raid = None BY <2>1, <2>4 DEF Things
      <4>. QED BY <2>2, <4>1, <4>2 DEF Referring
    <3>2. \A m \in Things : base.thing[m].raid = None BY <2>1, <2>4
    <3>3. Cardinality({}) = 0 BY FS_EmptySet
    <3>. HIDE DEF base
    <3>4. ASSUME NEW r \in Raids
          PROVE  /\ base.raid[r].refs = Cardinality(Referring(base, r)) + base.raid[r].lost
                 /\ base.raid[r].lost > 0 => PlacesItems(r)
      <4>1. /\ Referring(base, r) = {} /\ base.raid[r].refs = 0 /\ base.raid[r].lost = 0
        BY <3>1
      <4>. QED BY <3>3, <4>1
    <3>. QED BY <3>2, <3>4 DEF RaidBooks
  <2>7. FreeIn(base, Brood) = Brood BY <2>1, <2>4 DEF FreeIn, Things
  <2>8. Cardinality({}) = 0 BY FS_EmptySet
  <2>9. base.spawned = {} /\ Kept(base) OBVIOUS
  <2>10. Full(base, 0) BY <2>8, <2>9
  <2>11. Cardinality(FreeIn(base, Brood)) + 0 >= N BY <1>2, <2>7
  <2>12. \A e \in base.spawned : e[1] \in 1..0 BY <2>9
  <2>. HIDE DEF base, Kept, Full
  <2>. QED BY <2>3, <2>5, <2>6, <2>9, <2>10, <2>11, <2>12
<1>. HIDE DEF base
<1>4. ASSUME NEW n \in 1..N, NEW s \in Y(n - 1) PROVE SpawnMonster(s, n) \in Y(n)
  <2>. DEFINE t == SpawnMonster(s, n)
              c == Cardinality(FreeIn(s, Brood))
  <2>0. n \in Slots /\ n \in Nat /\ n - 1 \in Nat BY <1>2
  <2>1. s \in PopState /\ SpawnBooks(s) /\ RaidBooks(s) /\ Kept(s) OBVIOUS
  <2>2. c \in Nat /\ IsFiniteSet(FreeIn(s, Brood)) /\ c + (n - 1) >= N
    <3>. HIDE DEF Kept, Full
    <3>. QED BY FreeLemma
  <2>3. FreeIn(s, Brood) # {}
    <3>1. c > 0 BY <1>2, <2>0, <2>2
    <3>. HIDE DEF Y
    <3>2. c # 0 BY <3>1, <2>2
    <3>3. FreeIn(s, Brood) = {} => c = 0 BY <2>2, FS_EmptySet
    <3>. QED BY <3>2, <3>3
  <2>4. \A e \in s.spawned : e[1] \in 1..(n - 1) OBVIOUS
  <2>5. Entries(s, n) = {} BY <2>0, <2>4 DEF Entries
  <2>6. PICK m \in FreeIn(s, Brood) :
             /\ t \in PopState /\ SpawnBooks(t) /\ SameRaids(s, t) /\ RaidBooks(t)
             /\ t.tried = s.tried
             /\ \/ t.spawned = s.spawned /\ t.checks > 0 /\ FreeIn(t, Brood) = FreeIn(s, Brood)
                \/ /\ t.spawned = s.spawned \cup {<<n, m>>} /\ t.checks = s.checks
                   /\ FreeIn(t, Brood) = FreeIn(s, Brood) \ {m}
    BY <2>0, <2>1, <2>3, <2>5, SpawnMonsterLemma
  <2>. HIDE DEF t
  <2>7. Kept(t) BY <2>1, <2>6 DEF SameRaids
  <2>8. Full(s, n - 1) OBVIOUS
  <2>9. IsFiniteSet(s.spawned) /\ Cardinality(s.spawned) \in Nat BY <2>1, SpawnedFinite
  <2>10. CASE t.spawned = s.spawned /\ t.checks > 0 /\ FreeIn(t, Brood) = FreeIn(s, Brood)
    <3>1. Full(t, n) BY <2>10
    <3>2. Cardinality(FreeIn(t, Brood)) + n >= N BY <1>2, <2>0, <2>2, <2>10
    <3>3. \A e \in t.spawned : e[1] \in 1..n BY <2>0, <2>4, <2>10
    <3>. HIDE DEF Kept, Full
    <3>. QED BY <2>6, <2>7, <3>1, <3>2, <3>3 DEF t
  <2>11. CASE /\ t.spawned = s.spawned \cup {<<n, m>>} /\ t.checks = s.checks
              /\ FreeIn(t, Brood) = FreeIn(s, Brood) \ {m}
    <3>1. <<n, m>> \notin s.spawned
      <4>1. ASSUME <<n, m>> \in s.spawned PROVE FALSE
        <5>1. <<n, m>>[1] \in 1..(n - 1) BY ONLY <2>4, <4>1
        <5>. QED BY ONLY <2>0, <5>1
      <4>. QED BY ONLY <4>1
    <3>2. Cardinality(t.spawned) = Cardinality(s.spawned) + 1
      <4>1. Cardinality(s.spawned \cup {<<n, m>>}) = Cardinality(s.spawned) + 1
        BY ONLY <2>9, <3>1, FS_AddElement
      <4>. QED BY <2>11, <4>1
    <3>3. Full(t, n) BY <2>0, <2>8, <2>9, <2>11, <3>2
    <3>4. Cardinality(FreeIn(t, Brood)) = c - 1 BY <2>2, <2>11, FS_RemoveElement
    <3>5. Cardinality(FreeIn(t, Brood)) + n >= N
      <4>. HIDE DEF c
      <4>. QED BY <1>2, <2>0, <2>2, <3>4
    <3>6. \A e \in t.spawned : e[1] \in 1..n BY <2>0, <2>4, <2>11
    <3>. HIDE DEF Kept, Full
    <3>. QED BY <2>6, <2>7, <3>3, <3>5, <3>6 DEF t
  <2>. QED BY <2>6, <2>10, <2>11
<1>. HIDE DEF Y
<1>5. \E g : Runs(g)
  <2>1. PICK g : IsLoop(g, base, step, N) BY <1>2, LoopExists
  <2>2. g = [n \in 0..N |-> IF n = 0 THEN base ELSE step[n][g[n - 1]]] BY <2>1 DEF IsLoop
  <2>3. \A n \in 0..N : g[n] = IF n = 0 THEN base ELSE step[n][g[n - 1]] BY <2>2
  <2>4. g[0] \in X[0]
    <3>1. 0 \in 0..N BY <1>2
    <3>. QED BY <1>3, <2>3, <3>1
  <2>5. ASSUME NEW n \in 1..N, g[n - 1] \in X[n - 1] PROVE g[n] \in X[n]
    <3>1. n \in 0..N /\ n - 1 \in 0..N /\ n # 0 BY <1>2
    <3>2. g[n - 1] \in Y(n - 1) /\ g[n - 1] \in D BY <2>5, <3>1
    <3>3. g[n] = step[n][g[n - 1]] BY <2>3, <3>1
    <3>4. g[n] = SpawnMonster(g[n - 1], n) BY <3>2, <3>3
    <3>. QED BY <1>4, <3>1, <3>2, <3>4
  <2>6. \A n \in 0..N : g[n] \in X[n]
    <3>. HIDE DEF X
    <3>. QED BY <1>2, <2>4, <2>5, LoopKeeps
  <2>7. ASSUME NEW n \in 0..N PROVE g[n] = Body(g, n)
    <3>1. CASE n = 0 BY <2>3, <3>1
    <3>2. CASE n # 0
      <4>1. n \in 1..N /\ n - 1 \in 0..N BY <1>2, <3>2
      <4>2. g[n - 1] \in D BY <2>6, <4>1
      <4>3. g[n] = step[n][g[n - 1]] BY <2>3, <3>2
      <4>. QED BY <3>2, <4>1, <4>2, <4>3
    <3>. QED BY <3>1, <3>2
  <2>8. g = [n \in 0..N |-> g[n]] BY <2>2
  <2>. HIDE DEF Body
  <2>9. Runs(g) BY <2>7, <2>8
  <2>. QED BY <2>9
<1>6. Runs(f) BY <1>5
<1>. HIDE DEF f, Body
<1>7. \A n \in 0..N : f[n] = Body(f, n) BY <1>6
<1>8. f[0] \in X[0]
  <2>1. 0 \in 0..N BY <1>2
  <2>. QED BY <1>3, <1>7, <2>1 DEF Body
<1>9. ASSUME NEW n \in 1..N, f[n - 1] \in X[n - 1] PROVE f[n] \in X[n]
  <2>1. n \in 0..N /\ n - 1 \in 0..N /\ n # 0 BY <1>2
  <2>2. f[n - 1] \in Y(n - 1) BY <1>9, <2>1
  <2>3. f[n] = SpawnMonster(f[n - 1], n) BY <1>7, <2>1 DEF Body
  <2>. QED BY <1>4, <2>1, <2>2, <2>3
<1>10. w \in Y(N)
  <2>1. \A n \in 0..N : f[n] \in X[n]
    <3>. HIDE DEF X
    <3>. QED BY <1>2, <1>8, <1>9, LoopKeeps
  <2>2. N \in 0..N BY <1>2
  <2>. QED BY <1>1, <2>1, <2>2
<1>11. /\ w \in PopState /\ SpawnBooks(w) /\ RaidBooks(w)
       /\ w.raid = [r \in Raids |-> Resting] /\ w.running = None /\ w.tried = 0
       /\ w.checks > 0 \/ Cardinality(w.spawned) = N
  BY <1>10 DEF Y, base
<1>12. ASSUME NEW r \in Raids PROVE Driven(w.raid[r], r, w.running)
  <2>1. w.raid[r] = Resting /\ w.running # r BY <1>11 DEF RaidsAssumption
  <2>2. Len(Events[r]) \in Nat BY DEF RaidsAssumption
  <2>. QED BY <2>1, <2>2 DEF Driven, Resting
<1>13. w.checks > 0 \/ Cardinality(w.spawned) >= Cardinality(Slots)
  BY <1>2, <1>11 DEF N
<1>14. site \in [Slots -> {"free", "watched", "blocked"}] BY DEF PopulationInit
<1>. QED BY <1>11, <1>12, <1>13, <1>14 DEF PopInv, PopGood

-------------------------------------------------------------------------------
(* The raids. *)

\* Only the raid r and who is running differ.
OnlyRaid(s, t, r) ==
    /\ t.thing = s.thing /\ t.spawned = s.spawned /\ t.event = s.event
    /\ t.checks = s.checks /\ t.ready = s.ready /\ t.tried = s.tried
    /\ \A x \in Raids \ {r} : t.raid[x] = s.raid[x]

WithRaid(s, r, q) == [s EXCEPT !.raid[r] = q]

LEMMA WithRaidLemma ==
    ASSUME NEW s \in PopState, NEW r \in Raids, NEW q \in RaidState
    PROVE  LET t == WithRaid(s, r, q)
           IN t \in PopState /\ OnlyRaid(s, t, r) /\ t.raid[r] = q /\ t.running = s.running
<1>. DEFINE f == [s.raid EXCEPT ![r] = q]
<1>1. WithRaid(s, r, q) = [s EXCEPT !.raid = f] BY DEF PopState, WithRaid
<1>2. f \in [Raids -> RaidState] /\ f[r] = q /\ \A x \in Raids \ {r} : f[x] = s.raid[x]
  BY DEF PopState
<1>. HIDE DEF f
<1>3. [s EXCEPT !.raid = f] \in PopState BY <1>2 DEF PopState
<1>. QED BY <1>1, <1>2, <1>3 DEF OnlyRaid, PopState

LEMMA RunningLemma ==
    ASSUME NEW s \in PopState, NEW k \in Raids \cup {None}
    PROVE  LET t == [s EXCEPT !.running = k]
           IN /\ t \in PopState /\ t.raid = s.raid /\ t.running = k
              /\ \A r \in Raids : OnlyRaid(s, t, r)
BY DEF PopState, OnlyRaid

\* A raid that is reset goes on if it has a next event (and that is asked for),
\* waits for what it has placed, or ends.
LEMMA ResetRaidLemma ==
    ASSUME RaidsAssumption, NEW s \in PopState, NEW r \in Raids, NEW check \in BOOLEAN,
           \A x \in Raids \ {r} : Driven(s.raid[x], x, s.running),
           s.raid[r].count \in 0..Len(Events[r]),
           check /\ s.raid[r].next => Driven(s.raid[r], r, s.running)
    PROVE  LET t == ResetRaid(s, r, check)
           IN /\ t \in PopState /\ OnlyRaid(s, t, r) /\ t.raid[r].refs = s.raid[r].refs
              /\ t.raid[r].lost = s.raid[r].lost
              /\ \A x \in Raids : Driven(t.raid[x], x, t.running)
<1>. DEFINE q == s.raid[r]
            a == [q EXCEPT !.next = FALSE, !.task = 0]
            u == WithRaid(s, r, a)
            b == [a EXCEPT !.count = 0]
            v == WithRaid(u, r, b)
            res == ResetRaid(s, r, check)
<1>0. /\ r # None /\ Len(Events[r]) \in Nat /\ q \in RaidState /\ s.running \in Raids \cup {None}
      /\ 0 \in 0..Len(Events[r])
  BY DEF RaidsAssumption, PopState
<1>1. CASE check /\ q.next
  <2>1. res = s BY <1>1 DEF ResetRaid
  <2>. QED BY <1>1, <2>1 DEF OnlyRaid
<1>2. CASE ~(check /\ q.next)
  <2>1. /\ a \in RaidState /\ a.refs = q.refs /\ a.lost = q.lost
        /\ a.count = q.count /\ a.next = FALSE /\ a.task = 0
    BY <1>0 DEF RaidState
  <2>2. u \in PopState /\ OnlyRaid(s, u, r) /\ u.raid[r] = a /\ u.running = s.running
    <3>. HIDE DEF a
    <3>. QED BY <2>1, WithRaidLemma
  <2>4. /\ b \in RaidState /\ b.refs = q.refs /\ b.lost = q.lost
        /\ b.count = 0 /\ b.next = FALSE /\ b.task = 0
    <3>. HIDE DEF a
    <3>. QED BY <2>1 DEF RaidState
  <2>. HIDE DEF a
  <2>5. v \in PopState /\ OnlyRaid(u, v, r) /\ v.raid[r] = b /\ v.running = s.running
    <3>. HIDE DEF b, u
    <3>1. v \in PopState /\ OnlyRaid(u, v, r) /\ v.raid[r] = b /\ v.running = u.running
      BY <2>2, <2>4, WithRaidLemma
    <3>. HIDE DEF v
    <3>. QED BY <2>2, <3>1
  <2>6. [u EXCEPT !.raid[r].count = 0] = v
    <3>. HIDE DEF u
    <3>. QED BY <2>2 DEF WithRaid
  <2>7. OnlyRaid(s, v, r)
    <3>. HIDE DEF u, v
    <3>. QED BY <2>2, <2>5 DEF OnlyRaid
  <2>. DEFINE waits == RefType[r] = "block" /\ q.refs > 0
              lasts == RefType[r] = "single" /\ q.refs > 0
  <2>8. res = IF waits THEN u ELSE IF lasts THEN Over(u, r) ELSE Over(v, r)
    <3>1. res = IF RefType[r] = "block" /\ q.refs > 0 THEN u
                ELSE IF RefType[r] = "single" /\ q.refs > 0 THEN Over(u, r)
                ELSE Over([u EXCEPT !.raid[r].count = 0], r)
      BY <1>2, Zenon DEF ResetRaid, WithRaid, a
    <3>. HIDE DEF u, v
    <3>. QED BY <2>6, <3>1
  <2>. HIDE DEF b
  <2>9. ASSUME NEW z \in PopState, z.running = s.running, OnlyRaid(s, z, r)
        PROVE  LET o == Over(z, r)
               IN /\ o \in PopState /\ OnlyRaid(s, o, r) /\ o.raid = z.raid /\ o.running # r
                  /\ \A x \in Raids \ {r} : Driven(o.raid[x], x, o.running)
    <3>. DEFINE o == Over(z, r)
    <3>1. CASE z.running = r
      <4>1. o = [z EXCEPT !.running = None] BY <3>1 DEF Over
      <4>2. o \in PopState /\ o.raid = z.raid /\ o.running = None /\ OnlyRaid(z, o, r)
        BY <4>1, RunningLemma
      <4>. HIDE DEF o
      <4>3. OnlyRaid(s, o, r) BY <2>9, <4>2 DEF OnlyRaid
      <4>4. ASSUME NEW x \in Raids \ {r} PROVE Driven(o.raid[x], x, o.running)
        <5>1. Driven(s.raid[x], x, r) BY <2>9, <3>1
        <5>2. o.raid[x] = s.raid[x] /\ x # r /\ x # None BY <4>3 DEF OnlyRaid, RaidsAssumption
        <5>. QED BY <4>2, <5>1, <5>2 DEF Driven
      <4>. QED BY <1>0, <4>2, <4>3, <4>4 DEF o
    <3>2. CASE z.running # r
      <4>1. o = z BY <3>2 DEF Over
      <4>. QED BY <2>9, <3>2, <4>1 DEF OnlyRaid
    <3>. QED BY <3>1, <3>2
  <2>10. q.refs \in Nat /\ q.count \in 0..Len(Events[r]) BY <1>0 DEF RaidState
  <2>. HIDE DEF u, v, res
  <2>11. CASE waits
    <3>1. ASSUME NEW x \in Raids PROVE Driven(u.raid[x], x, u.running)
      <4>1. CASE x = r
        <5>. HIDE DEF q
        <5>. QED BY <1>0, <2>1, <2>2, <2>10, <2>11, <4>1 DEF Driven
      <4>2. CASE x # r BY <2>2, <4>2 DEF OnlyRaid
      <4>. QED BY <4>1, <4>2
    <3>. QED BY <2>1, <2>2, <2>8, <2>11, <3>1 DEF res
  <2>12. CASE ~waits /\ lasts
    <3>. DEFINE o == Over(u, r)
    <3>0. res = o BY <2>8, <2>12
    <3>1. /\ o \in PopState /\ OnlyRaid(s, o, r) /\ o.raid = u.raid /\ o.running # r
          /\ \A x \in Raids \ {r} : Driven(o.raid[x], x, o.running)
      BY <2>2, <2>9
    <3>. HIDE DEF o
    <3>2. Driven(o.raid[r], r, o.running)
      <4>. HIDE DEF q
      <4>. QED BY <1>0, <2>1, <2>2, <2>10, <2>12, <3>1 DEF Driven
    <3>. QED BY <2>1, <2>2, <3>0, <3>1, <3>2 DEF res
  <2>13. CASE ~waits /\ ~lasts
    <3>. DEFINE o == Over(v, r)
    <3>0. res = o BY <2>8, <2>13
    <3>1. /\ o \in PopState /\ OnlyRaid(s, o, r) /\ o.raid = v.raid /\ o.running # r
          /\ \A x \in Raids \ {r} : Driven(o.raid[x], x, o.running)
      BY <2>5, <2>7, <2>9
    <3>. HIDE DEF o
    <3>2. Driven(o.raid[r], r, o.running)
      <4>. HIDE DEF q
      <4>. QED BY <1>0, <2>4, <2>5, <3>1 DEF Driven
    <3>. QED BY <2>4, <2>5, <3>0, <3>1, <3>2 DEF res
  <2>. QED BY <2>11, <2>12, <2>13
<1>. QED BY <1>1, <1>2

LEMMA ReferringLemma ==
    ASSUME RaidsAssumption, NEW s, NEW r
    PROVE  IsFiniteSet(Referring(s, r)) /\ Cardinality(Referring(s, r)) \in Nat
<1>1. IsFiniteSet(Horde) BY DEF RaidsAssumption
<1>2. Referring(s, r) \subseteq Horde BY DEF Referring
<1>. QED BY <1>1, <1>2, FS_Subset, FS_CardinalityType

\* Something that counts for a raid leaves it.
LEMMA RemoveFromRaidLemma ==
    ASSUME RaidsAssumption, NEW s \in PopState, RaidBooks(s), NEW m \in Things,
           \A r \in Raids : Driven(s.raid[r], r, s.running)
    PROVE  LET t == RemoveFromRaid(s, m)
           IN /\ t \in PopState /\ SameSpawn(s, t) /\ RaidBooks(t)
              /\ \A r \in Raids : Driven(t.raid[r], r, t.running)
              /\ t.thing[m].raid = None
              /\ \A x \in Things \ {m} : t.thing[x] = s.thing[x]
<1>. DEFINE r == s.thing[m].raid
<1>1. CASE r = None
  <2>1. RemoveFromRaid(s, m) = s BY <1>1 DEF RemoveFromRaid
  <2>. QED BY <1>1, <2>1 DEF SameSpawn
<1>2. CASE r # None
  <2>. DEFINE q == s.raid[r]
              a == [q EXCEPT !.refs = @ - 1]
              u == WithRaid(s, r, a)
              v == UnRef(s, r)
              c == [s.thing[m] EXCEPT !.raid = None]
              f == [s.thing EXCEPT ![m] = c]
              t == [v EXCEPT !.thing = f]
  <2>1. s.thing[m] \in Thing /\ r \in Raids /\ m \in Horde /\ s.thing[m].stage # "none"
        /\ q \in RaidState /\ r # None
    <3>1. s.thing[m] \in Thing BY DEF PopState
    <3>2. r \in Raids BY <1>2, <3>1 DEF Thing
    <3>. QED BY <1>2, <3>1, <3>2 DEF RaidBooks, PopState
  <2>2. /\ q.refs = Cardinality(Referring(s, r)) + q.lost /\ q.refs \in Nat /\ q.refs > 0
        /\ q.lost \in Nat /\ Cardinality(Referring(s, r)) \in Nat
    <3>1. m \in Referring(s, r) BY <2>1 DEF Referring
    <3>2. IsFiniteSet(Referring(s, r)) /\ Cardinality(Referring(s, r)) \in Nat BY ReferringLemma
    <3>3. Cardinality(Referring(s, r)) # 0 BY <3>1, <3>2, FS_EmptySet
    <3>4. q.lost \in Nat BY <2>1 DEF RaidState, RaidsAssumption
    <3>5. q.refs = Cardinality(Referring(s, r)) + q.lost BY <2>1 DEF RaidBooks
    <3>. HIDE DEF q, r
    <3>. QED BY <3>2, <3>3, <3>4, <3>5
  <2>3. /\ a \in RaidState /\ a.refs = q.refs - 1 /\ a.count = q.count /\ a.next = q.next
        /\ a.task = q.task /\ a.lost = q.lost
    <3>1. q.refs - 1 \in Nat BY <2>2
    <3>. HIDE DEF q
    <3>. QED BY <2>1, <3>1 DEF RaidState
  <2>4. u \in PopState /\ OnlyRaid(s, u, r) /\ u.raid[r] = a /\ u.running = s.running
    <3>. HIDE DEF a, r
    <3>. QED BY <2>1, <2>3, WithRaidLemma
  <2>5. v = IF u.raid[r].refs <= 0 THEN ResetRaid(u, r, TRUE) ELSE u
    BY DEF UnRef, WithRaid
  <2>6. Driven(q, r, s.running) BY <2>1
  <2>7. /\ v \in PopState /\ OnlyRaid(s, v, r) /\ v.raid[r].refs = q.refs - 1
        /\ v.raid[r].lost = q.lost
        /\ \A x \in Raids : Driven(v.raid[x], x, v.running)
    <3>. HIDE DEF u, v, r, a, q
    <3>1. ASSUME NEW x \in Raids \ {r} PROVE Driven(u.raid[x], x, u.running)
      BY <2>4 DEF OnlyRaid
    <3>2. u.raid[r].count \in 0..Len(Events[r])
      BY <2>3, <2>4, <2>6 DEF Driven
    <3>3. TRUE /\ u.raid[r].next => Driven(u.raid[r], r, u.running)
      BY <2>2, <2>3, <2>4, <2>6 DEF Driven
    <3>4. CASE u.raid[r].refs <= 0
      <4>. DEFINE z == ResetRaid(u, r, TRUE)
      <4>1. /\ z \in PopState /\ OnlyRaid(u, z, r) /\ z.raid[r].refs = u.raid[r].refs
            /\ z.raid[r].lost = u.raid[r].lost
            /\ \A x \in Raids : Driven(z.raid[x], x, z.running)
        BY <2>1, <2>4, <3>1, <3>2, <3>3, ResetRaidLemma
      <4>2. v = z BY <2>5, <3>4
      <4>. HIDE DEF z
      <4>3. OnlyRaid(s, z, r) BY <2>4, <4>1 DEF OnlyRaid
      <4>. QED BY <2>3, <2>4, <4>1, <4>2, <4>3
    <3>5. CASE ~(u.raid[r].refs <= 0)
      <4>1. v = u BY <2>5, <3>5
      <4>2. Driven(u.raid[r], r, u.running)
        BY <2>2, <2>3, <2>4, <2>6, <3>5 DEF Driven
      <4>. QED BY <2>3, <2>4, <3>1, <4>1, <4>2
    <3>. QED BY <3>4, <3>5
  <2>8. RemoveFromRaid(s, m) = t
    <3>1. RemoveFromRaid(s, m) = [v EXCEPT !.thing[m].raid = None]
      BY <1>2 DEF RemoveFromRaid
    <3>2. v.thing = s.thing BY <2>7 DEF OnlyRaid
    <3>. HIDE DEF v
    <3>. QED BY <3>1, <3>2
  <2>9. /\ c \in Thing /\ c.raid = None /\ c.stage = s.thing[m].stage
        /\ c.spawn = s.thing[m].spawn /\ c.away = s.thing[m].away
    BY <2>1 DEF Thing
  <2>10. f \in [Things -> Thing] /\ f[m] = c /\ \A x \in Things \ {m} : f[x] = s.thing[x]
    <3>. HIDE DEF c
    <3>. QED BY <2>9 DEF PopState
  <2>. HIDE DEF c, f, v
  <2>11. /\ t \in PopState /\ t.thing = f /\ t.spawned = s.spawned /\ t.event = s.event
         /\ t.checks = s.checks /\ t.ready = s.ready /\ t.tried = s.tried
         /\ t.raid = v.raid /\ t.running = v.running
    BY <2>7, <2>10 DEF PopState, OnlyRaid
  <2>. HIDE DEF t
  <2>12. SameSpawn(s, t) BY <2>9, <2>10, <2>11 DEF SameSpawn
  <2>13. RaidBooks(t)
    <3>. HIDE DEF r, q
    <3>0. r = s.thing[m].raid BY DEF r
    <3>1. \A x \in Things : t.thing[x].raid # None =>
             /\ x \in Horde /\ t.thing[x].stage # "none"
             /\ t.thing[x].stage = "item" => PlacesItems(t.thing[x].raid)
      BY <2>9, <2>10, <2>11 DEF RaidBooks
    <3>2. ASSUME NEW x \in Raids
          PROVE  /\ t.raid[x].refs = Cardinality(Referring(t, x)) + t.raid[x].lost
                 /\ t.raid[x].lost > 0 => PlacesItems(x)
      <4>0. x # None BY DEF RaidsAssumption
      <4>1. CASE x = r
        <5>1. Referring(t, r) = Referring(s, r) \ {m}
          BY <2>1, <2>9, <2>10, <2>11, <3>0 DEF Referring, Things
        <5>2. m \in Referring(s, r) BY <2>1, <3>0 DEF Referring
        <5>3. IsFiniteSet(Referring(s, r)) BY ReferringLemma
        <5>4. Cardinality(Referring(t, r)) = Cardinality(Referring(s, r)) - 1
          BY <5>1, <5>2, <5>3, FS_RemoveElement
        <5>5. q.lost > 0 => PlacesItems(r) BY <2>1 DEF RaidBooks, q
        <5>6. Cardinality(Referring(t, r)) \in Nat BY ReferringLemma
        <5>. QED BY <2>2, <2>7, <2>11, <4>1, <5>4, <5>5, <5>6
      <4>2. CASE x # r
        <5>1. Referring(t, x) = Referring(s, x)
          BY <4>0, <4>2, <2>1, <2>9, <2>10, <2>11, <3>0 DEF Referring, Things
        <5>2. t.raid[x] = s.raid[x] BY <2>7, <2>11, <4>2 DEF OnlyRaid
        <5>. QED BY <5>1, <5>2 DEF RaidBooks
      <4>. QED BY <4>1, <4>2
    <3>. QED BY <3>1, <3>2 DEF RaidBooks
  <2>. QED BY <2>7, <2>8, <2>9, <2>10, <2>11, <2>12, <2>13 DEF t
<1>. QED BY <1>1, <1>2

-------------------------------------------------------------------------------
(* Monsters and items. *)

\* One thing is replaced by another.
WithThing(s, m, x) == [s EXCEPT !.thing[m] = x]

LEMMA WithThingLemma ==
    ASSUME NEW s \in PopState, NEW m \in Things, NEW x \in Thing
    PROVE  LET t == WithThing(s, m, x)
           IN /\ t \in PopState /\ t.thing[m] = x /\ \A y \in Things \ {m} : t.thing[y] = s.thing[y]
              /\ t.spawned = s.spawned /\ t.event = s.event /\ t.checks = s.checks
              /\ t.ready = s.ready /\ t.tried = s.tried /\ t.raid = s.raid /\ t.running = s.running
<1>. DEFINE f == [s.thing EXCEPT ![m] = x]
<1>1. WithThing(s, m, x) = [s EXCEPT !.thing = f] BY DEF PopState, WithThing
<1>2. f \in [Things -> Thing] /\ f[m] = x /\ \A y \in Things \ {m} : f[y] = s.thing[y]
  BY DEF PopState
<1>. HIDE DEF f
<1>. QED BY <1>1, <1>2 DEF PopState

\* A thing that belongs neither to the spawn nor to a raid may change otherwise.
LEMMA ChangedLemma ==
    ASSUME NEW s \in PopState, NEW m \in Things, NEW x \in Thing, PopGood(s),
           x.spawn = s.thing[m].spawn, x.raid = s.thing[m].raid,
           x.spawn => x.stage \in {"alive", "denied"},
           x.stage = "alive" => s.thing[m].stage = "alive",
           x.raid # None => Stays(s.thing[m], x)
    PROVE  PopGood(WithThing(s, m, x))
<1>. DEFINE t == WithThing(s, m, x)
<1>1. /\ t \in PopState /\ t.thing[m] = x /\ \A y \in Things \ {m} : t.thing[y] = s.thing[y]
      /\ t.spawned = s.spawned /\ t.event = s.event /\ t.checks = s.checks
      /\ t.ready = s.ready /\ t.tried = s.tried /\ t.raid = s.raid /\ t.running = s.running
  BY WithThingLemma
<1>. HIDE DEF t
<1>2. SpawnBooks(s) /\ RaidBooks(s) BY DEF PopGood
<1>3. \A y \in Things : t.thing[y].spawn = s.thing[y].spawn /\ t.thing[y].raid = s.thing[y].raid
  BY <1>1
<1>4. \A e \in s.spawned : e[2] \in Things BY DEF PopState, Things
<1>5. SpawnBooks(t)
  <2>1. \A y \in Things : t.thing[y].spawn => y \in Brood /\ t.thing[y].stage \in {"alive", "denied"}
    BY <1>1, <1>2 DEF SpawnBooks
  <2>2. ASSUME NEW y \in Brood, t.thing[y].spawn, t.thing[y].stage = "alive"
        PROVE  \E e \in t.spawned : e[2] = y
    <3>1. y \in Things BY DEF Things
    <3>2. s.thing[y].spawn /\ s.thing[y].stage = "alive" BY <1>1, <2>2, <3>1
    <3>. QED BY <1>1, <1>2, <3>2 DEF SpawnBooks
  <2>. QED BY <1>1, <1>2, <1>3, <1>4, <2>1, <2>2 DEF SpawnBooks
<1>6. RaidBooks(t)
  <2>1. SameRaids(s, t) BY <1>1, <1>3 DEF SameRaids
  <2>2. \A y \in Things : s.thing[y].raid # None => Stays(s.thing[y], t.thing[y])
    BY <1>1, <1>2 DEF RaidBooks, Stays
  <2>. QED BY <1>2, <2>1, <2>2, RaidBooksLemma
<1>7. PopGood(t) BY <1>1, <1>5, <1>6 DEF PopGood
<1>. QED BY <1>7 DEF t

LEMMA GoneLemma ==
    ASSUME NEW s \in PopState, NEW m \in Things, PopGood(s),
           ~s.thing[m].spawn, s.thing[m].raid = None
    PROVE  PopGood(Gone(s, m))
<1>1. /\ NoThing \in Thing /\ NoThing.stage = "none" /\ NoThing.spawn = FALSE
      /\ NoThing.raid = None
  BY DEF NoThing, Thing
<1>2. s.thing[m].spawn = FALSE
  <2>1. s.thing[m] \in Thing BY DEF PopState
  <2>. QED BY <2>1 DEF Thing
<1>3. Gone(s, m) = WithThing(s, m, NoThing) BY DEF Gone, WithThing
<1>. QED BY <1>1, <1>2, <1>3, ChangedLemma

LEMMA UnspawnedLemma ==
    ASSUME SlotsAssumption, NEW s, NEW m \in Things, PopGood(s)
    PROVE  LET t == RemoveFromSpawn(s, m)
           IN /\ PopGood(t) /\ ~t.thing[m].spawn /\ t.thing[m].raid = s.thing[m].raid
<1>. DEFINE t == RemoveFromSpawn(s, m)
<1>0. s \in PopState /\ SpawnBooks(s) /\ RaidBooks(s) BY DEF PopGood
<1>1. /\ s.event => s.checks > 0
      /\ \A e \in s.spawned : s.thing[e[2]].spawn
  BY <1>0 DEF SpawnBooks
<1>2. /\ t \in PopState /\ SameRaids(s, t)
      /\ t.checks > 0 \/ (t.spawned = s.spawned /\ t.checks = s.checks)
      /\ t.tried = s.tried
      /\ ~t.thing[m].spawn /\ t.thing[m].stage = s.thing[m].stage
      /\ \A x \in Things \ {m} : t.thing[x] = s.thing[x]
  BY <1>0, <1>1, RemoveFromSpawnLemma
<1>3. SpawnBooks(t) BY <1>0, UnlistedLemma
<1>. HIDE DEF t
<1>4. RaidBooks(t)
  <2>1. \A x \in Things : s.thing[x].raid # None => Stays(s.thing[x], t.thing[x])
    BY <1>0, <1>2 DEF RaidBooks, Stays
  <2>. QED BY <1>0, <1>2, <2>1, RaidBooksLemma
<1>5. PopGood(t)
  <2>1. \A r \in Raids : Driven(t.raid[r], r, t.running) BY <1>2 DEF PopGood, SameRaids
  <2>2. t.tried = 0 /\ (t.checks > 0 \/ Cardinality(t.spawned) >= Cardinality(Slots))
    BY <1>2 DEF PopGood
  <2>. QED BY <1>2, <1>3, <1>4, <2>1, <2>2 DEF PopGood
<1>6. t.thing[m].raid = s.thing[m].raid BY <1>2 DEF SameRaids
<1>. QED BY <1>2, <1>5, <1>6 DEF t

LEMMA UnraidedLemma ==
    ASSUME RaidsAssumption, NEW s, NEW m \in Things, PopGood(s)
    PROVE  LET t == RemoveFromRaid(s, m)
           IN /\ PopGood(t) /\ t.thing[m].raid = None /\ t.thing[m].spawn = s.thing[m].spawn
              /\ t.thing[m].stage = s.thing[m].stage
<1>. DEFINE t == RemoveFromRaid(s, m)
<1>0. /\ s \in PopState /\ SpawnBooks(s) /\ RaidBooks(s)
      /\ \A r \in Raids : Driven(s.raid[r], r, s.running)
  BY DEF PopGood
<1>1. /\ t \in PopState /\ SameSpawn(s, t) /\ RaidBooks(t)
      /\ \A r \in Raids : Driven(t.raid[r], r, t.running)
      /\ t.thing[m].raid = None
  BY <1>0, RemoveFromRaidLemma
<1>. HIDE DEF t
<1>2. SpawnBooks(t) BY <1>0, <1>1, BooksLemma
<1>3. PopGood(t) BY <1>1, <1>2 DEF PopGood, SameSpawn
<1>4. t.thing[m].spawn = s.thing[m].spawn /\ t.thing[m].stage = s.thing[m].stage
  BY <1>1 DEF SameSpawn
<1>. QED BY <1>1, <1>3, <1>4 DEF t

\* Leaving the spawn and the raid, in either order.
LEMMA LeavingLemma ==
    ASSUME SlotsAssumption, RaidsAssumption, NEW s, NEW m \in Things, PopGood(s)
    PROVE  /\ PopGood(Gone(RemoveFromRaid(RemoveFromSpawn(s, m), m), m))
           /\ PopGood(Gone(RemoveFromSpawn(RemoveFromRaid(s, m), m), m))
           /\ s.thing[m].stage = "item" => PopGood(Gone(RemoveFromRaid(s, m), m))
<1>. DEFINE u == RemoveFromSpawn(s, m)
            v == RemoveFromRaid(s, m)
            a == RemoveFromRaid(u, m)
            b == RemoveFromSpawn(v, m)
<1>1. PopGood(u) /\ ~u.thing[m].spawn BY UnspawnedLemma
<1>2. PopGood(v) /\ v.thing[m].raid = None /\ v.thing[m].spawn = s.thing[m].spawn
  BY UnraidedLemma
<1>. HIDE DEF u, v
<1>3. PopGood(a) /\ a.thing[m].raid = None /\ a.thing[m].spawn = u.thing[m].spawn
  BY <1>1, UnraidedLemma
<1>4. PopGood(b) /\ ~b.thing[m].spawn /\ b.thing[m].raid = v.thing[m].raid
  BY <1>2, UnspawnedLemma
<1>. HIDE DEF a, b
<1>5. PopGood(Gone(a, m))
  <2>1. a \in PopState /\ ~a.thing[m].spawn BY <1>1, <1>3 DEF PopGood
  <2>. QED BY <1>3, <2>1, GoneLemma
<1>6. PopGood(Gone(b, m))
  <2>1. b \in PopState /\ b.thing[m].raid = None BY <1>2, <1>4 DEF PopGood
  <2>. QED BY <1>4, <2>1, GoneLemma
<1>7. ASSUME s.thing[m].stage = "item" PROVE PopGood(Gone(v, m))
  <2>1. v \in PopState BY <1>2 DEF PopGood
  <2>2. ~s.thing[m].spawn BY <1>7 DEF PopGood, SpawnBooks
  <2>. QED BY <1>2, <2>1, <2>2, GoneLemma
<1>. QED BY <1>5, <1>6, <1>7 DEF a, b, u, v

\* An item vanishes: what refers to its raid is one less, what is lost one more.
LEMMA VanishLemma ==
    ASSUME RaidsAssumption, NEW m \in Horde, PopGood(w), Vanish(m)
    PROVE  PopGood(w')
<1>. DEFINE r == w.thing[m].raid
            q == w.raid[r]
            a == [q EXCEPT !.lost = @ + 1]
            u == WithRaid(w, r, a)
            t == WithThing(u, m, NoThing)
<1>0. /\ w \in PopState /\ SpawnBooks(w) /\ RaidBooks(w) /\ m \in Things
      /\ \A x \in Raids : Driven(w.raid[x], x, w.running)
      /\ w.tried = 0 /\ (w.checks > 0 \/ Cardinality(w.spawned) >= Cardinality(Slots))
      /\ w' = Vanished(w, m) /\ w.thing[m].stage = "item"
  BY DEF PopGood, Things, Vanish
<1>1. ~w.thing[m].spawn BY <1>0 DEF SpawnBooks
<1>2. CASE r = None
  <2>1. w' = Gone(w, m) BY <1>0, <1>2 DEF Vanished
  <2>. QED BY <1>0, <1>1, <1>2, <2>1, GoneLemma
<1>3. CASE r # None
  <2>1. r \in Raids /\ q \in RaidState /\ q.lost < MaxLost /\ w.thing[m] \in Thing
    BY <1>0, <1>3 DEF PopState, Thing, Vanish
  <2>2. /\ a \in RaidState /\ a.refs = q.refs /\ a.lost = q.lost + 1 /\ a.count = q.count
        /\ a.next = q.next /\ a.task = q.task
    <3>. HIDE DEF q
    <3>1. q.lost + 1 \in 0..MaxLost BY <2>1 DEF RaidState, RaidsAssumption
    <3>. QED BY <2>1, <3>1 DEF RaidState
  <2>3. /\ NoThing \in Thing /\ NoThing.stage = "none" /\ NoThing.spawn = FALSE
        /\ NoThing.raid = None
    BY DEF NoThing, Thing
  <2>4. w' = t
    <3>1. w' = Gone([w EXCEPT !.raid[r].lost = @ + 1], m) BY <1>0, <1>3 DEF Vanished
    <3>2. [w EXCEPT !.raid[r].lost = @ + 1] = u BY DEF WithRaid
    <3>. HIDE DEF u
    <3>. QED BY <3>1, <3>2 DEF Gone, WithThing
  <2>. HIDE DEF a, r
  <2>5. u \in PopState /\ OnlyRaid(w, u, r) /\ u.raid[r] = a /\ u.running = w.running
    BY <1>0, <2>1, <2>2, WithRaidLemma
  <2>. HIDE DEF u
  <2>6. /\ t \in PopState /\ t.thing[m] = NoThing
        /\ \A y \in Things \ {m} : t.thing[y] = u.thing[y]
        /\ t.spawned = u.spawned /\ t.event = u.event /\ t.checks = u.checks
        /\ t.ready = u.ready /\ t.tried = u.tried /\ t.raid = u.raid /\ t.running = u.running
    BY <1>0, <2>3, <2>5, WithThingLemma
  <2>. HIDE DEF t
  <2>7. \A y \in Things : y # m => t.thing[y] = w.thing[y] BY <2>5, <2>6 DEF OnlyRaid
  <2>8. SpawnBooks(t)
    <3>1. \A e \in w.spawned : e[2] \in Things /\ e[2] # m
      BY <1>0, <1>1 DEF SpawnBooks, PopState, Things
    <3>2. t.spawned = w.spawned /\ t.event = w.event /\ t.checks = w.checks
      BY <2>5, <2>6 DEF OnlyRaid
    <3>3. Brood \subseteq Things BY DEF Things
    <3>4. \A y \in Things : t.thing[y].spawn => t.thing[y] = w.thing[y] BY <2>3, <2>6, <2>7
    <3>5. \A y \in Things : t.thing[y].spawn => y \in Brood /\ t.thing[y].stage \in {"alive", "denied"}
      BY <1>0, <3>4 DEF SpawnBooks
    <3>6. \A y \in Brood : t.thing[y].spawn /\ t.thing[y].stage = "alive" =>
                             \E e \in t.spawned : e[2] = y
      BY <1>0, <3>2, <3>3, <3>4 DEF SpawnBooks
    <3>7. \A e \in t.spawned : t.thing[e[2]].spawn BY <1>0, <2>7, <3>1, <3>2 DEF SpawnBooks
    <3>8. \A e, f \in t.spawned : e[2] = f[2] \/ (e[1] = f[1] /\ e[1] # 0) => e = f
      BY <1>0, <3>2 DEF SpawnBooks
    <3>9. t.event => t.checks > 0 BY <1>0, <3>2 DEF SpawnBooks
    <3>. QED BY <3>5, <3>6, <3>7, <3>8, <3>9 DEF SpawnBooks
  <2>9. RaidBooks(t)
    <3>1. \A y \in Things : t.thing[y].raid # None =>
             /\ y \in Horde /\ t.thing[y].stage # "none"
             /\ t.thing[y].stage = "item" => PlacesItems(t.thing[y].raid)
      BY <1>0, <2>3, <2>6, <2>7 DEF RaidBooks
    <3>2. ASSUME NEW x \in Raids
          PROVE  /\ t.raid[x].refs = Cardinality(Referring(t, x)) + t.raid[x].lost
                 /\ t.raid[x].lost > 0 => PlacesItems(x)
      <4>. DEFINE C(z) == Cardinality(Referring(z, x))
      <4>0. /\ w.raid[x].refs = C(w) + w.raid[x].lost
            /\ w.raid[x].lost > 0 => PlacesItems(x) /\ x # None
        BY <1>0 DEF RaidBooks, RaidsAssumption
      <4>1. CASE x = r
        <5>1. Referring(t, r) = Referring(w, r) \ {m}
          BY <2>1, <2>3, <2>6, <2>7, <1>3 DEF Referring, Things
        <5>2. m \in Referring(w, r) BY DEF Referring, r
        <5>3. IsFiniteSet(Referring(w, r)) /\ Cardinality(Referring(w, r)) \in Nat BY ReferringLemma
        <5>4. Cardinality(Referring(t, r)) = Cardinality(Referring(w, r)) - 1
          BY <5>1, <5>2, <5>3, FS_RemoveElement
        <5>5. PlacesItems(r) BY <1>0, <1>3 DEF RaidBooks, r
        <5>6. q.lost \in Nat BY <2>1 DEF RaidState, RaidsAssumption
        <5>7. t.raid[r] = a BY <2>5, <2>6
        <5>8. w.raid[x] = q BY <4>1
        <5>. HIDE DEF q
        <5>. QED BY <2>2, <4>0, <4>1, <5>3, <5>4, <5>5, <5>6, <5>7, <5>8
      <4>2. CASE x # r
        <5>1. Referring(t, x) = Referring(w, x)
          BY <2>3, <2>6, <2>7, <4>0, <4>2 DEF Referring, Things, r
        <5>2. t.raid[x] = w.raid[x] BY <2>5, <2>6, <4>2 DEF OnlyRaid
        <5>. QED BY <4>0, <5>1, <5>2
      <4>. QED BY <4>1, <4>2
    <3>. QED BY <3>1, <3>2 DEF RaidBooks
  <2>10. ASSUME NEW x \in Raids PROVE Driven(t.raid[x], x, t.running)
    <3>1. t.running = w.running BY <2>5, <2>6
    <3>2. Driven(w.raid[x], x, w.running) BY <1>0
    <3>3. CASE x = r
      <4>1. t.raid[r] = a BY <2>5, <2>6
      <4>2. Driven(q, r, w.running) BY <3>2, <3>3
      <4>. HIDE DEF q
      <4>. QED BY <2>2, <3>1, <3>3, <4>1, <4>2 DEF Driven
    <3>4. CASE x # r
      <4>1. t.raid[x] = w.raid[x] BY <2>5, <2>6, <3>4 DEF OnlyRaid
      <4>. QED BY <3>1, <3>2, <4>1
    <3>. QED BY <3>3, <3>4
  <2>11. t.tried = 0 /\ (t.checks > 0 \/ Cardinality(t.spawned) >= Cardinality(Slots))
    BY <1>0, <2>5, <2>6 DEF OnlyRaid
  <2>. QED BY <2>4, <2>6, <2>8, <2>9, <2>10, <2>11 DEF PopGood
<1>. QED BY <1>2, <1>3

LEMMA WalkLemma ==
    ASSUME NEW m \in Things, PopGood(w),
           Walk(m) \/ DenyDeath(m)
    PROVE  PopGood(w')
<1>1. w \in PopState /\ w.thing[m] \in Thing /\ w.thing[m].stage = "alive"
  BY DEF PopGood, PopState, Walk, DenyDeath
<1>2. CASE Walk(m)
  <2>. DEFINE x == [w.thing[m] EXCEPT !.away = ~@]
  <2>1. w' = WithThing(w, m, x) BY <1>2 DEF Walk, WithThing
  <2>2. x \in Thing /\ x.spawn = w.thing[m].spawn /\ x.raid = w.thing[m].raid /\ x.stage = "alive"
    BY <1>1 DEF Thing
  <2>. HIDE DEF x
  <2>. QED BY <1>1, <2>1, <2>2, ChangedLemma DEF Stays
<1>3. CASE DenyDeath(m)
  <2>. DEFINE a == [w.thing[m] EXCEPT !.stage = "denied"]
              x == [a EXCEPT !.away = FALSE]
              u == WithThing(w, m, a)
  <2>1. a \in Thing /\ a.spawn = w.thing[m].spawn /\ a.raid = w.thing[m].raid /\ a.stage = "denied"
    BY <1>1 DEF Thing
  <2>2. x \in Thing /\ x.spawn = w.thing[m].spawn /\ x.raid = w.thing[m].raid /\ x.stage = "denied"
    <3>. HIDE DEF a
    <3>. QED BY <2>1 DEF Thing
  <2>3. u.thing[m] = a /\ u.thing = [w.thing EXCEPT ![m] = a] /\ u = [w EXCEPT !.thing = u.thing]
    <3>. HIDE DEF a
    <3>. QED BY <1>1 DEF WithThing, PopState
  <2>4. w' = [u EXCEPT !.thing[m].away = FALSE] BY <1>3 DEF DenyDeath, WithThing
  <2>5. w' = WithThing(w, m, x)
    <3>1. w' = [u EXCEPT !.thing = [u.thing EXCEPT ![m] = x]]
      <4>. HIDE DEF u, a
      <4>. QED BY <2>3, <2>4
    <3>. HIDE DEF u, x
    <3>2. [u.thing EXCEPT ![m] = x] = [w.thing EXCEPT ![m] = x]
      BY <1>1, <2>3 DEF PopState
    <3>. DEFINE g == [w.thing EXCEPT ![m] = x]
                h == u.thing
    <3>3. w' = [[w EXCEPT !.thing = h] EXCEPT !.thing = g] BY <2>3, <3>1, <3>2
    <3>. HIDE DEF g, h
    <3>4. w' = [w EXCEPT !.thing = g] BY <1>1, <3>3 DEF PopState
    <3>. QED BY <3>4 DEF g, WithThing
  <2>. HIDE DEF x
  <2>. QED BY <1>1, <2>2, <2>5, ChangedLemma DEF Stays
<1>. QED BY <1>2, <1>3

-------------------------------------------------------------------------------
(* Raids begin and go on. *)

LEMMA ArmNextLemma ==
    ASSUME RaidsAssumption, NEW s \in PopState, NEW r \in Raids, HasNext(s, r)
    PROVE  LET t == ArmNext(s, r)
           IN /\ t \in PopState /\ OnlyRaid(s, t, r) /\ t.raid[r].refs = s.raid[r].refs
              /\ t.raid[r].lost = s.raid[r].lost
              /\ t.running = s.running /\ Driven(t.raid[r], r, r)
<1>. DEFINE q == s.raid[r]
            a == [q EXCEPT !.count = s.raid[r].count + 1, !.next = TRUE, !.task = s.raid[r].count + 1]
            t == WithRaid(s, r, a)
<1>1. /\ q \in RaidState /\ q.count \in Nat /\ q.refs \in Nat /\ Len(Events[r]) \in Nat
      /\ q.count < Len(Events[r])
  BY DEF PopState, RaidState, RaidsAssumption, HasNext
<1>2. ArmNext(s, r) = t BY DEF ArmNext, WithRaid
<1>3. /\ a \in RaidState /\ a.count = q.count + 1 /\ a.next = TRUE /\ a.task = q.count + 1
      /\ a.refs = q.refs /\ a.lost = q.lost
  <2>. DEFINE k == q.count + 1
              b == [q EXCEPT !.count = k]
              c == [b EXCEPT !.next = TRUE]
              d == [c EXCEPT !.task = k]
  <2>1. k \in Nat BY <1>1
  <2>2. a = d OBVIOUS
  <2>. HIDE DEF k
  <2>3. b \in RaidState /\ b.count = k /\ b.refs = q.refs /\ b.lost = q.lost
    BY <1>1, <2>1 DEF RaidState
  <2>. HIDE DEF b
  <2>4. c \in RaidState /\ c.count = k /\ c.refs = q.refs /\ c.lost = q.lost /\ c.next = TRUE
    BY <2>3 DEF RaidState
  <2>. HIDE DEF c
  <2>5. /\ d \in RaidState /\ d.count = k /\ d.refs = q.refs /\ d.lost = q.lost
        /\ d.next = TRUE /\ d.task = k
    BY <2>1, <2>4 DEF RaidState
  <2>. HIDE DEF d, a
  <2>. QED BY <2>2, <2>5 DEF k
<1>. HIDE DEF a
<1>4. t \in PopState /\ OnlyRaid(s, t, r) /\ t.raid[r] = a /\ t.running = s.running
  BY <1>3, WithRaidLemma
<1>. HIDE DEF t
<1>5. Driven(a, r, r) BY <1>1, <1>3 DEF Driven
<1>. QED BY <1>2, <1>3, <1>4, <1>5

\* What happens to raids alone leaves the books alone.
LEMMA OnlyRaidLemma ==
    ASSUME NEW s \in PopState, NEW t \in PopState, NEW r \in Raids, OnlyRaid(s, t, r),
           SpawnBooks(s), RaidBooks(s), t.raid[r].refs = s.raid[r].refs,
           t.raid[r].lost = s.raid[r].lost
    PROVE  SpawnBooks(t) /\ RaidBooks(t)
<1>1. SpawnBooks(t) BY DEF SpawnBooks, OnlyRaid
<1>2. \A x \in Raids : t.raid[x].refs = s.raid[x].refs /\ t.raid[x].lost = s.raid[x].lost
    BY DEF OnlyRaid
<1>3. \A x \in Raids : Referring(t, x) = Referring(s, x) BY DEF Referring, OnlyRaid
<1>4. RaidBooks(t) BY <1>2, <1>3 DEF RaidBooks, OnlyRaid
<1>. QED BY <1>1, <1>4

LEMMA StartRaidLemma ==
    ASSUME RaidsAssumption, NEW s, PopGood(s), s.running = None, NEW r \in Raids
    PROVE  PopGood(StartRaid(s, r))
<1>0. /\ s \in PopState /\ SpawnBooks(s) /\ RaidBooks(s)
      /\ \A x \in Raids : Driven(s.raid[x], x, s.running) /\ x # None
  BY DEF PopGood, RaidsAssumption
<1>1. CASE s.raid[r].refs > 0 \/ ~HasNext(s, r) BY <1>1 DEF StartRaid
<1>2. CASE ~(s.raid[r].refs > 0 \/ ~HasNext(s, r))
  <2>. DEFINE u == ArmNext(s, r)
              t == [u EXCEPT !.running = r]
  <2>1. StartRaid(s, r) = t BY <1>2 DEF StartRaid
  <2>2. /\ u \in PopState /\ OnlyRaid(s, u, r) /\ u.raid[r].refs = s.raid[r].refs
        /\ u.raid[r].lost = s.raid[r].lost
        /\ Driven(u.raid[r], r, r)
    BY <1>0, <1>2, ArmNextLemma
  <2>. HIDE DEF u
  <2>3. t \in PopState /\ t.raid = u.raid /\ t.running = r /\ OnlyRaid(u, t, r)
    BY <2>2, RunningLemma
  <2>. HIDE DEF t
  <2>4. OnlyRaid(s, t, r) /\ t.raid[r].refs = s.raid[r].refs /\ t.raid[r].lost = s.raid[r].lost
    BY <2>2, <2>3 DEF OnlyRaid
  <2>5. SpawnBooks(t) /\ RaidBooks(t) BY <1>0, <2>3, <2>4, OnlyRaidLemma
  <2>6. ASSUME NEW x \in Raids PROVE Driven(t.raid[x], x, t.running)
    <3>1. CASE x = r BY <2>2, <2>3, <3>1
    <3>2. CASE x # r
      <4>1. t.raid[x] = s.raid[x] BY <2>4, <3>2 DEF OnlyRaid
      <4>2. Driven(s.raid[x], x, None) /\ x # None BY <1>0
      <4>. QED BY <2>3, <3>2, <4>1, <4>2 DEF Driven
    <3>. QED BY <3>1, <3>2
  <2>7. t.tried = 0 /\ (t.checks > 0 \/ Cardinality(t.spawned) >= Cardinality(Slots))
    BY <2>4 DEF PopGood, OnlyRaid
  <2>. QED BY <2>1, <2>3, <2>5, <2>6, <2>7 DEF PopGood
<1>. QED BY <1>1, <1>2

\* While an event of r is executed: its task is used up, nothing else is.
Begun(s, r) ==
    /\ s \in PopState /\ SpawnBooks(s) /\ RaidBooks(s) /\ s.running = r
    /\ s.raid[r].count \in 0..Len(Events[r])
    /\ \A x \in Raids \ {r} : Driven(s.raid[x], x, r)
    /\ s.tried = 0
    /\ s.checks > 0 \/ Cardinality(s.spawned) >= Cardinality(Slots)

LEMMA AfterLemma ==
    ASSUME RaidsAssumption, NEW r \in Raids, NEW s, Begun(s, r), NEW done \in BOOLEAN
    PROVE  PopGood(After(s, r, done))
<1>. DEFINE t == After(s, r, done)
<1>0. /\ s \in PopState /\ SpawnBooks(s) /\ RaidBooks(s) /\ s.running = r
      /\ s.raid[r].count \in 0..Len(Events[r])
      /\ \A x \in Raids \ {r} : Driven(s.raid[x], x, s.running)
      /\ s.tried = 0
      /\ s.checks > 0 \/ Cardinality(s.spawned) >= Cardinality(Slots)
  BY DEF Begun
<1>1. /\ t \in PopState /\ OnlyRaid(s, t, r) /\ t.raid[r].refs = s.raid[r].refs
      /\ t.raid[r].lost = s.raid[r].lost
      /\ \A x \in Raids : Driven(t.raid[x], x, t.running)
  <2>1. CASE done /\ HasNext(s, r)
    <3>. DEFINE u == ArmNext(s, r)
    <3>1. t = u BY <2>1 DEF After
    <3>2. /\ u \in PopState /\ OnlyRaid(s, u, r) /\ u.raid[r].refs = s.raid[r].refs
          /\ u.raid[r].lost = s.raid[r].lost
          /\ u.running = s.running /\ Driven(u.raid[r], r, r)
      BY <1>0, <2>1, ArmNextLemma
    <3>. HIDE DEF u, t
    <3>3. ASSUME NEW x \in Raids PROVE Driven(u.raid[x], x, u.running)
      <4>1. CASE x = r BY <1>0, <3>2, <4>1
      <4>2. CASE x # r BY <1>0, <3>2, <4>2 DEF OnlyRaid
      <4>. QED BY <4>1, <4>2
    <3>. QED BY <3>1, <3>2, <3>3
  <2>2. CASE ~(done /\ HasNext(s, r))
    <3>1. t = ResetRaid(s, r, FALSE) BY <2>2 DEF After
    <3>2. FALSE /\ s.raid[r].next => Driven(s.raid[r], r, s.running) OBVIOUS
    <3>3. FALSE \in BOOLEAN OBVIOUS
    <3>. DEFINE v == ResetRaid(s, r, FALSE)
    <3>4. /\ v \in PopState /\ OnlyRaid(s, v, r) /\ v.raid[r].refs = s.raid[r].refs
          /\ v.raid[r].lost = s.raid[r].lost
          /\ \A x \in Raids : Driven(v.raid[x], x, v.running)
      BY <1>0, <3>2, <3>3, ResetRaidLemma
    <3>. HIDE DEF v, t
    <3>. QED BY <3>1, <3>4 DEF v
  <2>. QED BY <2>1, <2>2
<1>. HIDE DEF t
<1>2. SpawnBooks(t) /\ RaidBooks(t) BY <1>0, <1>1, OnlyRaidLemma
<1>3. t.tried = 0 /\ (t.checks > 0 \/ Cardinality(t.spawned) >= Cardinality(Slots))
  BY <1>0, <1>1 DEF OnlyRaid
<1>4. PopGood(t) BY <1>1, <1>2, <1>3 DEF PopGood
<1>. QED BY <1>4 DEF t

LEMMA PlacedLemma ==
    ASSUME RaidsAssumption, NEW r \in Raids, NEW s, Begun(s, r),
           NEW S \in SUBSET FreeIn(s, Horde), NEW stage \in {"alive", "item"},
           stage = "item" => PlacesItems(r)
    PROVE  /\ Begun(Placed(s, r, S, stage), r)
           /\ Placed(s, r, S, stage).raid[r].lost = s.raid[r].lost
<1>. DEFINE who == IF UsesRef(r) THEN r ELSE None
            x == [NoThing EXCEPT !.stage = stage, !.raid = who]
            f == [m \in Things |-> IF m \in S THEN x ELSE s.thing[m]]
            k == IF UsesRef(r) THEN s.raid[r].refs + Cardinality(S) ELSE s.raid[r].refs
            a == [s.raid[r] EXCEPT !.refs = k]
            g == [s.raid EXCEPT ![r] = a]
            t == [s EXCEPT !.thing = f, !.raid = g]
<1>0. /\ s \in PopState /\ SpawnBooks(s) /\ RaidBooks(s) /\ s.running = r
      /\ s.raid[r].count \in 0..Len(Events[r])
      /\ \A y \in Raids \ {r} : Driven(s.raid[y], y, r)
      /\ s.tried = 0
      /\ s.checks > 0 \/ Cardinality(s.spawned) >= Cardinality(Slots)
      /\ r # None
  BY DEF Begun, RaidsAssumption
<1>1. Placed(s, r, S, stage) = t
  <2>1. Placed(s, r, S, stage) =
          [s EXCEPT !.thing = f,
                    !.raid[r].refs = IF UsesRef(r) THEN @ + Cardinality(S) ELSE @]
    BY DEF Placed, Things
  <2>. HIDE DEF f
  <2>. QED BY <1>0, <2>1 DEF PopState
<1>2. /\ IsFiniteSet(S) /\ Cardinality(S) \in Nat /\ S \subseteq Horde
      /\ \A m \in S : m \in Things /\ s.thing[m].stage = "none"
  <2>1. S \subseteq Horde /\ \A m \in S : s.thing[m].stage = "none" BY DEF FreeIn
  <2>2. IsFiniteSet(Horde) BY DEF RaidsAssumption
  <2>. QED BY <2>1, <2>2, FS_Subset, FS_CardinalityType DEF Things
<1>3. \A m \in S : s.thing[m].raid = None /\ s.thing[m].spawn = FALSE
  <2>1. ASSUME NEW m \in S PROVE s.thing[m].raid = None /\ s.thing[m].spawn = FALSE
    <3>1. s.thing[m] \in Thing /\ m \in Things BY <1>0, <1>2 DEF PopState
    <3>2. ~s.thing[m].spawn BY <1>0, <1>2 DEF SpawnBooks
    <3>3. s.thing[m].raid = None BY <1>0, <1>2 DEF RaidBooks
    <3>. QED BY <3>1, <3>2, <3>3 DEF Thing
  <2>. QED BY <2>1
<1>4. /\ x \in Thing /\ x.stage = stage /\ x.spawn = FALSE /\ x.raid = who
      /\ who \in Raids \cup {None}
  <2>1. who \in Raids \cup {None} OBVIOUS
  <2>. HIDE DEF who
  <2>2. NoThing \in Thing /\ NoThing.spawn = FALSE BY DEF NoThing, Thing
  <2>. DEFINE b == [NoThing EXCEPT !.stage = stage]
              c == [b EXCEPT !.raid = who]
  <2>3. b \in Thing /\ b.stage = stage /\ b.spawn = FALSE BY <2>2 DEF Thing
  <2>4. x = c OBVIOUS
  <2>. HIDE DEF b
  <2>5. c \in Thing /\ c.stage = stage /\ c.spawn = FALSE /\ c.raid = who
    BY <2>1, <2>3 DEF Thing
  <2>. HIDE DEF c, x
  <2>. QED BY <2>1, <2>4, <2>5
<1>5. /\ k \in Nat /\ a \in RaidState /\ a.refs = k /\ a.count = s.raid[r].count
      /\ a.lost = s.raid[r].lost
  <2>1. s.raid[r] \in RaidState /\ s.raid[r].refs \in Nat BY <1>0 DEF PopState, RaidState
  <2>2. k \in Nat BY <1>2, <2>1
  <2>. HIDE DEF k
  <2>. QED BY <2>1, <2>2 DEF RaidState
<1>. HIDE DEF x, a
<1>6. /\ t \in PopState /\ t.thing = f /\ t.raid = g /\ t.spawned = s.spawned
      /\ t.event = s.event /\ t.checks = s.checks /\ t.running = r /\ t.tried = s.tried
  <2>1. f \in [Things -> Thing] BY <1>0, <1>4 DEF PopState
  <2>2. g \in [Raids -> RaidState] BY <1>0, <1>5 DEF PopState
  <2>. HIDE DEF f, g
  <2>. DEFINE u == [s EXCEPT !.thing = f]
              v == [u EXCEPT !.raid = g]
  <2>3. /\ u \in PopState /\ u.thing = f /\ u.spawned = s.spawned
        /\ u.event = s.event /\ u.checks = s.checks /\ u.running = r /\ u.tried = s.tried
    BY <1>0, <2>1 DEF PopState
  <2>4. t = v OBVIOUS
  <2>. HIDE DEF u
  <2>5. /\ v \in PopState /\ v.thing = f /\ v.raid = g /\ v.spawned = s.spawned
        /\ v.event = s.event /\ v.checks = s.checks /\ v.running = r /\ v.tried = s.tried
    BY <2>2, <2>3 DEF PopState
  <2>. HIDE DEF t, v
  <2>. QED BY <2>4, <2>5
<1>7. /\ g[r] = a /\ \A y \in Raids \ {r} : g[y] = s.raid[y]
      /\ \A m \in Things : f[m] = IF m \in S THEN x ELSE s.thing[m]
  BY <1>0 DEF PopState
<1>. HIDE DEF t, f, g
<1>8. SpawnBooks(t)
  <2>1. \A m \in Things : t.thing[m].spawn => m \notin S /\ t.thing[m] = s.thing[m]
    BY <1>4, <1>6, <1>7
  <2>2. \A m \in Things : s.thing[m].spawn => t.thing[m] = s.thing[m]
    BY <1>3, <1>6, <1>7
  <2>3. \A e \in s.spawned : e[2] \in Things BY <1>0 DEF PopState, Things
  <2>4. Brood \subseteq Things BY DEF Things
  <2>5. \A m \in Things : t.thing[m].spawn => m \in Brood /\ t.thing[m].stage \in {"alive", "denied"}
    BY <1>0, <2>1 DEF SpawnBooks
  <2>6. ASSUME NEW m \in Brood, t.thing[m].spawn, t.thing[m].stage = "alive"
        PROVE  \E e \in t.spawned : e[2] = m
    <3>1. t.thing[m] = s.thing[m] BY <2>1, <2>4, <2>6
    <3>2. \E e \in s.spawned : e[2] = m BY <1>0, <2>6, <3>1 DEF SpawnBooks
    <3>. QED BY <1>6, <3>2
  <2>7. \A e \in t.spawned : t.thing[e[2]].spawn BY <1>0, <1>6, <2>2, <2>3 DEF SpawnBooks
  <2>8. \A e, h \in t.spawned : e[2] = h[2] \/ (e[1] = h[1] /\ e[1] # 0) => e = h
    BY <1>0, <1>6 DEF SpawnBooks
  <2>9. t.event => t.checks > 0 BY <1>0, <1>6 DEF SpawnBooks
  <2>. QED BY <2>5, <2>6, <2>7, <2>8, <2>9 DEF SpawnBooks
<1>9. RaidBooks(t)
  <2>1. \A m \in Things : t.thing[m].raid # None =>
           /\ m \in Horde /\ t.thing[m].stage # "none"
           /\ t.thing[m].stage = "item" => PlacesItems(t.thing[m].raid)
    BY <1>0, <1>2, <1>4, <1>6, <1>7 DEF RaidBooks
  <2>2. ASSUME NEW y \in Raids
        PROVE  /\ t.raid[y].refs = Cardinality(Referring(t, y)) + t.raid[y].lost
               /\ t.raid[y].lost > 0 => PlacesItems(y)
    <3>0. y # None BY DEF RaidsAssumption
    <3>1. CASE y = r /\ UsesRef(r)
      <4>1. Referring(t, r) = Referring(s, r) \cup S
        BY <1>2, <1>4, <1>6, <1>7, <3>1 DEF Referring, Things
      <4>2. Referring(s, r) \cap S = {} BY <1>0, <1>3 DEF Referring
      <4>3. IsFiniteSet(Referring(s, r)) /\ Cardinality(Referring(s, r)) \in Nat BY ReferringLemma
      <4>4. Cardinality(Referring(t, r)) = Cardinality(Referring(s, r)) + Cardinality(S)
        <5>1. Cardinality(Referring(s, r) \cap S) = 0 BY <4>2, FS_EmptySet
        <5>2. Cardinality(Referring(s, r) \cup S)
                = Cardinality(Referring(s, r)) + Cardinality(S) - Cardinality(Referring(s, r) \cap S)
          BY <1>2, <4>3, FS_Union
        <5>. QED BY <1>2, <4>1, <4>3, <5>1, <5>2
      <4>5. /\ s.raid[r].refs = Cardinality(Referring(s, r)) + s.raid[r].lost
            /\ s.raid[r].lost > 0 => PlacesItems(r)
        BY <1>0 DEF RaidBooks
      <4>6. s.raid[r].lost \in Nat BY <1>0 DEF PopState, RaidState, RaidsAssumption
      <4>. QED BY <1>2, <1>5, <1>6, <1>7, <3>1, <4>3, <4>4, <4>5, <4>6
    <3>2. CASE ~(y = r /\ UsesRef(r))
      <4>1. Referring(t, y) = Referring(s, y)
        BY <1>3, <1>4, <1>6, <1>7, <3>0, <3>2 DEF Referring, Things
      <4>2. t.raid[y].refs = s.raid[y].refs /\ t.raid[y].lost = s.raid[y].lost
        BY <1>5, <1>6, <1>7, <3>2
      <4>. QED BY <1>0, <4>1, <4>2 DEF RaidBooks
    <3>. QED BY <3>1, <3>2
  <2>. QED BY <2>1, <2>2 DEF RaidBooks
<1>10. \A y \in Raids \ {r} : Driven(t.raid[y], y, r) BY <1>0, <1>6, <1>7
<1>11. t.raid[r].count \in 0..Len(Events[r]) BY <1>0, <1>5, <1>6, <1>7
<1>12. Begun(t, r) BY <1>0, <1>6, <1>8, <1>9, <1>10, <1>11 DEF Begun
<1>13. t.raid[r].lost = s.raid[r].lost BY <1>5, <1>6, <1>7
<1>. QED BY <1>1, <1>12, <1>13

\* Items whose references are lost as soon as they are counted.
LEMMA LostLemma ==
    ASSUME RaidsAssumption, NEW r \in Raids, NEW s, Begun(s, r), PlacesItems(r),
           NEW n \in Nat, s.raid[r].lost + n <= MaxLost
    PROVE  Begun(Lost(s, r, n), r)
<1>. DEFINE q == s.raid[r]
            a == [q EXCEPT !.refs = @ + n, !.lost = @ + n]
            t == WithRaid(s, r, a)
<1>0. /\ s \in PopState /\ SpawnBooks(s) /\ RaidBooks(s) /\ s.running = r
      /\ q.count \in 0..Len(Events[r]) /\ \A x \in Raids \ {r} : Driven(s.raid[x], x, r)
      /\ s.tried = 0
      /\ s.checks > 0 \/ Cardinality(s.spawned) >= Cardinality(Slots)
  BY DEF Begun
<1>1. q \in RaidState /\ q.refs \in Nat /\ q.lost \in 0..MaxLost /\ MaxLost \in Nat
  BY <1>0 DEF PopState, RaidState, RaidsAssumption
<1>2. /\ a \in RaidState /\ a.refs = q.refs + n /\ a.lost = q.lost + n /\ a.count = q.count
  <2>1. q.refs + n \in Nat /\ q.lost + n \in 0..MaxLost BY <1>1
  <2>. HIDE DEF q
  <2>. QED BY <1>1, <2>1 DEF RaidState
<1>3. Lost(s, r, n) = t BY DEF Lost, WithRaid
<1>. HIDE DEF a
<1>4. t \in PopState /\ OnlyRaid(s, t, r) /\ t.raid[r] = a /\ t.running = s.running
  BY <1>0, <1>2, WithRaidLemma
<1>. HIDE DEF t
<1>5. SpawnBooks(t) BY <1>0, <1>4 DEF SpawnBooks, OnlyRaid
<1>6. RaidBooks(t)
  <2>1. ASSUME NEW x \in Raids
        PROVE  /\ t.raid[x].refs = Cardinality(Referring(t, x)) + t.raid[x].lost
               /\ t.raid[x].lost > 0 => PlacesItems(x)
    <3>1. Referring(t, x) = Referring(s, x) BY <1>4 DEF Referring, OnlyRaid
    <3>2. /\ s.raid[x].refs = Cardinality(Referring(s, x)) + s.raid[x].lost
          /\ s.raid[x].lost > 0 => PlacesItems(x)
      BY <1>0 DEF RaidBooks
    <3>3. Cardinality(Referring(s, x)) \in Nat BY ReferringLemma
    <3>4. CASE x = r
      <4>1. s.raid[x] = q /\ t.raid[x] = a BY <1>4, <3>4
      <4>. HIDE DEF q
      <4>. QED BY <1>1, <1>2, <3>1, <3>2, <3>3, <3>4, <4>1
    <3>5. CASE x # r BY <1>4, <3>1, <3>2, <3>5 DEF OnlyRaid
    <3>. QED BY <3>4, <3>5
  <2>2. \A m \in Things : t.thing[m].raid # None =>
           /\ m \in Horde /\ t.thing[m].stage # "none"
           /\ t.thing[m].stage = "item" => PlacesItems(t.thing[m].raid)
    BY <1>0, <1>4 DEF RaidBooks, OnlyRaid
  <2>. QED BY <2>1, <2>2 DEF RaidBooks
<1>7. \A x \in Raids \ {r} : Driven(t.raid[x], x, r) BY <1>0, <1>4 DEF OnlyRaid
<1>8. t.tried = 0 /\ (t.checks > 0 \/ Cardinality(t.spawned) >= Cardinality(Slots))
  BY <1>0, <1>4 DEF OnlyRaid
<1>. QED BY <1>0, <1>2, <1>3, <1>4, <1>5, <1>6, <1>7, <1>8 DEF Begun

LEMMA ExecuteLemma ==
    ASSUME RaidsAssumption, NEW r \in Raids, PopGood(w), ExecuteRaidEvent(r)
    PROVE  PopGood(w')
<1>. DEFINE q == w.raid[r]
            a == [q EXCEPT !.task = 0]
            s == WithRaid(w, r, a)
<1>0. /\ w \in PopState /\ SpawnBooks(w) /\ RaidBooks(w)
      /\ \A x \in Raids : Driven(w.raid[x], x, w.running)
      /\ w.tried = 0
      /\ w.checks > 0 \/ Cardinality(w.spawned) >= Cardinality(Slots)
  BY DEF PopGood
<1>1. q \in RaidState BY <1>0 DEF PopState
<1>2. q.task # 0 BY DEF ExecuteRaidEvent
<1>3. w.running = r /\ q.count \in 0..Len(Events[r]) BY <1>0, <1>2 DEF Driven
<1>4. /\ a \in RaidState /\ a.refs = q.refs /\ a.lost = q.lost /\ a.count = q.count BY <1>1 DEF RaidState
<1>5. [w EXCEPT !.raid[r].task = 0] = s BY DEF WithRaid
<1>. HIDE DEF a
<1>6. /\ s \in PopState /\ OnlyRaid(w, s, r) /\ s.raid[r] = a /\ s.running = w.running
  BY <1>0, <1>4, WithRaidLemma
<1>. HIDE DEF s
<1>7. SpawnBooks(s) /\ RaidBooks(s) BY <1>0, <1>4, <1>6, OnlyRaidLemma
<1>8. Begun(s, r)
  <2>1. \A x \in Raids \ {r} : s.raid[x] = w.raid[x] BY <1>6 DEF OnlyRaid
  <2>2. \A x \in Raids \ {r} : Driven(s.raid[x], x, r) BY <1>0, <1>3, <2>1
  <2>3. s.tried = 0 /\ (s.checks > 0 \/ Cardinality(s.spawned) >= Cardinality(Slots))
    BY <1>0, <1>6 DEF OnlyRaid
  <2>. QED BY <1>3, <1>4, <1>6, <1>7, <2>2, <2>3 DEF Begun
<1>9. \/ w' = After(s, r, FALSE) \/ w' = After(s, r, TRUE)
      \/ /\ Events[r][q.task] = "items"
         /\ \E S \in SUBSET FreeIn(w, Horde), n \in Losable(w, r), done \in BOOLEAN :
               w' = After(Lost(Placed(s, r, S, "item"), r, n), r, done)
      \/ \E S \in SUBSET FreeIn(w, Horde), done \in BOOLEAN :
            w' = After(Placed(s, r, S, "alive"), r, done)
  BY <1>5, Zenon DEF ExecuteRaidEvent
<1>10. FreeIn(w, Horde) = FreeIn(s, Horde)
  <2>1. \A m \in Horde : m \in Things BY DEF Things
  <2>. QED BY <1>6, <2>1 DEF OnlyRaid, FreeIn
<1>11. CASE w' = After(s, r, FALSE) \/ w' = After(s, r, TRUE)
  BY <1>8, <1>11, AfterLemma
<1>12. ASSUME NEW S \in SUBSET FreeIn(w, Horde), NEW n \in Losable(w, r), NEW done \in BOOLEAN,
              Events[r][q.task] = "items",
              w' = After(Lost(Placed(s, r, S, "item"), r, n), r, done)
       PROVE  PopGood(w')
  <2>. DEFINE p == Placed(s, r, S, "item")
  <2>1. S \in SUBSET FreeIn(s, Horde) BY <1>10
  <2>2. PlacesItems(r)
    <3>1. q.task \in 0..Len(Events[r]) /\ Len(Events[r]) \in Nat
      BY <1>0 DEF Driven, RaidsAssumption
    <3>. QED BY <1>2, <1>12, <3>1 DEF PlacesItems
  <2>3. Begun(p, r) /\ p.raid[r].lost = s.raid[r].lost BY <1>8, <2>1, <2>2, PlacedLemma
  <2>4. q.lost \in 0..MaxLost /\ MaxLost \in Nat
    BY <1>1 DEF RaidState, RaidsAssumption
  <2>5. n \in Nat /\ q.lost + n <= MaxLost BY <2>4 DEF Losable
  <2>. HIDE DEF p, q
  <2>6. Begun(Lost(p, r, n), r) BY <1>4, <1>6, <2>3, <2>5, <2>2, LostLemma
  <2>. QED BY <1>12, <2>6, AfterLemma DEF p
<1>13. ASSUME NEW S \in SUBSET FreeIn(w, Horde), NEW done \in BOOLEAN,
              w' = After(Placed(s, r, S, "alive"), r, done)
       PROVE  PopGood(w')
  <2>1. S \in SUBSET FreeIn(s, Horde) BY <1>10
  <2>2. Begun(Placed(s, r, S, "alive"), r) BY <1>8, <2>1, PlacedLemma
  <2>. QED BY <1>13, <2>2, AfterLemma
<1>. QED BY <1>9, <1>11, <1>12, <1>13

LEMMA ReadyLemma ==
    ASSUME NEW n \in Slots, PopGood(w), Ready(n)
    PROVE  PopGood(w')
<1>. DEFINE R == w.ready \cup {n}
<1>1. w \in PopState /\ SpawnBooks(w) /\ RaidBooks(w) BY DEF PopGood
<1>2. w' = [w EXCEPT !.ready = R] BY DEF Ready
<1>3. R \in SUBSET Slots BY <1>1 DEF PopState
<1>. HIDE DEF R
<1>4. /\ w' \in PopState /\ w'.thing = w.thing /\ w'.spawned = w.spawned /\ w'.event = w.event
      /\ w'.checks = w.checks /\ w'.tried = w.tried /\ w'.raid = w.raid /\ w'.running = w.running
  BY <1>1, <1>2, <1>3 DEF PopState
<1>5. SpawnBooks(w') BY <1>1, <1>4 DEF SpawnBooks
<1>6. SameRaids(w, w') BY <1>4 DEF SameRaids
<1>7. RaidBooks(w')
  <2>1. \A m \in Things : w.thing[m].raid # None => Stays(w.thing[m], w'.thing[m])
    BY <1>1, <1>4 DEF RaidBooks, Stays
  <2>. QED BY <1>1, <1>6, <2>1, RaidBooksLemma
<1>. QED BY <1>4, <1>5, <1>7 DEF PopGood

\* A reload finds nothing that refers to a raid, and leaves all of them at rest.
LEMMA ReloadLemma ==
    ASSUME RaidsAssumption, PopGood(w), Reload
    PROVE  PopGood(w')
<1>. DEFINE g == [r \in Raids |-> Resting]
            u == [w EXCEPT !.raid = g]
            t == [u EXCEPT !.running = None]
<1>1. w \in PopState /\ SpawnBooks(w) /\ RaidBooks(w) BY DEF PopGood
<1>2. w' = t /\ \A m \in Things : w.thing[m].raid = None BY DEF Reload
<1>3. /\ Resting \in RaidState /\ Resting.refs = 0 /\ Resting.count = 0
      /\ Resting.next = FALSE /\ Resting.task = 0 /\ Resting.lost = 0
  BY DEF Resting, RaidState, RaidsAssumption
<1>4. g \in [Raids -> RaidState] /\ \A r \in Raids : g[r] = Resting BY <1>3
<1>. HIDE DEF g
<1>5. /\ u \in PopState /\ u.thing = w.thing /\ u.spawned = w.spawned /\ u.event = w.event
      /\ u.checks = w.checks /\ u.tried = w.tried /\ u.raid = g
  BY <1>1, <1>4 DEF PopState
<1>. HIDE DEF u
<1>6. /\ t \in PopState /\ t.thing = w.thing /\ t.spawned = w.spawned /\ t.event = w.event
      /\ t.checks = w.checks /\ t.tried = w.tried /\ t.raid = g /\ t.running = None
  BY <1>5 DEF PopState
<1>. HIDE DEF t
<1>7. SpawnBooks(t) BY <1>1, <1>6 DEF SpawnBooks
<1>8. RaidBooks(t)
  <2>1. \A m \in Things : t.thing[m].raid # None =>
           /\ m \in Horde /\ t.thing[m].stage # "none"
           /\ t.thing[m].stage = "item" => PlacesItems(t.thing[m].raid)
    BY <1>1, <1>6 DEF RaidBooks
  <2>2. ASSUME NEW r \in Raids
        PROVE  /\ t.raid[r].refs = Cardinality(Referring(t, r)) + t.raid[r].lost
               /\ t.raid[r].lost > 0 => PlacesItems(r)
    <3>1. r # None BY DEF RaidsAssumption
    <3>2. Referring(t, r) = {} BY <1>2, <1>6, <3>1 DEF Referring, Things
    <3>3. Cardinality({}) = 0 BY FS_EmptySet
    <3>. QED BY <1>3, <1>4, <1>6, <3>2, <3>3
  <2>. QED BY <2>1, <2>2 DEF RaidBooks
<1>9. ASSUME NEW r \in Raids PROVE Driven(t.raid[r], r, t.running)
  <2>1. t.raid[r] = Resting /\ t.running = None BY <1>4, <1>6
  <2>2. r # None /\ Len(Events[r]) \in Nat BY DEF RaidsAssumption
  <2>. QED BY <1>3, <2>1, <2>2 DEF Driven
<1>10. PopGood(t) BY <1>6, <1>7, <1>8, <1>9 DEF PopGood
<1>. QED BY <1>2, <1>10

-------------------------------------------------------------------------------
LEMMA PopNextLemma ==
    ASSUME SlotsAssumption, RaidsAssumption, PopInv, [PopulationNext]_(populationVars)
    PROVE  PopInv'
<1>0. PopGood(w) /\ site \in [Slots -> {"free", "watched", "blocked"}] BY DEF PopInv
<1>1. CASE CheckSpawn BY <1>1, CheckSpawnLemma
<1>2. ASSUME NEW n \in Slots, Ready(n) PROVE PopInv'
  BY <1>0, <1>2, ReadyLemma DEF PopInv, PopGood, Ready, KeepSites
<1>3. ASSUME NEW n \in Slots, SiteChanges(n) PROVE PopInv'
  <2>1. w' = w BY <1>3 DEF SiteChanges
  <2>2. site' \in [Slots -> {"free", "watched", "blocked"}] BY <1>0, <1>3 DEF SiteChanges
  <2>3. PopGood(w') BY <1>0, <2>1
  <2>. QED BY <2>2, <2>3 DEF PopInv, PopGood
<1>4. ASSUME NEW m \in Things, Walk(m) \/ DenyDeath(m) PROVE PopGood(w') /\ site' = site
  BY <1>0, <1>4, WalkLemma DEF Walk, DenyDeath, KeepSites
<1>5. ASSUME NEW m \in Things, MonsterExits(m) \/ MonsterConvinced(m) \/ OnRemoved(m)
      PROVE  PopGood(w') /\ site' = site
  BY <1>0, <1>5, LeavingLemma DEF MonsterExits, MonsterConvinced, OnRemoved, KeepSites
<1>12. ASSUME NEW m \in Horde, Vanish(m) PROVE PopGood(w') /\ site' = site
  BY <1>0, <1>12, VanishLemma DEF Vanish, KeepSites
<1>6. ASSUME NEW r \in Raids, CheckRaids(r) \/ ExecuteRaid(r)
      PROVE  PopGood(w') /\ site' = site
  BY <1>0, <1>6, StartRaidLemma DEF CheckRaids, ExecuteRaid, KeepSites
<1>7. ASSUME NEW r \in Raids, ExecuteRaidEvent(r) PROVE PopGood(w') /\ site' = site
  <2>1. site' = site BY <1>7 DEF ExecuteRaidEvent, KeepSites
  <2>. QED BY <1>0, <1>7, <2>1, ExecuteLemma
<1>8. CASE Reload
  <2>1. site' = site BY <1>8 DEF Reload, KeepSites
  <2>2. PopGood(w') BY <1>0, <1>8, ReloadLemma
  <2>. QED BY <1>0, <2>1, <2>2 DEF PopInv, PopGood
<1>9. CASE UNCHANGED populationVars
  <2>1. w' = w /\ site' = site BY <1>9 DEF populationVars
  <2>2. PopGood(w') BY <1>0, <2>1
  <2>. QED BY <1>0, <2>1, <2>2 DEF PopInv, PopGood
<1>10. PopGood(w') /\ site' = site => PopInv' BY <1>0 DEF PopInv, PopGood
<1>11. CASE PopulationNext
  BY <1>1, <1>2, <1>3, <1>4, <1>5, <1>6, <1>7, <1>8, <1>10, <1>11, <1>12 DEF PopulationNext, Things
<1>. QED BY <1>9, <1>11

LEMMA PopAgreesLemma ==
    ASSUME SlotsAssumption, RaidsAssumption, PopInv
    PROVE  PopulationAgrees
<1>0. /\ w \in PopState /\ SpawnBooks(w) /\ RaidBooks(w)
      /\ \A r \in Raids : Driven(w.raid[r], r, w.running)
      /\ w.tried = 0 /\ (w.checks > 0 \/ Cardinality(w.spawned) >= Cardinality(Slots))
      /\ site \in [Slots -> {"free", "watched", "blocked"}]
  BY DEF PopInv, PopGood
<1>1. PopulationTypeOK
  <2>1. /\ w.thing \in [Things -> [stage : {"none", "alive", "denied", "item"}, spawn : BOOLEAN,
                                     raid : Raids \cup {None}, away : BOOLEAN]]
        /\ w.spawned \subseteq (Slots \cup {0}) \X Brood /\ w.ready \subseteq Slots
        /\ w.event \in BOOLEAN /\ w.checks \in 0..MaxChecks
        /\ w.running \in Raids \cup {None}
    BY <1>0 DEF PopState, Thing, Things
  <2>2. ASSUME NEW r \in Raids
        PROVE  /\ w.raid[r].refs \in Nat /\ w.raid[r].lost \in 0..MaxLost
               /\ w.raid[r].count \in 0..Len(Events[r])
               /\ w.raid[r].task \in 0..Len(Events[r])
    <3>1. w.raid[r] \in RaidState BY <1>0 DEF PopState
    <3>. QED BY <1>0, <3>1 DEF Driven, RaidState
  <2>. QED BY <1>0, <2>1, <2>2 DEF PopulationTypeOK
<1>2. SpawnedAgree
  <2>1. ASSUME NEW m \in Brood, w.thing[m].spawn, w.thing[m].stage = "alive"
        PROVE  Cardinality({e \in w.spawned : e[2] = m}) = 1
    <3>1. PICK e \in w.spawned : e[2] = m BY <1>0, <2>1 DEF SpawnBooks
    <3>2. {x \in w.spawned : x[2] = m} = {e} BY <1>0, <3>1 DEF SpawnBooks
    <3>. QED BY <3>2, FS_Singleton
  <2>2. \A e \in w.spawned : w.thing[e[2]].spawn BY <1>0 DEF SpawnBooks
  <2>3. ASSUME NEW n \in Slots PROVE Cardinality(Entries(w, n)) <= 1
    <3>1. n # 0 BY FS_CardinalityType DEF SlotsAssumption
    <3>2. CASE Entries(w, n) = {}
      <4>1. Cardinality({}) = 0 BY FS_EmptySet
      <4>. QED BY <3>2, <4>1
    <3>3. CASE Entries(w, n) # {}
      <4>1. PICK e \in Entries(w, n) : TRUE BY <3>3
      <4>2. Entries(w, n) = {e} BY <1>0, <3>1, <4>1 DEF SpawnBooks, Entries
      <4>3. Cardinality({e}) = 1 BY FS_Singleton
      <4>. QED BY <4>2, <4>3
    <3>. QED BY <3>2, <3>3
  <2>. QED BY <2>1, <2>2, <2>3 DEF SpawnedAgree
<1>3. SlotsWatched BY <1>0 DEF SlotsWatched, SpawnBooks
<1>4. RefsAgree BY <1>0 DEF RefsAgree, Counting, Counts, RaidBooks, Referring
<1>5. RaidsDriven BY <1>0 DEF RaidsDriven, Driven
<1>. QED BY <1>1, <1>2, <1>3, <1>4, <1>5 DEF PopulationAgrees

\* For every number of slots and every set of raids: a living monster of the spawn is
\* listed once and a slot has one at most, a check is pending as long as fewer monsters
\* are out than there are slots, a raid counts each thing that is in the world for it
\* once and besides nothing but the references of items that went without a word (one
\* that places monsters only counts exactly), and one raid runs at a time and is driven
\* by a task or waits (spawn.cpp, raids.cpp, Monster::willExitWorld, doItemRaidUnref).
THEOREM SpawnsAndRaidsAgree == PopulationSpec => []PopulationAgrees
<1>1. PopulationInit => PopInv BY SlotsAssumption, RaidsAssumption, StartupLemma
<1>2. PopInv /\ [PopulationNext]_populationVars => PopInv'
  BY SlotsAssumption, RaidsAssumption, PopNextLemma
<1>3. PopInv => PopulationAgrees BY SlotsAssumption, RaidsAssumption, PopAgreesLemma
<1>. QED BY <1>1, <1>2, <1>3, PTL DEF PopulationSpec
-------------------------------------------------------------------------------
(* The conditions of a player.  The invariant: with the delta of each condition *)
(* in force the sums, the spectators' view and the lock fit, and no clock of a  *)
(* condition is further from the other than the time since the last thought     *)
(* explains.                                                                    *)

(* Sums over finite sets. *)

\* g gives the sum of f over every subset of S.
IsSum(g, f, S) ==
    /\ g \in [SUBSET S -> Int] /\ g[{}] = 0
    /\ \A T \in SUBSET S : \A x \in T : g[T] = g[T \ {x}] + f[x]
SumsOf(f, S) == CHOOSE g : IsSum(g, f, S)
SumOf(f, S) == SumsOf(f, S)[S]

LEMMA SumExists ==
    ASSUME NEW S, IsFiniteSet(S), NEW f \in [S -> Int]
    PROVE  IsSum(SumsOf(f, S), f, S)
<1>. DEFINE one == [T \in SUBSET S |-> CHOOSE x \in T : TRUE]
            step == [x \in S |-> [n \in Int |-> n + f[x]]]
<1>1. Takes(one, S) BY DEF Takes
<1>2. step \in [S -> [Int -> Int]] OBVIOUS
<1>. HIDE DEF one
<1>3. PICK g : IsFold(g, 0, step, one, S, Int)
  <2>1. 0 \in Int OBVIOUS
  <2>. HIDE DEF step
  <2>. QED BY <1>1, <1>2, <2>1, FoldExists
<1>4. g \in [SUBSET S -> Int] BY <1>3 DEF IsFold
<1>5. ASSUME NEW T \in SUBSET S, T # {}
      PROVE  /\ one[T] \in T /\ one[T] \in S /\ T \ {one[T]} \in SUBSET S
             /\ g[T] = g[T \ {one[T]}] + f[one[T]]
  <2>1. one[T] \in T /\ one[T] \in S /\ T \ {one[T]} \in SUBSET S BY <1>1, <1>5 DEF Takes
  <2>2. g[T] = step[one[T]][g[T \ {one[T]}]] BY <1>3, <1>5 DEF IsFold
  <2>3. g[T \ {one[T]}] \in Int BY <1>4, <2>1
  <2>. QED BY <2>1, <2>2, <2>3
<1>6. g[{}] = 0
  <2>1. {} \in SUBSET S OBVIOUS
  <2>. QED BY <1>3, <2>1 DEF IsFold
<1>. DEFINE G == {T \in SUBSET S : \A x \in T : g[T] = g[T \ {x}] + f[x]}
<1>7. {} \in G OBVIOUS
<1>8. ASSUME NEW T \in SUBSET S, T # {}, \A x \in T : T \ {x} \in G PROVE T \in G
  <2>1. ASSUME NEW x \in T PROVE g[T] = g[T \ {x}] + f[x]
    <3>. DEFINE y == one[T]
    <3>1. y \in T /\ y \in S /\ x \in S /\ g[T] = g[T \ {y}] + f[y] BY <1>5, <1>8
    <3>. HIDE DEF y
    <3>2. CASE x = y BY <3>1, <3>2
    <3>3. CASE x # y
      <4>1. T \ {y} \in G /\ T \ {x} \in G BY <1>8, <3>1
      <4>2. x \in T \ {y} /\ y \in T \ {x} BY <3>1, <3>3
      <4>3. g[T \ {y}] = g[(T \ {y}) \ {x}] + f[x] BY <4>1, <4>2
      <4>4. g[T \ {x}] = g[(T \ {x}) \ {y}] + f[y] BY <4>1, <4>2
      <4>5. (T \ {x}) \ {y} = (T \ {y}) \ {x} OBVIOUS
      <4>6. (T \ {y}) \ {x} \in SUBSET S OBVIOUS
      <4>7. f[x] \in Int /\ f[y] \in Int /\ g[(T \ {y}) \ {x}] \in Int BY <1>4, <3>1, <4>6
      <4>. DEFINE n == g[(T \ {y}) \ {x}]
      <4>8. g[T \ {y}] = n + f[x] /\ g[T \ {x}] = n + f[y] BY <4>3, <4>4, <4>5
      <4>. HIDE DEF n
      <4>9. n \in Int BY <4>7 DEF n
      <4>. QED BY <3>1, <4>7, <4>8, <4>9
    <3>. QED BY <3>2, <3>3
  <2>. QED BY <2>1
<1>. HIDE DEF G
<1>9. \A T \in SUBSET S : T \in G BY <1>7, <1>8, SubsetInduction
<1>10. IsSum(g, f, S) BY <1>4, <1>6, <1>9 DEF IsSum, G
<1>. QED BY <1>10 DEF SumsOf

\* The sum of another function that differs at y only.
LEMMA SumChange ==
    ASSUME NEW S, IsFiniteSet(S), NEW f \in [S -> Int], NEW h \in [S -> Int], NEW y \in S,
           \A x \in S \ {y} : h[x] = f[x]
    PROVE  SumOf(f, S) \in Int /\ SumOf(h, S) = SumOf(f, S) + (h[y] - f[y])
<1>. DEFINE a == SumsOf(f, S)
            b == SumsOf(h, S)
            d == h[y] - f[y]
            G == {T \in SUBSET S : b[T] = a[T] + (IF y \in T THEN d ELSE 0)}
<1>1. IsSum(a, f, S) /\ IsSum(b, h, S) BY SumExists
<1>. HIDE DEF a, b
<1>2. a[{}] = 0 /\ b[{}] = 0 /\ {} \in SUBSET S BY <1>1 DEF IsSum
<1>3. \A T \in SUBSET S : a[T] \in Int /\ b[T] \in Int BY <1>1 DEF IsSum
<1>4. {} \in G BY <1>2
<1>5. ASSUME NEW T \in SUBSET S, T # {}, \A x \in T : T \ {x} \in G PROVE T \in G
  <2>1. PICK x \in T : TRUE BY <1>5
  <2>2. a[T] = a[T \ {x}] + f[x] /\ b[T] = b[T \ {x}] + h[x] BY <1>1, <2>1 DEF IsSum
  <2>3. b[T \ {x}] = a[T \ {x}] + (IF y \in T \ {x} THEN d ELSE 0) BY <1>5, <2>1
  <2>4. /\ x \in S /\ f[x] \in Int /\ h[x] \in Int /\ f[y] \in Int /\ h[y] \in Int
        /\ a[T \ {x}] \in Int
    BY <1>3, <2>1
  <2>5. CASE x = y
    <3>1. y \in T /\ y \notin T \ {x} BY <2>1, <2>5
    <3>2. b[T \ {x}] = a[T \ {x}] BY <2>3, <2>4, <3>1
    <3>3. b[T] = a[T] + d BY <2>2, <2>4, <2>5, <3>2
    <3>. QED BY <3>1, <3>3
  <2>6. CASE x # y
    <3>1. y \in T <=> y \in T \ {x} BY <2>6
    <3>2. h[x] = f[x] BY <2>4, <2>6
    <3>3. b[T] = a[T] + (IF y \in T THEN d ELSE 0) BY <2>2, <2>3, <2>4, <3>1, <3>2
    <3>. QED BY <3>3
  <2>. QED BY <2>5, <2>6
<1>. HIDE DEF G
<1>6. S \in G BY <1>4, <1>5, SubsetInduction
<1>7. b[S] = a[S] + d BY <1>6 DEF G
<1>. QED BY <1>3, <1>7 DEF SumOf, a, b

LEMMA SumZero ==
    ASSUME NEW S, IsFiniteSet(S), NEW f \in [S -> Int], \A x \in S : f[x] = 0
    PROVE  SumOf(f, S) = 0
<1>. DEFINE a == SumsOf(f, S)
            G == {T \in SUBSET S : a[T] = 0}
<1>1. IsSum(a, f, S) BY SumExists
<1>. HIDE DEF a
<1>2. {} \in G BY <1>1 DEF IsSum
<1>3. ASSUME NEW T \in SUBSET S, T # {}, \A x \in T : T \ {x} \in G PROVE T \in G
  <2>1. PICK x \in T : TRUE BY <1>3
  <2>2. a[T] = a[T \ {x}] + f[x] BY <1>1, <2>1 DEF IsSum
  <2>. QED BY <1>3, <2>1, <2>2
<1>. HIDE DEF G
<1>4. S \in G BY <1>2, <1>3, SubsetInduction
<1>. QED BY <1>4 DEF SumOf, a, G

-------------------------------------------------------------------------------
(* What the conditions of a player add up to. *)

Haste == {"HASTE", "PARALYZE"}
Attributes == {"ATTRIBUTES"}
DeltaOf(p, k) == IF k \in Attached(p) THEN p.conds[k].delta ELSE 0
Deltas(p, ts) == [k \in Keys |-> IF k[1] \in ts THEN DeltaOf(p, k) ELSE 0]
Sums(p, x) == /\ p.speed = SumOf(Deltas(p, Haste), Keys) + x
              /\ p.stat = SumOf(Deltas(p, Attributes), Keys)

LEMMA KeysLemma ==
    ASSUME GivenAssumption
    PROVE  /\ IsFiniteSet(Keys)
           /\ \A k \in Keys : k = <<k[1], k[2]>>
           /\ \A t : Key(InFight(t)) \in Keys /\ Key(InFight(t)) = <<"INFIGHT", "DEFAULT">>
           /\ Key(RingInvisible) \in Keys /\ Key(RingInvisible) = <<"INVISIBLE", "RING">>
           /\ \A c \in UNION Books : Key(c) \in Keys
<1>. DEFINE S == (UNION Books) \cup {InFight(PzTicks), RingInvisible}
            f == [c \in S |-> Key(c)]
            R == {f[c] : c \in S}
<1>2. IsFiniteSet(UNION Books) BY DEF GivenAssumption
<1>3. IsFiniteSet(S)
  <2>1. S = ((UNION Books) \cup {InFight(PzTicks)}) \cup {RingInvisible} OBVIOUS
  <2>. QED BY <1>2, <2>1, FS_AddElement
<1>4. Keys = R BY DEF Keys
<1>5. IsFiniteSet(R)
  <2>1. f \in Surjection(S, R) BY DEF Surjection
  <2>. HIDE DEF S, f, R
  <2>. QED BY <1>3, <2>1, FS_Surjection
<1>6. \A k \in Keys : k = <<k[1], k[2]>> BY DEF Keys, Key
<1>7. \A t : Key(InFight(t)) = <<"INFIGHT", "DEFAULT">> BY DEF Key, InFight
<1>8. Key(RingInvisible) = <<"INVISIBLE", "RING">> BY DEF Key, RingInvisible
<1>9. Key(InFight(PzTicks)) \in Keys /\ Key(RingInvisible) \in Keys
      /\ \A c \in UNION Books : Key(c) \in Keys
  BY DEF Keys
<1>. QED BY <1>4, <1>5, <1>6, <1>7, <1>8, <1>9

LEMMA DeltasLemma ==
    ASSUME NEW p \in PlayerRecord, NEW ts
    PROVE  /\ Deltas(p, ts) \in [Keys -> Int]
           /\ \A k \in Keys : DeltaOf(p, k) \in Int
<1>1. \A k \in Keys : DeltaOf(p, k) \in Int
  BY DEF DeltaOf, Attached, PlayerRecord, Condition
<1>. QED BY <1>1 DEF Deltas

\* Total(p, ts) is that sum.
LEMMA TotalLemma ==
    ASSUME GivenAssumption, NEW p \in PlayerRecord, NEW ts
    PROVE  Total(p, ts) = SumOf(Deltas(p, ts), Keys)
<1>. DEFINE K == Keys
            A == {k \in Attached(p) : k[1] \in ts}
            f == Deltas(p, ts)
            g == SumsOf(f, K)
            Body(it, T) == IF T = {} THEN 0
                           ELSE it[T \ {CHOOSE x \in T : TRUE}] + p.conds[CHOOSE x \in T : TRUE].delta
            Runs(it) == it = [T \in SUBSET A |-> Body(it, T)]
            r == CHOOSE it : Runs(it)
<1>1. Total(p, ts) = r[A] BY DEF Total, FoldSet, MapThenFoldSet
<1>2. IsFiniteSet(K) /\ f \in [K -> Int] BY KeysLemma, DeltasLemma
<1>3. IsSum(g, f, K) BY <1>2, SumExists
<1>4. A \subseteq K BY DEF Attached
<1>5. \A k \in A : f[k] = p.conds[k].delta BY DEF Deltas, DeltaOf, Attached
<1>6. \A k \in K \ A : f[k] = 0 BY DEF Deltas, DeltaOf
<1>. HIDE DEF g, f, K, A
<1>7. \A T \in SUBSET A : g[T] = Body(g, T)
  <2>1. ASSUME NEW T \in SUBSET A, T # {} PROVE g[T] = Body(g, T)
    <3>. DEFINE k == CHOOSE x \in T : TRUE
    <3>1. k \in T BY <2>1
    <3>. HIDE DEF k
    <3>2. g[T] = g[T \ {k}] + f[k] BY <1>3, <1>4, <3>1 DEF IsSum
    <3>3. f[k] = p.conds[k].delta BY <1>5, <3>1
    <3>. QED BY <2>1, <3>2, <3>3 DEF k
  <2>2. g[{}] = 0 BY <1>3 DEF IsSum
  <2>. QED BY <2>1, <2>2
<1>8. Runs(r)
  <2>. DEFINE it == [T \in SUBSET A |-> g[T]]
  <2>1. ASSUME NEW T \in SUBSET A PROVE it[T] = Body(it, T)
    <3>1. T # {} => T \ {CHOOSE x \in T : TRUE} \in SUBSET A OBVIOUS
    <3>2. it[T] = g[T] /\ (T # {} => it[T \ {CHOOSE x \in T : TRUE}] = g[T \ {CHOOSE x \in T : TRUE}])
      BY <3>1
    <3>. QED BY <1>7, <3>2
  <2>2. it = [T \in SUBSET A |-> it[T]] OBVIOUS
  <2>. HIDE DEF it, Body
  <2>3. Runs(it) BY <2>1, <2>2
  <2>. QED BY <2>3
<1>9. r[A] = g[A]
  <2>. DEFINE G == {T \in SUBSET A : r[T] = g[T]}
  <2>. HIDE DEF r
  <2>1. \A T \in SUBSET A : r[T] = Body(r, T)
    <3>. HIDE DEF Body
    <3>. QED BY <1>8
  <2>2. {} \in G BY <1>7, <2>1
  <2>3. ASSUME NEW T \in SUBSET A, T # {}, \A x \in T : T \ {x} \in G PROVE T \in G
    <3>. DEFINE k == CHOOSE x \in T : TRUE
    <3>1. k \in T BY <2>3
    <3>2. r[T \ {k}] = g[T \ {k}] BY <2>3, <3>1
    <3>3. r[T] = g[T] BY <1>7, <2>1, <2>3, <3>2
    <3>. QED BY <3>3
  <2>. HIDE DEF G
  <2>4. IsFiniteSet(A) BY <1>2, <1>4, FS_Subset
  <2>5. A \in G BY <2>2, <2>3, <2>4, SubsetInduction
  <2>. QED BY <2>5 DEF G
<1>10. g[K] = g[A]
  <2>. DEFINE G == {T \in SUBSET K : g[T] = g[T \cap A]}
  <2>1. {} \in G
    <3>1. {} \cap A = {} OBVIOUS
    <3>. QED BY <3>1
  <2>2. ASSUME NEW T \in SUBSET K, T # {}, \A x \in T : T \ {x} \in G PROVE T \in G
    <3>1. PICK k \in T : TRUE BY <2>2
    <3>2. g[T] = g[T \ {k}] + f[k] BY <1>3, <3>1 DEF IsSum
    <3>3. g[T \ {k}] = g[(T \ {k}) \cap A] BY <2>2, <3>1
    <3>4. CASE k \in A
      <4>1. k \in T \cap A /\ T \cap A \in SUBSET K BY <3>1, <3>4
      <4>2. g[T \cap A] = g[(T \cap A) \ {k}] + f[k] BY <1>3, <4>1 DEF IsSum
      <4>3. (T \cap A) \ {k} = (T \ {k}) \cap A OBVIOUS
      <4>4. g[T] = g[T \cap A] BY <3>2, <3>3, <4>2, <4>3
      <4>. QED BY <4>4
    <3>5. CASE k \notin A
      <4>1. f[k] = 0 BY <1>6, <3>1, <3>5
      <4>2. (T \ {k}) \cap A = T \cap A BY <3>5
      <4>3. g[T \ {k}] \in Int
        <5>1. T \ {k} \in SUBSET K OBVIOUS
        <5>. QED BY <1>3, <5>1 DEF IsSum
      <4>4. g[T \ {k}] = g[T \cap A] BY <3>3, <4>2
      <4>5. g[T] = g[T \ {k}] BY <3>2, <4>1, <4>3
      <4>. QED BY <4>4, <4>5
    <3>. QED BY <3>4, <3>5
  <2>. HIDE DEF G
  <2>3. K \in G BY <1>2, <2>1, <2>2, SubsetInduction
  <2>4. K \cap A = A BY <1>4
  <2>. QED BY <2>3, <2>4 DEF G
<1>. QED BY <1>1, <1>9, <1>10 DEF SumOf, g, f, K
-------------------------------------------------------------------------------
(* Changing one condition. *)

WithCond(p, k, a) == [p EXCEPT !.conds[k] = a]
Others(p, q, k) == \A j \in Keys \ {k} : q.conds[j] = p.conds[j]
SameRest(p, q) == q.shown = p.shown /\ q.pz = p.pz /\ q.worn = p.worn

LEMMA WithCondLemma ==
    ASSUME NEW p \in PlayerRecord, NEW k \in Keys, NEW a \in Condition \cup {Null}
    PROVE  LET q == WithCond(p, k, a)
           IN /\ q \in PlayerRecord /\ q.conds[k] = a /\ Others(p, q, k)
              /\ q.speed = p.speed /\ q.stat = p.stat /\ SameRest(p, q)
<1>. DEFINE f == [p.conds EXCEPT ![k] = a]
<1>1. WithCond(p, k, a) = [p EXCEPT !.conds = f] BY DEF WithCond, PlayerRecord
<1>2. /\ f \in [Keys -> Condition \cup {Null}] /\ f[k] = a
      /\ \A j \in Keys \ {k} : f[j] = p.conds[j]
  BY DEF PlayerRecord
<1>. HIDE DEF f
<1>. QED BY <1>1, <1>2 DEF PlayerRecord, Others, SameRest

\* When one condition has changed, Bump() makes up for it.
LEMMA BumpLemma ==
    ASSUME GivenAssumption, NEW p \in PlayerRecord, NEW q \in PlayerRecord, NEW k \in Keys,
           NEW n \in Int, NEW x \in Int, Others(p, q, k),
           q.speed = p.speed, q.stat = p.stat, n = DeltaOf(q, k) - DeltaOf(p, k)
    PROVE  LET r == Bump(q, k[1], n)
           IN /\ r \in PlayerRecord /\ r.conds = q.conds /\ SameRest(q, r)
              /\ Sums(p, x) => Sums(r, x)
<1>. DEFINE r == Bump(q, k[1], n)
            sp == IF k[1] \in Haste THEN n ELSE 0
            st == IF k[1] \in Attributes THEN n ELSE 0
<1>1. p.speed \in Int /\ p.stat \in Int BY DEF PlayerRecord
<1>2. /\ r \in PlayerRecord /\ r.conds = q.conds /\ SameRest(q, r)
      /\ r.speed = q.speed + sp /\ r.stat = q.stat + st
  <2>1. CASE k[1] \in {"HASTE", "PARALYZE"}
    <3>1. r = [q EXCEPT !.speed = @ + n] BY <2>1 DEF Bump
    <3>2. sp = n /\ st = 0 BY <2>1 DEF Haste, Attributes
    <3>. QED BY <1>1, <3>1, <3>2 DEF PlayerRecord, SameRest
  <2>2. CASE k[1] = "ATTRIBUTES"
    <3>1. r = [q EXCEPT !.stat = @ + n] BY <2>2 DEF Bump
    <3>2. sp = 0 /\ st = n BY <2>2 DEF Haste, Attributes
    <3>. QED BY <1>1, <3>1, <3>2 DEF PlayerRecord, SameRest
  <2>3. CASE k[1] \notin {"HASTE", "PARALYZE"} /\ k[1] # "ATTRIBUTES"
    <3>1. r = q BY <2>3 DEF Bump
    <3>2. sp = 0 /\ st = 0 BY <2>3 DEF Haste, Attributes
    <3>. QED BY <1>1, <3>1, <3>2 DEF PlayerRecord, SameRest
  <2>. QED BY <2>1, <2>2, <2>3
<1>. HIDE DEF r
<1>3. ASSUME NEW ts
      PROVE  /\ SumOf(Deltas(p, ts), Keys) \in Int
             /\ SumOf(Deltas(r, ts), Keys)
                  = SumOf(Deltas(p, ts), Keys) + (IF k[1] \in ts THEN n ELSE 0)
  <2>. DEFINE f == Deltas(p, ts)
              h == Deltas(r, ts)
  <2>1. f \in [Keys -> Int] /\ h \in [Keys -> Int] /\ IsFiniteSet(Keys)
    BY <1>2, DeltasLemma, KeysLemma
  <2>2. \A j \in Keys \ {k} : h[j] = f[j]
    BY <1>2 DEF Deltas, DeltaOf, Attached, Others
  <2>3. h[k] - f[k] = IF k[1] \in ts THEN n ELSE 0
    <3>1. DeltaOf(r, k) = DeltaOf(q, k) BY <1>2 DEF DeltaOf, Attached
    <3>2. DeltaOf(q, k) \in Int /\ DeltaOf(p, k) \in Int BY DeltasLemma
    <3>. QED BY <3>1, <3>2 DEF Deltas
  <2>. HIDE DEF f, h
  <2>4. SumOf(f, Keys) \in Int /\ SumOf(h, Keys) = SumOf(f, Keys) + (h[k] - f[k])
    BY <2>1, <2>2, SumChange
  <2>5. SumOf(h, Keys) = SumOf(f, Keys) + (IF k[1] \in ts THEN n ELSE 0)
    BY <2>3, <2>4
  <2>. QED BY <2>4, <2>5 DEF f, h
<1>4. ASSUME Sums(p, x) PROVE Sums(r, x)
  <2>. DEFINE a == SumOf(Deltas(p, Haste), Keys)
              b == SumOf(Deltas(p, Attributes), Keys)
  <2>1. p.speed = a + x /\ p.stat = b BY <1>4 DEF Sums
  <2>2. a \in Int /\ b \in Int BY <1>3
  <2>3. /\ SumOf(Deltas(r, Haste), Keys) = a + sp
        /\ SumOf(Deltas(r, Attributes), Keys) = b + st
    BY <1>3
  <2>4. r.speed = p.speed + sp /\ r.stat = p.stat + st BY <1>2
  <2>5. sp \in Int /\ st \in Int OBVIOUS
  <2>. HIDE DEF a, b, sp, st
  <2>6. r.speed = SumOf(Deltas(r, Haste), Keys) + x BY <2>1, <2>2, <2>3, <2>4, <2>5
  <2>7. r.stat = SumOf(Deltas(r, Attributes), Keys) BY <2>1, <2>3, <2>4
  <2>. QED BY <2>6, <2>7 DEF Sums
<1>. QED BY <1>2, <1>4 DEF r

\* What a player's conditions have done to him, apart from x of his speed, and
\* what spectators and the lock say of them.
Seen(p) == p.shown = ~HasAttached(p, "INVISIBLE")
Locked(p) == p.pz => HasAttached(p, "INFIGHT")
Fits(p, x) == p \in PlayerRecord /\ Sums(p, x) /\ Seen(p) /\ Locked(p)

LEMMA DetachLemma ==
    ASSUME GivenAssumption, NullAssumption, NEW p, NEW x \in Int, Fits(p, x),
           NEW k \in Attached(p)
    PROVE  LET r == Detach(p, k)
           IN /\ Fits(r, x) /\ r.worn = p.worn
              /\ r.conds = [p.conds EXCEPT ![k] = Null]
<1>. DEFINE d == p.conds[k].delta
            q == WithCond(p, k, Null)
            b == Bump(q, k[1], -d)
            t == k[1]
            r == OnEndCondition(b, t)
<1>0. p \in PlayerRecord /\ Sums(p, x) /\ Seen(p) /\ Locked(p) BY DEF Fits
<1>1. k \in Keys /\ p.conds[k] # Null BY DEF Attached
<1>2. p.conds[k] \in Condition /\ d \in Int /\ -d \in Int BY <1>0, <1>1 DEF PlayerRecord, Condition
<1>3. Detach(p, k) = r BY DEF Detach, WithCond
<1>4. /\ q \in PlayerRecord /\ q.conds[k] = Null /\ Others(p, q, k)
      /\ q.speed = p.speed /\ q.stat = p.stat /\ SameRest(p, q)
  BY <1>0, <1>1, WithCondLemma
<1>5. q.conds = [p.conds EXCEPT ![k] = Null] BY <1>0 DEF PlayerRecord, WithCond
<1>6. DeltaOf(p, k) = d /\ DeltaOf(q, k) = 0 BY <1>1, <1>4 DEF DeltaOf, Attached
<1>. HIDE DEF q, d
<1>7. /\ b \in PlayerRecord /\ b.conds = q.conds /\ SameRest(q, b) /\ Sums(b, x)
  <2>1. -d = DeltaOf(q, k) - DeltaOf(p, k) BY <1>2, <1>6
  <2>. QED BY <1>0, <1>1, <1>2, <1>4, <2>1, BumpLemma
<1>. HIDE DEF b
<1>8. Attached(b) = Attached(p) \ {k}
  BY <1>1, <1>4, <1>7 DEF Attached, Others
<1>9. \A y : HasAttached(b, y) <=> \E j \in Attached(p) \ {k} : j[1] = y
  BY <1>8 DEF HasAttached, OfType
<1>10. \A y : HasAttached(p, y) <=> \E j \in Attached(p) : j[1] = y
  BY DEF HasAttached, OfType
<1>11. b.shown = p.shown /\ b.pz = p.pz /\ b.worn = p.worn BY <1>4, <1>7 DEF SameRest
<1>12. \A v : v.conds = b.conds => /\ \A y : HasAttached(v, y) <=> HasAttached(b, y)
  BY DEF HasAttached, OfType, Attached
<1>13. \A v \in PlayerRecord : v.conds = b.conds /\ v.speed = b.speed /\ v.stat = b.stat => Sums(v, x)
  BY <1>7 DEF Sums, Deltas, DeltaOf, Attached
<1>14. CASE t = "INVISIBLE" /\ ~HasAttached(b, t)
  <2>1. r = [b EXCEPT !.shown = TRUE] BY <1>14 DEF OnEndCondition, Shown
  <2>2. /\ r \in PlayerRecord /\ r.conds = b.conds /\ r.speed = b.speed /\ r.stat = b.stat
        /\ r.shown = TRUE /\ r.pz = b.pz /\ r.worn = b.worn
    BY <1>7, <2>1 DEF PlayerRecord
  <2>. HIDE DEF r
  <2>3. Sums(r, x) BY <1>13, <2>2
  <2>4. Seen(r) BY <1>12, <1>14, <2>2 DEF Seen
  <2>5. HasAttached(p, "INFIGHT") <=> HasAttached(b, "INFIGHT") BY <1>9, <1>10, <1>14
  <2>6. Locked(r) BY <1>0, <1>11, <1>12, <2>2, <2>5 DEF Locked
  <2>7. Fits(r, x) /\ r.worn = p.worn BY <1>11, <2>2, <2>3, <2>4, <2>6 DEF Fits
  <2>. QED BY <1>3, <1>5, <1>7, <2>2, <2>7
<1>15. CASE t = "INFIGHT"
  <2>1. r = [b EXCEPT !.pz = FALSE] BY <1>15 DEF OnEndCondition, Unlocked
  <2>2. /\ r \in PlayerRecord /\ r.conds = b.conds /\ r.speed = b.speed /\ r.stat = b.stat
        /\ r.shown = b.shown /\ r.pz = FALSE /\ r.worn = b.worn
    BY <1>7, <2>1 DEF PlayerRecord
  <2>. HIDE DEF r
  <2>3. Sums(r, x) BY <1>13, <2>2
  <2>4. HasAttached(p, "INVISIBLE") <=> HasAttached(b, "INVISIBLE") BY <1>9, <1>10, <1>15
  <2>5. Seen(r) BY <1>0, <1>11, <1>12, <2>2, <2>4 DEF Seen
  <2>6. Locked(r) BY <2>2 DEF Locked
  <2>7. Fits(r, x) /\ r.worn = p.worn BY <1>11, <2>2, <2>3, <2>5, <2>6 DEF Fits
  <2>. QED BY <1>3, <1>5, <1>7, <2>2, <2>7
<1>16. CASE t # "INFIGHT" /\ ~(t = "INVISIBLE" /\ ~HasAttached(b, t))
  <2>1. r = b BY <1>16 DEF OnEndCondition
  <2>2. HasAttached(p, "INVISIBLE") <=> HasAttached(b, "INVISIBLE") BY <1>9, <1>10, <1>16
  <2>3. HasAttached(p, "INFIGHT") <=> HasAttached(b, "INFIGHT") BY <1>9, <1>10, <1>16
  <2>4. Seen(b) BY <1>0, <1>11, <2>2 DEF Seen
  <2>5. Locked(b) BY <1>0, <1>11, <2>3 DEF Locked
  <2>6. Fits(b, x) BY <1>7, <2>4, <2>5 DEF Fits
  <2>. QED BY <1>3, <1>5, <1>7, <1>11, <2>1, <2>6
<1>. QED BY <1>14, <1>15, <1>16
\* Any number of conditions detached, in the order the loop finds them.
LEMMA DetachAllLemma ==
    ASSUME GivenAssumption, NullAssumption, NEW p, NEW x \in Int, Fits(p, x),
           NEW ks \in SUBSET Attached(p)
    PROVE  LET r == DetachAll(p, ks)
           IN /\ Fits(r, x) /\ r.worn = p.worn
              /\ r.conds = [k \in Keys |-> IF k \in ks THEN Null ELSE p.conds[k]]
<1>. DEFINE one == [T \in SUBSET ks |-> CHOOSE k \in T : TRUE]
            Y(T) == {q \in PlayerRecord :
                       /\ Fits(q, x) /\ q.worn = p.worn
                       /\ q.conds = [k \in Keys |-> IF k \in T THEN Null ELSE p.conds[k]]}
            X == {q \in PlayerRecord : Fits(q, x)}
            Guarded(k, q) == IF k \in Attached(q) THEN Detach(q, k) ELSE q
            step == [k \in ks |-> [q \in X |-> Guarded(k, q)]]
            Body(g, T) == IF T = {} THEN p ELSE Detach(g[T \ {one[T]}], one[T])
            Runs(g) == g = [T \in SUBSET ks |-> Body(g, T)]
            f == CHOOSE g : Runs(g)
<1>1. DetachAll(p, ks) = f[ks]
  <2>. DEFINE Direct(g, T) ==
                IF T = {} THEN p
                ELSE Detach(g[T \ {CHOOSE k \in T : TRUE}], CHOOSE k \in T : TRUE)
              d == CHOOSE g : g = [T \in SUBSET ks |-> Direct(g, T)]
  <2>1. DetachAll(p, ks) = d[ks] BY DEF DetachAll, FoldSet, MapThenFoldSet
  <2>2. ASSUME NEW g, NEW T \in SUBSET ks PROVE Direct(g, T) = Body(g, T) OBVIOUS
  <2>. HIDE DEF Direct, Body
  <2>3. \A g : Runs(g) <=> g = [T \in SUBSET ks |-> Direct(g, T)] BY <2>2
  <2>4. d = f BY <2>3
  <2>. QED BY <2>1, <2>4
<1>2. ks \subseteq Keys /\ IsFiniteSet(ks)
  <2>1. ks \subseteq Keys BY DEF Attached
  <2>. QED BY <2>1, KeysLemma, FS_Subset
<1>3. Takes(one, ks) BY DEF Takes
<1>4. p \in Y({}) /\ p \in X
  <2>1. p \in PlayerRecord BY DEF Fits
  <2>2. p.conds = [k \in Keys |-> p.conds[k]] BY <2>1 DEF PlayerRecord
  <2>. QED BY <2>1, <2>2
<1>5. ASSUME NEW q \in X, NEW k \in Attached(q) PROVE Detach(q, k) \in X
  <2>1. Fits(Detach(q, k), x) BY DetachLemma
  <2>. QED BY <2>1 DEF Fits
<1>. HIDE DEF one
<1>6. ASSUME NEW T \in SUBSET ks, T # {}, NEW q \in Y(T \ {one[T]})
      PROVE  one[T] \in Attached(q) /\ Detach(q, one[T]) \in Y(T)
  <2>. DEFINE k == one[T]
              r == Detach(q, k)
  <2>1. k \in T /\ k \in ks /\ k \in Keys BY <1>2, <1>3, <1>6 DEF Takes
  <2>. HIDE DEF k
  <2>2. q.conds = [j \in Keys |-> IF j \in T \ {k} THEN Null ELSE p.conds[j]] /\ q.worn = p.worn
    BY DEF k
  <2>3. q.conds[k] = p.conds[k] /\ p.conds[k] # Null BY <2>1, <2>2 DEF Attached
  <2>4. k \in Attached(q) BY <2>1, <2>3 DEF Attached
  <2>5. Fits(q, x) OBVIOUS
  <2>6. Fits(r, x) /\ r.worn = q.worn /\ r.conds = [q.conds EXCEPT ![k] = Null]
    BY <2>4, <2>5, DetachLemma
  <2>. HIDE DEF r
  <2>7. r.conds = [j \in Keys |-> IF j \in T THEN Null ELSE p.conds[j]]
    BY <2>1, <2>2, <2>6
  <2>8. r \in PlayerRecord BY <2>6 DEF Fits
  <2>9. r \in Y(T) BY <2>2, <2>6, <2>7, <2>8
  <2>. QED BY <2>4, <2>9 DEF r, k
<1>. HIDE DEF X, Y, Guarded
<1>7. PICK g : IsFold(g, p, step, one, ks, X)
  <2>1. ASSUME NEW k \in ks, NEW q \in X PROVE Guarded(k, q) \in X BY <1>5 DEF Guarded
  <2>2. step \in [ks -> [X -> X]] BY <2>1
  <2>. HIDE DEF step
  <2>. QED BY <1>2, <1>3, <1>4, <2>2, FoldExists
<1>8. /\ g \in [SUBSET ks -> X] /\ g[{}] = p
      /\ \A T \in SUBSET ks : T # {} => g[T] = Guarded(one[T], g[T \ {one[T]}])
  <2>1. {} \in SUBSET ks /\ g \in [SUBSET ks -> X] /\ g[{}] = p BY <1>7 DEF IsFold
  <2>2. ASSUME NEW T \in SUBSET ks, T # {} PROVE g[T] = Guarded(one[T], g[T \ {one[T]}])
    <3>1. one[T] \in ks /\ T \ {one[T]} \in SUBSET ks BY <1>3, <2>2 DEF Takes
    <3>2. g[T \ {one[T]}] \in X BY <2>1, <3>1
    <3>3. g[T] = step[one[T]][g[T \ {one[T]}]] BY <1>7, <2>2 DEF IsFold
    <3>. QED BY <3>1, <3>2, <3>3
  <2>. QED BY <2>1, <2>2
<1>9. \A T \in SUBSET ks : g[T] \in Y(T)
  <2>. DEFINE G == {T \in SUBSET ks : g[T] \in Y(T)}
  <2>1. {} \in G BY <1>4, <1>8
  <2>2. ASSUME NEW T \in SUBSET ks, T # {}, \A k \in T : T \ {k} \in G PROVE T \in G
    <3>1. one[T] \in T BY <1>3, <2>2 DEF Takes
    <3>2. g[T \ {one[T]}] \in Y(T \ {one[T]}) BY <2>2, <3>1
    <3>. QED BY <1>6, <1>8, <2>2, <3>2 DEF Guarded
  <2>. HIDE DEF G
  <2>3. \A T \in SUBSET ks : T \in G BY <1>2, <2>1, <2>2, SubsetInduction
  <2>. QED BY <2>3 DEF G
<1>10. Runs(f)
  <2>1. ASSUME NEW T \in SUBSET ks PROVE g[T] = Body(g, T)
    <3>1. CASE T = {} BY <1>8, <3>1
    <3>2. CASE T # {}
      <4>1. one[T] \in T BY <1>3, <3>2 DEF Takes
      <4>2. g[T \ {one[T]}] \in Y(T \ {one[T]}) BY <1>9
      <4>3. one[T] \in Attached(g[T \ {one[T]}]) BY <1>6, <3>2, <4>2
      <4>. QED BY <1>8, <3>2, <4>3 DEF Guarded
    <3>. QED BY <3>1, <3>2
  <2>2. g = [T \in SUBSET ks |-> g[T]] BY <1>8
  <2>. HIDE DEF Body
  <2>3. Runs(g) BY <2>1, <2>2
  <2>. QED BY <2>3
<1>. HIDE DEF f
<1>11. \A T \in SUBSET ks : f[T] = Body(f, T)
  <2>. HIDE DEF Body
  <2>. QED BY <1>10
<1>12. f[ks] \in Y(ks)
  <2>. DEFINE G == {T \in SUBSET ks : f[T] \in Y(T)}
  <2>1. {} \in G BY <1>4, <1>11
  <2>2. ASSUME NEW T \in SUBSET ks, T # {}, \A k \in T : T \ {k} \in G PROVE T \in G
    <3>1. one[T] \in T BY <1>3, <2>2 DEF Takes
    <3>2. f[T \ {one[T]}] \in Y(T \ {one[T]}) BY <2>2, <3>1
    <3>. QED BY <1>6, <1>11, <2>2, <3>2
  <2>. HIDE DEF G
  <2>3. ks \in G BY <1>2, <2>1, <2>2, SubsetInduction
  <2>. QED BY <2>3 DEF G
<1>. QED BY <1>1, <1>12 DEF Y
-------------------------------------------------------------------------------
(* Conditions that are added. *)

\* The two clocks of a condition, e units of time after the last thought: while the
\* time is not over they run apart by no more than a thought.
Clock(a, e) ==
    a.ticks = -1 \/ /\ a.left \in Int /\ a.left >= -1 /\ a.ticks - e <= a.left
                    /\ a.left = -1 \/ a.left <= a.ticks - e + Lag
Clocks(p, e) == \A k \in Attached(p) : Clock(p.conds[k], e)
Exclusive(p) == oldAccuracy => ~(HasAttached(p, "HASTE") /\ HasAttached(p, "PARALYZE"))

PlayerGood(p, e, x) == Fits(p, x) /\ Clocks(p, e) /\ Exclusive(p)

LEMMA SetTicksLemma ==
    ASSUME TicksAssumption, NEW e \in 0..Lag, NEW a \in Condition,
           NEW t \in (Nat \ {0}) \cup {-1}
    PROVE  LET r == SetTicks(a, t)
           IN r \in Condition /\ r.delta = a.delta /\ Clock(r, e)
<1>. DEFINE l == IF t > 0 THEN t ELSE a.left
            b == [a EXCEPT !.ticks = t]
            r == [b EXCEPT !.left = l]
<1>1. SetTicks(a, t) = r
  <2>1. SetTicks(a, t) = [a EXCEPT !.ticks = t, !.left = l] BY DEF SetTicks
  <2>. QED BY <2>1
<1>2. t \in Nat \cup {-1} /\ l \in Int \cup {Never} BY DEF Condition
<1>3. Lag \in Nat /\ e \in Nat /\ e <= Lag BY DEF TicksAssumption
<1>4. t = -1 \/ l = t OBVIOUS
<1>. HIDE DEF l
<1>5. b \in Condition /\ b.ticks = t /\ b.delta = a.delta BY <1>2 DEF Condition
<1>. HIDE DEF b
<1>6. r \in Condition /\ r.ticks = t /\ r.left = l /\ r.delta = a.delta
  BY <1>2, <1>5 DEF Condition
<1>. HIDE DEF r
<1>7. CASE t = -1 BY <1>1, <1>6, <1>7 DEF Clock
<1>8. CASE t # -1
  <2>1. t \in Nat /\ l = t BY <1>4, <1>8
  <2>2. l \in Int /\ l >= -1 /\ t - e <= l /\ l <= t - e + Lag BY <1>3, <2>1
  <2>3. Clock(r, e) BY <1>6, <2>2 DEF Clock
  <2>. QED BY <1>1, <1>6, <2>3
<1>. QED BY <1>7, <1>8

\* What may be given: by a spell, an item, a fight, or the database.
Addable(c) == /\ Key(c) \in Keys /\ c.delta \in Int
              /\ c.ticks \in (Nat \ {0}) \cup {-1}

LEMMA MergeLemma ==
    ASSUME GivenAssumption, TicksAssumption, NullAssumption,
           NEW p, NEW e \in 0..Lag, NEW x \in Int, PlayerGood(p, e, x),
           NEW c, Addable(c), p.conds[Key(c)] # Null
    PROVE  LET r == Merge(p, c)
           IN PlayerGood(r, e, x) /\ r.worn = p.worn /\ HasAttached(r, c.type)
<1>. DEFINE k == Key(c)
            a == p.conds[k]
            s == SetTicks(a, c.ticks)
            b == [s EXCEPT !.delta = c.delta]
            q == WithCond(p, k, b)
            n == c.delta - a.delta
            r == Bump(q, c.type, n)
<1>0. k \in Keys /\ k[1] = c.type /\ c.delta \in Int /\ c.ticks \in (Nat \ {0}) \cup {-1}
  BY DEF Addable, Key
<1>1. p \in PlayerRecord /\ Sums(p, x) /\ Seen(p) /\ Locked(p) /\ Clocks(p, e) /\ Exclusive(p)
  BY DEF PlayerGood, Fits
<1>2. k \in Attached(p) /\ k \in OfType(p, c.type) BY <1>0 DEF Attached, OfType
<1>3. a \in Condition /\ a.delta \in Int BY <1>0, <1>1 DEF PlayerRecord, Condition
<1>4. CASE ~Updates(a, c)
  <2>1. Merge(p, c) = p BY <1>4 DEF Merge
  <2>. QED BY <1>2, <2>1 DEF HasAttached
<1>5. CASE Updates(a, c)
  <2>1. Merge(p, c) = r BY <1>5 DEF Merge, WithCond
  <2>. HIDE DEF k, a
  <2>2. s \in Condition /\ Clock(s, e) BY <1>0, <1>3, SetTicksLemma
  <2>. HIDE DEF s
  <2>3. b \in Condition /\ b.delta = c.delta /\ Clock(b, e)
    BY <1>0, <2>2 DEF Condition, Clock
  <2>. HIDE DEF b
  <2>4. /\ q \in PlayerRecord /\ q.conds[k] = b /\ Others(p, q, k)
        /\ q.speed = p.speed /\ q.stat = p.stat /\ SameRest(p, q)
    BY <1>0, <1>1, <2>3, WithCondLemma
  <2>. HIDE DEF q
  <2>5. b # Null BY <2>3 DEF NullAssumption
  <2>6. DeltaOf(q, k) = c.delta /\ DeltaOf(p, k) = a.delta
    BY <1>0, <1>2, <2>3, <2>4, <2>5 DEF DeltaOf, Attached, a
  <2>7. n \in Int /\ n = DeltaOf(q, k) - DeltaOf(p, k) BY <1>0, <1>3, <2>6
  <2>. HIDE DEF n
  <2>8. r \in PlayerRecord /\ r.conds = q.conds /\ SameRest(q, r) /\ Sums(r, x)
    <3>1. r = Bump(q, k[1], n) BY <1>0
    <3>. HIDE DEF r
    <3>. QED BY <1>0, <1>1, <2>4, <2>7, <3>1, BumpLemma
  <2>. HIDE DEF r
  <2>9. Attached(r) = Attached(p)
    BY <1>2, <2>4, <2>5, <2>8 DEF Attached, Others
  <2>10. \A y : HasAttached(r, y) <=> HasAttached(p, y)
    BY <2>9 DEF HasAttached, OfType
  <2>11. r.shown = p.shown /\ r.pz = p.pz /\ r.worn = p.worn BY <2>4, <2>8 DEF SameRest
  <2>12. Fits(r, x) BY <1>1, <2>8, <2>10, <2>11 DEF Fits, Seen, Locked
  <2>13. Clocks(r, e) BY <1>1, <2>3, <2>4, <2>8, <2>9 DEF Clocks, Others, Attached
  <2>14. Exclusive(r) BY <1>1, <2>10 DEF Exclusive
  <2>15. HasAttached(r, c.type) BY <1>2, <2>10 DEF HasAttached
  <2>. QED BY <2>1, <2>11, <2>12, <2>13, <2>14, <2>15 DEF PlayerGood
<1>. QED BY <1>4, <1>5
\* Detaching some conditions of a player leaves the clocks of the others.
LEMMA WithoutLemma ==
    ASSUME GivenAssumption, NullAssumption, NEW p, NEW x \in Int, Fits(p, x),
           NEW ks \in SUBSET Attached(p)
    PROVE  LET r == DetachAll(p, ks)
           IN /\ Fits(r, x) /\ r.worn = p.worn
              /\ Attached(r) = Attached(p) \ ks
              /\ \A k \in Attached(r) : r.conds[k] = p.conds[k]
<1>. DEFINE r == DetachAll(p, ks)
<1>1. /\ Fits(r, x) /\ r.worn = p.worn
      /\ r.conds = [k \in Keys |-> IF k \in ks THEN Null ELSE p.conds[k]]
  BY DetachAllLemma
<1>. HIDE DEF r
<1>2. Attached(r) = Attached(p) \ ks BY <1>1 DEF Attached
<1>3. \A k \in Attached(r) : r.conds[k] = p.conds[k] BY <1>1, <1>2 DEF Attached
<1>4. /\ Fits(r, x) /\ r.worn = p.worn /\ Attached(r) = Attached(p) \ ks
      /\ \A k \in Attached(r) : r.conds[k] = p.conds[k]
  BY <1>1, <1>2, <1>3
<1>. QED BY <1>4 DEF r

\* A condition of a key the player has none of.
LEMMA StartLemma ==
    ASSUME GivenAssumption, TicksAssumption, NullAssumption,
           NEW p, NEW e \in 0..Lag, NEW x \in Int, PlayerGood(p, e, x),
           NEW c, Addable(c), p.conds[Key(c)] = Null
    PROVE  LET k == Key(c)
               q == Bump([p EXCEPT !.conds[k] = Started(c)], c.type, c.delta)
           IN /\ q \in PlayerRecord /\ Sums(q, x) /\ Clocks(q, e) /\ SameRest(p, q)
              /\ Attached(q) = Attached(p) \cup {k}
<1>. DEFINE k == Key(c)
            z == [ticks |-> 0, left |-> Never, delta |-> c.delta]
            s == SetTicks(z, c.ticks)
            u == WithCond(p, k, s)
            q == Bump(u, c.type, c.delta)
<1>0. k \in Keys /\ k[1] = c.type /\ c.delta \in Int /\ c.ticks \in (Nat \ {0}) \cup {-1}
  BY DEF Addable, Key
<1>1. p \in PlayerRecord /\ Sums(p, x) /\ Clocks(p, e) BY DEF PlayerGood, Fits
<1>2. z \in Condition /\ z.delta = c.delta BY <1>0 DEF Condition
<1>. HIDE DEF z
<1>3. s \in Condition /\ s.delta = c.delta /\ Clock(s, e) BY <1>0, <1>2, SetTicksLemma
<1>4. q = Bump([p EXCEPT !.conds[k] = Started(c)], c.type, c.delta)
  BY DEF WithCond, Started, z
<1>. HIDE DEF s
<1>5. s # Null BY <1>3 DEF NullAssumption
<1>. HIDE DEF k
<1>6. /\ u \in PlayerRecord /\ u.conds[k] = s /\ Others(p, u, k)
      /\ u.speed = p.speed /\ u.stat = p.stat /\ SameRest(p, u)
  BY <1>0, <1>1, <1>3, WithCondLemma
<1>. HIDE DEF u
<1>7. p.conds[k] = Null BY DEF k
<1>8. DeltaOf(u, k) = c.delta /\ DeltaOf(p, k) = 0
  BY <1>0, <1>3, <1>5, <1>6, <1>7 DEF DeltaOf, Attached
<1>9. q \in PlayerRecord /\ q.conds = u.conds /\ SameRest(u, q) /\ Sums(q, x)
  <2>1. q = Bump(u, k[1], c.delta) BY <1>0
  <2>2. c.delta = DeltaOf(u, k) - DeltaOf(p, k) BY <1>0, <1>8
  <2>. HIDE DEF q
  <2>. QED BY <1>0, <1>1, <1>6, <2>1, <2>2, BumpLemma
<1>. HIDE DEF q
<1>10. Attached(q) = Attached(p) \cup {k}
  BY <1>0, <1>5, <1>6, <1>7, <1>9 DEF Attached, Others
<1>11. Clocks(q, e)
  BY <1>1, <1>3, <1>6, <1>9, <1>10 DEF Clocks, Others, Attached
<1>12. SameRest(p, q) BY <1>6, <1>9 DEF SameRest
<1>13. q \in PlayerRecord /\ Sums(q, x) /\ Clocks(q, e) /\ SameRest(p, q)
       /\ Attached(q) = Attached(p) \cup {k}
  BY <1>9, <1>10, <1>11, <1>12
<1>. QED BY <1>4, <1>13 DEF k

\* Whatever is added, haste ends paralysis and paralysis ends haste.
LEMMA AddConditionLemma ==
    ASSUME GivenAssumption, TicksAssumption, NullAssumption,
           NEW p, NEW e \in 0..Lag, NEW x \in Int, PlayerGood(p, e, x), NEW c, Addable(c)
    PROVE  LET r == AddCondition(p, c)
           IN PlayerGood(r, e, x) /\ r.worn = p.worn /\ HasAttached(r, c.type)
<1>. DEFINE k == Key(c)
            t == c.type
            had == HasAttached(p, t)
            q == Bump([p EXCEPT !.conds[k] = Started(c)], t, c.delta)
            r == AddCondition(p, c)
<1>1. CASE p.conds[k] # Null
  <2>1. r = Merge(p, c) BY <1>1 DEF AddCondition
  <2>2. /\ PlayerGood(Merge(p, c), e, x) /\ Merge(p, c).worn = p.worn
        /\ HasAttached(Merge(p, c), c.type)
    BY <1>1, MergeLemma
  <2>. QED BY <2>1, <2>2
<1>2. CASE p.conds[k] = Null
  <2>1. r = OnAddCondition(q, t, had) BY <1>2 DEF AddCondition
  <2>2. /\ q \in PlayerRecord /\ Sums(q, x) /\ Clocks(q, e) /\ SameRest(p, q)
        /\ Attached(q) = Attached(p) \cup {k}
    BY <1>2, StartLemma
  <2>3. k[1] = t BY DEF Key
  <2>4. Seen(p) /\ Locked(p) /\ Exclusive(p) BY DEF PlayerGood, Fits
  <2>5. q.shown = p.shown /\ q.pz = p.pz /\ q.worn = p.worn BY <2>2 DEF SameRest
  <2>. HIDE DEF q, k, r, had
  <2>6. \A y : HasAttached(q, y) <=> HasAttached(p, y) \/ y = t
    BY <2>2, <2>3 DEF HasAttached, OfType
  <2>7. Locked(q) BY <2>4, <2>5, <2>6 DEF Locked
  <2>8. CASE t = "INVISIBLE"
    <3>1. Exclusive(q) BY <2>4, <2>6, <2>8 DEF Exclusive
    <3>2. HasAttached(q, t) BY <2>6
    <3>3. CASE had
      <4>1. r = q BY <2>1, <2>8, <3>3 DEF OnAddCondition
      <4>2. Seen(q) BY <2>4, <2>5, <2>6, <2>8, <3>3 DEF Seen, had
      <4>. QED BY <2>2, <2>5, <2>7, <3>1, <3>2, <4>1, <4>2 DEF PlayerGood, Fits, r
    <3>4. CASE ~had
      <4>1. r = [q EXCEPT !.shown = FALSE] BY <2>1, <2>8, <3>4 DEF OnAddCondition
      <4>2. /\ r \in PlayerRecord /\ r.conds = q.conds /\ r.speed = q.speed /\ r.stat = q.stat
            /\ r.shown = FALSE /\ r.pz = q.pz /\ r.worn = q.worn
        BY <2>2, <4>1 DEF PlayerRecord
      <4>3. \A y : HasAttached(r, y) <=> HasAttached(q, y)
        BY <4>2 DEF HasAttached, OfType, Attached
      <4>4. Sums(r, x) BY <2>2, <4>2 DEF Sums, Deltas, DeltaOf, Attached
      <4>5. Clocks(r, e) BY <2>2, <4>2 DEF Clocks, Attached
      <4>6. Seen(r) BY <2>8, <3>2, <4>2, <4>3 DEF Seen
      <4>7. Locked(r) BY <2>7, <4>2, <4>3 DEF Locked
      <4>8. Exclusive(r) BY <3>1, <4>3 DEF Exclusive
      <4>9. PlayerGood(r, e, x) /\ r.worn = p.worn /\ HasAttached(r, t)
        BY <2>5, <3>2, <4>2, <4>3, <4>4, <4>5, <4>6, <4>7, <4>8 DEF PlayerGood, Fits
      <4>. QED BY <4>9 DEF r
    <3>. QED BY <3>3, <3>4
  <2>9. CASE t # "INVISIBLE"
    <3>1. Seen(q) BY <2>4, <2>5, <2>6, <2>9 DEF Seen
    <3>2. Fits(q, x) BY <2>2, <2>7, <3>1 DEF Fits
    <3>3. \A y : OfType(q, y) \in SUBSET Attached(q) BY DEF OfType
    <3>4. \A y : oldAccuracy => (HasCondition(q, y) <=> HasAttached(q, y))
      BY DEF HasCondition, HasAttached
    <3>5. ASSUME NEW y, y # t, r = DetachAll(q, OfType(q, y))
          PROVE  /\ Fits(r, x) /\ r.worn = p.worn /\ Clocks(r, e)
                 /\ ~HasAttached(r, y) /\ HasAttached(r, t)
      <4>1. /\ Fits(r, x) /\ r.worn = q.worn
            /\ Attached(r) = Attached(q) \ OfType(q, y)
            /\ \A j \in Attached(r) : r.conds[j] = q.conds[j]
        BY <3>2, <3>3, <3>5, WithoutLemma
      <4>2. Clocks(r, e) BY <2>2, <4>1 DEF Clocks
      <4>3. ~HasAttached(r, y) BY <4>1 DEF HasAttached, OfType
      <4>4. HasAttached(r, t)
        <5>1. k \in Attached(q) /\ k \notin OfType(q, y) BY <2>2, <2>3, <3>5 DEF OfType
        <5>. QED BY <2>3, <4>1, <5>1 DEF HasAttached, OfType
      <4>. QED BY <2>5, <4>1, <4>2, <4>3, <4>4
    <3>6. CASE t = "PARALYZE" /\ HasCondition(q, "HASTE")
      <4>1. r = DetachAll(q, OfType(q, "HASTE")) BY <2>1, <3>6 DEF OnAddCondition
      <4>2. /\ Fits(r, x) /\ r.worn = p.worn /\ Clocks(r, e)
            /\ ~HasAttached(r, "HASTE") /\ HasAttached(r, t)
        BY <3>5, <3>6, <4>1
      <4>. QED BY <4>2 DEF PlayerGood, Exclusive, r
    <3>7. CASE t = "HASTE" /\ HasCondition(q, "PARALYZE")
      <4>1. r = DetachAll(q, OfType(q, "PARALYZE")) BY <2>1, <3>7 DEF OnAddCondition
      <4>2. /\ Fits(r, x) /\ r.worn = p.worn /\ Clocks(r, e)
            /\ ~HasAttached(r, "PARALYZE") /\ HasAttached(r, t)
        BY <3>5, <3>7, <4>1
      <4>. QED BY <4>2 DEF PlayerGood, Exclusive, r
    <3>8. CASE ~(t = "PARALYZE" /\ HasCondition(q, "HASTE")) /\ ~(t = "HASTE" /\ HasCondition(q, "PARALYZE"))
      <4>1. r = q BY <2>1, <2>9, <3>8 DEF OnAddCondition
      <4>2. Exclusive(q) BY <2>4, <2>6, <3>4, <3>8 DEF Exclusive
      <4>3. HasAttached(q, t) BY <2>6
      <4>. QED BY <2>2, <2>5, <3>2, <4>1, <4>2, <4>3 DEF PlayerGood, r
    <3>. QED BY <3>6, <3>7, <3>8
  <2>. QED BY <2>8, <2>9
<1>. QED BY <1>1, <1>2

\* The conditions of a set are added one after the other.
LEMMA AddAllLemma ==
    ASSUME GivenAssumption, TicksAssumption, NullAssumption,
           NEW p, NEW e \in 0..Lag, NEW x \in Int, PlayerGood(p, e, x),
           NEW cs, IsFiniteSet(cs), \A c \in cs : Addable(c)
    PROVE  LET r == FoldSet(LAMBDA c, q : AddCondition(q, c), p, cs)
           IN PlayerGood(r, e, x) /\ r.worn = p.worn
<1>. DEFINE one == [T \in SUBSET cs |-> CHOOSE c \in T : TRUE]
            X == {q \in PlayerRecord : PlayerGood(q, e, x) /\ q.worn = p.worn}
            step == [c \in cs |-> [q \in X |-> AddCondition(q, c)]]
            Body(g, T) == IF T = {} THEN p ELSE AddCondition(g[T \ {one[T]}], one[T])
            Runs(g) == g = [T \in SUBSET cs |-> Body(g, T)]
            f == CHOOSE g : Runs(g)
<1>1. FoldSet(LAMBDA c, q : AddCondition(q, c), p, cs) = f[cs]
  <2>. DEFINE Direct(g, T) ==
                IF T = {} THEN p
                ELSE AddCondition(g[T \ {CHOOSE c \in T : TRUE}], CHOOSE c \in T : TRUE)
              d == CHOOSE g : g = [T \in SUBSET cs |-> Direct(g, T)]
  <2>1. FoldSet(LAMBDA c, q : AddCondition(q, c), p, cs) = d[cs]
    BY DEF FoldSet, MapThenFoldSet
  <2>2. ASSUME NEW g, NEW T \in SUBSET cs PROVE Direct(g, T) = Body(g, T) OBVIOUS
  <2>. HIDE DEF Direct, Body
  <2>3. \A g : Runs(g) <=> g = [T \in SUBSET cs |-> Direct(g, T)] BY <2>2
  <2>4. d = f BY <2>3
  <2>. QED BY <2>1, <2>4
<1>2. Takes(one, cs) BY DEF Takes
<1>3. p \in X BY DEF PlayerGood, Fits
<1>4. ASSUME NEW q \in X, NEW c \in cs PROVE AddCondition(q, c) \in X
  <2>. DEFINE r == AddCondition(q, c)
  <2>1. PlayerGood(q, e, x) /\ q.worn = p.worn /\ Addable(c) OBVIOUS
  <2>2. PlayerGood(r, e, x) /\ r.worn = q.worn BY <2>1, AddConditionLemma
  <2>. HIDE DEF r
  <2>3. r \in X BY <2>1, <2>2 DEF PlayerGood, Fits
  <2>. QED BY <2>3 DEF r
<1>. HIDE DEF one, X
<1>5. step \in [cs -> [X -> X]] BY <1>4
<1>6. PICK g : IsFold(g, p, step, one, cs, X)
  <2>. HIDE DEF step
  <2>. QED BY <1>2, <1>3, <1>5, FoldExists
<1>7. Runs(f)
  <2>1. g \in [SUBSET cs -> X] BY <1>6 DEF IsFold
  <2>2. ASSUME NEW T \in SUBSET cs PROVE g[T] = Body(g, T)
    <3>1. g[T] = IF T = {} THEN p ELSE step[one[T]][g[T \ {one[T]}]] BY <1>6 DEF IsFold
    <3>2. CASE T = {} BY <3>1, <3>2
    <3>3. CASE T # {}
      <4>1. one[T] \in cs /\ T \ {one[T]} \in SUBSET cs BY <1>2, <3>3 DEF Takes
      <4>2. g[T \ {one[T]}] \in X BY <2>1, <4>1
      <4>. QED BY <3>1, <3>3, <4>1, <4>2
    <3>. QED BY <3>2, <3>3
  <2>3. g = [T \in SUBSET cs |-> g[T]] BY <2>1
  <2>. HIDE DEF Body
  <2>4. Runs(g) BY <2>2, <2>3
  <2>. QED BY <2>4
<1>. HIDE DEF f
<1>8. \A T \in SUBSET cs : f[T] = Body(f, T)
  <2>. HIDE DEF Body
  <2>. QED BY <1>7
<1>. DEFINE G == {T \in SUBSET cs : f[T] \in X}
<1>9. {} \in G BY <1>3, <1>8
<1>10. ASSUME NEW T \in SUBSET cs, T # {}, \A c \in T : T \ {c} \in G PROVE T \in G
  <2>1. one[T] \in T BY <1>2, <1>10 DEF Takes
  <2>2. f[T \ {one[T]}] \in X BY <1>10, <2>1
  <2>. QED BY <1>4, <1>8, <1>10, <2>1, <2>2
<1>. HIDE DEF G
<1>11. \A T \in SUBSET cs : T \in G BY <1>9, <1>10, SubsetInduction
<1>. QED BY <1>1, <1>11 DEF G, X
-------------------------------------------------------------------------------
(* The operations of a player. *)

\* His conditions stay as they are.
LEMMA FieldsLemma ==
    ASSUME NEW p, NEW q \in PlayerRecord, NEW e, NEW x \in Int, NEW d \in Int, PlayerGood(p, e, x),
           q.conds = p.conds, q.stat = p.stat, q.speed = p.speed + d,
           q.shown = p.shown \/ Seen(q), q.pz = p.pz \/ Locked(q),
           GivenAssumption
    PROVE  PlayerGood(q, e, x + d)
<1>1. p \in PlayerRecord /\ Sums(p, x) /\ Seen(p) /\ Locked(p) /\ Clocks(p, e) /\ Exclusive(p)
  BY DEF PlayerGood, Fits
<1>2. \A y : HasAttached(q, y) <=> HasAttached(p, y)
  BY DEF HasAttached, OfType, Attached
<1>3. \A ts : Deltas(q, ts) = Deltas(p, ts) BY DEF Deltas, DeltaOf, Attached
<1>4. SumOf(Deltas(p, Haste), Keys) \in Int
  <2>1. IsFiniteSet(Keys) /\ Deltas(p, Haste) \in [Keys -> Int] BY <1>1, KeysLemma, DeltasLemma
  <2>2. \A k \in Keys : SumOf(Deltas(p, Haste), Keys) \in Int BY <2>1, SumChange
  <2>3. Keys # {} BY KeysLemma
  <2>. QED BY <2>2, <2>3
<1>5. Sums(q, x + d)
  <2>. DEFINE n == SumOf(Deltas(p, Haste), Keys)
  <2>1. p.speed = n + x /\ p.stat = SumOf(Deltas(p, Attributes), Keys) BY <1>1 DEF Sums
  <2>2. n \in Int BY <1>4
  <2>3. SumOf(Deltas(q, Haste), Keys) = n BY <1>3
  <2>. HIDE DEF n
  <2>4. q.speed = n + (x + d) BY <2>1, <2>2
  <2>. QED BY <1>3, <2>1, <2>3, <2>4 DEF Sums
<1>6. Seen(q) BY <1>1, <1>2 DEF Seen
<1>7. Locked(q) BY <1>1, <1>2 DEF Locked
<1>8. Clocks(q, e) BY <1>1 DEF Clocks, Attached
<1>9. Exclusive(q) BY <1>1, <1>2 DEF Exclusive
<1>. QED BY <1>5, <1>6, <1>7, <1>8, <1>9 DEF PlayerGood, Fits

\* Only the clocks of his conditions change.
LEMMA ReclockedLemma ==
    ASSUME NEW p, NEW x \in Int, Fits(p, x),
           NEW f \in [Keys -> Condition \cup {Null}],
           \A k \in Keys : /\ f[k] = Null <=> p.conds[k] = Null
                           /\ f[k] # Null => f[k].delta = p.conds[k].delta
    PROVE  LET q == [p EXCEPT !.conds = f]
           IN /\ Fits(q, x) /\ q.worn = p.worn /\ q.conds = f
              /\ Attached(q) = Attached(p)
              /\ Exclusive(p) => Exclusive(q)
<1>. DEFINE q == [p EXCEPT !.conds = f]
<1>1. p \in PlayerRecord /\ Sums(p, x) /\ Seen(p) /\ Locked(p) BY DEF Fits
<1>2. /\ q \in PlayerRecord /\ q.conds = f /\ q.speed = p.speed /\ q.stat = p.stat
      /\ q.shown = p.shown /\ q.pz = p.pz /\ q.worn = p.worn
  BY <1>1 DEF PlayerRecord
<1>. HIDE DEF q
<1>3. Attached(q) = Attached(p)
  <2>1. \A k \in Keys : f[k] # Null <=> p.conds[k] # Null OBVIOUS
  <2>2. Attached(q) = {k \in Keys : f[k] # Null} BY <1>2 DEF Attached
  <2>. QED BY ONLY <2>1, <2>2 DEF Attached
<1>4. \A y : HasAttached(q, y) <=> HasAttached(p, y) BY <1>3 DEF HasAttached, OfType
<1>5. \A k \in Keys : DeltaOf(q, k) = DeltaOf(p, k)
  BY <1>2, <1>3 DEF DeltaOf, Attached
<1>6. \A ts : Deltas(q, ts) = Deltas(p, ts) BY <1>5 DEF Deltas
<1>7. Sums(q, x) BY <1>1, <1>2, <1>6 DEF Sums
<1>8. Seen(q) /\ Locked(q) BY <1>1, <1>2, <1>4 DEF Seen, Locked
<1>9. Exclusive(p) => Exclusive(q) BY <1>4 DEF Exclusive
<1>10. Fits(q, x) BY <1>2, <1>7, <1>8 DEF Fits
<1>11. /\ Fits(q, x) /\ q.worn = p.worn /\ q.conds = f
       /\ Attached(q) = Attached(p) /\ (Exclusive(p) => Exclusive(q))
  BY <1>2, <1>3, <1>9, <1>10
<1>. QED BY <1>2, <1>3, <1>9, <1>10 DEF q

\* Some of his conditions are detached.
LEMMA RemovedLemma ==
    ASSUME GivenAssumption, NullAssumption, NEW p, NEW e, NEW x \in Int, PlayerGood(p, e, x),
           NEW ks \in SUBSET Attached(p)
    PROVE  LET r == DetachAll(p, ks)
           IN PlayerGood(r, e, x) /\ r.worn = p.worn
<1>. DEFINE r == DetachAll(p, ks)
<1>1. Fits(p, x) /\ Clocks(p, e) /\ Exclusive(p) BY DEF PlayerGood
<1>2. /\ Fits(r, x) /\ r.worn = p.worn
      /\ Attached(r) = Attached(p) \ ks
      /\ \A k \in Attached(r) : r.conds[k] = p.conds[k]
  BY <1>1, WithoutLemma
<1>. HIDE DEF r
<1>3. Clocks(r, e) BY <1>1, <1>2 DEF Clocks
<1>4. Exclusive(r) BY <1>1, <1>2 DEF Exclusive, HasAttached, OfType
<1>5. PlayerGood(r, e, x) /\ r.worn = p.worn BY <1>2, <1>3, <1>4 DEF PlayerGood
<1>. QED BY <1>5 DEF r

\* What the ring adds to his speed while he wears it.
Ring(p) == IF p.worn THEN RingSpeed ELSE 0
Whole(p, e) == PlayerGood(p, e, Ring(p))

LEMMA PutOnLemma ==
    ASSUME GivenAssumption, TicksAssumption, NullAssumption,
           NEW e \in 0..Lag, NEW p, Whole(p, e)
    PROVE  Whole(PutOn(p), e)
<1>0. RingSpeed \in Int BY DEF GivenAssumption
<1>1. CASE p.worn BY <1>1 DEF PutOn
<1>2. CASE ~p.worn
  <2>. DEFINE u == [p EXCEPT !.worn = TRUE]
              v == AddCondition(u, RingInvisible)
              r == [v EXCEPT !.speed = @ + RingSpeed]
  <2>1. p \in PlayerRecord /\ PlayerGood(p, e, 0) BY <1>2 DEF Whole, PlayerGood, Fits, Ring
  <2>2. /\ u \in PlayerRecord /\ u.conds = p.conds /\ u.speed = p.speed /\ u.stat = p.stat
        /\ u.shown = p.shown /\ u.pz = p.pz /\ u.worn = TRUE
    BY <2>1 DEF PlayerRecord
  <2>. HIDE DEF u
  <2>3. PlayerGood(u, e, 0)
    <3>. DEFINE n == 0
    <3>1. n \in Int /\ PlayerGood(p, e, n) /\ n + n = 0 BY <2>1
    <3>2. u.speed = p.speed + n BY <2>1, <2>2 DEF PlayerRecord
    <3>. HIDE DEF n
    <3>3. PlayerGood(u, e, n + n) BY <2>2, <3>1, <3>2, FieldsLemma
    <3>. QED BY <3>1, <3>3
  <2>4. Addable(RingInvisible) BY KeysLemma DEF Addable, RingInvisible
  <2>5. PlayerGood(v, e, 0) /\ v.worn = TRUE BY <2>2, <2>3, <2>4, AddConditionLemma
  <2>. HIDE DEF v
  <2>6. v \in PlayerRecord /\ v.speed \in Int BY <2>5 DEF PlayerGood, Fits, PlayerRecord
  <2>7. /\ r \in PlayerRecord /\ r.conds = v.conds /\ r.speed = v.speed + RingSpeed /\ r.stat = v.stat
        /\ r.shown = v.shown /\ r.pz = v.pz /\ r.worn = TRUE
    BY <1>0, <2>5, <2>6 DEF PlayerRecord
  <2>8. PutOn(p) = r BY <1>2 DEF PutOn, u, v
  <2>. HIDE DEF r
  <2>9. PlayerGood(r, e, RingSpeed)
    <3>. DEFINE n == 0
    <3>1. n \in Int /\ PlayerGood(v, e, n) /\ n + RingSpeed = RingSpeed BY <1>0, <2>5
    <3>. HIDE DEF n
    <3>2. PlayerGood(r, e, n + RingSpeed) BY <1>0, <2>7, <3>1, FieldsLemma
    <3>. QED BY <3>1, <3>2
  <2>10. Ring(r) = RingSpeed BY <2>7 DEF Ring
  <2>. QED BY <2>8, <2>9, <2>10 DEF Whole
<1>. QED BY <1>1, <1>2

LEMMA TakeOffLemma ==
    ASSUME GivenAssumption, NullAssumption, NEW e, NEW p, Whole(p, e), p.worn
    PROVE  Whole(TakeOff(p), e)
<1>. DEFINE n == -RingSpeed
            u == [p EXCEPT !.worn = FALSE]
            q == [u EXCEPT !.speed = p.speed - RingSpeed]
            k == Key(RingInvisible)
<1>0. RingSpeed \in Int /\ n \in Int BY DEF GivenAssumption
<1>1. p \in PlayerRecord /\ PlayerGood(p, e, RingSpeed) /\ p.speed \in Int
  BY DEF Whole, PlayerGood, Fits, Ring, PlayerRecord
<1>2. /\ u \in PlayerRecord /\ u.conds = p.conds /\ u.stat = p.stat
      /\ u.shown = p.shown /\ u.pz = p.pz /\ u.worn = FALSE
  BY <1>1 DEF PlayerRecord
<1>3. [p EXCEPT !.worn = FALSE, !.speed = @ - RingSpeed] = q BY <1>1 DEF PlayerRecord
<1>. HIDE DEF u
<1>4. /\ q \in PlayerRecord /\ q.conds = p.conds /\ q.speed = p.speed + n /\ q.stat = p.stat
      /\ q.shown = p.shown /\ q.pz = p.pz /\ q.worn = FALSE
  BY <1>0, <1>1, <1>2 DEF PlayerRecord
<1>5. TakeOff(p) = IF k \in Attached(q) THEN Detach(q, k) ELSE q
  BY <1>3 DEF TakeOff
<1>. HIDE DEF q
<1>6. PlayerGood(q, e, 0)
  <2>1. PlayerGood(q, e, RingSpeed + n) BY <1>0, <1>1, <1>4, FieldsLemma
  <2>2. RingSpeed + n = 0 BY <1>0
  <2>. QED BY <2>1, <2>2
<1>7. CASE k \notin Attached(q)
  <2>1. Ring(q) = 0 BY <1>4 DEF Ring
  <2>. QED BY <1>5, <1>6, <1>7, <2>1 DEF Whole
<1>8. CASE k \in Attached(q)
  <2>. DEFINE r == Detach(q, k)
  <2>1. Fits(q, 0) /\ Clocks(q, e) /\ Exclusive(q) BY <1>6 DEF PlayerGood
  <2>. HIDE DEF k
  <2>2. Fits(r, 0) /\ r.worn = q.worn /\ r.conds = [q.conds EXCEPT ![k] = Null]
    BY <1>8, <2>1, DetachLemma
  <2>3. TakeOff(p) = r BY <1>5, <1>8
  <2>. HIDE DEF r
  <2>4. q.conds \in [Keys -> Condition \cup {Null}] BY <1>4 DEF PlayerRecord
  <2>5. \A j \in Attached(r) : j \in Attached(q) /\ r.conds[j] = q.conds[j]
    BY <2>2, <2>4 DEF Attached
  <2>6. Clocks(r, e) BY <2>1, <2>5 DEF Clocks
  <2>7. Exclusive(r) BY <2>1, <2>5 DEF Exclusive, HasAttached, OfType
  <2>8. Ring(r) = 0 BY <1>4, <2>2 DEF Ring
  <2>. QED BY <2>2, <2>3, <2>6, <2>7, <2>8 DEF Whole, PlayerGood
<1>. QED BY <1>7, <1>8

\* The lock is set in a fight only, and may go at any time.
LEMMA LockLemma ==
    ASSUME GivenAssumption, NEW p, NEW e, Whole(p, e), NEW v \in BOOLEAN,
           v => HasAttached(p, "INFIGHT")
    PROVE  Whole([p EXCEPT !.pz = v], e)
<1>. DEFINE q == [p EXCEPT !.pz = v]
            n == 0
            x == Ring(p)
<1>0. x \in Int /\ p \in PlayerRecord /\ PlayerGood(p, e, x)
  BY DEF Whole, Ring, PlayerGood, Fits, GivenAssumption
<1>1. /\ q \in PlayerRecord /\ q.conds = p.conds /\ q.speed = p.speed + n /\ q.stat = p.stat
      /\ q.shown = p.shown /\ q.pz = v /\ q.worn = p.worn
  BY <1>0 DEF PlayerRecord
<1>. HIDE DEF q
<1>2. Locked(q) BY <1>1 DEF Locked, HasAttached, OfType, Attached
<1>3. n \in Int /\ x + n = Ring(q) BY <1>0, <1>1 DEF Ring
<1>. HIDE DEF n, x
<1>4. PlayerGood(q, e, x + n) BY <1>0, <1>1, <1>2, <1>3, FieldsLemma
<1>5. Whole(q, e) BY <1>3, <1>4 DEF Whole
<1>. QED BY <1>5 DEF q

\* A player who may not act: the conditions ks get another time.
Delayed(p, ks, t) ==
    [p EXCEPT !.conds = [k \in Keys |-> IF k \in ks THEN SetTicks(@[k], t) ELSE @[k]]]

LEMMA DelayedLemma ==
    ASSUME GivenAssumption, TicksAssumption, NullAssumption,
           NEW p, NEW e \in 0..Lag, Whole(p, e), NEW ks \in SUBSET Attached(p), NEW t \in Nat \ {0}
    PROVE  Whole(Delayed(p, ks, t), e)
<1>. DEFINE f == [k \in Keys |-> IF k \in ks THEN SetTicks(p.conds[k], t) ELSE p.conds[k]]
            q == [p EXCEPT !.conds = f]
            x == Ring(p)
<1>0. /\ x \in Int /\ p \in PlayerRecord /\ Fits(p, x) /\ Clocks(p, e) /\ Exclusive(p)
  BY DEF Whole, Ring, PlayerGood, Fits, GivenAssumption
<1>1. Delayed(p, ks, t) = q BY DEF Delayed
<1>2. ASSUME NEW k \in ks
      PROVE  /\ k \in Keys /\ p.conds[k] # Null /\ f[k] \in Condition /\ f[k] # Null
             /\ f[k].delta = p.conds[k].delta /\ Clock(f[k], e)
  <2>. DEFINE s == SetTicks(p.conds[k], t)
  <2>1. k \in Keys /\ p.conds[k] # Null BY DEF Attached
  <2>2. p.conds[k] \in Condition BY <1>0, <2>1 DEF PlayerRecord
  <2>3. s \in Condition /\ s.delta = p.conds[k].delta /\ Clock(s, e) BY <2>2, SetTicksLemma
  <2>4. f[k] = s BY <2>1
  <2>. HIDE DEF s, f
  <2>. QED BY <2>1, <2>3, <2>4 DEF NullAssumption
<1>3. \A k \in Keys \ ks : f[k] = p.conds[k] OBVIOUS
<1>4. f \in [Keys -> Condition \cup {Null}]
  <2>1. \A k \in Keys : f[k] \in Condition \cup {Null}
    <3>. HIDE DEF f
    <3>. QED BY <1>0, <1>2, <1>3 DEF PlayerRecord
  <2>2. f = [k \in Keys |-> f[k]] OBVIOUS
  <2>. HIDE DEF f
  <2>. QED BY <2>1, <2>2
<1>. HIDE DEF f, x
<1>5. /\ Fits(q, x) /\ q.worn = p.worn /\ q.conds = f
      /\ Attached(q) = Attached(p) /\ (Exclusive(p) => Exclusive(q))
  BY <1>0, <1>2, <1>3, <1>4, ReclockedLemma
<1>. HIDE DEF q
<1>6. Clocks(q, e) BY <1>0, <1>2, <1>3, <1>5 DEF Clocks, Attached
<1>7. Ring(q) = x BY <1>5 DEF Ring, x
<1>. QED BY <1>0, <1>1, <1>5, <1>6, <1>7 DEF Whole, PlayerGood

\* A unit of time passes.
LEMMA AgedLemma ==
    ASSUME GivenAssumption, TicksAssumption, NullAssumption,
           NEW p, NEW e \in 0..Lag, Whole(p, e)
    PROVE  Whole(Aged(p), e + 1)
<1>. DEFINE f == [k \in Keys |-> IF k \in Attached(p) THEN Older(p.conds[k]) ELSE p.conds[k]]
            q == [p EXCEPT !.conds = f]
            x == Ring(p)
<1>0. /\ x \in Int /\ p \in PlayerRecord /\ Fits(p, x) /\ Clocks(p, e) /\ Exclusive(p)
  BY DEF Whole, Ring, PlayerGood, Fits, GivenAssumption
<1>1. Aged(p) = q BY DEF Aged
<1>2. ASSUME NEW k \in Attached(p)
      PROVE  /\ k \in Keys /\ p.conds[k] # Null /\ f[k] \in Condition /\ f[k] # Null
             /\ f[k].delta = p.conds[k].delta /\ Clock(f[k], e + 1)
  <2>. DEFINE a == p.conds[k]
              s == Older(a)
              l == a.left - 1
  <2>1. k \in Keys /\ a # Null BY DEF Attached
  <2>2. a \in Condition /\ Clock(a, e) BY <1>0, <2>1 DEF PlayerRecord, Clocks
  <2>3. f[k] = s BY <2>1
  <2>. HIDE DEF a, f
  <2>4. a.left \in Int \cup {Never} /\ a.ticks \in Nat \cup {-1} /\ e \in Nat /\ Lag \in Nat
    BY <2>2 DEF Condition, TicksAssumption
  <2>5. CASE a.left = Never \/ a.left < 0
    <3>1. s = a BY <2>5 DEF Older
    <3>2. Clock(a, e + 1)
      <4>1. CASE a.ticks = -1 BY <4>1 DEF Clock
      <4>2. CASE a.ticks # -1
        <5>1. a.left \in Int /\ a.left >= -1 /\ a.ticks - e <= a.left
          BY <2>2, <4>2 DEF Clock
        <5>2. a.left = -1 BY <2>5, <5>1 DEF NullAssumption
        <5>3. a.ticks - (e + 1) <= a.left BY <2>4, <4>2, <5>1
        <5>. QED BY <5>1, <5>2, <5>3 DEF Clock
      <4>. QED BY <4>1, <4>2
    <3>. QED BY <2>1, <2>2, <2>3, <3>1, <3>2 DEF NullAssumption, a
  <2>6. CASE ~(a.left = Never \/ a.left < 0)
    <3>1. a.left \in Int /\ a.left >= 0 /\ l \in Int /\ l >= -1 BY <2>4, <2>6
    <3>2. s = [a EXCEPT !.left = l] BY <2>6 DEF Older
    <3>. HIDE DEF s, l
    <3>3. s \in Condition /\ s.ticks = a.ticks /\ s.left = l /\ s.delta = a.delta
      BY <2>2, <3>1, <3>2 DEF Condition
    <3>4. Clock(s, e + 1)
      <4>1. CASE a.ticks = -1 BY <3>3, <4>1 DEF Clock
      <4>2. CASE a.ticks # -1
        <5>1. a.ticks - e <= a.left /\ (a.left = -1 \/ a.left <= a.ticks - e + Lag)
          BY <2>2, <4>2 DEF Clock
        <5>2. a.ticks \in Nat BY <2>4, <4>2
        <5>3. a.left <= a.ticks - e + Lag BY <3>1, <5>1
        <5>4. a.ticks - (e + 1) <= l /\ l <= a.ticks - (e + 1) + Lag
          BY <2>4, <3>1, <5>1, <5>2, <5>3 DEF l
        <5>. QED BY <3>1, <3>3, <5>4 DEF Clock
      <4>. QED BY <4>1, <4>2
    <3>5. s # Null BY <3>3 DEF NullAssumption
    <3>. QED BY <2>1, <2>3, <3>3, <3>4, <3>5 DEF a
  <2>. QED BY <2>5, <2>6
<1>3. \A k \in Keys \ Attached(p) : f[k] = p.conds[k] /\ p.conds[k] = Null BY DEF Attached
<1>4. f \in [Keys -> Condition \cup {Null}]
  <2>1. \A k \in Keys : f[k] \in Condition \cup {Null}
    <3>. HIDE DEF f
    <3>. QED BY <1>0, <1>2, <1>3 DEF PlayerRecord
  <2>2. f = [k \in Keys |-> f[k]] OBVIOUS
  <2>. HIDE DEF f
  <2>. QED BY <2>1, <2>2
<1>. HIDE DEF f, x
<1>5. /\ Fits(q, x) /\ q.worn = p.worn /\ q.conds = f
      /\ Attached(q) = Attached(p) /\ (Exclusive(p) => Exclusive(q))
  <2>1. \A k \in Keys : /\ f[k] = Null <=> p.conds[k] = Null
                        /\ f[k] # Null => f[k].delta = p.conds[k].delta
    BY <1>2, <1>3
  <2>. QED BY <1>0, <1>4, <2>1, ReclockedLemma
<1>. HIDE DEF q
<1>6. Clocks(q, e + 1) BY <1>2, <1>5 DEF Clocks
<1>7. Ring(q) = x BY <1>5 DEF Ring, x
<1>. QED BY <1>0, <1>1, <1>5, <1>6, <1>7 DEF Whole, PlayerGood

\* A thought: the ticks are brought up to date, and what is over ends.
LEMMA ThoughtLemma ==
    ASSUME GivenAssumption, TicksAssumption, NullAssumption,
           NEW p, NEW e \in 0..Lag, Whole(p, e)
    PROVE  Whole(ExecuteConditions(p, e), 0)
<1>. DEFINE f == [k \in Keys |-> IF k \in Attached(p) THEN Spent(p.conds[k], e) ELSE p.conds[k]]
            q == [p EXCEPT !.conds = f]
            x == Ring(p)
            ks == {k \in Attached(p) : p.conds[k].ticks # -1 /\ p.conds[k].left < 0}
            r == DetachAll(q, ks)
<1>0. /\ x \in Int /\ p \in PlayerRecord /\ Fits(p, x) /\ Clocks(p, e) /\ Exclusive(p)
  BY DEF Whole, Ring, PlayerGood, Fits, GivenAssumption
<1>1. ExecuteConditions(p, e) = r BY DEF ExecuteConditions, Ticked
<1>2. ASSUME NEW k \in Attached(p)
      PROVE  /\ k \in Keys /\ p.conds[k] # Null /\ f[k] \in Condition /\ f[k] # Null
             /\ f[k].delta = p.conds[k].delta
             /\ (k \in ks \/ Clock(f[k], 0))
  <2>. DEFINE a == p.conds[k]
              s == Spent(a, e)
              t == IF a.ticks > e THEN a.ticks - e ELSE 0
  <2>1. k \in Keys /\ a # Null BY DEF Attached
  <2>2. a \in Condition /\ Clock(a, e) BY <1>0, <2>1 DEF PlayerRecord, Clocks
  <2>3. f[k] = s BY <2>1
  <2>4. k \in ks <=> a.ticks # -1 /\ a.left < 0 OBVIOUS
  <2>. HIDE DEF a, f, ks
  <2>5. /\ a.left \in Int \cup {Never} /\ a.ticks \in Nat \cup {-1}
        /\ e \in Nat /\ e <= Lag /\ Lag \in Nat
    BY <2>2 DEF Condition, TicksAssumption
  <2>6. CASE a.ticks = -1
    <3>1. s = a BY <2>6 DEF Spent
    <3>2. Clock(a, 0) BY <2>6 DEF Clock
    <3>. QED BY <2>1, <2>2, <2>3, <3>1, <3>2 DEF a
  <2>7. CASE a.ticks # -1
    <3>1. a.ticks \in Nat /\ t \in Nat BY <2>5, <2>7
    <3>2. s = [a EXCEPT !.ticks = t] BY <2>7 DEF Spent
    <3>3. t = a.ticks - e \/ (t = 0 /\ a.ticks <= e) BY <2>5, <3>1
    <3>. HIDE DEF s, t
    <3>4. s \in Condition /\ s.ticks = t /\ s.left = a.left /\ s.delta = a.delta
      BY <2>2, <3>1, <3>2 DEF Condition
    <3>5. s # Null BY <3>4 DEF NullAssumption
    <3>6. ASSUME a.left >= 0, a.left \in Int PROVE Clock(s, 0)
      <4>1. a.ticks - e <= a.left /\ (a.left = -1 \/ a.left <= a.ticks - e + Lag)
        BY <2>2, <2>7 DEF Clock
      <4>2. a.left <= a.ticks - e + Lag BY <3>6, <4>1
      <4>3. t - 0 <= a.left BY <2>5, <3>1, <3>3, <3>6, <4>1
      <4>4. a.left <= t - 0 + Lag BY <2>5, <3>1, <3>3, <3>6, <4>2
      <4>5. a.left >= -1 BY <3>6
      <4>. QED BY <3>4, <3>6, <4>3, <4>4, <4>5 DEF Clock
    <3>7. a.left \in Int BY <2>2, <2>7 DEF Clock
    <3>8. k \in ks \/ Clock(s, 0) BY <2>4, <2>7, <3>6, <3>7
    <3>9. s.delta = p.conds[k].delta BY <3>4 DEF a
    <3>. QED BY <2>1, <2>3, <3>4, <3>5, <3>8, <3>9 DEF a
  <2>. QED BY <2>6, <2>7
<1>3. \A k \in Keys \ Attached(p) : f[k] = p.conds[k] /\ p.conds[k] = Null BY DEF Attached
<1>4. f \in [Keys -> Condition \cup {Null}]
  <2>1. \A k \in Keys : f[k] \in Condition \cup {Null}
    <3>. HIDE DEF f
    <3>. QED BY <1>0, <1>2, <1>3 DEF PlayerRecord
  <2>2. f = [k \in Keys |-> f[k]] OBVIOUS
  <2>. HIDE DEF f
  <2>. QED BY <2>1, <2>2
<1>5. ks \in SUBSET Attached(p) OBVIOUS
<1>. HIDE DEF f, x, ks
<1>6. /\ Fits(q, x) /\ q.worn = p.worn /\ q.conds = f
      /\ Attached(q) = Attached(p) /\ (Exclusive(p) => Exclusive(q))
  <2>1. \A k \in Keys : /\ f[k] = Null <=> p.conds[k] = Null
                        /\ f[k] # Null => f[k].delta = p.conds[k].delta
    BY <1>2, <1>3
  <2>. QED BY <1>0, <1>4, <2>1, ReclockedLemma
<1>. HIDE DEF q
<1>7. /\ Fits(r, x) /\ r.worn = q.worn
      /\ Attached(r) = Attached(q) \ ks
      /\ \A k \in Attached(r) : r.conds[k] = q.conds[k]
  BY <1>0, <1>5, <1>6, WithoutLemma
<1>. HIDE DEF r
<1>8. Clocks(r, 0) BY <1>2, <1>6, <1>7 DEF Clocks
<1>9. Exclusive(r) BY <1>0, <1>6, <1>7 DEF Exclusive, HasAttached, OfType
<1>10. Ring(r) = x BY <1>6, <1>7 DEF Ring, x
<1>11. Whole(r, 0) BY <1>7, <1>8, <1>9, <1>10 DEF Whole, PlayerGood
<1>. QED BY <1>1, <1>11
-------------------------------------------------------------------------------
(* The specification. *)

\* A player in the world is whole: his conditions fit, as far as the last thought.
CondInv == ConditionsTypeOK /\ (me # Null => Whole(me, elapsed))

LEMMA NobodyLemma ==
    ASSUME GivenAssumption, NullAssumption
    PROVE  Whole(Nobody, 0)
<1>. DEFINE p == Nobody
            z == 0
<1>1. /\ p \in PlayerRecord /\ p.speed = 0 /\ p.stat = 0 /\ p.shown = TRUE /\ p.pz = FALSE
      /\ p.worn = FALSE /\ \A k \in Keys : p.conds[k] = Null
  BY DEF Nobody, PlayerRecord
<1>. HIDE DEF p
<1>2. Attached(p) = {} BY <1>1 DEF Attached
<1>3. \A y : ~HasAttached(p, y) BY <1>2 DEF HasAttached, OfType
<1>4. \A ts : SumOf(Deltas(p, ts), Keys) = 0
  <2>. TAKE ts
  <2>. DEFINE f == Deltas(p, ts)
  <2>1. f \in [Keys -> Int] BY <1>1, DeltasLemma
  <2>2. \A k \in Keys : f[k] = 0 BY <1>2 DEF Deltas, DeltaOf
  <2>. HIDE DEF f
  <2>3. SumOf(f, Keys) = 0 BY <2>1, <2>2, KeysLemma, SumZero
  <2>. QED BY <2>3 DEF f
<1>5. Sums(p, z) BY <1>1, <1>4 DEF Sums
<1>6. Seen(p) /\ Locked(p) /\ Exclusive(p) BY <1>1, <1>3 DEF Seen, Locked, Exclusive
<1>7. Clocks(p, z) BY <1>2 DEF Clocks
<1>8. Ring(p) = z BY <1>1 DEF Ring
<1>9. Whole(p, z) BY <1>1, <1>5, <1>6, <1>7, <1>8 DEF Whole, PlayerGood, Fits
<1>. QED BY <1>9 DEF p

LEMMA CondInitLemma ==
    ASSUME GivenAssumption, TicksAssumption, NullAssumption, ConditionsInit
    PROVE  CondInv
<1>1. Whole(Nobody, 0) BY NobodyLemma
<1>2. /\ me = Nobody /\ elapsed = 0 /\ stored = [k \in Keys |-> Null]
      /\ oldAccuracy \in BOOLEAN /\ given \in Books
  BY DEF ConditionsInit, Nothing
<1>3. me \in PlayerRecord BY <1>1, <1>2 DEF Whole, PlayerGood, Fits
<1>4. elapsed \in 0..Lag BY <1>2 DEF TicksAssumption
<1>. QED BY <1>1, <1>2, <1>3, <1>4 DEF CondInv, ConditionsTypeOK

\* A step that leaves p in the world.
LEMMA WorldLemma ==
    ASSUME NullAssumption, CondInv, NEW p, NEW e \in 0..Lag, Whole(p, e), me' = p, elapsed' = e,
           stored' \in [Keys -> Condition \cup {Null}],
           oldAccuracy' = oldAccuracy, given' = given
    PROVE  CondInv'
<1>1. p \in PlayerRecord BY DEF Whole, PlayerGood, Fits
<1>2. ConditionsTypeOK' BY <1>1 DEF CondInv, ConditionsTypeOK
<1>3. Whole(me', elapsed') BY DEF Whole
<1>4. Whole(me, elapsed)' BY <1>3 DEF Whole, PlayerGood, Exclusive
<1>. QED BY <1>2, <1>4 DEF CondInv

LEMMA KeepLemma ==
    ASSUME NullAssumption, CondInv, Keep, NEW p, Whole(p, elapsed), me' = p
    PROVE  CondInv'
<1>1. /\ elapsed' = elapsed /\ elapsed \in 0..Lag
      /\ stored' = stored /\ stored \in [Keys -> Condition \cup {Null}]
      /\ oldAccuracy' = oldAccuracy /\ given' = given
  BY DEF CondInv, ConditionsTypeOK, Keep, config
<1>. QED BY <1>1, WorldLemma

\* A condition is given to a whole player.
LEMMA AddedLemma ==
    ASSUME GivenAssumption, TicksAssumption, NullAssumption,
           NEW p, NEW e \in 0..Lag, Whole(p, e), NEW c, Addable(c)
    PROVE  Whole(AddCondition(p, c), e) /\ HasAttached(AddCondition(p, c), c.type)
<1>. DEFINE x == Ring(p)
            r == AddCondition(p, c)
<1>1. x \in Int /\ PlayerGood(p, e, x) BY DEF Whole, Ring, GivenAssumption
<1>. HIDE DEF x
<1>2. PlayerGood(r, e, x) /\ r.worn = p.worn /\ HasAttached(r, c.type)
  BY <1>1, AddConditionLemma
<1>. HIDE DEF r
<1>3. Ring(r) = x BY <1>2 DEF Ring, x
<1>4. Whole(r, e) /\ HasAttached(r, c.type) BY <1>2, <1>3 DEF Whole
<1>. QED BY <1>4 DEF r

\* Some conditions of a whole player are detached.
LEMMA DetachedLemma ==
    ASSUME GivenAssumption, NullAssumption, NEW p, NEW e, Whole(p, e),
           NEW ks \in SUBSET Attached(p)
    PROVE  Whole(DetachAll(p, ks), e)
<1>. DEFINE x == Ring(p)
            r == DetachAll(p, ks)
<1>1. x \in Int /\ PlayerGood(p, e, x) BY DEF Whole, Ring, GivenAssumption
<1>. HIDE DEF x
<1>2. PlayerGood(r, e, x) /\ r.worn = p.worn BY <1>1, RemovedLemma
<1>. HIDE DEF r
<1>3. Ring(r) = x BY <1>2 DEF Ring, x
<1>4. Whole(r, e) BY <1>2, <1>3 DEF Whole
<1>. QED BY <1>4 DEF r

LEMMA FightAddable ==
    ASSUME GivenAssumption, NEW t \in Nat \ {0}
    PROVE  Addable(InFight(t)) /\ InFight(t).type = "INFIGHT"
BY KeysLemma DEF Addable, InFight

LEMMA GiveLemma ==
    ASSUME GivenAssumption, TicksAssumption, NullAssumption, CondInv,
           NEW c \in given, Give(c)
    PROVE  CondInv'
<1>1. me # Null /\ Whole(me, elapsed) /\ elapsed \in 0..Lag /\ given \in Books
  BY DEF CondInv, ConditionsTypeOK, Give
<1>2. c \in UNION Books BY <1>1
<1>3. Addable(c) BY <1>2, KeysLemma DEF Addable, GivenAssumption
<1>4. Whole(AddCondition(me, c), elapsed) BY <1>1, <1>3, AddedLemma
<1>5. me' = AddCondition(me, c) /\ Keep BY DEF Give
<1>. QED BY <1>4, <1>5, KeepLemma

LEMMA FightLemma ==
    ASSUME GivenAssumption, TicksAssumption, NullAssumption, CondInv,
           NEW pzLock \in BOOLEAN, Fight(pzLock)
    PROVE  CondInv'
<1>. DEFINE c == InFight(PzTicks)
            p == AddCondition(me, c)
            v == p.pz \/ pzLock
            q == [p EXCEPT !.pz = v]
<1>1. Whole(me, elapsed) /\ elapsed \in 0..Lag BY DEF CondInv, ConditionsTypeOK, Fight
<1>2. Addable(c) /\ c.type = "INFIGHT" BY FightAddable DEF TicksAssumption
<1>3. me' = [p EXCEPT !.pz = @ \/ pzLock] /\ Keep BY DEF Fight
<1>. HIDE DEF c
<1>4. Whole(p, elapsed) /\ HasAttached(p, "INFIGHT") BY <1>1, <1>2, AddedLemma
<1>. HIDE DEF p
<1>5. p \in PlayerRecord BY <1>4 DEF Whole, PlayerGood, Fits
<1>6. me' = q BY <1>3, <1>5 DEF PlayerRecord
<1>7. v \in BOOLEAN BY <1>5 DEF PlayerRecord
<1>. HIDE DEF v
<1>8. Whole(q, elapsed) BY <1>4, <1>7, LockLemma
<1>. HIDE DEF q
<1>. QED BY <1>3, <1>6, <1>8, KeepLemma

LEMMA KillLemma ==
    ASSUME GivenAssumption, TicksAssumption, NullAssumption, CondInv, OnKilledPlayer
    PROVE  CondInv'
<1>. DEFINE c == InFight(SkullTicks)
            p == [me EXCEPT !.pz = TRUE]
            q == AddCondition(p, c)
<1>1. Whole(me, elapsed) /\ elapsed \in 0..Lag BY DEF CondInv, ConditionsTypeOK, OnKilledPlayer
<1>2. Addable(c) BY FightAddable DEF TicksAssumption
<1>3. HasAttached(me, "INFIGHT") BY DEF OnKilledPlayer, HasCondition, HasAttached
<1>4. me' = q /\ Keep BY DEF OnKilledPlayer
<1>5. Whole(p, elapsed) BY <1>1, <1>3, LockLemma
<1>. HIDE DEF p, c
<1>6. Whole(q, elapsed) BY <1>1, <1>2, <1>5, AddedLemma
<1>. HIDE DEF q
<1>. QED BY <1>4, <1>6, KeepLemma

LEMMA DispelLemma ==
    ASSUME GivenAssumption, TicksAssumption, NullAssumption, CondInv,
           NEW t, NEW delay \in {0, 1}, Dispel(t, delay)
    PROVE  CondInv'
<1>. DEFINE ks == {k \in OfType(me, t) : k[2] # "RING"}
<1>1. Whole(me, elapsed) /\ elapsed \in 0..Lag BY DEF CondInv, ConditionsTypeOK, Dispel
<1>2. ks \in SUBSET Attached(me) BY DEF OfType
<1>3. Keep BY DEF Dispel
<1>4. CASE delay = 0
  <2>1. me' = DetachAll(me, ks) BY <1>4 DEF Dispel
  <2>. HIDE DEF ks
  <2>2. Whole(DetachAll(me, ks), elapsed) BY <1>1, <1>2, DetachedLemma
  <2>. QED BY <1>3, <2>1, <2>2, KeepLemma
<1>5. CASE delay # 0
  <2>1. delay = 1 BY <1>5
  <2>2. delay \in Nat \ {0} BY <2>1
  <2>3. me' = Delayed(me, ks, delay) BY <1>5 DEF Dispel, Delayed
  <2>. HIDE DEF ks
  <2>4. Whole(Delayed(me, ks, delay), elapsed) BY <1>1, <1>2, <2>2, DelayedLemma
  <2>. QED BY <1>3, <2>3, <2>4, KeepLemma
<1>. QED BY <1>4, <1>5

\* doRemoveConditions, and the first step of a death.
LEMMA CleansedLemma ==
    ASSUME GivenAssumption, NullAssumption, NEW p, NEW e, Whole(p, e), NEW b \in BOOLEAN
    PROVE  Whole(RemoveConditions(p, b), e)
<1>. DEFINE ks == {k \in Attached(p) : b => Persistent(k, p.conds[k])}
<1>1. ks \in SUBSET Attached(p) OBVIOUS
<1>2. RemoveConditions(p, b) = DetachAll(p, ks) BY DEF RemoveConditions
<1>. HIDE DEF ks
<1>3. Whole(DetachAll(p, ks), e) BY <1>1, DetachedLemma
<1>. QED BY <1>2, <1>3

LEMMA CleanseLemma ==
    ASSUME GivenAssumption, NullAssumption, CondInv, NEW b \in BOOLEAN, Cleanse(b)
    PROVE  CondInv'
<1>. DEFINE q == RemoveConditions(me, b)
<1>1. Whole(me, elapsed) /\ me' = q /\ Keep BY DEF CondInv, Cleanse
<1>2. Whole(q, elapsed) BY <1>1, CleansedLemma
<1>. HIDE DEF q
<1>. QED BY <1>1, <1>2, KeepLemma

LEMMA EquipLemma ==
    ASSUME GivenAssumption, TicksAssumption, NullAssumption, CondInv, Equip \/ DeEquip
    PROVE  CondInv'
<1>1. Whole(me, elapsed) /\ elapsed \in 0..Lag /\ Keep
  BY DEF CondInv, ConditionsTypeOK, Equip, DeEquip
<1>2. CASE Equip
  <2>1. me' = PutOn(me) BY <1>2 DEF Equip
  <2>2. Whole(PutOn(me), elapsed) BY <1>1, PutOnLemma
  <2>. QED BY <1>1, <2>1, <2>2, KeepLemma
<1>3. CASE DeEquip
  <2>1. me' = TakeOff(me) /\ me.worn BY <1>3 DEF DeEquip
  <2>2. Whole(TakeOff(me), elapsed) BY <1>1, <2>1, TakeOffLemma
  <2>. QED BY <1>1, <2>1, <2>2, KeepLemma
<1>. QED BY <1>2, <1>3

LEMMA TimeLemma ==
    ASSUME GivenAssumption, TicksAssumption, NullAssumption, CondInv, Time
    PROVE  CondInv'
<1>. DEFINE e == elapsed + 1
<1>1. /\ elapsed \in 0..Lag /\ elapsed < Lag /\ elapsed' = e /\ stored' = stored
      /\ oldAccuracy' = oldAccuracy /\ given' = given
      /\ stored \in [Keys -> Condition \cup {Null}]
      /\ oldAccuracy \in BOOLEAN /\ given \in Books
      /\ me' = IF me = Null THEN Null ELSE Aged(me)
  BY DEF CondInv, ConditionsTypeOK, Time, config
<1>2. e \in 0..Lag BY <1>1 DEF TicksAssumption
<1>3. CASE me = Null
  <2>1. me' = Null BY <1>1, <1>3
  <2>. HIDE DEF e
  <2>. QED BY <1>1, <1>2, <2>1 DEF CondInv, ConditionsTypeOK
<1>4. CASE me # Null
  <2>1. Whole(me, elapsed) BY <1>4 DEF CondInv
  <2>2. Whole(Aged(me), e) BY <1>1, <2>1, AgedLemma
  <2>3. me' = Aged(me) BY <1>1, <1>4
  <2>. HIDE DEF e
  <2>. QED BY <1>1, <1>2, <2>2, <2>3, WorldLemma
<1>. QED BY <1>3, <1>4

LEMMA ThinkLemma ==
    ASSUME GivenAssumption, TicksAssumption, NullAssumption, CondInv, Thought
    PROVE  CondInv'
<1>. DEFINE q == ExecuteConditions(me, elapsed)
            z == 0
<1>1. /\ Whole(me, elapsed) /\ elapsed \in 0..Lag /\ elapsed' = z /\ stored' = stored
      /\ oldAccuracy' = oldAccuracy /\ given' = given
      /\ stored \in [Keys -> Condition \cup {Null}] /\ me' = q
  BY DEF CondInv, ConditionsTypeOK, Thought, config
<1>2. Whole(q, z) BY <1>1, ThoughtLemma
<1>3. z \in 0..Lag BY DEF TicksAssumption
<1>. HIDE DEF q, z
<1>. QED BY <1>1, <1>2, <1>3, WorldLemma

\* What is saved of a player who leaves the world.
LEMMA LeaveLemma ==
    ASSUME TicksAssumption, CondInv, NEW p \in PlayerRecord, Depart(p)
    PROVE  CondInv'
<1>1. Saved(p) \in [Keys -> Condition \cup {Null}] BY DEF Saved, PlayerRecord
<1>2. /\ me' = Null /\ elapsed' = 0 /\ stored' = Saved(p)
      /\ oldAccuracy' = oldAccuracy /\ given' = given
  BY DEF Depart, config
<1>3. 0 \in 0..Lag BY DEF TicksAssumption
<1>. QED BY <1>1, <1>2, <1>3 DEF CondInv, ConditionsTypeOK

LEMMA DeathLemma ==
    ASSUME GivenAssumption, TicksAssumption, NullAssumption, CondInv,
           Logout \/ OnDeath \/ DieInArena
    PROVE  CondInv'
<1>. DEFINE p == RemoveConditions(me, TRUE)
<1>1. Whole(me, elapsed) BY DEF CondInv, Logout, OnDeath, DieInArena
<1>2. Whole(p, elapsed) BY <1>1, CleansedLemma
<1>3. me \in PlayerRecord BY <1>1 DEF Whole, PlayerGood, Fits
<1>4. CASE Logout BY <1>3, <1>4, LeaveLemma DEF Logout
<1>5. CASE OnDeath
  <2>1. Depart(p) BY <1>5 DEF OnDeath
  <2>. HIDE DEF p
  <2>2. p \in PlayerRecord BY <1>2 DEF Whole, PlayerGood, Fits
  <2>. QED BY <2>1, <2>2, LeaveLemma
<1>6. CASE DieInArena
  <2>. DEFINE u == [p EXCEPT !.pz = FALSE]
              v == ~HasAttached(p, "INVISIBLE")
              q == [u EXCEPT !.shown = v]
              n == 0
              x == Ring(p)
  <2>1. me' = [p EXCEPT !.pz = FALSE, !.shown = v] /\ Keep BY <1>6 DEF DieInArena
  <2>2. me' = q BY <2>1
  <2>. HIDE DEF p
  <2>3. p \in PlayerRecord /\ x \in Int /\ PlayerGood(p, elapsed, x) /\ v \in BOOLEAN
    BY <1>2 DEF Whole, Ring, PlayerGood, Fits, GivenAssumption
  <2>4. /\ u \in PlayerRecord /\ u.conds = p.conds /\ u.speed = p.speed /\ u.stat = p.stat
        /\ u.pz = FALSE /\ u.worn = p.worn
    BY <2>3 DEF PlayerRecord
  <2>. HIDE DEF u
  <2>5. v = ~HasAttached(p, "INVISIBLE") OBVIOUS
  <2>. HIDE DEF v
  <2>6. /\ q \in PlayerRecord /\ q.conds = p.conds /\ q.speed = p.speed + n /\ q.stat = p.stat
        /\ q.shown = v /\ q.pz = FALSE /\ q.worn = p.worn
    BY <2>3, <2>4 DEF PlayerRecord
  <2>. HIDE DEF q
  <2>7. Seen(q) BY <2>5, <2>6 DEF Seen, HasAttached, OfType, Attached
  <2>8. Locked(q) BY <2>6 DEF Locked
  <2>9. n \in Int /\ x + n = Ring(q) BY <2>3, <2>6 DEF Ring
  <2>. HIDE DEF n, x
  <2>10. PlayerGood(q, elapsed, x + n) BY <2>3, <2>6, <2>7, <2>8, <2>9, FieldsLemma
  <2>11. Whole(q, elapsed) BY <2>9, <2>10 DEF Whole
  <2>. QED BY <2>1, <2>2, <2>11, KeepLemma
<1>. QED BY <1>4, <1>5, <1>6

\* What the database gives back is added to a player with no conditions.
LEMMA LoginLemma ==
    ASSUME GivenAssumption, TicksAssumption, NullAssumption, CondInv,
           NEW ring \in BOOLEAN, Login(ring)
    PROVE  CondInv'
<1>. DEFINE ks == {j \in Keys : stored[j] # Null /\ stored[j].ticks > elapsed}
            back == {Stored(k) : k \in ks}
            p == FoldSet(LAMBDA c, q : AddCondition(q, c), Nobody, back)
            n == 0
            r == IF ring THEN PutOn(p) ELSE p
<1>1. /\ stored \in [Keys -> Condition \cup {Null}] /\ elapsed \in 0..Lag
  BY DEF CondInv, ConditionsTypeOK
<1>2. me' = r BY DEF Login
<1>3. \A c \in back : Addable(c)
  <2>1. SUFFICES ASSUME NEW k \in ks PROVE Addable(Stored(k)) OBVIOUS
  <2>. DEFINE a == stored[k]
              t == a.ticks - elapsed
  <2>2. k \in Keys /\ a # Null /\ a.ticks > elapsed OBVIOUS
  <2>3. a \in Condition BY <1>1, <2>2
  <2>4. k = <<k[1], k[2]>> BY <2>2, KeysLemma
  <2>5. Stored(k) = [type |-> k[1], id |-> k[2], delta |-> a.delta, ticks |-> t]
    BY DEF Stored
  <2>. HIDE DEF a
  <2>6. a.delta \in Int /\ a.ticks \in Int BY <2>3 DEF Condition
  <2>7. t \in Nat \ {0} BY <1>1, <2>2, <2>6
  <2>. HIDE DEF t
  <2>. QED BY <2>2, <2>4, <2>5, <2>6, <2>7 DEF Addable, Key
<1>4. IsFiniteSet(back)
  <2>. DEFINE g == [k \in ks |-> Stored(k)]
  <2>1. IsFiniteSet(ks)
    <3>1. IsFiniteSet(Keys) /\ ks \in SUBSET Keys BY KeysLemma
    <3>. HIDE DEF ks
    <3>. QED BY <3>1, FS_Subset
  <2>2. g \in Surjection(ks, back) BY DEF Surjection
  <2>. HIDE DEF ks, back, g
  <2>. QED BY <2>1, <2>2, FS_Surjection
<1>. HIDE DEF ks, back
<1>5. n \in 0..Lag /\ n \in Int /\ PlayerGood(Nobody, n, n) /\ Nobody.worn = FALSE
  <2>1. Whole(Nobody, 0) BY NobodyLemma
  <2>2. Nobody.worn = FALSE /\ Ring(Nobody) = 0 BY DEF Nobody, Ring
  <2>3. 0 \in 0..Lag BY DEF TicksAssumption
  <2>. QED BY <2>1, <2>2, <2>3 DEF Whole
<1>6. elapsed' = n /\ n = 0 BY DEF Login
<1>. HIDE DEF n
<1>7. PlayerGood(p, n, n) /\ p.worn = Nobody.worn BY <1>3, <1>4, <1>5, AddAllLemma
<1>. HIDE DEF p
<1>8. Whole(p, n) BY <1>5, <1>6, <1>7 DEF Whole, Ring
<1>9. Whole(PutOn(p), n) BY <1>5, <1>8, PutOnLemma
<1>10. Whole(r, n) BY <1>8, <1>9
<1>. HIDE DEF r
<1>11. stored' = [k \in Keys |-> Null] /\ oldAccuracy' = oldAccuracy /\ given' = given
  BY DEF Login, Nothing, config
<1>12. stored' \in [Keys -> Condition \cup {Null}] BY <1>11
<1>. QED BY <1>2, <1>5, <1>6, <1>10, <1>11, <1>12, WorldLemma

LEMMA CondNextLemma ==
    ASSUME GivenAssumption, TicksAssumption, NullAssumption, CondInv, [ConditionsNext]_conditionsVars
    PROVE  CondInv'
<1>1. CASE UNCHANGED conditionsVars
  <2>1. /\ me' = me /\ stored' = stored /\ elapsed' = elapsed
        /\ oldAccuracy' = oldAccuracy /\ given' = given
    BY <1>1 DEF conditionsVars
  <2>. QED BY <2>1 DEF CondInv, ConditionsTypeOK, Whole, PlayerGood, Exclusive
<1>2. CASE \E c \in given : Give(c) BY <1>2, GiveLemma
<1>3. CASE \E pzLock \in BOOLEAN : Fight(pzLock) BY <1>3, FightLemma
<1>4. CASE OnKilledPlayer BY <1>4, KillLemma
<1>5. CASE \E t \in {k[1] : k \in Keys} \ {"INFIGHT"}, delay \in {0, 1} : Dispel(t, delay)
  BY <1>5, DispelLemma
<1>6. CASE \E b \in BOOLEAN : Cleanse(b) BY <1>6, CleanseLemma
<1>7. CASE Equip \/ DeEquip BY <1>7, EquipLemma
<1>8. CASE Time BY <1>8, TimeLemma
<1>9. CASE Thought BY <1>9, ThinkLemma
<1>10. CASE Logout \/ OnDeath \/ DieInArena BY <1>10, DeathLemma
<1>11. CASE \E ring \in BOOLEAN : Login(ring) BY <1>11, LoginLemma
<1>. QED BY <1>1, <1>2, <1>3, <1>4, <1>5, <1>6, <1>7, <1>8, <1>9, <1>10, <1>11 DEF ConditionsNext

\* What the invariant says of the two properties.
LEMMA CondAgreeLemma ==
    ASSUME GivenAssumption, TicksAssumption, NullAssumption, CondInv
    PROVE  ConditionsAgree /\ HasteOrParalysed
<1>1. ConditionsTypeOK BY DEF CondInv
<1>2. CASE me = Null
  BY <1>1, <1>2 DEF ConditionsAgree, SumsAgree, SpectatorsAgree, LockedInFight,
                    ClocksAgree, HasteOrParalysed
<1>3. CASE me # Null
  <2>1. /\ me \in PlayerRecord /\ Sums(me, Ring(me)) /\ Seen(me) /\ Locked(me)
        /\ Clocks(me, elapsed) /\ Exclusive(me)
    BY <1>3 DEF CondInv, Whole, PlayerGood, Fits
  <2>2. SumsAgree
    <3>1. \A ts : Total(me, ts) = SumOf(Deltas(me, ts), Keys) BY <2>1, TotalLemma
    <3>. QED BY <2>1, <3>1 DEF SumsAgree, Sums, Haste, Attributes, Ring
  <2>3. SpectatorsAgree BY <2>1 DEF SpectatorsAgree, Seen
  <2>4. LockedInFight BY <2>1 DEF LockedInFight, Locked
  <2>5. ClocksAgree
    <3>1. SUFFICES ASSUME NEW k \in Attached(me)
                   PROVE  LET a == me.conds[k]
                          IN a.ticks = -1 \/ (a.left <= a.ticks + Lag /\ a.ticks <= a.left + Lag)
      BY DEF ClocksAgree
    <3>. DEFINE a == me.conds[k]
    <3>2. a \in Condition /\ Clock(a, elapsed)
      BY <2>1 DEF Clocks, Attached, PlayerRecord
    <3>. HIDE DEF a
    <3>3. a.ticks \in Nat \cup {-1} /\ elapsed \in Nat /\ elapsed <= Lag /\ Lag \in Nat
      BY <1>1, <3>2 DEF Condition, ConditionsTypeOK, TicksAssumption
    <3>4. CASE a.ticks # -1
      <4>1. /\ a.left \in Int /\ a.left >= -1 /\ a.ticks - elapsed <= a.left
            /\ (a.left = -1 \/ a.left <= a.ticks - elapsed + Lag)
        BY <3>2, <3>4 DEF Clock
      <4>2. a.ticks \in Nat BY <3>3, <3>4
      <4>3. a.left <= a.ticks + Lag BY <3>3, <4>1, <4>2
      <4>4. a.ticks <= a.left + Lag BY <3>3, <4>1, <4>2
      <4>. QED BY <4>3, <4>4 DEF a
    <3>5. CASE a.ticks = -1 BY <3>5 DEF a
    <3>. QED BY <3>4, <3>5
  <2>6. HasteOrParalysed BY <2>1 DEF HasteOrParalysed, Exclusive
  <2>. QED BY <1>1, <2>2, <2>3, <2>4, <2>5, <2>6 DEF ConditionsAgree
<1>. QED BY <1>2, <1>3

\* What conditions have done to the player, his spectators and the database is what
\* those in force account for, whatever is given, merged, ended or given back
\* (Condition*::addCondition, endCondition, Creature::onAddCondition, onEndCondition).
THEOREM ConditionsAlwaysAgree == ConditionsSpec => []ConditionsAgree
<1>1. ConditionsInit => CondInv BY GivenAssumption, TicksAssumption, NullAssumption, CondInitLemma
<1>2. CondInv /\ [ConditionsNext]_conditionsVars => CondInv'
  BY GivenAssumption, TicksAssumption, NullAssumption, CondNextLemma
<1>3. CondInv => ConditionsAgree BY GivenAssumption, TicksAssumption, NullAssumption, CondAgreeLemma
<1>. QED BY <1>1, <1>2, <1>3, PTL DEF ConditionsSpec

\* With oldConditionAccuracy a player is never hasted and paralysed at once
\* (Creature::onAddCondition).
THEOREM HasteEndsParalysis == ConditionsSpec => []HasteOrParalysed
<1>1. ConditionsInit => CondInv BY GivenAssumption, TicksAssumption, NullAssumption, CondInitLemma
<1>2. CondInv /\ [ConditionsNext]_conditionsVars => CondInv'
  BY GivenAssumption, TicksAssumption, NullAssumption, CondNextLemma
<1>3. CondInv => HasteOrParalysed BY GivenAssumption, TicksAssumption, NullAssumption, CondAgreeLemma
<1>. QED BY <1>1, <1>2, <1>3, PTL DEF ConditionsSpec
===============================================================================
