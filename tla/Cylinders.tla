------------------------------ MODULE Cylinders ------------------------------
(***************************************************************************)
(* Where the items are.  Player, Container and Tile are "cylinders": each  *)
(* answers queries (may this item be added here, how many of it, where     *)
(* exactly) and then adds, changes, replaces or removes a thing.           *)
(* Game::internalMoveItem, internalAddItem, internalRemoveItem and         *)
(* transformItem combine these calls; a player's moves, payments and the   *)
(* scripts of the game go through them.  Everything runs on the            *)
(* dispatcher's thread, but a movement script runs INSIDE a move, at the   *)
(* notifications, and may remove any item.                                 *)
(*                                                                         *)
(* A call is an operator from a world to the world it leaves, so that a    *)
(* handler reads like the sequence of calls it is.  Abstracted: the order  *)
(* of things in a tile other than its down items, floor changes,           *)
(* forwarding tiles, what blocks a tile, depots, clients' screens.         *)
(***************************************************************************)
EXTENDS Integers, FiniteSets, Sequences, SequencesExt, FiniteSetsExt

CONSTANTS
    Items,      \* identities of Item objects
    Kinds,      \* item kinds
    Attr,       \* Attr[k]: stackable, capacity (0: no container), weight,
                \*   slots it may be worn in, hand ("two", "weapon",
                \*   "shield", "other"), worth, class (its ItemTypes_t)
    Players, Tiles,
    SlotSeq,    \* the inventory slots, in the order of slots_t
    OtherHand,  \* the hands, each mapped to the other one
    Trash,      \* the tiles with a trash holder
    MaxStack,   \* 100 in the code
    TileRoom,   \* down items a tile takes (StackPosition::MAX_INDEX things)
    Coins,      \* the kinds with a worth, the most valuable first (getWorth)
    Strength,   \* Player::capacity
    Supply,     \* bound: how many of each kind scripts let exist
    Windows,    \* ids of a player's open container windows (16 in the code)
    None,       \* no item, no parent (nullptr)
    Start       \* the first world

ASSUME KindAssumption ==
    /\ \A k \in Kinds : /\ Attr[k].stackable \in BOOLEAN /\ Attr[k].capacity \in Nat
                        /\ Attr[k].stackable => Attr[k].capacity = 0
                        /\ Attr[k].worth \in Nat
    /\ Coins \in Seq(Kinds) /\ \A k \in Range(Coins) : Attr[k].worth > 0
    /\ \A m, n \in DOMAIN Coins : m < n => Attr[Coins[m]].worth > Attr[Coins[n]].worth
    /\ MaxStack \in Nat \ {0} /\ TileRoom \in Nat /\ Strength \in Nat
ASSUME ThingAssumption ==
    /\ IsFiniteSet(Items) /\ Kinds # {}
    /\ Items \cap Players = {} /\ Items \cap Tiles = {} /\ Players \cap Tiles = {}
    /\ None \notin Items \cup Players \cup Tiles
    /\ SlotSeq \in Seq(Range(SlotSeq)) /\ -1 \notin Range(SlotSeq)

VARIABLE world
cylindersVars == <<world>>

Depth == Cardinality(Items)          \* no chain of parents is longer
Where == -1                          \* INDEX_WHEREEVER
Up    == -2                          \* 254: into the parent container
Slots == Range(SlotSeq)

(***************************************************************************)
(* A world: kind, count and parent of every item (a parent of None: the    *)
(* object is destroyed or not created yet), inside[c] what a container or  *)
(* a tile holds, slot[p] a player's inventory, total[c] and carried[p] the *)
(* cached weights, open[p] his container windows, at[p] where he stands,   *)
(* offer[p] what he offers in a trade (module Trade; None here), ledger[k] *)
(* how many of a kind were created less how many were destroyed on purpose *)
(* (bookkeeping of the specification, no state of the program).            *)
(***************************************************************************)
Stackable(w, i) == Attr[w.kind[i]].stackable
Capacity(w, i)  == Attr[w.kind[i]].capacity
IsContainer(w, i) == i \in Items /\ Capacity(w, i) > 0
Placed(w) == {i \in Items : w.parent[i] # None}
Free(w)   == Items \ Placed(w)

Count(w, i) == w.count[i]            \* getItemCount: 1 of what does not stack
Worth(w, i) == Attr[w.kind[i]].worth * Count(w, i)
Weight(w, i) == Attr[w.kind[i]].weight * Count(w, i) + w.total[i]

\* The cylinders above x, x not included, up to a player or a tile.
Ancestors(w, x) ==
    LET up[n \in 0..Depth] ==
            IF n = 0 THEN {w.parent[x]}
            ELSE LET below == up[n-1]
                 IN below \cup {w.parent[y] : y \in below \cap Items}
    IN IF x \in Items THEN up[Depth] ELSE {}
Root(w, x) == IF x \in Players \cup Tiles THEN x
              ELSE LET r == Ancestors(w, x) \cap (Players \cup Tiles)
                   IN IF r = {} THEN None ELSE CHOOSE y \in r : TRUE
Spot(w, x) == LET r == Root(w, x) IN IF r \in Players THEN w.at[r] ELSE r
Holds(w, x) == {i \in Items : x \in Ancestors(w, i)}

SlotItems(w, p) == {w.slot[p][s] : s \in Slots} \ {None}
SlotOf(w, p, i) == CHOOSE s \in Slots : w.slot[p][s] = i
Has(w, cyl, i) == IF cyl \in Players THEN i \in SlotItems(w, cyl)
                  ELSE i \in Range(w.inside[cyl])
Index(w, cyl, i) == IF cyl \in Players THEN SlotOf(w, cyl, i)
                    ELSE CHOOSE n \in DOMAIN w.inside[cyl] : w.inside[cyl][n] = i
Full(w, c) == Len(w.inside[c]) >= Capacity(w, c)
SumOver(f(_), S) == MapThenSumSet(f, S)
WeightOf(w, S) == SumOver(LAMBDA i : Weight(w, i), S)
Tally(w, S, k) == SumOver(LAMBDA i : Count(w, i), {i \in S : w.kind[i] = k})
Amount(w, k)   == Tally(w, Placed(w), k)

-----------------------------------------------------------------------------
(* What the cylinders answer.                                              *)

HasCapacityForOne(w, p, i, n) ==     \* mutant: a stack weighs as one
    Root(w, i) = p \/ Attr[w.kind[i]].weight < Strength - w.carried[p]

HasCapacity(w, p, i, n) ==
    \/ Root(w, i) = p
    \/ (IF Stackable(w, i) THEN Attr[w.kind[i]].weight * n ELSE Weight(w, i))
         < Strength - w.carried[p]

\* A hand may take i although the other hand holds something.
HandTakes(w, p, s, i, n) ==
    LET o == w.slot[p][OtherHand[s]]
        hand(x) == Attr[w.kind[x]].hand
    IN \/ o = None
       \/ o = i /\ (hand(i) = "two" \/ n = Count(w, i))
       \/ /\ hand(i) # "two" /\ hand(o) # "two"
          /\ ~(hand(i) = "shield" /\ hand(o) = "shield")
          /\ ~(hand(i) = "weapon" /\ hand(o) = "weapon")

PlayerQueryAdd(w, p, s, i, n) ==
    IF s \notin Slots \/ s \notin Attr[w.kind[i]].slots THEN "no"
    ELSE IF s \in DOMAIN OtherHand /\ ~HandTakes(w, p, s, i, n) THEN "no"
    ELSE LET o == w.slot[p][s] IN
         IF o # None /\ ~(Stackable(w, o) /\ w.kind[o] = w.kind[i]) THEN "exchange"
         ELSE IF HasCapacity(w, p, i, n) THEN "yes" ELSE "no"

ContainerQueryAddBlind(w, c, idx, i, n, nolimit) ==  \* mutant: not what is above
    IF \/ i = c
       \/ idx = Where /\ ~nolimit /\ Full(w, c)
       \/ /\ Root(w, c) \in Players /\ ~nolimit
          /\ ~HasCapacity(w, Root(w, c), i, n)
    THEN "no" ELSE "yes"

ContainerQueryAdd(w, c, idx, i, n, nolimit) ==
    IF \/ i = c \/ i \in Ancestors(w, c)
       \/ idx = Where /\ ~nolimit /\ Full(w, c)
       \/ /\ Root(w, c) \in Players /\ ~nolimit
          /\ ~HasCapacity(w, Root(w, c), i, n)
    THEN "no" ELSE "yes"

TileQueryAddAlways(w, t) == "yes"    \* mutant: the room is not looked at
TileQueryAdd(w, t) == IF Len(w.inside[t]) < TileRoom THEN "yes" ELSE "no"

QueryAdd(w, cyl, idx, i, n, nolimit) ==
    CASE cyl \in Players -> PlayerQueryAdd(w, cyl, idx, i, n)
      [] cyl \in Items   -> ContainerQueryAdd(w, cyl, idx, i, n, nolimit)
      [] OTHER           -> TileQueryAdd(w, cyl)

QueryMaxCount(w, cyl, idx, i, n, nolimit) ==
    LET room(o) == IF o # None /\ Stackable(w, o) /\ w.kind[o] = w.kind[i]
                   THEN MaxStack - w.count[o] ELSE 0
        there == IF idx >= 0 /\ idx < Len(w.inside[cyl]) THEN w.inside[cyl][idx + 1] ELSE None
        slots == Max({Capacity(w, cyl) - Len(w.inside[cyl]), 0})
    IN CASE cyl \in Players ->
              IF idx \in Slots /\ w.slot[cyl][idx] # None THEN room(w.slot[cyl][idx])
              ELSE IF Stackable(w, i) THEN MaxStack ELSE 1
         [] cyl \in Tiles \/ nolimit -> Max({1, n})
         [] OTHER -> IF Stackable(w, i) THEN slots * MaxStack + room(there) ELSE slots

QueryRemove(w, cyl, i, n) ==
    Has(w, cyl, i) /\ n > 0 /\ (Stackable(w, i) => n <= w.count[i])

Dest(c, i, o) == [cyl |-> c, idx |-> i, item |-> o]

\* Player::__queryDestination without a slot: an empty slot, a worn
\* container, a container inside those, never what he offers in a trade.
PlacesOf(w, p) ==
    LET spare(c) == IsContainer(w, c) /\ w.offer[p] \notin {c} \cup Ancestors(w, c)
    IN {Dest(p, s, None) : s \in {t \in Slots : w.slot[p][t] = None}}
         \cup {Dest(c, Where, None) : c \in {x \in Holds(w, p) : spare(x)}}
Turn(w, p, d) ==                     \* the order in which they are tried
    LET no(s) == CHOOSE n \in DOMAIN SlotSeq : SlotSeq[n] = s
    IN IF d.cyl \in Items
       THEN IF w.parent[d.cyl] = p THEN Len(SlotSeq) + no(SlotOf(w, p, d.cyl))
            ELSE 2 * Len(SlotSeq) + 1
       ELSE IF d.idx = Where THEN 2 * Len(SlotSeq) + 2 ELSE no(d.idx)
FirstPlace(w, p, S) == CHOOSE d \in S : \A e \in S : Turn(w, p, d) <= Turn(w, p, e)
FindPlace(w, p, i) ==
    FirstPlace(w, p, {d \in PlacesOf(w, p) :
                        QueryAdd(w, d.cyl, d.idx, i, Count(w, i), FALSE) = "yes"}
                       \cup {Dest(p, Where, None)})

QueryDestination(w, cyl, idx, i) ==
    LET o == CASE cyl \in Players -> IF idx \in Slots THEN w.slot[cyl][idx] ELSE None
               [] cyl \in Tiles -> IF w.inside[cyl] = <<>> THEN None ELSE w.inside[cyl][1]
               [] OTHER -> IF idx >= 0 /\ idx < Min({Len(w.inside[cyl]), Capacity(w, cyl)})
                           THEN w.inside[cyl][idx + 1] ELSE None
    IN CASE cyl \in Players /\ idx \notin Slots -> FindPlace(w, cyl, i)
         [] cyl \in Items /\ idx = Up ->
              Dest(IF w.parent[cyl] \in Items THEN w.parent[cyl] ELSE cyl, Where, None)
         [] cyl \notin Tiles /\ IsContainer(w, o) -> Dest(o, Where, None)
         [] cyl \in Items /\ idx >= Capacity(w, cyl) -> Dest(cyl, Where, None)
         [] OTHER -> Dest(cyl, idx, o)

\* The loop of internalMoveItem: a container that is reached keeps the item.
Onward(w, cyl, d, i) ==
    IF d.cyl = cyl THEN d ELSE QueryDestination(w, d.cyl, d.idx, i)
Resolve(w, cyl, idx, i) == Onward(w, cyl, QueryDestination(w, cyl, idx, i), i)

-----------------------------------------------------------------------------
(* What the cylinders do when told.                                        *)

\* Container::updateItemWeight: the weight of c changed by d.
BumpOne(w, c, d) == [w EXCEPT !.total[c] = @ + d]   \* mutant: not above
Bump(w, c, d) ==
    LET up == {c} \cup Ancestors(w, c)
    IN [w EXCEPT !.total = [x \in Items |-> IF x \in up THEN @[x] + d ELSE @[x]]]

AddThing(w, cyl, idx, i) ==
    CASE cyl \in Players ->
           IF idx \notin Slots THEN w
           ELSE [w EXCEPT !.parent[i] = cyl, !.slot[cyl][idx] = i]
      [] cyl \in Tiles ->
           IF Len(w.inside[cyl]) >= TileRoom THEN w
           ELSE [w EXCEPT !.parent[i] = cyl, !.inside[cyl] = <<i>> \o @]
      [] OTHER ->
           IF idx >= Capacity(w, cyl) THEN w
           ELSE Bump([w EXCEPT !.parent[i] = cyl, !.inside[cyl] = <<i>> \o @],
                     cyl, Weight(w, i))

UpdateThing(w, i, k, n) ==
    LET u == [w EXCEPT !.kind[i] = k, !.count[i] = n]
    IN IF w.parent[i] \in Items THEN Bump(u, w.parent[i], Weight(u, i) - Weight(w, i))
       ELSE u

\* The thing at the place of old is exchanged for i.
ReplaceThing(w, cyl, old, i) ==
    LET u == [w EXCEPT !.parent[i] = cyl, !.parent[old] = None]
    IN IF cyl \in Players THEN [u EXCEPT !.slot[cyl][SlotOf(w, cyl, old)] = i]
       ELSE LET v == [u EXCEPT !.inside[cyl][Index(w, cyl, old)] = i]
            IN IF cyl \in Tiles THEN v ELSE Bump(v, cyl, Weight(w, i) - Weight(w, old))

RemoveThing(w, cyl, i, n) ==
    IF Stackable(w, i) /\ n # w.count[i]
    THEN UpdateThing(w, i, w.kind[i], w.count[i] - n)
    ELSE LET u == [w EXCEPT !.parent[i] = None]
         IN CASE cyl \in Players -> [u EXCEPT !.slot[cyl][SlotOf(w, cyl, i)] = None]
              [] cyl \in Tiles -> [u EXCEPT !.inside[cyl] = RemoveAt(@, Index(w, cyl, i))]
              [] OTHER -> Bump([u EXCEPT !.inside[cyl] = RemoveAt(@, Index(w, cyl, i))],
                              cyl, - Weight(w, i))

\* An object whose last reference goes, and those in it with it.
Blank(w, S) == [w EXCEPT
    !.parent = [x \in Items |-> IF x \in S THEN None ELSE @[x]],
    !.count  = [x \in Items |-> IF x \in S THEN 0 ELSE @[x]],
    !.total  = [x \in Items |-> IF x \in S THEN 0 ELSE @[x]],
    !.inside = [c \in DOMAIN @ |-> IF c \in S THEN <<>> ELSE @[c]],
    !.kind   = [x \in Items |-> IF x \in S THEN CHOOSE k \in Kinds : TRUE ELSE @[x]]]
Swept(w) == Blank(w, Free(w))

-----------------------------------------------------------------------------
(* The notifications after a change.                                       *)

\* Player::updateInventoryWeight, for the player who carries cyl.
Weigh(w, cyl) ==
    LET p == Root(w, cyl)
    IN IF p \in Players
       THEN [w EXCEPT !.carried[p] = WeightOf(w, SlotItems(w, p))]
       ELSE w

\* Player::autoCloseContainers: c, what is in it and what is gone.
AutoClose(w, p, c) ==
    [n \in Windows |->
        LET x == w.open[p][n]
        IN IF x = c \/ c \in Ancestors(w, x) \/ Root(w, x) = None THEN None ELSE x]

\* Player::postRemoveNotification of a container: it stays on the screen
\* if it still exists, is near and is not somebody else's.
LosesGone(w, p, i) == Root(w, i) = None             \* mutant: wherever it is
Loses(w, p, i) == \/ Root(w, i) = None \/ Spot(w, i) # w.at[p]
                  \/ Root(w, i) \in Players \ {p}
                  \/ w.parent[i] \in Players \ {p}
RemovedNotice(w, cyl, i) ==
    LET told == IF Root(w, cyl) \in Players THEN {Root(w, cyl)} ELSE Players
    IN [Weigh(w, cyl) EXCEPT !.open = [p \in Players |->
           IF IsContainer(w, i) /\ p \in told /\ Loses(w, p, i)
           THEN AutoClose(w, p, i) ELSE @[p]]]

\* n of i were taken out of w, which left u: what is gone is destroyed.
Discard(w, u, i, n) ==
    LET gone == IF u.parent[i] # None THEN {} ELSE {i} \cup Holds(w, i)
        less(k) == IF gone = {} THEN IF k = w.kind[i] THEN n ELSE 0
                   ELSE Tally(w, gone, k)
    IN [Blank(u, gone) EXCEPT !.ledger = [k \in Kinds |-> @[k] - less(k)]]

\* Game::internalRemoveItem of n of i.
RemoveItem(w, i, n) ==
    LET cyl == w.parent[i] IN
    IF cyl = None \/ ~QueryRemove(w, cyl, i, n) THEN w
    ELSE Discard(w, RemovedNotice(RemoveThing(w, cyl, i, n), cyl, i), i, n)

AddedNotice(w, cyl, i) ==
    IF cyl \in Trash /\ Has(w, cyl, i) THEN RemoveItem(w, i, Count(w, i))
    ELSE Weigh(w, cyl)

\* A movement script called by a notification: it may remove an item.
Scripted(w) == {w} \cup {RemoveItem(w, i, Count(w, i)) : i \in Placed(w)}

-----------------------------------------------------------------------------
(* Game's operations.                                                      *)

Fresh(w) == CHOOSE i \in Free(w) : TRUE
Create(w, i, k, n) == [w EXCEPT !.kind[i] = k, !.count[i] = Max({1, n})]

\* m of i, taken from `from' (which left u), are laid down at d: what the
\* stack there has room for is merged into it, the rest is a new object.
LayDown(w, u, from, d, i, m, merge) ==
    LET k == w.kind[i]
        j == IF u.parent[i] = None THEN i ELSE Fresh(u)
        v == IF merge = 0 THEN u
             ELSE UpdateThing(u, d.item, k, u.count[d.item] + merge)
    IN AddedNotice(
           RemovedNotice(CASE ~Stackable(w, i) -> AddThing(v, d.cyl, d.idx, i)
                           [] Stackable(w, i) /\ m > merge ->
                                AddThing(Create(v, j, k, m - merge), d.cyl, d.idx, j)
                           [] OTHER -> v,
                         from, i),
           d.cyl, IF merge = m /\ Stackable(w, i) THEN d.item ELSE j)

\* How many of k, at most n, the stack at d takes.
Mergeable(w, d, i, n) ==
    IF Stackable(w, i) /\ d.item # None /\ w.kind[d.item] = w.kind[i]
    THEN Min({MaxStack - w.count[d.item], n}) ELSE 0

\* What internalMoveItem does once the destination d has agreed.  Bound: a
\* stack is split only while an object for its other half is spare.
Transfer(w, from, d, i, n) ==
    LET max == QueryMaxCount(w, d.cyl, d.idx, i, n, FALSE)
        m   == IF Stackable(w, i) THEN Min({n, max}) ELSE max
    IN IF \/ max = 0 \/ ~QueryRemove(w, from, i, m)
          \/ Stackable(w, i) /\ m < w.count[i] /\ Free(w) = {} THEN {w}
       ELSE Scripted(Swept(LayDown(w, RemoveThing(w, from, i, m), from, d, i, m,
                                   Mergeable(w, d, i, m))))

\* What was at d has gone to `from', which left u.
SwapBack(u, from, x) == IF Has(u, from, x) THEN AddedNotice(u, from, x) ELSE u

\* The rest of internalMoveItem, for the destination d: what is there may
\* have to be exchanged for i first.
MoveTo(w, from, d, i, n) ==
    LET x == d.item
        takes(v) == QueryAdd(v, d.cyl, d.idx, i, n, FALSE)
        swaps == /\ takes(w) = "exchange"
                 /\ QueryAdd(w, from, Index(w, from, i), x, Count(w, x), FALSE) = "yes"
                 /\ QueryMaxCount(w, from, Where, x, Count(w, x), FALSE) > 0
        out == AddThing(RemoveThing(w, d.cyl, x, Count(w, x)), from, 0, x)
    IN UNION {IF i # x /\ takes(v) = "yes" /\ Has(v, from, i)
              THEN Transfer(v, from, [d EXCEPT !.item = IF swaps THEN None ELSE x], i, n)
              ELSE {v}
              : v \in IF i # x /\ swaps
                      THEN Scripted(SwapBack(RemovedNotice(out, d.cyl, x), from, x))
                      ELSE {w}}

\* Game::internalMoveItem: the worlds it may end in.
MoveItem(w, from, cyl, idx, i, n) == MoveTo(w, from, Resolve(w, cyl, idx, i), i, n)

\* Game::internalAddItem of a new item j of kind k, which u already has.
AddTo(w, u, j, d, k, n, nolimit) ==
    LET merge == Mergeable(u, d, j, n)
        whole == merge = n /\ Stackable(u, j)
        v == IF merge = 0 THEN u ELSE UpdateThing(u, d.item, k, u.count[d.item] + merge)
        out == IF whole THEN v               \* j is nowhere: nobody is told
               ELSE AddedNotice(AddThing(Create(v, j, k, n - merge), d.cyl, d.idx, j),
                                d.cyl, j)
    IN IF /\ QueryAdd(u, d.cyl, d.idx, j, Count(u, j), nolimit) = "yes"
          /\ QueryMaxCount(u, d.cyl, d.idx, j, Count(u, j), nolimit) >= Count(u, j)
       THEN [done |-> TRUE, world |-> Swept([out EXCEPT !.ledger[k] = @ + Count(u, j)])]
       ELSE [done |-> FALSE, world |-> w]
AddItem(w, cyl, idx, k, n, nolimit) ==
    LET j == Fresh(w)
        u == Create(w, j, k, n)
    IN IF Free(w) = {} THEN [done |-> FALSE, world |-> w]            \* bound
       ELSE AddTo(w, u, j, QueryDestination(u, cyl, idx, j), k, n, nolimit)

\* Game::internalPlayerAddItem: to the player, else to the floor.
PlayerAddItemOnly(w, p, k, n) == AddItem(w, p, Where, k, n, FALSE)  \* mutant
OrFloor(r, w, p, k, n) ==
    IF r.done THEN r ELSE AddItem(w, w.at[p], Where, k, n, TRUE)
PlayerAddItem(w, p, k, n) == OrFloor(AddItem(w, p, Where, k, n, FALSE), w, p, k, n)

\* Game::transformItem, when kinds k and kind[i] are both no "top" items.
TransformItem(w, i, k, n) ==
    LET cyl == w.parent[i]
        old == w.kind[i]
        size == IF n = -1 \/ ~Attr[k].stackable THEN w.count[i] ELSE n
        book(u, less, more) ==
            [u EXCEPT !.ledger = [x \in Kinds |-> @[x] - (IF x = old THEN less ELSE 0)
                                                      + (IF x = k THEN more ELSE 0)]]
        u == UpdateThing(w, i, k, size)
        j == Fresh(w)
        c == Create(w, j, k, n)
        v == Weigh(ReplaceThing(c, cyl, i, j), cyl)
        kin == Attr[k].class = Attr[old].class
    IN IF k = old /\ (n = -1 \/ (n = w.count[i] /\ n # 0)) THEN w
       ELSE IF kin /\ n = 0 /\ Stackable(w, i) THEN RemoveItem(w, i, w.count[i])
       ELSE IF kin THEN book(Weigh(u, cyl), Count(w, i), Count(u, i))
       ELSE Blank(book(RemovedNotice(v, cyl, i), Count(w, i), Count(v, j)), {i})

Money(w, p) == {i \in Holds(w, p) : Worth(w, i) > 0}                \* getMoney
Wealth(w, p) == SumOver(LAMBDA i : Worth(w, i), Money(w, p))

\* Game::addMoney: coins, the most valuable kind first, in piles.
AddMoney(w, p, m) ==
    LET give(r, k) ==
            LET n == r.left \div Attr[k].worth
                piles == (n + MaxStack - 1) \div MaxStack
                after[x \in 0..piles] ==
                    IF x = 0 THEN r.world
                    ELSE PlayerAddItem(after[x - 1], p, k,
                                       Min({MaxStack, n - (x - 1) * MaxStack})).world
            IN [left |-> r.left - n * Attr[k].worth, world |-> after[piles]]
        given[n \in 0..Len(Coins)] ==
            IF n = 0 THEN [left |-> m, world |-> w] ELSE give(given[n - 1], Coins[n])
    IN given[Len(Coins)].world

\* Game::removeMoney: the smallest stacks first, then the change.
RemoveMoney(w, p, m) ==
    LET least(S) == CHOOSE i \in S : \A x \in S : Worth(w, i) <= Worth(w, x)
        take(r, i) == [rest |-> r.rest \ {i}, left |-> r.left - Worth(w, i),
                       world |-> RemoveItem(r.world, i, Count(r.world, i))]
        paid[n \in 0..Cardinality(Money(w, p))] ==
            IF n = 0 THEN [rest |-> Money(w, p), left |-> m, world |-> w]
            ELSE LET r == paid[n - 1]
                 IN IF r.left <= 0 \/ r.rest = {} THEN r ELSE take(r, least(r.rest))
        last == paid[Cardinality(Money(w, p))]
    IN IF last.left < 0 THEN AddMoney(last.world, p, - last.left) ELSE last.world

-----------------------------------------------------------------------------
(* What happens.                                                           *)

Opened(w, p) == Range(w.open[p]) \ {None}

\* Where p finds an item he wants to move or use: in a slot, in a window
\* or on top of the tile he stands at.
Reaches(w, p, i) ==
    \/ w.parent[i] = p
    \/ w.parent[i] \in Opened(w, p)
    \/ w.parent[i] = w.at[p] /\ w.inside[w.at[p]][1] = i

Targets(w, p) ==
    {<<p, s>> : s \in Slots \cup {Where}} \cup {<<t, Where>> : t \in Tiles}
      \cup UNION {{<<c, n>> : n \in {Up, Where} \cup 0..(Capacity(w, c) - 1)} : c \in Opened(w, p)}

\* Bound: an object for what a script makes must be spare.
Spare == Free(world) # {}

\* Game::playerMoveItem
PlayerMoveItem(p) ==
    \E i \in Placed(world), target \in Targets(world, p), n \in 1..MaxStack :
        /\ Reaches(world, p, i) /\ n <= Count(world, i)
        /\ world' \in MoveItem(world, world.parent[i], target[1], target[2], i, n)

\* Opening a container, or closing it when a window shows it already.
PlayerUseContainer(p) ==
    \E c \in Placed(world), n \in Windows :
        /\ IsContainer(world, c) /\ Reaches(world, p, c)
        /\ world' = [world EXCEPT !.open[p] =
              IF c \in Opened(world, p)
              THEN [@ EXCEPT ![CHOOSE m \in Windows : @[m] = c] = None]
              ELSE [@ EXCEPT ![n] = c]]

\* Game::playerCloseContainer
PlayerCloseContainer(p) ==
    \E n \in Windows : world' = [world EXCEPT !.open[p][n] = None]

\* Game::playerMoveUpContainer
PlayerMoveUpContainer(p) ==
    \E n \in Windows :
        LET c == world.open[p][n] IN
        /\ c # None /\ world.parent[c] \in Items
        /\ world' = [world EXCEPT !.open[p][n] = world.parent[c]]

\* A step of p: what he leaves behind him closes.
Walked(w, p, t) ==
    LET v == [w EXCEPT !.at[p] = t]
        far == {c \in Opened(w, p) : Spot(v, c) # t}
    IN [v EXCEPT !.open[p] = [n \in Windows |->
            IF \E c \in far : AutoClose(v, p, c)[n] # @[n] THEN None ELSE @[n]]]
Walk(p) == \E t \in Tiles : world' = Walked(world, p, t)

\* Shops, fees: doPlayerRemoveMoney and its like.
Pay(p) ==
    \E m \in 1..Wealth(world, p) : Spare /\ world' = RemoveMoney(world, p, m)

\* Scripts and decay: an item goes, comes or changes (into a stack of none
\* only if it is a stack).
ScriptRemove == \E i \in Placed(world), n \in 1..MaxStack : world' = RemoveItem(world, i, n)
ScriptAdd(p) == \E k \in Kinds, n \in 1..MaxStack :
    /\ Spare /\ Attr[k].capacity = 0 /\ (~Attr[k].stackable => n = 1)
    /\ Amount(world, k) + n <= Supply[k]
    /\ world' = PlayerAddItem(world, p, k, n).world
ScriptTransform == \E i \in Placed(world), k \in Kinds, n \in {-1, 0, 1} :
    /\ Spare /\ ~IsContainer(world, i) /\ Attr[k].capacity = 0
    /\ n = 0 /\ Attr[k].stackable => Stackable(world, i)
    /\ k # world.kind[i] => Amount(world, k) + Count(world, i) <= Supply[k]
    /\ world' = TransformItem(world, i, k, n)

Typed(w) ==
    /\ DOMAIN w = {"kind", "count", "parent", "inside", "slot", "total", "carried",
                   "open", "at", "offer", "ledger"}
    /\ w.kind \in [Items -> Kinds] /\ w.count \in [Items -> 0..MaxStack]
    /\ w.parent \in [Items -> Players \cup Tiles \cup Items \cup {None}]
    /\ w.inside \in [Items \cup Tiles -> Seq(Items)]
    /\ w.slot \in [Players -> [Slots -> Items \cup {None}]]
    /\ w.open \in [Players -> [Windows -> Items \cup {None}]]
    /\ w.at \in [Players -> Tiles] /\ w.offer \in [Players -> Items \cup {None}]

InPlace(w) ==
    /\ Typed(w)
    /\ \A i \in Placed(w) : /\ Root(w, i) # None /\ Has(w, w.parent[i], i)
                            /\ Count(w, i) \in 1..MaxStack
    /\ \A c \in Items \cup Tiles :
         /\ IsInjective(w.inside[c])
         /\ \A i \in Range(w.inside[c]) : w.parent[i] = c
         /\ c \in Items => Len(w.inside[c]) <= Capacity(w, c)
    /\ \A p \in Players, s \in Slots :
         LET i == w.slot[p][s]
         IN i # None => /\ w.parent[i] = p
                        /\ \A t \in Slots : w.slot[p][t] = i => t = s

InReach(w) == \A p \in Players : \A c \in Opened(w, p) :
    /\ IsContainer(w, c) /\ Root(w, c) # None /\ Spot(w, c) = w.at[p]
    /\ Root(w, c) \in Players => Root(w, c) = p

\* The server starts with things in order, and players who see what they may.
ASSUME StartAssumption == InPlace(Start) /\ InReach(Start)

CylindersInit == world = Start
CylindersNext ==
    \/ \E p \in Players : \/ PlayerMoveItem(p) \/ PlayerUseContainer(p)
                          \/ PlayerCloseContainer(p) \/ PlayerMoveUpContainer(p)
                          \/ Walk(p) \/ Pay(p) \/ ScriptAdd(p)
    \/ ScriptRemove \/ ScriptTransform
CylindersSpec == CylindersInit /\ [][CylindersNext]_cylindersVars

-----------------------------------------------------------------------------
(* Properties.                                                             *)

CylindersTypeOK == Typed(world)

\* Every item is where its parent pointer says, once, under a player or a
\* tile (no container is in itself, however they are moved); no container
\* and no stack is more than full.
WellPlaced == InPlace(world)

\* Nothing is lost and nothing doubled: what there is of a kind is what was
\* created of it less what was removed, whatever exchange, split, merge or
\* refusal a move went through and whatever a script did inside it.
Conserved == \A k \in Kinds : Amount(world, k) = world.ledger[k]

\* The cached weights are the weights: of a container what is in it, of a
\* player what he wears, though only differences are ever applied.
WeightsAgree ==
    /\ \A c \in Placed(world) : world.total[c] = WeightOf(world, Range(world.inside[c]))
    /\ \A p \in Players : world.carried[p] = WeightOf(world, SlotItems(world, p))

\* A player looks into nothing that is no container, is gone, out of his
\* reach or in somebody else's inventory.
WindowsInReach == InReach(world)

\* Nobody takes up more than he can carry, nor a two-handed thing beside
\* another, whatever he moves where: only a script that transforms what he
\* holds does that.
Clumsy(w, p) == \E s \in DOMAIN OtherHand :
    /\ None \notin {w.slot[p][s], w.slot[p][OtherHand[s]]}
    /\ Attr[w.kind[w.slot[p][s]]].hand = "two"
NeverOverloaded == [][\A p \in Players :
    \/ world'.carried[p] > world.carried[p] /\ world'.carried[p] > Strength
    \/ Clumsy(world', p) /\ ~Clumsy(world, p)
    => ScriptTransform]_cylindersVars

\* Who pays, pays the price: unless the tile he stands on is full, when his
\* change may be lost, or is one for trash.
PaysThePrice == Spare => \A p \in Players : \A m \in 1..Wealth(world, p) :
    LET v == RemoveMoney(world, p, m)
        all(w) == SumOver(LAMBDA i : Worth(w, i), Placed(w))
    IN \/ all(v) = all(world) - m
       \/ Len(world.inside[world.at[p]]) >= TileRoom \/ world.at[p] \in Trash
=============================================================================
