-------------------------------- MODULE Trade --------------------------------
(***************************************************************************)
(* Trades between two players (game.cpp), on top of the things they trade: *)
(* an offer is a pointer to an item that stays where it is, so that every  *)
(* change of a thing (module Cylinders) may end a trade, and the exchange  *)
(* itself is two moves after two tests.  Scripts run in between: at the    *)
(* acceptance and inside each move.                                        *)
(*                                                                         *)
(* Left out: the documents that sell a house, the walk to a thing that is  *)
(* too far away, looking at an offer (it changes nothing).                 *)
(***************************************************************************)
EXTENDS Cylinders

CONSTANT Seen                        \* pairs of tiles at most two apart

ASSUME TradeAssumption ==
    /\ \A pair \in Seen : <<pair[2], pair[1]>> \in Seen
    /\ Start.offer = [p \in Players |-> None]

(***************************************************************************)
(* state[p] and partner[p] are Player::tradeState and tradePartner;        *)
(* Player::tradeItem is world.offer[p].  TRADE_TRANSFER is only there      *)
(* inside an exchange, which is one step.  goods is Game::tradeItems,      *)
(* online the players in the world, stopped a server that no longer runs   *)
(* (a failed assertion, a call on a null item).                            *)
(***************************************************************************)
VARIABLES state, partner, goods, online, stopped
dealVars == <<state, partner, goods, online, stopped>>
allVars  == <<world, dealVars>>

States == {"none", "initiated", "acknowledge", "accept"}
Offer(p)   == world.offer[p]
Offered(w) == {w.offer[p] : p \in Players} \ {None}

\* Game::internalCloseTrade for every player of S, and his partner.
Closed(S) == S \cup ({partner[p] : p \in S} \ {None})
CloseTrade(w, S) ==
    LET out == Closed(S) IN
    /\ world' = [w EXCEPT !.offer = [p \in Players |-> IF p \in out THEN None ELSE @[p]]]
    /\ goods' = goods \ {w.offer[p] : p \in out}
    /\ state' = [p \in Players |-> IF p \in out THEN "none" ELSE state[p]]
    /\ partner' = [p \in Players |-> IF p \in out THEN None ELSE partner[p]]

\* What became of the things between two worlds.
Changed(w, v) == {x \in Placed(w) \cup Placed(v) :
    \/ <<w.parent[x], w.count[x], w.kind[x]>> # <<v.parent[x], v.count[x], v.kind[x]>>
    \/ w.parent[x] \in Players /\ SlotOf(w, w.parent[x], x) # SlotOf(v, v.parent[x], x)}

\* Player::checkTradeState and its callers: t itself, what is in it, what
\* it is in was changed, or something was taken out of a container further up.
TouchesItself(w, v, x, t) == x = t   \* mutant: only t itself
Touches(w, v, x, t) ==
    \/ x = t \/ t \in Ancestors(w, x) \cup Ancestors(v, x)
    \/ x \in Ancestors(w, t)
    \/ w.parent[x] \in (Ancestors(w, t) \cap Items) \ {w.parent[t]} /\ w.parent[x] # v.parent[x]
Disturbed(w, v, extra) == {p \in Players : /\ w.offer[p] # None
                                           /\ \E x \in Changed(w, v) \cup extra : Touches(w, v, x, w.offer[p])}

\* The things change; the trades they disturb end.
ThingsBecome(v, extra) ==
    /\ CloseTrade(v, Disturbed(world, v, extra))
    /\ UNCHANGED <<online, stopped>>

-----------------------------------------------------------------------------
(* The players' requests.                                                  *)

Ready(p) == ~stopped /\ p \in online

\* Game::playerRequestTrade and internalStartTrade
Traded(i) == \E t \in goods : t = i \/ t \in Ancestors(world, i) \/ i \in Ancestors(world, t)
FreeFor(p, q) == state[p] = "none" \/ (state[p] = "acknowledge" /\ partner[p] = q)
RequestTrade(p, q, i) ==
    /\ Ready(p) /\ q \in online \ {p} /\ <<world.at[p], world.at[q]>> \in Seen
    /\ Reaches(world, p, i) /\ ~Traded(i)
    /\ FreeFor(p, q) /\ (state[q] = "none" \/ partner[q] = p)
    /\ world' = [world EXCEPT !.offer[p] = i]
    /\ goods' = goods \cup {i}
    /\ state' = [state EXCEPT ![p] = "initiated",
                              ![q] = IF @ = "none" THEN "acknowledge" ELSE @]
    /\ partner' = [partner EXCEPT ![p] = q, ![q] = p]
    /\ UNCHANGED <<online, stopped>>

\* The first acceptance, and one that a script refuses, only mark p.
AcceptAlone(p) ==
    /\ Ready(p) /\ state[p] \in {"acknowledge", "initiated"}
    /\ state' = [state EXCEPT ![p] = "accept"]
    /\ UNCHANGED <<world, partner, goods, online, stopped>>

\* internalAddItem and internalRemoveItem, both only as a test.
TakesAt(w, d, i) ==
    /\ QueryAdd(w, d.cyl, d.idx, i, Count(w, i), FALSE) = "yes"
    /\ QueryMaxCount(w, d.cyl, d.idx, i, Count(w, i), FALSE) >= Count(w, i)
Takes(w, p, i) == TakesAt(w, QueryDestination(w, p, Where, i), i)
Given(w, i) == w.parent[i] # None /\ QueryRemove(w, w.parent[i], i, Count(w, i))
FitsOne(w, p, q, i, j)  == Takes(w, q, i) /\ Given(w, i) /\ Given(w, j)  \* mutant
FitsBoth(w, p, q, i, j) ==
    Takes(w, q, i) /\ Takes(w, p, j) /\ Given(w, i) /\ Given(w, j)

\* The second one: i of p for j of q.  A script saw the two items first.
AcceptBoth(p) ==
    LET q == partner[p]
        i == Offer(p)
        j == Offer(q)
        give(w, from, to, x) == MoveItem(w, w.parent[x], to, Where, x, Count(w, x))
        done(w) == /\ CloseTrade([w EXCEPT !.offer = world.offer],
                                 {p, q} \cup Disturbed(world, w, {}))
                   /\ stopped' = FALSE
        \* the script removed something: a disturbed trade is closed already
        tell(w) == [w EXCEPT !.offer = [r \in Players |->
                       IF r \in Closed(Disturbed(world, w, {})) THEN None ELSE @[r]]]
    IN /\ Ready(p) /\ state[p] \in {"acknowledge", "initiated"}
       /\ q # None /\ state[q] = "accept"
       /\ UNCHANGED online
       /\ IF None \in {i, j}
          THEN stopped' = TRUE /\ UNCHANGED <<world, state, partner, goods>>
          ELSE \E w \in {tell(v) : v \in Scripted(world)} :
                 IF ~FitsBoth(w, p, q, i, j) THEN done(w)
                 ELSE \E v \in give(w, p, q, i) :
                        IF v.parent[j] = None     \* the assertion in internalMoveItem
                        THEN stopped' = TRUE /\ UNCHANGED <<world, state, partner, goods>>
                        ELSE \E u \in give(v, q, p, j) : done(u)

\* Game::playerCloseTrade
PlayerCloseTrade(p) ==
    /\ Ready(p) /\ partner[p] # None
    /\ CloseTrade(world, {p}) /\ UNCHANGED <<online, stopped>>

-----------------------------------------------------------------------------
(* What else happens to them.                                              *)

FarPartner(w, p) ==                 \* mutant: the offer is forgotten
    partner[p] # None /\ <<w.at[p], w.at[partner[p]]>> \notin Seen

\* Player::onCreatureMove: the offer or the partner is too far away.
FarOffer(w, p) == \/ w.offer[p] # None /\ Spot(w, w.offer[p]) # w.at[p]
                  \/ partner[p] # None /\ <<w.at[p], w.at[partner[p]]>> \notin Seen
TradeWalk(p) == \E t \in Tiles \ {world.at[p]} :
    LET w == Walked(world, p, t) IN
    /\ Ready(p) /\ UNCHANGED <<online, stopped>>
    /\ CloseTrade(w, IF FarOffer(w, p) THEN {p} ELSE {})

\* Things are moved, looked into and removed as in Cylinders.
TradeMove(p) ==
    \E i \in Placed(world), target \in Targets(world, p) :
        /\ Ready(p) /\ Reaches(world, p, i)
        /\ \E v \in MoveItem(world, world.parent[i], target[1], target[2], i, 1) :
             ThingsBecome(v, IF v = world THEN {} ELSE {i})
TradeWindow(p) == /\ Ready(p) /\ UNCHANGED dealVars
                  /\ PlayerUseContainer(p)
TradeScript == /\ ~stopped
               /\ \E i \in Placed(world) : ThingsBecome(RemoveItem(world, i, 1), {})

\* Player::onCreatureDisappear: he takes with him what he wears.
Leave(p) ==
    LET w == [Blank(world, Holds(world, p)) EXCEPT
                !.slot[p] = [s \in Slots |-> None], !.carried[p] = 0,
                !.open[p] = [n \in Windows |-> None]]
    IN /\ Ready(p)
       /\ CloseTrade([w EXCEPT !.offer = world.offer], {p})
       /\ online' = online \ {p} /\ UNCHANGED stopped

TradeInit == /\ world = Start /\ goods = {} /\ online = Players /\ stopped = FALSE
             /\ state = [p \in Players |-> "none"] /\ partner = [p \in Players |-> None]
TradeNext ==
    \/ \E p \in Players :
         \/ \E q \in Players, i \in Placed(world) : RequestTrade(p, q, i)
         \/ AcceptAlone(p) \/ AcceptBoth(p) \/ PlayerCloseTrade(p)
         \/ TradeWalk(p) \/ TradeMove(p) \/ TradeWindow(p) \/ Leave(p)
    \/ TradeScript
TradeSpec == TradeInit /\ [][TradeNext]_allVars

-----------------------------------------------------------------------------
(* Properties.                                                             *)

TradeTypeOK ==
    /\ state \in [Players -> States] /\ partner \in [Players -> Players \cup {None}]
    /\ goods \subseteq Items /\ online \subseteq Players /\ stopped \in BOOLEAN

\* Both sides of a trade know each other, are in the world and near; the
\* server's list of offers is what the players offer, and no thing is
\* offered twice: so no trade is left over whatever was moved, removed or
\* left in between.
TradersAgree ==
    /\ TradeTypeOK
    /\ goods = Offered(world)
    /\ \A p \in Players :
         /\ (state[p] = "none") = (partner[p] = None)
         /\ partner[p] # None => /\ partner[partner[p]] = p
                                 /\ {p, partner[p]} \subseteq online
                                 /\ <<world.at[p], world.at[partner[p]]>> \in Seen
         /\ Offer(p) # None =>
              /\ partner[p] # None /\ state[p] \in {"initiated", "accept"}
              /\ \A q \in Players \ {p} : Offer(q) # Offer(p)

\* What is offered exists, is at hand of the one who offers it, and is not
\* part of another offer.
OffersAtHand == \A p \in Players : Offer(p) # None =>
    /\ Spot(world, Offer(p)) = world.at[p]
    /\ Root(world, Offer(p)) \in Tiles \cup {p}
    /\ \A q \in Players \ {p} : Offer(q) # None =>
         Offer(q) \notin Ancestors(world, Offer(p))

\* A trade ends with whatever would make it wrong: an offer, a trader or a
\* distance that is no longer what both have seen.
TradeAgrees == TradersAgree /\ OffersAtHand

\* What a player sees offered is what he gets: as long as an offer stands,
\* what it is and what is in it stay as they were when it was made.
OfferStands == [][\A p \in Players :
    LET t == Offer(p) IN
    t # None /\ t = Offer(p)' =>
        /\ <<world.kind[t], world.count[t], world.parent[t]>>
             = <<world'.kind[t], world'.count[t], world'.parent[t]>>
        /\ Holds(world, t) = Holds(world', t)]_allVars

\* All or nothing: what a player has gets into the hands of another one only
\* as his offer to him, and what that one offered comes back in the same step.
\* The exception the code allows: a script destroys something in the middle.
ExchangeWhole == [][\A p \in Players : \A x \in Holds(world, p) :
    LET q == Root(world', x)
    IN q \in Players \ {p} =>
         /\ Offer(p) \in {x} \cup Ancestors(world, x) /\ partner[p] = q
         /\ Offer(q) # None
         /\ Root(world', Offer(q)) = p \/ world'.ledger # world.ledger]_allVars
==============================================================================
