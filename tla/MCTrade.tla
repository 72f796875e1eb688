------------------------------- MODULE MCTrade -------------------------------
(* Two players on two tiles near each other, a tile far away, a bag with a  *)
(* ring in it, and an orb, which is not worn and needs the bag's room.      *)
EXTENDS Trade

CONSTANTS i1, i2, i3, ann, bob, here, yonder, away, fist, shoulder, view, ring, orb, bag

kindRecord(cap, sl) ==
    [stackable |-> FALSE, capacity |-> cap, weight |-> 1, slots |-> sl,
     hand |-> "other", worth |-> 0, class |-> "none"]
MCAttr == (ring :> kindRecord(0, {fist})) @@ (orb :> kindRecord(0, {})) @@ (bag :> kindRecord(1, {shoulder}))
MCSlotSeq == <<shoulder, fist>>
MCHands   == [s \in {} |-> s]
MCItems   == {i1, i2, i3}
MCSeen    == {here, yonder} \X {here, yonder} \cup {<<away, away>>}
MCCoins   == <<>>
MCSupply  == (ring :> 1) @@ (orb :> 1) @@ (bag :> 1)
MCStart ==
    [kind   |-> (i1 :> bag) @@ (i2 :> ring) @@ (i3 :> orb),
     count  |-> [i \in MCItems |-> 1],
     parent |-> (i1 :> ann) @@ (i2 :> i1) @@ (i3 :> yonder),
     inside |-> [x \in MCItems \cup {here, yonder, away} |-> IF x = i1 THEN <<i2>> ELSE IF x = yonder THEN <<i3>> ELSE <<>>],
     slot   |-> (ann :> ((shoulder :> i1) @@ (fist :> None))) @@ (bob :> ((shoulder :> None) @@ (fist :> None))),
     total  |-> [i \in MCItems |-> IF i = i1 THEN 1 ELSE 0],
     carried |-> (ann :> 2) @@ (bob :> 0), open |-> [r \in {ann, bob} |-> (view :> None)],
     at |-> (ann :> here) @@ (bob :> yonder), offer |-> [r \in {ann, bob} |-> None],
     ledger |-> (ring :> 1) @@ (orb :> 1) @@ (bag :> 1)]
==============================================================================
