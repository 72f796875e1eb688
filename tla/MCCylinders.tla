----------------------------- MODULE MCCylinders -----------------------------
(* A small world: one player, a tile and one for trash, two bags, coins, a  *)
(* gem and a two-handed sword.                                              *)
EXTENDS Cylinders

CONSTANTS i1, i2, i3, i4, i5, hero, here, away, left, right, shoulder, view,
          coin, gem, sword, bag

kindRecord(st, cap, wt, sl, h, wo, cl) ==
    [stackable |-> st, capacity |-> cap, weight |-> wt, slots |-> sl,
     hand |-> h, worth |-> wo, class |-> cl]
MCAttr == (coin  :> kindRecord(TRUE, 0, 1, {left}, "other", 1, "none")) @@
          (gem   :> kindRecord(TRUE, 0, 1, {left}, "other", 2, "none")) @@
          (sword :> kindRecord(FALSE, 0, 2, {left, right}, "two", 0, "weapon")) @@
          (bag   :> kindRecord(FALSE, 2, 1, {shoulder}, "other", 0, "container"))
MCSlotSeq == <<shoulder, right, left>>
MCHands   == (left :> right) @@ (right :> left)
MCItems   == {i1, i2, i3, i4, i5}
MCSymmetry == Permutations(MCItems)
MCCoins   == <<gem, coin>>
MCSupply  == (coin :> 2) @@ (gem :> 1) @@ (sword :> 1) @@ (bag :> 2)
MCStart ==
    [kind   |-> (i1 :> bag) @@ (i2 :> bag) @@ (i3 :> gem) @@ (i4 :> sword) @@ (i5 :> coin),
     count  |-> (i1 :> 1) @@ (i2 :> 1) @@ (i3 :> 1) @@ (i4 :> 1) @@ (i5 :> 0),
     parent |-> (i1 :> hero) @@ (i2 :> here) @@ (i3 :> here) @@ (i4 :> hero) @@ (i5 :> None),
     inside |-> [x \in MCItems \cup {here, away} |-> IF x = here THEN <<i2, i3>> ELSE <<>>],
     slot   |-> (hero :> ((shoulder :> i1) @@ (left :> i4) @@ (right :> None))),
     total  |-> [i \in MCItems |-> 0],
     carried |-> (hero :> 3), open |-> (hero :> (view :> None)), at |-> (hero :> here),
     offer |-> (hero :> None),
     ledger |-> (coin :> 0) @@ (gem :> 1) @@ (sword :> 1) @@ (bag :> 2)]
=============================================================================
