---------------------------- MODULE MCPopulation ----------------------------
EXTENDS Population, TLC
CONSTANTS r1, r2
MCSlots == 1..2
MCRefType == (r1 :> "block") @@ (r2 :> "single")
MCEvents == (r1 :> <<"items", "monsters">>) @@ (r2 :> <<"monsters", "other">>)
=============================================================================
