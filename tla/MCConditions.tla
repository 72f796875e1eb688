---------------------------- MODULE MCConditions ------------------------------
(* Two worlds: haste and paralysis, attributes and invisibility.            *)
EXTENDS Conditions

condition(t, i, n, d) == [type |-> t, id |-> i, ticks |-> n, delta |-> d]
MCBooks == {
    {condition("HASTE", "COMBAT", 1, 2), condition("HASTE", "COMBAT", 2, 1),
     condition("PARALYZE", "DEFAULT", 1, -3)},
    {condition("ATTRIBUTES", "DEFAULT", 2, 1), condition("ATTRIBUTES", "DEFAULT", 2, -2),
     condition("INVISIBLE", "COMBAT", 2, 0)}}
===============================================================================
