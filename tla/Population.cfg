\* Two slots and two raids, one of which waits for what it has placed.
CONSTANTS
    Slots <- MCSlots
    RateSpawn = 1
    r1 = r1
    r2 = r2
    Raids = {r1, r2}
    RefType <- MCRefType
    Events <- MCEvents
    Brood = {a, b}
    Horde = {x}
    MaxChecks = 2
    MaxLost = 1
    None = None
SPECIFICATION PopulationSpec
INVARIANTS
    PopulationAgrees
PROPERTIES
    SlotsFill
    RaidsEnd
