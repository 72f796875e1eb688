\* Two items, of which one may be copied from the other.
CONSTANTS
    Item = {item1, item2}
    Delays = {0, 2}
    MaxTime = 4
    MaxTasks = 3
SPECIFICATION FairSpec
INVARIANTS
    TileItemCounted
PROPERTIES
    ExpiryOnlyOnTiles
    TileItemExpires
CHECK_DEADLOCK FALSE
