CONSTANTS
  i1 = i1 i2 = i2 i3 = i3 i4 = i4 i5 = i5
  hero = hero here = here away = away left = left right = right shoulder = shoulder view = view
  coin = coin gem = gem sword = sword bag = bag None = None
  Items <- MCItems
  Kinds = {coin, gem, sword, bag}
  Attr <- MCAttr
  Players = {hero}
  Tiles = {here, away}
  SlotSeq <- MCSlotSeq
  OtherHand <- MCHands
  Trash = {away}
  MaxStack = 2
  TileRoom = 2
  Supply <- MCSupply
  Coins <- MCCoins
  Strength = 5
  Windows = {view}
  Start <- MCStart
SYMMETRY MCSymmetry
SPECIFICATION CylindersSpec
INVARIANTS WellPlaced Conserved WeightsAgree WindowsInReach PaysThePrice
PROPERTIES NeverOverloaded
CHECK_DEADLOCK FALSE
