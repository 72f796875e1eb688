CONSTANTS
  i1 = i1 i2 = i2 i3 = i3 ann = ann bob = bob here = here yonder = yonder away = away
  fist = fist shoulder = shoulder view = view ring = ring orb = orb bag = bag None = None
  Items <- MCItems
  Kinds = {ring, orb, bag}
  Attr <- MCAttr
  Players = {ann, bob}
  Tiles = {here, yonder, away}
  Seen <- MCSeen
  SlotSeq <- MCSlotSeq
  OtherHand <- MCHands
  Trash = {}
  MaxStack = 1
  TileRoom = 2
  Supply <- MCSupply
  Coins <- MCCoins
  Strength = 4
  Windows = {view}
  Start <- MCStart
SPECIFICATION TradeSpec
INVARIANTS TradeAgrees
PROPERTIES OfferStands ExchangeWhole
CHECK_DEADLOCK FALSE
