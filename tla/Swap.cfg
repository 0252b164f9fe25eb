SPECIFICATION Spec
CONSTANTS
  Players = {1, 2}
  Items = {"radio", "crack", "tek9"}
  Bulky = {"tek9"}
  Armory = {"tek9"}
  ArmoryCap = 2
  OfferIds = {1, 2}
  Handlers = {h1}
  ActionIds = {}
  MaxUnits = 1
  MaxAskItems = 1
  FeePercent = 1
  FeeMin = 1
  Minute = 1
  Retention = 1
  MaxClock = 1
  PauseTimes = {}
  SeasonEnd = 9
  None = None
  Closed = Closed
  Listings <- SwapListings
  OfferSlots <- TwoSlots
  Book <- OneCent
  StartCash <- TwoCents
  StartHeld <- SwapHeld
  StartTagged <- SwapTagged
PROPERTIES ArmoryRespected
CHECK_DEADLOCK FALSE
