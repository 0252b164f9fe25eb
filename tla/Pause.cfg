SPECIFICATION Spec
CONSTANTS
  Players = {1, 2}
  Items = {"radio"}
  Bulky = {}
  Armory = {}
  ArmoryCap = 9
  OfferIds = {1}
  Handlers = {h1}
  ActionIds = {a1}
  MaxUnits = 1
  MaxAskItems = 1
  FeePercent = 1
  FeeMin = 1
  Minute = 2
  Retention = 1
  MaxClock = 4
  PauseTimes = {0, 1}
  SeasonEnd = 3
  None = None
  Closed = Closed
  Listings <- PauseListings
  OfferSlots <- OneSlot
  Book <- OneCent
  StartCash <- TwoCents
  StartHeld <- OneAndTwo
  StartTagged <- Untagged
INVARIANTS FilledOncePerAction
PROPERTIES FullTimeOnSale
CHECK_DEADLOCK FALSE
